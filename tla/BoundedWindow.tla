--------------------------- MODULE BoundedWindow ---------------------------
(***************************************************************************)
(* What circular_buffer promises its clients: a queue that holds the items *)
(* pushed last, at most `limit' of them, oldest first.  LoopHierarchy only *)
(* relies on this: the iteration stamps of a loop, newest last.            *)
(***************************************************************************)
EXTENDS Windows

CONSTANTS
  Item,      \* what the window holds
  MinLimit,  \* the limit it is created with
  MaxLimit   \* bound of the model: no window is ever given a larger limit

VARIABLES
  window,    \* the items held, oldest first
  limit      \* how many items it can hold

vars == <<window, limit>>

Init ==
  /\ window = <<>>
  /\ limit = MinLimit

(* A push is always accepted; a full window forgets its oldest item.       *)
Push(x) ==
  /\ window' = Pushed(window, limit, x)
  /\ UNCHANGED limit

DropOldest ==
  /\ window /= <<>>
  /\ window' = Tail(window)
  /\ UNCHANGED limit

Empty ==
  /\ window' = <<>>
  /\ UNCHANGED limit

Grow ==
  /\ limit' \in (limit + 1) .. MaxLimit
  /\ UNCHANGED window

Next ==
  \/ \E x \in Item : Push(x)
  \/ DropOldest
  \/ Empty
  \/ Grow

Spec == Init /\ [][Next]_vars

=============================================================================
