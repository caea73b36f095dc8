--------------------------- MODULE CircularBuffer ---------------------------
(***************************************************************************)
(* circular_buffer of tools/utils/CircularQueue.hxx: a ring of array_size_ *)
(* slots, read from head_, written after tail_.  LoopInfo keeps the stamps *)
(* of a loop's latest iterations in one.                                   *)
(*                                                                         *)
(* Slots are numbered from 0, as in the code.  A destroyed element leaves  *)
(* its bits in the slot (the items are uint64_t).  A slot nothing was      *)
(* written to yet holds NoItem.                                            *)
(***************************************************************************)
EXTENDS Integers, Sequences

CONSTANTS
  Item,          \* the elements
  NoItem,        \* content of a slot that was never written
  MinCapacity,   \* capacity the buffer is constructed with
  MaxCapacity    \* bound of the model on reserve()

(* With a single slot head_ = 1 would start outside the array; the code's  *)
(* only instance has two.                                                  *)
ASSUME CapacityAssumption ==
  /\ MinCapacity \in Nat
  /\ MinCapacity >= 2
  /\ MaxCapacity \in Nat
  /\ MinCapacity <= MaxCapacity

ASSUME ItemAssumption == NoItem \notin Item

VARIABLES
  array,      \* array_
  capacity,   \* array_size_
  head,       \* head_: slot of the oldest element
  tail,       \* tail_: slot of the newest element
  size        \* contents_size_

vars == <<array, capacity, head, tail, size>>

-----------------------------------------------------------------------------
(* Index arithmetic.                                                       *)

Slot(i) == (i + head) % capacity

NextTail == IF tail + 1 = capacity THEN 0 ELSE tail + 1

(* Mutant of NextHead: the wrap-around forgotten.                          *)
NextHeadUnwrapped == head + 1

NextHead == IF head + 1 = capacity THEN 0 ELSE head + 1

(* What begin() .. end() enumerates.                                       *)
Contents == [i \in 1 .. size |-> array[Slot(i - 1)]]

-----------------------------------------------------------------------------

Init ==
  /\ capacity = MinCapacity
  /\ array = [s \in 0 .. capacity - 1 |-> NoItem]
  /\ head = 1
  /\ tail = 0
  /\ size = 0

PushRoom(x) ==
  /\ size /= capacity
  /\ array' = [array EXCEPT ![NextTail] = x]
  /\ tail' = NextTail
  /\ size' = size + 1
  /\ UNCHANGED <<capacity, head>>

(* Mutant of PushOverwrite: head_ stays on the slot just overwritten.      *)
PushOverwriteKeepsHead(x) ==
  /\ size = capacity
  /\ array' = [array EXCEPT ![NextTail] = x]
  /\ tail' = NextTail
  /\ UNCHANGED <<capacity, head, size>>

(* Full: the newest element takes the slot of the oldest.  The decrement   *)
(* of increment_head and the increment of increment_tail cancel out.       *)
PushOverwrite(x) ==
  /\ size = capacity
  /\ array' = [array EXCEPT ![NextTail] = x]
  /\ head' = NextHead
  /\ tail' = NextTail
  /\ UNCHANGED <<capacity, size>>

(* The caller checks for emptiness: increment_head states it as its        *)
(* precondition.                                                           *)
PopFront ==
  /\ size > 0
  /\ head' = NextHead
  /\ size' = size - 1
  /\ UNCHANGED <<array, capacity, tail>>

(* Mutant of Clear: tail_ not reset.                                       *)
ClearKeepsTail ==
  /\ head' = 1
  /\ size' = 0
  /\ UNCHANGED <<array, capacity, tail>>

Clear ==
  /\ head' = 1
  /\ tail' = 0
  /\ size' = 0
  /\ UNCHANGED <<array, capacity>>

(* The array assign_into leaves in a fresh buffer of n slots: the elements *)
(* pushed in order, the first one into slot 1.                             *)
Relocated(n) ==
  [s \in 0 .. n - 1 |->
     LET i == (s + n - 1) % n
     IN  IF i < size THEN array[Slot(i)] ELSE NoItem]

(* b = b: copy-construct, then swap.  The copy takes over head_ and tail_; *)
(* assign_into resets them when there is anything to copy.                 *)
Copy ==
  /\ array' = Relocated(capacity)
  /\ head' = IF size = 0 THEN head ELSE 1
  /\ tail' = IF size = 0 THEN tail ELSE size % capacity
  /\ UNCHANGED <<capacity, size>>

Reserve(n) ==
  /\ capacity < n
  /\ array' = Relocated(n)
  /\ capacity' = n
  /\ head' = 1
  /\ tail' = size % n
  /\ UNCHANGED size

(* always_accept_data_when_full is true, as in every buffer of the         *)
(* profiler.                                                               *)
Next ==
  \/ \E x \in Item : PushRoom(x) \/ PushOverwrite(x)
  \/ PopFront
  \/ Clear
  \/ Copy
  \/ \E n \in MinCapacity .. MaxCapacity : Reserve(n)

Spec == Init /\ [][Next]_vars

-----------------------------------------------------------------------------
(* Properties.                                                             *)

(* Every index stays inside the allocated array.                           *)
TypeOK ==
  /\ capacity \in MinCapacity .. MaxCapacity
  /\ array \in [0 .. capacity - 1 -> Item \cup {NoItem}]
  /\ head \in 0 .. capacity - 1
  /\ tail \in 0 .. capacity - 1
  /\ size \in 0 .. capacity

(* tail_ is kept by its own increments and never derived from head_ and    *)
(* contents_size_: through overwrites, pops, clears and copies it must     *)
(* still name the slot of the last element (one before head_ when empty),  *)
(* or back() and the next push_back use a wrong slot.                      *)
TailFollows ==
  \/ tail = head + size - 1
  \/ tail = head + size - 1 - capacity
  \/ head = 0 /\ size = 0 /\ tail = capacity - 1

(* The buffer implements the bounded window.                               *)
Window == INSTANCE BoundedWindow WITH
  window <- Contents, limit <- capacity,
  MinLimit <- MinCapacity, MaxLimit <- MaxCapacity

ImplementsWindow == Window!Spec

=============================================================================
