------------------------------ MODULE Windows ------------------------------
(***************************************************************************)
(* Pushing into a window that keeps the latest n items.                    *)
(***************************************************************************)
EXTENDS Naturals, Sequences

Pushed(w, n, x) == IF Len(w) < n THEN Append(w, x) ELSE Append(Tail(w), x)

=============================================================================
