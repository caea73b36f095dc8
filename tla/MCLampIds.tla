----------------------------- MODULE MCLampIds ------------------------------
(***************************************************************************)
(* A nest of two loops with a break out of both, and a loop with two exits *)
(* behind it.  Block 2 is a header and a preheader, 4 an exit and a latch, *)
(* 5 an exit and a preheader, 9 an exit that is reached twice, 8 an exit   *)
(* of two loops.                                                           *)
(*                                                                         *)
(*   1 -> 2 -> 3 -> 4 -> 5 -> 6 -> 7 -> 9                                  *)
(*   4 -> 2    3 -> 3    3 -> 8    7 -> 6    6 -> 9                        *)
(***************************************************************************)
EXTENDS LampIds

MCSucc == <<{2}, {3}, {3, 4, 8}, {2, 5}, {6}, {7, 9}, {6, 9}, {}, {}>>
MCLoopOrder == <<3, 2, 6>>
MCBody == [l \in {2, 3, 6} |->
             CASE l = 2 -> {2, 3, 4} [] l = 3 -> {3} [] l = 6 -> {6, 7}]
MCPreheader == [l \in {2, 3, 6} |-> l - 1]
MCLatch == [l \in {2, 3, 6} |-> CASE l = 2 -> 4 [] l = 3 -> 3 [] l = 6 -> 7]

=============================================================================
