----------------------------- MODULE SplitPass2 -----------------------------
(***************************************************************************)
(* The transformation, lib/splitpass/splitpass2.cpp.  A loop with n        *)
(* partitions worth splitting is cloned n - 1 times; the clones are        *)
(* chained between the loop and its exit; then every loop of the chain is  *)
(* stripped of the instructions that are not in its partition.             *)
(*                                                                         *)
(* A loop is its header and one body block.  The loops of the function     *)
(* follow each other directly: the exit block of one is the header of the  *)
(* next, as simplifycfg leaves them.  Clones of an instruction are named   *)
(* by the original (loops_map).  Blocks are pairs: <<l, 0>> is the header  *)
(* of loop l and <<l, k>> that of its k-th clone; Entry and End enclose    *)
(* the loops.                                                              *)
(***************************************************************************)
EXTENDS Integers, Sequences, FiniteSets

CONSTANTS
  NumLoops,     \* loops of the function
  BodySize      \* instructions of a loop's body

ASSUME SplitAssumption ==
  /\ NumLoops \in Nat \ {0}
  /\ BodySize \in Nat /\ BodySize >= 2

Loop == 1 .. NumLoops
Body == 1 .. BodySize

(* "skip last two insts" of the latch.                                     *)
LatchTail == {BodySize - 1, BodySize}

Block == (0 .. NumLoops + 1) \X (0 .. BodySize)
Entry == <<0, 0>>
End == <<NumLoops + 1, 0>>
NoBlock == <<0, 1>>

VARIABLES
  partitions,   \* bpmap->Partitions, per loop a sequence of sets
  operands,     \* <<i, j>>: i is an operand of j, within the body
  headerReads,  \* body instructions the header's phis read
  todo,         \* loops the iteration over Partitions has not come to
  current,      \* the loop being split, 0 between two
  clones,       \* clones made of each loop
  erased,       \* partitions of the current loop dealt with
  exitTo,       \* where the header goes when its loop ends
  phiFrom,      \* incoming block of the header's phis, the back edge aside
  kept,         \* instructions in the body of each loop
  crashed       \* an instruction that is still used was erased

inputVars == <<partitions, operands, headerReads>>
splitVars == <<todo, current, clones, erased, exitTo, phiFrom, kept, crashed>>

(* Mutant of SccsSize: the last two partitions are counted.                *)
SccsSizeAll(l) == Len(partitions[l])

(* sccs.size() - 2.                                                        *)
SccsSize(l) == Len(partitions[l]) - 2

SplitInit ==
  /\ todo = Loop
  /\ current = 0
  /\ clones = [l \in Loop |-> 0]
  /\ erased = 0
  /\ exitTo = [b \in Block |->
                 IF b[1] <= NumLoops /\ b[2] = 0 THEN <<b[1] + 1, 0>>
                 ELSE NoBlock]
  /\ phiFrom = [b \in Block |->
                  IF b[1] > 0 /\ b[2] = 0 THEN <<b[1] - 1, 0>> ELSE NoBlock]
  /\ kept = [b \in Block |-> IF b[1] \in Loop /\ b[2] = 0 THEN Body ELSE {}]
  /\ crashed = FALSE

-----------------------------------------------------------------------------

(* The map iterates in the order of the Loop pointers: any.                *)
NextLoop(l) ==
  /\ ~crashed
  /\ current = 0
  /\ l \in todo
  /\ IF SccsSize(l) <= 1
     THEN todo' = todo \ {l} /\ UNCHANGED current
     ELSE current' = l /\ UNCHANGED todo
  /\ erased' = 0
  /\ UNCHANGED <<inputVars, clones, exitTo, phiFrom, kept, crashed>>

PreHeader(b) == CHOOSE p \in Block : exitTo[p] = b

(* Mutant of ExitPhis: the phis of the exit block keep their block.        *)
ExitPhisKept(head, new) == phiFrom[exitTo[head]]

(* The exit block's phis: what came from the header comes from the clone.  *)
ExitPhis(head, new) ==
  IF phiFrom[exitTo[head]] = head THEN new ELSE phiFrom[exitTo[head]]

(* The clone's phis: what came from the preheader comes from the header.   *)
ClonePhis(head) ==
  IF phiFrom[head] = PreHeader(head) THEN head ELSE phiFrom[head]

CreateOneLoop ==
  LET l == current
      head == <<l, 0>>
      new == <<l, clones[l] + 1>>
  IN  /\ ~crashed
      /\ l /= 0
      /\ clones[l] < SccsSize(l) - 1
      /\ clones' = [clones EXCEPT ![l] = @ + 1]
      /\ exitTo' = [exitTo EXCEPT ![new] = exitTo[head], ![head] = new]
      /\ phiFrom' = [phiFrom EXCEPT ![exitTo[head]] = ExitPhis(head, new),
                                    ![new] = ClonePhis(head)]
      /\ kept' = [kept EXCEPT ![new] = kept[head]]
      /\ UNCHANGED <<inputVars, todo, current, erased, crashed>>

(* Mutant of LoopOf: clones taken in the order they were made.             *)
LoopOfForward(l, i) == <<l, i>>

(* loops[sccs_size - 1 - i]: the original last, after its clones.          *)
LoopOf(l, i) == IF i = 0 THEN <<l, 0>> ELSE <<l, SccsSize(l) - i>>

(* Mutant of Keeps: the two last instructions are not skipped.             *)
KeepsPartition(l, i) == partitions[l][i + 1]

(* Mutant of Keeps: the partition after the right one.                     *)
KeepsNext(l, i) == partitions[l][i + 2] \cup LatchTail

Keeps(l, i) == partitions[l][i + 1] \cup LatchTail

(* One round: users are erased before their operands.  LLVM asserts that   *)
(* what is erased has no use left.                                         *)
EraseOthers ==
  LET l == current
      b == LoopOf(l, erased)
      left == kept[b] \cap Keeps(l, erased)
      gone == kept[b] \ left
  IN  /\ ~crashed
      /\ l /= 0
      /\ clones[l] = SccsSize(l) - 1
      /\ kept' = [kept EXCEPT ![b] = left]
      /\ crashed' = \E i \in gone : \/ i \in headerReads
                                    \/ \E j \in left : <<i, j>> \in operands
      /\ erased' = erased + 1
      /\ IF erased + 1 = SccsSize(l)
         THEN current' = 0 /\ todo' = todo \ {l}
         ELSE UNCHANGED <<current, todo>>
      /\ UNCHANGED <<inputVars, clones, exitTo, phiFrom>>

SplitNext ==
  \/ \E l \in Loop : NextLoop(l)
  \/ CreateOneLoop
  \/ EraseOthers

-----------------------------------------------------------------------------
(* The pass alone, on partitions of any shape with the increment and the   *)
(* branch in the last two.                                                 *)

Partitionings ==
  {[n \in 1 .. p[1] |-> {i \in Body \ LatchTail : p[2][i] = n}]
     \o <<{BodySize - 1}, {BodySize}>> :
   p \in {q \in (1 .. BodySize - 2) \X [Body \ LatchTail -> Body] :
            {q[2][i] : i \in Body \ LatchTail} = 1 .. q[1]}}

Init ==
  /\ partitions \in [Loop -> Partitionings]
  /\ operands = {}
  /\ headerReads = {BodySize - 1}
  /\ SplitInit

Spec == Init /\ [][SplitNext]_<<inputVars, splitVars>>

(* opt runs the pass by itself and to its end.                             *)
FairSpec == Spec /\ WF_<<inputVars, splitVars>>(SplitNext)

-----------------------------------------------------------------------------
(* Properties.                                                             *)

Finished(l) == current /= l /\ l \notin todo

Headers(l) == {<<l, k>> : k \in 0 .. clones[l]}
InUse == {Entry, End} \cup UNION {Headers(l) : l \in Loop}

TypeOK ==
  /\ todo \subseteq Loop
  /\ current \in Loop \cup {0}
  /\ clones \in [Loop -> 0 .. BodySize - 2]
  /\ erased \in 0 .. BodySize
  /\ exitTo \in [Block -> Block]
  /\ phiFrom \in [Block -> Block]
  /\ kept \in [Block -> SUBSET Body]
  /\ crashed \in BOOLEAN

(* The blocks in the order they run in from the header of loop l on.       *)
RunFrom(l) ==
  LET step[i \in 0 .. SccsSize(l)] ==
        IF i = 0 THEN <<l, 0>> ELSE exitTo[step[i - 1]]
  IN  step

(* The i-th partition runs i-th: the loop comes first, its clones from the *)
(* newest to the oldest, then what followed the loop.  Cloning puts each   *)
(* clone right behind the original, and the erasing counts backwards.      *)
PartitionsRunInOrder ==
  \A l \in Loop : Finished(l) /\ ~crashed /\ SccsSize(l) > 1 =>
    /\ \A i \in 0 .. SccsSize(l) - 1 :
         kept[RunFrom(l)[i]] = partitions[l][i + 1] \cup LatchTail
    /\ RunFrom(l)[SccsSize(l)] = <<l + 1, 0>>

(* Every phi names the block control comes from, between any two rewirings *)
(* of a chain that shares its blocks with the loops around it.             *)
PhisMatchPredecessors ==
  \A b \in InUse \ {Entry} :
    phiFrom[b] \in InUse /\ exitTo[phiFrom[b]] = b

(* The pass gets to every loop of the function, whatever it did to the     *)
(* loops before, and leaves each of them as one loop per partition, the    *)
(* last two partitions aside; a loop without two of these stays one loop.  *)
AllLoopsGetSplit ==
  <>[](\A l \in Loop :
         /\ Finished(l)
         /\ clones[l] = IF Len(partitions[l]) > 3 THEN Len(partitions[l]) - 3
                                                 ELSE 0)

(* Once a loop is split, each of its instructions is in exactly one of the *)
(* loops, and those of the latch that make it a loop are in all of them.   *)
EachRunsOnce ==
  \A l \in Loop : Finished(l) /\ ~crashed =>
    /\ \A i \in Body \ LatchTail :
         Cardinality({b \in Headers(l) : i \in kept[b]}) = 1
    /\ \A b \in Headers(l) : LatchTail \subseteq kept[b]

=============================================================================
