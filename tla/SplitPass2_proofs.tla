-------------------------- MODULE SplitPass2_proofs --------------------------
(***************************************************************************)
(* Proofs about SplitPass2: whatever the number of loops, the size of      *)
(* their bodies, their partitions and the order they are split in, the     *)
(* phis of every loop name the block control comes from.                   *)
(***************************************************************************)
EXTENDS SplitPass2, SequenceTheorems, FiniteSetTheorems, LeastNumber, TLAPS

vars == <<inputVars, splitVars>>

(* As many partitions as instructions at most.                             *)
InputsOK ==
  \A l \in Loop : Len(partitions[l]) \in 0 .. BodySize

(* Control flow is a path: no two blocks lead to the same one, and what is *)
(* not in use leads nowhere.  This makes the predecessor that              *)
(* getLoopPredecessor finds the one the phis name.                         *)
ExitsArePath ==
  /\ \A b \in InUse \ {End} : exitTo[b] \in InUse \ {Entry}
  /\ \A b, c \in InUse \ {End} : exitTo[b] = exitTo[c] => b = c
  /\ \A b \in Block : b \notin InUse \/ b = End => exitTo[b] = NoBlock

(* A loop is left when its last partition is dealt with.                   *)
RoundsLeft == current /= 0 => erased < SccsSize(current)

IInv ==
  InputsOK /\ TypeOK /\ RoundsLeft /\ ExitsArePath /\ PhisMatchPredecessors

-----------------------------------------------------------------------------

(* The pairs Partitionings ranges over: how many partitions, and which one *)
(* each instruction is in.                                                 *)
Assignments ==
  {q \in (1 .. BodySize - 2) \X [Body \ LatchTail -> Body] :
     {q[2][i] : i \in Body \ LatchTail} = 1 .. q[1]}

LEMMA PartitioningsShape ==
  ASSUME NEW s \in Partitionings
  PROVE  \E q \in Assignments :
           /\ Len(s) = q[1] + 2
           /\ \A n \in 1 .. q[1] : s[n] = {i \in Body \ LatchTail : q[2][i] = n}
<1>1. PICK q \in Assignments :
        s = [n \in 1 .. q[1] |-> {i \in Body \ LatchTail : q[2][i] = n}]
              \o <<{BodySize - 1}, {BodySize}>>
  BY DEF Partitionings, Assignments
<1> DEFINE k == q[1]
           f == [n \in 1 .. k |-> {i \in Body \ LatchTail : q[2][i] = n}]
<1>2. k \in 1 .. BodySize - 2
  BY <1>1 DEF Assignments
<1>3. f \in Seq(SUBSET Body) /\ Len(f) = k
  <2>1. k \in Nat /\ f \in [1 .. k -> SUBSET Body]
    BY <1>2
  <2> HIDE DEF f, k
  <2>2. f \in Seq(SUBSET Body)
    BY <2>1, SeqDef
  <2>3. DOMAIN f = 1 .. k /\ DOMAIN f = 1 .. Len(f) /\ Len(f) \in Nat
    BY <2>1, <2>2, LenProperties
  <2> QED
    BY <2>1, <2>2, <2>3
<1>4. /\ <<{BodySize - 1}, {BodySize}>> \in Seq(SUBSET Body)
      /\ Len(<<{BodySize - 1}, {BodySize}>>) = 2
  BY SplitAssumption DEF Body
<1>5. s = f \o <<{BodySize - 1}, {BodySize}>>
  BY <1>1
<1>6. \A n \in 1 .. k : f[n] = {i \in Body \ LatchTail : q[2][i] = n}
  OBVIOUS
<1> HIDE DEF f
<1>7. Len(s) = k + 2 /\ \A n \in 1 .. k : s[n] = f[n]
  BY <1>3, <1>4, <1>5, ConcatProperties
<1> QED
  BY <1>1, <1>6, <1>7

LEMMA PartitioningsLength ==
  ASSUME NEW s \in Partitionings
  PROVE  Len(s) \in 2 .. BodySize
<1>1. PICK q \in Assignments : Len(s) = q[1] + 2
  BY PartitioningsShape
<1>2. q[1] \in 1 .. BodySize - 2
  BY DEF Assignments
<1> QED
  BY <1>1, <1>2, SplitAssumption

(* The blocks a step names.                                                *)
LEMMA BlockFacts ==
  ASSUME TypeOK
  PROVE  /\ Entry \in Block /\ End \in Block /\ NoBlock \in Block
         /\ NoBlock \notin InUse /\ Entry /= End
         /\ InUse \subseteq Block
         /\ \A l \in Loop : <<l, 0>> \in InUse \ {Entry, End}
         /\ \A l \in Loop : \A k \in Nat :
              <<l, k>> \in InUse => k <= clones[l]
<1>1. /\ BodySize \in Nat /\ BodySize >= 2 /\ NumLoops \in Nat /\ NumLoops >= 1
      /\ \A l \in Loop : clones[l] \in 0 .. BodySize - 2
  BY SplitAssumption DEF TypeOK
<1>2. Entry \in Block /\ End \in Block /\ NoBlock \in Block /\ Entry /= End
  BY <1>1 DEF Entry, End, NoBlock, Block
<1>3. \A l \in Loop : Headers(l) \subseteq Block
  BY <1>1 DEF Headers, Block, Loop
<1>4. NoBlock \notin InUse
  BY <1>1 DEF InUse, Entry, End, NoBlock, Headers, Loop
<1>5. \A l \in Loop : <<l, 0>> \in InUse \ {Entry, End}
  BY <1>1 DEF InUse, Entry, End, Headers, Loop
<1>6. ASSUME NEW l \in Loop, NEW k \in Nat, <<l, k>> \in InUse
      PROVE  k <= clones[l]
  <2>1. <<l, k>> /= Entry /\ <<l, k>> /= End
    BY <1>1 DEF Entry, End, Loop
  <2>2. PICK m \in Loop : <<l, k>> \in Headers(m)
    BY <1>6, <2>1 DEF InUse
  <2> QED
    BY <1>1, <2>2 DEF Headers
<1> QED
  BY <1>2, <1>3, <1>4, <1>5, <1>6 DEF InUse

LEMMA StartIInv == InputsOK /\ SplitInit => IInv
<1> SUFFICES ASSUME InputsOK, SplitInit PROVE IInv
  OBVIOUS
<1>1. InputsOK
  OBVIOUS
<1>2. BodySize \in Nat /\ BodySize >= 2 /\ NumLoops \in Nat /\ NumLoops >= 1
  BY SplitAssumption
<1>3. TypeOK
  <2>1. \A b \in Block : b[1] \in 0 .. NumLoops + 1 /\ b[2] \in 0 .. BodySize
    BY DEF Block
  <2>2. exitTo \in [Block -> Block]
    BY <1>2, <2>1 DEF SplitInit, Block, NoBlock
  <2>3. phiFrom \in [Block -> Block]
    BY <1>2, <2>1 DEF SplitInit, Block, NoBlock
  <2>4. kept \in [Block -> SUBSET Body]
    BY DEF SplitInit
  <2>5. current \in Loop \cup {0} /\ crashed \in BOOLEAN
    BY DEF SplitInit
  <2>6. todo \subseteq Loop
    BY DEF SplitInit
  <2>7. clones \in [Loop -> 0 .. BodySize - 2]
    BY <1>2 DEF SplitInit
  <2>8. erased \in 0 .. BodySize
    BY <1>2 DEF SplitInit
  <2> QED
    BY <2>2, <2>3, <2>4, <2>5, <2>6, <2>7, <2>8 DEF TypeOK
<1>4. InUse = {<<l, 0>> : l \in 0 .. NumLoops + 1}
  BY <1>2 DEF SplitInit, InUse, Headers, Entry, End, Loop
<1>5. /\ \A l \in 0 .. NumLoops : exitTo[<<l, 0>>] = <<l + 1, 0>>
      /\ \A b \in Block : b \notin InUse \/ b = End => exitTo[b] = NoBlock
      /\ \A l \in 1 .. NumLoops + 1 : phiFrom[<<l, 0>>] = <<l - 1, 0>>
  BY <1>2, <1>4 DEF SplitInit, Block, End
<1>6. ExitsArePath
  BY <1>2, <1>4, <1>5 DEF ExitsArePath, Entry, End
<1>7. PhisMatchPredecessors
  <2>1. ASSUME NEW b \in InUse \ {Entry}
        PROVE  phiFrom[b] \in InUse /\ exitTo[phiFrom[b]] = b
    <3>1. PICK l \in 0 .. NumLoops + 1 : b = <<l, 0>>
      BY <1>4, <2>1
    <3>2. l \in 1 .. NumLoops + 1 /\ l - 1 \in 0 .. NumLoops + 1
      BY <1>2, <2>1, <3>1 DEF Entry
    <3>3. phiFrom[b] = <<l - 1, 0>>
      BY <1>5, <3>1, <3>2
    <3>4. l - 1 \in 0 .. NumLoops /\ l - 1 + 1 = l
      BY <1>2, <3>2
    <3>5. exitTo[<<l - 1, 0>>] = <<l, 0>>
      BY <1>5, <3>4
    <3> QED
      BY <1>4, <3>1, <3>2, <3>3, <3>5
  <2> QED
    BY <2>1 DEF PhisMatchPredecessors
<1>8. RoundsLeft
  BY DEF SplitInit, RoundsLeft
<1> QED
  BY <1>1, <1>3, <1>6, <1>7, <1>8 DEF IInv

LEMMA InitIInv == Init => IInv
<1>1. Init => InputsOK
  BY PartitioningsLength, SplitAssumption DEF Init, InputsOK
<1> QED
  BY <1>1, StartIInv DEF Init

-----------------------------------------------------------------------------

(* The facts of BlockFacts about the loop being cloned, and its neighbours *)
(* on the path.                                                            *)
LEMMA CloneFacts ==
  ASSUME IInv, CreateOneLoop
  PROVE  LET head == <<current, 0>>
             new == <<current, clones[current] + 1>>
         IN  /\ current \in Loop
             /\ clones[current] + 1 \in 0 .. BodySize - 2
             /\ new \in Block \ InUse
             /\ head \in InUse \ {Entry, End}
             /\ exitTo[head] \in InUse \ {Entry}
             /\ ExitPhis(head, new) = new
             /\ ClonePhis(head) = head
<1> DEFINE head == <<current, 0>>
           new == <<current, clones[current] + 1>>
<1>0. /\ TypeOK /\ InputsOK /\ ExitsArePath /\ PhisMatchPredecessors
      /\ BodySize \in Nat /\ BodySize >= 2 /\ NumLoops \in Nat
  BY SplitAssumption DEF IInv
<1>1. current \in Loop
  BY <1>0 DEF CreateOneLoop, TypeOK
<1>2. clones[current] + 1 \in 0 .. BodySize - 2
  <2>1. clones[current] \in Nat /\ clones[current] < SccsSize(current) - 1
    BY <1>0, <1>1 DEF CreateOneLoop, TypeOK
  <2>2. SccsSize(current) \in -2 .. BodySize - 2
    BY <1>0, <1>1 DEF InputsOK, SccsSize
  <2> QED
    BY <1>0, <2>1, <2>2
<1>3. new \in Block
  BY <1>0, <1>1, <1>2 DEF Block, Loop
<1>4. new \notin InUse
  <2>1. clones[current] \in Nat /\ clones[current] + 1 \in Nat
    BY <1>0, <1>1 DEF TypeOK
  <2>2. ~(clones[current] + 1 <= clones[current])
    BY <2>1
  <2> QED
    BY <1>0, <1>1, <2>1, <2>2, BlockFacts
<1>5. head \in InUse \ {Entry, End}
  BY <1>0, <1>1, BlockFacts
<1>6. exitTo[head] \in InUse \ {Entry}
  BY <1>0, <1>5 DEF ExitsArePath
<1>7. ASSUME NEW b \in InUse \ {Entry}, NEW p \in Block, exitTo[p] = b
      PROVE  p \in InUse \ {End}
  BY <1>0, <1>7, BlockFacts DEF ExitsArePath
<1>8. ASSUME NEW b \in InUse \ {Entry}, NEW p \in Block, exitTo[p] = b
      PROVE  p = phiFrom[b]
  <2>1. phiFrom[b] \in InUse /\ exitTo[phiFrom[b]] = b
    BY <1>0 DEF PhisMatchPredecessors
  <2>2. phiFrom[b] \in Block
    BY <1>0, <2>1, BlockFacts
  <2> QED
    BY <1>0, <1>7, <1>8, <2>1, <2>2 DEF ExitsArePath
<1>9. head \in Block
  BY <1>0, <1>5, BlockFacts
<1>10. phiFrom[exitTo[head]] = head
  BY <1>6, <1>8, <1>9
<1>11. ExitPhis(head, new) = new
  BY <1>10 DEF ExitPhis
<1>12. PreHeader(head) = phiFrom[head]
  <2>1. phiFrom[head] \in Block /\ exitTo[phiFrom[head]] = head
    BY <1>0, <1>5, BlockFacts DEF PhisMatchPredecessors
  <2>2. PreHeader(head) \in Block /\ exitTo[PreHeader(head)] = head
    BY <2>1 DEF PreHeader
  <2> QED
    BY <1>5, <1>8, <2>2
<1>13. ClonePhis(head) = head
  BY <1>12 DEF ClonePhis
<1> QED
  BY <1>1, <1>2, <1>3, <1>4, <1>5, <1>6, <1>11, <1>13

(* A clone is put into the path right behind its original.                 *)
LEMMA CloneStep ==
  ASSUME IInv, CreateOneLoop
  PROVE  IInv'
<1> DEFINE head == <<current, 0>>
           new == <<current, clones[current] + 1>>
           next == exitTo[head]
<1>0. /\ TypeOK /\ InputsOK /\ ExitsArePath /\ PhisMatchPredecessors
      /\ InUse \subseteq Block /\ Entry \in InUse /\ End \in InUse
  BY BlockFacts DEF IInv, InUse
<1>1. /\ current \in Loop /\ clones[current] + 1 \in 0 .. BodySize - 2
      /\ new \in Block \ InUse
      /\ head \in InUse \ {Entry, End}
      /\ next \in InUse \ {Entry}
      /\ new /= head /\ new /= next
  BY CloneFacts
<1>2. /\ clones' = [clones EXCEPT ![current] = @ + 1]
      /\ exitTo' = [exitTo EXCEPT ![new] = next, ![head] = new]
      /\ phiFrom' = [phiFrom EXCEPT ![next] = new, ![new] = head]
      /\ kept' = [kept EXCEPT ![new] = kept[head]]
      /\ UNCHANGED <<inputVars, todo, current, erased, crashed>>
  BY CloneFacts DEF CreateOneLoop
<1>3. /\ exitTo'[new] = next /\ exitTo'[head] = new
      /\ \A b \in Block \ {new, head} : exitTo'[b] = exitTo[b]
      /\ phiFrom'[next] = new /\ phiFrom'[new] = head
      /\ \A b \in Block \ {new, next} : phiFrom'[b] = phiFrom[b]
  <2> HIDE DEF new, head, next
  <2>1. exitTo \in [Block -> Block] /\ phiFrom \in [Block -> Block]
    BY <1>0 DEF TypeOK
  <2> QED
    BY <1>0, <1>1, <1>2, <2>1
<1>4. TypeOK'
  <2>1. clones' \in [Loop -> 0 .. BodySize - 2]
    BY <1>0, <1>1, <1>2 DEF TypeOK
  <2>2. exitTo' \in [Block -> Block] /\ phiFrom' \in [Block -> Block]
    <3> HIDE DEF new, head, next
    <3> QED
      BY <1>0, <1>1, <1>2 DEF TypeOK
  <2>3. kept' \in [Block -> SUBSET Body]
    <3> HIDE DEF new, head
    <3> QED
      BY <1>0, <1>1, <1>2 DEF TypeOK
  <2>4. /\ todo' \subseteq Loop /\ current' \in Loop \cup {0}
        /\ erased' \in 0 .. BodySize /\ crashed' \in BOOLEAN
    BY <1>0, <1>2 DEF TypeOK
  <2> QED
    BY <2>1, <2>2, <2>3, <2>4 DEF TypeOK
<1>5. InUse' = InUse \cup {new}
  <2> DEFINE After(m) == {<<m, k>> : k \in 0 .. clones'[m]}
             Before(m) == {<<m, k>> : k \in 0 .. clones[m]}
  <2>1. \A m \in Loop : clones[m] \in Nat
    BY <1>0 DEF TypeOK
  <2>2. After(current) = Before(current) \cup {new}
    <3>1. clones'[current] = clones[current] + 1
      BY <1>0, <1>1, <1>2 DEF TypeOK
    <3>2. 0 .. clones[current] + 1 = (0 .. clones[current]) \cup {clones[current] + 1}
      BY <1>1, <2>1
    <3> QED
      BY <3>1, <3>2
  <2>3. ASSUME NEW m \in Loop, m /= current
        PROVE  After(m) = Before(m)
    BY <1>0, <1>2, <2>3 DEF TypeOK
  <2>4. ASSUME NEW b
        PROVE  /\ b \in InUse' <=> b \in {Entry, End} \/ \E m \in Loop : b \in After(m)
               /\ b \in InUse <=> b \in {Entry, End} \/ \E m \in Loop : b \in Before(m)
    BY DEF InUse, Headers
  <2>5. ASSUME NEW b
        PROVE  (\E m \in Loop : b \in After(m))
                 <=> (\E m \in Loop : b \in Before(m)) \/ b = new
    <3>1. \A m \in Loop : b \in After(m) => b \in Before(m) \/ b = new
      BY <2>2, <2>3
    <3>2. \A m \in Loop : b \in Before(m) => b \in After(m)
      BY <2>2, <2>3
    <3>3. b = new => b \in After(current)
      BY <2>2
    <3> QED
      BY <1>1, <3>1, <3>2, <3>3
  <2>6. ASSUME NEW b
        PROVE  b \in InUse' <=> b \in InUse \cup {new}
    BY <2>4, <2>5
  <2> QED
    BY <2>6
<1> HIDE DEF new, head, next
<1>6. ExitsArePath'
  <2>1. \A b \in InUse' \ {End} : exitTo'[b] \in InUse' \ {Entry}
    <3>1. ASSUME NEW b \in InUse \ {End, head}
          PROVE  exitTo'[b] \in InUse \ {Entry}
      BY <1>0, <1>1, <1>3, <3>1 DEF ExitsArePath
    <3>2. exitTo'[new] \in InUse \ {Entry}
      BY <1>1, <1>3
    <3>3. exitTo'[head] \in InUse' \ {Entry}
      BY <1>0, <1>1, <1>3, <1>5
    <3> QED
      BY <1>5, <3>1, <3>2, <3>3
  <2>2. ASSUME NEW b \in InUse' \ {End}, NEW c \in InUse' \ {End},
               exitTo'[b] = exitTo'[c]
        PROVE  b = c
    <3>1. \A d \in InUse \ {End, head} :
             exitTo'[d] = exitTo[d] /\ exitTo'[d] \in InUse /\ exitTo'[d] /= next
      BY <1>0, <1>1, <1>3 DEF ExitsArePath, next
    <3>2. b \in {new, head} \/ b \in InUse \ {End, head}
      BY <1>5
    <3>3. c \in {new, head} \/ c \in InUse \ {End, head}
      BY <1>5
    <3>4. exitTo'[new] = next /\ exitTo'[head] = new /\ new /= next
      BY <1>1, <1>3
    <3>5. CASE b \in {new, head} \/ c \in {new, head}
      BY <1>1, <2>2, <3>1, <3>2, <3>3, <3>4, <3>5
    <3>6. CASE b \in InUse \ {End, head} /\ c \in InUse \ {End, head}
      BY <1>0, <2>2, <3>1, <3>6 DEF ExitsArePath
    <3> QED
      BY <3>2, <3>3, <3>5, <3>6
  <2>3. \A b \in Block : b \notin InUse' \/ b = End => exitTo'[b] = NoBlock
    BY <1>0, <1>1, <1>3, <1>5 DEF ExitsArePath
  <2> QED
    BY <2>1, <2>2, <2>3 DEF ExitsArePath
<1>7. PhisMatchPredecessors'
  <2>1. ASSUME NEW b \in InUse \ {Entry, next}
        PROVE  phiFrom'[b] \in InUse' /\ exitTo'[phiFrom'[b]] = b
    <3>1. phiFrom'[b] = phiFrom[b]
      BY <1>0, <1>1, <1>3, <2>1
    <3>2. phiFrom[b] \in InUse /\ exitTo[phiFrom[b]] = b
      BY <1>0, <2>1 DEF PhisMatchPredecessors
    <3>3. phiFrom[b] /= head
      BY <2>1, <3>2 DEF next
    <3> QED
      BY <1>0, <1>1, <1>3, <1>5, <3>1, <3>2, <3>3
  <2>2. phiFrom'[next] \in InUse' /\ exitTo'[phiFrom'[next]] = next
    BY <1>3, <1>5
  <2>3. phiFrom'[new] \in InUse' /\ exitTo'[phiFrom'[new]] = new
    BY <1>1, <1>3, <1>5
  <2> QED
    BY <1>5, <2>1, <2>2, <2>3 DEF PhisMatchPredecessors
<1>8. InputsOK'
  BY <1>0, <1>2 DEF InputsOK, inputVars
<1>9. RoundsLeft'
  BY <1>2 DEF IInv, RoundsLeft, SccsSize, inputVars
<1> QED
  BY <1>4, <1>6, <1>7, <1>8, <1>9 DEF IInv

(* The other steps leave the path and the phis alone.                      *)
LEMMA PathUnchanged ==
  ASSUME IInv, TypeOK', RoundsLeft', UNCHANGED <<partitions, clones, exitTo, phiFrom>>
  PROVE  IInv'
<1>1. InUse' = InUse
  BY DEF InUse, Headers
<1>2. InputsOK'
  BY DEF IInv, InputsOK
<1>3. ExitsArePath' /\ PhisMatchPredecessors'
  BY <1>1 DEF IInv, ExitsArePath, PhisMatchPredecessors
<1> QED
  BY <1>2, <1>3 DEF IInv

LEMMA StepIInv == IInv /\ [SplitNext]_vars => IInv'
<1> SUFFICES ASSUME IInv, [SplitNext]_vars PROVE IInv'
  OBVIOUS
<1>0. TypeOK /\ InputsOK /\ RoundsLeft
  BY DEF IInv
<1>1. ASSUME NEW l \in Loop, NextLoop(l) PROVE IInv'
  <2>1. TypeOK'
    <3>1. erased' \in 0 .. BodySize
      BY <1>1, SplitAssumption DEF NextLoop
    <3>2. todo' \subseteq Loop /\ current' \in Loop \cup {0}
      BY <1>0, <1>1 DEF NextLoop, TypeOK
    <3> QED
      BY <1>0, <1>1, <3>1, <3>2 DEF NextLoop, TypeOK
  <2>2. RoundsLeft'
    <3>1. SccsSize(l) \in Int
      BY <1>0 DEF InputsOK, SccsSize
    <3>2. current' /= 0 => current' = l /\ ~(SccsSize(l) <= 1)
      BY <1>1 DEF NextLoop
    <3>3. erased' = 0 /\ partitions' = partitions
      BY <1>1 DEF NextLoop, inputVars
    <3> QED
      BY <3>1, <3>2, <3>3 DEF RoundsLeft, SccsSize
  <2> QED
    BY <1>1, <2>1, <2>2, PathUnchanged DEF NextLoop, inputVars
<1>2. CASE CreateOneLoop
  BY <1>2, CloneStep
<1>3. CASE EraseOthers
  <2>1. current \in Loop
    BY <1>0, <1>3 DEF EraseOthers, TypeOK
  <2>2. kept' \in [Block -> SUBSET Body]
    BY <1>0, <1>3 DEF EraseOthers, TypeOK
  <2>3. crashed' \in BOOLEAN
    BY <1>3 DEF EraseOthers
  <2>4. erased' \in 0 .. BodySize /\ RoundsLeft'
    <3>1. SccsSize(current) \in -2 .. BodySize - 2 /\ BodySize \in Nat
      BY <1>0, <2>1, SplitAssumption DEF InputsOK, SccsSize
    <3>2. erased \in Nat /\ erased < SccsSize(current)
      BY <1>0, <1>3 DEF RoundsLeft, EraseOthers, TypeOK
    <3>3. erased' = erased + 1 /\ partitions' = partitions
      BY <1>3 DEF EraseOthers, inputVars
    <3>4. current' /= 0 => current' = current /\ erased + 1 /= SccsSize(current)
      BY <1>3 DEF EraseOthers
    <3> QED
      BY <3>1, <3>2, <3>3, <3>4 DEF RoundsLeft, SccsSize
  <2>5. current' \in Loop \cup {0} /\ todo' \subseteq Loop
    BY <1>0, <1>3 DEF EraseOthers, TypeOK
  <2>6. TypeOK'
    BY <1>0, <1>3, <2>2, <2>3, <2>4, <2>5 DEF EraseOthers, TypeOK
  <2> QED
    BY <1>3, <2>4, <2>6, PathUnchanged DEF EraseOthers, inputVars
<1>4. CASE UNCHANGED vars
  <2>1. TypeOK'
    BY <1>0, <1>4 DEF vars, splitVars, TypeOK
  <2>2. RoundsLeft'
    BY <1>0, <1>4 DEF vars, inputVars, splitVars, RoundsLeft, SccsSize
  <2> QED
    BY <1>4, <2>1, <2>2, PathUnchanged DEF vars, inputVars, splitVars
<1> QED
  BY <1>1, <1>2, <1>3, <1>4 DEF SplitNext

LEMMA Invariance == Spec => []IInv
<1>1. Init => IInv
  BY InitIInv
<1>2. IInv /\ [SplitNext]_vars => IInv'
  BY StepIInv
<1> QED
  BY <1>1, <1>2, PTL DEF Spec, vars

(* Every block a loop is linked to is one of the function's, and as many   *)
(* clones are made as there are partitions to place.                       *)
THEOREM TypeCorrect == Spec => []TypeOK
<1>1. IInv => TypeOK
  BY DEF IInv
<1> QED
  BY <1>1, Invariance, PTL

(* However many loops follow each other and in whatever order they are     *)
(* split, CreateOneLoop keeps the phis of all of them right.               *)
THEOREM PhisAlwaysMatch == Spec => []PhisMatchPredecessors
<1>1. IInv => PhisMatchPredecessors
  BY DEF IInv
<1> QED
  BY <1>1, Invariance, PTL

-----------------------------------------------------------------------------
(* The order of the partitions.                                            *)

(* The round of EraseOthers that strips the k-th clone: LoopOf backwards.  *)
RoundOf(l, k) == IF k = 0 THEN 0 ELSE SccsSize(l) - k

(* Each instruction but the last two of a loop that is split is in one     *)
(* partition, which is not one of the last two.                            *)
PartitionsPart ==
  \A l \in Loop : SccsSize(l) > 1 =>
    /\ \A n \in 1 .. SccsSize(l) : partitions[l][n] \subseteq Body
    /\ \A i \in Body \ LatchTail :
         \E n \in 1 .. SccsSize(l) :
           \A m \in 1 .. SccsSize(l) : i \in partitions[l][m] <=> m = n

(* How far each loop is.                                                   *)
ClonesMade ==
  \A l \in Loop :
    /\ l \in todo /\ current /= l => clones[l] = 0
    /\ l \notin todo => clones[l] = IF SccsSize(l) > 1 THEN SccsSize(l) - 1 ELSE 0
    /\ current = l => /\ l \in todo
                      /\ SccsSize(l) > 1
                      /\ clones[l] <= SccsSize(l) - 1
                      /\ erased > 0 => clones[l] = SccsSize(l) - 1

(* The original is followed by its newest clone, the oldest one by what    *)
(* followed the loop.                                                      *)
ClonesChained ==
  \A l \in Loop :
    /\ exitTo[<<l, 0>>] = IF clones[l] = 0 THEN <<l + 1, 0>> ELSE <<l, clones[l]>>
    /\ \A k \in 1 .. clones[l] :
         exitTo[<<l, k>>] = IF k = 1 THEN <<l + 1, 0>> ELSE <<l, k - 1>>

Stripped(l, k) ==
  /\ SccsSize(l) > 1
  /\ Finished(l) \/ (current = l /\ RoundOf(l, k) < erased)

(* A block holds the whole body until its round, then its partition.       *)
BodiesKept ==
  \A l \in Loop : \A k \in 0 .. clones[l] :
    kept[<<l, k>>] = IF Stripped(l, k)
                     THEN partitions[l][RoundOf(l, k) + 1] \cup LatchTail
                     ELSE Body

OrderInv ==
  PartitionsPart /\ ClonesMade /\ ClonesChained /\ BodiesKept

LEMMA PartitioningsPart ==
  ASSUME NEW s \in Partitionings
  PROVE  /\ \A n \in 1 .. Len(s) - 2 : s[n] \subseteq Body
         /\ \A i \in Body \ LatchTail :
              \E n \in 1 .. Len(s) - 2 :
                \A m \in 1 .. Len(s) - 2 : i \in s[m] <=> m = n
<1>1. PICK q \in Assignments :
        /\ Len(s) = q[1] + 2
        /\ \A n \in 1 .. q[1] : s[n] = {i \in Body \ LatchTail : q[2][i] = n}
  BY PartitioningsShape
<1>2. q[1] \in Nat /\ Len(s) - 2 = q[1]
  BY <1>1 DEF Assignments
<1> DEFINE k == Len(s) - 2
<1>3. \A n \in 1 .. k : s[n] \subseteq Body
  BY <1>1, <1>2
<1>4. ASSUME NEW i \in Body \ LatchTail
      PROVE  \E n \in 1 .. k : \A m \in 1 .. k : i \in s[m] <=> m = n
  <2>1. q[2][i] \in 1 .. k
    BY <1>2 DEF Assignments
  <2>2. \A m \in 1 .. k : i \in s[m] <=> q[2][i] = m
    BY <1>1, <1>2
  <2> QED
    BY <2>1, <2>2
<1> QED
  BY <1>3, <1>4

LEMMA StartOrder == PartitionsPart /\ SplitInit => OrderInv
<1> SUFFICES ASSUME PartitionsPart, SplitInit PROVE OrderInv
  OBVIOUS
<1>1. PartitionsPart
  OBVIOUS
<1>2. BodySize \in Nat /\ NumLoops \in Nat /\ NumLoops >= 1
  BY SplitAssumption
<1>3. ClonesMade
  BY <1>2 DEF SplitInit, ClonesMade, Loop
<1>4. \A l \in Loop : <<l, 0>> \in Block /\ clones[l] = 0 /\ l <= NumLoops
  BY <1>2 DEF SplitInit, Block, Loop
<1>5. ClonesChained
  <2>1. \A l \in Loop : exitTo[<<l, 0>>] = <<l + 1, 0>>
    BY <1>4 DEF SplitInit
  <2>2. ASSUME NEW l \in Loop, NEW k \in 1 .. clones[l]
        PROVE  FALSE
    <3>1. clones[l] = 0
      BY <1>4
    <3> QED
      BY <3>1
  <2> QED
    BY <1>4, <2>1, <2>2 DEF ClonesChained
<1>6. \A l \in Loop : kept[<<l, 0>>] = Body
  BY <1>4 DEF SplitInit
<1>7. \A l \in Loop : ~Finished(l) /\ current /= l
  BY <1>2 DEF SplitInit, Finished, Loop
<1>8. BodiesKept
  <2>1. ASSUME NEW l \in Loop, NEW k \in 0 .. clones[l]
        PROVE  k = 0
    <3>1. clones[l] = 0
      BY <1>4
    <3> QED
      BY <3>1
  <2>2. \A l \in Loop : ~Stripped(l, 0)
    BY <1>7 DEF Stripped
  <2> QED
    BY <1>6, <2>1, <2>2 DEF BodiesKept
<1> QED
  BY <1>1, <1>3, <1>5, <1>8 DEF OrderInv

LEMMA InitOrder == Init => OrderInv
<1> SUFFICES ASSUME Init PROVE OrderInv
  OBVIOUS
<1>1. PartitionsPart
  <2>1. \A l \in Loop : partitions[l] \in Partitionings
    BY DEF Init
  <2> QED
    BY <2>1, PartitioningsPart DEF PartitionsPart, SccsSize
<1> QED
  BY <1>1, StartOrder DEF Init

(* A clone is a full copy, put where the chain wants it.                   *)
LEMMA CloneOrder ==
  ASSUME IInv, OrderInv, CreateOneLoop
  PROVE  OrderInv'
<1> DEFINE new == <<current, clones[current] + 1>>
           head == <<current, 0>>
<1>0. /\ TypeOK /\ InputsOK /\ PartitionsPart /\ ClonesMade /\ ClonesChained
      /\ BodiesKept
  BY DEF IInv, OrderInv
<1>1. /\ current \in Loop /\ new \in Block \ InUse /\ head \in InUse
      /\ head \in Block /\ InUse \subseteq Block
  BY <1>0, CloneFacts, BlockFacts
<1>2. /\ partitions' = partitions /\ todo' = todo
      /\ current' = current /\ erased' = erased
      /\ clones[current] < SccsSize(current) - 1
      /\ clones' = [clones EXCEPT ![current] = @ + 1]
      /\ exitTo' = [exitTo EXCEPT ![new] = exitTo[head], ![head] = new]
      /\ kept' = [kept EXCEPT ![new] = kept[head]]
  BY DEF CreateOneLoop, inputVars
<1>3. /\ \A l \in Loop : clones[l] \in Nat /\ SccsSize(l) \in Int
      /\ clones'[current] = clones[current] + 1
      /\ \A l \in Loop \ {current} : clones'[l] = clones[l]
      /\ erased \in Nat
  BY <1>0, <1>1, <1>2, SplitAssumption DEF TypeOK, InputsOK, SccsSize
<1>4. \A l \in Loop : SccsSize(l)' = SccsSize(l)
  BY <1>2 DEF SccsSize
<1>5. erased = 0
  BY <1>0, <1>1, <1>2, <1>3 DEF ClonesMade
<1>6. PartitionsPart'
  BY <1>0, <1>2 DEF PartitionsPart, SccsSize
<1>7. ClonesMade'
  BY <1>0, <1>1, <1>2, <1>3, <1>4, <1>5 DEF ClonesMade
<1>8. \A l \in Loop : \A k \in 0 .. clones[l] :
        <<l, k>> \in InUse /\ <<l, k>> /= new
  BY <1>1 DEF InUse, Headers
<1>9. /\ exitTo'[head] = new /\ exitTo'[new] = exitTo[head]
      /\ \A b \in InUse \ {head} : exitTo'[b] = exitTo[b]
      /\ kept'[new] = kept[head]
      /\ \A b \in InUse : kept'[b] = kept[b]
  <2> HIDE DEF new, head
  <2> QED
    BY <1>0, <1>1, <1>2 DEF TypeOK
<1>10. ClonesChained'
  <2>1. ASSUME NEW l \in Loop, l /= current
        PROVE  /\ exitTo'[<<l, 0>>] = exitTo[<<l, 0>>]
               /\ \A k \in 1 .. clones[l] : exitTo'[<<l, k>>] = exitTo[<<l, k>>]
    BY <1>3, <1>8, <1>9, <2>1
  <2>2. \A k \in 1 .. clones[current] :
          exitTo'[<<current, k>>] = exitTo[<<current, k>>]
    BY <1>1, <1>3, <1>8, <1>9
  <2>3. exitTo'[<<current, 0>>] = <<current, clones'[current]>>
    BY <1>3, <1>9
  <2>4. exitTo'[<<current, clones'[current]>>] =
          IF clones'[current] = 1 THEN <<current + 1, 0>>
          ELSE <<current, clones'[current] - 1>>
    <3> DEFINE n == clones[current]
    <3>1. /\ clones'[current] = n + 1 /\ n \in Nat
          /\ exitTo'[<<current, n + 1>>] = exitTo[<<current, 0>>]
      BY <1>1, <1>3, <1>9
    <3>2. exitTo[<<current, 0>>] = IF n = 0 THEN <<current + 1, 0>> ELSE <<current, n>>
      BY <1>0, <1>1 DEF ClonesChained
    <3> HIDE DEF n
    <3>3. (n + 1 = 1 <=> n = 0) /\ (n + 1) - 1 = n
      BY <3>1
    <3> QED
      BY <3>1, <3>2, <3>3
  <2>5. \A k \in 1 .. clones'[current] :
          k \in 1 .. clones[current] \/ k = clones'[current]
    BY <1>1, <1>3
  <2>6. ASSUME NEW l \in Loop, l = current
        PROVE  /\ exitTo'[<<l, 0>>] = <<l, clones'[l]>> /\ clones'[l] /= 0
               /\ \A k \in 1 .. clones'[l] :
                    exitTo'[<<l, k>>] =
                      IF k = 1 THEN <<l + 1, 0>> ELSE <<l, k - 1>>
    BY <1>0, <1>1, <1>3, <2>2, <2>3, <2>4, <2>5, <2>6 DEF ClonesChained
  <2>7. ASSUME NEW l \in Loop, l /= current
        PROVE  /\ exitTo'[<<l, 0>>] =
                    IF clones'[l] = 0 THEN <<l + 1, 0>> ELSE <<l, clones'[l]>>
               /\ \A k \in 1 .. clones'[l] :
                    exitTo'[<<l, k>>] =
                      IF k = 1 THEN <<l + 1, 0>> ELSE <<l, k - 1>>
    BY <1>0, <1>3, <2>1, <2>7 DEF ClonesChained
  <2> QED
    BY <2>6, <2>7 DEF ClonesChained
<1>11. BodiesKept'
  <2>1. \A l \in Loop : \A k \in 0 .. clones[l] :
          Stripped(l, k)' <=> Stripped(l, k)
    BY <1>2, <1>4 DEF Stripped, Finished, RoundOf
  <2>2. \A l \in Loop : \A k \in Nat :
          l = current /\ k \in 0 .. SccsSize(l) - 1 =>
            ~Stripped(l, k) /\ ~Stripped(l, k)'
    BY <1>1, <1>2, <1>3, <1>4, <1>5 DEF Stripped, Finished, RoundOf
  <2>3. kept'[new] = Body
    <3>1. 0 \in 0 .. clones[current] /\ 0 \in 0 .. SccsSize(current) - 1
      BY <1>1, <1>2, <1>3
    <3> QED
      BY <1>0, <1>1, <1>9, <2>2, <3>1 DEF BodiesKept
  <2>4. clones'[current] \in 0 .. SccsSize(current) - 1
    BY <1>1, <1>2, <1>3
  <2>5. ASSUME NEW l \in Loop, NEW k \in 0 .. clones[l]
        PROVE  kept'[<<l, k>>] = IF Stripped(l, k)'
                                 THEN partitions'[l][RoundOf(l, k)' + 1] \cup LatchTail
                                 ELSE Body
    <3>1. kept'[<<l, k>>] = kept[<<l, k>>]
      BY <1>8, <1>9
    <3>2. RoundOf(l, k)' = RoundOf(l, k)
      BY <1>4 DEF RoundOf
    <3> QED
      BY <1>0, <1>2, <2>1, <3>1, <3>2 DEF BodiesKept
  <2>6. \A l \in Loop : \A k \in 0 .. clones'[l] :
          k \in 0 .. clones[l] \/ (l = current /\ k = clones'[current])
    BY <1>1, <1>3
  <2>7. kept'[<<current, clones'[current]>>] = Body
    BY <1>3, <2>3
  <2>8. ASSUME NEW l \in Loop, NEW k \in 0 .. clones'[l],
               l = current, k = clones'[current]
        PROVE  ~Stripped(l, k)' /\ kept'[<<l, k>>] = Body
    BY <2>2, <2>4, <2>7, <2>8
  <2> QED
    BY <2>5, <2>6, <2>8 DEF BodiesKept
<1> QED
  BY <1>6, <1>7, <1>10, <1>11 DEF OrderInv

(* Taking the next loop up changes no block, nor what is due of one.       *)
LEMMA NextLoopOrder ==
  ASSUME IInv, OrderInv, NEW l \in Loop, NextLoop(l)
  PROVE  OrderInv'
<1>0. /\ TypeOK /\ InputsOK /\ PartitionsPart /\ ClonesMade /\ ClonesChained
      /\ BodiesKept
  BY DEF IInv, OrderInv
<1>1. /\ partitions' = partitions /\ clones' = clones /\ exitTo' = exitTo
      /\ kept' = kept /\ erased' = 0 /\ current = 0 /\ l \in todo
      /\ \/ SccsSize(l) <= 1 /\ todo' = todo \ {l} /\ current' = 0
         \/ SccsSize(l) > 1 /\ todo' = todo /\ current' = l
  <2>1. SccsSize(l) \in Int
    BY <1>0 DEF InputsOK, SccsSize
  <2> QED
    BY <2>1 DEF NextLoop, inputVars
<1>2. \A m \in Loop : SccsSize(m)' = SccsSize(m) /\ SccsSize(m) \in Int /\ m /= 0
  BY <1>0, <1>1, SplitAssumption DEF InputsOK, SccsSize, Loop
<1>3. PartitionsPart'
  BY <1>0, <1>1 DEF PartitionsPart, SccsSize
<1>4. clones[l] = 0
  BY <1>0, <1>1, <1>2 DEF ClonesMade
<1>5. ClonesMade'
  BY <1>0, <1>1, <1>2, <1>4 DEF ClonesMade
<1>6. ClonesChained'
  BY <1>0, <1>1 DEF ClonesChained
<1>7. BodiesKept'
  <2>1. ASSUME NEW m \in Loop, NEW k \in 0 .. clones[m]
        PROVE  Stripped(m, k)' <=> Stripped(m, k)
    <3>1. RoundOf(m, k)' = RoundOf(m, k)
      BY <1>2 DEF RoundOf
    <3>2. CASE m = l
      <4>1. RoundOf(m, k) = 0
        BY <1>4, <2>1, <3>2 DEF RoundOf
      <4> QED
        BY <1>1, <1>2, <3>1, <3>2, <4>1 DEF Stripped, Finished
    <3>3. CASE m /= l
      BY <1>1, <1>2, <3>3 DEF Stripped, Finished
    <3> QED
      BY <3>2, <3>3
  <2>2. \A m \in Loop : \A k \in 0 .. clones[m] : RoundOf(m, k)' = RoundOf(m, k)
    BY <1>2 DEF RoundOf
  <2> QED
    BY <1>0, <1>1, <2>1, <2>2 DEF BodiesKept
<1> QED
  BY <1>3, <1>5, <1>6, <1>7 DEF OrderInv

(* LoopOf and RoundOf undo each other once all clones are made.            *)
LEMMA LoopOfRound ==
  ASSUME NEW l \in Loop, SccsSize(l) \in Nat, NEW i \in 0 .. SccsSize(l) - 1,
         NEW k \in 0 .. SccsSize(l) - 1
  PROVE  /\ LoopOf(l, i) = <<l, k>> <=> RoundOf(l, k) = i
         /\ RoundOf(l, k) \in 0 .. SccsSize(l) - 1
         /\ \E n \in 0 .. SccsSize(l) - 1 : LoopOf(l, i) = <<l, n>>
BY DEF LoopOf, RoundOf

(* A round strips one block of the loop, down to its partition.            *)
LEMMA EraseOrder ==
  ASSUME IInv, OrderInv, EraseOthers
  PROVE  OrderInv'
<1> DEFINE l == current
           b == LoopOf(l, erased)
<1>0. /\ TypeOK /\ InputsOK /\ PartitionsPart /\ ClonesMade /\ ClonesChained
      /\ BodiesKept /\ RoundsLeft
  BY DEF IInv, OrderInv
<1>1. /\ partitions' = partitions /\ clones' = clones /\ exitTo' = exitTo
      /\ kept' = [kept EXCEPT ![b] = kept[b] \cap Keeps(l, erased)]
      /\ l \in Loop /\ l /= 0 /\ clones[l] = SccsSize(l) - 1
      /\ erased' = erased + 1
      /\ \/ erased + 1 = SccsSize(l) /\ todo' = todo \ {l} /\ current' = 0
         \/ erased + 1 /= SccsSize(l) /\ todo' = todo /\ current' = l
  BY <1>0 DEF EraseOthers, TypeOK, inputVars
<1>2. /\ \A m \in Loop : SccsSize(m)' = SccsSize(m) /\ SccsSize(m) \in Int /\ m /= 0
      /\ SccsSize(l) \in Nat /\ SccsSize(l) > 1 /\ l \in todo
      /\ erased \in 0 .. SccsSize(l) - 1
  <2>1. \A m \in Loop : SccsSize(m)' = SccsSize(m) /\ SccsSize(m) \in Int /\ m /= 0
    BY <1>0, <1>1, SplitAssumption DEF InputsOK, SccsSize, Loop
  <2>2. erased \in Nat /\ erased < SccsSize(l)
    BY <1>0, <1>1, SplitAssumption DEF TypeOK, RoundsLeft
  <2>3. SccsSize(l) > 1 /\ l \in todo
    BY <1>0, <1>1 DEF ClonesMade
  <2> QED
    BY <1>1, <2>1, <2>2, <2>3
<1>3. PartitionsPart'
  BY <1>0, <1>1 DEF PartitionsPart, SccsSize
<1>4. ClonesMade'
  BY <1>0, <1>1, <1>2 DEF ClonesMade
<1>5. ClonesChained'
  BY <1>0, <1>1 DEF ClonesChained
<1>6. ASSUME NEW m \in Loop, NEW k \in 0 .. clones[m]
      PROVE  kept'[<<m, k>>] = IF Stripped(m, k)'
                               THEN partitions[m][RoundOf(m, k) + 1] \cup LatchTail
                               ELSE Body
  <2>1. <<m, k>> \in Block
    <3>1. <<m, k>> \in InUse
      BY DEF InUse, Headers
    <3> QED
      BY <1>0, <3>1, BlockFacts
  <2>2. kept[<<m, k>>] = IF Stripped(m, k)
                         THEN partitions[m][RoundOf(m, k) + 1] \cup LatchTail
                         ELSE Body
    BY <1>0 DEF BodiesKept
  <2>3. RoundOf(m, k)' = RoundOf(m, k)
    BY <1>2 DEF RoundOf
  <2>4. CASE <<m, k>> = b
    <3>1. m = l
      BY <2>4 DEF LoopOf
    <3>2. k \in 0 .. SccsSize(l) - 1 /\ RoundOf(l, k) = erased
      BY <1>1, <1>2, <2>4, <3>1, LoopOfRound
    <3>3. Stripped(m, k)'
      BY <1>1, <1>2, <2>3, <3>1, <3>2 DEF Stripped, Finished
    <3>4. ~Stripped(m, k)
      BY <1>2, <3>1, <3>2 DEF Stripped, Finished
    <3>5. Keeps(l, erased) = partitions[m][RoundOf(m, k) + 1] \cup LatchTail
      BY <3>1, <3>2 DEF Keeps
    <3>6. Keeps(l, erased) \subseteq Body
      <4>1. erased + 1 \in 1 .. SccsSize(l)
        BY <1>2
      <4>2. LatchTail \subseteq Body
        BY SplitAssumption DEF LatchTail, Body
      <4> QED
        BY <1>0, <1>1, <1>2, <4>1, <4>2 DEF PartitionsPart, Keeps
    <3>7. kept'[<<m, k>>] = kept[<<m, k>>] \cap Keeps(l, erased)
      <4> HIDE DEF b
      <4> QED
        BY <1>0, <1>1, <2>1, <2>4 DEF TypeOK
    <3> QED
      BY <2>2, <3>3, <3>4, <3>5, <3>6, <3>7
  <2>5. CASE <<m, k>> /= b
    <3>1. kept'[<<m, k>>] = kept[<<m, k>>]
      <4> HIDE DEF b
      <4> QED
        BY <1>0, <1>1, <2>1, <2>5 DEF TypeOK
    <3>2. Stripped(m, k)' <=> Stripped(m, k)
      <4>1. CASE m = l
        <5>1. k \in 0 .. SccsSize(l) - 1
          BY <1>1, <4>1
        <5>2. RoundOf(l, k) /= erased /\ RoundOf(l, k) \in 0 .. SccsSize(l) - 1
          BY <1>1, <1>2, <2>5, <4>1, <5>1, LoopOfRound
        <5> QED
          BY <1>1, <1>2, <2>3, <4>1, <5>2 DEF Stripped, Finished
      <4>2. CASE m /= l
        BY <1>1, <1>2, <4>2 DEF Stripped, Finished
      <4> QED
        BY <4>1, <4>2
    <3> QED
      BY <2>2, <3>1, <3>2
  <2> QED
    BY <2>4, <2>5
<1>7. BodiesKept'
  <2>1. \A m \in Loop : \A k \in 0 .. clones[m] : RoundOf(m, k)' = RoundOf(m, k)
    BY <1>2 DEF RoundOf
  <2> QED
    BY <1>1, <1>6, <2>1 DEF BodiesKept
<1> QED
  BY <1>3, <1>4, <1>5, <1>7 DEF OrderInv

LEMMA StepOrder == IInv /\ OrderInv /\ [SplitNext]_vars => OrderInv'
<1> SUFFICES ASSUME IInv, OrderInv, [SplitNext]_vars PROVE OrderInv'
  OBVIOUS
<1>1. CASE SplitNext
  BY <1>1, NextLoopOrder, CloneOrder, EraseOrder DEF SplitNext
<1>2. CASE UNCHANGED vars
  <2> USE <1>2 DEF vars, inputVars, splitVars
  <2>1. PartitionsPart'
    BY DEF OrderInv, PartitionsPart, SccsSize
  <2>2. ClonesMade'
    BY DEF OrderInv, ClonesMade, SccsSize
  <2>3. ClonesChained'
    BY DEF OrderInv, ClonesChained
  <2>4. BodiesKept'
    BY DEF OrderInv, BodiesKept, Stripped, Finished, RoundOf, SccsSize
  <2> QED
    BY <2>1, <2>2, <2>3, <2>4 DEF OrderInv
<1> QED
  BY <1>1, <1>2

LEMMA OrderInvariance == Spec => [](IInv /\ OrderInv)
<1>1. Init => OrderInv
  BY InitOrder
<1>2. IInv /\ OrderInv /\ [SplitNext]_vars => OrderInv'
  BY StepOrder
<1> QED
  BY <1>1, <1>2, Invariance, PTL DEF Spec, vars

(* RunFrom follows the exits: the i-th block it names is the one LoopOf    *)
(* gives the i-th partition.                                               *)
LEMMA RunIsLoopOf ==
  ASSUME IInv, OrderInv, NEW l \in Loop, SccsSize(l) > 1,
         clones[l] = SccsSize(l) - 1
  PROVE  /\ \A i \in 0 .. SccsSize(l) - 1 : RunFrom(l)[i] = LoopOf(l, i)
         /\ RunFrom(l)[SccsSize(l)] = <<l + 1, 0>>
<1> DEFINE n == SccsSize(l)
           run == [i \in 0 .. n |-> IF i < n THEN LoopOf(l, i) ELSE <<l + 1, 0>>]
           Follows(f) ==
             f = [i \in 0 .. n |-> IF i = 0 THEN <<l, 0>> ELSE exitTo[f[i - 1]]]
<1>0. n \in Nat /\ n > 1 /\ clones[l] = n - 1 /\ ClonesChained
  BY DEF IInv, InputsOK, SccsSize, OrderInv
<1>1. ASSUME NEW i \in 1 .. n
      PROVE  exitTo[run[i - 1]] = run[i]
  <2>1. CASE i = 1
    <3>1. run[0] = <<l, 0>> /\ run[1] = <<l, n - 1>>
      BY <1>0 DEF LoopOf
    <3>2. exitTo[<<l, 0>>] = <<l, n - 1>>
      <4>1. exitTo[<<l, 0>>] =
              IF clones[l] = 0 THEN <<l + 1, 0>> ELSE <<l, clones[l]>>
        BY <1>0 DEF ClonesChained
      <4> QED
        BY <1>0, <4>1
    <3> QED
      BY <2>1, <3>1, <3>2
  <2>2. CASE i > 1
    <3> DEFINE k == n - (i - 1)
    <3>1. k \in 1 .. n - 1 /\ i - 1 \in 1 .. n - 1 /\ k - 1 = n - i
      BY <1>0, <2>2
    <3>2. run[i - 1] = <<l, k>>
      BY <1>0, <3>1 DEF LoopOf
    <3>3. exitTo[<<l, k>>] = IF k = 1 THEN <<l + 1, 0>> ELSE <<l, k - 1>>
      BY <1>0, <3>1 DEF ClonesChained
    <3>4. run[i] = IF i = n THEN <<l + 1, 0>> ELSE <<l, n - i>>
      BY <1>0, <2>2 DEF LoopOf
    <3>5. k = 1 <=> i = n
      BY <1>0
    <3> QED
      BY <3>1, <3>2, <3>3, <3>4, <3>5
  <2> QED
    BY <1>0, <2>1, <2>2
<1>2. run[0] = <<l, 0>>
  BY <1>0 DEF LoopOf
<1>3. Follows(run)
  <2>1. \A i \in 0 .. n : i = 0 \/ i \in 1 .. n
    BY <1>0
  <2>2. \A i \in 0 .. n : run[i] = IF i = 0 THEN <<l, 0>> ELSE exitTo[run[i - 1]]
    BY <1>1, <1>2, <2>1
  <2>3. run = [i \in 0 .. n |-> run[i]]
    OBVIOUS
  <2> HIDE DEF run, n
  <2> QED
    BY <2>2, <2>3
<1>4. Follows(RunFrom(l))
  <2>1. RunFrom(l) = CHOOSE f : Follows(f)
    BY DEF RunFrom
  <2> HIDE DEF Follows, run
  <2> QED
    BY <1>3, <2>1
<1>5. \A i \in 0 .. n : RunFrom(l)[i] = run[i]
  <2> DEFINE G == {i \in 0 .. n : RunFrom(l)[i] = run[i]}
  <2> HIDE DEF run
  <2>1. /\ RunFrom(l)[0] = <<l, 0>>
        /\ \A i \in 1 .. n : RunFrom(l)[i] = exitTo[RunFrom(l)[i - 1]]
    <3> HIDE DEF n
    <3>1. 0 \in 0 .. n /\ \A i \in 1 .. n : i \in 0 .. n /\ i /= 0
      BY <1>0
    <3> QED
      BY <1>4, <3>1
  <2>2. 0 \in G
    BY <1>0, <1>2, <2>1
  <2>3. \A i \in 0 .. n - 1 : i \in G => i + 1 \in G
    <3>1. ASSUME NEW i \in 0 .. n - 1, i \in G
          PROVE  i + 1 \in G
      <4>1. i + 1 \in 1 .. n /\ (i + 1) - 1 = i
        BY <1>0
      <4>2. exitTo[run[i]] = run[i + 1]
        BY <1>1, <4>1
      <4>3. RunFrom(l)[i + 1] = exitTo[RunFrom(l)[i]]
        BY <2>1, <4>1
      <4> QED
        BY <1>0, <3>1, <4>1, <4>2, <4>3
    <3> QED
      BY <3>1
  <2> HIDE DEF G, n
  <2>4. \A i \in 0 .. n : i \in G
    BY <1>0, <2>2, <2>3, UpTo
  <2> QED
    BY <2>4 DEF G
<1> QED
  BY <1>0, <1>5

LEMMA OrderedWhenSplit == IInv /\ OrderInv => PartitionsRunInOrder
<1> SUFFICES ASSUME IInv, OrderInv, NEW l \in Loop, Finished(l), SccsSize(l) > 1
             PROVE  /\ \A i \in 0 .. SccsSize(l) - 1 :
                         kept[RunFrom(l)[i]] = partitions[l][i + 1] \cup LatchTail
                    /\ RunFrom(l)[SccsSize(l)] = <<l + 1, 0>>
  BY DEF PartitionsRunInOrder
<1>1. /\ ClonesMade /\ BodiesKept /\ SccsSize(l) \in Nat
      /\ clones[l] = SccsSize(l) - 1
  BY DEF IInv, InputsOK, SccsSize, OrderInv, ClonesMade, Finished
<1>2. ASSUME NEW i \in 0 .. SccsSize(l) - 1
      PROVE  kept[RunFrom(l)[i]] = partitions[l][i + 1] \cup LatchTail
  <2>1. PICK k \in 0 .. SccsSize(l) - 1 : LoopOf(l, i) = <<l, k>>
    BY <1>1, LoopOfRound
  <2>2. RoundOf(l, k) = i /\ Stripped(l, k)
    BY <1>1, <2>1, LoopOfRound DEF Stripped
  <2>3. kept[<<l, k>>] = partitions[l][i + 1] \cup LatchTail
    BY <1>1, <2>2 DEF BodiesKept
  <2> QED
    BY <1>1, <2>1, <2>3, RunIsLoopOf
<1> QED
  BY <1>1, <1>2, RunIsLoopOf

(* However many partitions a loop has, they run in their order, and control*)
(* then reaches what followed the loop: cloning and erasing, which count   *)
(* in opposite directions, agree.                                          *)
THEOREM PartitionsInOrder == Spec => []PartitionsRunInOrder
BY OrderedWhenSplit, OrderInvariance, PTL

LEMMA OnceWhenSplit == IInv /\ OrderInv => EachRunsOnce
<1> SUFFICES ASSUME IInv, OrderInv, NEW l \in Loop, Finished(l)
             PROVE  /\ \A i \in Body \ LatchTail :
                         Cardinality({b \in Headers(l) : i \in kept[b]}) = 1
                    /\ \A b \in Headers(l) : LatchTail \subseteq kept[b]
  BY DEF EachRunsOnce
<1>0. /\ ClonesMade /\ BodiesKept /\ PartitionsPart /\ SccsSize(l) \in Int
      /\ clones[l] = IF SccsSize(l) > 1 THEN SccsSize(l) - 1 ELSE 0
      /\ LatchTail \subseteq Body
  BY SplitAssumption DEF IInv, InputsOK, SccsSize, OrderInv, ClonesMade, Finished,
     LatchTail, Body
<1>1. \A b \in Headers(l) : LatchTail \subseteq kept[b]
  BY <1>0 DEF BodiesKept, Headers
<1>2. ASSUME NEW i \in Body \ LatchTail
      PROVE  \E c \in Headers(l) : {b \in Headers(l) : i \in kept[b]} = {c}
  <2>1. CASE SccsSize(l) > 1
    <3>1. PICK n \in 1 .. SccsSize(l) :
            \A m \in 1 .. SccsSize(l) : i \in partitions[l][m] <=> m = n
      BY <1>0, <2>1 DEF PartitionsPart
    <3>2. n - 1 \in 0 .. SccsSize(l) - 1
      BY <1>0
    <3>3. PICK c \in 0 .. SccsSize(l) - 1 : LoopOf(l, n - 1) = <<l, c>>
      BY <1>0, <3>2, LoopOfRound
    <3>4. ASSUME NEW k \in 0 .. SccsSize(l) - 1
          PROVE  i \in kept[<<l, k>>] <=> k = c
      <4>1. RoundOf(l, k) \in 0 .. SccsSize(l) - 1 /\ Stripped(l, k)
        BY <1>0, <2>1, LoopOfRound DEF Stripped
      <4>2. kept[<<l, k>>] = partitions[l][RoundOf(l, k) + 1] \cup LatchTail
        BY <1>0, <2>1, <4>1 DEF BodiesKept
      <4>3. RoundOf(l, k) + 1 \in 1 .. SccsSize(l)
        BY <1>0, <4>1
      <4>4. i \in kept[<<l, k>>] <=> RoundOf(l, k) + 1 = n
        BY <3>1, <4>2, <4>3
      <4>5. RoundOf(l, k) = n - 1 <=> LoopOf(l, n - 1) = <<l, k>>
        BY <1>0, <3>2, LoopOfRound
      <4> QED
        BY <1>0, <3>3, <4>1, <4>4, <4>5
    <3>5. Headers(l) = {<<l, k>> : k \in 0 .. SccsSize(l) - 1}
      BY <1>0, <2>1 DEF Headers
    <3>6. {b \in Headers(l) : i \in kept[b]} = {<<l, c>>}
      BY <3>4, <3>5
    <3> QED
      BY <3>5, <3>6
  <2>2. CASE SccsSize(l) <= 1
    <3>1. clones[l] = 0 /\ 0 \in 0 .. clones[l] /\ ~Stripped(l, 0)
      BY <1>0, <2>2 DEF Stripped
    <3>2. kept[<<l, 0>>] = Body
      BY <1>0, <3>1 DEF BodiesKept
    <3>3. \A k \in 0 .. clones[l] : k = 0
      BY <3>1
    <3>4. Headers(l) = {<<l, 0>>}
      BY <3>1, <3>3 DEF Headers
    <3> QED
      BY <3>2, <3>4
  <2> QED
    BY <1>0, <2>1, <2>2
<1> QED
  BY <1>1, <1>2, FS_Singleton

(* A split loop repeats no instruction and drops none, for any body and    *)
(* any partitioning of it.                                                 *)
THEOREM InstructionsRunOnce == Spec => []EachRunsOnce
BY OnceWhenSplit, OrderInvariance, PTL

(* What makes the erasing safe: an operand is in its user's partition, and *)
(* what the latch keeps is read by no instruction but itself.              *)
OperandsTogether ==
  /\ \A p \in operands : p[2] \notin LatchTail
  /\ \A l \in Loop : SccsSize(l) > 1 =>
       \A n \in 1 .. SccsSize(l) : \A p \in operands :
         p[1] \in Body /\ p[2] \in partitions[l][n] => p[1] \in partitions[l][n]

(* Then no step erases an instruction that is still used, except by the    *)
(* header.                                                                 *)
LEMMA NothingErasedInUse ==
  ASSUME IInv, OrderInv, OperandsTogether, ~crashed, [SplitNext]_vars
  PROVE  crashed' => ~(headerReads \subseteq LatchTail)
<1>1. CASE EraseOthers
  <2> DEFINE l == current
             b == LoopOf(l, erased)
             left == kept[b] \cap Keeps(l, erased)
  <2>1. /\ l \in Loop /\ clones[l] = SccsSize(l) - 1 /\ SccsSize(l) \in Nat
        /\ SccsSize(l) > 1 /\ erased \in 0 .. SccsSize(l) - 1
    <3>1. l \in Loop /\ l /= 0 /\ clones[l] = SccsSize(l) - 1
      BY <1>1 DEF EraseOthers, IInv, TypeOK
    <3>2. SccsSize(l) \in Int /\ SccsSize(l) > 1
      BY <3>1 DEF IInv, InputsOK, SccsSize, OrderInv, ClonesMade
    <3>3. erased \in Nat /\ erased < SccsSize(l)
      BY <3>1, SplitAssumption DEF IInv, TypeOK, RoundsLeft
    <3> QED
      BY <3>1, <3>2, <3>3
  <2>2. kept[b] \subseteq Body
    <3>1. PICK k \in 0 .. SccsSize(l) - 1 : b = <<l, k>>
      BY <2>1, LoopOfRound
    <3>2. b \in InUse
      BY <2>1, <3>1 DEF InUse, Headers
    <3>3. b \in Block
      BY <3>2, BlockFacts DEF IInv
    <3> QED
      BY <3>3 DEF IInv, TypeOK
  <2>3. erased + 1 \in 1 .. SccsSize(l)
    BY <2>1
  <2>4. /\ \A p \in operands : p[2] \notin LatchTail
        /\ \A p \in operands :
             p[1] \in Body /\ p[2] \in partitions[l][erased + 1] =>
               p[1] \in partitions[l][erased + 1]
    BY <2>1, <2>3 DEF OperandsTogether
  <2>5. Keeps(l, erased) = partitions[l][erased + 1] \cup LatchTail
    BY DEF Keeps
  <2>6. crashed' = \E i \in kept[b] \ left : \/ i \in headerReads
                                             \/ \E j \in left : <<i, j>> \in operands
    BY <1>1 DEF EraseOthers
  <2> HIDE DEF b, l
  <2>7. ASSUME NEW i \in kept[b] \ left
        PROVE  i \notin LatchTail /\ \A j \in left : <<i, j>> \notin operands
    <3>1. i \notin partitions[l][erased + 1] /\ i \notin LatchTail /\ i \in Body
      BY <2>2, <2>5
    <3>2. ASSUME NEW j \in left, <<i, j>> \in operands
          PROVE  FALSE
      <4>1. j \notin LatchTail
        BY <2>4, <3>2
      <4>2. j \in partitions[l][erased + 1]
        BY <2>5, <4>1
      <4>3. <<i, j>>[1] \in partitions[l][erased + 1]
        BY <2>4, <3>1, <3>2, <4>2
      <4> QED
        BY <3>1, <4>3
    <3> QED
      BY <3>1, <3>2
  <2> QED
    BY <2>6, <2>7
<1>2. CASE ~EraseOthers
  BY <1>2 DEF SplitNext, NextLoop, CreateOneLoop, vars, splitVars
<1> QED
  BY <1>1, <1>2

(* As long as the pass goes on, every loop has what its header reads.      *)
HeaderKept ==
  ~crashed => \A l \in Loop : \A k \in 0 .. clones[l] :
                headerReads \cap Body \subseteq kept[<<l, k>>]

LEMMA StartHeaderKept == IInv /\ OrderInv /\ SplitInit => HeaderKept
<1> SUFFICES ASSUME IInv, SplitInit, NEW l \in Loop, NEW k \in 0 .. clones[l]
             PROVE  kept[<<l, k>>] = Body
  BY DEF HeaderKept
<1>1. clones[l] = 0 /\ k = 0
  BY DEF SplitInit
<1>2. <<l, 0>> \in Block
  BY SplitAssumption DEF Block, Loop
<1> QED
  BY <1>1, <1>2 DEF SplitInit

LEMMA StepHeaderKept == IInv /\ HeaderKept /\ [SplitNext]_vars => HeaderKept'
<1> SUFFICES ASSUME IInv, HeaderKept, [SplitNext]_vars, ~crashed',
                    NEW l \in Loop, NEW k \in 0 .. clones'[l]
             PROVE  headerReads' \cap Body \subseteq kept'[<<l, k>>]
  BY DEF HeaderKept
<1>0. headerReads' = headerReads /\ kept \in [Block -> SUBSET Body]
      /\ clones \in [Loop -> 0 .. BodySize - 2]
  BY DEF SplitNext, NextLoop, CreateOneLoop, EraseOthers, vars, inputVars, IInv, TypeOK
<1>1. ASSUME kept' = kept, clones' = clones, crashed' = crashed
      PROVE  headerReads' \cap Body \subseteq kept'[<<l, k>>]
  BY <1>0, <1>1 DEF HeaderKept
<1>2. CASE CreateOneLoop
  <2> DEFINE head == <<current, 0>>
             new == <<current, clones[current] + 1>>
  <2>1. /\ current \in Loop /\ ~crashed
        /\ clones' = [clones EXCEPT ![current] = @ + 1]
        /\ kept' = [kept EXCEPT ![new] = kept[head]]
    BY <1>2 DEF CreateOneLoop, IInv, TypeOK
  <2>2. clones[current] \in Nat /\ clones[l] \in Nat
    BY <1>0, <2>1, SplitAssumption
  <2>3. new \in Block
    BY <1>0, <2>1, SplitAssumption DEF Block, Loop
  <2>4. headerReads \cap Body \subseteq kept[head]
    BY <2>1, <2>2 DEF HeaderKept
  <2>5. CASE <<l, k>> = new
    BY <1>0, <2>1, <2>3, <2>4, <2>5
  <2>6. CASE <<l, k>> /= new
    <3>1. k \in 0 .. clones[l]
      BY <1>0, <2>1, <2>2, <2>6
    <3>2. kept'[<<l, k>>] = kept[<<l, k>>]
      <4>1. <<l, k>> \in Block
        BY <1>0, <3>1, SplitAssumption DEF Block, Loop
      <4> QED
        BY <1>0, <2>1, <2>6, <4>1
    <3> QED
      BY <1>0, <2>1, <3>1, <3>2 DEF HeaderKept
  <2> QED
    BY <2>5, <2>6
<1>3. CASE EraseOthers
  <2> DEFINE b == LoopOf(current, erased)
             left == kept[b] \cap Keeps(current, erased)
  <2>1. /\ ~crashed /\ clones' = clones
        /\ kept' = [kept EXCEPT ![b] = left]
        /\ \A i \in kept[b] \ left : i \notin headerReads
    BY <1>3 DEF EraseOthers
  <2>2. <<l, k>> \in Block /\ headerReads \cap Body \subseteq kept[<<l, k>>]
    BY <1>0, <2>1, SplitAssumption DEF HeaderKept, Block, Loop
  <2> HIDE DEF b, left
  <2>3. CASE <<l, k>> = b
    BY <1>0, <2>1, <2>2, <2>3
  <2>4. CASE <<l, k>> /= b
    BY <1>0, <2>1, <2>2, <2>4
  <2> QED
    BY <2>3, <2>4
<1> QED
  BY <1>1, <1>2, <1>3 DEF SplitNext, NextLoop, vars, splitVars

(* A header that reads another instruction stays whole: the pass does not  *)
(* end.                                                                    *)
LEMMA SplitCarriesNothing ==
  ASSUME IInv, OrderInv, HeaderKept, ~crashed, NEW l \in Loop, Finished(l),
         clones[l] > 0
  PROVE  headerReads \cap Body \subseteq LatchTail
<1> SUFFICES ASSUME NEW i \in (headerReads \cap Body) \ LatchTail
             PROVE  FALSE
  OBVIOUS
<1>0. /\ BodiesKept /\ PartitionsPart /\ SccsSize(l) \in Int
      /\ clones[l] = IF SccsSize(l) > 1 THEN SccsSize(l) - 1 ELSE 0
  BY DEF IInv, InputsOK, SccsSize, OrderInv, ClonesMade, Finished
<1>1. SccsSize(l) > 1
  BY <1>0
<1>2. PICK n \in 1 .. SccsSize(l) :
        \A m \in 1 .. SccsSize(l) : i \in partitions[l][m] <=> m = n
  BY <1>0, <1>1 DEF PartitionsPart
<1>3. ASSUME NEW k \in {0, 1}
      PROVE  RoundOf(l, k) + 1 = n
  <2>1. k \in 0 .. clones[l]
    BY <1>0, <1>1
  <2>2. Stripped(l, k)
    BY <1>1 DEF Stripped
  <2>3. i \in partitions[l][RoundOf(l, k) + 1]
    BY <1>0, <2>1, <2>2 DEF BodiesKept, HeaderKept
  <2>4. RoundOf(l, k) + 1 \in 1 .. SccsSize(l)
    BY <1>0, <1>1 DEF RoundOf
  <2> QED
    BY <1>2, <2>3, <2>4
<1>4. RoundOf(l, 0) = 0 /\ RoundOf(l, 1) = SccsSize(l) - 1
  BY DEF RoundOf
<1> QED
  BY <1>0, <1>1, <1>3, <1>4

=============================================================================
