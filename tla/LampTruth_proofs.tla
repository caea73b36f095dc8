-------------------------- MODULE LampTruth_proofs --------------------------
(***************************************************************************)
(* Proofs about the profiler's time stamps: for any program, nest of       *)
(* loops, memory and length of the run, a byte has a stamp exactly while a *)
(* store to it is live, and the stamp identifies the loop that carries a   *)
(* dependence on it and whether the dependence crosses iterations.  Every  *)
(* entry of the profile and every set of dependences has its type, an      *)
(* entry exists exactly for the dependences the program met, and its loop  *)
(* count is the number of iterations they were met in.                     *)
(***************************************************************************)
EXTENDS LampTruth, SequenceTheorems, FiniteSetTheorems, LeastNumber, TLAPS

(* Start of the latest iteration of a level, 0 before its first.           *)
Latest(w) == IF w = <<>> THEN 0 ELSE w[Len(w)]

StateOK ==
  /\ depth \in Level /\ nest = depth
  /\ invTime \in [Level -> Nat] /\ iterTimes \in [Level -> Seq(Nat)]
  /\ timeStamp \in Nat
  /\ memory \in [Addr -> Stamp \cup {Unknown, Invalid}]
  /\ externalCall \in Instr
  /\ stored \in [Addr -> BOOLEAN]
  /\ age \in [Addr -> [Level -> Nat \cup {Outside}]]

(* Loops are entered, and their iterations begun, before now; a body runs  *)
(* later than its loop was entered.                                        *)
ClockOK ==
  /\ initialized => timeStamp >= 1
  /\ invTime[0] = 0
  /\ \A l \in 1 .. nest :
       /\ invTime[l] <= timeStamp
       /\ l < nest => invTime[l] < timeStamp
  /\ inBody => \A l \in 1 .. nest : invTime[l] < timeStamp
  /\ \A l \in 0 .. nest : Latest(iterTimes[l]) <= timeStamp

(* A time t tells what the ages a tell.                                    *)
Tells(t, a) ==
  /\ t \in 1 .. timeStamp
  /\ \A l \in 0 .. nest :
       /\ a[l] /= Outside <=> invTime[l] < t
       /\ a[l] /= Outside => (a[l] = 0 <=> Latest(iterTimes[l]) <= t)
  /\ \E k \in 0 .. nest : \A l \in 1 .. nest : invTime[l] < t <=> l <= k

StampsTell ==
  \A b \in Addr : stored[b] => initialized /\ Tells(memory[b].time, age[b])

Live == \A b \in Addr : Written(b) <=> stored[b]

IInv ==
  \/ crashed
  \/ StateOK /\ ClockOK /\ StampsTell /\ Live

-----------------------------------------------------------------------------

LEMMA LatestPushed ==
  ASSUME NEW w \in Seq(Nat), NEW n \in Nat \ {0}, NEW t \in Nat
  PROVE  /\ Pushed(w, n, t) \in Seq(Nat)
         /\ Latest(Pushed(w, n, t)) = t
<1>1. ASSUME NEW v \in Seq(Nat)
      PROVE  Append(v, t) \in Seq(Nat) /\ Latest(Append(v, t)) = t
  <2>1. Append(v, t) \in Seq(Nat) /\ Len(Append(v, t)) = Len(v) + 1
    BY AppendProperties
  <2>2. Append(v, t)[Len(v) + 1] = t
    BY AppendProperties
  <2>3. Append(v, t) /= <<>>
    <3>1. Len(v) \in Nat
      BY LenProperties
    <3> DEFINE s == Append(v, t)
    <3>2. Len(s) /= 0
      BY <2>1, <3>1
    <3> HIDE DEF s
    <3>3. s /= <<>>
      BY <3>2
    <3> QED
      BY <3>3 DEF s
  <2> QED
    BY <2>1, <2>2, <2>3 DEF Latest
<1>2. CASE Len(w) < n
  BY <1>1, <1>2 DEF Pushed
<1>3. CASE ~(Len(w) < n)
  <2>1. w /= <<>>
    BY <1>3, EmptySeq
  <2>2. Tail(w) \in Seq(Nat)
    BY <2>1, HeadTailProperties
  <2> QED
    BY <1>1, <1>3, <2>2 DEF Pushed
<1> QED
  BY <1>2, <1>3

LEMMA FitsField ==
  ASSUME NEW n \in Nat, NEW t \in Nat, t <= n
  PROVE  t % (n + 1) = t
OBVIOUS

(* A byte is in one of three states.                                       *)
LEMMA StampStates ==
  ASSUME NEW s \in Stamp
  PROVE  s /= Unknown /\ s /= Invalid
BY StampAssumption

LEMMA InitIInv == TruthInit => IInv
<1> SUFFICES ASSUME TruthInit PROVE IInv
  OBVIOUS
<1> USE DEF TruthInit, Init, HierarchyInit
<1>1. 0 \in Level
  BY HierarchyAssumption DEF Level
<1>2. StateOK
  <2>1. iterTimes \in [Level -> Seq(Nat)]
    OBVIOUS
  <2>2. externalCall \in Instr
    BY HooksAssumption
  <2> QED
    BY <1>1, <2>1, <2>2 DEF StateOK
<1>3. ClockOK
  BY <1>1 DEF ClockOK, Latest
<1>4. StampsTell /\ Live
  BY DEF StampsTell, Live, Written
<1> QED
  BY <1>2, <1>3, <1>4 DEF IInv

(* Steps that leave the loops, the clock and the stamps alone.             *)
LEMMA Unaffected ==
  ASSUME IInv, crashed' = crashed, externalCall' \in Instr,
         UNCHANGED <<hierarchyVars, initialized, timeStamp, memory, nest, inBody>>,
         UNCHANGED <<stored, age>>
  PROVE  IInv'
<1>1. CASE crashed
  <2>1. crashed'
    BY <1>1
  <2> QED
    BY <2>1 DEF IInv
<1>2. CASE ~crashed
  <2>1. StateOK /\ ClockOK /\ StampsTell /\ Live
    BY <1>2 DEF IInv
  <2>2. StateOK'
    BY <2>1 DEF StateOK, hierarchyVars
  <2>3. ClockOK'
    BY <2>1 DEF ClockOK, hierarchyVars
  <2>4. StampsTell'
    BY <2>1 DEF StampsTell, Tells, hierarchyVars
  <2>5. Live'
    BY <2>1 DEF Live, Written
  <2> QED
    BY <2>2, <2>3, <2>4, <2>5 DEF IInv
<1> QED
  BY <1>1, <1>2

LEMMA Quiet ==
  ASSUME IInv,
         UNCHANGED <<hierarchyVars, initialized, timeStamp, memory, nest, inBody>>,
         UNCHANGED <<externalCall, crashed, stored, age>>
  PROVE  IInv'
<1>1. CASE crashed
  <2>1. crashed'
    BY <1>1
  <2> QED
    BY <2>1 DEF IInv
<1>2. CASE ~crashed
  <2>1. externalCall' \in Instr
    BY <1>2 DEF IInv, StateOK
  <2> QED
    BY <2>1, Unaffected
<1> QED
  BY <1>1, <1>2

(* A store is later than the entry of every loop the program is in, and no *)
(* iteration began since.                                                  *)
LEMMA StoreStep ==
  ASSUME IInv, Running, initialized, timeStamp <= TimeStampMax,
         NEW R \in SUBSET Addr, NEW i \in Instr,
         memory' = Stamped(R, i), ObserveStore(R),
         UNCHANGED <<hierarchyVars, initialized, timeStamp, nest, inBody>>,
         UNCHANGED <<externalCall, crashed>>
  PROVE  IInv'
<1>1. StateOK /\ ClockOK /\ StampsTell /\ Live /\ inBody
  BY DEF IInv, Running
<1>2. timeStamp % (TimeStampMax + 1) = timeStamp
  BY <1>1, HooksAssumption, FitsField DEF StateOK
<1>3. [instr |-> i, time |-> timeStamp] \in Stamp
  BY <1>1 DEF StateOK, Stamp
<1>4. memory' = [b \in Addr |-> IF b \in R THEN [instr |-> i, time |-> timeStamp]
                                            ELSE memory[b]]
  BY <1>2 DEF Stamped
<1>5. /\ stored' = [b \in Addr |-> stored[b] \/ b \in R]
      /\ age' = [b \in Addr |-> IF b \notin R THEN age[b]
                   ELSE [l \in Level |-> IF l <= nest THEN 0 ELSE Outside]]
  BY DEF ObserveStore
<1>6. StateOK'
  <2>1. memory' \in [Addr -> Stamp \cup {Unknown, Invalid}]
    BY <1>1, <1>3, <1>4 DEF StateOK
  <2>2. stored' \in [Addr -> BOOLEAN]
    BY <1>1, <1>5 DEF StateOK
  <2>3. age' \in [Addr -> [Level -> Nat \cup {Outside}]]
    BY <1>1, <1>5 DEF StateOK
  <2> QED
    BY <1>1, <2>1, <2>2, <2>3 DEF StateOK, hierarchyVars
<1>7. ClockOK'
  BY <1>1 DEF ClockOK, hierarchyVars
<1>8. Live'
  <2>1. ASSUME NEW b \in R
        PROVE  Written(b)' <=> stored'[b]
    BY <1>3, <1>4, <1>5, <2>1, StampStates DEF Written
  <2>2. ASSUME NEW b \in Addr \ R
        PROVE  Written(b)' <=> stored'[b]
    BY <1>1, <1>4, <1>5, <2>2 DEF Live, Written, StateOK
  <2> QED
    BY <2>1, <2>2 DEF Live
<1>9. StampsTell'
  <2>1. ASSUME NEW b \in R
        PROVE  Tells(memory[b].time, age[b])'
    <3>1. memory'[b].time = timeStamp
      BY <1>4, <2>1
    <3>2. \A l \in 0 .. nest : age'[b][l] = 0
      <4>1. 0 .. nest \subseteq Level /\ \A l \in 0 .. nest : l <= nest
        BY <1>1, HierarchyAssumption DEF StateOK, Level
      <4>2. age'[b] = [l \in Level |-> IF l <= nest THEN 0 ELSE Outside]
        BY <1>5, <2>1
      <4> QED
        BY <4>1, <4>2
    <3>3. nest \in Nat /\ timeStamp \in 1 .. timeStamp
      BY <1>1 DEF StateOK, ClockOK, Level
    <3>4. 0 /= Outside
      BY OutsideAssumption
    <3>5. \A l \in 0 .. nest : invTime[l] < timeStamp /\ Latest(iterTimes[l]) <= timeStamp
      BY <1>1, <3>3 DEF ClockOK
    <3> HIDE DEF Latest
    <3>6. \E k \in 0 .. nest : \A l \in 1 .. nest : invTime[l] < timeStamp <=> l <= k
      BY <3>3, <3>5
    <3> QED
      BY <3>1, <3>2, <3>3, <3>4, <3>5, <3>6 DEF Tells, hierarchyVars
  <2>2. ASSUME NEW b \in Addr \ R, stored[b]
        PROVE  Tells(memory[b].time, age[b])'
    <3>1. memory'[b] = memory[b] /\ age'[b] = age[b]
      BY <1>4, <1>5, <2>2
    <3> QED
      BY <1>1, <2>2, <3>1 DEF StampsTell, Tells, hierarchyVars
  <2>3. \A b \in Addr \ R : stored'[b] => stored[b]
    BY <1>1, <1>5 DEF StateOK
  <2> QED
    BY <2>1, <2>2, <2>3 DEF StampsTell
<1> QED
  BY <1>6, <1>7, <1>8, <1>9 DEF IInv

(* Allocating and freeing leave no stamp.                                  *)
LEMMA ForgetStep ==
  ASSUME IInv, Running, NEW R \in SUBSET Addr,
         memory' \in [Addr -> Stamp \cup {Unknown, Invalid}],
         \A b \in R : memory'[b] \in {Unknown, Invalid},
         \A b \in Addr \ R : memory'[b] = memory[b],
         Forget(R),
         UNCHANGED <<hierarchyVars, initialized, timeStamp, nest, inBody>>,
         UNCHANGED <<externalCall, crashed>>
  PROVE  IInv'
<1>1. StateOK /\ ClockOK /\ StampsTell /\ Live
  BY DEF IInv, Running
<1>2. stored' = [b \in Addr |-> stored[b] /\ b \notin R] /\ age' = age
  BY DEF Forget
<1>3. StateOK'
  BY <1>1, <1>2 DEF StateOK, hierarchyVars
<1>4. ClockOK'
  BY <1>1 DEF ClockOK, hierarchyVars
<1>5. Live'
  BY <1>1, <1>2 DEF Live, Written
<1>6. StampsTell'
  BY <1>1, <1>2 DEF StampsTell, Tells, hierarchyVars
<1> QED
  BY <1>3, <1>4, <1>5, <1>6 DEF IInv

LEMMA InvalidateStep ==
  ASSUME IInv, Running, NEW a \in Addr, NEW w \in Width,
         memory' = Invalidated(Region(a, w)), Forget(Region(a, w)),
         Region(a, w) \subseteq Addr,
         UNCHANGED <<hierarchyVars, initialized, timeStamp, nest, inBody>>,
         UNCHANGED <<externalCall, crashed>>
  PROVE  IInv'
<1>1. memory \in [Addr -> Stamp \cup {Unknown, Invalid}]
  BY DEF IInv, StateOK, Running
<1>2. /\ memory' \in [Addr -> Stamp \cup {Unknown, Invalid}]
      /\ \A b \in Region(a, w) : memory'[b] \in {Unknown, Invalid}
      /\ \A b \in Addr \ Region(a, w) : memory'[b] = memory[b]
  BY <1>1 DEF Invalidated, TakenBack
<1> QED
  BY <1>2, ForgetStep

(* main() starts outside of every loop, and nothing is stored before it.   *)
LEMMA InitStep == IInv /\ LampInit /\ UNCHANGED truthVars => IInv'
<1> SUFFICES ASSUME IInv, LampInit, UNCHANGED truthVars PROVE IInv'
  OBVIOUS
<1>1. /\ StateOK /\ ClockOK /\ StampsTell /\ Live
      /\ ~initialized /\ nest = 0 /\ depth = 0
  BY DEF IInv, LampInit, StateOK
<1>2. /\ depth' = 0 /\ nest' = 0 /\ timeStamp' = 1 /\ invTime' = invTime
      /\ memory' = memory /\ stored' = stored /\ age' = age
      /\ iterTimes' = [iterTimes EXCEPT ![0] = Pushed(@, MaxDepDistance, 0)]
  BY <1>1 DEF LampInit, LoopIteration, truthVars, programVars
<1>3. 0 \in Level /\ iterTimes[0] \in Seq(Nat)
  BY <1>1 DEF StateOK
<1>4. /\ iterTimes'[0] \in Seq(Nat)
      /\ Latest(iterTimes'[0]) = 0
  BY <1>1, <1>2, <1>3, LatestPushed, HierarchyAssumption DEF StateOK
<1>5. StateOK'
  <2>1. iterTimes' \in [Level -> Seq(Nat)]
    BY <1>1, <1>2, <1>3, <1>4 DEF StateOK
  <2>2. externalCall' \in Instr
    BY HooksAssumption DEF LampInit
  <2> QED
    BY <1>1, <1>2, <2>1, <2>2 DEF StateOK
<1>6. ClockOK'
  <2> HIDE DEF Latest
  <2>1. invTime'[0] = 0
    BY <1>1, <1>2 DEF ClockOK
  <2> QED
    BY <1>2, <1>4, <2>1 DEF ClockOK
<1>7. Live' /\ StampsTell'
  <2>1. \A b \in Addr : ~stored'[b]
    BY <1>1, <1>2 DEF StampsTell
  <2>2. Live'
    BY <1>1, <1>2 DEF Live, Written
  <2> QED
    BY <2>1, <2>2 DEF StampsTell
<1> QED
  BY <1>5, <1>6, <1>7 DEF IInv

(* No store was made in a loop that is only being entered.                 *)
LEMMA InvocationStep ==
  ASSUME IInv, NEW id \in LoopId, LampLoopInvocation(id),
         age' = [b \in Addr |-> [age[b] EXCEPT ![nest + 1] = Outside]],
         UNCHANGED stored
  PROVE  IInv'
<1>1. StateOK /\ ClockOK /\ StampsTell /\ Live /\ inBody
  BY DEF IInv, LampLoopInvocation, Running
<1>2. depth = nest /\ nest \in Nat /\ nest + 1 \in Level
  BY <1>1 DEF StateOK, Level, LampLoopInvocation, CanEnter
<1>3. /\ depth' = nest + 1 /\ nest' = nest + 1 /\ inBody' = FALSE
      /\ timeStamp' = timeStamp /\ initialized' = initialized
      /\ memory' = memory /\ externalCall' = externalCall
      /\ invTime' = [invTime EXCEPT ![nest + 1] = timeStamp]
      /\ iterTimes' = [iterTimes EXCEPT ![nest + 1] = <<>>]
  BY <1>2 DEF LampLoopInvocation, EnterLoop
<1>4. /\ invTime'[nest + 1] = timeStamp
      /\ \A l \in 0 .. nest : invTime'[l] = invTime[l]
      /\ Latest(iterTimes'[nest + 1]) = 0
      /\ \A l \in 0 .. nest : iterTimes'[l] = iterTimes[l]
  <2>1. 0 .. nest \subseteq Level /\ \A l \in 0 .. nest : l /= nest + 1
    BY <1>2, HierarchyAssumption DEF Level
  <2>2. iterTimes'[nest + 1] = <<>>
    BY <1>1, <1>2, <1>3 DEF StateOK
  <2>3. Latest(iterTimes'[nest + 1]) = 0
    BY <2>2 DEF Latest
  <2>4. \A l \in 0 .. nest : iterTimes'[l] = iterTimes[l]
    BY <1>1, <1>3, <2>1 DEF StateOK
  <2>5. \A l \in 0 .. nest : invTime'[l] = invTime[l]
    BY <1>1, <1>3, <2>1 DEF StateOK
  <2>6. invTime'[nest + 1] = timeStamp
    BY <1>1, <1>2, <1>3 DEF StateOK
  <2> QED
    BY <2>3, <2>4, <2>5, <2>6
<1>5. StateOK'
  <2>1. iterTimes' \in [Level -> Seq(Nat)]
    <3>1. <<>> \in Seq(Nat)
      BY EmptySeq
    <3> HIDE DEF Level
    <3> QED
      BY <1>1, <1>3, <3>1 DEF StateOK
  <2>2. invTime' \in [Level -> Nat]
    BY <1>1, <1>3 DEF StateOK
  <2>3. age' \in [Addr -> [Level -> Nat \cup {Outside}]]
    BY <1>1 DEF StateOK
  <2> QED
    BY <1>1, <1>2, <1>3, <2>1, <2>2, <2>3 DEF StateOK
<1>6. ClockOK'
  <2> HIDE DEF Latest
  <2>1. timeStamp \in Nat
    BY <1>1 DEF StateOK
  <2>2. \A l \in 1 .. nest : invTime[l] < timeStamp
    BY <1>1 DEF ClockOK
  <2>3. /\ initialized' => timeStamp' >= 1
        /\ invTime'[0] = 0
    BY <1>1, <1>2, <1>3, <1>4 DEF ClockOK
  <2>4. \A l \in 0 .. nest' : Latest(iterTimes'[l]) <= timeStamp'
    <3>1. \A l \in 0 .. nest : Latest(iterTimes[l]) <= timeStamp
      BY <1>1 DEF ClockOK
    <3> QED
      BY <1>2, <1>3, <1>4, <2>1, <3>1
  <2>5. \A l \in 1 .. nest' :
          /\ invTime'[l] <= timeStamp'
          /\ l < nest' => invTime'[l] < timeStamp'
    <3>1. ASSUME NEW l \in 1 .. nest'
          PROVE  /\ invTime'[l] <= timeStamp'
                 /\ l < nest' => invTime'[l] < timeStamp'
      <4>1. CASE l \in 1 .. nest
        <5>1. l \in 0 .. nest /\ l \in Level
          BY <1>2, <4>1, HierarchyAssumption DEF Level
        <5>2. invTime[l] \in Nat
          BY <1>1, <5>1 DEF StateOK
        <5> QED
          BY <1>3, <1>4, <2>1, <2>2, <4>1, <5>1, <5>2
      <4>2. CASE l = nest + 1
        BY <1>2, <1>3, <1>4, <2>1, <4>2
      <4> QED
        BY <1>2, <1>3, <4>1, <4>2
    <3> QED
      BY <3>1
  <2> QED
    BY <1>3, <2>3, <2>4, <2>5 DEF ClockOK, Latest
<1>7. Live'
  BY <1>1, <1>3 DEF Live, Written
<1>8. ASSUME NEW b \in Addr, stored[b]
      PROVE  Tells(memory[b].time, age[b])'
  <2> HIDE DEF Latest
  <2> DEFINE t == memory[b].time
  <2>1. initialized /\ Tells(t, age[b])
    BY <1>1, <1>8 DEF StampsTell
  <2>2. t \in 1 .. timeStamp /\ timeStamp \in Nat
    BY <1>1, <2>1 DEF Tells, StateOK
  <2>3. /\ age'[b][nest + 1] = Outside
        /\ \A l \in 0 .. nest : age'[b][l] = age[b][l]
    <3>1. age'[b] = [age[b] EXCEPT ![nest + 1] = Outside]
      OBVIOUS
    <3>2. age[b] \in [Level -> Nat \cup {Outside}]
      BY <1>1 DEF StateOK
    <3>3. 0 .. nest \subseteq Level /\ \A l \in 0 .. nest : l /= nest + 1
      BY <1>2, HierarchyAssumption DEF Level
    <3> QED
      BY <1>2, <3>1, <3>2, <3>3
  <2>4. PICK k \in 0 .. nest : \A l \in 1 .. nest : invTime[l] < t <=> l <= k
    BY <2>1 DEF Tells
  <2>5. \A l \in 1 .. nest + 1 : invTime'[l] < t <=> l <= k
    <3>1. \A l \in 1 .. nest : l \in 0 .. nest
      BY <1>2
    <3>2. ~(invTime'[nest + 1] < t) /\ ~(nest + 1 <= k)
      BY <1>2, <1>4, <2>2
    <3>3. \A l \in 1 .. nest + 1 : l \in 1 .. nest \/ l = nest + 1
      BY <1>2
    <3> QED
      BY <1>4, <2>4, <3>1, <3>2, <3>3
  <2>6. \A l \in 0 .. nest + 1 :
          /\ age'[b][l] /= Outside <=> invTime'[l] < t
          /\ age'[b][l] /= Outside =>
               (age'[b][l] = 0 <=> Latest(iterTimes'[l]) <= t)
    <3>1. ~(invTime'[nest + 1] < t)
      BY <1>4, <2>2
    <3>2. \A l \in 0 .. nest + 1 : l \in 0 .. nest \/ l = nest + 1
      BY <1>2
    <3> HIDE DEF t
    <3> QED
      BY <1>4, <2>1, <2>3, <3>1, <3>2 DEF Tells
  <2>7. k \in 0 .. nest + 1 /\ memory'[b].time = t
    BY <1>2, <1>3
  <2> HIDE DEF t
  <2> QED
    BY <1>3, <2>2, <2>5, <2>6, <2>7 DEF Tells
<1>9. StampsTell'
  BY <1>1, <1>3, <1>8 DEF StampsTell
<1> QED
  BY <1>5, <1>6, <1>7, <1>9 DEF IInv

(* An iteration begins after every store made before it.                   *)
LEMMA IterationStep ==
  ASSUME IInv, LampIterationBegin, UNCHANGED stored,
         age' = [b \in Addr |->
                   [age[b] EXCEPT ![nest] = IF @ = Outside THEN @ ELSE @ + 1]]
  PROVE  IInv'
<1>1. StateOK /\ ClockOK /\ StampsTell /\ Live
  BY DEF IInv, LampIterationBegin
<1>2. /\ depth = nest /\ nest \in Level /\ nest \in Nat \ {0}
      /\ timeStamp \in Nat
      /\ 0 .. nest \subseteq Level
  BY <1>1, HierarchyAssumption DEF StateOK, Level, LampIterationBegin
<1>3. /\ depth' = depth /\ nest' = nest /\ inBody'
      /\ timeStamp' = timeStamp + 1 /\ initialized' = initialized
      /\ memory' = memory /\ externalCall' = externalCall
      /\ invTime' = invTime
      /\ iterTimes' = [iterTimes EXCEPT
                         ![nest] = Pushed(@, MaxDepDistance, timeStamp + 1)]
  BY <1>2 DEF LampIterationBegin, LoopIteration
<1>4. /\ iterTimes'[nest] \in Seq(Nat)
      /\ Latest(iterTimes'[nest]) = timeStamp + 1
      /\ \A l \in Level : l /= nest => iterTimes'[l] = iterTimes[l]
  <2>1. /\ iterTimes'[nest] = Pushed(iterTimes[nest], MaxDepDistance, timeStamp + 1)
        /\ \A l \in Level : l /= nest => iterTimes'[l] = iterTimes[l]
    BY <1>1, <1>2, <1>3 DEF StateOK
  <2>2. iterTimes[nest] \in Seq(Nat) /\ timeStamp + 1 \in Nat
    BY <1>1, <1>2 DEF StateOK
  <2> QED
    BY <2>1, <2>2, LatestPushed, HierarchyAssumption
<1>5. StateOK'
  <2>1. iterTimes' \in [Level -> Seq(Nat)]
    BY <1>1, <1>3, <1>4 DEF StateOK
  <2>2. age' \in [Addr -> [Level -> Nat \cup {Outside}]]
    BY <1>1 DEF StateOK
  <2> QED
    BY <1>1, <1>2, <1>3, <2>1, <2>2 DEF StateOK
<1>6. ClockOK'
  <2> HIDE DEF Latest
  <2>1. \A l \in 0 .. nest : invTime[l] \in Nat
    BY <1>1, <1>2 DEF StateOK
  <2>2. \A l \in 1 .. nest : invTime[l] < timeStamp + 1
    <3>1. \A l \in 1 .. nest : invTime[l] <= timeStamp /\ l \in 0 .. nest
      BY <1>1, <1>2 DEF ClockOK
    <3> QED
      BY <1>2, <2>1, <3>1
  <2>3. \A l \in 0 .. nest : Latest(iterTimes'[l]) <= timeStamp + 1
    <3>1. ASSUME NEW l \in 0 .. nest, l /= nest
          PROVE  Latest(iterTimes'[l]) <= timeStamp + 1
      <4>1. iterTimes'[l] = iterTimes[l] /\ iterTimes[l] \in Seq(Nat)
        BY <1>1, <1>2, <1>4, <3>1 DEF StateOK
      <4>2. Latest(iterTimes[l]) \in Nat
        BY <4>1 DEF Latest
      <4>3. Latest(iterTimes[l]) <= timeStamp
        BY <1>1 DEF ClockOK
      <4> QED
        BY <1>2, <4>1, <4>2, <4>3
    <3> QED
      BY <1>2, <1>4, <3>1
  <2>4. invTime[0] = 0
    BY <1>1 DEF ClockOK
  <2>5. \A l \in 1 .. nest : invTime[l] <= timeStamp + 1
    BY <1>2, <2>1, <2>2
  <2> QED
    BY <1>2, <1>3, <2>2, <2>3, <2>4, <2>5 DEF ClockOK, Latest
<1>7. Live'
  BY <1>1, <1>3 DEF Live, Written
<1>8. ASSUME NEW b \in Addr, stored[b]
      PROVE  Tells(memory[b].time, age[b])'
  <2> HIDE DEF Latest
  <2> DEFINE t == memory[b].time
  <2>1. initialized /\ Tells(t, age[b])
    BY <1>1, <1>8 DEF StampsTell
  <2>2. t \in 1 .. timeStamp
    BY <2>1 DEF Tells
  <2>3. /\ \A l \in 0 .. nest : l /= nest => age'[b][l] = age[b][l]
        /\ age'[b][nest] = IF age[b][nest] = Outside THEN Outside
                           ELSE age[b][nest] + 1
        /\ age[b][nest] \in Nat \cup {Outside}
    <3>1. age[b] \in [Level -> Nat \cup {Outside}]
      BY <1>1 DEF StateOK
    <3> QED
      BY <1>2, <3>1
  <2>4. /\ age'[b][nest] /= Outside <=> age[b][nest] /= Outside
        /\ age'[b][nest] /= Outside => age'[b][nest] /= 0
    BY <2>3, OutsideAssumption
  <2>5. ~(Latest(iterTimes'[nest]) <= t)
    BY <1>2, <1>4, <2>2
  <2>6. \A l \in 0 .. nest :
          /\ age'[b][l] /= Outside <=> invTime[l] < t
          /\ age'[b][l] /= Outside =>
               (age'[b][l] = 0 <=> Latest(iterTimes'[l]) <= t)
    <3> HIDE DEF t
    <3>1. nest \in 0 .. nest
      BY <1>2
    <3> QED
      BY <1>2, <1>4, <2>1, <2>3, <2>4, <2>5, <3>1 DEF Tells
  <2>7. memory'[b].time = t /\ t \in 1 .. timeStamp'
    BY <1>2, <1>3, <2>2
  <2>8. \E k \in 0 .. nest : \A l \in 1 .. nest : invTime[l] < t <=> l <= k
    BY <2>1 DEF Tells
  <2> HIDE DEF t
  <2> QED
    BY <1>3, <2>6, <2>7, <2>8 DEF Tells, Latest
<1>9. StampsTell'
  BY <1>1, <1>3, <1>8 DEF StampsTell
<1> QED
  BY <1>5, <1>6, <1>7, <1>9 DEF IInv

LEMMA ExitStep == IInv /\ LampLoopExit /\ UNCHANGED truthVars => IInv'
<1> SUFFICES ASSUME IInv, LampLoopExit, UNCHANGED truthVars PROVE IInv'
  OBVIOUS
<1>1. StateOK /\ ClockOK /\ StampsTell /\ Live /\ inBody
  BY DEF IInv, LampLoopExit, Running
<1>2. /\ depth = nest /\ nest \in Nat \ {0} /\ nest - 1 \in Level
      /\ 0 .. nest - 1 \subseteq 0 .. nest
      /\ 1 .. nest - 1 \subseteq 1 .. nest
  BY <1>1, HierarchyAssumption DEF StateOK, Level, LampLoopExit
<1>3. /\ depth' = nest - 1 /\ nest' = nest - 1
      /\ UNCHANGED <<inBody, timeStamp, initialized, memory, externalCall,
                     invTime, iterTimes, stored, age>>
  BY <1>2 DEF LampLoopExit, ExitLoop, truthVars
<1>4. StateOK'
  BY <1>1, <1>2, <1>3 DEF StateOK
<1>5. ClockOK'
  <2> HIDE DEF Latest
  <2>1. \A l \in 0 .. nest - 1 : Latest(iterTimes[l]) <= timeStamp
    BY <1>1, <1>2 DEF ClockOK
  <2>2. \A l \in 1 .. nest - 1 : invTime[l] <= timeStamp /\ invTime[l] < timeStamp
    BY <1>1, <1>2 DEF ClockOK
  <2> QED
    BY <1>1, <1>3, <2>1, <2>2 DEF ClockOK, Latest
<1>6. Live'
  BY <1>1, <1>3 DEF Live, Written
<1>7. ASSUME NEW b \in Addr, stored[b]
      PROVE  Tells(memory[b].time, age[b])'
  <2> HIDE DEF Latest
  <2> DEFINE t == memory[b].time
  <2>1. initialized /\ Tells(t, age[b])
    BY <1>1, <1>7 DEF StampsTell
  <2>2. PICK k \in 0 .. nest : \A l \in 1 .. nest : invTime[l] < t <=> l <= k
    BY <2>1 DEF Tells
  <2>3. \E j \in 0 .. nest - 1 :
          \A l \in 1 .. nest - 1 : invTime[l] < t <=> l <= j
    <3>1. CASE k \in 0 .. nest - 1
      BY <1>2, <2>2, <3>1
    <3>2. CASE k = nest
      <4>1. \A l \in 1 .. nest - 1 : invTime[l] < t <=> l <= nest - 1
        BY <1>2, <2>2, <3>2
      <4>2. nest - 1 \in 0 .. nest - 1
        BY <1>2
      <4> QED
        BY <4>1, <4>2
    <3> QED
      BY <1>2, <3>1, <3>2
  <2>4. t \in 1 .. timeStamp
    BY <2>1 DEF Tells
  <2>5. \A l \in 0 .. nest - 1 :
          /\ age[b][l] /= Outside <=> invTime[l] < t
          /\ age[b][l] /= Outside =>
               (age[b][l] = 0 <=> Latest(iterTimes[l]) <= t)
    BY <1>2, <2>1 DEF Tells
  <2>6. memory'[b].time = t
    BY <1>3
  <2> HIDE DEF t
  <2> QED
    BY <1>3, <2>3, <2>4, <2>5, <2>6 DEF Tells, Latest
<1>8. StampsTell'
  BY <1>1, <1>3, <1>7 DEF StampsTell
<1> QED
  BY <1>4, <1>5, <1>6, <1>8 DEF IInv

LEMMA StepIInv == IInv /\ [TruthNext]_allVars => IInv'
<1> SUFFICES ASSUME IInv, [TruthNext]_allVars PROVE IInv'
  OBVIOUS
<1> USE DEF programVars
<1>1. CASE LampInit /\ UNCHANGED truthVars
  BY <1>1, InitStep
<1>2. CASE LampStoreAborts \/ LampInvocationThrows
  <2>1. crashed'
    BY <1>2 DEF LampStoreAborts, LampInvocationThrows
  <2> QED
    BY <2>1 DEF IInv
<1>3. ASSUME NEW i \in Load, NEW a \in Addr, NEW w \in Width,
             LampLoad(i, a, w), UNCHANGED <<stored, age>>
      PROVE  IInv'
  BY <1>3, Quiet DEF LampLoad
<1>4. ASSUME NEW a \in Addr, NEW w \in Width,
             LampExternalLoad(a, w), UNCHANGED <<stored, age>>
      PROVE  IInv'
  BY <1>4, Quiet DEF LampExternalLoad
<1>5. ASSUME NEW i \in Store, NEW a \in Addr, NEW w \in Width,
             LampStore(i, a, w), ObserveStore(Region(a, w))
      PROVE  IInv'
  <2>1. i \in Instr /\ Region(a, w) \in SUBSET Addr
    BY <1>5 DEF Instr, LampStore
  <2> QED
    BY <1>5, <2>1, StoreStep DEF LampStore
<1>6. ASSUME NEW a \in Addr, NEW w \in Width,
             LampExternalStore(a, w), ObserveStore(Region(a, w))
      PROVE  IInv'
  <2>1. externalCall \in Instr /\ Region(a, w) \in SUBSET Addr
    BY <1>6 DEF IInv, StateOK, LampExternalStore, Running
  <2> QED
    BY <1>6, <2>1, StoreStep DEF LampExternalStore
<1>7. ASSUME NEW a \in Addr, NEW w \in Width,
             LampAllocate(a, w), Forget(Region(a, w))
      PROVE  IInv'
  BY <1>7, InvalidateStep DEF LampAllocate
<1>8. ASSUME NEW a \in Addr, NEW w \in Width,
             LampDeallocate(a, w), Forget(Region(a, w))
      PROVE  IInv'
  <2>1. CASE initialized
    <3>1. memory' = [b \in Addr |-> IF b \in Region(a, w) THEN Unknown
                                     ELSE memory[b]]
      BY <1>8, <2>1 DEF LampDeallocate
    <3>2. memory \in [Addr -> Stamp \cup {Unknown, Invalid}]
      BY <1>8 DEF IInv, StateOK, LampDeallocate, Running
    <3>3. /\ memory' \in [Addr -> Stamp \cup {Unknown, Invalid}]
          /\ \A b \in Region(a, w) : memory'[b] \in {Unknown, Invalid}
          /\ \A b \in Addr \ Region(a, w) : memory'[b] = memory[b]
      BY <1>8, <3>1, <3>2 DEF LampDeallocate
    <3> QED
      BY <1>8, <3>3, ForgetStep DEF LampDeallocate
  <2>2. CASE ~initialized
    BY <1>8, <2>2, InvalidateStep DEF LampDeallocate
  <2> QED
    BY <2>1, <2>2
<1>9. ASSUME NEW i \in Call, LampRegister(i), UNCHANGED <<stored, age>>
      PROVE  IInv'
  <2>1. i \in Instr
    BY DEF Instr
  <2> QED
    BY <1>9, <2>1, Unaffected DEF LampRegister
<1>10. ASSUME NEW id \in LoopId, LampLoopInvocation(id), UNCHANGED stored,
              age' = [b \in Addr |-> [age[b] EXCEPT ![nest + 1] = Outside]]
       PROVE  IInv'
  BY <1>10, InvocationStep
<1>11. CASE /\ LampIterationBegin /\ UNCHANGED stored
            /\ age' = [b \in Addr |-> [age[b] EXCEPT
                          ![nest] = IF @ = Outside THEN @ ELSE @ + 1]]
  BY <1>11, IterationStep
<1>12. CASE LampLoopExit /\ UNCHANGED truthVars
  BY <1>12, ExitStep
<1>13. CASE UNCHANGED allVars
  BY <1>13, Quiet DEF allVars, vars, truthVars
<1>14. CASE TruthNext
  <2> HIDE DEF programVars
  <2> QED
    BY <1>1, <1>2, <1>3, <1>4, <1>5, <1>6, <1>7, <1>8, <1>9, <1>10, <1>11,
       <1>12, <1>14
    DEF TruthNext, TruthInitialize, TruthCrash, TruthLoad, TruthStore,
        TruthExternalLoad, TruthExternalStore, TruthAllocate,
        TruthDeallocate, TruthRegister, TruthInvocation, TruthIteration,
        TruthExit, truthVars
<1> QED
  BY <1>13, <1>14

LEMMA Invariance == TruthSpec => []IInv
BY InitIInv, StepIInv, PTL DEF TruthSpec

-----------------------------------------------------------------------------
(* What the stamps tell.                                                   *)

LEMMA CountsNone ==
  ASSUME NEW w \in Seq(Nat), NEW t \in Nat
  PROVE  LET C == Cardinality({i \in 1 .. Len(w) :
                                 \A j \in i .. Len(w) : w[j] > t})
         IN  C \in Nat /\ (C = 0 <=> Latest(w) <= t)
<1> DEFINE S == {i \in 1 .. Len(w) : \A j \in i .. Len(w) : w[j] > t}
<1>1. Len(w) \in Nat /\ \A j \in 1 .. Len(w) : w[j] \in Nat
  BY LenProperties, ElementOfSeq
<1>2. IsFiniteSet(S)
  <2>1. IsFiniteSet(1 .. Len(w))
    BY <1>1, FS_Interval
  <2> QED
    BY <2>1, FS_Subset
<1>3. Cardinality(S) \in Nat /\ (Cardinality(S) = 0 <=> S = {})
  BY <1>2, FS_CardinalityType, FS_EmptySet
<1>4. S = {} <=> Latest(w) <= t
  <2>1. CASE w = <<>>
    <3>1. Len(w) = 0
      BY <2>1
    <3> QED
      BY <2>1, <3>1 DEF Latest
  <2>2. CASE w /= <<>>
    <3>1. Len(w) \in 1 .. Len(w) /\ Latest(w) = w[Len(w)]
      BY <1>1, <2>2, EmptySeq DEF Latest
    <3>2. CASE Latest(w) <= t
      <4>1. \A i \in 1 .. Len(w) : Len(w) \in i .. Len(w)
        BY <1>1
      <4> QED
        BY <1>1, <3>1, <3>2, <4>1
    <3>3. CASE ~(Latest(w) <= t)
      <4>1. Len(w) \in S
        BY <1>1, <3>1, <3>3
      <4> QED
        BY <3>3, <4>1
    <3> QED
      BY <3>2, <3>3
  <2> QED
    BY <2>1, <2>2
<1> HIDE DEF S
<1>5. Cardinality(S) \in Nat /\ (Cardinality(S) = 0 <=> Latest(w) <= t)
  BY <1>3, <1>4
<1> QED
  BY <1>5 DEF S

(* With windows of two stamps the tracked distance is 0 exactly when the   *)
(* carrying loop has begun no iteration since.                             *)
LEMMA Exact ==
  ASSUME MaxDepDistance = 2, IInv
  PROVE  DependencesAreExact
<1> SUFFICES ASSUME Running, NEW b \in Addr, stored[b]
             PROVE  /\ CarrierOf(b) = TrueCarrier(b)
                    /\ DistanceOf(b) = TrueDistance(b)
  BY DEF DependencesAreExact
<1> DEFINE t == memory[b].time
<1>1. StateOK /\ ClockOK /\ StampsTell
  BY DEF IInv, Running
<1>2. Tells(t, age[b]) /\ t \in Nat \ {0} /\ depth = nest /\ nest \in Nat
  <2>1. depth = nest /\ nest \in Nat /\ timeStamp \in Nat
    BY <1>1, HierarchyAssumption DEF StateOK, Level
  <2>2. Tells(t, age[b])
    BY <1>1 DEF StampsTell
  <2> HIDE DEF t
  <2>3. t \in Nat \ {0}
    BY <2>1, <2>2 DEF Tells
  <2> QED
    BY <2>1, <2>2, <2>3
<1> HIDE DEF t
<1>3. PICK k \in 0 .. nest : \A l \in 1 .. nest : invTime[l] < t <=> l <= k
  BY <1>2 DEF Tells
<1>4. CarrierOf(b) = k
  <2> DEFINE carriers == {l \in 1 .. depth : t /= 0 /\ EnteredBefore(l, t)}
  <2>1. carriers = 1 .. k
    BY <1>2, <1>3 DEF EnteredBefore
  <2>2. CarrierOf(b) = IF carriers = {} THEN 0
                       ELSE CHOOSE l \in carriers : \A m \in carriers : m <= l
    BY DEF CarrierOf, FindLoop, t
  <2> HIDE DEF carriers
  <2>3. CASE k = 0
    BY <2>1, <2>2, <2>3
  <2>4. CASE k > 0
    <3>1. k \in 1 .. k /\ \A m \in 1 .. k : m <= k
      BY <1>3, <2>4
    <3>2. \A l \in 1 .. k : (\A m \in 1 .. k : m <= l) => l = k
      BY <1>3, <2>4
    <3> QED
      BY <2>1, <2>2, <3>1, <3>2
  <2> QED
    BY <1>3, <2>3, <2>4
<1>5. \A l \in 0 .. nest : age[b][l] /= Outside <=> l <= k
  <2>1. age[b][0] /= Outside
    BY <1>1, <1>2 DEF Tells, ClockOK
  <2>2. \A l \in 0 .. nest : l = 0 \/ l \in 1 .. nest
    BY <1>2
  <2> QED
    BY <1>2, <1>3, <2>1, <2>2 DEF Tells
<1>6. TrueCarrier(b) = k
  <2> DEFINE P(l) == /\ l = 0 \/ age[b][l] /= Outside
                     /\ \A m \in (l + 1) .. nest : age[b][m] = Outside
  <2>1. P(k)
    BY <1>2, <1>3, <1>5
  <2>2. ASSUME NEW l \in 0 .. nest, P(l)
        PROVE  l = k
    <3>1. l <= k
      BY <1>3, <1>5, <2>2
    <3>2. ~(l < k)
      <4>1. SUFFICES ASSUME l < k PROVE FALSE
        OBVIOUS
      <4>2. k \in (l + 1) .. nest
        BY <1>2, <1>3, <4>1
      <4> QED
        BY <1>3, <1>5, <2>2, <4>2
    <3> QED
      BY <1>3, <3>1, <3>2
  <2>3. TrueCarrier(b) = CHOOSE l \in 0 .. nest : P(l)
    BY DEF TrueCarrier
  <2> HIDE DEF P
  <2> QED
    BY <2>1, <2>2, <2>3
<1>7. DistanceOf(b) = TrueDistance(b)
  <2> DEFINE C == CalculateDistance(k, t)
  <2>1. iterTimes[k] \in Seq(Nat) /\ t \in Nat
    BY <1>1, <1>2, HierarchyAssumption DEF StateOK, Level
  <2>2. C \in Nat /\ (C = 0 <=> Latest(iterTimes[k]) <= t)
    BY <2>1, CountsNone DEF CalculateDistance
  <2> HIDE DEF C, Latest
  <2>3. age[b][k] = 0 <=> C = 0
    BY <1>2, <1>3, <1>5, <2>2 DEF Tells
  <2>4. DistanceOf(b) = TrackedDistance(C)
    BY <1>4 DEF DistanceOf, C, t
  <2>5. TrackedDistance(C) = IF C = 0 THEN 0 ELSE 1
    BY <2>2 DEF TrackedDistance
  <2> QED
    BY <1>6, <2>3, <2>4, <2>5 DEF TrueDistance
<1> QED
  BY <1>4, <1>6, <1>7

(* A byte has a stamp exactly while a store to it is live, for any program *)
(* that calls the hooks as instrumented and any length of the run: no      *)
(* store or (de)allocation leaves a stale stamp, or loses one.             *)
THEOREM StampsAlwaysLive == TruthSpec => []StampsAreLive
<1>1. IInv => StampsAreLive
  BY DEF IInv, Live, StampsAreLive
<1> QED
  BY <1>1, Invariance, PTL

(* With the distances the tool is built for (0 and "1 or more"), every     *)
(* dependence a load can meet is attributed to the innermost active loop   *)
(* whose current invocation contains the store, and is reported as         *)
(* loop-carried exactly when an iteration of that loop began since, for    *)
(* any nesting of loops and any length of the run.                         *)
THEOREM DependencesAlwaysExact ==
  ASSUME MaxDepDistance = 2
  PROVE  TruthSpec => []DependencesAreExact
<1>1. IInv => DependencesAreExact
  BY Exact
<1> QED
  BY <1>1, Invariance, PTL

-----------------------------------------------------------------------------
(* What the profiler counts.                                               *)

(* The parts of Profile.                                                   *)
HitsOf(i, B, k) == {b \in B : KeyOf(DependenceOn(b, i)) = k}
FirstHitOf(i, B, k) ==
  CHOOSE b \in HitsOf(i, B, k) : \A c \in HitsOf(i, B, k) : b <= c
NewDepsOf(i, B, k) ==
  {<<CarrierOf(b), DependenceOn(b, i)>> :
     b \in {c \in HitsOf(i, B, k) : IsNew(c, i)}}
OldEntry(i, B, k) ==
  IF profile[k] /= NoEntry THEN profile[k]
  ELSE [loop |-> loopId[CarrierOf(FirstHitOf(i, B, k))], total |-> 0, loops |-> 0]
CountedEntry(i, B, k) ==
  [OldEntry(i, B, k) EXCEPT
     !.total = @ + Cardinality(HitsOf(i, B, k)),
     !.loops = IF MeasureIterations
               THEN @ + Cardinality(NewDepsOf(i, B, k)) ELSE @]

LEMMA ProfileParts ==
  ASSUME NEW i, NEW B, Profile(i, B)
  PROVE  /\ profile' = [k \in Key |-> IF HitsOf(i, B, k) = {} THEN profile[k]
                                      ELSE CountedEntry(i, B, k)]
         /\ depSets' =
              IF ~MeasureIterations THEN depSets
              ELSE [l \in Level |-> [d \in Distance |->
                      depSets[l][d] \cup
                        {DependenceOn(b, i) : b \in
                           {c \in B : CarrierOf(c) = l /\ DistanceOf(c) = d}}]]
BY DEF Profile, HitsOf, FirstHitOf, NewDepsOf, OldEntry, CountedEntry

-----------------------------------------------------------------------------
(* Types.                                                                  *)

(* The program is in as many loops as the stack holds.                     *)
HooksInv == HooksTypeOK /\ (~crashed => nest = depth)

LEMMA FindLoopActive ==
  ASSUME depth \in Level, NEW t
  PROVE  FindLoop(t) \in 0 .. depth
<1> DEFINE carriers == {l \in 1 .. depth : t /= 0 /\ EnteredBefore(l, t)}
<1>1. depth \in Nat /\ carriers \subseteq 0 .. depth
  BY HierarchyAssumption DEF Level
<1>2. FindLoop(t) = IF carriers = {} THEN 0
                    ELSE CHOOSE l \in carriers : \A m \in carriers : m <= l
  BY DEF FindLoop
<1> HIDE DEF carriers
<1>3. CASE carriers /= {}
  <2>1. \E l \in carriers : \A m \in carriers : m <= l
    BY <1>1, <1>3, GreatestExists
  <2> QED
    BY <1>1, <1>2, <1>3, <2>1
<1> QED
  BY <1>1, <1>2, <1>3

LEMMA DependenceTyped ==
  ASSUME HooksInv, ~crashed, NEW b \in Addr, Written(b), NEW i \in Instr
  PROVE  /\ CarrierOf(b) \in 0 .. nest /\ CarrierOf(b) \in Level
         /\ DistanceOf(b) \in Distance
         /\ DependenceOn(b, i) \in Dependence
         /\ KeyOf(DependenceOn(b, i)) \in Key
<1>1. HooksTypeOK /\ HierarchyTypeOK /\ nest = depth
  BY DEF HooksInv, HooksTypeOK
<1>2. memory[b] \in Stamp
  BY <1>1 DEF HooksTypeOK, Written
<1>3. memory[b].time \in Nat /\ memory[b].instr \in Instr
  BY <1>2 DEF Stamp
<1>4. CarrierOf(b) \in 0 .. nest /\ CarrierOf(b) \in Level
  <2>1. CarrierOf(b) \in 0 .. depth
    BY <1>1, FindLoopActive DEF CarrierOf, HierarchyTypeOK
  <2> QED
    BY <1>1, <2>1, HierarchyAssumption DEF HierarchyTypeOK, Level
<1>5. DistanceOf(b) \in Distance
  <2> DEFINE C == CalculateDistance(CarrierOf(b), memory[b].time)
  <2>1. iterTimes[CarrierOf(b)] \in Seq(Nat)
    BY <1>1, <1>4 DEF HierarchyTypeOK
  <2>2. C \in Nat
    BY <1>3, <2>1, CountsNone DEF CalculateDistance
  <2> HIDE DEF C
  <2>3. TrackedDistance(C) \in Distance
    BY <2>2, HierarchyAssumption DEF TrackedDistance, Distance
  <2> QED
    BY <2>3 DEF DistanceOf, C
<1>6. loopId[CarrierOf(b)] \in LoopId \cup {WholeRun}
  BY <1>1, <1>4 DEF HierarchyTypeOK
<1>7. DependenceOn(b, i) \in Dependence
  BY <1>3, <1>5, <1>6 DEF DependenceOn, Dependence
<1>8. KeyOf(DependenceOn(b, i)) \in Key
  BY <1>7 DEF KeyOf, Key, Dependence
<1> QED
  BY <1>4, <1>5, <1>7, <1>8

(* The image of the bytes is as finite as they are.                        *)
LEMMA ImageFinite ==
  ASSUME NEW i, NEW H, IsFiniteSet(H)
  PROVE  IsFiniteSet({<<CarrierOf(b), DependenceOn(b, i)>> :
                        b \in {c \in H : IsNew(c, i)}})
<1> DEFINE S == {c \in H : IsNew(c, i)}
           f == [b \in S |-> <<CarrierOf(b), DependenceOn(b, i)>>]
<1>1. IsFiniteSet(S)
  <2>1. S \subseteq H
    OBVIOUS
  <2> QED
    BY <2>1, FS_Subset
<1> HIDE DEF S
<1>2. {<<CarrierOf(b), DependenceOn(b, i)>> : b \in S} = {f[b] : b \in S}
  OBVIOUS
<1>3. f \in Surjection(S, {f[b] : b \in S})
  BY DEF Surjection
<1>4. IsFiniteSet({<<CarrierOf(b), DependenceOn(b, i)>> : b \in S})
  BY <1>1, <1>2, <1>3, FS_Surjection
<1> QED
  BY <1>4 DEF S

LEMMA CountedFields ==
  ASSUME HooksInv, ~crashed, NEW i \in Instr, NEW B, B \subseteq Addr,
         IsFiniteSet(B), \A b \in B : Written(b),
         NEW k \in Key, HitsOf(i, B, k) /= {}
  PROVE  /\ CountedEntry(i, B, k) \in ProfileEntry
         /\ OldEntry(i, B, k) \in ProfileEntry
         /\ MeasureIterations =>
              CountedEntry(i, B, k).loops
                = OldEntry(i, B, k).loops + Cardinality(NewDepsOf(i, B, k))
<1>1. HooksTypeOK /\ HierarchyTypeOK
  BY DEF HooksInv, HooksTypeOK
<1>2. HitsOf(i, B, k) \subseteq B /\ IsFiniteSet(HitsOf(i, B, k))
  BY FS_Subset DEF HitsOf
<1>3. /\ Cardinality(HitsOf(i, B, k)) \in Nat
      /\ Cardinality(NewDepsOf(i, B, k)) \in Nat
  BY <1>2, ImageFinite, FS_CardinalityType DEF NewDepsOf
<1>4. FirstHitOf(i, B, k) \in B
  <2>1. \E b \in HitsOf(i, B, k) : \A c \in HitsOf(i, B, k) : b <= c
    BY <1>2, LeastExists, HooksAssumption
  <2> QED
    BY <1>2, <2>1 DEF FirstHitOf
<1>5. loopId[CarrierOf(FirstHitOf(i, B, k))] \in LoopId \cup {WholeRun}
  BY <1>1, <1>4, DependenceTyped DEF HierarchyTypeOK
<1>6. OldEntry(i, B, k) \in ProfileEntry
  BY <1>1, <1>5 DEF OldEntry, HooksTypeOK, ProfileEntry
<1> DEFINE old == OldEntry(i, B, k)
           h == Cardinality(HitsOf(i, B, k))
           n == Cardinality(NewDepsOf(i, B, k))
           more == IF MeasureIterations THEN old.loops + n ELSE old.loops
<1>7. CountedEntry(i, B, k) =
        [old EXCEPT !.total = @ + h,
                    !.loops = IF MeasureIterations THEN @ + n ELSE @]
  BY DEF CountedEntry
<1>8. h \in Nat /\ n \in Nat /\ old \in ProfileEntry
  BY <1>3, <1>6
<1> HIDE DEF old, h, n
<1>9. old.total + h \in Nat /\ more \in Nat
  BY <1>8 DEF ProfileEntry
<1>10. CountedEntry(i, B, k) = [old EXCEPT !.total = old.total + h, !.loops = more]
  BY <1>7
<1> HIDE DEF more
<1>11. /\ CountedEntry(i, B, k) \in ProfileEntry
       /\ CountedEntry(i, B, k).loops = more
  BY <1>8, <1>9, <1>10 DEF ProfileEntry
<1>12. MeasureIterations => more = old.loops + n
  BY DEF more
<1> QED
  BY <1>6, <1>11, <1>12 DEF old, n

LEMMA ProfileTyped ==
  ASSUME HooksInv, ~crashed, NEW i \in Instr, NEW B, B \subseteq Addr,
         IsFiniteSet(B), \A b \in B : Written(b), Profile(i, B)
  PROVE  /\ profile' \in [Key -> ProfileEntry \cup {NoEntry}]
         /\ depSets' \in [Level -> [Distance -> SUBSET Dependence]]
<1>1. HooksTypeOK
  BY DEF HooksInv
<1>2. \A b \in B : DependenceOn(b, i) \in Dependence
  BY DependenceTyped
<1>3. \A k \in Key : HitsOf(i, B, k) /= {} => CountedEntry(i, B, k) \in ProfileEntry
  BY CountedFields
<1>4. profile' \in [Key -> ProfileEntry \cup {NoEntry}]
  BY <1>1, <1>3, ProfileParts DEF HooksTypeOK
<1>5. depSets' \in [Level -> [Distance -> SUBSET Dependence]]
  BY <1>1, <1>2, ProfileParts DEF HooksTypeOK
<1> QED
  BY <1>4, <1>5

LEMMA LenPushed ==
  ASSUME NEW w \in Seq(Nat), NEW n \in Nat \ {0}, NEW t \in Nat, Len(w) <= n
  PROVE  Pushed(w, n, t) \in Seq(Nat) /\ Len(Pushed(w, n, t)) <= n
<1>1. CASE Len(w) < n
  BY <1>1, AppendProperties DEF Pushed
<1>2. CASE ~(Len(w) < n)
  <2>1. w /= <<>> /\ Len(w) = n
    BY <1>2, EmptySeq, LenProperties
  <2>2. Tail(w) \in Seq(Nat) /\ Len(Tail(w)) = n - 1
    BY <2>1, HeadTailProperties
  <2>3. Append(Tail(w), t) \in Seq(Nat) /\ Len(Append(Tail(w), t)) = n
    BY <2>2, AppendProperties
  <2> QED
    BY <1>2, <2>3 DEF Pushed
<1> QED
  BY <1>1, <1>2

(* The bytes an access touches.                                            *)
LEMMA AccessedBytes ==
  ASSUME NEW a \in Addr, NEW w \in Width, Region(a, w) \subseteq Addr
  PROVE  /\ IsFiniteSet(CountedBytes(a, w)) /\ CountedBytes(a, w) \subseteq Addr
         /\ \A b \in CountedBytes(a, w) : Written(b)
         /\ IsFiniteSet({b \in Region(a, w) : Written(b)})
         /\ {b \in Region(a, w) : Written(b)} \subseteq Addr
<1>1. IsFiniteSet(Region(a, w))
  <2>1. a \in Int /\ a + w - 1 \in Int
    BY HooksAssumption
  <2> QED
    BY <2>1, FS_Interval DEF Region
<1>2. CountedBytes(a, w) \subseteq Region(a, w)
  BY DEF CountedBytes
<1> QED
  BY <1>1, <1>2, FS_Subset DEF CountedBytes

LEMMA InitTyped == Init => HooksInv
<1> SUFFICES ASSUME Init PROVE HooksInv
  OBVIOUS
<1> USE DEF Init, HierarchyInit
<1>1. HierarchyTypeOK
  <2>1. 0 \in Level /\ <<>> \in Seq(Nat) /\ Len(<<>>) <= MaxDepDistance
    BY HierarchyAssumption DEF Level
  <2> QED
    BY <2>1 DEF HierarchyTypeOK
<1>2. externalCall \in Instr
  BY HooksAssumption
<1>3. depSets \in [Level -> [Distance -> SUBSET Dependence]]
  BY DEF EmptySets
<1> QED
  BY <1>1, <1>2, <1>3 DEF HooksTypeOK, HooksInv

(* Steps that leave the loops alone and the rest typed.                    *)
LEMMA LoopsKept ==
  ASSUME HooksInv,
         memory' \in [Addr -> Stamp \cup {Unknown, Invalid}],
         profile' \in [Key -> ProfileEntry \cup {NoEntry}],
         depSets' \in [Level -> [Distance -> SUBSET Dependence]],
         externalCall' \in Instr, crashed' \in BOOLEAN, ~crashed,
         UNCHANGED <<hierarchyVars, initialized, timeStamp, programVars>>
  PROVE  HooksInv'
<1>1. HooksTypeOK /\ HierarchyTypeOK /\ nest = depth
  BY DEF HooksInv, HooksTypeOK
<1>2. HierarchyTypeOK'
  BY <1>1 DEF HierarchyTypeOK, hierarchyVars
<1> QED
  BY <1>1, <1>2 DEF HooksInv, HooksTypeOK, hierarchyVars, programVars

(* What stores and allocations leave in the bytes.                         *)
LEMMA StampedTyped ==
  ASSUME HooksInv, NEW i \in Instr, NEW R
  PROVE  Stamped(R, i) \in [Addr -> Stamp \cup {Unknown, Invalid}]
<1>1. timeStamp % (TimeStampMax + 1) \in Nat
  BY HooksAssumption DEF HooksInv, HooksTypeOK
<1>2. [instr |-> i, time |-> timeStamp % (TimeStampMax + 1)] \in Stamp
  BY <1>1 DEF Stamp
<1> QED
  BY <1>2 DEF HooksInv, HooksTypeOK, Stamped

LEMMA InvalidatedTyped ==
  ASSUME HooksInv, NEW R
  PROVE  Invalidated(R) \in [Addr -> Stamp \cup {Unknown, Invalid}]
BY DEF HooksInv, HooksTypeOK, Invalidated, TakenBack

LEMMA OverwrittenTyped ==
  ASSUME HooksInv, ~crashed, NEW i \in Instr, NEW B, B \subseteq Addr,
         IsFiniteSet(B), \A b \in B : Written(b), ProfileOverwritten(i, B)
  PROVE  /\ profile' \in [Key -> ProfileEntry \cup {NoEntry}]
         /\ depSets' \in [Level -> [Distance -> SUBSET Dependence]]
<1>1. CASE ProfileOutput
  BY <1>1, ProfileTyped DEF ProfileOverwritten
<1>2. CASE ~ProfileOutput
  BY <1>2 DEF ProfileOverwritten, HooksInv, HooksTypeOK
<1> QED
  BY <1>1, <1>2

LEMMA StepTyped == HooksInv /\ [Next]_vars => HooksInv'
<1> SUFFICES ASSUME HooksInv, [Next]_vars PROVE HooksInv'
  OBVIOUS
<1>0. HooksTypeOK
  BY DEF HooksInv
<1> USE HooksAssumption
<1>1. CASE LampInit
  <2>1. HierarchyTypeOK /\ nest = 0 /\ depth = 0 /\ ~crashed
    BY <1>1 DEF HooksInv, HooksTypeOK, LampInit
  <2>2. 0 \in Level /\ iterTimes[0] \in Seq(Nat) /\ Len(iterTimes[0]) <= MaxDepDistance
    BY <2>1 DEF HierarchyTypeOK
  <2>3. HierarchyTypeOK'
    <3> DEFINE new == Pushed(iterTimes[0], MaxDepDistance, 0)
    <3>1. new \in Seq(Nat) /\ Len(new) <= MaxDepDistance
      BY <2>2, LenPushed, HierarchyAssumption
    <3>2. /\ iterTimes' = [iterTimes EXCEPT ![0] = new]
          /\ depth' = depth /\ loopId' = loopId /\ invTime' = invTime
      BY <1>1, <2>1 DEF LampInit, LoopIteration
    <3> HIDE DEF new
    <3> QED
      BY <2>1, <2>2, <3>1, <3>2 DEF HierarchyTypeOK
  <2>4. depSets' \in [Level -> [Distance -> SUBSET Dependence]]
    <3>1. EmptySets \in [Distance -> SUBSET Dependence]
      BY DEF EmptySets
    <3> QED
      BY <1>0, <1>1, <3>1 DEF LampInit, HooksTypeOK
  <2>5. nest' = depth'
    BY <1>1, <2>1 DEF LampInit, LoopIteration, programVars
  <2> QED
    BY <1>0, <1>1, <2>3, <2>4, <2>5 DEF LampInit, HooksInv, HooksTypeOK, programVars
<1>2. ASSUME NEW i \in Load, NEW a \in Addr, NEW w \in Width, LampLoad(i, a, w)
      PROVE  HooksInv'
  <2>1. i \in Instr /\ Region(a, w) \subseteq Addr /\ ~crashed
    BY <1>2 DEF Instr, LampLoad, Running
  <2>2. Profile(i, CountedBytes(a, w))
    BY <1>2 DEF LampLoad
  <2>3. /\ profile' \in [Key -> ProfileEntry \cup {NoEntry}]
        /\ depSets' \in [Level -> [Distance -> SUBSET Dependence]]
    BY <2>1, <2>2, AccessedBytes, ProfileTyped
  <2> QED
    BY <1>0, <1>2, <2>1, <2>3, LoopsKept DEF LampLoad, HooksTypeOK
<1>3. ASSUME NEW a \in Addr, NEW w \in Width, LampExternalLoad(a, w)
      PROVE  HooksInv'
  <2>1. externalCall \in Instr /\ Region(a, w) \subseteq Addr /\ ~crashed
    BY <1>0, <1>3 DEF HooksTypeOK, LampExternalLoad, Running
  <2>2. Profile(externalCall, {b \in Region(a, w) : Written(b)})
    BY <1>3 DEF LampExternalLoad
  <2>3. /\ profile' \in [Key -> ProfileEntry \cup {NoEntry}]
        /\ depSets' \in [Level -> [Distance -> SUBSET Dependence]]
    BY <2>1, <2>2, AccessedBytes, ProfileTyped
  <2> QED
    BY <1>0, <1>3, <2>1, <2>3, LoopsKept DEF LampExternalLoad, HooksTypeOK
<1>4. ASSUME NEW i \in Store, NEW a \in Addr, NEW w \in Width, LampStore(i, a, w)
      PROVE  HooksInv'
  <2>1. i \in Instr /\ Region(a, w) \subseteq Addr /\ ~crashed
    BY <1>4 DEF Instr, LampStore, Running
  <2>2. ProfileOverwritten(i, CountedBytes(a, w))
    BY <1>4 DEF LampStore
  <2>3. /\ profile' \in [Key -> ProfileEntry \cup {NoEntry}]
        /\ depSets' \in [Level -> [Distance -> SUBSET Dependence]]
    BY <2>1, <2>2, AccessedBytes, OverwrittenTyped
  <2>4. memory' \in [Addr -> Stamp \cup {Unknown, Invalid}]
    BY <1>4, <2>1, StampedTyped DEF LampStore
  <2> QED
    BY <1>0, <1>4, <2>1, <2>3, <2>4, LoopsKept DEF LampStore, HooksTypeOK
<1>5. ASSUME NEW a \in Addr, NEW w \in Width, LampExternalStore(a, w)
      PROVE  HooksInv'
  <2>1. externalCall \in Instr /\ Region(a, w) \subseteq Addr /\ ~crashed
    BY <1>0, <1>5 DEF HooksTypeOK, LampExternalStore, Running
  <2>2. ProfileOverwritten(externalCall, {b \in Region(a, w) : Written(b)})
    BY <1>5 DEF LampExternalStore
  <2>3. /\ profile' \in [Key -> ProfileEntry \cup {NoEntry}]
        /\ depSets' \in [Level -> [Distance -> SUBSET Dependence]]
    BY <2>1, <2>2, AccessedBytes, OverwrittenTyped
  <2>4. memory' \in [Addr -> Stamp \cup {Unknown, Invalid}]
    BY <1>5, <2>1, StampedTyped DEF LampExternalStore
  <2> QED
    BY <1>0, <1>5, <2>1, <2>3, <2>4, LoopsKept DEF LampExternalStore, HooksTypeOK
<1>6. ASSUME NEW a \in Addr, NEW w \in Width, LampAllocate(a, w)
      PROVE  HooksInv'
  <2>1. memory' \in [Addr -> Stamp \cup {Unknown, Invalid}] /\ ~crashed
    BY <1>6, InvalidatedTyped DEF LampAllocate, Running
  <2> QED
    BY <1>0, <1>6, <2>1, LoopsKept DEF LampAllocate, HooksTypeOK
<1>7. ASSUME NEW a \in Addr, NEW w \in Width, LampDeallocate(a, w)
      PROVE  HooksInv'
  <2>1. externalCall \in Instr /\ Region(a, w) \subseteq Addr /\ ~crashed
    BY <1>0, <1>7 DEF HooksTypeOK, LampDeallocate, Running
  <2>2. CASE initialized
    <3>1. ProfileOverwritten(externalCall, {b \in Region(a, w) : Written(b)})
      BY <1>7, <2>2 DEF LampDeallocate
    <3>2. /\ profile' \in [Key -> ProfileEntry \cup {NoEntry}]
          /\ depSets' \in [Level -> [Distance -> SUBSET Dependence]]
      BY <2>1, <3>1, AccessedBytes, OverwrittenTyped
    <3>3. memory' \in [Addr -> Stamp \cup {Unknown, Invalid}]
      BY <1>0, <1>7, <2>2 DEF LampDeallocate, HooksTypeOK
    <3> QED
      BY <1>0, <1>7, <2>1, <3>2, <3>3, LoopsKept DEF LampDeallocate, HooksTypeOK
  <2>3. CASE ~initialized
    <3>1. memory' \in [Addr -> Stamp \cup {Unknown, Invalid}]
      BY <1>7, <2>3, InvalidatedTyped DEF LampDeallocate
    <3> QED
      BY <1>0, <1>7, <2>1, <2>3, <3>1, LoopsKept DEF LampDeallocate, HooksTypeOK
  <2> QED
    BY <2>2, <2>3
<1>8. CASE LampStoreAborts
  <2>1. ~crashed /\ crashed' = TRUE
    BY <1>8 DEF LampStoreAborts, Running
  <2> QED
    BY <1>0, <1>8, <2>1, LoopsKept DEF LampStoreAborts, HooksTypeOK
<1>9. ASSUME NEW i \in Call, LampRegister(i) PROVE HooksInv'
  <2>1. i \in Instr /\ ~crashed
    BY <1>9 DEF Instr, LampRegister, Running
  <2> QED
    BY <1>0, <1>9, <2>1, LoopsKept DEF LampRegister, HooksTypeOK
<1>10. ASSUME NEW id \in LoopId, LampLoopInvocation(id) PROVE HooksInv'
  <2>1. HierarchyTypeOK /\ nest = depth /\ depth + 1 \in Level /\ ~crashed
    BY <1>10 DEF HooksInv, HooksTypeOK, LampLoopInvocation, Running, CanEnter
  <2>2. HierarchyTypeOK'
    <3>1. <<>> \in Seq(Nat) /\ Len(<<>>) <= MaxDepDistance
      BY HierarchyAssumption
    <3>2. timeStamp \in Nat
      BY <1>0 DEF HooksTypeOK
    <3>3. EnterLoop(id, timeStamp)
      BY <1>10 DEF LampLoopInvocation
    <3> QED
      BY <2>1, <3>1, <3>2, <3>3 DEF EnterLoop, HierarchyTypeOK
  <2>3. depSets' \in [Level -> [Distance -> SUBSET Dependence]]
    <3>1. EmptySets \in [Distance -> SUBSET Dependence]
      BY DEF EmptySets
    <3> QED
      BY <1>0, <1>10, <3>1 DEF LampLoopInvocation, SetsCleared, HooksTypeOK
  <2>4. nest' = depth' /\ nest' \in Nat
    BY <1>0, <1>10, <2>1 DEF LampLoopInvocation, EnterLoop, HooksTypeOK
  <2> QED
    BY <1>0, <1>10, <2>2, <2>3, <2>4 DEF LampLoopInvocation, HooksInv, HooksTypeOK
<1>11. CASE LampInvocationThrows
  BY <1>0, <1>11 DEF LampInvocationThrows, HooksInv, HooksTypeOK, programVars
<1>12. CASE LampIterationBegin
  <2>1. HierarchyTypeOK /\ nest = depth /\ ~crashed /\ timeStamp + 1 \in Nat
    BY <1>0, <1>12 DEF HooksInv, HooksTypeOK, LampIterationBegin
  <2>2. HierarchyTypeOK'
    <3> DEFINE new == Pushed(iterTimes[depth], MaxDepDistance, timeStamp + 1)
    <3>1. new \in Seq(Nat) /\ Len(new) <= MaxDepDistance
      BY <2>1, LenPushed, HierarchyAssumption DEF HierarchyTypeOK
    <3>2. /\ iterTimes' = [iterTimes EXCEPT ![depth] = new]
          /\ depth' = depth /\ loopId' = loopId /\ invTime' = invTime
      BY <1>12 DEF LampIterationBegin, LoopIteration
    <3> HIDE DEF new
    <3> QED
      BY <2>1, <3>1, <3>2 DEF HierarchyTypeOK
  <2>3. depSets' \in [Level -> [Distance -> SUBSET Dependence]]
    <3>1. EmptySets \in [Distance -> SUBSET Dependence]
      BY DEF EmptySets
    <3> QED
      BY <1>0, <1>12, <3>1 DEF LampIterationBegin, SetsCleared, HooksTypeOK
  <2>4. nest' = depth'
    BY <1>12, <2>1 DEF LampIterationBegin, LoopIteration
  <2> QED
    BY <1>0, <1>12, <2>1, <2>2, <2>3, <2>4 DEF LampIterationBegin, HooksInv, HooksTypeOK
<1>13. CASE LampLoopExit
  <2>1. HierarchyTypeOK /\ nest = depth /\ nest > 0 /\ ~crashed
    BY <1>13 DEF HooksInv, HooksTypeOK, LampLoopExit, Running
  <2>2. depth' = depth - 1 /\ nest' = nest - 1 /\ depth - 1 \in Level
    BY <1>13, <2>1, HierarchyAssumption
    DEF LampLoopExit, ExitLoop, HierarchyTypeOK, Level
  <2>3. HierarchyTypeOK'
    BY <1>13, <2>1, <2>2 DEF LampLoopExit, ExitLoop, HierarchyTypeOK
  <2>4. nest' \in Nat
    BY <1>0, <2>1, <2>2 DEF HooksTypeOK
  <2> QED
    BY <1>0, <1>13, <2>1, <2>2, <2>3, <2>4 DEF LampLoopExit, HooksInv, HooksTypeOK
<1>14. CASE UNCHANGED vars
  BY <1>0, <1>14 DEF vars, hierarchyVars, programVars, HooksInv, HooksTypeOK, HierarchyTypeOK
<1> QED
  BY <1>1, <1>2, <1>3, <1>4, <1>5, <1>6, <1>7, <1>8, <1>9, <1>10, <1>11, <1>12,
     <1>13, <1>14 DEF Next

LEMMA HooksInvariance == Spec => []HooksInv
BY InitTyped, StepTyped, PTL DEF Spec

(* For any program that calls the hooks as instrumented, the library never *)
(* leaves its tables: no level outside loop_info, no distance without a    *)
(* set of its own, no entry under a wrong key.                             *)
THEOREM HooksTyped == Spec => []HooksTypeOK
<1>1. HooksInv => HooksTypeOK
  BY DEF HooksInv
<1> QED
  BY <1>1, HooksInvariance, PTL

(* The observer of the program only observes: what is proved of the hooks  *)
(* holds of them when they are observed.                                   *)
LEMMA ObserverObserves == TruthSpec => Spec
<1>1. TruthInit => Init
  BY DEF TruthInit
<1>2. [TruthNext]_allVars => [Next]_vars
  <2>1. TruthNext => Next
    BY DEF TruthNext, Next, TruthInitialize, TruthCrash, TruthLoad, TruthStore,
       TruthExternalLoad, TruthExternalStore, TruthAllocate, TruthDeallocate,
       TruthRegister, TruthInvocation, TruthIteration, TruthExit
  <2> QED
    BY <2>1 DEF allVars
<1> QED
  BY <1>1, <1>2, PTL DEF TruthSpec, Spec

-----------------------------------------------------------------------------
(* Counting.                                                               *)

(* The levels whose current invocation has begun an iteration.             *)
Begun == 0 .. (IF inBody THEN nest ELSE nest - 1)

(* An iteration has one serial number, and the one of a loop began after   *)
(* that of the loop around it.                                             *)
SerialsOrdered ==
  /\ serial \in Nat
  /\ current \in [Level -> Nat]
  /\ inBody \/ nest > 0
  /\ \A l \in Begun : current[l] <= serial
  /\ \A l, m \in Begun : l < m => current[l] < current[m]

MetTyped ==
  /\ IsFiniteSet(met)
  /\ \A m \in met : m \in Dependence \X (0 .. serial)

(* A level's sets hold what was met in its current iteration.              *)
SetsAreCurrent ==
  MeasureIterations =>
    \A l \in Begun, d \in Distance :
      depSets[l][d] = {dep \in Dependence : dep.dist = d /\ <<dep, current[l]>> \in met}

(* Nothing is profiled before main().                                      *)
NothingYet ==
  ~initialized => /\ met = {}
                  /\ \A l \in Level, d \in Distance : depSets[l][d] = {}

CountInv ==
  /\ ~crashed => SerialsOrdered /\ MetTyped /\ SetsAreCurrent /\ NothingYet
  /\ CountedIffMet
  /\ LoopCountsIterations

(* What the observer meets in an access to R, in terms of the stamps of    *)
(* the bytes B the access counts.                                          *)
LEMMA MetByStamps ==
  ASSUME MaxDepDistance = 2, IInv, Running, NEW i, NEW R, R \subseteq Addr,
         NEW B, B \subseteq R, \A b \in B : Written(b),
         \A b \in R : Written(b) => \E c \in B : memory[c] = memory[b],
         Observe(i, StoredBytes(R))
  PROVE  met' = met \cup {<<DependenceOn(b, i), current[CarrierOf(b)]>> : b \in B}
<1>1. \A b \in Addr : Written(b) <=> stored[b]
  BY DEF IInv, Live, Running
<1>2. ASSUME NEW b \in Addr, stored[b]
      PROVE  CarrierOf(b) = TrueCarrier(b) /\ DependenceOn(b, i) = TrueDependence(b, i)
  <2>1. CarrierOf(b) = TrueCarrier(b) /\ DistanceOf(b) = TrueDistance(b)
    BY <1>2, Exact DEF DependencesAreExact
  <2> QED
    BY <2>1 DEF DependenceOn, TrueDependence
<1>3. ASSUME NEW b, NEW c, memory[c] = memory[b]
      PROVE  CarrierOf(c) = CarrierOf(b) /\ DependenceOn(c, i) = DependenceOn(b, i)
  BY <1>3 DEF CarrierOf, DistanceOf, DependenceOn
<1>4. met' = met \cup {<<TrueDependence(b, i), current[TrueCarrier(b)]>> :
                         b \in StoredBytes(R)}
  BY DEF Observe
<1>5. StoredBytes(R) = {b \in R : Written(b)}
  BY <1>1 DEF StoredBytes
<1>6. {<<TrueDependence(b, i), current[TrueCarrier(b)]>> : b \in StoredBytes(R)}
        = {<<DependenceOn(b, i), current[CarrierOf(b)]>> : b \in B}
  <2>1. ASSUME NEW b \in B
        PROVE  /\ b \in StoredBytes(R)
               /\ <<DependenceOn(b, i), current[CarrierOf(b)]>>
                    = <<TrueDependence(b, i), current[TrueCarrier(b)]>>
    BY <1>1, <1>2, <1>5
  <2>2. ASSUME NEW b \in StoredBytes(R)
        PROVE  \E c \in B :
                 <<DependenceOn(c, i), current[CarrierOf(c)]>>
                   = <<TrueDependence(b, i), current[TrueCarrier(b)]>>
    <3>1. b \in R /\ Written(b) /\ stored[b]
      BY <1>1, <1>5
    <3>2. PICK c \in B : memory[c] = memory[b]
      BY <3>1
    <3> QED
      BY <1>2, <1>3, <3>1, <3>2
  <2> QED
    BY <2>1, <2>2
<1> QED
  BY <1>4, <1>6

(* The byte an aligned access skips has the stamp of one it counts.        *)
LEMMA SkippedIsCounted ==
  ASSUME NEW a \in Addr, NEW w \in Width, Region(a, w) \subseteq Addr,
         NEW b \in Region(a, w), Written(b)
  PROVE  \E c \in CountedBytes(a, w) : memory[c] = memory[b]
<1> DEFINE X == {c \in Region(a, w) : memory[c] = memory[b]}
<1>1. X \subseteq Nat /\ X /= {}
  BY HooksAssumption
<1>2. \A c \in X : Written(c)
  BY DEF Written
<1>3. \A c \in X : c \in Region(a, w) /\ memory[c] = memory[b]
  OBVIOUS
<1>4. \A c \in Region(a, w) : memory[c] = memory[b] => c \in X
  OBVIOUS
<1> HIDE DEF X
<1>5. PICK c \in X : \A d \in X : c <= d
  BY <1>1, LeastExists
<1>6. ~RepeatsStamp(c, Region(a, w))
  <2>1. SUFFICES ASSUME NEW d \in Region(a, w), d < c, memory[d] = memory[c]
                 PROVE  FALSE
    BY DEF RepeatsStamp
  <2>2. d \in X
    BY <1>3, <1>4, <2>1
  <2>3. c <= d /\ c \in Nat /\ d \in Nat
    BY <1>1, <1>5, <2>2
  <2> QED
    BY <2>1, <2>3
<1> QED
  BY <1>2, <1>3, <1>5, <1>6 DEF CountedBytes

LEMMA BegunApart ==
  ASSUME SerialsOrdered, HooksInv, ~crashed, NEW l \in Begun, NEW m \in Begun,
         current[l] = current[m]
  PROVE  l = m
<1>1. Begun \subseteq Level /\ Begun \subseteq Int
  BY HierarchyAssumption DEF HooksInv, HooksTypeOK, HierarchyTypeOK, Begun, Level
<1>2. current[l] \in Nat /\ current[m] \in Nat
  BY <1>1 DEF SerialsOrdered
<1>3. ~(l < m) /\ ~(m < l)
  BY <1>2 DEF SerialsOrdered
<1> QED
  BY <1>1, <1>3

(* One access, counted in B and observed.                                  *)
Counts(i, B) ==
  /\ i \in Instr /\ B \subseteq Addr /\ IsFiniteSet(B)
  /\ \A b \in B : Written(b)
  /\ Profile(i, B)
  /\ met' = met \cup {<<DependenceOn(b, i), current[CarrierOf(b)]>> : b \in B}

MetFor(k) == {m \in met : KeyOf(m[1]) = k}
MetNow(i, B, k) ==
  {<<DependenceOn(b, i), current[CarrierOf(b)]>> : b \in HitsOf(i, B, k)}

LEMMA MetGrows ==
  ASSUME NEW i, NEW B, NEW k,
         met' = met \cup {<<DependenceOn(b, i), current[CarrierOf(b)]>> : b \in B}
  PROVE  MetFor(k)' = MetFor(k) \cup MetNow(i, B, k)
<1> DEFINE N == {<<DependenceOn(b, i), current[CarrierOf(b)]>> : b \in B}
           N1 == {m \in N : KeyOf(m[1]) = k}
<1>1. MetFor(k)' = MetFor(k) \cup N1
  <2> HIDE DEF N
  <2>1. met' = met \cup N
    BY DEF N
  <2> QED
    BY <2>1 DEF MetFor
<1>2. N1 = MetNow(i, B, k)
  <2>1. \A b \in B : LET m == <<DependenceOn(b, i), current[CarrierOf(b)]>>
                     IN  m[1] = DependenceOn(b, i)
    OBVIOUS
  <2> QED
    BY <2>1 DEF MetNow, HitsOf
<1> QED
  BY <1>1, <1>2

LEMMA CountedStep ==
  ASSUME HooksInv, ~crashed, CountedIffMet, NEW i, NEW B, Counts(i, B)
  PROVE  CountedIffMet'
<1>1. ASSUME NEW k \in Key
      PROVE  profile'[k] /= NoEntry <=> MetFor(k)' /= {}
  <2>1. profile[k] /= NoEntry <=> MetFor(k) /= {}
    BY DEF CountedIffMet, MetFor
  <2>2. profile'[k] = IF HitsOf(i, B, k) = {} THEN profile[k] ELSE CountedEntry(i, B, k)
    BY ProfileParts DEF Counts
  <2>3. MetFor(k)' = MetFor(k) \cup MetNow(i, B, k)
    BY MetGrows DEF Counts
  <2>4. MetNow(i, B, k) = {} <=> HitsOf(i, B, k) = {}
    BY DEF MetNow
  <2>5. HitsOf(i, B, k) /= {} => CountedEntry(i, B, k) /= NoEntry
    BY CountedFields, EntryAssumption DEF Counts
  <2> QED
    BY <2>1, <2>2, <2>3, <2>4, <2>5
<1> QED
  BY <1>1 DEF CountedIffMet, MetFor

(* What was met in the current iteration of the level of b is in its sets: *)
(* IsNew tells whether this access adds to what was met.                   *)
LEMMA NewIsNew ==
  ASSUME HooksInv, ~crashed, inBody, MeasureIterations, SetsAreCurrent,
         NEW b \in Addr, Written(b), NEW i \in Instr
  PROVE  IsNew(b, i) <=> <<DependenceOn(b, i), current[CarrierOf(b)]>> \notin met
<1>1. /\ CarrierOf(b) \in Begun /\ DistanceOf(b) \in Distance
      /\ DependenceOn(b, i) \in Dependence
  BY DependenceTyped DEF Begun
<1>2. DependenceOn(b, i).dist = DistanceOf(b)
  BY DEF DependenceOn
<1> QED
  BY <1>1, <1>2 DEF SetsAreCurrent, IsNew

LEMMA LoopCountStep ==
  ASSUME HooksInv, ~crashed, inBody, MeasureIterations, SerialsOrdered, MetTyped,
         SetsAreCurrent, CountedIffMet, LoopCountsIterations,
         NEW i, NEW B, Counts(i, B)
  PROVE  LoopCountsIterations'
<1>1. ASSUME NEW k \in Key
      PROVE  (IF profile'[k] = NoEntry THEN 0 ELSE profile'[k].loops)
               = Cardinality(MetFor(k)')
  <2> DEFINE H == HitsOf(i, B, k)
             New == NewDepsOf(i, B, k)
             Now == MetNow(i, B, k)
             Fresh == Now \ MetFor(k)
             g == [d \in New |-> <<d[2], current[d[1]]>>]
  <2>1. /\ i \in Instr /\ H \subseteq B /\ B \subseteq Addr /\ IsFiniteSet(B)
        /\ \A b \in B : Written(b)
    BY DEF Counts, HitsOf
  <2>2. IsFiniteSet(H) /\ Cardinality(H) \in Nat
    BY <2>1, FS_Subset, FS_CardinalityType
  <2>3. \A b \in H : /\ CarrierOf(b) \in Begun
                     /\ IsNew(b, i) <=>
                          <<DependenceOn(b, i), current[CarrierOf(b)]>> \notin met
    BY <2>1, NewIsNew, DependenceTyped DEF Begun
  <2>4. Fresh = {<<DependenceOn(b, i), current[CarrierOf(b)]>> :
                   b \in {c \in H : IsNew(c, i)}}
    <3>1. \A b \in H : KeyOf(DependenceOn(b, i)) = k
      BY DEF HitsOf
    <3>2. \A b \in H : <<DependenceOn(b, i), current[CarrierOf(b)]>> \in MetFor(k)
                         <=> ~IsNew(b, i)
      BY <2>3, <3>1 DEF MetFor
    <3>3. Now = {<<DependenceOn(b, i), current[CarrierOf(b)]>> : b \in H}
      BY DEF MetNow
    <3> HIDE DEF H, Now
    <3> QED
      BY <3>2, <3>3
  <2>5. New = {<<CarrierOf(b), DependenceOn(b, i)>> : b \in {c \in H : IsNew(c, i)}}
    BY DEF NewDepsOf
  <2>6. g \in Bijection(New, Fresh)
    <3> HIDE DEF H, New, Fresh
    <3>1. \A d \in New : g[d] \in Fresh
      BY <2>4, <2>5
    <3>2. ASSUME NEW f \in Fresh
          PROVE  \E d \in New : g[d] = f
      <4>1. PICK b \in {c \in H : IsNew(c, i)} :
              f = <<DependenceOn(b, i), current[CarrierOf(b)]>>
        BY <2>4
      <4> DEFINE d == <<CarrierOf(b), DependenceOn(b, i)>>
      <4>2. d \in New /\ d[1] = CarrierOf(b) /\ d[2] = DependenceOn(b, i)
        BY <2>5
      <4> HIDE DEF d
      <4>3. g[d] = f
        BY <4>1, <4>2
      <4> QED
        BY <4>2, <4>3
    <3>3. \A d, e \in New : g[d] = g[e] => d = e
      <4>1. ASSUME NEW d \in New, NEW e \in New, g[d] = g[e]
            PROVE  d = e
        <5>1. /\ d = <<d[1], d[2]>> /\ d[1] \in Begun
              /\ e = <<e[1], e[2]>> /\ e[1] \in Begun
          <6>1. \A n \in New : \E b \in H : n = <<CarrierOf(b), DependenceOn(b, i)>>
            BY <2>5
          <6>2. ASSUME NEW n \in New
                PROVE  n = <<n[1], n[2]>> /\ n[1] \in Begun
            <7>1. PICK b \in H : n = <<CarrierOf(b), DependenceOn(b, i)>>
              BY <6>1
            <7>2. n[1] = CarrierOf(b) /\ n[2] = DependenceOn(b, i)
              BY <7>1
            <7> QED
              BY <2>3, <7>1, <7>2
          <6> QED
            BY <6>2
        <5>2. d[2] = e[2] /\ current[d[1]] = current[e[1]]
          BY <4>1
        <5>3. d[1] = e[1]
          BY <5>1, <5>2, BegunApart
        <5> QED
          BY <5>1, <5>2, <5>3
      <4> QED
        BY <4>1
    <3>4. g \in [New -> Fresh]
      BY <3>1
    <3> HIDE DEF g
    <3>5. g \in Injection(New, Fresh)
      BY <3>3, <3>4 DEF Injection, IsInjective
    <3>6. g \in Surjection(New, Fresh)
      BY <3>2, <3>4 DEF Surjection
    <3> QED
      BY <3>5, <3>6 DEF Bijection
  <2>7. IsFiniteSet(New)
    BY <2>2, <2>5, ImageFinite DEF H
  <2>8. IsFiniteSet(Fresh) /\ Cardinality(Fresh) = Cardinality(New)
    <3> HIDE DEF New, Fresh, g
    <3> QED
      BY <2>6, <2>7, FS_Bijection DEF ExistsBijection
  <2>9. /\ IsFiniteSet(MetFor(k))
        /\ Cardinality(MetFor(k)') = Cardinality(MetFor(k)) + Cardinality(New)
    <3>1. IsFiniteSet(MetFor(k))
      BY FS_Subset DEF MetTyped, MetFor
    <3>2. MetFor(k)' = MetFor(k) \cup Fresh
      BY MetGrows DEF Counts
    <3>3. MetFor(k) \cap Fresh = {}
      OBVIOUS
    <3> HIDE DEF New, Fresh
    <3>4. /\ Cardinality(MetFor(k) \cup Fresh)
               = Cardinality(MetFor(k)) + Cardinality(Fresh) - Cardinality(MetFor(k) \cap Fresh)
          /\ Cardinality(MetFor(k)) \in Nat /\ Cardinality(Fresh) \in Nat
      BY <2>8, <3>1, FS_Union, FS_CardinalityType
    <3>5. Cardinality(MetFor(k) \cap Fresh) = 0
      BY <3>3, FS_EmptySet
    <3>6. Cardinality(MetFor(k) \cup Fresh) = Cardinality(MetFor(k)) + Cardinality(New)
      BY <2>8, <3>4, <3>5
    <3> QED
      BY <3>1, <3>2, <3>6
  <2>10. (IF profile[k] = NoEntry THEN 0 ELSE profile[k].loops) = Cardinality(MetFor(k))
    BY DEF LoopCountsIterations, MetFor
  <2>11. profile'[k] = IF H = {} THEN profile[k] ELSE CountedEntry(i, B, k)
    BY ProfileParts DEF Counts
  <2>12. CASE H = {}
    <3>1. New = {}
      BY <2>5, <2>12
    <3>2. Cardinality(New) = 0
      BY <3>1, FS_EmptySet
    <3>3. Cardinality(MetFor(k)) \in Nat
      BY <2>9, FS_CardinalityType
    <3> HIDE DEF H, New
    <3> QED
      BY <2>9, <2>10, <2>11, <2>12, <3>2, <3>3
  <2>13. CASE H /= {}
    <3>1. CountedEntry(i, B, k) \in ProfileEntry
      BY <2>13, CountedFields DEF Counts
    <3>2. OldEntry(i, B, k).loops = Cardinality(MetFor(k))
      BY <2>10 DEF OldEntry
    <3>3. CountedEntry(i, B, k).loops = OldEntry(i, B, k).loops + Cardinality(New)
      BY <2>1, <2>13, CountedFields DEF Counts
    <3> HIDE DEF H, New
    <3> QED
      BY <2>9, <2>11, <2>13, <3>1, <3>2, <3>3, EntryAssumption
  <2> QED
    BY <2>12, <2>13
<1> QED
  BY <1>1 DEF LoopCountsIterations, MetFor

LEMMA CountsStep ==
  ASSUME HooksInv, CountInv, Running, initialized, NEW i, NEW B, Counts(i, B),
         UNCHANGED <<nest, inBody, current, serial, initialized, crashed>>
  PROVE  CountInv'
<1>0. /\ ~crashed /\ inBody
      /\ SerialsOrdered /\ MetTyped /\ SetsAreCurrent /\ NothingYet
      /\ CountedIffMet /\ LoopCountsIterations
  BY DEF CountInv, Running
<1>1. Begun' = Begun
  BY DEF Begun
<1>2. SerialsOrdered'
  BY <1>0, <1>1 DEF SerialsOrdered
<1> DEFINE N == {<<DependenceOn(b, i), current[CarrierOf(b)]>> : b \in B}
<1>3. ASSUME NEW b \in B
      PROVE  /\ CarrierOf(b) \in Begun /\ CarrierOf(b) \in Level
             /\ DistanceOf(b) \in Distance
             /\ DependenceOn(b, i) \in Dependence
             /\ DependenceOn(b, i).dist = DistanceOf(b)
  <2>1. DependenceOn(b, i).dist = DistanceOf(b)
    BY DEF DependenceOn
  <2> QED
    BY <1>0, <2>1, DependenceTyped DEF Counts, Begun
<1>4. MetTyped'
  <2>1. IsFiniteSet(N)
    <3> DEFINE f == [b \in B |-> <<DependenceOn(b, i), current[CarrierOf(b)]>>]
    <3>1. N = {f[b] : b \in B}
      OBVIOUS
    <3>2. f \in Surjection(B, {f[b] : b \in B})
      BY DEF Surjection
    <3> QED
      BY <3>1, <3>2, FS_Surjection DEF Counts
  <2>2. \A b \in B : current[CarrierOf(b)] \in 0 .. serial
    BY <1>0, <1>3 DEF SerialsOrdered
  <2>3. N \subseteq Dependence \X (0 .. serial)
    BY <1>3, <2>2
  <2>4. met' = met \cup N
    BY DEF Counts
  <2> HIDE DEF N
  <2>5. IsFiniteSet(met')
    BY <1>0, <2>1, <2>4, FS_Union DEF MetTyped
  <2>6. \A m \in met' : m \in Dependence \X (0 .. serial)
    BY <1>0, <2>3, <2>4 DEF MetTyped
  <2> QED
    BY <2>5, <2>6 DEF MetTyped
<1>5. SetsAreCurrent'
  <2>1. SUFFICES ASSUME MeasureIterations, NEW l \in Begun, NEW d \in Distance
                 PROVE  depSets'[l][d] =
                          {dep \in Dependence : dep.dist = d /\ <<dep, current[l]>> \in met'}
    BY <1>1 DEF SetsAreCurrent
  <2>2. l \in Level
    BY <1>0, HierarchyAssumption DEF HooksInv, HooksTypeOK, HierarchyTypeOK, Begun, Level
  <2> DEFINE D == {DependenceOn(b, i) : b \in
                     {c \in B : CarrierOf(c) = l /\ DistanceOf(c) = d}}
  <2>3. depSets'[l][d] = depSets[l][d] \cup D
    BY <2>1, <2>2, ProfileParts DEF Counts
  <2>4. depSets[l][d] = {dep \in Dependence : dep.dist = d /\ <<dep, current[l]>> \in met}
    BY <1>0, <2>1 DEF SetsAreCurrent
  <2>5. ASSUME NEW dep \in D
        PROVE  dep \in Dependence /\ dep.dist = d /\ <<dep, current[l]>> \in met'
    <3>1. PICK b \in B : CarrierOf(b) = l /\ DistanceOf(b) = d /\ dep = DependenceOn(b, i)
      OBVIOUS
    <3>2. <<DependenceOn(b, i), current[CarrierOf(b)]>> \in met'
      BY DEF Counts
    <3> QED
      BY <1>3, <3>1, <3>2
  <2>6. ASSUME NEW dep \in Dependence, dep.dist = d, <<dep, current[l]>> \in met'
        PROVE  dep \in D \/ <<dep, current[l]>> \in met
    <3>1. SUFFICES ASSUME <<dep, current[l]>> \in N PROVE dep \in D
      BY <2>6 DEF Counts
    <3>2. PICK b \in B : <<dep, current[l]>> = <<DependenceOn(b, i), current[CarrierOf(b)]>>
      BY <3>1
    <3>3. dep = DependenceOn(b, i) /\ current[l] = current[CarrierOf(b)]
      BY <3>2
    <3>4. CarrierOf(b) = l
      BY <1>0, <1>3, <3>3, BegunApart
    <3>5. DistanceOf(b) = d
      BY <1>3, <2>6, <3>3
    <3> QED
      BY <3>3, <3>4, <3>5
  <2>7. met \subseteq met'
    BY DEF Counts
  <2> HIDE DEF D
  <2> QED
    BY <2>3, <2>4, <2>5, <2>6, <2>7
<1>6. NothingYet'
  BY DEF NothingYet
<1>7. CountedIffMet'
  BY <1>0, CountedStep
<1>8. LoopCountsIterations'
  <2>1. CASE MeasureIterations
    BY <1>0, <2>1, LoopCountStep
  <2>2. CASE ~MeasureIterations
    BY <2>2 DEF LoopCountsIterations
  <2> QED
    BY <2>1, <2>2
<1> QED
  BY <1>2, <1>4, <1>5, <1>6, <1>7, <1>8 DEF CountInv

(* Steps that count nothing and stay in the iteration.                     *)
LEMMA NothingCounted ==
  ASSUME CountInv, UNCHANGED <<profile, met>>,
         \/ crashed'
         \/ UNCHANGED <<nest, inBody, current, serial, initialized, crashed, depSets>>
  PROVE  CountInv'
<1>1. CountedIffMet' /\ LoopCountsIterations'
  BY DEF CountInv, CountedIffMet, LoopCountsIterations
<1>2. CASE crashed'
  BY <1>1, <1>2 DEF CountInv
<1>3. CASE ~crashed'
  <2>1. UNCHANGED <<nest, inBody, current, serial, initialized, crashed, depSets>>
    BY <1>3
  <2>2. SerialsOrdered /\ MetTyped /\ SetsAreCurrent /\ NothingYet
    BY <1>3, <2>1 DEF CountInv
  <2>3. Begun' = Begun
    BY <2>1 DEF Begun
  <2>4. SerialsOrdered' /\ MetTyped' /\ SetsAreCurrent' /\ NothingYet'
    BY <2>1, <2>2, <2>3 DEF SerialsOrdered, MetTyped, SetsAreCurrent, NothingYet
  <2> QED
    BY <1>1, <2>4 DEF CountInv
<1> QED
  BY <1>2, <1>3

LEMMA InitCounts == TruthInit => CountInv
<1> SUFFICES ASSUME TruthInit PROVE CountInv
  OBVIOUS
<1> USE DEF TruthInit, Init
<1>1. 0 \in Level /\ Begun = {0}
  BY HierarchyAssumption DEF Level, Begun
<1>2. SerialsOrdered
  BY <1>1 DEF SerialsOrdered
<1>3. MetTyped
  BY FS_EmptySet DEF MetTyped
<1>4. \A l \in Level, d \in Distance : depSets[l][d] = {}
  BY DEF EmptySets
<1>5. SetsAreCurrent /\ NothingYet
  BY <1>1, <1>4 DEF SetsAreCurrent, NothingYet
<1>6. CountedIffMet
  BY DEF CountedIffMet
<1>7. LoopCountsIterations
  <2>1. \A k \in Key : {m \in met : KeyOf(m[1]) = k} = {}
    OBVIOUS
  <2>2. Cardinality({}) = 0
    BY FS_EmptySet
  <2> QED
    BY <2>1, <2>2 DEF LoopCountsIterations
<1> QED
  BY <1>2, <1>3, <1>5, <1>6, <1>7 DEF CountInv

(* Constructors run before main() have met nothing.                        *)
LEMMA InitializeCounts ==
  ASSUME HooksInv, CountInv, LampInit, UNCHANGED truthVars
  PROVE  CountInv'
<1>1. /\ ~crashed /\ ~initialized /\ initialized' /\ crashed' = crashed
      /\ UNCHANGED <<nest, inBody, met, current, serial>>
      /\ profile' = [k \in Key |-> NoEntry]
      /\ depSets' = [depSets EXCEPT ![depth] = EmptySets]
  BY DEF LampInit, truthVars, programVars
<1>2. SerialsOrdered /\ MetTyped /\ SetsAreCurrent /\ NothingYet
  BY <1>1 DEF CountInv
<1>3. met = {} /\ met' = {}
  BY <1>1, <1>2 DEF NothingYet
<1>4. Begun' = Begun /\ Begun \subseteq Level
  BY <1>1, HierarchyAssumption DEF Begun, HooksInv, HooksTypeOK, HierarchyTypeOK, Level
<1>5. SerialsOrdered' /\ MetTyped'
  BY <1>1, <1>2, <1>4 DEF SerialsOrdered, MetTyped
<1>6. \A l \in Level, d \in Distance : depSets'[l][d] = {}
  <2>1. \A l \in Level, d \in Distance : depSets[l][d] = {}
    BY <1>1, <1>2 DEF NothingYet
  <2>2. depSets \in [Level -> [Distance -> SUBSET Dependence]]
    BY DEF HooksInv, HooksTypeOK
  <2> QED
    BY <1>1, <2>1, <2>2 DEF EmptySets
<1>7. SetsAreCurrent'
  BY <1>3, <1>4, <1>6 DEF SetsAreCurrent
<1>8. NothingYet'
  BY <1>1 DEF NothingYet
<1>9. CountedIffMet'
  BY <1>1, <1>3 DEF CountedIffMet
<1>10. LoopCountsIterations'
  <2>1. \A k \in Key : {m \in met' : KeyOf(m[1]) = k} = {}
    BY <1>3
  <2>2. Cardinality({}) = 0
    BY FS_EmptySet
  <2> QED
    BY <1>1, <2>1, <2>2 DEF LoopCountsIterations
<1> QED
  BY <1>5, <1>7, <1>8, <1>9, <1>10 DEF CountInv

(* The sets of a level are as empty as its new loop's first iteration.     *)
LEMMA InvocationCounts ==
  ASSUME HooksInv, CountInv, NEW id \in LoopId, LampLoopInvocation(id),
         UNCHANGED <<serial, current, met>>
  PROVE  CountInv'
<1>1. /\ ~crashed /\ inBody /\ nest = depth /\ nest + 1 \in Level
      /\ nest \in Nat /\ crashed' = crashed /\ initialized' = initialized
      /\ nest' = nest + 1 /\ inBody' = FALSE /\ profile' = profile
      /\ SetsCleared(nest + 1)
  BY DEF LampLoopInvocation, Running, CanEnter, HooksInv, HooksTypeOK
<1>2. SerialsOrdered /\ MetTyped /\ SetsAreCurrent /\ NothingYet
  BY <1>1 DEF CountInv
<1>3. Begun' = Begun /\ Begun \subseteq Level /\ nest + 1 \notin Begun
  BY <1>1, HierarchyAssumption DEF Begun, Level
<1>4. depSets \in [Level -> [Distance -> SUBSET Dependence]]
  BY DEF HooksInv, HooksTypeOK
<1>5. /\ \A l \in Begun : depSets'[l] = depSets[l]
      /\ \A d \in Distance : initialized /\ MeasureIterations =>
                               depSets'[nest + 1][d] = {}
  BY <1>1, <1>3, <1>4 DEF SetsCleared, EmptySets
<1>6. SerialsOrdered' /\ MetTyped'
  BY <1>1, <1>2, <1>3 DEF SerialsOrdered, MetTyped
<1>7. SetsAreCurrent'
  BY <1>2, <1>3, <1>5 DEF SetsAreCurrent
<1>8. NothingYet'
  BY <1>1, <1>2 DEF NothingYet, SetsCleared
<1>9. CountedIffMet' /\ LoopCountsIterations'
  BY <1>1 DEF CountInv, CountedIffMet, LoopCountsIterations
<1> QED
  BY <1>6, <1>7, <1>8, <1>9 DEF CountInv

(* A new iteration has a new serial number: nothing was met in it yet.     *)
LEMMA IterationCounts ==
  ASSUME HooksInv, CountInv, LampIterationBegin, UNCHANGED met,
         serial' = serial + 1, current' = [current EXCEPT ![nest] = serial + 1]
  PROVE  CountInv'
<1>1. /\ ~crashed /\ nest = depth /\ nest \in Level /\ nest \in Nat /\ nest > 0
      /\ crashed' = crashed /\ initialized' = initialized
      /\ nest' = nest /\ inBody' = TRUE /\ profile' = profile
      /\ SetsCleared(nest)
  BY DEF LampIterationBegin, HooksInv, HooksTypeOK, HierarchyTypeOK
<1>2. SerialsOrdered /\ MetTyped /\ SetsAreCurrent /\ NothingYet
  BY <1>1 DEF CountInv
<1>3. /\ Begun' = 0 .. nest /\ 0 .. nest \subseteq Level
      /\ \A l \in 0 .. nest : l = nest \/ (l \in Begun /\ l < nest)
  BY <1>1, HierarchyAssumption DEF Begun, Level
<1>4. depSets \in [Level -> [Distance -> SUBSET Dependence]] /\ serial \in Nat
  BY <1>2 DEF HooksInv, HooksTypeOK, SerialsOrdered
<1>5. /\ current'[nest] = serial + 1
      /\ \A l \in Level : l /= nest => current'[l] = current[l]
      /\ current' \in [Level -> Nat]
  BY <1>1, <1>2, <1>4 DEF SerialsOrdered
<1>6. SerialsOrdered'
  <2>1. \A l \in 0 .. nest : l /= nest => current'[l] <= serial /\ current'[l] \in Nat
    BY <1>2, <1>3, <1>5 DEF SerialsOrdered
  <2>2. \A l \in 0 .. nest : current'[l] <= serial'
    BY <1>4, <1>5, <2>1
  <2>3. ASSUME NEW l \in 0 .. nest, NEW m \in 0 .. nest, l < m
        PROVE  current'[l] < current'[m]
    <3>1. CASE m = nest
      BY <1>1, <1>4, <1>5, <2>1, <2>3, <3>1
    <3>2. CASE m /= nest
      <4>1. l \in Begun /\ m \in Begun /\ l /= nest
        BY <1>1, <1>3, <2>3, <3>2
      <4> QED
        BY <1>2, <1>3, <1>5, <2>3, <3>2, <4>1 DEF SerialsOrdered
    <3> QED
      BY <3>1, <3>2
  <2> QED
    BY <1>1, <1>3, <1>4, <1>5, <2>2, <2>3 DEF SerialsOrdered
<1>7. MetTyped'
  BY <1>2, <1>4 DEF MetTyped
<1>8. SetsAreCurrent'
  <2>1. SUFFICES ASSUME MeasureIterations, NEW l \in 0 .. nest, NEW d \in Distance
                 PROVE  depSets'[l][d] =
                          {dep \in Dependence : dep.dist = d /\ <<dep, current'[l]>> \in met}
    BY <1>3 DEF SetsAreCurrent
  <2>2. CASE l = nest
    <3>1. \A dep : <<dep, current'[l]>> \notin met
      BY <1>2, <1>4, <1>5, <2>2 DEF MetTyped
    <3>2. depSets'[l][d] = {}
      BY <1>1, <1>2, <1>4, <2>1, <2>2 DEF SetsCleared, EmptySets, NothingYet
    <3> QED
      BY <3>1, <3>2
  <2>3. CASE l /= nest
    <3>1. depSets'[l] = depSets[l] /\ current'[l] = current[l] /\ l \in Begun
      BY <1>1, <1>3, <1>4, <1>5, <2>3 DEF SetsCleared
    <3> QED
      BY <1>2, <2>1, <3>1 DEF SetsAreCurrent
  <2> QED
    BY <2>2, <2>3
<1>9. NothingYet'
  BY <1>1, <1>2 DEF NothingYet, SetsCleared
<1>10. CountedIffMet' /\ LoopCountsIterations'
  BY <1>1 DEF CountInv, CountedIffMet, LoopCountsIterations
<1> QED
  BY <1>6, <1>7, <1>8, <1>9, <1>10 DEF CountInv

(* The loops around the one that is left are in the iterations they were.  *)
LEMMA ExitCounts ==
  ASSUME HooksInv, CountInv, LampLoopExit, UNCHANGED truthVars
  PROVE  CountInv'
<1>1. /\ ~crashed /\ inBody /\ nest \in Nat /\ nest > 0
      /\ UNCHANGED <<crashed, initialized, inBody, profile, depSets, met, serial, current>>
      /\ nest' = nest - 1
  BY DEF LampLoopExit, Running, HooksInv, HooksTypeOK, truthVars
<1>2. SerialsOrdered /\ MetTyped /\ SetsAreCurrent /\ NothingYet
  BY <1>1 DEF CountInv
<1>3. Begun' \subseteq Begun
  BY <1>1 DEF Begun
<1>4. SerialsOrdered' /\ MetTyped' /\ SetsAreCurrent' /\ NothingYet'
  BY <1>1, <1>2, <1>3 DEF SerialsOrdered, MetTyped, SetsAreCurrent, NothingYet
<1>5. CountedIffMet' /\ LoopCountsIterations'
  BY <1>1 DEF CountInv, CountedIffMet, LoopCountsIterations
<1> QED
  BY <1>4, <1>5 DEF CountInv

(* A load, whose counted bytes B stand for all the written ones of R.      *)
LEMMA AccessCounts ==
  ASSUME MaxDepDistance = 2, HooksInv, IInv, CountInv, Running, initialized,
         NEW i \in Instr, NEW R, R \subseteq Addr,
         NEW B, B \subseteq R, IsFiniteSet(B), \A b \in B : Written(b),
         \A b \in R : Written(b) => \E c \in B : memory[c] = memory[b],
         Profile(i, B), Observe(i, StoredBytes(R)),
         UNCHANGED <<nest, inBody, current, serial, initialized, crashed>>
  PROVE  CountInv'
<1>1. met' = met \cup {<<DependenceOn(b, i), current[CarrierOf(b)]>> : b \in B}
  BY MetByStamps
<1>2. Counts(i, B)
  BY <1>1 DEF Counts
<1> QED
  BY <1>2, CountsStep

(* A store, which counts when output dependences are profiled.             *)
LEMMA OverwrittenCounts ==
  ASSUME MaxDepDistance = 2, HooksInv, IInv, CountInv, Running, initialized,
         NEW i \in Instr, NEW R, R \subseteq Addr,
         NEW B, B \subseteq R, IsFiniteSet(B), \A b \in B : Written(b),
         \A b \in R : Written(b) => \E c \in B : memory[c] = memory[b],
         ProfileOverwritten(i, B), ObserveOverwritten(i, StoredBytes(R)),
         UNCHANGED <<nest, inBody, current, serial, initialized, crashed>>
  PROVE  CountInv'
<1>1. CASE ProfileOutput
  BY <1>1, AccessCounts DEF ProfileOverwritten, ObserveOverwritten
<1>2. CASE ~ProfileOutput
  <2>1. UNCHANGED <<profile, met, depSets>>
    BY <1>2 DEF ProfileOverwritten, ObserveOverwritten
  <2> QED
    BY <2>1, NothingCounted
<1> QED
  BY <1>1, <1>2

LEMMA StepCounts ==
  ASSUME MaxDepDistance = 2, HooksInv, IInv, CountInv, [TruthNext]_allVars
  PROVE  CountInv'
<1>0. externalCall \in Instr
  BY DEF HooksInv, HooksTypeOK
<1>1. CASE TruthInitialize
  BY <1>1, InitializeCounts DEF TruthInitialize
<1>2. ASSUME NEW i \in Load, NEW a \in Addr, NEW w \in Width, TruthLoad(i, a, w)
      PROVE  CountInv'
  <2>1. /\ Region(a, w) \subseteq Addr /\ Running /\ initialized /\ i \in Instr
        /\ Profile(i, CountedBytes(a, w))
        /\ UNCHANGED <<nest, inBody, current, serial, initialized, crashed>>
    BY <1>2 DEF TruthLoad, LampLoad, programVars, Instr
  <2>2. CountedBytes(a, w) \subseteq Region(a, w)
    BY DEF CountedBytes
  <2>3. Observe(i, StoredBytes(Region(a, w)))
    BY <1>2 DEF TruthLoad
  <2>4. \A b \in Region(a, w) : Written(b) =>
          \E c \in CountedBytes(a, w) : memory[c] = memory[b]
    BY <2>1, SkippedIsCounted
  <2>5. IsFiniteSet(CountedBytes(a, w)) /\ \A b \in CountedBytes(a, w) : Written(b)
    BY <2>1, AccessedBytes
  <2> QED
    BY <2>1, <2>2, <2>3, <2>4, <2>5, AccessCounts
<1>3. ASSUME NEW i \in Store, NEW a \in Addr, NEW w \in Width, TruthStore(i, a, w)
      PROVE  CountInv'
  <2>1. /\ Region(a, w) \subseteq Addr /\ Running /\ initialized /\ i \in Instr
        /\ ProfileOverwritten(i, CountedBytes(a, w))
        /\ ObserveOverwritten(i, StoredBytes(Region(a, w)))
    BY <1>3 DEF TruthStore, LampStore, Instr
  <2>2. UNCHANGED <<nest, inBody, current, serial, initialized, crashed>>
    BY <1>3 DEF TruthStore, LampStore, programVars, ObserveStore
  <2>3. CountedBytes(a, w) \subseteq Region(a, w)
    BY DEF CountedBytes
  <2>4. \A b \in Region(a, w) : Written(b) =>
          \E c \in CountedBytes(a, w) : memory[c] = memory[b]
    BY <2>1, SkippedIsCounted
  <2>5. IsFiniteSet(CountedBytes(a, w)) /\ \A b \in CountedBytes(a, w) : Written(b)
    BY <2>1, AccessedBytes
  <2> QED
    BY <2>1, <2>2, <2>3, <2>4, <2>5, OverwrittenCounts
<1>4. ASSUME NEW a \in Addr, NEW w \in Width, TruthExternalLoad(a, w)
      PROVE  CountInv'
  <2> DEFINE B == {b \in Region(a, w) : Written(b)}
  <2>1. /\ Region(a, w) \subseteq Addr /\ Running /\ initialized
        /\ Profile(externalCall, B)
        /\ UNCHANGED <<nest, inBody, current, serial, initialized, crashed>>
        /\ Observe(externalCall, StoredBytes(Region(a, w)))
    BY <1>4 DEF TruthExternalLoad, LampExternalLoad, programVars
  <2>2. /\ B \subseteq Region(a, w) /\ \A b \in B : Written(b)
        /\ \A b \in Region(a, w) : Written(b) => \E c \in B : memory[c] = memory[b]
    OBVIOUS
  <2>3. IsFiniteSet(B)
    BY <2>1, AccessedBytes
  <2> HIDE DEF B
  <2> QED
    BY <1>0, <2>1, <2>2, <2>3, AccessCounts
<1>5. ASSUME NEW a \in Addr, NEW w \in Width, TruthExternalStore(a, w)
      PROVE  CountInv'
  <2> DEFINE B == {b \in Region(a, w) : Written(b)}
  <2>1. /\ Region(a, w) \subseteq Addr /\ Running /\ initialized
        /\ ProfileOverwritten(externalCall, B)
        /\ ObserveOverwritten(externalCall, StoredBytes(Region(a, w)))
    BY <1>5 DEF TruthExternalStore, LampExternalStore
  <2>2. UNCHANGED <<nest, inBody, current, serial, initialized, crashed>>
    BY <1>5 DEF TruthExternalStore, LampExternalStore, programVars, ObserveStore
  <2>3. /\ B \subseteq Region(a, w) /\ \A b \in B : Written(b)
        /\ \A b \in Region(a, w) : Written(b) => \E c \in B : memory[c] = memory[b]
    OBVIOUS
  <2>4. IsFiniteSet(B)
    BY <2>1, AccessedBytes
  <2> HIDE DEF B
  <2> QED
    BY <1>0, <2>1, <2>2, <2>3, <2>4, OverwrittenCounts
<1>6. ASSUME NEW a \in Addr, NEW w \in Width, TruthAllocate(a, w)
      PROVE  CountInv'
  <2>1. UNCHANGED <<profile, met, nest, inBody, current, serial, initialized,
                    crashed, depSets>>
    BY <1>6 DEF TruthAllocate, LampAllocate, Forget, programVars
  <2> QED
    BY <2>1, NothingCounted
<1>7. ASSUME NEW a \in Addr, NEW w \in Width, TruthDeallocate(a, w)
      PROVE  CountInv'
  <2>1. /\ Region(a, w) \subseteq Addr /\ Running
        /\ UNCHANGED <<nest, inBody, current, serial, initialized, crashed>>
    BY <1>7 DEF TruthDeallocate, LampDeallocate, Forget, programVars
  <2>2. CASE initialized
    <3> DEFINE B == {b \in Region(a, w) : Written(b)}
    <3>1. /\ ProfileOverwritten(externalCall, B)
          /\ ObserveOverwritten(externalCall, StoredBytes(Region(a, w)))
      BY <1>7, <2>2 DEF TruthDeallocate, LampDeallocate
    <3>2. /\ B \subseteq Region(a, w) /\ \A b \in B : Written(b)
          /\ \A b \in Region(a, w) : Written(b) => \E c \in B : memory[c] = memory[b]
      OBVIOUS
    <3>3. IsFiniteSet(B)
      BY <2>1, AccessedBytes
    <3> HIDE DEF B
    <3> QED
      BY <1>0, <2>1, <2>2, <3>1, <3>2, <3>3, OverwrittenCounts
  <2>3. CASE ~initialized
    <3>1. UNCHANGED <<profile, depSets, met>>
      BY <1>7, <2>3 DEF TruthDeallocate, LampDeallocate
    <3> QED
      BY <2>1, <3>1, NothingCounted
  <2> QED
    BY <2>2, <2>3
<1>8. CASE TruthCrash
  <2>1. crashed' /\ UNCHANGED <<profile, met>>
    BY <1>8 DEF TruthCrash, LampStoreAborts, LampInvocationThrows, truthVars
  <2> QED
    BY <2>1, NothingCounted
<1>9. ASSUME NEW i \in Call, TruthRegister(i) PROVE CountInv'
  <2>1. UNCHANGED <<profile, met, nest, inBody, current, serial, initialized,
                    crashed, depSets>>
    BY <1>9 DEF TruthRegister, LampRegister, truthVars, programVars
  <2> QED
    BY <2>1, NothingCounted
<1>10. ASSUME NEW id \in LoopId, TruthInvocation(id) PROVE CountInv'
  BY <1>10, InvocationCounts DEF TruthInvocation
<1>11. CASE TruthIteration
  BY <1>11, IterationCounts DEF TruthIteration
<1>12. CASE TruthExit
  BY <1>12, ExitCounts DEF TruthExit
<1>13. CASE UNCHANGED allVars
  <2>1. UNCHANGED <<profile, met, nest, inBody, current, serial, initialized,
                    crashed, depSets>>
    BY <1>13 DEF allVars, vars, truthVars, programVars
  <2> QED
    BY <2>1, NothingCounted
<1> QED
  BY <1>1, <1>2, <1>3, <1>4, <1>5, <1>6, <1>7, <1>8, <1>9, <1>10, <1>11, <1>12,
     <1>13 DEF TruthNext

LEMMA CountsInvariance ==
  ASSUME MaxDepDistance = 2
  PROVE  TruthSpec => []CountInv
<1>1. TruthSpec => []HooksInv
  BY ObserverObserves, HooksInvariance, PTL
<1>2. HooksInv /\ IInv /\ CountInv /\ [TruthNext]_allVars => CountInv'
  BY StepCounts
<1>3. TruthInit => CountInv
  BY InitCounts
<1> QED
  BY <1>1, <1>2, <1>3, Invariance, PTL DEF TruthSpec

(* The map of the profiler has an entry for a dependence exactly when the  *)
(* program met it: skipping the repeated stamps of an aligned access, or   *)
(* splitting an unaligned one into bytes, loses and invents nothing, for   *)
(* any nest, any run, any alignment and any window of past iterations.     *)
THEOREM CountedExactlyIfMet ==
  ASSUME MaxDepDistance = 2
  PROVE  TruthSpec => []CountedIffMet
<1>1. CountInv => CountedIffMet
  BY DEF CountInv
<1> QED
  BY <1>1, CountsInvariance, PTL

(* The loop count of an entry, printed beside its total in the profile, is  *)
(* the number of iterations in which its dependences were met: the sets of *)
(* a level are emptied neither too late (an iteration missed) nor too      *)
(* early (one counted twice), also when another loop reuses the level.     *)
THEOREM IterationsCountedOnce ==
  ASSUME MaxDepDistance = 2
  PROVE  TruthSpec => []LoopCountsIterations
<1>1. CountInv => LoopCountsIterations
  BY DEF CountInv
<1> QED
  BY <1>1, CountsInvariance, PTL

=============================================================================
