----------------------------- MODULE LampTruth -----------------------------
(***************************************************************************)
(* What the profile should say.  LampHooks is composed with an observer of *)
(* the program that, instead of time stamps, remembers for every byte and  *)
(* every loop the program is in whether the byte was last stored to in the *)
(* current invocation of the loop, and how many iterations of it began     *)
(* since.  The properties compare the time-stamp arithmetic with it.       *)
(***************************************************************************)
EXTENDS LampHooks

CONSTANT Outside   \* the store was made before the loop was entered

ASSUME OutsideAssumption == Outside \notin Nat

VARIABLES
  stored,     \* per byte: stored to, and neither (de)allocated since
  age,        \* per byte and level: iterations begun since the store
  serial,     \* number of iterations begun in the run
  current,    \* per level: serial number of its current iteration
  met         \* the dependences loaded, each with the iteration of the
              \* carrying loop it was met in

truthVars == <<stored, age, serial, current, met>>
allVars == <<vars, truthVars>>

TruthInit ==
  /\ Init
  /\ stored = [b \in Addr |-> FALSE]
  /\ age = [b \in Addr |-> [l \in Level |-> Outside]]
  /\ serial = 0
  /\ current = [l \in Level |-> 0]
  /\ met = {}

(* The innermost loop the program is in that contains the store.           *)
TrueCarrier(b) ==
  CHOOSE l \in 0 .. nest :
    /\ l = 0 \/ age[b][l] /= Outside
    /\ \A m \in (l + 1) .. nest : age[b][m] = Outside

TrueDistance(b) == IF age[b][TrueCarrier(b)] = 0 THEN 0 ELSE 1

TrueDependence(b, i) ==
  [store |-> memory[b].instr, loop |-> loopId[TrueCarrier(b)],
   dist |-> TrueDistance(b), load |-> i]

-----------------------------------------------------------------------------

(* An access is observed with the truth of the moment.                     *)
Observe(i, B) ==
  met' = met \cup
    {<<TrueDependence(b, i), current[TrueCarrier(b)]>> : b \in B}

ObserveOverwritten(i, B) ==
  IF ProfileOutput THEN Observe(i, B) ELSE UNCHANGED met

StoredBytes(R) == {b \in R : stored[b]}

ObserveStore(R) ==
  /\ stored' = [b \in Addr |-> stored[b] \/ b \in R]
  /\ age' = [b \in Addr |-> IF b \notin R THEN age[b]
               ELSE [l \in Level |-> IF l <= nest THEN 0 ELSE Outside]]
  /\ UNCHANGED <<serial, current>>

Forget(R) ==
  /\ stored' = [b \in Addr |-> stored[b] /\ b \notin R]
  /\ UNCHANGED <<age, serial, current>>

TruthInitialize == LampInit /\ UNCHANGED truthVars

TruthCrash ==
  /\ LampStoreAborts \/ LampInvocationThrows
  /\ UNCHANGED truthVars

TruthLoad(i, a, w) ==
  /\ LampLoad(i, a, w)
  /\ Observe(i, StoredBytes(Region(a, w)))
  /\ UNCHANGED <<stored, age, serial, current>>

TruthExternalLoad(a, w) ==
  /\ LampExternalLoad(a, w)
  /\ Observe(externalCall, StoredBytes(Region(a, w)))
  /\ UNCHANGED <<stored, age, serial, current>>

TruthStore(i, a, w) ==
  /\ LampStore(i, a, w)
  /\ ObserveStore(Region(a, w))
  /\ ObserveOverwritten(i, StoredBytes(Region(a, w)))

TruthExternalStore(a, w) ==
  /\ LampExternalStore(a, w)
  /\ ObserveStore(Region(a, w))
  /\ ObserveOverwritten(externalCall, StoredBytes(Region(a, w)))

TruthAllocate(a, w) ==
  /\ LampAllocate(a, w)
  /\ Forget(Region(a, w))
  /\ UNCHANGED met

TruthDeallocate(a, w) ==
  /\ LampDeallocate(a, w)
  /\ Forget(Region(a, w))
  /\ IF initialized
     THEN ObserveOverwritten(externalCall, StoredBytes(Region(a, w)))
     ELSE UNCHANGED met

TruthRegister(i) == LampRegister(i) /\ UNCHANGED truthVars

TruthInvocation(id) ==
  /\ LampLoopInvocation(id)
  /\ age' = [b \in Addr |-> [age[b] EXCEPT ![nest + 1] = Outside]]
  /\ UNCHANGED <<stored, serial, current, met>>

TruthIteration ==
  /\ LampIterationBegin
  /\ age' = [b \in Addr |->
               [age[b] EXCEPT ![nest] = IF @ = Outside THEN @ ELSE @ + 1]]
  /\ serial' = serial + 1
  /\ current' = [current EXCEPT ![nest] = serial + 1]
  /\ UNCHANGED <<stored, met>>

TruthExit == LampLoopExit /\ UNCHANGED truthVars

TruthNext ==
  \/ TruthInitialize
  \/ \E i \in Load, a \in Addr, w \in Width : TruthLoad(i, a, w)
  \/ \E i \in Store, a \in Addr, w \in Width : TruthStore(i, a, w)
  \/ \E a \in Addr, w \in Width :
       \/ TruthExternalLoad(a, w)
       \/ TruthExternalStore(a, w)
       \/ TruthAllocate(a, w)
       \/ TruthDeallocate(a, w)
  \/ TruthCrash
  \/ \E i \in Call : TruthRegister(i)
  \/ \E id \in LoopId : TruthInvocation(id)
  \/ TruthIteration
  \/ TruthExit

TruthSpec == TruthInit /\ [][TruthNext]_allVars

-----------------------------------------------------------------------------
(* Properties.                                                             *)

(* A byte has a stamp exactly when it was stored to since it was last      *)
(* allocated or freed (set_invalid is applied to bytes in each of their    *)
(* three states, and deallocation stores before it invalidates).           *)
StampsAreLive == ~crashed => \A b \in Addr : Written(b) <=> stored[b]

(* Whenever the program can load, findLoop names the innermost active loop *)
(* whose current invocation contains the store, and the tracked distance   *)
(* is 0 exactly when no iteration of it began since.  It has to survive    *)
(* re-entered loops, loops at a level another loop used before, windows    *)
(* that dropped stamps, and stores made between two inner loops.           *)
DependencesAreExact ==
  Running => \A b \in Addr : stored[b] =>
    /\ CarrierOf(b) = TrueCarrier(b)
    /\ DistanceOf(b) = TrueDistance(b)

(* With iterations measured, the loop count of an entry is the number of   *)
(* iterations of the carrying loops in which its dependences were met: the *)
(* sets are cleared neither too late nor too early.                        *)
LoopCountsIterations ==
  MeasureIterations => \A k \in Key :
    (IF profile[k] = NoEntry THEN 0 ELSE profile[k].loops)
      = Cardinality({m \in met : KeyOf(m[1]) = k})

(* An entry exists exactly for the dependences that were met: neither the  *)
(* skipping of repeated stamps inside an aligned access nor the byte-wise  *)
(* treatment of an unaligned one loses or invents a dependence.            *)
CountedIffMet ==
  \A k \in Key :
    profile[k] /= NoEntry <=> \E m \in met : KeyOf(m[1]) = k

(* Profile.hxx demands that the map's key holds both the store and the     *)
(* loop, and prints the loop of each entry: so every dependence that was   *)
(* met must be found under its own loop.                                   *)
EntriesKeepTheirLoop ==
  \A m \in met : profile[KeyOf(m[1])].loop = m[1].loop

=============================================================================
