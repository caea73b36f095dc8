--------------------------- MODULE LoopHierarchy ---------------------------
(***************************************************************************)
(* LoopHierarchy of tools/utils/LoopHierarchy.hxx: the stack of loops the  *)
(* profiled program is in.  Level 0 stands for the whole run.  Each level  *)
(* remembers the time its loop was entered and the start times of its      *)
(* latest iterations; from these alone it tells, for the time of a store,  *)
(* which active loop carries a dependence on that store, and over how many *)
(* iterations.                                                             *)
(*                                                                         *)
(* The circular_buffer of iteration stamps appears as the bounded window   *)
(* that module CircularBuffer shows it to implement.                       *)
(***************************************************************************)
EXTENDS Windows, Integers, FiniteSets

CONSTANTS
  LoopId,         \* the loop ids of the program
  WholeRun,       \* the id 0 given to level 0
  MaxLoopDepth,   \* size of loop_info (1024 in the code)
  MaxDepDistance  \* capacity of the iteration windows (2 in the code)

ASSUME HierarchyAssumption ==
  /\ MaxLoopDepth \in Nat \ {0}
  /\ MaxDepDistance \in Nat \ {0}

VARIABLES
  depth,       \* current_depth
  loopId,      \* LoopInfo::loop_id of each level
  invTime,     \* LoopInfo::invocation_time_stamp
  iterTimes    \* LoopInfo::iteration_time_stamps, newest last

hierarchyVars == <<depth, loopId, invTime, iterTimes>>

Level == 0 .. MaxLoopDepth - 1

(* The constructor ends by entering level 0 at time 0.                     *)
HierarchyInit ==
  /\ depth = 0
  /\ loopId = [l \in Level |-> WholeRun]
  /\ invTime = [l \in Level |-> 0]
  /\ iterTimes = [l \in Level |-> <<>>]

-----------------------------------------------------------------------------
(* The operations.                                                         *)

(* Mutant of CanEnter: the bound is compared before the increment.         *)
CanEnterLate == depth \in Level

CanEnter == depth + 1 \in Level

EnterLoop(id, t) ==
  /\ depth' = depth + 1
  /\ loopId' = [loopId EXCEPT ![depth + 1] = id]
  /\ invTime' = [invTime EXCEPT ![depth + 1] = t]
  /\ iterTimes' = [iterTimes EXCEPT ![depth + 1] = <<>>]

ExitLoop ==
  /\ depth' = depth - 1
  /\ UNCHANGED <<loopId, invTime, iterTimes>>

LoopIteration(t) ==
  /\ iterTimes' =
       [iterTimes EXCEPT ![depth] = Pushed(@, MaxDepDistance, t)]
  /\ UNCHANGED <<depth, loopId, invTime>>

-----------------------------------------------------------------------------
(* The queries.                                                            *)

(* Mutant of EnteredBefore: <= for <.                                      *)
EnteredByThen(l, t) == invTime[l] <= t

EnteredBefore(l, t) == invTime[l] < t

(* The innermost active loop entered before time t, else the whole run.    *)
FindLoop(t) ==
  LET carriers == {l \in 1 .. depth : t /= 0 /\ EnteredBefore(l, t)}
  IN  IF carriers = {} THEN 0
      ELSE CHOOSE l \in carriers : \A m \in carriers : m <= l

(* How many of the latest iterations of level l began after time t: the    *)
(* scan starts at the newest stamp and stops at the first one not after t. *)
CalculateDistance(l, t) ==
  LET times == iterTimes[l]
  IN  Cardinality({i \in 1 .. Len(times) :
                     \A j \in i .. Len(times) : times[j] > t})

-----------------------------------------------------------------------------

HierarchyTypeOK ==
  /\ depth \in Level
  /\ loopId \in [Level -> LoopId \cup {WholeRun}]
  /\ invTime \in [Level -> Nat]
  /\ iterTimes \in [Level -> Seq(Nat)]
  /\ \A l \in Level : Len(iterTimes[l]) <= MaxDepDistance

=============================================================================
