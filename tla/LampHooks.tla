----------------------------- MODULE LampHooks -----------------------------
(***************************************************************************)
(* The LAMP run-time library, tools/lamp-profiler/lamp_hooks.cxx: the      *)
(* hooks an instrumented program calls at its loads, stores, loop entries, *)
(* iterations, exits and external calls.  A store stamps the bytes it      *)
(* writes with its instruction and the current time; a load turns the      *)
(* stamps it finds into dependences and counts them.                       *)
(*                                                                         *)
(* The program is the environment.  It calls the loop hooks the way        *)
(* LAMPLoopProfiler places them: invocation in the preheader, an iteration *)
(* at each execution of the header, one exit hook per loop left.  It may   *)
(* run constructors before main() reaches LAMP_init.                       *)
(*                                                                         *)
(* A silent store, the hooks of loads and stores before LAMP_init, and     *)
(* LAMP_loop_iteration_end change nothing (run statistics are left out):   *)
(* they are stuttering steps.                                              *)
(***************************************************************************)
EXTENDS LoopHierarchy

CONSTANTS
  Load, Store, Call,  \* ids of the instrumented loads, stores and calls
  FirstInstr,         \* the instruction with id 0
  Addr,               \* byte addresses
  Width,              \* access sizes in bytes
  MeasureIterations,  \* lamp_params.measure_iterations
  ProfileOutput,      \* lamp_params.profile_output = ~profile_flow
  TimeStampMax,       \* TIME_STAMP_MAX
  Unknown, Invalid,   \* state of a byte without a valid stamp
  NoEntry,            \* no profile for a key yet
  MaxTime, MaxCount   \* bounds of the model: iterations, counted accesses

Instr == Load \cup Store \cup Call

ASSUME HooksAssumption ==
  /\ FirstInstr \in Instr
  /\ Addr \subseteq Nat
  /\ Width \subseteq Nat \ {0}
  /\ MeasureIterations \in BOOLEAN
  /\ ProfileOutput \in BOOLEAN
  /\ TimeStampMax \in Nat
  /\ MaxTime \in Nat
  /\ MaxCount \in Nat
  /\ Unknown /= Invalid

VARIABLES
  initialized,   \* LAMP_initialized
  timeStamp,     \* time_stamp
  memory,        \* memory_stamp: per byte a stamp, Unknown or Invalid
  profile,       \* memoryProfiler: per key the first loop and the counts
  depSets,       \* LoopInfo::item: per level and distance, dependences seen
  externalCall,  \* external_call_id
  crashed,       \* abort() or an uncaught out_of_range ended the program
  nest,          \* the program: how many loops it is in
  inBody         \* the program: an iteration of the innermost one has begun

programVars == <<nest, inBody>>
vars == <<hierarchyVars, initialized, timeStamp, memory, profile, depSets,
          externalCall, crashed, programVars>>

Distance == 0 .. MaxDepDistance - 1

Stamp == [instr : Instr, time : Nat]

ASSUME StampAssumption == {Unknown, Invalid} \cap Stamp = {}

Dependence == [store : Instr, loop : LoopId \cup {WholeRun},
               dist : Distance, load : Instr]

(* The index path of getProfile: load, tracked distance, and the map's     *)
(* key.  operator< of ls_key_t compares the store id alone, so two keys    *)
(* that differ in the loop are the same entry, under the first one's loop. *)
Key == Instr \X Distance \X Instr
KeyOf(dep) == <<dep.load, dep.dist, dep.store>>

ProfileEntry == [loop : LoopId \cup {WholeRun}, total : Nat, loops : Nat]

ASSUME EntryAssumption == NoEntry \notin ProfileEntry

-----------------------------------------------------------------------------
(* Memory stamps.                                                          *)

Written(b) == memory[b] \notin {Unknown, Invalid}

Region(a, w) == a .. (a + w - 1)

Aligned(a, w) == a % w = 0

(* What is taken back of a byte: set_offset_unknown if it was valid, or    *)
(* set_offset_invalid.                                                     *)
TakenBack(b) == IF Written(b) THEN Unknown ELSE Invalid

(* MemoryPage::set_invalid, byte after byte.                               *)
Invalidated(R) ==
  [b \in Addr |-> IF b \in R THEN TakenBack(b) ELSE memory[b]]

(* form_timestamp: the time goes into a bit field (44 bits in the code).   *)
Stamped(R, i) ==
  [b \in Addr |->
     IF b \in R THEN [instr |-> i, time |-> timeStamp % (TimeStampMax + 1)]
     ELSE memory[b]]

-----------------------------------------------------------------------------
(* From a stamp to a counted dependence.                                   *)

TrackedDistance(d) == IF d >= MaxDepDistance THEN MaxDepDistance - 1 ELSE d

CarrierOf(b) == FindLoop(memory[b].time)

DistanceOf(b) ==
  TrackedDistance(CalculateDistance(CarrierOf(b), memory[b].time))

DependenceOn(b, i) ==
  [store |-> memory[b].instr, loop |-> loopId[CarrierOf(b)],
   dist |-> DistanceOf(b), load |-> i]

(* Mutant of RepeatsStamp: the time of the store is ignored.               *)
RepeatsStore(b, R) ==
  \E c \in R : /\ c < b /\ Written(c) /\ memory[c].instr = memory[b].instr
               /\ \A d \in (c + 1) .. (b - 1) : ~Written(d)

(* The bytes an access counts: within an aligned one, a byte whose stamp   *)
(* is that of the last written byte before it is skipped; an unaligned one *)
(* is split into single bytes, each counted by itself.                     *)
RepeatsStamp(b, R) ==
  \E c \in R : /\ c < b /\ Written(c) /\ memory[c] = memory[b]
               /\ \A d \in (c + 1) .. (b - 1) : ~Written(d)

CountedBytes(a, w) ==
  {b \in Region(a, w) :
     /\ Written(b)
     /\ ~(Aligned(a, w) /\ RepeatsStamp(b, Region(a, w)))}

(* Mutant of IsNew: the set of the innermost loop instead of the carrier's. *)
IsNewHere(b, i) == DependenceOn(b, i) \notin depSets[depth][DistanceOf(b)]

(* Not yet seen in the current iteration of the carrying loop.             *)
IsNew(b, i) == DependenceOn(b, i) \notin depSets[CarrierOf(b)][DistanceOf(b)]

(* memory_profile on the bytes B for instruction i.                        *)
Profile(i, B) ==
  LET Hits(k) == {b \in B : KeyOf(DependenceOn(b, i)) = k}
      FirstHit(k) == CHOOSE b \in Hits(k) : \A c \in Hits(k) : b <= c
      NewDeps(k) == {<<CarrierOf(b), DependenceOn(b, i)>> :
                       b \in {c \in Hits(k) : IsNew(c, i)}}
      Old(k) == IF profile[k] /= NoEntry THEN profile[k]
                ELSE [loop |-> loopId[CarrierOf(FirstHit(k))],
                      total |-> 0, loops |-> 0]
      Counted(k) ==
        [Old(k) EXCEPT
           !.total = @ + Cardinality(Hits(k)),
           !.loops = IF MeasureIterations
                     THEN @ + Cardinality(NewDeps(k)) ELSE @]
  IN  /\ profile' = [k \in Key |-> IF Hits(k) = {} THEN profile[k]
                                   ELSE Counted(k)]
      /\ depSets' =
           IF ~MeasureIterations THEN depSets
           ELSE [l \in Level |-> [d \in Distance |->
                   depSets[l][d] \cup
                     {DependenceOn(b, i) : b \in
                        {c \in B : CarrierOf(c) = l /\ DistanceOf(c) = d}}]]

(* Bound of the model.                                                     *)
BelowCount ==
  \A k \in Key :
    (IF profile[k] = NoEntry THEN 0 ELSE profile[k].total) < MaxCount

-----------------------------------------------------------------------------
(* Start of the program.                                                   *)

EmptySets == [d \in Distance |-> {}]

Init ==
  /\ HierarchyInit
  /\ initialized = FALSE
  /\ timeStamp = 0
  /\ memory = [b \in Addr |-> Unknown]
  /\ profile = [k \in Key |-> NoEntry]
  /\ depSets = [l \in Level |-> EmptySets]
  /\ externalCall = FirstInstr
  /\ crashed = FALSE
  /\ nest = 0
  /\ inBody = TRUE

(* LAMP_init, at the start of main(): outside of every loop.  The numbers  *)
(* of instructions are small enough (it aborts above 2^16 - 1).            *)
LampInit ==
  /\ ~crashed /\ ~initialized /\ nest = 0
  /\ initialized' = TRUE
  /\ LoopIteration(0)
  /\ timeStamp' = 1
  /\ profile' = [k \in Key |-> NoEntry]
  /\ depSets' = [depSets EXCEPT ![depth] = EmptySets]
  /\ externalCall' = FirstInstr
  /\ UNCHANGED <<memory, crashed, programVars>>

-----------------------------------------------------------------------------
(* Loads and stores.                                                       *)

Running == ~crashed /\ inBody

LampLoad(i, a, w) ==
  /\ Running /\ initialized /\ ~ProfileOutput
  /\ Region(a, w) \subseteq Addr
  /\ BelowCount
  /\ Profile(i, CountedBytes(a, w))
  /\ UNCHANGED <<hierarchyVars, initialized, timeStamp, memory, externalCall,
                 crashed, programVars>>

(* LAMP_external_load: byte after byte, on behalf of the registered call.  *)
LampExternalLoad(a, w) ==
  /\ Running /\ initialized /\ ~ProfileOutput
  /\ Region(a, w) \subseteq Addr
  /\ BelowCount
  /\ Profile(externalCall, {b \in Region(a, w) : Written(b)})
  /\ UNCHANGED <<hierarchyVars, initialized, timeStamp, memory, externalCall,
                 crashed, programVars>>

(* Output dependences are profiled before the stamps are overwritten.      *)
ProfileOverwritten(i, B) ==
  IF ProfileOutput THEN BelowCount /\ Profile(i, B)
                   ELSE UNCHANGED <<profile, depSets>>

LampStore(i, a, w) ==
  /\ Running /\ initialized
  /\ Region(a, w) \subseteq Addr
  /\ timeStamp <= TimeStampMax
  /\ ProfileOverwritten(i, CountedBytes(a, w))
  /\ memory' = Stamped(Region(a, w), i)
  /\ UNCHANGED <<hierarchyVars, initialized, timeStamp, externalCall,
                 crashed, programVars>>

LampExternalStore(a, w) ==
  /\ Running /\ initialized
  /\ Region(a, w) \subseteq Addr
  /\ timeStamp <= TimeStampMax
  /\ ProfileOverwritten(externalCall, {b \in Region(a, w) : Written(b)})
  /\ memory' = Stamped(Region(a, w), externalCall)
  /\ UNCHANGED <<hierarchyVars, initialized, timeStamp, externalCall,
                 crashed, programVars>>

(* form_timestamp aborts when the time no longer fits its 44 bits.         *)
LampStoreAborts ==
  /\ Running /\ initialized
  /\ timeStamp > TimeStampMax
  /\ crashed' = TRUE
  /\ UNCHANGED <<hierarchyVars, initialized, timeStamp, memory, profile,
                 depSets, externalCall, programVars>>

-----------------------------------------------------------------------------
(* Allocation.                                                             *)

LampAllocate(a, w) ==
  /\ Running
  /\ Region(a, w) \subseteq Addr
  /\ memory' = Invalidated(Region(a, w))
  /\ UNCHANGED <<hierarchyVars, initialized, timeStamp, profile, depSets,
                 externalCall, crashed, programVars>>

(* Mutant of LampDeallocate: the stamps of the stores are not taken back.  *)
LampDeallocateStamps(a, w) ==
  /\ Running
  /\ Region(a, w) \subseteq Addr
  /\ IF initialized
     THEN /\ timeStamp <= TimeStampMax
          /\ ProfileOverwritten(externalCall,
                                {b \in Region(a, w) : Written(b)})
          /\ memory' = Stamped(Region(a, w), externalCall)
     ELSE /\ memory' = Invalidated(Region(a, w))
          /\ UNCHANGED <<profile, depSets>>
  /\ UNCHANGED <<hierarchyVars, initialized, timeStamp, externalCall,
                 crashed, programVars>>

(* Every byte is stored to, then invalidated: valid bytes become unknown.  *)
(* Before LAMP_init the stores do nothing.                                 *)
LampDeallocate(a, w) ==
  /\ Running
  /\ Region(a, w) \subseteq Addr
  /\ IF initialized
     THEN /\ timeStamp <= TimeStampMax
          /\ ProfileOverwritten(externalCall,
                                {b \in Region(a, w) : Written(b)})
          /\ memory' = [b \in Addr |-> IF b \in Region(a, w) THEN Unknown
                                       ELSE memory[b]]
     ELSE /\ memory' = Invalidated(Region(a, w))
          /\ UNCHANGED <<profile, depSets>>
  /\ UNCHANGED <<hierarchyVars, initialized, timeStamp, externalCall,
                 crashed, programVars>>

LampRegister(i) ==
  /\ Running
  /\ externalCall' = i
  /\ UNCHANGED <<hierarchyVars, initialized, timeStamp, memory, profile,
                 depSets, crashed, programVars>>

-----------------------------------------------------------------------------
(* Loops.                                                                  *)

(* initializeSets, on the level that is current after the hook; the option *)
(* is not read before LAMP_init.                                           *)
SetsCleared(l) == depSets' = IF initialized /\ MeasureIterations
                             THEN [depSets EXCEPT ![l] = EmptySets]
                             ELSE depSets

LampLoopInvocation(id) ==
  /\ Running /\ CanEnter
  /\ EnterLoop(id, timeStamp)
  /\ SetsCleared(depth + 1)
  /\ nest' = nest + 1
  /\ inBody' = FALSE
  /\ UNCHANGED <<initialized, timeStamp, memory, profile, externalCall,
                 crashed>>

(* loop_info.at() throws and nobody catches.                               *)
LampInvocationThrows ==
  /\ Running /\ ~CanEnter
  /\ depth' = depth + 1
  /\ crashed' = TRUE
  /\ UNCHANGED <<loopId, invTime, iterTimes, initialized, timeStamp, memory,
                 profile, depSets, externalCall, programVars>>

LampIterationBegin ==
  /\ ~crashed /\ nest > 0
  /\ timeStamp < MaxTime
  /\ timeStamp' = timeStamp + 1
  /\ LoopIteration(timeStamp + 1)
  /\ SetsCleared(depth)
  /\ inBody' = TRUE
  /\ UNCHANGED <<initialized, memory, profile, externalCall, crashed, nest>>

(* A loop is left from its body; the program is then back in the body of   *)
(* the loop around it.                                                     *)
LampLoopExit ==
  /\ Running /\ nest > 0
  /\ ExitLoop
  /\ nest' = nest - 1
  /\ UNCHANGED <<initialized, timeStamp, memory, profile, depSets,
                 externalCall, crashed, inBody>>

-----------------------------------------------------------------------------

Next ==
  \/ LampInit
  \/ \E i \in Load, a \in Addr, w \in Width : LampLoad(i, a, w)
  \/ \E i \in Store, a \in Addr, w \in Width : LampStore(i, a, w)
  \/ \E a \in Addr, w \in Width :
       \/ LampExternalLoad(a, w)
       \/ LampExternalStore(a, w)
       \/ LampAllocate(a, w)
       \/ LampDeallocate(a, w)
  \/ LampStoreAborts
  \/ \E i \in Call : LampRegister(i)
  \/ \E id \in LoopId : LampLoopInvocation(id)
  \/ LampInvocationThrows
  \/ LampIterationBegin
  \/ LampLoopExit

Spec == Init /\ [][Next]_vars

-----------------------------------------------------------------------------

(* Every hook leaves the tables, the sets and the stack of loops with      *)
(* entries of their kind, whatever the program calls in which order; only  *)
(* the hook that throws (a nest too deep) leaves the stack out of range.   *)
HooksTypeOK ==
  /\ crashed \/ HierarchyTypeOK
  /\ initialized \in BOOLEAN
  /\ timeStamp \in Nat
  /\ memory \in [Addr -> Stamp \cup {Unknown, Invalid}]
  /\ profile \in [Key -> ProfileEntry \cup {NoEntry}]
  /\ depSets \in [Level -> [Distance -> SUBSET Dependence]]
  /\ externalCall \in Instr
  /\ crashed \in BOOLEAN
  /\ nest \in Nat
  /\ inBody \in BOOLEAN

=============================================================================
