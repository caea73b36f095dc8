------------------------------ MODULE LampIds -------------------------------
(***************************************************************************)
(* From the instrumentation over the run to the loaded profile.  The       *)
(* numbers the instrumentation gives to instructions and loops go through  *)
(* the hooks (tools/lamp-profiler/lamp_hooks.cxx), the profile and its     *)
(* file, and have to come out as the same instructions and loops, though   *)
(* the two ends share nothing but the order in which they count.           *)
(*                                                                         *)
(* The run follows the hooks along the control flow.  Of the memory only   *)
(* the stores made so far are kept; a load may depend on any of them, in   *)
(* any loop (which one is the subject of LampTruth).                       *)
(***************************************************************************)
EXTENDS LampLoad

CONSTANTS
  LoopIdMax,                       \* largest uint16_t
  MaxTrips, MaxEntries, MaxTotal   \* bounds: headers run, entries, counts

ASSUME IdsAssumption ==
  {LoopIdMax, MaxTrips, MaxEntries, MaxTotal} \subseteq Nat

WholeRun == 0      \* the loop id of level 0 and, as a loop, no header

VARIABLES
  at, pos,        \* the next instruction: block and index
  trips,          \* per loop, iterations begun since it was entered
  stack,          \* the library: loop_hierarchy
  externalCall,   \* the library: external_call_id
  stores,         \* stores made: <<id passed to the hook, instruction>>
  profile         \* the library: memoryProfiler, with the truth of each entry

runVars == <<at, pos, trips, stack, externalCall, stores, profile>>
vars == <<stage, optVars, loadVars, runVars>>

RunInit ==
  /\ at = 1 /\ pos = 1
  /\ trips = [l \in Loop |-> 0]
  /\ stack = <<[id |-> WholeRun, iterations |-> 0]>>
  /\ externalCall = 0
  /\ stores = {}
  /\ profile = {}

Init == InsertInit /\ LoadInit /\ RunInit

-----------------------------------------------------------------------------
(* The control flow.                                                       *)

(* Loop::getLoopDepth.                                                     *)
Depth(l) == Cardinality({m \in Loop : Body[l] \subseteq Body[m]})

(* The loops around a block, from the outermost.                           *)
LoopsAround(b) ==
  LET around == {l \in Loop : b \in Body[l]}
  IN  [n \in 1 .. Cardinality(around) |-> CHOOSE l \in around : Depth(l) = n]

Run ==
  /\ stage = "opt"
  /\ toHook = <<>> /\ Ran("profile") /\ Ran("init")
  /\ stage' = "run"
  /\ UNCHANGED <<optVars, loadVars, runVars>>

Item == code[at][pos]

Executes(op) == stage = "run" /\ pos <= Len(code[at]) /\ Item.op = op

Advance == pos' = pos + 1 /\ UNCHANGED <<stage, optVars, loadVars, at>>

(* From the end of a block; a header begins an iteration of its loop.      *)
Jump(b) ==
  /\ stage = "run"
  /\ pos > Len(code[at])
  /\ b \in Succ[at]
  /\ at' = b /\ pos' = 1
  /\ trips' = [l \in Loop |-> IF b \notin Body[l] THEN 0
                              ELSE IF b = l THEN trips[l] + 1 ELSE trips[l]]
  /\ \A l \in Loop : trips'[l] <= MaxTrips
  /\ UNCHANGED <<stage, optVars, loadVars, stack, externalCall, stores, profile>>

-----------------------------------------------------------------------------
(* The hooks.                                                              *)

(* external_call_id after LAMP_register, which comes before what runs no   *)
(* code of the program.                                                    *)
Registered == IF Item.op \in ExternalCalls /\ Item.id /= NotHooked
              THEN Item.id ELSE externalCall

(* Mutant of LoopInvocation: it takes all bits.                            *)
LoopInvocationWide ==
  /\ Executes("LAMP_loop_invocation")
  /\ stack' = Append(stack, [id |-> Item.arg, iterations |-> 0])
  /\ externalCall' = Registered
  /\ Advance
  /\ UNCHANGED <<trips, stores, profile>>

(* LAMP_loop_invocation takes 16 of the 32 bits.                           *)
LoopInvocation ==
  /\ Executes("LAMP_loop_invocation")
  /\ stack' = Append(stack, [id |-> Item.arg % (LoopIdMax + 1), iterations |-> 0])
  /\ externalCall' = Registered
  /\ Advance
  /\ UNCHANGED <<trips, stores, profile>>

LoopIterationBegin ==
  /\ Executes("LAMP_loop_iteration_begin")
  /\ stack' = [stack EXCEPT ![Len(stack)].iterations = @ + 1]
  /\ externalCall' = Registered
  /\ Advance
  /\ UNCHANGED <<trips, stores, profile>>

LoopExit ==
  /\ Executes("LAMP_loop_exit")
  /\ stack' = Front(stack)
  /\ externalCall' = Registered
  /\ Advance
  /\ UNCHANGED <<trips, stores, profile>>

(* LAMP_init comes before every hook but registrations, which it undoes.   *)
Initialize ==
  /\ Executes("LAMP_init")
  /\ externalCall' = 0
  /\ Advance
  /\ UNCHANGED <<trips, stack, stores, profile>>

(* LAMP_loop_iteration_end, and what is no hook: nothing here.             *)
Skip ==
  /\ Executes("LAMP_loop_iteration_end") \/ Executes("other")
  /\ externalCall' = Registered
  /\ Advance
  /\ UNCHANGED <<trips, stack, stores, profile>>

SameKey(e, f) == e.load = f.load /\ e.dist = f.dist /\ e.store = f.store

(* memory_profile for id, the number of instruction of: a dependence on    *)
(* store s carried at level n of the stack.                                *)
Count(id, of, s, n, d) ==
  LET e == [load |-> id, dist |-> d, loop |-> stack[n].id, store |-> s[1],
            total |-> 1,
            truth |-> [loop |-> IF n = 1 THEN WholeRun ELSE LoopsAround(at)[n - 1],
                       first |-> of, second |-> s[2]]]
      old == {f \in profile : SameKey(e, f)}
  IN  /\ \A f \in old : f.total < MaxTotal
      /\ Cardinality(profile \ old) < MaxEntries
      /\ profile' = (profile \ old) \cup
            (IF old = {} THEN {e} ELSE {[f EXCEPT !.total = @ + 1] : f \in old})

CountOrNot(id, of) ==
  \/ UNCHANGED profile
  \/ \E s \in stores, n \in 1 .. (1 + Len(LoopsAround(at))), d \in 0 .. 1 :
       n <= Len(stack) /\ Count(id, of, s, n, d)

(* pageCache has as many entries as LAMP_init was told: at() throws.       *)
AccessThrows ==
  /\ \/ (Executes("load") \/ Executes("store")) /\ Item.id >= counted
     \/ Executes("call") /\ Registered >= counted
  /\ stage' = "crashed"
  /\ UNCHANGED <<optVars, loadVars, runVars>>

(* LAMP_load and the load.                                                 *)
Load ==
  /\ Executes("load") /\ Item.id < counted
  /\ CountOrNot(Item.id, Item.of)
  /\ Advance
  /\ UNCHANGED <<trips, stack, externalCall, stores>>

Store ==
  /\ Executes("store") /\ Item.id < counted
  /\ stores' = stores \cup {<<Item.id, Item.of>>}
  /\ Advance
  /\ UNCHANGED <<trips, stack, externalCall, profile>>

(* The wrapper of an external function loads or stores for the registered  *)
(* call, or does not touch memory.                                         *)
ExternalCall ==
  /\ Executes("call")
  /\ externalCall' = Registered
  /\ \/ UNCHANGED <<stores, profile>>
     \/ /\ Registered < counted
        /\ \/ CountOrNot(Registered, Item.of) /\ UNCHANGED stores
           \/ stores' = stores \cup {<<Registered, Item.of>>} /\ UNCHANGED profile
  /\ Advance
  /\ UNCHANGED <<trips, stack>>

(* LAMP_finish writes the profile, sorted by load, distance and store.     *)
Before(e, f) ==
  \/ e.load < f.load
  \/ (e.load = f.load /\ e.dist < f.dist)
  \/ (e.load = f.load /\ e.dist = f.dist /\ e.store < f.store)

Entries ==
  [i \in 1 .. Cardinality(profile) |->
     CHOOSE e \in profile : Cardinality({f \in profile : Before(f, e)}) = i - 1]

(* The program may exit() anywhere.                                        *)
Finish ==
  /\ Executes("other")
  /\ stage' = "load"
  /\ file' = Tokens(Entries)
  /\ at' = 1 /\ pos' = 1 /\ trips' = [l \in Loop |-> 0]
  /\ stack' = <<[id |-> WholeRun, iterations |-> 0]>>
  /\ externalCall' = 0 /\ stores' = {}
  /\ UNCHANGED <<optVars, profile, toMap, loopOf, numCnt, fields, deps, maxTimes>>

(* Nobody runs the program: there is no file.                              *)
NotRun ==
  /\ stage = "opt" /\ ran = <<>>
  /\ stage' = "load"
  /\ UNCHANGED <<optVars, loadVars, runVars>>

Next ==
  \/ OptNext /\ UNCHANGED <<loadVars, runVars>>
  \/ Run
  \/ NotRun
  \/ \E b \in Block : Jump(b)
  \/ LoopInvocation
  \/ LoopIterationBegin
  \/ LoopExit
  \/ Initialize
  \/ Skip
  \/ Load
  \/ AccessThrows
  \/ Store
  \/ ExternalCall
  \/ Finish
  \/ LoadNext /\ UNCHANGED runVars

Spec == Init /\ [][Next]_vars

-----------------------------------------------------------------------------
(* Properties.                                                             *)

(* The order of the passes under which the comments let the numbers agree: *)
(* counted "only the first time (not after other instrumentation)", loop   *)
(* ids "starting after instruction ids".                                   *)
InOrder == Len(ran) >= 2 /\ ran[1] = "count" /\ ran[2] = "profile"

TypeOK ==
  /\ stage \in {"opt", "run", "load", "read", "done", "crashed"}
  /\ ran \in Seq({"count", "profile", "loops", "init"})
  /\ at \in Block /\ pos \in 1 .. Len(code[at]) + 1
  /\ \A i \in DOMAIN stack : stack[i].id \in 0 .. LoopIdMax
  /\ numCnt \in Nat

(* Wherever the program is, between the hooks in front of a block and      *)
(* those behind it the library's stack is the nest of loops around the     *)
(* block, each at its current iteration.  Blocks that are an exit of one   *)
(* loop, the latch of another and the preheader of a third hold the hooks  *)
(* of all of them.                                                         *)
HooksTrackTheNest ==
  (\E op \in Kind \cup {"other"} : Executes(op)) =>
    LET around == LoopsAround(at)
    IN  /\ Len(stack) = Len(around) + 1
        /\ \A n \in DOMAIN around :
             stack[n + 1] = [id |-> loopId[around[n]] % (LoopIdMax + 1),
                             iterations |-> trips[around[n]]]

(* If the passes ran in order, every entry of the profile comes back as    *)
(* the instructions it was recorded for, with its count, and under its     *)
(* loop exactly if the number of the loop fits the 16 bits of the hook.    *)
ProfileComesBack ==
  stage = "done" /\ InOrder /\ toMap = <<>> =>
    /\ DOMAIN deps = DOMAIN Entries
    /\ \A i \in DOMAIN deps :
         LET t == Entries[i].truth
             loop == IF t.loop = WholeRun THEN NoLoop ELSE t.loop
         IN  /\ deps[i].first = t.first /\ deps[i].second = t.second
             /\ deps[i].times = Entries[i].total
             /\ deps[i].loop = loop <=>
                  (t.loop = WholeRun \/ loopId[t.loop] <= LoopIdMax)

(* What sizes the profile is a count another pass made: if that ran first, *)
(* no number is too large for it.                                          *)
NoNumberTooLarge == stage = "crashed" => ~InOrder

=============================================================================
