----------------------------- MODULE LampInsert -----------------------------
(***************************************************************************)
(* The LAMP instrumentation passes (lib/splitpass/LAMPProfiling.cpp) and   *)
(* the program they instrument.                                            *)
(*                                                                         *)
(* LdStCallCounter counts the loads, stores and external calls;            *)
(* LAMPProfiler numbers them and puts a hook before each; LAMPLoopProfiler *)
(* numbers the loops from that count on and puts hooks into their          *)
(* preheaders, headers, latches and exit blocks; LAMPInit starts the       *)
(* library.  opt runs them in the order of the command line, the counter   *)
(* at the latest when a pass first requires it.                            *)
(*                                                                         *)
(* The function to instrument has the form loop-simplify gives it, any     *)
(* loads, stores and calls, and stands for the module.  Each block also    *)
(* has an instruction that no pass looks at.  Phis and terminators, before *)
(* and behind which hooks go, are not listed.                              *)
(***************************************************************************)
EXTENDS Integers, Sequences, FiniteSets, SequencesExt

CONSTANTS
  NumBlocks, Succ,   \* the blocks in their order, block 1 first
  LoopOrder,         \* headers of the loops, inner loops first
  Body, Preheader, Latch,
  MaxInstrs          \* bound of the model: loads, stores and calls

Block == 1 .. NumBlocks
Loop == {LoopOrder[i] : i \in DOMAIN LoopOrder}

Exits(l) == (UNION {Succ[b] : b \in Body[l]}) \ Body[l]

ASSUME Function ==
  /\ NumBlocks \in Nat /\ NumBlocks >= 1
  /\ Succ \in [Block -> SUBSET Block]
  /\ \A b \in Block : 1 \notin Succ[b]
  /\ MaxInstrs \in Nat

(* The loops of LoopInfo: entered at their headers, nested or apart.       *)
ASSUME NaturalLoops ==
  /\ LoopOrder \in Seq(Block)
  /\ Body \in [Loop -> SUBSET Block]
  /\ \A l \in Loop :
       /\ l \in Body[l]
       /\ \A b \in Body[l] : \E c \in Body[l] : b \in Succ[c]
       /\ \A b \in Body[l] \ {l}, c \in Block : b \in Succ[c] => c \in Body[l]
  /\ \A l, m \in Loop :
       \/ l = m
       \/ Body[l] \cap Body[m] = {}
       \/ Body[l] \subseteq Body[m] \ {m}
       \/ Body[m] \subseteq Body[l] \ {l}

ASSUME LoopSimplifyForm ==
  \A l \in Loop :
    /\ {b \in Block : l \in Succ[b]} = {Preheader[l], Latch[l]}
    /\ Succ[Preheader[l]] = {l} /\ Preheader[l] \notin Body[l]
    /\ Latch[l] \in Body[l]
    /\ \A x \in Exits(l), b \in Block : x \in Succ[b] => b \in Body[l]

ASSUME InnerFirst ==
  \A i, j \in DOMAIN LoopOrder : LoopOrder[i] \in Body[LoopOrder[j]] => i <= j

VARIABLES
  stage,         \* "opt", "run", or a later one
  source,        \* the loads, stores and calls of each block
  code,          \* the instructions of each block
  counted,       \* LdStCallCounter's sum
  toHook,        \* loops LAMPLoopProfiler has not come to
  loopId,        \* the number it gave each loop
  ran            \* the passes that have run, in their order

optVars == <<source, code, counted, toHook, loopId, ran>>

-----------------------------------------------------------------------------
(* Code.                                                                   *)

Kind == {"load", "store", "call"}

NotHooked == -1

(* arg: the number a loop hook passes; of: <<block, index>> of the load,   *)
(* store or call in the source, or <<header>> for a hook of a loop; id:    *)
(* the number passed by the hook LAMPProfiler put before the instruction.  *)
Instr(op, arg, of) == [op |-> op, arg |-> arg, of |-> of, id |-> NotHooked]

Original(b) ==
  <<Instr("other", 0, <<>>)>> \o
  [i \in DOMAIN source[b] |-> Instr(source[b][i], 0, <<b, i>>)]

(* Hooks are functions without a body too.                                 *)
ExternalCalls ==
  {"call", "LAMP_loop_invocation", "LAMP_loop_iteration_begin",
   "LAMP_loop_iteration_end", "LAMP_loop_exit", "LAMP_init"}

IsProfilable(i) == i.op \in {"load", "store"} \cup ExternalCalls

Positions(blocks) == UNION {{b} \X DOMAIN blocks[b] : b \in Block}

Earlier(k, m) == k[1] < m[1] \/ (k[1] = m[1] /\ k[2] < m[2])

Profilable == {k \in Positions(code) : IsProfilable(code[k[1]][k[2]])}

(* LAMPProfiler's hooks count too, and so does the second load it makes to *)
(* pass the value of the first.                                            *)
NumProfilable ==
  LET hooked == {k \in Positions(code) : code[k[1]][k[2]].id /= NotHooked}
  IN  Cardinality(Profilable) + Cardinality(hooked)
        + Cardinality({k \in hooked : code[k[1]][k[2]].op = "load"})

(* Mutant of InstructionId: calls get a number without using it up.        *)
InstructionIdAccesses(k) ==
  Cardinality({m \in Profilable :
                 Earlier(m, k) /\ code[m[1]][m[2]].op \in {"load", "store"}})

(* The number instruction_id has when LAMPProfiler comes to instruction k; *)
(* it starts at -1 and is incremented first.                               *)
InstructionId(k) == Cardinality({m \in Profilable : Earlier(m, k)})

-----------------------------------------------------------------------------
(* The passes.                                                             *)

InsertInit ==
  /\ stage = "opt"
  /\ \E size \in [Block -> 0 .. MaxInstrs] :
       LET listed == {k \in Block \X (1 .. MaxInstrs) : k[2] <= size[k[1]]}
       IN  /\ Cardinality(listed) <= MaxInstrs
           /\ \E kind \in [listed -> Kind] :
                source = [b \in Block |-> [i \in 1 .. size[b] |-> kind[<<b, i>>]]]
  /\ code = [b \in Block |-> Original(b)]
  /\ counted = 0
  /\ toHook = LoopOrder
  /\ loopId = [l \in Loop |-> 0]
  /\ ran = <<>>

Ran(pass) == \E i \in DOMAIN ran : ran[i] = pass

BetweenPasses == stage = "opt" /\ toHook \in {LoopOrder, <<>>}

(* Mutant of CountInstrs: calls are not counted.                           *)
CountAccesses ==
  /\ BetweenPasses
  /\ ~Ran("count")
  /\ counted' = Cardinality({k \in Positions(code) :
                               code[k[1]][k[2]].op \in {"load", "store"}})
  /\ ran' = Append(ran, "count")
  /\ UNCHANGED <<source, code, toHook, loopId>>

(* LdStCallCounter::runOnModule counts once.                               *)
CountInstrs ==
  /\ BetweenPasses
  /\ ~Ran("count")
  /\ counted' = NumProfilable
  /\ ran' = Append(ran, "count")
  /\ UNCHANGED <<source, code, toHook, loopId>>

LampProfiler ==
  /\ BetweenPasses
  /\ ~Ran("profile")
  /\ ran' = Append(ran, "profile")
  /\ code' = [b \in Block |-> [i \in DOMAIN code[b] |->
                IF IsProfilable(code[b][i])
                THEN [code[b][i] EXCEPT !.id = InstructionId(<<b, i>>)]
                ELSE code[b][i]]]
  /\ UNCHANGED <<source, counted, toHook, loopId>>

Hook(name, l) == Instr(name, 0, <<l>>)

(* Mutant of HooksInFront: an exit block that two exits lead to.           *)
HooksPerExit(b, l) ==
  (IF b = l THEN <<Hook("LAMP_loop_iteration_begin", l)>> ELSE <<>>) \o
  FlattenSeq([e \in 1 .. Cardinality({x \in Body[l] : b \in Exits(l) /\ b \in Succ[x]}) |->
                <<Hook("LAMP_loop_iteration_end", l), Hook("LAMP_loop_exit", l)>>])

(* After the phis of a block: an exit block gets its hooks once, however   *)
(* many exits lead to it.                                                  *)
HooksInFront(b, l) ==
  (IF b = l THEN <<Hook("LAMP_loop_iteration_begin", l)>> ELSE <<>>) \o
  (IF b \in Exits(l)
   THEN <<Hook("LAMP_loop_iteration_end", l), Hook("LAMP_loop_exit", l)>>
   ELSE <<>>)

(* Before its terminator.                                                  *)
HooksBehind(b, l, number) ==
  (IF b = Preheader[l] THEN <<Instr("LAMP_loop_invocation", number, <<l>>)>>
   ELSE <<>>) \o
  (IF b = Latch[l] THEN <<Hook("LAMP_loop_iteration_end", l)>> ELSE <<>>)

NumberedLoops == Len(LoopOrder) - Len(toHook)

(* LAMPLoopProfiler::runOnLoop: loop_id starts behind the instructions.    *)
LampLoopProfiler ==
  /\ stage = "opt"
  /\ toHook /= <<>>
  /\ Ran("count")
  /\ LET l == Head(toHook)
         number == counted + NumberedLoops
     IN  /\ loopId' = [loopId EXCEPT ![l] = number]
         /\ code' = [b \in Block |->
                       HooksInFront(b, l) \o code[b] \o HooksBehind(b, l, number)]
  /\ toHook' = Tail(toHook)
  /\ ran' = IF Ran("loops") THEN ran ELSE Append(ran, "loops")
  /\ UNCHANGED <<source, counted>>

(* LAMPInit::runOnModule, on the entry block of main.  The number of loops *)
(* it passes along is not read by the library.                             *)
LampInit ==
  /\ BetweenPasses
  /\ Ran("count") /\ ~Ran("init")
  /\ ran' = Append(ran, "init")
  /\ code' = [code EXCEPT ![1] = <<Instr("LAMP_init", counted, <<>>)>> \o @]
  /\ UNCHANGED <<source, counted, toHook, loopId>>

OptNext ==
  /\ \/ CountInstrs
     \/ LampProfiler
     \/ LampLoopProfiler
     \/ LampInit
  /\ UNCHANGED stage

=============================================================================
