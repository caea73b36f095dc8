---------------------------- MODULE LoopFission -----------------------------
(***************************************************************************)
(* The pass pipeline -dg -bp -splitpass2 (run2.sh) on a function with one  *)
(* loop: the dependence graph, its partitions, and the loops they become.  *)
(***************************************************************************)
EXTENDS BP

CONSTANT MaxCarried   \* bound on what the header reads

ASSUME CarriedAssumption == MaxCarried \in Nat

VARIABLES
  carried,     \* instructions other than the increment that the header's phis
               \* read: reductions, and values used after the loop, which
               \* leave it through the header
  todo, current, clones, erased, exitTo, phiFrom, kept, crashed

splitVars == <<todo, current, clones, erased, exitTo, phiFrom, kept, crashed>>
vars == <<bodyVars, carried, dgVars, bpVars, splitVars>>

Split == INSTANCE SplitPass2 WITH
  NumLoops <- 1, partitions <- <<sccs>>, operands <- uses,
  headerReads <- {inc} \cup carried

Init ==
  /\ BodyInit
  /\ carried \in {C \in SUBSET (Inst \ {inc, Br}) :
                    Cardinality(C) <= MaxCarried}
  /\ regDeps = [k \in Inst |-> {}]
  /\ memDeps = [k \in Inst |-> {}]
  /\ BPInit
  /\ Split!SplitInit

(* A loop without partitions is not in bpmap->Partitions, one with fewer   *)
(* than four is left alone: the same to SplitPass2.                        *)
SplitStep ==
  /\ stage \in {"done", "no_analysis"}
  /\ UNCHANGED <<bodyVars, carried, dgVars, bpVars>>
  /\ Split!SplitNext

Next ==
  \/ BPNext /\ UNCHANGED <<carried, splitVars>>
  \/ SplitStep

Spec == Init /\ [][Next]_vars

-----------------------------------------------------------------------------
(* Properties.                                                             *)

(* The recipe of asking for both orders and suppressing the second answer  *)
(* yields exactly the dependences, for every combination of directions.    *)
MemDepsAreExact ==
  stage \notin {"buildDG", "no_analysis"} =>
    \A a, b \in Inst : b \in memDeps[a] <=> a /= b /\ DependsOn(b, a)

(* A search never has to remove two elements from one result: the second   *)
(* erase would go through an iterator the first one invalidated.           *)
RemovalsAreSafe == repeats <= 1

(* What has to run no later than what: a register counts both ways.        *)
Steps ==
  {p \in Inst \X Inst : \/ p \in uses \/ <<p[2], p[1]>> \in uses
                        \/ DependsOn(p[2], p[1])}

(* Instructions that reach each other by steps: those that are in the same *)
(* of the sets no step leads out of.                                       *)
MustStayTogether ==
  LET steps == Steps
      Closed == {C \in SUBSET Inst : \A p \in steps : p[1] \in C => p[2] \in C}
  IN  {p \in Inst \X Inst : \A C \in Closed : p[1] \in C <=> p[2] \in C}

(* The partitions are there and the splitting has not begun.  Nothing      *)
(* changes them from then on.                                              *)
Planned == stage = "done" /\ todo = {1} /\ current = 0

(* Instructions of which neither can run in a loop of its own before the   *)
(* other are in one partition, whatever the heuristic decides.  Without it *)
(* the partitions are as fine as that allows: build_scc's comparison of    *)
(* reachable sets takes no further group in.                               *)
PartitionsAreFinest ==
  Planned =>
    LET must == MustStayTogether
    IN  \A i, j \in Inst :
          LET together == \E s \in DOMAIN sccs : {i, j} \subseteq sccs[s]
          IN  IF <<i, j>> \in must THEN together ELSE together => heuristic

(* Cutting the loops that overflow into ones that fit saves at least half  *)
(* of what an instruction too many costs more than the emptiest loop, and  *)
(* takes at most a header for each partition but the first.  The scores    *)
(* weigh the first against the worst plan's, at most the penalty for each  *)
(* instruction there is, the second against 100 instructions for each.     *)
HeadersAreCheap(n) ==
  2 * (n - 1) * HeaderSize * OverflowPenalty
    < 100 * (OverflowPenalty - (ICacheSize - 3))

(* Where no partition overflows the cache by itself and headers are cheap  *)
(* for so many partitions, the heuristic lets no loop overflow it, neither *)
(* for an average that one bad loop among good ones hardly moves, nor for  *)
(* the headers saved.                                                      *)
OverflowsOnlyIfForced ==
  Planned /\ heuristic =>
    LET must == MustStayTogether
        old == {{j \in Inst : <<i, j>> \in must} : i \in Inst \ {inc, Br}}
    IN  /\ HeadersAreCheap(Cardinality(old))
        /\ \A p \in old : Cardinality(p) + 2 <= ICacheSize
        => \A s \in 1 .. SccNo(sccs) : Cardinality(sccs[s]) + 2 <= ICacheSize

(* Splitting drops no instruction and repeats none; a rejected loop keeps  *)
(* all of its own.                                                         *)
EachRunsOnce == stage \in {"done", "no_analysis"} => Split!EachRunsOnce

(* Nothing in the body uses an instruction erased from its loop.  What the *)
(* header still uses stops every split: the pass ends on LLVM's assertion  *)
(* only for a reduction or a value used after the loop, and no loop that   *)
(* has one becomes several.                                                *)
OnlyCarriedDangle ==
  /\ crashed => carried /= {}
  /\ todo = {} /\ clones[1] > 0 /\ ~crashed => carried = {}

(* The partitions run in an order that keeps the dependences, as in the    *)
(* manually split example (example/ppt_example_manual_split.c, whose loop  *)
(* over a[i] follows the loop that stores b[i]).                           *)
OrderKeepsDependences ==
  stage = "done" =>
    \A s, t \in DOMAIN sccs : \A a \in sccs[s], b \in sccs[t] :
      b \in memDeps[a] => s <= t

(* BP.cpp: "subtract the last two :inc br".                                *)
LastTwoAreIncAndBr ==
  stage = "done" =>
    /\ Len(sccs) >= 2
    /\ sccs[Len(sccs) - 1] = {inc}
    /\ sccs[Len(sccs)] = {Br}

=============================================================================
