--------------------------------- MODULE BP ---------------------------------
(***************************************************************************)
(* The partitioning of a loop, lib/splitpass/BP.cpp.  Instructions     *)
(* connected by registers form a group (prdg); groups on a cycle of memory *)
(* dependences form a partition (scc).  Which partitions become loops may  *)
(* then be left to a heuristic; include/machine.h has it switched off.     *)
(*                                                                         *)
(* The code's vectors of instructions are sets here: nothing depends on    *)
(* the order inside one.  The order of the groups, which is that of the    *)
(* std::map's Instruction pointers, is kept.  Groups are named by their    *)
(* index in prdg.                                                          *)
(***************************************************************************)
EXTENDS DG, Heuristic

CONSTANT HEURSTICS   \* the builds considered: with and without heuristic

ASSUME HeursticsAssumption == HEURSTICS \subseteq BOOLEAN

VARIABLES
  heuristic,   \* HEURSTICS of this build
  stage,       \* the function being run
  idx,         \* build_partition: the next instruction,
  marked,      \* and those a search has come to
  prdg,        \* groups of register-connected instructions
  edges,       \* per group, the groups that depend on it through memory
  visited,     \* build_scc: groups that are in a partition
  sccs,        \* the partitions, in the order found
  repeats      \* the most duplicates a search removed from one result

bpVars ==
  <<heuristic, stage, idx, marked, prdg, edges, visited, sccs, repeats>>

-----------------------------------------------------------------------------
(* The searches.                                                           *)

(* dfs: the nodes reachable from n through nodes not visited.  A neighbour *)
(* is marked before its own search; whether n is marked is up to the       *)
(* caller.  What a nested search returns a second time is erased from its  *)
(* result through iterators collected beforehand.  Neighbours are taken in *)
(* the order of the set they are in: instructions by address, groups by    *)
(* the address of their first instruction, which is the order in which     *)
(* build_partition finds them.                                             *)

First(order, T) == order[Min({k \in DOMAIN order : order[k] \in T})]

(* A search: neighbours to come to, the result, nodes marked.              *)
Searches(N) == [todo : SUBSET N, group : SUBSET N, seen : SUBSET N,
                repeats : Nat]

(* The search of node m by itself, and a search with its result.           *)
Nested(adj, s, m) ==
  [todo |-> adj[m], group |-> {m}, seen |-> s.seen \cup {m}, repeats |-> 0]

(* Mutant of Merged: the visited map is passed by value.                   *)
MergedByValue(s, m, sub) ==
  [todo |-> s.todo \ {m},
   group |-> s.group \cup sub.group,
   seen |-> s.seen \cup {m},
   repeats |-> Max({s.repeats, sub.repeats,
                    Cardinality(s.group \cap sub.group)})]

Merged(s, m, sub) ==
  [todo |-> s.todo \ {m},
   group |-> s.group \cup sub.group,
   seen |-> sub.seen,
   repeats |-> Max({s.repeats, sub.repeats,
                    Cardinality(s.group \cap sub.group)})]

Visit(adj, order) ==
  LET visit[s \in Searches(DOMAIN adj)] ==
        IF s.todo = {} THEN s
        ELSE LET m == First(order, s.todo)
             IN  IF m \in s.seen THEN visit[[s EXCEPT !.todo = @ \ {m}]]
                 ELSE visit[Merged(s, m, visit[Nested(adj, s, m)])]
  IN  visit

Dfs(n, adj, order, seen) ==
  Visit(adj, order)[[todo |-> adj[n], group |-> {n}, seen |-> seen,
                     repeats |-> 0]]

(* dfs_scc marks the node it starts from.                                  *)
DfsScc(g, seen) == Dfs(g, edges, [h \in DOMAIN prdg |-> h], seen \cup {g})

-----------------------------------------------------------------------------

BPInit ==
  /\ heuristic \in HEURSTICS
  /\ stage = "buildDG"
  /\ idx = 1
  /\ marked = {}
  /\ prdg = <<>>
  /\ edges = <<>>
  /\ visited = {}
  /\ sccs = <<>>
  /\ repeats = 0

(* dual_dg_map: the register edges, both ways.                             *)
DualDgMap ==
  [i \in Inst |-> regDeps[i] \cup {j \in Inst : i \in regDeps[j]}]

(* One round of build_partition's loop.                                    *)
BuildPartition ==
  LET i == allocated[idx]
      search == Dfs(i, DualDgMap, allocated, marked)
  IN  /\ stage = "build_partition"
      /\ idx <= BodySize
      /\ IF i \in marked
         THEN UNCHANGED <<prdg, marked, repeats>>
         ELSE /\ prdg' = Append(prdg, search.group)
              /\ marked' = search.seen
              /\ repeats' = Max({repeats, search.repeats})
      /\ idx' = idx + 1
      /\ UNCHANGED <<bodyVars, dgVars, heuristic, stage, edges, visited, sccs>>

FindPrdg(i) == CHOOSE g \in DOMAIN prdg : i \in prdg[g]

FindEdges ==
  /\ stage = "build_partition"
  /\ idx > BodySize
  /\ edges' = [g \in DOMAIN prdg |->
                 {FindPrdg(b) : b \in UNION {memDeps[a] : a \in prdg[g]}}]
  /\ stage' = "build_scc"
  /\ UNCHANGED <<bodyVars, dgVars, heuristic, idx, prdg, marked, visited, sccs,
                 repeats>>

(* Mutant of InCycle: every group reachable from the first is taken.       *)
InCycleForward(g, first, reach) == g \in reach

(* A group is on a cycle with the first one if it reaches all that the     *)
(* first one reaches.                                                      *)
InCycle(g, first, reach) ==
  g = first \/ reach \subseteq DfsScc(g, visited).group

(* The body of build_scc's loop, for the next group not in a partition.    *)
BuildScc ==
  /\ stage = "build_scc"
  /\ \E g \in DOMAIN prdg \ visited :
       LET search == DfsScc(g, visited)
           cycle == {h \in search.group : InCycle(h, g, search.group)}
           removed == {DfsScc(h, visited).repeats : h \in search.group}
       IN  /\ \A h \in DOMAIN prdg \ visited : g <= h
           /\ visited' = visited \cup cycle
           /\ sccs' = Append(sccs, UNION {prdg[h] : h \in cycle})
           /\ repeats' = Max({repeats} \cup removed)
  /\ UNCHANGED <<bodyVars, dgVars, heuristic, stage, idx, marked, prdg, edges>>

ReturnSccs ==
  /\ stage = "build_scc"
  /\ visited = DOMAIN prdg
  /\ stage' = IF heuristic THEN "check_partition" ELSE "done"
  /\ UNCHANGED <<bodyVars, dgVars, heuristic, idx, marked, prdg, edges, visited,
                 sccs, repeats>>

(* Without a plan to choose the allocation of the cuts ends the compiler.  *)
CheckPartition ==
  /\ stage = "check_partition"
  /\ IF Plans(sccs) = {}
     THEN stage' = "bad_alloc" /\ UNCHANGED sccs
     ELSE stage' = "done" /\ sccs' = check_partition(sccs)
  /\ UNCHANGED <<bodyVars, dgVars, heuristic, idx, marked, prdg, edges, visited,
                 repeats>>

RunDG ==
  /\ stage = "buildDG"
  /\ BuildDG
  /\ stage' = "build_partition"
  /\ UNCHANGED <<heuristic, idx, marked, prdg, edges, visited, sccs, repeats>>

(* OutputBP: "BP: No analysis found".                                      *)
SkipLoop ==
  /\ stage = "buildDG"
  /\ RejectLoop
  /\ stage' = "no_analysis"
  /\ UNCHANGED <<heuristic, idx, marked, prdg, edges, visited, sccs, repeats>>

BPNext ==
  \/ RunDG
  \/ SkipLoop
  \/ BuildPartition
  \/ FindEdges
  \/ BuildScc
  \/ ReturnSccs
  \/ CheckPartition

=============================================================================
