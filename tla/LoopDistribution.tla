-------------------------- MODULE LoopDistribution --------------------------
(***************************************************************************)
(* do_distribution of GCC's loop distribution: the graph of the            *)
(* partitions, its strongly connected components by two depth first        *)
(* searches, and the order of the components that is to become the code    *)
(* generation plan.  scc/scc.cpp took these functions over as they are in  *)
(* gcc-fission.patch.c; the graph they start from is the patch's, as       *)
(* module Rdg builds it (the port leaves its scalar edges out).            *)
(***************************************************************************)
EXTENDS Rdg, SequencesExt

VARIABLES
  edges,     \* the graph searched: the edge of each data dependence
  search,    \* the search: vertices still white, vertices finished
  sorted,    \* sorted_vertices: by increasing finishing time
  nbSccs,    \* components found
  sccs,      \* scc_numbers of each rdg vertex
  plan       \* dloops: numbers of components

graphVars == <<edges, search, sorted, nbSccs, sccs, plan>>
vars == <<rdgVars, graphVars>>

-----------------------------------------------------------------------------
(* Depth first search.  The clock only goes up, so that vertices finish in *)
(* the order of their finishing times.                                     *)

Unsearched(n) == [white |-> 1 .. n, finished |-> <<>>]

(* A search of graph E that is at a vertex: the edges left to follow.      *)
Searches(E, n) == [at : 1 .. n, todo : SUBSET DOMAIN E,
                   white : SUBSET (1 .. n), finished : Seq(1 .. n)]

Enter(E, q, s) == [at |-> q, todo |-> {d \in DOMAIN E : E[d].source = q},
                   white |-> s.white \ {q}, finished |-> s.finished]

Leave(s) == [white |-> s.white, finished |-> Append(s.finished, s.at)]

(* Edges are listed in the order of the pairs of references.               *)
FirstOf(D) ==
  CHOOSE d \in D : \A e \in D : d[1] < e[1] \/ (d[1] = e[1] /\ d[2] <= e[2])

(* Past its first edge, with the colours and times found there.            *)
Beyond(s, found) ==
  [at |-> s.at, todo |-> s.todo \ {FirstOf(s.todo)},
   white |-> found.white, finished |-> found.finished]

(* dfs_rdgp_1.                                                             *)
Visit(E, n) ==
  LET visit[s \in Searches(E, n)] ==
        IF s.todo = {} THEN Leave(s)
        ELSE LET u == E[FirstOf(s.todo)].sink
             IN  IF u \in s.white
                 THEN visit[Beyond(s, visit[Enter(E, u, s)])]
                 ELSE visit[Beyond(s, s)]
  IN  visit

Dfs(E, n, q, s) == Visit(E, n)[Enter(E, q, s)]

Transposed(E) == [d \in DOMAIN E |-> [source |-> E[d].sink, sink |-> E[d].source]]

-----------------------------------------------------------------------------

Init ==
  /\ RdgInit
  /\ edges = <<>>
  /\ search = Unsearched(0)
  /\ sorted = <<>>
  /\ nbSccs = 0
  /\ sccs = [v \in Vertex |-> <<>>]
  /\ plan = <<>>

(* new_prdg_edge takes the sink first, its callers pass the source first:  *)
(* an edge leads from the sink of the dependence to its source.            *)
GraphEdges(numbers) ==
  [d \in dependences |->
     [source |-> numbers[d[2]][1], sink |-> numbers[d[1]][1]]]

BuildPrdg ==
  /\ stage = "build_prdg"
  /\ edges' = GraphEdges(partitions)
  /\ search' = Unsearched(p)
  /\ stage' = "dfs"
  /\ UNCHANGED <<bodyVars, todo, p, partitions, sorted, nbSccs, sccs, plan>>

(* The next call of dfs_rdgp_1 in dfs_rdgp's loop: from the first vertex   *)
(* that is still white.                                                    *)
DfsRdgp ==
  /\ stage \in {"dfs", "sort"}
  /\ \E q \in search.white :
       /\ \A r \in search.white : q <= r
       /\ search' = Dfs(edges, IF stage = "dfs" THEN p ELSE nbSccs, q, search)
  /\ UNCHANGED <<rdgVars, edges, sorted, nbSccs, sccs, plan>>

(* Mutant of Transpose: the edges are not turned round.                    *)
SortOnly ==
  /\ stage = "dfs"
  /\ search.white = {}
  /\ sorted' = search.finished
  /\ search' = Unsearched(p)
  /\ stage' = "scc"
  /\ UNCHANGED <<bodyVars, todo, p, partitions, edges, nbSccs, sccs, plan>>

(* scc_rdgp between its two searches: the edges turned round, the vertices *)
(* by finishing time and white again.                                      *)
Transpose ==
  /\ stage = "dfs"
  /\ search.white = {}
  /\ edges' = Transposed(edges)
  /\ sorted' = search.finished
  /\ search' = Unsearched(p)
  /\ stage' = "scc"
  /\ UNCHANGED <<bodyVars, todo, p, partitions, nbSccs, sccs, plan>>

(* How often a component's number is pushed onto a vertex: once for each   *)
(* partition of the component that holds it.                               *)
Pushed(v, Q, scc) == [i \in 1 .. Cardinality(Q \cap PartitionsOf(v)) |-> scc]

(* One round of scc_rdgp_1: VEC_pop, and a component if it is white.       *)
FindScc ==
  LET q == Last(sorted)
      found == Dfs(edges, p, q, search)
      new == search.white \ found.white
  IN  /\ stage = "scc"
      /\ sorted /= <<>>
      /\ sorted' = Front(sorted)
      /\ IF q \in search.white
         THEN /\ nbSccs' = nbSccs + 1
              /\ search' = found
              /\ sccs' = [v \in Vertex |->
                            sccs[v] \o Pushed(v, new, nbSccs + 1)]
         ELSE UNCHANGED <<nbSccs, search, sccs>>
      /\ UNCHANGED <<bodyVars, stage, todo, p, partitions, edges, plan>>

(* build_scc_graph: the edges turned back, then those of the components.   *)
BuildSccGraph ==
  /\ stage = "scc"
  /\ sorted = <<>>
  /\ edges' = GraphEdges(sccs)
  /\ search' = Unsearched(nbSccs)
  /\ stage' = "sort"
  /\ UNCHANGED <<bodyVars, todo, p, partitions, sorted, nbSccs, sccs, plan>>

(* topological_sort: by decreasing finishing time.                         *)
TopologicalSort ==
  /\ stage = "sort"
  /\ search.white = {}
  /\ plan' = Reverse(search.finished)
  /\ stage' = "done"
  /\ UNCHANGED <<bodyVars, todo, p, partitions, edges, search, sorted, nbSccs,
                 sccs>>

Next ==
  \/ RdgNext /\ UNCHANGED graphVars
  \/ BuildPrdg
  \/ DfsRdgp
  \/ Transpose
  \/ FindScc
  \/ BuildSccGraph
  \/ TopologicalSort

Spec == Init /\ [][Next]_vars

-----------------------------------------------------------------------------
(* Properties.                                                             *)

(* References that depend on each other in both directions, directly or    *)
(* through others, where partitions hold together: those in the same of    *)
(* the sets no dependence and no partition leads out of.                   *)
Together ==
  LET Closed == {C \in SUBSET refs :
                   \A e \in refs \X refs :
                     /\ e[1] \in C
                     /\ e \in dependences \/ PartitionsOf(e[1]) = PartitionsOf(e[2])
                     => e[2] \in C}
  IN  {e \in refs \X refs : \A C \in Closed : e[1] \in C <=> e[2] \in C}

(* The two searches put two references into one component exactly when     *)
(* dependences keep them in one loop, and no reference into two ("If       *)
(* 'has_dd_p' is true, the vertex can only be in one SCC").                *)
SccsAreComponents ==
  stage \in {"sort", "done"} =>
    /\ \A v \in refs : Len(sccs[v]) = 1
    /\ \A v, w \in refs : sccs[v] = sccs[w] <=> <<v, w>> \in Together

(* The place in the plan of the loop that has reference v.                 *)
Place(v) == CHOOSE i \in DOMAIN plan : plan[i] = sccs[v][1]

(* The head of the file: the graph of the components "is then              *)
(* topologically sorted to obtain a code generation plan for the           *)
(* distributed loops", and the loops of the plan are numbered from 0 on    *)
(* (<dloop n="%d">).  A loop with the source of a dependence then comes no *)
(* later than the one with its sink.                                       *)
PlanKeepsDependences ==
  stage = "done" => \A d \in dependences : Place(d[1]) <= Place(d[2])

(* new_prdg_edge takes (edge, sink, source) and its callers pass the       *)
(* source first: it is the plan read from its end that runs the source of  *)
(* every dependence no later than its sink.                                *)
ReversedPlanKeepsDependences ==
  stage = "done" => \A d \in dependences : Place(d[2]) <= Place(d[1])

=============================================================================
