-------------------------------- MODULE Rdg ---------------------------------
(***************************************************************************)
(* The reduced dependence graph of a loop and its partitions, from GCC's   *)
(* loop distribution (gcc-fission.patch.c, ported in scc/).  A vertex is a *)
(* statement.  Scalar edges lead from the statement that defines an SSA    *)
(* name to its uses; data edges are dependences between the references of  *)
(* statements to memory.                                                   *)
(*                                                                         *)
(* The loop is one that loop_is_good_p accepts: one block of assignments   *)
(* that ends with the exit condition, and one phi for the index.  The phi  *)
(* is no statement, so scalar edges only lead forward.                     *)
(***************************************************************************)
EXTENDS Integers, Sequences, FiniteSets

CONSTANTS
  NumStmts,     \* statements of the loop, the exit condition included
  MaxDeps       \* bound of the model: data dependences of a loop

ASSUME RdgAssumption == NumStmts \in Nat /\ NumStmts >= 2 /\ MaxDeps \in Nat

VARIABLES
  refs,         \* the statements with a reference to memory
  operands,     \* <<u, v>>: statement v uses the name that u defines
  dependences,  \* <<s, t>>: t depends on s through memory
  stage,        \* the function do_distribution is in
  todo,         \* dd_vertices mark_partitions has not come to
  p,            \* number of partitions
  partitions    \* partition_numbers of each vertex

bodyVars == <<refs, operands, dependences>>
rdgVars == <<bodyVars, stage, todo, p, partitions>>

Stmt == 1 .. NumStmts

(* Every statement but the exit condition becomes a vertex.                *)
ExitCond == NumStmts
Vertex == Stmt \ {ExitCond}

-----------------------------------------------------------------------------

(* A store defines no name; of two dependent references one is a store.    *)
Defines(v) == \E w \in Stmt : <<v, w>> \in operands

(* get_loop_index: the exit condition compares a name with something       *)
(* invariant, the phi's or that of a statement.  A name that the body uses *)
(* is a name without the exit condition, too, and left out.                *)
ExitOperands(U) ==
  {{}} \cup {{<<v, ExitCond>>} : v \in {w \in Vertex : \A e \in U : e[1] /= w}}

BodyInit ==
  /\ refs \in SUBSET Vertex
  /\ \E U \in SUBSET {e \in Vertex \X Vertex : e[1] < e[2]} :
       \E X \in ExitOperands(U) : operands = U \cup X
  /\ dependences \in
       {D \in SUBSET {e \in refs \X refs : ~Defines(e[1]) \/ ~Defines(e[2])} :
          Cardinality(D) <= MaxDeps}

RdgInit ==
  /\ BodyInit
  /\ stage = "check"
  /\ todo = {}
  /\ p = 0
  /\ partitions = [v \in Vertex |-> <<>>]

(* loop_is_good_p or known_dependences_p says no.                          *)
Rejects ==
  /\ stage = "check"
  /\ stage' = "rejected"
  /\ UNCHANGED <<bodyVars, todo, p, partitions>>

(* build_rdg: the uses outside the graph (the exit condition) get no edge. *)
ScalarEdges == {e \in operands : e[2] \in Vertex}

BuildRdg ==
  /\ stage = "check"
  /\ stage' = "mark"
  /\ todo' = refs
  /\ UNCHANGED <<bodyVars, p, partitions>>

-----------------------------------------------------------------------------
(* mark_partitions.                                                        *)

(* Mutant of Bound: what a vertex is computed from is not looked at.       *)
BoundAlone == refs

(* can_recompute_vertex_p says no: the vertex refers to memory or is       *)
(* computed from one that does.                                            *)
Bound ==
  LET closed == {S \in SUBSET Vertex :
                   /\ refs \subseteq S
                   /\ \A e \in ScalarEdges : e[1] \in S => e[2] \in S}
  IN  {v \in Vertex : \A S \in closed : v \in S}

(* Mutant of Propagates: a vertex leaves its operands behind.              *)
PropagatesForward(S, bound) ==
  \A e \in ScalarEdges : e[1] \in S /\ e[1] \in bound => e[2] \in S

(* What one_prdg's recursion does not leave: a vertex takes its operands   *)
(* along and, if it is bound to its partition, its uses.                   *)
Propagates(S, bound) ==
  \A e \in ScalarEdges :
    /\ e[2] \in S => e[1] \in S
    /\ e[1] \in S /\ e[1] \in bound => e[2] \in S

(* The vertices one_prdg reaches from v.                                   *)
OnePrdg(v) ==
  LET bound == Bound
      closed == {S \in SUBSET Vertex : v \in S /\ Propagates(S, bound)}
  IN  {u \in Vertex : \A S \in closed : u \in S}

(* Without references everything is one partition.                         *)
MarkSingle ==
  /\ stage = "mark"
  /\ refs = {}
  /\ p' = 1
  /\ partitions' = [v \in Vertex |-> <<1>>]
  /\ stage' = "build_prdg"
  /\ UNCHANGED <<bodyVars, todo>>

(* The next reference: a partition of its own, unless it is in one.        *)
MarkReference(v) ==
  /\ stage = "mark"
  /\ v \in todo
  /\ \A w \in todo : v <= w
  /\ todo' = todo \ {v}
  /\ IF partitions[v] = <<>>
     THEN LET reached == OnePrdg(v)
          IN  /\ p' = p + 1
              /\ partitions' = [u \in Vertex |->
                   IF u \in reached THEN Append(partitions[u], p + 1)
                   ELSE partitions[u]]
     ELSE UNCHANGED <<p, partitions>>
  /\ UNCHANGED <<bodyVars, stage>>

(* correct_partitions_p: !VEC_length (...) == 1 holds of lengths of 0 only *)
(* and the next test is for them, so that the first adds nothing.          *)
CorrectPartitions(q, numbers) ==
  q /= 0 /\ \A v \in Vertex : numbers[v] /= <<>>

(* Mutant of MarkRest: partitions are counted from 0.                      *)
MarkRestFromZero ==
  /\ stage = "mark"
  /\ refs /= {}
  /\ todo = {}
  /\ partitions' = [v \in Vertex |->
       IF partitions[v] = <<>> THEN [k \in 1 .. p |-> k - 1] ELSE partitions[v]]
  /\ stage' = "build_prdg"
  /\ UNCHANGED <<bodyVars, todo, p>>

(* What is in no partition goes into all of them; then the assertion.      *)
MarkRest ==
  /\ stage = "mark"
  /\ refs /= {}
  /\ todo = {}
  /\ partitions' = [v \in Vertex |->
       IF partitions[v] = <<>> THEN [k \in 1 .. p |-> k] ELSE partitions[v]]
  /\ stage' = IF CorrectPartitions(p, partitions') THEN "build_prdg" ELSE "aborted"
  /\ UNCHANGED <<bodyVars, todo, p>>

RdgNext ==
  \/ Rejects
  \/ BuildRdg
  \/ MarkSingle
  \/ \E v \in Vertex : MarkReference(v)
  \/ MarkRest

-----------------------------------------------------------------------------
(* Properties.                                                             *)

(* Every partition number has its partition, and mark_partitions leaves    *)
(* none without: its assertion holds.                                      *)
RdgTypeOK ==
  /\ stage /= "aborted"
  /\ refs \subseteq Vertex
  /\ operands \subseteq Stmt \X Stmt
  /\ dependences \subseteq refs \X refs
  /\ todo \subseteq refs
  /\ p \in Nat
  /\ partitions \in [Vertex -> Seq(1 .. p)]

Marked == stage \notin {"check", "rejected", "mark"}

(* struct rdg_vertex: "If 'has_dd_p' is true, the vertex can only be in    *)
(* one partition."  one_prdg runs backward and forward through scalars and *)
(* must not come upon a reference that an earlier partition holds.         *)
ReferencesInOnePartition ==
  Marked => \A v \in refs : Len(partitions[v]) = 1

PartitionsOf(v) == {partitions[v][k] : k \in DOMAIN partitions[v]}

(* Vertices that serve no reference: nothing computed from them is bound.  *)
LeftOver ==
  UNION {S \in SUBSET (Vertex \ Bound) :
           \A e \in ScalarEdges : e[1] \in S => e[2] \in S}

(* A partition holds the operands of the vertices that serve a reference,  *)
(* so that it can become a loop of its own.  It is not so for the others:  *)
(* they go into every partition at the end, an operand that one shares     *)
(* with a reference only into the reference's.                             *)
PartitionsHoldOperands ==
  stage = "build_prdg" =>
    \A e \in ScalarEdges :
      \/ PartitionsOf(e[2]) \subseteq PartitionsOf(e[1])
      \/ e[2] \in LeftOver

=============================================================================
