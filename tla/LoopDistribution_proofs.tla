----------------------- MODULE LoopDistribution_proofs -----------------------
(***************************************************************************)
(* Proofs about loop distribution, for loops of every size and with any    *)
(* dependences: a reference is in one partition, a partition can compute   *)
(* what it needs, the searches find the components, and the plan keeps     *)
(* dependences when it is read from its end.                               *)
(***************************************************************************)
EXTENDS LoopDistribution, SequenceTheorems, FiniteSetTheorems, LeastNumber,
        TLAPS

(* In a partition.                                                         *)
In(v) == partitions[v] /= <<>>

BodyOK ==
  /\ refs \subseteq Vertex
  /\ operands \subseteq Vertex \X Stmt
  /\ dependences \subseteq refs \X refs

(* Vertices bound to a partition are in one at most.                       *)
BoundOnce == \A v \in Bound : Len(partitions[v]) <= 1

(* What is bound is marked together with the uses of its name.  This keeps *)
(* one_prdg away from earlier partitions.                                  *)
BoundTogether ==
  \A e \in ScalarEdges : e[1] \in Bound => (In(e[1]) <=> In(e[2]))

(* Each call of one_prdg takes the operands of what it marks along.        *)
OperandsAlong ==
  stage \in {"check", "mark"} =>
    \A e \in ScalarEdges : PartitionsOf(e[2]) \subseteq PartitionsOf(e[1])

(* References are marked once mark_partitions has come to them.            *)
ReferencesMarked ==
  /\ stage = "check" => \A v \in Vertex : partitions[v] = <<>>
  /\ stage = "mark" => \A v \in refs \ todo : In(v)
  /\ Marked => \A v \in refs : In(v)

IInv ==
  /\ BodyOK
  /\ RdgTypeOK
  /\ BoundOnce
  /\ BoundTogether
  /\ OperandsAlong
  /\ ReferencesMarked
  /\ PartitionsHoldOperands

-----------------------------------------------------------------------------
(* Lemmas about the two closures.                                          *)

(* Scalar edges join vertices.                                             *)
LEMMA EdgeEnds ==
  ASSUME BodyOK, NEW e \in ScalarEdges
  PROVE  e[1] \in Vertex /\ e[2] \in Vertex
BY DEF BodyOK, ScalarEdges

(* A reference is bound, and so is what is computed from a bound vertex.   *)
LEMMA BoundContainsRefs ==
  ASSUME BodyOK
  PROVE  refs \subseteq Bound /\ Bound \subseteq Vertex
BY DEF BodyOK, Bound

LEMMA BoundForward ==
  ASSUME BodyOK, NEW e \in ScalarEdges, e[1] \in Bound
  PROVE  e[2] \in Bound
BY EdgeEnds DEF Bound

(* Bound is the least such set.                                            *)
LEMMA BoundLeast ==
  ASSUME NEW S \in SUBSET Vertex, refs \subseteq S,
         \A e \in ScalarEdges : e[1] \in S => e[2] \in S
  PROVE  Bound \subseteq S
BY DEF Bound

(* one_prdg marks v and what its recursion leads to, and nothing else.     *)
LEMMA OnePrdgContains ==
  ASSUME NEW v \in Vertex
  PROVE  v \in OnePrdg(v) /\ OnePrdg(v) \subseteq Vertex
BY DEF OnePrdg

LEMMA OnePrdgPropagates ==
  ASSUME BodyOK, NEW v \in Vertex
  PROVE  Propagates(OnePrdg(v), Bound)
<1>. DEFINE closed == {S \in SUBSET Vertex : v \in S /\ Propagates(S, Bound)}
<1>1. OnePrdg(v) = {u \in Vertex : \A S \in closed : u \in S}
  BY DEF OnePrdg
<1>2. \A S \in closed, e \in ScalarEdges :
        /\ e[2] \in S => e[1] \in S
        /\ e[1] \in S /\ e[1] \in Bound => e[2] \in S
  BY DEF Propagates
<1>. HIDE DEF closed
<1>3. \A e \in ScalarEdges : e[2] \in OnePrdg(v) => e[1] \in OnePrdg(v)
  BY <1>1, <1>2, EdgeEnds
<1>4. \A e \in ScalarEdges :
        e[1] \in OnePrdg(v) /\ e[1] \in Bound => e[2] \in OnePrdg(v)
  BY <1>1, <1>2, EdgeEnds
<1>. QED
  BY <1>3, <1>4 DEF Propagates

LEMMA OnePrdgLeast ==
  ASSUME NEW v \in Vertex, NEW S \in SUBSET Vertex, v \in S,
         Propagates(S, Bound)
  PROVE  OnePrdg(v) \subseteq S
BY DEF OnePrdg

(* A reference that is in no partition yet leads to no bound vertex that   *)
(* is in one.                                                              *)
LEMMA OnePrdgKeepsClear ==
  ASSUME BodyOK, BoundTogether, NEW v \in refs, ~In(v)
  PROVE  \A u \in OnePrdg(v) : u \in Bound => ~In(u)
<1>. DEFINE S == {u \in Vertex : u \in Bound => ~In(u)}
<1>1. v \in S /\ v \in Vertex
  BY DEF BodyOK
<1>2. \A e \in ScalarEdges : e[2] \in S => e[1] \in S
  BY EdgeEnds, BoundForward DEF BoundTogether
<1>3. \A e \in ScalarEdges : e[1] \in S /\ e[1] \in Bound => e[2] \in S
  BY EdgeEnds DEF BoundTogether
<1>4. Propagates(S, Bound)
  BY <1>2, <1>3 DEF Propagates
<1>. HIDE DEF S
<1>5. S \in SUBSET Vertex
  BY DEF S
<1>6. OnePrdg(v) \subseteq S
  BY <1>1, <1>4, <1>5, OnePrdgLeast
<1>. QED
  BY <1>6 DEF S

(* Appending a number adds it to the numbers of a sequence.                *)
LEMMA AppendAdds ==
  ASSUME NEW T, NEW s \in Seq(T), NEW x \in T
  PROVE  /\ Append(s, x) \in Seq(T)
         /\ Len(Append(s, x)) = Len(s) + 1
         /\ Append(s, x) /= <<>>
         /\ {Append(s, x)[k] : k \in DOMAIN Append(s, x)}
              = {s[k] : k \in DOMAIN s} \cup {x}
<1>1. /\ Append(s, x) \in Seq(T)
      /\ Len(Append(s, x)) = Len(s) + 1
      /\ DOMAIN Append(s, x) = 1 .. Len(s) + 1
      /\ DOMAIN s = 1 .. Len(s)
      /\ Len(s) \in Nat
  OBVIOUS
<1>2. /\ Append(s, x)[Len(s) + 1] = x
      /\ \A k \in 1 .. Len(s) : Append(s, x)[k] = s[k]
  OBVIOUS
<1>. QED
  BY <1>1, <1>2

-----------------------------------------------------------------------------
(* The inductive invariant.                                                *)

LEMMA InitIInv ==
  Init => IInv
<1>. SUFFICES ASSUME Init
     PROVE  IInv
  OBVIOUS
<1>. USE DEF Init, RdgInit
<1>1. BodyOK
  <2>1. refs \subseteq Vertex /\ dependences \subseteq refs \X refs
    BY DEF BodyInit
  <2>2. NumStmts - 1 \in Vertex /\ ExitCond \in Stmt /\ Vertex \subseteq Stmt
    BY RdgAssumption DEF Vertex, Stmt, ExitCond
  <2>3. operands \subseteq Vertex \X Stmt
    <3>1. PICK U \in SUBSET {e \in Vertex \X Vertex : e[1] < e[2]} :
            \E X \in ExitOperands(U) : operands = U \cup X
      BY DEF BodyInit
    <3> QED
      BY <2>2, <3>1 DEF ExitOperands
  <2>. QED
    BY <2>1, <2>3 DEF BodyOK
<1>2. RdgTypeOK
  <2>1. partitions \in [Vertex -> Seq(1 .. p)]
    OBVIOUS
  <2>2. operands \subseteq Stmt \X Stmt
    BY <1>1 DEF BodyOK, Vertex
  <2>. QED
    BY <1>1, <2>1, <2>2 DEF BodyOK, RdgTypeOK
<1>3. BoundOnce
  BY <1>1, BoundContainsRefs DEF BoundOnce
<1>4. BoundTogether
  BY <1>1, EdgeEnds DEF BoundTogether, In
<1>5. OperandsAlong
  BY <1>1, EdgeEnds DEF OperandsAlong, PartitionsOf
<1>6. ReferencesMarked
  BY DEF ReferencesMarked, Marked
<1>. QED
  BY <1>1, <1>2, <1>3, <1>4, <1>5, <1>6 DEF IInv, PartitionsHoldOperands

(* What depends on the loop's body alone.                                  *)
LEMMA SameBody ==
  ASSUME BodyOK, UNCHANGED bodyVars
  PROVE  /\ BodyOK'
         /\ ScalarEdges' = ScalarEdges
         /\ Bound' = Bound
         /\ LeftOver' = LeftOver
<1>1. ScalarEdges' = ScalarEdges
  BY DEF bodyVars, ScalarEdges
<1>2. Bound' = Bound
  BY <1>1 DEF bodyVars, Bound
<1>3. LeftOver' = LeftOver
  BY <1>1, <1>2 DEF LeftOver
<1>4. BodyOK'
  BY DEF bodyVars, BodyOK
<1>. QED
  BY <1>1, <1>2, <1>3, <1>4

(* Steps that leave the partitions alone.                                  *)
LEMMA SamePartitions ==
  ASSUME IInv, UNCHANGED <<bodyVars, todo, p, partitions>>,
         \/ stage = "check" /\ stage' = "rejected"
         \/ stage' = stage
         \/ Marked /\ stage' \in {"dfs", "scc", "sort", "done"}
  PROVE  IInv'
<1>1. BodyOK /\ BodyOK' /\ ScalarEdges' = ScalarEdges /\ Bound' = Bound
        /\ LeftOver' = LeftOver
  BY SameBody DEF IInv
<1>2. \A v : PartitionsOf(v)' = PartitionsOf(v) /\ In(v)' = In(v)
  BY DEF PartitionsOf, In
<1>3. RdgTypeOK'
  BY DEF IInv, RdgTypeOK, bodyVars
<1>4. BoundOnce'
  BY <1>1 DEF IInv, BoundOnce
<1>5. BoundTogether'
  BY <1>1, <1>2 DEF IInv, BoundTogether
<1>6. OperandsAlong'
  BY <1>1, <1>2 DEF IInv, OperandsAlong, Marked
<1>7. ReferencesMarked'
  BY <1>1, <1>2 DEF IInv, ReferencesMarked, Marked, bodyVars
<1>8. PartitionsHoldOperands'
  BY <1>1, <1>2 DEF IInv, PartitionsHoldOperands, Marked
<1>. QED
  BY <1>1, <1>3, <1>4, <1>5, <1>6, <1>7, <1>8 DEF IInv

LEMMA BuildRdgIInv ==
  ASSUME IInv, BuildRdg
  PROVE  IInv'
<1>. USE DEF BuildRdg
<1>1. BodyOK /\ BodyOK' /\ ScalarEdges' = ScalarEdges /\ Bound' = Bound
  BY SameBody DEF IInv
<1>2. \A v : PartitionsOf(v)' = PartitionsOf(v) /\ In(v)' = In(v)
  BY DEF PartitionsOf, In
<1>3. RdgTypeOK'
  BY DEF IInv, RdgTypeOK, bodyVars
<1>4. BoundOnce'
  BY <1>1 DEF IInv, BoundOnce
<1>5. BoundTogether'
  BY <1>1, <1>2 DEF IInv, BoundTogether
<1>6. OperandsAlong'
  BY <1>1, <1>2 DEF IInv, OperandsAlong
<1>7. ReferencesMarked'
  BY DEF ReferencesMarked, Marked, bodyVars
<1>8. PartitionsHoldOperands'
  BY DEF PartitionsHoldOperands
<1>. QED
  BY <1>1, <1>3, <1>4, <1>5, <1>6, <1>7, <1>8 DEF IInv

LEMMA MarkSingleIInv ==
  ASSUME IInv, MarkSingle
  PROVE  IInv'
<1>. USE DEF MarkSingle
<1>1. BodyOK /\ BodyOK' /\ ScalarEdges' = ScalarEdges /\ Bound' = Bound
  BY SameBody DEF IInv
<1>2. \A v \in Vertex : partitions'[v] = <<1>> /\ In(v)'
  BY DEF In
<1>3. RdgTypeOK'
  <2>1. <<1>> \in Seq(1 .. 1)
    OBVIOUS
  <2>2. partitions' \in [Vertex -> Seq(1 .. p')]
    BY <2>1
  <2>. QED
    BY <2>2 DEF IInv, RdgTypeOK, bodyVars
<1>4. BoundOnce'
  BY <1>1, <1>2, BoundContainsRefs DEF BoundOnce
<1>5. BoundTogether'
  BY <1>1, <1>2, EdgeEnds DEF BoundTogether
<1>6. OperandsAlong'
  BY DEF OperandsAlong
<1>7. ReferencesMarked'
  BY <1>1, <1>2 DEF ReferencesMarked, Marked, BodyOK
<1>8. PartitionsHoldOperands'
  <2>1. \A v \in Vertex : PartitionsOf(v)' = {<<1>>[k] : k \in DOMAIN <<1>>}
    BY <1>2 DEF PartitionsOf
  <2>. QED
    BY <1>1, <2>1, EdgeEnds DEF PartitionsHoldOperands
<1>. QED
  BY <1>1, <1>3, <1>4, <1>5, <1>6, <1>7, <1>8 DEF IInv

(* A reference in no partition gets one, with all that it leads to.        *)
LEMMA NewPartitionIInv ==
  ASSUME IInv, NEW v \in Vertex, MarkReference(v), partitions[v] = <<>>
  PROVE  IInv'
<1>. DEFINE reached == OnePrdg(v)
<1>1. /\ stage = "mark" /\ stage' = "mark"
      /\ v \in todo /\ todo' = todo \ {v}
      /\ p' = p + 1
      /\ partitions' = [u \in Vertex |->
            IF u \in reached THEN Append(partitions[u], p + 1)
            ELSE partitions[u]]
      /\ UNCHANGED bodyVars
  BY DEF MarkReference
<1>2. BodyOK /\ BodyOK' /\ ScalarEdges' = ScalarEdges /\ Bound' = Bound
  BY <1>1, SameBody DEF IInv
<1>3. v \in refs /\ ~In(v)
  BY <1>1 DEF IInv, RdgTypeOK, In
<1>4. v \in reached /\ reached \subseteq Vertex
  BY OnePrdgContains
<1>5. /\ \A e \in ScalarEdges : e[2] \in reached => e[1] \in reached
      /\ \A e \in ScalarEdges :
           e[1] \in reached /\ e[1] \in Bound => e[2] \in reached
  BY <1>2, OnePrdgPropagates DEF Propagates
<1>6. \A u \in reached : u \in Bound => partitions[u] = <<>>
  BY <1>2, <1>3, OnePrdgKeepsClear DEF IInv, In
<1>. HIDE DEF reached
<1>7. p \in Nat /\ \A u \in Vertex : partitions[u] \in Seq(Nat)
                                   /\ partitions[u] \in Seq(1 .. p + 1)
  <2>1. p \in Nat /\ \A u \in Vertex : partitions[u] \in Seq(1 .. p)
    BY DEF IInv, RdgTypeOK
  <2>. QED
    BY <2>1
<1>8. \A u \in reached :
        /\ partitions'[u] = Append(partitions[u], p + 1)
        /\ partitions'[u] \in Seq(1 .. p + 1)
        /\ Len(partitions'[u]) = Len(partitions[u]) + 1
        /\ In(u)'
        /\ PartitionsOf(u)' = PartitionsOf(u) \cup {p + 1}
  <2>. SUFFICES ASSUME NEW u \in reached
       PROVE  /\ partitions'[u] = Append(partitions[u], p + 1)
              /\ partitions'[u] \in Seq(1 .. p + 1)
              /\ Len(partitions'[u]) = Len(partitions[u]) + 1
              /\ In(u)'
              /\ PartitionsOf(u)' = PartitionsOf(u) \cup {p + 1}
    OBVIOUS
  <2>1. partitions'[u] = Append(partitions[u], p + 1) /\ u \in Vertex
    BY <1>1, <1>4
  <2>2. p + 1 \in 1 .. p + 1 /\ partitions[u] \in Seq(1 .. p + 1)
    BY <1>7, <2>1
  <2>. DEFINE s == partitions[u]
              n == p + 1
              T == 1 .. p + 1
  <2>3. s \in Seq(T) /\ n \in T
    BY <2>2
  <2>. HIDE DEF s, n, T
  <2>4. /\ Append(s, n) \in Seq(T)
        /\ Len(Append(s, n)) = Len(s) + 1
        /\ Append(s, n) /= <<>>
        /\ {Append(s, n)[k] : k \in DOMAIN Append(s, n)}
             = {s[k] : k \in DOMAIN s} \cup {n}
    BY <2>3, AppendAdds
  <2>5. partitions'[u] = Append(s, n)
    BY <2>1 DEF s, n
  <2>. QED
    BY <2>4, <2>5 DEF s, n, T, In, PartitionsOf
<1>9. \A u \in Vertex \ reached :
        /\ partitions'[u] = partitions[u]
        /\ In(u)' <=> In(u)
        /\ PartitionsOf(u)' = PartitionsOf(u)
  BY <1>1 DEF In, PartitionsOf
<1>10. RdgTypeOK'
  <2>1. \A u \in Vertex : partitions'[u] \in Seq(1 .. p')
    BY <1>1, <1>7, <1>8, <1>9
  <2>2. partitions' \in [Vertex -> Seq(1 .. p')]
    BY <1>1, <2>1
  <2>3. p' \in Nat
    BY <1>1, <1>7
  <2>. QED
    BY <1>1, <2>2, <2>3 DEF IInv, RdgTypeOK, bodyVars
<1>11. BoundOnce'
  <2>1. Len(<<>>) = 0
    OBVIOUS
  <2>2. \A u \in Bound : u \in reached => Len(partitions'[u]) = 0 + 1
    BY <1>6, <1>8, <2>1
  <2>3. \A u \in Bound : Len(partitions[u]) <= 1
    BY DEF IInv, BoundOnce
  <2>4. \A u \in Bound : Len(partitions'[u]) <= 1
    <3>. SUFFICES ASSUME NEW u \in Bound
         PROVE  Len(partitions'[u]) <= 1
      OBVIOUS
    <3>1. CASE u \in reached
      <4>1. Len(partitions'[u]) = 0 + 1
        BY <2>2, <3>1
      <4>. QED
        BY <4>1
    <3>2. CASE u \notin reached
      <4>1. partitions'[u] = partitions[u]
        BY <1>2, <1>9, <3>2, BoundContainsRefs
      <4>. QED
        BY <2>3, <4>1
    <3>. QED
      BY <3>1, <3>2
  <2>. QED
    BY <1>2, <2>4 DEF BoundOnce
<1>12. BoundTogether'
  <2>. SUFFICES ASSUME NEW e \in ScalarEdges, e[1] \in Bound
       PROVE  In(e[1])' <=> In(e[2])'
    BY <1>2 DEF BoundTogether
  <2>1. e[1] \in Vertex /\ e[2] \in Vertex
    BY <1>2, EdgeEnds
  <2>2. e[1] \in reached <=> e[2] \in reached
    BY <1>5
  <2>. QED
    BY <1>8, <1>9, <2>1, <2>2 DEF IInv, BoundTogether
<1>13. OperandsAlong'
  <2>. SUFFICES ASSUME NEW e \in ScalarEdges
       PROVE  PartitionsOf(e[2])' \subseteq PartitionsOf(e[1])'
    BY <1>2 DEF OperandsAlong
  <2>1. e[1] \in Vertex /\ e[2] \in Vertex
    BY <1>2, EdgeEnds
  <2>2. PartitionsOf(e[2]) \subseteq PartitionsOf(e[1])
    BY <1>1 DEF IInv, OperandsAlong
  <2>3. CASE e[2] \in reached
    BY <1>5, <1>8, <2>2, <2>3
  <2>4. CASE e[2] \notin reached
    BY <1>8, <1>9, <2>1, <2>2, <2>4
  <2>. QED
    BY <2>3, <2>4
<1>14. ReferencesMarked'
  <2>1. \A u \in refs \ todo' : In(u)'
    <3>. SUFFICES ASSUME NEW u \in refs \ todo'
         PROVE  In(u)'
      OBVIOUS
    <3>1. u = v \/ (u \in Vertex /\ In(u))
      BY <1>1, <1>2 DEF IInv, ReferencesMarked, BodyOK
    <3>. QED
      BY <1>4, <1>8, <1>9, <3>1
  <2>. QED
    BY <1>1, <2>1 DEF ReferencesMarked, Marked, bodyVars
<1>15. PartitionsHoldOperands'
  BY <1>1 DEF PartitionsHoldOperands
<1>. QED
  BY <1>2, <1>10, <1>11, <1>12, <1>13, <1>14, <1>15 DEF IInv

LEMMA MarkReferenceIInv ==
  ASSUME IInv, NEW v \in Vertex, MarkReference(v)
  PROVE  IInv'
<1>1. CASE partitions[v] = <<>>
  BY <1>1, NewPartitionIInv
<1>2. CASE partitions[v] /= <<>>
  <2>1. /\ stage = "mark" /\ stage' = "mark" /\ todo' = todo \ {v}
        /\ UNCHANGED <<bodyVars, p, partitions>>
    BY <1>2 DEF MarkReference
  <2>2. BodyOK' /\ ScalarEdges' = ScalarEdges /\ Bound' = Bound
    BY <2>1, SameBody DEF IInv
  <2>3. \A u : PartitionsOf(u)' = PartitionsOf(u) /\ In(u)' = In(u)
    BY <2>1 DEF PartitionsOf, In
  <2>4. RdgTypeOK'
    BY <2>1 DEF IInv, RdgTypeOK, bodyVars
  <2>5. BoundOnce'
    BY <2>1, <2>2 DEF IInv, BoundOnce
  <2>6. BoundTogether'
    BY <2>2, <2>3 DEF IInv, BoundTogether
  <2>7. OperandsAlong'
    BY <2>1, <2>2, <2>3 DEF IInv, OperandsAlong
  <2>8. ReferencesMarked'
    BY <1>2, <2>1, <2>3 DEF IInv, ReferencesMarked, Marked, bodyVars, In
  <2>9. PartitionsHoldOperands'
    BY <2>1 DEF PartitionsHoldOperands
  <2>. QED
    BY <2>2, <2>4, <2>5, <2>6, <2>7, <2>8, <2>9 DEF IInv
<1>. QED
  BY <1>1, <1>2

(* What is still in no partition serves no reference; it goes into all.    *)
LEMMA MarkRestIInv ==
  ASSUME IInv, MarkRest
  PROVE  IInv' /\ stage' = "build_prdg"
<1>0. /\ stage = "mark" /\ todo = {} /\ refs /= {}
      /\ stage' = (IF CorrectPartitions(p, partitions') THEN "build_prdg"
                   ELSE "aborted")
      /\ partitions' = [v \in Vertex |->
            IF partitions[v] = <<>> THEN [k \in 1 .. p |-> k]
            ELSE partitions[v]]
      /\ UNCHANGED <<bodyVars, todo, p>>
  BY DEF MarkRest
<1>2. /\ BodyOK /\ BodyOK' /\ ScalarEdges' = ScalarEdges /\ Bound' = Bound
      /\ LeftOver' = LeftOver
  BY <1>0, SameBody DEF IInv
<1>3. \A v \in refs : In(v)
  BY <1>0 DEF IInv, ReferencesMarked
<1>1. /\ stage = "mark" /\ stage' = "build_prdg" /\ todo = {}
      /\ partitions' = [v \in Vertex |->
            IF partitions[v] = <<>> THEN [k \in 1 .. p |-> k]
            ELSE partitions[v]]
      /\ UNCHANGED <<bodyVars, todo, p>>
  <2>1. PICK r \in refs : r \in Vertex /\ In(r)
    BY <1>0, <1>2, <1>3 DEF BodyOK
  <2>2. partitions[r] \in Seq(1 .. p) /\ partitions[r] /= <<>> /\ p \in Nat
    BY <2>1 DEF IInv, RdgTypeOK, In
  <2>3. p /= 0
    <3>1. partitions[r][1] \in 1 .. p
      BY <2>2
    <3> QED
      BY <3>1
  <2>4. 1 \in DOMAIN [k \in 1 .. p |-> k]
    BY <2>2, <2>3
  <2>5. [k \in 1 .. p |-> k] /= <<>>
    BY <2>4
  <2>6. \A v \in Vertex : partitions'[v] /= <<>>
    BY <1>0, <2>5
  <2> QED
    BY <1>0, <2>3, <2>6 DEF CorrectPartitions
<1>4. \A v \in Bound : v \in Vertex /\ In(v)
  <2>. DEFINE S == {v \in Vertex : v \in Bound /\ In(v)}
  <2>1. refs \subseteq S
    BY <1>2, <1>3, BoundContainsRefs
  <2>2. \A e \in ScalarEdges : e[1] \in S => e[2] \in S
    BY <1>2, EdgeEnds, BoundForward DEF IInv, BoundTogether
  <2>. HIDE DEF S
  <2>3. S \in SUBSET Vertex
    BY DEF S
  <2>4. Bound \subseteq S
    BY <2>1, <2>2, <2>3, BoundLeast
  <2>. QED
    BY <2>4 DEF S
<1>5. /\ \A v \in Vertex : In(v) => partitions'[v] = partitions[v]
      /\ \A v \in Vertex : ~In(v) => partitions'[v] = [k \in 1 .. p |-> k]
  BY <1>1 DEF In
<1>6. RdgTypeOK'
  <2>1. p \in Nat /\ \A v \in Vertex : partitions[v] \in Seq(1 .. p)
    BY DEF IInv, RdgTypeOK
  <2>2. [k \in 1 .. p |-> k] \in Seq(1 .. p)
    BY <2>1
  <2>3. \A v \in Vertex : partitions'[v] \in Seq(1 .. p)
    BY <1>5, <2>1, <2>2
  <2>4. partitions' \in [Vertex -> Seq(1 .. p')]
    BY <1>1, <2>3
  <2>. QED
    BY <1>1, <2>4 DEF IInv, RdgTypeOK, bodyVars
<1>7. BoundOnce'
  BY <1>2, <1>4, <1>5 DEF IInv, BoundOnce
<1>8. BoundTogether'
  <2>1. \A v \in Bound : In(v)'
    BY <1>4, <1>5 DEF In
  <2>. QED
    BY <1>2, <2>1, BoundForward DEF BoundTogether
<1>9. OperandsAlong'
  BY <1>1 DEF OperandsAlong
<1>10. ReferencesMarked'
  <2>1. \A v \in refs : In(v)'
    BY <1>2, <1>3, <1>5 DEF In, BodyOK
  <2>. QED
    BY <1>1, <2>1 DEF ReferencesMarked, Marked, bodyVars
<1>11. \A e \in ScalarEdges : In(e[2]) => In(e[1])
  <2>. SUFFICES ASSUME NEW e \in ScalarEdges, In(e[2])
       PROVE  In(e[1])
    OBVIOUS
  <2>1. e[2] \in Vertex /\ partitions[e[2]] \in Seq(1 .. p)
    BY <1>2, EdgeEnds DEF IInv, RdgTypeOK
  <2>2. 1 \in DOMAIN partitions[e[2]]
    BY <2>1 DEF In
  <2>3. partitions[e[2]][1] \in PartitionsOf(e[1])
    BY <1>1, <2>2 DEF IInv, OperandsAlong, PartitionsOf
  <2>. QED
    BY <2>3 DEF PartitionsOf, In
<1>12. PartitionsHoldOperands'
  <2>. SUFFICES ASSUME NEW e \in ScalarEdges, e[2] \notin LeftOver
       PROVE  PartitionsOf(e[2])' \subseteq PartitionsOf(e[1])'
    BY <1>2 DEF PartitionsHoldOperands
  <2>1. e[1] \in Vertex /\ e[2] \in Vertex
    BY <1>2, EdgeEnds
  <2>2. PartitionsOf(e[2]) \subseteq PartitionsOf(e[1])
    BY <1>1 DEF IInv, OperandsAlong
  <2>3. CASE In(e[2])
    <3>1. In(e[1])
      BY <1>11, <2>3
    <3>2. partitions'[e[1]] = partitions[e[1]] /\ partitions'[e[2]] = partitions[e[2]]
      BY <1>5, <2>1, <2>3, <3>1
    <3> QED
      BY <2>2, <3>2 DEF PartitionsOf
  <2>4. CASE ~In(e[2])
    <3>. DEFINE S == {v \in Vertex : ~In(v)}
    <3>1. S \in SUBSET (Vertex \ Bound)
      BY <1>4
    <3>2. \A d \in ScalarEdges : d[1] \in S => d[2] \in S
      BY <1>2, <1>11, EdgeEnds
    <3>3. e[2] \in S
      BY <2>1, <2>4
    <3>. HIDE DEF S
    <3>. QED
      BY <3>1, <3>2, <3>3 DEF LeftOver
  <2>. QED
    BY <2>3, <2>4
<1>. QED
  BY <1>1, <1>2, <1>6, <1>7, <1>8, <1>9, <1>10, <1>12 DEF IInv

LEMMA NextIInv ==
  IInv /\ [Next]_vars => IInv'
<1>. SUFFICES ASSUME IInv, [Next]_vars
     PROVE  IInv'
  OBVIOUS
<1>1. CASE Rejects
  BY <1>1, SamePartitions DEF Rejects
<1>2. CASE BuildRdg
  BY <1>2, BuildRdgIInv
<1>3. CASE MarkSingle
  BY <1>3, MarkSingleIInv
<1>4. ASSUME NEW v \in Vertex, MarkReference(v)
      PROVE  IInv'
  BY <1>4, MarkReferenceIInv
<1>5. CASE MarkRest
  BY <1>5, MarkRestIInv
<1>6. CASE BuildPrdg
  BY <1>6, SamePartitions DEF BuildPrdg, Marked
<1>7. CASE Transpose
  BY <1>7, SamePartitions DEF Transpose, Marked
<1>8. CASE FindScc
  BY <1>8, SamePartitions DEF FindScc, Marked
<1>9. CASE BuildSccGraph
  BY <1>9, SamePartitions DEF BuildSccGraph, Marked
<1>10. CASE TopologicalSort
  BY <1>10, SamePartitions DEF TopologicalSort, Marked
<1>11. CASE DfsRdgp
  BY <1>11, SamePartitions DEF DfsRdgp, rdgVars
<1>12. CASE UNCHANGED vars
  BY <1>12, SamePartitions DEF vars, rdgVars
<1>. QED
  BY <1>1, <1>2, <1>3, <1>4, <1>5, <1>6, <1>7, <1>8, <1>9, <1>10, <1>11, <1>12
     DEF Next, RdgNext

LEMMA IInvImplies ==
  IInv => /\ RdgTypeOK
          /\ ReferencesInOnePartition
          /\ PartitionsHoldOperands
<1>. SUFFICES ASSUME IInv, Marked, NEW v \in refs
     PROVE  Len(partitions[v]) = 1
  BY DEF IInv, ReferencesInOnePartition
<1>1. v \in Vertex /\ v \in Bound
  BY BoundContainsRefs DEF IInv, BodyOK
<1>2. partitions[v] \in Seq(1 .. p) /\ partitions[v] /= <<>>
  BY <1>1 DEF IInv, RdgTypeOK, ReferencesMarked, In
<1>3. Len(partitions[v]) <= 1
  BY <1>1 DEF IInv, BoundOnce
<1>. DEFINE n == Len(partitions[v])
<1>4. n \in Nat /\ n /= 0 /\ n <= 1
  BY <1>2, <1>3, EmptySeq
<1>. HIDE DEF n
<1>5. n = 1
  BY <1>4
<1>. QED
  BY <1>5 DEF n

(* The numbers mark_partitions gives out name partitions.                  *)
THEOREM PartitionsTyped == Spec => []RdgTypeOK
<1>1. Spec => []IInv
  BY InitIInv, NextIInv, PTL DEF Spec
<1>. QED
  BY <1>1, IInvImplies, PTL

(* struct rdg_vertex: "If 'has_dd_p' is true, the vertex can only be in    *)
(* one partition."  The assertion of correct_partitions_p does not check   *)
(* it, !VEC_length (...) == 1 being a comparison with a boolean.           *)
THEOREM ReferencesAreInOnePartition == Spec => []ReferencesInOnePartition
<1>1. Spec => []IInv
  BY InitIInv, NextIInv, PTL DEF Spec
<1>. QED
  BY <1>1, IInvImplies, PTL

(* Every partition can compute what its references need.                   *)
THEOREM PartitionsAreComputable == Spec => []PartitionsHoldOperands
<1>1. Spec => []IInv
  BY InitIInv, NextIInv, PTL DEF Spec
<1>. QED
  BY <1>1, IInvImplies, PTL

-----------------------------------------------------------------------------
(* The searches.                                                           *)

(* A graph on the vertices 1 .. n.                                         *)
GraphOn(E, n) ==
  /\ n \in Nat
  /\ DOMAIN E \subseteq Nat \X Nat
  /\ IsFiniteSet(DOMAIN E)
  /\ \A d \in DOMAIN E : E[d].source \in 1 .. n /\ E[d].sink \in 1 .. n

Results(n) == [white : SUBSET (1 .. n), finished : Seq(1 .. n)]

(* One call of dfs_rdgp_1 from its next edge on, given what the calls it   *)
(* makes return.                                                           *)
OneCall(E, v, s) ==
  IF s.todo = {} THEN Leave(s)
  ELSE IF E[FirstOf(s.todo)].sink \in s.white
       THEN v[Beyond(s, v[Enter(E, E[FirstOf(s.todo)].sink, s)])]
       ELSE v[Beyond(s, s)]

(* A search gets shorter: fewer vertices are white, or fewer edges left.   *)
Work(E, s) ==
  Cardinality(s.white) * (Cardinality(DOMAIN E) + 1) + Cardinality(s.todo)

LEMMA FirstIsIn ==
  ASSUME NEW T, T \subseteq Nat \X Nat, T /= {}
  PROVE  FirstOf(T) \in T
<1> DEFINE A == {d[1] : d \in T}
<1>1. PICK a \in A : \A x \in A : a <= x
  <2>1. A \subseteq Nat /\ A /= {}
    OBVIOUS
  <2> HIDE DEF A
  <2> QED
    BY <2>1, LeastExists
<1> DEFINE B == {d[2] : d \in {e \in T : e[1] = a}}
<1>2. PICK b \in B : \A x \in B : b <= x
  <2>1. B \subseteq Nat
    OBVIOUS
  <2>2. B /= {}
    BY <1>1
  <2> HIDE DEF B
  <2> QED
    BY <2>1, <2>2, LeastExists
<1>3. PICK d \in T : d[1] = a /\ d[2] = b
  BY <1>2
<1>4. \A e \in T : d[1] < e[1] \/ (d[1] = e[1] /\ d[2] <= e[2])
  <2> SUFFICES ASSUME NEW e \in T, ~(d[1] < e[1])
      PROVE  d[1] = e[1] /\ d[2] <= e[2]
    OBVIOUS
  <2>1. d[1] \in Nat /\ e[1] \in Nat /\ e[1] \in A
    OBVIOUS
  <2>2. e[1] = a
    <3>1. a <= e[1]
      BY <1>1, <2>1
    <3> HIDE DEF A
    <3> QED
      BY <1>3, <2>1, <3>1
  <2>3. e[2] \in B
    BY <2>2
  <2> HIDE DEF A, B
  <2> QED
    BY <1>2, <1>3, <2>2, <2>3
<1> QED
  BY <1>4 DEF FirstOf

(* What a search calls itself with, and that it is less work.              *)
LEMMA NextCalls ==
  ASSUME NEW E, NEW n, GraphOn(E, n), NEW s \in Searches(E, n), s.todo /= {}
  PROVE  LET d == FirstOf(s.todo)
             u == E[d].sink
         IN  /\ d \in s.todo /\ d \in DOMAIN E /\ u \in 1 .. n
             /\ u \in s.white => /\ Enter(E, u, s) \in Searches(E, n)
                                 /\ Work(E, Enter(E, u, s)) < Work(E, s)
             /\ Beyond(s, s) \in Searches(E, n)
             /\ Work(E, Beyond(s, s)) < Work(E, s)
             /\ \A r \in Results(n) : r.white \subseteq s.white =>
                  /\ Beyond(s, r) \in Searches(E, n)
                  /\ Work(E, Beyond(s, r)) < Work(E, s)
<1> DEFINE d == FirstOf(s.todo)
           u == E[d].sink
           c == Cardinality(DOMAIN E)
<1>0. /\ s.at \in 1 .. n /\ s.todo \subseteq DOMAIN E /\ s.white \subseteq 1 .. n
      /\ s.finished \in Seq(1 .. n)
  BY DEF Searches
<1>1. d \in s.todo /\ d \in DOMAIN E /\ u \in 1 .. n
  <2>1. s.todo \subseteq Nat \X Nat
    BY <1>0 DEF GraphOn
  <2>2. d \in s.todo
    BY <2>1, FirstIsIn
  <2> HIDE DEF d
  <2> QED
    BY <1>0, <2>2 DEF GraphOn
<1>2. IsFiniteSet(s.todo) /\ IsFiniteSet(s.white) /\ c \in Nat
  <2>1. IsFiniteSet(1 .. n)
    BY FS_Interval DEF GraphOn
  <2> QED
    BY <1>0, <2>1, FS_Subset, FS_CardinalityType DEF GraphOn
<1> HIDE DEF d, u
<1>3. ASSUME NEW r, r.todo \subseteq DOMAIN E, r.white \subseteq s.white,
             r.todo = s.todo \ {d} \/ (r.white \subseteq s.white \ {u} /\ u \in s.white)
      PROVE  Work(E, r) < Work(E, s)
  <2> DEFINE x == Cardinality(s.white)
             y == Cardinality(r.white)
             t == Cardinality(s.todo)
             k == Cardinality(r.todo)
  <2>1. IsFiniteSet(r.white) /\ IsFiniteSet(r.todo)
    BY <1>2, <1>3, FS_Subset DEF GraphOn
  <2>2. x \in Nat /\ y \in Nat /\ y <= x
    BY <1>2, <1>3, <2>1, FS_Subset, FS_CardinalityType
  <2>3. t \in 0 .. c /\ k \in 0 .. c
    BY <1>0, <1>2, <1>3, <2>1, FS_Subset, FS_CardinalityType DEF GraphOn
  <2>4. CASE r.todo = s.todo \ {d}
    <3>1. k = t - 1
      BY <1>1, <1>2, <2>4, FS_RemoveElement
    <3> HIDE DEF x, y, t, k, c
    <3>2. y < x \/ (y = x /\ k < t)
      BY <2>2, <2>3, <3>1, <1>2
    <3>3. y * (c + 1) + k < x * (c + 1) + t
      BY <1>2, <2>2, <2>3, <3>2, LessWork
    <3> QED
      BY <3>3 DEF Work, x, y, t, k, c
  <2>5. CASE r.white \subseteq s.white \ {u} /\ u \in s.white
    <3>1. Cardinality(s.white \ {u}) = x - 1 /\ IsFiniteSet(s.white \ {u})
      BY <1>2, <2>5, FS_RemoveElement
    <3>2. y <= x - 1
      BY <2>5, <3>1, FS_Subset
    <3> HIDE DEF x, y, t, k, c
    <3>3. y < x
      BY <2>2, <3>2
    <3>4. y * (c + 1) + k < x * (c + 1) + t
      BY <1>2, <2>2, <2>3, <3>3, LessWork
    <3> QED
      BY <3>4 DEF Work, x, y, t, k, c
  <2> QED
    BY <1>3, <2>4, <2>5
<1>4. ASSUME u \in s.white
      PROVE  /\ Enter(E, u, s) \in Searches(E, n)
             /\ Work(E, Enter(E, u, s)) < Work(E, s)
  <2>1. Enter(E, u, s) \in Searches(E, n)
    BY <1>0, <1>1 DEF Enter, Searches
  <2>2. /\ Enter(E, u, s).todo \subseteq DOMAIN E
        /\ Enter(E, u, s).white = s.white \ {u}
    BY DEF Enter
  <2> QED
    BY <1>3, <1>4, <2>1, <2>2
<1>5. ASSUME NEW r, r.white \subseteq s.white, r.finished \in Seq(1 .. n)
      PROVE  /\ Beyond(s, r) \in Searches(E, n)
             /\ Work(E, Beyond(s, r)) < Work(E, s)
  <2>1. Beyond(s, r) \in Searches(E, n)
    BY <1>0, <1>5 DEF Beyond, Searches
  <2>2. /\ Beyond(s, r).todo = s.todo \ {d}
        /\ Beyond(s, r).white = r.white
    BY DEF Beyond, d
  <2>3. s.todo \ {d} \subseteq DOMAIN E
    BY <1>0
  <2> DEFINE b == Beyond(s, r)
  <2>4. b.todo \subseteq DOMAIN E /\ b.white \subseteq s.white /\ b.todo = s.todo \ {d}
    BY <1>5, <2>2, <2>3
  <2> HIDE DEF b
  <2>5. Work(E, b) < Work(E, s)
    BY <1>3, <2>4
  <2> QED
    BY <2>1, <2>5 DEF b
<1>6. \A r \in Results(n) : r.finished \in Seq(1 .. n)
  BY DEF Results
<1> QED
  BY <1>0, <1>1, <1>4, <1>5, <1>6 DEF d, u

LEMMA WorkBound ==
  ASSUME NEW E, NEW n, GraphOn(E, n)
  PROVE  \E top \in Nat : \A s \in Searches(E, n) : Work(E, s) \in 0 .. top - 1
<1> DEFINE c == Cardinality(DOMAIN E)
           top == n * (c + 1) + c + 1
<1>1. c \in Nat /\ n \in Nat
  BY FS_CardinalityType DEF GraphOn
<1>2. n * (c + 1) \in Nat
  BY <1>1
<1>3. ASSUME NEW s \in Searches(E, n)
      PROVE  Work(E, s) \in 0 .. top - 1
  <2> DEFINE x == Cardinality(s.white)
             t == Cardinality(s.todo)
  <2>1. IsFiniteSet(1 .. n) /\ Cardinality(1 .. n) = n
    BY <1>1, FS_Interval
  <2>2. s.white \subseteq 1 .. n /\ s.todo \subseteq DOMAIN E
    BY DEF Searches
  <2>3. x \in 0 .. n /\ t \in 0 .. c
    BY <1>1, <2>1, <2>2, FS_Subset, FS_CardinalityType DEF GraphOn
  <2> HIDE DEF c, x, t
  <2>4. x * (c + 1) \in Nat /\ x * (c + 1) <= n * (c + 1)
    <3>1. PICK d \in Nat : n = x + d
      <4>1. n - x \in Nat /\ n = x + (n - x)
        BY <1>1, <2>3
      <4> QED
        BY <4>1
    <3>2. n * (c + 1) = x * (c + 1) + d * (c + 1)
      BY <1>1, <2>3, <3>1
    <3>3. d * (c + 1) \in Nat /\ x * (c + 1) \in Nat
      BY <1>1, <2>3
    <3> QED
      BY <3>2, <3>3
  <2> DEFINE a == x * (c + 1)
             b == n * (c + 1)
  <2>5. a \in Nat /\ b \in Nat /\ a <= b
    BY <1>2, <2>4
  <2> HIDE DEF a, b
  <2>6. a + t \in 0 .. b + c + 1 - 1
    BY <1>1, <2>3, <2>5
  <2>7. Work(E, s) = a + t /\ top = b + c + 1
    BY DEF Work, a, b, x, t, c
  <2> HIDE DEF top
  <2> QED
    BY <1>1, <2>3, <2>5, <2>6, <2>7
<1>4. top \in Nat
  BY <1>1, <1>2
<1> HIDE DEF top
<1> QED
  BY <1>3, <1>4

(* The searches end: there is a function that does what visit says, found  *)
(* by taking in the searches with more and more work.                      *)
LEMMA VisitExists ==
  ASSUME NEW E, NEW n, GraphOn(E, n)
  PROVE  \E v : v = [s \in Searches(E, n) |-> OneCall(E, v, s)]
<1> DEFINE S == Searches(E, n)
           R == Results(n)
           Right(v, k) ==
             \A s \in S : Work(E, s) < k =>
               v[s] = OneCall(E, v, s) /\ v[s].white \subseteq s.white
           G == {k \in Nat : \E v \in [S -> R] : Right(v, k)}
<1>1. PICK top \in Nat : \A s \in S : Work(E, s) \in 0 .. top - 1
  BY WorkBound
<1>2. \A s \in S : Leave(s) \in R
  BY DEF Leave, Searches, Results
<1>3. 0 \in G
  <2>1. [s \in S |-> Leave(s)] \in [S -> R]
    BY <1>2
  <2>2. \A s \in S : ~(Work(E, s) < 0)
    BY <1>1
  <2> HIDE DEF S, R
  <2> QED
    BY <2>1, <2>2
<1>4. ASSUME NEW k \in 0 .. top - 1, k \in G
      PROVE  k + 1 \in G
  <2>1. PICK v \in [S -> R] : Right(v, k)
    BY <1>4
  <2> DEFINE w == [s \in S |-> IF Work(E, s) < k + 1 THEN OneCall(E, v, s) ELSE v[s]]
  <2>2. k \in Nat /\ \A s \in S : Work(E, s) \in Nat
    BY <1>1
  <2>3. \A s \in S : /\ v[s] \in R
                     /\ Work(E, s) < k => v[s] = OneCall(E, v, s)
                     /\ Work(E, s) < k => v[s].white \subseteq s.white
    BY <2>1
  <2>4. \A s \in S : w[s] = IF Work(E, s) < k + 1 THEN OneCall(E, v, s) ELSE v[s]
    OBVIOUS
  <2> HIDE DEF S, R, w, Right
  <2>5. \A s \in S : Work(E, s) < k => w[s] = v[s]
    BY <2>2, <2>3, <2>4
  <2>6. ASSUME NEW s \in S, Work(E, s) < k + 1
        PROVE  /\ OneCall(E, v, s) \in R
               /\ OneCall(E, w, s) = OneCall(E, v, s)
               /\ OneCall(E, v, s).white \subseteq s.white
    <3> DEFINE u == E[FirstOf(s.todo)].sink
               call == Enter(E, u, s)
    <3>1. CASE s.todo = {}
      <4>1. OneCall(E, v, s) = Leave(s) /\ OneCall(E, w, s) = Leave(s)
        BY <3>1 DEF OneCall
      <4>2. Leave(s).white = s.white
        BY DEF Leave
      <4> QED
        BY <1>2, <4>1, <4>2
    <3>2. CASE s.todo /= {} /\ u \notin s.white
      <4> DEFINE next == Beyond(s, s)
      <4>1. next \in S /\ Work(E, next) < Work(E, s)
        BY <3>2, NextCalls DEF S
      <4>2. OneCall(E, v, s) = v[next] /\ OneCall(E, w, s) = w[next]
        BY <3>2 DEF OneCall
      <4>3. next.white = s.white
        BY DEF Beyond
      <4> HIDE DEF next
      <4>4. Work(E, next) < k
        BY <2>2, <2>6, <4>1
      <4> QED
        BY <2>3, <2>5, <4>1, <4>2, <4>3, <4>4
    <3>3. CASE s.todo /= {} /\ u \in s.white
      <4>1. /\ call \in S /\ Work(E, call) < Work(E, s)
            /\ \A r \in R : r.white \subseteq s.white =>
                  /\ Beyond(s, r) \in S
                  /\ Work(E, Beyond(s, r)) < Work(E, s)
        BY <3>3, NextCalls DEF S, R
      <4>2. /\ OneCall(E, v, s) = v[Beyond(s, v[call])]
            /\ OneCall(E, w, s) = w[Beyond(s, w[call])]
        BY <3>3 DEF OneCall
      <4>3. call.white \subseteq s.white /\ \A r : Beyond(s, r).white = r.white
        BY DEF Enter, Beyond
      <4> HIDE DEF call
      <4>4. Work(E, call) < k
        BY <2>2, <2>6, <4>1
      <4>5. w[call] = v[call] /\ v[call] \in R /\ v[call].white \subseteq s.white
        BY <2>3, <2>5, <4>1, <4>3, <4>4
      <4> DEFINE next == Beyond(s, v[call])
      <4>6. next \in S /\ Work(E, next) < Work(E, s) /\ next.white = v[call].white
        BY <4>1, <4>3, <4>5
      <4>7. OneCall(E, v, s) = v[next] /\ OneCall(E, w, s) = w[next]
        BY <4>2, <4>5
      <4> HIDE DEF next
      <4>8. Work(E, next) < k
        BY <2>2, <2>6, <4>6
      <4> QED
        BY <2>3, <2>5, <4>5, <4>6, <4>7, <4>8
    <3> QED
      BY <3>1, <3>2, <3>3
  <2>7. w \in [S -> R]
    BY <2>3, <2>6 DEF w
  <2>8. Right(w, k + 1)
    BY <2>4, <2>6 DEF Right
  <2>9. k + 1 \in Nat
    BY <2>2
  <2> QED
    BY <2>7, <2>8, <2>9
<1>5. top \in G
  <2> HIDE DEF G
  <2>1. \A i \in 0 .. top : i \in G
    BY <1>1, <1>3, <1>4, UpTo
  <2> QED
    BY <1>1, <2>1
<1>6. PICK v \in [S -> R] : Right(v, top)
  BY <1>5
<1>7. \A s \in S : v[s] = OneCall(E, v, s)
  <2>1. \A s \in S : Work(E, s) < top
    BY <1>1
  <2> QED
    BY <1>6, <2>1
<1>8. v = [s \in S |-> v[s]]
  OBVIOUS
<1>9. v = [s \in S |-> OneCall(E, v, s)]
  <2> HIDE DEF S, R
  <2> QED
    BY <1>7, <1>8
<1> QED
  BY <1>9

LEMMA VisitSolves ==
  ASSUME NEW E, NEW n, GraphOn(E, n)
  PROVE  \A s \in Searches(E, n) : Visit(E, n)[s] = OneCall(E, Visit(E, n), s)
<1> DEFINE Solves(v) == v = [s \in Searches(E, n) |-> OneCall(E, v, s)]
<1>1. \E v : Solves(v)
  BY VisitExists, Zenon
<1>2. Visit(E, n) = CHOOSE v : Solves(v)
  BY DEF Visit, OneCall
<1>3. Solves(Visit(E, n))
  <2> HIDE DEF Solves
  <2> QED
    BY <1>1, <1>2
<1> QED
  BY <1>3

(* A set no edge leads out of, and what a vertex reaches: what is in every *)
(* such set with it.                                                       *)
ShutIn(E, C) == \A d \in DOMAIN E : E[d].source \in C => E[d].sink \in C

Reaches(E, n, x, y) ==
  \A C \in SUBSET (1 .. n) : x \in C /\ ShutIn(E, C) => y \in C

LEMMA ReachesFacts ==
  ASSUME NEW E, NEW n
  PROVE  /\ \A x : Reaches(E, n, x, x)
         /\ \A x, y, z : Reaches(E, n, x, y) /\ Reaches(E, n, y, z) => Reaches(E, n, x, z)
         /\ \A d \in DOMAIN E : Reaches(E, n, E[d].source, E[d].sink)
BY DEF Reaches, ShutIn

(* The first i vertices finished, and all of them.                         *)
First(F, i) == {F[k] : k \in 1 .. i}
Done(F) == {F[k] : k \in DOMAIN F}

(* What the finishing times tell: when a vertex finishes, the edges of the *)
(* ones finished by then lead to each other or to vertices being searched, *)
(* which reach it.                                                         *)
InOrder(E, n, F) ==
  \A i \in DOMAIN F : \A d \in DOMAIN E :
    E[d].source \in First(F, i) =>
      E[d].sink \in First(F, i) \/ Reaches(E, n, E[d].sink, F[i])

SearchOK(E, n, F, W) ==
  /\ \A i, j \in DOMAIN F : F[i] = F[j] => i = j
  /\ Done(F) \cap W = {}
  /\ \A d \in DOMAIN E : E[d].source \in Done(F) => E[d].sink \notin W
  /\ InOrder(E, n, F)

(* A search that is at a vertex: what is neither white nor finished is     *)
(* being searched, and reaches it.                                         *)
Underway(E, n, s) ==
  /\ s \in Searches(E, n)
  /\ SearchOK(E, n, s.finished, s.white)
  /\ s.at \notin s.white /\ s.at \notin Done(s.finished)
  /\ \A d \in s.todo : E[d].source = s.at
  /\ \A d \in DOMAIN E : E[d].source = s.at => d \in s.todo \/ E[d].sink \notin s.white
  /\ \A x \in 1 .. n : x \in s.white \/ x \in Done(s.finished) \/ Reaches(E, n, x, s.at)

(* What it returns: it finishes the vertex and white ones it reaches.      *)
Found(E, n, s, r) ==
  /\ r \in Results(n)
  /\ SearchOK(E, n, r.finished, r.white)
  /\ r.white \subseteq s.white
  /\ Done(r.finished) = Done(s.finished) \cup {s.at} \cup (s.white \ r.white)
  /\ \A x \in s.white \ r.white : Reaches(E, n, s.at, x)

LEMMA OneMore ==
  ASSUME NEW n \in Nat, NEW F \in Seq(1 .. n), NEW a \in 1 .. n
  PROVE  /\ Append(F, a) \in Seq(1 .. n)
         /\ DOMAIN Append(F, a) = 1 .. Len(F) + 1
         /\ DOMAIN F = 1 .. Len(F) /\ Len(F) \in Nat
         /\ Append(F, a)[Len(F) + 1] = a
         /\ \A i \in 1 .. Len(F) : Append(F, a)[i] = F[i]
         /\ \A i \in 1 .. Len(F) : First(Append(F, a), i) = First(F, i)
         /\ First(Append(F, a), Len(F) + 1) = Done(F) \cup {a}
         /\ Done(Append(F, a)) = Done(F) \cup {a}
<1> DEFINE A == Append(F, a)
           l == Len(F)
<1>1. /\ A \in Seq(1 .. n) /\ DOMAIN A = 1 .. l + 1 /\ DOMAIN F = 1 .. l /\ l \in Nat
      /\ A[l + 1] = a /\ \A i \in 1 .. l : A[i] = F[i]
  OBVIOUS
<1> HIDE DEF A, l
<1>2. \A i \in 1 .. l : First(A, i) = First(F, i)
  <2> SUFFICES ASSUME NEW i \in 1 .. l PROVE First(A, i) = First(F, i)
    OBVIOUS
  <2>1. \A k \in 1 .. i : A[k] = F[k]
    BY <1>1
  <2> QED
    BY <2>1 DEF First
<1>3. First(A, l + 1) = Done(F) \cup {a}
  <2>1. First(A, l + 1) \subseteq Done(F) \cup {a}
    <3> SUFFICES ASSUME NEW k \in 1 .. l + 1, k /= l + 1 PROVE A[k] \in Done(F)
      BY <1>1 DEF First
    <3>1. k \in 1 .. l
      BY <1>1
    <3> QED
      BY <1>1, <3>1 DEF Done
  <2>2. Done(F) \cup {a} \subseteq First(A, l + 1)
    <3>1. \A k \in 1 .. l : k \in 1 .. l + 1 /\ F[k] = A[k]
      BY <1>1
    <3>2. l + 1 \in 1 .. l + 1
      BY <1>1
    <3> QED
      BY <1>1, <3>1, <3>2 DEF First, Done
  <2> QED
    BY <2>1, <2>2
<1>4. Done(A) = First(A, l + 1)
  BY <1>1 DEF Done, First
<1> QED
  BY <1>1, <1>2, <1>3, <1>4 DEF A, l

(* A vertex without edges left finishes.                                   *)
LEMMA LeaveFinds ==
  ASSUME NEW E, NEW n, GraphOn(E, n), NEW s, Underway(E, n, s), s.todo = {}
  PROVE  Found(E, n, s, Leave(s))
<1> DEFINE F == s.finished
           A == Append(s.finished, s.at)
<1>1. /\ s.at \in 1 .. n /\ F \in Seq(1 .. n) /\ s.white \subseteq 1 .. n /\ n \in Nat
  BY DEF Underway, Searches, GraphOn
<1>2. Leave(s) = [white |-> s.white, finished |-> A]
  BY DEF Leave
<1> HIDE DEF F, A
<1>3. /\ A \in Seq(1 .. n) /\ DOMAIN A = 1 .. Len(F) + 1
      /\ DOMAIN F = 1 .. Len(F) /\ Len(F) \in Nat
      /\ A[Len(F) + 1] = s.at
      /\ \A i \in 1 .. Len(F) : A[i] = F[i]
      /\ \A i \in 1 .. Len(F) : First(A, i) = First(F, i)
      /\ First(A, Len(F) + 1) = Done(F) \cup {s.at}
      /\ Done(A) = Done(F) \cup {s.at}
  BY <1>1, OneMore DEF F, A
<1>4. /\ \A i, j \in DOMAIN F : F[i] = F[j] => i = j
      /\ Done(F) \cap s.white = {}
      /\ \A d \in DOMAIN E : E[d].source \in Done(F) => E[d].sink \notin s.white
      /\ InOrder(E, n, F)
      /\ s.at \notin s.white /\ s.at \notin Done(F)
      /\ \A d \in DOMAIN E : E[d].source = s.at => E[d].sink \notin s.white
      /\ \A x \in 1 .. n : x \in s.white \/ x \in Done(F) \/ Reaches(E, n, x, s.at)
  BY DEF Underway, SearchOK, F
<1>5. \A i, j \in DOMAIN A : A[i] = A[j] => i = j
  <2> SUFFICES ASSUME NEW i \in DOMAIN A, NEW j \in DOMAIN A, A[i] = A[j]
      PROVE  i = j
    OBVIOUS
  <2>1. \A k \in 1 .. Len(F) : F[k] \in Done(F)
    BY <1>3 DEF Done
  <2>2. i \in 1 .. Len(F) \/ i = Len(F) + 1
    BY <1>3
  <2>3. j \in 1 .. Len(F) \/ j = Len(F) + 1
    BY <1>3
  <2> QED
    BY <1>3, <1>4, <2>1, <2>2, <2>3
<1>6. Done(A) \cap s.white = {}
  BY <1>3, <1>4
<1>7. \A d \in DOMAIN E : E[d].source \in Done(A) => E[d].sink \notin s.white
  BY <1>3, <1>4
<1>8. InOrder(E, n, A)
  <2> SUFFICES ASSUME NEW i \in DOMAIN A, NEW d \in DOMAIN E, E[d].source \in First(A, i)
      PROVE  E[d].sink \in First(A, i) \/ Reaches(E, n, E[d].sink, A[i])
    BY DEF InOrder
  <2>1. CASE i \in 1 .. Len(F)
    BY <1>3, <1>4, <2>1 DEF InOrder
  <2>2. CASE i = Len(F) + 1
    <3>1. E[d].source \in Done(A) /\ First(A, i) = Done(F) \cup {s.at}
      BY <1>3, <2>2
    <3>2. E[d].sink \in 1 .. n /\ E[d].sink \notin s.white
      BY <1>7, <3>1 DEF GraphOn
    <3> QED
      BY <1>3, <1>4, <2>2, <3>1, <3>2
  <2> QED
    BY <1>3, <2>1, <2>2
<1>9. SearchOK(E, n, A, s.white)
  BY <1>5, <1>6, <1>7, <1>8 DEF SearchOK
<1>10. Leave(s) \in Results(n)
  BY <1>1, <1>2, <1>3 DEF Results
<1> QED
  BY <1>2, <1>3, <1>9, <1>10 DEF Found, F

(* A white sink is searched first.                                         *)
LEMMA EnterUnderway ==
  ASSUME NEW E, NEW n, GraphOn(E, n), NEW s, Underway(E, n, s),
         NEW d \in s.todo, E[d].sink \in s.white,
         Enter(E, E[d].sink, s) \in Searches(E, n)
  PROVE  Underway(E, n, Enter(E, E[d].sink, s))
<1> DEFINE u == E[d].sink
           call == Enter(E, u, s)
<1>1. /\ call.at = u /\ call.todo = {e \in DOMAIN E : E[e].source = u}
      /\ call.white = s.white \ {u} /\ call.finished = s.finished
  BY DEF Enter
<1>2. d \in DOMAIN E /\ E[d].source = s.at
  BY DEF Underway, Searches
<1>3. Reaches(E, n, s.at, u)
  BY <1>2, ReachesFacts
<1>4. u \in s.white
  OBVIOUS
<1>5. call \in Searches(E, n)
  OBVIOUS
<1> HIDE DEF u, call
<1>6. SearchOK(E, n, s.finished, s.white \ {u})
  BY DEF Underway, SearchOK
<1>7. u \notin Done(s.finished)
  BY <1>4 DEF Underway, SearchOK
<1>8. ASSUME NEW x \in 1 .. n
      PROVE  x \in s.white \ {u} \/ x \in Done(s.finished) \/ Reaches(E, n, x, u)
  <2>1. Reaches(E, n, u, u)
    BY ReachesFacts
  <2>2. x \in s.white \/ x \in Done(s.finished) \/ Reaches(E, n, x, s.at)
    BY DEF Underway
  <2>3. Reaches(E, n, x, s.at) => Reaches(E, n, x, u)
    BY <1>3, ReachesFacts
  <2> QED
    BY <2>1, <2>2, <2>3
<1>9. Underway(E, n, call)
  BY <1>1, <1>5, <1>6, <1>7, <1>8 DEF Underway
<1> QED
  BY <1>9 DEF call, u

(* Then the search goes on with what that found.                           *)
LEMMA BeyondUnderway ==
  ASSUME NEW E, NEW n, GraphOn(E, n), NEW s, Underway(E, n, s),
         NEW d, d = FirstOf(s.todo), d \in s.todo, E[d].sink \in s.white,
         NEW r, Found(E, n, Enter(E, E[d].sink, s), r),
         Beyond(s, r) \in Searches(E, n)
  PROVE  /\ Underway(E, n, Beyond(s, r))
         /\ \A t : Found(E, n, Beyond(s, r), t) => Found(E, n, s, t)
<1> DEFINE u == E[d].sink
           next == Beyond(s, r)
<1>1. /\ next.at = s.at /\ next.todo = s.todo \ {d}
      /\ next.white = r.white /\ next.finished = r.finished
  BY DEF Beyond
<1>2. next \in Searches(E, n) /\ u \in s.white
  OBVIOUS
<1>3. d \in DOMAIN E /\ E[d].source = s.at
  BY DEF Underway, Searches
<1>4. Reaches(E, n, s.at, u)
  BY <1>3, ReachesFacts
<1>5. /\ SearchOK(E, n, r.finished, r.white)
      /\ r.white \subseteq s.white \ {u}
      /\ Done(r.finished) = Done(s.finished) \cup {u} \cup ((s.white \ {u}) \ r.white)
      /\ \A x \in (s.white \ {u}) \ r.white : Reaches(E, n, u, x)
  BY DEF Found, Enter
<1>6. \A e \in DOMAIN E : e = d => E[e].sink = u
  OBVIOUS
<1> HIDE DEF u, next
<1>7. /\ s.at \notin s.white /\ s.at \notin Done(s.finished)
      /\ \A e \in s.todo : E[e].source = s.at
      /\ \A e \in DOMAIN E : E[e].source = s.at => e \in s.todo \/ E[e].sink \notin s.white
      /\ \A x \in 1 .. n : x \in s.white \/ x \in Done(s.finished) \/ Reaches(E, n, x, s.at)
  BY DEF Underway
<1>8. Done(r.finished) = Done(s.finished) \cup (s.white \ r.white)
  BY <1>2, <1>5
<1>9. Underway(E, n, next)
  <2>1. s.at \notin r.white /\ s.at \notin Done(r.finished)
    BY <1>5, <1>7, <1>8
  <2>2. \A e \in DOMAIN E : E[e].source = s.at => e \in s.todo \ {d} \/ E[e].sink \notin r.white
    BY <1>5, <1>6, <1>7
  <2>3. \A x \in 1 .. n : x \in r.white \/ x \in Done(r.finished) \/ Reaches(E, n, x, s.at)
    BY <1>7, <1>8
  <2>4. \A e \in s.todo \ {d} : E[e].source = s.at
    BY <1>7
  <2> QED
    BY <1>1, <1>2, <1>5, <2>1, <2>2, <2>3, <2>4 DEF Underway
<1>10. ASSUME NEW t, Found(E, n, next, t)
       PROVE  Found(E, n, s, t)
  <2>1. /\ t \in Results(n)
        /\ SearchOK(E, n, t.finished, t.white)
        /\ t.white \subseteq r.white
        /\ Done(t.finished) = Done(r.finished) \cup {s.at} \cup (r.white \ t.white)
        /\ \A x \in r.white \ t.white : Reaches(E, n, s.at, x)
    BY <1>1, <1>10 DEF Found
  <2>2. ASSUME NEW x \in s.white \ t.white
        PROVE  Reaches(E, n, s.at, x)
    <3>1. CASE x = u
      BY <1>4, <3>1
    <3>2. CASE x \in (s.white \ {u}) \ r.white
      <4>1. Reaches(E, n, u, x)
        BY <1>5, <3>2
      <4> QED
        BY <1>4, <4>1, ReachesFacts
    <3>3. CASE x \in r.white
      BY <2>1, <3>3
    <3> QED
      BY <3>1, <3>2, <3>3
  <2>3. t.white \subseteq s.white
    BY <1>5, <2>1
  <2>4. Done(t.finished) = Done(s.finished) \cup {s.at} \cup (s.white \ t.white)
    BY <1>5, <1>8, <2>1
  <2> QED
    BY <2>1, <2>2, <2>3, <2>4 DEF Found
<1> QED
  BY <1>9, <1>10 DEF next

(* A sink that is not white is passed over.                                *)
LEMMA SkipUnderway ==
  ASSUME NEW E, NEW n, GraphOn(E, n), NEW s, Underway(E, n, s),
         NEW d, d = FirstOf(s.todo), d \in s.todo, E[d].sink \notin s.white,
         Beyond(s, s) \in Searches(E, n)
  PROVE  /\ Underway(E, n, Beyond(s, s))
         /\ \A t : Found(E, n, Beyond(s, s), t) => Found(E, n, s, t)
<1> DEFINE next == Beyond(s, s)
<1>1. /\ next.at = s.at /\ next.todo = s.todo \ {d}
      /\ next.white = s.white /\ next.finished = s.finished
  BY DEF Beyond
<1>2. next \in Searches(E, n)
  OBVIOUS
<1> HIDE DEF next
<1>3. \A e \in DOMAIN E : E[e].source = s.at => e \in s.todo \ {d} \/ E[e].sink \notin s.white
  BY DEF Underway
<1>4. \A e \in s.todo \ {d} : E[e].source = s.at
  BY DEF Underway
<1>5. Underway(E, n, next)
  BY <1>1, <1>2, <1>3, <1>4 DEF Underway
<1>6. \A t : Found(E, n, next, t) => Found(E, n, s, t)
  BY <1>1 DEF Found
<1> QED
  BY <1>5, <1>6 DEF next

LEMMA VisitFinds ==
  ASSUME NEW E, NEW n, GraphOn(E, n)
  PROVE  \A s : Underway(E, n, s) => Found(E, n, s, Visit(E, n)[s])
<1> DEFINE S == Searches(E, n)
           v == Visit(E, n)
           Right(k) == \A s \in S : Work(E, s) < k /\ Underway(E, n, s) =>
                         Found(E, n, s, v[s])
           G == {k \in Nat : Right(k)}
<1>1. PICK top \in Nat : \A s \in S : Work(E, s) \in 0 .. top - 1
  BY WorkBound
<1>2. \A s \in S : v[s] = OneCall(E, v, s)
  BY VisitSolves
<1> HIDE DEF v
<1>3. 0 \in G
  <2>1. \A s \in S : ~(Work(E, s) < 0)
    BY <1>1
  <2> HIDE DEF S
  <2> QED
    BY <2>1
<1>4. ASSUME NEW k \in 0 .. top - 1, k \in G
      PROVE  k + 1 \in G
  <2>1. k \in Nat /\ k + 1 \in Nat /\ Right(k) /\ \A s \in S : Work(E, s) \in Nat
    BY <1>1, <1>4
  <2>2. ASSUME NEW s \in S, Work(E, s) < k + 1, Underway(E, n, s)
        PROVE  Found(E, n, s, v[s])
    <3> DEFINE d == FirstOf(s.todo)
               u == E[d].sink
               call == Enter(E, u, s)
    <3>1. CASE s.todo = {}
      BY <1>2, <2>2, <3>1, LeaveFinds DEF OneCall
    <3>2. CASE s.todo /= {} /\ u \notin s.white
      <4> DEFINE next == Beyond(s, s)
      <4>1. next \in S /\ Work(E, next) < Work(E, s) /\ d \in s.todo
        BY <3>2, NextCalls DEF S
      <4>2. v[s] = v[next]
        BY <1>2, <3>2 DEF OneCall
      <4>3. /\ Underway(E, n, next)
            /\ \A t : Found(E, n, next, t) => Found(E, n, s, t)
        BY <2>2, <3>2, <4>1, SkipUnderway DEF S
      <4> HIDE DEF next, S
      <4>4. Work(E, next) < k
        BY <2>1, <2>2, <4>1
      <4>5. Found(E, n, next, v[next])
        BY <2>1, <4>1, <4>3, <4>4
      <4> QED
        BY <4>2, <4>3, <4>5
    <3>3. CASE s.todo /= {} /\ u \in s.white
      <4>1. /\ call \in S /\ Work(E, call) < Work(E, s) /\ d \in s.todo
            /\ \A r \in Results(n) : r.white \subseteq s.white =>
                  /\ Beyond(s, r) \in S
                  /\ Work(E, Beyond(s, r)) < Work(E, s)
        BY <3>3, NextCalls DEF S
      <4>2. v[s] = v[Beyond(s, v[call])]
        BY <1>2, <3>3 DEF OneCall
      <4>3. Underway(E, n, call)
        BY <2>2, <3>3, <4>1, EnterUnderway DEF S
      <4>4. Work(E, call) < k
        <5> HIDE DEF call, S
        <5> QED
          BY <2>1, <2>2, <4>1
      <4>5. Found(E, n, call, v[call])
        <5> HIDE DEF call, S
        <5> QED
          BY <2>1, <4>1, <4>3, <4>4
      <4> DEFINE r == v[call]
                 next == Beyond(s, r)
      <4>6. r \in Results(n) /\ r.white \subseteq s.white
        <5>1. r \in Results(n) /\ r.white \subseteq call.white
          BY <4>5 DEF Found
        <5>2. call.white = s.white \ {u}
          BY DEF Enter
        <5> QED
          BY <5>1, <5>2
      <4>7. Found(E, n, Enter(E, E[d].sink, s), r)
        BY <4>5
      <4>8. v[s] = v[next]
        BY <4>2
      <4> HIDE DEF r
      <4>9. next \in S /\ Work(E, next) < Work(E, s)
        BY <4>1, <4>6
      <4>10. /\ Underway(E, n, next)
             /\ \A t : Found(E, n, next, t) => Found(E, n, s, t)
        BY <2>2, <3>3, <4>1, <4>7, <4>9, BeyondUnderway DEF S
      <4> HIDE DEF next, S
      <4>11. Work(E, next) < k
        BY <2>1, <2>2, <4>9
      <4>12. Found(E, n, next, v[next])
        BY <2>1, <4>9, <4>10, <4>11
      <4> QED
        BY <4>8, <4>10, <4>12
    <3> QED
      BY <3>1, <3>2, <3>3
  <2> HIDE DEF S
  <2> QED
    BY <2>1, <2>2
<1>5. top \in G
  <2> HIDE DEF G
  <2>1. \A i \in 0 .. top : i \in G
    BY <1>1, <1>3, <1>4, UpTo
  <2> QED
    BY <1>1, <2>1
<1>6. \A s \in S : Work(E, s) < top
  BY <1>1
<1>7. \A s : Underway(E, n, s) => s \in S
  BY DEF Underway
<1> QED
  BY <1>5, <1>6, <1>7 DEF v

(* Between two calls of dfs_rdgp_1 nothing is being searched.              *)
Rested(E, n, s) ==
  /\ s \in Results(n)
  /\ SearchOK(E, n, s.finished, s.white)
  /\ Done(s.finished) = (1 .. n) \ s.white

LEMMA UnsearchedRests ==
  ASSUME NEW E, NEW n \in Nat
  PROVE  Rested(E, n, Unsearched(n))
<1> DEFINE e == <<>>
<1>1. e \in Seq(1 .. n) /\ DOMAIN e = {}
  OBVIOUS
<1>2. Unsearched(n).white = 1 .. n /\ Unsearched(n).finished = e
  BY DEF Unsearched
<1>3. Unsearched(n) \in Results(n)
  BY <1>1 DEF Unsearched, Results
<1> HIDE DEF e
<1>4. Done(e) = {}
  BY <1>1 DEF Done
<1>5. SearchOK(E, n, e, 1 .. n)
  BY <1>1, <1>4 DEF SearchOK, InOrder
<1> QED
  BY <1>2, <1>3, <1>4, <1>5 DEF Rested

LEMMA DfsFinds ==
  ASSUME NEW E, NEW n, GraphOn(E, n), NEW s, Rested(E, n, s), NEW q \in s.white
  PROVE  LET r == Dfs(E, n, q, s)
         IN  /\ Rested(E, n, r)
             /\ r.white \subseteq s.white \ {q}
             /\ \A x \in s.white \ r.white : Reaches(E, n, q, x)
<1> DEFINE e == Enter(E, q, s)
           r == Dfs(E, n, q, s)
<1>1. /\ e.at = q /\ e.todo = {d \in DOMAIN E : E[d].source = q}
      /\ e.white = s.white \ {q} /\ e.finished = s.finished
  BY DEF Enter
<1>2. /\ s.white \subseteq 1 .. n /\ s.finished \in Seq(1 .. n)
      /\ SearchOK(E, n, s.finished, s.white)
      /\ Done(s.finished) = (1 .. n) \ s.white
  BY DEF Rested, Results
<1>3. e \in Searches(E, n)
  BY <1>2 DEF Enter, Searches
<1>4. r = Visit(E, n)[e]
  BY DEF Dfs
<1> HIDE DEF e, r
<1>5. Underway(E, n, e)
  <2>1. SearchOK(E, n, s.finished, s.white \ {q})
    BY <1>2 DEF SearchOK
  <2>2. Reaches(E, n, q, q)
    BY ReachesFacts
  <2>3. \A x \in 1 .. n : x \in s.white \ {q} \/ x \in Done(s.finished) \/ Reaches(E, n, x, q)
    BY <1>2, <2>2
  <2>4. q \notin Done(s.finished)
    BY <1>2
  <2> QED
    BY <1>1, <1>3, <2>1, <2>3, <2>4 DEF Underway
<1>6. Found(E, n, e, r)
  BY <1>4, <1>5, VisitFinds
<1>7. /\ r \in Results(n)
      /\ SearchOK(E, n, r.finished, r.white)
      /\ r.white \subseteq s.white \ {q}
      /\ Done(r.finished) = Done(s.finished) \cup {q} \cup ((s.white \ {q}) \ r.white)
      /\ \A x \in (s.white \ {q}) \ r.white : Reaches(E, n, q, x)
  BY <1>1, <1>6 DEF Found
<1>8. Done(r.finished) = (1 .. n) \ r.white
  BY <1>2, <1>7
<1>9. \A x \in s.white \ r.white : Reaches(E, n, q, x)
  <2>1. Reaches(E, n, q, q)
    BY ReachesFacts
  <2> QED
    BY <1>7, <2>1
<1> QED
  BY <1>7, <1>8, <1>9 DEF Rested, r

-----------------------------------------------------------------------------
(* Components.                                                             *)

Mutual(E, n, x, y) == Reaches(E, n, x, y) /\ Reaches(E, n, y, x)

LEMMA MutualFacts ==
  ASSUME NEW E, NEW n
  PROVE  /\ \A x : Mutual(E, n, x, x)
         /\ \A x, y : Mutual(E, n, x, y) => Mutual(E, n, y, x)
         /\ \A x, y, z : Mutual(E, n, x, y) /\ Mutual(E, n, y, z) => Mutual(E, n, x, z)
BY ReachesFacts DEF Mutual

(* Turned round, a graph leads from what is reached to what reaches it:    *)
(* what lies outside of a set that is shut is shut.                        *)
LEMMA TransposedFacts ==
  ASSUME NEW E, NEW n, GraphOn(E, n)
  PROVE  /\ GraphOn(Transposed(E), n)
         /\ \A x, y \in 1 .. n :
              Reaches(Transposed(E), n, x, y) <=> Reaches(E, n, y, x)
<1> DEFINE T == Transposed(E)
<1>1. /\ DOMAIN T = DOMAIN E
      /\ \A d \in DOMAIN E : T[d].source = E[d].sink /\ T[d].sink = E[d].source
  BY DEF Transposed
<1> HIDE DEF T
<1>2. GraphOn(T, n)
  BY <1>1 DEF GraphOn
<1>3. \A C \in SUBSET (1 .. n) :
        /\ ShutIn(E, C) => ShutIn(T, (1 .. n) \ C)
        /\ ShutIn(T, C) => ShutIn(E, (1 .. n) \ C)
  BY <1>1 DEF ShutIn, GraphOn
<1>4. ASSUME NEW x \in 1 .. n, NEW y \in 1 .. n, Reaches(T, n, x, y)
      PROVE  Reaches(E, n, y, x)
  <2> SUFFICES ASSUME NEW C \in SUBSET (1 .. n), y \in C, ShutIn(E, C), x \notin C
      PROVE  FALSE
    BY DEF Reaches
  <2> DEFINE D == (1 .. n) \ C
  <2>1. D \in SUBSET (1 .. n) /\ x \in D /\ y \notin D /\ ShutIn(T, D)
    BY <1>3
  <2> QED
    BY <1>4, <2>1 DEF Reaches
<1>5. ASSUME NEW x \in 1 .. n, NEW y \in 1 .. n, Reaches(E, n, y, x)
      PROVE  Reaches(T, n, x, y)
  <2> SUFFICES ASSUME NEW C \in SUBSET (1 .. n), x \in C, ShutIn(T, C), y \notin C
      PROVE  FALSE
    BY DEF Reaches
  <2> DEFINE D == (1 .. n) \ C
  <2>1. D \in SUBSET (1 .. n) /\ y \in D /\ x \notin D /\ ShutIn(E, D)
    BY <1>3
  <2> QED
    BY <1>5, <2>1 DEF Reaches
<1> QED
  BY <1>2, <1>4, <1>5 DEF T

LEMMA ListFacts ==
  ASSUME NEW n, NEW F \in Seq(1 .. n)
  PROVE  DOMAIN F = 1 .. Len(F) /\ Len(F) \in Nat /\ \A k \in DOMAIN F : F[k] \in 1 .. n
<1>1. DOMAIN F = 1 .. Len(F) /\ Len(F) \in Nat
  BY LenProperties
<1> QED
  BY <1>1, ElementOfSeq

(* The last vertex of a component to finish does so after everything its   *)
(* component reaches: what is finished before and still reaches out would  *)
(* lead to a vertex being searched, which is of the component.             *)
LEMMA LastToFinish ==
  ASSUME NEW E, NEW n, GraphOn(E, n), NEW F \in Seq(1 .. n),
         SearchOK(E, n, F, {}), Done(F) = 1 .. n,
         NEW i \in DOMAIN F, NEW x \in 1 .. n,
         Reaches(E, n, x, F[i]), ~Reaches(E, n, F[i], x)
  PROVE  \E k \in DOMAIN F : i < k /\ Mutual(E, n, x, F[k])
<1> DEFINE K == {k \in DOMAIN F : Mutual(E, n, x, F[k])}
<1>1. DOMAIN F = 1 .. Len(F) /\ Len(F) \in Nat /\ \A k \in DOMAIN F : F[k] \in 1 .. n
  BY ListFacts
<1>2. K /= {}
  <2>1. PICK k \in DOMAIN F : F[k] = x
    BY DEF Done
  <2>2. Mutual(E, n, x, x)
    BY MutualFacts
  <2> QED
    BY <2>1, <2>2
<1>3. PICK g \in K : \A k \in K : k <= g
  <2>1. K \subseteq 0 .. Len(F)
    BY <1>1
  <2> HIDE DEF K
  <2> QED
    BY <1>1, <1>2, <2>1, GreatestExists
<1>4. SUFFICES ASSUME g <= i PROVE FALSE
  BY <1>1, <1>3
<1>5. Mutual(E, n, x, F[g]) /\ g \in DOMAIN F
  BY <1>3
<1>6. Reaches(E, n, F[g], F[i])
  BY <1>5, ReachesFacts DEF Mutual
<1> DEFINE C == {y \in First(F, g) : Reaches(E, n, F[g], y)}
<1>7. C \in SUBSET (1 .. n) /\ F[g] \in C
  <2>1. First(F, g) \subseteq 1 .. n
    BY <1>1, <1>5 DEF First
  <2>2. F[g] \in First(F, g)
    BY <1>1, <1>5 DEF First
  <2>3. Reaches(E, n, F[g], F[g])
    BY ReachesFacts
  <2> QED
    BY <2>1, <2>2, <2>3
<1>8. ShutIn(E, C)
  <2> SUFFICES ASSUME NEW d \in DOMAIN E, E[d].source \in C
      PROVE  E[d].sink \in C
    BY DEF ShutIn
  <2>1. Reaches(E, n, F[g], E[d].sink)
    BY ReachesFacts
  <2>2. E[d].source \in First(F, g)
    OBVIOUS
  <2>3. CASE E[d].sink \in First(F, g)
    BY <2>1, <2>3
  <2>4. CASE E[d].sink \notin First(F, g)
    <3>1. Reaches(E, n, E[d].sink, F[g])
      BY <1>5, <2>2, <2>4 DEF SearchOK, InOrder
    <3>2. Mutual(E, n, x, E[d].sink)
      BY <1>5, <2>1, <3>1, ReachesFacts DEF Mutual
    <3>3. PICK k \in DOMAIN F : F[k] = E[d].sink
      BY DEF GraphOn, Done
    <3>4. k <= g
      BY <1>3, <3>2, <3>3
    <3>5. k \in 1 .. g
      BY <1>1, <1>5, <3>4
    <3> QED
      BY <2>4, <3>3, <3>5 DEF First
  <2> QED
    BY <2>3, <2>4
<1>9. F[i] \in C
  BY <1>6, <1>7, <1>8 DEF Reaches
<1>10. PICK k \in 1 .. g : F[k] = F[i]
  BY <1>9 DEF First
<1>11. k \in DOMAIN F
  BY <1>1, <1>5
<1>12. k = i
  BY <1>10, <1>11 DEF SearchOK
<1>13. g = i
  BY <1>1, <1>4, <1>5, <1>10, <1>12
<1> QED
  BY <1>5, <1>13 DEF Mutual

-----------------------------------------------------------------------------
(* The graphs of the partitions and of the components.                     *)

(* Once marked, a reference is in its partition.                           *)
Of(v) == partitions[v][1]

Prdg == GraphEdges(partitions)

LEMMA MarkedFacts ==
  ASSUME IInv, Marked
  PROVE  /\ p \in Nat
         /\ refs \subseteq Vertex
         /\ dependences \subseteq refs \X refs
         /\ dependences \subseteq Nat \X Nat
         /\ IsFiniteSet(dependences)
         /\ \A v \in refs : Of(v) \in 1 .. p /\ PartitionsOf(v) = {Of(v)}
<1>1. p \in Nat /\ refs \subseteq Vertex /\ dependences \subseteq refs \X refs
  BY DEF IInv, BodyOK, RdgTypeOK
<1>2. Vertex \subseteq Nat /\ IsFiniteSet(Vertex)
  <2>1. IsFiniteSet(Stmt)
    BY RdgAssumption, FS_Interval DEF Stmt
  <2>2. Vertex \subseteq Stmt
    BY DEF Vertex
  <2>3. Stmt \subseteq Nat
    BY RdgAssumption DEF Stmt
  <2>4. IsFiniteSet(Vertex)
    BY <2>1, <2>2, FS_Subset
  <2> QED
    BY <2>2, <2>3, <2>4
<1>3. IsFiniteSet(dependences)
  <2>1. IsFiniteSet(refs)
    BY <1>1, <1>2, FS_Subset
  <2>2. IsFiniteSet(refs \X refs)
    BY <2>1, FS_Product
  <2> QED
    BY <1>1, <2>2, FS_Subset
<1>4. ASSUME NEW v \in refs
      PROVE  Of(v) \in 1 .. p /\ PartitionsOf(v) = {Of(v)}
  <2> DEFINE s == partitions[v]
  <2>1. s \in Seq(1 .. p)
    BY <1>1 DEF IInv, RdgTypeOK
  <2>2. Len(s) = 1
    BY IInvImplies DEF ReferencesInOnePartition
  <2>3. Of(v) = s[1] /\ PartitionsOf(v) = {s[k] : k \in DOMAIN s}
    BY DEF Of, PartitionsOf
  <2> HIDE DEF s
  <2>4. DOMAIN s = {1}
    BY <2>1, <2>2
  <2>5. s[1] \in 1 .. p
    BY <2>1, <2>4, ListFacts
  <2> QED
    BY <2>3, <2>4, <2>5
<1> QED
  BY <1>1, <1>2, <1>3, <1>4

LEMMA PrdgFacts ==
  ASSUME IInv, Marked
  PROVE  /\ GraphOn(Prdg, p)
         /\ DOMAIN Prdg = dependences
         /\ \A d \in dependences : /\ Prdg[d].source = Of(d[2]) /\ Prdg[d].sink = Of(d[1])
                                   /\ d[1] \in refs /\ d[2] \in refs
<1>1. DOMAIN Prdg = dependences
  BY DEF Prdg, GraphEdges
<1>2. \A d \in dependences : Prdg[d].source = Of(d[2]) /\ Prdg[d].sink = Of(d[1])
  BY DEF Prdg, GraphEdges, Of
<1>3. \A d \in dependences : d[1] \in refs /\ d[2] \in refs
  BY MarkedFacts
<1>4. GraphOn(Prdg, p)
  BY <1>1, <1>2, <1>3, MarkedFacts DEF GraphOn
<1> QED
  BY <1>1, <1>2, <1>3, <1>4

(* What dependences keep together are the references of the partitions on  *)
(* a cycle of the graph.                                                   *)
LEMMA TogetherIsMutual ==
  ASSUME IInv, Marked, NEW v \in refs, NEW w \in refs
  PROVE  <<v, w>> \in Together <=> Mutual(Prdg, p, Of(v), Of(w))
<1> DEFINE T == Transposed(Prdg)
           Shut(C) ==
             \A e \in refs \X refs :
               /\ e[1] \in C
               /\ e \in dependences \/ PartitionsOf(e[1]) = PartitionsOf(e[2])
               => e[2] \in C
<1>1. <<v, w>> \in Together <=> \A C \in SUBSET refs : Shut(C) => (v \in C <=> w \in C)
  BY DEF Together
<1>2. /\ DOMAIN T = dependences
      /\ \A d \in dependences : /\ T[d].source = Of(d[1]) /\ T[d].sink = Of(d[2])
                                /\ d[1] \in refs /\ d[2] \in refs
  BY PrdgFacts DEF Transposed
<1>3. \A x, y \in refs : Reaches(T, p, Of(x), Of(y)) <=> Reaches(Prdg, p, Of(y), Of(x))
  BY PrdgFacts, MarkedFacts, TransposedFacts
<1> HIDE DEF T
<1>4. ASSUME NEW x \in refs, NEW y \in refs, Reaches(T, p, Of(x), Of(y)),
             NEW C \in SUBSET refs, Shut(C), x \in C
      PROVE  y \in C
  <2> DEFINE D == {Of(u) : u \in C}
  <2>1. \A u \in C, z \in refs : Of(u) = Of(z) => z \in C
    <3> SUFFICES ASSUME NEW u \in C, NEW z \in refs, Of(u) = Of(z) PROVE z \in C
      OBVIOUS
    <3>1. PartitionsOf(u) = PartitionsOf(z)
      BY MarkedFacts
    <3>2. <<u, z>> \in refs \X refs
      OBVIOUS
    <3> QED
      BY <1>4, <3>1, <3>2
  <2>2. \A d \in dependences : d[1] \in C => d[2] \in C
    BY <1>4, MarkedFacts
  <2>3. D \in SUBSET (1 .. p)
    BY MarkedFacts
  <2>4. ShutIn(T, D)
    BY <1>2, <2>1, <2>2 DEF ShutIn
  <2>5. Of(y) \in D
    BY <1>4, <2>3, <2>4 DEF Reaches
  <2> QED
    BY <2>1, <2>5
<1>5. ASSUME NEW x \in refs, NEW y \in refs,
             \A C \in SUBSET refs : Shut(C) => (x \in C => y \in C)
      PROVE  Reaches(T, p, Of(x), Of(y))
  <2> SUFFICES ASSUME NEW D \in SUBSET (1 .. p), Of(x) \in D, ShutIn(T, D)
      PROVE  Of(y) \in D
    BY DEF Reaches
  <2> DEFINE C == {u \in refs : Of(u) \in D}
  <2>1. \A e \in dependences : e[1] \in C => e[2] \in C
    BY <1>2 DEF ShutIn
  <2>2. \A u, z \in refs : PartitionsOf(u) = PartitionsOf(z) => Of(u) = Of(z)
    BY MarkedFacts
  <2>3. Shut(C)
    BY <2>1, <2>2
  <2>4. C \in SUBSET refs /\ x \in C
    OBVIOUS
  <2> HIDE DEF Shut
  <2>5. y \in C
    BY <1>5, <2>3, <2>4
  <2> QED
    BY <2>5
<1> HIDE DEF Shut
<1> QED
  BY <1>1, <1>3, <1>4, <1>5 DEF Mutual

-----------------------------------------------------------------------------
(* The invariant of the searches.                                          *)

(* The vertices to search, by finishing time: from a white one edges lead  *)
(* out of its component only to what the component outlasts.  Components   *)
(* are taken whole.                                                        *)
SortedOK(E, n, W, S) ==
  /\ S \in Seq(1 .. n)
  /\ W \subseteq Done(S)
  /\ \A x \in W : \A i \in DOMAIN S :
       Reaches(E, n, x, S[i]) /\ ~Reaches(E, n, S[i], x) =>
         \E k \in DOMAIN S : i < k /\ Mutual(E, n, x, S[k])
  /\ \A x \in W : \A y \in 1 .. n : Mutual(E, n, x, y) => y \in W

(* References have the number of their component once it is found, while   *)
(* partitions W are not.                                                   *)
Numbered(W) ==
  /\ nbSccs \in Nat
  /\ \A v \in refs : Of(v) \in W => sccs[v] = <<>>
  /\ \A v \in refs : Of(v) \notin W => \E c \in 1 .. nbSccs : sccs[v] = <<c>>
  /\ \A v, w \in refs : Of(v) \notin W /\ Of(w) \notin W =>
       (sccs[v] = sccs[w] <=> Mutual(Prdg, p, Of(v), Of(w)))

SearchInv ==
  /\ ~Marked \/ stage \in {"build_prdg", "dfs"} =>
       nbSccs = 0 /\ \A v \in refs : sccs[v] = <<>>
  /\ stage = "dfs" => edges = Prdg /\ Rested(Prdg, p, search)
  /\ stage = "scc" => /\ edges = Transposed(Prdg)
                      /\ Rested(Transposed(Prdg), p, search)
                      /\ SortedOK(Prdg, p, search.white, sorted)
                      /\ Numbered(search.white)
  /\ stage \in {"sort", "done"} => /\ edges = GraphEdges(sccs)
                                   /\ Rested(GraphEdges(sccs), nbSccs, search)
                                   /\ Numbered({})
  /\ stage = "done" => search.white = {} /\ plan = Reverse(search.finished)

(* Without its last vertex, when that is no longer white.                  *)
LEMMA FrontFacts ==
  ASSUME NEW n, NEW S \in Seq(1 .. n), S /= <<>>
  PROVE  /\ Front(S) \in Seq(1 .. n)
         /\ Len(S) \in Nat /\ Len(S) >= 1 /\ DOMAIN S = 1 .. Len(S)
         /\ DOMAIN Front(S) = 1 .. Len(S) - 1
         /\ \A i \in 1 .. Len(S) - 1 : Front(S)[i] = S[i]
         /\ Last(S) = S[Len(S)] /\ Last(S) \in 1 .. n
<1>1. Len(S) \in Nat /\ Len(S) >= 1 /\ DOMAIN S = 1 .. Len(S)
  BY EmptySeq, LenProperties
<1>2. /\ SubSeq(S, 1, Len(S) - 1) \in Seq(1 .. n)
      /\ Len(SubSeq(S, 1, Len(S) - 1)) = Len(S) - 1
      /\ \A i \in 1 .. Len(S) - 1 : SubSeq(S, 1, Len(S) - 1)[i] = S[i]
  <2> DEFINE m == Len(S) - 1
  <2>1. m \in Nat /\ \A i \in 1 .. m : S[i] \in 1 .. n
    BY <1>1, ListFacts
  <2> HIDE DEF m
  <2>2. /\ SubSeq(S, 1, m) \in Seq(1 .. n)
        /\ Len(SubSeq(S, 1, m)) = IF 1 <= m THEN m - 1 + 1 ELSE 0
        /\ \A i \in 1 .. m - 1 + 1 : SubSeq(S, 1, m)[i] = S[1 + i - 1]
    BY <2>1, SubSeqProperties
  <2>3. Len(SubSeq(S, 1, m)) = m /\ \A i \in 1 .. m : SubSeq(S, 1, m)[i] = S[i]
    BY <2>1, <2>2
  <2> QED
    BY <2>2, <2>3 DEF m
<1>3. Last(S) \in 1 .. n
  BY <1>1, ListFacts DEF Last
<1> QED
  BY <1>1, <1>2, <1>3 DEF Front, Last

LEMMA SortedFront ==
  ASSUME NEW E, NEW n, NEW W, NEW S, SortedOK(E, n, W, S), S /= <<>>,
         NEW V \in SUBSET W, Last(S) \notin V,
         \A x \in V : \A y \in 1 .. n : Mutual(E, n, x, y) => y \in V
  PROVE  SortedOK(E, n, V, Front(S))
<1> DEFINE F == Front(S)
           l == Len(S)
<1>1. /\ F \in Seq(1 .. n) /\ l \in Nat /\ l >= 1 /\ DOMAIN S = 1 .. l
      /\ DOMAIN F = 1 .. l - 1 /\ \A i \in 1 .. l - 1 : F[i] = S[i]
      /\ S[l] \notin V /\ S[l] \in 1 .. n
  BY FrontFacts DEF SortedOK
<1> HIDE DEF F, l
<1>2. V \subseteq Done(F)
  <2> SUFFICES ASSUME NEW x \in V PROVE x \in Done(F)
    OBVIOUS
  <2>1. PICK k \in 1 .. l : x = S[k]
    BY <1>1 DEF SortedOK, Done
  <2>2. k \in 1 .. l - 1
    BY <1>1, <2>1
  <2> QED
    BY <1>1, <2>1, <2>2 DEF Done
<1>3. ASSUME NEW x \in V, NEW i \in DOMAIN F,
             Reaches(E, n, x, F[i]), ~Reaches(E, n, F[i], x)
      PROVE  \E k \in DOMAIN F : i < k /\ Mutual(E, n, x, F[k])
  <2>1. i \in 1 .. l - 1 /\ i \in DOMAIN S /\ F[i] = S[i]
    BY <1>1
  <2>2. PICK k \in DOMAIN S : i < k /\ Mutual(E, n, x, S[k])
    BY <1>3, <2>1 DEF SortedOK
  <2>3. k /= l
    BY <1>1, <2>2
  <2>4. k \in 1 .. l - 1
    BY <1>1, <2>2, <2>3
  <2> QED
    BY <1>1, <2>2, <2>4
<1>4. SortedOK(E, n, V, F)
  BY <1>1, <1>2, <1>3 DEF SortedOK
<1> QED
  BY <1>4 DEF F

(* The first search in full puts the vertices in that order.               *)
LEMMA SearchSorts ==
  ASSUME NEW E, NEW n, GraphOn(E, n), NEW s, Rested(E, n, s), s.white = {}
  PROVE  SortedOK(E, n, 1 .. n, s.finished)
<1> DEFINE F == s.finished
<1>1. F \in Seq(1 .. n) /\ SearchOK(E, n, F, {}) /\ Done(F) = 1 .. n
  BY DEF Rested, Results
<1> HIDE DEF F
<1>2. \A x \in 1 .. n : \A i \in DOMAIN F :
        Reaches(E, n, x, F[i]) /\ ~Reaches(E, n, F[i], x) =>
          \E k \in DOMAIN F : i < k /\ Mutual(E, n, x, F[k])
  BY <1>1, LastToFinish
<1>3. SortedOK(E, n, 1 .. n, F)
  BY <1>1, <1>2 DEF SortedOK
<1> QED
  BY <1>3 DEF F

(* What the second search finds from the last of the vertices, if it is    *)
(* white, is its component.                                                *)
LEMMA ComponentFound ==
  ASSUME NEW E, NEW n, GraphOn(E, n), NEW s, Rested(Transposed(E), n, s),
         NEW S, SortedOK(E, n, s.white, S), S /= <<>>, Last(S) \in s.white
  PROVE  LET q == Last(S)
             r == Dfs(Transposed(E), n, q, s)
         IN  /\ Rested(Transposed(E), n, r)
             /\ r.white \subseteq s.white \ {q}
             /\ s.white \ r.white = {x \in 1 .. n : Mutual(E, n, x, q)}
<1> DEFINE T == Transposed(E)
           q == Last(S)
           r == Dfs(T, n, q, s)
<1>1. GraphOn(T, n) /\ \A x, y \in 1 .. n : Reaches(T, n, x, y) <=> Reaches(E, n, y, x)
  BY TransposedFacts
<1>2. Rested(T, n, s) /\ q \in s.white /\ s.white \subseteq 1 .. n
  BY DEF Rested, Results
<1>3. q = S[Len(S)] /\ Len(S) \in DOMAIN S /\ \A k \in DOMAIN S : ~(Len(S) < k)
  <2>1. S \in Seq(1 .. n)
    BY DEF SortedOK
  <2>2. Len(S) \in Nat /\ Len(S) >= 1 /\ DOMAIN S = 1 .. Len(S) /\ q = S[Len(S)]
    BY <2>1, FrontFacts
  <2> HIDE DEF q
  <2> QED
    BY <2>2
<1> HIDE DEF T, q
<1>4. /\ Rested(T, n, r)
      /\ r.white \subseteq s.white \ {q}
      /\ \A x \in s.white \ r.white : Reaches(T, n, q, x)
  BY <1>1, <1>2, DfsFinds
<1> HIDE DEF r
<1>5. ASSUME NEW x \in s.white \ r.white
      PROVE  x \in 1 .. n /\ Mutual(E, n, x, q)
  <2>1. Reaches(E, n, x, q)
    BY <1>1, <1>2, <1>4
  <2>2. Reaches(E, n, q, x)
    <3> SUFFICES ASSUME ~Reaches(E, n, q, x) PROVE FALSE
      OBVIOUS
    <3>1. \E k \in DOMAIN S : Len(S) < k /\ Mutual(E, n, x, S[k])
      BY <1>3, <2>1 DEF SortedOK
    <3> QED
      BY <1>3, <3>1
  <2> QED
    BY <1>2, <2>1, <2>2 DEF Mutual
<1>6. ASSUME NEW x \in 1 .. n, Mutual(E, n, x, q)
      PROVE  x \in s.white \ r.white
  <2>1. x \in s.white
    BY <1>2, <1>6, MutualFacts DEF SortedOK
  <2> DEFINE C == (1 .. n) \ r.white
  <2>2. C \in SUBSET (1 .. n) /\ q \in C
    BY <1>2, <1>4
  <2>3. ShutIn(T, C)
    <3>1. Done(r.finished) = C
      BY <1>4 DEF Rested
    <3>2. \A d \in DOMAIN T : T[d].source \in Done(r.finished) => T[d].sink \notin r.white
      BY <1>4 DEF Rested, SearchOK
    <3> QED
      BY <1>1, <3>1, <3>2 DEF ShutIn, GraphOn
  <2>4. Reaches(T, n, q, x)
    BY <1>1, <1>2, <1>6 DEF Mutual
  <2>5. x \in C
    BY <2>2, <2>3, <2>4 DEF Reaches
  <2> QED
    BY <2>1, <2>5
<1>7. s.white \ r.white = {x \in 1 .. n : Mutual(E, n, x, q)}
  BY <1>5, <1>6
<1> QED
  BY <1>4, <1>7 DEF T, q, r

(* The graph of the partitions, once they are made.                        *)
LEMMA SameGraph ==
  ASSUME UNCHANGED <<bodyVars, p, partitions>>
  PROVE  Prdg' = Prdg /\ \A v : Of(v)' = Of(v)
BY DEF Prdg, GraphEdges, Of, bodyVars

(* A reference gets the number of its component once.                      *)
LEMMA PushedIs ==
  ASSUME IInv, Marked, NEW v \in refs, NEW Q, NEW c
  PROVE  Pushed(v, Q, c) = IF Of(v) \in Q THEN <<c>> ELSE <<>>
<1>1. PartitionsOf(v) = {Of(v)}
  BY MarkedFacts
<1>2. CASE Of(v) \in Q
  <2>1. Q \cap PartitionsOf(v) = {Of(v)}
    BY <1>1, <1>2
  <2>2. Cardinality(Q \cap PartitionsOf(v)) = 1
    BY <2>1, FS_Singleton
  <2>3. Pushed(v, Q, c) = [i \in 1 .. 1 |-> c]
    BY <2>2 DEF Pushed
  <2>4. <<c>> = [i \in 1 .. 1 |-> c]
    OBVIOUS
  <2> QED
    BY <1>2, <2>3, <2>4
<1>3. CASE Of(v) \notin Q
  <2>1. Q \cap PartitionsOf(v) = {}
    BY <1>1, <1>3
  <2>2. Cardinality(Q \cap PartitionsOf(v)) = 0
    BY <2>1, FS_EmptySet
  <2>3. Pushed(v, Q, c) = [i \in 1 .. 0 |-> c]
    BY <2>2 DEF Pushed
  <2>4. <<>> = [i \in 1 .. 0 |-> c]
    OBVIOUS
  <2> QED
    BY <1>3, <2>3, <2>4
<1> QED
  BY <1>2, <1>3

(* The graph of the components.                                            *)
LEMMA SccGraphFacts ==
  ASSUME IInv, Marked, Numbered({})
  PROVE  /\ GraphOn(GraphEdges(sccs), nbSccs)
         /\ DOMAIN GraphEdges(sccs) = dependences
         /\ \A d \in dependences : /\ GraphEdges(sccs)[d].source = sccs[d[2]][1]
                                   /\ GraphEdges(sccs)[d].sink = sccs[d[1]][1]
                                   /\ d[1] \in refs /\ d[2] \in refs
         /\ \A v \in refs : sccs[v] = <<sccs[v][1]>> /\ sccs[v][1] \in 1 .. nbSccs
<1>1. /\ DOMAIN GraphEdges(sccs) = dependences
      /\ \A d \in dependences : /\ GraphEdges(sccs)[d].source = sccs[d[2]][1]
                                /\ GraphEdges(sccs)[d].sink = sccs[d[1]][1]
  BY DEF GraphEdges
<1>2. \A d \in dependences : d[1] \in refs /\ d[2] \in refs
  BY MarkedFacts
<1>3. ASSUME NEW v \in refs
      PROVE  sccs[v] = <<sccs[v][1]>> /\ sccs[v][1] \in 1 .. nbSccs
  <2>1. PICK c \in 1 .. nbSccs : sccs[v] = <<c>>
    BY DEF Numbered
  <2>2. sccs[v][1] = c
    BY <2>1
  <2> QED
    BY <2>1, <2>2
<1>4. GraphOn(GraphEdges(sccs), nbSccs)
  BY <1>1, <1>2, <1>3, MarkedFacts DEF GraphOn, Numbered
<1> QED
  BY <1>1, <1>2, <1>3, <1>4

LEMMA BuildPrdgSearch ==
  ASSUME IInv, SearchInv, BuildPrdg
  PROVE  SearchInv'
<1>1. Marked
  BY DEF BuildPrdg, Marked
<1>2. Rested(Prdg, p, Unsearched(p))
  BY <1>1, MarkedFacts, UnsearchedRests
<1>3. /\ stage' = "dfs" /\ Prdg' = Prdg /\ edges' = Prdg /\ search' = Unsearched(p)
      /\ p' = p /\ nbSccs' = nbSccs /\ sccs' = sccs /\ refs' = refs
  BY SameGraph DEF BuildPrdg, Prdg, bodyVars
<1>4. nbSccs = 0 /\ \A v \in refs : sccs[v] = <<>>
  BY DEF SearchInv, BuildPrdg
<1> QED
  BY <1>2, <1>3, <1>4 DEF SearchInv, Marked

LEMMA DfsRdgpSearch ==
  ASSUME IInv, SearchInv, DfsRdgp
  PROVE  SearchInv'
<1>1. PICK q \in search.white :
        search' = Dfs(edges, IF stage = "dfs" THEN p ELSE nbSccs, q, search)
  BY DEF DfsRdgp
<1>2. /\ stage' = stage /\ Prdg' = Prdg /\ edges' = edges /\ p' = p
      /\ nbSccs' = nbSccs /\ sccs' = sccs /\ refs' = refs /\ dependences' = dependences
      /\ \A v : Of(v)' = Of(v)
      /\ GraphEdges(sccs)' = GraphEdges(sccs)
  BY SameGraph DEF DfsRdgp, rdgVars, bodyVars, GraphEdges
<1>3. Marked /\ stage \in {"dfs", "sort"}
  BY DEF DfsRdgp, Marked
<1>4. CASE stage = "dfs"
  <2>1. Rested(Prdg, p, search')
    BY <1>1, <1>3, <1>4, PrdgFacts, DfsFinds DEF SearchInv
  <2> QED
    BY <1>2, <1>4, <2>1 DEF SearchInv, Marked
<1>5. CASE stage = "sort"
  <2>1. GraphOn(GraphEdges(sccs), nbSccs)
    BY <1>3, <1>5, SccGraphFacts DEF SearchInv
  <2>2. Rested(GraphEdges(sccs), nbSccs, search')
    BY <1>1, <1>5, <2>1, DfsFinds DEF SearchInv
  <2>3. Numbered({})'
    BY <1>2, <1>5 DEF SearchInv, Numbered
  <2> QED
    BY <1>2, <1>5, <2>2, <2>3 DEF SearchInv, Marked
<1> QED
  BY <1>3, <1>4, <1>5

LEMMA TransposeSearch ==
  ASSUME IInv, SearchInv, Transpose
  PROVE  SearchInv'
<1>1. Marked /\ stage = "dfs"
  BY DEF Transpose, Marked
<1>2. /\ stage' = "scc" /\ Prdg' = Prdg /\ p' = p /\ refs' = refs
      /\ nbSccs' = nbSccs /\ sccs' = sccs /\ \A v : Of(v)' = Of(v)
      /\ edges' = Transposed(edges) /\ sorted' = search.finished
      /\ search' = Unsearched(p) /\ search.white = {}
  BY SameGraph DEF Transpose, bodyVars
<1>3. edges = Prdg /\ Rested(Prdg, p, search) /\ nbSccs = 0 /\ \A v \in refs : sccs[v] = <<>>
  BY <1>1 DEF SearchInv
<1>4. SortedOK(Prdg, p, 1 .. p, search.finished)
  BY <1>1, <1>2, <1>3, PrdgFacts, SearchSorts
<1>5. search'.white = 1 .. p
  BY <1>2 DEF Unsearched
<1>6. Rested(Transposed(Prdg), p, Unsearched(p))
  BY <1>1, MarkedFacts, UnsearchedRests
<1>7. \A v \in refs : Of(v) \in 1 .. p
  BY <1>1, MarkedFacts
<1>8. Numbered(search.white)'
  BY <1>2, <1>3, <1>5, <1>7 DEF Numbered
<1> QED
  BY <1>2, <1>3, <1>4, <1>5, <1>6, <1>8 DEF SearchInv, Marked

LEMMA NothingMore ==
  ASSUME NEW n, NEW b \in 1 .. n
  PROVE  /\ <<>> \o <<>> = <<>> /\ <<>> \o <<b>> = <<b>>
         /\ \A c \in 1 .. n : <<c>> \o <<>> = <<c>>
<1>1. <<>> \in Seq(1 .. n) /\ \A c \in 1 .. n : <<c>> \in Seq(1 .. n)
  OBVIOUS
<1> QED
  BY <1>1, ConcatEmptySeq

(* A vertex that is not white is passed over; the search from one that is  *)
(* finds its component, which gets the next number.                        *)
LEMMA FindSccSearch ==
  ASSUME IInv, SearchInv, FindScc
  PROVE  SearchInv'
<1> DEFINE q == Last(sorted)
           found == Dfs(edges, p, q, search)
           W == search.white
           new == W \ found.white
           nb == nbSccs + 1
<1>1. Marked /\ stage = "scc" /\ sorted /= <<>>
  BY DEF FindScc, Marked
<1>2. /\ edges = Transposed(Prdg)
      /\ Rested(Transposed(Prdg), p, search)
      /\ SortedOK(Prdg, p, W, sorted)
      /\ Numbered(W)
  BY <1>1 DEF SearchInv
<1>3. /\ stage' = "scc" /\ Prdg' = Prdg /\ p' = p /\ refs' = refs /\ edges' = edges
      /\ \A v : Of(v)' = Of(v)
      /\ sorted' = Front(sorted)
  BY <1>1, SameGraph DEF FindScc, bodyVars
<1>4. /\ GraphOn(Prdg, p) /\ \A v \in refs : Of(v) \in 1 .. p
      /\ refs \subseteq Vertex
  BY <1>1, PrdgFacts, MarkedFacts
<1>5. \A x, y : /\ Mutual(Prdg, p, x, y) => Mutual(Prdg, p, y, x)
                /\ \A z : Mutual(Prdg, p, x, y) /\ Mutual(Prdg, p, y, z) =>
                            Mutual(Prdg, p, x, z)
  BY MutualFacts
<1>6. CASE q \notin W
  <2>1. nbSccs' = nbSccs /\ search' = search /\ sccs' = sccs
    BY <1>6 DEF FindScc
  <2>2. SortedOK(Prdg, p, W, Front(sorted))
    <3>1. \A x \in W : \A y \in 1 .. p : Mutual(Prdg, p, x, y) => y \in W
      BY <1>2 DEF SortedOK
    <3> QED
      BY <1>1, <1>2, <1>6, <3>1, SortedFront
  <2>3. Numbered(search.white)'
    BY <1>2, <1>3, <2>1 DEF Numbered
  <2> QED
    BY <1>2, <1>3, <2>1, <2>2, <2>3 DEF SearchInv, Marked
<1>7. CASE q \in W
  <2>1. /\ nbSccs' = nb /\ search' = found
        /\ \A v \in Vertex : sccs'[v] = sccs[v] \o Pushed(v, new, nb)
    BY <1>7 DEF FindScc
  <2>2. /\ Rested(Transposed(Prdg), p, found)
        /\ found.white \subseteq W \ {q}
        /\ new = {x \in 1 .. p : Mutual(Prdg, p, x, q)}
    BY <1>1, <1>2, <1>4, <1>7, ComponentFound
  <2>3. nbSccs \in Nat /\ \A v \in refs : Of(v) \in W => sccs[v] = <<>>
    BY <1>2 DEF Numbered
  <2>4. \A x \in W : \A y \in 1 .. p : Mutual(Prdg, p, x, y) => y \in W
    BY <1>2 DEF SortedOK
  <2>5. nb \in Nat /\ nbSccs < nb /\ nb \in 1 .. nb
    BY <2>3
  <2> DEFINE V == found.white
  <2>6. \A x : x \in new <=> x \in W /\ x \notin V
    OBVIOUS
  <2> HIDE DEF q, found, W, new, nb, V
  <2>7. SortedOK(Prdg, p, V, Front(sorted))
    <3>1. ASSUME NEW x \in V, NEW y \in 1 .. p, Mutual(Prdg, p, x, y)
          PROVE  y \in V
      <4>1. x \in W /\ y \in W
        BY <2>2, <2>4, <3>1 DEF V
      <4>2. SUFFICES ASSUME y \in new PROVE FALSE
        BY <2>6, <4>1
      <4>3. x \in 1 .. p
        BY <1>2, <4>1 DEF Rested, Results, W
      <4>4. x \in new
        BY <1>5, <2>2, <3>1, <4>2, <4>3
      <4> QED
        BY <2>6, <4>4
    <3>2. V \in SUBSET W /\ Last(sorted) \notin V
      BY <2>2 DEF V, q
    <3> QED
      BY <1>1, <1>2, <3>1, <3>2, SortedFront
  <2>8. ASSUME NEW v \in refs
        PROVE  /\ Of(v) \in V => sccs'[v] = <<>>
               /\ Of(v) \in new => sccs'[v] = <<nb>>
               /\ Of(v) \notin W => \E c \in 1 .. nbSccs : sccs'[v] = <<c>> /\ sccs[v] = <<c>>
    <3>1. sccs'[v] = sccs[v] \o (IF Of(v) \in new THEN <<nb>> ELSE <<>>)
      <4>1. sccs'[v] = sccs[v] \o Pushed(v, new, nb)
        BY <1>4, <2>1
      <4>2. Pushed(v, new, nb) = IF Of(v) \in new THEN <<nb>> ELSE <<>>
        BY <1>1, PushedIs
      <4> QED
        BY <4>1, <4>2
    <3>2. /\ <<>> \o <<>> = <<>> /\ <<>> \o <<nb>> = <<nb>>
          /\ \A c \in 1 .. nb : <<c>> \o <<>> = <<c>>
      BY <2>5, NothingMore
    <3>3. CASE Of(v) \in V
      <4>1. Of(v) \in W
        BY <2>2, <3>3 DEF V
      <4> QED
        BY <2>3, <2>6, <3>1, <3>2, <3>3, <4>1
    <3>4. CASE Of(v) \in new
      BY <2>3, <2>6, <3>1, <3>2, <3>4
    <3>5. CASE Of(v) \notin W
      <4>1. PICK c \in 1 .. nbSccs : sccs[v] = <<c>>
        BY <1>2, <3>5 DEF Numbered
      <4>2. Of(v) \notin V /\ Of(v) \notin new
        BY <2>2, <2>6, <3>5 DEF V
      <4>3. c \in 1 .. nb
        BY <2>3, <2>5
      <4>4. sccs'[v] = <<c>> \o <<>>
        BY <3>1, <4>1, <4>2
      <4>5. sccs'[v] = <<c>>
        BY <3>2, <4>3, <4>4
      <4> QED
        BY <4>1, <4>2, <4>5
    <3> QED
      BY <2>6, <3>3, <3>4, <3>5
  <2>9. Numbered(search.white)'
    <3>1. \A v \in refs : Of(v) \notin V => Of(v) \in new \/ Of(v) \notin W
      BY <2>6
    <3>2. \A v \in refs : Of(v) \notin V => \E c \in 1 .. nb : sccs'[v] = <<c>>
      BY <2>3, <2>5, <2>8, <3>1
    <3>3. ASSUME NEW v \in refs, NEW w \in refs, Of(v) \notin V, Of(w) \notin V
          PROVE  sccs'[v] = sccs'[w] <=> Mutual(Prdg, p, Of(v), Of(w))
      <4>1. \A c, e : <<c>> = <<e>> => c = e
        OBVIOUS
      <4>2. ASSUME NEW x \in refs, NEW y \in refs, Of(x) \in new, Of(y) \notin W
            PROVE  /\ sccs'[x] /= sccs'[y]
                   /\ ~Mutual(Prdg, p, Of(x), Of(y)) /\ ~Mutual(Prdg, p, Of(y), Of(x))
        <5>1. PICK c \in 1 .. nbSccs : sccs'[y] = <<c>>
          BY <2>8, <4>2
        <5>2. sccs'[x] = <<nb>> /\ c /= nb
          BY <2>3, <2>5, <2>8, <4>2
        <5>3. Of(x) \in W /\ Of(y) \in 1 .. p
          BY <1>4, <2>6, <4>2
        <5>4. ~Mutual(Prdg, p, Of(x), Of(y))
          BY <2>4, <4>2, <5>3
        <5> QED
          BY <1>5, <4>1, <5>1, <5>2, <5>4
      <4>3. CASE Of(v) \in new /\ Of(w) \in new
        <5>1. sccs'[v] = sccs'[w]
          BY <2>8, <4>3
        <5>2. Mutual(Prdg, p, Of(v), q) /\ Mutual(Prdg, p, Of(w), q)
          BY <2>2, <4>3
        <5> QED
          BY <1>5, <5>1, <5>2
      <4>4. CASE Of(v) \notin W /\ Of(w) \notin W
        <5>1. sccs'[v] = sccs[v] /\ sccs'[w] = sccs[w]
          BY <2>8, <4>4
        <5> QED
          BY <1>2, <4>4, <5>1 DEF Numbered
      <4>5. CASE Of(v) \in new /\ Of(w) \notin W
        BY <4>2, <4>5
      <4>6. CASE Of(w) \in new /\ Of(v) \notin W
        BY <4>2, <4>6
      <4> QED
        BY <3>1, <3>3, <4>3, <4>4, <4>5, <4>6
    <3>4. search'.white = V
      BY <2>1 DEF V
    <3> QED
      BY <1>3, <2>1, <2>5, <2>8, <3>2, <3>3, <3>4 DEF Numbered
  <2>10. search'.white = V /\ search' = found
    BY <2>1 DEF V
  <2> QED
    BY <1>2, <1>3, <2>2, <2>7, <2>9, <2>10 DEF SearchInv, Marked
<1> QED
  BY <1>6, <1>7

LEMMA BuildSccGraphSearch ==
  ASSUME IInv, SearchInv, BuildSccGraph
  PROVE  SearchInv'
<1>1. Marked /\ stage = "scc" /\ sorted = <<>>
  BY DEF BuildSccGraph, Marked
<1>2. /\ stage' = "sort" /\ refs' = refs /\ dependences' = dependences /\ p' = p
      /\ Prdg' = Prdg /\ \A v : Of(v)' = Of(v)
      /\ nbSccs' = nbSccs /\ sccs' = sccs /\ search' = Unsearched(nbSccs)
      /\ edges' = GraphEdges(sccs)
  BY SameGraph DEF BuildSccGraph, bodyVars
<1>3. search.white \subseteq Done(<<>>) /\ Numbered(search.white)
  BY <1>1 DEF SearchInv, SortedOK
<1>4. Done(<<>>) = {}
  BY DEF Done
<1>5. search.white = {}
  BY <1>3, <1>4
<1>6. Numbered({})
  BY <1>3, <1>5
<1>7. Rested(GraphEdges(sccs), nbSccs, Unsearched(nbSccs))
  BY <1>6, UnsearchedRests DEF Numbered
<1>8. Numbered({})'
  BY <1>2, <1>6 DEF Numbered
<1>9. GraphEdges(sccs)' = GraphEdges(sccs)
  BY <1>2 DEF GraphEdges
<1> QED
  BY <1>2, <1>7, <1>8, <1>9 DEF SearchInv, Marked

LEMMA TopologicalSortSearch ==
  ASSUME IInv, SearchInv, TopologicalSort
  PROVE  SearchInv'
<1>1. stage = "sort"
  BY DEF TopologicalSort
<1>2. /\ stage' = "done" /\ refs' = refs /\ dependences' = dependences /\ p' = p
      /\ Prdg' = Prdg /\ \A v : Of(v)' = Of(v)
      /\ nbSccs' = nbSccs /\ sccs' = sccs /\ search' = search /\ edges' = edges
      /\ search.white = {} /\ plan' = Reverse(search.finished)
  BY SameGraph DEF TopologicalSort, bodyVars
<1>3. /\ edges = GraphEdges(sccs)
      /\ Rested(GraphEdges(sccs), nbSccs, search)
      /\ Numbered({})
  BY <1>1 DEF SearchInv
<1>4. Numbered({})'
  BY <1>2, <1>3 DEF Numbered
<1>5. GraphEdges(sccs)' = GraphEdges(sccs)
  BY <1>2 DEF GraphEdges
<1> QED
  BY <1>2, <1>3, <1>4, <1>5 DEF SearchInv, Marked

LEMMA InitSearch ==
  ASSUME Init
  PROVE  SearchInv
<1>1. refs \subseteq Vertex
  BY DEF Init, RdgInit, BodyInit
<1> QED
  BY <1>1 DEF Init, RdgInit, SearchInv

LEMMA NextSearch ==
  ASSUME IInv, SearchInv, [Next]_vars
  PROVE  SearchInv'
<1>1. CASE RdgNext /\ UNCHANGED graphVars
  <2>1. /\ stage \in {"check", "mark"}
        /\ stage' \in {"rejected", "mark", "build_prdg"}
        /\ refs' = refs /\ nbSccs' = nbSccs /\ sccs' = sccs
    BY <1>1, MarkRestIInv DEF RdgNext, Rejects, BuildRdg, MarkSingle, MarkReference,
                              MarkRest, graphVars, bodyVars
  <2>2. nbSccs = 0 /\ \A v \in refs : sccs[v] = <<>>
    BY <2>1 DEF SearchInv, Marked
  <2> QED
    BY <2>1, <2>2 DEF SearchInv
<1>2. CASE UNCHANGED vars
  BY <1>2, SameGraph
     DEF vars, rdgVars, graphVars, bodyVars, SearchInv, Marked, Numbered, GraphEdges
<1> QED
  BY <1>1, <1>2, BuildPrdgSearch, DfsRdgpSearch, TransposeSearch, FindSccSearch,
     BuildSccGraphSearch, TopologicalSortSearch DEF Next

(* The two searches put two references into one component exactly when     *)
(* dependences keep them in one loop, and each into one.                   *)
THEOREM ComponentsAlwaysExact == Spec => []SccsAreComponents
<1>1. IInv /\ SearchInv => SccsAreComponents
  <2> SUFFICES ASSUME IInv, SearchInv, stage \in {"sort", "done"}
      PROVE  /\ \A v \in refs : Len(sccs[v]) = 1
             /\ \A v, w \in refs : sccs[v] = sccs[w] <=> <<v, w>> \in Together
    BY DEF SccsAreComponents
  <2>1. Marked /\ Numbered({})
    BY DEF Marked, SearchInv
  <2>2. ASSUME NEW v \in refs PROVE Len(sccs[v]) = 1
    <3>1. PICK c \in 1 .. nbSccs : sccs[v] = <<c>>
      BY <2>1 DEF Numbered
    <3> QED
      BY <3>1
  <2>3. \A v, w \in refs : sccs[v] = sccs[w] <=> Mutual(Prdg, p, Of(v), Of(w))
    BY <2>1 DEF Numbered
  <2> QED
    BY <2>1, <2>2, <2>3, TogetherIsMutual
<1>2. Spec => [](IInv /\ SearchInv)
  BY InitIInv, NextIInv, InitSearch, NextSearch, PTL DEF Spec
<1> QED
  BY <1>1, <1>2, PTL

-----------------------------------------------------------------------------
(* The plan.                                                               *)

(* Components reach each other only as their partitions do.                *)
LEMMA ComponentsReach ==
  ASSUME IInv, Marked, Numbered({}), NEW v \in refs, NEW w \in refs,
         Reaches(GraphEdges(sccs), nbSccs, sccs[v][1], sccs[w][1])
  PROVE  Reaches(Prdg, p, Of(v), Of(w))
<1> DEFINE G == GraphEdges(sccs)
<1> SUFFICES ASSUME NEW C \in SUBSET (1 .. p), Of(v) \in C, ShutIn(Prdg, C)
    PROVE  Of(w) \in C
  BY DEF Reaches
<1> DEFINE K == {sccs[u][1] : u \in {r \in refs : Of(r) \in C}}
<1>1. ASSUME NEW u \in refs, NEW z \in refs, sccs[u][1] = sccs[z][1], Of(u) \in C
      PROVE  Of(z) \in C
  <2>1. sccs[u] = sccs[z]
    BY <1>1, SccGraphFacts
  <2>2. Reaches(Prdg, p, Of(u), Of(z))
    BY <2>1 DEF Numbered, Mutual
  <2> QED
    BY <1>1, <2>2 DEF Reaches
<1>2. /\ DOMAIN G = dependences
      /\ \A d \in dependences : /\ G[d].source = sccs[d[2]][1] /\ G[d].sink = sccs[d[1]][1]
                                /\ d[1] \in refs /\ d[2] \in refs
  BY SccGraphFacts
<1> HIDE DEF G
<1>3. ShutIn(G, K)
  <2> SUFFICES ASSUME NEW d \in dependences, G[d].source \in K PROVE G[d].sink \in K
    BY <1>2 DEF ShutIn
  <2>1. PICK u \in refs : Of(u) \in C /\ sccs[u][1] = sccs[d[2]][1]
    BY <1>2
  <2>2. Of(d[2]) \in C
    BY <1>1, <1>2, <2>1
  <2>3. Of(d[1]) \in C
    BY <2>2, PrdgFacts DEF ShutIn
  <2> QED
    BY <1>2, <2>3
<1>4. K \in SUBSET (1 .. nbSccs) /\ sccs[v][1] \in K
  BY SccGraphFacts
<1>5. sccs[w][1] \in K
  BY <1>3, <1>4 DEF Reaches, G
<1> QED
  BY <1>1, <1>5

(* A component's place in the plan, counted from the end, is the place at  *)
(* which it finished.                                                      *)
LEMMA PlaceIs ==
  ASSUME NEW n, NEW F \in Seq(1 .. n), plan = Reverse(F),
         \A i, j \in DOMAIN F : F[i] = F[j] => i = j,
         NEW v, NEW i \in DOMAIN F, F[i] = sccs[v][1]
  PROVE  Len(F) \in Nat /\ i \in 1 .. Len(F) /\ Place(v) = Len(F) - i + 1
<1> DEFINE l == Len(F)
           k == l - i + 1
<1>1. l \in Nat /\ i \in 1 .. l /\ DOMAIN F = 1 .. l
  BY ListFacts
<1>2. DOMAIN plan = 1 .. l /\ \A j \in 1 .. l : plan[j] = F[(l - j) + 1]
  BY DEF Reverse
<1>3. k \in 1 .. l /\ (l - k) + 1 = i
  BY <1>1
<1> HIDE DEF l
<1>4. plan[k] = sccs[v][1]
  BY <1>2, <1>3
<1>5. ASSUME NEW j \in DOMAIN plan, plan[j] = sccs[v][1]
      PROVE  j = k
  <2> DEFINE m == (l - j) + 1
  <2>1. m \in 1 .. l /\ F[m] = F[i]
    BY <1>1, <1>2, <1>5
  <2> HIDE DEF m
  <2>2. m = i
    BY <1>1, <2>1
  <2> QED
    BY <1>1, <1>2, <1>5, <2>2 DEF m
<1> HIDE DEF k
<1>6. Place(v) = k
  BY <1>2, <1>3, <1>4, <1>5 DEF Place
<1> QED
  BY <1>1, <1>6 DEF k, l

(* Read from its end the plan runs the source of every dependence no later *)
(* than its sink: the source's component finishes after those it has edges *)
(* to, unless they reach it and are of its component.                      *)
THEOREM ReversedPlanAlwaysKeeps == Spec => []ReversedPlanKeepsDependences
<1>1. IInv /\ SearchInv => ReversedPlanKeepsDependences
  <2> SUFFICES ASSUME IInv, SearchInv, stage = "done", NEW d \in dependences
      PROVE  Place(d[2]) <= Place(d[1])
    BY DEF ReversedPlanKeepsDependences
  <2> DEFINE F == search.finished
             G == GraphEdges(sccs)
             a == sccs[d[2]][1]
             b == sccs[d[1]][1]
  <2>1. /\ Marked /\ Numbered({}) /\ plan = Reverse(F)
        /\ Rested(G, nbSccs, search) /\ search.white = {}
    BY DEF Marked, SearchInv
  <2>2. /\ F \in Seq(1 .. nbSccs) /\ Done(F) = 1 .. nbSccs
        /\ \A i, j \in DOMAIN F : F[i] = F[j] => i = j
        /\ InOrder(G, nbSccs, F)
    BY <2>1 DEF Rested, Results, SearchOK
  <2>3. /\ d \in DOMAIN G /\ G[d].source = a /\ G[d].sink = b
        /\ d[1] \in refs /\ d[2] \in refs
        /\ sccs[d[1]] = <<b>> /\ sccs[d[2]] = <<a>>
        /\ a \in 1 .. nbSccs /\ b \in 1 .. nbSccs
    BY <2>1, SccGraphFacts
  <2> HIDE DEF F, G
  <2>4. PICK i \in DOMAIN F : F[i] = a
    BY <2>2, <2>3 DEF Done
  <2>5. PICK j \in DOMAIN F : F[j] = b
    BY <2>2, <2>3 DEF Done
  <2>6. /\ Len(F) \in Nat /\ i \in 1 .. Len(F) /\ j \in 1 .. Len(F)
        /\ Place(d[2]) = Len(F) - i + 1 /\ Place(d[1]) = Len(F) - j + 1
    BY <2>1, <2>2, <2>4, <2>5, PlaceIs
  <2>7. ~(i < j)
    <3> SUFFICES ASSUME i < j PROVE FALSE
      OBVIOUS
    <3>1. a \in First(F, i)
      BY <2>4, <2>6 DEF First
    <3>2. b \notin First(F, i)
      <4> SUFFICES ASSUME NEW k \in 1 .. i, F[k] = b PROVE FALSE
        BY DEF First
      <4>1. k \in DOMAIN F
        BY <2>2, <2>6, ListFacts
      <4>2. k = j
        BY <2>2, <2>5, <4>1
      <4> QED
        BY <2>6, <4>2
    <3>3. Reaches(G, nbSccs, b, a)
      BY <2>2, <2>3, <2>4, <3>1, <3>2 DEF InOrder
    <3>4. Reaches(Prdg, p, Of(d[1]), Of(d[2]))
      BY <2>1, <2>3, <3>3, ComponentsReach DEF G
    <3>5. Reaches(Prdg, p, Of(d[2]), Of(d[1]))
      BY <2>1, PrdgFacts, ReachesFacts
    <3>6. sccs[d[1]] = sccs[d[2]]
      BY <2>1, <2>3, <3>4, <3>5 DEF Numbered, Mutual
    <3>7. F[i] = F[j]
      BY <2>4, <2>5, <3>6
    <3>8. i = j
      BY <2>2, <3>7
    <3> QED
      BY <2>6, <3>8
  <2> HIDE DEF a, b
  <2> QED
    BY <2>6, <2>7
<1>2. Spec => [](IInv /\ SearchInv)
  BY InitIInv, NextIInv, InitSearch, NextSearch, PTL DEF Spec
<1> QED
  BY <1>1, <1>2, PTL

=============================================================================
