------------------------- MODULE LoopFission_proofs -------------------------
(***************************************************************************)
(* Proofs about the pipeline: whatever the body of the loop, its def-use   *)
(* relation and its dependences, the graph is exact, the partitions are    *)
(* the components, and splitting by them runs every instruction once and   *)
(* erases nothing that is still used.                                      *)
(***************************************************************************)
EXTENDS LoopFission, FiniteSetTheorems, SequenceTheorems, LeastNumber, TLAPS

-----------------------------------------------------------------------------
(* The loop body and its dependence graph.                                 *)

(* What is known of the body: the answers for a pair mirror each other;    *)
(* increment and branch depend on nothing; the instructions are allocated  *)
(* each once.                                                              *)
BodyOK ==
  /\ inc \in Inst \ {Br}
  /\ Canonical => inc = BodySize - 1
  /\ uses \subseteq {p \in Inst \X (Inst \ {Br, inc}) :
                       p[1] < p[2] /\ (Canonical => p[1] /= inc)}
  /\ \A a, b \in Inst : "EQ" \in direction[<<a, b>>] => "EQ" \in direction[<<b, a>>]
  /\ \A a, b \in Inst : b \in {inc, Br} =>
       direction[<<a, b>>] = {} /\ direction[<<b, a>>] = {}
  /\ allocated \in Orderings
  /\ Canonical => allocated = [i \in Inst |-> i]

LEMMA BodyInitOK == BodyInit => BodyOK
<1> SUFFICES ASSUME BodyInit PROVE BodyOK
  OBVIOUS
<1>0. BodySize \in Nat /\ BodySize >= 2
  BY BodyAssumption
<1>1. inc \in Inst \ {Br} /\ (Canonical => inc = BodySize - 1)
  BY <1>0 DEF BodyInit, Inst, Br
<1> DEFINE Ahead == {p \in (Inst \ {inc, Br}) \X (Inst \ {inc, Br}) : p[1] < p[2]}
<1>2. PICK f \in [Ahead -> SUBSET {"LT", "EQ", "GT"}] :
        direction = [p \in Inst \X Inst |->
          IF p \in Ahead THEN f[p]
          ELSE IF <<p[2], p[1]>> \in Ahead THEN Mirrored(f[<<p[2], p[1]>>])
          ELSE {}]
  BY DEF BodyInit, Directions
<1>3. \A a, b \in Inst : direction[<<a, b>>] =
        IF <<a, b>> \in Ahead THEN f[<<a, b>>]
        ELSE IF <<b, a>> \in Ahead THEN Mirrored(f[<<b, a>>]) ELSE {}
  <2> HIDE DEF Ahead
  <2> QED
    BY <1>2
<1>4. \A a, b \in Inst : <<a, b>> \in Ahead => <<b, a>> \notin Ahead
  BY <1>0 DEF Inst
<1>5. ASSUME NEW D \in SUBSET {"LT", "EQ", "GT"}
      PROVE  "EQ" \in Mirrored(D) <=> "EQ" \in D
  BY DEF Mirrored
<1>6. \A a, b \in Inst : "EQ" \in direction[<<a, b>>] => "EQ" \in direction[<<b, a>>]
  <2> HIDE DEF Ahead
  <2>1. \A p \in Ahead : f[p] \in SUBSET {"LT", "EQ", "GT"}
    BY <1>2
  <2> QED
    BY <1>3, <1>4, <1>5, <2>1
<1>7. \A a, b \in Inst : b \in {inc, Br} => direction[<<a, b>>] = {} /\ direction[<<b, a>>] = {}
  <2>1. \A a, b \in Inst : b \in {inc, Br} => <<a, b>> \notin Ahead /\ <<b, a>> \notin Ahead
    OBVIOUS
  <2> HIDE DEF Ahead
  <2> QED
    BY <1>3, <2>1
<1>8. /\ allocated \in Orderings
      /\ Canonical => allocated = [i \in Inst |-> i]
  <2>1. CASE Canonical
    BY <2>1 DEF BodyInit, Orderings
  <2>2. CASE ~Canonical
    BY <2>2 DEF BodyInit
  <2> QED
    BY <2>1, <2>2
<1>9. uses \subseteq {p \in Inst \X (Inst \ {Br, inc}) :
                        p[1] < p[2] /\ (Canonical => p[1] /= inc)}
  BY DEF BodyInit
<1> QED
  BY <1>1, <1>6, <1>7, <1>8, <1>9 DEF BodyOK

(* The second answer for a pair is suppressed exactly where it repeats the *)
(* first one, so that nothing but the first is left of them.               *)
LEMMA FoundAreExact ==
  ASSUME BodyOK
  PROVE  /\ MemDepsFound \in [Inst -> SUBSET Inst]
         /\ \A a, b \in Inst :
              b \in MemDepsFound[a] <=> a /= b /\ DependsOn(b, a)
<1> DEFINE Entry(g, k) ==
             {d \in Inst \ {k} :
                \/ "LT" \in direction[<<k, d>>]
                \/ "EQ" \in direction[<<k, d>>] /\ (k < d \/ k \notin g[d])}
           Solves(g) == g = [k \in Inst |-> Entry(g, k)]
           exact == [k \in Inst |-> {d \in Inst \ {k} : DependsOn(d, k)}]
<1>0. /\ \A a, b \in Inst : "EQ" \in direction[<<a, b>>] => "EQ" \in direction[<<b, a>>]
      /\ \A a \in Inst : a \in Nat
  BY BodyAssumption DEF BodyOK, Inst
<1>1. \A a, b \in Inst : b \in exact[a] <=>
         a /= b /\ ("LT" \in direction[<<a, b>>] \/ ("EQ" \in direction[<<a, b>>] /\ a < b))
  BY DEF DependsOn
<1>2. Solves(exact)
  <2>1. \A a \in Inst : exact[a] \subseteq Inst \ {a}
    OBVIOUS
  <2>2. exact = [k \in Inst |-> exact[k]]
    OBVIOUS
  <2> HIDE DEF exact
  <2>3. ASSUME NEW a \in Inst, NEW b \in Inst
        PROVE  b \in exact[a] <=> b \in Entry(exact, a)
    <3>1. b < a /\ "EQ" \in direction[<<a, b>>] => a \in exact[b]
      <4>1. "EQ" \in direction[<<a, b>>] => "EQ" \in direction[<<b, a>>]
        BY <1>0
      <4>2. a \in exact[b] <=>
              b /= a /\ ("LT" \in direction[<<b, a>>] \/ ("EQ" \in direction[<<b, a>>] /\ b < a))
        BY <1>1
      <4>3. b < a => b /= a
        BY <1>0
      <4> QED
        BY <4>1, <4>2, <4>3
    <3>2. a < b \/ b < a \/ a = b
      BY <1>0
    <3> QED
      BY <1>1, <3>1, <3>2
  <2>4. \A a \in Inst : exact[a] = Entry(exact, a)
    <3>1. \A a \in Inst : Entry(exact, a) \subseteq Inst
      OBVIOUS
    <3> HIDE DEF Entry
    <3> QED
      BY <2>1, <2>3, <3>1
  <2> QED
    BY <2>2, <2>4
<1>3. ASSUME NEW g, Solves(g)
      PROVE  \A a, b \in Inst : b \in g[a] <=> b \in exact[a]
  <2>1. \A a \in Inst : g[a] = Entry(g, a)
    <3> HIDE DEF Entry
    <3> QED
      BY <1>3
  <2> HIDE DEF exact, Solves
  <2>2. ASSUME NEW a \in Inst, NEW b \in Inst, a < b
        PROVE  b \in g[a] <=> b \in exact[a]
    <3>1. g[a] = Entry(g, a) /\ a /= b
      BY <1>0, <2>1, <2>2
    <3> QED
      BY <1>1, <2>2, <3>1
  <2>3. ASSUME NEW a \in Inst, NEW b \in Inst, b < a
        PROVE  b \in g[a] <=> b \in exact[a]
    <3>1. g[a] = Entry(g, a) /\ a /= b /\ ~(a < b)
      BY <1>0, <2>1, <2>3
    <3>2. "EQ" \in direction[<<a, b>>] => a \in g[b]
      <4>1. "EQ" \in direction[<<a, b>>] => "EQ" \in direction[<<b, a>>]
        BY <1>0
      <4>2. a \in exact[b] <=>
              b /= a /\ ("LT" \in direction[<<b, a>>] \/ ("EQ" \in direction[<<b, a>>] /\ b < a))
        BY <1>1
      <4>3. a \in g[b] <=> a \in exact[b]
        BY <2>2, <2>3
      <4> QED
        BY <2>3, <3>1, <4>1, <4>2, <4>3
    <3> QED
      BY <1>1, <3>1, <3>2
  <2>4. \A a \in Inst : a \notin g[a]
    <3> SUFFICES ASSUME NEW a \in Inst PROVE a \notin g[a]
      OBVIOUS
    <3>1. g[a] = Entry(g, a)
      BY <2>1
    <3> QED
      BY <3>1
  <2>5. \A a \in Inst : a \notin exact[a]
    BY <1>1
  <2> QED
    BY <1>0, <2>2, <2>3, <2>4, <2>5
<1>4. Solves(MemDepsFound)
  <2>1. MemDepsFound = CHOOSE g : Solves(g)
    BY DEF MemDepsFound
  <2> HIDE DEF Solves, exact
  <2> QED
    BY <1>2, <2>1
<1>5. MemDepsFound \in [Inst -> SUBSET Inst]
  <2>1. \A g : \A k \in Inst : Entry(g, k) \in SUBSET Inst
    OBVIOUS
  <2> HIDE DEF Entry
  <2> QED
    BY <1>4, <2>1
<1> QED
  BY <1>0, <1>1, <1>3, <1>4, <1>5 DEF DependsOn

(* Once the graph is built it is exact, and stays as it is.                *)
GraphOK ==
  stage \notin {"buildDG", "no_analysis"} =>
    /\ regDeps = [k \in Inst |-> {d \in Inst : <<k, d>> \in uses}]
    /\ memDeps \in [Inst -> SUBSET Inst]
    /\ \A a, b \in Inst : b \in memDeps[a] <=> a /= b /\ DependsOn(b, a)

GraphInv == BodyOK /\ GraphOK

LEMMA InitGraph == Init => GraphInv
<1>1. Init => BodyOK
  BY BodyInitOK DEF Init
<1>2. Init => GraphOK
  BY DEF Init, BPInit, GraphOK
<1> QED
  BY <1>1, <1>2 DEF GraphInv

LEMMA StepGraph == GraphInv /\ [Next]_vars => GraphInv'
<1> SUFFICES ASSUME GraphInv, [Next]_vars PROVE GraphInv'
  OBVIOUS
<1>0. BodyOK /\ GraphOK
  BY DEF GraphInv
<1>1. UNCHANGED bodyVars
  BY DEF Next, BPNext, RunDG, BuildDG, SkipLoop, RejectLoop, BuildPartition,
     FindEdges, BuildScc, ReturnSccs, CheckPartition, SplitStep, vars, bodyVars
<1>2. BodyOK' /\ \A a, b : DependsOn(b, a)' <=> DependsOn(b, a)
  BY <1>0, <1>1 DEF BodyOK, bodyVars, DependsOn
<1>3. GraphOK'
  <2>1. CASE RunDG
    <3>1. /\ regDeps' = [k \in Inst |-> {d \in Inst : <<k, d>> \in uses}]
          /\ memDeps' = MemDepsFound
          /\ uses' = uses
      BY <1>1, <2>1 DEF RunDG, BuildDG, bodyVars
    <3>2. /\ memDeps' \in [Inst -> SUBSET Inst]
          /\ \A a, b \in Inst : b \in memDeps'[a] <=> a /= b /\ DependsOn(b, a)
      BY <1>0, <3>1, FoundAreExact
    <3> QED
      BY <1>2, <3>1, <3>2 DEF GraphOK
  <2>2. CASE SkipLoop
    BY <2>2 DEF SkipLoop, GraphOK
  <2>3. CASE /\ regDeps' = regDeps /\ memDeps' = memDeps
             /\ stage' \notin {"buildDG", "no_analysis"} =>
                  stage \notin {"buildDG", "no_analysis"}
    BY <1>0, <1>1, <1>2, <2>3 DEF GraphOK, bodyVars
  <2>4. ASSUME ~RunDG, ~SkipLoop
        PROVE  /\ regDeps' = regDeps /\ memDeps' = memDeps
               /\ stage' \notin {"buildDG", "no_analysis"} =>
                    stage \notin {"buildDG", "no_analysis"}
    BY <2>4 DEF Next, BPNext, BuildPartition, FindEdges, BuildScc, ReturnSccs,
       CheckPartition, SplitStep, vars, dgVars, bpVars
  <2> QED
    BY <2>1, <2>2, <2>3, <2>4
<1> QED
  BY <1>2, <1>3 DEF GraphInv

(* Asking for both orders of each pair and suppressing the second answer   *)
(* gives exactly the dependences, for bodies of any length and any answers *)
(* of LLVM's analysis.                                                     *)
THEOREM MemDepsAlwaysExact == Spec => []MemDepsAreExact
<1>1. GraphInv => MemDepsAreExact
  BY DEF GraphInv, GraphOK, MemDepsAreExact
<1> QED
  BY <1>1, InitGraph, StepGraph, PTL DEF Spec

-----------------------------------------------------------------------------
(* The searches.                                                           *)

(* One call of visit, given what the calls it makes return.                *)
Round(adj, order, v, s) ==
  IF s.todo = {} THEN s
  ELSE IF First(order, s.todo) \in s.seen
       THEN v[[s EXCEPT !.todo = @ \ {First(order, s.todo)}]]
       ELSE v[Merged(s, First(order, s.todo), v[Nested(adj, s, First(order, s.todo))])]

(* A search gets shorter: it marks a node or has one neighbour less.       *)
Work(N, s) == Cardinality(N \ s.seen) * (Cardinality(N) + 1) + Cardinality(s.todo)

(* What a search goes by when it takes a neighbour.                        *)
Lists(order, N) ==
  /\ DOMAIN order \subseteq Nat
  /\ \A m \in N : \E k \in DOMAIN order : order[k] = m

LEMMA MinIsIn ==
  ASSUME NEW T, T \subseteq Nat, T /= {}
  PROVE  Min(T) \in T
BY LeastExists DEF Min

LEMMA FirstIsIn ==
  ASSUME NEW N, NEW order, Lists(order, N), NEW T, T \subseteq N, T /= {}
  PROVE  First(order, T) \in T
<1> DEFINE places == {k \in DOMAIN order : order[k] \in T}
<1>1. places \subseteq Nat /\ places /= {}
  BY DEF Lists
<1>2. Min(places) \in places
  <2> HIDE DEF places
  <2> QED
    BY <1>1, MinIsIn
<1> QED
  BY <1>2 DEF First

LEMMA WorkBound ==
  ASSUME NEW N, IsFiniteSet(N), NEW s \in Searches(N)
  PROVE  /\ Cardinality(N) \in Nat
         /\ Work(N, s) \in 0 .. Cardinality(N) * (Cardinality(N) + 1) + Cardinality(N)
<1> DEFINE c == Cardinality(N)
           x == Cardinality(N \ s.seen)
           t == Cardinality(s.todo)
<1>1. c \in Nat /\ x \in 0 .. c /\ t \in 0 .. c
  <2>1. s.todo \subseteq N /\ N \ s.seen \subseteq N
    BY DEF Searches
  <2> QED
    BY <2>1, FS_Subset, FS_CardinalityType
<1> HIDE DEF c, x, t
<1>2. x * (c + 1) \in Nat /\ x * (c + 1) <= c * (c + 1)
  <2>1. PICK d \in Nat : c = x + d
    <3>1. c - x \in Nat /\ c = x + (c - x)
      BY <1>1
    <3> QED
      BY <3>1
  <2>2. c * (c + 1) = x * (c + 1) + d * (c + 1)
    BY <1>1, <2>1
  <2>3. d * (c + 1) \in Nat /\ x * (c + 1) \in Nat
    BY <1>1
  <2> QED
    BY <1>1, <2>2, <2>3
<1>3. c * (c + 1) \in Nat
  BY <1>1
<1>4. x * (c + 1) + t \in 0 .. c * (c + 1) + c
  <2> DEFINE p == x * (c + 1)
             q == c * (c + 1)
  <2>1. p \in Nat /\ q \in Nat /\ p <= q
    BY <1>2, <1>3
  <2> HIDE DEF p, q
  <2>2. p + t \in 0 .. q + c
    BY <1>1, <2>1
  <2> QED
    BY <2>2 DEF p, q
<1> QED
  BY <1>1, <1>4 DEF Work, c, x, t

(* What a search calls itself with, and that it is less work.              *)
LEMMA NextSearches ==
  ASSUME NEW N, IsFiniteSet(N), N \subseteq Nat, NEW adj \in [N -> SUBSET N],
         NEW order, Lists(order, N),
         NEW s \in Searches(N), s.todo /= {}
  PROVE  LET m == First(order, s.todo)
             skip == [s EXCEPT !.todo = @ \ {First(order, s.todo)}]
         IN  /\ m \in s.todo /\ m \in N
             /\ skip = [todo |-> s.todo \ {m}, group |-> s.group,
                        seen |-> s.seen, repeats |-> s.repeats]
             /\ skip \in Searches(N) /\ Work(N, skip) < Work(N, s)
             /\ Nested(adj, s, m) \in Searches(N)
             /\ m \notin s.seen => Work(N, Nested(adj, s, m)) < Work(N, s)
             /\ \A sub \in Searches(N) :
                  /\ Merged(s, m, sub) \in Searches(N)
                  /\ m \notin s.seen /\ s.seen \cup {m} \subseteq sub.seen =>
                       Work(N, Merged(s, m, sub)) < Work(N, s)
<1> DEFINE m == First(order, s.todo)
           skip == [s EXCEPT !.todo = @ \ {First(order, s.todo)}]
           nest == Nested(adj, s, m)
           c == Cardinality(N)
<1>0. /\ s.todo \subseteq N /\ s.group \subseteq N /\ s.seen \subseteq N /\ s.repeats \in Nat
      /\ s = [todo |-> s.todo, group |-> s.group, seen |-> s.seen, repeats |-> s.repeats]
  BY DEF Searches
<1>1. m \in s.todo /\ m \in N
  BY <1>0, FirstIsIn
<1>2. skip = [todo |-> s.todo \ {m}, group |-> s.group, seen |-> s.seen,
              repeats |-> s.repeats]
  <2> DEFINE new == s.todo \ {m}
  <2> HIDE DEF new, m
  <2>1. [s EXCEPT !.todo = new] = [todo |-> new, group |-> s.group,
                                   seen |-> s.seen, repeats |-> s.repeats]
    BY <1>0 DEF Searches
  <2> QED
    BY <2>1 DEF new, m
<1> HIDE DEF m, skip, nest
<1>3. skip \in Searches(N)
  BY <1>0, <1>2 DEF Searches
<1>4. nest \in Searches(N)
  BY <1>0, <1>1 DEF nest, Nested, Searches
<1>5. ASSUME NEW S \in SUBSET N
      PROVE  IsFiniteSet(S) /\ Cardinality(S) \in 0 .. c /\ c \in Nat
  <2>1. IsFiniteSet(S) /\ Cardinality(S) <= c
    BY FS_Subset
  <2> QED
    BY <2>1, FS_CardinalityType
<1>6. ASSUME NEW r \in Searches(N),
             \/ r.seen = s.seen /\ r.todo = s.todo \ {m}
             \/ m \notin s.seen /\ s.seen \cup {m} \subseteq r.seen
      PROVE  Work(N, r) < Work(N, s)
  <2> DEFINE x == Cardinality(N \ s.seen)
             y == Cardinality(N \ r.seen)
             t == Cardinality(s.todo)
             u == Cardinality(r.todo)
  <2>1. x \in 0 .. c /\ y \in 0 .. c /\ t \in 0 .. c /\ u \in 0 .. c /\ c \in Nat
    <3>1. r.todo \in SUBSET N /\ s.todo \in SUBSET N /\ N \ s.seen \in SUBSET N
          /\ N \ r.seen \in SUBSET N
      BY <1>0 DEF Searches
    <3> QED
      BY <1>5, <3>1
  <2>2. y < x \/ (y = x /\ u < t)
    <3>1. CASE r.seen = s.seen /\ r.todo = s.todo \ {m}
      <4>1. IsFiniteSet(s.todo)
        BY <1>0, <1>5
      <4>2. u = t - 1
        BY <1>1, <3>1, <4>1, FS_RemoveElement
      <4> QED
        BY <2>1, <3>1, <4>2
    <3>2. CASE m \notin s.seen /\ s.seen \cup {m} \subseteq r.seen
      <4>1. IsFiniteSet(N \ s.seen)
        BY <1>5
      <4>2. N \ r.seen \subseteq (N \ s.seen) \ {m} /\ m \in N \ s.seen
        BY <1>1, <3>2
      <4>3. /\ Cardinality((N \ s.seen) \ {m}) = x - 1
            /\ IsFiniteSet((N \ s.seen) \ {m})
        BY <4>1, <4>2, FS_RemoveElement
      <4>4. y <= x - 1
        BY <4>2, <4>3, FS_Subset
      <4> QED
        BY <2>1, <4>4
    <3> QED
      BY <1>6, <3>1, <3>2
  <2> HIDE DEF x, y, t, u, c
  <2>3. y * (c + 1) + u < x * (c + 1) + t
    BY <2>1, <2>2, LessWork
  <2> QED
    BY <2>3 DEF Work, x, y, t, u, c
<1>7. ASSUME NEW sub \in Searches(N)
      PROVE  /\ Merged(s, m, sub) \in Searches(N)
             /\ m \notin s.seen /\ s.seen \cup {m} \subseteq sub.seen =>
                  Work(N, Merged(s, m, sub)) < Work(N, s)
  <2>1. /\ sub.group \subseteq N /\ sub.seen \subseteq N /\ sub.repeats \in Nat
    BY DEF Searches
  <2>2. Cardinality(s.group \cap sub.group) \in Nat
    BY <1>0, <1>5
  <2>3. Max({s.repeats, sub.repeats, Cardinality(s.group \cap sub.group)}) \in Nat
    <3> DEFINE k == Cardinality(s.group \cap sub.group)
               T == {s.repeats, sub.repeats, k}
    <3>1. k \in Nat
      BY <2>2
    <3> HIDE DEF k
    <3>2. \E z \in T : \A w \in T : z >= w
      BY <1>0, <2>1, <3>1
    <3>3. Max(T) \in T
      <4> HIDE DEF T
      <4> QED
        BY <3>2 DEF Max
    <3>4. Max(T) \in Nat
      BY <1>0, <2>1, <3>1, <3>3
    <3> QED
      BY <3>4 DEF k
  <2>4. Merged(s, m, sub) \in Searches(N)
    BY <1>0, <2>1, <2>3 DEF Merged, Searches
  <2>5. Merged(s, m, sub).seen = sub.seen
    BY DEF Merged
  <2> QED
    BY <1>6, <2>4, <2>5
<1>8. Work(N, skip) < Work(N, s)
  BY <1>2, <1>3, <1>6
<1>9. m \notin s.seen => Work(N, nest) < Work(N, s)
  <2>1. nest.seen = s.seen \cup {m}
    BY DEF nest, Nested
  <2> QED
    BY <1>4, <1>6, <2>1
<1> QED
  BY <1>1, <1>2, <1>3, <1>4, <1>7, <1>8, <1>9 DEF m, skip, nest


(* The searches end: there is a function that does what visit says, found  *)
(* by taking in the searches with more and more work.                      *)
HasVisit(N, adj, order) ==
  \E v \in [Searches(N) -> Searches(N)] :
    v = [s \in Searches(N) |-> Round(adj, order, v, s)]

LEMMA VisitExists ==
  ASSUME NEW N, IsFiniteSet(N), N \subseteq Nat, NEW adj \in [N -> SUBSET N],
         NEW order, Lists(order, N)
  PROVE  HasVisit(N, adj, order)
<1> DEFINE S == Searches(N)
           c == Cardinality(N)
           top == c * (c + 1) + c + 1
           Right(v, k) ==
             \A s \in S : Work(N, s) < k =>
               v[s] = Round(adj, order, v, s) /\ s.seen \subseteq v[s].seen
           G == {k \in Nat : \E v \in [S -> S] : Right(v, k)}
<1>0. c \in Nat
  BY FS_CardinalityType
<1>1. \A s \in S : Work(N, s) \in 0 .. top - 1
  <2>1. \A s \in S : Work(N, s) \in 0 .. c * (c + 1) + c
    BY WorkBound
  <2>2. c * (c + 1) \in Nat
    BY <1>0
  <2> QED
    BY <1>0, <2>1, <2>2
<1>2. top \in Nat
  <2>1. c * (c + 1) \in Nat
    BY <1>0
  <2> QED
    BY <1>0, <2>1
<1> HIDE DEF c, top
<1>3. 0 \in G
  <2>1. [s \in S |-> s] \in [S -> S]
    OBVIOUS
  <2>2. \A s \in S : ~(Work(N, s) < 0)
    BY <1>1, <1>2
  <2> HIDE DEF S
  <2> QED
    BY <2>1, <2>2
<1>4. ASSUME NEW k \in 0 .. top - 1, k \in G
      PROVE  k + 1 \in G
  <2>1. PICK v \in [S -> S] : Right(v, k)
    BY <1>4
  <2> DEFINE w == [s \in S |-> IF Work(N, s) < k + 1 THEN Round(adj, order, v, s) ELSE v[s]]
  <2>2. k \in Nat /\ \A s \in S : Work(N, s) \in Nat
    BY <1>1, <1>2
  <2>3. \A s \in S : /\ v[s] \in S
                     /\ Work(N, s) < k => v[s] = Round(adj, order, v, s)
                     /\ Work(N, s) < k => s.seen \subseteq v[s].seen
    BY <2>1
  <2>4. \A s \in S : w[s] = IF Work(N, s) < k + 1 THEN Round(adj, order, v, s) ELSE v[s]
    OBVIOUS
  <2> HIDE DEF S, w, Right
  <2>5. \A s \in S : Work(N, s) < k => w[s] = v[s]
    BY <2>2, <2>3, <2>4
  <2>6. ASSUME NEW s \in S, Work(N, s) < k + 1
        PROVE  /\ Round(adj, order, v, s) \in S
               /\ Round(adj, order, w, s) = Round(adj, order, v, s)
               /\ s.seen \subseteq Round(adj, order, v, s).seen
    <3> DEFINE m == First(order, s.todo)
               skip == [s EXCEPT !.todo = @ \ {First(order, s.todo)}]
               nest == Nested(adj, s, m)
    <3>1. CASE s.todo = {}
      BY <2>6, <3>1 DEF Round
    <3>2. CASE s.todo /= {} /\ m \in s.seen
      <4>0. /\ skip \in S /\ Work(N, skip) < Work(N, s)
            /\ skip = [todo |-> s.todo \ {m}, group |-> s.group, seen |-> s.seen,
                       repeats |-> s.repeats]
        BY <3>2, NextSearches, Zenon DEF S
      <4>1. skip \in S /\ Work(N, skip) < Work(N, s) /\ skip.seen = s.seen
        <5> HIDE DEF skip
        <5> QED
          BY <4>0
      <4>2. /\ Round(adj, order, v, s) = v[skip]
            /\ Round(adj, order, w, s) = w[skip]
        BY <3>2 DEF Round
      <4> HIDE DEF skip, m, nest
      <4>3. Work(N, skip) < k
        BY <2>2, <2>6, <4>1
      <4> QED
        BY <2>3, <2>5, <4>1, <4>2, <4>3
    <3>3. CASE s.todo /= {} /\ m \notin s.seen
      <4>1. /\ nest \in S /\ Work(N, nest) < Work(N, s)
            /\ \A sub \in S :
                  /\ Merged(s, m, sub) \in S
                  /\ s.seen \cup {m} \subseteq sub.seen =>
                       Work(N, Merged(s, m, sub)) < Work(N, s)
        BY <3>3, NextSearches DEF S
      <4>2. /\ Round(adj, order, v, s) = v[Merged(s, m, v[nest])]
            /\ Round(adj, order, w, s) = w[Merged(s, m, w[nest])]
        BY <3>3 DEF Round
      <4>3. nest.seen = s.seen \cup {m} /\ \A sub : Merged(s, m, sub).seen = sub.seen
        BY DEF Nested, Merged
      <4> HIDE DEF skip, m, nest
      <4>4. Work(N, nest) < k
        BY <2>2, <2>6, <4>1
      <4>5. w[nest] = v[nest] /\ v[nest] \in S /\ s.seen \cup {m} \subseteq v[nest].seen
        BY <2>3, <2>5, <4>1, <4>3, <4>4
      <4> DEFINE next == Merged(s, m, v[nest])
      <4>6. next \in S /\ Work(N, next) < Work(N, s) /\ next.seen = v[nest].seen
        BY <4>1, <4>3, <4>5
      <4>7. Round(adj, order, v, s) = v[next] /\ Round(adj, order, w, s) = w[next]
        BY <4>2, <4>5
      <4> HIDE DEF next
      <4>8. Work(N, next) < k
        BY <2>2, <2>6, <4>6
      <4> QED
        BY <2>3, <2>5, <4>5, <4>6, <4>7, <4>8
    <3> QED
      BY <3>1, <3>2, <3>3
  <2>7. w \in [S -> S]
    BY <2>3, <2>6 DEF w
  <2>8. Right(w, k + 1)
    BY <2>4, <2>6 DEF Right
  <2>9. k + 1 \in Nat
    BY <2>2
  <2> QED
    BY <2>7, <2>8, <2>9
<1>5. top \in G
  <2> HIDE DEF G
  <2>1. \A i \in 0 .. top : i \in G
    BY <1>2, <1>3, <1>4, UpTo
  <2> QED
    BY <1>2, <2>1
<1>6. PICK v \in [S -> S] : Right(v, top)
  BY <1>5
<1>7. \A s \in S : v[s] = Round(adj, order, v, s)
  <2>1. \A s \in S : Work(N, s) < top
    BY <1>1, <1>2
  <2> QED
    BY <1>6, <2>1
<1>8. v = [s \in S |-> v[s]]
  OBVIOUS
<1>9. v = [s \in S |-> Round(adj, order, v, s)]
  <2> HIDE DEF S
  <2> QED
    BY <1>7, <1>8
<1> QED
  BY <1>9 DEF HasVisit

LEMMA VisitSolves ==
  ASSUME NEW N, IsFiniteSet(N), N \subseteq Nat, NEW adj \in [N -> SUBSET N],
         NEW order, Lists(order, N)
  PROVE  \A s \in Searches(N) : Visit(adj, order)[s] = Round(adj, order, Visit(adj, order), s)
<1> DEFINE Solves(v) == v = [s \in Searches(N) |-> Round(adj, order, v, s)]
<1>1. \E v : Solves(v)
  <2>1. HasVisit(N, adj, order)
    BY VisitExists
  <2> QED
    BY <2>1 DEF HasVisit
<1>2. Visit(adj, order) = CHOOSE v : Solves(v)
  BY DEF Visit, Round
<1>3. Solves(Visit(adj, order))
  <2> HIDE DEF Solves
  <2> QED
    BY <1>1, <1>2
<1> QED
  BY <1>3


(* What a search r that started as s finds: it marks what its neighbours   *)
(* reach through nodes not marked before, and nothing else, and returns    *)
(* what it marked.  No set with a way in keeps the search out of it.       *)
Found(N, adj, s, r) ==
  /\ r \in Searches(N)
  /\ s.seen \subseteq r.seen /\ s.todo \subseteq r.seen
  /\ r.group = s.group \cup (r.seen \ s.seen)
  /\ \A x \in r.seen \ s.seen : adj[x] \subseteq r.seen
  /\ \A C \in SUBSET N :
       s.todo \ s.seen \subseteq C /\ (\A x \in C : adj[x] \subseteq C \cup s.seen) =>
         r.seen \ s.seen \subseteq C
  /\ Cardinality(s.group \ s.seen) <= 1 /\ s.repeats <= 1 => r.repeats <= 1

(* A neighbour's own search and that of the neighbours left after it make  *)
(* up the search.                                                          *)
LEMMA FoundTogether ==
  ASSUME NEW N, IsFiniteSet(N), N \subseteq Nat, NEW adj \in [N -> SUBSET N],
         NEW s \in Searches(N), NEW m \in s.todo, m \notin s.seen,
         NEW sub, Found(N, adj, Nested(adj, s, m), sub),
         NEW r, Found(N, adj, Merged(s, m, sub), r)
  PROVE  Found(N, adj, s, r)
<1> DEFINE nest == Nested(adj, s, m)
           next == Merged(s, m, sub)
<1>0. /\ s.todo \subseteq N /\ s.group \subseteq N /\ s.seen \subseteq N
      /\ s.repeats \in Nat /\ m \in N /\ adj[m] \subseteq N
  BY DEF Searches
<1>1. /\ nest.todo = adj[m] /\ nest.group = {m} /\ nest.seen = s.seen \cup {m}
      /\ nest.repeats = 0
  BY DEF Nested
<1>2. /\ next.todo = s.todo \ {m} /\ next.group = s.group \cup sub.group
      /\ next.seen = sub.seen
      /\ next.repeats = Max({s.repeats, sub.repeats, Cardinality(s.group \cap sub.group)})
  BY DEF Merged
<1> HIDE DEF nest, next
<1>3. /\ sub \in Searches(N)
      /\ s.seen \cup {m} \subseteq sub.seen /\ adj[m] \subseteq sub.seen
      /\ sub.group = {m} \cup (sub.seen \ (s.seen \cup {m}))
      /\ \A x \in sub.seen \ (s.seen \cup {m}) : adj[x] \subseteq sub.seen
      /\ \A C \in SUBSET N :
           /\ adj[m] \ (s.seen \cup {m}) \subseteq C
           /\ \A x \in C : adj[x] \subseteq C \cup (s.seen \cup {m})
           => sub.seen \ (s.seen \cup {m}) \subseteq C
      /\ Cardinality({m} \ (s.seen \cup {m})) <= 1 => sub.repeats <= 1
  <2>1. Found(N, adj, nest, sub)
    BY DEF nest
  <2> QED
    BY <1>1, <2>1 DEF Found
<1>4. /\ r \in Searches(N)
      /\ sub.seen \subseteq r.seen /\ s.todo \ {m} \subseteq r.seen
      /\ r.group = (s.group \cup sub.group) \cup (r.seen \ sub.seen)
      /\ \A x \in r.seen \ sub.seen : adj[x] \subseteq r.seen
      /\ \A C \in SUBSET N :
           /\ (s.todo \ {m}) \ sub.seen \subseteq C
           /\ \A x \in C : adj[x] \subseteq C \cup sub.seen
           => r.seen \ sub.seen \subseteq C
      /\ /\ Cardinality((s.group \cup sub.group) \ sub.seen) <= 1
         /\ Max({s.repeats, sub.repeats, Cardinality(s.group \cap sub.group)}) <= 1
         => r.repeats <= 1
  <2>1. Found(N, adj, next, r)
    BY DEF next
  <2> QED
    BY <1>2, <2>1 DEF Found
<1>5. s.seen \subseteq r.seen /\ s.todo \subseteq r.seen
  BY <1>3, <1>4
<1>6. sub.group = sub.seen \ s.seen
  BY <1>3
<1>7. r.group = s.group \cup (r.seen \ s.seen)
  BY <1>3, <1>4, <1>6
<1>8. \A x \in r.seen \ s.seen : adj[x] \subseteq r.seen
  BY <1>3, <1>4
<1>9. ASSUME NEW C \in SUBSET N, s.todo \ s.seen \subseteq C,
             \A x \in C : adj[x] \subseteq C \cup s.seen
      PROVE  r.seen \ s.seen \subseteq C
  <2>1. m \in C
    BY <1>9
  <2>2. sub.seen \ (s.seen \cup {m}) \subseteq C
    <3>1. adj[m] \ (s.seen \cup {m}) \subseteq C
      BY <1>9, <2>1
    <3>2. \A x \in C : adj[x] \subseteq C \cup (s.seen \cup {m})
      BY <1>9
    <3> QED
      BY <1>3, <3>1, <3>2
  <2>3. r.seen \ sub.seen \subseteq C
    <3>1. (s.todo \ {m}) \ sub.seen \subseteq C
      BY <1>3, <1>9
    <3>2. \A x \in C : adj[x] \subseteq C \cup sub.seen
      BY <1>3, <1>9
    <3> QED
      BY <1>4, <3>1, <3>2
  <2> QED
    BY <2>1, <2>2, <2>3
<1>10. ASSUME Cardinality(s.group \ s.seen) <= 1, s.repeats <= 1
       PROVE  r.repeats <= 1
  <2>1. IsFiniteSet(s.group \ s.seen) /\ Cardinality(s.group \ s.seen) \in Nat
    <3>1. s.group \ s.seen \in SUBSET N
      BY <1>0
    <3> QED
      BY <3>1, FS_Subset, FS_CardinalityType
  <2>2. ASSUME NEW T \in SUBSET (s.group \ s.seen)
        PROVE  Cardinality(T) \in Nat /\ Cardinality(T) <= 1
    <3>1. IsFiniteSet(T) /\ Cardinality(T) <= Cardinality(s.group \ s.seen)
      BY <2>1, FS_Subset
    <3>2. Cardinality(T) \in Nat
      BY <3>1, FS_CardinalityType
    <3> QED
      BY <1>10, <2>1, <3>1, <3>2
  <2>3. sub.repeats <= 1 /\ sub.repeats \in Nat
    <3>1. {m} \ (s.seen \cup {m}) = {}
      OBVIOUS
    <3>2. Cardinality({m} \ (s.seen \cup {m})) <= 1
      BY <3>1, FS_EmptySet
    <3> QED
      BY <1>3, <3>2 DEF Searches
  <2>4. (s.group \cup sub.group) \ sub.seen \subseteq s.group \ s.seen
    BY <1>3, <1>6
  <2>5. s.group \cap sub.group \subseteq s.group \ s.seen
    BY <1>6
  <2>6. Max({s.repeats, sub.repeats, Cardinality(s.group \cap sub.group)}) <= 1
    <3> DEFINE k == Cardinality(s.group \cap sub.group)
               T == {s.repeats, sub.repeats, k}
    <3>1. k \in Nat /\ k <= 1
      BY <2>2, <2>5
    <3> HIDE DEF k
    <3>2. \E z \in T : \A w \in T : z >= w
      BY <1>0, <2>3, <3>1
    <3>3. Max(T) \in T
      <4> HIDE DEF T
      <4> QED
        BY <3>2 DEF Max
    <3>4. Max(T) <= 1
      BY <1>10, <2>3, <3>1, <3>3
    <3> QED
      BY <3>4 DEF k
  <2> QED
    BY <1>4, <2>2, <2>4, <2>6
<1> QED
  BY <1>4, <1>5, <1>7, <1>8, <1>9, <1>10 DEF Found

LEMMA SearchFinds ==
  ASSUME NEW N, IsFiniteSet(N), N \subseteq Nat, NEW adj \in [N -> SUBSET N],
         NEW order, Lists(order, N)
  PROVE  \A s \in Searches(N) : Found(N, adj, s, Visit(adj, order)[s])
<1> DEFINE S == Searches(N)
           v == Visit(adj, order)
           c == Cardinality(N)
           top == c * (c + 1) + c + 1
           G == {k \in Nat : \A s \in S : Work(N, s) < k => Found(N, adj, s, v[s])}
<1>0. c \in Nat
  BY FS_CardinalityType
<1>1. \A s \in S : Work(N, s) \in 0 .. top - 1
  <2>1. \A s \in S : Work(N, s) \in 0 .. c * (c + 1) + c
    BY WorkBound
  <2>2. c * (c + 1) \in Nat
    BY <1>0
  <2> QED
    BY <1>0, <2>1, <2>2
<1>2. top \in Nat
  <2>1. c * (c + 1) \in Nat
    BY <1>0
  <2> QED
    BY <1>0, <2>1
<1> HIDE DEF c, top
<1>3. 0 \in G
  <2>1. \A s \in S : ~(Work(N, s) < 0)
    BY <1>1, <1>2
  <2> HIDE DEF S
  <2> QED
    BY <2>1
<1>4. ASSUME NEW k \in 0 .. top - 1, k \in G
      PROVE  k + 1 \in G
  <2>1. k \in Nat /\ \A s \in S : Work(N, s) \in Nat
    BY <1>1, <1>2
  <2>2. \A s \in S : Work(N, s) < k => Found(N, adj, s, v[s])
    BY <1>4
  <2>3. ASSUME NEW s \in S, Work(N, s) < k + 1
        PROVE  Found(N, adj, s, v[s])
    <3> DEFINE m == First(order, s.todo)
               skip == [s EXCEPT !.todo = @ \ {First(order, s.todo)}]
               nest == Nested(adj, s, m)
    <3>0. v[s] = Round(adj, order, v, s)
      BY VisitSolves
    <3>1. CASE s.todo = {}
      <4>1. v[s] = s
        BY <3>0, <3>1 DEF Round
      <4>2. s.todo = {} /\ s.seen \subseteq s.seen
        BY <3>1
      <4>3. s.group = s.group \cup (s.seen \ s.seen)
        OBVIOUS
      <4> HIDE DEF v
      <4> QED
        BY <4>1, <4>2, <4>3 DEF Found
    <3>2. CASE s.todo /= {} /\ m \in s.seen
      <4>1. /\ skip \in S /\ Work(N, skip) < Work(N, s)
            /\ skip = [todo |-> s.todo \ {m}, group |-> s.group, seen |-> s.seen,
                       repeats |-> s.repeats]
        BY <3>2, NextSearches, Zenon DEF S
      <4>2. v[s] = v[skip]
        BY <3>0, <3>2 DEF Round
      <4> HIDE DEF skip, m, nest, v
      <4>3. Work(N, skip) < k
        BY <2>1, <2>3, <4>1
      <4>4. Found(N, adj, skip, v[s])
        BY <2>2, <4>1, <4>2, <4>3
      <4>5. /\ skip.todo = s.todo \ {m} /\ skip.group = s.group /\ skip.seen = s.seen
            /\ skip.repeats = s.repeats
        BY <4>1
      <4> QED
        BY <3>2, <4>4, <4>5 DEF Found
    <3>3. CASE s.todo /= {} /\ m \notin s.seen
      <4>1. /\ m \in s.todo
            /\ nest \in S /\ Work(N, nest) < Work(N, s)
            /\ \A sub \in S :
                  /\ Merged(s, m, sub) \in S
                  /\ s.seen \cup {m} \subseteq sub.seen =>
                       Work(N, Merged(s, m, sub)) < Work(N, s)
        BY <3>3, NextSearches DEF S
      <4>2. v[s] = v[Merged(s, m, v[nest])]
        BY <3>0, <3>3 DEF Round
      <4>3. nest.seen = s.seen \cup {m}
        BY DEF Nested
      <4> DEFINE next == Merged(s, m, v[nest])
      <4> HIDE DEF skip, m, nest, v
      <4>4. Work(N, nest) < k
        BY <2>1, <2>3, <4>1
      <4>5. Found(N, adj, nest, v[nest])
        BY <2>2, <4>1, <4>4
      <4>6. v[nest] \in S /\ s.seen \cup {m} \subseteq v[nest].seen
        BY <4>3, <4>5 DEF Found
      <4>7. next \in S /\ Work(N, next) < Work(N, s)
        BY <4>1, <4>6
      <4> HIDE DEF next
      <4>8. Work(N, next) < k
        BY <2>1, <2>3, <4>7
      <4>9. Found(N, adj, next, v[next])
        BY <2>2, <4>7, <4>8
      <4>10. Found(N, adj, s, v[next])
        BY <3>3, <4>1, <4>5, <4>9, FoundTogether DEF nest, next
      <4> QED
        BY <4>2, <4>10 DEF next
    <3> QED
      BY <3>1, <3>2, <3>3
  <2> QED
    BY <2>1, <2>3
<1>5. top \in G
  <2> HIDE DEF G
  <2>1. \A i \in 0 .. top : i \in G
    BY <1>2, <1>3, <1>4, UpTo
  <2> QED
    BY <1>2, <2>1
<1>6. \A s \in S : Work(N, s) < top
  BY <1>1, <1>2
<1> QED
  BY <1>5, <1>6

(* dfs: the nodes n reaches through nodes not marked.                      *)
LEMMA DfsFinds ==
  ASSUME NEW N, IsFiniteSet(N), N \subseteq Nat, NEW adj \in [N -> SUBSET N],
         NEW order, Lists(order, N),
         NEW n \in N, NEW seen \in SUBSET N
  PROVE  LET r == Dfs(n, adj, order, seen)
         IN  /\ r.group \subseteq N /\ r.seen \subseteq N /\ seen \subseteq r.seen
             /\ r.group = {n} \cup (r.seen \ seen)
             /\ \A x \in r.group : adj[x] \subseteq r.group \cup seen
             /\ \A C \in SUBSET N :
                  n \in C /\ (\A x \in C : adj[x] \subseteq C \cup seen) =>
                    r.group \subseteq C
             /\ r.repeats \in 0 .. 1
<1> DEFINE s == [todo |-> adj[n], group |-> {n}, seen |-> seen, repeats |-> 0]
           r == Dfs(n, adj, order, seen)
<1>1. s \in Searches(N)
  BY DEF Searches
<1>2. Found(N, adj, s, r)
  BY <1>1, SearchFinds DEF Dfs
<1>3. /\ s.todo = adj[n] /\ s.group = {n} /\ s.seen = seen /\ s.repeats = 0
  OBVIOUS
<1> HIDE DEF s, r
<1>4. /\ r \in Searches(N) /\ seen \subseteq r.seen /\ adj[n] \subseteq r.seen
      /\ r.group = {n} \cup (r.seen \ seen)
      /\ \A x \in r.seen \ seen : adj[x] \subseteq r.seen
      /\ \A C \in SUBSET N :
           adj[n] \ seen \subseteq C /\ (\A x \in C : adj[x] \subseteq C \cup seen) =>
             r.seen \ seen \subseteq C
      /\ Cardinality({n} \ seen) <= 1 => r.repeats <= 1
  BY <1>2, <1>3 DEF Found
<1>5. Cardinality({n} \ seen) <= 1
  <2>1. Cardinality({}) = 0 /\ Cardinality({n}) = 1
    BY FS_EmptySet, FS_Singleton
  <2>2. {n} \ seen = {} \/ {n} \ seen = {n}
    OBVIOUS
  <2>3. CASE {n} \ seen = {}
    BY <2>1, <2>3
  <2>4. CASE {n} \ seen = {n}
    BY <2>1, <2>4
  <2> QED
    BY <2>2, <2>3, <2>4
<1>6. r.group \subseteq N /\ r.seen \subseteq N /\ r.repeats \in 0 .. 1
  BY <1>4, <1>5 DEF Searches
<1>7. \A x \in r.group : adj[x] \subseteq r.group \cup seen
  BY <1>4
<1>8. \A C \in SUBSET N :
        n \in C /\ (\A x \in C : adj[x] \subseteq C \cup seen) => r.group \subseteq C
  BY <1>4
<1> QED
  BY <1>4, <1>6, <1>7, <1>8 DEF r


-----------------------------------------------------------------------------
(* The groups.                                                             *)

LEMMA AppendFacts ==
  ASSUME NEW S, NEW s \in Seq(S), NEW e \in S
  PROVE  /\ Append(s, e) \in Seq(S)
         /\ Len(s) \in Nat /\ DOMAIN s = 1 .. Len(s)
         /\ Len(Append(s, e)) = Len(s) + 1
         /\ DOMAIN Append(s, e) = 1 .. Len(s) + 1
         /\ \A i \in 1 .. Len(s) : Append(s, e)[i] = s[i]
         /\ Append(s, e)[Len(s) + 1] = e
OBVIOUS

(* No use leads out of the set or into it.                                 *)
UsesKeep(C) == \A q \in uses : q[1] \in C <=> q[2] \in C

(* A group is what register edges connect: none leads out of it, and it is *)
(* part of every such set that it meets.                                   *)
IsGroup(S) ==
  /\ S \subseteq Inst
  /\ S /= {}
  /\ UsesKeep(S)
  /\ \A C \in SUBSET Inst : UsesKeep(C) /\ C \cap S /= {} => S \subseteq C

PrdgOK ==
  /\ prdg \in Seq(SUBSET Inst)
  /\ \A g \in DOMAIN prdg : IsGroup(prdg[g])
  /\ \A g, h \in DOMAIN prdg : g /= h => prdg[g] \cap prdg[h] = {}

(* What is marked is in a group; what is in a group and not marked is an   *)
(* instruction the loop has come to itself.                                *)
MarksOK ==
  stage = "build_partition" =>
    /\ idx \in 1 .. BodySize + 1
    /\ Len(prdg) <= idx - 1
    /\ \A n \in 1 .. idx - 1 : \E g \in DOMAIN prdg : allocated[n] \in prdg[g]
    /\ \A i \in marked : i \in Inst /\ \E g \in DOMAIN prdg : i \in prdg[g]
    /\ \A g \in DOMAIN prdg : \A i \in prdg[g] \ marked :
         \E n \in 1 .. idx - 1 : i = allocated[n]

(* Increment and branch, which use nothing in the body and are not used,   *)
(* make up the last groups when they come last.                            *)
TailGroups ==
  stage = "build_partition" /\ Canonical =>
    \A g \in DOMAIN prdg :
      /\ inc \in prdg[g] <=> \/ g = Len(prdg) /\ idx = BodySize
                             \/ g = Len(prdg) - 1 /\ idx = BodySize + 1
      /\ Br \in prdg[g] <=> g = Len(prdg) /\ idx = BodySize + 1

(* Nothing is there before it is computed.                                 *)
NothingYet ==
  /\ stage \in {"buildDG", "no_analysis"} => prdg = <<>> /\ idx = 1 /\ marked = {}
  /\ stage \in {"buildDG", "no_analysis", "build_partition"} =>
       visited = {} /\ sccs = <<>>
  /\ stage \in {"buildDG", "no_analysis", "build_partition", "build_scc",
                "check_partition", "done", "bad_alloc"}

RepeatsOK == visited \subseteq DOMAIN prdg /\ repeats \in 0 .. 1

(* The edges between groups are those between their instructions.          *)
EdgesOK ==
  stage \notin {"buildDG", "no_analysis", "build_partition"} =>
    /\ Len(prdg) <= BodySize
    /\ \A i \in Inst : \E g \in DOMAIN prdg : i \in prdg[g]
    /\ edges \in [DOMAIN prdg -> SUBSET DOMAIN prdg]
    /\ \A g, h \in DOMAIN prdg :
         h \in edges[g] <=> \E a \in prdg[g] : \E b \in prdg[h] : b \in memDeps[a]
    /\ Canonical => /\ Len(prdg) >= 2
                    /\ prdg[Len(prdg) - 1] = {inc}
                    /\ prdg[Len(prdg)] = {Br}

GroupInv ==
  PrdgOK /\ MarksOK /\ TailGroups /\ NothingYet /\ RepeatsOK /\ EdgesOK

LEMMA InitGroups == Init => GroupInv
<1> SUFFICES ASSUME Init PROVE GroupInv
  OBVIOUS
<1>1. /\ stage = "buildDG" /\ prdg = <<>> /\ idx = 1 /\ marked = {} /\ visited = {}
      /\ sccs = <<>> /\ repeats = 0
  BY DEF Init, BPInit
<1>2. PrdgOK
  <2>1. prdg \in Seq(SUBSET Inst) /\ DOMAIN prdg = {}
    BY <1>1
  <2> QED
    BY <2>1 DEF PrdgOK
<1> QED
  BY <1>1, <1>2 DEF GroupInv, MarksOK, TailGroups, NothingYet, RepeatsOK, EdgesOK

LEMMA InstFacts ==
  /\ BodySize \in Nat /\ BodySize >= 2 /\ Inst \subseteq Nat /\ Br \in Inst
  /\ IsFiniteSet(Inst) /\ Cardinality(Inst) = BodySize
BY BodyAssumption, FS_Interval DEF Inst, Br

(* The order of allocation comes to every instruction.                     *)
LEMMA AllocatedAll ==
  ASSUME BodyOK
  PROVE  \A i \in Inst : \E n \in Inst : allocated[n] = i
<1>1. allocated \in Injection(Inst, Inst)
  <2>1. allocated \in [Inst -> Inst] /\ \A i, j \in Inst : allocated[i] = allocated[j] => i = j
    BY DEF BodyOK, Orderings
  <2>2. IsInjective(allocated)
    BY <2>1 DEF IsInjective
  <2> QED
    BY <2>1, <2>2 DEF Injection
<1>2. allocated \in Surjection(Inst, Inst)
  BY <1>1, InstFacts, FS_Injection
<1> QED
  BY <1>2 DEF Surjection

LEMMA TailIsApart ==
  ASSUME BodyOK
  PROVE  /\ UsesKeep({Br})
         /\ Canonical => UsesKeep({inc})
<1>1. \A q \in uses : /\ q[1] \in Inst /\ q[2] \in Inst /\ q[2] /= Br /\ q[2] /= inc
                      /\ q[1] < q[2] /\ (Canonical => q[1] /= inc)
  BY DEF BodyOK
<1>2. ASSUME NEW q \in uses
      PROVE  q[1] /= Br
  <2>1. \A i \in Inst : i \in Nat /\ i <= Br
    BY InstFacts DEF Inst, Br
  <2>2. q[1] \in Nat /\ q[2] \in Nat /\ q[1] < q[2] /\ q[2] <= Br
    BY <1>1, <2>1
  <2> QED
    BY <2>2, InstFacts DEF Br
<1> QED
  BY <1>1, <1>2 DEF UsesKeep

LEMMA DualDgMapFacts ==
  ASSUME BodyOK, regDeps = [k \in Inst |-> {d \in Inst : <<k, d>> \in uses}]
  PROVE  /\ DualDgMap \in [Inst -> SUBSET Inst]
         /\ \A i, j \in Inst :
              j \in DualDgMap[i] <=> <<i, j>> \in uses \/ <<j, i>> \in uses
         /\ \A C \in SUBSET Inst :
              UsesKeep(C) <=> \A i \in C : DualDgMap[i] \subseteq C
<1>1. DualDgMap \in [Inst -> SUBSET Inst]
  BY DEF DualDgMap
<1>2. \A i, j \in Inst : j \in DualDgMap[i] <=> <<i, j>> \in uses \/ <<j, i>> \in uses
  BY DEF DualDgMap
<1>3. \A q \in uses : q = <<q[1], q[2]>> /\ q[1] \in Inst /\ q[2] \in Inst
  BY DEF BodyOK
<1>4. ASSUME NEW C \in SUBSET Inst, UsesKeep(C), NEW i \in C, NEW j \in DualDgMap[i]
      PROVE  j \in C
  <2>1. i \in Inst /\ j \in Inst
    BY <1>1
  <2>2. CASE <<i, j>> \in uses
    BY <1>4, <2>2 DEF UsesKeep
  <2>3. CASE <<j, i>> \in uses
    BY <1>4, <2>3 DEF UsesKeep
  <2> QED
    BY <1>2, <2>1, <2>2, <2>3
<1>5. ASSUME NEW C \in SUBSET Inst, \A i \in C : DualDgMap[i] \subseteq C, NEW q \in uses
      PROVE  q[1] \in C <=> q[2] \in C
  <2>1. q = <<q[1], q[2]>> /\ q[1] \in Inst /\ q[2] \in Inst
    BY <1>3
  <2>2. <<q[1], q[2]>> \in uses
    BY <2>1
  <2>3. q[2] \in DualDgMap[q[1]] /\ q[1] \in DualDgMap[q[2]]
    BY <1>2, <2>1, <2>2
  <2> QED
    BY <1>5, <2>3
<1> QED
  BY <1>1, <1>2, <1>4, <1>5 DEF UsesKeep


(* A round of build_partition that searches finds a group, and none of the *)
(* groups found before shares an instruction with it.                      *)
LEMMA GroupFound ==
  ASSUME GraphInv, PrdgOK, MarksOK, stage = "build_partition", idx <= BodySize,
         allocated[idx] \notin marked
  PROVE  LET r == Dfs(allocated[idx], DualDgMap, allocated, marked)
         IN  /\ IsGroup(r.group)
             /\ allocated[idx] \in r.group
             /\ \A g \in DOMAIN prdg : prdg[g] \cap r.group = {}
             /\ r.seen \subseteq r.group \cup marked
             /\ marked \subseteq r.seen
             /\ r.group \ r.seen \subseteq {allocated[idx]}
             /\ r.repeats \in 0 .. 1
<1> DEFINE i == allocated[idx]
           r == Dfs(i, DualDgMap, allocated, marked)
           before == UNION {prdg[g] : g \in DOMAIN prdg}
<1>0. /\ BodyOK
      /\ regDeps = [k \in Inst |-> {d \in Inst : <<k, d>> \in uses}]
  BY DEF GraphInv, GraphOK
<1>1. idx \in Inst /\ i \in Inst
  BY <1>0, InstFacts DEF MarksOK, BodyOK, Orderings, Inst
<1>2. marked \subseteq Inst /\ marked \subseteq before
  BY DEF MarksOK
<1>3. /\ DualDgMap \in [Inst -> SUBSET Inst]
      /\ \A C \in SUBSET Inst : UsesKeep(C) <=> \A x \in C : DualDgMap[x] \subseteq C
  BY <1>0, DualDgMapFacts
<1>4. /\ r.group \subseteq Inst /\ r.seen \subseteq Inst /\ marked \subseteq r.seen
      /\ r.group = {i} \cup (r.seen \ marked)
      /\ \A x \in r.group : DualDgMap[x] \subseteq r.group \cup marked
      /\ \A C \in SUBSET Inst :
           i \in C /\ (\A x \in C : DualDgMap[x] \subseteq C \cup marked) =>
             r.group \subseteq C
      /\ r.repeats \in 0 .. 1
  <2>1. IsFiniteSet(Inst) /\ Inst \subseteq Nat /\ marked \in SUBSET Inst
    BY <1>2, InstFacts
  <2>2. DualDgMap \in [Inst -> SUBSET Inst] /\ i \in Inst
    BY <1>1, <1>3
  <2>3. Lists(allocated, Inst)
    BY <1>0, <2>1, AllocatedAll DEF Lists, BodyOK, Orderings
  <2> HIDE DEF i
  <2> QED
    BY <2>1, <2>2, <2>3, DfsFinds
<1>5. i \notin before
  <2>1. SUFFICES ASSUME NEW g \in DOMAIN prdg, i \in prdg[g] PROVE FALSE
    OBVIOUS
  <2>2. PICK n \in 1 .. idx - 1 : i = allocated[n]
    BY <2>1 DEF MarksOK
  <2>3. n \in Inst /\ n /= idx
    BY <1>1, <2>2, InstFacts DEF Inst
  <2> QED
    BY <1>0, <1>1, <2>2, <2>3 DEF BodyOK, Orderings
<1>6. before \subseteq Inst /\ UsesKeep(before)
  BY <1>0 DEF PrdgOK, IsGroup, UsesKeep
<1> HIDE DEF before, r, i
<1>7. ASSUME NEW C \in SUBSET Inst, UsesKeep(C)
      PROVE  UsesKeep(Inst \ C)
  <2>1. \A q \in uses : q[1] \in Inst /\ q[2] \in Inst
    BY <1>0 DEF BodyOK
  <2> QED
    BY <1>7, <2>1 DEF UsesKeep
<1>8. ASSUME NEW C \in SUBSET Inst, UsesKeep(C), i \in C
      PROVE  r.group \subseteq C
  <2>1. \A x \in C : DualDgMap[x] \subseteq C \cup marked
    BY <1>3, <1>8
  <2> QED
    BY <1>4, <1>8, <2>1
<1>9. r.group \cap before = {}
  <2>1. i \in Inst \ before /\ UsesKeep(Inst \ before)
    BY <1>1, <1>5, <1>6, <1>7
  <2> QED
    BY <1>8, <2>1
<1>10. UsesKeep(r.group)
  <2>1. ASSUME NEW x \in r.group, NEW y \in DualDgMap[x]
        PROVE  y \in r.group
    <3>1. SUFFICES ASSUME y \in before PROVE FALSE
      BY <1>2, <1>4
    <3>2. DualDgMap[y] \subseteq before
      BY <1>3, <1>6, <3>1
    <3>3. x \in DualDgMap[y]
      <4>1. x \in Inst /\ y \in Inst
        BY <1>3, <1>4
      <4> QED
        BY <1>0, <4>1, DualDgMapFacts
    <3> QED
      BY <1>9, <3>2, <3>3
  <2> QED
    BY <1>3, <1>4, <2>1
<1>11. ASSUME NEW C \in SUBSET Inst, UsesKeep(C), C \cap r.group /= {}
       PROVE  r.group \subseteq C
  <2>1. CASE i \in C
    BY <1>8, <1>11, <2>1
  <2>2. CASE i \notin C
    <3>1. r.group \subseteq Inst \ C
      BY <1>1, <1>7, <1>8, <1>11, <2>2
    <3> QED
      BY <1>11, <3>1
  <2> QED
    BY <2>1, <2>2
<1>12. IsGroup(r.group)
  BY <1>4, <1>10, <1>11 DEF IsGroup
<1>13. \A g \in DOMAIN prdg : prdg[g] \cap r.group = {}
  BY <1>9 DEF before
<1> QED
  BY <1>4, <1>12, <1>13 DEF r, i

LEMMA MaxIsSmall ==
  ASSUME NEW S \in SUBSET (0 .. 1), S /= {}
  PROVE  Max(S) \in 0 .. 1
<1>1. \E m \in S : \A z \in S : m >= z
  <2>1. CASE 1 \in S
    BY <2>1
  <2>2. CASE 1 \notin S
    <3>1. PICK m \in S : TRUE
      OBVIOUS
    <3>2. \A z \in S : z = 0
      BY <2>2
    <3> QED
      BY <3>1, <3>2
  <2> QED
    BY <2>1, <2>2
<1>2. Max(S) \in S
  BY <1>1 DEF Max
<1> QED
  BY <1>2

(* The increment and the branch each are a group of their own.             *)
LEMMA TailGroup ==
  ASSUME BodyOK, Canonical, NEW S, IsGroup(S)
  PROVE  inc \in S => S = {inc}
<1>1. UsesKeep({inc}) /\ {inc} \in SUBSET Inst
  BY TailIsApart DEF BodyOK
<1> QED
  BY <1>1 DEF IsGroup

LEMMA BranchGroup ==
  ASSUME BodyOK, NEW S, IsGroup(S)
  PROVE  Br \in S => S = {Br}
<1>1. UsesKeep({Br}) /\ {Br} \in SUBSET Inst
  BY TailIsApart, InstFacts
<1> QED
  BY <1>1 DEF IsGroup

LEMMA StepBuildPartition ==
  ASSUME GraphInv, GroupInv, BuildPartition
  PROVE  /\ PrdgOK' /\ MarksOK' /\ TailGroups' /\ NothingYet' /\ RepeatsOK'
         /\ EdgesOK'
<1> DEFINE i == allocated[idx]
           r == Dfs(i, DualDgMap, allocated, marked)
<1>0. /\ BodyOK /\ PrdgOK /\ MarksOK /\ TailGroups /\ NothingYet /\ RepeatsOK
      /\ stage = "build_partition" /\ stage' = stage /\ idx <= BodySize
      /\ idx' = idx + 1
      /\ uses' = uses /\ inc' = inc /\ allocated' = allocated
      /\ visited' = visited /\ sccs' = sccs
  BY DEF GraphInv, GroupInv, BuildPartition, bodyVars
<1>1. /\ BodySize \in Nat /\ BodySize >= 2 /\ idx \in 1 .. BodySize /\ i \in Inst
      /\ idx' \in 1 .. BodySize + 1
      /\ prdg \in Seq(SUBSET Inst) /\ Len(prdg) \in Nat /\ Len(prdg) <= idx - 1
      /\ DOMAIN prdg = 1 .. Len(prdg)
  BY <1>0, InstFacts DEF MarksOK, BodyOK, Orderings, Inst, PrdgOK
<1>2. NothingYet' /\ EdgesOK'
  BY <1>0 DEF NothingYet, EdgesOK
<1>3. \A S : UsesKeep(S)' <=> UsesKeep(S)
  BY <1>0 DEF UsesKeep
<1>4. \A S : IsGroup(S)' <=> IsGroup(S)
  BY <1>0, <1>3 DEF IsGroup
<1>5. CASE i \in marked
  <2>1. prdg' = prdg /\ marked' = marked /\ repeats' = repeats
    BY <1>5 DEF BuildPartition
  <2>2. PrdgOK' /\ RepeatsOK'
    BY <1>0, <1>4, <2>1 DEF PrdgOK, RepeatsOK
  <2>3. MarksOK'
    <3>1. \A n \in 1 .. idx' - 1 : \E g \in DOMAIN prdg : allocated[n] \in prdg[g]
      <4>1. SUFFICES ASSUME NEW n \in 1 .. idx' - 1
                     PROVE  \E g \in DOMAIN prdg : allocated[n] \in prdg[g]
        OBVIOUS
      <4>2. n \in 1 .. idx - 1 \/ n = idx
        BY <1>0, <1>1
      <4> QED
        BY <1>0, <1>5, <4>2 DEF MarksOK
    <3>2. \A n \in 1 .. idx - 1 : n \in 1 .. idx' - 1
      BY <1>0, <1>1
    <3>3. \A x \in marked : x \in Inst /\ \E g \in DOMAIN prdg : x \in prdg[g]
      BY <1>0 DEF MarksOK
    <3>4. \A g \in DOMAIN prdg : \A x \in prdg[g] \ marked :
            \E n \in 1 .. idx' - 1 : x = allocated[n]
      BY <1>0, <3>2 DEF MarksOK
    <3>5. Len(prdg) <= idx' - 1
      BY <1>0, <1>1
    <3> QED
      BY <1>0, <1>1, <2>1, <3>1, <3>3, <3>4, <3>5 DEF MarksOK
  <2>4. TailGroups'
    <3>1. SUFFICES ASSUME Canonical
                   PROVE  \A g \in DOMAIN prdg :
                            /\ inc \in prdg[g] <=>
                                 \/ g = Len(prdg) /\ idx' = BodySize
                                 \/ g = Len(prdg) - 1 /\ idx' = BodySize + 1
                            /\ Br \in prdg[g] <=> g = Len(prdg) /\ idx' = BodySize + 1
      BY <1>0, <2>1 DEF TailGroups
    <3>2. i = idx /\ inc = BodySize - 1 /\ Br = BodySize
      BY <1>0, <1>1, <3>1 DEF BodyOK, Br, Inst
    <3>3. PICK k \in DOMAIN prdg : i \in prdg[k]
      BY <1>0, <1>5 DEF MarksOK
    <3>4. i /= inc /\ i /= Br
      BY <1>0, <1>1, <3>1, <3>2, <3>3 DEF TailGroups
    <3>5. idx < BodySize - 1
      BY <1>1, <3>2, <3>4
    <3>6. idx /= BodySize /\ idx /= BodySize + 1 /\ idx' /= BodySize /\ idx' /= BodySize + 1
      BY <1>0, <1>1, <3>5
    <3> QED
      BY <1>0, <3>1, <3>6 DEF TailGroups
  <2> QED
    BY <1>2, <2>2, <2>3, <2>4
<1>6. CASE i \notin marked
  <2>1. /\ prdg' = Append(prdg, r.group) /\ marked' = r.seen
        /\ repeats' = Max({repeats, r.repeats})
    BY <1>6 DEF BuildPartition
  <2>2. /\ IsGroup(r.group) /\ i \in r.group
        /\ \A g \in DOMAIN prdg : prdg[g] \cap r.group = {}
        /\ r.seen \subseteq r.group \cup marked /\ marked \subseteq r.seen
        /\ r.group \ r.seen \subseteq {i}
        /\ r.repeats \in 0 .. 1
    BY <1>0, <1>6, GroupFound
  <2> HIDE DEF r, i
  <2>3. RepeatsOK'
    BY <1>0, <2>1, <2>2, MaxIsSmall DEF RepeatsOK, NothingYet
  <2>4. /\ prdg' \in Seq(SUBSET Inst)
        /\ Len(prdg') = Len(prdg) + 1
        /\ DOMAIN prdg' = 1 .. Len(prdg) + 1
        /\ \A g \in 1 .. Len(prdg) : prdg'[g] = prdg[g]
        /\ prdg'[Len(prdg) + 1] = r.group
    <3>1. r.group \in SUBSET Inst
      BY <2>2 DEF IsGroup
    <3> QED
      BY <1>1, <2>1, <3>1, AppendFacts
  <2>5. \A g \in DOMAIN prdg' : g \in DOMAIN prdg \/ g = Len(prdg) + 1
    BY <1>1, <2>4
  <2>6. DOMAIN prdg \subseteq DOMAIN prdg' /\ Len(prdg) + 1 \in DOMAIN prdg'
    BY <1>1, <2>4
  <2>7. PrdgOK'
    <3>1. \A g \in DOMAIN prdg' : IsGroup(prdg'[g])
      BY <1>0, <1>1, <2>2, <2>4, <2>5 DEF PrdgOK
    <3>2. \A g, h \in DOMAIN prdg' : g /= h => prdg'[g] \cap prdg'[h] = {}
      <4>1. SUFFICES ASSUME NEW g \in DOMAIN prdg', NEW h \in DOMAIN prdg', g /= h
                     PROVE  prdg'[g] \cap prdg'[h] = {}
        OBVIOUS
      <4>2. CASE g \in DOMAIN prdg /\ h \in DOMAIN prdg
        BY <1>0, <1>1, <2>4, <4>1, <4>2 DEF PrdgOK
      <4>3. CASE g \in DOMAIN prdg /\ h = Len(prdg) + 1
        BY <1>1, <2>2, <2>4, <4>3
      <4>4. CASE h \in DOMAIN prdg /\ g = Len(prdg) + 1
        BY <1>1, <2>2, <2>4, <4>4
      <4> QED
        BY <2>5, <4>1, <4>2, <4>3, <4>4
    <3> QED
      BY <1>4, <2>4, <3>1, <3>2 DEF PrdgOK
  <2>8. MarksOK'
    <3>1. Len(prdg') <= idx' - 1
      BY <1>0, <1>1, <2>4
    <3>2. \A n \in 1 .. idx' - 1 : \E g \in DOMAIN prdg' : allocated[n] \in prdg'[g]
      <4>1. SUFFICES ASSUME NEW n \in 1 .. idx' - 1
                     PROVE  \E g \in DOMAIN prdg' : allocated[n] \in prdg'[g]
        OBVIOUS
      <4>2. CASE n \in 1 .. idx - 1
        <5>1. PICK g \in DOMAIN prdg : allocated[n] \in prdg[g]
          BY <1>0, <4>2 DEF MarksOK
        <5> QED
          BY <1>1, <2>4, <2>6, <5>1
      <4>3. CASE n = idx
        BY <2>2, <2>4, <2>6, <4>3 DEF i
      <4>4. n \in 1 .. idx - 1 \/ n = idx
        BY <1>0, <1>1
      <4> QED
        BY <4>2, <4>3, <4>4
    <3>3. \A x \in marked' : x \in Inst /\ \E g \in DOMAIN prdg' : x \in prdg'[g]
      <4>1. SUFFICES ASSUME NEW x \in marked'
                     PROVE  x \in Inst /\ \E g \in DOMAIN prdg' : x \in prdg'[g]
        OBVIOUS
      <4>2. CASE x \in r.group
        BY <2>2, <2>4, <2>6, <4>2 DEF IsGroup
      <4>3. CASE x \in marked
        <5>1. PICK g \in DOMAIN prdg : x \in prdg[g] /\ x \in Inst
          BY <1>0, <4>3 DEF MarksOK
        <5> QED
          BY <1>1, <2>4, <2>6, <5>1
      <4> QED
        BY <2>1, <2>2, <4>2, <4>3
    <3>4. \A g \in DOMAIN prdg' : \A x \in prdg'[g] \ marked' :
            \E n \in 1 .. idx' - 1 : x = allocated[n]
      <4>1. SUFFICES ASSUME NEW g \in DOMAIN prdg', NEW x \in prdg'[g] \ marked'
                     PROVE  \E n \in 1 .. idx' - 1 : x = allocated[n]
        OBVIOUS
      <4>2. CASE g \in DOMAIN prdg
        <5>1. x \in prdg[g] \ marked
          BY <1>1, <2>1, <2>2, <2>4, <4>1, <4>2
        <5>2. PICK n \in 1 .. idx - 1 : x = allocated[n]
          BY <1>0, <4>2, <5>1 DEF MarksOK
        <5>3. n \in 1 .. idx' - 1
          BY <1>0, <1>1, <5>2
        <5> QED
          BY <5>2, <5>3
      <4>3. CASE g = Len(prdg) + 1
        <5>1. x = i
          BY <2>1, <2>2, <2>4, <4>1, <4>3
        <5>2. idx \in 1 .. idx' - 1
          BY <1>0, <1>1
        <5> QED
          BY <5>1, <5>2 DEF i
      <4> QED
        BY <2>5, <4>2, <4>3
    <3> QED
      BY <1>0, <1>1, <3>1, <3>2, <3>3, <3>4 DEF MarksOK
  <2>9. TailGroups'
    <3>1. SUFFICES ASSUME Canonical, NEW g \in DOMAIN prdg'
                   PROVE  /\ inc \in prdg'[g] <=>
                               \/ g = Len(prdg') /\ idx' = BodySize
                               \/ g = Len(prdg') - 1 /\ idx' = BodySize + 1
                          /\ Br \in prdg'[g] <=> g = Len(prdg') /\ idx' = BodySize + 1
      BY <1>0 DEF TailGroups
    <3>2. i = idx /\ inc = BodySize - 1 /\ Br = BodySize
      BY <1>0, <1>1, <3>1 DEF BodyOK, Br, Inst, i
    <3>3. /\ inc \in r.group <=> idx = BodySize - 1
          /\ Br \in r.group <=> idx = BodySize
      <4>1. inc \in r.group => r.group = {inc}
        BY <1>0, <2>2, <3>1, TailGroup
      <4>2. Br \in r.group => r.group = {Br}
        BY <1>0, <2>2, BranchGroup
      <4> QED
        BY <2>2, <3>2, <4>1, <4>2
    <3>4. CASE g \in DOMAIN prdg
      <4>1. g \in Nat /\ g <= Len(prdg) /\ prdg'[g] = prdg[g]
        BY <1>1, <2>4, <3>4
      <4>2. /\ inc \in prdg[g] <=> \/ g = Len(prdg) /\ idx = BodySize
                                   \/ g = Len(prdg) - 1 /\ idx = BodySize + 1
            /\ Br \in prdg[g] <=> g = Len(prdg) /\ idx = BodySize + 1
        BY <1>0, <3>1, <3>4 DEF TailGroups
      <4> QED
        BY <1>0, <1>1, <2>4, <4>1, <4>2
    <3>5. CASE g = Len(prdg) + 1
      <4>1. prdg'[g] = r.group /\ g = Len(prdg')
        BY <2>4, <3>5
      <4>3. g /= Len(prdg') - 1
        <5>1. g \in Nat
          BY <1>1, <3>5
        <5> QED
          BY <4>1, <5>1
      <4>2. /\ idx = BodySize - 1 <=> idx' = BodySize
            /\ idx = BodySize <=> idx' = BodySize + 1
        BY <1>0, <1>1
      <4> QED
        BY <3>3, <4>1, <4>2, <4>3
    <3> QED
      BY <2>5, <3>4, <3>5
  <2> QED
    BY <1>2, <2>3, <2>7, <2>8, <2>9
<1> QED
  BY <1>5, <1>6

LEMMA StepFindEdges ==
  ASSUME GraphInv, GroupInv, FindEdges
  PROVE  /\ PrdgOK' /\ MarksOK' /\ TailGroups' /\ NothingYet' /\ RepeatsOK'
         /\ EdgesOK'
<1>0. /\ BodyOK /\ PrdgOK /\ MarksOK /\ TailGroups /\ NothingYet /\ RepeatsOK
      /\ stage = "build_partition" /\ stage' = "build_scc" /\ ~(idx <= BodySize)
      /\ uses' = uses /\ inc' = inc /\ allocated' = allocated /\ memDeps' = memDeps
      /\ prdg' = prdg /\ repeats' = repeats /\ visited' = visited
      /\ memDeps \in [Inst -> SUBSET Inst]
  <2>1. BodySize \in Nat /\ idx \in 1 .. BodySize + 1
    BY InstFacts DEF GroupInv, FindEdges, MarksOK
  <2> QED
    BY <2>1 DEF GraphInv, GraphOK, GroupInv, FindEdges, bodyVars, dgVars
<1>1. /\ BodySize \in Nat /\ BodySize >= 2 /\ idx = BodySize + 1
      /\ prdg \in Seq(SUBSET Inst) /\ Len(prdg) \in Nat /\ Len(prdg) <= BodySize
      /\ DOMAIN prdg = 1 .. Len(prdg)
      /\ inc \in Inst /\ Br \in Inst
  BY <1>0, InstFacts DEF MarksOK, PrdgOK, BodyOK
<1>2. \A S : IsGroup(S)' <=> IsGroup(S)
  BY <1>0 DEF IsGroup, UsesKeep
<1>3. PrdgOK' /\ MarksOK' /\ TailGroups' /\ NothingYet' /\ RepeatsOK'
  BY <1>0, <1>2 DEF PrdgOK, MarksOK, TailGroups, NothingYet, RepeatsOK
<1>4. \A i \in Inst : \E g \in DOMAIN prdg : i \in prdg[g]
  <2>1. SUFFICES ASSUME NEW i \in Inst PROVE \E g \in DOMAIN prdg : i \in prdg[g]
    OBVIOUS
  <2>2. PICK n \in Inst : allocated[n] = i
    BY <1>0, AllocatedAll
  <2>3. n \in 1 .. idx - 1
    BY <1>1 DEF Inst
  <2> QED
    BY <1>0, <2>2, <2>3 DEF MarksOK
<1>5. ASSUME NEW i \in Inst
      PROVE  /\ FindPrdg(i) \in DOMAIN prdg
             /\ \A g \in DOMAIN prdg : i \in prdg[g] <=> g = FindPrdg(i)
  <2>1. FindPrdg(i) \in DOMAIN prdg /\ i \in prdg[FindPrdg(i)]
    BY <1>4 DEF FindPrdg
  <2> HIDE DEF FindPrdg
  <2> QED
    BY <1>0, <2>1 DEF PrdgOK
<1>6. edges' = [g \in DOMAIN prdg |->
                  {FindPrdg(b) : b \in UNION {memDeps[a] : a \in prdg[g]}}]
  BY DEF FindEdges
<1>7. \A g \in DOMAIN prdg : prdg[g] \subseteq Inst
  BY <1>0 DEF PrdgOK, IsGroup
<1>8. \A g \in DOMAIN prdg : UNION {memDeps[a] : a \in prdg[g]} \subseteq Inst
  BY <1>0, <1>7
<1>9. edges' \in [DOMAIN prdg -> SUBSET DOMAIN prdg]
  <2> HIDE DEF FindPrdg
  <2> QED
    BY <1>5, <1>6, <1>8
<1>10. ASSUME NEW g \in DOMAIN prdg, NEW h \in DOMAIN prdg
       PROVE  h \in edges'[g] <=>
                \E a \in prdg[g] : \E b \in prdg[h] : b \in memDeps[a]
  <2> HIDE DEF FindPrdg
  <2>1. h \in edges'[g] <=>
          \E b \in UNION {memDeps[a] : a \in prdg[g]} : h = FindPrdg(b)
    BY <1>6
  <2>2. \A b \in UNION {memDeps[a] : a \in prdg[g]} :
          b \in prdg[h] <=> h = FindPrdg(b)
    BY <1>5, <1>8
  <2> QED
    BY <2>1, <2>2
<1>11. ASSUME Canonical
       PROVE  Len(prdg) >= 2 /\ prdg[Len(prdg) - 1] = {inc} /\ prdg[Len(prdg)] = {Br}
  <2>1. \A g \in DOMAIN prdg : /\ inc \in prdg[g] => g = Len(prdg) - 1
                               /\ Br \in prdg[g] => g = Len(prdg)
    BY <1>0, <1>1, <1>11 DEF TailGroups
  <2>2. PICK g \in DOMAIN prdg : inc \in prdg[g]
    BY <1>1, <1>4
  <2>3. PICK h \in DOMAIN prdg : Br \in prdg[h]
    BY <1>1, <1>4
  <2>4. g = Len(prdg) - 1 /\ h = Len(prdg) /\ Len(prdg) >= 2
    BY <1>1, <2>1, <2>2, <2>3
  <2>5. IsGroup(prdg[g]) /\ IsGroup(prdg[h])
    BY <1>0 DEF PrdgOK
  <2> QED
    BY <1>0, <1>11, <2>2, <2>3, <2>4, <2>5, TailGroup, BranchGroup
<1>12. EdgesOK'
  BY <1>0, <1>1, <1>4, <1>9, <1>10, <1>11 DEF EdgesOK
<1> QED
  BY <1>3, <1>12

(* The searches of build_scc are over the groups.                          *)
LEMMA GroupsToSearch ==
  ASSUME PrdgOK, EdgesOK, stage \in {"build_scc", "check_partition", "done", "bad_alloc"}
  PROVE  /\ DOMAIN prdg = 1 .. Len(prdg) /\ Len(prdg) \in Nat
         /\ DOMAIN prdg \subseteq Nat
         /\ IsFiniteSet(DOMAIN prdg) /\ Cardinality(DOMAIN prdg) = Len(prdg)
         /\ edges \in [DOMAIN prdg -> SUBSET DOMAIN prdg]
<1>1. Len(prdg) \in Nat /\ DOMAIN prdg = 1 .. Len(prdg)
  BY DEF PrdgOK
<1>2. IsFiniteSet(1 .. Len(prdg)) /\ Cardinality(1 .. Len(prdg)) = Len(prdg)
  <2> DEFINE n == Len(prdg)
  <2>1. n \in Int /\ n >= 0
    BY <1>1
  <2> HIDE DEF n
  <2>2. IsFiniteSet(1 .. n) /\ Cardinality(1 .. n) = n
    BY <2>1, FS_Interval
  <2> QED
    BY <2>2 DEF n
<1> QED
  BY <1>1, <1>2 DEF EdgesOK

(* dfs_scc: the group and those it reaches that are in no partition.       *)
LEMMA SccSearch ==
  ASSUME PrdgOK, EdgesOK, visited \subseteq DOMAIN prdg,
         stage \in {"build_scc", "check_partition", "done", "bad_alloc"},
         NEW g \in DOMAIN prdg
  PROVE  LET r == DfsScc(g, visited)
         IN  /\ r.group \subseteq DOMAIN prdg
             /\ g \in r.group
             /\ \A x \in r.group : edges[x] \subseteq r.group \cup visited
             /\ \A C \in SUBSET DOMAIN prdg :
                  g \in C /\ (\A x \in C : edges[x] \subseteq C \cup visited) =>
                    r.group \subseteq C
             /\ r.repeats \in 0 .. 1
<1> DEFINE N == DOMAIN prdg
           seen == visited \cup {g}
           order == [h \in DOMAIN prdg |-> h]
           r == Dfs(g, edges, order, seen)
<1>1. /\ IsFiniteSet(N) /\ N \subseteq Nat /\ edges \in [N -> SUBSET N]
      /\ g \in N /\ seen \in SUBSET N
  BY GroupsToSearch
<1>0. Lists(order, N)
  BY <1>1 DEF Lists
<1> HIDE DEF N, order
<1>2. /\ r.group \subseteq N /\ r.seen \subseteq N /\ seen \subseteq r.seen
      /\ r.group = {g} \cup (r.seen \ seen)
      /\ \A x \in r.group : edges[x] \subseteq r.group \cup seen
      /\ \A C \in SUBSET N :
           g \in C /\ (\A x \in C : edges[x] \subseteq C \cup seen) =>
             r.group \subseteq C
      /\ r.repeats \in 0 .. 1
  <2> HIDE DEF seen
  <2> QED
    BY <1>0, <1>1, DfsFinds
<1>3. g \in r.group
  BY <1>2
<1>4. \A x \in r.group : edges[x] \subseteq r.group \cup visited
  BY <1>2, <1>3
<1>5. \A C \in SUBSET N :
           g \in C /\ (\A x \in C : edges[x] \subseteq C \cup visited) =>
             r.group \subseteq C
  BY <1>2
<1>6. DfsScc(g, visited) = r
  BY DEF DfsScc, order
<1> HIDE DEF r
<1> QED
  BY <1>2, <1>3, <1>4, <1>5, <1>6 DEF N

LEMMA StepGroups == GraphInv /\ GroupInv /\ [Next]_vars => GroupInv'
<1> SUFFICES ASSUME GraphInv, GroupInv, [Next]_vars PROVE GroupInv'
  OBVIOUS
<1>0. PrdgOK /\ MarksOK /\ TailGroups /\ NothingYet /\ RepeatsOK /\ EdgesOK
  BY DEF GroupInv
<1>1. CASE BuildPartition
  BY <1>1, StepBuildPartition DEF GroupInv
<1>2. CASE FindEdges
  BY <1>2, StepFindEdges DEF GroupInv
<1>3. ASSUME UNCHANGED <<uses, inc, allocated, memDeps, idx, marked, prdg, edges>>,
             NothingYet',
             stage /= "build_partition" => stage' /= "build_partition",
             stage \in {"buildDG", "no_analysis", "build_partition"} =>
               stage' \in {"buildDG", "no_analysis", "build_partition"}
      PROVE  /\ PrdgOK' /\ (stage' /= "build_partition" => MarksOK' /\ TailGroups')
             /\ EdgesOK'
  <2>1. \A S : IsGroup(S)' <=> IsGroup(S)
    BY <1>3 DEF IsGroup, UsesKeep
  <2>2. PrdgOK'
    BY <1>0, <1>3, <2>1 DEF PrdgOK
  <2>3. EdgesOK'
    BY <1>0, <1>3 DEF EdgesOK
  <2> QED
    BY <2>2, <2>3 DEF MarksOK, TailGroups
<1>4. CASE RunDG
  <2>1. /\ UNCHANGED <<uses, inc, allocated, idx, marked, prdg, edges, visited, sccs, repeats>>
        /\ stage = "buildDG" /\ stage' = "build_partition"
    BY <1>4 DEF RunDG, BuildDG, bodyVars
  <2>2. prdg = <<>> /\ idx = 1 /\ marked = {}
    BY <1>0, <2>1 DEF NothingYet
  <2>3. PrdgOK' /\ MarksOK' /\ TailGroups'
    BY <2>1, <2>2, InstFacts DEF PrdgOK, MarksOK, TailGroups
  <2> QED
    BY <1>0, <2>1, <2>3 DEF GroupInv, NothingYet, RepeatsOK, EdgesOK
<1>5. CASE SkipLoop
  <2>1. /\ UNCHANGED <<uses, inc, allocated, memDeps, idx, marked, prdg, edges, visited, sccs, repeats>>
        /\ stage = "buildDG" /\ stage' = "no_analysis"
    BY <1>5 DEF SkipLoop, RejectLoop, bodyVars, dgVars
  <2>2. NothingYet' /\ RepeatsOK'
    BY <1>0, <2>1 DEF NothingYet, RepeatsOK
  <2> QED
    BY <1>3, <2>1, <2>2 DEF GroupInv
<1>6. CASE BuildScc
  <2>1. /\ UNCHANGED <<uses, inc, allocated, memDeps, idx, marked, prdg, edges>>
        /\ stage = "build_scc" /\ stage' = stage
    BY <1>6 DEF BuildScc, bodyVars, dgVars
  <2>2. NothingYet'
    BY <1>0, <2>1 DEF NothingYet
  <2>3. PICK g \in DOMAIN prdg \ visited :
          repeats' = Max({repeats} \cup {DfsScc(h, visited).repeats :
                                           h \in DfsScc(g, visited).group})
    BY <1>6 DEF BuildScc
  <2>4. /\ \A h \in DOMAIN prdg : DfsScc(h, visited).repeats \in 0 .. 1
        /\ DfsScc(g, visited).group \subseteq DOMAIN prdg
    BY <1>0, <2>1, SccSearch DEF RepeatsOK
  <2>5. RepeatsOK'
    <3>1. repeats' \in 0 .. 1
      <4> DEFINE S == {repeats} \cup {DfsScc(h, visited).repeats :
                                        h \in DfsScc(g, visited).group}
      <4>1. S \in SUBSET (0 .. 1) /\ S /= {}
        BY <1>0, <2>4 DEF RepeatsOK
      <4> HIDE DEF S
      <4>2. Max(S) \in 0 .. 1
        BY <4>1, MaxIsSmall
      <4> QED
        BY <2>3, <4>2 DEF S
    <3>2. visited' \subseteq DOMAIN prdg
      BY <1>0, <1>6, SccSearch, <2>1 DEF BuildScc, RepeatsOK
    <3> QED
      BY <2>1, <3>1, <3>2 DEF RepeatsOK
  <2> QED
    BY <1>0, <1>3, <2>1, <2>2, <2>5 DEF GroupInv
<1>7. CASE ReturnSccs \/ CheckPartition
  <2>1. /\ UNCHANGED <<uses, inc, allocated, memDeps, idx, marked, prdg, edges,
                       visited, repeats>>
        /\ stage \in {"build_scc", "check_partition"}
        /\ stage' \in {"check_partition", "done", "bad_alloc"}
    BY <1>7 DEF ReturnSccs, CheckPartition, bodyVars, dgVars
  <2>2. NothingYet' /\ RepeatsOK'
    BY <1>0, <2>1 DEF NothingYet, RepeatsOK
  <2> QED
    BY <1>3, <2>1, <2>2 DEF GroupInv
<1>8. CASE SplitStep \/ UNCHANGED vars
  <2>1. UNCHANGED <<uses, inc, allocated, memDeps, idx, marked, prdg, edges,
                    visited, sccs, repeats, stage>>
    BY <1>8 DEF SplitStep, vars, bodyVars, dgVars, bpVars
  <2>2. NothingYet' /\ RepeatsOK' /\ MarksOK' /\ TailGroups'
    BY <1>0, <2>1 DEF NothingYet, RepeatsOK, MarksOK, TailGroups
  <2> QED
    BY <1>3, <2>1, <2>2 DEF GroupInv
<1> QED
  BY <1>1, <1>2, <1>4, <1>5, <1>6, <1>7, <1>8 DEF Next, BPNext

(* No search has to remove two elements from one result: for bodies of any *)
(* length, whatever the uses, the dependences and the order of allocation. *)
THEOREM RemovalsAlwaysSafe == Spec => []RemovalsAreSafe
<1>1. GroupInv => RemovalsAreSafe
  BY DEF GroupInv, RepeatsOK, RemovalsAreSafe
<1> QED
  BY <1>1, InitGraph, StepGraph, InitGroups, StepGroups, PTL DEF Spec

-----------------------------------------------------------------------------
(* The components of the groups, and those of the instructions.            *)

Partitioned == stage \in {"build_scc", "check_partition", "done", "bad_alloc"}

EdgesKeep(C) == \A g \in C : edges[g] \subseteq C

(* The groups on a cycle with group g: they are in the same sets that no   *)
(* edge leads out of.                                                      *)
ClassOf(g) ==
  {h \in DOMAIN prdg :
     \A C \in SUBSET DOMAIN prdg : EdgesKeep(C) => (g \in C <=> h \in C)}

StepsKeep(C) == \A p \in Steps : p[1] \in C => p[2] \in C

Together(i) == {j \in Inst : <<i, j>> \in MustStayTogether}

LEMMA TogetherFacts ==
  ASSUME NEW i \in Inst, NEW j \in Inst
  PROVE  /\ <<i, j>> \in MustStayTogether <=>
              \A C \in SUBSET Inst : StepsKeep(C) => (i \in C <=> j \in C)
         /\ j \in Together(i) <=> <<i, j>> \in MustStayTogether
BY DEF MustStayTogether, StepsKeep, Together

(* Sets of groups that no edge leads out of are sets of instructions that  *)
(* no step leads out of.                                                   *)
LEMMA GroupsToInstructions ==
  ASSUME GraphInv, PrdgOK, EdgesOK, Partitioned,
         NEW C \in SUBSET DOMAIN prdg, EdgesKeep(C)
  PROVE  LET U == UNION {prdg[g] : g \in C}
         IN  /\ U \in SUBSET Inst
             /\ StepsKeep(U)
             /\ \A g \in DOMAIN prdg : \A i \in prdg[g] : i \in U <=> g \in C
<1> DEFINE U == UNION {prdg[g] : g \in C}
<1>0. /\ BodyOK /\ memDeps \in [Inst -> SUBSET Inst]
      /\ \A a, b \in Inst : b \in memDeps[a] <=> a /= b /\ DependsOn(b, a)
  BY DEF GraphInv, GraphOK, Partitioned
<1>1. U \in SUBSET Inst
  BY DEF PrdgOK, IsGroup
<1>2. \A g \in DOMAIN prdg : \A i \in prdg[g] : i \in U <=> g \in C
  BY DEF PrdgOK
<1>3. ASSUME NEW p \in Steps, p[1] \in U
      PROVE  p[2] \in U
  <2>1. PICK g \in C : p[1] \in prdg[g]
    BY <1>3
  <2>2. UsesKeep(prdg[g]) /\ g \in DOMAIN prdg
    BY DEF PrdgOK, IsGroup
  <2>3. p[1] \in Inst /\ p[2] \in Inst /\ p = <<p[1], p[2]>>
    BY DEF Steps
  <2>4. CASE p \in uses \/ <<p[2], p[1]>> \in uses
    <3>1. p[2] \in prdg[g]
      BY <2>1, <2>2, <2>4 DEF UsesKeep
    <3> QED
      BY <3>1
  <2>5. CASE DependsOn(p[2], p[1]) /\ p[1] /= p[2]
    <3>1. p[2] \in memDeps[p[1]]
      BY <1>0, <2>3, <2>5
    <3>2. PICK h \in DOMAIN prdg : p[2] \in prdg[h]
      BY <2>3 DEF EdgesOK, Partitioned
    <3>3. h \in edges[g]
      BY <2>1, <2>2, <3>1, <3>2 DEF EdgesOK, Partitioned
    <3>4. h \in C
      BY <3>3 DEF EdgesKeep
    <3> QED
      BY <3>2, <3>4
  <2> QED
    BY <1>3, <2>4, <2>5 DEF Steps
<1> HIDE DEF U
<1>4. StepsKeep(U)
  BY <1>3 DEF StepsKeep
<1> QED
  BY <1>1, <1>2, <1>4 DEF U

(* And the other way round.                                                *)
LEMMA InstructionsToGroups ==
  ASSUME GraphInv, PrdgOK, EdgesOK, Partitioned,
         NEW C \in SUBSET Inst, StepsKeep(C)
  PROVE  LET G == {g \in DOMAIN prdg : prdg[g] \subseteq C}
         IN  /\ EdgesKeep(G)
             /\ \A g \in DOMAIN prdg : \A i \in prdg[g] : i \in C <=> g \in G
<1> DEFINE G == {g \in DOMAIN prdg : prdg[g] \subseteq C}
<1>0. /\ BodyOK /\ memDeps \in [Inst -> SUBSET Inst]
      /\ \A a, b \in Inst : b \in memDeps[a] <=> a /= b /\ DependsOn(b, a)
  BY DEF GraphInv, GraphOK, Partitioned
<1>1. UsesKeep(C)
  <2>1. ASSUME NEW q \in uses
        PROVE  q[1] \in C <=> q[2] \in C
    <3>1. q[1] \in Inst /\ q[2] \in Inst /\ q = <<q[1], q[2]>>
      BY <1>0 DEF BodyOK
    <3>2. q \in Steps /\ <<q[2], q[1]>> \in Steps
      BY <3>1 DEF Steps
    <3>3. q[1] \in C => q[2] \in C
      BY <3>2 DEF StepsKeep
    <3>4. q[2] \in C => q[1] \in C
      BY <3>2 DEF StepsKeep
    <3> QED
      BY <3>3, <3>4
  <2> QED
    BY <2>1 DEF UsesKeep
<1>2. \A g \in DOMAIN prdg : \A i \in prdg[g] : i \in C <=> g \in G
  <2>1. SUFFICES ASSUME NEW g \in DOMAIN prdg, NEW i \in prdg[g], i \in C
                 PROVE  prdg[g] \subseteq C
    OBVIOUS
  <2> QED
    BY <1>1, <2>1 DEF PrdgOK, IsGroup
<1>3. ASSUME NEW g \in G, NEW h \in edges[g]
      PROVE  h \in G
  <2>1. h \in DOMAIN prdg
    BY DEF EdgesOK, Partitioned
  <2>2. PICK a \in prdg[g], b \in prdg[h] : b \in memDeps[a]
    BY <1>3, <2>1 DEF EdgesOK, Partitioned
  <2>3. a \in Inst /\ b \in Inst
    BY <1>3, <2>1, <2>2 DEF PrdgOK, IsGroup
  <2>4. <<a, b>> \in Steps
    BY <1>0, <2>2, <2>3 DEF Steps
  <2>5. b \in C
    BY <1>3, <2>2, <2>4 DEF StepsKeep
  <2> QED
    BY <1>2, <2>1, <2>2, <2>5
<1> HIDE DEF G
<1>4. EdgesKeep(G)
  BY <1>3 DEF EdgesKeep
<1> QED
  BY <1>2, <1>4 DEF G

(* Instructions that must stay together are those of groups on a cycle.    *)
LEMMA ClassIsTogether ==
  ASSUME GraphInv, PrdgOK, EdgesOK, Partitioned,
         NEW g \in DOMAIN prdg, NEW i \in prdg[g],
         NEW h \in DOMAIN prdg, NEW j \in prdg[h]
  PROVE  j \in Together(i) <=> h \in ClassOf(g)
<1>1. i \in Inst /\ j \in Inst
  BY DEF PrdgOK, IsGroup
<1>2. ASSUME h \in ClassOf(g), NEW C \in SUBSET Inst, StepsKeep(C)
      PROVE  i \in C <=> j \in C
  <2> DEFINE G == {k \in DOMAIN prdg : prdg[k] \subseteq C}
  <2>1. /\ EdgesKeep(G)
        /\ \A k \in DOMAIN prdg : \A x \in prdg[k] : x \in C <=> k \in G
    BY <1>2, InstructionsToGroups
  <2>2. G \in SUBSET DOMAIN prdg
    OBVIOUS
  <2> HIDE DEF G
  <2>3. g \in G <=> h \in G
    BY <1>2, <2>1, <2>2 DEF ClassOf
  <2> QED
    BY <2>1, <2>3
<1>3. ASSUME j \in Together(i), NEW C \in SUBSET DOMAIN prdg, EdgesKeep(C)
      PROVE  g \in C <=> h \in C
  <2> DEFINE U == UNION {prdg[k] : k \in C}
  <2>1. /\ U \in SUBSET Inst /\ StepsKeep(U)
        /\ \A k \in DOMAIN prdg : \A x \in prdg[k] : x \in U <=> k \in C
    BY <1>3, GroupsToInstructions
  <2> HIDE DEF U
  <2>2. i \in U <=> j \in U
    BY <1>1, <1>3, <2>1, TogetherFacts
  <2> QED
    BY <2>1, <2>2
<1> QED
  BY <1>1, <1>2, <1>3, TogetherFacts DEF ClassOf

(* build_scc's comparison takes in exactly the groups on a cycle with the  *)
(* first one, when those in a partition already are whole components.      *)
LEMMA CycleIsClass ==
  ASSUME PrdgOK, EdgesOK, Partitioned, visited \subseteq DOMAIN prdg,
         \A x \in visited : ClassOf(x) \subseteq visited,
         NEW g \in DOMAIN prdg \ visited
  PROVE  LET reach == DfsScc(g, visited).group
         IN  {h \in reach : InCycle(h, g, reach)} = ClassOf(g)
<1> DEFINE N == DOMAIN prdg
           R(x) == DfsScc(x, visited).group
<1>1. ASSUME NEW x \in N
      PROVE  /\ R(x) \subseteq N /\ x \in R(x)
             /\ \A y \in R(x) : edges[y] \subseteq R(x) \cup visited
             /\ \A C \in SUBSET N :
                  x \in C /\ (\A y \in C : edges[y] \subseteq C \cup visited) =>
                    R(x) \subseteq C
  BY SccSearch DEF Partitioned
<1> HIDE DEF R
<1>2. edges \in [N -> SUBSET N]
  BY DEF EdgesOK, Partitioned
<1>3. ASSUME NEW C \in SUBSET N, EdgesKeep(C), NEW x \in C
      PROVE  R(x) \subseteq C
  <2>1. \A y \in C : edges[y] \subseteq C \cup visited
    BY <1>3 DEF EdgesKeep
  <2> QED
    BY <1>1, <2>1
<1>4. ASSUME NEW h \in R(g), R(g) \subseteq R(h)
      PROVE  h \in ClassOf(g)
  <2>1. h \in N /\ g \in R(h)
    BY <1>1, <1>4
  <2>2. ASSUME NEW C \in SUBSET N, EdgesKeep(C)
        PROVE  g \in C <=> h \in C
    BY <1>3, <1>4, <2>1, <2>2
  <2> QED
    BY <2>1, <2>2 DEF ClassOf
<1>5. ASSUME NEW x \in N \ visited, NEW h \in ClassOf(x)
      PROVE  h \in R(x)
  <2> DEFINE Apart == {y \in N : \E E \in SUBSET N : EdgesKeep(E) /\ y \in E /\ x \notin E}
             D == R(x) \cup Apart
  <2>1. \A y \in Apart : edges[y] \subseteq Apart
    <3>1. SUFFICES ASSUME NEW y \in Apart, NEW z \in edges[y] PROVE z \in Apart
      OBVIOUS
    <3>2. PICK E \in SUBSET N : EdgesKeep(E) /\ y \in E /\ x \notin E
      OBVIOUS
    <3>3. z \in E
      BY <3>2 DEF EdgesKeep
    <3> QED
      BY <3>2, <3>3
  <2>2. ASSUME NEW y \in R(x), NEW z \in edges[y], z \in visited
        PROVE  z \in Apart
    <3>1. z \in N /\ x \notin ClassOf(z)
      BY <1>5, <2>2
    <3>2. PICK C \in SUBSET N : EdgesKeep(C) /\ ~(z \in C <=> x \in C)
      BY <1>5, <3>1 DEF ClassOf
    <3>3. CASE x \in C
      <4>1. y \in C
        BY <1>3, <2>2, <3>2, <3>3
      <4> QED
        BY <2>2, <3>2, <3>3, <4>1 DEF EdgesKeep
    <3>4. CASE z \in C
      BY <3>1, <3>2, <3>4
    <3> QED
      BY <3>2, <3>3, <3>4
  <2>3. D \in SUBSET N
    BY <1>1
  <2> HIDE DEF Apart
  <2>4. EdgesKeep(D)
    <3>1. ASSUME NEW y \in R(x), NEW z \in edges[y]
          PROVE  z \in R(x) \cup Apart
      <4>1. z \in R(x) \cup visited
        BY <1>1, <1>5, <3>1
      <4> QED
        BY <2>2, <3>1, <4>1
    <3>2. \A y \in D : edges[y] \subseteq D
      BY <2>1, <3>1
    <3> QED
      BY <3>2 DEF EdgesKeep
  <2>5. h \in D
    <3>1. x \in D
      BY <1>1, <1>5
    <3> HIDE DEF D
    <3> QED
      BY <1>5, <2>3, <2>4, <3>1 DEF ClassOf
  <2>6. h \notin Apart
    BY <1>5 DEF ClassOf, Apart
  <2> QED
    BY <2>5, <2>6
<1>6. ASSUME NEW h \in ClassOf(g)
      PROVE  h \in R(g) /\ R(g) \subseteq R(h)
  <2>1. h \in N /\ g \in ClassOf(h)
    BY DEF ClassOf
  <2>2. h \notin visited
    BY <2>1
  <2>3. g \in R(h)
    BY <1>5, <2>1, <2>2
  <2>4. R(g) \subseteq R(h)
    BY <1>1, <2>1, <2>3
  <2> QED
    BY <1>5, <2>4
<1>7. g \in ClassOf(g)
  BY DEF ClassOf
<1>8. ASSUME NEW h
      PROVE  h \in R(g) /\ (h = g \/ R(g) \subseteq R(h)) <=> h \in ClassOf(g)
  BY <1>1, <1>4, <1>6, <1>7
<1> QED
  BY <1>8 DEF InCycle, R

-----------------------------------------------------------------------------
(* The partitions.                                                         *)

(* The groups in a partition are whole components.                         *)
VisitedOK ==
  Partitioned =>
    /\ \A g \in visited : ClassOf(g) \subseteq visited
    /\ stage /= "build_scc" => visited = DOMAIN prdg
    /\ stage = "check_partition" => heuristic

(* A partition is a component, or some of them after the heuristic.        *)
SccsOK ==
  Partitioned =>
    /\ sccs \in Seq(SUBSET Inst)
    /\ Len(sccs) <= Cardinality(visited)
    /\ \A s, t \in DOMAIN sccs : s /= t => sccs[s] \cap sccs[t] = {}
    /\ \A g \in DOMAIN prdg : \A i \in prdg[g] :
         g \in visited <=> \E s \in DOMAIN sccs : i \in sccs[s]
    /\ \A s \in DOMAIN sccs : \A i \in sccs[s] :
         /\ Together(i) \subseteq sccs[s]
         /\ ~(heuristic /\ stage = "done") => sccs[s] \subseteq Together(i)

(* The increment and the branch, whose groups come last, are taken last.   *)
TailOK ==
  Partitioned /\ Canonical =>
    /\ Len(prdg) - 1 \in visited => 1 .. Len(prdg) - 2 \subseteq visited
    /\ Len(prdg) \in visited => Len(prdg) - 1 \in visited
    /\ Len(prdg) \in visited => /\ Len(sccs) >= 2
                                /\ sccs[Len(sccs) - 1] = {inc}
                                /\ sccs[Len(sccs)] = {Br}
    /\ Len(prdg) - 1 \in visited /\ Len(prdg) \notin visited =>
         Len(sccs) >= 1 /\ sccs[Len(sccs)] = {inc}

PartsInv == VisitedOK /\ SccsOK /\ TailOK

(* The group's component is what has to stay together with any of its      *)
(* instructions.                                                           *)
LEMMA ClassInstructions ==
  ASSUME GraphInv, PrdgOK, EdgesOK, Partitioned, NEW g \in DOMAIN prdg
  PROVE  LET U == UNION {prdg[h] : h \in ClassOf(g)}
         IN  /\ U \in SUBSET Inst
             /\ \A i \in U : Together(i) = U
             /\ \A h \in DOMAIN prdg : \A i \in prdg[h] : i \in U <=> h \in ClassOf(g)
<1> DEFINE U == UNION {prdg[h] : h \in ClassOf(g)}
<1>1. \A h \in DOMAIN prdg : prdg[h] \subseteq Inst
  BY DEF PrdgOK, IsGroup
<1>2. U \in SUBSET Inst
  BY <1>1 DEF ClassOf
<1>3. \A h \in DOMAIN prdg : \A i \in prdg[h] : i \in U <=> h \in ClassOf(g)
  BY DEF PrdgOK, ClassOf
<1>4. \A i \in U : \E h \in DOMAIN prdg : i \in prdg[h] /\ h \in ClassOf(g)
  BY DEF ClassOf
<1> HIDE DEF U
<1>5. ASSUME NEW i \in U, NEW j \in Inst
      PROVE  j \in Together(i) <=> j \in U
  <2>1. PICK h \in DOMAIN prdg : i \in prdg[h] /\ h \in ClassOf(g)
    BY <1>4
  <2>2. PICK k \in DOMAIN prdg : j \in prdg[k]
    BY DEF EdgesOK, Partitioned
  <2>3. j \in Together(i) <=> k \in ClassOf(h)
    BY <2>1, <2>2, ClassIsTogether
  <2>4. k \in ClassOf(h) <=> k \in ClassOf(g)
    BY <2>1 DEF ClassOf
  <2> QED
    BY <1>3, <2>2, <2>3, <2>4
<1>6. ASSUME NEW i \in U
      PROVE  Together(i) = U
  <2>1. Together(i) \subseteq Inst
    BY DEF Together
  <2> QED
    BY <1>2, <1>5, <2>1
<1> QED
  BY <1>2, <1>3, <1>6 DEF U

(* No dependence leads from the increment or the branch to others.         *)
LEMMA TailClasses ==
  ASSUME GraphInv, PrdgOK, EdgesOK, Partitioned, Canonical
  PROVE  /\ Len(prdg) \in DOMAIN prdg /\ Len(prdg) - 1 \in DOMAIN prdg
         /\ ClassOf(Len(prdg)) = {Len(prdg)}
         /\ ClassOf(Len(prdg) - 1) = {Len(prdg) - 1}
<1>0. /\ BodyOK /\ memDeps \in [Inst -> SUBSET Inst]
      /\ \A a, b \in Inst : b \in memDeps[a] <=> a /= b /\ DependsOn(b, a)
      /\ Len(prdg) \in Nat /\ Len(prdg) >= 2 /\ DOMAIN prdg = 1 .. Len(prdg)
      /\ prdg[Len(prdg) - 1] = {inc} /\ prdg[Len(prdg)] = {Br}
      /\ edges \in [DOMAIN prdg -> SUBSET DOMAIN prdg]
      /\ inc \in Inst /\ Br \in Inst
  BY InstFacts DEF GraphInv, GraphOK, Partitioned, PrdgOK, EdgesOK, BodyOK
<1>1. Len(prdg) \in DOMAIN prdg /\ Len(prdg) - 1 \in DOMAIN prdg
  BY <1>0
<1>2. \A a \in {inc, Br} : memDeps[a] = {}
  <2>1. ASSUME NEW a \in {inc, Br}, NEW b \in Inst PROVE direction[<<a, b>>] = {}
    <3>1. a \in Inst
      BY <1>0
    <3> QED
      BY <1>0, <3>1 DEF BodyOK
  <2>2. \A a \in {inc, Br} : \A b \in Inst : ~DependsOn(b, a)
    BY <2>1 DEF DependsOn
  <2> QED
    BY <1>0, <2>2
<1>3. ASSUME NEW g \in DOMAIN prdg, prdg[g] \subseteq {inc, Br}
      PROVE  ClassOf(g) = {g}
  <2>1. \A h \in DOMAIN prdg : h \notin edges[g]
    <3>1. \A h \in DOMAIN prdg :
            h \in edges[g] <=> \E a \in prdg[g] : \E b \in prdg[h] : b \in memDeps[a]
      BY DEF EdgesOK, Partitioned
    <3> QED
      BY <1>2, <1>3, <3>1
  <2>2. edges[g] = {}
    BY <1>0, <2>1
  <2>3. EdgesKeep({g})
    BY <2>2 DEF EdgesKeep
  <2> QED
    BY <2>3 DEF ClassOf
<1> QED
  BY <1>0, <1>1, <1>3

LEMMA StepBuildScc ==
  ASSUME GraphInv, GroupInv, PartsInv, BuildScc
  PROVE  PartsInv'
<1>0. /\ PrdgOK /\ EdgesOK /\ Partitioned /\ visited \subseteq DOMAIN prdg
      /\ VisitedOK /\ SccsOK /\ TailOK
      /\ stage = "build_scc" /\ stage' = stage
      /\ UNCHANGED <<bodyVars, dgVars, prdg, edges>>
      /\ Partitioned'
  BY DEF GroupInv, RepeatsOK, PartsInv, BuildScc, Partitioned
<1>1. PICK g \in DOMAIN prdg \ visited :
        /\ \A h \in DOMAIN prdg \ visited : g <= h
        /\ visited' = visited \cup ClassOf(g)
        /\ sccs' = Append(sccs, UNION {prdg[h] : h \in ClassOf(g)})
  <2>1. PICK g \in DOMAIN prdg \ visited :
          LET reach == DfsScc(g, visited).group
              cycle == {h \in reach : InCycle(h, g, reach)}
          IN  /\ \A h \in DOMAIN prdg \ visited : g <= h
              /\ visited' = visited \cup cycle
              /\ sccs' = Append(sccs, UNION {prdg[h] : h \in cycle})
    BY DEF BuildScc
  <2> DEFINE reach == DfsScc(g, visited).group
             cycle == {h \in reach : InCycle(h, g, reach)}
  <2>2. cycle = ClassOf(g)
    BY <1>0, CycleIsClass DEF VisitedOK
  <2>3. /\ \A h \in DOMAIN prdg \ visited : g <= h
        /\ visited' = visited \cup cycle
        /\ sccs' = Append(sccs, UNION {prdg[h] : h \in cycle})
    BY <2>1
  <2> HIDE DEF cycle
  <2> QED
    BY <2>2, <2>3
<1> DEFINE U == UNION {prdg[h] : h \in ClassOf(g)}
<1>2. /\ U \in SUBSET Inst
      /\ \A i \in U : Together(i) = U
      /\ \A h \in DOMAIN prdg : \A i \in prdg[h] : i \in U <=> h \in ClassOf(g)
  BY <1>0, ClassInstructions
<1>3. /\ \A i \in Inst : Together(i)' = Together(i)
      /\ \A h : ClassOf(h)' = ClassOf(h)
  BY <1>0 DEF Together, MustStayTogether, Steps, DependsOn, bodyVars, ClassOf, EdgesKeep
<1>4. /\ g \in ClassOf(g) /\ ClassOf(g) \subseteq DOMAIN prdg
      /\ \A h \in ClassOf(g) : ClassOf(h) = ClassOf(g)
      /\ \A h \in ClassOf(g) : h \notin visited
  <2>1. /\ g \in ClassOf(g) /\ ClassOf(g) \subseteq DOMAIN prdg
        /\ \A h \in ClassOf(g) : ClassOf(h) = ClassOf(g)
    BY DEF ClassOf
  <2> QED
    BY <1>0, <2>1 DEF VisitedOK
<1>5. VisitedOK'
  BY <1>0, <1>1, <1>3, <1>4 DEF VisitedOK
<1>6. /\ sccs \in Seq(SUBSET Inst)
      /\ Len(sccs) \in Nat /\ DOMAIN sccs = 1 .. Len(sccs)
      /\ sccs' \in Seq(SUBSET Inst)
      /\ Len(sccs') = Len(sccs) + 1
      /\ DOMAIN sccs' = 1 .. Len(sccs) + 1
      /\ \A s \in 1 .. Len(sccs) : sccs'[s] = sccs[s]
      /\ sccs'[Len(sccs) + 1] = U
  <2>1. sccs \in Seq(SUBSET Inst)
    BY <1>0 DEF SccsOK
  <2>2. sccs' = Append(sccs, U)
    BY <1>1
  <2> HIDE DEF U
  <2> QED
    BY <1>2, <2>1, <2>2, AppendFacts
<1> HIDE DEF U
<1>7. /\ \A s \in DOMAIN sccs' : s \in DOMAIN sccs \/ s = Len(sccs) + 1
      /\ DOMAIN sccs \subseteq DOMAIN sccs' /\ Len(sccs) + 1 \in DOMAIN sccs'
  BY <1>6
<1>8. \A g1 \in DOMAIN prdg : \A i \in prdg[g1] :
        g1 \in visited <=> \E s \in DOMAIN sccs : i \in sccs[s]
  BY <1>0 DEF SccsOK
<1>9. \A i \in Inst : \E h \in DOMAIN prdg : i \in prdg[h]
  BY <1>0 DEF EdgesOK, Partitioned
<1>10. \A s \in DOMAIN sccs : sccs[s] \cap U = {}
  <2>1. SUFFICES ASSUME NEW s \in DOMAIN sccs, NEW i \in sccs[s], i \in U PROVE FALSE
    OBVIOUS
  <2>2. PICK h \in DOMAIN prdg : i \in prdg[h]
    BY <1>2, <1>9, <2>1
  <2> QED
    BY <1>2, <1>4, <1>8, <2>1, <2>2
<1>11. SccsOK'
  <2>1. Len(sccs') <= Cardinality(visited')
    <3>1. IsFiniteSet(DOMAIN prdg) /\ visited' \subseteq DOMAIN prdg
      BY <1>0, <1>1, <1>4, GroupsToSearch DEF Partitioned
    <3>2. IsFiniteSet(visited) /\ IsFiniteSet(visited')
      BY <1>0, <3>1, FS_Subset
    <3>3. Cardinality(visited \cup {g}) = Cardinality(visited) + 1
      BY <1>1, <3>2, FS_AddElement
    <3>4. visited \cup {g} \subseteq visited'
      BY <1>1, <1>4
    <3>5. Cardinality(visited \cup {g}) <= Cardinality(visited')
      BY <3>2, <3>4, FS_Subset
    <3>6. Len(sccs) <= Cardinality(visited)
      BY <1>0 DEF SccsOK
    <3>7. Cardinality(visited) \in Nat /\ Cardinality(visited') \in Nat
      BY <3>2, FS_CardinalityType
    <3> QED
      BY <1>6, <3>3, <3>5, <3>6, <3>7
  <2>2. \A s, t \in DOMAIN sccs' : s /= t => sccs'[s] \cap sccs'[t] = {}
    <3>1. SUFFICES ASSUME NEW s \in DOMAIN sccs', NEW t \in DOMAIN sccs', s /= t
                   PROVE  sccs'[s] \cap sccs'[t] = {}
      OBVIOUS
    <3>2. CASE s \in DOMAIN sccs /\ t \in DOMAIN sccs
      BY <1>0, <1>6, <3>1, <3>2 DEF SccsOK
    <3>3. CASE s \in DOMAIN sccs /\ t = Len(sccs) + 1
      BY <1>6, <1>10, <3>3
    <3>4. CASE t \in DOMAIN sccs /\ s = Len(sccs) + 1
      BY <1>6, <1>10, <3>4
    <3> QED
      BY <1>7, <3>1, <3>2, <3>3, <3>4
  <2>3. \A h \in DOMAIN prdg : \A i \in prdg[h] :
          h \in visited' <=> \E s \in DOMAIN sccs' : i \in sccs'[s]
    <3>1. SUFFICES ASSUME NEW h \in DOMAIN prdg, NEW i \in prdg[h]
                   PROVE  h \in visited' <=> \E s \in DOMAIN sccs' : i \in sccs'[s]
      OBVIOUS
    <3>2. (\E s \in DOMAIN sccs' : i \in sccs'[s]) <=>
            (\E s \in DOMAIN sccs : i \in sccs[s]) \/ i \in U
      BY <1>6, <1>7
    <3> QED
      BY <1>1, <1>2, <1>8, <3>1, <3>2
  <2>4. \A s \in DOMAIN sccs' : \A i \in sccs'[s] :
          Together(i)' \subseteq sccs'[s] /\ sccs'[s] \subseteq Together(i)'
    <3>1. SUFFICES ASSUME NEW s \in DOMAIN sccs', NEW i \in sccs'[s]
                   PROVE  Together(i) \subseteq sccs'[s] /\ sccs'[s] \subseteq Together(i)
      BY <1>3, <1>6
    <3>2. CASE s \in DOMAIN sccs
      BY <1>0, <1>6, <3>1, <3>2 DEF SccsOK
    <3>3. CASE s = Len(sccs) + 1
      BY <1>2, <1>6, <3>1, <3>3
    <3> QED
      BY <1>7, <3>2, <3>3
  <2> QED
    BY <1>0, <1>6, <2>1, <2>2, <2>3, <2>4 DEF SccsOK
<1>12. TailOK'
  <2> DEFINE n == Len(prdg)
  <2>1. SUFFICES ASSUME Canonical
                 PROVE  /\ n - 1 \in visited' => 1 .. n - 2 \subseteq visited'
                        /\ n \in visited' => n - 1 \in visited'
                        /\ n \in visited' => /\ Len(sccs') >= 2
                                             /\ sccs'[Len(sccs') - 1] = {inc}
                                             /\ sccs'[Len(sccs')] = {Br}
                        /\ n - 1 \in visited' /\ n \notin visited' =>
                             Len(sccs') >= 1 /\ sccs'[Len(sccs')] = {inc}
    BY <1>0 DEF TailOK, bodyVars
  <2>2. /\ n \in Nat /\ n >= 2 /\ DOMAIN prdg = 1 .. n
        /\ n \in DOMAIN prdg /\ n - 1 \in DOMAIN prdg
        /\ ClassOf(n) = {n} /\ ClassOf(n - 1) = {n - 1}
        /\ prdg[n - 1] = {inc} /\ prdg[n] = {Br}
    BY <1>0, <2>1, TailClasses DEF PrdgOK, EdgesOK, Partitioned
  <2>3. /\ n - 1 \in visited => 1 .. n - 2 \subseteq visited
        /\ n \in visited => n - 1 \in visited
        /\ n - 1 \in visited /\ n \notin visited =>
             Len(sccs) >= 1 /\ sccs[Len(sccs)] = {inc}
    BY <1>0, <2>1 DEF TailOK
  <2>4. g \in 1 .. n
    BY <2>2
  <2>5. n \notin visited
    <3>1. SUFFICES ASSUME n \in visited PROVE FALSE
      OBVIOUS
    <3>2. g /= n /\ g /= n - 1 /\ g \notin 1 .. n - 2
      BY <2>3, <3>1
    <3> QED
      BY <2>2, <2>4, <3>2
  <2> HIDE DEF n
  <2>6. CASE g = n
    <3>1. n - 1 \in visited
      BY <1>1, <2>2, <2>6
    <3>2. visited' = visited \cup {n} /\ U = {Br}
      BY <1>1, <2>2, <2>6 DEF U
    <3>3. Len(sccs') = Len(sccs) + 1 /\ Len(sccs) \in Nat /\ Len(sccs) >= 1
          /\ sccs[Len(sccs)] = {inc}
      BY <1>6, <2>3, <2>5, <3>1
    <3>4. Len(sccs') - 1 = Len(sccs) /\ Len(sccs) \in 1 .. Len(sccs) /\ Len(sccs') >= 2
      BY <3>3
    <3>5. sccs'[Len(sccs') - 1] = {inc} /\ sccs'[Len(sccs')] = {Br}
      BY <1>6, <3>2, <3>3, <3>4
    <3> QED
      BY <2>2, <2>3, <3>1, <3>2, <3>4, <3>5
  <2>7. CASE g = n - 1
    <3>1. visited' = visited \cup {n - 1} /\ U = {inc}
      BY <1>1, <2>2, <2>7 DEF U
    <3>2. \A x \in 1 .. n - 2 : x \in visited
      <4>1. \A x \in 1 .. n - 2 : x \in DOMAIN prdg /\ ~(n - 1 <= x)
        BY <2>2
      <4> QED
        BY <1>1, <2>7, <4>1
    <3>3. n \notin visited'
      BY <2>2, <2>5, <3>1
    <3>4. Len(sccs') >= 1 /\ sccs'[Len(sccs')] = {inc}
      BY <1>6, <3>1
    <3> QED
      BY <3>1, <3>2, <3>3, <3>4
  <2>8. CASE g \in 1 .. n - 2
    <3>1. n \notin ClassOf(g) /\ n - 1 \notin ClassOf(g)
      <4>1. \A h \in ClassOf(g) : g \in ClassOf(h)
        BY <1>4
      <4>2. g /= n /\ g /= n - 1
        BY <2>2, <2>8
      <4> QED
        BY <2>2, <4>1, <4>2
    <3>2. n - 1 \notin visited
      BY <2>3, <2>8
    <3> QED
      BY <1>1, <2>5, <3>1, <3>2
  <2> QED
    BY <2>2, <2>4, <2>6, <2>7, <2>8
<1> QED
  BY <1>5, <1>11, <1>12 DEF PartsInv

LEMMA FirstNumbers ==
  ASSUME NEW n \in Nat
  PROVE  IsFiniteSet(1 .. n) /\ Cardinality(1 .. n) = n
BY FS_Interval

LEMMA PairAppended ==
  ASSUME NEW S, NEW k, NEW s \in Seq(S), Len(s) = k, NEW t \in Seq(S), Len(t) = 2
  PROVE  /\ s \o t \in Seq(S)
         /\ Len(s \o t) = k + 2
         /\ \A i \in 1 .. k + 2 : (s \o t)[i] = IF i <= k THEN s[i] ELSE t[i - k]
<1>1. k \in Nat
  BY LenProperties
<1>2. s \o t \in Seq(S) /\ Len(s \o t) = Len(s) + Len(t)
  BY ConcatProperties
<1>3. \A i \in 1 .. Len(s) + Len(t) :
        (s \o t)[i] = IF i <= Len(s) THEN s[i] ELSE t[i - Len(s)]
  BY ConcatProperties
<1> QED
  BY <1>1, <1>2, <1>3

(* Whatever the plan, the heuristic merges partitions and leaves the last  *)
(* two alone.                                                              *)
LEMMA PlansMerge ==
  ASSUME NEW old \in Seq(SUBSET Inst), Len(old) >= 3, NEW plan,
         \A s, t \in DOMAIN old : s /= t => old[s] \cap old[t] = {}
  PROVE  LET new == Grouped(old, plan) \o SubSeq(old, Len(old) - 1, Len(old))
         IN  /\ new \in Seq(SUBSET Inst)
             /\ Len(new) \in 2 .. Len(old)
             /\ \A t, u \in DOMAIN new : t /= u => new[t] \cap new[u] = {}
             /\ \A s \in DOMAIN old : \E t \in DOMAIN new : old[s] \subseteq new[t]
             /\ \A t \in DOMAIN new : \A i \in new[t] : \E s \in DOMAIN old : i \in old[s]
             /\ new[Len(new) - 1] = old[Len(old) - 1]
             /\ new[Len(new)] = old[Len(old)]
<1> DEFINE n == SccNo(old)
           k == GroupOf(plan, n)
           front == Grouped(old, plan)
           back == SubSeq(old, Len(old) - 1, Len(old))
           new == front \o back
           place(s) == IF s <= n THEN GroupOf(plan, s) ELSE k + (s - n)
<1>1. n \in Nat /\ n >= 1 /\ Len(old) = n + 2 /\ DOMAIN old = 1 .. n + 2
  BY DEF SccNo
<1>2. ASSUME NEW p \in 1 .. n
      PROVE  GroupOf(plan, p) \in 1 .. p /\ GroupOf(plan, p) <= k
  <2> DEFINE A == {q \in 1 .. p - 1 : Cuts(plan, q)}
             B == {q \in 1 .. n - 1 : Cuts(plan, q)}
  <2>1. A \subseteq B /\ A \subseteq 1 .. p - 1
    BY <1>1
  <2>2. IsFiniteSet(1 .. p - 1) /\ Cardinality(1 .. p - 1) = p - 1 /\ IsFiniteSet(1 .. n - 1)
    <3> DEFINE a == p - 1
               b == n - 1
    <3>1. a \in Nat /\ b \in Nat
      BY <1>1
    <3> HIDE DEF a, b
    <3>2. IsFiniteSet(1 .. a) /\ Cardinality(1 .. a) = a /\ IsFiniteSet(1 .. b)
      BY <3>1, FirstNumbers
    <3> QED
      BY <3>2 DEF a, b
  <2>3. IsFiniteSet(B)
    BY <2>2, FS_Subset
  <2>4. Cardinality(A) \in Nat /\ Cardinality(B) \in Nat
        /\ Cardinality(A) <= p - 1 /\ Cardinality(A) <= Cardinality(B)
    <3> DEFINE C == 1 .. p - 1
    <3>1. IsFiniteSet(C) /\ Cardinality(C) = p - 1 /\ A \subseteq C /\ IsFiniteSet(B) /\ A \subseteq B
      BY <2>1, <2>2, <2>3
    <3> HIDE DEF A, B, C
    <3>2. IsFiniteSet(A) /\ Cardinality(A) <= Cardinality(C) /\ Cardinality(A) <= Cardinality(B)
      BY <3>1, FS_Subset
    <3>3. Cardinality(A) \in Nat /\ Cardinality(B) \in Nat
      BY <3>1, <3>2, FS_CardinalityType
    <3> QED
      BY <3>1, <3>2, <3>3
  <2>5. GroupOf(plan, p) = 1 + Cardinality(A) /\ k = 1 + Cardinality(B)
    BY DEF GroupOf
  <2> HIDE DEF A, B
  <2> QED
    BY <2>4, <2>5
<1>3. k \in 1 .. n
  BY <1>1, <1>2
<1>4. /\ front = [g \in 1 .. k |->
                    UNION {old[p] : p \in {q \in 1 .. n : GroupOf(plan, q) = g}}]
  BY DEF Grouped
<1> HIDE DEF n, k, front
<1>5. front \in Seq(SUBSET Inst) /\ Len(front) = k
  <2>1. \A p \in 1 .. n : old[p] \subseteq Inst
    BY <1>1
  <2>2. front \in [1 .. k -> SUBSET Inst]
    BY <1>4, <2>1
  <2>3. front \in Seq(SUBSET Inst)
    BY <1>3, <2>2, SeqDef
  <2> QED
    BY <1>3, <2>2, <2>3, LenProperties
<1>6. /\ back \in Seq(SUBSET Inst) /\ Len(back) = 2
      /\ back[1] = old[n + 1] /\ back[2] = old[n + 2]
  <2> DEFINE m == n + 1
  <2>1. m \in Nat /\ m >= 1 /\ Len(old) = m + 1 /\ back = SubSeq(old, m, m + 1)
    BY <1>1
  <2> HIDE DEF m, back
  <2>2. /\ back \in Seq(SUBSET Inst) /\ Len(back) = 2
        /\ \A i \in 1 .. 2 : back[i] = old[m + i - 1]
    BY <2>1, SubSeqProperties
  <2> QED
    BY <1>1, <2>1, <2>2 DEF m
<1> HIDE DEF back
<1>7. /\ new \in Seq(SUBSET Inst) /\ Len(new) = k + 2 /\ DOMAIN new = 1 .. k + 2
      /\ \A g \in 1 .. k : new[g] = front[g]
      /\ new[k + 1] = old[n + 1] /\ new[k + 2] = old[n + 2]
  <2>1. /\ new \in Seq(SUBSET Inst) /\ Len(new) = k + 2
        /\ \A i \in 1 .. k + 2 : new[i] = IF i <= k THEN front[i] ELSE back[i - k]
    <3>1. /\ front \in Seq(SUBSET Inst) /\ Len(front) = k
          /\ back \in Seq(SUBSET Inst) /\ Len(back) = 2
      BY <1>5, <1>6
    <3> QED
      BY <3>1, PairAppended
  <2>2. k + 1 \in 1 .. k + 2 /\ k + 2 \in 1 .. k + 2 /\ ~(k + 1 <= k) /\ ~(k + 2 <= k)
        /\ (k + 1) - k = 1 /\ (k + 2) - k = 2
    BY <1>3
  <2>3. \A g \in 1 .. k : g \in 1 .. k + 2 /\ g <= k
    BY <1>3
  <2>4. DOMAIN new = 1 .. k + 2
    BY <2>1, LenProperties
  <2> HIDE DEF new
  <2> QED
    BY <1>6, <2>1, <2>2, <2>3, <2>4
<1> HIDE DEF new
<1>8. \A s \in 1 .. n + 2 : place(s) \in 1 .. k + 2
  BY <1>1, <1>2, <1>3
<1>9. ASSUME NEW s \in 1 .. n + 2
      PROVE  old[s] \subseteq new[place(s)]
  <2>1. CASE s \in 1 .. n
    <3>1. place(s) = GroupOf(plan, s) /\ GroupOf(plan, s) \in 1 .. k
      BY <1>1, <1>2, <1>3, <2>1
    <3>2. old[s] \subseteq front[GroupOf(plan, s)]
      BY <1>4, <2>1, <3>1
    <3> QED
      BY <1>7, <3>1, <3>2
  <2>2. CASE s = n + 1
    BY <1>1, <1>3, <1>7, <2>2
  <2>3. CASE s = n + 2
    BY <1>1, <1>3, <1>7, <2>3
  <2> QED
    BY <1>1, <2>1, <2>2, <2>3
<1>10. ASSUME NEW t \in 1 .. k + 2, NEW i \in new[t]
       PROVE  \E s \in 1 .. n + 2 : i \in old[s] /\ t = place(s)
  <2>1. CASE t \in 1 .. k
    <3>1. PICK p \in 1 .. n : GroupOf(plan, p) = t /\ i \in old[p]
      BY <1>4, <1>7, <1>10, <2>1
    <3>2. p \in 1 .. n + 2 /\ p <= n
      BY <1>1
    <3> QED
      BY <3>1, <3>2
  <2>2. CASE t = k + 1
    <3>1. n + 1 \in 1 .. n + 2 /\ place(n + 1) = t
      BY <1>1, <1>3, <2>2
    <3> QED
      BY <1>7, <1>10, <2>2, <3>1
  <2>3. CASE t = k + 2
    <3>1. n + 2 \in 1 .. n + 2 /\ place(n + 2) = t
      BY <1>1, <1>3, <2>3
    <3> QED
      BY <1>7, <1>10, <2>3, <3>1
  <2> QED
    BY <1>3, <2>1, <2>2, <2>3
<1> HIDE DEF place
<1>11. \A t, u \in DOMAIN new : t /= u => new[t] \cap new[u] = {}
  <2>1. SUFFICES ASSUME NEW t \in DOMAIN new, NEW u \in DOMAIN new,
                        NEW i \in new[t], i \in new[u]
                 PROVE  t = u
    OBVIOUS
  <2>2. PICK s \in 1 .. n + 2 : i \in old[s] /\ t = place(s)
    BY <1>7, <1>10, <2>1
  <2>3. PICK r \in 1 .. n + 2 : i \in old[r] /\ u = place(r)
    BY <1>7, <1>10, <2>1
  <2> QED
    BY <1>1, <2>2, <2>3
<1>12. \A s \in DOMAIN old : \E t \in DOMAIN new : old[s] \subseteq new[t]
  BY <1>1, <1>7, <1>8, <1>9
<1>13. \A t \in DOMAIN new : \A i \in new[t] : \E s \in DOMAIN old : i \in old[s]
  BY <1>1, <1>7, <1>10
<1>14. /\ Len(new) \in 2 .. Len(old) /\ Len(new) - 1 = k + 1
       /\ Len(old) - 1 = n + 1
  BY <1>1, <1>3, <1>7
<1>15. new[Len(new) - 1] = old[Len(old) - 1] /\ new[Len(new)] = old[Len(old)]
  BY <1>1, <1>7, <1>14
<1> QED
  BY <1>7, <1>11, <1>12, <1>13, <1>14, <1>15 DEF new, front, back

LEMMA StepCheckPartition ==
  ASSUME GraphInv, GroupInv, PartsInv, CheckPartition
  PROVE  PartsInv'
<1>0. /\ PrdgOK /\ EdgesOK /\ Partitioned /\ Partitioned' /\ VisitedOK /\ SccsOK /\ TailOK
      /\ stage = "check_partition" /\ stage' \in {"done", "bad_alloc"}
      /\ UNCHANGED <<bodyVars, dgVars, prdg, edges, visited, heuristic>>
  BY DEF GroupInv, PartsInv, CheckPartition, Partitioned
<1>1. VisitedOK'
  BY <1>0 DEF VisitedOK, ClassOf, EdgesKeep
<1>2. \A i \in Inst : Together(i)' = Together(i)
  BY <1>0 DEF Together, MustStayTogether, Steps, DependsOn, bodyVars
<1>3. CASE sccs' = sccs
  BY <1>0, <1>1, <1>2, <1>3 DEF PartsInv, SccsOK, TailOK, bodyVars
<1>4. CASE Plans(sccs) /= {} /\ sccs' = check_partition(sccs)
  <2>1. /\ sccs \in Seq(SUBSET Inst)
        /\ Len(sccs) <= Cardinality(visited)
        /\ \A s, t \in DOMAIN sccs : s /= t => sccs[s] \cap sccs[t] = {}
        /\ \A g \in DOMAIN prdg : \A i \in prdg[g] :
             g \in visited <=> \E s \in DOMAIN sccs : i \in sccs[s]
        /\ \A s \in DOMAIN sccs : \A i \in sccs[s] : Together(i) \subseteq sccs[s]
    BY <1>0 DEF SccsOK
  <2>2. Len(sccs) \in Nat /\ Len(sccs) >= 3
    BY <1>4, <2>1 DEF Plans, SccNo
  <2>3. /\ sccs' \in Seq(SUBSET Inst)
        /\ Len(sccs') \in 2 .. Len(sccs)
        /\ \A t, u \in DOMAIN sccs' : t /= u => sccs'[t] \cap sccs'[u] = {}
        /\ \A s \in DOMAIN sccs : \E t \in DOMAIN sccs' : sccs[s] \subseteq sccs'[t]
        /\ \A t \in DOMAIN sccs' : \A i \in sccs'[t] : \E s \in DOMAIN sccs : i \in sccs[s]
        /\ sccs'[Len(sccs') - 1] = sccs[Len(sccs) - 1]
        /\ sccs'[Len(sccs')] = sccs[Len(sccs)]
    <3> DEFINE plan == BestPlan(sccs)
    <3>1. sccs' = Grouped(sccs, plan) \o SubSeq(sccs, Len(sccs) - 1, Len(sccs))
      BY <1>4 DEF check_partition
    <3> HIDE DEF plan
    <3> DEFINE new == Grouped(sccs, plan) \o SubSeq(sccs, Len(sccs) - 1, Len(sccs))
    <3>2. /\ new \in Seq(SUBSET Inst)
          /\ Len(new) \in 2 .. Len(sccs)
          /\ \A t, u \in DOMAIN new : t /= u => new[t] \cap new[u] = {}
          /\ \A s \in DOMAIN sccs : \E t \in DOMAIN new : sccs[s] \subseteq new[t]
          /\ \A t \in DOMAIN new : \A i \in new[t] : \E s \in DOMAIN sccs : i \in sccs[s]
          /\ new[Len(new) - 1] = sccs[Len(sccs) - 1]
          /\ new[Len(new)] = sccs[Len(sccs)]
      BY <2>1, <2>2, PlansMerge, Zenon
    <3>3. sccs' = new
      BY <3>1
    <3> HIDE DEF new
    <3> QED
      BY <3>2, <3>3
  <2>4. stage' = "done" /\ heuristic'
    <3>1. heuristic
      BY <1>0 DEF VisitedOK
    <3> QED
      BY <1>0, <1>4, <3>1 DEF CheckPartition
  <2>5. SccsOK'
    <3>1. Len(sccs') <= Cardinality(visited)
      <4>1. IsFiniteSet(visited)
        <5>1. IsFiniteSet(DOMAIN prdg) /\ visited \subseteq DOMAIN prdg
          BY <1>0, GroupsToSearch DEF GroupInv, RepeatsOK, Partitioned
        <5> QED
          BY <5>1, FS_Subset
      <4>2. Cardinality(visited) \in Nat
        BY <4>1, FS_CardinalityType
      <4> QED
        BY <2>1, <2>2, <2>3, <4>2
    <3>2. \A g \in DOMAIN prdg : \A i \in prdg[g] :
            g \in visited <=> \E s \in DOMAIN sccs' : i \in sccs'[s]
      <4>1. SUFFICES ASSUME NEW i
                     PROVE  (\E s \in DOMAIN sccs : i \in sccs[s]) <=>
                              (\E s \in DOMAIN sccs' : i \in sccs'[s])
        BY <2>1
      <4> QED
        BY <2>3
    <3>3. ASSUME NEW t \in DOMAIN sccs', NEW i \in sccs'[t]
          PROVE  Together(i) \subseteq sccs'[t]
      <4>1. PICK s \in DOMAIN sccs : i \in sccs[s]
        BY <2>3, <3>3
      <4>2. PICK u \in DOMAIN sccs' : sccs[s] \subseteq sccs'[u]
        BY <2>3
      <4>3. u = t
        BY <2>3, <3>3, <4>1, <4>2
      <4> QED
        BY <2>1, <4>1, <4>2, <4>3
    <3>4. \A t \in DOMAIN sccs' : \A i \in sccs'[t] : i \in Inst
      BY <2>3
    <3>5. \A t \in DOMAIN sccs' : \A i \in sccs'[t] : Together(i)' \subseteq sccs'[t]
      BY <1>2, <3>3, <3>4
    <3> QED
      BY <1>0, <2>3, <2>4, <3>1, <3>2, <3>5 DEF SccsOK
  <2>6. TailOK'
    <3>1. SUFFICES ASSUME Canonical
                   PROVE  /\ 1 .. Len(prdg) - 2 \subseteq visited
                          /\ Len(prdg) \in visited /\ Len(prdg) - 1 \in visited
                          /\ Len(sccs') >= 2
                          /\ sccs'[Len(sccs') - 1] = {inc}
                          /\ sccs'[Len(sccs')] = {Br}
      BY <1>0 DEF TailOK, bodyVars
    <3>2. Len(prdg) \in DOMAIN prdg /\ Len(prdg) - 1 \in DOMAIN prdg
      BY <1>0, <3>1, TailClasses
    <3>3. visited = DOMAIN prdg
      BY <1>0 DEF VisitedOK
    <3>4. /\ 1 .. Len(prdg) - 2 \subseteq visited
          /\ sccs[Len(sccs) - 1] = {inc}
          /\ sccs[Len(sccs)] = {Br}
      BY <1>0, <3>1, <3>2, <3>3 DEF TailOK
    <3> QED
      BY <2>2, <2>3, <3>2, <3>3, <3>4
  <2> QED
    BY <1>1, <2>5, <2>6 DEF PartsInv
<1> QED
  BY <1>3, <1>4 DEF CheckPartition

LEMMA InitParts == Init => PartsInv
BY DEF Init, BPInit, PartsInv, VisitedOK, SccsOK, TailOK, Partitioned

LEMMA StepParts == GraphInv /\ GroupInv /\ PartsInv /\ [Next]_vars => PartsInv'
<1> SUFFICES ASSUME GraphInv, GroupInv, PartsInv, [Next]_vars PROVE PartsInv'
  OBVIOUS
<1>0. PrdgOK /\ NothingYet /\ EdgesOK /\ VisitedOK /\ SccsOK /\ TailOK
  BY DEF GroupInv, PartsInv
<1>1. CASE RunDG \/ SkipLoop \/ BuildPartition
  BY <1>1 DEF RunDG, SkipLoop, BuildPartition, PartsInv, VisitedOK, SccsOK, TailOK,
     Partitioned
<1>2. CASE FindEdges
  <2>1. visited' = {} /\ sccs' = <<>> /\ stage' = "build_scc"
    BY <1>0, <1>2 DEF FindEdges, NothingYet
  <2>2. /\ <<>> \in Seq(SUBSET Inst) /\ Len(<<>>) = 0 /\ DOMAIN <<>> = {}
        /\ Cardinality({}) = 0
    BY FS_EmptySet
  <2> QED
    BY <2>1, <2>2 DEF PartsInv, VisitedOK, SccsOK, TailOK
<1>3. CASE BuildScc
  BY <1>3, StepBuildScc
<1>4. CASE CheckPartition
  BY <1>4, StepCheckPartition
<1>5. ASSUME UNCHANGED <<bodyVars, prdg, edges, visited, sccs, heuristic>>,
             Partitioned' => Partitioned,
             Partitioned /\ stage' = "build_scc" => stage = "build_scc",
             Partitioned /\ stage' /= "build_scc" => visited = DOMAIN prdg,
             Partitioned /\ stage' = "check_partition" => heuristic,
             Partitioned /\ stage = "done" => stage' = "done",
             Partitioned /\ stage' = "done" /\ heuristic => stage = "done"
      PROVE  PartsInv'
  <2>1. \A i \in Inst : Together(i)' = Together(i)
    BY <1>5 DEF Together, MustStayTogether, Steps, DependsOn, bodyVars
  <2>2. \A g : ClassOf(g)' = ClassOf(g)
    BY <1>5 DEF ClassOf, EdgesKeep
  <2>3. VisitedOK'
    BY <1>0, <1>5, <2>2 DEF VisitedOK
  <2>4. SccsOK'
    <3>1. Partitioned => \A s \in DOMAIN sccs : \A i \in sccs[s] : i \in Inst
      BY <1>0 DEF SccsOK
    <3> QED
      BY <1>0, <1>5, <2>1, <3>1 DEF SccsOK
  <2>5. TailOK'
    BY <1>0, <1>5 DEF TailOK, bodyVars
  <2> QED
    BY <2>3, <2>4, <2>5 DEF PartsInv
<1>6. CASE ReturnSccs
  BY <1>5, <1>6 DEF ReturnSccs, Partitioned
<1>7. CASE SplitStep \/ UNCHANGED vars
  <2>1. UNCHANGED <<bodyVars, prdg, edges, visited, sccs, heuristic, stage>>
    BY <1>7 DEF SplitStep, vars, bpVars
  <2> QED
    BY <1>0, <1>5, <2>1 DEF VisitedOK, Partitioned
<1> QED
  BY <1>1, <1>2, <1>3, <1>4, <1>6, <1>7 DEF Next, BPNext

LEMMA PartsInvariance == Spec => [](GraphInv /\ GroupInv /\ PartsInv)
BY InitGraph, StepGraph, InitGroups, StepGroups, InitParts, StepParts, PTL DEF Spec

(* The partitions keep together what cannot be split, and without the      *)
(* heuristic no more than that: for every body, def-use relation and       *)
(* dependences, and every order of the addresses.                          *)
THEOREM PartitionsAlwaysFinest == Spec => []PartitionsAreFinest
<1>1. GraphInv /\ GroupInv /\ PartsInv => PartitionsAreFinest
  <2> SUFFICES ASSUME GraphInv, GroupInv, PartsInv, stage = "done",
                      NEW i \in Inst, NEW j \in Inst
               PROVE  LET together == \E s \in DOMAIN sccs : {i, j} \subseteq sccs[s]
                      IN  IF <<i, j>> \in MustStayTogether THEN together
                          ELSE together => heuristic
    BY DEF PartitionsAreFinest, Planned
  <2>1. Partitioned /\ EdgesOK /\ SccsOK /\ visited = DOMAIN prdg
    BY DEF Partitioned, GroupInv, PartsInv, VisitedOK
  <2>2. PICK g \in DOMAIN prdg : i \in prdg[g]
    BY <2>1 DEF EdgesOK, Partitioned
  <2>3. PICK s \in DOMAIN sccs : i \in sccs[s]
    BY <2>1, <2>2 DEF SccsOK
  <2>4. Together(i) \subseteq sccs[s]
    BY <2>1, <2>3 DEF SccsOK
  <2>5. ASSUME NEW t \in DOMAIN sccs, {i, j} \subseteq sccs[t], ~heuristic
        PROVE  j \in Together(i)
    BY <2>1, <2>5 DEF SccsOK
  <2> QED
    BY <2>3, <2>4, <2>5, TogetherFacts
<1> QED
  BY <1>1, PartsInvariance, PTL

-----------------------------------------------------------------------------
(* The splitting, with what is proved of the pass by itself.               *)

SplitP == INSTANCE SplitPass2_proofs WITH
  NumLoops <- 1, partitions <- <<sccs>>, operands <- uses,
  headerReads <- {inc} \cup carried

LEMMA SplitConstants ==
  /\ SplitP!SplitAssumption
  /\ SplitP!Loop = {1} /\ SplitP!Body = Inst
  /\ SplitP!LatchTail = {BodySize - 1, BodySize}
  /\ \A l \in {1} : SplitP!SccsSize(l) = Len(sccs) - 2 /\ <<sccs>>[l] = sccs
<1>1. SplitP!SplitAssumption
  BY BodyAssumption DEF SplitP!SplitAssumption
<1>2. SplitP!Loop = {1}
  BY DEF SplitP!Loop
<1>3. SplitP!Body = Inst
  BY DEF SplitP!Body, Inst
<1>4. SplitP!LatchTail = {BodySize - 1, BodySize}
  BY DEF SplitP!LatchTail
<1>5. \A l \in {1} : SplitP!SccsSize(l) = Len(sccs) - 2 /\ <<sccs>>[l] = sccs
  BY DEF SplitP!SccsSize
<1> QED
  BY <1>1, <1>2, <1>3, <1>4, <1>5

(* The partitions handed over are what the pass counts on.                 *)
LEMMA PartitionsFit ==
  ASSUME Canonical, GraphInv, GroupInv, PartsInv, stage \in {"done", "no_analysis"}
  PROVE  SplitP!InputsOK /\ SplitP!PartitionsPart /\ SplitP!OperandsTogether
<1>0. BodyOK /\ PrdgOK /\ NothingYet /\ EdgesOK /\ VisitedOK /\ SccsOK /\ TailOK
      /\ visited \subseteq DOMAIN prdg
  BY DEF GraphInv, GroupInv, PartsInv, RepeatsOK
<1>1. BodySize \in Nat /\ inc = BodySize - 1 /\ Br = BodySize
      /\ SplitP!LatchTail = {inc, Br} /\ inc \in Inst /\ Br \in Inst
  BY <1>0, InstFacts, SplitConstants DEF BodyOK, Br
<1>2. CASE stage = "no_analysis"
  <2>1. Len(sccs) = 0
    BY <1>0, <1>2 DEF NothingYet
  <2>2. SplitP!InputsOK
    BY <1>1, <2>1, SplitConstants DEF SplitP!InputsOK
  <2>3. SplitP!PartitionsPart
    BY <2>1, SplitConstants DEF SplitP!PartitionsPart
  <2>4. SplitP!OperandsTogether
    BY <1>0, <1>1, <2>1, SplitConstants DEF SplitP!OperandsTogether, BodyOK
  <2> QED
    BY <2>2, <2>3, <2>4
<1>3. CASE stage = "done"
  <2>0. /\ Partitioned /\ visited = DOMAIN prdg
        /\ Len(prdg) \in DOMAIN prdg
    BY <1>0, <1>3, TailClasses DEF Partitioned, VisitedOK
  <2>1. /\ sccs \in Seq(SUBSET Inst) /\ Len(sccs) \in Nat /\ DOMAIN sccs = 1 .. Len(sccs)
        /\ Len(sccs) >= 2
        /\ sccs[Len(sccs) - 1] = {inc} /\ sccs[Len(sccs)] = {Br}
        /\ \A s, t \in DOMAIN sccs : s /= t => sccs[s] \cap sccs[t] = {}
        /\ \A s \in DOMAIN sccs : \A i \in sccs[s] : Together(i) \subseteq sccs[s]
    BY <1>0, <2>0 DEF SccsOK, TailOK
  <2>2. Len(sccs) <= BodySize
    <3>1. Len(sccs) <= Cardinality(DOMAIN prdg)
      BY <1>0, <2>0 DEF SccsOK
    <3>2. Cardinality(DOMAIN prdg) = Len(prdg) /\ Len(prdg) \in Nat
      BY <1>0, <2>0, GroupsToSearch DEF Partitioned
    <3>3. Len(prdg) <= BodySize
      BY <1>0, <2>0 DEF EdgesOK, Partitioned
    <3> QED
      BY <1>1, <2>1, <3>1, <3>2, <3>3
  <2>3. SplitP!InputsOK
    BY <1>1, <2>1, <2>2, SplitConstants DEF SplitP!InputsOK
  <2>4. \A n \in 1 .. Len(sccs) - 2 : n \in DOMAIN sccs /\ sccs[n] \subseteq Inst
    BY <2>1
  <2>5. ASSUME NEW i \in Inst \ {inc, Br}
        PROVE  \E n \in 1 .. Len(sccs) - 2 :
                 \A m \in 1 .. Len(sccs) - 2 : i \in sccs[m] <=> m = n
    <3>1. PICK g \in DOMAIN prdg : i \in prdg[g]
      BY <1>0, <2>0 DEF EdgesOK, Partitioned
    <3>2. PICK n \in DOMAIN sccs : i \in sccs[n]
      BY <1>0, <2>0, <3>1 DEF SccsOK
    <3>3. n /= Len(sccs) - 1 /\ n /= Len(sccs)
      BY <2>1, <2>5, <3>2
    <3>4. n \in 1 .. Len(sccs) - 2
      BY <2>1, <3>3
    <3> QED
      BY <2>1, <2>4, <3>2, <3>4
  <2>6. SplitP!PartitionsPart
    <3>1. \A l \in {1} : \A n \in 1 .. SplitP!SccsSize(l) : <<sccs>>[l][n] \subseteq Inst
      BY <2>4, SplitConstants
    <3>2. \A l \in {1} : \A i \in Inst \ SplitP!LatchTail :
            \E n \in 1 .. SplitP!SccsSize(l) :
              \A m \in 1 .. SplitP!SccsSize(l) : i \in <<sccs>>[l][m] <=> m = n
      <4>1. SUFFICES ASSUME NEW l \in {1}, NEW i \in Inst \ {inc, Br}
                     PROVE  \E n \in 1 .. SplitP!SccsSize(l) :
                              \A m \in 1 .. SplitP!SccsSize(l) :
                                i \in <<sccs>>[l][m] <=> m = n
        BY <1>1
      <4>2. SplitP!SccsSize(l) = Len(sccs) - 2 /\ <<sccs>>[l] = sccs
        BY SplitConstants
      <4>3. PICK n \in 1 .. Len(sccs) - 2 :
              \A m \in 1 .. Len(sccs) - 2 : i \in sccs[m] <=> m = n
        BY <2>5
      <4> QED
        BY <4>2, <4>3
    <3> QED
      BY <3>1, <3>2, SplitConstants DEF SplitP!PartitionsPart
  <2>7. ASSUME NEW p \in uses, NEW n \in 1 .. Len(sccs) - 2, p[2] \in sccs[n]
        PROVE  p[1] \in sccs[n]
    <3>1. p[1] \in Inst /\ p[2] \in Inst /\ p = <<p[1], p[2]>>
      BY <1>0 DEF BodyOK
    <3>2. <<p[2], p[1]>> \in Steps /\ p \in Steps
      BY <3>1 DEF Steps
    <3>3. \A C \in SUBSET Inst : StepsKeep(C) => (p[2] \in C <=> p[1] \in C)
      BY <3>2 DEF StepsKeep
    <3>4. p[1] \in Together(p[2])
      BY <3>1, <3>3, TogetherFacts
    <3> QED
      BY <2>1, <2>4, <2>7, <3>4
  <2>8. SplitP!OperandsTogether
    <3>1. \A p \in uses : p[2] \notin {inc, Br}
      BY <1>0 DEF BodyOK
    <3> QED
      BY <1>1, <2>7, <3>1, SplitConstants DEF SplitP!OperandsTogether
  <2> QED
    BY <2>3, <2>6, <2>8
<1> QED
  BY <1>2, <1>3

(* The function is as it was, or the pass is at work on it.                *)
SplitOK ==
  /\ \/ SplitP!SplitInit
     \/ /\ stage \in {"done", "no_analysis"}
        /\ SplitP!IInv /\ SplitP!OrderInv /\ SplitP!HeaderKept
  /\ carried \subseteq Inst \ {inc, Br}
  /\ crashed => carried /= {}

LEMMA SplitFacts ==
  ASSUME Canonical, GraphInv, GroupInv, PartsInv, SplitOK,
         stage \in {"done", "no_analysis"}
  PROVE  /\ SplitP!IInv /\ SplitP!OrderInv /\ SplitP!HeaderKept
         /\ SplitP!OperandsTogether
<1>1. SplitP!InputsOK /\ SplitP!PartitionsPart /\ SplitP!OperandsTogether
  BY PartitionsFit
<1>2. SplitP!SplitInit => SplitP!IInv /\ SplitP!OrderInv
  BY <1>1, SplitConstants, SplitP!StartIInv, SplitP!StartOrder
  DEF SplitP!StartIInv, SplitP!StartOrder
<1>3. SplitP!SplitInit => SplitP!HeaderKept
  BY <1>2, SplitConstants, SplitP!StartHeaderKept DEF SplitP!StartHeaderKept
<1> QED
  BY <1>1, <1>2, <1>3 DEF SplitOK

LEMMA SplitSame ==
  /\ Split!SplitInit <=> SplitP!SplitInit
  /\ Split!SplitNext <=> SplitP!SplitNext
  /\ SplitP!EachRunsOnce => Split!EachRunsOnce
<1>1. Split!SplitInit <=> SplitP!SplitInit
  BY DEF Split!SplitInit, SplitP!SplitInit, Split!Loop, SplitP!Loop, Split!Block,
     SplitP!Block, Split!NoBlock, SplitP!NoBlock, Split!Body, SplitP!Body
<1>2. Split!SplitNext <=> SplitP!SplitNext
  BY DEF Split!SplitNext, SplitP!SplitNext, Split!Loop, SplitP!Loop,
     Split!NextLoop, SplitP!NextLoop, Split!SccsSize, SplitP!SccsSize,
     Split!CreateOneLoop, SplitP!CreateOneLoop, Split!ExitPhis, SplitP!ExitPhis,
     Split!ClonePhis, SplitP!ClonePhis, Split!PreHeader, SplitP!PreHeader,
     Split!Block, SplitP!Block, Split!EraseOthers, SplitP!EraseOthers,
     Split!LoopOf, SplitP!LoopOf, Split!Keeps, SplitP!Keeps, Split!LatchTail,
     SplitP!LatchTail, Split!inputVars, SplitP!inputVars
<1>3. SplitP!EachRunsOnce => Split!EachRunsOnce
  <2>1. \A S : Split!Cardinality(S) = SplitP!Cardinality(S)
    BY DEF Split!Cardinality, SplitP!Cardinality
  <2> QED
    BY <2>1 DEF Split!EachRunsOnce, SplitP!EachRunsOnce, Split!Loop, SplitP!Loop,
       Split!Finished, SplitP!Finished, Split!Body, SplitP!Body, Split!LatchTail,
       SplitP!LatchTail, Split!Headers, SplitP!Headers
<1> QED
  BY <1>1, <1>2, <1>3

LEMMA InitSplit == Init => SplitOK
<1> SUFFICES ASSUME Init PROVE SplitOK
  OBVIOUS
<1>1. stage = "buildDG" /\ SplitP!SplitInit
  BY SplitSame DEF Init, BPInit
<1>2. ~crashed
  BY <1>1 DEF SplitP!SplitInit
<1>3. carried \subseteq Inst \ {inc, Br}
  BY DEF Init
<1> QED
  BY <1>1, <1>2, <1>3 DEF SplitOK

LEMMA StepSplit ==
  ASSUME Canonical, GraphInv, GroupInv, PartsInv, SplitOK, [Next]_vars
  PROVE  SplitOK'
<1>1. CASE BPNext /\ UNCHANGED <<carried, splitVars>>
  <2>0. carried' = carried /\ inc' = inc
    BY <1>1 DEF BPNext, RunDG, SkipLoop, BuildPartition, FindEdges, BuildScc,
       ReturnSccs, CheckPartition, BuildDG, RejectLoop, bodyVars
  <2>1. SplitP!SplitInit /\ ~crashed'
    BY <1>1 DEF BPNext, RunDG, SkipLoop, BuildPartition, FindEdges, BuildScc,
       ReturnSccs, CheckPartition, SplitOK, splitVars, SplitP!SplitInit
  <2>2. SplitP!SplitInit'
    BY <1>1, <2>1 DEF SplitP!SplitInit, SplitP!Loop, SplitP!Block, SplitP!NoBlock,
       SplitP!Body, splitVars
  <2> QED
    BY <2>0, <2>1, <2>2 DEF SplitOK
<1>2. CASE SplitStep
  <2>1. /\ stage \in {"done", "no_analysis"} /\ stage' = stage
        /\ carried' = carried /\ inc' = inc /\ SplitP!SplitNext
    BY <1>2, SplitSame DEF SplitStep, SplitOK, bpVars, bodyVars
  <2>2. /\ SplitP!IInv /\ SplitP!OrderInv /\ SplitP!HeaderKept
        /\ SplitP!OperandsTogether
    BY <2>1, SplitFacts
  <2>3. SplitP!IInv' /\ SplitP!OrderInv'
    BY <2>1, <2>2, SplitConstants, SplitP!StepIInv, SplitP!StepOrder
    DEF SplitP!StepIInv, SplitP!StepOrder
  <2>4. SplitP!HeaderKept'
    BY <2>1, <2>2, SplitConstants, SplitP!StepHeaderKept
    DEF SplitP!StepHeaderKept
  <2>5. ~crashed
    BY <2>1 DEF SplitP!SplitNext, SplitP!NextLoop, SplitP!CreateOneLoop,
       SplitP!EraseOthers
  <2>6. crashed' => ~({inc} \cup carried \subseteq SplitP!LatchTail)
    BY <2>1, <2>2, <2>5, SplitConstants, SplitP!NothingErasedInUse
    DEF SplitP!NothingErasedInUse
  <2>7. inc \in SplitP!LatchTail
    BY SplitConstants DEF GraphInv, BodyOK
  <2>8. crashed' => carried /= {}
    BY <2>6, <2>7
  <2> QED
    BY <2>1, <2>3, <2>4, <2>8 DEF SplitOK
<1>3. CASE UNCHANGED vars
  <2>1. /\ UNCHANGED splitVars /\ stage' = stage /\ sccs' = sccs /\ uses' = uses
        /\ inc' = inc /\ carried' = carried
    BY <1>3 DEF vars, bpVars, bodyVars
  <2>2. CASE ~SplitP!SplitInit
    <3>1. [SplitP!SplitNext]_(SplitP!vars)
      BY <2>1 DEF SplitP!vars, SplitP!inputVars, SplitP!splitVars, splitVars
    <3>2. SplitP!IInv /\ SplitP!OrderInv /\ SplitP!HeaderKept
      BY <2>2 DEF SplitOK
    <3>3. SplitP!IInv' /\ SplitP!OrderInv'
      BY <3>1, <3>2, SplitConstants, SplitP!StepIInv, SplitP!StepOrder
      DEF SplitP!StepIInv, SplitP!StepOrder
    <3>4. SplitP!HeaderKept'
      BY <3>1, <3>2, SplitConstants, SplitP!StepHeaderKept
      DEF SplitP!StepHeaderKept
    <3> QED
      BY <2>1, <2>2, <3>3, <3>4 DEF SplitOK, splitVars
  <2>3. CASE SplitP!SplitInit
    <3>1. SplitP!SplitInit'
      BY <2>1, <2>3 DEF SplitOK, SplitP!SplitInit, SplitP!Loop, SplitP!Block,
         SplitP!NoBlock, SplitP!Body, splitVars
    <3> QED
      BY <2>1, <2>3, <3>1 DEF SplitOK, splitVars
  <2> QED
    BY <2>2, <2>3
<1> QED
  BY <1>1, <1>2, <1>3 DEF Next

(* With the increment next to last, splitting by the partitions drops no   *)
(* instruction and repeats none.                                           *)
THEOREM PipelineRunsOnce ==
  ASSUME Canonical
  PROVE  Spec => []EachRunsOnce
<1>1. GraphInv /\ GroupInv /\ PartsInv /\ SplitOK => EachRunsOnce
  BY SplitFacts, SplitSame, SplitConstants, SplitP!OnceWhenSplit
  DEF SplitP!OnceWhenSplit, EachRunsOnce
<1>2. GraphInv /\ GroupInv /\ PartsInv /\ SplitOK /\ [Next]_vars => SplitOK'
  BY StepSplit
<1> QED
  BY <1>1, <1>2, InitSplit, PartsInvariance, PTL DEF Spec

(* No instruction is erased while another one of its loop uses it, and one *)
(* that the header uses ends every split of its loop on the assertion.     *)
THEOREM OnlyCarriedEverDangle ==
  ASSUME Canonical
  PROVE  Spec => []OnlyCarriedDangle
<1>1. GraphInv /\ GroupInv /\ PartsInv /\ SplitOK => OnlyCarriedDangle
  <2> SUFFICES ASSUME GraphInv, GroupInv, PartsInv, SplitOK,
                      todo = {}, clones[1] > 0, ~crashed
               PROVE  carried = {}
    BY DEF SplitOK, OnlyCarriedDangle
  <2>1. ~SplitP!SplitInit
    BY SplitConstants DEF SplitP!SplitInit
  <2>2. SplitP!IInv /\ SplitP!OrderInv /\ SplitP!HeaderKept
    BY <2>1 DEF SplitOK
  <2>3. 1 \in SplitP!Loop /\ SplitP!Finished(1)
    <3>1. current /= 1
      BY <2>2, SplitConstants DEF SplitP!OrderInv, SplitP!ClonesMade
    <3> QED
      BY <3>1, SplitConstants DEF SplitP!Finished
  <2>4. ({inc} \cup carried) \cap SplitP!Body \subseteq SplitP!LatchTail
    BY <2>2, <2>3, SplitConstants, SplitP!SplitCarriesNothing
    DEF SplitP!SplitCarriesNothing
  <2>5. SplitP!LatchTail = {inc, Br}
    BY SplitConstants DEF GraphInv, BodyOK, Br
  <2> QED
    BY <2>4, <2>5, SplitConstants DEF SplitOK
<1>2. GraphInv /\ GroupInv /\ PartsInv /\ SplitOK /\ [Next]_vars => SplitOK'
  BY StepSplit
<1> QED
  BY <1>1, <1>2, InitSplit, PartsInvariance, PTL DEF Spec

=============================================================================
