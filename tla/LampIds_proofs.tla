--------------------------- MODULE LampIds_proofs ---------------------------
(***************************************************************************)
(* Proofs about the numbers that go from the instrumentation through the   *)
(* hooks and the profile back to the program: for any function and nest of *)
(* loops, any order of the passes and any run, the library's stack is the  *)
(* nest of loops around the block; and with the passes in order no number  *)
(* is too large for the profile and every entry comes back as what it was  *)
(* recorded for.                                                           *)
(***************************************************************************)
EXTENDS LampIds, SequenceTheorems, FiniteSetTheorems, LeastNumber, TLAPS

IsRanked(R, lt) ==
  /\ \A r \in R : Cardinality({q \in R : <<q, r>> \in lt}) \in 0 .. Cardinality(R) - 1
  /\ \A p, r \in R :
       Cardinality({q \in R : <<q, p>> \in lt}) =
         Cardinality({q \in R : <<q, r>> \in lt}) => p = r
  /\ \A i \in 0 .. Cardinality(R) - 1 : \E r \in R :
       Cardinality({q \in R : <<q, r>> \in lt}) = i

(* In a finite set with a total order every place is taken exactly once.   *)
LEMMA Ranked ==
  ASSUME NEW R, IsFiniteSet(R), NEW lt,
         \A q \in R : <<q, q>> \notin lt,
         \A p, q, r \in R : <<p, q>> \in lt /\ <<q, r>> \in lt => <<p, r>> \in lt,
         \A q, r \in R : q = r \/ <<q, r>> \in lt \/ <<r, q>> \in lt
  PROVE  IsRanked(R, lt)
<1> DEFINE below(r) == {q \in R : <<q, r>> \in lt}
           rank == [r \in R |-> Cardinality(below(r))]
           places == 0 .. Cardinality(R) - 1
<1>1. Cardinality(R) \in Nat
  BY FS_CardinalityType
<1>b. /\ \A r \in R : below(r) \in SUBSET (R \ {r})
      /\ \A p, r \in R : <<p, r>> \in lt => below(p) \in SUBSET (below(r) \ {p}) /\ p \in below(r)
  OBVIOUS
<1>p. IsFiniteSet(places) /\ Cardinality(places) = Cardinality(R)
  <2> DEFINE n == Cardinality(R)
  <2>1. n \in Nat
    BY <1>1
  <2> HIDE DEF n
  <2>2. IsFiniteSet(0 .. n - 1) /\ Cardinality(0 .. n - 1) = n
    BY <2>1, FS_Interval
  <2> QED
    BY <2>2 DEF n
<1> HIDE DEF below
<1>2. ASSUME NEW r \in R PROVE /\ IsFiniteSet(below(r)) /\ Cardinality(below(r)) \in places
  <2> DEFINE others == R \ {r}
  <2>1. below(r) \in SUBSET others
    BY <1>b
  <2>2. IsFiniteSet(others) /\ Cardinality(others) = Cardinality(R) - 1
    BY FS_RemoveElement
  <2> HIDE DEF others
  <2>3. IsFiniteSet(below(r)) /\ Cardinality(below(r)) <= Cardinality(others)
    BY <2>1, <2>2, FS_Subset
  <2>4. Cardinality(below(r)) \in Nat
    BY <2>3, FS_CardinalityType
  <2> QED
    BY <1>1, <2>2, <2>3, <2>4
<1>3. ASSUME NEW p \in R, NEW r \in R, <<p, r>> \in lt
      PROVE  Cardinality(below(p)) < Cardinality(below(r))
  <2> DEFINE others == below(r) \ {p}
  <2>1. below(p) \in SUBSET others /\ p \in below(r)
    BY <1>3, <1>b
  <2>2. IsFiniteSet(others) /\ Cardinality(others) = Cardinality(below(r)) - 1
    BY <1>2, <2>1, FS_RemoveElement
  <2> HIDE DEF others
  <2>3. Cardinality(below(p)) <= Cardinality(others)
    BY <2>1, <2>2, FS_Subset
  <2>4. Cardinality(below(p)) \in Int /\ Cardinality(below(r)) \in Int
    BY <1>1, <1>2
  <2> QED
    BY <2>2, <2>3, <2>4
<1>4. \A p, r \in R : Cardinality(below(p)) = Cardinality(below(r)) => p = r
  <2> SUFFICES ASSUME NEW p \in R, NEW r \in R, Cardinality(below(p)) = Cardinality(below(r))
               PROVE  p = r
    OBVIOUS
  <2>1. Cardinality(below(p)) \in Int /\ Cardinality(below(r)) \in Int
    BY <1>1, <1>2
  <2>2. ~(Cardinality(below(p)) < Cardinality(below(r)))
    BY <2>1
  <2>3. ~(Cardinality(below(r)) < Cardinality(below(p)))
    BY <2>1
  <2>4. <<p, r>> \notin lt
    BY <1>3, <2>2
  <2>5. <<r, p>> \notin lt
    BY <1>3, <2>3
  <2> QED
    BY <2>4, <2>5
<1>5. rank \in Injection(R, places)
  <2> HIDE DEF places
  <2>1. rank \in [R -> places]
    BY <1>2
  <2>2. \A p, r \in R : rank[p] = rank[r] => p = r
    BY <1>4
  <2> QED
    BY <2>1, <2>2 DEF Injection, IsInjective
<1> HIDE DEF places
<1>7. rank \in Surjection(R, places)
  <2> HIDE DEF rank
  <2> QED
    BY <1>5, <1>p, FS_Injection
<1>8. \A i \in places : \E r \in R : Cardinality(below(r)) = i
  BY <1>7 DEF Surjection
<1>9. /\ \A r \in R : Cardinality(below(r)) \in places
      /\ \A p, r \in R : Cardinality(below(p)) = Cardinality(below(r)) => p = r
      /\ \A i \in places : \E r \in R : Cardinality(below(r)) = i
  BY <1>2, <1>4, <1>8
<1> QED
  BY <1>9 DEF below, places, IsRanked

-----------------------------------------------------------------------------
(* The numbers of the instructions.                                        *)

(* Both ends count a finite number of instructions.                        *)
LEMMA FinitePositions ==
  ASSUME NEW blocks, \A b \in Block : IsFiniteSet(DOMAIN blocks[b])
  PROVE  IsFiniteSet(Positions(blocks)) /\ Cardinality(Positions(blocks)) \in Nat
<1> DEFINE P == {{b} \X DOMAIN blocks[b] : b \in Block}
           f == [b \in Block |-> {b} \X DOMAIN blocks[b]]
<1>1. IsFiniteSet(Block)
  BY Function, FS_Interval DEF Block
<1>2. IsFiniteSet(P)
  <2>1. f \in Surjection(Block, P)
    BY DEF Surjection
  <2> QED
    BY <1>1, <2>1, FS_Surjection
<1>3. \A T \in P : IsFiniteSet(T)
  <2>1. ASSUME NEW b \in Block PROVE IsFiniteSet({b} \X DOMAIN blocks[b])
    <3>1. IsFiniteSet({b}) /\ IsFiniteSet(DOMAIN blocks[b])
      BY FS_Singleton
    <3> QED
      BY <3>1, FS_Product
  <2> QED
    BY <2>1
<1>4. IsFiniteSet(UNION P)
  <2> HIDE DEF P
  <2> QED
    BY <1>2, <1>3, FS_UNION
<1> QED
  BY <1>4, FS_CardinalityType DEF Positions

LEMMA PositionsAre ==
  ASSUME NEW blocks, NEW k
  PROVE  k \in Positions(blocks) <=>
           \E b \in Block : \E i \in DOMAIN blocks[b] : k = <<b, i>>
BY DEF Positions

LEMMA EarlierRanks ==
  ASSUME NEW P, IsFiniteSet(P), P \subseteq Nat \X Nat
  PROVE  /\ \A k \in P : Cardinality({m \in P : Earlier(m, k)}) \in 0 .. Cardinality(P) - 1
         /\ \A k, m \in P :
              Cardinality({n \in P : Earlier(n, k)}) = Cardinality({n \in P : Earlier(n, m)})
                => k = m
<1> DEFINE lt == {km \in P \X P : Earlier(km[1], km[2])}
<1>1. \A k, m \in P : <<k, m>> \in lt <=> Earlier(k, m)
  OBVIOUS
<1>2. \A k \in P : k[1] \in Nat /\ k[2] \in Nat /\ k = <<k[1], k[2]>>
  OBVIOUS
<1> HIDE DEF lt
<1>3. \A k \in P : <<k, k>> \notin lt
  BY <1>1, <1>2 DEF Earlier
<1>4. \A k, m, n \in P : <<k, m>> \in lt /\ <<m, n>> \in lt => <<k, n>> \in lt
  BY <1>1, <1>2 DEF Earlier
<1>5. \A k, m \in P : k = m \/ <<k, m>> \in lt \/ <<m, k>> \in lt
  <2> SUFFICES ASSUME NEW k \in P, NEW m \in P, ~Earlier(k, m), ~Earlier(m, k)
               PROVE  k = m
    BY <1>1
  <2>1. k[1] = m[1] /\ k[2] = m[2]
    BY <1>2 DEF Earlier
  <2> QED
    BY <1>2, <2>1
<1>6. \A k \in P : {m \in P : <<m, k>> \in lt} = {m \in P : Earlier(m, k)}
  BY <1>1
<1>r. IsRanked(P, lt)
  BY <1>3, <1>4, <1>5, Ranked
<1>7. /\ \A k \in P : Cardinality({m \in P : <<m, k>> \in lt}) \in 0 .. Cardinality(P) - 1
      /\ \A k, m \in P :
           Cardinality({n \in P : <<n, k>> \in lt}) = Cardinality({n \in P : <<n, m>> \in lt})
             => k = m
  BY <1>r DEF IsRanked
<1> QED
  BY <1>6, <1>7

(* The numbers the loader gives are distinct and less than their count.    *)
LEMMA LampIdsAreNumbers ==
  ASSUME source \in [Block -> Seq(Kind)]
  PROVE  /\ IsFiniteSet(Positions(source)) /\ Cardinality(Positions(source)) \in Nat
         /\ \A k \in Positions(source) :
              /\ LampId(k) \in Nat /\ LampId(k) < Cardinality(Positions(source))
              /\ Known(LampId(k)) /\ InstrOf(LampId(k)) = k
<1> DEFINE P == Positions(source)
<1>1. \A b \in Block : DOMAIN source[b] = 1 .. Len(source[b]) /\ Len(source[b]) \in Nat
  BY LenProperties
<1>2. IsFiniteSet(P) /\ Cardinality(P) \in Nat
  <2>1. \A b \in Block : IsFiniteSet(DOMAIN source[b])
    BY <1>1, FS_Interval
  <2> QED
    BY <2>1, FinitePositions
<1>3. P \subseteq Nat \X Nat
  <2> SUFFICES ASSUME NEW k \in P PROVE k \in Nat \X Nat
    OBVIOUS
  <2>1. PICK b \in Block : \E i \in DOMAIN source[b] : k = <<b, i>>
    BY PositionsAre
  <2>2. PICK i \in DOMAIN source[b] : k = <<b, i>>
    BY <2>1
  <2>3. b \in Nat /\ i \in Nat
    BY <1>1, Function DEF Block
  <2> QED
    BY <2>2, <2>3
<1>4. /\ \A k \in P : LampId(k) \in 0 .. Cardinality(P) - 1
      /\ \A k, m \in P : LampId(k) = LampId(m) => k = m
  <2> HIDE DEF P
  <2>1. /\ \A k \in P : Cardinality({m \in P : Earlier(m, k)}) \in 0 .. Cardinality(P) - 1
        /\ \A k, m \in P :
             Cardinality({n \in P : Earlier(n, k)}) = Cardinality({n \in P : Earlier(n, m)})
               => k = m
    BY <1>2, <1>3, EarlierRanks
  <2> QED
    BY <2>1 DEF LampId, P
<1>5. \A k \in P : Known(LampId(k)) /\ InstrOf(LampId(k)) = k
  BY <1>4 DEF Known, InstrOf
<1> QED
  BY <1>2, <1>4, <1>5

-----------------------------------------------------------------------------
(* The code.                                                               *)

Leading == {"LAMP_loop_iteration_begin", "LAMP_loop_exit"}
Middle == Kind \cup {"other"}
Op == Middle \cup ExternalCalls
Tag == {<<>>} \cup {<<l>> : l \in Loop} \cup (Nat \X Nat)
InstrSet == [op : Op, arg : Nat, of : Tag, id : Int]

LEMMA OriginalIs ==
  ASSUME source \in [Block -> Seq(Kind)], NEW b \in Block
  PROVE  /\ Original(b) \in Seq(InstrSet)
         /\ Len(source[b]) \in Nat /\ DOMAIN source[b] = 1 .. Len(source[b])
         /\ Len(Original(b)) = Len(source[b]) + 1
         /\ Original(b)[1] = Instr("other", 0, <<>>)
         /\ \A i \in 1 .. Len(source[b]) :
              source[b][i] \in Kind /\ Original(b)[i + 1] = Instr(source[b][i], 0, <<b, i>>)
<1> DEFINE n == Len(source[b])
           rest == [i \in DOMAIN source[b] |-> Instr(source[b][i], 0, <<b, i>>)]
           first == <<Instr("other", 0, <<>>)>>
<1>1. n \in Nat /\ DOMAIN source[b] = 1 .. n /\ \A i \in 1 .. n : source[b][i] \in Kind
  BY LenProperties, ElementOfSeq
<1>2. b \in Nat
  BY Function DEF Block
<1>3. \A op \in Middle, of \in Tag : Instr(op, 0, of) \in InstrSet
  BY DEF Instr, InstrSet, Op, NotHooked
<1>4. rest \in Seq(InstrSet) /\ Len(rest) = n
  <2>1. \A i \in 1 .. n : source[b][i] \in Middle /\ <<b, i>> \in Tag
    BY <1>1, <1>2 DEF Middle, Tag
  <2>2. \A i \in 1 .. n : rest[i] \in InstrSet
    BY <1>1, <1>3, <2>1
  <2>3. DOMAIN rest = 1 .. n
    BY <1>1
  <2> HIDE DEF n, rest
  <2>4. rest \in [1 .. n -> InstrSet]
    BY <1>1, <2>2, <2>3 DEF rest
  <2> QED
    BY <1>1, <2>4
<1>5. first \in Seq(InstrSet) /\ Len(first) = 1 /\ first[1] = Instr("other", 0, <<>>)
  <2>1. Instr("other", 0, <<>>) \in InstrSet
    BY <1>3 DEF Middle, Tag
  <2> QED
    BY <2>1
<1>6. Original(b) = first \o rest
  BY DEF Original
<1> HIDE DEF first, n
<1>7. /\ Original(b) \in Seq(InstrSet)
      /\ Len(Original(b)) = 1 + n
      /\ \A i \in 1 .. 1 + n :
           Original(b)[i] = IF i <= 1 THEN first[i] ELSE rest[i - 1]
  <2> HIDE DEF rest
  <2>1. /\ first \o rest \in Seq(InstrSet)
        /\ Len(first \o rest) = Len(first) + Len(rest)
        /\ \A i \in 1 .. Len(first) + Len(rest) :
             (first \o rest)[i] = IF i <= Len(first) THEN first[i] ELSE rest[i - Len(first)]
    BY <1>4, <1>5, ConcatProperties
  <2> QED
    BY <1>4, <1>5, <1>6, <2>1
<1>8. \A i \in 1 .. n : i + 1 \in 1 .. 1 + n /\ ~(i + 1 <= 1) /\ (i + 1) - 1 = i
  BY <1>1
<1>9. \A i \in 1 .. n : rest[i] = Instr(source[b][i], 0, <<b, i>>)
  BY <1>1
<1>10. \A i \in 1 .. n : Original(b)[i + 1] = rest[i]
  BY <1>7, <1>8
<1>11. Original(b)[1] = first[1]
  <2> HIDE DEF rest
  <2>1. 1 \in 1 .. 1 + n
    BY <1>1
  <2>2. Original(b)[1] = IF 1 <= 1 THEN first[1] ELSE rest[1 - 1]
    BY <1>7, <2>1
  <2> QED
    BY <2>2
<1> QED
  BY <1>1, <1>5, <1>7, <1>9, <1>10, <1>11 DEF n

LEMMA Shifted ==
  ASSUME NEW A, IsFiniteSet(A), A \subseteq Nat \X Nat
  PROVE  Cardinality({<<k[1], k[2] + 1>> : k \in A}) = Cardinality(A)
<1> DEFINE f == [k \in A |-> <<k[1], k[2] + 1>>]
           T == {<<k[1], k[2] + 1>> : k \in A}
<1>1. f \in [A -> T] /\ \A t \in T : \E k \in A : f[k] = t
  OBVIOUS
<1>2. \A k, m \in A : f[k] = f[m] => k = m
  <2> SUFFICES ASSUME NEW k \in A, NEW m \in A, f[k] = f[m] PROVE k = m
    OBVIOUS
  <2>1. /\ k[1] \in Nat /\ k[2] \in Nat /\ k = <<k[1], k[2]>>
        /\ m[1] \in Nat /\ m[2] \in Nat /\ m = <<m[1], m[2]>>
    OBVIOUS
  <2>2. k[1] = m[1] /\ k[2] + 1 = m[2] + 1
    OBVIOUS
  <2> QED
    BY <2>1, <2>2
<1> HIDE DEF f
<1>3. f \in Bijection(A, T)
  <2> HIDE DEF T
  <2> QED
    BY <1>1, <1>2 DEF Bijection, Injection, Surjection, IsInjective
<1> QED
  BY <1>3, FS_Bijection DEF ExistsBijection

(* Before any hook is in, both passes and the loader count the same.       *)
LEMMA OriginalNumbers ==
  ASSUME source \in [Block -> Seq(Kind)], code = [b \in Block |-> Original(b)]
  PROVE  /\ NumProfilable = Cardinality(Positions(source))
         /\ \A b \in Block : \A i \in DOMAIN code[b] :
              /\ i = 1 => code[b][i].op = "other"
              /\ i /= 1 => /\ code[b][i].op \in Kind
                           /\ <<b, i - 1>> \in Positions(source)
                           /\ code[b][i].of = <<b, i - 1>>
                           /\ InstructionId(<<b, i>>) = LampId(<<b, i - 1>>)
<1> DEFINE P == Positions(source)
           S(A) == {<<k[1], k[2] + 1>> : k \in A}
<1>1. \A b \in Block :
        /\ code[b] = Original(b)
        /\ Len(source[b]) \in Nat /\ DOMAIN source[b] = 1 .. Len(source[b])
        /\ DOMAIN code[b] = 1 .. Len(source[b]) + 1
        /\ code[b][1] = Instr("other", 0, <<>>)
        /\ \A i \in 1 .. Len(source[b]) :
             source[b][i] \in Kind /\ code[b][i + 1] = Instr(source[b][i], 0, <<b, i>>)
  BY OriginalIs, LenProperties
<1>2. \A b \in Block : \A i \in DOMAIN code[b] :
        /\ code[b][i].id = NotHooked
        /\ i = 1 => code[b][i].op = "other"
        /\ i /= 1 => /\ i - 1 \in DOMAIN source[b]
                     /\ code[b][i].op \in Kind
                     /\ code[b][i].of = <<b, i - 1>>
  <2> SUFFICES ASSUME NEW b \in Block, NEW i \in DOMAIN code[b]
               PROVE  /\ code[b][i].id = NotHooked
                      /\ i = 1 => code[b][i].op = "other"
                      /\ i /= 1 => /\ i - 1 \in DOMAIN source[b]
                                   /\ code[b][i].op \in Kind
                                   /\ code[b][i].of = <<b, i - 1>>
    OBVIOUS
  <2>1. CASE i = 1
    BY <1>1, <2>1 DEF Instr
  <2>2. CASE i /= 1
    <3>1. i - 1 \in 1 .. Len(source[b]) /\ (i - 1) + 1 = i
      BY <1>1, <2>2
    <3>2. source[b][i - 1] \in Kind /\ code[b][(i - 1) + 1] = Instr(source[b][i - 1], 0, <<b, i - 1>>)
      BY <1>1, <3>1
    <3> QED
      BY <1>1, <2>2, <3>1, <3>2 DEF Instr
  <2> QED
    BY <2>1, <2>2
<1>3. \A b \in Block : \A i \in DOMAIN source[b] : i + 1 \in DOMAIN code[b] /\ i + 1 /= 1 /\ i \in Nat
  BY <1>1
<1>4. \A i : i.op \in Kind => IsProfilable(i)
  BY DEF Kind, IsProfilable, ExternalCalls
<1>5. \A i : i.op = "other" => ~IsProfilable(i)
  BY DEF IsProfilable, ExternalCalls
<1>6. P \subseteq Nat \X Nat /\ IsFiniteSet(P)
  <2>1. ASSUME NEW k \in P PROVE k \in Nat \X Nat
    <3>1. PICK b \in Block : \E i \in DOMAIN source[b] : k = <<b, i>>
      BY PositionsAre
    <3>2. PICK i \in DOMAIN source[b] : k = <<b, i>>
      BY <3>1
    <3>3. b \in Nat /\ i \in Nat
      BY <1>1, Function DEF Block
    <3> QED
      BY <3>2, <3>3
  <2> QED
    BY <2>1, LampIdsAreNumbers
<1>7. Profilable = S(P)
  <2>1. ASSUME NEW k \in Profilable PROVE k \in S(P)
    <3>1. k \in Positions(code) /\ IsProfilable(code[k[1]][k[2]])
      BY DEF Profilable
    <3>2. PICK b \in Block : \E i \in DOMAIN code[b] : k = <<b, i>>
      BY <3>1, PositionsAre
    <3>3. PICK i \in DOMAIN code[b] : k = <<b, i>>
      BY <3>2
    <3>4. i - 1 \in DOMAIN source[b]
      BY <1>2, <1>5, <3>1, <3>3
    <3>5. <<b, i - 1>> \in P
      BY <3>4, PositionsAre
    <3>6. (i - 1) + 1 = i
      BY <1>1, <3>4
    <3> QED
      BY <3>3, <3>5, <3>6
  <2>2. ASSUME NEW k \in P PROVE <<k[1], k[2] + 1>> \in Profilable
    <3>1. PICK b \in Block : \E i \in DOMAIN source[b] : k = <<b, i>>
      BY PositionsAre
    <3>2. PICK i \in DOMAIN source[b] : k = <<b, i>>
      BY <3>1
    <3>3. i + 1 \in DOMAIN code[b] /\ code[b][i + 1].op \in Kind
      BY <1>2, <1>3
    <3>4. <<b, i + 1>> \in Positions(code)
      BY <3>3, PositionsAre
    <3> QED
      BY <1>4, <3>2, <3>3, <3>4 DEF Profilable
  <2> QED
    BY <2>1, <2>2
<1>8. ASSUME NEW k \in P
      PROVE  {m \in Profilable : Earlier(m, <<k[1], k[2] + 1>>)} = S({m \in P : Earlier(m, k)})
  <2>1. \A m \in P : Earlier(<<m[1], m[2] + 1>>, <<k[1], k[2] + 1>>) <=> Earlier(m, k)
    BY <1>6 DEF Earlier
  <2> HIDE DEF P
  <2> QED
    BY <1>7, <2>1
<1>9. ASSUME NEW k \in P PROVE InstructionId(<<k[1], k[2] + 1>>) = LampId(k)
  <2> DEFINE A == {m \in P : Earlier(m, k)}
  <2>1. IsFiniteSet(A) /\ A \subseteq Nat \X Nat
    BY <1>6, FS_Subset
  <2>2. Cardinality(S(A)) = Cardinality(A)
    <3> HIDE DEF A
    <3> QED
      BY <2>1, Shifted
  <2> QED
    BY <1>8, <2>2 DEF InstructionId, LampId
<1>10. NumProfilable = Cardinality(P)
  <2> DEFINE hooked == {k \in Positions(code) : code[k[1]][k[2]].id /= NotHooked}
             loads == {k \in hooked : code[k[1]][k[2]].op = "load"}
  <2>1. hooked = {}
    <3> SUFFICES ASSUME NEW k \in hooked PROVE FALSE
      OBVIOUS
    <3>1. PICK b \in Block : \E i \in DOMAIN code[b] : k = <<b, i>>
      BY PositionsAre
    <3>2. PICK i \in DOMAIN code[b] : k = <<b, i>>
      BY <3>1
    <3> QED
      BY <1>2, <3>2
  <2>2. NumProfilable = Cardinality(Profilable) + Cardinality(hooked) + Cardinality(loads)
    BY DEF NumProfilable
  <2>3. loads = {}
    BY <2>1
  <2>4. Cardinality(Profilable) = Cardinality(P)
    BY <1>6, <1>7, Shifted
  <2>5. Cardinality(P) \in Nat
    BY <1>6, FS_CardinalityType
  <2> HIDE DEF hooked, loads
  <2>6. Cardinality(hooked) = 0 /\ Cardinality(loads) = 0
    BY <2>1, <2>3, FS_EmptySet
  <2> QED
    BY <2>2, <2>4, <2>5, <2>6
<1>11. ASSUME NEW b \in Block, NEW i \in DOMAIN code[b], i /= 1
       PROVE  <<b, i - 1>> \in P /\ InstructionId(<<b, i>>) = LampId(<<b, i - 1>>)
  <2>1. i - 1 \in DOMAIN source[b]
    BY <1>2, <1>11
  <2>2. <<b, i - 1>> \in P
    BY <2>1, PositionsAre
  <2>3. InstructionId(<<b, (i - 1) + 1>>) = LampId(<<b, i - 1>>)
    BY <1>9, <2>2
  <2>4. (i - 1) + 1 = i
    BY <1>1, <2>1
  <2> QED
    BY <2>2, <2>3, <2>4
<1> QED
  BY <1>2, <1>10, <1>11

(* The loops a pass has left to come to are the end of the list.           *)
IsRest(t) ==
  /\ t \in Seq(Loop) /\ Len(t) <= Len(LoopOrder)
  /\ \A i \in 1 .. Len(t) : t[i] = LoopOrder[Len(LoopOrder) - Len(t) + i]

OptTypes ==
  /\ source \in [Block -> Seq(Kind)]
  /\ code \in [Block -> Seq(InstrSet)]
  /\ counted \in Nat
  /\ IsRest(toHook)
  /\ loopId \in [Loop -> Nat]
  /\ ran \in Seq({"count", "profile", "loops", "init"})

HookName == Leading \cup {"LAMP_loop_invocation"}

(* Where LAMPLoopProfiler puts the hooks that move the stack.              *)
Belongs(name, b, l) ==
  \/ name = "LAMP_loop_iteration_begin" /\ b = l
  \/ name = "LAMP_loop_exit" /\ b \in Exits(l)
  \/ name = "LAMP_loop_invocation" /\ b = Preheader[l]

HasHook(c, name, l) == \E i \in DOMAIN c : c[i].op = name /\ c[i].of = <<l>>

(* A block has every hook that belongs there once the loop is hooked, has  *)
(* it once, and in the order leading hooks, program, invocation.           *)
HooksPlaced(c, b, hooked) ==
  \A name \in HookName, l \in Loop :
    HasHook(c, name, l) <=> l \in hooked /\ Belongs(name, b, l)

HooksTagged(c) ==
  \A i \in DOMAIN c : c[i].op \in HookName => \E l \in Loop : c[i].of = <<l>>

HooksOnce(c) ==
  \A i, j \in DOMAIN c :
    c[i].op \in HookName /\ c[j].op = c[i].op /\ c[j].of = c[i].of => i = j

HooksNumbered(c, ids) ==
  \A i \in DOMAIN c, l \in Loop :
    c[i].op = "LAMP_loop_invocation" /\ c[i].of = <<l>> => c[i].arg = ids[l]

HooksOrdered(c) ==
  \A i, j \in DOMAIN c : i < j =>
    /\ c[i].op \in Middle => c[j].op \notin Leading
    /\ c[i].op = "LAMP_loop_invocation" => c[j].op \notin Leading \cup Middle

BlockOK(c, b, hooked, ids) ==
  /\ HooksPlaced(c, b, hooked)
  /\ HooksTagged(c)
  /\ HooksOnce(c)
  /\ HooksNumbered(c, ids)
  /\ HooksOrdered(c)

Hooked == {LoopOrder[j] : j \in 1 .. NumberedLoops}

CodeOK == \A b \in Block : BlockOK(code[b], b, Hooked, loopId)

CountedFirst == ran /= <<>> /\ ran[1] = "count"

(* The instruction is hooked, if at all, under the loader's number.        *)
NumberedRight(i) ==
  /\ i.id /= NotHooked => i.op \in Kind
  /\ i.op \in Kind => i.of \in Positions(source) /\ i.id = LampId(i.of)

NumbersOK ==
  /\ ran \in {<<>>, <<"count">>} =>
       code = [b \in Block |-> Original(b)] /\ toHook = LoopOrder
  /\ CountedFirst =>
       /\ counted = Cardinality(Positions(source))
       /\ \A j \in 1 .. NumberedLoops : loopId[LoopOrder[j]] = counted + (j - 1)
  /\ InOrder => \A b \in Block : \A i \in DOMAIN code[b] : NumberedRight(code[b][i])

OptInv == OptTypes /\ CodeOK /\ NumbersOK


(* The loops are listed once each.                                         *)
LEMMA OrderIsInjective ==
  /\ LoopOrder \in Seq(Loop) /\ Len(LoopOrder) \in Nat /\ DOMAIN LoopOrder = 1 .. Len(LoopOrder)
  /\ \A i \in 1 .. Len(LoopOrder) : LoopOrder[i] \in Loop
  /\ \A i, j \in 1 .. Len(LoopOrder) : LoopOrder[i] = LoopOrder[j] => i = j
  /\ \A l \in Loop : \E i \in 1 .. Len(LoopOrder) : l = LoopOrder[i]
  /\ Loop \subseteq Block
<1>1. LoopOrder \in Seq(Block) /\ Len(LoopOrder) \in Nat /\ DOMAIN LoopOrder = 1 .. Len(LoopOrder)
  BY NaturalLoops, LenProperties
<1>2. \A i \in 1 .. Len(LoopOrder) : LoopOrder[i] \in Loop /\ LoopOrder[i] \in Block
  BY <1>1, ElementOfSeq DEF Loop
<1>3. LoopOrder \in Seq(Loop)
  <2>1. LoopOrder \in [1 .. Len(LoopOrder) -> Loop]
    BY <1>1, <1>2
  <2> QED
    BY <1>1, <2>1
<1>4. \A i, j \in 1 .. Len(LoopOrder) : LoopOrder[i] = LoopOrder[j] => i = j
  <2> SUFFICES ASSUME NEW i \in 1 .. Len(LoopOrder), NEW j \in 1 .. Len(LoopOrder),
                      LoopOrder[i] = LoopOrder[j]
               PROVE  i = j
    OBVIOUS
  <2>1. LoopOrder[i] \in Body[LoopOrder[i]]
    BY <1>2, NaturalLoops
  <2>2. LoopOrder[i] \in Body[LoopOrder[j]] /\ LoopOrder[j] \in Body[LoopOrder[i]]
    BY <2>1
  <2>3. i <= j /\ j <= i
    BY <1>1, <2>2, InnerFirst
  <2> QED
    BY <1>1, <2>3
<1>5. \A l \in Loop : \E i \in 1 .. Len(LoopOrder) : l = LoopOrder[i]
  BY <1>1 DEF Loop
<1> QED
  BY <1>1, <1>2, <1>3, <1>4, <1>5

LEMMA RestShrinks ==
  ASSUME NEW t, IsRest(t), t /= <<>>
  PROVE  LET done == Len(LoopOrder) - Len(t)
         IN  /\ done \in Nat /\ done + 1 \in 1 .. Len(LoopOrder)
             /\ Head(t) = LoopOrder[done + 1] /\ Head(t) \in Loop
             /\ IsRest(Tail(t)) /\ Len(LoopOrder) - Len(Tail(t)) = done + 1
<1> DEFINE n == Len(LoopOrder)
           done == n - Len(t)
<1>1. t \in Seq(Loop) /\ Len(t) \in Nat /\ n \in Nat /\ Len(t) <= n
  BY OrderIsInjective, LenProperties DEF IsRest
<1>2. Len(t) >= 1
  BY <1>1, EmptySeq
<1>3. /\ Head(t) = t[1]
      /\ Tail(t) \in Seq(Loop) /\ Len(Tail(t)) = Len(t) - 1
      /\ \A i \in 1 .. Len(Tail(t)) : Tail(t)[i] = t[i + 1]
  BY <1>1, HeadTailProperties
<1>4. \A i \in 1 .. Len(t) : t[i] = LoopOrder[n - Len(t) + i]
  BY DEF IsRest
<1>5. Head(t) = LoopOrder[done + 1]
  <2>1. 1 \in 1 .. Len(t)
    BY <1>1, <1>2
  <2> QED
    BY <1>3, <1>4, <2>1
<1>6. ASSUME NEW i \in 1 .. Len(Tail(t))
      PROVE  Tail(t)[i] = LoopOrder[n - Len(Tail(t)) + i]
  <2>1. i + 1 \in 1 .. Len(t) /\ n - Len(t) + (i + 1) = n - Len(Tail(t)) + i
    BY <1>1, <1>2, <1>3
  <2>2. t[i + 1] = LoopOrder[n - Len(t) + (i + 1)]
    BY <1>4, <2>1
  <2> QED
    BY <1>3, <2>1, <2>2
<1>7. IsRest(Tail(t))
  BY <1>1, <1>2, <1>3, <1>6 DEF IsRest
<1>8. done \in Nat /\ done + 1 \in 1 .. n /\ n - Len(Tail(t)) = done + 1
  BY <1>1, <1>2, <1>3
<1>9. Head(t) \in Loop
  BY <1>5, <1>8, OrderIsInjective
<1> QED
  BY <1>5, <1>7, <1>8, <1>9

-----------------------------------------------------------------------------
(* The hooks of one more loop.                                             *)

(* The parts of a sequence of three, found in it and found again.          *)
IsAround(n, f, c, g, m, k) ==
  /\ m \in Nat /\ k \in Nat /\ m <= k
  /\ \A i \in DOMAIN n :
       /\ i \in Nat
       /\ \/ i <= m /\ i \in DOMAIN f /\ n[i] = f[i]
          \/ m < i /\ i <= k /\ i - m \in DOMAIN c /\ n[i] = c[i - m]
          \/ k < i /\ i - k \in DOMAIN g /\ n[i] = g[i - k]
  /\ \A i \in DOMAIN f : i \in DOMAIN n /\ n[i] = f[i]
  /\ \A i \in DOMAIN c : i + m \in DOMAIN n /\ n[i + m] = c[i]
  /\ \A i \in DOMAIN g : i + k \in DOMAIN n /\ n[i + k] = g[i]

LEMMA Surrounded ==
  ASSUME NEW S, NEW f \in Seq(S), NEW c \in Seq(S), NEW g \in Seq(S),
         NEW n, n = f \o c \o g,
         NEW m, m = Len(f), NEW k, k = Len(f) + Len(c)
  PROVE  n \in Seq(S) /\ IsAround(n, f, c, g, m, k)
<1> DEFINE fc == f \o c
<1>n. n = fc \o g
  OBVIOUS
<1>1. /\ m \in Nat /\ Len(c) \in Nat /\ Len(g) \in Nat
      /\ DOMAIN f = 1 .. m /\ DOMAIN c = 1 .. Len(c) /\ DOMAIN g = 1 .. Len(g)
  BY LenProperties
<1>2. /\ fc \in Seq(S) /\ Len(fc) = m + Len(c)
      /\ \A i \in 1 .. m + Len(c) : fc[i] = IF i <= m THEN f[i] ELSE c[i - m]
  BY ConcatProperties
<1> HIDE DEF fc
<1>3. /\ n \in Seq(S) /\ Len(n) = Len(fc) + Len(g)
      /\ \A i \in 1 .. Len(fc) + Len(g) : n[i] = IF i <= Len(fc) THEN fc[i] ELSE g[i - Len(fc)]
  <2>1. fc \in Seq(S)
    BY <1>2
  <2> QED
    BY <1>n, <2>1, ConcatProperties
<1>4. DOMAIN n = 1 .. Len(n)
  BY <1>3, LenProperties
<1>5. k \in Nat /\ k = m + Len(c) /\ m <= k /\ Len(n) = k + Len(g)
      /\ \A i \in 1 .. k + Len(g) : n[i] = IF i <= k THEN fc[i] ELSE g[i - k]
  BY <1>1, <1>2, <1>3
<1>6. \A i \in 1 .. k : fc[i] = IF i <= m THEN f[i] ELSE c[i - m]
  BY <1>2
<1>7. \A i \in DOMAIN n :
        /\ i \in Nat
        /\ \/ i <= m /\ i \in DOMAIN f /\ n[i] = f[i]
           \/ m < i /\ i <= k /\ i - m \in DOMAIN c /\ n[i] = c[i - m]
           \/ k < i /\ i - k \in DOMAIN g /\ n[i] = g[i - k]
  <2> SUFFICES ASSUME NEW i \in DOMAIN n
               PROVE  /\ i \in Nat
                      /\ \/ i <= m /\ i \in DOMAIN f /\ n[i] = f[i]
                         \/ m < i /\ i <= k /\ i - m \in DOMAIN c /\ n[i] = c[i - m]
                         \/ k < i /\ i - k \in DOMAIN g /\ n[i] = g[i - k]
    OBVIOUS
  <2>1. i \in 1 .. k + Len(g) /\ i \in Nat
    BY <1>4, <1>5
  <2>2. CASE i <= m
    BY <1>1, <1>5, <1>6, <2>1, <2>2
  <2>3. CASE m < i /\ i <= k
    <3>1. i - m \in DOMAIN c
      BY <1>1, <1>5, <2>1, <2>3
    <3>2. i \in 1 .. k /\ ~(i <= m)
      BY <1>1, <1>5, <2>1, <2>3
    <3> QED
      BY <1>5, <1>6, <2>1, <2>3, <3>1, <3>2
  <2>4. CASE k < i
    BY <1>1, <1>5, <2>1, <2>4
  <2> QED
    BY <1>1, <1>5, <2>1, <2>2, <2>3, <2>4
<1>8. \A i \in DOMAIN f : i \in DOMAIN n /\ n[i] = f[i]
  <2> SUFFICES ASSUME NEW i \in DOMAIN f PROVE i \in DOMAIN n /\ n[i] = f[i]
    OBVIOUS
  <2>1. i \in 1 .. k /\ i <= m /\ i \in 1 .. k + Len(g) /\ i <= k
    BY <1>1, <1>5
  <2>2. n[i] = fc[i] /\ fc[i] = f[i]
    BY <1>5, <1>6, <2>1
  <2> QED
    BY <1>4, <1>5, <2>1, <2>2
<1>9. \A i \in DOMAIN c : i + m \in DOMAIN n /\ n[i + m] = c[i]
  <2> SUFFICES ASSUME NEW i \in DOMAIN c PROVE i + m \in DOMAIN n /\ n[i + m] = c[i]
    OBVIOUS
  <2>1. i + m \in 1 .. k /\ ~(i + m <= m) /\ (i + m) - m = i /\ i + m \in 1 .. k + Len(g)
    BY <1>1, <1>5
  <2>2. n[i + m] = fc[i + m]
    BY <1>5, <2>1
  <2>3. fc[i + m] = c[(i + m) - m]
    BY <1>6, <2>1
  <2> QED
    BY <1>4, <1>5, <2>1, <2>2, <2>3
<1>10. \A i \in DOMAIN g : i + k \in DOMAIN n /\ n[i + k] = g[i]
  <2> SUFFICES ASSUME NEW i \in DOMAIN g PROVE i + k \in DOMAIN n /\ n[i + k] = g[i]
    OBVIOUS
  <2>1. ~(i + k <= k) /\ (i + k) - k = i /\ i + k \in 1 .. k + Len(g)
    BY <1>1, <1>5
  <2>2. n[i + k] = g[(i + k) - k]
    BY <1>5, <2>1
  <2> QED
    BY <1>4, <1>5, <2>1, <2>2
<1>11. m \in Nat /\ k \in Nat /\ m <= k
  BY <1>1, <1>5
<1>12. n \in Seq(S)
  BY <1>n, <1>3
<1> QED
  BY <1>7, <1>8, <1>9, <1>10, <1>11, <1>12 DEF IsAround

(* What the back of a block gets, and the front.                           *)
BackOK(g, b, l, number) ==
  /\ g \in Seq(InstrSet)
  /\ \A i \in DOMAIN g :
       /\ g[i].id = NotHooked /\ g[i].of = <<l>>
       /\ \/ g[i].op = "LAMP_loop_invocation" /\ b = Preheader[l] /\ g[i].arg = number
          \/ g[i].op = "LAMP_loop_iteration_end"
  /\ \A i, j \in DOMAIN g : g[i].op = g[j].op /\ g[i].op \in HookName => i = j
  /\ b = Preheader[l] => \E i \in DOMAIN g : g[i].op = "LAMP_loop_invocation"

LEMMA FrontHooks ==
  ASSUME NEW b \in Block, NEW l \in Loop
  PROVE  LET f == HooksInFront(b, l)
         IN  /\ f \in Seq(InstrSet)
             /\ \A i \in DOMAIN f :
                  /\ f[i].id = NotHooked /\ f[i].of = <<l>>
                  /\ \/ f[i].op = "LAMP_loop_iteration_begin" /\ b = l
                     \/ f[i].op = "LAMP_loop_iteration_end"
                     \/ f[i].op = "LAMP_loop_exit" /\ b \in Exits(l)
             /\ \A i, j \in DOMAIN f : f[i].op = f[j].op /\ f[i].op \in HookName => i = j
             /\ b = l => \E i \in DOMAIN f : f[i].op = "LAMP_loop_iteration_begin"
             /\ b \in Exits(l) => \E i \in DOMAIN f : f[i].op = "LAMP_loop_exit"
<1> DEFINE begin == Hook("LAMP_loop_iteration_begin", l)
           end == Hook("LAMP_loop_iteration_end", l)
           exit == Hook("LAMP_loop_exit", l)
           f == HooksInFront(b, l)
<1>1. begin \in InstrSet /\ end \in InstrSet /\ exit \in InstrSet
  BY DEF Hook, Instr, InstrSet, Op, ExternalCalls, Tag, NotHooked
<1>2. /\ begin.op = "LAMP_loop_iteration_begin" /\ end.op = "LAMP_loop_iteration_end"
      /\ exit.op = "LAMP_loop_exit"
      /\ \A h \in {begin, end, exit} : h.id = NotHooked /\ h.of = <<l>>
  BY DEF Hook, Instr
<1>3. end.op \notin HookName
  BY <1>2 DEF HookName, Leading
<1>4. b \notin Exits(l) \/ b /= l
  <2>1. l \in Body[l]
    BY NaturalLoops
  <2>2. \A x \in Exits(l) : x \notin Body[l]
    BY DEF Exits
  <2> QED
    BY <2>1, <2>2
<1> HIDE DEF begin, end, exit
<1>5. CASE b = l
  <2>1. f = <<begin>> \o <<>>
    BY <1>4, <1>5 DEF HooksInFront, begin
  <2>2. f = <<begin>>
    BY <1>1, <2>1, ConcatEmptySeq
  <2>3. f \in Seq(InstrSet) /\ DOMAIN f = {1} /\ f[1] = begin
    BY <1>1, <2>2
  <2> QED
    BY <1>2, <1>4, <1>5, <2>3
<1>6. CASE b /= l /\ b \in Exits(l)
  <2>1. f = <<>> \o <<end, exit>>
    BY <1>6 DEF HooksInFront, end, exit
  <2>2. f = <<end, exit>>
    BY <1>1, <2>1, ConcatEmptySeq
  <2>3. f \in Seq(InstrSet) /\ DOMAIN f = {1, 2} /\ f[1] = end /\ f[2] = exit
    BY <1>1, <2>2
  <2> QED
    BY <1>2, <1>3, <1>6, <2>3
<1>7. CASE b /= l /\ b \notin Exits(l)
  <2>1. f = <<>> \o <<>>
    BY <1>7 DEF HooksInFront
  <2>2. f = <<>>
    BY <2>1
  <2>3. f \in Seq(InstrSet) /\ DOMAIN f = {}
    BY <2>2
  <2> QED
    BY <1>7, <2>3
<1> QED
  BY <1>5, <1>6, <1>7

LEMMA BackHooks ==
  ASSUME NEW b \in Block, NEW l \in Loop, NEW number \in Nat,
         NEW g, g = HooksBehind(b, l, number)
  PROVE  BackOK(g, b, l, number)
<1> DEFINE inv == Instr("LAMP_loop_invocation", number, <<l>>)
           end == Hook("LAMP_loop_iteration_end", l)
<1>1. inv \in InstrSet /\ end \in InstrSet
  BY DEF Hook, Instr, InstrSet, Op, ExternalCalls, Tag, NotHooked
<1>2. /\ inv.op = "LAMP_loop_invocation" /\ end.op = "LAMP_loop_iteration_end"
      /\ inv.arg = number
      /\ \A h \in {inv, end} : h.id = NotHooked /\ h.of = <<l>>
  BY DEF Hook, Instr
<1>3. end.op \notin HookName
  BY <1>2 DEF HookName, Leading
<1>4. b /= Preheader[l] \/ b /= Latch[l]
  BY LoopSimplifyForm
<1> HIDE DEF inv, end
<1>5. CASE b = Preheader[l]
  <2>1. g = <<inv>> \o <<>>
    BY <1>4, <1>5 DEF HooksBehind, inv
  <2>2. g = <<inv>>
    BY <1>1, <2>1, ConcatEmptySeq
  <2>3. g \in Seq(InstrSet) /\ DOMAIN g = {1} /\ g[1] = inv
    BY <1>1, <2>2
  <2> QED
    BY <1>2, <1>5, <2>3 DEF BackOK
<1>6. CASE b /= Preheader[l] /\ b = Latch[l]
  <2>1. g = <<>> \o <<end>>
    BY <1>6 DEF HooksBehind, end
  <2>2. g = <<end>>
    BY <1>1, <2>1, ConcatEmptySeq
  <2>3. g \in Seq(InstrSet) /\ DOMAIN g = {1} /\ g[1] = end
    BY <1>1, <2>2
  <2> QED
    BY <1>2, <1>3, <1>6, <2>3 DEF BackOK
<1>7. CASE b /= Preheader[l] /\ b /= Latch[l]
  <2>1. g = <<>> \o <<>>
    BY <1>7 DEF HooksBehind
  <2>2. g = <<>>
    BY <2>1
  <2>3. g \in Seq(InstrSet) /\ DOMAIN g = {}
    BY <2>2
  <2> QED
    BY <1>7, <2>3 DEF BackOK
<1> QED
  BY <1>5, <1>6, <1>7

(* Nothing new but hooks that are no instruction of the program.           *)
Extends(n, c) ==
  \A i \in DOMAIN n :
    \/ n[i].id = NotHooked /\ n[i].op \notin Kind
    \/ \E j \in DOMAIN c : n[i] = c[j]

LEMMA HookedOneMore ==
  ASSUME NEW b \in Block, NEW l \in Loop, NEW number \in Nat, NEW c \in Seq(InstrSet),
         NEW hooked, l \notin hooked, NEW ids \in [Loop -> Nat],
         BlockOK(c, b, hooked, ids)
  PROVE  LET n == HooksInFront(b, l) \o c \o HooksBehind(b, l, number)
         IN  /\ n \in Seq(InstrSet)
             /\ BlockOK(n, b, hooked \cup {l}, [ids EXCEPT ![l] = number])
             /\ Extends(n, c)
<1> DEFINE f == HooksInFront(b, l)
           g == HooksBehind(b, l, number)
           n == f \o c \o g
           m == Len(f)
           k == Len(f) + Len(c)
           new == [ids EXCEPT ![l] = number]
<1> HIDE DEF n, m, k, new
<1>1. /\ f \in Seq(InstrSet)
      /\ \A i \in DOMAIN f :
           /\ f[i].id = NotHooked /\ f[i].of = <<l>>
           /\ \/ f[i].op = "LAMP_loop_iteration_begin" /\ b = l
              \/ f[i].op = "LAMP_loop_iteration_end"
              \/ f[i].op = "LAMP_loop_exit" /\ b \in Exits(l)
      /\ \A i, j \in DOMAIN f : f[i].op = f[j].op /\ f[i].op \in HookName => i = j
      /\ b = l => \E i \in DOMAIN f : f[i].op = "LAMP_loop_iteration_begin"
      /\ b \in Exits(l) => \E i \in DOMAIN f : f[i].op = "LAMP_loop_exit"
  BY FrontHooks
<1>2. /\ g \in Seq(InstrSet)
      /\ \A i \in DOMAIN g :
           /\ g[i].id = NotHooked /\ g[i].of = <<l>>
           /\ \/ g[i].op = "LAMP_loop_invocation" /\ b = Preheader[l] /\ g[i].arg = number
              \/ g[i].op = "LAMP_loop_iteration_end"
      /\ \A i, j \in DOMAIN g : g[i].op = g[j].op /\ g[i].op \in HookName => i = j
      /\ b = Preheader[l] => \E i \in DOMAIN g : g[i].op = "LAMP_loop_invocation"
  <2>1. BackOK(g, b, l, number)
    BY BackHooks
  <2> HIDE DEF g
  <2> QED
    BY <2>1 DEF BackOK
<1> HIDE DEF f, g
<1>3. /\ n \in Seq(InstrSet)
      /\ m \in Nat /\ k \in Nat /\ m <= k
      /\ \A i \in DOMAIN n :
           /\ i \in Nat
           /\ \/ i <= m /\ i \in DOMAIN f /\ n[i] = f[i]
              \/ m < i /\ i <= k /\ i - m \in DOMAIN c /\ n[i] = c[i - m]
              \/ k < i /\ i - k \in DOMAIN g /\ n[i] = g[i - k]
      /\ \A i \in DOMAIN f : i \in DOMAIN n /\ n[i] = f[i]
      /\ \A i \in DOMAIN c : i + m \in DOMAIN n /\ n[i + m] = c[i]
      /\ \A i \in DOMAIN g : i + k \in DOMAIN n /\ n[i + k] = g[i]
  <2>1. f \in Seq(InstrSet) /\ g \in Seq(InstrSet)
    BY <1>1, <1>2
  <2>2. n = f \o c \o g /\ m = Len(f) /\ k = Len(f) + Len(c)
    BY DEF n, m, k
  <2>3. n \in Seq(InstrSet) /\ IsAround(n, f, c, g, m, k)
    BY <2>1, <2>2, Surrounded
  <2> QED
    BY <2>3 DEF IsAround
<1>4. \A i \in DOMAIN n :
        \/ i \in DOMAIN f /\ n[i] = f[i]
        \/ \E j \in DOMAIN c : n[i] = c[j]
        \/ \E j \in DOMAIN g : n[i] = g[j]
  BY <1>3
<1>5. DOMAIN c \subseteq Nat /\ DOMAIN f \subseteq Nat /\ DOMAIN g \subseteq Nat
  BY <1>1, <1>2, LenProperties
<1>6. \A h, j \in Loop : <<h>> = <<j>> => h = j
  OBVIOUS
<1>7. HooksPlaced(n, b, hooked \cup {l})
  <2> SUFFICES ASSUME NEW name \in HookName, NEW h \in Loop
               PROVE  HasHook(n, name, h) <=> h \in hooked \cup {l} /\ Belongs(name, b, h)
    BY DEF HooksPlaced
  <2>1. HasHook(c, name, h) <=> h \in hooked /\ Belongs(name, b, h)
    BY DEF BlockOK, HooksPlaced
  <2>2. HasHook(c, name, h) => HasHook(n, name, h)
    BY <1>3 DEF HasHook
  <2>3. HasHook(n, name, h) => HasHook(c, name, h) \/ (h = l /\ Belongs(name, b, l))
    <3> SUFFICES ASSUME NEW i \in DOMAIN n, n[i].op = name, n[i].of = <<h>>,
                        ~HasHook(c, name, h)
                 PROVE  h = l /\ Belongs(name, b, l)
      BY DEF HasHook
    <3>1. CASE i \in DOMAIN f /\ n[i] = f[i]
      BY <1>1, <1>6, <3>1 DEF Belongs, HookName, Leading
    <3>2. CASE \E j \in DOMAIN g : n[i] = g[j]
      BY <1>2, <1>6, <3>2 DEF Belongs, HookName, Leading
    <3>3. CASE \E j \in DOMAIN c : n[i] = c[j]
      BY <3>3 DEF HasHook
    <3> QED
      BY <1>4, <3>1, <3>2, <3>3
  <2>4. h = l /\ Belongs(name, b, l) => HasHook(n, name, h)
    <3> SUFFICES ASSUME h = l, Belongs(name, b, l) PROVE HasHook(n, name, l)
      OBVIOUS
    <3>1. \/ \E i \in DOMAIN f : f[i].op = name /\ f[i].of = <<l>>
          \/ \E i \in DOMAIN g : g[i].op = name /\ g[i].of = <<l>>
      <4>1. \A i \in DOMAIN f : f[i].of = <<l>>
        BY <1>1
      <4>2. CASE name = "LAMP_loop_iteration_begin" /\ b = l
        BY <1>1, <4>1, <4>2
      <4>3. CASE name = "LAMP_loop_exit" /\ b \in Exits(l)
        BY <1>1, <4>1, <4>3
      <4>4. CASE name = "LAMP_loop_invocation" /\ b = Preheader[l]
        BY <1>2, <4>4
      <4> QED
        BY <4>2, <4>3, <4>4 DEF Belongs
    <3>2. /\ \A i \in DOMAIN f : i \in DOMAIN n /\ n[i] = f[i]
          /\ \A i \in DOMAIN g : i + k \in DOMAIN n /\ n[i + k] = g[i]
      BY <1>3
    <3>3. CASE \E i \in DOMAIN f : f[i].op = name /\ f[i].of = <<l>>
      BY <3>2, <3>3 DEF HasHook
    <3>4. CASE \E i \in DOMAIN g : g[i].op = name /\ g[i].of = <<l>>
      <4>1. PICK i \in DOMAIN g : g[i].op = name /\ g[i].of = <<l>>
        BY <3>4
      <4>2. i + k \in DOMAIN n /\ n[i + k] = g[i]
        BY <3>2
      <4> QED
        BY <4>1, <4>2 DEF HasHook
    <3> QED
      BY <3>1, <3>3, <3>4
  <2> QED
    BY <2>1, <2>2, <2>3, <2>4
<1>8. HooksTagged(n)
  <2> SUFFICES ASSUME NEW i \in DOMAIN n, n[i].op \in HookName
               PROVE  \E h \in Loop : n[i].of = <<h>>
    BY DEF HooksTagged
  <2>1. CASE \E j \in DOMAIN c : n[i] = c[j]
    BY <2>1 DEF BlockOK, HooksTagged
  <2> QED
    BY <1>1, <1>2, <1>4, <2>1
<1>9. \A j \in DOMAIN c : c[j].op \in HookName => c[j].of /= <<l>>
  BY DEF BlockOK, HooksPlaced, HasHook
<1>10. HooksOnce(n)
  <2> SUFFICES ASSUME NEW i \in DOMAIN n, NEW j \in DOMAIN n,
                      n[i].op \in HookName, n[j].op = n[i].op, n[j].of = n[i].of
               PROVE  i = j
    BY DEF HooksOnce
  <2>1. /\ i \in Nat /\ j \in Nat /\ m \in Nat /\ k \in Nat
        /\ \/ i \in DOMAIN f /\ n[i] = f[i]
           \/ i - m \in DOMAIN c /\ n[i] = c[i - m]
           \/ i - k \in DOMAIN g /\ n[i] = g[i - k]
        /\ \/ j \in DOMAIN f /\ n[j] = f[j]
           \/ j - m \in DOMAIN c /\ n[j] = c[j - m]
           \/ j - k \in DOMAIN g /\ n[j] = g[j - k]
    BY <1>3
  <2>2. CASE i \in DOMAIN f /\ n[i] = f[i]
    <3>1. n[i].of = <<l>> /\ n[i].op \in Leading
      BY <1>1, <2>2 DEF HookName, Leading
    <3>2. ~(j - m \in DOMAIN c /\ n[j] = c[j - m])
      BY <1>9, <3>1
    <3>3. ~(j - k \in DOMAIN g /\ n[j] = g[j - k])
      BY <1>2, <3>1 DEF Leading
    <3>4. j \in DOMAIN f /\ n[j] = f[j]
      BY <2>1, <3>2, <3>3
    <3> QED
      BY <1>1, <2>2, <3>4
  <2>3. CASE i - m \in DOMAIN c /\ n[i] = c[i - m]
    <3>1. n[i].of /= <<l>>
      BY <1>9, <2>3
    <3>2. j - m \in DOMAIN c /\ n[j] = c[j - m]
      BY <1>1, <1>2, <2>1, <3>1
    <3>3. i - m = j - m
      BY <2>3, <3>2 DEF BlockOK, HooksOnce
    <3> QED
      BY <2>1, <3>3
  <2>4. CASE i - k \in DOMAIN g /\ n[i] = g[i - k]
    <3>1. n[i].of = <<l>> /\ n[i].op \notin Leading
      BY <1>2, <2>4 DEF Leading
    <3>2. ~(j - m \in DOMAIN c /\ n[j] = c[j - m])
      BY <1>9, <3>1
    <3>3. ~(j \in DOMAIN f /\ n[j] = f[j])
      BY <1>1, <3>1 DEF HookName, Leading
    <3>4. j - k \in DOMAIN g /\ n[j] = g[j - k]
      BY <2>1, <3>2, <3>3
    <3>5. i - k = j - k
      BY <1>2, <2>4, <3>4
    <3> QED
      BY <2>1, <3>5
  <2> QED
    BY <2>1, <2>2, <2>3, <2>4
<1>11. HooksNumbered(n, new)
  <2> SUFFICES ASSUME NEW i \in DOMAIN n, NEW h \in Loop,
                      n[i].op = "LAMP_loop_invocation", n[i].of = <<h>>
               PROVE  n[i].arg = new[h]
    BY DEF HooksNumbered
  <2>1. new[l] = number /\ \A j \in Loop : j /= l => new[j] = ids[j]
    BY DEF new
  <2>2. CASE i \in DOMAIN f /\ n[i] = f[i]
    BY <1>1, <2>2
  <2>3. CASE \E j \in DOMAIN g : n[i] = g[j]
    BY <1>2, <1>6, <2>1, <2>3
  <2>4. CASE \E j \in DOMAIN c : n[i] = c[j]
    <3>1. PICK j \in DOMAIN c : n[i] = c[j]
      BY <2>4
    <3>2. h /= l
      BY <1>9, <3>1 DEF HookName
    <3> QED
      BY <2>1, <3>1, <3>2 DEF BlockOK, HooksNumbered
  <2> QED
    BY <1>4, <2>2, <2>3, <2>4
<1>12. HooksOrdered(n)
  <2> SUFFICES ASSUME NEW i \in DOMAIN n, NEW j \in DOMAIN n, i < j
               PROVE  /\ n[i].op \in Middle => n[j].op \notin Leading
                      /\ n[i].op = "LAMP_loop_invocation" => n[j].op \notin Leading \cup Middle
    BY DEF HooksOrdered
  <2>1. /\ i \in Nat /\ j \in Nat /\ m \in Nat /\ k \in Nat /\ m <= k
        /\ \/ i <= m /\ i \in DOMAIN f /\ n[i] = f[i]
           \/ m < i /\ i <= k /\ i - m \in DOMAIN c /\ n[i] = c[i - m]
           \/ k < i /\ i - k \in DOMAIN g /\ n[i] = g[i - k]
        /\ \/ j <= m /\ j \in DOMAIN f /\ n[j] = f[j]
           \/ m < j /\ j <= k /\ j - m \in DOMAIN c /\ n[j] = c[j - m]
           \/ k < j /\ j - k \in DOMAIN g /\ n[j] = g[j - k]
    BY <1>3
  <2>2. CASE i \in DOMAIN f /\ n[i] = f[i]
    BY <1>1, <2>2 DEF Middle, Kind
  <2>3. CASE k < j /\ j - k \in DOMAIN g /\ n[j] = g[j - k]
    BY <1>2, <2>3 DEF Middle, Leading, Kind
  <2>4. CASE m < i /\ i - m \in DOMAIN c /\ n[i] = c[i - m] /\ j - m \in DOMAIN c /\ n[j] = c[j - m]
    <3>1. i - m < j - m
      BY <2>1
    <3> QED
      BY <2>4, <3>1 DEF BlockOK, HooksOrdered
  <2> QED
    BY <2>1, <2>2, <2>3, <2>4
<1>13. Extends(n, c)
  <2> SUFFICES ASSUME NEW i \in DOMAIN n, ~ \E j \in DOMAIN c : n[i] = c[j]
               PROVE  n[i].id = NotHooked /\ n[i].op \notin Kind
    BY DEF Extends
  <2>1. CASE i \in DOMAIN f /\ n[i] = f[i]
    BY <1>1, <2>1 DEF Kind
  <2>2. CASE \E j \in DOMAIN g : n[i] = g[j]
    BY <1>2, <2>2 DEF Kind
  <2> QED
    BY <1>4, <2>1, <2>2
<1>14. BlockOK(n, b, hooked \cup {l}, new)
  BY <1>7, <1>8, <1>10, <1>11, <1>12 DEF BlockOK
<1> QED
  BY <1>3, <1>13, <1>14 DEF n, new, f, g

-----------------------------------------------------------------------------
(* The passes.                                                             *)

LEMMA OptStart == Init => OptInv
<1> SUFFICES ASSUME Init PROVE OptInv
  OBVIOUS
<1>1. PICK size \in [Block -> 0 .. MaxInstrs] :
        \E kind \in [{k \in Block \X (1 .. MaxInstrs) : k[2] <= size[k[1]]} -> Kind] :
          source = [b \in Block |-> [i \in 1 .. size[b] |-> kind[<<b, i>>]]]
  BY DEF Init, InsertInit
<1>2. PICK kind \in [{k \in Block \X (1 .. MaxInstrs) : k[2] <= size[k[1]]} -> Kind] :
        source = [b \in Block |-> [i \in 1 .. size[b] |-> kind[<<b, i>>]]]
  BY <1>1
<1>3. source \in [Block -> Seq(Kind)]
  <2>1. ASSUME NEW b \in Block
        PROVE  [i \in 1 .. size[b] |-> kind[<<b, i>>]] \in Seq(Kind)
    <3>1. size[b] \in Nat /\ size[b] <= MaxInstrs
      BY Function
    <3>2. ASSUME NEW i \in 1 .. size[b] PROVE kind[<<b, i>>] \in Kind
      <4>1. <<b, i>> \in Block \X (1 .. MaxInstrs) /\ i <= size[b]
        BY <3>1, Function
      <4> QED
        BY <4>1
    <3> DEFINE n == size[b]
               s == [i \in 1 .. n |-> kind[<<b, i>>]]
    <3>3. s \in [1 .. n -> Kind]
      BY <3>2
    <3>4. n \in Nat
      BY <3>1
    <3> HIDE DEF n, s
    <3>5. s \in Seq(Kind)
      BY <3>3, <3>4
    <3> QED
      BY <3>5 DEF s, n
  <2> QED
    BY <1>2, <2>1
<1>4. /\ code = [b \in Block |-> Original(b)] /\ counted = 0 /\ toHook = LoopOrder
      /\ loopId = [l \in Loop |-> 0] /\ ran = <<>>
  BY DEF Init, InsertInit
<1>5. IsRest(toHook)
  <2>1. \A i \in 1 .. Len(LoopOrder) : LoopOrder[i] = LoopOrder[Len(LoopOrder) - Len(LoopOrder) + i]
    BY OrderIsInjective
  <2> QED
    BY <1>4, <2>1, OrderIsInjective DEF IsRest
<1>6. OptTypes
  <2>1. code \in [Block -> Seq(InstrSet)]
    BY <1>3, <1>4, OriginalIs
  <2>2. ran \in Seq({"count", "profile", "loops", "init"})
    BY <1>4
  <2> QED
    BY <1>3, <1>4, <1>5, <2>1, <2>2 DEF OptTypes
<1>7. Hooked = {}
  BY <1>4, OrderIsInjective DEF Hooked, NumberedLoops
<1>8. CodeOK
  <2> SUFFICES ASSUME NEW b \in Block PROVE BlockOK(code[b], b, {}, loopId)
    BY <1>7 DEF CodeOK
  <2>1. \A i \in DOMAIN code[b] : code[b][i].op \in Middle
    <3>1. \A i \in DOMAIN code[b] : /\ i = 1 => code[b][i].op = "other"
                                    /\ i /= 1 => code[b][i].op \in Kind
      BY <1>3, <1>4, OriginalNumbers
    <3> QED
      BY <3>1 DEF Middle
  <2>2. \A op \in Middle : op \notin HookName /\ op \notin Leading
    BY DEF Middle, Kind, HookName, Leading
  <2>3. "LAMP_loop_invocation" \in HookName
    BY DEF HookName
  <2> QED
    BY <2>1, <2>2, <2>3
       DEF BlockOK, HooksPlaced, HasHook, HooksTagged, HooksOnce, HooksNumbered, HooksOrdered
<1>9. NumbersOK
  BY <1>4 DEF NumbersOK, CountedFirst, InOrder
<1> QED
  BY <1>6, <1>8, <1>9 DEF OptInv

LEMMA OptKept ==
  ASSUME OptInv, UNCHANGED optVars
  PROVE  OptInv'
<1>1. /\ source' = source /\ code' = code /\ counted' = counted
      /\ toHook' = toHook /\ loopId' = loopId /\ ran' = ran
  BY DEF optVars
<1>2. OptTypes'
  BY <1>1 DEF OptInv, OptTypes, IsRest
<1>3. Hooked' = Hooked
  BY <1>1 DEF Hooked, NumberedLoops
<1>4. CodeOK'
  BY <1>1, <1>3 DEF OptInv, CodeOK
<1>5. NumbersOK'
  <2>1. /\ InOrder' <=> InOrder
        /\ CountedFirst' <=> CountedFirst
        /\ NumberedLoops' = NumberedLoops
        /\ Positions(source)' = Positions(source)
        /\ \A b \in Block : Original(b)' = Original(b)
    BY <1>1 DEF InOrder, CountedFirst, NumberedLoops, Positions, Original
  <2>2. \A k : LampId(k)' = LampId(k)
    BY <1>1 DEF LampId, Positions
  <2>3. \A i : NumberedRight(i)' <=> NumberedRight(i)
    BY <2>1, <2>2 DEF NumberedRight
  <2>4. InOrder' => \A b \in Block : \A i \in DOMAIN code'[b] : NumberedRight(code[b][i])'
    BY <1>1, <2>1, <2>3 DEF OptInv, NumbersOK
  <2>5. ran' \in {<<>>, <<"count">>} =>
          code' = [b \in Block |-> Original(b)'] /\ toHook' = LoopOrder
    BY <1>1, <2>1 DEF OptInv, NumbersOK
  <2>6. CountedFirst' =>
          /\ counted' = Cardinality(Positions(source)')
          /\ \A j \in 1 .. NumberedLoops' : loopId'[LoopOrder[j]] = counted' + (j - 1)
    BY <1>1, <2>1 DEF OptInv, NumbersOK
  <2> QED
    BY <1>1, <2>4, <2>5, <2>6 DEF NumbersOK
<1> QED
  BY <1>2, <1>4, <1>5 DEF OptInv

(* The passes that ran before the one that runs now.                       *)
LEMMA RanBefore ==
  ASSUME OptTypes, NEW pass \in {"count", "profile", "loops", "init"},
         ran' = Append(ran, pass)
  PROVE  /\ ran' \in Seq({"count", "profile", "loops", "init"})
         /\ Len(ran) \in Nat /\ Len(ran') = Len(ran) + 1 /\ DOMAIN ran = 1 .. Len(ran)
         /\ \A i \in 1 .. Len(ran) : ran'[i] = ran[i]
         /\ ran'[Len(ran) + 1] = pass
         /\ ran' /= <<>>
         /\ ran = <<>> <=> Len(ran) = 0
         /\ ran' = <<"count">> => ran = <<>>
<1>1. ran \in Seq({"count", "profile", "loops", "init"})
  BY DEF OptTypes
<1>2. Len(ran) \in Nat /\ DOMAIN ran = 1 .. Len(ran) /\ (ran = <<>> <=> Len(ran) = 0)
  BY <1>1, LenProperties, EmptySeq
<1>3. /\ ran' \in Seq({"count", "profile", "loops", "init"})
      /\ Len(ran') = Len(ran) + 1
      /\ \A i \in 1 .. Len(ran) : ran'[i] = ran[i]
      /\ ran'[Len(ran) + 1] = pass
  BY <1>1, <1>2
<1>4. ran' /= <<>>
  BY <1>2, <1>3
<1>5. ran' = <<"count">> => Len(ran) = 0
  BY <1>2, <1>3
<1> QED
  BY <1>2, <1>3, <1>4, <1>5

LEMMA NumProfilableIsNumber ==
  ASSUME OptTypes
  PROVE  NumProfilable \in Nat /\ \A k : InstructionId(k) \in Nat
<1>1. IsFiniteSet(Positions(code))
  <2>1. ASSUME NEW b \in Block PROVE IsFiniteSet(DOMAIN code[b])
    <3>1. code[b] \in Seq(InstrSet)
      BY DEF OptTypes
    <3>2. DOMAIN code[b] = 1 .. Len(code[b]) /\ Len(code[b]) \in Nat
      BY <3>1, LenProperties
    <3> QED
      BY <3>2, FS_Interval
  <2> QED
    BY <2>1, FinitePositions
<1> DEFINE hooked == {k \in Positions(code) : code[k[1]][k[2]].id /= NotHooked}
           loads == {k \in hooked : code[k[1]][k[2]].op = "load"}
<1>2. \A A \in SUBSET Positions(code) : Cardinality(A) \in Nat
  BY <1>1, FS_Subset, FS_CardinalityType
<1>3. Profilable \in SUBSET Positions(code) /\ hooked \in SUBSET Positions(code)
      /\ loads \in SUBSET Positions(code)
  BY DEF Profilable
<1>4. NumProfilable = Cardinality(Profilable) + Cardinality(hooked) + Cardinality(loads)
  BY DEF NumProfilable
<1>5. \A k : {m \in Profilable : Earlier(m, k)} \in SUBSET Positions(code)
  BY <1>3
<1> HIDE DEF hooked, loads
<1>6. NumProfilable \in Nat
  BY <1>2, <1>3, <1>4
<1>7. \A k : InstructionId(k) \in Nat
  BY <1>2, <1>5 DEF InstructionId
<1> QED
  BY <1>6, <1>7

LEMMA CountKeeps ==
  ASSUME OptInv, CountInstrs
  PROVE  OptInv'
<1> USE DEF OptInv
<1>1. /\ counted' = NumProfilable /\ ran' = Append(ran, "count")
      /\ source' = source /\ code' = code /\ toHook' = toHook /\ loopId' = loopId
      /\ ~Ran("count")
  BY DEF CountInstrs
<1>2. /\ ran' \in Seq({"count", "profile", "loops", "init"})
      /\ Len(ran) \in Nat /\ Len(ran') = Len(ran) + 1 /\ DOMAIN ran = 1 .. Len(ran)
      /\ \A i \in 1 .. Len(ran) : ran'[i] = ran[i]
      /\ ran' /= <<>>
      /\ ran = <<>> <=> Len(ran) = 0
      /\ ran' = <<"count">> => ran = <<>>
  BY <1>1, RanBefore
<1>3. OptTypes'
  BY <1>1, <1>2, NumProfilableIsNumber DEF OptTypes, IsRest
<1>4. NumberedLoops' = NumberedLoops /\ Hooked' = Hooked
  BY <1>1 DEF NumberedLoops, Hooked
<1>5. CodeOK'
  BY <1>1, <1>4 DEF CodeOK
<1>6. ~(CountedFirst /\ Len(ran) >= 1)
  BY <1>1, <1>2 DEF Ran, CountedFirst
<1>7. CountedFirst' => ran = <<>>
  <2> SUFFICES ASSUME CountedFirst', Len(ran) /= 0 PROVE FALSE
    BY <1>2
  <2>1. 1 \in 1 .. Len(ran)
    BY <1>2
  <2>2. ran[1] = "count"
    BY <1>2, <2>1 DEF CountedFirst
  <2> QED
    BY <1>1, <1>2, <2>1, <2>2 DEF Ran
<1>8. InOrder' => FALSE
  <2> SUFFICES ASSUME InOrder' PROVE FALSE
    OBVIOUS
  <2>1. CountedFirst' /\ Len(ran') >= 2
    BY <1>2 DEF InOrder, CountedFirst
  <2> QED
    BY <1>2, <1>7, <2>1
<1>9. ran = <<>> => code = [b \in Block |-> Original(b)] /\ toHook = LoopOrder
  BY DEF NumbersOK
<1>10. /\ \A b \in Block : Original(b)' = Original(b)
       /\ Positions(source)' = Positions(source)
  BY <1>1 DEF Original, Positions
<1>11. CountedFirst' =>
         /\ counted' = Cardinality(Positions(source)')
         /\ \A j \in 1 .. NumberedLoops' : loopId'[LoopOrder[j]] = counted' + (j - 1)
  <2> SUFFICES ASSUME CountedFirst'
               PROVE  /\ counted' = Cardinality(Positions(source)')
                      /\ NumberedLoops' = 0
    OBVIOUS
  <2>1. source \in [Block -> Seq(Kind)]
    BY DEF OptTypes
  <2>2. NumProfilable = Cardinality(Positions(source))
    BY <1>7, <1>9, <2>1, OriginalNumbers
  <2>3. NumberedLoops = 0
    BY <1>7, <1>9, OrderIsInjective DEF NumberedLoops
  <2> QED
    BY <1>1, <1>4, <1>10, <2>2, <2>3
<1>12. ran' \in {<<>>, <<"count">>} =>
         code' = [b \in Block |-> Original(b)'] /\ toHook' = LoopOrder
  BY <1>1, <1>2, <1>9, <1>10
<1>13. NumbersOK'
  BY <1>8, <1>11, <1>12 DEF NumbersOK
<1> QED
  BY <1>3, <1>5, <1>13

(* Numbering changes no instruction's kind.                                *)
LEMMA SameBlock ==
  ASSUME NEW c, NEW n, NEW b, NEW hooked, NEW ids, BlockOK(c, b, hooked, ids),
         DOMAIN n = DOMAIN c,
         \A i \in DOMAIN c : n[i].op = c[i].op /\ n[i].of = c[i].of /\ n[i].arg = c[i].arg
  PROVE  BlockOK(n, b, hooked, ids)
BY DEF BlockOK, HooksPlaced, HasHook, HooksTagged, HooksOnce, HooksNumbered, HooksOrdered

LEMMA ProfilerKeeps ==
  ASSUME OptInv, LampProfiler
  PROVE  OptInv'
<1> USE DEF OptInv
<1>1. /\ ran' = Append(ran, "profile")
      /\ code' = [b \in Block |-> [i \in DOMAIN code[b] |->
                    IF IsProfilable(code[b][i])
                    THEN [code[b][i] EXCEPT !.id = InstructionId(<<b, i>>)]
                    ELSE code[b][i]]]
      /\ source' = source /\ counted' = counted /\ toHook' = toHook /\ loopId' = loopId
      /\ ~Ran("profile")
  BY DEF LampProfiler
<1>2. /\ ran' \in Seq({"count", "profile", "loops", "init"})
      /\ Len(ran) \in Nat /\ Len(ran') = Len(ran) + 1 /\ DOMAIN ran = 1 .. Len(ran)
      /\ \A i \in 1 .. Len(ran) : ran'[i] = ran[i]
      /\ ran'[Len(ran) + 1] = "profile"
      /\ ran' /= <<>>
      /\ ran = <<>> <=> Len(ran) = 0
      /\ ran' = <<"count">> => ran = <<>>
  BY <1>1, RanBefore
<1>3. \A b \in Block : code[b] \in Seq(InstrSet) /\ DOMAIN code[b] = 1 .. Len(code[b])
                       /\ Len(code[b]) \in Nat
  <2>1. \A b \in Block : code[b] \in Seq(InstrSet)
    BY DEF OptTypes
  <2> QED
    BY <2>1, LenProperties
<1>4. \A b \in Block :
        /\ DOMAIN code'[b] = DOMAIN code[b]
        /\ \A i \in DOMAIN code[b] :
             code'[b][i] = IF IsProfilable(code[b][i])
                           THEN [code[b][i] EXCEPT !.id = InstructionId(<<b, i>>)]
                           ELSE code[b][i]
  BY <1>1
<1>5. \A b \in Block : \A i \in DOMAIN code[b] : code[b][i] \in InstrSet
  BY <1>3, ElementOfSeq
<1>6. \A b \in Block : \A i \in DOMAIN code[b] :
        /\ code'[b][i] \in InstrSet
        /\ code'[b][i].op = code[b][i].op
        /\ code'[b][i].of = code[b][i].of
        /\ code'[b][i].arg = code[b][i].arg
        /\ code'[b][i].id = IF IsProfilable(code[b][i]) THEN InstructionId(<<b, i>>)
                                                        ELSE code[b][i].id
  <2> SUFFICES ASSUME NEW b \in Block, NEW i \in DOMAIN code[b]
               PROVE  /\ code'[b][i] \in InstrSet
                      /\ code'[b][i].op = code[b][i].op
                      /\ code'[b][i].of = code[b][i].of
                      /\ code'[b][i].arg = code[b][i].arg
                      /\ code'[b][i].id = IF IsProfilable(code[b][i])
                                          THEN InstructionId(<<b, i>>) ELSE code[b][i].id
    OBVIOUS
  <2>1. code[b][i] \in InstrSet /\ InstructionId(<<b, i>>) \in Int
    BY <1>5, NumProfilableIsNumber
  <2>2. code'[b][i] = IF IsProfilable(code[b][i])
                      THEN [code[b][i] EXCEPT !.id = InstructionId(<<b, i>>)]
                      ELSE code[b][i]
    BY <1>4
  <2> QED
    BY <2>1, <2>2 DEF InstrSet
<1>7. code' \in [Block -> Seq(InstrSet)]
  <2>1. ASSUME NEW b \in Block PROVE code'[b] \in Seq(InstrSet)
    <3> DEFINE n == Len(code[b])
               s == code'[b]
    <3>1. n \in Nat /\ s \in [1 .. n -> InstrSet]
      BY <1>1, <1>3, <1>4, <1>6
    <3> HIDE DEF n, s
    <3>2. s \in Seq(InstrSet)
      BY <3>1
    <3> QED
      BY <3>2 DEF s
  <2>2. code' = [b \in Block |-> code'[b]]
    BY <1>1
  <2> QED
    BY <2>1, <2>2
<1>8. OptTypes'
  BY <1>1, <1>2, <1>7 DEF OptTypes, IsRest
<1>9. NumberedLoops' = NumberedLoops /\ Hooked' = Hooked
  BY <1>1 DEF NumberedLoops, Hooked
<1>10. CodeOK'
  <2>1. ASSUME NEW b \in Block PROVE BlockOK(code'[b], b, Hooked, loopId)
    <3> DEFINE c == code[b]
               n == code'[b]
    <3>1. BlockOK(c, b, Hooked, loopId)
      BY DEF CodeOK
    <3>2. DOMAIN n = DOMAIN c
      BY <1>4
    <3>3. \A i \in DOMAIN c : n[i].op = c[i].op /\ n[i].of = c[i].of /\ n[i].arg = c[i].arg
      BY <1>6
    <3> HIDE DEF c, n
    <3>4. BlockOK(n, b, Hooked, loopId)
      BY <3>1, <3>2, <3>3, SameBlock
    <3> QED
      BY <3>4 DEF n
  <2> QED
    BY <1>1, <1>9, <2>1 DEF CodeOK
<1>11. ran' \notin {<<>>, <<"count">>}
  BY <1>2
<1>12. CountedFirst' => CountedFirst
  BY <1>2 DEF CountedFirst
<1>13. Positions(source)' = Positions(source)
  BY <1>1 DEF Positions
<1>14. CountedFirst' =>
         /\ counted' = Cardinality(Positions(source)')
         /\ \A j \in 1 .. NumberedLoops' : loopId'[LoopOrder[j]] = counted' + (j - 1)
  BY <1>1, <1>9, <1>12, <1>13 DEF NumbersOK
<1>15. InOrder' => ran = <<"count">>
  <2> SUFFICES ASSUME InOrder' PROVE ran = <<"count">>
    OBVIOUS
  <2>1. CountedFirst
    BY <1>2, <1>12 DEF InOrder, CountedFirst
  <2>2. ran'[2] = "profile"
    BY DEF InOrder
  <2>3. Len(ran) = 1
    <3> SUFFICES ASSUME Len(ran) >= 2 PROVE FALSE
      BY <1>2, <2>1 DEF CountedFirst
    <3>1. ran[2] = "profile" /\ 2 \in DOMAIN ran
      BY <1>2, <2>2
    <3> QED
      BY <1>1, <3>1 DEF Ran
  <2>4. ran \in Seq({"count", "profile", "loops", "init"}) /\ ran[1] = "count"
    BY <2>1 DEF OptTypes, CountedFirst
  <2> QED
    BY <2>3, <2>4
<1>16. ASSUME InOrder', NEW b \in Block, NEW i \in DOMAIN code[b]
       PROVE  NumberedRight(code[b][i])'
  <2>1. code = [d \in Block |-> Original(d)] /\ source \in [Block -> Seq(Kind)]
    BY <1>15, <1>16 DEF NumbersOK, OptTypes
  <2>2. /\ i = 1 => code[b][i].op = "other"
        /\ i /= 1 => /\ code[b][i].op \in Kind
                     /\ <<b, i - 1>> \in Positions(source)
                     /\ code[b][i].of = <<b, i - 1>>
                     /\ InstructionId(<<b, i>>) = LampId(<<b, i - 1>>)
    BY <2>1, OriginalNumbers
  <2>3. code[b][i].id = NotHooked
    <3>1. code[b] = Original(b)
      BY <2>1
    <3>2. Original(b)[1].id = NotHooked
      BY <2>1, OriginalIs DEF Instr
    <3>3. CASE i /= 1
      <4>1. i - 1 \in 1 .. Len(source[b]) /\ (i - 1) + 1 = i
        BY <1>3, <2>1, <3>1, <3>3, OriginalIs
      <4>2. Original(b)[(i - 1) + 1] = Instr(source[b][i - 1], 0, <<b, i - 1>>)
        BY <2>1, <4>1, OriginalIs
      <4> QED
        BY <3>1, <4>1, <4>2 DEF Instr
    <3> QED
      BY <3>1, <3>2, <3>3
  <2>4. \A k : LampId(k)' = LampId(k)
    BY <1>1 DEF LampId, Positions
  <2>5. CASE i = 1
    BY <1>6, <2>2, <2>3, <2>5 DEF NumberedRight, IsProfilable, ExternalCalls, Kind
  <2>6. CASE i /= 1
    <3>1. IsProfilable(code[b][i]) /\ code[b][i].op \in Kind
      BY <2>2, <2>6 DEF IsProfilable, ExternalCalls, Kind
    <3>2. /\ code'[b][i].id = InstructionId(<<b, i>>)
          /\ code'[b][i].op \in Kind
          /\ code'[b][i].of = <<b, i - 1>>
      BY <1>6, <2>2, <2>6, <3>1
    <3> QED
      BY <1>13, <2>2, <2>4, <2>6, <3>2 DEF NumberedRight
  <2> QED
    BY <2>5, <2>6
<1>17. NumbersOK'
  BY <1>4, <1>11, <1>14, <1>16 DEF NumbersOK
<1> QED
  BY <1>8, <1>10, <1>17

LEMMA LoopProfilerKeeps ==
  ASSUME OptInv, LampLoopProfiler
  PROVE  OptInv'
<1> USE DEF OptInv
<1> DEFINE l == Head(toHook)
           number == counted + NumberedLoops
<1>1. /\ toHook /= <<>> /\ Ran("count")
      /\ loopId' = [loopId EXCEPT ![l] = number]
      /\ code' = [b \in Block |->
                    HooksInFront(b, l) \o code[b] \o HooksBehind(b, l, number)]
      /\ toHook' = Tail(toHook)
      /\ ran' = IF Ran("loops") THEN ran ELSE Append(ran, "loops")
      /\ source' = source /\ counted' = counted
  BY DEF LampLoopProfiler
<1>2. /\ NumberedLoops \in Nat /\ NumberedLoops + 1 \in 1 .. Len(LoopOrder)
      /\ l = LoopOrder[NumberedLoops + 1] /\ l \in Loop
      /\ IsRest(toHook') /\ NumberedLoops' = NumberedLoops + 1
  <2>1. IsRest(toHook)
    BY DEF OptTypes
  <2>2. /\ NumberedLoops \in Nat /\ NumberedLoops + 1 \in 1 .. Len(LoopOrder)
        /\ Head(toHook) = LoopOrder[NumberedLoops + 1] /\ Head(toHook) \in Loop
        /\ IsRest(Tail(toHook)) /\ Len(LoopOrder) - Len(Tail(toHook)) = NumberedLoops + 1
    BY <1>1, <2>1, RestShrinks DEF NumberedLoops
  <2> QED
    BY <1>1, <2>2 DEF NumberedLoops
<1>3. number \in Nat
  BY <1>2 DEF OptTypes
<1> HIDE DEF l, number
<1>4. Hooked' = Hooked \cup {l} /\ l \notin Hooked
  <2> DEFINE n == NumberedLoops
  <2>1. n \in Nat /\ n + 1 \in 1 .. Len(LoopOrder) /\ l = LoopOrder[n + 1]
    BY <1>2
  <2>2. Hooked = {LoopOrder[j] : j \in 1 .. n} /\ Hooked' = {LoopOrder[j] : j \in 1 .. n + 1}
    BY <1>2 DEF Hooked
  <2> HIDE DEF n
  <2>3. 1 .. n + 1 = (1 .. n) \cup {n + 1}
    BY <2>1
  <2>4. Hooked' = Hooked \cup {l}
    BY <2>1, <2>2, <2>3
  <2>5. \A j \in 1 .. n : j \in 1 .. Len(LoopOrder) /\ j /= n + 1
    BY <2>1, OrderIsInjective
  <2>6. l \notin Hooked
    BY <2>1, <2>2, <2>5, OrderIsInjective
  <2> QED
    BY <2>4, <2>6
<1>5. ASSUME NEW b \in Block
      PROVE  /\ code'[b] \in Seq(InstrSet)
             /\ BlockOK(code'[b], b, Hooked \cup {l}, loopId')
             /\ Extends(code'[b], code[b])
  <2>1. code'[b] = HooksInFront(b, l) \o code[b] \o HooksBehind(b, l, number)
    BY <1>1
  <2>2. code[b] \in Seq(InstrSet) /\ loopId \in [Loop -> Nat] /\ BlockOK(code[b], b, Hooked, loopId)
    BY DEF OptTypes, CodeOK
  <2> DEFINE c == code[b]
             n == code'[b]
             new == loopId'
             H == Hooked
             ids == loopId
  <2>3. /\ c \in Seq(InstrSet) /\ BlockOK(c, b, H, ids) /\ ids \in [Loop -> Nat]
        /\ n = HooksInFront(b, l) \o c \o HooksBehind(b, l, number)
        /\ new = [ids EXCEPT ![l] = number]
        /\ l \in Loop /\ number \in Nat /\ l \notin H
    BY <1>1, <1>2, <1>3, <1>4, <2>1, <2>2
  <2> HIDE DEF c, n, new, H, ids
  <2>4. n \in Seq(InstrSet) /\ BlockOK(n, b, H \cup {l}, new) /\ Extends(n, c)
    BY <2>3, HookedOneMore
  <2> QED
    BY <2>4 DEF c, n, new, H
<1>6. Len(ran) \in Nat /\ DOMAIN ran = 1 .. Len(ran) /\ Len(ran) >= 1
      /\ ran' \in Seq({"count", "profile", "loops", "init"})
      /\ Len(ran') \in Nat /\ Len(ran') >= Len(ran)
      /\ \A i \in 1 .. Len(ran) : ran'[i] = ran[i]
      /\ Len(ran') >= 2 /\ (Len(ran) = 1 => ran'[2] /= "profile")
  <2>1. ran \in Seq({"count", "profile", "loops", "init"})
    BY DEF OptTypes
  <2>2. Len(ran) \in Nat /\ DOMAIN ran = 1 .. Len(ran)
    BY <2>1, LenProperties
  <2>3. PICK i \in DOMAIN ran : ran[i] = "count"
    BY <1>1 DEF Ran
  <2>4. CASE Ran("loops")
    <3>1. PICK j \in DOMAIN ran : ran[j] = "loops"
      BY <2>4 DEF Ran
    <3>2. i /= j
      BY <2>3, <3>1
    <3>3. Len(ran) >= 2
      BY <2>2, <3>2
    <3> QED
      BY <1>1, <2>1, <2>2, <2>4, <3>3
  <2>5. CASE ~Ran("loops")
    <3>1. ran' = Append(ran, "loops")
      BY <1>1, <2>5
    <3>2. /\ ran' \in Seq({"count", "profile", "loops", "init"})
          /\ Len(ran') = Len(ran) + 1
          /\ \A k \in 1 .. Len(ran) : ran'[k] = ran[k]
          /\ ran'[Len(ran) + 1] = "loops"
      BY <3>1, RanBefore
    <3> QED
      BY <2>2, <3>2
  <2> QED
    BY <2>4, <2>5
<1>7. OptTypes'
  <2>1. code' = [b \in Block |-> code'[b]]
    BY <1>1
  <2>2. code' \in [Block -> Seq(InstrSet)]
    BY <1>5, <2>1
  <2>3. loopId' \in [Loop -> Nat]
    BY <1>1, <1>3 DEF OptTypes
  <2> QED
    BY <1>1, <1>2, <1>6, <2>2, <2>3 DEF OptTypes, IsRest
<1>8. CodeOK'
  BY <1>4, <1>5 DEF CodeOK
<1>9. ran' \notin {<<>>, <<"count">>}
  BY <1>6
<1>10. CountedFirst' => CountedFirst
  BY <1>6 DEF CountedFirst
<1>11. CountedFirst' =>
         /\ counted' = Cardinality(Positions(source)')
         /\ \A j \in 1 .. NumberedLoops' : loopId'[LoopOrder[j]] = counted' + (j - 1)
  <2> SUFFICES ASSUME CountedFirst'
               PROVE  /\ counted' = Cardinality(Positions(source)')
                      /\ \A j \in 1 .. NumberedLoops' : loopId'[LoopOrder[j]] = counted' + (j - 1)
    OBVIOUS
  <2>1. /\ counted = Cardinality(Positions(source))
        /\ \A j \in 1 .. NumberedLoops : loopId[LoopOrder[j]] = counted + (j - 1)
    BY <1>10 DEF NumbersOK
  <2>2. Positions(source)' = Positions(source)
    BY <1>1 DEF Positions
  <2>3. ASSUME NEW j \in 1 .. NumberedLoops'
        PROVE  loopId'[LoopOrder[j]] = counted' + (j - 1)
    <3>1. /\ j \in 1 .. Len(LoopOrder) /\ LoopOrder[j] \in Loop
          /\ j \in 1 .. NumberedLoops \/ j = NumberedLoops + 1
      BY <1>2, OrderIsInjective
    <3>2. CASE j = NumberedLoops + 1
      <4>1. LoopOrder[j] = l
        BY <1>2, <3>2
      <4>2. loopId'[l] = number
        BY <1>1, <1>2 DEF OptTypes
      <4>3. number = counted + (j - 1)
        BY <1>2, <3>2 DEF number, OptTypes
      <4> QED
        BY <1>1, <4>1, <4>2, <4>3
    <3>3. CASE j \in 1 .. NumberedLoops
      <4>1. j /= NumberedLoops + 1
        BY <1>2, <3>3
      <4>2. LoopOrder[j] /= l
        BY <1>2, <3>1, <4>1, OrderIsInjective
      <4>3. loopId'[LoopOrder[j]] = loopId[LoopOrder[j]]
        BY <1>1, <3>1, <4>2 DEF OptTypes
      <4> QED
        BY <1>1, <2>1, <3>3, <4>3
    <3> QED
      BY <3>1, <3>2, <3>3
  <2> QED
    BY <1>1, <2>1, <2>2, <2>3
<1>12. InOrder' => InOrder
  <2> SUFFICES ASSUME InOrder' PROVE InOrder
    OBVIOUS
  <2>1. Len(ran) /= 1
    BY <1>6 DEF InOrder
  <2>2. Len(ran) >= 2 /\ 1 \in 1 .. Len(ran) /\ 2 \in 1 .. Len(ran)
    BY <1>6, <2>1
  <2> QED
    BY <1>6, <2>2 DEF InOrder
<1>13. \A k : LampId(k)' = LampId(k)
  BY <1>1 DEF LampId, Positions
<1>14. ASSUME InOrder', NEW b \in Block, NEW i \in DOMAIN code'[b]
       PROVE  NumberedRight(code[b][i])'
  <2>1. Positions(source)' = Positions(source)
    BY <1>1 DEF Positions
  <2>2. CASE code'[b][i].id = NotHooked /\ code'[b][i].op \notin Kind
    BY <2>2 DEF NumberedRight
  <2>3. CASE \E j \in DOMAIN code[b] : code'[b][i] = code[b][j]
    <3>1. PICK j \in DOMAIN code[b] : code'[b][i] = code[b][j]
      BY <2>3
    <3>2. NumberedRight(code[b][j])
      BY <1>12, <1>14 DEF NumbersOK
    <3> QED
      BY <1>13, <2>1, <3>1, <3>2 DEF NumberedRight
  <2> QED
    BY <1>5, <2>2, <2>3 DEF Extends
<1>15. NumbersOK'
  BY <1>9, <1>11, <1>14 DEF NumbersOK
<1> QED
  BY <1>7, <1>8, <1>15

LEMMA InitKeeps ==
  ASSUME OptInv, LampInit
  PROVE  OptInv'
<1> USE DEF OptInv
<1> DEFINE h == Instr("LAMP_init", counted, <<>>)
<1>1. /\ Ran("count") /\ ran' = Append(ran, "init")
      /\ code' = [code EXCEPT ![1] = <<h>> \o @]
      /\ source' = source /\ counted' = counted /\ toHook' = toHook /\ loopId' = loopId
  BY DEF LampInit
<1>2. /\ ran' \in Seq({"count", "profile", "loops", "init"})
      /\ Len(ran) \in Nat /\ Len(ran') = Len(ran) + 1 /\ DOMAIN ran = 1 .. Len(ran)
      /\ \A i \in 1 .. Len(ran) : ran'[i] = ran[i]
      /\ ran'[Len(ran) + 1] = "init"
      /\ ran' /= <<>>
      /\ ran' = <<"count">> => ran = <<>>
  BY <1>1, RanBefore
<1>3. Len(ran) >= 1
  BY <1>1, <1>2 DEF Ran
<1>4. /\ h \in InstrSet /\ h.op = "LAMP_init" /\ h.id = NotHooked
  BY DEF Instr, InstrSet, Op, ExternalCalls, Tag, NotHooked, OptTypes
<1> HIDE DEF h
<1>5. 1 \in Block
  BY Function DEF Block
<1>6. code'[1] = <<h>> \o code[1] /\ \A b \in Block \ {1} : code'[b] = code[b]
  BY <1>1, <1>5 DEF OptTypes
<1>7. ASSUME NEW b \in Block
      PROVE  /\ code'[b] \in Seq(InstrSet)
             /\ BlockOK(code'[b], b, Hooked, loopId)
             /\ Extends(code'[b], code[b])
  <2>1. code[b] \in Seq(InstrSet) /\ BlockOK(code[b], b, Hooked, loopId)
    BY DEF OptTypes, CodeOK
  <2>2. CASE b /= 1
    BY <1>6, <2>1, <2>2 DEF Extends
  <2>3. CASE b = 1
    <3> DEFINE c == code[b]
               n == code'[b]
               one == <<h>>
    <3>1. one \in Seq(InstrSet) /\ Len(one) = 1 /\ DOMAIN one = {1} /\ one[1] = h
      BY <1>4
    <3>2. c \in Seq(InstrSet) /\ n = one \o c
      BY <1>6, <2>1, <2>3
    <3> HIDE DEF c, n, one
    <3>3. /\ n \in Seq(InstrSet) /\ Len(n) = 1 + Len(c)
          /\ \A i \in 1 .. 1 + Len(c) : n[i] = IF i <= 1 THEN one[i] ELSE c[i - 1]
      <4>1. /\ one \o c \in Seq(InstrSet) /\ Len(one \o c) = Len(one) + Len(c)
            /\ \A i \in 1 .. Len(one) + Len(c) :
                 (one \o c)[i] = IF i <= Len(one) THEN one[i] ELSE c[i - Len(one)]
        <5>1. one \in Seq(InstrSet) /\ c \in Seq(InstrSet)
          BY <3>1, <3>2
        <5> QED
          BY <5>1, ConcatProperties
      <4> QED
        BY <3>1, <3>2, <4>1
    <3>4. /\ Len(c) \in Nat /\ DOMAIN c = 1 .. Len(c) /\ DOMAIN n = 1 .. 1 + Len(c)
      BY <3>2, <3>3, LenProperties
    <3>5. \A i \in DOMAIN n :
            \/ i = 1 /\ n[i] = h
            \/ i \in Nat /\ i > 1 /\ i - 1 \in DOMAIN c /\ n[i] = c[i - 1]
      BY <3>1, <3>3, <3>4
    <3>6. \A i \in DOMAIN c : i + 1 \in DOMAIN n /\ n[i + 1] = c[i]
      <4> SUFFICES ASSUME NEW i \in DOMAIN c PROVE i + 1 \in DOMAIN n /\ n[i + 1] = c[i]
        OBVIOUS
      <4>1. i + 1 \in 1 .. 1 + Len(c) /\ ~(i + 1 <= 1) /\ (i + 1) - 1 = i
        BY <3>4
      <4>2. n[i + 1] = c[(i + 1) - 1]
        BY <3>3, <4>1
      <4> QED
        BY <3>4, <4>1, <4>2
    <3>7. h.op \notin HookName \cup Middle
      BY <1>4 DEF HookName, Leading, Middle, Kind
    <3>8. BlockOK(c, b, Hooked, loopId)
      BY <2>1 DEF c
    <3>9. HooksPlaced(n, b, Hooked)
      <4>1. ASSUME NEW name \in HookName, NEW l \in Loop
            PROVE  HasHook(n, name, l) <=> HasHook(c, name, l)
        BY <3>5, <3>6, <3>7 DEF HasHook
      <4> QED
        BY <3>8, <4>1 DEF BlockOK, HooksPlaced
    <3>10. HooksTagged(n) /\ HooksNumbered(n, loopId)
      BY <3>5, <3>7, <3>8 DEF BlockOK, HooksTagged, HooksNumbered, HookName
    <3>11. HooksOnce(n)
      <4> SUFFICES ASSUME NEW i \in DOMAIN n, NEW j \in DOMAIN n,
                          n[i].op \in HookName, n[j].op = n[i].op, n[j].of = n[i].of
                   PROVE  i = j
        BY DEF HooksOnce
      <4>1. /\ i \in Nat /\ i - 1 \in DOMAIN c /\ n[i] = c[i - 1]
            /\ j \in Nat /\ j - 1 \in DOMAIN c /\ n[j] = c[j - 1]
        BY <3>5, <3>7
      <4>2. i - 1 = j - 1
        BY <3>8, <4>1 DEF BlockOK, HooksOnce
      <4> QED
        BY <4>1, <4>2
    <3>12. HooksOrdered(n)
      <4> SUFFICES ASSUME NEW i \in DOMAIN n, NEW j \in DOMAIN n, i < j,
                          n[i].op \in HookName \cup Middle
                   PROVE  /\ n[i].op \in Middle => n[j].op \notin Leading
                          /\ n[i].op = "LAMP_loop_invocation" =>
                               n[j].op \notin Leading \cup Middle
        BY DEF HooksOrdered, HookName
      <4>1. i \in Nat /\ i > 1 /\ i - 1 \in DOMAIN c /\ n[i] = c[i - 1]
        BY <3>5, <3>7
      <4>2. j \in Nat /\ j - 1 \in DOMAIN c /\ n[j] = c[j - 1]
        BY <3>5, <4>1
      <4>3. i - 1 < j - 1
        BY <4>1, <4>2
      <4> QED
        BY <3>8, <4>1, <4>2, <4>3 DEF BlockOK, HooksOrdered
    <3>13. BlockOK(n, b, Hooked, loopId)
      BY <3>9, <3>10, <3>11, <3>12 DEF BlockOK
    <3>14. Extends(n, c)
      BY <1>4, <3>5, <3>7 DEF Middle, Extends
    <3> QED
      BY <3>3, <3>13, <3>14 DEF n, c
  <2> QED
    BY <2>2, <2>3
<1>8. code' \in [Block -> Seq(InstrSet)]
  <2>1. code' \in [Block -> {code'[b] : b \in Block}]
    BY <1>1 DEF OptTypes
  <2> QED
    BY <1>7, <2>1
<1>9. OptTypes'
  BY <1>1, <1>2, <1>8 DEF OptTypes, IsRest
<1>10. NumberedLoops' = NumberedLoops /\ Hooked' = Hooked
  BY <1>1 DEF NumberedLoops, Hooked
<1>11. CodeOK'
  BY <1>1, <1>7, <1>10 DEF CodeOK
<1>12. ran' \notin {<<>>, <<"count">>}
  BY <1>2, <1>3
<1>13. CountedFirst' => CountedFirst
  BY <1>2, <1>3 DEF CountedFirst
<1>14. InOrder' => InOrder
  <2> SUFFICES ASSUME InOrder' PROVE InOrder
    OBVIOUS
  <2>1. Len(ran) /= 1
    BY <1>2 DEF InOrder
  <2>2. Len(ran) >= 2 /\ 1 \in 1 .. Len(ran) /\ 2 \in 1 .. Len(ran)
    BY <1>2, <1>3, <2>1
  <2> QED
    BY <1>2, <2>2 DEF InOrder
<1>15. Positions(source)' = Positions(source)
  BY <1>1 DEF Positions
<1>16. \A k : LampId(k)' = LampId(k)
  BY <1>1 DEF LampId, Positions
<1>17. ASSUME InOrder', NEW b \in Block, NEW i \in DOMAIN code'[b]
       PROVE  NumberedRight(code[b][i])'
  <2>1. CASE code'[b][i].id = NotHooked /\ code'[b][i].op \notin Kind
    BY <2>1 DEF NumberedRight
  <2>2. CASE \E j \in DOMAIN code[b] : code'[b][i] = code[b][j]
    <3>1. PICK j \in DOMAIN code[b] : code'[b][i] = code[b][j]
      BY <2>2
    <3>2. NumberedRight(code[b][j])
      BY <1>14, <1>17 DEF NumbersOK
    <3> QED
      BY <1>15, <1>16, <3>1, <3>2 DEF NumberedRight
  <2> QED
    BY <1>7, <2>1, <2>2 DEF Extends
<1>18. CountedFirst' =>
         /\ counted' = Cardinality(Positions(source)')
         /\ \A j \in 1 .. NumberedLoops' : loopId'[LoopOrder[j]] = counted' + (j - 1)
  BY <1>1, <1>10, <1>13, <1>15 DEF NumbersOK
<1>19. NumbersOK'
  BY <1>12, <1>17, <1>18 DEF NumbersOK
<1> QED
  BY <1>9, <1>11, <1>19

LEMMA OptStep ==
  ASSUME OptInv, [Next]_vars
  PROVE  OptInv'
<1>1. CASE OptNext
  BY <1>1, CountKeeps, ProfilerKeeps, LoopProfilerKeeps, InitKeeps DEF OptNext
<1>2. CASE UNCHANGED optVars
  BY <1>2, OptKept
<1>3. OptNext \/ UNCHANGED optVars
  <2>1. CASE LoadNext
    BY <2>1 DEF LoadNext
  <2>2. CASE \E b \in Block : Jump(b)
    BY <2>2 DEF Jump
  <2>3. CASE LoopInvocation \/ LoopIterationBegin \/ LoopExit \/ Initialize \/ Skip
    BY <2>3 DEF LoopInvocation, LoopIterationBegin, LoopExit, Initialize, Skip, Advance
  <2>4. CASE Load \/ AccessThrows \/ Store \/ ExternalCall \/ Finish
    BY <2>4 DEF Load, AccessThrows, Store, ExternalCall, Finish, Advance
  <2>5. CASE Run \/ NotRun \/ UNCHANGED vars
    BY <2>5 DEF Run, NotRun, vars
  <2> QED
    BY <2>1, <2>2, <2>3, <2>4, <2>5 DEF Next
<1> QED
  BY <1>1, <1>2, <1>3

-----------------------------------------------------------------------------
(* The control flow.                                                       *)

Around(b) == {l \in Loop : b \in Body[l]}
Left(b) == {l \in Loop : b \in Exits(l)}

LEMMA LoopsAreFinite ==
  IsFiniteSet(Loop) /\ \A A \in SUBSET Loop : IsFiniteSet(A) /\ Cardinality(A) \in Nat
<1>1. IsFiniteSet(Loop)
  <2>1. Loop \in SUBSET Block
    BY OrderIsInjective
  <2>2. IsFiniteSet(Block)
    BY Function, FS_Interval DEF Block
  <2> QED
    BY <2>1, <2>2, FS_Subset
<1> QED
  BY <1>1, FS_Subset, FS_CardinalityType

LEMMA Nested ==
  ASSUME NEW l \in Loop, NEW m \in Loop
  PROVE  /\ l \in Body[l] /\ Body[l] \subseteq Block
         /\ \/ l = m
            \/ Body[l] \cap Body[m] = {}
            \/ Body[l] \subseteq Body[m] \ {m}
            \/ Body[m] \subseteq Body[l] \ {l}
BY NaturalLoops

LEMMA ExitsAre ==
  ASSUME NEW l \in Loop, NEW x
  PROVE  x \in Exits(l) <=> x \notin Body[l] /\ \E b \in Body[l] : x \in Succ[b]
BY DEF Exits

LEMMA PredsOfExits ==
  ASSUME NEW l \in Loop, NEW x \in Exits(l), NEW b \in Block, x \in Succ[b]
  PROVE  b \in Body[l]
BY LoopSimplifyForm

LEMMA PredsInside ==
  ASSUME NEW l \in Loop, NEW x \in Body[l], x /= l, NEW b \in Block, x \in Succ[b]
  PROVE  b \in Body[l]
BY NaturalLoops

LEMMA HeaderHasTwo ==
  ASSUME NEW l \in Loop
  PROVE  /\ Preheader[l] \in Block /\ Latch[l] \in Body[l] /\ Preheader[l] \notin Body[l]
         /\ Succ[Preheader[l]] = {l} /\ l \in Succ[Latch[l]]
         /\ \A b \in Block : l \in Succ[b] => b = Preheader[l] \/ b = Latch[l]
<1>1. {b \in Block : l \in Succ[b]} = {Preheader[l], Latch[l]}
  BY LoopSimplifyForm
<1>2. Succ[Preheader[l]] = {l} /\ Preheader[l] \notin Body[l] /\ Latch[l] \in Body[l]
  BY LoopSimplifyForm
<1> QED
  BY <1>1, <1>2

(* The entry is in no loop and behind none.                                *)
LEMMA EntryIsOutside ==
  1 \in Block /\ Around(1) = {} /\ Left(1) = {} /\ 1 \notin Loop
<1>1. 1 \in Block
  BY Function DEF Block
<1>2. ASSUME NEW l \in Loop PROVE 1 \notin Body[l] /\ 1 \notin Exits(l)
  <2>1. \A b \in Body[l] : b \in Block /\ 1 \notin Succ[b]
    BY Nested, Function
  <2>2. 1 \notin Exits(l)
    BY <2>1, ExitsAre
  <2>3. 1 \in Body[l] => \E c \in Body[l] : 1 \in Succ[c]
    BY NaturalLoops
  <2> QED
    BY <2>1, <2>2, <2>3
<1> QED
  BY <1>1, <1>2, Nested DEF Around, Left

(* A header is behind no loop.                                             *)
LEMMA HeadersAreNoExits ==
  ASSUME NEW l \in Loop
  PROVE  Left(l) = {}
<1> SUFFICES ASSUME NEW m \in Loop, l \in Exits(m) PROVE FALSE
  BY DEF Left
<1>1. l \notin Body[m]
  BY ExitsAre
<1>2. Preheader[l] \in Body[m]
  BY HeaderHasTwo, PredsOfExits
<1>3. Latch[l] \in Block
  BY HeaderHasTwo, Nested
<1>4. Latch[l] \in Body[m]
  BY <1>3, HeaderHasTwo, PredsOfExits
<1>5. Body[m] \subseteq Body[l]
  <2>1. l \in Body[l] /\ Latch[l] \in Body[l]
    BY Nested, HeaderHasTwo
  <2> QED
    BY <1>1, <1>4, <2>1, Nested
<1> QED
  BY <1>2, <1>5, HeaderHasTwo

(* The loops around a block by their depth.                                *)
LEMMA AroundByDepth ==
  ASSUME NEW b \in Block
  PROVE  /\ Cardinality(Around(b)) \in Nat
         /\ Len(LoopsAround(b)) = Cardinality(Around(b))
         /\ DOMAIN LoopsAround(b) = 1 .. Cardinality(Around(b))
         /\ \A n \in 1 .. Cardinality(Around(b)) :
              LoopsAround(b)[n] \in Around(b) /\ Depth(LoopsAround(b)[n]) = n
         /\ \A l \in Around(b) :
              Depth(l) \in 1 .. Cardinality(Around(b)) /\ LoopsAround(b)[Depth(l)] = l
         /\ \A l, m \in Around(b) : Depth(l) = Depth(m) => l = m
<1> DEFINE R == Around(b)
           lt == {ml \in R \X R : ml[1] /= ml[2] /\ Body[ml[2]] \subseteq Body[ml[1]]}
           above(l) == {m \in R : <<m, l>> \in lt}
<1>1. R \in SUBSET Loop /\ IsFiniteSet(R) /\ Cardinality(R) \in Nat
  BY LoopsAreFinite DEF Around
<1>2. \A m, l \in R : <<m, l>> \in lt <=> m /= l /\ Body[l] \subseteq Body[m]
  OBVIOUS
<1>3. \A l \in R : above(l) = {m \in R : m /= l /\ Body[l] \subseteq Body[m]}
  OBVIOUS
<1>4. \A l \in R : l \in Loop /\ b \in Body[l]
  BY DEF Around
<1> HIDE DEF R, lt
<1>5. \A l \in R : <<l, l>> \notin lt
  BY <1>2
<1>6. \A l, m \in R : Body[l] = Body[m] => l = m
  BY <1>4, Nested
<1>7. \A p, q, r \in R : <<p, q>> \in lt /\ <<q, r>> \in lt => <<p, r>> \in lt
  <2> SUFFICES ASSUME NEW p \in R, NEW q \in R, NEW r \in R, <<p, q>> \in lt, <<q, r>> \in lt
               PROVE  <<p, r>> \in lt
    OBVIOUS
  <2>1. p /= q /\ Body[q] \subseteq Body[p] /\ Body[r] \subseteq Body[q]
    BY <1>2
  <2>2. Body[r] \subseteq Body[p]
    BY <2>1
  <2>3. ASSUME p = r PROVE FALSE
    <3>1. Body[q] \subseteq Body[p] /\ Body[p] \subseteq Body[q]
      BY <2>1, <2>3
    <3>2. Body[p] = Body[q]
      BY <3>1
    <3> QED
      BY <1>6, <2>1, <3>2
  <2> QED
    BY <1>2, <2>2, <2>3
<1>8. \A q, r \in R : q = r \/ <<q, r>> \in lt \/ <<r, q>> \in lt
  <2> SUFFICES ASSUME NEW q \in R, NEW r \in R, q /= r
               PROVE  <<q, r>> \in lt \/ <<r, q>> \in lt
    OBVIOUS
  <2>1. Body[q] \subseteq Body[r] \/ Body[r] \subseteq Body[q]
    BY <1>4, Nested
  <2> QED
    BY <1>2, <2>1
<1>9. /\ \A l \in R : Cardinality(above(l)) \in 0 .. Cardinality(R) - 1
      /\ \A l, m \in R : Cardinality(above(l)) = Cardinality(above(m)) => l = m
      /\ \A i \in 0 .. Cardinality(R) - 1 : \E l \in R : Cardinality(above(l)) = i
  <2>1. IsRanked(R, lt)
    BY <1>1, <1>5, <1>7, <1>8, Ranked
  <2> QED
    BY <2>1 DEF IsRanked
<1>10. \A l \in R : Depth(l) = Cardinality(above(l)) + 1
  <2> SUFFICES ASSUME NEW l \in R PROVE Depth(l) = Cardinality(above(l)) + 1
    OBVIOUS
  <2> DEFINE A == above(l)
             D == {m \in Loop : Body[l] \subseteq Body[m]}
  <2>1. D = A \cup {l} /\ l \notin A /\ A \in SUBSET Loop
    <3>1. A = {m \in R : m /= l /\ Body[l] \subseteq Body[m]}
      BY <1>3
    <3>2. \A m \in D : m \in R
      BY <1>4 DEF R, Around
    <3> HIDE DEF A
    <3> QED
      BY <1>1, <1>4, <3>1, <3>2
  <2> HIDE DEF A, D
  <2>2. IsFiniteSet(A)
    BY <2>1, LoopsAreFinite
  <2>3. Cardinality(D) = Cardinality(A) + 1
    BY <2>1, <2>2, FS_AddElement
  <2> QED
    BY <2>3 DEF Depth, A, D
<1> HIDE DEF above
<1>11. \A l, m \in R : Depth(l) = Depth(m) => l = m
  <2> SUFFICES ASSUME NEW l \in R, NEW m \in R, Depth(l) = Depth(m) PROVE l = m
    OBVIOUS
  <2>1. Cardinality(above(l)) \in Int /\ Cardinality(above(m)) \in Int
    BY <1>1, <1>9
  <2>2. Cardinality(above(l)) = Cardinality(above(m))
    BY <1>10, <2>1
  <2> QED
    BY <1>9, <2>2
<1>12. \A l \in R : Depth(l) \in 1 .. Cardinality(R)
  BY <1>1, <1>9, <1>10
<1>13. \A n \in 1 .. Cardinality(R) : \E l \in R : Depth(l) = n
  <2> SUFFICES ASSUME NEW n \in 1 .. Cardinality(R) PROVE \E l \in R : Depth(l) = n
    OBVIOUS
  <2>1. n - 1 \in 0 .. Cardinality(R) - 1 /\ (n - 1) + 1 = n
    BY <1>1
  <2>2. PICK l \in R : Cardinality(above(l)) = n - 1
    BY <1>9, <2>1
  <2> QED
    BY <1>10, <2>1, <2>2
<1>14. LoopsAround(b) = [n \in 1 .. Cardinality(R) |-> CHOOSE l \in R : Depth(l) = n]
  BY DEF LoopsAround, R, Around
<1>15. \A n \in 1 .. Cardinality(R) : LoopsAround(b)[n] \in R /\ Depth(LoopsAround(b)[n]) = n
  BY <1>13, <1>14
<1>16. DOMAIN LoopsAround(b) = 1 .. Cardinality(R)
  BY <1>14
<1>17. Len(LoopsAround(b)) = Cardinality(R)
  <2>1. LoopsAround(b) \in [1 .. Cardinality(R) -> R]
    BY <1>14, <1>15
  <2>2. LoopsAround(b) \in Seq(R)
    BY <1>1, <2>1
  <2> QED
    BY <1>1, <1>16, <2>2, LenProperties
<1>18. \A l \in R : LoopsAround(b)[Depth(l)] = l
  BY <1>11, <1>12, <1>15
<1> QED
  BY <1>1, <1>11, <1>12, <1>15, <1>16, <1>17, <1>18 DEF R

(* A header is in no loop within its own.                                  *)
LEMMA HeaderIsInnermost ==
  ASSUME NEW l \in Loop
  PROVE  l \in Around(l) /\ Depth(l) = Cardinality(Around(l))
<1>1. \A m \in Loop : l \in Body[m] => Body[l] \subseteq Body[m]
  <2> SUFFICES ASSUME NEW m \in Loop, l \in Body[m] PROVE Body[l] \subseteq Body[m]
    OBVIOUS
  <2>1. l \in Body[l]
    BY Nested
  <2> QED
    BY <2>1, Nested
<1>2. l \in Body[l]
  BY Nested
<1>3. Around(l) = {m \in Loop : Body[l] \subseteq Body[m]}
  BY <1>1, <1>2 DEF Around
<1> QED
  BY <1>2, <1>3 DEF Around, Depth

Entered(b) == {l \in Loop : b = Preheader[l]}

(* Along an edge loops are left or one is entered.                         *)
LEMMA EdgeLoops ==
  ASSUME NEW b \in Block, NEW c \in Succ[b]
  PROVE  /\ c \in Block
         /\ Left(c) = Around(b) \ Around(c)
         /\ Entered(b) = Around(c) \ Around(b)
         /\ Entered(b) /= {} => Entered(b) = {c} /\ Left(c) = {} /\ c \in Loop
<1>1. c \in Block
  BY Function
<1>2. \A m \in Loop : c \in Exits(m) <=> b \in Body[m] /\ c \notin Body[m]
  <2> SUFFICES ASSUME NEW m \in Loop
               PROVE  c \in Exits(m) <=> b \in Body[m] /\ c \notin Body[m]
    OBVIOUS
  <2>1. c \in Exits(m) => b \in Body[m] /\ c \notin Body[m]
    BY PredsOfExits, ExitsAre
  <2>2. b \in Body[m] /\ c \notin Body[m] => c \in Exits(m)
    BY ExitsAre
  <2> QED
    BY <2>1, <2>2
<1>3. \A m \in Loop : b = Preheader[m] <=> c \in Body[m] /\ b \notin Body[m]
  <2> SUFFICES ASSUME NEW m \in Loop
               PROVE  b = Preheader[m] <=> c \in Body[m] /\ b \notin Body[m]
    OBVIOUS
  <2>1. ASSUME b = Preheader[m] PROVE c \in Body[m] /\ b \notin Body[m]
    <3>1. m \in Body[m]
      BY Nested
    <3>2. Succ[b] = {m} /\ b \notin Body[m]
      BY <2>1, HeaderHasTwo
    <3> QED
      BY <3>1, <3>2
  <2>2. ASSUME c \in Body[m], b \notin Body[m] PROVE b = Preheader[m]
    <3>1. c = m
      BY <2>2, PredsInside
    <3>2. b = Preheader[m] \/ b = Latch[m]
      BY <3>1, HeaderHasTwo
    <3> QED
      BY <2>2, <3>2, HeaderHasTwo
  <2> QED
    BY <2>1, <2>2
<1>4. ASSUME Entered(b) /= {} PROVE Entered(b) = {c} /\ Left(c) = {} /\ c \in Loop
  <2>1. \A m \in Entered(b) : m = c
    <3>1. \A m \in Entered(b) : m \in Loop /\ Succ[b] = {m}
      BY HeaderHasTwo DEF Entered
    <3> QED
      BY <3>1
  <2>2. Entered(b) = {c} /\ c \in Loop
    BY <1>4, <2>1 DEF Entered
  <2> QED
    BY <2>2, HeadersAreNoExits
<1> QED
  BY <1>1, <1>2, <1>3, <1>4 DEF Around, Left, Entered

(* The nests of the two blocks agree where both have a loop.               *)
LEMMA EdgeNests ==
  ASSUME NEW b \in Block, NEW c \in Succ[b]
  PROVE  /\ Cardinality(Around(b)) + Cardinality(Entered(b)) =
              Cardinality(Around(c)) + Cardinality(Left(c))
         /\ Cardinality(Entered(b)) \in Nat /\ Cardinality(Left(c)) \in Nat
         /\ Entered(b) = {} => Cardinality(Entered(b)) = 0
         /\ Entered(b) /= {} => /\ Cardinality(Around(c)) = Cardinality(Around(b)) + 1
                                /\ LoopsAround(c)[Cardinality(Around(c))] = c
         /\ \A n \in 1 .. Cardinality(Around(c)) :
              n <= Cardinality(Around(b)) => LoopsAround(c)[n] = LoopsAround(b)[n]
<1> DEFINE A == Around(b)
           C == Around(c)
           E == Entered(b)
           L == Left(c)
<1>1. /\ c \in Block
      /\ L = A \ C /\ E = C \ A
      /\ E /= {} => E = {c} /\ L = {} /\ c \in Loop
  BY EdgeLoops
<1>2. /\ A \in SUBSET Loop /\ C \in SUBSET Loop /\ E \in SUBSET Loop /\ L \in SUBSET Loop
  BY DEF Around, Entered, Left
<1> HIDE DEF A, C, E, L
<1>3. /\ IsFiniteSet(A) /\ IsFiniteSet(C) /\ IsFiniteSet(E) /\ IsFiniteSet(L)
      /\ Cardinality(A) \in Nat /\ Cardinality(C) \in Nat
      /\ Cardinality(E) \in Nat /\ Cardinality(L) \in Nat
  BY <1>2, LoopsAreFinite
<1>4. E = {} => Cardinality(E) = 0
  BY FS_EmptySet
<1>5. L = {} => Cardinality(L) = 0
  BY FS_EmptySet
<1>6. Cardinality({c}) = 1
  BY FS_Singleton
<1>7. CASE E = {}
  <2>1. C \subseteq A
    BY <1>1, <1>7
  <2>2. A = C \cup L /\ C \cap L = {}
    BY <1>1, <2>1
  <2>3. Cardinality(C \cap L) = 0
    BY <2>2, FS_EmptySet
  <2>4. Cardinality(C \cup L) = Cardinality(C) + Cardinality(L) - Cardinality(C \cap L)
    BY <1>3, FS_Union
  <2>5. Cardinality(A) + Cardinality(E) = Cardinality(C) + Cardinality(L)
    BY <1>3, <1>4, <1>7, <2>2, <2>3, <2>4
  <2>6. ASSUME NEW n \in 1 .. Cardinality(C)
        PROVE  LoopsAround(c)[n] = LoopsAround(b)[n]
    <3>1. LoopsAround(c)[n] \in A /\ Depth(LoopsAround(c)[n]) = n
      BY <1>1, <2>1, AroundByDepth DEF C
    <3> QED
      BY <3>1, AroundByDepth DEF A
  <2> QED
    BY <1>3, <1>4, <1>7, <2>5, <2>6 DEF A, C, E, L
<1>8. CASE E /= {}
  <2>1. C = A \cup {c} /\ c \notin A
    BY <1>1, <1>8
  <2>2. Cardinality(C) = Cardinality(A) + 1
    BY <1>3, <2>1, FS_AddElement
  <2>3. Cardinality(E) = 1 /\ Cardinality(L) = 0
    BY <1>1, <1>5, <1>6, <1>8
  <2>4. ASSUME NEW n \in 1 .. Cardinality(C), n <= Cardinality(A)
        PROVE  LoopsAround(c)[n] = LoopsAround(b)[n]
    <3>1. n \in 1 .. Cardinality(A)
      BY <1>3, <2>4
    <3>2. LoopsAround(b)[n] \in C /\ Depth(LoopsAround(b)[n]) = n
      BY <2>1, <3>1, AroundByDepth DEF A
    <3> QED
      BY <1>1, <3>2, AroundByDepth DEF C
  <2>5. LoopsAround(c)[Cardinality(C)] = c
    <3>1. c \in C /\ Depth(c) = Cardinality(C)
      BY <1>1, <1>8, HeaderIsInnermost DEF C
    <3> QED
      BY <1>1, <3>1, AroundByDepth DEF C
  <2> QED
    BY <1>3, <1>8, <2>2, <2>3, <2>4, <2>5 DEF A, C, E, L
<1> QED
  BY <1>7, <1>8

-----------------------------------------------------------------------------
(* The hooks of a block.                                                   *)

(* Of the block, the exits to come and the invocations that were.          *)
ExitsDue(c, p) == {i \in p .. Len(c) : c[i].op = "LAMP_loop_exit"}
BeginDue(c, p) == \E i \in p .. Len(c) : c[i].op = "LAMP_loop_iteration_begin"
Invoked(c, p) == {i \in 1 .. p - 1 : c[i].op = "LAMP_loop_invocation"}

(* Each hook of a kind is for another loop that belongs there.             *)
LEMMA HooksAreLoops ==
  ASSUME NEW b \in Block, NEW c \in Seq(InstrSet), NEW ids, BlockOK(c, b, Loop, ids),
         NEW name \in HookName
  PROVE  Cardinality({i \in DOMAIN c : c[i].op = name}) =
           Cardinality({l \in Loop : Belongs(name, b, l)})
<1> DEFINE S == {i \in DOMAIN c : c[i].op = name}
           T == {l \in Loop : Belongs(name, b, l)}
           f == [i \in S |-> CHOOSE l \in Loop : c[i].of = <<l>>]
<1>1. IsFiniteSet(T)
  BY LoopsAreFinite
<1>2. ASSUME NEW i \in S
      PROVE  f[i] \in T /\ c[i].of = <<f[i]>>
  <2>1. \E l \in Loop : c[i].of = <<l>>
    BY DEF BlockOK, HooksTagged
  <2>2. f[i] \in Loop /\ c[i].of = <<f[i]>>
    BY <2>1
  <2>3. HasHook(c, name, f[i])
    BY <2>2 DEF HasHook
  <2>4. Belongs(name, b, f[i])
    BY <2>2, <2>3 DEF BlockOK, HooksPlaced
  <2> QED
    BY <2>2, <2>4
<1>3. ASSUME NEW l \in T PROVE \E i \in S : c[i].of = <<l>>
  <2>1. HasHook(c, name, l)
    BY DEF BlockOK, HooksPlaced
  <2> QED
    BY <2>1 DEF HasHook
<1>4. \A i, j \in S : c[i].of = c[j].of => i = j
  BY DEF BlockOK, HooksOnce
<1>5. f \in [S -> T]
  BY <1>2
<1> HIDE DEF f, S, T
<1>6. \A i, j \in S : f[i] = f[j] => i = j
  BY <1>2, <1>4
<1>7. \A l \in T : \E i \in S : f[i] = l
  <2> SUFFICES ASSUME NEW l \in T PROVE \E i \in S : f[i] = l
    OBVIOUS
  <2>1. PICK i \in S : c[i].of = <<l>>
    BY <1>3
  <2>2. <<f[i]>> = <<l>>
    BY <1>2, <2>1
  <2> QED
    BY <2>2
<1>8. f \in Bijection(S, T)
  BY <1>5, <1>6, <1>7 DEF Bijection, Injection, Surjection, IsInjective
<1>9. ExistsBijection(S, T)
  BY <1>8 DEF ExistsBijection
<1>10. IsFiniteSet(S)
  <2>1. S \in SUBSET (1 .. Len(c)) /\ Len(c) \in Nat
    BY LenProperties DEF S
  <2>2. IsFiniteSet(1 .. Len(c))
    BY <2>1, FS_Interval
  <2> QED
    BY <2>1, <2>2, FS_Subset
<1> QED
  BY <1>8, <1>9, <1>10, FS_Bijection DEF S, T

(* What is due when a block begins and what was done when it ends.         *)
LEMMA WholeBlock ==
  ASSUME NEW b \in Block, NEW c \in Seq(InstrSet), NEW ids, BlockOK(c, b, Loop, ids)
  PROVE  /\ Cardinality(ExitsDue(c, 1)) = Cardinality(Left(b))
         /\ BeginDue(c, 1) <=> b \in Loop
         /\ Cardinality(Invoked(c, Len(c) + 1)) = Cardinality(Entered(b))
         /\ ExitsDue(c, Len(c) + 1) = {} /\ Cardinality(ExitsDue(c, Len(c) + 1)) = 0
         /\ ~BeginDue(c, Len(c) + 1)
         /\ Invoked(c, 1) = {} /\ Cardinality(Invoked(c, 1)) = 0
         /\ \A l \in Entered(b) : \E i \in Invoked(c, Len(c) + 1) : c[i].of = <<l>>
<1>1. Len(c) \in Nat /\ DOMAIN c = 1 .. Len(c)
  BY LenProperties
<1>2. (Len(c) + 1) - 1 = Len(c) /\ (Len(c) + 1) .. Len(c) = {} /\ 1 .. 1 - 1 = {}
  BY <1>1
<1>3. /\ ExitsDue(c, 1) = {i \in DOMAIN c : c[i].op = "LAMP_loop_exit"}
      /\ Invoked(c, Len(c) + 1) = {i \in DOMAIN c : c[i].op = "LAMP_loop_invocation"}
      /\ ExitsDue(c, Len(c) + 1) = {} /\ Invoked(c, 1) = {} /\ ~BeginDue(c, Len(c) + 1)
  BY <1>1, <1>2 DEF ExitsDue, Invoked, BeginDue
<1>4. /\ Left(b) = {l \in Loop : Belongs("LAMP_loop_exit", b, l)}
      /\ Entered(b) = {l \in Loop : Belongs("LAMP_loop_invocation", b, l)}
  BY DEF Left, Entered, Belongs
<1>5. /\ "LAMP_loop_exit" \in HookName /\ "LAMP_loop_invocation" \in HookName
      /\ "LAMP_loop_iteration_begin" \in HookName
  BY DEF HookName, Leading
<1>6. /\ Cardinality(ExitsDue(c, 1)) = Cardinality(Left(b))
      /\ Cardinality(Invoked(c, Len(c) + 1)) = Cardinality(Entered(b))
  BY <1>3, <1>4, <1>5, HooksAreLoops
<1>7. BeginDue(c, 1) <=> b \in Loop
  <2>1. \A l \in Loop : Belongs("LAMP_loop_iteration_begin", b, l) <=> b = l
    BY DEF Belongs
  <2>2. ASSUME BeginDue(c, 1) PROVE b \in Loop
    <3>1. PICK i \in DOMAIN c : c[i].op = "LAMP_loop_iteration_begin"
      BY <1>1, <2>2 DEF BeginDue
    <3>2. PICK l \in Loop : c[i].of = <<l>>
      BY <1>5, <3>1 DEF BlockOK, HooksTagged
    <3>3. HasHook(c, "LAMP_loop_iteration_begin", l)
      BY <3>1, <3>2 DEF HasHook
    <3> QED
      BY <1>5, <2>1, <3>3 DEF BlockOK, HooksPlaced
  <2>3. ASSUME b \in Loop PROVE BeginDue(c, 1)
    <3>1. HasHook(c, "LAMP_loop_iteration_begin", b)
      BY <1>5, <2>1, <2>3 DEF BlockOK, HooksPlaced
    <3> QED
      BY <1>1, <3>1 DEF HasHook, BeginDue
  <2> QED
    BY <2>2, <2>3
<1>8. \A l \in Entered(b) : \E i \in Invoked(c, Len(c) + 1) : c[i].of = <<l>>
  <2> SUFFICES ASSUME NEW l \in Entered(b)
               PROVE  \E i \in Invoked(c, Len(c) + 1) : c[i].of = <<l>>
    OBVIOUS
  <2>1. HasHook(c, "LAMP_loop_invocation", l)
    BY <1>4, <1>5 DEF BlockOK, HooksPlaced
  <2> QED
    BY <1>3, <2>1 DEF HasHook
<1>9. Cardinality(ExitsDue(c, Len(c) + 1)) = 0 /\ Cardinality(Invoked(c, 1)) = 0
  BY <1>3, FS_EmptySet
<1> QED
  BY <1>3, <1>6, <1>7, <1>8, <1>9

LEMMA HookSetsFinite ==
  ASSUME NEW c \in Seq(InstrSet), NEW p \in 1 .. Len(c) + 1
  PROVE  /\ IsFiniteSet(ExitsDue(c, p)) /\ Cardinality(ExitsDue(c, p)) \in Nat
         /\ IsFiniteSet(Invoked(c, p)) /\ Cardinality(Invoked(c, p)) \in Nat
<1>1. Len(c) \in Nat
  BY LenProperties
<1>2. /\ ExitsDue(c, p) \in SUBSET (1 .. Len(c)) /\ Invoked(c, p) \in SUBSET (1 .. Len(c))
  BY <1>1 DEF ExitsDue, Invoked
<1>3. IsFiniteSet(1 .. Len(c))
  BY <1>1, FS_Interval
<1> QED
  BY <1>2, <1>3, FS_Subset, FS_CardinalityType

(* One instruction further.                                                *)
Further(c, p) ==
  /\ IF c[p].op = "LAMP_loop_exit"
     THEN Cardinality(ExitsDue(c, p)) = Cardinality(ExitsDue(c, p + 1)) + 1
     ELSE Cardinality(ExitsDue(c, p)) = Cardinality(ExitsDue(c, p + 1))
  /\ IF c[p].op = "LAMP_loop_invocation"
     THEN /\ Cardinality(Invoked(c, p + 1)) = Cardinality(Invoked(c, p)) + 1
          /\ Invoked(c, p + 1) = Invoked(c, p) \cup {p}
     ELSE Invoked(c, p + 1) = Invoked(c, p)
  /\ c[p].op /= "LAMP_loop_iteration_begin" => (BeginDue(c, p + 1) <=> BeginDue(c, p))
  /\ c[p].op = "LAMP_loop_iteration_begin" => BeginDue(c, p)

LEMMA GoesFurther ==
  ASSUME NEW c \in Seq(InstrSet), NEW p \in 1 .. Len(c)
  PROVE  p + 1 \in 1 .. Len(c) + 1 /\ Further(c, p)
<1>1. Len(c) \in Nat /\ p \in Nat
  BY LenProperties
<1>2. p \in 1 .. Len(c) + 1 /\ p + 1 \in 1 .. Len(c) + 1
  BY <1>1
<1>3. /\ p .. Len(c) = {p} \cup ((p + 1) .. Len(c))
      /\ p \notin (p + 1) .. Len(c)
      /\ 1 .. (p + 1) - 1 = (1 .. p - 1) \cup {p}
      /\ p \notin 1 .. p - 1
  BY <1>1
<1>4. IsFiniteSet(ExitsDue(c, p + 1)) /\ IsFiniteSet(Invoked(c, p))
  BY <1>2, HookSetsFinite
<1>5. /\ p \notin ExitsDue(c, p + 1) /\ p \notin Invoked(c, p)
      /\ ExitsDue(c, p) = IF c[p].op = "LAMP_loop_exit" THEN ExitsDue(c, p + 1) \cup {p}
                                                         ELSE ExitsDue(c, p + 1)
      /\ Invoked(c, p + 1) = IF c[p].op = "LAMP_loop_invocation" THEN Invoked(c, p) \cup {p}
                                                                 ELSE Invoked(c, p)
  BY <1>3 DEF ExitsDue, Invoked
<1>6. BeginDue(c, p) <=> c[p].op = "LAMP_loop_iteration_begin" \/ BeginDue(c, p + 1)
  BY <1>3 DEF BeginDue
<1>7. /\ Cardinality(ExitsDue(c, p + 1) \cup {p}) = Cardinality(ExitsDue(c, p + 1)) + 1
      /\ Cardinality(Invoked(c, p) \cup {p}) = Cardinality(Invoked(c, p)) + 1
  BY <1>4, <1>5, FS_AddElement
<1> QED
  BY <1>2, <1>5, <1>6, <1>7 DEF Further

(* The order of the hooks around the program's own instructions.           *)
LEMMA HooksAround ==
  ASSUME NEW b \in Block, NEW c \in Seq(InstrSet), NEW ids, BlockOK(c, b, Loop, ids),
         NEW p \in 1 .. Len(c)
  PROVE  /\ c[p].op \in Leading \cup Middle => Invoked(c, p) = {}
         /\ c[p].op \in Middle => ExitsDue(c, p) = {} /\ ~BeginDue(c, p)
         /\ c[p].op = "LAMP_loop_iteration_begin" =>
              b \in Loop /\ ExitsDue(c, p) = {} /\ ~BeginDue(c, p + 1)
         /\ c[p].op = "LAMP_loop_invocation" =>
              \E l \in Loop : /\ c[p].of = <<l>> /\ c[p].arg = ids[l]
                              /\ \A i \in Invoked(c, p), m \in Loop : c[i].of /= <<m>>
                              /\ \A m \in Loop : c[p].of = <<m>> => m = l
<1>1. Len(c) \in Nat /\ DOMAIN c = 1 .. Len(c) /\ p \in Nat
  BY LenProperties
<1>2. \A i \in 1 .. p - 1 : i \in DOMAIN c /\ i < p /\ i /= p
  BY <1>1
<1>3. \A i \in p .. Len(c) : i \in DOMAIN c /\ (i = p \/ p < i)
  BY <1>1
<1>4. \A i \in (p + 1) .. Len(c) : i \in DOMAIN c /\ p < i /\ i /= p
  BY <1>1
<1>5. c[p].op \in Leading \cup Middle => Invoked(c, p) = {}
  BY <1>2 DEF BlockOK, HooksOrdered, Invoked
<1>6. c[p].op \in Middle => ExitsDue(c, p) = {} /\ ~BeginDue(c, p)
  <2> SUFFICES ASSUME c[p].op \in Middle,
                      NEW i \in p .. Len(c), c[i].op \in Leading
               PROVE  FALSE
    BY DEF ExitsDue, BeginDue, Leading
  <2>1. c[i].op /= c[p].op
    BY DEF Leading, Middle, Kind
  <2> QED
    BY <1>3, <2>1 DEF BlockOK, HooksOrdered
<1>h. HookName = {"LAMP_loop_iteration_begin", "LAMP_loop_exit", "LAMP_loop_invocation"}
  BY DEF HookName, Leading
<1>b. \A i \in DOMAIN c, l \in Loop :
        c[i].op \in HookName /\ c[i].of = <<l>> => Belongs(c[i].op, b, l)
  BY DEF BlockOK, HooksPlaced, HasHook
<1>t. \A i \in DOMAIN c : c[i].op \in HookName => \E l \in Loop : c[i].of = <<l>>
  BY DEF BlockOK, HooksTagged
<1>7. ASSUME c[p].op = "LAMP_loop_iteration_begin"
      PROVE  b \in Loop /\ ExitsDue(c, p) = {} /\ ~BeginDue(c, p + 1)
  <2>1. \A i \in DOMAIN c : c[i].op = "LAMP_loop_iteration_begin" => c[i].of = <<b>> /\ b \in Loop
    BY <1>h, <1>b, <1>t DEF Belongs
  <2>2. b \in Loop /\ c[p].of = <<b>>
    BY <1>1, <1>7, <2>1
  <2>3. ~BeginDue(c, p + 1)
    <3> SUFFICES ASSUME NEW i \in (p + 1) .. Len(c), c[i].op = "LAMP_loop_iteration_begin"
                 PROVE  FALSE
      BY DEF BeginDue
    <3>1. c[i].of = c[p].of
      BY <1>4, <2>1, <2>2
    <3> QED
      BY <1>1, <1>4, <1>7, <1>h, <3>1 DEF BlockOK, HooksOnce
  <2>4. ExitsDue(c, p) = {}
    <3> SUFFICES ASSUME NEW i \in p .. Len(c), c[i].op = "LAMP_loop_exit" PROVE FALSE
      BY DEF ExitsDue
    <3>1. PICK l \in Loop : c[i].of = <<l>>
      BY <1>3, <1>h, <1>t
    <3>2. Belongs("LAMP_loop_exit", b, l)
      BY <1>3, <1>h, <1>b, <3>1
    <3>3. l \in Left(b)
      BY <3>2 DEF Belongs, Left
    <3> QED
      BY <2>2, <3>3, HeadersAreNoExits
  <2> QED
    BY <2>2, <2>3, <2>4
<1>8. ASSUME c[p].op = "LAMP_loop_invocation"
      PROVE  \E l \in Loop : /\ c[p].of = <<l>> /\ c[p].arg = ids[l]
                             /\ \A i \in Invoked(c, p), m \in Loop : c[i].of /= <<m>>
                             /\ \A m \in Loop : c[p].of = <<m>> => m = l
  <2>1. PICK l \in Loop : c[p].of = <<l>>
    BY <1>1, <1>8, <1>h, <1>t
  <2>2. c[p].arg = ids[l]
    BY <1>1, <1>8, <2>1 DEF BlockOK, HooksNumbered
  <2>3. \A m \in Loop : <<m>> = <<l>> => m = l
    OBVIOUS
  <2>4. ASSUME NEW i \in Invoked(c, p), NEW m \in Loop, c[i].of = <<m>> PROVE FALSE
    <3>1. i \in DOMAIN c /\ i /= p /\ c[i].op = "LAMP_loop_invocation"
      BY <1>2 DEF Invoked
    <3>2. Belongs("LAMP_loop_invocation", b, m) /\ Belongs("LAMP_loop_invocation", b, l)
      BY <1>1, <1>8, <1>h, <1>b, <2>1, <2>4, <3>1
    <3>3. b = Preheader[m] /\ b = Preheader[l]
      BY <3>2 DEF Belongs
    <3>4. m = l
      <4>1. Succ[b] = {m} /\ Succ[b] = {l}
        BY <3>3, HeaderHasTwo
      <4> QED
        BY <4>1
    <3> QED
      BY <1>1, <1>8, <1>h, <2>1, <2>4, <3>1, <3>4 DEF BlockOK, HooksOnce
  <2> QED
    BY <2>1, <2>2, <2>3, <2>4
<1> QED
  BY <1>5, <1>6, <1>7, <1>8

-----------------------------------------------------------------------------
(* The run.                                                                *)

LevelSet == [id : 0 .. LoopIdMax, iterations : Nat]

RunTypes ==
  /\ stage \in {"opt", "run", "load", "read", "done", "crashed"}
  /\ at \in Block /\ pos \in 1 .. Len(code[at]) + 1
  /\ trips \in [Loop -> Nat]
  /\ stack \in Seq(LevelSet)
  /\ numCnt \in Nat
  /\ stage = "opt" => at = 1 /\ pos = 1

Base == [id |-> WholeRun, iterations |-> 0]

Level(ids, l, begun) == [id |-> ids[l] % (LoopIdMax + 1), iterations |-> begun]

(* Anywhere in block b, with instructions c: the nest of loops around it,  *)
(* below the loops whose exit hooks are still to come or above which one   *)
(* was invoked already.                                                    *)
StackIs(b, c, p, st, begun, ids) ==
  /\ Len(st) = 1 + Cardinality(Around(b)) + Cardinality(ExitsDue(c, p))
                                          + Cardinality(Invoked(c, p))
  /\ st[1].id = WholeRun
  /\ \A n \in 1 .. Cardinality(Around(b)) :
       st[n + 1] = Level(ids, LoopsAround(b)[n],
                         IF LoopsAround(b)[n] = b /\ BeginDue(c, p)
                         THEN begun[LoopsAround(b)[n]] - 1 ELSE begun[LoopsAround(b)[n]])
  /\ \A i \in Invoked(c, p), l \in Loop : c[i].of = <<l>> => st[Len(st)] = Level(ids, l, 0)

RunInv ==
  /\ stage = "opt" => trips = [l \in Loop |-> 0] /\ stack = <<Base>>
  /\ stage = "run" =>
       /\ toHook = <<>>
       /\ \A l \in Loop : at \notin Body[l] => trips[l] = 0
       /\ StackIs(at, code[at], pos, stack, trips, loopId)

LEMMA SixteenBits ==
  ASSUME NEW n \in Nat
  PROVE  /\ n % (LoopIdMax + 1) \in 0 .. LoopIdMax
         /\ n <= LoopIdMax => n % (LoopIdMax + 1) = n
<1> DEFINE m == LoopIdMax + 1
<1>1. m \in Nat /\ m > 0 /\ 0 .. LoopIdMax = 0 .. m - 1
  BY IdsAssumption
<1>2. n <= LoopIdMax => n < m
  BY IdsAssumption
<1> HIDE DEF m
<1>3. n % m \in 0 .. m - 1 /\ (n < m => n % m = n)
  BY <1>1
<1> QED
  BY <1>1, <1>2, <1>3 DEF m

(* An instruction that moves nothing.                                      *)
LEMMA StackStays ==
  ASSUME NEW b \in Block, NEW c \in Seq(InstrSet), NEW p \in 1 .. Len(c), NEW st, NEW begun,
         NEW ids, StackIs(b, c, p, st, begun, ids), c[p].op \notin HookName
  PROVE  StackIs(b, c, p + 1, st, begun, ids)
<1>1. Further(c, p)
  BY GoesFurther
<1>2. /\ c[p].op /= "LAMP_loop_exit" /\ c[p].op /= "LAMP_loop_invocation"
      /\ c[p].op /= "LAMP_loop_iteration_begin"
  BY DEF HookName, Leading
<1>3. /\ Cardinality(ExitsDue(c, p + 1)) = Cardinality(ExitsDue(c, p))
      /\ Invoked(c, p + 1) = Invoked(c, p)
      /\ BeginDue(c, p + 1) <=> BeginDue(c, p)
  BY <1>1, <1>2 DEF Further
<1> QED
  BY <1>3 DEF StackIs

LEMMA StackGrows ==
  ASSUME NEW b \in Block, NEW c \in Seq(InstrSet), NEW p \in 1 .. Len(c),
         NEW st \in Seq(LevelSet), NEW begun, NEW ids, BlockOK(c, b, Loop, ids),
         StackIs(b, c, p, st, begun, ids), c[p].op = "LAMP_loop_invocation",
         NEW new, new = Append(st, [id |-> c[p].arg % (LoopIdMax + 1), iterations |-> 0])
  PROVE  new \in Seq(LevelSet) /\ StackIs(b, c, p + 1, new, begun, ids)
<1> DEFINE level == [id |-> c[p].arg % (LoopIdMax + 1), iterations |-> 0]
           N == Cardinality(Around(b))
<1>1. Further(c, p)
  BY GoesFurther
<1>2. Cardinality(ExitsDue(c, p)) \in Nat /\ Cardinality(Invoked(c, p)) \in Nat
  <2>1. p \in 1 .. Len(c) + 1
    BY LenProperties
  <2> QED
    BY <2>1, HookSetsFinite
<1>3. level \in LevelSet
  <2>0. c[p] \in InstrSet
    BY ElementOfSeq
  <2>1. c[p].arg \in Nat
    BY <2>0 DEF InstrSet
  <2> QED
    BY <2>1, SixteenBits DEF LevelSet
<1>4. PICK l \in Loop : /\ c[p].of = <<l>> /\ c[p].arg = ids[l]
                        /\ \A i \in Invoked(c, p), m \in Loop : c[i].of /= <<m>>
                        /\ \A m \in Loop : c[p].of = <<m>> => m = l
  BY HooksAround
<1>5. level = Level(ids, l, 0)
  BY <1>4 DEF Level
<1>6. N \in Nat
  BY AroundByDepth
<1> HIDE DEF level
<1>7. /\ new \in Seq(LevelSet) /\ Len(new) = Len(st) + 1 /\ Len(st) \in Nat
      /\ new[Len(st) + 1] = level
      /\ \A n \in 1 .. Len(st) : new[n] = st[n]
  BY <1>3, AppendProperties, LenProperties DEF level
<1>8. /\ Cardinality(ExitsDue(c, p + 1)) = Cardinality(ExitsDue(c, p))
      /\ Cardinality(Invoked(c, p + 1)) = Cardinality(Invoked(c, p)) + 1
      /\ Invoked(c, p + 1) = Invoked(c, p) \cup {p}
      /\ BeginDue(c, p + 1) <=> BeginDue(c, p)
  BY <1>1 DEF Further
<1>9. Len(st) = 1 + N + Cardinality(ExitsDue(c, p)) + Cardinality(Invoked(c, p))
  BY DEF StackIs
<1>10. Len(new) = 1 + N + Cardinality(ExitsDue(c, p + 1)) + Cardinality(Invoked(c, p + 1))
  BY <1>2, <1>6, <1>7, <1>8, <1>9
<1>11. 1 \in 1 .. Len(st) /\ \A n \in 1 .. N : n + 1 \in 1 .. Len(st)
  BY <1>2, <1>6, <1>9
<1>12. new[1].id = WholeRun
  BY <1>7, <1>11 DEF StackIs
<1>13. \A n \in 1 .. N : new[n + 1] = st[n + 1]
  BY <1>7, <1>11
<1>14. \A i \in Invoked(c, p + 1), m \in Loop : c[i].of = <<m>> => new[Len(new)] = Level(ids, m, 0)
  BY <1>4, <1>5, <1>7, <1>8
<1> QED
  BY <1>7, <1>8, <1>10, <1>12, <1>13, <1>14 DEF StackIs

LEMMA StackShrinks ==
  ASSUME NEW b \in Block, NEW c \in Seq(InstrSet), NEW p \in 1 .. Len(c),
         NEW st \in Seq(LevelSet), NEW begun, NEW ids, BlockOK(c, b, Loop, ids),
         StackIs(b, c, p, st, begun, ids), c[p].op = "LAMP_loop_exit",
         NEW new, new = Front(st)
  PROVE  new \in Seq(LevelSet) /\ StackIs(b, c, p + 1, new, begun, ids)
<1> DEFINE N == Cardinality(Around(b))
           X == Cardinality(ExitsDue(c, p))
           Y == Cardinality(ExitsDue(c, p + 1))
<1>1. Further(c, p)
  BY GoesFurther
<1>2. X \in Nat /\ Y \in Nat
  <2>1. p \in 1 .. Len(c) + 1 /\ p + 1 \in 1 .. Len(c) + 1
    BY GoesFurther, LenProperties
  <2> QED
    BY <2>1, HookSetsFinite
<1>3. /\ Invoked(c, p) = {} /\ Invoked(c, p + 1) = {}
      /\ Cardinality(Invoked(c, p)) = 0 /\ Cardinality(Invoked(c, p + 1)) = 0
  <2>1. Invoked(c, p) = {}
    BY HooksAround DEF Leading
  <2> QED
    BY <1>1, <2>1, FS_EmptySet DEF Further
<1>4. X = Y + 1 /\ (BeginDue(c, p + 1) <=> BeginDue(c, p))
  BY <1>1 DEF Further
<1>5. N \in Nat
  BY AroundByDepth
<1>6. Len(st) = 1 + N + X + Cardinality(Invoked(c, p))
  BY DEF StackIs
<1> HIDE DEF N, X, Y
<1>7. Len(st) = 1 + N + X /\ Len(st) \in Nat /\ Len(st) - 1 = 1 + N + Y
  BY <1>2, <1>3, <1>4, <1>5, <1>6
<1>8. /\ new \in Seq(LevelSet) /\ Len(new) = 1 + N + Y
      /\ \A n \in 1 .. 1 + N + Y : new[n] = st[n]
  <2> DEFINE k == Len(st) - 1
  <2>1. k \in Nat /\ k = 1 + N + Y /\ k <= Len(st)
    BY <1>2, <1>5, <1>7
  <2>2. new = SubSeq(st, 1, k)
    BY DEF Front
  <2> HIDE DEF k
  <2>3. new = [n \in 1 .. k |-> st[n]]
    BY <2>1, <2>2
  <2>4. \A n \in 1 .. k : st[n] \in LevelSet
    BY <2>1, <1>7, ElementOfSeq
  <2>5. new \in [1 .. k -> LevelSet]
    BY <2>3, <2>4
  <2>6. new \in Seq(LevelSet) /\ Len(new) = k
    BY <2>1, <2>5
  <2> QED
    BY <2>1, <2>3, <2>6
<1>9. Len(new) = 1 + N + Y + Cardinality(Invoked(c, p + 1))
  BY <1>2, <1>3, <1>5, <1>8
<1>10. 1 \in 1 .. 1 + N + Y /\ \A n \in 1 .. N : n + 1 \in 1 .. 1 + N + Y
  BY <1>2, <1>5
<1>11. new[1] = st[1] /\ \A n \in 1 .. N : new[n + 1] = st[n + 1]
  BY <1>8, <1>10
<1>12. \A i \in Invoked(c, p + 1), m \in Loop : c[i].of = <<m>> => new[Len(new)] = Level(ids, m, 0)
  BY <1>3
<1> QED
  BY <1>4, <1>8, <1>9, <1>11, <1>12 DEF StackIs, N, X, Y

OneMoreIteration(st) == [st EXCEPT ![Len(st)].iterations = @ + 1]

LEMMA StackBegins ==
  ASSUME NEW b \in Block, NEW c \in Seq(InstrSet), NEW p \in 1 .. Len(c),
         NEW st \in Seq(LevelSet), NEW begun \in [Loop -> Nat], NEW ids,
         BlockOK(c, b, Loop, ids),
         StackIs(b, c, p, st, begun, ids), c[p].op = "LAMP_loop_iteration_begin",
         NEW new, new = OneMoreIteration(st)
  PROVE  new \in Seq(LevelSet) /\ StackIs(b, c, p + 1, new, begun, ids)
<1> DEFINE N == Cardinality(Around(b))
<1>1. Further(c, p)
  BY GoesFurther
<1>2. /\ b \in Loop /\ ExitsDue(c, p) = {} /\ Invoked(c, p) = {}
      /\ BeginDue(c, p) /\ ~BeginDue(c, p + 1)
  BY <1>1, HooksAround DEF Leading, Further
<1>3. /\ Cardinality(ExitsDue(c, p)) = 0 /\ Cardinality(ExitsDue(c, p + 1)) = 0
      /\ Cardinality(Invoked(c, p)) = 0 /\ Cardinality(Invoked(c, p + 1)) = 0
      /\ Invoked(c, p + 1) = {}
  <2>1. Cardinality(ExitsDue(c, p + 1)) = Cardinality(ExitsDue(c, p)) /\ Invoked(c, p + 1) = Invoked(c, p)
    BY <1>1 DEF Further
  <2> QED
    BY <1>2, <2>1, FS_EmptySet
<1>4. N \in Nat /\ b \in Around(b) /\ N \in 1 .. N /\ LoopsAround(b)[N] = b
  <2>1. b \in Around(b) /\ Depth(b) = N
    BY <1>2, HeaderIsInnermost
  <2> QED
    BY <2>1, AroundByDepth
<1>5. \A n \in 1 .. N : n /= N => LoopsAround(b)[n] /= b
  <2>1. \A n \in 1 .. N : Depth(LoopsAround(b)[n]) = n
    BY AroundByDepth
  <2> QED
    BY <1>4, <2>1
<1> HIDE DEF N
<1>6. Len(st) = N + 1 /\ DOMAIN st = 1 .. N + 1
  <2>1. Len(st) = 1 + N + 0 + 0
    BY <1>3 DEF StackIs, N
  <2> QED
    BY <1>4, <2>1, LenProperties
<1>7. st[N + 1] = Level(ids, b, begun[b] - 1)
  BY <1>2, <1>4 DEF StackIs, N
<1>8. \A n \in 1 .. N + 1 : st[n] \in LevelSet
  BY <1>6, ElementOfSeq
<1>9. new = [n \in 1 .. N + 1 |-> IF n = N + 1 THEN [st[n] EXCEPT !.iterations = @ + 1] ELSE st[n]]
  <2>1. new = [st EXCEPT ![N + 1] = [st[N + 1] EXCEPT !.iterations = @ + 1]]
    BY <1>6 DEF OneMoreIteration
  <2> QED
    BY <1>6, <2>1
<1>10. N + 1 \in 1 .. N + 1 /\ N + 1 \in Nat
  BY <1>4
<1>11. new \in Seq(LevelSet) /\ Len(new) = N + 1
  <2>0. ASSUME NEW level \in LevelSet PROVE [level EXCEPT !.iterations = @ + 1] \in LevelSet
    <3>1. level.id \in 0 .. LoopIdMax /\ level.iterations \in Nat
      BY DEF LevelSet
    <3>2. [level EXCEPT !.iterations = @ + 1] =
            [id |-> level.id, iterations |-> level.iterations + 1]
      BY DEF LevelSet
    <3>3. level.iterations + 1 \in Nat
      BY <3>1
    <3> QED
      BY <3>1, <3>2, <3>3 DEF LevelSet
  <2>1. \A n \in 1 .. N + 1 : new[n] \in LevelSet
    BY <1>8, <1>9, <2>0
  <2>2. new \in [1 .. N + 1 -> LevelSet]
    BY <1>9, <2>1
  <2> QED
    BY <1>10, <2>2
<1>12. new[N + 1] = Level(ids, b, begun[b])
  <2>1. begun[b] \in Nat /\ (begun[b] - 1) + 1 = begun[b]
    BY <1>2
  <2>2. new[N + 1] = [st[N + 1] EXCEPT !.iterations = @ + 1]
    BY <1>9, <1>10
  <2> QED
    BY <1>7, <2>1, <2>2 DEF Level
<1>13. new[1].id = WholeRun
  <2>1. 1 \in 1 .. N + 1 /\ 1 /= N + 1
    BY <1>4
  <2> QED
    BY <1>9, <2>1 DEF StackIs
<1>14. ASSUME NEW n \in 1 .. N
       PROVE  new[n + 1] = Level(ids, LoopsAround(b)[n],
                                 IF LoopsAround(b)[n] = b /\ BeginDue(c, p + 1)
                                 THEN begun[LoopsAround(b)[n]] - 1 ELSE begun[LoopsAround(b)[n]])
  <2>1. CASE n = N
    BY <1>2, <1>4, <1>12, <2>1
  <2>2. CASE n /= N
    <3>1. n + 1 \in 1 .. N + 1 /\ n + 1 /= N + 1
      BY <1>4, <2>2
    <3>2. new[n + 1] = st[n + 1]
      BY <1>9, <3>1
    <3> QED
      BY <1>2, <1>5, <2>2, <3>2 DEF StackIs, N
  <2> QED
    BY <2>1, <2>2
<1>15. Len(new) = 1 + N + Cardinality(ExitsDue(c, p + 1)) + Cardinality(Invoked(c, p + 1))
  BY <1>3, <1>4, <1>11
<1>16. \A i \in Invoked(c, p + 1), l \in Loop : c[i].of = <<l>> => new[Len(new)] = Level(ids, l, 0)
  BY <1>3
<1> QED
  BY <1>11, <1>13, <1>14, <1>15, <1>16 DEF StackIs, N

(* Before the first instruction.                                           *)
LEMMA StackStarts ==
  ASSUME NEW c \in Seq(InstrSet), NEW begun, NEW ids, BlockOK(c, 1, Loop, ids)
  PROVE  StackIs(1, c, 1, <<Base>>, begun, ids)
<1>1. 1 \in Block /\ Around(1) = {} /\ Left(1) = {}
  BY EntryIsOutside
<1>2. Cardinality({}) = 0
  BY FS_EmptySet
<1>3. /\ Cardinality(ExitsDue(c, 1)) = 0 /\ Invoked(c, 1) = {}
      /\ Cardinality(Invoked(c, 1)) = 0 /\ Cardinality(Around(1)) = 0
  BY <1>1, <1>2, WholeBlock
<1>4. <<Base>>[1].id = WholeRun /\ Len(<<Base>>) = 1
  BY DEF Base
<1> QED
  BY <1>3, <1>4 DEF StackIs

(* The trips when block c is entered.                                      *)
TripsInto(c, begun) ==
  [l \in Loop |-> IF c \notin Body[l] THEN 0 ELSE IF c = l THEN begun[l] + 1 ELSE begun[l]]

(* From the end of a block to the front of the next one.                   *)
LEMMA StackJumps ==
  ASSUME NEW b \in Block, NEW x \in Seq(InstrSet), NEW c \in Succ[b], NEW y \in Seq(InstrSet),
         NEW st \in Seq(LevelSet), NEW begun \in [Loop -> Nat], NEW ids,
         BlockOK(x, b, Loop, ids), BlockOK(y, c, Loop, ids),
         StackIs(b, x, Len(x) + 1, st, begun, ids),
         \A l \in Loop : b \notin Body[l] => begun[l] = 0,
         NEW new, new = TripsInto(c, begun)
  PROVE  /\ new \in [Loop -> Nat]
         /\ \A l \in Loop : c \notin Body[l] => new[l] = 0
         /\ StackIs(c, y, 1, st, new, ids)
<1> DEFINE B == Cardinality(Around(b))
           C == Cardinality(Around(c))
           E == Cardinality(Entered(b))
           L == Cardinality(Left(c))
<1>1. c \in Block
  BY EdgeLoops
<1>2. /\ B \in Nat /\ C \in Nat /\ E \in Nat /\ L \in Nat /\ B + E = C + L
      /\ Entered(b) = {} => E = 0
      /\ Entered(b) /= {} => C = B + 1 /\ LoopsAround(c)[C] = c
      /\ \A n \in 1 .. C : n <= B => LoopsAround(c)[n] = LoopsAround(b)[n]
  BY <1>1, EdgeNests, AroundByDepth
<1>3. /\ Cardinality(ExitsDue(x, Len(x) + 1)) = 0 /\ ~BeginDue(x, Len(x) + 1)
      /\ Cardinality(Invoked(x, Len(x) + 1)) = E
      /\ \A l \in Entered(b) : \E i \in Invoked(x, Len(x) + 1) : x[i].of = <<l>>
  BY WholeBlock
<1>4. /\ Cardinality(ExitsDue(y, 1)) = L /\ (BeginDue(y, 1) <=> c \in Loop)
      /\ Invoked(y, 1) = {} /\ Cardinality(Invoked(y, 1)) = 0
  BY <1>1, WholeBlock
<1>5. \A n \in 1 .. C : LoopsAround(c)[n] \in Loop /\ c \in Body[LoopsAround(c)[n]]
  BY <1>1, AroundByDepth DEF Around
<1>6. /\ Len(st) = 1 + B + 0 + E
      /\ \A n \in 1 .. B : st[n + 1] = Level(ids, LoopsAround(b)[n], begun[LoopsAround(b)[n]])
      /\ \A i \in Invoked(x, Len(x) + 1), l \in Loop : x[i].of = <<l>> => st[Len(st)] = Level(ids, l, 0)
      /\ st[1].id = WholeRun
  BY <1>3 DEF StackIs
<1>7. Entered(b) /= {} => c \in Entered(b) /\ c \in Loop /\ b \notin Body[c]
  <2>1. Entered(b) /= {} => c \in Entered(b) /\ c \in Loop /\ c \notin Around(b)
    BY EdgeLoops
  <2> QED
    BY <2>1 DEF Around
<1> HIDE DEF B, C, E, L
<1>8. Len(st) = 1 + C + L + 0
  BY <1>2, <1>6
<1>9. \A l \in Loop : c \in Body[l] => new[l] = IF c = l THEN begun[l] + 1 ELSE begun[l]
  BY DEF TripsInto
<1>10. \A l \in Loop : c \in Body[l] /\ l = c => new[l] - 1 = begun[l]
  BY <1>9
<1>11. ASSUME NEW n \in 1 .. C
       PROVE  st[n + 1] = Level(ids, LoopsAround(c)[n],
                                IF LoopsAround(c)[n] = c /\ BeginDue(y, 1)
                                THEN new[LoopsAround(c)[n]] - 1 ELSE new[LoopsAround(c)[n]])
  <2> DEFINE l == LoopsAround(c)[n]
  <2>1. l \in Loop /\ c \in Body[l]
    BY <1>5
  <2> HIDE DEF l
  <2>2. (IF l = c /\ BeginDue(y, 1) THEN new[l] - 1 ELSE new[l]) = begun[l]
    <3>1. CASE l = c
      <4>1. BeginDue(y, 1)
        BY <1>4, <2>1, <3>1
      <4>2. new[l] - 1 = begun[l]
        BY <1>10, <2>1, <3>1
      <4> QED
        BY <3>1, <4>1, <4>2
    <3>2. CASE l /= c
      BY <1>9, <2>1, <3>2
    <3> QED
      BY <3>1, <3>2
  <2>3. st[n + 1] = Level(ids, l, begun[l])
    <3>1. CASE n <= B
      <4>1. n \in 1 .. B /\ l = LoopsAround(b)[n]
        BY <1>2, <3>1 DEF l
      <4> QED
        BY <1>6, <4>1
    <3>2. CASE ~(n <= B)
      <4>1. Entered(b) /= {}
        BY <1>2, <3>2
      <4>2. n = C /\ C = B + 1 /\ E = 1 /\ Len(st) = n + 1
        <5>1. n = C /\ C = B + 1
          BY <1>2, <3>2, <4>1
        <5>2. E >= 1
          BY <1>2, <5>1
        <5>3. L = 0
          <6>1. Left(c) = {}
            BY <4>1, EdgeLoops
          <6> QED
            BY <6>1, FS_EmptySet DEF L
        <5> QED
          BY <1>2, <1>8, <5>1, <5>3
      <4>3. l = c
        BY <1>2, <4>1, <4>2 DEF l
      <4>4. begun[c] = 0
        BY <1>7, <4>1
      <4>5. st[Len(st)] = Level(ids, c, 0)
        <5>1. PICK i \in Invoked(x, Len(x) + 1) : x[i].of = <<c>>
          BY <1>3, <1>7, <4>1
        <5> QED
          BY <1>6, <1>7, <4>1, <5>1
      <4> QED
        BY <4>2, <4>3, <4>4, <4>5
    <3> QED
      BY <3>1, <3>2
  <2> QED
    BY <2>2, <2>3 DEF l
<1>12. StackIs(c, y, 1, st, new, ids)
  BY <1>4, <1>6, <1>8, <1>11 DEF StackIs, C, L
<1>13. new \in [Loop -> Nat]
  BY DEF TripsInto
<1>14. \A l \in Loop : c \notin Body[l] => new[l] = 0
  BY DEF TripsInto
<1> QED
  BY <1>12, <1>13, <1>14

(* When the program runs every loop has its hooks.                         *)
LEMMA AllHooked ==
  ASSUME OptInv, toHook = <<>>, NEW b \in Block
  PROVE  /\ code[b] \in Seq(InstrSet) /\ Len(code[b]) \in Nat
         /\ BlockOK(code[b], b, Loop, loopId)
<1>1. code[b] \in Seq(InstrSet)
  BY DEF OptInv, OptTypes
<1>2. Hooked = Loop
  <2>1. NumberedLoops = Len(LoopOrder)
    <3>1. Len(toHook) = 0 /\ Len(LoopOrder) \in Nat
      BY OrderIsInjective
    <3> QED
      BY <3>1 DEF NumberedLoops
  <2> QED
    BY <2>1, OrderIsInjective DEF Hooked, Loop
<1>3. BlockOK(code[b], b, Hooked, loopId)
  BY DEF OptInv, CodeOK
<1> QED
  BY <1>1, <1>2, <1>3, LenProperties

LEMMA RunStart == Init => OptInv /\ RunTypes /\ RunInv
<1> SUFFICES ASSUME Init PROVE OptInv /\ RunTypes /\ RunInv
  OBVIOUS
<1>1. OptInv
  BY OptStart
<1>2. stage = "opt" /\ at = 1 /\ pos = 1 /\ trips = [l \in Loop |-> 0] /\ numCnt = 0
  BY DEF Init, InsertInit, LoadInit, RunInit
<1>3. stack = <<Base>>
  BY DEF Init, RunInit, Base
<1>4. stack \in Seq(LevelSet)
  <2>1. Base \in LevelSet
    BY IdsAssumption DEF Base, LevelSet, WholeRun
  <2> QED
    BY <1>3, <2>1
<1>5. at \in Block /\ pos \in 1 .. Len(code[at]) + 1
  <2>1. 1 \in Block
    BY EntryIsOutside
  <2>2. Len(code[1]) \in Nat
    BY <1>1, <2>1, LenProperties DEF OptInv, OptTypes
  <2> QED
    BY <1>2, <2>1, <2>2
<1>6. trips \in [Loop -> Nat]
  BY <1>2
<1>7. RunTypes
  BY <1>2, <1>4, <1>5, <1>6 DEF RunTypes
<1>8. RunInv
  BY <1>2, <1>3 DEF RunInv
<1> QED
  BY <1>1, <1>7, <1>8

LEMMA Moves ==
  ASSUME OptInv, RunTypes, RunInv, stage = "run", pos <= Len(code[at]),
         UNCHANGED <<stage, optVars, at, trips, numCnt>>, pos' = pos + 1,
         stack' \in Seq(LevelSet), StackIs(at, code[at], pos + 1, stack', trips, loopId)
  PROVE  RunTypes' /\ RunInv'
<1>1. toHook = <<>> /\ at \in Block /\ \A l \in Loop : at \notin Body[l] => trips[l] = 0
  BY DEF RunInv, RunTypes
<1>2. pos + 1 \in 1 .. Len(code[at]) + 1
  <2>1. Len(code[at]) \in Nat
    BY <1>1, AllHooked
  <2> QED
    BY <2>1 DEF RunTypes
<1>3. code' = code /\ toHook' = toHook /\ loopId' = loopId
  BY DEF optVars
<1>4. RunTypes'
  BY <1>2, <1>3 DEF RunTypes
<1>5. StackIs(at', code'[at'], pos', stack', trips', loopId')
  BY <1>3
<1>6. RunInv'
  BY <1>1, <1>3, <1>5 DEF RunInv
<1> QED
  BY <1>4, <1>6

LEMMA Rests ==
  ASSUME OptInv, OptInv', RunTypes,
         UNCHANGED <<at, pos, trips, stack>>, numCnt' \in Nat,
         UNCHANGED code, stage' \in {"load", "read", "done", "crashed"}
  PROVE  RunTypes' /\ RunInv'
BY DEF RunTypes, RunInv

LEMMA RunStep ==
  ASSUME OptInv, OptInv', RunTypes, RunInv, [Next]_vars
  PROVE  RunTypes' /\ RunInv'
<1> DEFINE c == code[at]
<1>1. at \in Block /\ pos \in 1 .. Len(c) + 1 /\ stack \in Seq(LevelSet) /\ trips \in [Loop -> Nat]
      /\ numCnt \in Nat
  BY DEF RunTypes
<1>2. ASSUME stage = "run"
      PROVE  /\ toHook = <<>> /\ c \in Seq(InstrSet) /\ Len(c) \in Nat
             /\ BlockOK(c, at, Loop, loopId)
             /\ StackIs(at, c, pos, stack, trips, loopId)
  BY <1>1, <1>2, AllHooked DEF RunInv
<1> HIDE DEF c
<1>3. ASSUME NEW op, Executes(op)
      PROVE  stage = "run" /\ pos \in 1 .. Len(c) /\ pos <= Len(c) /\ c[pos].op = op
  <2>1. stage = "run" /\ pos <= Len(c) /\ c[pos].op = op
    BY <1>3 DEF Executes, Item, c
  <2> QED
    BY <1>1, <1>2, <2>1
<1>4. ASSUME NEW op, Executes(op), op \notin HookName, Advance,
             UNCHANGED <<trips, stack>>
      PROVE  RunTypes' /\ RunInv'
  <2>1. StackIs(at, c, pos + 1, stack, trips, loopId)
    BY <1>1, <1>2, <1>3, <1>4, StackStays
  <2> QED
    BY <1>1, <1>3, <1>4, <2>1, Moves DEF Advance, loadVars, c
<1>5. CASE OptNext /\ UNCHANGED <<loadVars, runVars>>
  <2>1. stage = "opt"
    BY <1>5 DEF OptNext, CountInstrs, LampProfiler, LampLoopProfiler, LampInit, BetweenPasses
  <2>2. stage' = "opt" /\ at' = 1 /\ pos' = 1 /\ trips' = trips /\ stack' = stack /\ numCnt' = numCnt
    BY <1>5, <2>1 DEF OptNext, loadVars, runVars, RunTypes
  <2>3. Len(code'[1]) \in Nat
    BY EntryIsOutside, LenProperties DEF OptInv, OptTypes
  <2>4. RunTypes'
    BY <1>1, <2>2, <2>3, EntryIsOutside DEF RunTypes
  <2>5. RunInv'
    BY <2>1, <2>2 DEF RunInv
  <2> QED
    BY <2>4, <2>5
<1>6. CASE Run
  <2>1. /\ stage = "opt" /\ stage' = "run" /\ toHook = <<>>
        /\ at = 1 /\ pos = 1 /\ stack = <<Base>> /\ trips = [l \in Loop |-> 0]
    BY <1>6 DEF Run, RunTypes, RunInv
  <2>2. UNCHANGED <<at, pos, trips, stack, code, toHook, loopId, numCnt>>
    BY <1>6 DEF Run, optVars, runVars, loadVars
  <2>3. code[1] \in Seq(InstrSet) /\ BlockOK(code[1], 1, Loop, loopId)
    BY <2>1, EntryIsOutside, AllHooked
  <2>4. StackIs(1, code[1], 1, <<Base>>, trips, loopId)
    BY <2>3, StackStarts
  <2>5. RunTypes'
    BY <1>1, <2>1, <2>2 DEF RunTypes, c
  <2>6. RunInv'
    BY <2>1, <2>2, <2>4 DEF RunInv
  <2> QED
    BY <2>5, <2>6
<1>7. CASE NotRun
  BY <1>1, <1>7, Rests DEF NotRun, optVars, runVars, loadVars
<1>8. CASE \E b \in Block : Jump(b)
  <2>1. PICK b \in Block : Jump(b)
    BY <1>8
  <2>2. /\ stage = "run" /\ stage' = "run" /\ pos > Len(c) /\ b \in Succ[at] /\ at' = b /\ pos' = 1
        /\ trips' = [l \in Loop |-> IF b \notin Body[l] THEN 0
                                    ELSE IF b = l THEN trips[l] + 1 ELSE trips[l]]
        /\ UNCHANGED <<code, toHook, loopId, stack, numCnt>>
    BY <2>1 DEF Jump, optVars, loadVars, c
  <2>3. pos = Len(c) + 1
    BY <1>1, <1>2, <2>2
  <2>4. code[b] \in Seq(InstrSet) /\ Len(code[b]) \in Nat /\ BlockOK(code[b], b, Loop, loopId)
    BY <1>2, <2>2, AllHooked
  <2>5. \A l \in Loop : at \notin Body[l] => trips[l] = 0
    BY <2>2 DEF RunInv
  <2>6. StackIs(at, c, Len(c) + 1, stack, trips, loopId)
    BY <1>2, <2>2, <2>3
  <2>7. /\ trips' \in [Loop -> Nat]
        /\ \A l \in Loop : b \notin Body[l] => trips'[l] = 0
        /\ StackIs(b, code[b], 1, stack, trips', loopId)
    <3> DEFINE new == trips'
               y == code[b]
    <3>1. /\ y \in Seq(InstrSet) /\ BlockOK(y, b, Loop, loopId)
          /\ new = TripsInto(b, trips)
          /\ c \in Seq(InstrSet) /\ BlockOK(c, at, Loop, loopId)
          /\ b \in Succ[at]
      BY <1>2, <2>2, <2>4 DEF TripsInto
    <3> HIDE DEF new, y
    <3>2. /\ new \in [Loop -> Nat]
          /\ \A l \in Loop : b \notin Body[l] => new[l] = 0
          /\ StackIs(b, y, 1, stack, new, loopId)
      BY <1>1, <2>5, <2>6, <3>1, StackJumps
    <3> QED
      BY <3>2 DEF new, y
  <2>8. 1 \in 1 .. Len(code[b]) + 1
    BY <2>4
  <2>9. RunTypes'
    BY <1>1, <2>2, <2>7, <2>8 DEF RunTypes
  <2>10. RunInv'
    BY <1>2, <2>2, <2>7 DEF RunInv
  <2> QED
    BY <2>9, <2>10
<1>9. CASE LoopInvocation
  <2> DEFINE op == "LAMP_loop_invocation"
             new == stack'
  <2>1. /\ Executes(op) /\ Advance /\ trips' = trips
        /\ stack' = Append(stack, [id |-> c[pos].arg % (LoopIdMax + 1), iterations |-> 0])
    BY <1>9 DEF LoopInvocation, Item, c
  <2>2. stage = "run" /\ pos \in 1 .. Len(c) /\ pos <= Len(c) /\ c[pos].op = op
    BY <1>3, <2>1
  <2>3. new = Append(stack, [id |-> c[pos].arg % (LoopIdMax + 1), iterations |-> 0])
    BY <2>1
  <2> HIDE DEF new
  <2>4. new \in Seq(LevelSet) /\ StackIs(at, c, pos + 1, new, trips, loopId)
    BY <1>1, <1>2, <2>2, <2>3, StackGrows
  <2> QED
    BY <2>1, <2>2, <2>4, Moves DEF Advance, loadVars, c, new
<1>10. CASE LoopIterationBegin
  <2> DEFINE op == "LAMP_loop_iteration_begin"
             new == stack'
  <2>1. /\ Executes(op) /\ Advance /\ trips' = trips
        /\ stack' = [stack EXCEPT ![Len(stack)].iterations = @ + 1]
    BY <1>10 DEF LoopIterationBegin
  <2>2. stage = "run" /\ pos \in 1 .. Len(c) /\ pos <= Len(c) /\ c[pos].op = op
    BY <1>3, <2>1
  <2>3. new = OneMoreIteration(stack)
    BY <2>1 DEF OneMoreIteration
  <2> HIDE DEF new
  <2>4. new \in Seq(LevelSet) /\ StackIs(at, c, pos + 1, new, trips, loopId)
    BY <1>1, <1>2, <2>2, <2>3, StackBegins
  <2> QED
    BY <2>1, <2>2, <2>4, Moves DEF Advance, loadVars, c, new
<1>11. CASE LoopExit
  <2> DEFINE op == "LAMP_loop_exit"
             new == stack'
  <2>1. Executes(op) /\ Advance /\ trips' = trips /\ stack' = Front(stack)
    BY <1>11 DEF LoopExit
  <2>2. stage = "run" /\ pos \in 1 .. Len(c) /\ pos <= Len(c) /\ c[pos].op = op
    BY <1>3, <2>1
  <2>3. new = Front(stack)
    BY <2>1
  <2> HIDE DEF new
  <2>4. new \in Seq(LevelSet) /\ StackIs(at, c, pos + 1, new, trips, loopId)
    BY <1>1, <1>2, <2>2, <2>3, StackShrinks
  <2> QED
    BY <2>1, <2>2, <2>4, Moves DEF Advance, loadVars, c, new
<1>12. CASE Initialize \/ Skip \/ Load \/ Store \/ ExternalCall
  <2>1. /\ \E op \in {"LAMP_init", "LAMP_loop_iteration_end", "other", "load", "store", "call"} :
             Executes(op)
        /\ Advance /\ UNCHANGED <<trips, stack>>
    BY <1>12 DEF Initialize, Skip, Load, Store, ExternalCall
  <2>2. \A op \in {"LAMP_init", "LAMP_loop_iteration_end", "other", "load", "store", "call"} :
          op \notin HookName
    BY DEF HookName, Leading
  <2> QED
    BY <1>4, <2>1, <2>2
<1>13. CASE AccessThrows
  BY <1>1, <1>13, Rests DEF AccessThrows, optVars, runVars, loadVars
<1>14. CASE Finish
  <2>1. /\ stage' = "load" /\ at' = 1 /\ pos' = 1 /\ trips' = [l \in Loop |-> 0]
        /\ stack' = <<Base>> /\ numCnt' = numCnt
    BY <1>14 DEF Finish, Base
  <2>2. Len(code'[1]) \in Nat
    BY EntryIsOutside, LenProperties DEF OptInv, OptTypes
  <2>3. <<Base>> \in Seq(LevelSet)
    <3>1. Base \in LevelSet
      BY IdsAssumption DEF Base, LevelSet, WholeRun
    <3> QED
      BY <3>1
  <2>4. [l \in Loop |-> 0] \in [Loop -> Nat]
    OBVIOUS
  <2>5. RunTypes'
    BY <1>1, <2>1, <2>2, <2>3, <2>4, EntryIsOutside DEF RunTypes
  <2> QED
    BY <2>1, <2>5 DEF RunInv
<1>15. CASE LoadNext /\ UNCHANGED runVars
  <2>1. UNCHANGED <<at, pos, trips, stack>> /\ code' = code
    BY <1>15 DEF LoadNext, optVars, runVars
  <2>2. stage' \in {"load", "read", "done"}
    BY <1>15 DEF LoadNext, BuildLoopMap, StartLoading, ReadNumber, DropParen, FinishReading, NoProfile
  <2>3. numCnt' \in Nat
    BY <1>1, <1>15 DEF LoadNext, BuildLoopMap, StartLoading, ReadNumber, DropParen,
                       FinishReading, NoProfile, loadVars
  <2> QED
    BY <2>1, <2>2, <2>3, Rests
<1>16. CASE UNCHANGED vars
  BY <1>16 DEF vars, optVars, loadVars, runVars, RunTypes, RunInv
<1> QED
  BY <1>5, <1>6, <1>7, <1>8, <1>9, <1>10, <1>11, <1>12, <1>13, <1>14, <1>15, <1>16 DEF Next

LEMMA RunInvariant == Spec => [](OptInv /\ RunTypes /\ RunInv)
<1> DEFINE Inv == OptInv /\ RunTypes /\ RunInv
<1>1. Init => Inv
  BY RunStart
<1>2. Inv /\ [Next]_vars => Inv'
  <2> SUFFICES ASSUME OptInv, RunTypes, RunInv, [Next]_vars
               PROVE  OptInv' /\ RunTypes' /\ RunInv'
    OBVIOUS
  <2>1. OptInv'
    BY OptStep
  <2> QED
    BY <2>1, RunStep
<1> HIDE DEF Inv
<1>3. Spec => []Inv
  BY <1>1, <1>2, PTL DEF Spec
<1> QED
  BY <1>3 DEF Inv

(* Every state is well typed, whatever the function and its loops: the     *)
(* position stays within the code, and the library's ids within 16 bits.   *)
THEOREM IdsTyped == Spec => []TypeOK
<1>1. ASSUME OptInv, RunTypes PROVE TypeOK
  <2>1. /\ stage \in {"opt", "run", "load", "read", "done", "crashed"}
        /\ ran \in Seq({"count", "profile", "loops", "init"})
        /\ at \in Block /\ pos \in 1 .. Len(code[at]) + 1 /\ numCnt \in Nat
    BY <1>1 DEF OptInv, OptTypes, RunTypes
  <2>2. \A i \in DOMAIN stack : stack[i].id \in 0 .. LoopIdMax
    <3> SUFFICES ASSUME NEW i \in DOMAIN stack PROVE stack[i].id \in 0 .. LoopIdMax
      OBVIOUS
    <3>1. stack \in Seq(LevelSet)
      BY <1>1 DEF RunTypes
    <3>2. stack[i] \in LevelSet
      BY <3>1, ElementOfSeq, LenProperties
    <3> QED
      BY <3>2 DEF LevelSet
  <2> QED
    BY <2>1, <2>2 DEF TypeOK
<1>2. Spec => [](OptInv /\ RunTypes)
  BY RunInvariant, PTL
<1> QED
  BY <1>1, <1>2, PTL

LEMMA NestAtWork ==
  ASSUME OptInv, RunTypes, RunInv
  PROVE  HooksTrackTheNest
<1> SUFFICES ASSUME NEW op \in Kind \cup {"other"}, Executes(op)
             PROVE  LET around == LoopsAround(at)
                    IN  /\ Len(stack) = Len(around) + 1
                        /\ \A n \in DOMAIN around :
                             stack[n + 1] = [id |-> loopId[around[n]] % (LoopIdMax + 1),
                                             iterations |-> trips[around[n]]]
  BY DEF HooksTrackTheNest
<1> DEFINE c == code[at]
<1>1. /\ stage = "run" /\ pos <= Len(c) /\ c[pos].op \in Middle /\ at \in Block
      /\ pos \in 1 .. Len(c) + 1
  BY DEF Executes, Item, Middle, RunTypes
<1>2. /\ c \in Seq(InstrSet) /\ Len(c) \in Nat /\ BlockOK(c, at, Loop, loopId)
      /\ StackIs(at, c, pos, stack, trips, loopId)
  BY <1>1, AllHooked DEF RunInv
<1> HIDE DEF c
<1>3. pos \in 1 .. Len(c)
  BY <1>1, <1>2
<1>4. Invoked(c, pos) = {} /\ ExitsDue(c, pos) = {} /\ ~BeginDue(c, pos)
  BY <1>1, <1>2, <1>3, HooksAround
<1>5. Cardinality(Invoked(c, pos)) = 0 /\ Cardinality(ExitsDue(c, pos)) = 0
  BY <1>4, FS_EmptySet
<1>6. /\ Cardinality(Around(at)) \in Nat
      /\ Len(LoopsAround(at)) = Cardinality(Around(at))
      /\ DOMAIN LoopsAround(at) = 1 .. Cardinality(Around(at))
  BY <1>1, AroundByDepth
<1>7. Len(stack) = 1 + Cardinality(Around(at)) + 0 + 0
  BY <1>2, <1>5 DEF StackIs
<1>8. \A n \in 1 .. Cardinality(Around(at)) :
        stack[n + 1] = Level(loopId, LoopsAround(at)[n], trips[LoopsAround(at)[n]])
  BY <1>2, <1>4 DEF StackIs
<1> QED
  BY <1>6, <1>7, <1>8 DEF Level

(* For any function with its loops in loop-simplify form, hooked by the    *)
(* passes in any order they can run in: wherever the program is in a block,*)
(* the library's stack is the nest of loops around the block, each with its*)
(* number and at its current iteration.                                    *)
THEOREM StackIsTheNest == Spec => []HooksTrackTheNest
<1>1. OptInv /\ RunTypes /\ RunInv => HooksTrackTheNest
  BY NestAtWork
<1> QED
  BY <1>1, RunInvariant, PTL

-----------------------------------------------------------------------------
(* The numbers in the hooks.                                               *)

LEMMA ItemNumber ==
  ASSUME OptInv, InOrder, at \in Block, pos \in 1 .. Len(code[at]), Item.op \in Kind
  PROVE  /\ Item.of \in Positions(source) /\ Item.id = LampId(Item.of)
         /\ Item.id \in Nat /\ Item.id < counted
         /\ Item.op = "call" => Registered = Item.id
<1>1. pos \in DOMAIN code[at]
  BY LenProperties DEF OptInv, OptTypes
<1>2. NumberedRight(Item)
  BY <1>1 DEF OptInv, NumbersOK, Item
<1>3. Item.of \in Positions(source) /\ Item.id = LampId(Item.of)
  BY <1>2 DEF NumberedRight
<1>4. LampId(Item.of) \in Nat /\ LampId(Item.of) < Cardinality(Positions(source))
  BY <1>3, LampIdsAreNumbers DEF OptInv, OptTypes
<1>5. counted = Cardinality(Positions(source))
  <2>1. CountedFirst
    <3>1. Len(<<>>) = 0
      OBVIOUS
    <3> QED
      BY <3>1 DEF InOrder, CountedFirst
  <2> QED
    BY <2>1 DEF OptInv, NumbersOK
<1>6. Item.op = "call" => Registered = Item.id
  <2>1. Item.id /= NotHooked
    BY <1>3, <1>4 DEF NotHooked
  <2> QED
    BY <2>1 DEF Registered, ExternalCalls
<1> QED
  BY <1>3, <1>4, <1>5, <1>6

(* With the counter first and the profiler next, for any function: every   *)
(* number a hook passes is below the size the library was told.            *)
THEOREM NumbersFit == Spec => []NoNumberTooLarge
<1> DEFINE Inv == OptInv /\ RunTypes
<1>1. Init => NoNumberTooLarge
  BY DEF Init, InsertInit, NoNumberTooLarge
<1>2. ASSUME Inv, NoNumberTooLarge, [Next]_vars PROVE NoNumberTooLarge'
  <2>1. CASE AccessThrows
    <3> SUFFICES ASSUME InOrder' PROVE FALSE
      BY DEF NoNumberTooLarge
    <3>1. InOrder
      BY <2>1 DEF AccessThrows, optVars, InOrder
    <3>2. PICK op \in Kind : Executes(op)
      BY <2>1 DEF AccessThrows, Kind
    <3>3. at \in Block /\ pos \in 1 .. Len(code[at]) /\ Item.op \in Kind
      <4>1. at \in Block /\ pos \in 1 .. Len(code[at]) + 1
        BY <1>2 DEF RunTypes
      <4>2. pos <= Len(code[at]) /\ Item.op = op
        BY <3>2 DEF Executes
      <4>3. Len(code[at]) \in Nat
        BY <1>2, <4>1, LenProperties DEF OptInv, OptTypes
      <4> QED
        BY <4>1, <4>2, <4>3
    <3>4. Item.id \in Nat /\ Item.id < counted /\ (Item.op = "call" => Registered = Item.id)
      BY <1>2, <3>1, <3>3, ItemNumber
    <3>5. counted \in Nat
      BY <1>2 DEF OptInv, OptTypes
    <3>6. ~(Item.id >= counted)
      BY <3>4, <3>5
    <3> QED
      BY <2>1, <3>4, <3>6 DEF AccessThrows, Executes
  <2>2. CASE UNCHANGED <<stage, ran>>
    BY <1>2, <2>2 DEF NoNumberTooLarge, InOrder
  <2>3. CASE stage' \in {"opt", "run", "load", "read", "done"}
    BY <2>3 DEF NoNumberTooLarge
  <2>4. AccessThrows \/ UNCHANGED <<stage, ran>> \/ stage' \in {"opt", "run", "load", "read", "done"}
    <3>1. CASE OptNext /\ UNCHANGED <<loadVars, runVars>>
      BY <3>1 DEF OptNext, CountInstrs, LampProfiler, LampLoopProfiler, LampInit, BetweenPasses
    <3>2. CASE Run \/ NotRun \/ Finish \/ \E b \in Block : Jump(b)
      BY <3>2 DEF Run, NotRun, Finish, Jump, optVars
    <3>3. CASE LoopInvocation \/ LoopIterationBegin \/ LoopExit \/ Initialize \/ Skip
      BY <3>3 DEF LoopInvocation, LoopIterationBegin, LoopExit, Initialize, Skip, Advance, optVars
    <3>4. CASE Load \/ Store \/ ExternalCall
      BY <3>4 DEF Load, Store, ExternalCall, Advance, optVars
    <3>5. CASE LoadNext /\ UNCHANGED runVars
      BY <3>5 DEF LoadNext, BuildLoopMap, StartLoading, ReadNumber, DropParen, FinishReading,
                  NoProfile, optVars
    <3>6. CASE UNCHANGED vars
      BY <3>6 DEF vars, optVars
    <3> QED
      BY <1>2, <3>1, <3>2, <3>3, <3>4, <3>5, <3>6 DEF Next
  <2> QED
    BY <2>1, <2>2, <2>3, <2>4
<1>3. Inv /\ NoNumberTooLarge /\ [Next]_vars => NoNumberTooLarge'
  BY <1>2
<1>4. Spec => []Inv
  BY RunInvariant, PTL
<1> HIDE DEF Inv
<1> QED
  BY <1>1, <1>3, <1>4, PTL DEF Spec

-----------------------------------------------------------------------------
(* The profile.                                                            *)

EntrySet ==
  [load : Int, dist : Nat, loop : Nat, store : Int, total : Nat,
   truth : [loop : {WholeRun} \cup Loop, first : Tag, second : Tag]]

StoreOK(s) == s[2] \in Positions(source) /\ s[1] = LampId(s[2])

(* An entry has the loader's numbers of its two instructions, and 16 bits  *)
(* of the number of its loop.                                              *)
EntryOK(e) ==
  /\ e.truth.first \in Positions(source) /\ e.load = LampId(e.truth.first)
  /\ e.truth.second \in Positions(source) /\ e.store = LampId(e.truth.second)
  /\ \/ e.truth.loop = WholeRun /\ e.loop = WholeRun
     \/ e.truth.loop \in Loop /\ e.loop = loopId[e.truth.loop] % (LoopIdMax + 1)

KeyedOnce(entries) == \A e, f \in entries : SameKey(e, f) => e = f

ProfileOK ==
  /\ externalCall \in Int
  /\ stores \subseteq Int \X Tag
  /\ profile \subseteq EntrySet /\ IsFiniteSet(profile) /\ KeyedOnce(profile)
  /\ stage = "opt" => stores = {} /\ profile = {}
  /\ InOrder => /\ \A s \in stores : StoreOK(s)
                /\ \A e \in profile : EntryOK(e)

(* What the hooks see at a load, store or call.                            *)
AtAccess ==
  /\ Item.id \in Int /\ Item.of \in Tag /\ Registered \in Int
  /\ Len(stack) = Len(LoopsAround(at)) + 1 /\ Len(LoopsAround(at)) \in Nat
  /\ stack[1].id = WholeRun
  /\ \A n \in 1 .. Len(stack) : stack[n].id \in Nat
  /\ \A n \in 1 .. Len(LoopsAround(at)) :
       /\ LoopsAround(at)[n] \in Loop
       /\ stack[n + 1].id = loopId[LoopsAround(at)[n]] % (LoopIdMax + 1)
  /\ InOrder => /\ Item.of \in Positions(source) /\ Item.id = LampId(Item.of)
                /\ Item.op = "call" => Registered = Item.id

LEMMA AccessSees ==
  ASSUME OptInv, RunTypes, RunInv, externalCall \in Int, NEW op \in Kind, Executes(op)
  PROVE  AtAccess
<1>1. /\ at \in Block /\ pos \in 1 .. Len(code[at]) + 1 /\ stack \in Seq(LevelSet)
      /\ stage = "run" /\ pos <= Len(code[at]) /\ Item.op = op
  BY DEF RunTypes, Executes
<1>2. code[at] \in Seq(InstrSet) /\ Len(code[at]) \in Nat
  BY <1>1, LenProperties DEF OptInv, OptTypes
<1>3. pos \in 1 .. Len(code[at])
  BY <1>1, <1>2
<1>4. Item \in InstrSet
  BY <1>2, <1>3, ElementOfSeq DEF Item
<1>5. Item.id \in Int /\ Item.of \in Tag /\ Registered \in Int
  BY <1>4 DEF InstrSet, Registered
<1>6. /\ Len(stack) = Len(LoopsAround(at)) + 1
      /\ \A n \in DOMAIN LoopsAround(at) :
           stack[n + 1] = [id |-> loopId[LoopsAround(at)[n]] % (LoopIdMax + 1),
                           iterations |-> trips[LoopsAround(at)[n]]]
  <2>1. HooksTrackTheNest
    BY NestAtWork
  <2>2. \E o \in Kind \cup {"other"} : Executes(o)
    OBVIOUS
  <2> QED
    BY <2>1, <2>2 DEF HooksTrackTheNest
<1>7. /\ Len(LoopsAround(at)) \in Nat /\ DOMAIN LoopsAround(at) = 1 .. Len(LoopsAround(at))
      /\ \A n \in 1 .. Len(LoopsAround(at)) : LoopsAround(at)[n] \in Loop
  <2>1. /\ Cardinality(Around(at)) \in Nat /\ Len(LoopsAround(at)) = Cardinality(Around(at))
        /\ DOMAIN LoopsAround(at) = 1 .. Cardinality(Around(at))
        /\ \A n \in 1 .. Cardinality(Around(at)) : LoopsAround(at)[n] \in Around(at)
    BY <1>1, AroundByDepth
  <2>2. Around(at) \subseteq Loop
    BY DEF Around
  <2> QED
    BY <2>1, <2>2
<1>8. stack[1].id = WholeRun
  BY <1>1 DEF RunInv, StackIs
<1>9. \A n \in 1 .. Len(stack) : stack[n].id \in Nat
  <2> SUFFICES ASSUME NEW n \in 1 .. Len(stack) PROVE stack[n].id \in Nat
    OBVIOUS
  <2>1. stack[n] \in LevelSet
    BY <1>1, ElementOfSeq
  <2> QED
    BY <2>1, IdsAssumption DEF LevelSet
<1>10. InOrder => /\ Item.of \in Positions(source) /\ Item.id = LampId(Item.of)
                  /\ Item.op = "call" => Registered = Item.id
  BY <1>1, <1>3, ItemNumber
<1>11. \A n \in 1 .. Len(LoopsAround(at)) :
         stack[n + 1].id = loopId[LoopsAround(at)[n]] % (LoopIdMax + 1)
  <2> SUFFICES ASSUME NEW n \in 1 .. Len(LoopsAround(at))
               PROVE  stack[n + 1].id = loopId[LoopsAround(at)[n]] % (LoopIdMax + 1)
    OBVIOUS
  <2> DEFINE i == loopId[LoopsAround(at)[n]] % (LoopIdMax + 1)
             j == trips[LoopsAround(at)[n]]
  <2>1. stack[n + 1] = [id |-> i, iterations |-> j]
    BY <1>6, <1>7
  <2> HIDE DEF i, j
  <2>2. stack[n + 1].id = i
    BY <2>1
  <2> QED
    BY <2>2 DEF i
<1> QED
  BY <1>5, <1>6, <1>7, <1>8, <1>9, <1>10, <1>11 DEF AtAccess

LEMMA NewEntry ==
  ASSUME AtAccess, NEW id \in Int, NEW of \in Tag, NEW s \in Int \X Tag,
         NEW n \in 1 .. 1 + Len(LoopsAround(at)), n <= Len(stack), NEW d \in 0 .. 1,
         InOrder => of \in Positions(source) /\ id = LampId(of) /\ StoreOK(s),
         NEW e, e = [load |-> id, dist |-> d, loop |-> stack[n].id, store |-> s[1], total |-> 1,
                     truth |-> [loop |-> IF n = 1 THEN WholeRun ELSE LoopsAround(at)[n - 1],
                                first |-> of, second |-> s[2]]]
  PROVE  e \in EntrySet /\ (InOrder => EntryOK(e))
<1> DEFINE l == IF n = 1 THEN WholeRun ELSE LoopsAround(at)[n - 1]
<1>1. \/ l = WholeRun /\ stack[n].id = WholeRun
      \/ l \in Loop /\ stack[n].id = loopId[l] % (LoopIdMax + 1)
  <2>1. CASE n = 1
    BY <2>1 DEF AtAccess
  <2>2. CASE n /= 1
    <3>1. n - 1 \in 1 .. Len(LoopsAround(at)) /\ (n - 1) + 1 = n
      BY <2>2 DEF AtAccess
    <3> QED
      BY <2>2, <3>1 DEF AtAccess
  <2> QED
    BY <2>1, <2>2
<1>2. stack[n].id \in Nat
  <2>1. n \in 1 .. Len(stack)
    BY DEF AtAccess
  <2> QED
    BY <2>1 DEF AtAccess
<1>3. s[1] \in Int /\ s[2] \in Tag /\ d \in Nat
  OBVIOUS
<1> HIDE DEF l
<1>4. /\ e.load = id /\ e.dist = d /\ e.loop = stack[n].id /\ e.store = s[1] /\ e.total = 1
      /\ e.truth = [loop |-> l, first |-> of, second |-> s[2]]
      /\ e.truth.loop = l /\ e.truth.first = of /\ e.truth.second = s[2]
  BY DEF l
<1>5. e \in EntrySet
  BY <1>1, <1>2, <1>3 DEF EntrySet, l
<1>6. ASSUME InOrder PROVE EntryOK(e)
  BY <1>1, <1>4, <1>6 DEF EntryOK, StoreOK
<1> QED
  BY <1>5, <1>6

(* One more dependence: a new entry, or one of the old ones more often.    *)
LEMMA Counts ==
  ASSUME ProfileOK, NEW e \in EntrySet, InOrder => EntryOK(e),
         NEW old, old = {f \in profile : SameKey(e, f)},
         NEW new, new = (profile \ old) \cup
                          (IF old = {} THEN {e} ELSE {[f EXCEPT !.total = @ + 1] : f \in old})
  PROVE  /\ new \subseteq EntrySet /\ IsFiniteSet(new) /\ KeyedOnce(new)
         /\ InOrder => \A f \in new : EntryOK(f)
<1> DEFINE more(f) == [f EXCEPT !.total = @ + 1]
<1>1. ASSUME NEW f \in EntrySet
      PROVE  /\ more(f) \in EntrySet /\ more(f).load = f.load /\ more(f).dist = f.dist
             /\ more(f).store = f.store /\ more(f).loop = f.loop /\ more(f).truth = f.truth
  <2>1. f.total \in Nat /\ f.total + 1 \in Nat
    BY DEF EntrySet
  <2>2. more(f) = [load |-> f.load, dist |-> f.dist, loop |-> f.loop, store |-> f.store,
                   total |-> f.total + 1, truth |-> f.truth]
    BY DEF EntrySet
  <2> QED
    BY <2>1, <2>2 DEF EntrySet
<1>2. profile \subseteq EntrySet /\ IsFiniteSet(profile) /\ KeyedOnce(profile)
  BY DEF ProfileOK
<1>3. old \subseteq profile
  OBVIOUS
<1>4. \A g \in new : \/ g \in profile /\ g \notin old
                     \/ g = e /\ old = {}
                     \/ \E f \in old : g = more(f)
  OBVIOUS
<1>5. IsFiniteSet(new)
  <2>1. IsFiniteSet(old) /\ IsFiniteSet(profile \ old)
    BY <1>2, <1>3, FS_Subset
  <2>2. IsFiniteSet({more(f) : f \in old})
    <3> DEFINE T == {more(f) : f \in old}
               m == [f \in old |-> more(f)]
    <3>1. m \in Surjection(old, T)
      BY DEF Surjection
    <3> HIDE DEF m, T
    <3> QED
      BY <2>1, <3>1, FS_Surjection DEF T
  <2>3. IsFiniteSet({e})
    BY FS_Singleton
  <2>4. IsFiniteSet(IF old = {} THEN {e} ELSE {more(f) : f \in old})
    BY <2>2, <2>3
  <2> DEFINE A == profile \ old
             B == IF old = {} THEN {e} ELSE {more(f) : f \in old}
  <2>5. new = A \cup B
    OBVIOUS
  <2>6. IsFiniteSet(A) /\ IsFiniteSet(B)
    BY <2>1, <2>4
  <2> HIDE DEF A, B
  <2>7. IsFiniteSet(A \cup B)
    BY <2>6, FS_Union
  <2> QED
    BY <2>5, <2>7
<1>o. \A f \in profile : f \in old <=> SameKey(e, f)
  OBVIOUS
<1> HIDE DEF more
<1>6. new \subseteq EntrySet
  BY <1>1, <1>2, <1>3, <1>4
<1>7. KeyedOnce(new)
  <2> SUFFICES ASSUME NEW f \in new, NEW g \in new, SameKey(f, g) PROVE f = g
    BY DEF KeyedOnce
  <2>1. \A h \in old : h \in EntrySet /\ SameKey(e, h) /\ SameKey(more(h), h)
    BY <1>1, <1>2, <1>3, <1>o DEF SameKey
  <2>2. CASE f \in profile /\ f \notin old
    <3>1. ~SameKey(e, f)
      BY <1>o, <2>2
    <3>2. g \in profile
      BY <1>4, <2>1, <2>2, <3>1 DEF SameKey
    <3> QED
      BY <1>2, <2>2, <3>2 DEF KeyedOnce
  <2>3. CASE g \in profile /\ g \notin old
    <3>1. ~SameKey(e, g)
      BY <1>o, <2>3
    <3>2. f \in profile
      BY <1>4, <2>1, <2>3, <3>1 DEF SameKey
    <3> QED
      BY <1>2, <2>3, <3>2 DEF KeyedOnce
  <2>4. CASE old = {} /\ f = e /\ g = e
    BY <2>4
  <2>5. CASE (\E h \in old : f = more(h)) /\ (\E h \in old : g = more(h))
    <3>1. PICK h \in old : f = more(h)
      BY <2>5
    <3>2. PICK k \in old : g = more(k)
      BY <2>5
    <3>3. h = k
      BY <1>2, <1>3, <2>1 DEF KeyedOnce, SameKey
    <3> QED
      BY <3>1, <3>2, <3>3
  <2> QED
    BY <1>4, <2>2, <2>3, <2>4, <2>5
<1>8. ASSUME InOrder, NEW f \in new PROVE EntryOK(f)
  <2>1. \A h \in profile : EntryOK(h)
    BY <1>8 DEF ProfileOK
  <2>2. \A h \in old : EntryOK(more(h))
    BY <1>1, <1>2, <1>3, <2>1 DEF EntryOK
  <2> QED
    BY <1>4, <1>8, <2>1, <2>2
<1> QED
  BY <1>5, <1>6, <1>7, <1>8

(* What a count leaves behind, whoever it was made for.                    *)
LEMMA CountOrNotKeeps ==
  ASSUME ProfileOK, AtAccess, NEW id \in Int, CountOrNot(id, Item.of),
         InOrder => id = LampId(Item.of)
  PROVE  /\ profile' \subseteq EntrySet /\ IsFiniteSet(profile') /\ KeyedOnce(profile')
         /\ InOrder => \A f \in profile' : EntryOK(f)
<1>1. CASE UNCHANGED profile
  BY <1>1 DEF ProfileOK
<1>2. CASE ~UNCHANGED profile
  <2> DEFINE of == Item.of
  <2>1. PICK s \in stores, n \in 1 .. (1 + Len(LoopsAround(at))), d \in 0 .. 1 :
          n <= Len(stack) /\ Count(id, of, s, n, d)
    BY <1>2 DEF CountOrNot
  <2> DEFINE e == [load |-> id, dist |-> d, loop |-> stack[n].id, store |-> s[1], total |-> 1,
                   truth |-> [loop |-> IF n = 1 THEN WholeRun ELSE LoopsAround(at)[n - 1],
                              first |-> of, second |-> s[2]]]
             old == {f \in profile : SameKey(e, f)}
             new == profile'
  <2>2. new = (profile \ old) \cup
                (IF old = {} THEN {e} ELSE {[f EXCEPT !.total = @ + 1] : f \in old})
    BY <2>1 DEF Count
  <2>3. /\ of \in Tag /\ s \in Int \X Tag
        /\ InOrder => of \in Positions(source) /\ id = LampId(of) /\ StoreOK(s)
    BY DEF AtAccess, ProfileOK
  <2>4. e \in EntrySet /\ (InOrder => EntryOK(e))
    <3> HIDE DEF of
    <3> QED
      BY <2>1, <2>3, NewEntry
  <2> HIDE DEF e, new
  <2>5. /\ new \subseteq EntrySet /\ IsFiniteSet(new) /\ KeyedOnce(new)
        /\ InOrder => \A f \in new : EntryOK(f)
    <3> HIDE DEF old
    <3>1. old = {f \in profile : SameKey(e, f)}
      BY DEF old
    <3> QED
      BY <2>2, <2>4, <3>1, Counts
  <2> QED
    BY <2>5 DEF new
<1> QED
  BY <1>1, <1>2

(* The steps that leave the program as it is.                              *)
LEMMA ProfileFollows ==
  ASSUME ProfileOK, UNCHANGED <<source, loopId, ran>>, stage' /= "opt",
         externalCall' \in Int, stores' \subseteq Int \X Tag,
         profile' \subseteq EntrySet, IsFiniteSet(profile'), KeyedOnce(profile'),
         InOrder => \A s \in stores' : StoreOK(s),
         InOrder => \A e \in profile' : EntryOK(e)
  PROVE  ProfileOK'
<1>1. InOrder' <=> InOrder
  BY DEF InOrder
<1>2. Positions(source)' = Positions(source)
  BY DEF Positions
<1>3. \A k : LampId(k)' = LampId(k)
  BY DEF LampId, Positions
<1>4. KeyedOnce(profile)'
  BY DEF KeyedOnce, SameKey
<1>5. InOrder' => (\A s \in stores : StoreOK(s))'
  BY <1>1, <1>2, <1>3 DEF StoreOK
<1>6. InOrder' => (\A e \in profile : EntryOK(e))'
  BY <1>1, <1>2, <1>3 DEF EntryOK
<1> QED
  BY <1>4, <1>5, <1>6 DEF ProfileOK

LEMMA ProfileStart == Init => ProfileOK
<1> SUFFICES ASSUME Init PROVE ProfileOK
  OBVIOUS
<1>1. externalCall = 0 /\ stores = {} /\ profile = {}
  BY DEF Init, RunInit
<1>2. IsFiniteSet({})
  BY FS_EmptySet
<1> QED
  BY <1>1, <1>2 DEF ProfileOK, KeyedOnce

LEMMA ProfileStep ==
  ASSUME OptInv, RunTypes, RunInv, ProfileOK, [Next]_vars
  PROVE  ProfileOK'
<1>1. /\ externalCall \in Int /\ stores \subseteq Int \X Tag
      /\ profile \subseteq EntrySet /\ IsFiniteSet(profile) /\ KeyedOnce(profile)
      /\ InOrder => \A s \in stores : StoreOK(s)
      /\ InOrder => \A e \in profile : EntryOK(e)
  BY DEF ProfileOK
<1>a. ASSUME NEW op \in Kind, Executes(op) PROVE AtAccess
  BY <1>1, <1>a, AccessSees
<1>2. CASE OptNext /\ UNCHANGED <<loadVars, runVars>>
  <2>1. stage = "opt"
    BY <1>2 DEF OptNext, CountInstrs, LampProfiler, LampLoopProfiler, LampInit, BetweenPasses
  <2>2. externalCall' = externalCall /\ stores' = {} /\ profile' = {}
    BY <1>2, <2>1 DEF ProfileOK, runVars
  <2>3. IsFiniteSet({})
    BY FS_EmptySet
  <2> QED
    BY <1>1, <2>2, <2>3 DEF ProfileOK, KeyedOnce
<1>3. ASSUME UNCHANGED <<source, loopId, ran, stores, profile>>, externalCall' \in Int,
             stage' /= "opt"
      PROVE  ProfileOK'
  BY <1>1, <1>3, ProfileFollows
<1>4. CASE Run \/ NotRun \/ (\E b \in Block : Jump(b)) \/ AccessThrows \/ (LoadNext /\ UNCHANGED runVars)
  <2>1. UNCHANGED <<source, loopId, ran, stores, profile, externalCall>>
    BY <1>4 DEF Run, NotRun, Jump, AccessThrows, LoadNext, optVars, runVars
  <2>2. stage' /= "opt"
    BY <1>4 DEF Run, NotRun, Jump, AccessThrows, LoadNext, BuildLoopMap, StartLoading,
                ReadNumber, DropParen, FinishReading, NoProfile
  <2> QED
    BY <1>1, <1>3, <2>1, <2>2
<1>5. ASSUME NEW op, Executes(op)
      PROVE  stage = "run" /\ Item.id \in Int /\ Registered \in Int
  <2>1. /\ at \in Block /\ pos \in 1 .. Len(code[at]) + 1 /\ stage = "run" /\ pos <= Len(code[at])
    BY <1>5 DEF RunTypes, Executes
  <2>2. code[at] \in Seq(InstrSet) /\ Len(code[at]) \in Nat
    BY <2>1, LenProperties DEF OptInv, OptTypes
  <2>3. pos \in 1 .. Len(code[at])
    BY <2>1, <2>2
  <2>4. Item \in InstrSet
    BY <2>2, <2>3, ElementOfSeq DEF Item
  <2> QED
    BY <1>1, <2>1, <2>4 DEF InstrSet, Registered
<1>6. CASE LoopInvocation \/ LoopIterationBegin \/ LoopExit \/ Initialize \/ Skip
  <2>1. /\ \E op : Executes(op)
        /\ Advance /\ UNCHANGED <<stores, profile>>
        /\ externalCall' = Registered \/ externalCall' = 0
    BY <1>6 DEF LoopInvocation, LoopIterationBegin, LoopExit, Initialize, Skip
  <2>2. stage' = "run" /\ externalCall' \in Int
    BY <1>5, <2>1 DEF Advance
  <2> QED
    BY <1>3, <2>1, <2>2 DEF Advance, optVars
<1>7. CASE Finish
  <2>1. /\ UNCHANGED <<source, loopId, ran, profile>> /\ externalCall' = 0 /\ stores' = {}
        /\ stage' = "load"
    BY <1>7 DEF Finish, optVars
  <2> QED
    BY <1>1, <2>1, ProfileFollows
<1>8. CASE Load
  <2>1. /\ Executes("load") /\ CountOrNot(Item.id, Item.of) /\ Advance
        /\ UNCHANGED <<externalCall, stores>>
    BY <1>8 DEF Load
  <2>2. AtAccess
    BY <1>a, <2>1 DEF Kind
  <2>3. /\ profile' \subseteq EntrySet /\ IsFiniteSet(profile') /\ KeyedOnce(profile')
        /\ InOrder => \A f \in profile' : EntryOK(f)
    BY <2>1, <2>2, CountOrNotKeeps DEF AtAccess
  <2>4. UNCHANGED <<source, loopId, ran>> /\ stage' = "run"
    BY <1>5, <2>1 DEF Advance, optVars
  <2> QED
    BY <1>1, <2>1, <2>3, <2>4, ProfileFollows
<1>9. CASE Store
  <2>1. /\ Executes("store") /\ Advance /\ UNCHANGED <<externalCall, profile>>
        /\ stores' = stores \cup {<<Item.id, Item.of>>}
    BY <1>9 DEF Store
  <2>2. AtAccess
    BY <1>a, <2>1 DEF Kind
  <2>3. /\ stores' \subseteq Int \X Tag
        /\ InOrder => \A s \in stores' : StoreOK(s)
    BY <1>1, <2>1, <2>2 DEF AtAccess, StoreOK
  <2>4. UNCHANGED <<source, loopId, ran>> /\ stage' = "run"
    BY <1>5, <2>1 DEF Advance, optVars
  <2> QED
    BY <1>1, <2>1, <2>3, <2>4, ProfileFollows
<1>10. CASE ExternalCall
  <2>1. /\ Executes("call") /\ Advance /\ externalCall' = Registered
        /\ \/ UNCHANGED <<stores, profile>>
           \/ CountOrNot(Registered, Item.of) /\ UNCHANGED stores
           \/ stores' = stores \cup {<<Registered, Item.of>>} /\ UNCHANGED profile
    BY <1>10 DEF ExternalCall
  <2>2. AtAccess /\ Item.op = "call" /\ externalCall' \in Int
    BY <1>a, <1>5, <2>1 DEF Kind, Executes
  <2>3. UNCHANGED <<source, loopId, ran>> /\ stage' = "run"
    BY <1>5, <2>1 DEF Advance, optVars
  <2>4. CASE UNCHANGED <<stores, profile>>
    BY <1>3, <2>2, <2>3, <2>4
  <2>5. CASE CountOrNot(Registered, Item.of) /\ UNCHANGED stores
    <3>1. /\ profile' \subseteq EntrySet /\ IsFiniteSet(profile') /\ KeyedOnce(profile')
          /\ InOrder => \A f \in profile' : EntryOK(f)
      BY <2>2, <2>5, CountOrNotKeeps DEF AtAccess
    <3> QED
      BY <1>1, <2>2, <2>3, <2>5, <3>1, ProfileFollows
  <2>6. CASE stores' = stores \cup {<<Registered, Item.of>>} /\ UNCHANGED profile
    <3>1. /\ stores' \subseteq Int \X Tag
          /\ InOrder => \A s \in stores' : StoreOK(s)
      BY <1>1, <2>2, <2>6 DEF AtAccess, StoreOK
    <3> QED
      BY <1>1, <2>2, <2>3, <2>6, <3>1, ProfileFollows
  <2> QED
    BY <2>1, <2>4, <2>5, <2>6
<1>11. CASE UNCHANGED vars
  <2>1. UNCHANGED <<source, loopId, ran, stores, profile, externalCall, stage>>
    BY <1>11 DEF vars, optVars, runVars
  <2>2. CASE stage = "opt"
    BY <1>1, <2>1, <2>2, FS_EmptySet DEF ProfileOK, KeyedOnce
  <2> QED
    BY <1>1, <1>3, <2>1, <2>2
<1> QED
  BY <1>2, <1>4, <1>6, <1>7, <1>8, <1>9, <1>10, <1>11 DEF Next

-----------------------------------------------------------------------------
(* The file.                                                               *)

(* LAMP_finish writes every entry of the profile, each on its line.        *)
LEMMA EntriesListProfile ==
  ASSUME profile \subseteq EntrySet, IsFiniteSet(profile), KeyedOnce(profile)
  PROVE  /\ Cardinality(profile) \in Nat /\ Len(Entries) = Cardinality(profile)
         /\ DOMAIN Entries = 1 .. Cardinality(profile)
         /\ \A i \in 1 .. Cardinality(profile) : Entries[i] \in profile
         /\ \A e \in profile : \E i \in 1 .. Cardinality(profile) : Entries[i] = e
<1> DEFINE P == profile
           N == Cardinality(P)
           lt == {ef \in P \X P : Before(ef[1], ef[2])}
           below(e) == {f \in P : Before(f, e)}
<1>1. \A e, f \in P : <<e, f>> \in lt <=> Before(e, f)
  OBVIOUS
<1>2. N \in Nat
  BY FS_CardinalityType
<1>3. \A e \in P : e.load \in Int /\ e.dist \in Int /\ e.store \in Int
  BY DEF EntrySet
<1>4. \A e \in P : below(e) = {f \in P : <<f, e>> \in lt}
  BY <1>1
<1>k. \A e, f \in P : e.load = f.load /\ e.dist = f.dist /\ e.store = f.store => e = f
  BY DEF KeyedOnce, SameKey
<1>f. IsFiniteSet(P)
  OBVIOUS
<1>e. Entries = [i \in 1 .. N |-> CHOOSE e \in P : Cardinality(below(e)) = i - 1]
  BY DEF Entries
<1> HIDE DEF P, lt, below
<1>5. IsRanked(P, lt)
  <2>1. \A e \in P : <<e, e>> \notin lt
    BY <1>1, <1>3 DEF Before
  <2>2. \A e, f, g \in P : <<e, f>> \in lt /\ <<f, g>> \in lt => <<e, g>> \in lt
    BY <1>1, <1>3 DEF Before
  <2>3. ASSUME NEW e \in P, NEW f \in P, ~Before(e, f), ~Before(f, e) PROVE e = f
    <3>1. e.load = f.load
      BY <1>3, <2>3 DEF Before
    <3>2. e.dist = f.dist
      BY <1>3, <2>3, <3>1 DEF Before
    <3>3. e.store = f.store
      BY <1>3, <2>3, <3>1, <3>2 DEF Before
    <3> QED
      BY <1>k, <3>1, <3>2, <3>3
  <2>4. \A e, f \in P : e = f \/ <<e, f>> \in lt \/ <<f, e>> \in lt
    BY <1>1, <2>3
  <2> QED
    BY <1>f, <2>1, <2>2, <2>4, Ranked
<1>6. /\ \A e \in P : Cardinality(below(e)) \in 0 .. N - 1
      /\ \A e, f \in P : Cardinality(below(e)) = Cardinality(below(f)) => e = f
      /\ \A i \in 0 .. N - 1 : \E e \in P : Cardinality(below(e)) = i
  BY <1>4, <1>5 DEF IsRanked
<1> HIDE DEF N
<1>7. ASSUME NEW i \in 1 .. N
      PROVE  Entries[i] \in P /\ Cardinality(below(Entries[i])) = i - 1
  <2>1. i - 1 \in 0 .. N - 1
    BY <1>2
  <2>2. \E e \in P : Cardinality(below(e)) = i - 1
    BY <1>6, <2>1
  <2>3. Entries[i] = CHOOSE e \in P : Cardinality(below(e)) = i - 1
    BY <1>e
  <2> QED
    BY <2>2, <2>3
<1>8. ASSUME NEW e \in P PROVE \E i \in 1 .. N : Entries[i] = e
  <2> DEFINE r == Cardinality(below(e))
  <2>1. r \in 0 .. N - 1
    BY <1>6
  <2>2. r + 1 \in 1 .. N /\ (r + 1) - 1 = r
    BY <1>2, <2>1
  <2>3. Entries[r + 1] \in P /\ Cardinality(below(Entries[r + 1])) = r
    BY <1>7, <2>2
  <2>4. Entries[r + 1] = e
    BY <1>6, <2>3
  <2> QED
    BY <2>2, <2>4
<1>9. DOMAIN Entries = 1 .. N
  BY <1>e
<1>10. Len(Entries) = N
  <2>1. Entries \in [1 .. N -> P]
    BY <1>e, <1>7, <1>9
  <2>2. Entries \in Seq(P)
    BY <1>2, <2>1
  <2> QED
    BY <1>2, <1>9, <2>2, LenProperties
<1> QED
  BY <1>2, <1>7, <1>8, <1>9, <1>10 DEF P, N

NumEntries == Cardinality(profile)

(* What is left of the file behind its first k tokens.                     *)
Remaining(k) ==
  [j \in 1 .. 8 * NumEntries + 1 - k |-> Tokens(Entries)[k + j]]

LEMMA EightPerLine ==
  ASSUME NEW q \in Nat, NEW s \in 0 .. 7
  PROVE  (8 * q + s) \div 8 = q /\ (8 * q + s) % 8 = s
OBVIOUS

LEMMA SixPerLine ==
  ASSUME NEW q \in Nat
  PROVE  /\ \A r \in 0 .. 5 : (6 * q + r) % 6 = r
         /\ (6 * q + 6) % 6 = 0
OBVIOUS

LEMMA TokenAt ==
  ASSUME NEW es, Len(es) \in Nat, NEW q \in 0 .. Len(es), NEW s \in 0 .. 7,
         q = Len(es) => s = 0
  PROVE  /\ 8 * q + s + 1 \in 1 .. 8 * Len(es) + 1
         /\ Tokens(es)[8 * q + s + 1] = IF q = Len(es) THEN End ELSE Line(es[q + 1])[s + 1]
<1> DEFINE n == Len(es)
           j == 8 * q + s + 1
<1>1. n \in Nat /\ q \in Nat /\ s \in Nat
  OBVIOUS
<1>2. Tokens(es) = [i \in 1 .. 8 * n + 1 |->
        IF i <= 8 * n THEN Line(es[((i - 1) \div 8) + 1])[((i - 1) % 8) + 1] ELSE End]
  BY DEF Tokens
<1>3. j \in 1 .. 8 * n + 1
  BY <1>1
<1>4. CASE q = n
  <2>1. ~(j <= 8 * n)
    BY <1>1, <1>4
  <2> QED
    BY <1>2, <1>3, <1>4, <2>1
<1>5. CASE q /= n
  <2>1. j <= 8 * n /\ j - 1 = 8 * q + s
    BY <1>1, <1>5
  <2>2. (j - 1) \div 8 = q /\ (j - 1) % 8 = s
    BY <1>1, <2>1, EightPerLine
  <2> HIDE DEF j, n
  <2>3. Tokens(es)[j] = Line(es[((j - 1) \div 8) + 1])[((j - 1) % 8) + 1]
    BY <1>2, <1>3, <2>1
  <2>4. Tokens(es)[j] = Line(es[q + 1])[s + 1]
    BY <2>2, <2>3
  <2> QED
    BY <1>3, <1>5, <2>4 DEF j, n
<1> QED
  BY <1>4, <1>5

(* Token by token.                                                         *)
LEMMA RemainingIs ==
  ASSUME NumEntries \in Nat, NEW k \in 0 .. 8 * NumEntries
  PROVE  /\ Remaining(k) /= <<>>
         /\ Head(Remaining(k)) = Tokens(Entries)[k + 1]
         /\ Tail(Remaining(k)) = Remaining(k + 1)
<1> DEFINE n == 8 * NumEntries
           T == {Tokens(Entries)[k + j] : j \in 1 .. n + 1 - k}
           f == Remaining(k)
           m == n + 1 - k
<1>1. n \in Nat /\ k \in Nat /\ m \in Nat /\ m >= 1 /\ n + 1 - (k + 1) = m - 1
  OBVIOUS
<1>2. f = [j \in 1 .. m |-> Tokens(Entries)[k + j]]
  BY DEF Remaining
<1>3. Remaining(k + 1) = [j \in 1 .. m - 1 |-> Tokens(Entries)[(k + 1) + j]]
  BY <1>1 DEF Remaining
<1>4. \A j \in 1 .. m : f[j] \in T
  BY <1>2
<1> HIDE DEF n, T, f, m
<1>5. f \in [1 .. m -> T]
  BY <1>2, <1>4
<1>6. f \in Seq(T) /\ Len(f) = m
  BY <1>1, <1>5
<1>7. f /= <<>>
  BY <1>1, <1>6, EmptySeq
<1>8. /\ Head(f) = f[1] /\ Tail(f) \in Seq(T) /\ Len(Tail(f)) = m - 1
      /\ \A j \in 1 .. Len(Tail(f)) : Tail(f)[j] = f[j + 1]
  BY <1>6, <1>7, HeadTailProperties
<1>9. Head(f) = Tokens(Entries)[k + 1]
  <2>1. 1 \in 1 .. m
    BY <1>1
  <2> QED
    BY <1>2, <1>8, <2>1
<1>10. Tail(f) = Remaining(k + 1)
  <2>1. Tail(f) \in [1 .. m - 1 -> T]
    BY <1>8, LenProperties
  <2>2. \A j \in 1 .. m - 1 : Tail(f)[j] = Tokens(Entries)[(k + 1) + j]
    <3> SUFFICES ASSUME NEW j \in 1 .. m - 1 PROVE Tail(f)[j] = Tokens(Entries)[(k + 1) + j]
      OBVIOUS
    <3>1. j + 1 \in 1 .. m /\ k + (j + 1) = (k + 1) + j
      BY <1>1
    <3>2. Tail(f)[j] = f[j + 1]
      BY <1>8
    <3>3. f[j + 1] = Tokens(Entries)[k + (j + 1)]
      BY <1>2, <3>1
    <3> QED
      BY <3>1, <3>2, <3>3
  <2>3. Tail(f) = [j \in 1 .. m - 1 |-> Tail(f)[j]]
    BY <1>8, <2>1
  <2> QED
    BY <1>3, <2>2, <2>3
<1> QED
  BY <1>7, <1>9, <1>10 DEF f

-----------------------------------------------------------------------------
(* Reading the file.                                                       *)

FieldSet == [load : Int, cross : Int, loop : Int, store : Int, times : Int]

(* What the loader makes of an entry, and of the first n.                  *)
DepOf(e) == [loop |-> LoopOf(e.loop), first |-> InstrOf(e.load),
             second |-> InstrOf(e.store), times |-> e.total]

Read(n) == [i \in 1 .. n |-> DepOf(Entries[i])]

(* q lines and s tokens of the next one have been read.                    *)
ReadUpTo(q, s) ==
  /\ q = NumEntries => s = 0
  /\ file = Remaining(8 * q + s)
  /\ numCnt = 6 * q + (IF s < 6 THEN s ELSE 6)
  /\ fields \in FieldSet
  /\ s >= 1 => fields.load = Entries[q + 1].load
  /\ s >= 3 => fields.loop = Entries[q + 1].loop
  /\ s >= 4 => fields.store = Entries[q + 1].store
  /\ deps = Read(IF s >= 5 THEN q + 1 ELSE q)

Reading == \E q \in 0 .. NumEntries, s \in 0 .. 7 : ReadUpTo(q, s)

LoopsMapped ==
  loopOf = {<<Cardinality(Positions(source)) + (j - 1), LoopOrder[j]>> :
              j \in 1 .. Len(LoopOrder) - Len(toMap)}

LoadInv ==
  /\ IsRest(toMap) /\ LoopsMapped
  /\ stage \in {"opt", "run"} => numCnt = 0 /\ deps = <<>> /\ fields \in FieldSet
  /\ InOrder =>
       /\ stage \in {"load", "read", "done"} => toHook = <<>>
       /\ stage = "load" => ReadUpTo(0, 0)
       /\ stage = "read" => Reading
       /\ stage = "done" => deps = Read(NumEntries)

LEMMA LineIs ==
  ASSUME NEW e
  PROVE  /\ Line(e)[1] = Number(e.load) /\ Line(e)[2] = Number(e.dist)
         /\ Line(e)[3] = Number(e.loop) /\ Line(e)[4] = Number(e.store)
         /\ Line(e)[5] = Number(e.total) /\ Line(e)[6] = Number(0)
         /\ Line(e)[7] = Paren /\ Line(e)[8] = Paren
BY DEF Line

LEMMA TextIs ==
  /\ \A n : Number(n).text = "number" /\ Number(n).num = n
  /\ Paren.text = ")" /\ End.text = "END"
BY DEF Number, Paren, End

LEMMA TextAt ==
  ASSUME NEW e, NEW s \in 0 .. 7
  PROVE  Line(e)[s + 1].text = IF s <= 5 THEN "number" ELSE ")"
<1> DEFINE l == Line(e)
           j == s + 1
<1>1. /\ l[1].text = "number" /\ l[2].text = "number" /\ l[3].text = "number"
      /\ l[4].text = "number" /\ l[5].text = "number" /\ l[6].text = "number"
      /\ l[7].text = ")" /\ l[8].text = ")"
  <2>1. /\ l[1] = Number(e.load) /\ l[2] = Number(e.dist) /\ l[3] = Number(e.loop)
        /\ l[4] = Number(e.store) /\ l[5] = Number(e.total) /\ l[6] = Number(0)
        /\ l[7] = Paren /\ l[8] = Paren
    BY LineIs
  <2> HIDE DEF l
  <2> QED
    BY <2>1 DEF Number, Paren
<1>2. /\ s <= 5 => j = 1 \/ j = 2 \/ j = 3 \/ j = 4 \/ j = 5 \/ j = 6
      /\ ~(s <= 5) => j = 7 \/ j = 8
  OBVIOUS
<1> HIDE DEF l, j
<1>3. s <= 5 => l[j].text = "number"
  BY <1>1, <1>2
<1>4. ~(s <= 5) => l[j].text = ")"
  BY <1>1, <1>2
<1> QED
  BY <1>3, <1>4 DEF l, j

LEMMA FieldsAfter ==
  ASSUME fields \in FieldSet, NEW num \in Int, NEW n, n % 6 \in 0 .. 5,
         NEW f, f = FieldsAt(n, num)
  PROVE  /\ f \in FieldSet
         /\ n % 6 = 1 => f.load = num
         /\ n % 6 /= 1 => f.load = fields.load
         /\ n % 6 = 3 => f.loop = num
         /\ n % 6 /= 3 => f.loop = fields.loop
         /\ n % 6 = 4 => f.store = num
         /\ n % 6 /= 4 => f.store = fields.store
         /\ n % 6 = 5 => f.times = num
<1> DEFINE r == n % 6
<1>1. f = CASE r = 1 -> [fields EXCEPT !.load = num]
            [] r = 2 -> [fields EXCEPT !.cross = num]
            [] r = 3 -> [fields EXCEPT !.loop = num]
            [] r = 4 -> [fields EXCEPT !.store = num]
            [] r = 5 -> [fields EXCEPT !.times = num]
            [] OTHER -> fields
  BY DEF FieldsAt
<1>2. r \in 0 .. 5
  OBVIOUS
<1> HIDE DEF r
<1>3. /\ r = 0 => f = fields
      /\ r = 1 => f = [fields EXCEPT !.load = num]
      /\ r = 2 => f = [fields EXCEPT !.cross = num]
      /\ r = 3 => f = [fields EXCEPT !.loop = num]
      /\ r = 4 => f = [fields EXCEPT !.store = num]
      /\ r = 5 => f = [fields EXCEPT !.times = num]
  BY <1>1, <1>2
<1>4. /\ f \in FieldSet
      /\ r = 1 => f.load = num
      /\ r /= 1 => f.load = fields.load
      /\ r = 3 => f.loop = num
      /\ r /= 3 => f.loop = fields.loop
      /\ r = 4 => f.store = num
      /\ r /= 4 => f.store = fields.store
      /\ r = 5 => f.times = num
  <2>1. CASE r = 0
    BY <1>3, <2>1
  <2>2. CASE r = 1
    BY <1>3, <2>2 DEF FieldSet
  <2>3. CASE r = 2
    BY <1>3, <2>3 DEF FieldSet
  <2>4. CASE r = 3
    BY <1>3, <2>4 DEF FieldSet
  <2>5. CASE r = 4
    BY <1>3, <2>5 DEF FieldSet
  <2>6. CASE r = 5
    BY <1>3, <2>6 DEF FieldSet
  <2> QED
    BY <1>2, <2>1, <2>2, <2>3, <2>4, <2>5, <2>6
<1> QED
  BY <1>4 DEF r

LEMMA ReadNone == Read(0) = <<>>
<1>1. 1 .. 0 = {}
  OBVIOUS
<1> QED
  BY <1>1 DEF Read

LEMMA ReadOneMore ==
  ASSUME NEW n \in Nat
  PROVE  Append(Read(n), DepOf(Entries[n + 1])) = Read(n + 1)
<1> DEFINE S == {DepOf(Entries[i]) : i \in 1 .. n + 1}
           D(i) == DepOf(Entries[i])
           f == Read(n)
           g == Read(n + 1)
<1>1. /\ f = [i \in 1 .. n |-> D(i)] /\ g = [i \in 1 .. n + 1 |-> D(i)]
      /\ \A i \in 1 .. n + 1 : D(i) \in S
  BY DEF Read
<1> HIDE DEF S, D, f, g
<1>2. f \in [1 .. n -> S] /\ g \in [1 .. n + 1 -> S]
  BY <1>1
<1>3. f \in Seq(S) /\ Len(f) = n /\ g \in Seq(S) /\ Len(g) = n + 1
  BY <1>2
<1>4. n + 1 \in 1 .. n + 1
  OBVIOUS
<1>5. D(n + 1) \in S
  BY <1>1, <1>4
<1> DEFINE h == Append(f, D(n + 1))
<1>6. /\ h \in Seq(S) /\ Len(h) = n + 1 /\ h[n + 1] = D(n + 1)
      /\ \A i \in 1 .. n : h[i] = f[i]
  BY <1>3, <1>5, AppendProperties
<1> HIDE DEF h
<1>7. \A i \in 1 .. n + 1 : h[i] = g[i]
  <2> SUFFICES ASSUME NEW i \in 1 .. n + 1 PROVE h[i] = g[i]
    OBVIOUS
  <2>1. CASE i = n + 1
    BY <1>1, <1>6, <2>1
  <2>2. CASE i /= n + 1
    <3>1. i \in 1 .. n
      BY <2>2
    <3> QED
      BY <1>1, <1>6, <3>1
  <2> QED
    BY <2>1, <2>2
<1>8. h = g
  BY <1>3, <1>6, <1>7, SeqEqual
<1> QED
  BY <1>8 DEF h, D, f, g

(* The loader's maps and the profile do not change while it reads.         *)
LEMMA StaysReadable ==
  ASSUME UNCHANGED <<source, profile>>
  PROVE  /\ Entries' = Entries /\ NumEntries' = NumEntries
         /\ Positions(source)' = Positions(source)
         /\ \A k : Remaining(k)' = Remaining(k)
         /\ loopOf' = loopOf => \A n : Read(n)' = Read(n)
<1>1. Entries' = Entries /\ NumEntries' = NumEntries /\ Positions(source)' = Positions(source)
  BY DEF Entries, NumEntries, Positions
<1>2. \A k : Remaining(k)' = Remaining(k)
  BY <1>1 DEF Remaining
<1>3. \A id : InstrOf(id)' = InstrOf(id)
  BY <1>1 DEF InstrOf, LampId
<1>4. ASSUME loopOf' = loopOf PROVE \A id : LoopOf(id)' = LoopOf(id)
  BY <1>4 DEF LoopOf
<1>5. ASSUME loopOf' = loopOf PROVE \A n : Read(n)' = Read(n)
  BY <1>1, <1>3, <1>4, <1>5 DEF Read, DepOf
<1> QED
  BY <1>1, <1>2, <1>5

(* The next token, by the line it is on.                                   *)
LEMMA NextToken ==
  ASSUME ProfileOK, NEW q \in 0 .. NumEntries, NEW s \in 0 .. 7, ReadUpTo(q, s)
  PROVE  /\ NumEntries \in Nat /\ file /= <<>> /\ 8 * q + s \in 0 .. 8 * NumEntries
         /\ Tail(file) = Remaining(8 * q + s + 1)
         /\ q = NumEntries => Head(file) = End
         /\ q /= NumEntries => /\ Head(file) = Line(Entries[q + 1])[s + 1]
                               /\ Entries[q + 1] \in profile
<1>1. /\ NumEntries \in Nat /\ Len(Entries) = NumEntries
      /\ \A i \in 1 .. NumEntries : Entries[i] \in profile
  BY EntriesListProfile DEF ProfileOK, NumEntries
<1>2. file = Remaining(8 * q + s) /\ (q = NumEntries => s = 0)
  BY DEF ReadUpTo
<1>3. 8 * q + s \in 0 .. 8 * NumEntries
  BY <1>1, <1>2
<1>4. /\ file /= <<>> /\ Head(file) = Tokens(Entries)[8 * q + s + 1]
      /\ Tail(file) = Remaining(8 * q + s + 1)
  <2> DEFINE k == 8 * q + s
  <2>1. k \in 0 .. 8 * NumEntries /\ file = Remaining(k)
    BY <1>2, <1>3
  <2> HIDE DEF k
  <2>2. /\ file /= <<>> /\ Head(file) = Tokens(Entries)[k + 1] /\ Tail(file) = Remaining(k + 1)
    BY <1>1, <2>1, RemainingIs
  <2> QED
    BY <2>2 DEF k
<1>5. Tokens(Entries)[8 * q + s + 1] =
        IF q = Len(Entries) THEN End ELSE Line(Entries[q + 1])[s + 1]
  BY <1>1, <1>2, TokenAt
<1>6. q /= NumEntries => q + 1 \in 1 .. NumEntries
  BY <1>1
<1> QED
  BY <1>1, <1>3, <1>4, <1>5, <1>6

(* The six numbers of a line.                                              *)
LEMMA NumberRead ==
  ASSUME OptInv, ProfileOK, InOrder, Reading, ReadNumber, UNCHANGED <<source, profile>>
  PROVE  Reading'
<1>1. PICK q \in 0 .. NumEntries, s \in 0 .. 7 : ReadUpTo(q, s)
  BY DEF Reading
<1> DEFINE e == Entries[q + 1]
           n == numCnt + 1
           num == Head(file).num
           f == FieldsAt(n, num)
<1>2. /\ NumEntries \in Nat /\ 8 * q + s \in 0 .. 8 * NumEntries
      /\ Tail(file) = Remaining(8 * q + s + 1)
      /\ q = NumEntries => Head(file) = End
      /\ q /= NumEntries => Head(file) = Line(e)[s + 1] /\ e \in profile
  BY <1>1, NextToken
<1>3. q /= NumEntries
  BY <1>2, TextIs DEF ReadNumber
<1>4. /\ e \in profile /\ e \in EntrySet /\ EntryOK(e)
      /\ e.load \in Int /\ e.dist \in Int /\ e.loop \in Int /\ e.store \in Int /\ e.total \in Int
  <2>1. e \in profile /\ e \in EntrySet /\ EntryOK(e)
    BY <1>2, <1>3 DEF ProfileOK
  <2> HIDE DEF e
  <2> QED
    BY <2>1 DEF EntrySet
<1> HIDE DEF e
<1>5. s \in 0 .. 5
  <2>1. s /= 6 /\ s /= 7
    <3>1. Line(e)[7] = Paren /\ Line(e)[8] = Paren
      BY LineIs
    <3>2. Head(file).text = "number"
      BY DEF ReadNumber
    <3> QED
      BY <1>2, <1>3, <3>1, <3>2, TextIs
  <2> QED
    BY <2>1
<1>6. /\ numCnt = 6 * q + s /\ n = 6 * q + (s + 1) /\ q \in Nat
      /\ s = 5 => n % 6 = 0
      /\ s /= 5 => n % 6 = s + 1
      /\ n % 6 \in 0 .. 5
  <2>1. numCnt = 6 * q + s /\ q \in Nat
    BY <1>1, <1>2, <1>5 DEF ReadUpTo
  <2>2. n = 6 * q + (s + 1)
    BY <1>5, <2>1
  <2>3. s = 5 => n % 6 = 0
    BY <2>1, <2>2, SixPerLine
  <2>4. s /= 5 => s + 1 \in 0 .. 5 /\ n % 6 = s + 1
    BY <1>5, <2>1, <2>2, SixPerLine
  <2> QED
    BY <1>5, <2>1, <2>2, <2>3, <2>4
<1>7. /\ s = 0 => num = e.load
      /\ s = 2 => num = e.loop
      /\ s = 3 => num = e.store
      /\ s = 4 => num = e.total
      /\ num \in Int
  <2>1. Head(file) = Line(e)[s + 1]
    BY <1>2, <1>3
  <2>2. /\ s = 0 => Head(file) = Number(e.load)
        /\ s = 1 => Head(file) = Number(e.dist)
        /\ s = 2 => Head(file) = Number(e.loop)
        /\ s = 3 => Head(file) = Number(e.store)
        /\ s = 4 => Head(file) = Number(e.total)
        /\ s = 5 => Head(file) = Number(0)
    BY <2>1, LineIs
  <2> QED
    BY <1>4, <1>5, <2>2, TextIs
<1>8. /\ fields' = f /\ numCnt' = n /\ file' = Remaining(8 * q + s + 1) /\ loopOf' = loopOf
      /\ deps' = IF n % 6 = 5 /\ Known(f.load) /\ Known(f.store)
                 THEN Append(deps, [loop |-> LoopOf(f.loop), first |-> InstrOf(f.load),
                                    second |-> InstrOf(f.store), times |-> f.times])
                 ELSE deps
  BY <1>2 DEF ReadNumber
<1> HIDE DEF n, num, f
<1>9. fields \in FieldSet
  BY <1>1 DEF ReadUpTo
<1>10. /\ f \in FieldSet
       /\ n % 6 = 1 => f.load = num
       /\ n % 6 /= 1 => f.load = fields.load
       /\ n % 6 = 3 => f.loop = num
       /\ n % 6 /= 3 => f.loop = fields.loop
       /\ n % 6 = 4 => f.store = num
       /\ n % 6 /= 4 => f.store = fields.store
       /\ n % 6 = 5 => f.times = num
  <2>1. f = FieldsAt(n, num)
    BY DEF f
  <2> QED
    BY <1>6, <1>7, <1>9, <2>1, FieldsAfter
<1>11. /\ f.load = e.load
       /\ s >= 2 => f.loop = e.loop
       /\ s >= 3 => f.store = e.store
       /\ s = 4 => f.times = e.total
  <2>1. /\ s >= 1 => fields.load = e.load
        /\ s >= 3 => fields.loop = e.loop
        /\ s >= 4 => fields.store = e.store
    BY <1>1 DEF ReadUpTo, e
  <2> DEFINE r == n % 6
  <2>2. (s = 5 => r = 0) /\ (s /= 5 => r = s + 1)
    BY <1>6
  <2>3. /\ r = 1 => f.load = num
        /\ r /= 1 => f.load = fields.load
        /\ r = 3 => f.loop = num
        /\ r /= 3 => f.loop = fields.loop
        /\ r = 4 => f.store = num
        /\ r /= 4 => f.store = fields.store
        /\ r = 5 => f.times = num
    BY <1>10
  <2> HIDE DEF r
  <2>4. f.load = e.load
    BY <1>5, <1>7, <2>1, <2>2, <2>3
  <2>5. s >= 2 => f.loop = e.loop
    BY <1>5, <1>7, <2>1, <2>2, <2>3
  <2>6. s >= 3 => f.store = e.store
    BY <1>5, <1>7, <2>1, <2>2, <2>3
  <2>7. s = 4 => f.times = e.total
    BY <1>5, <1>7, <2>1, <2>2, <2>3
  <2> QED
    BY <2>4, <2>5, <2>6, <2>7
<1>12. deps' = Read(IF s + 1 >= 5 THEN q + 1 ELSE q)
  <2>1. CASE s = 4
    <3>1. n % 6 = 5 /\ f.load = e.load /\ f.loop = e.loop /\ f.store = e.store /\ f.times = e.total
      BY <1>6, <1>11, <2>1
    <3>2. Known(f.load) /\ Known(f.store)
      BY <1>4, <3>1, LampIdsAreNumbers DEF OptInv, OptTypes, EntryOK
    <3>3. deps' = Append(deps, DepOf(e))
      BY <1>8, <3>1, <3>2 DEF DepOf
    <3>4. deps = Read(q)
      BY <1>1, <2>1 DEF ReadUpTo
    <3>5. deps' = Read(q + 1)
      BY <1>6, <3>3, <3>4, ReadOneMore DEF e
    <3> QED
      BY <2>1, <3>5
  <2>2. CASE s /= 4
    <3>1. n % 6 /= 5
      BY <1>5, <1>6, <2>2
    <3>2. deps' = deps /\ deps = Read(IF s >= 5 THEN q + 1 ELSE q)
      BY <1>1, <1>8, <3>1 DEF ReadUpTo
    <3>3. s >= 5 <=> s + 1 >= 5
      BY <1>5, <2>2
    <3> QED
      BY <3>2, <3>3
  <2> QED
    BY <2>1, <2>2
<1>13. /\ Entries' = Entries /\ NumEntries' = NumEntries
       /\ \A k : Remaining(k)' = Remaining(k)
       /\ \A k : Read(k)' = Read(k)
  BY <1>8, StaysReadable
<1>14. ReadUpTo(q, s + 1)'
  <2>1. q = NumEntries' => s + 1 = 0
    BY <1>3, <1>13
  <2>2. file' = Remaining(8 * q + (s + 1))'
    <3>1. 8 * q + s + 1 = 8 * q + (s + 1)
      BY <1>5, <1>6
    <3> QED
      BY <1>8, <1>13, <3>1
  <2>3. numCnt' = 6 * q + (IF s + 1 < 6 THEN s + 1 ELSE 6)
    BY <1>5, <1>6, <1>8
  <2>4. fields' \in FieldSet
    BY <1>8, <1>10
  <2>5. /\ s + 1 >= 1 => fields'.load = Entries'[q + 1].load
        /\ s + 1 >= 3 => fields'.loop = Entries'[q + 1].loop
        /\ s + 1 >= 4 => fields'.store = Entries'[q + 1].store
    BY <1>5, <1>8, <1>11, <1>13 DEF e
  <2>6. deps' = Read(IF s + 1 >= 5 THEN q + 1 ELSE q)'
    BY <1>12, <1>13
  <2> QED
    BY <2>1, <2>2, <2>3, <2>4, <2>5, <2>6 DEF ReadUpTo
<1>15. s + 1 \in 0 .. 7 /\ q \in 0 .. NumEntries'
  BY <1>5, <1>13
<1> QED
  BY <1>14, <1>15 DEF Reading

(* The parentheses end the line.                                           *)
LEMMA ParenRead ==
  ASSUME ProfileOK, InOrder, Reading, DropParen, UNCHANGED <<source, profile>>
  PROVE  Reading'
<1>1. PICK q \in 0 .. NumEntries, s \in 0 .. 7 : ReadUpTo(q, s)
  BY DEF Reading
<1>2. /\ NumEntries \in Nat /\ 8 * q + s \in 0 .. 8 * NumEntries
      /\ Tail(file) = Remaining(8 * q + s + 1)
      /\ q = NumEntries => Head(file) = End
      /\ q /= NumEntries => Head(file) = Line(Entries[q + 1])[s + 1]
  BY <1>1, NextToken
<1>3. q /= NumEntries
  BY <1>2, TextIs DEF DropParen
<1>4. s = 6 \/ s = 7
  <2>1. Head(file).text = IF s <= 5 THEN "number" ELSE ")"
    BY <1>2, <1>3, TextAt
  <2>2. Head(file).text /= "number"
    BY DEF DropParen
  <2> QED
    BY <2>1, <2>2
<1>5. /\ UNCHANGED <<loopOf, numCnt, fields, deps>> /\ file' = Remaining(8 * q + s + 1)
  BY <1>2 DEF DropParen
<1>6. /\ numCnt = 6 * q + 6 /\ fields \in FieldSet /\ deps = Read(q + 1)
      /\ fields.load = Entries[q + 1].load /\ fields.loop = Entries[q + 1].loop
      /\ fields.store = Entries[q + 1].store
  BY <1>1, <1>4 DEF ReadUpTo
<1>7. /\ Entries' = Entries /\ NumEntries' = NumEntries
      /\ \A k : Remaining(k)' = Remaining(k)
      /\ \A k : Read(k)' = Read(k)
  BY <1>5, StaysReadable
<1>8. CASE s = 6
  <2>1. 8 * q + s + 1 = 8 * q + 7
    BY <1>8
  <2>2. file' = Remaining(8 * q + 7)'
    BY <1>5, <1>7, <2>1
  <2>3. ReadUpTo(q, 7)'
    BY <1>3, <1>5, <1>6, <1>7, <2>2 DEF ReadUpTo
  <2> QED
    BY <1>7, <2>3 DEF Reading
<1>9. CASE s = 7
  <2>1. 8 * q + s + 1 = 8 * (q + 1) + 0 /\ 6 * q + 6 = 6 * (q + 1) + 0 /\ q + 1 \in 0 .. NumEntries
    BY <1>2, <1>3, <1>9
  <2>2. file' = Remaining(8 * (q + 1) + 0)'
    BY <1>5, <1>7, <2>1
  <2>3. ReadUpTo(q + 1, 0)'
    BY <1>5, <1>6, <1>7, <2>1, <2>2 DEF ReadUpTo
  <2> QED
    BY <1>7, <2>1, <2>3 DEF Reading
<1> QED
  BY <1>4, <1>8, <1>9

(* At END every line has been read.                                        *)
LEMMA AllRead ==
  ASSUME ProfileOK, InOrder, Reading, FinishReading
  PROVE  deps = Read(NumEntries)
<1>1. PICK q \in 0 .. NumEntries, s \in 0 .. 7 : ReadUpTo(q, s)
  BY DEF Reading
<1>2. q /= NumEntries => Head(file) = Line(Entries[q + 1])[s + 1]
  BY <1>1, NextToken
<1>3. q = NumEntries
  <2>1. q /= NumEntries => Head(file).text = IF s <= 5 THEN "number" ELSE ")"
    BY <1>2, TextAt
  <2>2. Head(file).text = "END"
    BY DEF FinishReading
  <2> QED
    BY <2>1, <2>2
<1> QED
  BY <1>1, <1>3 DEF ReadUpTo

LEMMA LoadStart == Init => LoadInv
<1> SUFFICES ASSUME Init PROVE LoadInv
  OBVIOUS
<1>1. /\ toMap = LoopOrder /\ loopOf = {} /\ numCnt = 0 /\ deps = <<>> /\ stage = "opt"
      /\ fields = [load |-> 0, cross |-> 0, loop |-> 0, store |-> 0, times |-> 0]
  BY DEF Init, InsertInit, LoadInit
<1>2. fields \in FieldSet
  BY <1>1 DEF FieldSet
<1>3. IsRest(toMap) /\ Len(LoopOrder) - Len(toMap) = 0
  <2>1. LoopOrder \in Seq(Loop) /\ Len(LoopOrder) \in Nat
    BY OrderIsInjective
  <2>2. \A i \in 1 .. Len(LoopOrder) : Len(LoopOrder) - Len(LoopOrder) + i = i
    BY <2>1
  <2> QED
    BY <1>1, <2>1, <2>2 DEF IsRest
<1>4. LoopsMapped
  <2>1. 1 .. 0 = {}
    OBVIOUS
  <2> QED
    BY <1>1, <1>3, <2>1 DEF LoopsMapped
<1> QED
  BY <1>1, <1>2, <1>3, <1>4 DEF LoadInv

(* One more loop is mapped under the number it was hooked with.            *)
LEMMA MapsOneMore ==
  ASSUME OptInv, LoadInv, BuildLoopMap, source' = source
  PROVE  IsRest(toMap)' /\ LoopsMapped'
<1> DEFINE done == Len(LoopOrder) - Len(toMap)
           more == Len(LoopOrder) - Len(toMap')
           C == Cardinality(Positions(source))
           pair(j) == <<C + (j - 1), LoopOrder[j]>>
<1>1. /\ toMap /= <<>> /\ toMap' = Tail(toMap) /\ IsRest(toMap)
      /\ loopOf = {pair(j) : j \in 1 .. done}
      /\ loopOf' = loopOf \cup
           {<<Cardinality(Positions(source)) + Len(LoopOrder) - Len(toMap), Head(toMap)>>}
  BY DEF BuildLoopMap, CountInsts, LoadInv, LoopsMapped
<1>2. LET before == Len(LoopOrder) - Len(toMap)
      IN  /\ before \in Nat /\ before + 1 \in 1 .. Len(LoopOrder)
          /\ Head(toMap) = LoopOrder[before + 1] /\ Head(toMap) \in Loop
          /\ IsRest(Tail(toMap)) /\ Len(LoopOrder) - Len(Tail(toMap)) = before + 1
  BY <1>1, RestShrinks
<1>3. /\ done \in Nat /\ Head(toMap) = LoopOrder[done + 1]
      /\ IsRest(toMap') /\ more = done + 1
  BY <1>1, <1>2
<1>4. Positions(source)' = Positions(source)
  BY DEF Positions
<1>5. Cardinality(Positions(source)) + Len(LoopOrder) - Len(toMap) = C + ((done + 1) - 1)
  <2>1. Len(LoopOrder) \in Nat /\ Len(toMap) \in Nat
    BY <1>1, OrderIsInjective, LenProperties DEF IsRest
  <2>2. C \in Nat
    BY LampIdsAreNumbers DEF OptInv, OptTypes
  <2> QED
    BY <2>1, <2>2
<1>6. loopOf' = {pair(j) : j \in 1 .. done} \cup {pair(done + 1)}
  BY <1>1, <1>3, <1>5
<1>7. 1 .. more = (1 .. done) \cup {done + 1}
  BY <1>3
<1> HIDE DEF done, more, pair
<1>8. loopOf' = {pair(j) : j \in 1 .. more}
  BY <1>6, <1>7
<1>9. LoopsMapped'
  BY <1>4, <1>8 DEF LoopsMapped, more, pair
<1>10. IsRest(toMap)'
  BY <1>3 DEF IsRest
<1> QED
  BY <1>9, <1>10

(* What the loader knows before the file is there, and while it only waits.*)
LEMMA MapStays ==
  ASSUME LoadInv, UNCHANGED <<source, toMap, loopOf>>
  PROVE  IsRest(toMap)' /\ LoopsMapped'
<1>1. Positions(source)' = Positions(source)
  BY DEF Positions
<1> QED
  BY <1>1 DEF LoadInv, LoopsMapped, IsRest

LEMMA NotYetLoading ==
  ASSUME LoadInv, UNCHANGED <<source, loadVars>>,
         stage \in {"opt", "run"}, stage' \in {"opt", "run", "crashed"}
  PROVE  LoadInv'
<1>1. IsRest(toMap)' /\ LoopsMapped'
  BY MapStays DEF loadVars
<1>2. numCnt' = 0 /\ deps' = <<>> /\ fields' \in FieldSet
  BY DEF LoadInv, loadVars
<1> QED
  BY <1>1, <1>2 DEF LoadInv

LEMMA ReadStays ==
  ASSUME UNCHANGED <<source, profile, loadVars>>, NEW q, NEW s, ReadUpTo(q, s)
  PROVE  ReadUpTo(q, s)'
<1>1. UNCHANGED <<file, numCnt, fields, deps, loopOf>>
  BY DEF loadVars
<1>2. /\ Entries' = Entries /\ NumEntries' = NumEntries
      /\ \A k : Remaining(k)' = Remaining(k)
      /\ \A k : Read(k)' = Read(k)
  BY <1>1, StaysReadable
<1> QED
  BY <1>1, <1>2 DEF ReadUpTo

LEMMA RemainingAll ==
  ASSUME NumEntries \in Nat, Len(Entries) = NumEntries
  PROVE  Remaining(0) = Tokens(Entries)
<1> DEFINE t == Tokens(Entries)
           n == 8 * NumEntries + 1
<1>1. n \in Nat
  OBVIOUS
<1>2. t = [j \in 1 .. n |-> t[j]]
  BY DEF Tokens
<1>3. ASSUME NEW k PROVE Remaining(k) = [j \in 1 .. 8 * NumEntries + (1 - k) |-> t[k + j]]
  BY DEF Remaining
<1>4. ASSUME NEW k, k = 0 PROVE Remaining(k) = t
  <2>1. 8 * NumEntries + (1 - k) = n /\ \A j \in 1 .. n : k + j = j
    BY <1>1, <1>4
  <2> HIDE DEF n, t
  <2>2. Remaining(k) = [j \in 1 .. n |-> t[k + j]]
    BY <1>3, <2>1
  <2> QED
    BY <1>2, <2>1, <2>2
<1> QED
  BY <1>4

LEMMA LoadStep ==
  ASSUME OptInv, RunTypes, RunInv, ProfileOK, LoadInv, [Next]_vars
  PROVE  LoadInv'
<1> USE DEF LoadInv
<1>1. CASE OptNext /\ UNCHANGED <<loadVars, runVars>>
  <2>1. stage = "opt" /\ stage' = "opt" /\ source' = source
    BY <1>1 DEF OptNext, CountInstrs, LampProfiler, LampLoopProfiler, LampInit, BetweenPasses
  <2> QED
    BY <1>1, <2>1, NotYetLoading
<1>2. CASE Run \/ AccessThrows \/ \E b \in Block : Jump(b)
  <2>1. /\ stage \in {"opt", "run"} /\ stage' \in {"run", "crashed"}
        /\ UNCHANGED <<source, loadVars>>
    BY <1>2 DEF Run, AccessThrows, Executes, Jump, optVars
  <2> QED
    BY <2>1, NotYetLoading
<1>3. CASE \/ LoopInvocation \/ LoopIterationBegin \/ LoopExit \/ Initialize \/ Skip
           \/ Load \/ Store \/ ExternalCall
  <2>1. (\E op : Executes(op)) /\ Advance
    BY <1>3 DEF LoopInvocation, LoopIterationBegin, LoopExit, Initialize, Skip,
                Load, Store, ExternalCall
  <2>2. stage = "run" /\ stage' = "run" /\ UNCHANGED <<source, loadVars>>
    BY <2>1 DEF Executes, Advance, optVars
  <2> QED
    BY <2>2, NotYetLoading
<1>4. CASE NotRun
  <2>1. stage' = "load" /\ ran' = <<>> /\ UNCHANGED <<source, toMap, loopOf>>
    BY <1>4 DEF NotRun, optVars, loadVars
  <2>2. ~InOrder'
    <3>1. Len(<<>>) = 0
      OBVIOUS
    <3> QED
      BY <2>1, <3>1 DEF InOrder
  <2> QED
    BY <2>1, <2>2, MapStays
<1>5. CASE Finish
  <2>1. /\ stage = "run" /\ stage' = "load" /\ file' = Tokens(Entries)
        /\ UNCHANGED <<source, toHook, profile, toMap, loopOf, numCnt, fields, deps>>
    BY <1>5 DEF Finish, Executes, optVars
  <2>2. toHook' = <<>> /\ numCnt' = 0 /\ deps' = <<>> /\ fields' \in FieldSet
    BY <2>1 DEF RunInv
  <2>3. /\ Entries' = Entries /\ NumEntries' = NumEntries
        /\ \A k : Remaining(k)' = Remaining(k)
        /\ \A k : Read(k)' = Read(k)
    BY <2>1, StaysReadable
  <2>4. file' = Remaining(0)
    <3>1. NumEntries \in Nat /\ Len(Entries) = NumEntries
      BY EntriesListProfile DEF ProfileOK, NumEntries
    <3> QED
      BY <2>1, <3>1, RemainingAll
  <2>5. deps' = Read(0)
    BY <2>2, ReadNone
  <2>6. ReadUpTo(0, 0)'
    <3>1. 8 * 0 + 0 = 0 /\ 6 * 0 + 0 = 0
      OBVIOUS
    <3> QED
      BY <2>2, <2>3, <2>4, <2>5, <3>1 DEF ReadUpTo
  <2> QED
    BY <2>1, <2>2, <2>6, MapStays
<1>6. CASE LoadNext /\ UNCHANGED runVars
  <2>1. UNCHANGED <<source, toHook, ran, profile>>
    BY <1>6 DEF LoadNext, optVars, runVars
  <2>2. InOrder' <=> InOrder
    BY <2>1 DEF InOrder
  <2>3. CASE BuildLoopMap
    <3>1. /\ stage = "load" /\ stage' = "load"
          /\ UNCHANGED <<file, numCnt, fields, deps>>
      BY <2>3 DEF BuildLoopMap
    <3>2. IsRest(toMap)' /\ LoopsMapped'
      BY <2>1, <2>3, MapsOneMore
    <3>3. ASSUME InOrder PROVE ReadUpTo(0, 0)'
      <4>1. ReadUpTo(0, 0)
        BY <3>1, <3>3
      <4>2. Read(0)' = Read(0)
        <5>1. 1 .. 0 = {}
          OBVIOUS
        <5> QED
          BY <5>1 DEF Read
      <4>3. NumEntries' = NumEntries /\ \A k : Remaining(k)' = Remaining(k)
        BY <2>1, StaysReadable
      <4> QED
        BY <3>1, <4>1, <4>2, <4>3 DEF ReadUpTo
    <3> QED
      BY <2>1, <2>2, <3>1, <3>2, <3>3
  <2>4. CASE StartLoading
    <3>1. stage = "load" /\ stage' = "read" /\ UNCHANGED loadVars
      BY <2>4 DEF StartLoading
    <3>2. ASSUME InOrder PROVE Reading'
      <4>1. ReadUpTo(0, 0)'
        BY <2>1, <3>1, <3>2, ReadStays
      <4>2. 0 \in 0 .. NumEntries' /\ 0 \in 0 .. 7
        <5>1. NumEntries' = NumEntries
          BY <2>1, StaysReadable
        <5>2. NumEntries \in Nat
          BY EntriesListProfile DEF ProfileOK, NumEntries
        <5> QED
          BY <5>1, <5>2
      <4> QED
        BY <4>1, <4>2 DEF Reading
    <3> QED
      BY <2>1, <2>2, <3>1, <3>2, MapStays DEF loadVars
  <2>5. CASE ReadNumber
    <3>1. stage = "read" /\ stage' = "read" /\ UNCHANGED <<toMap, loopOf>>
      BY <2>5 DEF ReadNumber
    <3> QED
      BY <2>1, <2>2, <2>5, <3>1, NumberRead, MapStays
  <2>6. CASE DropParen
    <3>1. stage = "read" /\ stage' = "read" /\ UNCHANGED <<toMap, loopOf>>
      BY <2>6 DEF DropParen
    <3> QED
      BY <2>1, <2>2, <2>6, <3>1, ParenRead, MapStays
  <2>7. CASE FinishReading
    <3>1. stage = "read" /\ stage' = "done" /\ UNCHANGED <<toMap, loopOf, deps>>
      BY <2>7 DEF FinishReading
    <3>2. ASSUME InOrder PROVE deps' = Read(NumEntries)'
      <4>1. deps = Read(NumEntries)
        BY <2>7, <3>1, <3>2, AllRead
      <4>2. NumEntries' = NumEntries /\ \A k : Read(k)' = Read(k)
        BY <2>1, <3>1, StaysReadable
      <4> QED
        BY <3>1, <4>1, <4>2 DEF Read
    <3> QED
      BY <2>1, <2>2, <3>1, <3>2, MapStays
  <2>8. CASE NoProfile
    <3>1. stage = "read" /\ stage' = "done" /\ file = <<>> /\ UNCHANGED loadVars
      BY <2>8 DEF NoProfile
    <3>2. ~InOrder
      <4> SUFFICES ASSUME InOrder PROVE FALSE
        OBVIOUS
      <4>1. PICK q \in 0 .. NumEntries, s \in 0 .. 7 : ReadUpTo(q, s)
        BY <3>1 DEF Reading
      <4> QED
        BY <3>1, <4>1, NextToken
    <3> QED
      BY <2>1, <2>2, <3>1, <3>2, MapStays DEF loadVars
  <2> QED
    BY <1>6, <2>3, <2>4, <2>5, <2>6, <2>7, <2>8 DEF LoadNext
<1>7. CASE UNCHANGED vars
  <2>1. UNCHANGED <<stage, source, toHook, ran, profile, loadVars>>
    BY <1>7 DEF vars, optVars, runVars
  <2>2. UNCHANGED <<toMap, loopOf, numCnt, fields, deps>>
    BY <2>1 DEF loadVars
  <2>3. NumEntries' = NumEntries /\ \A k : Read(k)' = Read(k)
    BY <2>1, <2>2, StaysReadable
  <2>4. Reading => Reading'
    BY <2>1, <2>3, ReadStays DEF Reading
  <2>5. ReadUpTo(0, 0) => ReadUpTo(0, 0)'
    BY <2>1, ReadStays
  <2>6. deps = Read(NumEntries) => deps' = Read(NumEntries)'
    BY <2>2, <2>3 DEF Read
  <2>7. InOrder' <=> InOrder
    BY <2>1 DEF InOrder
  <2> QED
    BY <2>1, <2>2, <2>4, <2>5, <2>6, <2>7, MapStays
<1> QED
  BY <1>1, <1>2, <1>3, <1>4, <1>5, <1>6, <1>7 DEF Next

(* Both counters agree on the loops once the loader has come to all.       *)
LEMMA LoopsAgree ==
  ASSUME OptInv, LoadInv, InOrder, toHook = <<>>, toMap = <<>>
  PROVE  /\ counted = Cardinality(Positions(source))
         /\ \A l \in Loop : loopId[l] \in Nat /\ loopId[l] >= counted
         /\ \A id, l : <<id, l>> \in loopOf <=> l \in Loop /\ id = loopId[l]
         /\ \A l, m \in Loop : loopId[l] = loopId[m] => l = m
<1> DEFINE n == Len(LoopOrder)
<1>1. CountedFirst
  <2>1. Len(<<>>) = 0
    OBVIOUS
  <2> QED
    BY <2>1 DEF InOrder, CountedFirst
<1>2. n \in Nat /\ n - Len(<<>>) = n
  <2>1. Len(<<>>) = 0 /\ n \in Nat
    BY OrderIsInjective
  <2> HIDE DEF n
  <2> QED
    BY <2>1
<1>3. /\ counted = Cardinality(Positions(source)) /\ counted \in Nat
      /\ \A j \in 1 .. n : loopId[LoopOrder[j]] = counted + (j - 1)
  BY <1>1, <1>2 DEF OptInv, OptTypes, NumbersOK, NumberedLoops
<1>4. loopOf = {<<counted + (j - 1), LoopOrder[j]>> : j \in 1 .. n}
  BY <1>2, <1>3 DEF LoadInv, LoopsMapped
<1>5. /\ \A l \in Loop : \E j \in 1 .. n : l = LoopOrder[j]
      /\ \A j \in 1 .. n : LoopOrder[j] \in Loop
  BY OrderIsInjective
<1> HIDE DEF n
<1>6. \A l \in Loop : loopId[l] \in Nat /\ loopId[l] >= counted
  <2> SUFFICES ASSUME NEW l \in Loop PROVE loopId[l] \in Nat /\ loopId[l] >= counted
    OBVIOUS
  <2>1. PICK j \in 1 .. n : l = LoopOrder[j]
    BY <1>5
  <2>2. loopId[l] = counted + (j - 1)
    BY <1>3, <2>1
  <2> QED
    BY <1>2, <1>3, <2>2
<1>7. ASSUME NEW id, NEW l PROVE <<id, l>> \in loopOf <=> l \in Loop /\ id = loopId[l]
  <2>1. ASSUME <<id, l>> \in loopOf PROVE l \in Loop /\ id = loopId[l]
    <3>1. PICK j \in 1 .. n : <<id, l>> = <<counted + (j - 1), LoopOrder[j]>>
      BY <1>4, <2>1
    <3> QED
      BY <1>3, <1>5, <3>1
  <2>2. ASSUME l \in Loop, id = loopId[l] PROVE <<id, l>> \in loopOf
    <3>1. PICK j \in 1 .. n : l = LoopOrder[j]
      BY <1>5, <2>2
    <3>2. <<id, l>> = <<counted + (j - 1), LoopOrder[j]>>
      BY <1>3, <2>2, <3>1
    <3> QED
      BY <1>4, <3>2
  <2> QED
    BY <2>1, <2>2
<1>8. ASSUME NEW l \in Loop, NEW m \in Loop, loopId[l] = loopId[m] PROVE l = m
  <2>1. PICK i \in 1 .. n : l = LoopOrder[i]
    BY <1>5
  <2>2. PICK j \in 1 .. n : m = LoopOrder[j]
    BY <1>5
  <2>3. counted + (i - 1) = counted + (j - 1)
    BY <1>3, <1>8, <2>1, <2>2
  <2>4. i = j
    BY <1>2, <1>3, <2>3
  <2> QED
    BY <2>1, <2>2, <2>4
<1> QED
  BY <1>3, <1>6, <1>7, <1>8

LEMMA ComesBack ==
  ASSUME OptInv, ProfileOK, LoadInv
  PROVE  ProfileComesBack
<1> SUFFICES ASSUME stage = "done", InOrder, toMap = <<>>
             PROVE  /\ DOMAIN deps = DOMAIN Entries
                    /\ \A i \in DOMAIN deps :
                         LET t == Entries[i].truth
                             loop == IF t.loop = WholeRun THEN NoLoop ELSE t.loop
                         IN  /\ deps[i].first = t.first /\ deps[i].second = t.second
                             /\ deps[i].times = Entries[i].total
                             /\ deps[i].loop = loop <=>
                                  (t.loop = WholeRun \/ loopId[t.loop] <= LoopIdMax)
  BY DEF ProfileComesBack
<1>1. deps = Read(NumEntries) /\ toHook = <<>>
  BY DEF LoadInv
<1>2. /\ DOMAIN Entries = 1 .. NumEntries
      /\ \A i \in 1 .. NumEntries : Entries[i] \in profile
  BY EntriesListProfile DEF ProfileOK, NumEntries
<1>3. DOMAIN deps = 1 .. NumEntries /\ \A i \in 1 .. NumEntries : deps[i] = DepOf(Entries[i])
  BY <1>1 DEF Read
<1>4. /\ counted = Cardinality(Positions(source))
      /\ \A l \in Loop : loopId[l] \in Nat /\ loopId[l] >= counted
      /\ \A id, l : <<id, l>> \in loopOf <=> l \in Loop /\ id = loopId[l]
      /\ \A l, m \in Loop : loopId[l] = loopId[m] => l = m
  BY <1>1, LoopsAgree
<1>5. ASSUME NEW l \in Loop PROVE LoopOf(loopId[l]) = l
  BY <1>4, <1>5 DEF LoopOf
<1>6. ASSUME NEW id, NEW l \in Loop, LoopOf(id) = l PROVE id = loopId[l]
  BY <1>4, <1>6, NoLoopAssumption DEF LoopOf
<1>7. ASSUME NEW id, \A l \in Loop : loopId[l] /= id PROVE LoopOf(id) = NoLoop
  BY <1>4, <1>7 DEF LoopOf
<1>8. ASSUME NEW i \in 1 .. NumEntries, NEW e, e = Entries[i], NEW dep, dep = deps[i],
             NEW t, t = e.truth
      PROVE  /\ dep.first = t.first /\ dep.second = t.second /\ dep.times = e.total
             /\ dep.loop = (IF t.loop = WholeRun THEN NoLoop ELSE t.loop) <=>
                  (t.loop = WholeRun \/ loopId[t.loop] <= LoopIdMax)
  <2>1. e \in profile /\ EntryOK(e)
    BY <1>2, <1>8 DEF ProfileOK
  <2>2. /\ t.first \in Positions(source) /\ e.load = LampId(t.first)
        /\ t.second \in Positions(source) /\ e.store = LampId(t.second)
        /\ \/ t.loop = WholeRun /\ e.loop = WholeRun
           \/ t.loop \in Loop /\ e.loop = loopId[t.loop] % (LoopIdMax + 1)
    BY <1>8, <2>1 DEF EntryOK
  <2>3. /\ InstrOf(e.load) = t.first /\ InstrOf(e.store) = t.second
        /\ LampId(t.first) \in Nat /\ LampId(t.first) < Cardinality(Positions(source))
        /\ Cardinality(Positions(source)) \in Nat
    BY <2>2, LampIdsAreNumbers DEF OptInv, OptTypes
  <2>4. dep = DepOf(e)
    BY <1>3, <1>8
  <2>5. /\ dep.first = t.first /\ dep.second = t.second /\ dep.times = e.total
        /\ dep.loop = LoopOf(e.loop)
    BY <2>3, <2>4 DEF DepOf
  <2>6. CASE t.loop = WholeRun
    <3>1. WholeRun \notin Loop
      BY OrderIsInjective DEF Block, WholeRun
    <3>2. e.loop = WholeRun
      BY <2>2, <2>6, <3>1
    <3>3. \A l \in Loop : loopId[l] /= WholeRun
      BY <1>4, <2>3 DEF WholeRun
    <3>4. LoopOf(e.loop) = NoLoop
      BY <1>7, <3>2, <3>3
    <3> QED
      BY <2>5, <2>6, <3>4
  <2>7. CASE t.loop /= WholeRun
    <3> DEFINE l == t.loop
               m == loopId[l] % (LoopIdMax + 1)
    <3>1. l \in Loop /\ e.loop = m /\ loopId[l] \in Nat
      BY <1>4, <2>2, <2>7
    <3>2. m \in 0 .. LoopIdMax /\ (loopId[l] <= LoopIdMax => m = loopId[l])
      BY <3>1, SixteenBits
    <3> HIDE DEF m
    <3>3. ASSUME loopId[l] <= LoopIdMax PROVE LoopOf(e.loop) = l
      BY <1>5, <3>1, <3>2, <3>3
    <3>4. ASSUME LoopOf(e.loop) = l PROVE loopId[l] <= LoopIdMax
      <4>1. e.loop = loopId[l]
        BY <1>6, <3>1, <3>4
      <4> QED
        BY <3>1, <3>2, <4>1
    <3> QED
      BY <2>5, <2>7, <3>3, <3>4
  <2> QED
    BY <2>5, <2>6, <2>7
<1> QED
  BY <1>2, <1>3, <1>8

(* For any function and run, with the passes in order: the loader gets     *)
(* every entry back as the two instructions it was recorded for, with its  *)
(* count, and under its loop exactly if the number of the loop fits 16     *)
(* bits.                                                                   *)
THEOREM RecordedComesBack == Spec => []ProfileComesBack
<1> DEFINE Inv == OptInv /\ RunTypes /\ RunInv /\ ProfileOK /\ LoadInv
<1>1. Init => Inv
  BY RunStart, ProfileStart, LoadStart
<1>2. Inv /\ [Next]_vars => Inv'
  <2> SUFFICES ASSUME OptInv, RunTypes, RunInv, ProfileOK, LoadInv, [Next]_vars
               PROVE  OptInv' /\ RunTypes' /\ RunInv' /\ ProfileOK' /\ LoadInv'
    OBVIOUS
  <2>1. OptInv'
    BY OptStep
  <2>2. RunTypes' /\ RunInv'
    BY <2>1, RunStep
  <2>3. ProfileOK'
    BY ProfileStep
  <2>4. LoadInv'
    BY LoadStep
  <2> QED
    BY <2>1, <2>2, <2>3, <2>4
<1>3. Inv => ProfileComesBack
  BY ComesBack
<1> HIDE DEF Inv
<1> QED
  BY <1>1, <1>2, <1>3, PTL DEF Spec

=============================================================================
