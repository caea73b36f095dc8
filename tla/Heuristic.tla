----------------------------- MODULE Heuristic ------------------------------
(***************************************************************************)
(* BP.cpp's check_partition, which is called when HEURSTICS is on in       *)
(* include/machine.h.  All ways to merge neighbouring partitions are       *)
(* scored: a loop should fill the instruction cache and not overflow it,   *)
(* and a further loop costs another header.  The first of the cheapest     *)
(* plans is taken.                                                         *)
(*                                                                         *)
(* The code calculates with doubles; here two scores are compared exactly. *)
(***************************************************************************)
EXTENDS Integers, FiniteSets, SequencesExt

CONSTANTS
  ICacheSize,        \* I_CACHE_SIZE
  OverflowPenalty,   \* OVERFLOW_PENALTY
  HeaderSize         \* NumHeaderInst: instructions of the loop's header

ASSUME HeuristicAssumption ==
  /\ ICacheSize \in Nat
  /\ OverflowPenalty \in Nat
  /\ HeaderSize \in Nat

(* The last two, increment and branch, are left out of it.                 *)
SccNo(old) == Len(old) - 2

(* pow(2, scc_no - 1), as an integer; "new int[scc_no - 1]" throws where   *)
(* there is none.                                                          *)
Plans(old) == IF SccNo(old) < 1 THEN {} ELSE 0 .. 2^(SccNo(old) - 1) - 1

-----------------------------------------------------------------------------
(* A plan is a number whose bits are the cuts: bit p - 1 is set when       *)
(* partition p + 1 begins a new loop.                                      *)

Cuts(plan, p) == (plan \div 2^(p - 1)) % 2 = 1

(* The loop partition p goes to.                                           *)
GroupOf(plan, p) == 1 + Cardinality({q \in 1 .. p - 1 : Cuts(plan, q)})

Grouped(old, plan) ==
  [g \in 1 .. GroupOf(plan, SccNo(old)) |->
     UNION {old[p] : p \in {q \in 1 .. SccNo(old) : GroupOf(plan, q) = g}}]

(* Each loop gets an increment and a branch.                               *)
LoopSizes(old, plan) ==
  LET groups == Grouped(old, plan)
  IN  [g \in DOMAIN groups |-> Cardinality(groups[g]) + 2]

-----------------------------------------------------------------------------
(* Scores.                                                                 *)

(* Mutant of CachePenalty: the else branch is missing.                     *)
CachePenaltyOfGaps(size) ==
  IF size <= ICacheSize THEN ICacheSize - size ELSE 0

CachePenalty(size) ==
  IF size <= ICacheSize THEN ICacheSize - size
                        ELSE (size - ICacheSize) * OverflowPenalty

(* Twice the IcacheScore, average plus worst, as a fraction.               *)
IcacheScore(old, plan) ==
  LET sizes == LoopSizes(old, plan)
      sum == FoldLeft(LAMBDA s, size : s + CachePenalty(size), 0, sizes)
      worst == CHOOSE m \in {CachePenalty(sizes[g]) : g \in DOMAIN sizes} :
                 \A g \in DOMAIN sizes : CachePenalty(sizes[g]) <= m
  IN  [num |-> sum + Len(sizes) * worst, den |-> Len(sizes)]

Less(r, s) == r.num * s.den < s.num * r.den

(* maxIscore.                                                              *)
MaxIscore(old) ==
  CHOOSE s \in {IcacheScore(old, plan) : plan \in Plans(old)} :
    \A plan \in Plans(old) : ~Less(s, IcacheScore(old, plan))

(* total_instr_cnt.                                                        *)
Instructions(old) ==
  FoldLeft(LAMBDA n, p : n + Cardinality(old[p]), 0,
           [p \in 1 .. SccNo(old) |-> p])

(* extrainstScore, times 100 * Instructions(old).                          *)
ExtraInstScore(old, plan) == Len(LoopSizes(old, plan)) * HeaderSize

(* Scores[plan]: the IcacheScore over its maximum plus the extrainstScore, *)
(* times what the denominators of all plans have in common.  Where the     *)
(* maximum is 0 every score is, and 0 / 0 in the code: either way the      *)
(* first plan is taken.                                                    *)
Score(old, plan) ==
  LET cache == IcacheScore(old, plan)
      max == MaxIscore(old)
  IN  [num |-> 100 * Instructions(old) * cache.num * max.den
                 + max.num * ExtraInstScore(old, plan) * cache.den,
       den |-> cache.den]

(* The first plan of minimum score.                                        *)
BestPlan(old) ==
  CHOOSE plan \in Plans(old) : \A q \in Plans(old) :
    /\ ~Less(Score(old, q), Score(old, plan))
    /\ q < plan => Less(Score(old, plan), Score(old, q))

check_partition(old) ==
  Grouped(old, BestPlan(old)) \o SubSeq(old, Len(old) - 1, Len(old))

=============================================================================
