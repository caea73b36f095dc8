--------------------------------- MODULE DG ---------------------------------
(***************************************************************************)
(* The dependence graph of an innermost loop, lib/splitpass/DG.cpp.  The   *)
(* nodes are the instructions of the blocks other than the header, here    *)
(* their positions in program order.  Register edges follow the def-use    *)
(* chains; memory edges are read off the directions that LLVM's            *)
(* DependenceAnalysis reports, asked for both orders of every pair.        *)
(*                                                                         *)
(* The body is one block, as simplifycfg leaves a loop without branches:   *)
(* any computation, the increment somewhere in it, the branch last.        *)
(***************************************************************************)
EXTENDS Integers, FiniteSets

CONSTANTS
  BodySize,    \* number of instructions
  Canonical    \* increment next to last, read by the header alone,
               \* instructions allocated at ascending addresses

ASSUME BodyAssumption ==
  /\ BodySize \in Nat /\ BodySize >= 2
  /\ Canonical \in BOOLEAN

Inst == 1 .. BodySize

VARIABLES
  calls,       \* the body has a call or control flow not handled
  inc,         \* the increment of the induction variable
  uses,        \* <<i, j>>: the body instruction j has i as an operand
  direction,   \* what DependenceAnalysis answers for a pair
  allocated,   \* the instructions by ascending address
  regDeps,     \* dgOfLoops[L]
  memDeps      \* dgOfLoopsMem[L]

bodyVars == <<calls, inc, uses, direction, allocated>>
dgVars == <<regDeps, memDeps>>

Br == BodySize

-----------------------------------------------------------------------------
(* The loops the passes are run on.                                        *)

Orderings == {s \in [Inst -> Inst] : \A i, j \in Inst : s[i] = s[j] => i = j}

(* Answers for the two orders of a pair mirror each other.                 *)
Mirrored(D) ==
  {CASE d = "LT" -> "GT" [] d = "GT" -> "LT" [] d = "EQ" -> "EQ" : d \in D}

(* A dependence has one direction at least; {} stands for no dependence.   *)
(* The pairs are those of the instructions other than increment and branch.*)
Directions ==
  LET Ahead == {p \in (Inst \ {inc, Br}) \X (Inst \ {inc, Br}) : p[1] < p[2]}
  IN  {[p \in Inst \X Inst |->
          IF p \in Ahead THEN f[p]
          ELSE IF <<p[2], p[1]>> \in Ahead THEN Mirrored(f[<<p[2], p[1]>>])
          ELSE {}] : f \in [Ahead -> SUBSET {"LT", "EQ", "GT"}]}

BodyInit ==
  /\ calls \in BOOLEAN
  /\ inc \in IF Canonical THEN {BodySize - 1} ELSE Inst \ {Br}
  /\ uses \in SUBSET {p \in Inst \X (Inst \ {Br, inc}) :
                        p[1] < p[2] /\ (Canonical => p[1] /= inc)}
  /\ direction \in Directions
  /\ allocated \in IF Canonical THEN {[i \in Inst |-> i]} ELSE Orderings

-----------------------------------------------------------------------------
(* buildDG visits the instructions in order.  A pair that depends within   *)
(* an iteration gets an edge from the one visited first, unless it has one *)
(* already; memdaMap holds the sets of the instructions visited before.    *)

(* Mutant of MemDepsFound: the edge found in the other order is not looked  *)
(* up.                                                                     *)
MemDepsBothWays ==
  [k \in Inst |->
     {d \in Inst \ {k} : direction[<<k, d>>] \cap {"LT", "EQ"} /= {}}]

MemDepsFound ==
  LET memdaMap[k \in Inst] ==
        {d \in Inst \ {k} :
           \/ "LT" \in direction[<<k, d>>]
           \/ /\ "EQ" \in direction[<<k, d>>]
              /\ k < d \/ k \notin memdaMap[d]}
  IN  memdaMap

BuildDG ==
  /\ ~calls
  /\ regDeps' = [k \in Inst |-> {d \in Inst : <<k, d>> \in uses}]
  /\ memDeps' = MemDepsFound
  /\ UNCHANGED bodyVars

(* buildDG returns before it has entered anything for the loop.  (What it  *)
(* notes in ifLoopDist is never read.)                                     *)
RejectLoop ==
  /\ calls
  /\ UNCHANGED <<bodyVars, dgVars>>

-----------------------------------------------------------------------------
(* What the memory edges should be: some instance of a runs before the     *)
(* instance of b that touches the same location.                           *)
DependsOn(b, a) ==
  \/ "LT" \in direction[<<a, b>>]
  \/ "EQ" \in direction[<<a, b>>] /\ a < b

=============================================================================
