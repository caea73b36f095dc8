------------------------------ MODULE LampLoad ------------------------------
(***************************************************************************)
(* Loading a profile back (lib/splitpass/LAMPLoadProfile.cpp), in a later  *)
(* run of opt on the program as it was before the instrumentation.         *)
(* LAMPBuildLoopMap numbers the loops once more, LAMPLoadProfile the loads,*)
(* stores and calls; then it reads result.lamp.profile token by token and  *)
(* attaches each dependence to its loop.                                   *)
(***************************************************************************)
EXTENDS LampInsert

CONSTANT NoLoop    \* NULL, what an unknown loop id maps to

ASSUME NoLoopAssumption == NoLoop \notin Loop

VARIABLES
  toMap,       \* loops LAMPBuildLoopMap has not come to
  loopOf,      \* IdToLoopMap_global: <<id, header>>
  file,        \* what is left of result.lamp.profile
  numCnt,      \* num_cnt
  fields,      \* i1_id, cross_iter, loop_id, i2_id, times
  deps,        \* the pairs in the order they are allocated, with their
               \* loop (LoopToDepSetMap) and times (DepToTimesMap)
  maxTimes     \* LoopToMaxDepTimesMap: <<loop, times>>

loadVars == <<toMap, loopOf, file, numCnt, fields, deps, maxTimes>>

LoadInit ==
  /\ toMap = LoopOrder
  /\ loopOf = {}
  /\ file = <<>>
  /\ numCnt = 0
  /\ fields = [load |-> 0, cross |-> 0, loop |-> 0, store |-> 0, times |-> 0]
  /\ deps = <<>>
  /\ maxTimes = {}

-----------------------------------------------------------------------------
(* The file.  A number may have a parenthesis in front of it.              *)

Number(n) == [text |-> "number", num |-> n]
Paren == [text |-> ")", num |-> 0]
End == [text |-> "END", num |-> 0]

(* "(load dist loop store (total loops ) )"; loops is not read.            *)
Line(e) ==
  <<Number(e.load), Number(e.dist), Number(e.loop), Number(e.store),
    Number(e.total), Number(0), Paren, Paren>>

(* What LAMP_finish writes, token by token.                                *)
Tokens(entries) ==
  [j \in 1 .. 8 * Len(entries) + 1 |->
     IF j <= 8 * Len(entries) THEN Line(entries[((j - 1) \div 8) + 1])[((j - 1) % 8) + 1]
                              ELSE End]

-----------------------------------------------------------------------------

(* LAMPBuildLoopMap's LdStCallCounter has the name of the other and counts *)
(* the same, of the source.                                                *)
CountInsts == Cardinality(Positions(source))

BuildLoopMap ==
  /\ stage = "load"
  /\ toMap /= <<>>
  /\ loopOf' = loopOf \cup
       {<<CountInsts + Len(LoopOrder) - Len(toMap), Head(toMap)>>}
  /\ toMap' = Tail(toMap)
  /\ UNCHANGED <<stage, file, numCnt, fields, deps, maxTimes>>

(* lamp_id counts up from 0 in the order of the source.                    *)
LampId(k) == Cardinality({m \in Positions(source) : Earlier(m, k)})

Known(id) == \E k \in Positions(source) : LampId(k) = id

(* IdToInstMap.                                                            *)
InstrOf(id) == CHOOSE k \in Positions(source) : LampId(k) = id

LoopOf(id) == IF \E l \in Loop : <<id, l>> \in loopOf
              THEN CHOOSE l \in Loop : <<id, l>> \in loopOf ELSE NoLoop

(* The module pass needs nothing of the loop pass: it may run first.       *)
StartLoading ==
  /\ stage = "load"
  /\ toMap \in {LoopOrder, <<>>}
  /\ stage' = "read"
  /\ UNCHANGED loadVars

(* Mutant of FieldsAt: the last number of a line is not expected.          *)
FieldsAtFive(n, num) ==
  CASE n % 5 = 1 -> [fields EXCEPT !.load = num]
    [] n % 5 = 2 -> [fields EXCEPT !.cross = num]
    [] n % 5 = 3 -> [fields EXCEPT !.loop = num]
    [] n % 5 = 4 -> [fields EXCEPT !.store = num]
    [] OTHER     -> [fields EXCEPT !.times = num]

(* The n-th number of the file: six on each line, the last one ignored.    *)
FieldsAt(n, num) ==
  CASE n % 6 = 1 -> [fields EXCEPT !.load = num]
    [] n % 6 = 2 -> [fields EXCEPT !.cross = num]
    [] n % 6 = 3 -> [fields EXCEPT !.loop = num]
    [] n % 6 = 4 -> [fields EXCEPT !.store = num]
    [] n % 6 = 5 -> [fields EXCEPT !.times = num]
    [] OTHER     -> fields

ReadNumber ==
  /\ stage = "read"
  /\ file /= <<>> /\ Head(file).text = "number"
  /\ LET f == FieldsAt(numCnt + 1, Head(file).num)
     IN  /\ fields' = f
         /\ deps' =
              IF (numCnt + 1) % 6 = 5 /\ Known(f.load) /\ Known(f.store)
              THEN Append(deps, [loop |-> LoopOf(f.loop), first |-> InstrOf(f.load),
                                 second |-> InstrOf(f.store), times |-> f.times])
              ELSE deps
  /\ numCnt' = numCnt + 1
  /\ file' = Tail(file)
  /\ UNCHANGED <<stage, toMap, loopOf, maxTimes>>

DropParen ==
  /\ stage = "read"
  /\ file /= <<>> /\ Head(file).text = ")"
  /\ file' = Tail(file)
  /\ UNCHANGED <<stage, toMap, loopOf, numCnt, fields, deps, maxTimes>>

(* "END", and the statistics behind it are not read.                       *)
FinishReading ==
  /\ stage = "read"
  /\ file /= <<>> /\ Head(file).text = "END"
  /\ stage' = "done"
  /\ maxTimes' = {<<deps[i].loop,
                    Max({deps[j].times : j \in {k \in DOMAIN deps :
                                                  deps[k].loop = deps[i].loop}})>> :
                    i \in DOMAIN deps}
  /\ UNCHANGED <<toMap, loopOf, file, numCnt, fields, deps>>

(* There is no profile: nothing is known.                                  *)
NoProfile ==
  /\ stage = "read"
  /\ file = <<>>
  /\ stage' = "done"
  /\ UNCHANGED loadVars

LoadNext ==
  /\ \/ BuildLoopMap
     \/ StartLoading
     \/ ReadNumber
     \/ DropParen
     \/ FinishReading
     \/ NoProfile
  /\ UNCHANGED optVars

=============================================================================
