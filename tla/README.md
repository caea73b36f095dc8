# Loop fission and LAMP: a TLA+ model

This directory models the three programs of the repository: the LLVM passes
that split a loop into several (`-dg -bp -splitpass2`, see `run2.sh`); LAMP, the
loop-aware memory profiler, whose passes instrument a program, whose run-time
library records which loads depend on which stores, in which loop, within or
across iterations, and whose loader reads the profile back; and GCC's loop
distribution, a patch that `scc/` ports. All are sequential; what is hard about
them is arithmetic on clocks and indices, state that is reused, numbers that two
programs have to count alike, and rewiring of shared structures, over long
sequences of legal calls.

The repository has no design document. The code is the reference; comments,
examples and tests are quoted where they disagree with it.

## Inventory

| part | state | operations | hard behaviour | what makes it correct |
|---|---|---|---|---|
| `circular_buffer` (tools/utils/CircularQueue.hxx) | ring, head, tail, size | push_back, pop_front, clear, copy, reserve | three indices that wrap separately; overwriting when full | it is a window of the latest items; indices in range and consistent |
| `LoopHierarchy` (tools/utils/LoopHierarchy.hxx) | stack of loops, each with its entry time and its latest two iteration times | enterLoop, exitLoop, loopIteration, findLoop, calculateDistance | levels are reused; stamps are dropped; one clock for all loops | findLoop and the distance agree with what really happened |
| LAMP hooks (tools/lamp-profiler/lamp_hooks.cxx) | clock, byte stamps, profile, per-iteration sets, current external call | hooks for loads, stores, loops, allocation, calls, init | hooks before init; frees; wide and unaligned accesses; clock overflow | a profile entry for each dependence met, counted per iteration |
| memory profile (tools/utils/Profile.hxx, MemoryProfile.hxx) | maps from load, distance and store/loop to counts | getProfile, increment | the comparison of the key | each entry under its own loop |
| `MemoryMap`, `MemoryPage` (tools/utils/MemoryMap.hxx) | pages of stamps with two bit tracks | getItem, setItem, set_invalid | three states in two tracks | a stamp is read exactly while it is valid |
| instrumentation (lib/splitpass/LAMPProfiling.cpp) | counters of instructions and loops, the hooks in the code | counts, numbers, inserts the hooks | four passes in the order of a command line; hook order on shared blocks; 16-bit loop ids | hooks nest as loops do; ids agree with the loader's |
| profile loading (lib/splitpass/LAMPLoadProfile.cpp) | id maps, dependences per loop, times | numbers again, reads the profile token by token | numbering has to repeat the instrumentation's; reading by position | each line finds its instructions and loop |
| malloc and I/O wrappers (tools/utils/profile_function_wrappers.h) | a header in front of each block | intercept libc, call the external hooks | realloc, failures, arguments that move | regions are announced as libc uses them; headers stay true |
| `DG` (lib/splitpass/DG.cpp) | register and memory graphs per loop | buildDG | both orders of each pair | exactly the dependences |
| `BP` (lib/splitpass/BP.cpp) | partitions per loop | build_partition, find_edges, build_scc, check_partition | searches that erase what they collected; pointer order | partitions are the components, in an order that keeps dependences |
| `SplitPass2` (lib/splitpass/splitpass2.cpp) | the function's blocks | CreateOneLoop, erasing | adjacent loops share blocks; clones in reverse; position for identity | each instruction runs once, in order; phis and uses stay valid |
| GCC's loop distribution (gcc-fission.patch.c, scc/scc.cpp) | dependence graph, partitions of each vertex, components, plan | mark_partitions, build_prdg, scc_rdgp, topological_sort | recursion through scalars both ways; two searches on one graph turned round; sink and source in two orders | a reference in one partition, operands along; components exact; the plan keeps dependences |
| earlier passes, backups, helpers | - | - | - | not built or unused; see "Not modelled" |

How they interact: LLVM runs `DG`, `BP` and `SplitPass2` on one function after
another; each reads the maps the previous one filled. Instrumented programs
call the hooks and, instead of libc, the wrappers, which call the hooks for
external accesses; the hooks call `LoopHierarchy`, which keeps its stamps in
`circular_buffer`, and `MemoryMap`; the loader reads the text the profile prints
in a later compilation of the program as it was before the instrumentation. The
two ends share nothing but the order in which they count.

## Modules

| module | models | state and actions |
|---|---|---|
| `Windows` | pushing into a window of n items | one operator |
| `BoundedWindow` | what `circular_buffer` promises | `window`, `limit`; Push, DropOldest, Empty, Grow |
| `CircularBuffer` | CircularQueue.hxx | `array_`, `array_size_`, `head_`, `tail_`, `contents_size_` under their names without the underscore. push_back is two actions, one for a buffer with room and one for a full one, with the policy of the profiler's instance (always_accept_data_when_full) |
| `LoopHierarchy` | LoopHierarchy.hxx | `depth`, and per level `loopId`, `invTime`, `iterTimes` (the ring, through the window it implements); operations are operators the hooks use |
| `LampHooks` | lamp_hooks.cxx, Profile.hxx, the byte states of MemoryMap.hxx | one action per hook. `nest` and `inBody` are the program, which calls the loop hooks where LAMPLoopProfiler puts them |
| `LampTruth` | nothing in the code: an observer that counts iterations instead of comparing times | `age`, `stored`, `met` record what really happened; the properties compare |
| `DG` | DG.cpp | `regDeps`, `memDeps`; BuildDG, RejectLoop. `calls`, `uses` and `direction` are the loop body |
| `Heuristic` | check_partition and NumHeaderInst of BP.cpp | operators: plans are numbers whose bits are cuts, a score is a fraction, the first of the cheapest plans is taken |
| `BP` | BP.cpp | one action per function OutputBP runs, one per round of the loops of build_partition and build_scc; a search is a recursive function on what is left to search; `heuristic` is the value of HEURSTICS the pass was built with |
| `SplitPass2` | splitpass2.cpp | blocks as pairs (loop, clone); NextLoop, CreateOneLoop, EraseOthers |
| `LoopFission` | the pipeline of run2.sh on one loop | `BP`, then `SplitPass2` by INSTANCE, its partitions being BP's; `carried` is what the header reads besides the increment |
| `LampInsert` | LAMPProfiling.cpp and the function it instruments | `code` is every block's list of instructions and hooks; the hook in front of an instruction is the instruction's field `id`, so that LAMP_load and the load are one step; one action per pass. The function is given by its blocks and loops (Function, NaturalLoops, LoopSimplifyForm), and the loop pass comes to inner loops first (InnerFirst) |
| `LampLoad` | LAMPLoadProfile.cpp | numbers of loops and instructions, the file as a sequence of tokens, one action per token |
| `LampIds`, `MCLampIds` | the three together on one program, which runs along any path | the library keeps its loop stack and a profile whose entries remember the instructions and loop they stand for; MCLampIds is the control flow graph |
| `WrappedMemory` | the malloc family of profile_function_wrappers.h | `content`, `chunks` are the memory; `known` is what the profiler was told is live; `fault` names what the last call did wrong; `cut` is what realloc cut off and never forgot |
| `Wrappers` | the other wrappers | one action for all wrappers that tell the same of the same accesses; a wrapper that is wrong only in some circumstances has a name for each ("open", "open that fails") |
| `Rdg` | create_vertices to mark_partitions of the GCC patch | vertices, scalar and data edges; one action per reference marked |
| `LoopDistribution` | build_prdg to topological_sort, in the patch and in scc.cpp | one action per function, one per round of dfs_rdgp and of scc_rdgp_1; finishing times are the order in which vertices finish |
| `CircularBuffer_proofs`, `LampTruth_proofs`, `LampIds_proofs`, `LoopFission_proofs`, `SplitPass2_proofs`, `LoopDistribution_proofs`, `Wrappers_proofs` | - | theorems, each about the module of its name |
| `LeastNumber` | - | least and greatest numbers of a set, and counting up: what the other proofs need of induction |

`of`/`as` pairs in PROJECT.json name small changes to a definition ("mutants",
next to the definition in the module) that a property must notice.

What is abstracted. Instructions, bytes and loop ids are numbers or model
values. The stamp a byte holds in a page is a function from addresses; the
per-instruction page cache returns the same bytes. Statistics, output and
debugging code are left out. In `BP` the order of instructions within a
partition is left out (nothing reads it), that of the partitions is kept.

What the environment may do. A program enters loops at any depth, begins
iterations, leaves from a body, frees, allocates, stores and loads anything in
a body, also before `LAMP_init` (constructors), which runs outside of loops. A
loop body is one block, as the `-simplifycfg` of run2.sh leaves it
(dg_test/*.simple.ll); its `uses` are any forward def-use relation and its
`direction` any assignment of LT, EQ and GT to pairs, mirrored for the other
order, as LLVM's DependenceAnalysis (external) answers. Addresses ascend with
the program (`Canonical`), the normal case of a bump allocator, or come in any
order. The header's phis read the increment and, besides it, any instructions of
the body up to a bound (`carried`): reductions, and values used after the loop,
which leave it through the header.

## Runs

| run | instance | what it shows |
|---|---|---|
| CircularBuffer | 3 items, capacity 2 growing up to 4 | indices stay in range (TypeOK), tail_ follows head_ and size (TailFollows), the ring implements BoundedWindow |
| LampExact | one byte, nests of two loops, five iterations, iterations measured, the clock running out | the stamp of a byte exists exactly while a store to it is live; findLoop and distance are exact; the loop count is the number of iterations |
| LampAccesses | four bytes, widths 2 and 4, output dependences | an entry exists exactly if its dependence was met |
| LampMerged | two loop ids | *violation*: entries of two loops merge under the first |
| FissionExact | three computations, increment, branch: all 8 def-use relations x 512 direction tables, with and without a call, with and without the heuristic; a cache of 4; up to one carried value | graph exact, partitions finest, overflow of the cache only where forced while headers are cheap, searches safe, every instruction once; nothing in the body dangles, and a carried value ends every split on LLVM's assertion |
| FissionOrder | two computations | *violation*: a partition may run before one it depends on |
| FissionTail | two computations, any increment position and address order | *violation*: the last two partitions need not be increment and branch |
| SplitChain | three adjacent loops, up to three partitions each, in any order | phis stay right in between, partitions run in order, every loop gets split in the end |
| Distribution | four statements and the exit condition, up to three data dependences | mark_partitions' assertion holds, a reference is in one partition, with its operands, components exact |
| DistributionOrder | two statements and the exit condition, one dependence | *violation*: the plan has the loop with the sink of a dependence first |
| LampIds | nine blocks with three loops, two loads, stores or calls anywhere, the passes in every order; loop numbers of two bits | hooks keep the library's stack in step with control, dependences come back to their instructions and loop, no number is too large |
| Wrappers | five cells: two blocks, or one that grows and moves, of up to three cells; va_list by reference | but in the listed circumstances wrappers tell exactly what libc did; headers stay true; no dependence on former lives of memory |

Bounds. A nest of two loops and the whole run is the smallest in which a store
can belong to each of an inner loop, its surrounding loop and none; five
iterations re-enter both levels and overflow the window of two. Four bytes with
widths 2 and 4 let an aligned access meet gaps (an unaligned pair freed in its
middle) and equal stamps with another one between them, and make unaligned
accesses of two bytes overlap both halves. Five instructions give three
computations: cycles of one, two and three groups, and a component that reaches
another; they also give up to four plans to the heuristic, for which 4 stands
for the 16 instructions of the cache and 5 for the penalty of 20, so that
merging everything overflows and merging two just fits. Of three adjacent loops
the middle one shares blocks on both sides; longer chains and larger bodies are
covered by proof (SplitPass2_proofs, LoopFission_proofs). Four vertices and three dependences give cycles of up to three
partitions and scalars shared by references. The control flow graph of MCLampIds
has a block in every double role (exit and latch, header and preheader, exit and
preheader, exit of two loops, exit reached twice). Five cells hold two blocks
with their headers, so that a block can be freed, grown or cut beside another;
blocks of three let strtok end a token inside a string and a text be shorter
than its buffer, and the run reaches every fault KnownFaults lists. The model's
own bounds are MaxTime, MaxCount (LampHooks), MaxCapacity (CircularBuffer),
MaxDeps (Rdg), MaxCarried (LoopFission; one carried value is enough for the
assertion, more are covered by proof), MaxInstrs, MaxTrips, MaxEntries and
MaxTotal (LampInsert, LampIds),
HeapSize and MaxSize (WrappedMemory); TimeStampMax stands for 2^44 - 1 and
LoopIdMax for 2^16 - 1, and both are small so that they are reached.
CHECK_DEADLOCK FALSE is given where the program may stop: after an abort, at
the bound on time, at the end of a profile, and when the passes are done.

Fairness and liveness. `FairSpec` of `SplitPass2` assumes weak fairness of its
next-state relation: opt is one thread and runs the pass until `runOnFunction`
returns. Under it `AllLoopsGetSplit` says that the pass comes to every loop of
the function, whatever it did to the ones before, and leaves one loop per
partition. Elsewhere no fairness is assumed: the hooks and wrappers are
libraries that act when called, by programs that may stop, and the other passes
are loops over finite structures.

What the wrappers get wrong. `KnownFaults` (Wrappers) lists the calls that tell
the profiler too much, too little or the wrong bytes, or that end a program libc
would not, each by a name that states the circumstance: `strncat` looks for the
end of its first string after the call (wrong unless n is 0); `touch_printf_args`
walks the va_list that `vfprintf`, `vsprintf` and `vsnprintf` then get, so that
where a va_list is an array the printf family, `puts` included, reads strings
that were never told; `getenv` tells of a store to what it only returns; `open`
takes -1 for a descriptor, `read` and `snprintf` take it for a size; `fread`
leaves out half an item; `free(NULL)` reads a header; a dozen abort as
unimplemented. None of this contradicts a document, so it is no violation run.
The run reaches every listed fault, so the list is no longer than it has to be;
OtherCallsAreExact says that it is long enough: no call is wrong in any other
circumstance, and a wrapper that is repaired or broken shows.

For the state of files and of the random numbers the model takes the
wrapper's word for what libc touches, and compares only where the wrapper's
branches can go wrong (`open`, `tmpfile`).

## Findings

- `operator<` of `ls_key_t` reads 32 of 64 bits, so the profile attributes
  dependences to the loop that met the pair first.
- Partitions are run in the order of their first instruction. For the project's
  own example this reverses the dependence on `b`.
- "The last two partitions are increment and branch" is an assumption about the
  body, not a consequence of the code.
- `new_prdg_edge` takes the sink first and its callers pass the source first.
  The edges of the partition graph lead from sinks to sources, and GCC's plan for
  the distributed loops comes out backwards: against the head comment and the
  numbering of the dump, the loop with a dependence's sink precedes the one with
  its source.

Disagreements seen while modelling that no run shows: the comment in
check_partition (BP.cpp:321-329) has plan 0 cut everything and the last plan
merge everything, while the code's plan 0 cuts nothing; the assertion against a
vertex in several partitions compares a length with a boolean
(`!VEC_length (...) == 1`) and cannot fail; push_back with the rejecting policy,
which nothing instantiates, moves tail_ and counts an element it did not store
(CircularQueue.hxx:358; the class comment, 195-200, says "the new data is not
added"); at_checked compares the size with itself and always throws
(CircularQueue.hxx:391-394), but nothing calls at().

## Proofs

`CircularBuffer_proofs`, for every set of items, capacity of at least two and
bound on growth (CapacityAssumption, ItemAssumption):
`Spec => []TypeOK`, `Spec => []TailFollows`, and `Spec => ImplementsWindow`.
The inductive invariant is their conjunction: a push writes behind `tail`, so
that the new item is the last of `Contents` only follows from the relation of
tail, head and size. The refinement needs one lemma per operation on what
`Contents` becomes; it rests on lemmas about the one wrap-around of
`index_to_subscript`.

`SplitPass2_proofs`, for every number of loops, body size and partitions
(SplitAssumption): `Spec => []TypeOK`, `Spec => []PhisMatchPredecessors`,
`Spec => []PartitionsRunInOrder` and `Spec => []EachRunsOnce`. The phi property
alone is not inductive: CreateOneLoop compares incoming blocks with the
predecessor LoopInfo finds, so one needs that control flow is a path
(ExitsArePath: no two blocks lead to the same one, unused blocks lead nowhere);
then the predecessor found is the phi's, and a new clone is inserted into the
path without disturbing other loops. TypeOK needs that a loop is left when its
last partition is dealt with (RoundsLeft) and that there are no more partitions
than instructions (InputsOK). The order needs the place of every clone in that
path (OrderInv): a loop leads to its newest clone, each clone to the one made
before it and the oldest to what followed the loop (ClonesChained); there are as
many as the rounds so far (ClonesMade), and a block that was stripped holds the
partition of its round beside increment and branch (BodiesKept). Since a clone
is put in front of the earlier ones, rounds counted down meet partitions counted
up.

`LampTruth_proofs`, for any set of loops, addresses and instructions, any depth
and length of the run (HierarchyAssumption, HooksAssumption, StampAssumption,
OutsideAssumption): `TruthSpec => []StampsAreLive`, and with MaxDepDistance = 2,
the code's value, `TruthSpec => []DependencesAreExact`. A larger distance would
need an observer that counts up to it; with 1 the tracked distance is always 0
and the property is false. The invariant relates the clock to the observer:
loops are entered, and iterations begin, no later than now, and a body runs
strictly later than its loop was entered (ClockOK); so the time of a live store
tells, for each active loop, what its age tells (StampsTell): it is after the
entry exactly if the age is known, and not before the latest iteration exactly
if the age is 0. The loops entered before a store are the outermost ones up to
some level, which findLoop returns. The invariant says nothing once the program
has crashed. The cut of the time to its field loses nothing because the code
aborts first.

The same module goes on from there to what is counted: `Spec => []HooksTypeOK`
(the program's nest and the library's depth agree, HooksInv; so no hook leaves
its tables), which the observed runs inherit (a lemma, ObserverObserves), and,
with MaxDepDistance = 2 again, `TruthSpec => []CountedIffMet` and
`TruthSpec => []LoopCountsIterations`. CountInv says what the sets of a level
hold: the dependences met in the level's current iteration (SetsAreCurrent), for
levels that have begun one (Begun). That the sets of an inner loop never hold
what belongs to an outer one rests on the serial numbers of the iterations:
those of nested loops ascend (SerialsOrdered), so what was met under a loop's
current number was met in its current iteration. An aligned access counts one
byte for each run of equal stamps; the run's other bytes carry the same
dependence (MetByStamps), so nothing is lost or invented, whatever the width.

`LampIds_proofs`, for any function whose loops have loop-simplify's form and any
path through it, whatever bounds the model sets to instructions, iterations,
entries and counts (Function, NaturalLoops, LoopSimplifyForm, InnerFirst,
NoLoopAssumption, IdsAssumption): `Spec => []TypeOK`,
`Spec => []HooksTrackTheNest`, `Spec => []NoNumberTooLarge` and
`Spec => []ProfileComesBack`. Four invariants build on each other.

- OptInv, of the passes. A block has the hooks of the loops come to so far, each
  once, exits and iterations first, then the program, then invocations (BlockOK).
  That inner loops come first is needed only for each loop being listed once, and
  so getting one number. In order, counter, profiler and loader give an
  instruction the same number, and the j-th loop the count plus j - 1 (NumbersOK).
- RunInv, of the program's run. Within a block the stack is the nest around the
  block, above it the loops whose exit hooks are still to come, or the one that
  was just invoked, and a header's iteration is one behind until its hook has run
  (StackIs). From a block's end to the start of the next this needs what
  loop-simplify guarantees: a header is entered from its preheader and its latch,
  and an exit block only from its loop, so an edge leaves or enters exactly the
  loops whose hooks stand on it (StackJumps).
- ProfileOK, of the profile. Keys are unique; an entry has the loader's numbers
  of the instructions it is about, and its loop's number cut to 16 bits
  (EntryOK).
- LoadInv, of the loading. The entries are listed by rank among finitely many
  keys (Ranked, EntriesListProfile), so the file holds each of them once, on
  eight tokens. q lines and s tokens behind its start, the counter is 6q + s (the
  parentheses are not counted), the fields hold the numbers of the line read so
  far and q or q + 1 dependences are known (ReadUpTo). Numbers fit 16 bits or
  come back under no loop or another, as ProfileComesBack says: two loops never
  have one number, and 0, the whole run's, is no loop's, since there is an
  instruction with a number below.

`LoopFission_proofs`, for a body of any size, any def-use relation and any
directions (BodyAssumption, HeuristicAssumption, HeursticsAssumption):
`Spec => []MemDepsAreExact`, `Spec => []RemovalsAreSafe` and
`Spec => []PartitionsAreFinest`, for any order of the addresses; and, where
they ascend with the program (Canonical, without which FissionTail shows the
contrary), `Spec => []EachRunsOnce` and `Spec => []OnlyCarriedDangle`. The search
is a recursive function on searches; that it is defined everywhere is proved
(VisitExists: each recursive call leaves less to mark, and with as much to mark
less to come to). What it finds is stated by closed sets: the result is the
least set with the start that no edge leads out of but to what was marked before
(DfsFinds), and a nested search finds nothing of the surrounding result but
possibly the start, which build_partition does not mark: hence the one
duplicate. A group is then closed under uses in both directions and has no
smaller part that is (GroupInv). build_scc compares what two groups reach among
the groups that are left; as components are taken whole (VisitedOK), what is left
out lies on no cycle through what is left, and the comparison picks the
component (CycleIsClass). The same components, seen from the instructions, are
the classes of MustStayTogether (ClassIsTogether). The heuristic merges
neighbours, whatever plan is the cheapest, and leaves the last two partitions
alone (PlansMerge), which are increment and branch if their groups come last
(TailOK). These partitions are ones SplitPass2 may be given (PartitionsFit), so
its invariants hold of the pipeline by instantiation of SplitPass2_proofs, and
since a partition holds the operands of its instructions, no instruction of the
body uses what is erased. A carried value is used by the header, in every clone:
the first loop it is erased from ends the pass, so that no loop with one is ever
split to the end.

`LoopDistribution_proofs`, for loops of every size and any dependences
(RdgAssumption): `Spec => []RdgTypeOK`, `Spec => []ReferencesInOnePartition` and
`Spec => []PartitionsHoldOperands`. one_prdg marks what is closed under operands
and, for names that serve a reference, under uses; so what is bound to a
reference is marked together with the uses of its name (BoundTogether), each
mark takes the operands along (OperandsAlong), and no later call comes upon a
vertex of an earlier one (BoundOnce). The vertices that serve no reference, which
go into every partition at the end, are where the two halves of the argument
part: only PartitionsHoldOperands is about them, and it leaves them out where
the code does.

The same module goes on with the searches, for graphs of every size:
`Spec => []SccsAreComponents` and, of the plan, what the run DistributionOrder
leaves: `Spec => []ReversedPlanKeepsDependences`, the plan is right from its end
on. What
a vertex reaches is what is in every set with it that no edge leads out of
(Reaches). A first part shows that the recursion of dfs_rdgp_1 ends and does what
its definition says (VisitSolves), and what one call finds (VisitFinds). The
order it leaves the vertices in has one property all else rests on (InOrder):
when a vertex finishes, every edge out of what is finished by then leads to
something finished or to a vertex that reaches the one just finished, because it
is still being searched. So a component outlasts what it reaches outside
(LastToFinish), the last vertex to finish among the white ones reaches, on the
edges turned round, nothing white but its own component (ComponentFound), and each
round of the second search numbers one component whole. The invariant (SearchInv)
says so of every stage: the vertices left are sorted that way (SortedOK), the
numbers given out name components (Numbered). For the plan the same InOrder, now of
the graph of the components, has a dependence's source finish after its sink, or
else the two reach each other and are one component (ComponentsReach).

`Wrappers_proofs`, for a heap of any size, any arguments and any sequence of
calls, with the va_list passed by value or by reference (HeapAssumption,
VaListAssumption): `Spec => []OtherCallsAreExact` (by value, where KnownFaults has
no entry for the printf family's reads, none of them misses one),
`Spec => []HeadersAreTrue`,
`Spec => []FreeKnowsItsBlocks`, `Spec => []KnownOfBlocks` and
`Spec => OthersStayKnown`. The invariant (WInv) needs that blocks lie apart,
headers included (BlocksApart), which is libc's promise to a program that writes
only into what it was given, and that no store told of reaches a header
(HeadersUnknown). Then a wrapper that reads a size from the header reads the
right one, and what it tells of is the block's data and nothing of its
neighbours. One lemma per wrapper compares what it tells with what libc does.

Induction. The induction theorems of the library take an operator as a
parameter, which the installed provers cannot instantiate. `LeastNumber` states
induction on numbers for sets (a set of numbers that is not empty has a least
element), and the proofs use it so: the least counterexample of a statement about
a search, a chain of clones, a string or a plan.

Only model-checked:

- `OverflowsOnlyIfForced`. Its condition, HeadersAreCheap, is that the headers of
  one loop per partition cost less than half of what one instruction too many
  does: 2 (n - 1) HeaderSize Penalty < 100 (Penalty - (ICacheSize - 3)) for n
  partitions; the module's comment says where the two sides come from. With
  machine.h's cache of 16 and penalty of 20 that is (n - 1) HeaderSize < 17.5: a
  header of three instructions may go with up to six partitions. In the run it is
  true of every body. Beyond it the property is false: calculated by hand,
  fourteen partitions of eight and seven instructions in turn, under a header of
  twelve, become seven loops of 17, because the penalty is divided by the worst
  plan's, which grows with the body, and the headers' cost is not;
- `AllLoopsGetSplit`, a liveness property, which the proof system does not cover.

## Not modelled

- Pages of `MemoryMap` (MemoryMap.hxx) and the page cache of the hooks: memory is
  one array of bytes with the three states of a page's two bit tracks. Pages side
  by side with the hooks have too many states where wide accesses meet gaps.
  `BytePage` and `MemoryValueMap` are used by nothing.
- Several functions: `BP::Partitions` is never cleared, and SplitPass2 visits the
  loops of the functions before, which LoopInfo has freed (splitpass2.cpp:203).
  What it then reads is up to the allocator.
- Bodies of several blocks: each block's branch is in one partition and is erased
  from the other loops (splitpass2.cpp:277), so that every split leaves blocks
  without a terminator.
- push_back's rejecting policy and at_checked, see "Findings"; the constructor of
  circular_buffer from a range.
- The aborts of LAMP_init for programs with more than 2^16 - 1 instructions
  (lamp_hooks.cxx:162-165, Profile.hxx:94-97).
- longjmp and exceptions out of a loop: no exit hook runs. Which registered call
  a wrapper that an uninstrumented call reaches should be charged to is not known
  to the library.
- `scc/gene_scc.cpp`, `gene_scc.h`: a half-finished rewrite that does not compile
  (its second search uses a vertex it never assigns, one_prdg an edge it never
  sets). `scc/` has no Makefile.
- `splitpass.cpp`, `splitpass_scc.cpp`: earlier passes that run2.sh does not run.
  `Hello.cpp` and `LTC.cpp` print and keep no state.
- `ValueProfile.hxx`, `InstructionMap.hxx`, `Locks.hxx`, `debug_new.cxx`,
  `utils.cxx`: not used by the profiler, or logging.
- Wrappers that tell nothing (mathematics, ctype, process ids), the buffer given
  to setbuf, errno, the locale tables of functions_init, malloc_token (loaded and
  stored by the whole malloc family).
- `lib/LAMPProfiling.cpp` and `lib/LAMPLoadProfile.cpp` are copies of the files
  under lib/splitpass; `*.bak` are older versions. configure and the Makefiles
  are generated.

## Plan

Done: ring and window with the refinement; hierarchy, hooks and observer; graph,
partitions, heuristic, splitting and the pipeline; loop distribution; the numbers
from instrumentation to loader; the wrappers. Proved: all that the runs check of
the ring, the hooks and the profile, the numbers, splitting (but the liveness
property) and the wrappers; the pipeline but the heuristic's numbers; loop
distribution from its partitions to its plan.

Left:

1. Pages and bit tracks, shown to implement the byte states by proof rather than
   side by side with the hooks.
