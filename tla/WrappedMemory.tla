--------------------------- MODULE WrappedMemory ----------------------------
(***************************************************************************)
(* The memory of a profiled program whose libc calls go through            *)
(* tools/utils/profile_function_wrappers.h, and the malloc family.         *)
(*                                                                         *)
(* A wrapper calls the libc function and tells the profiler which bytes    *)
(* the function read and wrote (LOAD, STORE) and which came to life or     *)
(* died (ALLOCATE, DEALLOCATE).  The model keeps what the functions do to  *)
(* the memory and, next to it, what the profiler has been told.  A cell    *)
(* stands for a byte and for a word: what matters is where regions end.    *)
(*                                                                         *)
(* memprof_malloc puts a header of two words, a magic number and the size, *)
(* in front of each block: here one cell, the sum of both.  Where a block  *)
(* goes, and whether realloc moves it, is up to libc.                      *)
(***************************************************************************)
EXTENDS Integers, FiniteSets, FiniteSetsExt

CONSTANTS HeapSize, MaxSize   \* bounds of the model: cells in all, of a block

ASSUME HeapAssumption == {HeapSize, MaxSize} \subseteq Nat

Nul == 0              \* contents: end of a string,
Chr == 1              \* any other character,
DEADBEEF == 100       \* the magic number

Literal == {0, 1}     \* a string of one character that cannot be written
Heap == 2 .. HeapSize + 1
Mem == Literal \cup Heap
Header == 1

(* Bytes that stand for a state outside the memory: the tokens of file     *)
(* descriptors and of the random numbers, libc's buffers, the environment. *)
NULL == -1
RandToken == -2
LibcBuffer == -3
Environ == -4
FdToken(fd) == -6 - fd

VARIABLES
  content,    \* of each cell
  chunks,     \* what libc has given out: [at, len, by]
  known,      \* cells whose last write is the last store told
  cut,        \* known cells left behind by a block that shrank in its place
  fault       \* what the last call did wrong: <<function, what>>

vars == <<content, chunks, known, cut, fault>>

Span(p, n) == p .. p + n - 1

(* Cells written over others (TLC's @@, as a definition to prove about).   *)
f ++ g == [c \in DOMAIN f \cup DOMAIN g |-> IF c \in DOMAIN f THEN f[c] ELSE g[c]]
Cell(c, value) == [d \in {c} |-> value]

(* A block libc has allocated for a function of its own has no header.     *)
HasHeader(k) == k.by = "wrapper"
DataOf(k) == IF HasHeader(k) THEN Span(k.at + Header, k.len - Header)
             ELSE Span(k.at, k.len)
Objects == {DataOf(k) : k \in chunks}

Blank == [c \in Mem |-> IF c = 1 THEN Nul ELSE Chr]

Init ==
  /\ content = Blank
  /\ chunks = {}
  /\ known = {} /\ cut = {}
  /\ fault = {}

Dies(fn) == <<fn, "dies">>
NotFreed(by) == <<by, "made a block that cannot be freed">>
Misses(fn) == <<fn, "misses a read">>
Misreports(fn) == <<fn, "misreports a write">>

(* A call begins with no fault; the next one does not ask for the last.    *)
Idle == fault = {}

Returns ==
  /\ ~Idle
  /\ \A f \in fault : f \notin {Dies(f[1]), NotFreed(f[1])}
  /\ fault' = {}
  /\ UNCHANGED <<content, chunks, known, cut>>

-----------------------------------------------------------------------------
(* A call reads and writes some cells and tells of some loads and stores.  *)

Faults(fn, reads, writes, loads, stores) ==
  (IF reads \subseteq loads THEN {} ELSE {Misses(fn)}) \cup
  (IF writes = stores THEN {} ELSE {Misreports(fn)})

Told(fn, reads, writes, loads, stores) ==
  LET wrong == (writes \ stores) \cup (stores \ writes)
  IN  /\ known' = (known \ wrong) \cup (writes \cap stores \cap Mem)
      /\ fault' = Faults(fn, reads, writes, loads, stores)

(* The process ends, in the call or by the wrapper's abort(), and its      *)
(* memory with it.                                                         *)
Ends(f) ==
  /\ fault' = {f}
  /\ content' = Blank /\ chunks' = {} /\ known' = {} /\ cut' = {}

Holds(cells, value) == content' = [c \in cells |-> value] ++ content

Text(d, n) == [c \in Span(d, n) |-> Chr] ++ Cell(d + n, Nul)

Becomes(cells) ==
  \E f \in [cells -> {Nul, Chr}] : content' = f ++ content

Moved(d, p, n) == [c \in Span(d, n) |-> content[p + c - d]]

-----------------------------------------------------------------------------
(* The malloc family.                                                      *)

(* The regions of n cells that libc could give out.                        *)
Places(n) ==
  {at \in Heap : Span(at, n) \subseteq
                 Heap \ UNION {Span(k.at, k.len) : k \in chunks}}

Block(at, size) == [at |-> at, len |-> size + Header, by |-> "wrapper"]
HeaderOf(at, size) == Cell(at, DEADBEEF + size)
SizeOf(k) == content[k.at] - DEADBEEF

(* Mutant of Headed: the size of the whole block.                          *)
HeadedWhole(at, size) ==
  /\ chunks' = chunks \cup {Block(at, size)}
  /\ \E f \in [Span(at + Header, size) -> {Nul, Chr}] :
       content' = HeaderOf(at, size + Header) ++ f ++ content

(* memprof_malloc up to ALLOCATE; the memory holds anything.               *)
Headed(at, size) ==
  /\ chunks' = chunks \cup {Block(at, size)}
  /\ \E f \in [Span(at + Header, size) -> {Nul, Chr}] :
       content' = HeaderOf(at, size) ++ f ++ content

(* Cells that are allocated or freed have nothing to depend on; stores     *)
(* may follow.                                                             *)
Invalid(cells, stores) ==
  /\ known' = (known \ cells) \cup stores
  /\ cut' = cut \cap known'

(* malloc_token, loaded and stored by all of the family, is left out.      *)
Malloc ==
  /\ Idle
  /\ \E size \in 0 .. MaxSize, at \in Heap :
      /\ at \in Places(size + Header)
      /\ Headed(at, size)
      /\ Invalid(Span(at, size + Header), {})
      /\ fault' = {}

(* The result of malloc is not checked, nor that of realloc.               *)
OutOfMemory == Idle /\ Ends(Dies("malloc"))

Calloc ==
  /\ Idle
  /\ \E size \in 0 .. MaxSize, at \in Heap :
      /\ at \in Places(size + Header)
      /\ chunks' = chunks \cup {Block(at, size)}
      /\ content' = HeaderOf(at, size) ++
                    [c \in Span(at + Header, size) |-> Nul] ++ content
      /\ Invalid(Span(at, size + Header), Span(at + Header, size))
      /\ fault' = {}

(* The header in front of p.  libc's own bookkeeping is no magic number.   *)
HasMagic(k) == HasHeader(k) /\ content[k.at] >= DEADBEEF

(* Mutant of Freed: the size of the header is added.                       *)
FreedWhole(k) == Span(k.at + Header, SizeOf(k) + Header)

(* The region memprof_free tells of, by the size in the header.            *)
Freed(k) == Span(k.at + Header, SizeOf(k))

Free ==
  /\ Idle
  /\ \E k \in chunks :
      IF HasMagic(k)
      THEN /\ chunks' = chunks \ {k}
           /\ Holds(Span(k.at, k.len), Chr)
           /\ Invalid(Freed(k), {})
           /\ fault' = {}
      ELSE Ends(NotFreed(k.by))

(* get_memory_allocation_user(NULL) is dereferenced, by free and realloc.  *)
FreeNull == Idle /\ Ends(Dies("free(NULL)"))

(* realloc leaves the block where it is: nothing is told.  What is cut off *)
(* may hold anything from now on.                                          *)
ReallocInPlace ==
  /\ Idle
  /\ \E k \in chunks, size \in 0 .. MaxSize :
      /\ HasMagic(k)
      /\ Span(k.at, size + Header) \subseteq
           Heap \ UNION {Span(j.at, j.len) : j \in chunks \ {k}}
      /\ chunks' = (chunks \ {k}) \cup
                   {Block(k.at, size)}
      /\ content' = HeaderOf(k.at, size) ++
           [c \in DataOf(k) \ Span(k.at + Header, size) |-> Chr] ++ content
      /\ cut' = (cut \cup DataOf(k)) \cap (known \ Span(k.at, size + Header))
      /\ fault' = {}
      /\ UNCHANGED known

(* Mutant of ReallocTells: the old block is not told of.                   *)
ReallocTellsNew(k, at, size) ==
  Invalid(Span(at, size + Header), Span(at + Header, SizeOf(k)))

(* Allocation of the new block, the copy; then the old block is freed.     *)
ReallocTells(k, at, size) ==
  Invalid(Span(at, size + Header) \cup Span(k.at + Header, SizeOf(k)),
          Span(at + Header, SizeOf(k)))

(* realloc moves the block with its header; the wrapper renews the size,   *)
(* tells also of a store to the cells added at the end, which nobody       *)
(* wrote, and gives up on a block that has moved without growing.          *)
ReallocMoves ==
  /\ Idle
  /\ \E k \in chunks, size \in 0 .. MaxSize, at \in Heap :
      /\ HasMagic(k)
      /\ at \in Places(size + Header)
      /\ IF size <= SizeOf(k)
         THEN Ends(Dies("realloc"))
         ELSE /\ chunks' = (chunks \ {k}) \cup
                           {Block(at, size)}
              /\ \E f \in [Span(at + k.len, size + Header - k.len) ->
                         {Nul, Chr}] :
                   content' = HeaderOf(at, size) ++ Moved(at, k.at, k.len) ++
                              f ++ [c \in Span(k.at, k.len) |-> Chr] ++ content
              /\ ReallocTells(k, at, size)
              /\ fault' = Faults("realloc",
                                 DataOf(k), Span(at + Header, SizeOf(k)),
                                 DataOf(k), Span(at + Header, size))

=============================================================================
