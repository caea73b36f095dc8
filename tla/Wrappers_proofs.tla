-------------------------- MODULE Wrappers_proofs --------------------------
(***************************************************************************)
(* Proofs about the wrappers, for a heap of any size: libc functions write *)
(* into the data of blocks, never into a header, so the headers stay true, *)
(* and with them what realloc and free tell of.                            *)
(***************************************************************************)
EXTENDS Wrappers, FiniteSetTheorems, LeastNumber

Footprint(k) == Span(k.at, k.len)

(* Where libc puts its blocks.                                             *)
BlocksApart ==
  /\ \A k \in chunks : /\ k.at \in Heap /\ k.len \in Nat \ {0}
                       /\ Footprint(k) \subseteq Heap
                       /\ k.by \in {"wrapper", "getcwd"}
  /\ \A j, k \in chunks : j /= k => Footprint(j) \cap Footprint(k) = {}

(* No store told of reached a header.                                      *)
HeadersUnknown == \A k \in chunks : HasHeader(k) => k.at \notin known

WInv ==
  /\ BlocksApart
  /\ Heap \subseteq DOMAIN content
  /\ HeadersAreTrue
  /\ HeadersUnknown
  /\ KnownOfBlocks
  /\ OtherCallsAreExact

(* What is known of the other blocks stays known (the action of            *)
(* OthersStayKnown).                                                       *)
Keeps ==
  fault' = {} =>
    \A k \in chunks \cap chunks' : known \cap DataOf(k) \subseteq known'

-----------------------------------------------------------------------------
(* Blocks and pointers.                                                    *)

LEMMA DataInside ==
  ASSUME BlocksApart, NEW k \in chunks
  PROVE  /\ DataOf(k) \subseteq Footprint(k)
         /\ DataOf(k) \subseteq Heap
         /\ HasHeader(k) => k.at \notin DataOf(k) /\ k.at \in Footprint(k)
BY DEF BlocksApart, DataOf, Footprint, Span, HasHeader, Header, Heap

LEMMA DataApart ==
  ASSUME BlocksApart, NEW j \in chunks, NEW k \in chunks, j /= k
  PROVE  /\ DataOf(j) \cap DataOf(k) = {}
         /\ HasHeader(k) => k.at \notin DataOf(j)
  BY DataInside DEF BlocksApart

LEMMA BufferIsData ==
  /\ \A b : b \in Buffer <=> \E k \in chunks : b \in DataOf(k)
  /\ UNION Objects = Buffer
BY DEF Buffer, Objects

LEMMA HeaderNotData ==
  ASSUME BlocksApart, NEW k \in chunks, HasHeader(k)
  PROVE  k.at \notin Buffer
BY BufferIsData, DataInside, DataApart

LEMMA Tokens ==
  /\ {File, FdToken(-1), NULL, LibcBuffer, RandToken, Environ} \cap Mem = {}
  /\ Literal \cap Heap = {}
  /\ Heap \subseteq Mem /\ Heap \subseteq Nat /\ Mem \subseteq Nat
BY HeapAssumption DEF File, FdToken, NULL, LibcBuffer, RandToken, Environ, Mem, Heap, Literal

(* What may go wrong.                                                      *)
LEMMA Listed ==
  /\ \A fn \in MisreportedWrites : Misreports(fn) \in KnownFaults
  /\ \A fn \in MissedReads : Misses(fn) \in KnownFaults
  /\ \A fn \in Deaths : Dies(fn) \in KnownFaults
  /\ NotFreed("getcwd") \in KnownFaults
BY DEF KnownFaults

(* A buffer lies within one block.                                         *)
LEMMA RestOfBuffer ==
  ASSUME BlocksApart, NEW p \in Buffer
  PROVE  \E k \in chunks : ObjectOf(p) = DataOf(k) /\ p \in DataOf(k)
<1>1. PICK k \in chunks : p \in DataOf(k)
  BY BufferIsData
<1>2. DataOf(k) \in Objects /\ p \notin Literal
  BY <1>1, DataInside, Tokens DEF Objects
<1>3. ObjectOf(p) \in Objects \cup {Literal} /\ p \in ObjectOf(p)
  BY <1>1, <1>2 DEF ObjectOf
<1>4. ObjectOf(p) \in Objects
  BY <1>2, <1>3
<1> QED
  BY <1>3, <1>4 DEF Objects

LEMMA FitsBuffer ==
  ASSUME BlocksApart, NEW p \in Buffer, NEW n \in Nat, Fits(p, n)
  PROVE  Span(p, n) \subseteq Buffer /\ p \in Nat
<1>1. PICK k \in chunks : ObjectOf(p) = DataOf(k) /\ p \in DataOf(k)
  BY RestOfBuffer
<1>2. p \in Nat
  BY <1>1, DataInside, Tokens
<1>3. CASE n = 0
  BY <1>2, <1>3 DEF Span
<1>4. CASE n /= 0
  BY <1>1, <1>2, <1>4, BufferIsData DEF Fits, Rest
<1> QED
  BY <1>2, <1>3, <1>4

(* A string ends in the object it is in.                                   *)
LEMMA StringEnds ==
  ASSUME BlocksApart, NEW p \in String
  PROVE  /\ p \in Nat /\ End(p) \in Nat /\ p <= End(p)
         /\ StrLen(p) \in Nat
         /\ p \in Buffer => Str(p) \subseteq Buffer
<1>1. \E o : /\ ObjectOf(p) = o /\ p \in o /\ o \subseteq Nat
             /\ \A b, d \in o, c \in Nat : b <= c /\ c <= d => c \in o
             /\ p \in Buffer => o \subseteq Buffer
  <2>1. CASE p \in Buffer
    <3>1. PICK k \in chunks : ObjectOf(p) = DataOf(k) /\ p \in DataOf(k)
      BY <2>1, RestOfBuffer
    <3>2. \A b, d \in DataOf(k), c \in Nat : b <= c /\ c <= d => c \in DataOf(k)
      BY DEF BlocksApart, DataOf, Span, HasHeader, Header, Heap
    <3> QED
      BY <3>1, <3>2, DataInside, BufferIsData, Tokens
  <2>2. CASE p \notin Buffer
    <3>1. p \in Literal
      BY <2>2 DEF String, Pointer
    <3>2. \A o \in Objects : p \notin o
      BY <2>2 DEF Buffer
    <3>3. ObjectOf(p) = Literal
      BY <3>1, <3>2 DEF ObjectOf
    <3> QED
      BY <2>2, <3>1, <3>3 DEF Literal
  <2> QED
    BY <2>1, <2>2
<1>2. PICK o : /\ ObjectOf(p) = o /\ p \in o /\ o \subseteq Nat
               /\ \A b, d \in o, c \in Nat : b <= c /\ c <= d => c \in o
               /\ p \in Buffer => o \subseteq Buffer
  BY <1>1
<1> DEFINE Z == {c \in Rest(p) : content[c] = Nul}
<1>3. Z \subseteq Nat /\ Z /= {} /\ \A c \in Z : c \in o /\ c >= p
  BY <1>2 DEF Rest, String, IsString
<1>4. End(p) \in Z
  <2> HIDE DEF Z
  <2>1. \E c \in Z : \A d \in Z : c <= d
    BY <1>3, LeastExists
  <2>2. Min(Z) \in Z
    BY <2>1 DEF Min
  <2> QED
    BY <2>2 DEF End, Z
<1>5. p \in Nat /\ End(p) \in Nat /\ p <= End(p) /\ End(p) \in o
  BY <1>2, <1>3, <1>4
<1>6. Str(p) \subseteq o
  BY <1>2, <1>5 DEF Str, Span, StrLen
<1>7. StrLen(p) \in Nat
  BY <1>5 DEF StrLen
<1>8. p \in Buffer => Str(p) \subseteq Buffer
  BY <1>2, <1>6
<1> QED
  BY <1>5, <1>7, <1>8

-----------------------------------------------------------------------------
(* What a call does to the memory.                                         *)

(* Outside of the data of blocks the heap is as it was.                    *)
Touched ==
  /\ Heap \subseteq DOMAIN content'
  /\ \A c \in Heap \ Buffer : content'[c] = content[c]

LEMMA Overwritten ==
  ASSUME Heap \subseteq DOMAIN content, NEW f, DOMAIN f \subseteq Buffer,
         content' = f ++ content
  PROVE  Touched
BY DEF Touched, ++

(* A call that leaves the heap as it is and tells what it did, or is known *)
(* not to.                                                                 *)
LEMMA ToldStep ==
  ASSUME WInv, Within, Touched, NEW fn, NEW reads, NEW writes, NEW loads, NEW stores,
         Told(fn, reads, writes, loads, stores),
         writes \cap Mem \subseteq Buffer,
         reads \subseteq loads \/ Misses(fn) \in KnownFaults,
         writes = stores \/ Misreports(fn) \in KnownFaults
  PROVE  WInv' /\ Keeps
<1>1. known' \subseteq known \cup Buffer
  BY DEF Told
<1>2. fault' \subseteq KnownFaults
  BY DEF Told, Faults
<1>3. fault' = {} => known \subseteq known'
  BY DEF Told, Faults
<1>4. chunks' = chunks /\ cut' = cut \cap known'
  BY DEF Within
<1>5. Objects' = Objects /\ UNION Objects = Buffer
  BY <1>4, BufferIsData DEF Objects
<1>6. BlocksApart'
  BY <1>4 DEF WInv, BlocksApart
<1>7. HeadersAreTrue'
  <2>1. ASSUME NEW k \in chunks, HasHeader(k)
        PROVE  content'[k.at] = DEADBEEF + k.len - Header
    <3>1. k.at \in Heap \ Buffer
      BY <2>1, HeaderNotData DEF WInv, BlocksApart
    <3> QED
      BY <2>1, <3>1 DEF Touched, WInv, HeadersAreTrue
  <2> QED
    BY <1>4, <2>1 DEF HeadersAreTrue
<1>8. HeadersUnknown'
  BY <1>1, <1>4, HeaderNotData DEF WInv, HeadersUnknown
<1>9. KnownOfBlocks'
  <2>1. known \subseteq Buffer \cup cut
    BY DEF WInv, KnownOfBlocks
  <2>2. Buffer' = Buffer
    BY <1>5 DEF Buffer
  <2> QED
    BY <1>1, <1>4, <2>1, <2>2 DEF KnownOfBlocks
<1>10. OtherCallsAreExact'
  BY <1>2 DEF OtherCallsAreExact
<1> QED
  BY <1>3, <1>6, <1>7, <1>8, <1>9, <1>10 DEF WInv, Keeps, Touched

LEMMA QuietStep ==
  ASSUME WInv, Quiet, NEW fn, NEW reads, NEW writes, NEW loads, NEW stores,
         Told(fn, reads, writes, loads, stores),
         writes \cap Mem \subseteq Buffer,
         reads \subseteq loads \/ Misses(fn) \in KnownFaults,
         writes = stores \/ Misreports(fn) \in KnownFaults
  PROVE  WInv' /\ Keeps
<1>1. Within /\ Touched
  BY DEF Quiet, Touched, WInv
<1> QED
  BY <1>1, ToldStep

(* The process ends, and its memory with it.                               *)
LEMMA EndStep ==
  ASSUME NEW f \in KnownFaults, Ends(f)
  PROVE  WInv' /\ Keeps
<1>1. Heap \subseteq DOMAIN content'
  BY Tokens DEF Ends, Blank
<1> QED
  BY <1>1 DEF Ends, WInv, BlocksApart, HeadersAreTrue, HeadersUnknown, KnownOfBlocks,
     OtherCallsAreExact, Keeps

-----------------------------------------------------------------------------
(* Blocks come and go.                                                     *)

LEMMA PlaceFree ==
  ASSUME BlocksApart, NEW new, new.at \in Heap, new.len \in Nat \ {0},
         new.at \in Places(new.len)
  PROVE  /\ Footprint(new) \subseteq Heap
         /\ \A k \in chunks : Footprint(new) \cap Footprint(k) = {}
         /\ new \notin chunks
<1>1. Footprint(new) \subseteq Heap
  BY DEF Places, Footprint
<1>2. \A k \in chunks : Footprint(new) \cap Footprint(k) = {}
  BY DEF Places, Footprint
<1>3. \A a \in Nat, n \in Nat \ {0} : a \in Span(a, n)
  BY DEF Span
<1>4. new.at \in Footprint(new)
  BY <1>3, Tokens DEF Footprint
<1> QED
  BY <1>1, <1>2, <1>4

LEMMA WrittenOver ==
  ASSUME Heap \subseteq DOMAIN content, NEW f, content' = f ++ content
  PROVE  /\ Heap \subseteq DOMAIN content'
         /\ \A c \in Heap : c \notin DOMAIN f => content'[c] = content[c]
         /\ \A c \in DOMAIN f : content'[c] = f[c]
BY DEF ++

(* The header is written over everything else.                             *)
LEMMA HeaderFirst ==
  ASSUME NEW at, NEW size, NEW f
  PROVE  /\ (HeaderOf(at, size) ++ f)[at] = DEADBEEF + size
         /\ DOMAIN (HeaderOf(at, size) ++ f) = {at} \cup DOMAIN f
BY DEF ++, HeaderOf, Cell

LEMMA BlockShape ==
  ASSUME NEW at \in Heap, NEW size \in Nat
  PROVE  /\ Block(at, size).at = at /\ Block(at, size).len = size + Header
         /\ Block(at, size).len \in Nat \ {0}
         /\ Block(at, size).by = "wrapper" /\ HasHeader(Block(at, size))
         /\ Footprint(Block(at, size)) = Span(at, size + Header)
         /\ DataOf(Block(at, size)) = Span(at + Header, size)
         /\ Footprint(Block(at, size)) = {at} \cup DataOf(Block(at, size))
         /\ at \notin DataOf(Block(at, size))
         /\ DEADBEEF + Block(at, size).len - Header = DEADBEEF + size
<1>1. at \in Nat /\ Header = 1 /\ DEADBEEF = 100
  BY Tokens DEF Header, DEADBEEF
<1>2. /\ Block(at, size).at = at /\ Block(at, size).len = size + Header
      /\ Block(at, size).by = "wrapper"
  BY DEF Block
<1>3. HasHeader(Block(at, size))
  BY <1>2 DEF HasHeader
<1>4. DataOf(Block(at, size)) = Span(at + Header, size)
  BY <1>1, <1>2, <1>3 DEF DataOf
<1>5. Footprint(Block(at, size)) = Span(at, size + Header)
  BY <1>2 DEF Footprint
<1>6. Span(at, size + Header) = {at} \cup Span(at + Header, size)
  BY <1>1 DEF Span
<1>7. at \notin Span(at + Header, size)
  BY <1>1 DEF Span
<1> QED
  BY <1>1, <1>2, <1>3, <1>4, <1>5, <1>6, <1>7

(* What the header of a block says.                                        *)
LEMMA HeaderSays ==
  ASSUME WInv, NEW k \in chunks
  PROVE  /\ HasMagic(k) <=> HasHeader(k)
         /\ HasHeader(k) => /\ SizeOf(k) \in Nat /\ k.len = SizeOf(k) + Header
                            /\ Freed(k) = DataOf(k)
<1>1. k.len \in Nat \ {0} /\ k.at \in Nat
  BY Tokens DEF WInv, BlocksApart
<1>2. HasHeader(k) => content[k.at] = DEADBEEF + k.len - Header
  BY DEF WInv, HeadersAreTrue
<1>3. HasHeader(k) => SizeOf(k) = k.len - Header
  BY <1>1, <1>2 DEF SizeOf, DEADBEEF, Header
<1>4. HasMagic(k) <=> HasHeader(k)
  BY <1>1, <1>2 DEF HasMagic, DEADBEEF, Header
<1> QED
  BY <1>1, <1>3, <1>4 DEF Freed, DataOf, Header

(* The blocks Gone make room for New, which has at most one.               *)
Fitting(New, Gone) ==
  \A n \in New : /\ n.at \in Heap /\ n.len \in Nat \ {0}
                 /\ Footprint(n) \subseteq Heap
                 /\ n.by \in {"wrapper", "getcwd"}
                 /\ \A k \in chunks \ Gone : Footprint(n) \cap Footprint(k) = {}
                 /\ DataOf(n) \subseteq Footprint(n)
                 /\ HasHeader(n) => /\ n.at \notin DataOf(n)
                                    /\ n.at \in Footprint(n)
                                    /\ content'[n.at] = DEADBEEF + n.len - Header

(* What is known afterwards is known of the blocks that stay, or new.      *)
Learnt(New, Gone) ==
  /\ \A b \in known' : \/ \E n \in New : b \in DataOf(n)
                       \/ /\ b \in known
                          /\ \A g \in Gone : b \notin DataOf(g)
                          /\ \A n \in New : b \notin Footprint(n)
  /\ \A k \in chunks \ Gone : known \cap DataOf(k) \subseteq known'
  /\ cut' = cut \cap known'

Replaced(New, Gone) ==
  /\ Gone \subseteq chunks /\ New \cap chunks = {}
  /\ \A m, n \in New : m = n
  /\ chunks' = (chunks \ Gone) \cup New
  /\ Fitting(New, Gone)
  /\ Heap \subseteq DOMAIN content'
  /\ \A k \in chunks \ Gone : content'[k.at] = content[k.at]
  /\ Learnt(New, Gone)
  /\ fault' \subseteq KnownFaults

LEMMA ReplaceStep ==
  ASSUME WInv, NEW New, NEW Gone, Replaced(New, Gone)
  PROVE  WInv' /\ Keeps
<1> USE DEF Replaced, Fitting, Learnt
<1>1. BlocksApart'
  <2>1. \A k \in chunks' : /\ k.at \in Heap /\ k.len \in Nat \ {0}
                           /\ Footprint(k) \subseteq Heap
                           /\ k.by \in {"wrapper", "getcwd"}
    BY DEF WInv, BlocksApart
  <2>2. \A j, k \in chunks' : j /= k => Footprint(j) \cap Footprint(k) = {}
    BY DEF WInv, BlocksApart
  <2> QED
    BY <2>1, <2>2 DEF BlocksApart
<1>2. HeadersAreTrue'
  BY DEF WInv, HeadersAreTrue
<1>3. HeadersUnknown'
  <2>1. ASSUME NEW k \in chunks', HasHeader(k), k.at \in known' PROVE FALSE
    <3>1. CASE k \in New
      <4>1. \E n \in New : k.at \in DataOf(n)
        BY <2>1, <3>1
      <4> QED
        BY <2>1, <3>1, <4>1
    <3>2. CASE k \in chunks \ Gone
      <4>1. k.at \in Footprint(k)
        BY <2>1, <3>2, DataInside DEF WInv
      <4>2. k.at \notin known
        BY <2>1, <3>2 DEF WInv, HeadersUnknown
      <4> QED
        BY <2>1, <3>2, <4>1, <4>2
    <3> QED
      BY <3>1, <3>2
  <2> QED
    BY <2>1 DEF HeadersUnknown
<1>4. KnownOfBlocks'
  <2>1. SUFFICES ASSUME NEW b \in known', b \notin cut'
                 PROVE  \E k \in chunks' : b \in DataOf(k)
    BY DEF KnownOfBlocks, Buffer, Objects
  <2>2. CASE \E n \in New : b \in DataOf(n)
    BY <2>2
  <2>3. CASE b \in known /\ \A g \in Gone : b \notin DataOf(g)
    <3>1. b \in Buffer
      BY <2>1, <2>3 DEF WInv, KnownOfBlocks
    <3> QED
      BY <2>3, <3>1, BufferIsData
  <2> QED
    BY <2>2, <2>3
<1>5. OtherCallsAreExact'
  BY DEF OtherCallsAreExact
<1>6. Keeps
  BY DEF Keeps
<1>7. Heap \subseteq DOMAIN content'
  OBVIOUS
<1> QED
  BY <1>1, <1>2, <1>3, <1>4, <1>5, <1>6, <1>7 DEF WInv

(* A new block of the wrapper at a free place, with its header.            *)
LEMMA AllocateStep ==
  ASSUME WInv, NEW at \in Heap, NEW size \in Nat, at \in Places(size + Header),
         chunks' = chunks \cup {Block(at, size)},
         NEW f, DOMAIN f \subseteq Span(at + Header, size),
         content' = HeaderOf(at, size) ++ f ++ content,
         NEW stores, stores \subseteq Span(at + Header, size),
         Invalid(Span(at, size + Header), stores),
         fault' = {}
  PROVE  WInv' /\ Keeps
<1> DEFINE n == Block(at, size)
<1>1. /\ n.at = at /\ n.len \in Nat \ {0} /\ n.at \in Places(n.len)
      /\ n.by = "wrapper" /\ HasHeader(n)
      /\ Footprint(n) = Span(at, size + Header)
      /\ DataOf(n) = Span(at + Header, size)
      /\ Footprint(n) = {at} \cup DataOf(n) /\ at \notin DataOf(n)
      /\ DEADBEEF + n.len - Header = DEADBEEF + size
  BY BlockShape
<1> HIDE DEF n
<1>2. /\ Footprint(n) \subseteq Heap /\ n \notin chunks
      /\ \A k \in chunks : Footprint(n) \cap Footprint(k) = {}
  BY <1>1, PlaceFree DEF WInv
<1>3. /\ Heap \subseteq DOMAIN content'
      /\ content'[at] = DEADBEEF + size
      /\ \A c \in Heap : c \notin Footprint(n) => content'[c] = content[c]
  <2> DEFINE h == HeaderOf(at, size) ++ f
  <2>1. h[at] = DEADBEEF + size /\ DOMAIN h = {at} \cup DOMAIN f
    BY HeaderFirst
  <2>2. content' = h ++ content /\ Heap \subseteq DOMAIN content
    BY DEF WInv
  <2> HIDE DEF h
  <2>3. /\ Heap \subseteq DOMAIN content'
        /\ \A c \in Heap : c \notin DOMAIN h => content'[c] = content[c]
        /\ \A c \in DOMAIN h : content'[c] = h[c]
    BY <2>2, WrittenOver
  <2> QED
    BY <1>1, <2>1, <2>3
<1>4. \A k \in chunks : k.at \in Heap /\ k.at \in Footprint(k)
  BY Tokens DEF WInv, BlocksApart, Footprint, Span
<1>5. \A k \in chunks : content'[k.at] = content[k.at]
  BY <1>2, <1>3, <1>4
<1>6. /\ known' = (known \ Footprint(n)) \cup stores
      /\ cut' = cut \cap known'
  BY <1>1 DEF Invalid
<1>7. \A k \in chunks : known \cap DataOf(k) \subseteq known'
  BY <1>2, <1>6, DataInside DEF WInv
<1>8. chunks' = (chunks \ {}) \cup {n}
  BY DEF n
<1>9. Learnt({n}, {})
  BY <1>1, <1>6, <1>7 DEF Learnt
<1>10. Fitting({n}, {})
  BY <1>1, <1>2, <1>3 DEF Fitting
<1>11. Replaced({n}, {})
  BY <1>2, <1>3, <1>5, <1>8, <1>9, <1>10 DEF Replaced
<1> QED
  BY <1>11, ReplaceStep

LEMMA Became ==
  ASSUME WInv, NEW cells, cells \subseteq Buffer, Becomes(cells)
  PROVE  Touched
<1>1. PICK f \in [cells -> {Nul, Chr}] : content' = f ++ content
  BY DEF Becomes
<1> QED
  BY <1>1, Overwritten DEF WInv

LEMMA TextSpan ==
  ASSUME NEW d \in Nat, NEW n \in Nat
  PROVE  DOMAIN Text(d, n) = Span(d, n + 1)
BY DEF Text, Cell, Span, ++

-----------------------------------------------------------------------------
(* The malloc family.                                                      *)

LEMMA SizesNat == MaxSize \in Nat /\ HeapSize \in Nat /\ Count \subseteq Nat
BY HeapAssumption DEF Count

LEMMA MallocStep == WInv /\ Malloc => WInv' /\ Keeps
<1> SUFFICES ASSUME WInv, Malloc PROVE WInv' /\ Keeps
  OBVIOUS
<1>1. PICK size \in 0 .. MaxSize, at \in Heap :
        /\ at \in Places(size + Header)
        /\ Headed(at, size)
        /\ Invalid(Span(at, size + Header), {})
        /\ fault' = {}
  BY DEF Malloc
<1>2. PICK f \in [Span(at + Header, size) -> {Nul, Chr}] :
        content' = HeaderOf(at, size) ++ f ++ content
  BY <1>1 DEF Headed
<1>3. size \in Nat /\ DOMAIN f \subseteq Span(at + Header, size)
  BY <1>2, SizesNat
<1>4. chunks' = chunks \cup {Block(at, size)}
  BY <1>1 DEF Headed
<1> QED
  BY <1>1, <1>2, <1>3, <1>4, AllocateStep

LEMMA CallocStep == WInv /\ Calloc => WInv' /\ Keeps
<1> SUFFICES ASSUME WInv, Calloc PROVE WInv' /\ Keeps
  OBVIOUS
<1>1. PICK size \in 0 .. MaxSize, at \in Heap :
        /\ at \in Places(size + Header)
        /\ chunks' = chunks \cup {Block(at, size)}
        /\ content' = HeaderOf(at, size) ++
                      [c \in Span(at + Header, size) |-> Nul] ++ content
        /\ Invalid(Span(at, size + Header), Span(at + Header, size))
        /\ fault' = {}
  BY DEF Calloc
<1> DEFINE f == [c \in Span(at + Header, size) |-> Nul]
<1>2. size \in Nat /\ DOMAIN f \subseteq Span(at + Header, size)
  BY SizesNat
<1>3. content' = HeaderOf(at, size) ++ f ++ content
  BY <1>1
<1> HIDE DEF f
<1> QED
  BY <1>1, <1>2, <1>3, AllocateStep

LEMMA StrDupStep == WInv /\ StrDup => WInv' /\ Keeps
<1> SUFFICES ASSUME WInv, StrDup PROVE WInv' /\ Keeps
  OBVIOUS
<1>0. PICK p \in String :
        \/ \E at \in Heap : /\ at \in Places(StrLen(p) + 1 + Header)
                            /\ Duplicated(at, p, StrLen(p) + 1)
        \/ Told("strdup", Str(p), {}, Str(p), {}) /\ Quiet
  BY DEF StrDup
<1>1. CASE Told("strdup", Str(p), {}, Str(p), {}) /\ Quiet
  BY <1>1, QuietStep
<1>2. CASE \E at \in Heap : /\ at \in Places(StrLen(p) + 1 + Header)
                            /\ Duplicated(at, p, StrLen(p) + 1)
  <2>1. PICK at \in Heap : /\ at \in Places(StrLen(p) + 1 + Header)
                           /\ Duplicated(at, p, StrLen(p) + 1)
    BY <1>2
  <2> DEFINE size == StrLen(p) + 1
             f == Moved(at + Header, p, size)
  <2>2. size \in Nat /\ at \in Places(size + Header)
    BY <2>1, StringEnds DEF WInv
  <2>3. /\ chunks' = chunks \cup {Block(at, size)}
        /\ content' = HeaderOf(at, size) ++ f ++ content
        /\ Invalid(Span(at, size + Header), Span(at + Header, size))
        /\ fault' = Faults("strdup", Str(p), Span(at + Header, size),
                           Str(p), Span(at + Header, size))
    BY <2>1 DEF Duplicated
  <2>4. DOMAIN f \subseteq Span(at + Header, size)
    BY DEF Moved
  <2> HIDE DEF size, f
  <2>5. fault' = {}
    BY <2>3 DEF Faults
  <2> QED
    BY <2>2, <2>3, <2>4, <2>5, AllocateStep
<1> QED
  BY <1>0, <1>1, <1>2

(* The size in the header is the size of the block: all that is known of   *)
(* it is forgotten, and nothing else.                                      *)
LEMMA FreeStep == WInv /\ Free => WInv' /\ Keeps
<1> SUFFICES ASSUME WInv, Free PROVE WInv' /\ Keeps
  OBVIOUS
<1>1. PICK k \in chunks :
        IF HasMagic(k)
        THEN /\ chunks' = chunks \ {k}
             /\ Holds(Span(k.at, k.len), Chr)
             /\ Invalid(Freed(k), {})
             /\ fault' = {}
        ELSE Ends(NotFreed(k.by))
  BY DEF Free
<1>2. CASE HasMagic(k)
  <2>1. Freed(k) = DataOf(k)
    BY <1>2, HeaderSays
  <2>2. /\ chunks' = (chunks \ {k}) \cup {}
        /\ known' = known \ DataOf(k) /\ cut' = cut \cap known'
        /\ fault' = {}
    BY <1>1, <1>2, <2>1 DEF Invalid
  <2>3. /\ Heap \subseteq DOMAIN content'
        /\ \A c \in Heap : c \notin Footprint(k) => content'[c] = content[c]
    <3>1. content' = [c \in Footprint(k) |-> Chr] ++ content
      BY <1>1, <1>2 DEF Holds, Footprint
    <3>2. Heap \subseteq DOMAIN content
      BY DEF WInv
    <3> DEFINE f == [c \in Footprint(k) |-> Chr]
    <3>3. content' = f ++ content /\ DOMAIN f = Footprint(k)
      BY <3>1
    <3> HIDE DEF f
    <3> QED
      BY <3>2, <3>3, WrittenOver
  <2>4. \A j \in chunks \ {k} : content'[j.at] = content[j.at]
    <3>1. \A a \in Nat, n \in Nat \ {0} : a \in Span(a, n)
      BY DEF Span
    <3>2. \A j \in chunks : j.at \in Heap /\ j.at \in Footprint(j)
      BY <3>1, Tokens DEF WInv, BlocksApart, Footprint
    <3> QED
      BY <2>3, <3>2 DEF WInv, BlocksApart
  <2>5. \A j \in chunks \ {k} : known \cap DataOf(j) \subseteq known'
    BY <2>2, DataApart DEF WInv
  <2>6. Learnt({}, {k})
    <3>1. \A b \in known' : /\ b \in known
                            /\ \A g \in {k} : b \notin DataOf(g)
                            /\ \A n \in {} : b \notin Footprint(n)
      BY <2>2
    <3>2. cut' = cut \cap known'
      BY <2>2
    <3> QED
      BY <2>5, <3>1, <3>2 DEF Learnt
  <2>7. Replaced({}, {k})
    BY <2>2, <2>3, <2>4, <2>6 DEF Replaced, Fitting
  <2> QED
    BY <2>7, ReplaceStep
<1>3. CASE ~HasMagic(k)
  <2>1. k.by = "getcwd"
    BY <1>3, HeaderSays DEF HasHeader, WInv, BlocksApart
  <2> QED
    BY <1>1, <1>3, <2>1, Listed, EndStep
<1> QED
  BY <1>2, <1>3

LEMMA ReallocInPlaceStep == WInv /\ ReallocInPlace => WInv' /\ Keeps
<1> SUFFICES ASSUME WInv, ReallocInPlace PROVE WInv' /\ Keeps
  OBVIOUS
<1>1. PICK k \in chunks, size \in 0 .. MaxSize :
        /\ HasMagic(k)
        /\ Span(k.at, size + Header) \subseteq
             Heap \ UNION {Span(j.at, j.len) : j \in chunks \ {k}}
        /\ chunks' = (chunks \ {k}) \cup {Block(k.at, size)}
        /\ content' = HeaderOf(k.at, size) ++
             [c \in DataOf(k) \ Span(k.at + Header, size) |-> Chr] ++ content
        /\ cut' = (cut \cup DataOf(k)) \cap (known \ Span(k.at, size + Header))
        /\ fault' = {}
        /\ UNCHANGED known
  BY DEF ReallocInPlace
<1> DEFINE n == Block(k.at, size)
           f == [c \in DataOf(k) \ Span(k.at + Header, size) |-> Chr]
<1>2. size \in Nat /\ k.at \in Heap /\ HasHeader(k)
  BY <1>1, SizesNat, HeaderSays DEF WInv, BlocksApart
<1>3. /\ n.at = k.at /\ n.len \in Nat \ {0}
      /\ n.by = "wrapper" /\ HasHeader(n)
      /\ Footprint(n) = Span(k.at, size + Header)
      /\ DataOf(n) = Span(k.at + Header, size)
      /\ Footprint(n) = {k.at} \cup DataOf(n) /\ k.at \notin DataOf(n)
      /\ DEADBEEF + n.len - Header = DEADBEEF + size
  BY <1>2, BlockShape
<1>4. chunks' = (chunks \ {k}) \cup {n}
  BY <1>1
<1>5. content' = HeaderOf(k.at, size) ++ f ++ content /\ DOMAIN f \subseteq DataOf(k)
  BY <1>1
<1> HIDE DEF n, f
<1>6. /\ Footprint(n) \subseteq Heap
      /\ \A j \in chunks \ {k} : Footprint(n) \cap Footprint(j) = {}
  BY <1>1, <1>3 DEF Footprint
<1>7. /\ Heap \subseteq DOMAIN content'
      /\ content'[k.at] = DEADBEEF + size
      /\ \A c \in Heap : c \notin Footprint(k) => content'[c] = content[c]
  <2> DEFINE h == HeaderOf(k.at, size) ++ f
  <2>1. h[k.at] = DEADBEEF + size /\ DOMAIN h = {k.at} \cup DOMAIN f
    BY HeaderFirst
  <2>2. content' = h ++ content /\ Heap \subseteq DOMAIN content
    BY <1>5 DEF WInv
  <2>3. DOMAIN h \subseteq Footprint(k)
    BY <1>2, <1>5, <2>1, DataInside DEF WInv
  <2> HIDE DEF h
  <2>4. /\ Heap \subseteq DOMAIN content'
        /\ \A c \in Heap : c \notin DOMAIN h => content'[c] = content[c]
        /\ \A c \in DOMAIN h : content'[c] = h[c]
    BY <2>2, WrittenOver
  <2> QED
    BY <2>1, <2>3, <2>4
<1>8. BlocksApart'
  <2>1. \A j \in chunks' : /\ j.at \in Heap /\ j.len \in Nat \ {0}
                           /\ Footprint(j) \subseteq Heap
                           /\ j.by \in {"wrapper", "getcwd"}
    BY <1>2, <1>3, <1>4, <1>6 DEF WInv, BlocksApart
  <2>2. \A i, j \in chunks' : i /= j => Footprint(i) \cap Footprint(j) = {}
    BY <1>4, <1>6 DEF WInv, BlocksApart
  <2> QED
    BY <2>1, <2>2 DEF BlocksApart
<1>9. HeadersAreTrue'
  <2>1. ASSUME NEW j \in chunks \ {k}, HasHeader(j)
        PROVE  content'[j.at] = DEADBEEF + j.len - Header
    <3>1. j.at \in Footprint(j) /\ j.at \in Heap
      BY <2>1, DataInside DEF WInv, BlocksApart
    <3>2. j.at \notin Footprint(k)
      BY <3>1 DEF WInv, BlocksApart
    <3> QED
      BY <1>7, <2>1, <3>1, <3>2 DEF WInv, HeadersAreTrue
  <2>2. content'[n.at] = DEADBEEF + n.len - Header
    BY <1>3, <1>7
  <2> QED
    BY <1>4, <2>1, <2>2 DEF HeadersAreTrue
<1>10. HeadersUnknown'
  BY <1>1, <1>2, <1>3, <1>4 DEF WInv, HeadersUnknown
<1>11. KnownOfBlocks'
  <2>1. SUFFICES ASSUME NEW b \in known, b \notin cut'
                 PROVE  \E j \in chunks' : b \in DataOf(j)
    BY <1>1 DEF KnownOfBlocks, Buffer, Objects
  <2>2. b \in Buffer \/ b \in cut
    BY DEF WInv, KnownOfBlocks
  <2>3. CASE \E j \in chunks \ {k} : b \in DataOf(j)
    BY <1>4, <2>3
  <2>4. CASE ~ \E j \in chunks \ {k} : b \in DataOf(j)
    <3>1. b \in DataOf(k) \/ b \in cut
      BY <2>2, <2>4, BufferIsData
    <3>2. b \in Footprint(n)
      BY <1>1, <1>3, <2>1, <3>1
    <3>3. b /= k.at
      BY <1>2 DEF WInv, HeadersUnknown
    <3> QED
      BY <1>3, <1>4, <3>2, <3>3
  <2> QED
    BY <2>3, <2>4
<1>12. OtherCallsAreExact' /\ Keeps
  BY <1>1 DEF OtherCallsAreExact, Keeps
<1> QED
  BY <1>7, <1>8, <1>9, <1>10, <1>11, <1>12 DEF WInv

LEMMA ReallocMovesStep == WInv /\ ReallocMoves => WInv' /\ Keeps
<1> SUFFICES ASSUME WInv, ReallocMoves PROVE WInv' /\ Keeps
  OBVIOUS
<1>1. PICK k \in chunks, size \in 0 .. MaxSize, at \in Heap :
        /\ HasMagic(k)
        /\ at \in Places(size + Header)
        /\ IF size <= SizeOf(k)
           THEN Ends(Dies("realloc"))
           ELSE /\ chunks' = (chunks \ {k}) \cup {Block(at, size)}
                /\ \E f \in [Span(at + k.len, size + Header - k.len) -> {Nul, Chr}] :
                     content' = HeaderOf(at, size) ++ Moved(at, k.at, k.len) ++
                                f ++ [c \in Span(k.at, k.len) |-> Chr] ++ content
                /\ ReallocTells(k, at, size)
                /\ fault' = Faults("realloc", DataOf(k), Span(at + Header, SizeOf(k)),
                                   DataOf(k), Span(at + Header, size))
  BY DEF ReallocMoves
<1>2. CASE size <= SizeOf(k)
  <2>1. "realloc" \in Deaths
    BY DEF Deaths
  <2> QED
    BY <1>1, <1>2, <2>1, Listed, EndStep
<1>3. CASE ~(size <= SizeOf(k))
  <2> DEFINE n == Block(at, size)
  <2>1. /\ size \in Nat /\ SizeOf(k) \in Nat /\ SizeOf(k) < size
        /\ HasHeader(k) /\ k.len = SizeOf(k) + Header /\ k.len <= size + Header
        /\ Freed(k) = DataOf(k)
    BY <1>1, <1>3, SizesNat, HeaderSays DEF Header
  <2>2. /\ n.at = at /\ n.len \in Nat \ {0} /\ n.at \in Places(n.len)
        /\ n.by = "wrapper" /\ HasHeader(n)
        /\ Footprint(n) = Span(at, size + Header)
        /\ DataOf(n) = Span(at + Header, size)
        /\ Footprint(n) = {at} \cup DataOf(n) /\ at \notin DataOf(n)
        /\ DEADBEEF + n.len - Header = DEADBEEF + size
    BY <1>1, <2>1, BlockShape
  <2>3. /\ chunks' = (chunks \ {k}) \cup {n}
        /\ fault' \subseteq {Misreports("realloc")}
    BY <1>1, <1>3 DEF Faults
  <2> HIDE DEF n
  <2>4. /\ Footprint(n) \subseteq Heap /\ n \notin chunks
        /\ \A j \in chunks : Footprint(n) \cap Footprint(j) = {}
    BY <1>1, <2>2, PlaceFree DEF WInv
  <2>5. PICK f \in [Span(at + k.len, size + Header - k.len) -> {Nul, Chr}] :
          content' = HeaderOf(at, size) ++ Moved(at, k.at, k.len) ++
                     f ++ [c \in Footprint(k) |-> Chr] ++ content
    BY <1>1, <1>3 DEF Footprint
  <2>6. /\ DOMAIN Moved(at, k.at, k.len) \subseteq Footprint(n)
        /\ DOMAIN f \subseteq Footprint(n)
    <3>1. at \in Nat /\ k.len \in Nat /\ size + Header \in Nat /\ DOMAIN f = Span(at + k.len, size + Header - k.len)
      BY <2>1, <2>5, Tokens DEF Header
    <3>2. Span(at, k.len) \subseteq Span(at, size + Header)
      BY <2>1, <3>1 DEF Span
    <3>3. Span(at + k.len, size + Header - k.len) \subseteq Span(at, size + Header)
      <4> DEFINE l == k.len
                 m == size + Header
      <4>1. l \in Nat /\ m \in Nat /\ l <= m
        BY <2>1, <3>1
      <4> HIDE DEF l, m
      <4>2. Span(at + l, m - l) \subseteq Span(at, m)
        BY <3>1, <4>1 DEF Span
      <4>3. (size + Header) - k.len = size + (Header - k.len)
        BY <2>1, <3>1 DEF Header
      <4> QED
        BY <4>2, <4>3 DEF l, m
    <3> QED
      BY <2>2, <3>1, <3>2, <3>3 DEF Moved
  <2>7. /\ Heap \subseteq DOMAIN content'
        /\ content'[at] = DEADBEEF + size
        /\ \A c \in Heap : c \notin Footprint(k) /\ c \notin Footprint(n) =>
             content'[c] = content[c]
    <3> DEFINE m == Moved(at, k.at, k.len)
               g == [c \in Footprint(k) |-> Chr]
               h1 == HeaderOf(at, size) ++ m
               h2 == h1 ++ f
               h3 == h2 ++ g
    <3>1. h1[at] = DEADBEEF + size /\ DOMAIN h1 = {at} \cup DOMAIN m
      BY HeaderFirst
    <3>2. DOMAIN g = Footprint(k) /\ DOMAIN m \subseteq Footprint(n)
      BY <2>6
    <3> HIDE DEF h1, g, m
    <3>3. h2[at] = DEADBEEF + size /\ DOMAIN h2 = DOMAIN h1 \cup DOMAIN f
      BY <3>1 DEF ++
    <3> HIDE DEF h2
    <3>4. h3[at] = DEADBEEF + size /\ DOMAIN h3 = DOMAIN h2 \cup DOMAIN g
      BY <3>1, <3>3 DEF ++
    <3>5. content' = h3 ++ content /\ Heap \subseteq DOMAIN content
      BY <2>5 DEF WInv, h1, h2, m, g
    <3> HIDE DEF h3
    <3>6. at \in DOMAIN h3 /\ DOMAIN h3 \subseteq Footprint(k) \cup Footprint(n)
      BY <2>2, <2>6, <3>1, <3>2, <3>3, <3>4
    <3>7. /\ Heap \subseteq DOMAIN content'
          /\ \A c \in Heap : c \notin DOMAIN h3 => content'[c] = content[c]
          /\ \A c \in DOMAIN h3 : content'[c] = h3[c]
      BY <3>5, WrittenOver
    <3> QED
      BY <3>4, <3>6, <3>7
  <2>8. \A j \in chunks \ {k} : content'[j.at] = content[j.at]
    <3>1. \A a \in Nat, l \in Nat \ {0} : a \in Span(a, l)
      BY DEF Span
    <3>2. \A j \in chunks : j.at \in Heap /\ j.at \in Footprint(j)
      BY <3>1, Tokens DEF WInv, BlocksApart, Footprint
    <3> QED
      BY <2>4, <2>7, <3>2 DEF WInv, BlocksApart
  <2> DEFINE stores == Span(at + Header, SizeOf(k))
  <2>9. stores \subseteq DataOf(n)
    <3>1. at \in Nat
      BY Tokens
    <3> QED
      BY <2>1, <2>2, <3>1 DEF Span, Header
  <2>10. /\ known' = (known \ (Footprint(n) \cup DataOf(k))) \cup stores
         /\ cut' = cut \cap known'
    BY <1>1, <1>3, <2>1, <2>2 DEF ReallocTells, Invalid, Freed
  <2> HIDE DEF stores
  <2>11. \A j \in chunks \ {k} : known \cap DataOf(j) \subseteq known'
    BY <2>4, <2>10, DataInside, DataApart DEF WInv
  <2>12. Learnt({n}, {k})
    <3>1. \A b \in known' : \/ b \in DataOf(n)
                            \/ b \in known /\ b \notin DataOf(k) /\ b \notin Footprint(n)
      BY <2>9, <2>10
    <3>2. cut' = cut \cap known'
      BY <2>10
    <3> QED
      BY <2>11, <3>1, <3>2 DEF Learnt
  <2>13. Fitting({n}, {k})
    BY <2>2, <2>4, <2>7 DEF Fitting
  <2>14. fault' \subseteq KnownFaults
    <3>1. "realloc" \in MisreportedWrites
      BY DEF MisreportedWrites
    <3> QED
      BY <2>3, <3>1, Listed
  <2>15. Replaced({n}, {k})
    BY <2>3, <2>4, <2>7, <2>8, <2>12, <2>13, <2>14 DEF Replaced
  <2> QED
    BY <2>15, ReplaceStep
<1> QED
  BY <1>2, <1>3

(* getcwd(NULL): libc's block has no header.                               *)
LEMMA GetCwdStep == WInv /\ GetCwd => WInv' /\ Keeps
<1> SUFFICES ASSUME WInv, GetCwd PROVE WInv' /\ Keeps
  OBVIOUS
<1> DEFINE name(n, size) == IF n + 1 = size THEN "getcwd" ELSE "getcwd of a shorter name"
<1>1. /\ Misreports("getcwd of a shorter name") \in KnownFaults
      /\ Misreports("getcwd that fails") \in KnownFaults
      /\ Misreports("getcwd(NULL)") \in KnownFaults
  BY Listed DEF MisreportedWrites
<1>2. CASE \E d \in Buffer, n, size \in Count :
             /\ n < size /\ Fits(d, size)
             /\ content' = Text(d, n) ++ content
             /\ Told(name(n, size), {}, Span(d, n + 1), {}, Span(d, size))
             /\ Within
  <2>1. PICK d \in Buffer, n \in Count, size \in Count :
             /\ n < size /\ Fits(d, size)
             /\ content' = Text(d, n) ++ content
             /\ Told(name(n, size), {}, Span(d, n + 1), {}, Span(d, size))
             /\ Within
    BY <1>2
  <2>2. n \in Nat /\ size \in Nat /\ d \in Nat /\ Span(d, size) \subseteq Buffer
    BY <2>1, SizesNat, FitsBuffer DEF WInv
  <2>0. n < size
    BY <2>1
  <2>3. Span(d, n + 1) \subseteq Span(d, size)
    BY <2>0, <2>2 DEF Span
  <2>4. DOMAIN Text(d, n) \subseteq Buffer
    BY <2>2, <2>3, TextSpan
  <2>5. Touched
    BY <2>1, <2>4, Overwritten DEF WInv
  <2>6. Span(d, n + 1) \cap Mem \subseteq Buffer
    BY <2>2, <2>3
  <2>7. \/ Span(d, n + 1) = Span(d, size)
        \/ Misreports(name(n, size)) \in KnownFaults
    BY <1>1
  <2> HIDE DEF name
  <2> QED
    BY <2>1, <2>5, <2>6, <2>7, ToldStep
<1>3. CASE \E d \in Buffer, size \in Count : \E written \in SUBSET Span(d, size) :
             /\ Fits(d, size)
             /\ Becomes(written)
             /\ Told("getcwd that fails", {}, written, {}, {})
             /\ Within
  <2>1. PICK d \in Buffer, size \in Count : \E written \in SUBSET Span(d, size) :
             /\ Fits(d, size)
             /\ Becomes(written)
             /\ Told("getcwd that fails", {}, written, {}, {})
             /\ Within
    BY <1>3
  <2>2. PICK written \in SUBSET Span(d, size) :
             /\ Fits(d, size)
             /\ Becomes(written)
             /\ Told("getcwd that fails", {}, written, {}, {})
             /\ Within
    BY <2>1
  <2>3. Touched /\ written \subseteq Buffer
    BY <2>2, SizesNat, FitsBuffer, Became DEF WInv
  <2>4. written \cap Mem \subseteq Buffer
    BY <2>3
  <2> QED
    BY <1>1, <2>2, <2>3, <2>4, ToldStep
<1>4. CASE \E at \in Heap :
             /\ at \in Places(1)
             /\ \A k \in chunks : HasHeader(k)
             /\ chunks' = chunks \cup {[at |-> at, len |-> 1, by |-> "getcwd"]}
             /\ content' = Cell(at, Nul) ++ content
             /\ Told("getcwd(NULL)", {}, {at}, {}, {NULL})
             /\ cut' = cut \cap known'
  <2>1. PICK at \in Heap :
             /\ at \in Places(1)
             /\ chunks' = chunks \cup {[at |-> at, len |-> 1, by |-> "getcwd"]}
             /\ content' = Cell(at, Nul) ++ content
             /\ Told("getcwd(NULL)", {}, {at}, {}, {NULL})
             /\ cut' = cut \cap known'
    BY <1>4
  <2> DEFINE n == [at |-> at, len |-> 1, by |-> "getcwd"]
  <2>2. /\ n.at = at /\ n.len = 1 /\ n.by = "getcwd" /\ ~HasHeader(n)
        /\ chunks' = (chunks \ {}) \cup {n}
    BY <2>1 DEF HasHeader
  <2> HIDE DEF n
  <2>3. Footprint(n) = {at} /\ DataOf(n) = Footprint(n)
    <3>1. Span(at, 1) = {at}
      BY Tokens DEF Span
    <3> QED
      BY <2>2, <3>1 DEF Footprint, DataOf
  <2>4. /\ Footprint(n) \subseteq Heap /\ n \notin chunks
        /\ \A k \in chunks : Footprint(n) \cap Footprint(k) = {}
    BY <2>1, <2>2, PlaceFree DEF WInv
  <2>5. /\ Heap \subseteq DOMAIN content'
        /\ \A c \in Heap : c \notin {at} => content'[c] = content[c]
    BY <2>1 DEF ++, Cell, WInv
  <2>6. \A k \in chunks : content'[k.at] = content[k.at]
    <3>1. \A a \in Nat, l \in Nat \ {0} : a \in Span(a, l)
      BY DEF Span
    <3>2. \A j \in chunks : j.at \in Heap /\ j.at \in Footprint(j)
      BY <3>1, Tokens DEF WInv, BlocksApart, Footprint
    <3> QED
      BY <2>3, <2>4, <2>5, <3>2
  <2>7. known' = known \ {at, NULL} /\ fault' \subseteq {Misreports("getcwd(NULL)")}
    <3>1. at \in Mem /\ NULL \notin Mem
      BY Tokens
    <3> QED
      BY <2>1, <3>1 DEF Told, Faults
  <2>8. \A k \in chunks : known \cap DataOf(k) \subseteq known'
    <3>1. \A k \in chunks : at \notin DataOf(k) /\ NULL \notin DataOf(k)
      BY <2>3, <2>4, DataInside, Tokens DEF WInv
    <3> QED
      BY <2>7, <3>1
  <2>9. Learnt({n}, {})
    <3>1. \A b \in known' : b \in known /\ b \notin Footprint(n)
      BY <2>3, <2>7
    <3> QED
      BY <2>1, <2>8, <3>1 DEF Learnt
  <2>10. Fitting({n}, {})
    BY <2>2, <2>3, <2>4 DEF Fitting
  <2>11. Replaced({n}, {})
    BY <1>1, <2>2, <2>4, <2>5, <2>6, <2>7, <2>9, <2>10 DEF Replaced
  <2> QED
    BY <2>11, ReplaceStep
<1> QED
  BY <1>2, <1>3, <1>4 DEF GetCwd

-----------------------------------------------------------------------------
(* Strings and blocks of memory.                                           *)

(* What a call of the printf family reads is told, or VaListByReference.   *)
LEMMA TakenTold ==
  ASSUME NEW arg, NEW read \in Taken(arg),
         NEW fn \in {"printf", "puts", "sprintf", "snprintf", "snprintf of the size"}
  PROVE  read \subseteq arg \/ Misses(fn) \in KnownFaults
<1>1. CASE VaListByReference
  <2>1. fn \in MissedReads
    BY <1>1 DEF MissedReads
  <2> QED
    BY <2>1, Listed
<1>2. CASE ~VaListByReference
  BY <1>2 DEF Taken
<1> QED
  BY <1>1, <1>2

LEMMA PrintedStep ==
  ASSUME WInv, Quiet, NEW arg, NEW fn \in {"printf", "puts"}, Printed(fn, arg)
  PROVE  WInv' /\ Keeps
<1>1. PICK read \in Taken(arg) :
        Told(fn, {File} \cup Literal \cup read, {File},
             {File} \cup Literal \cup arg, {File})
  BY DEF Printed
<1>2. read \subseteq arg \/ Misses(fn) \in KnownFaults
  BY TakenTold
<1> QED
  BY <1>1, <1>2, QuietStep, Tokens

(* The wrappers that read only, or write no more than a token.             *)
QuietCalls ==
  \/ StrRead \/ StrStr \/ StrNCmp \/ MemCmp \/ Write \/ Open \/ FOpen \/ FWrite
  \/ FileState \/ Path \/ Printf \/ Puts \/ SetRLimit \/ Utime \/ GetOpt
  \/ LocalTime \/ StrError \/ GetEnv \/ Perror \/ Random

LEMMA QuietActions == WInv /\ QuietCalls => WInv' /\ Keeps
<1> SUFFICES ASSUME WInv, QuietCalls PROVE WInv' /\ Keeps
  OBVIOUS
<1>0. /\ {Misreports(fn) : fn \in {"open that fails", "localtime that fails",
                                   "strerror of a constant", "getenv"}}
           \subseteq KnownFaults
      /\ {Misses(fn) : fn \in {"fwrite of half an item", "getopt", "getenv",
                               "getenv of nothing"}}
           \subseteq KnownFaults
  BY Listed DEF MisreportedWrites, MissedReads
<1>1. CASE StrRead
  BY <1>1, QuietStep DEF StrRead
<1>19. CASE StrStr
  <2>1. PICK p \in String, q \in String :
          /\ Told("strstr", Str(p) \cup Str(q), {}, Str(p) \cup Str(q), {})
          /\ Quiet
    BY <1>19 DEF StrStr
  <2> QED
    BY <2>1, QuietStep
<1>2. CASE StrNCmp
  <2>1. \A p, n : AtMost(p, n) \subseteq Span(p, n)
    BY DEF AtMost
  <2> QED
    BY <1>2, <2>1, QuietStep DEF StrNCmp
<1>3. CASE MemCmp
  BY <1>3, QuietStep DEF MemCmp
<1>4. CASE Write
  BY <1>4, QuietStep, Tokens DEF Write
<1>5. CASE Open
  BY <1>0, <1>5, QuietStep, Tokens DEF Open
<1>6. CASE FOpen
  BY <1>6, QuietStep, Tokens DEF FOpen
<1>7. CASE FWrite
  <2>0. PICK p \in Pointer, size \in 1 .. 2, written \in Count :
          /\ Told(IF written % size = 0 THEN "fwrite" ELSE "fwrite of half an item",
                  {File} \cup Span(p, written), {File},
                  {File} \cup Span(p, (written \div size) * size), {File})
          /\ Quiet
    BY <1>7 DEF FWrite
  <2>1. CASE written % size = 0
    <3>1. (written \div size) * size = written
      BY <2>1, SizesNat
    <3> QED
      BY <2>0, <2>1, <3>1, QuietStep, Tokens
  <2>2. CASE written % size /= 0
    BY <1>0, <2>0, <2>2, QuietStep, Tokens
  <2> QED
    BY <2>1, <2>2
<1>8. CASE FileState
  BY <1>8, QuietStep, Tokens DEF FileState
<1>9. CASE Path
  BY <1>9, QuietStep DEF Path
<1>10. CASE Printf
  BY <1>10, PrintedStep DEF Printf
<1>11. CASE Puts
  BY <1>11, PrintedStep DEF Puts
<1>12. CASE GetOpt
  BY <1>0, <1>12, QuietStep DEF GetOpt
<1>13. CASE Random
  BY <1>13, QuietStep, Tokens DEF Random
<1>14. CASE SetRLimit
  BY <1>14, QuietStep DEF SetRLimit
<1>20. CASE Utime
  <2>1. PICK p \in String, c \in Buffer \cup {NULL} :
          Told("utime", Str(p) \cup ({c} \ {NULL}), {}, Str(p) \cup {c}, {})
    BY <1>20 DEF Utime
  <2>2. Str(p) \cup ({c} \ {NULL}) \subseteq Str(p) \cup {c} /\ Quiet
    BY <1>20 DEF Utime
  <2> QED
    BY <2>1, <2>2, QuietStep
<1>15. CASE LocalTime
  BY <1>0, <1>15, QuietStep, Tokens DEF LocalTime
<1>16. CASE StrError
  BY <1>0, <1>16, QuietStep, Tokens DEF StrError
<1>17. CASE GetEnv
  BY <1>0, <1>17, QuietStep, Tokens DEF GetEnv
<1>18. CASE Perror
  BY <1>18, QuietStep, Tokens DEF Perror
<1> QED
  BY <1>1, <1>2, <1>3, <1>4, <1>5, <1>6, <1>7, <1>8, <1>9, <1>10, <1>11, <1>12, <1>13,
     <1>14, <1>15, <1>16, <1>17, <1>18, <1>19, <1>20 DEF QuietCalls

LEMMA MovedCells == ASSUME NEW d, NEW p, NEW n PROVE DOMAIN Moved(d, p, n) = Span(d, n)
BY DEF Moved

LEMMA StrCpyStep == WInv /\ StrCpy => WInv' /\ Keeps
<1> SUFFICES ASSUME WInv, StrCpy PROVE WInv' /\ Keeps
  OBVIOUS
<1>1. PICK d \in Buffer, p \in String :
        /\ Fits(d, StrLen(p) + 1)
        /\ content' = Moved(d, p, StrLen(p) + 1) ++ content
        /\ Told("strcpy", Str(p), Span(d, StrLen(p) + 1), Str(p), Span(d, StrLen(p) + 1))
        /\ Within
  BY DEF StrCpy
<1>2. StrLen(p) + 1 \in Nat
  BY StringEnds DEF WInv
<1>3. Span(d, StrLen(p) + 1) \subseteq Buffer
  BY <1>1, <1>2, FitsBuffer DEF WInv
<1>4. Touched
  BY <1>1, <1>3, MovedCells, Overwritten DEF WInv
<1> QED
  BY <1>1, <1>3, <1>4, ToldStep

LEMMA StrNCpyStep == WInv /\ StrNCpy => WInv' /\ Keeps
<1> SUFFICES ASSUME WInv, StrNCpy PROVE WInv' /\ Keeps
  OBVIOUS
<1>1. PICK d \in Buffer, p \in String, n \in Count :
        /\ Fits(d, n)
        /\ content' = Moved(d, p, Cardinality(AtMost(p, n))) ++
                      [c \in Span(d, n) |-> Nul] ++ content
        /\ Told("strncpy", AtMost(p, n), Span(d, n), Span(p, n), Span(d, n))
        /\ Within
  BY DEF StrNCpy
<1>2. n \in Nat /\ p \in Nat /\ d \in Nat /\ Span(d, n) \subseteq Buffer
  BY <1>1, SizesNat, StringEnds, FitsBuffer DEF WInv
<1>3. AtMost(p, n) \subseteq Span(p, n)
  BY DEF AtMost
<1>4. Cardinality(AtMost(p, n)) \in Nat /\ Cardinality(AtMost(p, n)) <= n
  <2> DEFINE q == p + n - 1
  <2>0. q \in Int /\ (IF p > q THEN 0 ELSE q - p + 1) = n
    BY <1>2
  <2>2. Span(p, n) = p .. q
    BY <1>2 DEF Span
  <2> HIDE DEF q
  <2>1. IsFiniteSet(p .. q) /\ Cardinality(p .. q) = n
    BY <1>2, <2>0, FS_Interval
  <2> QED
    BY <1>2, <1>3, <2>1, <2>2, FS_Subset, FS_CardinalityType
<1> DEFINE m == Cardinality(AtMost(p, n))
           f == Moved(d, p, m)
           g == [c \in Span(d, n) |-> Nul]
<1>5. content' = f ++ g ++ content /\ DOMAIN f = Span(d, m) /\ DOMAIN g = Span(d, n)
  BY <1>1, MovedCells
<1>6. Span(d, m) \subseteq Span(d, n)
  <2>1. m \in Nat /\ m <= n
    BY <1>4
  <2> HIDE DEF m
  <2> QED
    BY <1>2, <2>1 DEF Span
<1> HIDE DEF m, f, g
<1>7. DOMAIN (f ++ g) \subseteq Buffer
  BY <1>2, <1>5, <1>6 DEF ++
<1>8. Touched
  BY <1>5, <1>7, Overwritten DEF WInv
<1> QED
  BY <1>1, <1>2, <1>3, <1>8, ToldStep

(* The lengths are from before the call, and so is the end the region      *)
(* written begins at.                                                      *)
LEMMA StrCatStep == WInv /\ StrCat => WInv' /\ Keeps
<1> SUFFICES ASSUME WInv, StrCat PROVE WInv' /\ Keeps
  OBVIOUS
<1>1. PICK d \in Buffer \cap String, p \in String :
        /\ Fits(d, StrLen(d) + StrLen(p) + 1)
        /\ content' = Moved(End(d), p, StrLen(p) + 1) ++ content
        /\ Told("strcat", Str(d) \cup Str(p), Span(End(d), StrLen(p) + 1),
                Str(d) \cup Str(p), Span(End(d), StrLen(p) + 1))
        /\ Within
  BY DEF StrCat, Appended
<1>2. /\ d \in Nat /\ End(d) \in Nat /\ d <= End(d) /\ StrLen(d) = End(d) - d
      /\ StrLen(d) \in Nat /\ StrLen(p) \in Nat
  BY StringEnds DEF WInv, StrLen
<1>3. Span(d, StrLen(d) + StrLen(p) + 1) \subseteq Buffer
  <2>1. StrLen(d) + StrLen(p) + 1 \in Nat
    BY <1>2
  <2> QED
    BY <1>1, <2>1, FitsBuffer DEF WInv
<1>4. Span(End(d), StrLen(p) + 1) \subseteq Buffer
  <2> DEFINE e == End(d)
             l == StrLen(p)
             k == StrLen(d)
  <2>1. /\ d \in Nat /\ e \in Nat /\ d <= e /\ k = e - d /\ l \in Nat
        /\ Span(d, k + l + 1) \subseteq Buffer
    BY <1>2, <1>3
  <2> HIDE DEF e, l, k
  <2>2. Span(e, l + 1) \subseteq Span(d, k + l + 1)
    BY <2>1 DEF Span
  <2>3. Span(e, l + 1) \subseteq Buffer
    BY <2>1, <2>2
  <2> QED
    BY <2>3 DEF e, l
<1>5. Touched
  BY <1>1, <1>4, MovedCells, Overwritten DEF WInv
<1> QED
  BY <1>1, <1>4, <1>5, ToldStep

LEMMA StrNCatStep == WInv /\ StrNCat => WInv' /\ Keeps
<1> SUFFICES ASSUME WInv, StrNCat PROVE WInv' /\ Keeps
  OBVIOUS
<1>1. PICK d \in Buffer \cap String, p \in String, n \in Count :
        /\ LET k == Min({n, StrLen(p)})
           IN  /\ Fits(d, StrLen(d) + k + 1)
               /\ content' = Moved(End(d), p, k) ++ Cell(End(d) + k, Nul) ++ content
               /\ Told(IF n = 0 THEN "strncat of nothing" ELSE "strncat",
                       Str(d) \cup AtMost(p, n), Span(End(d), k + 1),
                       Str(d) \cup Span(p, n), Span(End(d) + k, n + 1))
        /\ Within
  BY DEF StrNCat
<1> DEFINE k == Min({n, StrLen(p)})
           e == End(d)
           l == StrLen(d)
           fn == IF n = 0 THEN "strncat of nothing" ELSE "strncat"
<1>2. d \in Nat /\ e \in Nat /\ d <= e /\ l = e - d /\ n \in Nat /\ StrLen(p) \in Nat
  BY <1>1, SizesNat, StringEnds DEF WInv, StrLen
<1>3. k \in Nat
  BY <1>2 DEF Min
<1>4. /\ Fits(d, l + k + 1)
      /\ content' = Moved(e, p, k) ++ Cell(e + k, Nul) ++ content
      /\ Told(fn, Str(d) \cup AtMost(p, n), Span(e, k + 1),
              Str(d) \cup Span(p, n), Span(e + k, n + 1))
  BY <1>1
<1>12. n = 0 => k = 0
  BY <1>2 DEF Min
<1> HIDE DEF k, e, l
<1>5. Span(d, l + k + 1) \subseteq Buffer
  <2>1. l + k + 1 \in Nat
    BY <1>2, <1>3
  <2> QED
    BY <1>4, <2>1, FitsBuffer DEF WInv
<1>6. Span(e, k + 1) \subseteq Span(d, l + k + 1)
  BY <1>2, <1>3 DEF Span
<1>7. DOMAIN (Moved(e, p, k) ++ Cell(e + k, Nul)) = Span(e, k + 1)
  BY <1>2, <1>3 DEF Moved, Cell, Span, ++
<1>8. Touched
  BY <1>4, <1>5, <1>6, <1>7, Overwritten DEF WInv
<1>9. Span(e, k + 1) = Span(e + k, n + 1) \/ Misreports(fn) \in KnownFaults
  <2>1. CASE n = 0
    <3>1. k = 0 /\ e + k = e /\ n = 0
      BY <1>2, <1>12, <2>1
    <3> QED
      BY <3>1
  <2>2. CASE n /= 0
    BY <2>2, Listed DEF MisreportedWrites
  <2> QED
    BY <2>1, <2>2
<1> HIDE DEF fn
<1>10. Str(d) \cup AtMost(p, n) \subseteq Str(d) \cup Span(p, n)
  BY DEF AtMost
<1>11. Span(e, k + 1) \cap Mem \subseteq Buffer
  BY <1>5, <1>6
<1> QED
  BY <1>1, <1>4, <1>8, <1>9, <1>10, <1>11, ToldStep

LEMMA StrTokStep == WInv /\ StrTok => WInv' /\ Keeps
<1> SUFFICES ASSUME WInv, StrTok PROVE WInv' /\ Keeps
  OBVIOUS
<1> DEFINE name(p, i, j) == IF i = p /\ j = End(p) THEN "strtok of the rest" ELSE "strtok"
<1>1. Misreports("strtok") \in KnownFaults /\ Misses("strtok") \in KnownFaults
  BY Listed DEF MisreportedWrites, MissedReads
<1>2. PICK p \in Buffer \cap String :
        \/ /\ Told("strtok", Str(p) \cup Literal, {}, Literal, {})
           /\ Quiet
        \/ \E i \in Str(p), j \in Str(p) :
             /\ i < j
             /\ content' = Cell(j, Nul) ++ content
             /\ Told(name(p, i, j), p .. j \cup Literal,
                     IF j = End(p) THEN {} ELSE {j}, i .. j \cup Literal, {})
             /\ Within
  BY DEF StrTok
<1>3. CASE Told("strtok", Str(p) \cup Literal, {}, Literal, {}) /\ Quiet
  BY <1>1, <1>3, QuietStep
<1>4. CASE \E i \in Str(p), j \in Str(p) :
             /\ i < j
             /\ content' = Cell(j, Nul) ++ content
             /\ Told(name(p, i, j), p .. j \cup Literal,
                     IF j = End(p) THEN {} ELSE {j}, i .. j \cup Literal, {})
             /\ Within
  <2>1. PICK i \in Str(p), j \in Str(p) :
             /\ content' = Cell(j, Nul) ++ content
             /\ Told(name(p, i, j), p .. j \cup Literal,
                     IF j = End(p) THEN {} ELSE {j}, i .. j \cup Literal, {})
             /\ Within
    BY <1>4
  <2>2. j \in Buffer
    BY StringEnds DEF WInv
  <2>3. Touched
    <3>1. content' = Cell(j, Nul) ++ content /\ DOMAIN Cell(j, Nul) = {j}
      BY <2>1 DEF Cell
    <3> QED
      BY <2>2, <3>1, Overwritten DEF WInv
  <2>4. (IF j = End(p) THEN {} ELSE {j}) \cap Mem \subseteq Buffer
    BY <2>2
  <2>5. p .. j \cup Literal \subseteq i .. j \cup Literal \/ Misses(name(p, i, j)) \in KnownFaults
    BY <1>1
  <2>6. \/ (IF j = End(p) THEN {} ELSE {j}) = {}
        \/ Misreports(name(p, i, j)) \in KnownFaults
    BY <1>1
  <2> HIDE DEF name
  <2> QED
    BY <2>1, <2>3, <2>4, <2>5, <2>6, ToldStep
<1> QED
  BY <1>2, <1>3, <1>4

LEMMA MemActions == WInv /\ (MemSet \/ MemMove \/ ProgramStore) => WInv' /\ Keeps
<1> SUFFICES ASSUME WInv, MemSet \/ MemMove \/ ProgramStore PROVE WInv' /\ Keeps
  OBVIOUS
<1>1. CASE MemSet
  <2>1. PICK d \in Buffer, n \in Count, value \in {Nul, Chr} :
          /\ Fits(d, n)
          /\ Holds(Span(d, n), value)
          /\ Told("memset", {}, Span(d, n), {}, Span(d, n))
          /\ Within
    BY <1>1 DEF MemSet
  <2>2. Span(d, n) \subseteq Buffer
    BY <2>1, SizesNat, FitsBuffer DEF WInv
  <2>3. Touched
    BY <2>1, <2>2, Overwritten DEF Holds, WInv
  <2> QED
    BY <2>1, <2>2, <2>3, ToldStep
<1>2. CASE MemMove
  <2>1. PICK d \in Buffer, p \in Pointer, n \in Count \ {0} :
          /\ Fits(d, n)
          /\ content' = Moved(d, p, n) ++ content
          /\ Told("memmove", Span(p, n), Span(d, n), Span(p, n), Span(d, n))
          /\ Within
    BY <1>2 DEF MemMove
  <2>2. Span(d, n) \subseteq Buffer
    BY <2>1, SizesNat, FitsBuffer DEF WInv
  <2>3. Touched
    BY <2>1, <2>2, MovedCells, Overwritten DEF WInv
  <2> QED
    BY <2>1, <2>2, <2>3, ToldStep
<1>3. CASE ProgramStore
  <2>1. PICK d \in Buffer, value \in {Nul, Chr} :
          /\ Holds({d}, value)
          /\ Told("store", {}, {d}, {}, {d})
          /\ Within
    BY <1>3 DEF ProgramStore
  <2>2. Touched
    BY <2>1, Overwritten DEF Holds, WInv
  <2> QED
    BY <2>1, <2>2, ToldStep
<1> QED
  BY <1>1, <1>2, <1>3

-----------------------------------------------------------------------------
(* Files, and formatted output and input.                                  *)

LEMMA FileActions ==
  WInv /\ (Read \/ FRead \/ FGets \/ TtyName \/ TmpFile \/ Unimplemented)
    => WInv' /\ Keeps
<1> SUFFICES ASSUME WInv, Read \/ FRead \/ FGets \/ TtyName \/ TmpFile \/ Unimplemented
             PROVE  WInv' /\ Keeps
  OBVIOUS
<1>0. /\ {Misreports(fn) : fn \in {"fread of half an item", "fgets of a Nul",
                                   "fgets at the end", "tmpfile"}}
           \subseteq KnownFaults
      /\ {Dies(fn) : fn \in {"read", "ttyname", "tmpfile", "unimplemented"}}
           \subseteq KnownFaults
  BY Listed DEF MisreportedWrites, Deaths
<1>1. CASE Read
  <2>1. PICK d \in Buffer, n \in Count :
          /\ Fits(d, n)
          /\ \/ Ends(Dies("read"))
             \/ /\ Becomes(Span(d, n))
                /\ Told("read", {File}, {File} \cup Span(d, n),
                        {File}, {File} \cup Span(d, n))
                /\ Within
    BY <1>1 DEF Read
  <2>2. Span(d, n) \subseteq Buffer
    BY <2>1, SizesNat, FitsBuffer DEF WInv
  <2>3. ({File} \cup Span(d, n)) \cap Mem \subseteq Buffer
    BY <2>2, Tokens
  <2>4. Becomes(Span(d, n)) => Touched
    BY <2>2, Became
  <2> QED
    BY <1>0, <2>1, <2>3, <2>4, ToldStep, EndStep
<1>2. CASE FRead
  <2>1. PICK d \in Buffer, size \in 1 .. 2, n \in 1 .. 2, read \in Count :
          /\ Fits(d, size * n) /\ read <= size * n
          /\ Becomes(Span(d, read))
          /\ Told(IF read % size = 0 THEN "fread" ELSE "fread of half an item",
                  {File}, {File} \cup Span(d, read),
                  {File}, {File} \cup Span(d, (read \div size) * size))
          /\ Within
    BY <1>2 DEF FRead
  <2> DEFINE fn == IF read % size = 0 THEN "fread" ELSE "fread of half an item"
             whole == (read \div size) * size
  <2>2. size * n \in Nat
    OBVIOUS
  <2>3. Span(d, size * n) \subseteq Buffer /\ d \in Nat /\ read \in Nat
    BY <2>1, <2>2, SizesNat, FitsBuffer DEF WInv
  <2>4. Span(d, read) \subseteq Buffer
    <3> DEFINE all == size * n
    <3>1. all \in Nat /\ read <= all /\ Span(d, all) \subseteq Buffer
      BY <2>1, <2>2, <2>3
    <3> HIDE DEF all
    <3>2. Span(d, read) \subseteq Span(d, all)
      BY <2>3, <3>1 DEF Span
    <3> QED
      BY <3>1, <3>2
  <2>5. ({File} \cup Span(d, read)) \cap Mem \subseteq Buffer
    BY <2>4, Tokens
  <2>6. Touched
    BY <2>1, <2>4, Became
  <2>7. {File} \cup Span(d, read) = {File} \cup Span(d, whole) \/ Misreports(fn) \in KnownFaults
    <3>1. CASE read % size = 0
      <4>1. whole = read
        BY <2>3, <3>1
      <4> QED
        BY <4>1
    <3>2. CASE read % size /= 0
      BY <1>0, <3>2
    <3> QED
      BY <3>1, <3>2
  <2> HIDE DEF fn
  <2> QED
    BY <2>1, <2>5, <2>6, <2>7, ToldStep DEF fn
<1>3. CASE FGets
  <2>0. PICK d \in Buffer, n \in Count :
          /\ n > 0 /\ Fits(d, n)
          /\ \/ \E written \in SUBSET Span(d, n) :
                  /\ Becomes(written)
                  /\ Told("fgets at the end", {File}, {File} \cup written, {File}, {})
             \/ \E f \in [Span(d, n) -> {Nul, Chr}] :
                  LET end == Min({c \in Span(d, n) : f[c] = Nul})
                  IN  /\ f[d + n - 1] = Nul
                      /\ content' = f ++ content
                      /\ Told(IF end = d + n - 1 THEN "fgets" ELSE "fgets of a Nul",
                              {File}, {File} \cup Span(d, n),
                              {File}, {File} \cup d .. end)
    BY <1>3 DEF FGets
  <2>1. Within
    BY <1>3 DEF FGets
  <2>2. Span(d, n) \subseteq Buffer
    BY <2>0, SizesNat, FitsBuffer DEF WInv
  <2>3. CASE \E written \in SUBSET Span(d, n) :
               /\ Becomes(written)
               /\ Told("fgets at the end", {File}, {File} \cup written, {File}, {})
    <3>1. PICK written \in SUBSET Span(d, n) :
               /\ Becomes(written)
               /\ Told("fgets at the end", {File}, {File} \cup written, {File}, {})
      BY <2>3
    <3>2. Touched
      BY <2>2, <3>1, Became
    <3>3. ({File} \cup written) \cap Mem \subseteq Buffer
      BY <2>2, Tokens
    <3> QED
      BY <1>0, <2>1, <3>1, <3>2, <3>3, ToldStep
  <2>4. CASE \E f \in [Span(d, n) -> {Nul, Chr}] :
               LET end == Min({c \in Span(d, n) : f[c] = Nul})
               IN  /\ f[d + n - 1] = Nul
                   /\ content' = f ++ content
                   /\ Told(IF end = d + n - 1 THEN "fgets" ELSE "fgets of a Nul",
                           {File}, {File} \cup Span(d, n),
                           {File}, {File} \cup d .. end)
    <3>1. PICK f \in [Span(d, n) -> {Nul, Chr}] :
               LET end == Min({c \in Span(d, n) : f[c] = Nul})
               IN  /\ content' = f ++ content
                   /\ Told(IF end = d + n - 1 THEN "fgets" ELSE "fgets of a Nul",
                           {File}, {File} \cup Span(d, n),
                           {File}, {File} \cup d .. end)
      BY <2>4
    <3> DEFINE end == Min({c \in Span(d, n) : f[c] = Nul})
               fn == IF end = d + n - 1 THEN "fgets" ELSE "fgets of a Nul"
    <3>2. Touched
      BY <2>2, <3>1, Overwritten DEF WInv
    <3>3. ({File} \cup Span(d, n)) \cap Mem \subseteq Buffer
      BY <2>2, Tokens
    <3>4. {File} \cup Span(d, n) = {File} \cup d .. end \/ Misreports(fn) \in KnownFaults
      BY <1>0 DEF Span
    <3>5. Told(fn, {File}, {File} \cup Span(d, n), {File}, {File} \cup d .. end)
      BY <3>1
    <3> HIDE DEF fn, end
    <3> QED
      BY <2>1, <3>2, <3>3, <3>4, <3>5, ToldStep
  <2> QED
    BY <2>0, <2>3, <2>4
<1>4. CASE TtyName
  BY <1>0, <1>4, QuietStep, EndStep, Tokens DEF TtyName
<1>5. CASE TmpFile
  <2>1. Misreports("tmpfile") \in KnownFaults /\ Dies("tmpfile") \in KnownFaults
    BY <1>0
  <2>2. CASE Ends(Dies("tmpfile"))
    BY <2>1, <2>2, EndStep
  <2>3. CASE Told("tmpfile", {}, {File}, {File}, {}) /\ Quiet
    BY <2>1, <2>3, QuietStep, Tokens
  <2> QED
    BY <1>5, <2>2, <2>3 DEF TmpFile
<1>6. CASE Unimplemented
  BY <1>0, <1>6, EndStep DEF Unimplemented
<1> QED
  BY <1>1, <1>2, <1>3, <1>4, <1>5, <1>6

(* A text and its Nul in a buffer of size cells.                           *)
LEMMA TextTouches ==
  ASSUME WInv, NEW d \in Buffer, NEW n \in Nat, NEW size \in Nat, n < size,
         Fits(d, size), content' = Text(d, n) ++ content
  PROVE  Touched /\ Span(d, n + 1) \subseteq Buffer
<1>1. d \in Nat /\ Span(d, size) \subseteq Buffer
  BY FitsBuffer DEF WInv
<1>2. Span(d, n + 1) \subseteq Span(d, size)
  BY <1>1 DEF Span
<1> QED
  BY <1>1, <1>2, TextSpan, Overwritten DEF WInv

LEMMA SprintfStep == WInv /\ Sprintf => WInv' /\ Keeps
<1> SUFFICES ASSUME WInv, Sprintf PROVE WInv' /\ Keeps
  OBVIOUS
<1>1. PICK d \in Buffer, n \in Count, arg \in Arguments : \E read \in Taken(arg) :
        /\ Fits(d, n + 1)
        /\ content' = Text(d, n) ++ content
        /\ Told("sprintf", Literal \cup read, Span(d, n + 1), Literal \cup arg, Span(d, n))
  BY DEF Sprintf
<1>2. PICK read \in Taken(arg) :
        /\ Fits(d, n + 1)
        /\ content' = Text(d, n) ++ content
        /\ Told("sprintf", Literal \cup read, Span(d, n + 1), Literal \cup arg, Span(d, n))
  BY <1>1
<1>3. n \in Nat /\ n + 1 \in Nat /\ n < n + 1
  BY SizesNat
<1>4. Touched /\ Span(d, n + 1) \subseteq Buffer
  BY <1>2, <1>3, TextTouches
<1>5. Misreports("sprintf") \in KnownFaults
  BY Listed DEF MisreportedWrites
<1>6. read \subseteq arg \/ Misses("sprintf") \in KnownFaults
  BY TakenTold
<1>7. Within /\ Span(d, n + 1) \cap Mem \subseteq Buffer
  BY <1>4 DEF Sprintf
<1> QED
  BY <1>2, <1>4, <1>5, <1>6, <1>7, ToldStep

(* Only a text that would take the whole buffer is told of rightly: the    *)
(* last cell has the Nul.                                                  *)
LEMMA SnprintfStep == WInv /\ Snprintf => WInv' /\ Keeps
<1> SUFFICES ASSUME WInv, Snprintf PROVE WInv' /\ Keeps
  OBVIOUS
<1> DEFINE k(n, size) == Min({n, size - 1})
           text(d, n, size) == IF size = 0 THEN [c \in {} |-> Nul] ELSE Text(d, k(n, size))
           name(n, size) == IF n = size THEN "snprintf of the size" ELSE "snprintf"
           Fills(d, n, size, arg, read) ==
             /\ content' = text(d, n, size) ++ content
             /\ Told(name(n, size), Literal \cup read, DOMAIN text(d, n, size),
                     Literal \cup arg, Span(d, n))
             /\ Within
<1>1. PICK d \in Buffer, size \in Count, n \in Count, arg \in Arguments :
        \E read \in Taken(arg) :
          /\ Fits(d, size)
          /\ Ends(Dies("snprintf")) \/ Fills(d, n, size, arg, read)
  BY DEF Snprintf
<1>2. PICK read \in Taken(arg) :
          /\ Fits(d, size)
          /\ Ends(Dies("snprintf")) \/ Fills(d, n, size, arg, read)
  BY <1>1
<1>3. CASE Ends(Dies("snprintf"))
  <2>1. "snprintf" \in Deaths
    BY DEF Deaths
  <2> QED
    BY <1>3, <2>1, Listed, EndStep
<1>4. CASE Fills(d, n, size, arg, read)
  <2>1. /\ content' = text(d, n, size) ++ content
        /\ Told(name(n, size), Literal \cup read, DOMAIN text(d, n, size),
                Literal \cup arg, Span(d, n))
        /\ Within
    BY <1>4
  <2>2. size \in Nat /\ n \in Nat /\ d \in Nat /\ Span(d, size) \subseteq Buffer
    BY <1>2, SizesNat, FitsBuffer DEF WInv
  <2>3. /\ DOMAIN text(d, n, size) \subseteq Span(d, size)
        /\ n = size => DOMAIN text(d, n, size) = Span(d, n)
    <3>1. CASE size = 0
      BY <2>2, <3>1 DEF Span
    <3>2. CASE size /= 0
      <4> DEFINE j == k(n, size)
      <4>1. j \in Nat /\ j < size /\ (n = size => j + 1 = n)
        BY <2>2, <3>2 DEF Min
      <4>2. DOMAIN text(d, n, size) = DOMAIN Text(d, j)
        BY <3>2
      <4> HIDE DEF k, j, text
      <4>3. DOMAIN text(d, n, size) = Span(d, j + 1)
        BY <2>2, <4>1, <4>2, TextSpan
      <4>4. Span(d, j + 1) \subseteq Span(d, size)
        BY <2>2, <4>1 DEF Span
      <4> QED
        BY <4>1, <4>3, <4>4
    <3> QED
      BY <3>1, <3>2
  <2>4. \/ DOMAIN text(d, n, size) = Span(d, n)
        \/ Misreports(name(n, size)) \in KnownFaults
    BY <2>3, Listed DEF MisreportedWrites
  <2>5. read \subseteq arg \/ Misses(name(n, size)) \in KnownFaults
    BY TakenTold
  <2> HIDE DEF text, name
  <2>6. Touched
    BY <2>1, <2>2, <2>3, Overwritten DEF WInv
  <2>7. DOMAIN text(d, n, size) \cap Mem \subseteq Buffer
    BY <2>2, <2>3
  <2>8. Literal \cup read \subseteq Literal \cup arg \/ Misses(name(n, size)) \in KnownFaults
    BY <2>5
  <2> QED
    BY <2>1, <2>4, <2>6, <2>7, <2>8, ToldStep
<1> QED
  BY <1>2, <1>3, <1>4

LEMMA ScanfStep == WInv /\ Scanf => WInv' /\ Keeps
<1> SUFFICES ASSUME WInv, Scanf PROVE WInv' /\ Keeps
  OBVIOUS
<1> DEFINE name(converted, d) == IF converted = {d} /\ ~VaListByReference
                                 THEN "scanf of a number" ELSE "scanf"
<1>0. Misreports("scanf") \in KnownFaults /\ Misreports("scanf of a string") \in KnownFaults
  BY Listed DEF MisreportedWrites
<1>1. PICK d \in Buffer, from \in {{File}, Literal} :
        /\ LET file == from \cap {File}
               read == from \cup Literal
           IN  \/ \E converted \in SUBSET {d},
                     told \in IF VaListByReference THEN Mem \cup {NULL} ELSE {d} :
                    /\ Becomes(converted)
                    /\ Told(name(converted, d),
                            read, converted \cup file, read, {told} \cup file)
               \/ \E n \in Count :
                    /\ Fits(d, n + 1)
                    /\ content' = Text(d, n) ++ content
                    /\ Told("scanf of a string", read, Span(d, n + 1) \cup file,
                            read \cup Span(d, n + 1), file)
        /\ Within
  BY DEF Scanf
<1> DEFINE file == from \cap {File}
           read == from \cup Literal
           anywhere == IF VaListByReference THEN Mem \cup {NULL} ELSE {d}
<1>2. file \cap Mem = {}
  BY Tokens
<1>3. \/ \E converted \in SUBSET {d}, told \in anywhere :
           /\ Becomes(converted)
           /\ Told(name(converted, d), read, converted \cup file, read, {told} \cup file)
      \/ \E n \in Count :
           /\ Fits(d, n + 1)
           /\ content' = Text(d, n) ++ content
           /\ Told("scanf of a string", read, Span(d, n + 1) \cup file,
                   read \cup Span(d, n + 1), file)
  BY <1>1
<1> HIDE DEF file, read
<1>4. CASE \E converted \in SUBSET {d}, told \in anywhere :
             /\ Becomes(converted)
             /\ Told(name(converted, d), read, converted \cup file, read, {told} \cup file)
  <2>1. PICK converted \in SUBSET {d}, told \in anywhere :
             /\ Becomes(converted)
             /\ Told(name(converted, d), read, converted \cup file, read, {told} \cup file)
    BY <1>4
  <2>2. Touched
    BY <2>1, Became
  <2>3. (converted \cup file) \cap Mem \subseteq Buffer
    BY <1>2
  <2>4. \/ converted \cup file = {told} \cup file
        \/ Misreports(name(converted, d)) \in KnownFaults
    BY <1>0
  <2> HIDE DEF name
  <2> QED
    BY <1>1, <2>1, <2>2, <2>3, <2>4, ToldStep
<1>5. CASE \E n \in Count :
             /\ Fits(d, n + 1)
             /\ content' = Text(d, n) ++ content
             /\ Told("scanf of a string", read, Span(d, n + 1) \cup file,
                     read \cup Span(d, n + 1), file)
  <2>1. PICK n \in Count :
             /\ Fits(d, n + 1)
             /\ content' = Text(d, n) ++ content
             /\ Told("scanf of a string", read, Span(d, n + 1) \cup file,
                     read \cup Span(d, n + 1), file)
    BY <1>5
  <2>2. n \in Nat /\ n + 1 \in Nat /\ n < n + 1
    BY SizesNat
  <2>3. Touched /\ Span(d, n + 1) \subseteq Buffer
    BY <2>1, <2>2, TextTouches
  <2>4. (Span(d, n + 1) \cup file) \cap Mem \subseteq Buffer
    BY <1>2, <2>3
  <2>5. read \subseteq read \cup Span(d, n + 1)
    OBVIOUS
  <2> QED
    BY <1>0, <1>1, <2>1, <2>3, <2>4, <2>5, ToldStep
<1> QED
  BY <1>3, <1>4, <1>5

LEMMA StrFTimeStep == WInv /\ StrFTime => WInv' /\ Keeps
<1> SUFFICES ASSUME WInv, StrFTime PROVE WInv' /\ Keeps
  OBVIOUS
<1>0. /\ Misreports("strftime") \in KnownFaults
      /\ Misreports("strftime that overflows") \in KnownFaults
  BY Listed DEF MisreportedWrites
<1>1. PICK d \in Buffer, timeptr \in Buffer, size \in Count :
        /\ Fits(d, size)
        /\ \/ \E n \in Count :
                /\ n < size
                /\ content' = Text(d, n) ++ content
                /\ Told("strftime", Literal \cup {timeptr}, Span(d, n + 1),
                        Literal \cup {timeptr}, Span(d, n))
           \/ \E written \in SUBSET Span(d, size) :
                /\ Becomes(written)
                /\ Told("strftime that overflows", Literal \cup {timeptr}, written,
                        Literal \cup {timeptr}, {})
  BY DEF StrFTime
<1>2. Within /\ size \in Nat /\ Span(d, size) \subseteq Buffer
  BY <1>1, SizesNat, FitsBuffer DEF StrFTime, WInv
<1>3. CASE \E n \in Count :
             /\ n < size
             /\ content' = Text(d, n) ++ content
             /\ Told("strftime", Literal \cup {timeptr}, Span(d, n + 1),
                     Literal \cup {timeptr}, Span(d, n))
  <2>1. PICK n \in Count :
             /\ n < size
             /\ content' = Text(d, n) ++ content
             /\ Told("strftime", Literal \cup {timeptr}, Span(d, n + 1),
                     Literal \cup {timeptr}, Span(d, n))
    BY <1>3
  <2>2. n \in Nat
    BY SizesNat
  <2>3. Touched /\ Span(d, n + 1) \subseteq Buffer
    BY <1>1, <1>2, <2>1, <2>2, TextTouches
  <2>4. Span(d, n + 1) \cap Mem \subseteq Buffer
    BY <2>3
  <2> QED
    BY <1>0, <1>2, <2>1, <2>3, <2>4, ToldStep
<1>4. CASE \E written \in SUBSET Span(d, size) :
             /\ Becomes(written)
             /\ Told("strftime that overflows", Literal \cup {timeptr}, written,
                     Literal \cup {timeptr}, {})
  <2>1. PICK written \in SUBSET Span(d, size) :
             /\ Becomes(written)
             /\ Told("strftime that overflows", Literal \cup {timeptr}, written,
                     Literal \cup {timeptr}, {})
    BY <1>4
  <2>2. Touched /\ written \cap Mem \subseteq Buffer
    BY <1>2, <2>1, Became
  <2> QED
    BY <1>0, <1>2, <2>1, <2>2, ToldStep
<1> QED
  BY <1>1, <1>3, <1>4

-----------------------------------------------------------------------------
(* Time and the rest.                                                      *)

LEMMA ReportStep ==
  ASSUME WInv, Within, NEW fn, NEW reads, NEW written, NEW stores,
         written \subseteq Buffer, Becomes(written),
         Told(fn, reads, written, reads, stores),
         written = stores \/ Misreports(fn) \in KnownFaults
  PROVE  WInv' /\ Keeps
<1>1. Touched /\ written \cap Mem \subseteq Buffer
  BY Became
<1> QED
  BY <1>1, ToldStep

LEMMA ResultActions ==
  WInv /\ (Result \/ MathResult \/ GetTimeOfDay \/ GetRLimit \/ Stat \/ StrToL)
    => WInv' /\ Keeps
<1> SUFFICES ASSUME WInv,
                    Result \/ MathResult \/ GetTimeOfDay \/ GetRLimit \/ Stat \/ StrToL
             PROVE  WInv' /\ Keeps
  OBVIOUS
<1>0. {Misreports(fn) : fn \in {"gettimeofday without tz", "getrlimit that fails",
                                "stat that fails", "strtol without endptr"}}
        \subseteq KnownFaults
  BY Listed DEF MisreportedWrites
<1>1. ASSUME NEW fn, Reported(fn), Within PROVE WInv' /\ Keeps
  <2>1. PICK d \in Buffer : Becomes({d}) /\ Told(fn, {}, {d}, {}, {d})
    BY <1>1 DEF Reported
  <2> QED
    BY <1>1, <2>1, ReportStep
<1>2. CASE Result \/ MathResult
  BY <1>1, <1>2 DEF Result, MathResult
<1>3. NULL \notin Buffer
  BY BufferIsData, DataInside, Tokens DEF WInv
<1>4. CASE GetTimeOfDay
  <2> DEFINE name(tz) == IF tz = NULL THEN "gettimeofday without tz" ELSE "gettimeofday"
  <2>1. PICK tv \in Buffer, tz \in Buffer \cup {NULL} :
          /\ Becomes({tv, tz} \ {NULL})
          /\ Told(name(tz), {}, {tv, tz} \ {NULL}, {}, {tv, tz})
    BY <1>4 DEF GetTimeOfDay
  <2>2. {tv, tz} \ {NULL} = {tv, tz} \/ Misreports(name(tz)) \in KnownFaults
    BY <1>0, <1>3
  <2>3. {tv, tz} \ {NULL} \subseteq Buffer /\ Within
    BY <1>4 DEF GetTimeOfDay
  <2> HIDE DEF name
  <2> QED
    BY <2>1, <2>2, <2>3, ReportStep
<1>5. CASE GetRLimit
  <2> DEFINE name(written) == IF written = {} THEN "getrlimit that fails" ELSE "getrlimit"
  <2>1. PICK d \in Buffer : \E written \in SUBSET {d} :
          Becomes(written) /\ Told(name(written), {}, written, {}, {d})
    BY <1>5 DEF GetRLimit
  <2>2. PICK written \in SUBSET {d} :
          Becomes(written) /\ Told(name(written), {}, written, {}, {d})
    BY <2>1
  <2>3. written = {d} \/ Misreports(name(written)) \in KnownFaults
    BY <1>0
  <2>4. written \subseteq Buffer /\ Within
    BY <1>5 DEF GetRLimit
  <2> HIDE DEF name
  <2> QED
    BY <2>2, <2>3, <2>4, ReportStep
<1>6. CASE Stat
  <2> DEFINE name(written) == IF written = {} THEN "stat that fails" ELSE "stat"
  <2>1. PICK d \in Buffer, from \in {Str(p) : p \in String} \cup {{File}} :
          \E written \in SUBSET {d} :
            Becomes(written) /\ Told(name(written), from, written, from, {d})
    BY <1>6 DEF Stat
  <2>2. PICK written \in SUBSET {d} :
          Becomes(written) /\ Told(name(written), from, written, from, {d})
    BY <2>1
  <2>3. written = {d} \/ Misreports(name(written)) \in KnownFaults
    BY <1>0
  <2>4. written \subseteq Buffer /\ Within
    BY <1>6 DEF Stat
  <2> HIDE DEF name
  <2> QED
    BY <2>2, <2>3, <2>4, ReportStep
<1>7. CASE StrToL
  <2> DEFINE name(endptr) == IF endptr = NULL THEN "strtol without endptr" ELSE "strtol"
  <2>1. PICK p \in String, endptr \in Buffer \cup {NULL} :
          /\ Becomes({endptr} \ {NULL})
          /\ Told(name(endptr), Str(p), {endptr} \ {NULL}, Str(p), {endptr})
    BY <1>7 DEF StrToL
  <2>2. {endptr} \ {NULL} = {endptr} \/ Misreports(name(endptr)) \in KnownFaults
    BY <1>0, <1>3
  <2>3. {endptr} \ {NULL} \subseteq Buffer /\ Within
    BY <1>7 DEF StrToL
  <2> HIDE DEF name
  <2> QED
    BY <2>1, <2>2, <2>3, ReportStep
<1> QED
  BY <1>2, <1>4, <1>5, <1>6, <1>7

LEMMA CTimeStep == WInv /\ CTime => WInv' /\ Keeps
<1> SUFFICES ASSUME WInv, CTime PROVE WInv' /\ Keeps
  OBVIOUS
<1>1. PICK clock \in Buffer :
        \/ Ends(Dies("ctime"))
        \/ Told("ctime", {clock}, {LibcBuffer}, {clock}, {LibcBuffer}) /\ Quiet
        \/ \E d \in Buffer, n \in Count :
             /\ Fits(d, n + 1)
             /\ content' = Text(d, n) ++ content
             /\ Told("ctime", {clock}, Span(d, n + 1), {clock}, Span(d, n + 1))
             /\ Within
  BY DEF CTime
<1>2. CASE Ends(Dies("ctime"))
  <2>1. "ctime" \in Deaths
    BY DEF Deaths
  <2> QED
    BY <1>2, <2>1, Listed, EndStep
<1>3. CASE Told("ctime", {clock}, {LibcBuffer}, {clock}, {LibcBuffer}) /\ Quiet
  BY <1>3, QuietStep, Tokens
<1>4. CASE \E d \in Buffer, n \in Count :
             /\ Fits(d, n + 1)
             /\ content' = Text(d, n) ++ content
             /\ Told("ctime", {clock}, Span(d, n + 1), {clock}, Span(d, n + 1))
             /\ Within
  <2>1. PICK d \in Buffer, n \in Count :
             /\ Fits(d, n + 1)
             /\ content' = Text(d, n) ++ content
             /\ Told("ctime", {clock}, Span(d, n + 1), {clock}, Span(d, n + 1))
             /\ Within
    BY <1>4
  <2>2. n \in Nat /\ n + 1 \in Nat /\ n < n + 1
    BY SizesNat
  <2>3. Touched /\ Span(d, n + 1) \subseteq Buffer
    BY <2>1, <2>2, TextTouches
  <2>4. Span(d, n + 1) \cap Mem \subseteq Buffer
    BY <2>3
  <2> QED
    BY <2>1, <2>3, <2>4, ToldStep
<1> QED
  BY <1>1, <1>2, <1>3, <1>4

-----------------------------------------------------------------------------
(* The invariant.                                                          *)

LEMMA InitWInv == Init => WInv
BY Tokens DEF Init, Blank, WInv, BlocksApart, HeadersAreTrue, HeadersUnknown,
   KnownOfBlocks, OtherCallsAreExact

LEMMA ReturnsStep == WInv /\ Returns => WInv' /\ Keeps
<1> SUFFICES ASSUME WInv, Returns PROVE WInv' /\ Keeps
  OBVIOUS
<1>1. UNCHANGED <<content, chunks, known, cut>> /\ fault' = {}
  BY DEF Returns
<1> QED
  BY <1>1 DEF WInv, BlocksApart, HeadersAreTrue, HeadersUnknown, KnownOfBlocks,
     Buffer, Objects, OtherCallsAreExact, Keeps

LEMMA StepWInv == WInv /\ [Next]_vars => WInv' /\ (Keeps \/ UNCHANGED vars)
<1> SUFFICES ASSUME WInv, [Next]_vars PROVE WInv' /\ (Keeps \/ UNCHANGED vars)
  OBVIOUS
<1>1. CASE \/ Malloc \/ Calloc \/ Free \/ ReallocInPlace \/ ReallocMoves \/ StrDup
           \/ GetCwd
  BY <1>1, MallocStep, CallocStep, FreeStep, ReallocInPlaceStep, ReallocMovesStep,
     StrDupStep, GetCwdStep
<1>2. CASE OutOfMemory \/ FreeNull
  <2>1. Dies("malloc") \in KnownFaults /\ Dies("free(NULL)") \in KnownFaults
    BY Listed DEF Deaths
  <2> QED
    BY <1>2, <2>1, EndStep DEF OutOfMemory, FreeNull
<1>3. CASE QuietCalls
  BY <1>3, QuietActions
<1>4. CASE StrCpy \/ StrNCpy \/ StrCat \/ StrNCat \/ StrTok
  BY <1>4, StrCpyStep, StrNCpyStep, StrCatStep, StrNCatStep, StrTokStep
<1>5. CASE MemSet \/ MemMove \/ ProgramStore
  BY <1>5, MemActions
<1>6. CASE Read \/ FRead \/ FGets \/ TtyName \/ TmpFile \/ Unimplemented
  BY <1>6, FileActions
<1>7. CASE Sprintf \/ Snprintf \/ Scanf \/ StrFTime \/ CTime
  BY <1>7, SprintfStep, SnprintfStep, ScanfStep, StrFTimeStep, CTimeStep
<1>8. CASE Result \/ MathResult \/ GetTimeOfDay \/ GetRLimit \/ Stat \/ StrToL
  BY <1>8, ResultActions
<1>9. CASE Returns
  BY <1>9, ReturnsStep
<1>10. CASE UNCHANGED vars
  BY <1>10 DEF vars, WInv, BlocksApart, HeadersAreTrue, HeadersUnknown, KnownOfBlocks,
     Buffer, Objects, OtherCallsAreExact
<1> QED
  BY <1>1, <1>2, <1>3, <1>4, <1>5, <1>6, <1>7, <1>8, <1>9, <1>10
  DEF Next, QuietCalls

LEMMA WInvariance == Spec => []WInv
<1>1. WInv /\ [Next]_vars => WInv'
  BY StepWInv
<1> QED
  BY <1>1, InitWInv, PTL DEF Spec

(* For a heap and strings of any size, and any sequence of calls: but for  *)
(* the calls named in KnownFaults, each in the circumstance named there,   *)
(* the profiler learns exactly what libc wrote and at least what it read,  *)
(* and no wrapper ends the program.  Where a va_list is no array, no call  *)
(* of the printf family misses a read.                                     *)
THEOREM CallsAlwaysExact == Spec => []OtherCallsAreExact
<1>1. WInv => OtherCallsAreExact
  BY DEF WInv
<1> QED
  BY <1>1, WInvariance, PTL

(* The header memprof_malloc puts in front of a block names its size for   *)
(* as long as the block lives, whatever is written to the blocks around it *)
(* and however it grows, shrinks and moves.                                *)
THEOREM HeadersAlwaysTrue == Spec => []HeadersAreTrue
<1>1. WInv => HeadersAreTrue
  BY DEF WInv
<1> QED
  BY <1>1, WInvariance, PTL

(* free finds the magic number in front of every block of the wrappers,    *)
(* the ones of strdup included: it never gives up on one.                  *)
THEOREM FreeAlwaysKnows == Spec => []FreeKnowsItsBlocks
<1>1. WInv => FreeKnowsItsBlocks
  <2>1. NotFreed("wrapper") \notin KnownFaults /\ NotFreed("strdup") \notin KnownFaults
    BY DEF KnownFaults, NotFreed, Misreports, Misses, Dies
  <2> QED
    BY <2>1 DEF WInv, OtherCallsAreExact, FreeKnowsItsBlocks
<1> QED
  BY <1>1, WInvariance, PTL

(* Memory that is used again has no dependence on its former life: what    *)
(* the profiler knows is known of a living block, but for the end a block  *)
(* that shrank in its place left behind.                                   *)
THEOREM KnownAlwaysOfBlocks == Spec => []KnownOfBlocks
<1>1. WInv => KnownOfBlocks
  BY DEF WInv
<1> QED
  BY <1>1, WInvariance, PTL

(* The regions that allocation, realloc and free tell of end where the     *)
(* block ends: no call without a fault forgets anything of another block.  *)
THEOREM OthersAlwaysKnown == Spec => OthersStayKnown
<1>1. WInv /\ [Next]_vars =>
        [fault' = {} =>
           \A k \in chunks \cap chunks' : known \cap DataOf(k) \subseteq known']_vars
  BY StepWInv DEF Keeps
<1> QED
  BY <1>1, WInvariance, PTL DEF Spec, OthersStayKnown

=============================================================================
