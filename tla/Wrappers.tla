------------------------------ MODULE Wrappers ------------------------------
(***************************************************************************)
(* The other wrappers of tools/utils/profile_function_wrappers.h: strings, *)
(* blocks of memory, files, formatted input and output, time and the rest. *)
(*                                                                         *)
(* An action stands for the wrappers that tell the same of the same        *)
(* accesses.  Arguments are any the C library allows, for any object of    *)
(* the program; what a function reads is the most it may read.  The state  *)
(* of a file, of the random numbers, the environment and libc's own        *)
(* buffers count as read and written too: the tokens stand for them.       *)
(*                                                                         *)
(* A wrapper that is wrong only in some circumstances has a name for each: *)
(* "open" is a call that succeeds, "open that fails" one that does not.    *)
(***************************************************************************)
EXTENDS WrappedMemory

CONSTANT VaListByReference
  \* a va_list is an array: what a callee takes is gone (as on x86-64)

ASSUME VaListAssumption == VaListByReference \in BOOLEAN

Buffer == UNION Objects            \* pointers to write to
Pointer == Buffer \cup Literal     \* pointers to read from
Count == 0 .. MaxSize

ObjectOf(p) == CHOOSE o \in Objects \cup {Literal} : p \in o
Rest(p) == {c \in ObjectOf(p) : c >= p}
Fits(p, n) == n = 0 \/ Span(p, n) \subseteq Rest(p)
Apart(p, m, q, n) == Span(p, m) \cap Span(q, n) = {}

IsString(p) == \E c \in Rest(p) : content[c] = Nul
String == {p \in Pointer : IsString(p)}
End(p) == Min({c \in Rest(p) : content[c] = Nul})
StrLen(p) == End(p) - p

Str(p) == Span(p, StrLen(p) + 1)
AtMost(p, n) == Span(p, n) \cap Str(p)

(* A call that leaves the heap, and one that leaves the memory alone.      *)
Within == UNCHANGED chunks /\ cut' = cut \cap known'
Quiet == UNCHANGED content /\ Within

-----------------------------------------------------------------------------
(* Strings.                                                                *)

(* strlen, strchr, strrchr.                                                *)
StrRead ==
  /\ Idle
  /\ \E p \in String :
      /\ Told("strlen", Str(p), {}, Str(p), {})
      /\ Quiet

(* strcmp, strstr, strspn, strcspn, strpbrk and rename.                    *)
StrStr ==
  /\ Idle
  /\ \E p, q \in String :
      /\ Told("strstr", Str(p) \cup Str(q), {}, Str(p) \cup Str(q), {})
      /\ Quiet

StrNCmp ==
  /\ Idle
  /\ \E p \in String, n \in Count :
      /\ Told("strncmp", AtMost(p, n), {}, Span(p, n), {})
      /\ Quiet

StrCpy ==
  /\ Idle
  /\ \E d \in Buffer, p \in String :
      /\ Fits(d, StrLen(p) + 1)
      /\ Apart(d, StrLen(p) + 1, p, StrLen(p) + 1)
      /\ content' = Moved(d, p, StrLen(p) + 1) ++ content
      /\ Told("strcpy", Str(p), Span(d, StrLen(p) + 1),
              Str(p), Span(d, StrLen(p) + 1))
      /\ Within

(* Pads with Nul up to n.                                                  *)
StrNCpy ==
  /\ Idle
  /\ \E d \in Buffer, p \in String, n \in Count :
      /\ Fits(d, n) /\ Apart(d, n, p, StrLen(p) + 1)
      /\ content' = Moved(d, p, Cardinality(AtMost(p, n))) ++
                    [c \in Span(d, n) |-> Nul] ++ content
      /\ Told("strncpy", AtMost(p, n), Span(d, n), Span(p, n), Span(d, n))
      /\ Within

(* Mutant of Appended: the end is looked for after the call.               *)
AppendedAfter(d, p) == Span(End(d) + StrLen(p), StrLen(p) + 1)

(* What strcat says it writes: the lengths are from before the call.       *)
Appended(d, p) == Span(End(d), StrLen(p) + 1)

StrCat ==
  /\ Idle
  /\ \E d \in Buffer \cap String, p \in String :
      /\ Fits(d, StrLen(d) + StrLen(p) + 1)
      /\ Apart(d, StrLen(d) + StrLen(p) + 1, p, StrLen(p) + 1)
      /\ content' = Moved(End(d), p, StrLen(p) + 1) ++ content
      /\ Told("strcat", Str(d) \cup Str(p), Span(End(d), StrLen(p) + 1),
              Str(d) \cup Str(p), Appended(d, p))
      /\ Within

(* strncat looks for the end of s1 after the call and takes n for the      *)
(* length of s2: what it tells is wrong unless n is zero.                  *)
StrNCat ==
  /\ Idle
  /\ \E d \in Buffer \cap String, p \in String, n \in Count :
      /\ LET k == Min({n, StrLen(p)})
         IN  /\ Fits(d, StrLen(d) + k + 1)
             /\ Apart(d, StrLen(d) + k + 1, p, StrLen(p) + 1)
             /\ content' = Moved(End(d), p, k) ++ Cell(End(d) + k, Nul) ++ content
             /\ Told(IF n = 0 THEN "strncat of nothing" ELSE "strncat",
                     Str(d) \cup AtMost(p, n), Span(End(d), k + 1),
                     Str(d) \cup Span(p, n), Span(End(d) + k, n + 1))
      /\ Within

(* strtok reads from p (where it left off, perhaps) over delimiters to the *)
(* token i .. j - 1 and ends it with a Nul; the wrapper tells of a load of *)
(* the token, or of nothing if there is none.  It is right only of a token *)
(* that is all there is from p on.                                         *)
StrTok ==
  /\ Idle
  /\ \E p \in Buffer \cap String :
      /\ \/ /\ Told("strtok", Str(p) \cup Literal, {}, Literal, {})
            /\ Quiet
         \/ \E i \in Str(p), j \in Str(p) :
              /\ i < j
              /\ content' = Cell(j, Nul) ++ content
              /\ Told(IF i = p /\ j = End(p) THEN "strtok of the rest" ELSE "strtok",
                      p .. j \cup Literal, IF j = End(p) THEN {} ELSE {j},
                      i .. j \cup Literal, {})
              /\ Within

(* Mutant of Duplicated: libc's block is handed on as it is.               *)
DuplicatedByLibc(at, p, n) ==
  /\ chunks' = chunks \cup {[at |-> at, len |-> n, by |-> "strdup"]}
  /\ content' = Moved(at, p, n) ++ content
  /\ Invalid({}, Span(at, n))
  /\ fault' = {}

(* libc's block is replaced by one with a header.                          *)
Duplicated(at, p, n) ==
  /\ chunks' = chunks \cup {Block(at, n)}
  /\ content' = HeaderOf(at, n) ++ Moved(at + Header, p, n) ++ content
  /\ Invalid(Span(at, n + Header), Span(at + Header, n))
  /\ fault' = Faults("strdup", Str(p), Span(at + Header, n),
                     Str(p), Span(at + Header, StrLen(p) + 1))

StrDup ==
  /\ Idle
  /\ \E p \in String :
      \/ \E at \in Heap :
           /\ at \in Places(StrLen(p) + 1 + Header)
           /\ Duplicated(at, p, StrLen(p) + 1)
      \/ /\ Told("strdup", Str(p), {}, Str(p), {})    \* NULL
         /\ Quiet

-----------------------------------------------------------------------------
(* Blocks of memory.                                                       *)

(* memset, bzero.                                                          *)
MemSet ==
  /\ Idle
  /\ \E d \in Buffer, n \in Count, value \in {Nul, Chr} :
      /\ Fits(d, n)
      /\ Holds(Span(d, n), value)
      /\ Told("memset", {}, Span(d, n), {}, Span(d, n))
      /\ Within

(* memmove, bcopy and, for regions apart, memcpy: load, then store.        *)
MemMove ==
  /\ Idle
  /\ \E d \in Buffer, p \in Pointer, n \in Count \ {0} :
      /\ Fits(d, n) /\ Fits(p, n)
      /\ content' = Moved(d, p, n) ++ content
      /\ Told("memmove", Span(p, n), Span(d, n), Span(p, n), Span(d, n))
      /\ Within

MemCmp ==
  /\ Idle
  /\ \E p \in Pointer, n \in Count :
      /\ Fits(p, n)
      /\ Told("memcmp", Span(p, n), {}, Span(p, n), {})
      /\ Quiet

(* A store or load of the program itself.                                  *)
ProgramStore ==
  /\ Idle
  /\ \E d \in Buffer, value \in {Nul, Chr} :
      /\ Holds({d}, value)
      /\ Told("store", {}, {d}, {}, {d})
      /\ Within

-----------------------------------------------------------------------------
(* Files.  One descriptor; a call may fail.                                *)

File == FdToken(0)

(* read: a result of -1 is taken for a size.                               *)
Read ==
  /\ Idle
  /\ \E d \in Buffer, n \in Count :
      /\ Fits(d, n)
      /\ \/ Ends(Dies("read"))
         \/ /\ Becomes(Span(d, n))
            /\ Told("read", {File}, {File} \cup Span(d, n),
                    {File}, {File} \cup Span(d, n))
            /\ Within

Write ==
  /\ Idle
  /\ \E p \in Pointer, n \in Count :
      /\ Fits(p, n)
      /\ Told("write", {File} \cup Span(p, n), {File},
              {File} \cup Span(p, n), {File})
      /\ Quiet

(* open: a result of -1 is taken for a descriptor.                         *)
Open ==
  /\ Idle
  /\ \E p \in String :
      /\ \/ Told("open", Str(p), {File}, Str(p), {File})
         \/ Told("open that fails", Str(p), {}, Str(p), {FdToken(-1)})
      /\ Quiet

(* fopen and fdopen look at the result.                                    *)
FOpen ==
  /\ Idle
  /\ \E p \in String, written \in SUBSET {File} :
      /\ Told("fopen", Str(p) \cup Literal, written,
              Str(p) \cup Literal, written)
      /\ Quiet

(* fread counts whole items: the bytes of one it cannot complete are left  *)
(* out.                                                                    *)
FRead ==
  /\ Idle
  /\ \E d \in Buffer, size \in 1 .. 2, n \in 1 .. 2, read \in Count :
      /\ Fits(d, size * n) /\ read <= size * n
      /\ Becomes(Span(d, read))
      /\ Told(IF read % size = 0 THEN "fread" ELSE "fread of half an item",
              {File}, {File} \cup Span(d, read),
              {File}, {File} \cup Span(d, (read \div size) * size))
      /\ Within

(* The same for what fwrite reads.                                         *)
FWrite ==
  /\ Idle
  /\ \E p \in Pointer, size \in 1 .. 2, n \in 1 .. 2, written \in Count :
      /\ Fits(p, size * n) /\ written <= size * n
      /\ Told(IF written % size = 0 THEN "fwrite" ELSE "fwrite of half an item",
              {File} \cup Span(p, written), {File},
              {File} \cup Span(p, (written \div size) * size), {File})
      /\ Quiet

(* rewind, fseek, lseek, close, fclose, ferror, clearerr, feof, fgetc,     *)
(* ftell: a file is read, written, or both.                                *)
FileState ==
  /\ Idle
  /\ \E read, written \in SUBSET {File} :
      /\ Told("fseek", read, written, read, written)
      /\ Quiet

(* "I believe that if NULL is returned, nothing it changed": the stream    *)
(* has come to its end then, or failed in the middle of a line.  The       *)
(* length is looked for in the line, which may hold a Nul.                 *)
FGets ==
  /\ Idle
  /\ \E d \in Buffer, n \in Count :
      /\ n > 0 /\ Fits(d, n)
      /\ \/ \E written \in SUBSET Span(d, n) :
              /\ Becomes(written)
              /\ Told("fgets at the end", {File}, {File} \cup written, {File}, {})
         \/ \E f \in [Span(d, n) -> {Nul, Chr}] :
              LET end == Min({c \in Span(d, n) : f[c] = Nul})
              IN  /\ f[d + n - 1] = Nul
                  /\ content' = f ++ content
                  /\ Told(IF end = d + n - 1 THEN "fgets" ELSE "fgets of a Nul",
                          {File}, {File} \cup Span(d, n),
                          {File}, {File} \cup d .. end)
  /\ Within

(* ttyname: strlen of the result, which is NULL for a descriptor that is   *)
(* no terminal.                                                            *)
TtyName ==
  /\ Idle
  /\ \/ Ends(Dies("ttyname"))
     \/ Told("ttyname", {File}, {LibcBuffer}, {File}, {LibcBuffer}) /\ Quiet

(* tmpfile opens a file and says it read it; fileno of NULL.               *)
TmpFile ==
  /\ Idle
  /\ \/ Ends(Dies("tmpfile"))
     \/ Told("tmpfile", {}, {File}, {File}, {}) /\ Quiet

(* remove, chmod, access, pathconf, mkdir, rmdir, unlink, chdir, atoi,     *)
(* atol, atof: read a string.                                              *)
Path ==
  /\ Idle
  /\ \E p \in String :
      /\ Told("remove", Str(p), {}, Str(p), {})
      /\ Quiet

(* select, truncate, dup, pipe, ...; exec, system, popen, kill, fork.      *)
Unimplemented == Idle /\ Ends(Dies("unimplemented"))

-----------------------------------------------------------------------------
(* Formatted output and input: one conversion, of a string or a number.    *)
(* The format is a literal.                                                *)

(* What printf reads of its argument: nothing of a number.                 *)
Arguments == {{}} \cup {Str(p) : p \in String}

(* touch_printf_args goes through the va_list that vfprintf, vsprintf and  *)
(* vsnprintf then start from: what they take for the argument.             *)
Taken(arg) == IF VaListByReference THEN Arguments ELSE {arg}

Printed(fn, arg) ==
  \E read \in Taken(arg) :
    Told(fn, {File} \cup Literal \cup read, {File},
         {File} \cup Literal \cup arg, {File})

Printf ==
  /\ Idle
  /\ \E arg \in Arguments : Printed("printf", arg)
  /\ Quiet

(* puts and fputs are memprof_fprintf of "%s".                             *)
Puts ==
  /\ Idle
  /\ \E p \in String : Printed("puts", Str(p))
  /\ Quiet

(* The Nul is not told of.                                                 *)
Sprintf ==
  /\ Idle
  /\ \E d \in Buffer, n \in Count, arg \in Arguments : \E read \in Taken(arg) :
      /\ Fits(d, n + 1) /\ arg \cap Span(d, n + 1) = {}
      /\ content' = Text(d, n) ++ content
      /\ Told("sprintf", Literal \cup read, Span(d, n + 1),
              Literal \cup arg, Span(d, n))
  /\ Within

(* vsnprintf returns what it would have written, or -1; right by chance if *)
(* that is the size of the buffer.                                         *)
Snprintf ==
  /\ Idle
  /\ \E d \in Buffer, size, n \in Count, arg \in Arguments : \E read \in Taken(arg) :
      /\ Fits(d, size) /\ arg \cap Span(d, size) = {}
      /\ \/ Ends(Dies("snprintf"))
         \/ LET k == Min({n, size - 1})
                text == IF size = 0 THEN [c \in {} |-> Nul] ELSE Text(d, k)
            IN  /\ content' = text ++ content
                /\ Told(IF n = size THEN "snprintf of the size" ELSE "snprintf",
                        Literal \cup read, DOMAIN text,
                        Literal \cup arg, Span(d, n))
                /\ Within

(* A number is told to be stored whether or not it was converted, and into *)
(* whatever is behind the arguments if the va_list has moved on; a string  *)
(* is told to be loaded.                                                   *)
Scanf ==
  /\ Idle
  /\ \E d \in Buffer, from \in {{File}, Literal} :
      /\ LET file == from \cap {File}
             read == from \cup Literal
         IN  \/ \E converted \in SUBSET {d},
                   told \in IF VaListByReference THEN Mem \cup {NULL} ELSE {d} :
                  /\ Becomes(converted)
                  /\ Told(IF converted = {d} /\ ~VaListByReference
                          THEN "scanf of a number" ELSE "scanf",
                          read, converted \cup file, read, {told} \cup file)
             \/ \E n \in Count :
                  /\ Fits(d, n + 1)
                  /\ content' = Text(d, n) ++ content
                  /\ Told("scanf of a string", read, Span(d, n + 1) \cup file,
                          read \cup Span(d, n + 1), file)
      /\ Within

-----------------------------------------------------------------------------
(* Time and the rest.                                                      *)

Reported(fn) ==
  \E d \in Buffer : Becomes({d}) /\ Told(fn, {}, {d}, {}, {d})

(* time, ftime, times: a result is written.                                *)
Result ==
  /\ Idle
  /\ Reported("time")
  /\ Within

(* modf and frexp.                                                         *)
MathResult ==
  /\ Idle
  /\ Reported("modf")
  /\ Within

(* The time zone is told of where NULL asks for none.                      *)
GetTimeOfDay ==
  /\ Idle
  /\ \E tv \in Buffer, tz \in Buffer \cup {NULL} :
      LET written == {tv, tz} \ {NULL}
      IN  /\ Becomes(written)
          /\ Told(IF tz = NULL THEN "gettimeofday without tz" ELSE "gettimeofday",
                  {}, written, {}, {tv, tz})
  /\ Within

(* getrusage, getrlimit and tcgetattr: told even if the call fails.        *)
GetRLimit ==
  /\ Idle
  /\ \E d \in Buffer : \E written \in SUBSET {d} :
       /\ Becomes(written)
       /\ Told(IF written = {} THEN "getrlimit that fails" ELSE "getrlimit",
               {}, written, {}, {d})
  /\ Within

(* setrlimit and tcsetattr.                                                *)
SetRLimit ==
  /\ Idle
  /\ \E c \in Buffer : Told("setrlimit", {c}, {}, {c}, {})
  /\ Quiet

(* utime and utimes: NULL stands for the present.                          *)
Utime ==
  /\ Idle
  /\ \E p \in String, c \in Buffer \cup {NULL} :
       Told("utime", Str(p) \cup ({c} \ {NULL}), {}, Str(p) \cup {c}, {})
  /\ Quiet

(* xstat, and fxstat of a descriptor: told even if the call fails.         *)
Stat ==
  /\ Idle
  /\ \E d \in Buffer, from \in {Str(p) : p \in String} \cup {{File}} :
       \E written \in SUBSET {d} :
         /\ d \notin from
         /\ Becomes(written)
         /\ Told(IF written = {} THEN "stat that fails" ELSE "stat",
                 from, written, from, {d})
  /\ Within

(* strtol and strtod: a second result is told of where NULL asks for none. *)
StrToL ==
  /\ Idle
  /\ \E p \in String, endptr \in Buffer \cup {NULL} :
       LET written == {endptr} \ {NULL}
       IN  /\ Becomes(written)
           /\ Told(IF endptr = NULL THEN "strtol without endptr" ELSE "strtol",
                   Str(p), written, Str(p), {endptr})
  /\ Within

(* The strings of argv, but not argv itself.                               *)
GetOpt ==
  /\ Idle
  /\ \E argv \in Buffer, p \in String :
       Told("getopt", {argv} \cup Str(p) \cup Literal, {},
            Str(p) \cup Literal, {})
  /\ Quiet

(* strftime: without the Nul; nothing if the text does not fit, when the   *)
(* buffer may hold anything.                                               *)
StrFTime ==
  /\ Idle
  /\ \E d, timeptr \in Buffer, size \in Count :
      /\ Fits(d, size) /\ timeptr \notin Span(d, size)
      /\ \/ \E n \in Count :
              /\ n < size
              /\ content' = Text(d, n) ++ content
              /\ Told("strftime", Literal \cup {timeptr}, Span(d, n + 1),
                      Literal \cup {timeptr}, Span(d, n))
         \/ \E written \in SUBSET Span(d, size) :
              /\ Becomes(written)
              /\ Told("strftime that overflows", Literal \cup {timeptr}, written,
                      Literal \cup {timeptr}, {})
  /\ Within

(* ctime has a buffer of libc's, ctime_r the program's; strlen of a result *)
(* that may be NULL.                                                       *)
CTime ==
  /\ Idle
  /\ \E clock \in Buffer :
      \/ Ends(Dies("ctime"))
      \/ Told("ctime", {clock}, {LibcBuffer}, {clock}, {LibcBuffer}) /\ Quiet
      \/ \E d \in Buffer, n \in Count :
           /\ Fits(d, n + 1) /\ clock \notin Span(d, n + 1)
           /\ content' = Text(d, n) ++ content
           /\ Told("ctime", {clock}, Span(d, n + 1), {clock}, Span(d, n + 1))
           /\ Within

(* localtime and gmtime: a result of NULL is told of too.                  *)
LocalTime ==
  /\ Idle
  /\ \E timer \in Buffer :
      \/ Told("localtime", {timer}, {LibcBuffer}, {timer}, {LibcBuffer})
      \/ Told("localtime that fails", {timer}, {}, {timer}, {NULL})
  /\ Quiet

(* libc may have the text of an error as a constant.                       *)
StrError ==
  /\ Idle
  /\ \/ Told("strerror", {}, {LibcBuffer}, {}, {LibcBuffer})
     \/ Told("strerror of a constant", {}, {}, {}, {LibcBuffer})
  /\ Quiet

(* libc reads the environment and hands out a pointer into it; the wrapper *)
(* tells of no load there, and of a store to what is found.                *)
GetEnv ==
  /\ Idle
  /\ \E p \in String :
      \/ Told("getenv", Str(p) \cup {Environ}, {}, Str(p), {Environ})
      \/ Told("getenv of nothing", Str(p) \cup {Environ}, {}, Str(p), {})
  /\ Quiet

Perror ==
  /\ Idle
  /\ \E p \in String :
       Told("perror", {File} \cup Str(p), {File}, {File} \cup Str(p), {File})
  /\ Quiet

Random ==
  /\ Idle
  /\ \E read \in SUBSET {RandToken} :
      /\ Told("rand", read, {RandToken}, read, {RandToken})
      /\ Quiet

(* getcwd tells of the whole buffer, or of nothing if it fails; without a  *)
(* buffer libc allocates, and the wrapper tells of a store to NULL.        *)
GetCwd ==
  /\ Idle
  /\ \/ \E d \in Buffer, n, size \in Count :
          /\ n < size /\ Fits(d, size)
          /\ content' = Text(d, n) ++ content
          /\ Told(IF n + 1 = size THEN "getcwd" ELSE "getcwd of a shorter name",
                  {}, Span(d, n + 1), {}, Span(d, size))
          /\ Within
     \/ \E d \in Buffer, size \in Count : \E written \in SUBSET Span(d, size) :
          /\ Fits(d, size)
          /\ Becomes(written)
          /\ Told("getcwd that fails", {}, written, {}, {})
          /\ Within
     \/ \E at \in Heap :
          /\ at \in Places(1)
          /\ \A k \in chunks : HasHeader(k)   \* bound: one such block
          /\ chunks' = chunks \cup {[at |-> at, len |-> 1, by |-> "getcwd"]}
          /\ content' = Cell(at, Nul) ++ content
          /\ Told("getcwd(NULL)", {}, {at}, {}, {NULL})
          /\ cut' = cut \cap known'

-----------------------------------------------------------------------------

Next ==
  \/ Returns
  \/ Malloc
  \/ OutOfMemory
  \/ Calloc
  \/ Free
  \/ FreeNull
  \/ ReallocInPlace
  \/ ReallocMoves
  \/ StrRead
  \/ StrStr
  \/ StrNCmp
  \/ StrCpy
  \/ StrNCpy
  \/ StrCat
  \/ StrNCat
  \/ StrTok
  \/ StrDup
  \/ MemSet
  \/ MemMove
  \/ MemCmp
  \/ ProgramStore
  \/ Read
  \/ Write
  \/ Open
  \/ FOpen
  \/ FRead
  \/ FWrite
  \/ FileState
  \/ FGets
  \/ TtyName
  \/ TmpFile
  \/ Path
  \/ Unimplemented
  \/ Printf
  \/ Puts
  \/ Sprintf
  \/ Snprintf
  \/ Scanf
  \/ Result
  \/ MathResult
  \/ GetTimeOfDay
  \/ GetRLimit
  \/ SetRLimit
  \/ Utime
  \/ Stat
  \/ StrToL
  \/ GetOpt
  \/ StrFTime
  \/ CTime
  \/ LocalTime
  \/ StrError
  \/ GetEnv
  \/ Perror
  \/ Random
  \/ GetCwd

Spec == Init /\ [][Next]_vars

-----------------------------------------------------------------------------
(* Properties.                                                             *)

(* The wrappers that tell wrongly, each with the circumstance in which it  *)
(* does: none of them is wrong in any other.                               *)
MisreportedWrites ==
  {"strncat", "strtok", "sprintf", "snprintf", "strftime", "strftime that overflows",
   "scanf", "scanf of a string", "fgets of a Nul", "fgets at the end",
   "fread of half an item", "open that fails", "tmpfile", "realloc",
   "gettimeofday without tz", "getrlimit that fails", "stat that fails",
   "strtol without endptr", "localtime that fails", "strerror of a constant",
   "getenv", "getcwd of a shorter name", "getcwd that fails", "getcwd(NULL)"}

MissedReads ==
  {"strtok", "fwrite of half an item", "getopt", "getenv", "getenv of nothing"} \cup
  (IF VaListByReference
   THEN {"printf", "puts", "sprintf", "snprintf", "snprintf of the size"} ELSE {})

Deaths ==
  {"free(NULL)", "realloc", "malloc", "read", "snprintf", "ttyname", "tmpfile",
   "ctime", "unimplemented"}

KnownFaults ==
  {Misreports(fn) : fn \in MisreportedWrites} \cup
  {Misses(fn) : fn \in MissedReads} \cup
  {Dies(fn) : fn \in Deaths} \cup
  {NotFreed("getcwd")}

(* In every state of the heap and the buffers, the profiler learns exactly *)
(* what was written and at least what was read, and the wrapper does not   *)
(* end a program that libc would not: but for the calls listed above.      *)
OtherCallsAreExact == fault \subseteq KnownFaults

(* However blocks are moved, grown and cut, the header in front of a block *)
(* has the magic number and names its size.                                *)
HeadersAreTrue ==
  \A k \in chunks : HasHeader(k) =>
    content[k.at] = DEADBEEF + k.len - Header

(* What strdup is careful about, "the pointer will go through              *)
(* memprof_free": only a block of getcwd(NULL) makes free give up.         *)
FreeKnowsItsBlocks ==
  \A by \in {"wrapper", "strdup"} : NotFreed(by) \notin fault

(* What is known of a block is forgotten with it, but for the end that a   *)
(* block shrinking in place leaves behind: memory that is used again has   *)
(* no dependence on its former life.                                       *)
KnownOfBlocks == known \subseteq Buffer \cup cut

(* A call that does nothing wrong takes nothing away that is known of      *)
(* another block.                                                          *)
OthersStayKnown ==
  [][fault' = {} =>
       \A k \in chunks \cap chunks' :
         known \cap DataOf(k) \subseteq known']_vars

=============================================================================
