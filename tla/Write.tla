------------------------------- MODULE Write -------------------------------
(***************************************************************************)
(* Writing to the console from a program: sys_write of ksrc/syscall.c,     *)
(* with paging_virtual_to_physical of ksrc/paging.c, which hands chunks of *)
(* physical memory to console_vfs_write of ksrc/console.c.                 *)
(*                                                                         *)
(* Of the memory only the zero bytes matter; there is one at its end.      *)
(***************************************************************************)
EXTENDS Naturals, Sequences, FiniteSets

CONSTANTS
  PageSize,
  Word,       \* an unsigned int counts up to Word - 1
  Frames,     \* the pages of physical memory
  Maps,       \* the address spaces: functions from virtual to physical page
  Zeros       \* the sets of physical addresses that hold a zero

Memory == PageSize * Cardinality(Frames)

\* Every page of a map is one of memory's, and no byte is without a zero behind it.
ASSUME WriteAssumption ==
  /\ PageSize \in Nat \ {0} /\ Word \in Nat \ {0} /\ Frames \subseteq Nat /\ Memory \in Nat
  /\ \A m \in Maps, v \in 0 .. Word - 1 : m[v \div PageSize] \in Frames
  /\ \A z \in Zeros, f \in Frames, r \in 0 .. PageSize - 1 :
       \E k \in 0 .. Memory : f * PageSize + r + k \in z

VARIABLES
  map, zeros,    \* the address space and the memory
  open,          \* the file descriptor is one
  ecx, edx,      \* address and length
  vaddr,
  handed,        \* the addresses of the bytes handed on
  chunks,        \* where the chunks began and how long they were
  printed,       \* the addresses of the characters printed
  wasted,        \* how many bytes of the heap were allocated and never freed
  eax, write_pc

call == <<map, zeros, open, ecx, edx>>
writeVars == <<call, vaddr, handed, chunks, printed, wasted, eax, write_pc>>

WriteInit ==
  /\ map \in Maps /\ zeros \in Zeros
  /\ open \in BOOLEAN
  /\ ecx \in 0 .. Word - 1 /\ edx \in 0 .. Word - 1
  /\ vaddr = ecx /\ handed = << >> /\ chunks = {} /\ printed = << >> /\ wasted = 0
  /\ eax = 0 /\ write_pc = "write"

Address(v) == map[v \div PageSize] * PageSize + (v % PageSize)

RangeEnd == (ecx + edx) % Word

\* Mutant: a chunk is a page wherever it begins.
ToPageEndWhole == PageSize
ToPageEnd      == PageSize - (vaddr % PageSize)
len            == IF RangeEnd - vaddr < ToPageEnd THEN RangeEnd - vaddr ELSE ToPageEnd

From(a, n) == [k \in 1 .. n |-> a + k - 1]

\* kprint(a): the characters up to the first zero, wherever it is.
Length(a) == CHOOSE n \in 0 .. Memory : a + n \in zeros /\ \A k \in 0 .. n - 1 : a + k \notin zeros
String(a) == From(a, Length(a))

Terminated(a, n) == \E k \in 0 .. n - 1 : a + k \in zeros

BadDescriptor ==
  /\ write_pc = "write" /\ ~open
  /\ eax' = 0 /\ write_pc' = "returned"
  /\ UNCHANGED <<call, vaddr, handed, chunks, printed, wasted>>

\* console_vfs_write looks for a zero in the chunk; if there is none it makes a
\* copy that ends with one, prints the original all the same and forgets the copy.
Chunk ==
  /\ write_pc = "write" /\ open /\ vaddr < RangeEnd
  /\ LET phys == Address(vaddr)
     IN  /\ handed' = handed \o From(phys, len)
         /\ chunks' = chunks \cup {<<phys, len>>}
         /\ printed' = printed \o String(phys)
         /\ wasted' = IF Terminated(phys, len) THEN wasted ELSE wasted + len + 1
  /\ vaddr' = vaddr + len
  /\ UNCHANGED <<call, eax, write_pc>>

Finish ==
  /\ write_pc = "write" /\ open /\ ~(vaddr < RangeEnd)
  /\ eax' = edx /\ write_pc' = "returned"
  /\ UNCHANGED <<call, vaddr, handed, chunks, printed, wasted>>

WriteNext == BadDescriptor \/ Chunk \/ Finish

WriteSpec == WriteInit /\ [][WriteNext]_writeVars

-----------------------------------------------------------------------------
Returned == write_pc = "returned" /\ open
Wraps    == ecx + edx >= Word
asked    == [k \in 1 .. edx |-> Address(ecx + k - 1)]
Bytes(s) == {s[k] : k \in DOMAIN s}

\* Those of the first k bytes asked for that are no zeros.
Shown(k) == {j \in 1 .. k : Address(ecx + j - 1) \notin zeros}

\* The pages that the first k bytes asked for lie on.
PagesOf(k) == {(ecx + j) \div PageSize : j \in 0 .. k - 1}

\* The bytes asked for are handed on, each once and in order, however the pages are
\* scattered (ksrc/syscall.c:135-143).
HandsOnAll == Returned /\ ~Wraps => handed = asked

\* What is returned is how many bytes were handed on, unless the end of the range
\* wraps around: then nothing was (ksrc/syscall.c:135, 144).
CountsHandedOn ==
  Returned => IF Wraps THEN handed = << >> /\ eax = edx ELSE eax = Len(handed)

\* Memory that is not the caller's is printed only together with a lost block: for
\* a chunk without a zero (ksrc/console.c:30-45).
PrintsOthersWhenLosing ==
  wasted = 0 /\ ~Wraps => Bytes(printed) \subseteq Bytes(asked)

\* The first zero from a chunk on is its last byte or right behind it.
EndsInTime(c) == Length(c[1]) \in {c[2] - 1, c[2]}

\* The first k bytes asked for are printed, in order and without the zeros.
PrintedUpTo(k) ==
  /\ Len(printed) = Cardinality(Shown(k))
  /\ \A j \in Shown(k) : printed[Cardinality(Shown(j))] = Address(ecx + j - 1)

\* If every chunk ends in time, what is printed is what was asked for
\* (ksrc/console.c:30-45, 85-113).
PrintsAsked ==
  Returned /\ ~Wraps /\ (\A c \in chunks : EndsInTime(c)) => PrintedUpTo(edx)

\* A text without a zero costs the heap its length and a byte for each page it lies
\* on, for good (ksrc/console.c:40-44).
LosesItsLength ==
  Returned /\ ~Wraps /\ Bytes(asked) \cap zeros = {} =>
    wasted = edx + Cardinality(PagesOf(edx))

\* What comes of a write: every byte is handed on and counted, and what is printed
\* and what is lost depend on where the zeros lie and on nothing else
\* (ksrc/syscall.c:124-145, console.c:28-46).
WriteOutcome ==
  /\ HandsOnAll /\ CountsHandedOn
  /\ PrintsOthersWhenLosing /\ PrintsAsked
  /\ LosesItsLength

=============================================================================
