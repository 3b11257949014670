------------------------------ MODULE UserHeap ------------------------------
(***************************************************************************)
(* The heap of a user program: malloc, free and realloc of the C library   *)
(* (user/pdclib/functions/stdlib) on the pages that _PDCLIB_allocpages     *)
(* (user/crt/csos.c) gets from the kernel's sys_alloc_page.                *)
(*                                                                         *)
(* The linked list of free nodes is the sequence list; memlist.last is the *)
(* position it points at, 0 for NULL: it never points outside of the list. *)
(* A program is one thread and calls one function at a time.  realloc is   *)
(* malloc and then free, two steps, as the code has it.                    *)
(***************************************************************************)
EXTENDS Integers, Sequences

CONSTANTS
  ProgramEnd,  \* first address behind the program's code, data and stack
  HeapPage,    \* 4096 in the code
  Header,      \* sizeof(struct _PDCLIB_memnode_t), 8
  MinAlloc,    \* _PDCLIB_MINALLOC, 8
  Requests,    \* the sizes programs ask for
  HeapFrames,  \* the page frames of the machine, by number
  TableEntries, \* entries of a page table or directory, 1024
  MaxPages,    \* bound: pages until the kernel has no more
  Kernels      \* {FALSE}: this kernel; TRUE: one that answers with the address
               \* it mapped, as the library asks

ASSUME UserHeapAssumption ==
  /\ ProgramEnd \in Nat \ {0}
  /\ HeapPage \in Nat \ {0}
  /\ Header \in Nat \ {0}
  /\ MinAlloc \in Nat /\ MinAlloc >= Header
  /\ Requests \subseteq Nat
  /\ HeapFrames \subseteq Nat
  /\ TableEntries \in Nat \ {0}
  /\ MaxPages \in Nat
  /\ Kernels \subseteq BOOLEAN

VARIABLES
  list,        \* the free nodes, from memlist.first on
  last,        \* position of memlist.last
  blocks,      \* the nodes handed out
  lost,        \* history: free nodes no pointer leads to any more
  pages,       \* pages mapped from ProgramEnd on
  told,        \* what allocpages answered last
  moving,      \* the block realloc is going to free, 0 outside of realloc
  mended,      \* the kernel is one that answers with the address it mapped
  running      \* FALSE once the program faulted or the kernel stopped

nodes == <<list, last, blocks, lost>>
heapVars  == <<nodes, pages, told, moving, mended, running>>

Node  == [at : Nat, size : Nat]
Top   == ProgramEnd + HeapPage * pages

UserHeapInit ==
  /\ list = <<>> /\ last = 0 /\ blocks = {} /\ lost = {}
  /\ pages = 0 /\ told = 0
  /\ moving = 0 /\ running = TRUE
  /\ mended \in Kernels

-----------------------------------------------------------------------------
(* malloc on the list: an exact fit, or else the smallest larger node. *)

Wanted(request) == IF request < MinAlloc THEN MinAlloc ELSE request

IsExact(k, size) ==
  /\ list[k].size = size
  /\ \A j \in 1 .. k - 1 : list[j].size # size

IsFit(k, size) ==
  /\ list[k].size > size
  /\ \A j \in DOMAIN list :
       /\ list[j].size # size
       /\ list[j].size > size => \/ list[j].size > list[k].size
                                 \/ list[j].size = list[k].size /\ j >= k

Splits(node, size) == node.size - size > MinAlloc

\* For mutation runs: the rest gives away the bytes of two headers, or starts
\* a header too early.
RestOfTwo(node, size) == [at   |-> node.at + Header + size,
                          size |-> node.size - size - 2 * Header]
RestTooEarly(node, size) == [at |-> node.at + size, size |-> node.size - size - Header]

Rest(node, size) == [at   |-> node.at + Header + size,
                     size |-> node.size - size - Header]

Without(k) == SubSeq(list, 1, k - 1) \o SubSeq(list, k + 1, Len(list))

\* Where memlist.last points when node k is taken out of the list: a node put
\* in its place is not considered.
LastWithout(k) == IF last = k THEN k - 1 ELSE last

\* memlist.last is a pointer: behind a node that went it has another position.
Shifted(k, pos) == IF pos > k THEN pos - 1 ELSE pos

TakeWhole(k) ==
  /\ list' = Without(k)
  /\ last' = Shifted(k, LastWithout(k))
  /\ blocks' = blocks \cup {list[k]}
  /\ UNCHANGED <<lost, pages, told, running>>

TakePart(k, size) ==
  /\ list' = [list EXCEPT ![k] = Rest(list[k], size)]
  /\ last' = LastWithout(k)
  /\ blocks' = blocks \cup {[at |-> list[k].at, size |-> size]}
  /\ UNCHANGED <<lost, pages, told, running>>

-----------------------------------------------------------------------------
(* malloc with more pages. *)

\* memlist.last->next = node, or memlist.first = node if last is NULL: nodes
\* behind last are then out of reach.
Append1(node) ==
  /\ list' = Append(SubSeq(list, 1, last), node)
  /\ last' = last + 1
  /\ lost' = lost \cup {list[k] : k \in last + 1 .. Len(list)}

NoFit(size) == \A k \in DOMAIN list : list[k].size < size

PagesFor(size) == ((size + Header - 1) \div HeapPage) + 1

\* ((dir * 1024) + page) * 4096 in sys_alloc_page: dir is the last entry of
\* the directory after the loop, page is the physical address of the frame.
Answer(frame) ==
  IF mended THEN Top
  ELSE ((((TableEntries - 1) * TableEntries) + (frame * HeapPage)) * HeapPage)
         % (TableEntries * TableEntries * HeapPage)

\* allocpages answers with what the first of its calls returned; the others
\* map pages all the same.
Extend(size) ==
  /\ NoFit(size)
  /\ pages + PagesFor(size) =< MaxPages
  /\ pages' = pages + PagesFor(size)
  /\ \E frame \in HeapFrames : told' = Answer(frame)

NewNode(size) == [at |-> Top, size |-> (PagesFor(size) * HeapPage) - Header]

ExtendWhole(size) ==
  /\ Extend(size) /\ told' = Top
  /\ NewNode(size).size - size =< MinAlloc + Header
  /\ blocks' = blocks \cup {NewNode(size)}
  /\ UNCHANGED <<list, last, lost, running>>

ExtendSplit(size) ==
  /\ Extend(size) /\ told' = Top
  /\ NewNode(size).size - size > MinAlloc + Header
  /\ blocks' = blocks \cup {[at |-> Top, size |-> size]}
  /\ Append1(Rest(NewNode(size), size))
  /\ UNCHANGED running

\* Writing the node anywhere else faults, or damages the program: its end
\* for this model.
ExtendElsewhere(size) ==
  /\ Extend(size) /\ told' # Top
  /\ running' = FALSE
  /\ UNCHANGED nodes

OutOfPages(size) ==
  /\ NoFit(size)
  /\ pages + PagesFor(size) > MaxPages
  /\ running' = FALSE
  /\ UNCHANGED <<nodes, pages, told>>

Malloc(size) ==
  \/ \E k \in DOMAIN list : IsExact(k, size) /\ TakeWhole(k)
  \/ \E k \in DOMAIN list :
       /\ IsFit(k, size)
       /\ IF Splits(list[k], size) THEN TakePart(k, size) ELSE TakeWhole(k)
  \/ ExtendWhole(size)
  \/ ExtendSplit(size)
  \/ ExtendElsewhere(size)
  \/ OutOfPages(size)

-----------------------------------------------------------------------------
Free(b) ==
  /\ blocks' = blocks \ {b}
  /\ Append1(b)
  /\ UNCHANGED <<pages, told, running>>

\* A call of malloc; 0 bytes get NULL and change nothing.
CallMalloc(request) ==
  /\ running /\ moving = 0 /\ request > 0
  /\ Malloc(Wanted(request))
  /\ UNCHANGED <<moving, mended>>

CallFree(b) ==
  /\ running /\ moving = 0
  /\ Free(b)
  /\ UNCHANGED <<moving, mended>>

\* realloc of a block that is too small: malloc and memcpy, then free.
Grow(b, request) ==
  /\ running /\ moving = 0 /\ request > b.size
  /\ Malloc(Wanted(request))
  /\ moving' = b.at
  /\ UNCHANGED mended

FreeMoved(b) ==
  /\ running /\ moving = b.at
  /\ Free(b)
  /\ moving' = 0
  /\ UNCHANGED mended

UserHeapNext ==
  \/ \E request \in Requests : CallMalloc(request)
  \/ \E b \in blocks : CallFree(b)
  \/ \E b \in blocks, request \in Requests : Grow(b, request)
  \/ \E b \in blocks : FreeMoved(b)

UserHeapSpec == UserHeapInit /\ [][UserHeapNext]_heapVars

-----------------------------------------------------------------------------
(* Properties. *)

UserHeapTypeOK ==
  /\ list \in Seq(Node) /\ last \in 0 .. Len(list)
  /\ blocks \subseteq Node /\ lost \subseteq Node
  /\ pages \in Nat
  /\ moving \in Nat
  /\ mended \in BOOLEAN
  /\ running \in BOOLEAN

Apart(n, o) ==
  \/ n.at + Header + n.size =< o.at
  \/ o.at + Header + o.size =< n.at

\* Free nodes and the others lie between ProgramEnd and top.
Within(free, off, top) ==
  /\ \A k \in DOMAIN free : ProgramEnd =< free[k].at /\ free[k].at + Header + free[k].size =< top
  /\ \A n \in off : ProgramEnd =< n.at /\ n.at + Header + n.size =< top

\* No two of them share a byte.
Separate(free, off) ==
  /\ \A j, k \in DOMAIN free : j # k => Apart(free[j], free[k])
  /\ \A n \in off, k \in DOMAIN free : Apart(n, free[k])
  /\ \A n, o \in off : n # o => Apart(n, o)

\* What is not on the list: handed out, or forgotten.
Off == blocks \cup lost

\* The inductive invariant: blocks and free nodes lie in the pages the
\* program has, and no two of them share a byte, whatever was split, freed,
\* moved by realloc, or forgotten behind a stale memlist.last; the block that
\* realloc is to free is still one.
UserHeapInv ==
  /\ UserHeapTypeOK
  /\ blocks \cap lost = {}
  /\ Within(list, Off, Top)
  /\ Separate(list, Off)
  /\ moving # 0 /\ running => \E b \in blocks : b.at = moving

\* Every node there is, and the bytes that are one's own, its header's included.
Held        == Off \cup {list[k] : k \in DOMAIN list}
Holds(n, x) == n.at =< x /\ x < n.at + Header + n.size

\* Splitting loses no byte and makes up none: every byte of every page the
\* library got belongs to one block, to one node of the list, or to one node
\* that was forgotten.
Accounted ==
  running => \A x \in ProgramEnd .. Top - 1 : \E n \in Held :
               /\ Holds(n, x)
               /\ \A o \in Held : Holds(o, x) => o = n

\* The pages that allocpages gets the program begin at the end of the heap as it
\* was, and that is what it answers: "Return a (void *) pointing to the *former*
\* end-of-heap if successful" (user/pdclib/internals/_PDCLIB_glue.h:26-30).  This
\* kernel answers with an address made of the page frame's and of the last
\* directory entry (ksrc/syscall.c:67), and malloc writes its first node there.
AnswersFormerEnd == [][pages' # pages => told' = Top]_heapVars

=============================================================================
