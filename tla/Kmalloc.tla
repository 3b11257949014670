------------------------------- MODULE Kmalloc -------------------------------
(***************************************************************************)
(* The kernel heap of CSOS, ksrc/kmalloc.c: a table of free chunks from    *)
(* which _kmalloc carves blocks (best fit, from the front of the chunk),   *)
(* each preceded by one header word, and to which _kfree gives them back.  *)
(*                                                                         *)
(* The heap runs in the kernel with interrupts off or before tasks exist,  *)
(* so a call is never interleaved with another one.  _kmalloc is a single  *)
(* step.  _kfree is one step that fills a slot of the chunk table, then    *)
(* the loop `while(mm_fix_chunk(c, &c));`, one step per iteration, during  *)
(* which nothing else can run: fixing is its variable c.                   *)
(***************************************************************************)
EXTENDS Integers, FiniteSets

CONSTANTS
  HeapBegin,   \* address of the heap's first byte
  HeapLen,     \* its length in bytes
  Header,      \* bytes of the length word in front of a block (4)
  MaxChunks,   \* entries of the array chunks (2048)
  Lens         \* the lengths the kernel asks for

ASSUME HeapAssumption ==
  /\ HeapBegin \in Nat
  /\ HeapLen \in Nat \ {0}
  /\ Header \in Nat \ {0}
  /\ MaxChunks \in Nat /\ MaxChunks >= 1
  /\ Lens \subseteq Nat

VARIABLES
  chunks,      \* the table: slot -> [present, begin, end)
  n_chunks,    \* slots below it are scanned
  live,        \* the blocks handed out and not freed: header address and length
  fixing,      \* c of the merge loop of _kfree, NoSlot outside of it
  freed,       \* history: calls of _kfree so far, by length of the block
  frees,       \* history: calls of _kfree so far
  served,      \* history: bytes _kmalloc carved so far
  halted       \* panicf("kmalloc failed...") stops the machine

vars == <<chunks, n_chunks, live, fixing, freed, frees, served, halted>>

Slots  == 0 .. MaxChunks - 1
NoSlot == -1
Chunk  == [present : BOOLEAN, begin : Nat, end : Nat]
Block  == [begin : Nat, len : Lens]

HeapEnd == HeapBegin + HeapLen

TypeOK ==
  /\ chunks \in [Slots -> Chunk]
  /\ n_chunks \in 1 .. MaxChunks
  /\ live \subseteq Block
  /\ fixing \in Slots \cup {NoSlot}
  /\ freed \in [Lens -> Nat]
  /\ frees \in Nat
  /\ served \in Nat
  /\ halted \in BOOLEAN

-----------------------------------------------------------------------------
Init ==
  /\ chunks = [i \in Slots |-> IF i = 0
                 THEN [present |-> TRUE, begin |-> HeapBegin, end |-> HeapEnd]
                 ELSE [present |-> FALSE, begin |-> 0, end |-> 0]]
  /\ n_chunks = 1
  /\ live = {}
  /\ fixing = NoSlot
  /\ freed = [l \in Lens |-> 0]
  /\ frees = 0
  /\ served = 0
  /\ halted = FALSE

Scanned == 0 .. n_chunks - 1

Size(i) == chunks[i].end - chunks[i].begin

\* Mutant: the request is compared without its header.
FitsWithoutHeader(len) == {i \in Scanned : chunks[i].present /\ Size(i) >= len}

Fits(len) == {i \in Scanned : chunks[i].present /\ Size(i) >= len + Header}

\* The chunk the scan of _kmalloc settles on: the smallest, the first of equals.
BestFit(i, len) ==
  /\ i \in Fits(len)
  /\ \A j \in Fits(len) : Size(i) < Size(j) \/ (Size(i) = Size(j) /\ i <= j)

\* Mutant: the header is counted twice.
CarveTwoHeaders(c, size) ==
  [present |-> c.end > c.begin + size + Header,
   begin |-> c.begin + size + Header, end |-> c.end]

Carve(c, size) ==
  [present |-> c.end # c.begin + size, begin |-> c.begin + size, end |-> c.end]

Kmalloc(len) ==
  /\ ~halted /\ fixing = NoSlot
  /\ \E i \in Scanned :
       /\ BestFit(i, len)
       /\ live' = live \cup {[begin |-> chunks[i].begin, len |-> len]}
       /\ chunks' = [chunks EXCEPT ![i] = Carve(chunks[i], len + Header)]
  /\ served' = served + len + Header
  /\ UNCHANGED <<n_chunks, fixing, freed, frees, halted>>

KmallocFails(len) ==
  /\ ~halted /\ fixing = NoSlot
  /\ Fits(len) = {}
  /\ halted' = TRUE
  /\ UNCHANGED <<chunks, n_chunks, live, fixing, freed, frees, served>>

\* Mutant: the block is given back with its header.
FreedChunkWhole(b) ==
  [present |-> TRUE, begin |-> b.begin, end |-> b.begin + b.len + Header]

\* The chunk _kfree makes of a block: the header word's length is all it has.
FreedChunk(b) ==
  [present |-> TRUE, begin |-> b.begin, end |-> b.begin + b.len]

\* The slots _kfree looks at for a free one: n_chunks is already incremented.
Holes == {i \in (0 .. n_chunks) \cap Slots : ~chunks[i].present}

\* Mutant: with no hole the slot stays at its initial value, zero.
FreeSlotZero(slot, n) ==
  \/ Holes = {} /\ slot = 0 /\ n = n_chunks + 1
  \/ slot \in Holes /\ (\A i \in Holes : slot <= i) /\ n = n_chunks

\* The slot it takes, and what n_chunks is then.
FreeSlot(slot, n) ==
  \/ /\ Holes = {}
     /\ slot = n_chunks /\ n = n_chunks + 1
  \/ /\ slot \in Holes /\ \A i \in Holes : slot <= i
     /\ n = n_chunks

\* Bound: the code does not check the end of the table; a call that would write
\* beyond it is not modelled (TableGrowsSlowly says when that could happen).
Kfree(b) ==
  /\ ~halted /\ fixing = NoSlot
  /\ b \in live
  /\ live' = live \ {b}
  /\ freed' = [freed EXCEPT ![b.len] = @ + 1]
  /\ frees' = frees + 1
  /\ \E slot \in Slots, n \in 1 .. MaxChunks :
       /\ FreeSlot(slot, n)
       /\ n_chunks' = n
       /\ chunks' = [chunks EXCEPT ![slot] = FreedChunk(b)]
       /\ fixing' = slot
  /\ UNCHANGED <<served, halted>>

\* Mutant: slots that are not present are looked at too.
TouchingAbsent(c) ==
  {i \in Scanned : \/ chunks[i].begin = chunks[c].end
                   \/ chunks[i].end = chunks[c].begin}

\* The chunks mm_fix_chunk(c) would join to chunk c.
Touching(c) ==
  {i \in Scanned : /\ chunks[i].present
                   /\ \/ chunks[i].begin = chunks[c].end
                      \/ chunks[i].end = chunks[c].begin}

\* Chunk i once chunk c is joined to it.
Joined(i, c) ==
  IF chunks[i].begin = chunks[c].end
  THEN [chunks[i] EXCEPT !.begin = chunks[c].begin]
  ELSE [chunks[i] EXCEPT !.end = chunks[c].end]

FixChunk ==
  /\ fixing # NoSlot
  /\ \E i \in Touching(fixing) :
       /\ \A j \in Touching(fixing) : i <= j
       /\ chunks' = [chunks EXCEPT ![i] = Joined(i, fixing),
                                   ![fixing].present = FALSE]
       /\ fixing' = i
  /\ UNCHANGED <<n_chunks, live, freed, frees, served, halted>>

FixDone ==
  /\ fixing # NoSlot
  /\ Touching(fixing) = {}
  /\ fixing' = NoSlot
  /\ UNCHANGED <<chunks, n_chunks, live, freed, frees, served, halted>>

\* After the panic the machine stays as it is.
Halted == halted /\ UNCHANGED vars

Next ==
  \/ \E len \in Lens : Kmalloc(len)
  \/ \E len \in Lens : KmallocFails(len)
  \/ \E b \in live : Kfree(b)
  \/ FixChunk
  \/ FixDone
  \/ Halted

Spec == Init /\ [][Next]_vars

\* _kfree runs its own loop to the end: nobody else has to be fair.
FairSpec == Spec /\ WF_vars(FixChunk) /\ WF_vars(FixDone)

-----------------------------------------------------------------------------
(* The bytes a region keeps from everybody else.  A freed chunk is a header *)
(* shorter than the block it comes from, and the rest of that block is      *)
(* never used again; so every chunk is followed by Header bytes of its own. *)

ChunkExtent(c) == [begin |-> c.begin, end |-> c.end + Header]
BlockExtent(b) == [begin |-> b.begin, end |-> b.begin + b.len + Header]

Before(r, s) == r.end <= s.begin
Apart(r, s) == Before(r, s) \/ Before(s, r)

\* A slot holds memory if it is present, or if the merge loop has just taken
\* it out and still looks for its neighbours.
Holds(i) == chunks[i].present \/ i = fixing

\* No two free chunks, no two blocks and no chunk and block share a byte, the
\* lost header of a freed block included, and all of them are in the heap:
\* however _kmalloc carves and _kfree fills the table (ksrc/kmalloc.c:34-112).
ChunksApart ==
  \A i, j \in Slots : Holds(i) /\ Holds(j) /\ i # j =>
    Apart(ChunkExtent(chunks[i]), ChunkExtent(chunks[j]))

ChunksApartFromBlocks ==
  \A i \in Slots, b \in live : Holds(i) =>
    Apart(ChunkExtent(chunks[i]), BlockExtent(b))

BlocksApart ==
  \A b, c \in live : b # c => Apart(BlockExtent(b), BlockExtent(c))

InHeap ==
  /\ \A i \in Slots : Holds(i) => /\ HeapBegin <= chunks[i].begin
                                /\ chunks[i].begin <= chunks[i].end
                                /\ chunks[i].end <= HeapEnd
  /\ \A b \in live : HeapBegin <= b.begin /\ b.begin + b.len + Header <= HeapEnd

Separated == ChunksApart /\ ChunksApartFromBlocks /\ BlocksApart /\ InHeap

\* While the merge loop works on a slot that is no longer present, that slot
\* describes an empty chunk: only an empty chunk touches itself.
FixingEmpty ==
  fixing # NoSlot =>
    chunks[fixing].present \/ chunks[fixing].begin = chunks[fixing].end

\* Until the heap has handed out its length, what is left of the chunk
\* kmalloc_init made is in slot 0.
FirstChunk ==
  served >= HeapLen \/ (chunks[0].present /\ Size(0) >= HeapLen - served)

\* The inductive invariant of the proofs: Separated, with what the merge loop and
\* the out-of-memory panic need to know (ksrc/kmalloc.c:39-66, 105-139).
IInv == TypeOK /\ Separated /\ FixingEmpty /\ FirstChunk

\* The bytes that are in a free chunk or in a block.
BytesInUse ==
  {x \in HeapBegin .. HeapEnd - 1 :
     \/ \E i \in Slots : chunks[i].present /\ chunks[i].begin <= x /\ x < chunks[i].end
     \/ \E b \in live : b.begin <= x /\ x < b.begin + b.len + Header}

\* Every call of _kfree costs the heap a header for good: the bytes that are free or
\* handed out, and one header per call, never exceed the heap.  (The rest, if
\* any, sat in a chunk that _kfree overwrote, ksrc/kmalloc.c:86-103.)
HeadersNeverReturn ==
  Cardinality(BytesInUse) + Header * frees <= HeapLen

\* The blocks of length m, those freed included.
Served(m) == Cardinality({b \in live : b.len = m}) + freed[m]

\* No freed block ever serves a request of the largest length again: each such
\* request, freed or not, takes new memory, so fork and exit use the heap up
\* (task_t is the largest block the running kernel asks for).
LargestNeverReused ==
  \A m \in Lens : (\A l \in Lens : l <= m) => Served(m) * (m + Header) <= HeapLen

\* The scanned part of the table grows by at most one slot for two calls of
\* _kfree, though the code adds one to n_chunks at each (ksrc/kmalloc.c:88-99):
\* 2048 slots are only overrun by 4096 calls.
TableGrowsSlowly == 2 * (n_chunks - 1) <= frees

\* What a call of _kfree costs and what it does not: its header for good, nothing of
\* the largest blocks ever back, and a slot of the table at every second call at
\* most (ksrc/kmalloc.c:75-142).
FreedIsLost == HeadersNeverReturn /\ LargestNeverReused /\ TableGrowsSlowly

\* The loop `while(mm_fix_chunk(c, &c))` of _kfree comes to an end.
MergeLoopEnds == fixing # NoSlot ~> fixing = NoSlot

\* The heap does what Heap promises.
HeapPromise == INSTANCE Heap
ImplementsHeap == HeapPromise!Spec

\* Comment of _kfree: "if we're going to add a chunk to the end, make sure to
\* increment n_chunks" (ksrc/kmalloc.c:88): no free chunk lies in a slot that
\* neither _kmalloc nor mm_fix_chunk will look at.
ChunksCounted ==
  \A i \in Slots : chunks[i].present => i < n_chunks

=============================================================================
