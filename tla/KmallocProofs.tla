---------------------------- MODULE KmallocProofs ----------------------------
(***************************************************************************)
(* Proofs about Kmalloc, for every heap, table size and set of lengths:    *)
(* IInv is inductive, hence no two regions of the heap ever overlap and    *)
(* _kfree never merges two chunks; the chunk table implements Heap; and    *)
(* the heap stays off the page tables until it has served what lies below. *)
(***************************************************************************)
EXTENDS Layout, FiniteSetTheorems, TLAPS

LEMMA InitIInv == Init => IInv
<1> SUFFICES ASSUME Init PROVE IInv
  OBVIOUS
<1> USE HeapAssumption
<1>1. TypeOK
  <2>1. HeapBegin \in Nat /\ HeapEnd \in Nat /\ 0 \in Nat
    BY DEF HeapEnd
  <2>2. chunks \in [Slots -> Chunk]
    BY <2>1 DEF Init, Chunk
  <2>3. n_chunks \in 1 .. MaxChunks
    BY DEF Init
  <2>4. freed \in [Lens -> Nat] /\ frees \in Nat /\ served \in Nat
    BY DEF Init
  <2> QED
    BY <2>2, <2>3, <2>4 DEF Init, TypeOK
<1>2. Separated
  BY DEF Init, Separated, ChunksApart, ChunksApartFromBlocks, BlocksApart, InHeap,
         Holds, HeapEnd, NoSlot, Slots
<1>3. FixingEmpty /\ FirstChunk
  BY DEF Init, FixingEmpty, FirstChunk, Size, HeapEnd, Slots
<1>4. QED
  BY <1>1, <1>2, <1>3 DEF IInv

\* While the merge loop works on slot c, the only chunk that touches c is c
\* itself, and then it is empty.
LEMMA TouchesOnlyItself ==
  ASSUME IInv, fixing # NoSlot, NEW i \in Touching(fixing)
  PROVE  i = fixing /\ chunks[i].begin = chunks[i].end /\ chunks[i].present
<1> USE HeapAssumption
<1>1. i \in Slots /\ fixing \in Slots /\ chunks[i].present
  BY DEF IInv, TypeOK, Touching, Scanned, Slots
<1>2. chunks[i] \in Chunk /\ chunks[fixing] \in Chunk
  BY <1>1 DEF IInv, TypeOK
<1>3. chunks[i].begin \in Nat /\ chunks[i].end \in Nat
  BY <1>2 DEF Chunk
<1>4. chunks[fixing].begin \in Nat /\ chunks[fixing].end \in Nat
  BY <1>2 DEF Chunk
<1>5. /\ chunks[i].begin <= chunks[i].end
      /\ chunks[fixing].begin <= chunks[fixing].end
  BY <1>1 DEF IInv, Separated, InHeap, Holds
<1>6. \/ chunks[i].begin = chunks[fixing].end
      \/ chunks[i].end = chunks[fixing].begin
  BY DEF Touching
<1>7. i = fixing
  <2> SUFFICES ASSUME i # fixing PROVE FALSE
    OBVIOUS
  <2>1. Apart(ChunkExtent(chunks[i]), ChunkExtent(chunks[fixing]))
    BY <1>1 DEF IInv, Separated, ChunksApart, Holds
  <2> QED
    BY <2>1, <1>3, <1>4, <1>5, <1>6 DEF Apart, Before, ChunkExtent
<1> QED
  BY <1>1, <1>6, <1>7

-----------------------------------------------------------------------------
LEMMA ChunkFields ==
  ASSUME NEW p \in BOOLEAN, NEW x \in Nat, NEW y \in Nat
  PROVE  LET c == [present |-> p, begin |-> x, end |-> y]
         IN  c \in Chunk /\ c.present = p /\ c.begin = x /\ c.end = y
  BY DEF Chunk

\* What _kmalloc leaves of a chunk.
LEMMA CarveChunk ==
  ASSUME NEW c \in Chunk, NEW size \in Nat
  PROVE  LET r == Carve(c, size)
         IN  /\ r \in Chunk
             /\ r.begin = c.begin + size /\ r.end = c.end
             /\ r.present <=> r.end # r.begin
<1> DEFINE p == c.end # c.begin + size
           x == c.begin + size
<1>1. p \in BOOLEAN
  OBVIOUS
<1>2. x \in Nat /\ c.end \in Nat
  BY DEF Chunk
<1>3. Carve(c, size) = [present |-> p, begin |-> x, end |-> c.end]
  BY DEF Carve
<1>4. p <=> c.end # x
  OBVIOUS
<1>5. x = c.begin + size
  OBVIOUS
<1> HIDE DEF p, x
<1> QED
  BY <1>1, <1>2, <1>3, <1>4, <1>5, ChunkFields

\* _kmalloc: the block takes the front of the chunk's extent, the rest of the
\* chunk keeps the back.
LEMMA KmallocIInv ==
  ASSUME IInv, NEW len \in Lens, Kmalloc(len)
  PROVE  IInv'
<1> USE HeapAssumption
<1>1. PICK i \in Scanned :
        /\ BestFit(i, len)
        /\ live' = live \cup {[begin |-> chunks[i].begin, len |-> len]}
        /\ chunks' = [chunks EXCEPT ![i] = Carve(chunks[i], len + Header)]
  BY DEF Kmalloc
<1> DEFINE b == [begin |-> chunks[i].begin, len |-> len]
           size == len + Header
           rest == Carve(chunks[i], size)
<1>2. /\ fixing = NoSlot /\ fixing' = NoSlot /\ n_chunks' = n_chunks
      /\ served' = served + len + Header
      /\ UNCHANGED <<freed, frees, halted>>
  BY DEF Kmalloc
<1>3. i \in Slots /\ chunks[i] \in Chunk /\ len \in Nat /\ size \in Nat
  BY DEF IInv, TypeOK, Scanned, Slots
<1>4. /\ chunks[i].present
      /\ chunks[i].end - chunks[i].begin >= size
  BY <1>1 DEF BestFit, Fits, Size
<1>5. /\ chunks[i].begin \in Nat /\ chunks[i].end \in Nat
      /\ HeapBegin <= chunks[i].begin /\ chunks[i].end <= HeapEnd
  BY <1>3, <1>4 DEF Chunk, IInv, Separated, InHeap, Holds
<1>6. /\ rest \in Chunk
      /\ rest.begin = chunks[i].begin + size /\ rest.end = chunks[i].end
      /\ rest.present <=> rest.end # rest.begin
  BY <1>3, CarveChunk
<1>7. /\ \A j \in Slots : j # i => chunks'[j] = chunks[j]
      /\ chunks'[i] = rest
      /\ chunks' \in [Slots -> Chunk]
  BY <1>1, <1>3, <1>6 DEF IInv, TypeOK
<1>8. b \in Block /\ b.begin = chunks[i].begin /\ b.len = len
  BY <1>5 DEF Block
<1> HIDE DEF b, rest, size
<1>9. live' = live \cup {b}
  BY <1>1 DEF b
<1>10. \A j \in Slots : Holds(j)' => Holds(j)
  BY <1>2, <1>4, <1>7 DEF Holds
<1>11. \A j \in Slots : chunks[j].begin \in Nat /\ chunks[j].end \in Nat
  BY DEF IInv, TypeOK, Chunk
<1>12. \A c \in live : c.begin \in Nat /\ c.len \in Nat
  BY DEF IInv, TypeOK, Block
<1>13. TypeOK'
  BY <1>2, <1>7, <1>8, <1>9, <1>3 DEF IInv, TypeOK
<1>14. ChunksApart'
  <2> SUFFICES ASSUME NEW j \in Slots, NEW k \in Slots, Holds(j)', Holds(k)', j # k
               PROVE  Apart(ChunkExtent(chunks[j]), ChunkExtent(chunks[k]))'
    BY DEF ChunksApart
  <2>1. Apart(ChunkExtent(chunks[j]), ChunkExtent(chunks[k]))
    BY <1>10 DEF IInv, Separated, ChunksApart
  <2> QED
    BY <2>1, <1>3, <1>4, <1>5, <1>6, <1>7, <1>11 DEF Apart, Before, ChunkExtent
<1>15. ChunksApartFromBlocks'
  <2> SUFFICES ASSUME NEW j \in Slots, NEW c \in live', Holds(j)'
               PROVE  Apart(ChunkExtent(chunks[j]), BlockExtent(c))'
    BY DEF ChunksApartFromBlocks
  <2>1. CASE c = b /\ j = i
    BY <2>1, <1>3, <1>6, <1>7, <1>8, <1>5 DEF Apart, Before, ChunkExtent, BlockExtent, size
  <2>2. CASE c = b /\ j # i
    <3>1. Apart(ChunkExtent(chunks[j]), ChunkExtent(chunks[i]))
      BY <2>2, <1>3, <1>4, <1>10 DEF IInv, Separated, ChunksApart, Holds
    <3> QED
      BY <3>1, <2>2, <1>3, <1>4, <1>5, <1>7, <1>8, <1>11
      DEF Apart, Before, ChunkExtent, BlockExtent, size
  <2>3. CASE c \in live
    <3>1. Apart(ChunkExtent(chunks[j]), BlockExtent(c))
      BY <2>3, <1>10 DEF IInv, Separated, ChunksApartFromBlocks
    <3> QED
      BY <3>1, <2>3, <1>3, <1>4, <1>5, <1>6, <1>7, <1>11, <1>12
      DEF Apart, Before, ChunkExtent, BlockExtent
  <2> QED
    BY <2>1, <2>2, <2>3, <1>9
<1>16. BlocksApart'
  <2> SUFFICES ASSUME NEW c \in live, c # b
               PROVE  Apart(BlockExtent(c), BlockExtent(b)) /\ Apart(BlockExtent(b), BlockExtent(c))
    BY <1>9 DEF BlocksApart, IInv, Separated, Apart, BlockExtent
  <2>1. Apart(ChunkExtent(chunks[i]), BlockExtent(c))
    BY <1>3, <1>4 DEF IInv, Separated, ChunksApartFromBlocks, Holds
  <2> QED
    BY <2>1, <1>3, <1>4, <1>5, <1>8, <1>12 DEF Apart, Before, ChunkExtent, BlockExtent, size
<1>17. InHeap'
  <2>1. ASSUME NEW j \in Slots, Holds(j)'
        PROVE  /\ HeapBegin <= chunks'[j].begin
               /\ chunks'[j].begin <= chunks'[j].end
               /\ chunks'[j].end <= HeapEnd
    <3>1. CASE j = i
      BY <3>1, <1>3, <1>4, <1>5, <1>6, <1>7
    <3>2. CASE j # i
      BY <3>2, <2>1, <1>7, <1>10 DEF IInv, Separated, InHeap
    <3> QED
      BY <3>1, <3>2
  <2>2. ASSUME NEW c \in live'
        PROVE  HeapBegin <= c.begin /\ c.begin + c.len + Header <= HeapEnd
    <3>1. CASE c = b
      BY <3>1, <1>3, <1>4, <1>5, <1>8 DEF size, HeapEnd
    <3>2. CASE c \in live
      BY <3>2 DEF IInv, Separated, InHeap
    <3> QED
      BY <3>1, <3>2, <1>9
  <2> QED
    BY <2>1, <2>2 DEF InHeap, HeapEnd
<1>18. FixingEmpty'
  BY <1>2 DEF FixingEmpty
<1>19. FirstChunk'
  <2>1. served \in Nat /\ 0 \in Slots
    BY DEF IInv, TypeOK, Slots
  <2>2. CASE served >= HeapLen
    BY <2>1, <2>2, <1>2, <1>3 DEF FirstChunk
  <2>3. CASE chunks[0].present /\ Size(0) >= HeapLen - served /\ i = 0
    <3>1. chunks'[0].begin = chunks[0].begin + size /\ chunks'[0].end = chunks[0].end
      BY <2>3, <1>6, <1>7
    <3>2. chunks'[0].present \/ chunks[0].end = chunks[0].begin + size
      <4>1. chunks'[0] = rest
        BY <2>3, <1>7
      <4>2. rest.present \/ rest.end = rest.begin
        BY <1>6
      <4>3. chunks'[0].present \/ rest.end = rest.begin
        BY <4>1, <4>2, Zenon
      <4>4. rest.end = rest.begin => chunks[0].end = chunks[0].begin + size
        BY <1>6, <2>3
      <4> QED
        BY <4>3, <4>4, Zenon
    <3>3. served' = served + size /\ size \in Nat
      BY <2>1, <1>2, <1>3 DEF size
    <3>4. Size(0)' = Size(0) - size
      BY <3>1, <1>3, <1>5, <2>3 DEF Size
    <3> QED
      BY <3>2, <3>3, <3>4, <2>1, <2>3, <1>5 DEF FirstChunk, Size
  <2>4. CASE chunks[0].present /\ Size(0) >= HeapLen - served /\ i # 0
    BY <2>1, <2>4, <1>2, <1>3, <1>7, <1>11 DEF FirstChunk, Size
  <2> QED
    BY <2>2, <2>3, <2>4 DEF IInv, FirstChunk
<1> QED
  BY <1>13, <1>14, <1>15, <1>16, <1>17, <1>18, <1>19 DEF IInv, Separated

-----------------------------------------------------------------------------
\* _kfree: the chunk it makes lies in the extent of the block, and the slot it
\* takes holds nothing or (beyond the scanned ones) is lost.
LEMMA KfreeIInv ==
  ASSUME IInv, NEW b \in live, Kfree(b)
  PROVE  IInv'
<1> USE HeapAssumption
<1>1. PICK slot \in Slots, n \in 1 .. MaxChunks :
        /\ FreeSlot(slot, n)
        /\ n_chunks' = n
        /\ chunks' = [chunks EXCEPT ![slot] = FreedChunk(b)]
        /\ fixing' = slot
  BY DEF Kfree
<1>2. /\ fixing = NoSlot /\ live' = live \ {b}
      /\ freed' = [freed EXCEPT ![b.len] = @ + 1]
      /\ frees' = frees + 1
      /\ UNCHANGED <<served, halted>>
  BY DEF Kfree
<1> DEFINE c == FreedChunk(b)
<1>3. /\ b \in Block /\ b.begin \in Nat /\ b.len \in Nat /\ b.len \in Lens
      /\ HeapBegin <= b.begin /\ b.begin + b.len + Header <= HeapEnd
  BY DEF IInv, TypeOK, Block, Separated, InHeap
<1>4. /\ c \in Chunk /\ c.present
      /\ c.begin = b.begin /\ c.end = b.begin + b.len
  BY <1>3 DEF FreedChunk, Chunk
<1> HIDE DEF c
<1>5. /\ \A j \in Slots : j # slot => chunks'[j] = chunks[j]
      /\ chunks'[slot] = c
      /\ chunks' \in [Slots -> Chunk]
  BY <1>1, <1>4 DEF IInv, TypeOK, c
<1>6. \A j \in Slots : j # slot /\ Holds(j)' => Holds(j)
  BY <1>1, <1>5 DEF Holds
<1>7. \A j \in Slots : chunks[j].begin \in Nat /\ chunks[j].end \in Nat
  BY DEF IInv, TypeOK, Chunk
<1>8. \A a \in live : a.begin \in Nat /\ a.len \in Nat
  BY DEF IInv, TypeOK, Block
<1>9. TypeOK'
  <2>1. freed' \in [Lens -> Nat]
    BY <1>2, <1>3 DEF IInv, TypeOK
  <2> QED
    BY <2>1, <1>1, <1>2, <1>5 DEF IInv, TypeOK
<1>10. ASSUME NEW j \in Slots, j # slot, Holds(j)'
       PROVE  Apart(ChunkExtent(chunks[j]), BlockExtent(b))
  BY <1>6, <1>10 DEF IInv, Separated, ChunksApartFromBlocks
<1>11. ChunksApart'
  <2> SUFFICES ASSUME NEW j \in Slots, NEW k \in Slots, Holds(j)', Holds(k)', j # k
               PROVE  Apart(ChunkExtent(chunks[j]), ChunkExtent(chunks[k]))'
    BY DEF ChunksApart
  <2>1. CASE j # slot /\ k # slot
    BY <2>1, <1>5, <1>6 DEF IInv, Separated, ChunksApart, Apart, Before, ChunkExtent
  <2>2. CASE j = slot
    BY <2>2, <1>4, <1>5, <1>7, <1>3, <1>10
    DEF Apart, Before, ChunkExtent, BlockExtent
  <2>3. CASE k = slot
    BY <2>3, <1>4, <1>5, <1>7, <1>3, <1>10
    DEF Apart, Before, ChunkExtent, BlockExtent
  <2> QED
    BY <2>1, <2>2, <2>3
<1>12. ChunksApartFromBlocks'
  <2> SUFFICES ASSUME NEW j \in Slots, NEW a \in live', Holds(j)'
               PROVE  Apart(ChunkExtent(chunks[j]), BlockExtent(a))'
    BY DEF ChunksApartFromBlocks
  <2>1. a \in live /\ a # b
    BY <1>2
  <2>2. CASE j # slot
    BY <2>1, <2>2, <1>5, <1>6
    DEF IInv, Separated, ChunksApartFromBlocks, Apart, Before, ChunkExtent, BlockExtent
  <2>3. CASE j = slot
    <3>1. Apart(BlockExtent(b), BlockExtent(a))
      BY <2>1 DEF IInv, Separated, BlocksApart
    <3> QED
      BY <3>1, <2>1, <2>3, <1>3, <1>4, <1>5, <1>8
      DEF Apart, Before, ChunkExtent, BlockExtent
  <2> QED
    BY <2>2, <2>3
<1>13. BlocksApart'
  BY <1>2 DEF IInv, Separated, BlocksApart, Apart, Before, BlockExtent
<1>14. InHeap'
  <2>1. ASSUME NEW j \in Slots, Holds(j)'
        PROVE  /\ HeapBegin <= chunks'[j].begin
               /\ chunks'[j].begin <= chunks'[j].end
               /\ chunks'[j].end <= HeapEnd
    <3>1. CASE j = slot
      BY <3>1, <1>3, <1>4, <1>5 DEF HeapEnd
    <3>2. CASE j # slot
      BY <3>2, <2>1, <1>5, <1>6 DEF IInv, Separated, InHeap
    <3> QED
      BY <3>1, <3>2
  <2>2. ASSUME NEW a \in live'
        PROVE  HeapBegin <= a.begin /\ a.begin + a.len + Header <= HeapEnd
    BY <2>2, <1>2 DEF IInv, Separated, InHeap
  <2> QED
    BY <2>1, <2>2 DEF InHeap, HeapEnd
<1>15. FixingEmpty'
  BY <1>1, <1>4, <1>5 DEF FixingEmpty
<1>16. FirstChunk'
  <2>1. served \in Nat /\ 0 \in Slots /\ n_chunks \in Nat /\ n_chunks > 0
    BY DEF IInv, TypeOK, Slots
  <2>2. CASE served >= HeapLen
    BY <2>2, <1>2 DEF FirstChunk
  <2>3. CASE chunks[0].present /\ Size(0) >= HeapLen - served
    <3>1. slot # 0
      BY <2>1, <2>3, <1>1 DEF FreeSlot, Holes
    <3> QED
      BY <3>1, <2>1, <2>3, <1>2, <1>5 DEF FirstChunk, Size
  <2> QED
    BY <2>2, <2>3 DEF IInv, FirstChunk
<1> QED
  BY <1>9, <1>11, <1>12, <1>13, <1>14, <1>15, <1>16 DEF IInv, Separated

\* An iteration of the merge loop only takes out an empty chunk that touches
\* itself.
LEMMA FixChunkIInv ==
  ASSUME IInv, FixChunk
  PROVE  IInv' /\ fixing' = fixing
<1> USE HeapAssumption
<1>1. PICK i \in Touching(fixing) :
        /\ chunks' = [chunks EXCEPT ![i] = Joined(i, fixing), ![fixing].present = FALSE]
        /\ fixing' = i
  BY DEF FixChunk
<1>2. /\ fixing # NoSlot
      /\ UNCHANGED <<n_chunks, live, freed, frees, served, halted>>
  BY DEF FixChunk
<1>3. i = fixing /\ chunks[i].begin = chunks[i].end /\ chunks[i].present
  BY <1>2, TouchesOnlyItself
<1>4. i \in Slots /\ chunks[i] \in Chunk
  BY DEF IInv, TypeOK, Touching, Scanned, Slots
<1>5. /\ chunks'[i] \in Chunk
      /\ chunks'[i].begin = chunks[i].begin /\ chunks'[i].end = chunks[i].end
      /\ \A j \in Slots : j # i => chunks'[j] = chunks[j]
      /\ chunks' \in [Slots -> Chunk]
  BY <1>1, <1>3, <1>4 DEF Joined, Chunk, IInv, TypeOK
<1>6. \A j \in Slots :
        /\ Holds(j)' => Holds(j)
        /\ chunks'[j].begin = chunks[j].begin /\ chunks'[j].end = chunks[j].end
  BY <1>1, <1>3, <1>5 DEF Holds
<1>7. TypeOK'
  BY <1>1, <1>2, <1>4, <1>5 DEF IInv, TypeOK
<1>8. Separated'
  <2>1. ChunksApart'
    BY <1>6 DEF IInv, Separated, ChunksApart, Apart, Before, ChunkExtent
  <2>2. ChunksApartFromBlocks'
    BY <1>2, <1>6 DEF IInv, Separated, ChunksApartFromBlocks, Apart, Before, ChunkExtent, BlockExtent
  <2>3. BlocksApart'
    BY <1>2 DEF IInv, Separated, BlocksApart, Apart, Before, BlockExtent
  <2>4. InHeap'
    BY <1>2, <1>6 DEF IInv, Separated, InHeap, HeapEnd
  <2> QED
    BY <2>1, <2>2, <2>3, <2>4 DEF Separated
<1>9. FixingEmpty'
  BY <1>1, <1>3, <1>5 DEF FixingEmpty
<1>10. FirstChunk'
  <2>1. chunks[i].begin \in Nat /\ served \in Nat
    BY <1>4 DEF Chunk, IInv, TypeOK
  <2>2. CASE i = 0
    BY <2>1, <2>2, <1>2, <1>3 DEF IInv, FirstChunk, Size
  <2>3. CASE i # 0
    BY <2>3, <1>2, <1>5 DEF IInv, FirstChunk, Size, Slots
  <2> QED
    BY <2>2, <2>3
<1> QED
  BY <1>1, <1>3, <1>7, <1>8, <1>9, <1>10 DEF IInv

\* A step that leaves the chunks, the blocks and the bytes served alone, and
\* does not enter the merge loop.
LEMMA OtherStepsIInv ==
  ASSUME IInv,
         UNCHANGED <<chunks, n_chunks, live, freed, frees, served>>,
         fixing' = fixing \/ fixing' = NoSlot,
         halted' \in BOOLEAN
  PROVE  IInv'
<1>1. TypeOK'
  BY DEF IInv, TypeOK
<1>2. \A j \in Slots : Holds(j)' => Holds(j)
  BY DEF Holds, Slots, NoSlot
<1>3. ChunksApart' /\ ChunksApartFromBlocks' /\ BlocksApart' /\ InHeap'
  BY <1>2 DEF IInv, Separated, ChunksApart, ChunksApartFromBlocks, BlocksApart, InHeap,
              Apart, Before, ChunkExtent, BlockExtent, HeapEnd
<1>4. FixingEmpty' /\ FirstChunk'
  BY DEF IInv, FixingEmpty, FirstChunk, Size
<1> QED
  BY <1>1, <1>3, <1>4 DEF IInv, Separated

LEMMA NextIInv == IInv /\ [Next]_vars => IInv'
<1> SUFFICES ASSUME IInv, [Next]_vars PROVE IInv'
  OBVIOUS
<1>1. ASSUME NEW len \in Lens, Kmalloc(len) PROVE IInv'
  BY <1>1, KmallocIInv
<1>2. ASSUME NEW len \in Lens, KmallocFails(len) PROVE IInv'
  BY <1>2, OtherStepsIInv DEF KmallocFails
<1>3. ASSUME NEW b \in live, Kfree(b) PROVE IInv'
  BY <1>3, KfreeIInv
<1>4. CASE FixChunk
  BY <1>4, FixChunkIInv
<1>5. CASE FixDone
  BY <1>5, OtherStepsIInv DEF FixDone, IInv, TypeOK
<1>6. CASE UNCHANGED vars
  BY <1>6, OtherStepsIInv DEF vars, IInv, TypeOK
<1> QED
  BY <1>1, <1>2, <1>3, <1>4, <1>5, <1>6 DEF Next, Halted

\* The heap's inductive invariant holds of every heap, chunk table and set of
\* request lengths (ksrc/kmalloc.c:21-142).
THEOREM InductiveInvariant == Spec => []IInv
<1>1. Init => IInv
  BY InitIInv
<1>2. IInv /\ [Next]_vars => IInv'
  BY NextIInv
<1> QED
  BY <1>1, <1>2, PTL DEF Spec

\* The chunk table, the blocks and the loop variable of _kfree keep their types.
THEOREM TypeCorrect == Spec => []TypeOK
<1>1. IInv => TypeOK
  BY DEF IInv
<1> QED
  BY <1>1, InductiveInvariant, PTL

\* No byte of the heap is ever in two blocks, in two free chunks or in a block
\* and a free chunk (ksrc/kmalloc.c:34-112).
THEOREM Separation == Spec => []Separated
<1>1. IInv => Separated
  BY DEF IInv
<1> QED
  BY <1>1, InductiveInvariant, PTL

\* The merge loop of _kfree never joins two different chunks: as a freed chunk
\* lacks the header of its block, it never ends where another one begins.  The
\* heap therefore only ever gets more fragmented (ksrc/kmalloc.c:86, 105-106).
NeverMerges ==
  [][FixChunk => fixing' = fixing]_vars

\* _kfree never joins a chunk to a different one (ksrc/kmalloc.c:106-142).
THEOREM NoMerge == Spec => NeverMerges
<1>1. IInv /\ [Next]_vars => [FixChunk => fixing' = fixing]_vars
  BY FixChunkIInv
<1> QED
  BY <1>1, InductiveInvariant, PTL DEF Spec, NeverMerges

\* Nothing touches the freed chunk once an iteration has taken it out, so the loop
\* takes one chunk out at most (ksrc/kmalloc.c:114-142).
MergesOnce ==
  [][FixChunk => Touching(fixing)' = {}]_vars

\* After one iteration the merge loop of _kfree has nothing left to do: this is why
\* it ends, in every heap (ksrc/kmalloc.c:106-142).
THEOREM OneIteration == Spec => MergesOnce
<1>1. IInv /\ [Next]_vars => [FixChunk => Touching(fixing)' = {}]_vars
  <2> SUFFICES ASSUME IInv, FixChunk PROVE Touching(fixing)' = {}
    OBVIOUS
  <2>1. PICK i \in Touching(fixing) :
          /\ chunks' = [chunks EXCEPT ![i] = Joined(i, fixing), ![fixing].present = FALSE]
          /\ fixing' = i /\ n_chunks' = n_chunks
    BY DEF FixChunk
  <2>2. i = fixing /\ chunks[i].begin = chunks[i].end
    BY TouchesOnlyItself DEF FixChunk
  <2>3. i \in Slots /\ chunks \in [Slots -> Chunk] /\ Scanned \subseteq Slots
    BY HeapAssumption DEF IInv, TypeOK, Touching, Scanned, Slots
  <2>4. /\ \A j \in Slots : j # i => chunks'[j] = chunks[j]
        /\ chunks'[i] = [Joined(i, i) EXCEPT !.present = FALSE]
    BY <2>1, <2>2, <2>3
  <2>5. /\ chunks'[i].begin = chunks[i].begin /\ chunks'[i].end = chunks[i].end
        /\ ~ chunks'[i].present
    BY <2>2, <2>3, <2>4 DEF Joined, Chunk
  <2>6. ASSUME NEW j \in Touching(fixing)' PROVE FALSE
    <3>1. j \in Scanned /\ j \in Slots /\ chunks'[j].present
      BY <2>1, <2>3 DEF Touching, Scanned
    <3>2. j # i /\ chunks'[j] = chunks[j]
      BY <3>1, <2>4, <2>5
    <3>3. j \in Touching(fixing)
      BY <2>1, <2>2, <2>5, <3>1, <3>2 DEF Touching
    <3> QED
      BY <2>2, <3>2, <3>3, TouchesOnlyItself DEF FixChunk
  <2> QED
    BY <2>6
<1> QED
  BY <1>1, InductiveInvariant, PTL DEF Spec, MergesOnce

-----------------------------------------------------------------------------
\* The chunk table implements Heap.

LEMMA KmallocAllocs ==
  ASSUME IInv, NEW len \in Lens, Kmalloc(len)
  PROVE  HeapPromise!Alloc(len)
<1> USE HeapAssumption
<1>1. PICK i \in Scanned :
        /\ BestFit(i, len)
        /\ live' = live \cup {[begin |-> chunks[i].begin, len |-> len]}
  BY DEF Kmalloc
<1>2. i \in Slots /\ len \in Nat
  BY DEF IInv, TypeOK, Scanned, Slots
<1>3. /\ chunks[i].present /\ chunks[i].begin \in Nat /\ chunks[i].end \in Nat
      /\ chunks[i].end - chunks[i].begin >= len + Header
  BY <1>1, <1>2 DEF BestFit, Fits, Size, IInv, TypeOK, Chunk
<1>4. HeapBegin <= chunks[i].begin /\ chunks[i].end <= HeapEnd
  BY <1>2, <1>3 DEF IInv, Separated, InHeap, Holds
<1>5. chunks[i].begin \in HeapBegin .. (HeapBegin + HeapLen - len - Header)
  BY <1>2, <1>3, <1>4 DEF HeapEnd
<1>6. ASSUME NEW c \in live
      PROVE  HeapPromise!Disjoint([begin |-> chunks[i].begin, len |-> len], c)
  <2>1. Apart(ChunkExtent(chunks[i]), BlockExtent(c))
    BY <1>2, <1>3 DEF IInv, Separated, ChunksApartFromBlocks, Holds
  <2>2. c.begin \in Nat /\ c.len \in Nat
    BY DEF IInv, TypeOK, Block
  <2> QED
    BY <2>1, <2>2, <1>2, <1>3
    DEF Apart, Before, ChunkExtent, BlockExtent, HeapPromise!Disjoint
<1> QED
  BY <1>1, <1>5, <1>6 DEF HeapPromise!Alloc, Kmalloc

\* _kmalloc panics only when the heap has served its whole length: until then
\* what is left of the first chunk is there, and large enough.
LEMMA KmallocFailsLate ==
  ASSUME IInv, NEW len \in Lens, KmallocFails(len)
  PROVE  HeapPromise!OutOfMemory(len)
<1> USE HeapAssumption
<1>1. len \in Nat /\ served \in Nat /\ 0 \in Slots /\ 0 \in Scanned
  BY DEF IInv, TypeOK, Scanned, Slots
<1>2. chunks[0].begin \in Nat /\ chunks[0].end \in Nat
  BY <1>1 DEF IInv, TypeOK, Chunk
<1>3. served + len + Header > HeapLen
  <2>1. CASE served >= HeapLen
    BY <2>1, <1>1
  <2>2. CASE chunks[0].present /\ Size(0) >= HeapLen - served
    <3>1. ~ (Size(0) >= len + Header)
      BY <2>2, <1>1 DEF KmallocFails, Fits
    <3> QED
      BY <3>1, <2>2, <1>1, <1>2 DEF Size
  <2> QED
    BY <2>1, <2>2 DEF IInv, FirstChunk
<1> QED
  BY <1>3 DEF HeapPromise!OutOfMemory, KmallocFails

\* Whatever the code does to its table is, seen from outside, a step of Heap or
\* no step at all.
THEOREM Implementation == Spec => ImplementsHeap
<1>1. Init => HeapPromise!Init
  BY DEF Init, HeapPromise!Init
<1>2. IInv /\ [Next]_vars => [HeapPromise!Next]_(HeapPromise!vars)
  <2> SUFFICES ASSUME IInv, [Next]_vars
               PROVE  [HeapPromise!Next]_(HeapPromise!vars)
    OBVIOUS
  <2>1. ASSUME NEW len \in Lens, Kmalloc(len) PROVE HeapPromise!Next
    BY <2>1, KmallocAllocs DEF HeapPromise!Next
  <2>2. ASSUME NEW len \in Lens, KmallocFails(len) PROVE HeapPromise!Next
    BY <2>2, KmallocFailsLate DEF HeapPromise!Next
  <2>3. ASSUME NEW b \in live, Kfree(b) PROVE HeapPromise!Next
    BY <2>3 DEF HeapPromise!Next, HeapPromise!Free, Kfree
  <2>4. CASE FixChunk
    BY <2>4 DEF FixChunk, HeapPromise!vars
  <2>5. CASE FixDone
    BY <2>5 DEF FixDone, HeapPromise!vars
  <2>6. CASE UNCHANGED vars
    BY <2>6 DEF vars, HeapPromise!vars
  <2> QED
    BY <2>1, <2>2, <2>3, <2>4, <2>5, <2>6 DEF Next, Halted
<1> QED
  BY <1>1, <1>2, InductiveInvariant, PTL DEF Spec, ImplementsHeap, HeapPromise!Spec

-----------------------------------------------------------------------------
\* Where the heap lies.

\* What has been served comes from the front of the heap: every chunk begins,
\* and every block ends, within as many bytes as were ever served.
FromFront ==
  /\ \A i \in Slots : chunks[i].present => chunks[i].begin =< HeapBegin + served
  /\ \A b \in live : BlockEnd(b) =< HeapBegin + served

LEMMA KmallocFromFront ==
  ASSUME IInv, FromFront, NEW len \in Lens, Kmalloc(len)
  PROVE  FromFront'
<1> USE HeapAssumption
<1>1. PICK i \in Scanned :
        /\ live' = live \cup {[begin |-> chunks[i].begin, len |-> len]}
        /\ chunks' = [chunks EXCEPT ![i] = Carve(chunks[i], len + Header)]
        /\ i \in Fits(len)
  BY DEF Kmalloc, BestFit
<1>2. i \in Slots /\ chunks[i].present /\ len \in Nat /\ served \in Nat /\ chunks \in [Slots -> Chunk]
  BY <1>1 DEF IInv, TypeOK, Scanned, Slots, Fits
<1>3. chunks[i] \in Chunk /\ chunks[i].begin \in Nat
  BY <1>2 DEF Chunk
<1>4. served' = served + (len + Header) /\ len + Header \in Nat
  BY <1>2 DEF Kmalloc
<1>5. chunks[i].begin =< HeapBegin + served
  BY <1>2 DEF FromFront
<1>6. Carve(chunks[i], len + Header).begin = chunks[i].begin + (len + Header)
  BY <1>3, <1>4, CarveChunk
<1>7. ASSUME NEW j \in Slots, chunks'[j].present
      PROVE  chunks'[j].begin =< HeapBegin + served'
  <2>1. CASE j = i
    BY <2>1, <1>1, <1>2, <1>3, <1>4, <1>5, <1>6
  <2>2. CASE j # i
    <3>1. chunks'[j] = chunks[j] /\ chunks[j] \in Chunk
      BY <2>2, <1>1, <1>2
    <3>2. chunks[j].begin \in Nat /\ chunks[j].begin =< HeapBegin + served
      BY <3>1, <1>7 DEF FromFront, Chunk
    <3> QED BY <3>1, <3>2, <1>2, <1>4
  <2> QED BY <2>1, <2>2
<1>8. ASSUME NEW b \in live'
      PROVE  BlockEnd(b) =< HeapBegin + served'
  <2>1. CASE b \in live
    <3>1. b.begin \in Nat /\ b.len \in Nat /\ BlockEnd(b) =< HeapBegin + served
      BY <2>1 DEF FromFront, IInv, TypeOK, Block
    <3> QED BY <3>1, <1>2, <1>4 DEF BlockEnd
  <2>2. CASE b = [begin |-> chunks[i].begin, len |-> len]
    <3>1. b.begin = chunks[i].begin /\ b.len = len
      BY <2>2
    <3> QED BY <3>1, <1>2, <1>3, <1>4, <1>5 DEF BlockEnd
  <2> QED BY <2>1, <2>2, <1>1
<1> QED BY <1>7, <1>8 DEF FromFront

LEMMA KfreeFromFront ==
  ASSUME IInv, FromFront, NEW b \in live, Kfree(b)
  PROVE  FromFront'
<1> USE HeapAssumption
<1>1. /\ live' = live \ {b} /\ served' = served
      /\ \E slot \in Slots : chunks' = [chunks EXCEPT ![slot] = FreedChunk(b)]
  BY DEF Kfree
<1>2. b.begin \in Nat /\ b.len \in Nat /\ served \in Nat /\ chunks \in [Slots -> Chunk]
  BY DEF IInv, TypeOK, Block
<1>3. FreedChunk(b).begin = b.begin
  BY DEF FreedChunk
<1>4. b.begin =< HeapBegin + served
  BY <1>2 DEF FromFront, BlockEnd
<1> QED
  BY <1>1, <1>2, <1>3, <1>4 DEF FromFront, BlockEnd

LEMMA FixChunkFromFront ==
  ASSUME IInv, FromFront, FixChunk
  PROVE  FromFront'
<1>1. PICK i \in Touching(fixing) :
        chunks' = [chunks EXCEPT ![i] = Joined(i, fixing), ![fixing].present = FALSE]
  BY DEF FixChunk
<1>2. fixing # NoSlot /\ UNCHANGED <<live, served>>
  BY DEF FixChunk
<1>3. i = fixing /\ i \in Slots /\ chunks \in [Slots -> Chunk]
  BY <1>2, TouchesOnlyItself DEF IInv, TypeOK, NoSlot
<1>4. \A j \in Slots \ {i} : chunks'[j] = chunks[j]
  BY <1>1, <1>3
<1>5. ~ chunks'[i].present
  <2> DEFINE f == [chunks EXCEPT ![i] = Joined(i, fixing)]
             g == [f[i] EXCEPT !.present = FALSE]
  <2>1. chunks' = [f EXCEPT ![i] = g]
    BY <1>1, <1>3
  <2>2. f \in [Slots -> Chunk]
    <3>1. Joined(i, fixing) \in Chunk
      BY <1>3 DEF Joined, Chunk
    <3> QED BY <3>1, <1>3
  <2>3. g.present = FALSE
    BY <2>2, <1>3 DEF Chunk
  <2>4. chunks'[i] = g
    <3> HIDE DEF g
    <3> QED BY <2>1, <2>2, <1>3
  <2> QED BY <2>3, <2>4
<1> QED
  BY <1>2, <1>4, <1>5 DEF FromFront, BlockEnd

\* For every heap and wherever the page tables are: no block reaches them
\* before the heap has served as many bytes as lie below them.
THEOREM TablesSafe == Spec => []TablesUntouched
<1>1. Init => FromFront
  BY HeapAssumption DEF Init, FromFront, Slots
<1>2. IInv /\ FromFront /\ [Next]_vars => FromFront'
  <2> SUFFICES ASSUME IInv, FromFront, [Next]_vars PROVE FromFront'
    OBVIOUS
  <2>1. ASSUME NEW len \in Lens, Kmalloc(len) PROVE FromFront'
    BY <2>1, KmallocFromFront
  <2>2. ASSUME NEW len \in Lens, KmallocFails(len) PROVE FromFront'
    BY <2>2 DEF KmallocFails, FromFront, BlockEnd
  <2>3. ASSUME NEW b \in live, Kfree(b) PROVE FromFront'
    BY <2>3, KfreeFromFront
  <2>4. CASE FixChunk
    BY <2>4, FixChunkFromFront
  <2>5. CASE FixDone
    BY <2>5 DEF FixDone, FromFront, BlockEnd
  <2>6. CASE UNCHANGED vars
    BY <2>6 DEF vars, FromFront, BlockEnd
  <2> QED
    BY <2>1, <2>2, <2>3, <2>4, <2>5, <2>6 DEF Next, Halted
<1>3. IInv /\ FromFront => TablesUntouched
  <2> SUFFICES ASSUME IInv, FromFront, served =< TablesBegin - HeapBegin, NEW b \in live
               PROVE  BlockEnd(b) =< TablesBegin
    BY DEF TablesUntouched
  <2>1. b.begin \in Nat /\ b.len \in Nat /\ served \in Nat
    BY HeapAssumption DEF IInv, TypeOK, Block
  <2>2. HeapBegin \in Nat /\ HeapEnd \in Nat /\ Header \in Nat /\ TablesBegin \in Int
    BY HeapAssumption, LayoutAssumption DEF HeapEnd
  <2>3. BlockEnd(b) =< HeapBegin + served
    BY DEF FromFront
  <2> QED BY <2>1, <2>2, <2>3 DEF BlockEnd
<1> QED
  BY <1>1, <1>2, <1>3, InductiveInvariant, PTL DEF Spec

-----------------------------------------------------------------------------
\* What a call of _kfree costs.

\* No freed block is ever large enough for the largest request: only what is left
\* of the first chunk is.
FreedAreSmall ==
  \A m \in Lens : (\A l \in Lens : l <= m) =>
    /\ \A i \in Slots \ {0} : chunks[i].present => Size(i) <= m
    /\ chunks[0].present /\ Size(0) > m =>
         Served(m) * (m + Header) + Size(0) <= HeapLen

\* Beyond the scanned slots at most one holds a chunk, the next one; it was filled
\* without n_chunks growing, so one call more has gone by.
OneUncounted ==
  /\ \A i \in Slots : chunks[i].present => i <= n_chunks
  /\ (\E i \in Slots : i = n_chunks /\ chunks[i].present) => 2 * n_chunks - 1 <= frees

\* The inductive invariant behind FreedIsLost (ksrc/kmalloc.c:31-142).
LostInv ==
  /\ IsFiniteSet(live)
  /\ FreedIsLost
  /\ FreedAreSmall
  /\ OneUncounted

LEMMA BytesFinite ==
  IsFiniteSet(BytesInUse) /\ Cardinality(BytesInUse) \in Nat
<1>1. HeapBegin \in Int /\ HeapEnd - 1 \in Int
  BY HeapAssumption DEF HeapEnd
<1>2. IsFiniteSet(HeapBegin .. HeapEnd - 1)
  BY <1>1, FS_Interval
<1>3. BytesInUse \subseteq HeapBegin .. HeapEnd - 1
  BY DEF BytesInUse
<1> HIDE DEF BytesInUse
<1>4. IsFiniteSet(BytesInUse)
  BY <1>2, <1>3, FS_Subset
<1> QED
  BY <1>4, FS_CardinalityType

\* A step after which no byte is in use that was not before.
LEMMA NoMoreBytes ==
  ASSUME HeadersNeverReturn, frees' = frees, IInv, BytesInUse' \subseteq BytesInUse
  PROVE  HeadersNeverReturn'
<1>1. Cardinality(BytesInUse') =< Cardinality(BytesInUse) /\ Cardinality(BytesInUse') \in Nat
  <2> HIDE DEF BytesInUse
  <2>1. IsFiniteSet(BytesInUse') /\ Cardinality(BytesInUse') =< Cardinality(BytesInUse)
    BY BytesFinite, FS_Subset
  <2> QED BY <2>1, FS_CardinalityType
<1>2. Header \in Nat /\ frees \in Nat /\ HeapLen \in Nat /\ Header * frees \in Nat
  BY HeapAssumption DEF IInv, TypeOK
<1>3. Header * frees' = Header * frees
  OBVIOUS
<1>4. Cardinality(BytesInUse) + Header * frees =< HeapLen
  BY DEF HeadersNeverReturn
<1>5. Cardinality(BytesInUse') + Header * frees' =< HeapLen
  <2> HIDE DEF BytesInUse
  <2> QED BY <1>1, <1>2, <1>3, <1>4, BytesFinite
<1> QED BY <1>5 DEF HeadersNeverReturn

LEMMA KmallocBytes ==
  ASSUME IInv, NEW len \in Lens, Kmalloc(len)
  PROVE  BytesInUse' \subseteq BytesInUse
<1> USE HeapAssumption
<1>1. PICK i \in Scanned :
        /\ BestFit(i, len)
        /\ live' = live \cup {[begin |-> chunks[i].begin, len |-> len]}
        /\ chunks' = [chunks EXCEPT ![i] = Carve(chunks[i], len + Header)]
  BY DEF Kmalloc
<1> DEFINE b == [begin |-> chunks[i].begin, len |-> len]
<1>2. /\ i \in Slots /\ chunks[i] \in Chunk /\ chunks[i].present /\ len \in Nat
      /\ chunks[i].end - chunks[i].begin >= len + Header
      /\ chunks[i].begin \in Nat /\ chunks[i].end \in Nat
      /\ chunks \in [Slots -> Chunk]
  BY <1>1 DEF IInv, TypeOK, Scanned, Slots, BestFit, Fits, Size, Chunk
<1>3. /\ Carve(chunks[i], len + Header).begin = chunks[i].begin + (len + Header)
      /\ Carve(chunks[i], len + Header).end = chunks[i].end
  BY <1>2, CarveChunk, SMTT(20)
<1>4. b.begin = chunks[i].begin /\ b.len = len
  OBVIOUS
<1>5. /\ chunks'[i] = Carve(chunks[i], len + Header)
      /\ \A j \in Slots \ {i} : chunks'[j] = chunks[j]
  BY <1>1, <1>2
<1> HIDE DEF b
<1>6. live' = live \cup {b}
  BY <1>1 DEF b
<1>7. SUFFICES ASSUME NEW x \in HeapBegin .. HeapEnd - 1,
                      \/ \E j \in Slots : chunks'[j].present /\ chunks'[j].begin =< x /\ x < chunks'[j].end
                      \/ \E c \in live' : c.begin =< x /\ x < c.begin + c.len + Header
               PROVE  \/ \E j \in Slots : chunks[j].present /\ chunks[j].begin =< x /\ x < chunks[j].end
                      \/ \E c \in live : c.begin =< x /\ x < c.begin + c.len + Header
  BY DEF BytesInUse, HeapEnd
<1>8. x \in Int
  BY DEF HeapEnd
<1>9. CASE \E j \in Slots : chunks'[j].present /\ chunks'[j].begin =< x /\ x < chunks'[j].end
  BY <1>9, <1>2, <1>3, <1>5, <1>8
<1>10. CASE \E c \in live' : c.begin =< x /\ x < c.begin + c.len + Header
  <2>1. PICK c \in live' : c.begin =< x /\ x < c.begin + c.len + Header
    BY <1>10
  <2>2. CASE c = b
    <3>1. chunks[i].begin =< x /\ x < chunks[i].end
      BY <2>1, <2>2, <1>2, <1>4, <1>8
    <3> QED BY <3>1, <1>2
  <2> QED BY <2>1, <2>2, <1>6
<1> QED BY <1>7, <1>9, <1>10

\* The bytes of a freed block's header are in use before and not after: the chunk
\* leaves them out, and no other region reaches them.
LEMMA KfreeBytes ==
  ASSUME IInv, NEW b \in live, Kfree(b)
  PROVE  LET Lost == b.begin + b.len .. b.begin + b.len + Header - 1
         IN  Lost \subseteq BytesInUse /\ BytesInUse' \subseteq BytesInUse \ Lost
<1> USE HeapAssumption
<1> DEFINE Lost == b.begin + b.len .. b.begin + b.len + Header - 1
<1>1. PICK slot \in Slots : chunks' = [chunks EXCEPT ![slot] = FreedChunk(b)]
  BY DEF Kfree
<1>2. live' = live \ {b} /\ fixing = NoSlot
  BY DEF Kfree
<1>3. /\ b.begin \in Nat /\ b.len \in Nat
      /\ HeapBegin =< b.begin /\ b.begin + b.len + Header =< HeapEnd
      /\ chunks \in [Slots -> Chunk]
      /\ HeapEnd \in Nat
  <2>1. HeapEnd \in Nat
    BY DEF HeapEnd
  <2> QED BY <2>1 DEF IInv, TypeOK, Block, Separated, InHeap
<1>4. /\ chunks'[slot].begin = b.begin /\ chunks'[slot].end = b.begin + b.len
      /\ \A j \in Slots \ {slot} : chunks'[j] = chunks[j]
  BY <1>1, <1>3 DEF FreedChunk
<1>5. \A j \in Slots : chunks[j].begin \in Nat /\ chunks[j].end \in Nat
  BY DEF IInv, TypeOK, Chunk
<1>6. \A c \in live : c.begin \in Nat /\ c.len \in Nat
  BY DEF IInv, TypeOK, Block
<1>7. Lost \subseteq BytesInUse
  BY <1>3 DEF BytesInUse
<1>8. ASSUME NEW x \in BytesInUse'
      PROVE  x \in BytesInUse \ Lost
  <2>1. /\ x \in HeapBegin .. HeapEnd - 1 /\ x \in Int
        /\ \/ \E j \in Slots : chunks'[j].present /\ chunks'[j].begin =< x /\ x < chunks'[j].end
           \/ \E c \in live' : c.begin =< x /\ x < c.begin + c.len + Header
    BY <1>8, <1>3 DEF BytesInUse, HeapEnd
  <2>2. CASE \E j \in Slots : chunks'[j].present /\ chunks'[j].begin =< x /\ x < chunks'[j].end
    <3>1. PICK j \in Slots : chunks'[j].present /\ chunks'[j].begin =< x /\ x < chunks'[j].end
      BY <2>2
    <3>2. CASE j = slot
      <4>1. b.begin =< x /\ x < b.begin + b.len
        BY <3>1, <3>2, <1>4
      <4> QED BY <4>1, <2>1, <1>3 DEF BytesInUse
    <3>3. CASE j # slot
      <4>1. chunks[j].present /\ chunks[j].begin =< x /\ x < chunks[j].end
        BY <3>1, <3>3, <1>4
      <4>2. Apart(ChunkExtent(chunks[j]), BlockExtent(b))
        BY <4>1 DEF IInv, Separated, ChunksApartFromBlocks, Holds
      <4>3. x \notin Lost
        BY <4>1, <4>2, <2>1, <1>3, <1>5 DEF Apart, Before, ChunkExtent, BlockExtent
      <4>4. x \in BytesInUse
        BY <4>1, <2>1 DEF BytesInUse
      <4> QED BY <4>3, <4>4
    <3> QED BY <3>2, <3>3
  <2>3. CASE \E c \in live' : c.begin =< x /\ x < c.begin + c.len + Header
    <3>1. PICK c \in live' : c.begin =< x /\ x < c.begin + c.len + Header
      BY <2>3
    <3>2. c \in live /\ c # b
      BY <1>2
    <3>3. Apart(BlockExtent(c), BlockExtent(b))
      BY <3>2 DEF IInv, Separated, BlocksApart
    <3>4. x \notin Lost
      BY <3>1, <3>2, <3>3, <2>1, <1>3, <1>6 DEF Apart, Before, BlockExtent
    <3>5. x \in BytesInUse
      BY <3>1, <3>2, <2>1 DEF BytesInUse
    <3> QED BY <3>4, <3>5
  <2> QED BY <2>1, <2>2, <2>3
<1> QED BY <1>7, <1>8

LEMMA KfreeHeaders ==
  ASSUME IInv, HeadersNeverReturn, NEW b \in live, Kfree(b)
  PROVE  HeadersNeverReturn'
<1> DEFINE lo == b.begin + b.len
           Lost == lo .. lo + Header - 1
           U == BytesInUse
           U2 == BytesInUse'
<1>1. lo \in Nat /\ Header \in Nat /\ Header > 0 /\ HeapLen \in Nat /\ frees \in Nat
  <2>1. b.begin \in Nat /\ b.len \in Nat /\ frees \in Nat
    BY HeapAssumption DEF IInv, TypeOK, Block
  <2> QED BY <2>1, HeapAssumption
<1>2. Lost \subseteq U /\ U2 \subseteq U \ Lost
  <2>1. lo + Header - 1 = b.begin + b.len + Header - 1
    OBVIOUS
  <2> QED BY KfreeBytes
<1>3. IsFiniteSet(U) /\ Cardinality(U) \in Nat
  BY BytesFinite
<1>4. frees' = frees + 1
  BY DEF Kfree
<1>5. Cardinality(U) + Header * frees =< HeapLen
  BY DEF HeadersNeverReturn
<1> HIDE DEF U, U2, lo
<1>6. Cardinality(Lost) = Header
  <2> DEFINE hi == lo + Header - 1
  <2>1. lo \in Int /\ hi \in Int /\ ~ (lo > hi) /\ hi - lo + 1 = Header /\ Lost = lo .. hi
    BY <1>1
  <2> HIDE DEF hi, Lost
  <2> QED BY <2>1, FS_Interval
<1> HIDE DEF Lost
<1>7. U \cap Lost = Lost
  BY <1>2
<1>8. IsFiniteSet(U \ Lost) /\ Cardinality(U \ Lost) = Cardinality(U) - Header
  BY <1>3, <1>6, <1>7, FS_Difference
<1>9. IsFiniteSet(U2) /\ Cardinality(U2) =< Cardinality(U \ Lost)
  BY <1>2, <1>8, FS_Subset
<1>10. Cardinality(U2) \in Nat
  BY <1>9, FS_CardinalityType
<1>11. Header * (frees + 1) = Header * frees + Header /\ Header * frees \in Nat
  BY <1>1
<1>12. Cardinality(U2) + Header * (frees + 1) =< HeapLen
  BY <1>1, <1>3, <1>5, <1>8, <1>9, <1>10, <1>11
<1> QED BY <1>4, <1>12 DEF HeadersNeverReturn, U2


\* Blocks of length m, counted.
LEMMA ServedIsNat ==
  ASSUME IInv, IsFiniteSet(live), NEW m \in Lens
  PROVE  Served(m) \in Nat
<1> DEFINE S == {b \in live : b.len = m}
<1>1. IsFiniteSet(S)
  BY FS_Subset
<1>2. Cardinality(S) \in Nat
  BY <1>1, FS_CardinalityType
<1>3. freed[m] \in Nat
  BY DEF IInv, TypeOK
<1> QED BY <1>2, <1>3 DEF Served

LEMMA KmallocServed ==
  ASSUME IInv, IsFiniteSet(live), NEW m \in Lens, NEW b,
         live' = live \cup {b}, freed' = freed
  PROVE  /\ IsFiniteSet(live')
         /\ b.len = m => Served(m)' =< Served(m) + 1
         /\ b.len # m => Served(m)' = Served(m)
<1> DEFINE S == {c \in live : c.len = m}
           T == {c \in live' : c.len = m}
<1>1. IsFiniteSet(S)
  BY FS_Subset
<1>2. IsFiniteSet(live')
  BY FS_AddElement
<1>3. Cardinality(S) \in Nat
  BY <1>1, FS_CardinalityType
<1>4. freed[m] \in Nat
  BY DEF IInv, TypeOK
<1>5. Served(m) = Cardinality(S) + freed[m] /\ Served(m)' = Cardinality(T) + freed[m]
  BY DEF Served
<1>6. (b.len = m => T = S \cup {b}) /\ (b.len # m => T = S)
  OBVIOUS
<1> HIDE DEF S, T
<1>7. ASSUME b.len = m PROVE Served(m)' =< Served(m) + 1
  <2>1. Cardinality(T) = IF b \in S THEN Cardinality(S) ELSE Cardinality(S) + 1
    BY <1>1, <1>6, <1>7, FS_AddElement
  <2> QED BY <2>1, <1>3, <1>4, <1>5
<1>8. ASSUME b.len # m PROVE Served(m)' = Served(m)
  BY <1>5, <1>6, <1>8
<1> QED BY <1>2, <1>7, <1>8

LEMMA KfreeServed ==
  ASSUME IInv, IsFiniteSet(live), NEW m \in Lens, NEW b \in live,
         live' = live \ {b}, freed' = [freed EXCEPT ![b.len] = @ + 1]
  PROVE  IsFiniteSet(live') /\ Served(m)' = Served(m)
<1> DEFINE S == {c \in live : c.len = m}
           T == {c \in live' : c.len = m}
<1>1. IsFiniteSet(S)
  BY FS_Subset
<1>2. IsFiniteSet(live')
  BY FS_RemoveElement
<1>3. Cardinality(S) \in Nat
  BY <1>1, FS_CardinalityType
<1>4. freed \in [Lens -> Nat] /\ b.len \in Lens
  BY DEF IInv, TypeOK, Block
<1>5. Served(m) = Cardinality(S) + freed[m] /\ Served(m)' = Cardinality(T) + freed'[m]
  BY DEF Served
<1>6. IF b.len = m THEN T = S \ {b} /\ b \in S ELSE T = S
  OBVIOUS
<1> HIDE DEF S, T
<1>7. CASE b.len = m
  <2>1. Cardinality(T) = Cardinality(S) - 1
    BY <1>1, <1>6, <1>7, FS_RemoveElement
  <2>2. freed'[m] = freed[m] + 1 /\ freed[m] \in Nat
    BY <1>4, <1>7
  <2> QED BY <2>1, <2>2, <1>2, <1>3, <1>5
<1>8. CASE b.len # m
  BY <1>2, <1>4, <1>5, <1>6, <1>8
<1> QED BY <1>7, <1>8

LEMMA SizesAreNat ==
  ASSUME IInv, NEW i \in Slots, chunks[i].present
  PROVE  Size(i) \in Nat
<1>1. chunks[i].begin \in Nat /\ chunks[i].end \in Nat
  BY DEF IInv, TypeOK, Chunk
<1>2. chunks[i].begin =< chunks[i].end
  BY DEF IInv, Separated, InHeap, Holds
<1> QED BY <1>1, <1>2 DEF Size

\* For one length m that no other exceeds.
SmallFor(m) ==
  /\ Served(m) * (m + Header) <= HeapLen
  /\ \A i \in Slots \ {0} : chunks[i].present => Size(i) <= m
  /\ chunks[0].present /\ Size(0) > m => Served(m) * (m + Header) + Size(0) <= HeapLen

LEMMA KmallocSmall ==
  ASSUME IInv, IsFiniteSet(live), NEW m \in Lens, \A l \in Lens : l <= m, SmallFor(m),
         NEW len \in Lens, Kmalloc(len)
  PROVE  SmallFor(m)' /\ IsFiniteSet(live')
<1> USE HeapAssumption
<1>1. PICK i \in Scanned :
        /\ BestFit(i, len)
        /\ live' = live \cup {[begin |-> chunks[i].begin, len |-> len]}
        /\ chunks' = [chunks EXCEPT ![i] = Carve(chunks[i], len + Header)]
  BY DEF Kmalloc
<1> DEFINE b == [begin |-> chunks[i].begin, len |-> len]
           L == m + Header
           K == Served(m)
           K2 == Served(m)'
<1>2. b.len = len
  OBVIOUS
<1>3. freed' = freed
  BY DEF Kmalloc
<1> HIDE DEF b
<1>4. live' = live \cup {b}
  BY <1>1 DEF b
<1>5. IsFiniteSet(live') /\ (len = m => K2 =< K + 1) /\ (len # m => K2 = K)
  BY <1>2, <1>3, <1>4, KmallocServed
<1>6. K \in Nat /\ K2 \in Nat
  <2>1. IInv'
    BY KmallocIInv
  <2>2. IsFiniteSet(live) => Served(m) \in Nat
    BY ServedIsNat
  <2>3. IsFiniteSet(live') => Served(m)' \in Nat
    <3>1. Cardinality({c \in live' : c.len = m}) \in Nat
      BY <1>5, FS_Subset, FS_CardinalityType
    <3>2. freed'[m] \in Nat
      BY <2>1 DEF IInv, TypeOK
    <3> QED BY <3>1, <3>2 DEF Served
  <2> QED BY <2>2, <2>3, <1>5
<1>7. /\ i \in Slots /\ chunks[i].present /\ len \in Nat /\ m \in Nat /\ 0 \in Slots /\ L \in Nat
      /\ Size(i) >= len + Header
      /\ chunks \in [Slots -> Chunk] /\ chunks[i] \in Chunk
  BY <1>1 DEF IInv, TypeOK, Scanned, Slots, BestFit, Fits, Size
<1>8. Size(i) \in Nat
  BY <1>7, SizesAreNat
<1>9. Size(i)' = Size(i) - (len + Header)
  <2>1. /\ Carve(chunks[i], len + Header).begin = chunks[i].begin + (len + Header)
        /\ Carve(chunks[i], len + Header).end = chunks[i].end
    <3>1. len + Header \in Nat
      BY <1>7
    <3> QED BY <3>1, <1>7, CarveChunk
  <2>2. chunks'[i] = Carve(chunks[i], len + Header)
    BY <1>1, <1>7
  <2>3. chunks[i].begin \in Nat /\ chunks[i].end \in Nat
    BY <1>7 DEF Chunk
  <2> QED BY <2>1, <2>2, <2>3, <1>7 DEF Size
<1>10. \A j \in Slots \ {i} : chunks'[j] = chunks[j] /\ Size(j)' = Size(j)
  BY <1>1, <1>7 DEF Size
<1>11. len =< m /\ HeapLen \in Nat
  OBVIOUS
<1>12. K * L \in Nat /\ K2 * L \in Nat /\ (K + 1) * L = K * L + L /\ (K2 =< K + 1 => K2 * L =< (K + 1) * L)
  BY <1>6, <1>7
<1>13. K * L =< HeapLen /\ (chunks[0].present /\ Size(0) > m => K * L + Size(0) =< HeapLen)
  BY DEF SmallFor
<1>14. len = m => i = 0
  <2>1. i # 0 => Size(i) =< m
    BY <1>7 DEF SmallFor
  <2> QED BY <2>1, <1>7, <1>8
<1>15. len = m => K2 * L =< K * L + L
  BY <1>5, <1>12, <1>6
<1>16. len # m => K2 * L = K * L
  BY <1>5
<1>17. \A j \in Slots \ {0} : chunks'[j].present => Size(j)' =< m
  <2>1. ASSUME NEW j \in Slots \ {0}, chunks'[j].present PROVE Size(j)' =< m
    <3>1. CASE j = i
      <4>1. Size(i) =< m
        BY <3>1, <1>7 DEF SmallFor
      <4> QED BY <4>1, <3>1, <1>7, <1>8, <1>9
    <3>2. CASE j # i
      BY <3>2, <2>1, <1>10 DEF SmallFor
    <3> QED BY <3>1, <3>2
  <2> QED BY <2>1
<1> HIDE DEF K, K2, L
<1>18. L = m + Header /\ Header \in Nat
  BY DEF L
<1>19. K2 * L =< HeapLen
  <2>1. CASE len = m
    <3>1. K * L + Size(0) =< HeapLen /\ Size(0) >= L /\ Size(0) \in Nat
      BY <2>1, <1>7, <1>8, <1>13, <1>14, <1>18
    <3> QED BY <2>1, <3>1, <1>11, <1>12, <1>15, <1>7
  <2>2. CASE len # m
    BY <2>2, <1>13, <1>16
  <2> QED BY <2>1, <2>2
<1>20. chunks'[0].present /\ Size(0)' > m => K2 * L + Size(0)' =< HeapLen
  <2> SUFFICES ASSUME chunks'[0].present, Size(0)' > m PROVE K2 * L + Size(0)' =< HeapLen
    OBVIOUS
  <2>1. CASE i = 0
    <3>1. Size(0)' = Size(0) - (len + Header) /\ Size(0) \in Nat /\ chunks[0].present
      BY <2>1, <1>7, <1>8, <1>9
    <3>2. Size(0) > m
      BY <3>1, <1>7, <1>18
    <3>3. K * L + Size(0) =< HeapLen
      BY <3>1, <3>2, <1>13
    <3>4. CASE len = m
      BY <3>1, <3>3, <3>4, <1>7, <1>11, <1>12, <1>15, <1>18
    <3>5. CASE len # m
      BY <3>1, <3>3, <3>5, <1>7, <1>11, <1>12, <1>16, <1>18
    <3> QED BY <3>4, <3>5
  <2>2. CASE i # 0
    <3>1. chunks[0].present /\ Size(0)' = Size(0)
      BY <2>2, <1>7, <1>10
    <3>2. len # m
      BY <2>2, <1>14
    <3> QED BY <3>1, <3>2, <1>13, <1>16
  <2> QED BY <2>1, <2>2
<1> QED BY <1>5, <1>17, <1>19, <1>20 DEF SmallFor, K2, L

LEMMA KfreeSmall ==
  ASSUME IInv, IsFiniteSet(live), NEW m \in Lens, \A l \in Lens : l <= m, SmallFor(m),
         NEW b \in live, Kfree(b)
  PROVE  SmallFor(m)' /\ IsFiniteSet(live')
<1> USE HeapAssumption
<1>1. PICK slot \in Slots : chunks' = [chunks EXCEPT ![slot] = FreedChunk(b)]
  BY DEF Kfree
<1>2. live' = live \ {b} /\ freed' = [freed EXCEPT ![b.len] = @ + 1]
  BY DEF Kfree
<1>3. IsFiniteSet(live') /\ Served(m)' = Served(m)
  BY <1>2, KfreeServed
<1>4. b.begin \in Nat /\ b.len \in Nat /\ b.len =< m /\ m \in Nat /\ chunks \in [Slots -> Chunk]
  BY DEF IInv, TypeOK, Block
<1>5. Size(slot)' = b.len
  <2>1. chunks'[slot] = FreedChunk(b)
    BY <1>1, <1>4
  <2> QED BY <2>1, <1>4 DEF Size, FreedChunk
<1>6. \A j \in Slots \ {slot} : chunks'[j] = chunks[j] /\ Size(j)' = Size(j)
  BY <1>1, <1>4 DEF Size
<1>7. 0 \in Slots
  BY DEF Slots
<1>8. (Served(m) * (m + Header))' = Served(m) * (m + Header)
  BY <1>3
<1>9. ASSUME chunks'[0].present, Size(0)' > m
      PROVE  chunks[0].present /\ Size(0)' = Size(0)
  BY <1>4, <1>5, <1>6, <1>7, <1>9
<1> QED BY <1>3, <1>4, <1>5, <1>6, <1>8, <1>9 DEF SmallFor

LEMMA FixChunkSmall ==
  ASSUME IInv, FixChunk
  PROVE  /\ \A j \in Slots : chunks'[j].present => chunks[j].present
         /\ \A j \in Slots : chunks'[j].begin = chunks[j].begin /\ chunks'[j].end = chunks[j].end
<1>1. PICK i \in Touching(fixing) :
        chunks' = [chunks EXCEPT ![i] = Joined(i, fixing), ![fixing].present = FALSE]
  BY DEF FixChunk
<1>2. i = fixing /\ chunks[i].begin = chunks[i].end /\ chunks[i].present
  BY TouchesOnlyItself DEF FixChunk
<1>3. i \in Slots /\ chunks[i] \in Chunk /\ chunks \in [Slots -> Chunk]
  BY <1>2 DEF IInv, TypeOK, NoSlot, FixChunk
<1>4. /\ chunks'[i].begin = chunks[i].begin /\ chunks'[i].end = chunks[i].end
      /\ \A j \in Slots : j # i => chunks'[j] = chunks[j]
  BY <1>1, <1>2, <1>3 DEF Joined, Chunk
<1> QED BY <1>2, <1>4

\* A step that leaves the blocks alone, and of the chunks at most takes some out.
LEMMA OthersSmall ==
  ASSUME IInv, NEW m \in Lens, SmallFor(m), UNCHANGED <<live, freed>>,
         \A j \in Slots : chunks'[j].present => chunks[j].present,
         \A j \in Slots : chunks'[j].begin = chunks[j].begin /\ chunks'[j].end = chunks[j].end
  PROVE  SmallFor(m)'
<1>1. Served(m)' = Served(m) /\ \A j \in Slots : Size(j)' = Size(j)
  BY DEF Served, Size
<1>2. 0 \in Slots
  BY HeapAssumption DEF Slots
<1> QED BY <1>1, <1>2 DEF SmallFor


-----------------------------------------------------------------------------
\* The chunk table grows at every second call at most.
LEMMA KfreeCounts ==
  ASSUME IInv, OneUncounted, TableGrowsSlowly, NEW b \in live, Kfree(b)
  PROVE  OneUncounted' /\ TableGrowsSlowly'
<1> USE HeapAssumption
<1>1. PICK slot \in Slots, n \in 1 .. MaxChunks :
        /\ FreeSlot(slot, n)
        /\ n_chunks' = n
        /\ chunks' = [chunks EXCEPT ![slot] = FreedChunk(b)]
  BY DEF Kfree
<1>2. frees' = frees + 1 /\ frees \in Nat
  BY DEF Kfree, IInv, TypeOK
<1>3. n_chunks \in Nat /\ n_chunks >= 1 /\ chunks \in [Slots -> Chunk] /\ n \in Nat
  BY DEF IInv, TypeOK
<1>4. \A j \in Slots \ {slot} : chunks'[j] = chunks[j]
  BY <1>1, <1>3
<1>5. 2 * (n_chunks - 1) =< frees
  BY DEF TableGrowsSlowly
<1>6. \A j \in Slots : chunks[j].present => j =< n_chunks
  BY DEF OneUncounted
<1>7. n_chunks \in Slots /\ chunks[n_chunks].present => 2 * n_chunks - 1 =< frees
  BY DEF OneUncounted
<1>8. Slots \subseteq Int
  BY DEF Slots
<1>9. CASE Holes = {} /\ slot = n_chunks /\ n = n_chunks + 1
  <2>1. n_chunks \in Slots /\ chunks[n_chunks].present
    BY <1>3, <1>9 DEF Holes, Slots
  <2>2. 2 * n_chunks - 1 =< frees
    BY <2>1, <1>7
  <2>3. ASSUME NEW j \in Slots, chunks'[j].present PROVE j < n
    <3>1. CASE j = slot
      BY <3>1, <1>3, <1>9
    <3>2. CASE j # slot
      <4>1. j =< n_chunks
        BY <3>2, <2>3, <1>4, <1>6
      <4> QED BY <4>1, <1>3, <1>8, <1>9
    <3> QED BY <3>1, <3>2
  <2>4. 2 * (n - 1) =< frees'
    BY <2>2, <1>2, <1>3, <1>9
  <2>5. ASSUME NEW j \in Slots, j = n, chunks'[j].present PROVE FALSE
    <3>1. j < n
      BY <2>5, <2>3
    <3> QED BY <3>1, <2>5, <1>3
  <2>6. \A j \in Slots : chunks'[j].present => j =< n
    BY <2>3, <1>3, <1>8
  <2> QED BY <2>4, <2>5, <2>6, <1>1 DEF OneUncounted, TableGrowsSlowly
<1>10. CASE slot \in Holes /\ n = n_chunks
  <2>1. slot =< n_chunks
    BY <1>3, <1>10 DEF Holes
  <2>2. \A j \in Slots : chunks'[j].present => j =< n
    BY <2>1, <1>4, <1>6, <1>10
  <2>3. 2 * (n - 1) =< frees' /\ 2 * n - 1 =< frees'
    BY <1>2, <1>3, <1>5, <1>10
  <2> QED BY <2>2, <2>3, <1>1 DEF OneUncounted, TableGrowsSlowly
<1> QED BY <1>1, <1>9, <1>10 DEF FreeSlot

\* A step that fills no slot.
LEMMA OthersCount ==
  ASSUME IInv, OneUncounted, TableGrowsSlowly, UNCHANGED <<n_chunks, frees>>,
         \A j \in Slots : chunks'[j].present => chunks[j].present
  PROVE  OneUncounted' /\ TableGrowsSlowly'
  BY DEF OneUncounted, TableGrowsSlowly

LEMMA KmallocFillsNone ==
  ASSUME IInv, NEW len \in Lens, Kmalloc(len)
  PROVE  \A j \in Slots : chunks'[j].present => chunks[j].present
<1>1. PICK i \in Scanned :
        /\ BestFit(i, len)
        /\ chunks' = [chunks EXCEPT ![i] = Carve(chunks[i], len + Header)]
  BY DEF Kmalloc
<1>2. chunks[i].present /\ chunks \in [Slots -> Chunk]
  BY <1>1 DEF BestFit, Fits, IInv, TypeOK
<1> QED BY <1>1, <1>2

-----------------------------------------------------------------------------
LEMMA LostFromParts ==
  ASSUME IsFiniteSet(live), HeadersNeverReturn, TableGrowsSlowly, OneUncounted,
         \A m \in Lens : (\A l \in Lens : l <= m) => SmallFor(m)
  PROVE  LostInv
  BY DEF LostInv, FreedIsLost, FreedAreSmall, LargestNeverReused, SmallFor

LEMMA PartsFromLost ==
  ASSUME LostInv
  PROVE  /\ IsFiniteSet(live) /\ HeadersNeverReturn /\ TableGrowsSlowly /\ OneUncounted
         /\ \A m \in Lens : (\A l \in Lens : l <= m) => SmallFor(m)
  BY DEF LostInv, FreedIsLost, FreedAreSmall, LargestNeverReused, SmallFor

LEMMA InitLost == Init => LostInv
<1> SUFFICES ASSUME Init PROVE LostInv
  OBVIOUS
<1> USE HeapAssumption
<1>1. live = {} /\ frees = 0 /\ n_chunks = 1 /\ freed = [l \in Lens |-> 0]
  BY DEF Init
<1>2. IsFiniteSet(live) /\ Cardinality(live) = 0
  BY <1>1, FS_EmptySet
<1>3. 0 \in Slots /\ HeapBegin \in Nat /\ HeapEnd \in Nat /\ HeapLen \in Nat /\ HeapLen > 0 /\ HeapEnd - HeapBegin = HeapLen
  BY DEF Slots, HeapEnd
<1>4. /\ chunks[0].begin = HeapBegin /\ chunks[0].end = HeapEnd
      /\ \A i \in Slots : chunks[i].present <=> i = 0
  BY <1>3 DEF Init
<1>5. HeadersNeverReturn
  <2>1. BytesInUse \subseteq HeapBegin .. HeapEnd - 1
    BY DEF BytesInUse
  <2>2. IsFiniteSet(HeapBegin .. HeapEnd - 1) /\ Cardinality(HeapBegin .. HeapEnd - 1) = HeapLen
    <3> DEFINE hi == HeapEnd - 1
    <3>1. HeapBegin \in Int /\ hi \in Int /\ ~ (HeapBegin > hi) /\ hi - HeapBegin + 1 = HeapLen
      BY <1>3
    <3> HIDE DEF hi
    <3>2. IsFiniteSet(HeapBegin .. hi) /\ Cardinality(HeapBegin .. hi) = HeapLen
      BY <3>1, FS_Interval
    <3> QED BY <3>2 DEF hi
  <2>3. Cardinality(BytesInUse) =< HeapLen
    <3> HIDE DEF BytesInUse
    <3> QED BY <2>1, <2>2, FS_Subset
  <2>4. Header * frees = 0
    BY <1>1
  <2>5. Cardinality(BytesInUse) \in Nat
    BY BytesFinite
  <2>6. Cardinality(BytesInUse) + Header * frees = Cardinality(BytesInUse)
    <3> HIDE DEF BytesInUse
    <3> QED BY <2>4, <2>5
  <2> QED BY <2>3, <2>6 DEF HeadersNeverReturn
<1>6. TableGrowsSlowly /\ OneUncounted
  BY <1>1, <1>3, <1>4 DEF TableGrowsSlowly, OneUncounted, Slots
<1>7. ASSUME NEW m \in Lens PROVE SmallFor(m)
  <2>1. {b \in live : b.len = m} = {}
    BY <1>1
  <2>2. Cardinality({b \in live : b.len = m}) = 0
    BY <2>1, FS_EmptySet
  <2>3. freed[m] = 0
    BY <1>1
  <2>4. Served(m) = 0
    BY <2>2, <2>3 DEF Served
  <2>5. Size(0) = HeapLen
    BY <1>3, <1>4 DEF Size
  <2>6. m + Header \in Nat /\ Served(m) * (m + Header) = 0
    BY <2>4
  <2> QED BY <2>5, <2>6, <1>3, <1>4 DEF SmallFor
<1> QED BY <1>2, <1>5, <1>6, <1>7, LostFromParts

LEMMA NextLost == IInv /\ LostInv /\ [Next]_vars => LostInv'
<1> SUFFICES ASSUME IInv, LostInv, [Next]_vars PROVE LostInv'
  OBVIOUS
<1>1. /\ IsFiniteSet(live) /\ HeadersNeverReturn /\ TableGrowsSlowly /\ OneUncounted
      /\ \A m \in Lens : (\A l \in Lens : l <= m) => SmallFor(m)
  BY PartsFromLost
<1>2. SUFFICES /\ IsFiniteSet(live') /\ HeadersNeverReturn' /\ TableGrowsSlowly' /\ OneUncounted'
               /\ \A m \in Lens : (\A l \in Lens : l <= m) => SmallFor(m)'
  BY DEF LostInv, FreedIsLost, FreedAreSmall, LargestNeverReused, SmallFor
<1>3. ASSUME NEW len \in Lens, Kmalloc(len) PROVE <1>2!1
  <2>1. HeadersNeverReturn'
    <3>1. frees' = frees
      BY <1>3 DEF Kmalloc
    <3> QED BY <3>1, <1>1, <1>3, KmallocBytes, NoMoreBytes
  <2>2. TableGrowsSlowly' /\ OneUncounted'
    <3>1. UNCHANGED <<n_chunks, frees>>
      BY <1>3 DEF Kmalloc
    <3> QED BY <3>1, <1>1, <1>3, KmallocFillsNone, OthersCount
  <2>3. IsFiniteSet(live')
    <3>1. PICK i \in Scanned : live' = live \cup {[begin |-> chunks[i].begin, len |-> len]}
      BY <1>3 DEF Kmalloc
    <3> QED BY <3>1, <1>1, FS_AddElement
  <2>4. ASSUME NEW m \in Lens, \A l \in Lens : l <= m PROVE SmallFor(m)'
    BY <2>4, <1>1, <1>3, KmallocSmall
  <2> QED BY <2>1, <2>2, <2>3, <2>4
<1>4. ASSUME NEW b \in live, Kfree(b) PROVE <1>2!1
  <2>1. HeadersNeverReturn'
    BY <1>1, <1>4, KfreeHeaders
  <2>2. TableGrowsSlowly' /\ OneUncounted'
    BY <1>1, <1>4, KfreeCounts
  <2>3. IsFiniteSet(live')
    BY <1>1, <1>4, FS_RemoveElement DEF Kfree
  <2>4. ASSUME NEW m \in Lens, \A l \in Lens : l <= m PROVE SmallFor(m)'
    BY <2>4, <1>1, <1>4, KfreeSmall
  <2> QED BY <2>1, <2>2, <2>3, <2>4
<1>5. ASSUME UNCHANGED <<n_chunks, live, freed, frees>>,
             \A j \in Slots : chunks'[j].present => chunks[j].present,
             \A j \in Slots : chunks'[j].begin = chunks[j].begin /\ chunks'[j].end = chunks[j].end
      PROVE  <1>2!1
  <2>1. HeadersNeverReturn'
    <3>1. BytesInUse' \subseteq BytesInUse
      BY <1>5 DEF BytesInUse, HeapEnd
    <3> QED BY <3>1, <1>1, <1>5, NoMoreBytes
  <2>2. TableGrowsSlowly' /\ OneUncounted'
    BY <1>1, <1>5, OthersCount
  <2>3. ASSUME NEW m \in Lens, \A l \in Lens : l <= m PROVE SmallFor(m)'
    BY <2>3, <1>1, <1>5, OthersSmall
  <2> QED BY <2>1, <2>2, <2>3, <1>1, <1>5
<1>6. CASE FixChunk
  <2>1. UNCHANGED <<n_chunks, live, freed, frees>>
    BY <1>6 DEF FixChunk
  <2> QED BY <2>1, <1>5, <1>6, FixChunkSmall
<1>7. CASE UNCHANGED <<chunks, n_chunks, live, freed, frees>>
  BY <1>5, <1>7
<1> QED
  <2>1. ASSUME NEW len \in Lens, KmallocFails(len) PROVE <1>2!1
    BY <2>1, <1>7 DEF KmallocFails
  <2>2. CASE FixDone
    BY <2>2, <1>7 DEF FixDone
  <2>3. CASE UNCHANGED vars
    BY <2>3, <1>7 DEF vars
  <2> QED
    BY <2>1, <2>2, <2>3, <1>3, <1>4, <1>6 DEF Next, Halted

\* A call of _kfree costs the heap its header for good, nothing of the largest
\* blocks ever comes back, and the table grows at every second call at most, in
\* every heap and for every set of lengths (ksrc/kmalloc.c:31-142).
THEOREM Losses == Spec => []FreedIsLost
<1>1. Init => LostInv
  BY InitLost
<1>2. IInv /\ LostInv /\ [Next]_vars => LostInv'
  BY NextLost
<1>3. LostInv => FreedIsLost
  BY DEF LostInv
<1> QED BY <1>1, <1>2, <1>3, InductiveInvariant, PTL DEF Spec


=============================================================================
