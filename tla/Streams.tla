------------------------------ MODULE Streams ------------------------------
(***************************************************************************)
(* Streams on files, ksrc/fs/vfs.c: vfs_open, seeking in what it returns   *)
(* and vfs_close.  Nothing can be read from such a stream or written to it *)
(* yet: both functions are NULL.                                           *)
(*                                                                         *)
(* Each stream is three blocks of the kernel heap.  Of the block for its   *)
(* state vfs_open sets the path only; the rest keeps what lay in memory.   *)
(* Freed blocks are taken to be new ones when they are handed out again: a *)
(* pointer left in memory may name any block, whenever it was allocated.   *)
(***************************************************************************)
EXTENDS Integers, Sequences

CONSTANTS
  UintValues,   \* an unsigned int counts up to UintValues - 1
  FileSize,     \* what vfs_size answers for any path
  Seeks,        \* the offsets seek is called with
  MaxStreams    \* bound: streams opened

ASSUME StreamsAssumption ==
  /\ UintValues \in Nat \ {0} /\ FileSize \in 0 .. UintValues - 1
  /\ Seeks \subseteq -UintValues .. UintValues - 1 /\ MaxStreams \in Nat

VARIABLES
  streams,   \* those opened, in order: their state's fields, and whether they are open
  taken,     \* the blocks allocated and not freed
  astray,    \* kfree was called with a pointer that is no allocated block
  wanted     \* history: where each stream should be, or Unknown

streamsVars == <<streams, taken, astray, wanted>>

Unknown == -1
Wild    == <<0, "wild">>
Blocks(k) == {k} \X {"stream", "state", "path"}

\* A pointer left in memory: to any block there will ever be, or to none.
Leftover == {Wild} \cup UNION {Blocks(k) : k \in 1 .. MaxStreams}

StreamsInit == streams = << >> /\ taken = {} /\ astray = FALSE /\ wanted = << >>

Open ==
  /\ ~astray /\ Len(streams) < MaxStreams
  /\ \E offset \in 0 .. UintValues - 1, stream \in Leftover :
       streams' = Append(streams, [offset |-> offset, stream |-> stream, open |-> TRUE])
  /\ taken' = taken \cup Blocks(Len(streams'))
  /\ wanted' = Append(wanted, Unknown)
  /\ UNCHANGED astray

\* The stream and its state are in memory that is still theirs.
Usable(k) == ~astray /\ streams[k].open /\ {<<k, "stream">>, <<k, "state">>} \subseteq taken

SeekTo(k, offset, want) ==
  /\ Usable(k)
  /\ streams' = [streams EXCEPT ![k].offset = offset]
  /\ wanted' = [wanted EXCEPT ![k] = IF want < UintValues THEN want ELSE Unknown]
  /\ UNCHANGED <<taken, astray>>

NotNegative(n) == IF n > 0 THEN n ELSE 0

Added(offset, n) == IF n < 0 /\ -n > offset THEN 0 ELSE (offset + n) % UintValues

SeekSet(k, n) == SeekTo(k, NotNegative(n), NotNegative(n))
SeekCur(k, n) == SeekTo(k, Added(streams[k].offset, n),
                        IF wanted[k] = Unknown THEN Unknown ELSE NotNegative(wanted[k] + n))
SeekEnd(k)    == <<k, "path">> \in taken /\ SeekTo(k, FileSize, FileSize)

\* The blocks that close frees, in order. Mutant: the path is left.
FreedLeavingPath(k) == <<streams[k].stream, <<k, "state">>>>

FreedByClose(k) == <<<<k, "path">>, streams[k].stream, <<k, "state">>>>

Close(k) ==
  /\ Usable(k)
  /\ LET freed == FreedByClose(k)
         Before(j) == {freed[l] : l \in 1 .. j - 1}
     IN  /\ taken' = taken \ {freed[j] : j \in DOMAIN freed}
         /\ astray' = \E j \in DOMAIN freed : freed[j] \notin taken \ Before(j)
  /\ streams' = [streams EXCEPT ![k].open = FALSE]
  /\ UNCHANGED wanted

StreamsNext ==
  \/ Open
  \/ \E k \in DOMAIN streams :
       \/ \E n \in Seeks : SeekSet(k, n) \/ SeekCur(k, n)
       \/ SeekEnd(k)
       \/ Close(k)

StreamsSpec == StreamsInit /\ [][StreamsNext]_streamsVars

-----------------------------------------------------------------------------
\* From the first absolute seek on, a stream is where all its seeks together lead:
\* moves stop at the beginning, until one passes the greatest unsigned int
\* (ksrc/fs/vfs.c:47-65).
SeeksAsAsked ==
  \A k \in DOMAIN streams : wanted[k] # Unknown => streams[k].offset = wanted[k]

\* A close frees what its state's stale stream pointer names: the heap stays whole
\* only by chance, the closed stream's own block is lost otherwise, and the blocks
\* of open streams survive unless such a pointer names them (ksrc/fs/vfs.c:67-91).
ClosedBy(b) == \E k \in DOMAIN streams : ~streams[k].open /\ streams[k].stream = b
FreesAtStalePointer ==
  /\ ~astray => \A k \in DOMAIN streams : \A b \in Blocks(k) :
       b \in taken <=> (streams[k].open \/ b = <<k, "stream">>) /\ ~ClosedBy(b)
  /\ astray => \E k \in DOMAIN streams : ~streams[k].open /\ streams[k].stream # <<k, "stream">>

\* A stream keeps its own position and its own memory through the opens, seeks and
\* closes of all, but for what a stale pointer frees (ksrc/fs/vfs.c:39-91).
StreamsApart == SeeksAsAsked /\ FreesAtStalePointer

=============================================================================
