------------------------------- MODULE Paths -------------------------------
(***************************************************************************)
(* Path parsing of the FAT driver: parse_path (ksrc/fs/fat.c) and the      *)
(* freeing of its parts, which every operation on a path ends with.        *)
(*                                                                         *)
(* A path is the sequence of what stands between its slashes; a part may   *)
(* be empty.  The loop over the characters is one step for each part.      *)
(* strcmp (ksrc/string.c) only compares lengths, and the model does too.   *)
(***************************************************************************)
EXTENDS Integers, Sequences

CONSTANTS
  Names,          \* the parts that occur
  NameLen,        \* their lengths in bytes
  Empty, Dot, DotDot,
  MaxParts        \* bound: parts in a path

ASSUME PathsAssumption ==
  /\ {Empty, Dot, DotDot} \subseteq Names
  /\ NameLen \in [Names -> Nat]
  /\ NameLen[Empty] = 0 /\ NameLen[Dot] = 1 /\ NameLen[DotDot] = 2
  /\ MaxParts \in Nat

\* tmp has room for 255 bytes: the code does not check.
TmpBytes == 256
ASSUME PartsFitTmp == \A n \in Names : NameLen[n] < TmpBytes

VARIABLES
  path,       \* the argument, split at its slashes
  i,          \* parts the loop is through with
  pathbits,   \* the array: index -> block or NULL
  pathi,      \* entries in use; len in the callers
  live,       \* blocks allocated and not freed
  made,       \* calls of kmalloc so far; a block is known by its number
  text,       \* what was copied into each block
  path_pc,    \* "parse", "use", "free", "done"
  freei,      \* i of the callers' freeing loop
  broken      \* kfree was called with a pointer that is no allocated block

pathsVars == <<path, i, pathbits, pathi, live, made, text, path_pc, freei, broken>>

NULL  == 0
Array == 1                         \* the block of pathbits itself
Index == 0 .. Len(path) - 1        \* slashes + 1 entries

PathsInit ==
  /\ \E n \in 1 .. MaxParts : path \in [1 .. n -> Names]
  /\ i = 0 /\ pathi = 0
  /\ live = {Array} /\ made = Array /\ text = [b \in {Array} |-> Empty]
  /\ pathbits = [k \in Index |-> NULL]
  /\ path_pc = "parse" /\ freei = 0 /\ broken = FALSE

\* Mutant: the comparison ends where the first string does.
SameSoFar(a, b) == NameLen[a] <= NameLen[b]

\* strcmp(a, b) == 0
Same(a, b) == NameLen[a] = NameLen[b]

Kfree(b) ==
  /\ live' = live \ {b}
  /\ broken' = (broken \/ b \notin live)

\* Mutant: the part goes, its block stays.
DropOnly ==
  /\ pathi' = pathi - 1
  /\ pathbits' = [pathbits EXCEPT ![pathi - 1] = NULL]
  /\ UNCHANGED <<live, broken>>

\* The last part is dropped.
Drop ==
  /\ pathi' = pathi - 1
  /\ Kfree(pathbits[pathi - 1])
  /\ pathbits' = [pathbits EXCEPT ![pathi - 1] = NULL]

Part(n) ==
  /\ path_pc = "parse" /\ i < Len(path) /\ n = path[i + 1]
  /\ i' = i + 1
  /\ UNCHANGED <<path, path_pc, freei>>

Nothing(n) ==
  /\ Part(n)
  /\ \/ Same(n, Empty)
     \/ Same(n, Dot)
     \/ Same(n, DotDot) /\ pathi = 0
  /\ UNCHANGED <<pathbits, pathi, live, made, text, broken>>

Up(n) ==
  /\ Part(n)
  /\ Same(n, DotDot) /\ pathi > 0
  /\ Drop
  /\ UNCHANGED <<made, text>>

Down(n) ==
  /\ Part(n)
  /\ \A d \in {Empty, Dot, DotDot} : ~Same(n, d)
  /\ made' = made + 1
  /\ live' = live \cup {made'}
  /\ text' = [b \in 1 .. made' |-> IF b = made' THEN n ELSE text[b]]
  /\ pathbits' = [pathbits EXCEPT ![pathi] = made']
  /\ pathi' = pathi + 1
  /\ UNCHANGED broken

Parsed ==
  /\ path_pc = "parse" /\ i = Len(path)
  /\ path_pc' = "use"
  /\ UNCHANGED <<path, i, pathbits, pathi, live, made, text, freei, broken>>

\* The caller looks the parts up; however that ends, cleanup follows.
Use ==
  /\ path_pc = "use"
  /\ path_pc' = "free"
  /\ UNCHANGED <<path, i, pathbits, pathi, live, made, text, freei, broken>>

FreePart ==
  /\ path_pc = "free" /\ freei < pathi
  /\ Kfree(pathbits[freei])
  /\ freei' = freei + 1
  /\ UNCHANGED <<path, i, pathbits, pathi, made, text, path_pc>>

FreeArray ==
  /\ path_pc = "free" /\ freei = pathi
  /\ Kfree(Array)
  /\ path_pc' = "done"
  /\ UNCHANGED <<path, i, pathbits, pathi, made, text, freei>>

Finished == path_pc = "done" /\ UNCHANGED pathsVars

PathsNext ==
  \/ \E n \in Names : Nothing(n) \/ Up(n) \/ Down(n)
  \/ Parsed \/ Use \/ FreePart \/ FreeArray \/ Finished

PathsSpec == PathsInit /\ [][PathsNext]_pathsVars

-----------------------------------------------------------------------------

\* Whatever ".." dropped on the way and however the operation ends: no block is
\* freed twice or unallocated, and none is left (ksrc/fs/fat.c:186-193, 262-264,
\* 292-294, 362-365, 404-406).
FreedOnce == ~broken /\ (path_pc = "done" => live = {})

\* strcmp compares lengths: a name of one or two letters is taken for a dot or two.
Plain == \A k \in DOMAIN path : NameLen[path[k]] <= 2 => path[k] \in {Empty, Dot, DotDot}

\* When no name of the path has one or two letters, its parts are followed as it
\* says (ksrc/fs/fat.c:173-205).
Meaning == INSTANCE Walk WITH
  seen <- i,
  at   <- [k \in 1 .. pathi |-> text[pathbits[k - 1]]]
FollowsPath == Meaning!Init /\ [][Plain => Meaning!Next]_(Meaning!vars)

=============================================================================
