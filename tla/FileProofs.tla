----------------------------- MODULE FileProofs -----------------------------
(***************************************************************************)
(* Proofs about the file system.  Paths: who owns its blocks, that all of  *)
(* them are freed once, and that long names lead where the path says.      *)
(* FatFile: what is read of a file, and when a read leaves the table.      *)
(* Streams: whose position and whose memory opens, seeks and closes        *)
(* change.  Directory: what look-ups find and listings give.  ShortNames:  *)
(* which listed names lead back to their entries.                          *)
(***************************************************************************)
EXTENDS Paths, FatFile, Streams, Directory, ShortNames, Quotients,
        SequenceTheorems, FiniteSetTheorems, TLAPS

-----------------------------------------------------------------------------
\* Paths.

PathsTypeOK ==
  /\ path \in Seq(Names) /\ Len(path) \in 1 .. MaxParts
  /\ i \in 0 .. Len(path)
  /\ pathbits \in [Index -> Nat]
  /\ pathi \in Nat
  /\ live \subseteq 1 .. made
  /\ made \in Nat
  /\ text \in [1 .. made -> Names]
  /\ path_pc \in {"parse", "use", "free", "done"}
  /\ freei \in Nat
  /\ broken \in BOOLEAN

\* The entries that are still the caller's to free.
Owned == {pathbits[k] : k \in freei .. pathi - 1}

\* Each entry in use is a block of its own, and the blocks of this call are these
\* and the array (ksrc/fs/fat.c:171-208).
Ownership ==
  /\ pathi <= i /\ freei <= pathi
  /\ \A k \in 0 .. pathi - 1 : pathbits[k] \in 1 .. made
  /\ Array \notin Owned
  /\ \A k, l \in freei .. pathi - 1 : pathbits[k] = pathbits[l] => k = l
  /\ live = Owned \cup (IF path_pc = "done" THEN {} ELSE {Array})
  /\ path_pc = "done" => freei = pathi
  /\ path_pc = "parse" => freei = 0
  /\ path_pc # "parse" => i = Len(path)

\* The inductive invariant of the proofs (ksrc/fs/fat.c:160-208, 262-264).
PathsInv == PathsTypeOK /\ Ownership /\ ~broken

\* At first there is the array, and no part.
LEMMA InitInv == PathsInit => PathsInv
<1> SUFFICES ASSUME PathsInit PROVE PathsInv
  OBVIOUS
<1> USE PathsAssumption DEF PathsInit, Array, NULL, Index
<1>1. path \in Seq(Names) /\ Len(path) \in 1 .. MaxParts
  <2>1. PICK n \in 1 .. MaxParts : path \in [1 .. n -> Names]
    OBVIOUS
  <2>2. n \in Nat
    OBVIOUS
  <2>3. path \in Seq(Names)
    BY <2>1, <2>2
  <2>4. Len(path) = n
    BY <2>1, <2>2, <2>3
  <2>5. QED BY <2>3, <2>4
<1>2. PathsTypeOK
  <2>1. /\ live \subseteq 1 .. made /\ text \in [1 .. made -> Names]
        /\ pathbits \in [Index -> Nat] /\ made \in Nat
    OBVIOUS
  <2>2. pathi = 0 /\ freei = 0 /\ broken = FALSE /\ i = 0 /\ path_pc = "parse"
    OBVIOUS
  <2>3. i \in 0 .. Len(path) /\ pathi \in Nat /\ freei \in Nat
    BY <1>1, <2>2
  <2>4. path_pc \in {"parse", "use", "free", "done"} /\ broken \in BOOLEAN
    BY <2>2
  <2>5. QED BY <1>1, <2>1, <2>3, <2>4 DEF PathsTypeOK
<1>3. Ownership /\ ~broken
  BY <1>1 DEF Ownership, Owned
<1> QED BY <1>2, <1>3 DEF PathsInv

\* A name takes a fresh block.
LEMMA DownInv ==
  ASSUME PathsInv, NEW n \in Names, Down(n)
  PROVE  PathsInv'
<1> USE DEF PathsInv, Down, Part
<1>0. /\ path \in Seq(Names) /\ Len(path) \in Nat /\ i \in Nat /\ pathi \in Nat
      /\ made \in Nat /\ pathi <= i /\ freei = 0 /\ i < Len(path)
      /\ live \subseteq 1 .. made
  BY DEF PathsTypeOK, Ownership
<1>1. PathsTypeOK'
  <2>1. pathi \in Index
    BY <1>0 DEF Index
  <2>2. pathbits' \in [Index' -> Nat]
    BY <1>0, <2>1 DEF PathsTypeOK, Index
  <2>3. text' \in [1 .. made' -> Names]
    BY <1>0 DEF PathsTypeOK
  <2>4. live' \subseteq 1 .. made'
    <3>1. made' = made + 1 /\ live' \subseteq live \cup {made'}
      BY <1>0
    <3>2. 1 .. made \subseteq 1 .. made' /\ made' \in 1 .. made'
      BY <3>1, <1>0
    <3> QED BY <3>1, <3>2, <1>0
  <2>5. QED BY <1>0, <2>2, <2>3, <2>4 DEF PathsTypeOK
<1>2. /\ \A k \in 0 .. pathi - 1 : pathbits'[k] = pathbits[k] /\ pathbits[k] \in live
      /\ pathbits'[pathi] = made'
      /\ made' \notin live
  <2>1. pathi \in Index /\ \A k \in 0 .. pathi - 1 : k \in Index
    BY <1>0 DEF Index
  <2>2. pathbits'[pathi] = made' /\ \A k \in 0 .. pathi - 1 : pathbits'[k] = pathbits[k]
    BY <1>0, <2>1 DEF PathsTypeOK
  <2>3. \A k \in 0 .. pathi - 1 : pathbits[k] \in live
    BY <1>0 DEF Ownership, Owned
  <2>4. QED BY <1>0, <2>2, <2>3
<1>3. Owned' = Owned \cup {made'}
  <2>1. freei' = 0 /\ pathi' = pathi + 1
    BY <1>0
  <2>2. 0 .. pathi' - 1 = (0 .. pathi - 1) \cup {pathi}
    BY <1>0, <2>1
  <2>3. QED BY <1>0, <1>2, <2>1, <2>2 DEF Owned
<1>4. Array \in live /\ path_pc = "parse"
  BY DEF Ownership, PathsTypeOK
<1>5. Ownership'
  <2>1. \A k, l \in freei' .. pathi' - 1 : pathbits'[k] = pathbits'[l] => k = l
    <3> SUFFICES ASSUME NEW k \in 0 .. pathi, NEW l \in 0 .. pathi,
                        pathbits'[k] = pathbits'[l]
                 PROVE  k = l
      BY <1>0
    <3>1. CASE k = pathi \/ l = pathi
      BY <1>0, <1>2, <3>1
    <3>2. CASE k # pathi /\ l # pathi
      BY <1>0, <1>2, <3>2 DEF Ownership
    <3> QED BY <3>1, <3>2
  <2>2. live' = Owned' \cup {Array} /\ Array \notin Owned'
    BY <1>2, <1>3, <1>4 DEF Ownership
  <2>3. \A k \in 0 .. pathi' - 1 : pathbits'[k] \in 1 .. made'
    BY <1>0, <1>2 DEF Ownership
  <2>4. QED BY <1>0, <1>4, <2>1, <2>2, <2>3 DEF Ownership
<1> QED BY <1>1, <1>5

\* ".." frees the last part, which is allocated, and no other one.
LEMMA UpInv ==
  ASSUME PathsInv, NEW n \in Names, Up(n)
  PROVE  PathsInv'
<1> USE DEF PathsInv, Up, Part, Drop, Kfree
<1>0. /\ path \in Seq(Names) /\ Len(path) \in Nat /\ i \in Nat /\ pathi \in Nat
      /\ made \in Nat /\ pathi <= i /\ freei = 0 /\ i < Len(path) /\ pathi > 0
      /\ pathi - 1 \in Index /\ path_pc = "parse"
  BY DEF PathsTypeOK, Ownership, Index
<1>1. pathbits[pathi - 1] \in Owned
  BY <1>0 DEF Owned
<1>2. PathsTypeOK'
  <2>1. pathbits' \in [Index' -> Nat] /\ live' \subseteq 1 .. made'
    BY <1>0 DEF PathsTypeOK, Index, NULL
  <2>2. QED BY <1>0, <2>1 DEF PathsTypeOK
<1>3. ~broken'
  BY <1>1 DEF Ownership
<1>4. \A k \in 0 .. pathi - 2 : pathbits'[k] = pathbits[k]
  BY <1>0 DEF PathsTypeOK, Index
<1>5. Owned' = Owned \ {pathbits[pathi - 1]}
  <2>1. \A k \in 0 .. pathi - 2 : pathbits[k] # pathbits[pathi - 1]
    BY <1>0 DEF Ownership
  <2>2. 0 .. pathi - 1 = (0 .. pathi - 2) \cup {pathi - 1} /\ pathi' - 1 = pathi - 2
    BY <1>0
  <2>3. QED BY <1>0, <1>4, <2>1, <2>2 DEF Owned
<1>6. Ownership'
  <2>1. live' = Owned' \cup {Array} /\ Array \notin Owned'
    BY <1>0, <1>1, <1>5 DEF Ownership
  <2>2. \A k, l \in freei' .. pathi' - 1 : pathbits'[k] = pathbits'[l] => k = l
    BY <1>0, <1>4 DEF Ownership
  <2>3. \A k \in 0 .. pathi' - 1 : pathbits'[k] \in 1 .. made'
    BY <1>0, <1>4 DEF Ownership
  <2>4. QED BY <1>0, <2>1, <2>2, <2>3 DEF Ownership
<1> QED BY <1>2, <1>3, <1>6

\* The callers' loop frees the parts in order, then the array.
LEMMA FreeInv ==
  ASSUME PathsInv, FreePart \/ FreeArray
  PROVE  PathsInv'
<1> USE DEF PathsInv, FreePart, FreeArray, Kfree
<1>0. /\ pathi \in Nat /\ freei \in Nat /\ path_pc = "free" /\ live = Owned \cup {Array}
      /\ Array \notin Owned
  BY DEF PathsTypeOK, Ownership
<1>1. PathsTypeOK'
  BY DEF PathsTypeOK, Index
<1>2. CASE FreePart
  <2>1. pathbits[freei] \in Owned
    BY <1>0, <1>2 DEF Owned
  <2>2. Owned' = Owned \ {pathbits[freei]}
    <3>1. \A k \in freei + 1 .. pathi - 1 : pathbits[k] # pathbits[freei]
      BY <1>0, <1>2 DEF Ownership
    <3>2. freei .. pathi - 1 = {freei} \cup (freei + 1 .. pathi - 1)
      BY <1>0, <1>2
    <3>3. QED BY <1>2, <3>1, <3>2 DEF Owned
  <2>3. ~broken' /\ live' = Owned' \cup {Array} /\ Array \notin Owned' /\ path_pc' = path_pc
    BY <1>0, <1>2, <2>1, <2>2
  <2>4. \A k, l \in freei' .. pathi' - 1 : pathbits'[k] = pathbits'[l] => k = l
    BY <1>0, <1>2 DEF Ownership
  <2>5. Ownership'
    BY <1>0, <1>2, <2>3, <2>4 DEF Ownership
  <2>6. QED BY <1>1, <2>3, <2>5
<1>3. CASE FreeArray
  <2>1. Owned = {} /\ Owned' = {}
    BY <1>0, <1>3 DEF Owned
  <2>2. ~broken' /\ live' = {} /\ path_pc' = "done"
    BY <1>0, <1>3, <2>1
  <2>3. \A k, l \in freei' .. pathi' - 1 : FALSE
    BY <1>0, <1>3
  <2>4. Ownership'
    BY <1>0, <1>3, <2>1, <2>2, <2>3 DEF Ownership
  <2>5. QED BY <1>1, <2>2, <2>4
<1> QED BY <1>2, <1>3

\* The steps that touch no block.
LEMMA QuietInv ==
  ASSUME PathsInv,
         \/ \E n \in Names : Nothing(n)
         \/ Parsed \/ Use \/ UNCHANGED pathsVars
  PROVE  PathsInv'
<1> USE DEF PathsInv
<1>1. UNCHANGED <<path, pathbits, pathi, live, made, text, freei, broken>>
  BY DEF Nothing, Part, Parsed, Use, pathsVars
<1>2. Owned' = Owned /\ Index' = Index
  BY <1>1 DEF Owned, Index
<1>3. ASSUME NEW n \in Names, Nothing(n) PROVE PathsInv'
  BY <1>1, <1>2, <1>3 DEF Nothing, Part, PathsTypeOK, Ownership
<1>4. CASE Parsed
  BY <1>1, <1>2, <1>4 DEF Parsed, PathsTypeOK, Ownership
<1>5. CASE Use
  BY <1>1, <1>2, <1>5 DEF Use, PathsTypeOK, Ownership
<1>6. CASE UNCHANGED pathsVars
  BY <1>1, <1>2, <1>6 DEF pathsVars, PathsTypeOK, Ownership
<1> QED BY <1>3, <1>4, <1>5, <1>6

LEMMA StepInv == PathsInv /\ [PathsNext]_pathsVars => PathsInv'
  BY DownInv, UpInv, FreeInv, QuietInv DEF PathsNext, Finished

\* The parts in use are blocks of their own, and with the array they are all there
\* is (ksrc/fs/fat.c:160-208, 262-264).
THEOREM InductiveInvariant == PathsSpec => []PathsInv
<1>1. PathsInv /\ [PathsNext]_pathsVars => PathsInv'
  BY StepInv
<1> QED BY <1>1, InitInv, PTL DEF PathsSpec

\* Every block of a path operation is freed once (ksrc/fs/fat.c:186-193, 262-264).
THEOREM AllFreed == PathsSpec => []FreedOnce
<1>1. PathsInv => FreedOnce
  <2> SUFFICES ASSUME PathsInv PROVE FreedOnce
    OBVIOUS
  <2>1. path_pc = "done" => Owned = {}
    BY DEF PathsInv, PathsTypeOK, Ownership, Owned
  <2>2. QED BY <2>1 DEF PathsInv, Ownership, FreedOnce
<1> QED BY <1>1, InductiveInvariant, PTL

Reached == [k \in 1 .. pathi |-> text[pathbits[k - 1]]]

\* Where the parts lead so far is a sequence of names.
LEMMA ReachedType ==
  ASSUME PathsInv
  PROVE  Reached \in Seq(Names) /\ Len(Reached) = pathi
<1>1. pathi \in Nat /\ \A k \in 1 .. pathi : text[pathbits[k - 1]] \in Names
  BY DEF PathsInv, PathsTypeOK, Ownership
<1>2. Reached \in [1 .. pathi -> Names]
  BY <1>1 DEF Reached
<1>3. Reached \in Seq(Names)
  BY <1>1, <1>2
<1> QED BY <1>1, <1>3 DEF Reached

\* Parsing begins at the root.
LEMMA InitWalks == PathsInit => Meaning!Init
  BY DEF PathsInit, Meaning!Init

\* What strcmp says of a long name is what its text says.
LEMMA SameIsEqual ==
  ASSUME NEW n \in Names, NameLen[n] <= 2 => n \in {Empty, Dot, DotDot}
  PROVE  /\ Same(n, Empty) <=> n = Empty
         /\ Same(n, Dot) <=> n = Dot
         /\ Same(n, DotDot) <=> n = DotDot
         /\ Empty # Dot /\ Dot # DotDot /\ Empty # DotDot
<1>1. NameLen[Empty] = 0 /\ NameLen[Dot] = 1 /\ NameLen[DotDot] = 2
  BY PathsAssumption
<1>2. /\ NameLen[n] = 0 => n = Empty
      /\ NameLen[n] = 1 => n = Dot
      /\ NameLen[n] = 2 => n = DotDot
  BY <1>1
<1> QED BY <1>1, <1>2 DEF Same

\* Each part of a path that parse_path handles is one step of the walk.
LEMMA PartWalks ==
  ASSUME PathsInv, Plain, NEW n \in Names,
         Nothing(n) \/ Up(n) \/ Down(n)
  PROVE  Meaning!Next
<1> USE DEF Part
<1>0. /\ pathi \in Nat /\ made \in Nat /\ pathi <= i /\ i < Len(path) /\ freei = 0
      /\ n = path[i + 1] /\ UNCHANGED path /\ i' = i + 1
      /\ Reached \in Seq(Names) /\ Len(Reached) = pathi
      /\ \A k \in 0 .. pathi - 1 : pathbits[k] \in 1 .. made /\ k \in Index
      /\ pathbits \in [Index -> Nat] /\ text \in [1 .. made -> Names] /\ i \in Nat
      /\ path \in Seq(Names)
      /\ NameLen[n] <= 2 => n \in {Empty, Dot, DotDot}
  <2>1. Part(n) /\ path_pc = "parse"
    BY DEF Nothing, Up, Down
  <2>2. /\ pathi <= i /\ freei = 0 /\ pathi \in Nat /\ made \in Nat /\ i \in Nat
        /\ pathbits \in [Index -> Nat] /\ text \in [1 .. made -> Names]
        /\ path \in Seq(Names) /\ Len(path) \in Nat
        /\ \A k \in 0 .. pathi - 1 : pathbits[k] \in 1 .. made
    BY <2>1 DEF PathsInv, PathsTypeOK, Ownership
  <2>3. \A k \in 0 .. pathi - 1 : k \in Index
    BY <2>1, <2>2 DEF Index
  <2>4. NameLen[n] <= 2 => n \in {Empty, Dot, DotDot}
    <3>1. i + 1 \in DOMAIN path
      BY <2>1, <2>2
    <3>2. QED BY <2>1, <3>1 DEF Plain
  <2>5. QED BY <2>1, <2>2, <2>3, <2>4, ReachedType
<1>1. Reached' = CASE n \in {Empty, Dot} -> Reached
                 [] n = DotDot         -> Meaning!Up(Reached)
                 [] OTHER              -> Append(Reached, n)
  <2>1. CASE Nothing(n)
    <3>1. Reached' = Reached
      BY <2>1 DEF Nothing, Reached
    <3>2. n \in {Empty, Dot} \/ (n = DotDot /\ Reached = <<>>)
      BY <1>0, <2>1, SameIsEqual DEF Nothing
    <3>3. QED BY <1>0, <3>1, <3>2, SameIsEqual DEF Meaning!Up
  <2>2. CASE Up(n)
    <3>1. n = DotDot /\ pathi > 0 /\ pathi' = pathi - 1
      BY <1>0, <2>2, SameIsEqual DEF Up, Drop
    <3>2. \A k \in 1 .. pathi - 1 : text'[pathbits'[k - 1]] = text[pathbits[k - 1]]
      BY <1>0, <2>2 DEF Up, Drop
    <3>3. Reached' = [k \in 1 .. pathi - 1 |-> text[pathbits[k - 1]]]
      BY <1>0, <3>1, <3>2 DEF Reached
    <3>4. Reached' = SubSeq(Reached, 1, pathi - 1)
      BY <1>0, <3>1, <3>3 DEF Reached
    <3>5. QED BY <1>0, <3>1, <3>4, SameIsEqual DEF Meaning!Up
  <2>3. CASE Down(n)
    <3>1. n \notin {Empty, Dot, DotDot} /\ pathi' = pathi + 1
      BY <1>0, <2>3, SameIsEqual DEF Down
    <3>2. pathi \in Index /\ made' = made + 1
      BY <1>0, <2>3 DEF Index, Down
    <3>3. \A k \in 1 .. pathi : text'[pathbits'[k - 1]] = text[pathbits[k - 1]]
      BY <1>0, <2>3, <3>2 DEF Down
    <3>4. text'[pathbits'[pathi]] = n
      BY <1>0, <2>3, <3>2 DEF Down
    <3>5. Reached' = Append(Reached, n)
      <4>1. Append(Reached, n) =
              [k \in 1 .. pathi + 1 |-> IF k = pathi + 1 THEN n ELSE Reached[k]]
        BY <1>0
      <4>2. \A k \in 1 .. pathi + 1 : text'[pathbits'[k - 1]]
                                      = IF k = pathi + 1 THEN n ELSE Reached[k]
        <5>1. ASSUME NEW k \in 1 .. pathi
              PROVE  text'[pathbits'[k - 1]] = Reached[k] /\ k # pathi + 1
          <6>1. Reached[k] = text[pathbits[k - 1]]
            BY DEF Reached
          <6> QED BY <6>1, <3>3, <1>0
        <5>2. (pathi + 1) - 1 = pathi
          BY <1>0
        <5>3. ASSUME NEW k \in 1 .. pathi + 1, k \notin 1 .. pathi
              PROVE  k = pathi + 1
          BY <5>3, <1>0
        <5> QED BY <5>1, <5>2, <5>3, <3>4
      <4>3. Reached' = [k \in 1 .. pathi + 1 |-> text'[pathbits'[k - 1]]]
        BY <3>1 DEF Reached
      <4> QED BY <4>1, <4>2, <4>3
    <3>6. QED BY <3>1, <3>5
  <2>4. QED BY <2>1, <2>2, <2>3
<1>2. QED
  BY <1>0, <1>1 DEF Meaning!Next, Meaning!Follow, Reached

\* Every other step leaves the place alone.
LEMMA StepWalks ==
  ASSUME PathsInv, [PathsNext]_pathsVars
  PROVE  [Plain => Meaning!Next]_(Meaning!vars)
<1>1. ASSUME NEW n \in Names, Nothing(n) \/ Up(n) \/ Down(n)
      PROVE  Plain => Meaning!Next
  BY <1>1, PartWalks
<1>2. CASE Parsed \/ Use \/ FreePart \/ FreeArray \/ Finished \/ UNCHANGED pathsVars
  BY <1>2 DEF Parsed, Use, FreePart, FreeArray, Finished, pathsVars, Meaning!vars
<1> QED BY <1>1, <1>2 DEF PathsNext

\* If no name of a path has one or two letters, its parts lead where it says, whatever
\* the dots and slashes (ksrc/fs/fat.c:160-208).
THEOREM Implementation == PathsSpec => FollowsPath
<1>1. PathsInit => Meaning!Init
  BY InitWalks
<1>2. PathsInv /\ [PathsNext]_pathsVars => [Plain => Meaning!Next]_(Meaning!vars)
  BY StepWalks
<1> QED
  BY <1>1, <1>2, InductiveInvariant, PTL DEF PathsSpec, FollowsPath

-----------------------------------------------------------------------------
\* Reading a file.

\* Where the driver looks for byte n of the file.
LooksAt(n) == <<SectorOf(chain[n \div bpc + 1]) + (n % bpc) \div SectorSize,
                (n % bpc) % SectorSize>>

\* The bytes of whole clusters, from the first one asked for to the one before n.
Gathered(bytes, n) ==
  /\ Len(bytes) = (n - start_cluster) * bpc
  /\ \A b \in 1 .. Len(bytes) : bytes[b] = LooksAt(start_cluster * bpc + b - 1)

\* The inductive invariant: where the walk is, and what it has gathered, from the
\* first cluster asked for to the last (ksrc/fs/fat.c:369-408).
FileInv ==
  /\ chain \in Chains /\ spc \in ClusterSizes /\ offset \in Offsets /\ length \in Lengths
  /\ file_pc \in {"skip", "read", "copy", "returned", "outside"}
  /\ clus \in Nat /\ ahead \in 0 .. clus /\ ahead <= Len(chain)
  /\ buff \in Seq(Int \X Int)
  /\ cluster_number = IF ahead = Len(chain) THEN End ELSE chain[ahead + 1]
  /\ length = 0 => file_pc = "returned"
  /\ length # 0 => start_cluster <= clus /\ clus <= end_cluster
  /\ file_pc = "read" => ahead = clus
  /\ file_pc \in {"skip", "read"} => Gathered(buff, clus)
  /\ file_pc = "copy" => Gathered(buff, clus + 1)
  /\ file_pc = "copy" \/ (file_pc = "returned" /\ length # 0) =>
       clus = end_cluster /\ end_cluster < Len(chain)
  /\ file_pc = "outside" => length # 0 /\ Len(chain) <= end_cluster
  /\ file_pc = "returned" =>
       \A b \in 1 .. length : buffer[b] = LooksAt(offset + b - 1)

\* The numbers a read is made of.
LEMMA FileNumbers ==
  ASSUME FileInv
  PROVE  /\ spc \in Nat \ {0} /\ SectorSize \in Nat \ {0} /\ bpc \in Nat \ {0} /\ bpc = spc * SectorSize
         /\ offset \in Nat /\ length \in Nat /\ DataSector \in Nat
         /\ start_cluster \in Nat /\ end_cluster \in Int
         /\ chain \in Seq(2 .. End - 1) /\ Len(chain) \in Nat /\ Len(chain) >= 1
         /\ \A k \in 1 .. Len(chain) : chain[k] \in Nat /\ chain[k] # End
<1>1. /\ spc \in Nat \ {0} /\ SectorSize \in Nat \ {0} /\ offset \in Nat /\ length \in Nat
      /\ DataSector \in Nat /\ chain \in Seq(2 .. End - 1) /\ chain # << >>
  BY FatFileAssumption DEF FileInv
<1>2. bpc \in Nat \ {0} /\ bpc = spc * SectorSize
  BY <1>1, SMT DEF bpc
<1>3. offset \div bpc \in Nat
  BY <1>1, <1>2, NaturalDivided, Zenon
<1>4. (offset + length - 1) \div bpc \in Int
  <2>1. offset + length - 1 \in Int
    BY <1>1
  <2> HIDE DEF bpc
  <2> QED BY <2>1, <1>2, DividedIs, Zenon
<1>5. Len(chain) \in Nat /\ Len(chain) >= 1
  BY <1>1, LenProperties, EmptySeq
<1>6. ASSUME NEW k \in 1 .. Len(chain) PROVE chain[k] \in Nat /\ chain[k] # End
  <2>1. chain[k] \in 2 .. End - 1
    BY <1>1, <1>6, LenProperties
  <2>2. End \in Nat
    BY DEF End
  <2> QED BY <2>1, <2>2
<1> QED
  BY <1>1, <1>2, <1>3, <1>4, <1>5, <1>6 DEF start_cluster, end_cluster

\* The allocation table leads from each cluster to the next.
LEMMA FatFollows ==
  ASSUME FileInv, NEW k \in 1 .. Len(chain)
  PROVE  Fat(chain[k]) = IF k = Len(chain) THEN End ELSE chain[k + 1]
<1>1. \A j, l \in DOMAIN chain : chain[j] = chain[l] => j = l
  BY FatFileAssumption DEF FileInv
<1>2. DOMAIN chain = 1 .. Len(chain)
  BY FileNumbers, LenProperties
<1>3. (CHOOSE j \in 1 .. Len(chain) : chain[j] = chain[k]) = k
  BY <1>1, <1>2
<1> QED BY <1>3 DEF Fat

LEMMA FileInitInv == FatFileInit => FileInv
<1> SUFFICES ASSUME FatFileInit PROVE FileInv
  OBVIOUS
<1>1. /\ chain \in Chains /\ spc \in ClusterSizes /\ offset \in Offsets /\ length \in Lengths
      /\ file_pc = (IF length = 0 THEN "returned" ELSE "skip")
      /\ clus = start_cluster /\ ahead = 0 /\ cluster_number = chain[1]
      /\ buff = << >> /\ buffer = << >>
  BY DEF FatFileInit
<1>2. /\ spc \in Nat \ {0} /\ SectorSize \in Nat \ {0} /\ offset \in Nat /\ length \in Nat
      /\ chain \in Seq(2 .. End - 1) /\ chain # << >>
  BY <1>1, FatFileAssumption
<1>3. bpc \in Nat \ {0}
  BY <1>2, SMT DEF bpc
<1>4. offset \div bpc \in Nat
  BY <1>2, <1>3, NaturalDivided, Zenon
<1>5. Len(chain) \in Nat /\ Len(chain) # 0
  BY <1>2, LenProperties, EmptySeq
<1>6. Gathered(buff, clus)
  <2>1. (clus - start_cluster) * bpc = 0
    <3>1. clus - start_cluster = 0
      BY <1>1, <1>4 DEF start_cluster
    <3> QED BY <3>1, <1>3, SMT
  <2>2. Len(buff) = 0
    BY <1>1
  <2> QED BY <2>1, <2>2 DEF Gathered
<1>7. length # 0 => start_cluster <= clus /\ clus <= end_cluster
  <2> SUFFICES ASSUME length # 0 PROVE offset \div bpc =< (offset + length - 1) \div bpc /\ clus = start_cluster
    BY <1>1, <1>4 DEF start_cluster, end_cluster
  <2>1. offset \in Int /\ offset + length - 1 \in Int /\ offset =< offset + length - 1
    BY <1>2
  <2> QED BY <2>1, <1>1, <1>3, QuotientsOrdered
<1>8. ahead = 0 /\ 0 # Len(chain) /\ cluster_number = chain[0 + 1]
  BY <1>1, <1>5
<1>9. buff \in Seq(Int \X Int)
  BY <1>1
<1>10. file_pc = "returned" => length = 0
  BY <1>1
<1>11. clus \in Nat
  BY <1>1, <1>4 DEF start_cluster
<1>12. file_pc \in {"returned", "skip"} /\ (length = 0 => file_pc = "returned")
  BY <1>1
<1>13. \A b \in 1 .. 0 : FALSE
  OBVIOUS
<1> QED
  BY <1>1, <1>5, <1>6, <1>7, <1>8, <1>9, <1>10, <1>11, <1>12, <1>13 DEF FileInv

\* What is asked for does not change, nor what is made of it.
LEMMA AskedStays ==
  ASSUME UNCHANGED given
  PROVE  /\ chain' = chain /\ spc' = spc /\ offset' = offset /\ length' = length
         /\ bpc' = bpc /\ start_cluster' = start_cluster /\ end_cluster' = end_cluster
         /\ \A n : LooksAt(n)' = LooksAt(n)
<1>1. chain' = chain /\ spc' = spc /\ offset' = offset /\ length' = length
  BY DEF given
<1>2. bpc' = bpc
  BY <1>1 DEF bpc
<1>3. start_cluster' = start_cluster /\ end_cluster' = end_cluster
  BY <1>1, <1>2 DEF start_cluster, end_cluster
<1>4. \A n : LooksAt(n)' = LooksAt(n)
  BY <1>1, <1>2 DEF LooksAt, SectorOf
<1> QED BY <1>1, <1>2, <1>3, <1>4

LEMMA OutsideInv ==
  ASSUME FileInv, Outside
  PROVE  FileInv'
<1>1. /\ cluster_number = End
      /\ file_pc = "read" \/ (file_pc = "skip" /\ ahead < clus)
      /\ file_pc' = "outside"
      /\ UNCHANGED given /\ UNCHANGED <<clus, ahead, cluster_number, buff, buffer>>
  BY DEF Outside
<1>2. /\ chain' = chain /\ spc' = spc /\ offset' = offset /\ length' = length
      /\ start_cluster' = start_cluster /\ end_cluster' = end_cluster
  BY <1>1, AskedStays
<1>3. ahead = Len(chain)
  <2>1. ahead \in Nat /\ ahead =< Len(chain)
    BY DEF FileInv
  <2>2. ahead # Len(chain) => ahead + 1 \in 1 .. Len(chain)
    BY <2>1, FileNumbers
  <2>3. ahead # Len(chain) => cluster_number # End
    BY <2>2, FileNumbers DEF FileInv
  <2> QED BY <2>3, <1>1
<1>4. length # 0 /\ Len(chain) =< end_cluster
  <2>1. length # 0
    BY <1>1 DEF FileInv
  <2>2. clus =< end_cluster /\ ahead =< clus /\ clus \in Nat /\ end_cluster \in Int
    BY <2>1, FileNumbers DEF FileInv
  <2> QED BY <2>1, <2>2, <1>3
<1> QED BY <1>1, <1>2, <1>4 DEF FileInv

LEMMA SkipAheadInv ==
  ASSUME FileInv, SkipAhead
  PROVE  FileInv'
<1>1. /\ file_pc = "skip" /\ ahead < clus /\ cluster_number # End
      /\ cluster_number' = Fat(cluster_number)
      /\ ahead' = ahead + 1
      /\ UNCHANGED given /\ UNCHANGED <<file_pc, clus, buff, buffer>>
  BY DEF SkipAhead
<1>2. /\ chain' = chain /\ spc' = spc /\ offset' = offset /\ length' = length
      /\ start_cluster' = start_cluster /\ end_cluster' = end_cluster
  BY <1>1, AskedStays
<1>3. ahead \in Nat /\ ahead < Len(chain) /\ cluster_number = chain[ahead + 1] /\ ahead + 1 \in 1 .. Len(chain) /\ clus \in Nat
  BY <1>1, FileNumbers DEF FileInv
<1>4. cluster_number' = IF ahead' = Len(chain') THEN End ELSE chain'[ahead' + 1]
  BY <1>1, <1>2, <1>3, FatFollows
<1>5. ahead' \in 0 .. clus' /\ ahead' =< Len(chain')
  BY <1>1, <1>2, <1>3, FileNumbers
<1>6. Gathered(buff, clus)'
  <2>1. Gathered(buff, clus)
    BY <1>1 DEF FileInv
  <2> QED BY <2>1, <1>1, AskedStays DEF Gathered
<1> QED BY <1>1, <1>2, <1>4, <1>5, <1>6 DEF FileInv

LEMMA ArriveInv ==
  ASSUME FileInv, Arrive
  PROVE  FileInv'
<1>1. /\ file_pc = "skip" /\ ahead = clus /\ file_pc' = "read"
      /\ UNCHANGED given /\ UNCHANGED <<clus, ahead, cluster_number, buff, buffer>>
  BY DEF Arrive
<1>2. /\ chain' = chain /\ spc' = spc /\ offset' = offset /\ length' = length
      /\ start_cluster' = start_cluster /\ end_cluster' = end_cluster
  BY <1>1, AskedStays
<1>3. Gathered(buff, clus)'
  <2>1. Gathered(buff, clus)
    BY <1>1 DEF FileInv
  <2> QED BY <2>1, <1>1, AskedStays DEF Gathered
<1> QED BY <1>1, <1>2, <1>3 DEF FileInv

\* The bytes of one more cluster.
LEMMA ReadGathers ==
  ASSUME FileInv, ReadCluster
  PROVE  /\ buff' \in Seq(Int \X Int) /\ Gathered(buff', clus + 1)
         /\ clus < Len(chain)
<1> DEFINE piece == [b \in 1 .. bpc |-> <<SectorOf(cluster_number) + (b - 1) \div SectorSize,
                                          (b - 1) % SectorSize>>]
           old == (clus - start_cluster) * bpc
<1>1. /\ file_pc = "read" /\ cluster_number # End
      /\ buff' = buff \o piece
  BY DEF ReadCluster
<1>2. /\ ahead = clus /\ clus \in Nat /\ ahead =< Len(chain)
      /\ cluster_number = (IF ahead = Len(chain) THEN End ELSE chain[ahead + 1])
      /\ buff \in Seq(Int \X Int)
      /\ Gathered(buff, clus)
      /\ length # 0
  BY <1>1 DEF FileInv
<1>3. clus < Len(chain) /\ cluster_number = chain[clus + 1] /\ cluster_number \in Nat
  BY <1>1, <1>2, FileNumbers
<1>4. start_cluster =< clus /\ start_cluster \in Nat /\ bpc \in Nat \ {0} /\ SectorSize \in Nat \ {0}
  BY <1>2, FileNumbers DEF FileInv
<1>5. Len(buff) = old /\ \A b \in 1 .. old : buff[b] = LooksAt(start_cluster * bpc + b - 1)
  BY <1>2 DEF Gathered
<1>6. old \in Nat /\ ((clus + 1) - start_cluster) * bpc = old + bpc /\ start_cluster * bpc \in Nat
      /\ start_cluster * bpc + old = clus * bpc /\ clus * bpc \in Nat
  <2>1. clus - start_cluster \in Nat
    BY <1>2, <1>4
  <2>2. ((clus + 1) - start_cluster) * bpc = (clus - start_cluster) * bpc + bpc
    BY <1>2, <1>4, SMT
  <2>3. start_cluster * bpc + (clus - start_cluster) * bpc = clus * bpc
    BY <1>2, <1>4, SMT
  <2>4. (clus - start_cluster) * bpc \in Nat /\ start_cluster * bpc \in Nat /\ clus * bpc \in Nat
    BY <2>1, <1>2, <1>4, SMT
  <2> QED BY <2>2, <2>3, <2>4
<1>7. ASSUME NEW d \in 1 .. bpc
      PROVE  /\ piece[d] = LooksAt(clus * bpc + (d - 1))
             /\ piece[d] \in Int \X Int
  <2>1. d - 1 \in 0 .. bpc - 1 /\ d - 1 \in Int /\ clus \in Int
    BY <1>2, <1>4
  <2>2. (clus * bpc + (d - 1)) \div bpc = clus /\ (clus * bpc + (d - 1)) % bpc = d - 1
    BY <2>1, <1>4, QuotientIs, Zenon
  <2>3. piece[d] = <<SectorOf(cluster_number) + (d - 1) \div SectorSize, (d - 1) % SectorSize>>
    OBVIOUS
  <2>4. piece[d] = LooksAt(clus * bpc + (d - 1))
    BY <2>2, <2>3, <1>3 DEF LooksAt
  <2>5. SectorOf(cluster_number) \in Int
    <3>1. cluster_number \in Nat /\ spc \in Nat /\ DataSector \in Nat
      BY <1>3, FileNumbers
    <3>2. cluster_number * spc \in Nat
      BY <3>1, SMT
    <3> QED BY <3>1, <3>2 DEF SectorOf
  <2>6. (d - 1) \div SectorSize \in Int /\ (d - 1) % SectorSize \in 0 .. SectorSize - 1
    BY <2>1, <1>4, DividedIs, Zenon
  <2>7. SectorOf(cluster_number) + (d - 1) \div SectorSize \in Int /\ (d - 1) % SectorSize \in Int
    <3> DEFINE x == (d - 1) \div SectorSize
               y == (d - 1) % SectorSize
    <3>1. x \in Int /\ y \in Int
      BY <2>6, <1>4
    <3> HIDE DEF x, y
    <3>2. SectorOf(cluster_number) + x \in Int
      BY <3>1, <2>5
    <3> QED BY <3>1, <3>2 DEF x, y
  <2> QED BY <2>3, <2>4, <2>7
<1>8. piece \in Seq(Int \X Int) /\ Len(piece) = bpc
  <2>1. piece \in [1 .. bpc -> Int \X Int]
    BY <1>7
  <2>2. Len(piece) = bpc
    BY <1>4
  <2> HIDE DEF piece
  <2> QED BY <2>1, <2>2, <1>4
<1> HIDE DEF piece, old
<1>9. /\ buff' \in Seq(Int \X Int)
      /\ Len(buff') = old + bpc
      /\ \A b \in 1 .. old + bpc : buff'[b] = IF b =< old THEN buff[b] ELSE piece[b - old]
  <2>1. buff' = buff \o piece /\ buff \in Seq(Int \X Int) /\ Len(buff) = old
    BY <1>1, <1>2, <1>5
  <2>2. old \in Nat /\ bpc \in Nat
    BY <1>4, <1>5
  <2> DEFINE T == Int \X Int
  <2> HIDE DEF T
  <2>3. buff \in Seq(T) /\ piece \in Seq(T)
    BY <2>1, <1>8 DEF T
  <2>4. /\ buff \o piece \in Seq(T) /\ Len(buff \o piece) = Len(buff) + Len(piece)
        /\ \A b \in 1 .. Len(buff) + Len(piece) :
             (buff \o piece)[b] = IF b <= Len(buff) THEN buff[b] ELSE piece[b - Len(buff)]
    BY <2>3, ConcatProperties
  <2> QED BY <2>1, <2>4, <1>8 DEF T
<1>10. ASSUME NEW b \in 1 .. old + bpc
       PROVE  buff'[b] = LooksAt(start_cluster * bpc + b - 1)
  <2>1. CASE b =< old
    BY <2>1, <1>5, <1>6, <1>9
  <2>2. CASE ~ b =< old
    <3> DEFINE d == b - old
    <3>1. d \in 1 .. bpc /\ start_cluster * bpc + b - 1 = clus * bpc + (d - 1)
      BY <2>2, <1>4, <1>6
    <3>2. buff'[b] = piece[d]
      BY <2>2, <1>9
    <3> HIDE DEF d
    <3> QED BY <3>1, <3>2, <1>7
  <2> QED BY <2>1, <2>2
<1>11. Len(buff') = ((clus + 1) - start_cluster) * bpc
  BY <1>6, <1>9
<1>12. \A b \in 1 .. Len(buff') : buff'[b] = LooksAt(start_cluster * bpc + b - 1)
  BY <1>9, <1>10
<1>13. Gathered(buff', clus + 1)
  BY <1>11, <1>12 DEF Gathered
<1> QED BY <1>3, <1>9, <1>13

LEMMA ReadClusterInv ==
  ASSUME FileInv, ReadCluster
  PROVE  FileInv'
<1>1. /\ file_pc = "read" /\ cluster_number # End
      /\ IF clus = end_cluster
         THEN file_pc' = "copy" /\ UNCHANGED <<clus, ahead, cluster_number>>
         ELSE /\ file_pc' = "skip" /\ clus' = clus + 1
              /\ ahead' = 0 /\ cluster_number' = chain[1]
      /\ UNCHANGED given /\ UNCHANGED buffer
  BY DEF ReadCluster, WalkAgain
<1>2. /\ chain' = chain /\ spc' = spc /\ offset' = offset /\ length' = length
      /\ start_cluster' = start_cluster /\ end_cluster' = end_cluster
  BY <1>1, AskedStays
<1>3. buff' \in Seq(Int \X Int) /\ Gathered(buff', clus + 1) /\ clus < Len(chain)
  BY ReadGathers
<1>4. /\ length # 0 /\ clus \in Nat /\ start_cluster =< clus /\ clus =< end_cluster
      /\ start_cluster \in Nat /\ end_cluster \in Int /\ Len(chain) \in Nat
  BY <1>1, FileNumbers DEF FileInv
<1>6. CASE clus = end_cluster
  <2>1. Gathered(buff, clus + 1)'
    BY <1>1, <1>3, <1>6, AskedStays DEF Gathered
  <2>2. file_pc' = "copy" /\ UNCHANGED <<clus, ahead, cluster_number>>
    BY <1>1, <1>6
  <2> QED BY <2>1, <2>2, <1>2, <1>3, <1>4, <1>6 DEF FileInv
<1>7. CASE clus # end_cluster
  <2>1. file_pc' = "skip" /\ clus' = clus + 1 /\ ahead' = 0 /\ cluster_number' = chain[1]
    BY <1>1, <1>7
  <2>2. Gathered(buff, clus)'
    BY <2>1, <1>1, <1>3, AskedStays DEF Gathered
  <2>3. clus' \in Nat /\ ahead' \in 0 .. clus' /\ ahead' =< Len(chain') /\ start_cluster' =< clus' /\ clus' =< end_cluster'
    BY <2>1, <1>2, <1>4, <1>7
  <2>4. cluster_number' = IF ahead' = Len(chain') THEN End ELSE chain'[ahead' + 1]
    BY <2>1, <1>2, <1>3, <1>4
  <2> QED BY <2>1, <2>2, <2>3, <2>4, <1>2, <1>3, <1>4 DEF FileInv
<1> QED BY <1>6, <1>7

\* The clusters read hold what is asked for, from its offset in the first one.
LEMMA CopyInv ==
  ASSUME FileInv, Copy
  PROVE  FileInv'
<1>1. /\ file_pc = "copy" /\ file_pc' = "returned"
      /\ buffer' = [b \in 1 .. length |-> buff[offset - start_cluster * bpc + b]]
      /\ UNCHANGED given /\ UNCHANGED <<clus, ahead, cluster_number, buff>>
  BY DEF Copy
<1>2. /\ chain' = chain /\ spc' = spc /\ offset' = offset /\ length' = length
      /\ start_cluster' = start_cluster /\ end_cluster' = end_cluster
      /\ \A n : LooksAt(n)' = LooksAt(n)
  BY <1>1, AskedStays
<1>3. /\ Gathered(buff, clus + 1) /\ clus = end_cluster /\ clus \in Nat
      /\ end_cluster < Len(chain) /\ length # 0
  BY <1>1 DEF FileInv
<1>4. /\ bpc \in Nat \ {0} /\ offset \in Nat /\ length \in Nat
      /\ start_cluster \in Nat /\ end_cluster \in Int
  BY FileNumbers
<1> DEFINE first == start_cluster * bpc
           last == (clus + 1) * bpc
<1>5. first \in Nat /\ last \in Nat /\ ((clus + 1) - start_cluster) * bpc = last - first
  <2>1. ((clus + 1) - start_cluster) * bpc = (clus + 1) * bpc - start_cluster * bpc
    BY <1>3, <1>4, SMT
  <2>2. start_cluster * bpc \in Nat /\ (clus + 1) * bpc \in Nat
    BY <1>3, <1>4, SMT
  <2> QED BY <2>1, <2>2
<1>6. first =< offset
  <2>1. /\ offset \div bpc \in Int /\ offset % bpc \in 0 .. bpc - 1
        /\ offset = (offset \div bpc) * bpc + (offset % bpc)
    <3>1. offset \in Int
      BY <1>4
    <3> QED BY <3>1, <1>4, DividedIs, Zenon
  <2>2. first = (offset \div bpc) * bpc
    BY DEF start_cluster
  <2> HIDE DEF first
  <2>3. PICK r \in 0 .. bpc - 1 : offset = first + r
    BY <2>1, <2>2
  <2> QED BY <2>3, <1>4, <1>5
<1>7. offset + length - 1 < last
  <2>1. offset + length - 1 \in Int /\ clus + 1 \in Int
    BY <1>3, <1>4
  <2>2. (offset + length - 1) \div bpc < clus + 1
    BY <1>3, <1>4 DEF end_cluster
  <2> QED BY <2>1, <2>2, <1>4, QuotientBelow
<1>8. Len(buff) = last - first /\ \A b \in 1 .. last - first : buff[b] = LooksAt(first + b - 1)
  <2>1. /\ Len(buff) = ((clus + 1) - start_cluster) * bpc
        /\ \A b \in 1 .. Len(buff) : buff[b] = LooksAt(start_cluster * bpc + b - 1)
    BY <1>3 DEF Gathered
  <2>2. Len(buff) = last - first
    BY <2>1, <1>5
  <2> QED BY <2>1, <2>2
<1> HIDE DEF first, last
<1>9. ASSUME NEW b \in 1 .. length
      PROVE  buffer'[b] = LooksAt(offset + b - 1)
  <2> DEFINE d == offset - first + b
  <2>1. d \in 1 .. last - first /\ first + d - 1 = offset + b - 1
    BY <1>4, <1>5, <1>6, <1>7
  <2>2. buffer'[b] = buff[d]
    BY <1>1 DEF first
  <2> HIDE DEF d
  <2> QED BY <2>1, <2>2, <1>8
<1>10. \A b \in 1 .. length' : buffer'[b] = LooksAt(offset + b - 1)'
  BY <1>2, <1>9
<1> QED BY <1>1, <1>2, <1>3, <1>10 DEF FileInv

LEMMA FileStepInv == FileInv /\ [FatFileNext]_fileVars => FileInv'
<1> SUFFICES ASSUME FileInv, [FatFileNext]_fileVars PROVE FileInv'
  OBVIOUS
<1>1. CASE UNCHANGED fileVars
  <2>1. UNCHANGED given /\ UNCHANGED <<file_pc, clus, ahead, cluster_number, buff, buffer>>
    BY <1>1 DEF fileVars
  <2>2. /\ chain' = chain /\ spc' = spc /\ offset' = offset /\ length' = length
        /\ start_cluster' = start_cluster /\ end_cluster' = end_cluster
        /\ \A n : LooksAt(n)' = LooksAt(n)
    BY <2>1, AskedStays
  <2>3. /\ Gathered(buff, clus) => Gathered(buff, clus)'
        /\ Gathered(buff, clus + 1) => Gathered(buff, clus + 1)'
    BY <2>1, AskedStays DEF Gathered
  <2>4. ASSUME file_pc = "returned"
        PROVE  \A b \in 1 .. length' : buffer'[b] = LooksAt(offset + b - 1)'
    BY <2>1, <2>2, <2>4 DEF FileInv
  <2> QED BY <2>1, <2>2, <2>3, <2>4 DEF FileInv
<1> QED
  BY <1>1, OutsideInv, SkipAheadInv, ArriveInv, ReadClusterInv, CopyInv DEF FatFileNext

\* The walk along the chain is where the loop takes it to be, and what is gathered is
\* what the clusters hold (ksrc/fs/fat.c:369-408).
THEOREM FileInvariant == FatFileSpec => []FileInv
BY FileInitInv, FileStepInv, PTL DEF FatFileSpec

\* For every chain, size of clusters and sectors, offset and length: a read returns
\* exactly where the file has what is asked for, and then with the bytes the driver's
\* count of sectors leads to (ksrc/fs/fat.c:129-133, 369-408).
THEOREM ReadsRight == FatFileSpec => []ReadsExactly
<1>1. FileInv => ReadsFile
  <2> SUFFICES ASSUME FileInv, file_pc = "returned", NEW b \in 1 .. length
               PROVE  buffer[b] = [Place(offset + b - 1) EXCEPT ![1] = @ + 2 * (spc - 1)]
    BY DEF ReadsFile
  <2> DEFINE n == offset + b - 1
             c == chain[n \div bpc + 1]
             m == n % bpc
             x == m \div SectorSize
  <2>1. /\ spc \in Nat \ {0} /\ SectorSize \in Nat \ {0} /\ bpc \in Nat \ {0} /\ bpc = spc * SectorSize
        /\ offset \in Nat /\ length \in Nat /\ DataSector \in Nat /\ Len(chain) \in Nat
    BY FileNumbers
  <2>2. n \in Nat /\ length # 0
    BY <2>1
  <2>3. end_cluster < Len(chain) /\ end_cluster \in Int
    BY <2>2, FileNumbers DEF FileInv
  <2>4. n \div bpc \in Nat /\ n \div bpc < Len(chain)
    <3>1. n \in Int /\ offset + length - 1 \in Int /\ n =< offset + length - 1
      BY <2>1
    <3> HIDE DEF n
    <3>2. n \div bpc =< (offset + length - 1) \div bpc
      BY <3>1, <2>1, QuotientsOrdered
    <3>3. n \div bpc \in Nat
      BY <2>1, <2>2, NaturalDivided, Zenon
    <3> QED BY <3>2, <3>3, <2>1, <2>3 DEF end_cluster
  <2>5. c \in Nat
    <3>1. n \div bpc + 1 \in 1 .. Len(chain)
      BY <2>4, <2>1
    <3> HIDE DEF n
    <3> QED BY <3>1, FileNumbers
  <2>6. x \in Int /\ m % SectorSize = n % SectorSize
    <3>1. m \in Int
      BY <2>1, <2>2
    <3>2. n \in Int
      BY <2>2
    <3> HIDE DEF n
    <3>3. m % SectorSize = n % SectorSize
      BY <3>2, <2>1, RestOfRest, Zenon
    <3> HIDE DEF m
    <3>4. x \in Int
      BY <3>1, <2>1, DividedIs, Zenon
    <3> QED BY <3>3, <3>4
  <2>7. buffer[b] = LooksAt(n)
    BY DEF FileInv
  <2>8. LooksAt(n) = <<SectorOf(c) + x, m % SectorSize>>
    BY DEF LooksAt
  <2>9. Place(n) = <<DataSector + (c - 2) * spc + x, n % SectorSize>>
    BY DEF Place
  <2> HIDE DEF n, c, m, x
  <2>10. SectorOf(c) + x = DataSector + (c - 2) * spc + x + 2 * (spc - 1)
    <3>1. (c - 2) * spc = c * spc - 2 * spc /\ c * spc \in Int
      BY <2>1, <2>5, SMT
    <3> QED BY <3>1, <2>1, <2>5, <2>6 DEF SectorOf
  <2>11. [Place(n) EXCEPT ![1] = @ + 2 * (spc - 1)]
           = <<DataSector + (c - 2) * spc + x + 2 * (spc - 1), n % SectorSize>>
    BY <2>9
  <2>12. buffer[b] = [Place(n) EXCEPT ![1] = @ + 2 * (spc - 1)]
    BY <2>6, <2>7, <2>8, <2>10, <2>11
  <2> QED BY <2>12 DEF n
<1>2. FileInv => InsideFat
  <2> SUFFICES ASSUME FileInv PROVE InsideFat
    OBVIOUS
  <2> DEFINE n == offset + length - 1
             l == Len(chain)
             all == l * bpc
  <2>1. bpc \in Nat \ {0} /\ offset \in Nat /\ length \in Nat /\ l \in Nat /\ end_cluster \in Int
    BY FileNumbers
  <2>2. n \in Int /\ all \in Nat
    <3>1. all \in Nat
      BY <2>1, SMT
    <3> QED BY <3>1, <2>1
  <2>3. end_cluster < l <=> n < all
    <3>1. n \div bpc < l <=> n < l * bpc
      <4> HIDE DEF n, l
      <4>1. l \in Int
        BY <2>1
      <4> QED BY <2>1, <2>2, <4>1, QuotientBelow
    <3>2. end_cluster = n \div bpc
      BY DEF end_cluster
    <3> QED BY <3>1, <3>2
  <2>4. n < all <=> ~ (offset + length > all)
    <3> HIDE DEF all
    <3> QED BY <2>1, <2>2
  <2>5. file_pc = "outside" => length # 0 /\ l =< end_cluster
    BY DEF FileInv
  <2>6. file_pc = "returned" /\ length # 0 => end_cluster < l
    BY DEF FileInv
  <2>7. l =< end_cluster <=> ~ (end_cluster < l)
    BY <2>1
  <2> HIDE DEF n
  <2> QED BY <2>3, <2>4, <2>5, <2>6, <2>7 DEF InsideFat
<1> QED
  BY <1>1, <1>2, FileInvariant, PTL DEF ReadsExactly

-----------------------------------------------------------------------------
\* Streams.

Stream == [offset : 0 .. UintValues - 1, stream : Leftover, open : BOOLEAN]

\* The inductive invariant: nothing is taken but what was allocated, and the blocks
\* closed streams freed were (ksrc/fs/vfs.c:67-91).
StreamsInv ==
  /\ streams \in Seq([offset : 0 .. UintValues - 1, stream : Leftover, open : BOOLEAN])
  /\ wanted \in Seq(Unknown .. UintValues - 1) /\ Len(wanted) = Len(streams)
  /\ astray \in BOOLEAN
  /\ taken \subseteq UNION {Blocks(k) : k \in DOMAIN streams}
  /\ ~astray => \A k \in DOMAIN streams :
       ~streams[k].open => \E j \in DOMAIN streams : streams[k].stream \in Blocks(j)
  /\ StreamsApart

LEMMA StreamsInitInv == StreamsInit => StreamsInv
<1> SUFFICES ASSUME StreamsInit PROVE StreamsInv
  OBVIOUS
<1>1. streams = << >> /\ taken = {} /\ astray = FALSE /\ wanted = << >>
  BY DEF StreamsInit
<1>2. DOMAIN streams = {} /\ Len(wanted) = Len(streams)
  BY <1>1
<1>3. /\ streams \in Seq(Stream) /\ wanted \in Seq(Unknown .. UintValues - 1)
      /\ taken \subseteq UNION {Blocks(k) : k \in DOMAIN streams}
  BY <1>1
<1>4. SeeksAsAsked /\ FreesAtStalePointer
  BY <1>1, <1>2 DEF SeeksAsAsked, FreesAtStalePointer
<1> QED BY <1>1, <1>2, <1>3, <1>4 DEF StreamsInv, StreamsApart, Stream

\* A new stream is where its memory happens to say, at nobody's cost.
LEMMA OpenInv ==
  ASSUME StreamsInv, Open
  PROVE  StreamsInv'
<1> DEFINE n == Len(streams) + 1
<1>1. /\ streams \in Seq(Stream) /\ wanted \in Seq(Unknown .. UintValues - 1)
      /\ Len(wanted) = Len(streams) /\ ~astray
      /\ taken \subseteq UNION {Blocks(k) : k \in DOMAIN streams}
      /\ \A k \in DOMAIN streams :
            ~streams[k].open => \E j \in DOMAIN streams : streams[k].stream \in Blocks(j)
      /\ SeeksAsAsked /\ FreesAtStalePointer
  BY DEF StreamsInv, StreamsApart, Stream, Open
<1>2. PICK offset_ \in 0 .. UintValues - 1, stream_ \in Leftover :
        streams' = Append(streams, [offset |-> offset_, stream |-> stream_, open |-> TRUE])
  BY DEF Open
<1> DEFINE new == [offset |-> offset_, stream |-> stream_, open |-> TRUE]
<1>3. new \in Stream /\ new.open = TRUE
  BY DEF Stream
<1> HIDE DEF new
<1>4. /\ streams' \in Seq(Stream) /\ Len(streams') = n
      /\ \A k \in 1 .. Len(streams) : streams'[k] = streams[k]
      /\ streams'[n] = new
  BY <1>1, <1>2, <1>3, AppendProperties DEF new
<1>5. DOMAIN streams = 1 .. Len(streams) /\ DOMAIN streams' = 1 .. n /\ Len(streams) \in Nat
  BY <1>1, <1>4
<1>6. \A k \in DOMAIN streams' : k \in DOMAIN streams \/ k = n
  BY <1>5
<1>7. DOMAIN streams \subseteq DOMAIN streams' /\ n \in DOMAIN streams' /\ n \notin DOMAIN streams
  BY <1>5
<1>8. \A k \in DOMAIN streams : streams'[k] = streams[k]
  BY <1>4, <1>5
<1>9. /\ wanted' = Append(wanted, Unknown) /\ astray' = FALSE
      /\ taken' = taken \cup Blocks(n)
  BY <1>1, <1>4 DEF Open
<1>10. /\ wanted' \in Seq(Unknown .. UintValues - 1) /\ Len(wanted') = n
       /\ \A k \in DOMAIN streams : wanted'[k] = wanted[k]
       /\ wanted'[n] = Unknown
  <2>1. Unknown \in Unknown .. UintValues - 1
    BY StreamsAssumption DEF Unknown
  <2> QED BY <2>1, <1>1, <1>5, <1>9, AppendProperties
<1>11. taken' \subseteq UNION {Blocks(k) : k \in DOMAIN streams'}
  BY <1>1, <1>7, <1>9
<1>12. SeeksAsAsked'
  BY <1>1, <1>6, <1>8, <1>10 DEF SeeksAsAsked
<1>13. \A k \in DOMAIN streams' :
         ~streams'[k].open => \E j \in DOMAIN streams' : streams'[k].stream \in Blocks(j)
  BY <1>1, <1>3, <1>4, <1>6, <1>7, <1>8
<1>14. \A b : ClosedBy(b)' <=> ClosedBy(b)
  BY <1>3, <1>4, <1>6, <1>7, <1>8 DEF ClosedBy
<1>15. \A b \in Blocks(n) : ~ClosedBy(b)
  <2>1. \A k \in DOMAIN streams : k # n
    BY <1>7
  <2>2. \A j \in DOMAIN streams : Blocks(j) \cap Blocks(n) = {}
    BY <2>1 DEF Blocks
  <2> QED BY <2>2, <1>1 DEF ClosedBy
<1>16. ASSUME NEW k \in DOMAIN streams', NEW b \in Blocks(k)
       PROVE  b \in taken' <=> (streams'[k].open \/ b = <<k, "stream">>) /\ ~ClosedBy(b)'
  <2>1. CASE k = n
    BY <2>1, <1>3, <1>4, <1>9, <1>14, <1>15
  <2>2. CASE k \in DOMAIN streams
    <3>1. k # n
      BY <2>2, <1>7
    <3>2. b \notin Blocks(n)
      BY <3>1 DEF Blocks
    <3>3. b \in taken <=> (streams[k].open \/ b = <<k, "stream">>) /\ ~ClosedBy(b)
      BY <2>2, <1>1 DEF FreesAtStalePointer
    <3> QED BY <2>2, <3>2, <3>3, <1>8, <1>9, <1>14
  <2> QED BY <2>1, <2>2, <1>6
<1>17. FreesAtStalePointer'
  BY <1>9, <1>16 DEF FreesAtStalePointer
<1> QED BY <1>4, <1>9, <1>10, <1>11, <1>12, <1>13, <1>17 DEF StreamsInv, StreamsApart, Stream

\* The fields of the streams after one of them was moved.
LEMMA OffsetSet ==
  ASSUME streams \in Seq(Stream), NEW k \in DOMAIN streams, NEW o \in 0 .. UintValues - 1,
         streams' = [streams EXCEPT ![k].offset = o]
  PROVE  /\ streams' \in Seq(Stream) /\ DOMAIN streams' = DOMAIN streams
         /\ Len(streams') = Len(streams) /\ streams'[k].offset = o
         /\ \A j \in DOMAIN streams : /\ streams'[j].stream = streams[j].stream
                                      /\ streams'[j].open = streams[j].open
                                      /\ j # k => streams'[j] = streams[j]
<1> DEFINE r == [streams[k] EXCEPT !.offset = o]
<1>1. r \in Stream /\ r.offset = o /\ r.stream = streams[k].stream /\ r.open = streams[k].open
  <2>1. streams[k] \in Stream
    OBVIOUS
  <2> QED BY <2>1 DEF Stream
<1>2. streams' = [streams EXCEPT ![k] = r]
  OBVIOUS
<1> HIDE DEF r
<1>3. /\ streams' \in Seq(Stream) /\ DOMAIN streams' = DOMAIN streams /\ Len(streams') = Len(streams)
      /\ streams'[k] = r
      /\ \A j \in DOMAIN streams : j # k => streams'[j] = streams[j]
  BY <1>1, <1>2
<1> QED BY <1>1, <1>3

\* A seek moves its stream to where it should be, and nothing else.
LEMMA SeekInv ==
  ASSUME StreamsInv, NEW k \in DOMAIN streams, NEW o \in 0 .. UintValues - 1,
         NEW want \in Unknown .. 2 * UintValues, SeekTo(k, o, want),
         0 =< want /\ want < UintValues => o = want
  PROVE  StreamsInv'
<1>1. /\ streams \in Seq(Stream) /\ wanted \in Seq(Unknown .. UintValues - 1)
      /\ Len(wanted) = Len(streams) /\ astray \in BOOLEAN
      /\ taken \subseteq UNION {Blocks(j) : j \in DOMAIN streams}
      /\ ~astray => \A j \in DOMAIN streams :
            ~streams[j].open => \E l \in DOMAIN streams : streams[j].stream \in Blocks(l)
      /\ SeeksAsAsked /\ FreesAtStalePointer
  BY DEF StreamsInv, StreamsApart, Stream
<1> DEFINE w == IF want < UintValues THEN want ELSE Unknown
<1>2. /\ streams' = [streams EXCEPT ![k].offset = o]
      /\ wanted' = [wanted EXCEPT ![k] = w]
      /\ taken' = taken /\ astray' = astray
  BY DEF SeekTo
<1>3. w \in Unknown .. UintValues - 1 /\ (w # Unknown => o = w)
  BY StreamsAssumption DEF Unknown
<1> HIDE DEF w
<1>4. /\ streams' \in Seq(Stream) /\ DOMAIN streams' = DOMAIN streams
      /\ Len(streams') = Len(streams) /\ streams'[k].offset = o
      /\ \A j \in DOMAIN streams : /\ streams'[j].stream = streams[j].stream
                                   /\ streams'[j].open = streams[j].open
                                   /\ j # k => streams'[j] = streams[j]
  BY <1>1, <1>2, OffsetSet
<1>5. /\ wanted' \in Seq(Unknown .. UintValues - 1) /\ Len(wanted') = Len(wanted)
      /\ wanted'[k] = w
      /\ \A j \in DOMAIN streams : j # k => wanted'[j] = wanted[j]
  <2>1. DOMAIN wanted = DOMAIN streams
    BY <1>1
  <2> QED BY <2>1, <1>1, <1>2, <1>3
<1>6. SeeksAsAsked'
  <2>1. SUFFICES ASSUME NEW j \in DOMAIN streams, wanted'[j] # Unknown
                 PROVE  streams'[j].offset = wanted'[j]
    BY <1>4 DEF SeeksAsAsked
  <2>2. CASE j = k
    BY <2>1, <2>2, <1>3, <1>4, <1>5
  <2>3. CASE j # k
    <3>1. wanted'[j] = wanted[j] /\ streams'[j] = streams[j]
      BY <2>3, <1>4, <1>5
    <3> QED BY <2>1, <3>1, <1>1 DEF SeeksAsAsked
  <2> QED BY <2>2, <2>3
<1>7. ASSUME NEW b
      PROVE  ClosedBy(b)' <=> ClosedBy(b)
  <2>1. \A j \in DOMAIN streams : streams'[j].stream = streams[j].stream /\ streams'[j].open = streams[j].open
    BY <1>4
  <2> QED BY <2>1, <1>4 DEF ClosedBy
<1>8. FreesAtStalePointer'
  BY <1>1, <1>2, <1>4, <1>7 DEF FreesAtStalePointer
<1>9. astray' \in BOOLEAN /\ taken' \subseteq UNION {Blocks(j) : j \in DOMAIN streams'}
      /\ (~astray' => \A j \in DOMAIN streams' :
            ~streams'[j].open => \E l \in DOMAIN streams' : streams'[j].stream \in Blocks(l))
  BY <1>1, <1>2, <1>4
<1> QED BY <1>1, <1>4, <1>5, <1>6, <1>8, <1>9 DEF StreamsInv, StreamsApart, Stream

\* The streams after one of them was closed.
LEMMA ClosedIs ==
  ASSUME streams \in Seq(Stream), NEW k \in DOMAIN streams,
         streams' = [streams EXCEPT ![k].open = FALSE]
  PROVE  /\ streams' \in Seq(Stream) /\ DOMAIN streams' = DOMAIN streams
         /\ Len(streams') = Len(streams) /\ streams'[k].open = FALSE
         /\ \A j \in DOMAIN streams : streams'[j].stream = streams[j].stream
         /\ \A j \in DOMAIN streams : streams'[j].offset = streams[j].offset
         /\ \A j \in DOMAIN streams : j # k => streams'[j] = streams[j]
<1> DEFINE r == [streams[k] EXCEPT !.open = FALSE]
<1>1. r \in Stream /\ r.offset = streams[k].offset /\ r.stream = streams[k].stream /\ r.open = FALSE
  <2>1. streams[k] \in Stream
    OBVIOUS
  <2> QED BY <2>1 DEF Stream
<1>2. streams' = [streams EXCEPT ![k] = r]
  OBVIOUS
<1> HIDE DEF r
<1>3. /\ DOMAIN streams' = DOMAIN streams /\ streams'[k] = r
      /\ \A j \in DOMAIN streams : j # k => streams'[j] = streams[j]
  BY <1>2, Zenon
<1>4. streams \in [1 .. Len(streams) -> Stream] /\ Len(streams) \in Nat /\ DOMAIN streams = 1 .. Len(streams)
  OBVIOUS
<1>5. streams' \in [1 .. Len(streams) -> Stream]
  BY <1>1, <1>2, <1>4, Zenon
<1>6. streams' \in Seq(Stream) /\ Len(streams') = Len(streams)
  BY <1>4, <1>5
<1> QED BY <1>1, <1>3, <1>6

\* A close frees its path, its state, and what its stale pointer names: if that is
\* nothing it has, the heap is astray.
LEMMA CloseFrees ==
  ASSUME NEW k \in DOMAIN streams, Close(k)
  PROVE  LET s == streams[k].stream IN
         /\ taken' = taken \ {<<k, "path">>, s, <<k, "state">>}
         /\ astray' <=> \/ <<k, "path">> \notin taken
                        \/ s \notin taken \ {<<k, "path">>}
                        \/ <<k, "state">> \notin taken \ {<<k, "path">>, s}
<1> DEFINE s == streams[k].stream
           freed == <<<<k, "path">>, s, <<k, "state">>>>
           Before(j) == {freed[l] : l \in 1 .. j - 1}
<1>1. freed = FreedByClose(k)
  BY DEF FreedByClose
<1>2. /\ taken' = taken \ {freed[j] : j \in DOMAIN freed}
      /\ astray' = \E j \in DOMAIN freed : freed[j] \notin taken \ Before(j)
  BY <1>1 DEF Close
<1>3. DOMAIN freed = {1, 2, 3} /\ freed[1] = <<k, "path">> /\ freed[2] = s /\ freed[3] = <<k, "state">>
  OBVIOUS
<1> HIDE DEF s, freed
<1>4. {freed[j] : j \in DOMAIN freed} = {<<k, "path">>, s, <<k, "state">>}
  BY <1>3
<1>5. Before(1) = {} /\ Before(2) = {<<k, "path">>} /\ Before(3) = {<<k, "path">>, s}
  <2>1. 1 .. 1 - 1 = {} /\ 1 .. 2 - 1 = {1} /\ 1 .. 3 - 1 = {1, 2}
    BY SMT
  <2> QED BY <2>1, <1>3
<1> HIDE DEF Before
<1>6. astray' <=> \E j \in {1, 2, 3} : freed[j] \notin taken \ Before(j)
  BY <1>2, <1>3
<1>7. astray' <=> \/ freed[1] \notin taken \ Before(1)
                  \/ freed[2] \notin taken \ Before(2)
                  \/ freed[3] \notin taken \ Before(3)
  BY <1>6
<1> QED BY <1>2, <1>3, <1>4, <1>5, <1>7 DEF s

LEMMA CloseInv ==
  ASSUME StreamsInv, NEW k \in DOMAIN streams, Close(k)
  PROVE  StreamsInv'
<1> DEFINE s == streams[k].stream
<1>1. /\ streams \in Seq(Stream) /\ wanted \in Seq(Unknown .. UintValues - 1)
      /\ Len(wanted) = Len(streams) /\ astray \in BOOLEAN
      /\ taken \subseteq UNION {Blocks(j) : j \in DOMAIN streams}
      /\ ~astray => \A j \in DOMAIN streams :
            ~streams[j].open => \E l \in DOMAIN streams : streams[j].stream \in Blocks(l)
      /\ SeeksAsAsked /\ FreesAtStalePointer
  BY DEF StreamsInv, StreamsApart, Stream
<1>2. /\ ~astray /\ streams[k].open
      /\ <<k, "stream">> \in taken /\ <<k, "state">> \in taken
      /\ wanted' = wanted
  BY DEF Close, Usable
<1>3. /\ streams' \in Seq(Stream) /\ DOMAIN streams' = DOMAIN streams
      /\ Len(streams') = Len(streams) /\ streams'[k].open = FALSE
      /\ \A j \in DOMAIN streams : streams'[j].stream = streams[j].stream
      /\ \A j \in DOMAIN streams : streams'[j].offset = streams[j].offset
      /\ \A j \in DOMAIN streams : j # k => streams'[j] = streams[j]
  BY <1>1, ClosedIs DEF Close
<1>4. /\ taken' = taken \ {<<k, "path">>, s, <<k, "state">>}
      /\ astray' <=> \/ <<k, "path">> \notin taken
                     \/ s \notin taken \ {<<k, "path">>}
                     \/ <<k, "state">> \notin taken \ {<<k, "path">>, s}
  BY CloseFrees
<1>5. astray' \in BOOLEAN
  BY DEF Close
<1> HIDE DEF s
<1>6. SeeksAsAsked'
  BY <1>1, <1>2, <1>3 DEF SeeksAsAsked
<1>7. ASSUME NEW b
      PROVE  ClosedBy(b)' <=> ClosedBy(b) \/ s = b
  <2>1. ASSUME NEW j \in DOMAIN streams, ~streams[j].open, streams[j].stream = b
        PROVE  ClosedBy(b)'
    <3>1. j # k /\ streams'[j].open = streams[j].open
      BY <2>1, <1>2, <1>3
    <3> QED BY <2>1, <3>1, <1>3 DEF ClosedBy
  <2>2. s = b => ClosedBy(b)'
    BY <1>3 DEF ClosedBy, s
  <2>3. ASSUME NEW j \in DOMAIN streams, ~streams'[j].open, streams'[j].stream = b, j # k
        PROVE  ClosedBy(b)
    BY <2>3, <1>3 DEF ClosedBy
  <2>4. ASSUME streams'[k].stream = b
        PROVE  s = b
    BY <2>4, <1>3 DEF s
  <2>5. ClosedBy(b)' => ClosedBy(b) \/ s = b
    BY <2>3, <2>4, <1>3 DEF ClosedBy
  <2> QED BY <2>1, <2>2, <2>5 DEF ClosedBy
<1>8. ASSUME NEW j \in DOMAIN streams, NEW b \in Blocks(j), ~astray'
      PROVE  b \in taken' <=> (streams'[j].open \/ b = <<j, "stream">>) /\ ~ClosedBy(b)'
  <2>1. b \in taken <=> (streams[j].open \/ b = <<j, "stream">>) /\ ~ClosedBy(b)
    BY <1>1, <1>2 DEF FreesAtStalePointer
  <2>2. CASE j = k
    <3>1. b \in {<<k, "path">>, <<k, "state">>, <<k, "stream">>}
      BY <2>2 DEF Blocks
    <3>2. <<k, "stream">> # <<k, "path">> /\ <<k, "stream">> # <<k, "state">>
      OBVIOUS
    <3> QED BY <2>1, <2>2, <3>1, <3>2, <1>2, <1>3, <1>4, <1>7
  <2>3. CASE j # k
    <3>1. b # <<k, "path">> /\ b # <<k, "state">>
      BY <2>3 DEF Blocks
    <3>2. streams'[j] = streams[j]
      BY <2>3, <1>3
    <3> QED BY <2>1, <3>1, <3>2, <1>4, <1>7
  <2> QED BY <2>2, <2>3
<1>9. ASSUME astray'
      PROVE  \E j \in DOMAIN streams : ~streams'[j].open /\ streams'[j].stream # <<j, "stream">>
  <2>1. CASE s # <<k, "stream">>
    BY <2>1, <1>3 DEF s
  <2>2. CASE s = <<k, "stream">>
    <3>1. <<k, "path">> \notin taken
      BY <2>2, <1>2, <1>4, <1>9
    <3>2. ClosedBy(<<k, "path">>)
      BY <3>1, <1>1, <1>2 DEF FreesAtStalePointer, Blocks
    <3>3. PICK j \in DOMAIN streams : ~streams[j].open /\ streams[j].stream = <<k, "path">>
      BY <3>2 DEF ClosedBy
    <3>4. j # k /\ <<k, "path">> # <<j, "stream">>
      BY <3>3, <1>2
    <3>5. streams'[j] = streams[j]
      BY <3>4, <1>3
    <3> QED BY <3>3, <3>4, <3>5
  <2> QED BY <2>1, <2>2
<1>10. FreesAtStalePointer'
  BY <1>3, <1>8, <1>9 DEF FreesAtStalePointer
<1>11. taken' \subseteq UNION {Blocks(j) : j \in DOMAIN streams'}
  BY <1>1, <1>3, <1>4
<1>12. ASSUME ~astray', NEW j \in DOMAIN streams, ~streams'[j].open
       PROVE  \E l \in DOMAIN streams : streams'[j].stream \in Blocks(l)
  <2>1. CASE j = k
    <3>1. s \in taken
      BY <1>4, <1>12
    <3> QED BY <2>1, <3>1, <1>1, <1>3 DEF s
  <2>2. CASE j # k
    BY <2>2, <1>1, <1>2, <1>3, <1>12
  <2> QED BY <2>1, <2>2
<1> QED BY <1>1, <1>2, <1>3, <1>5, <1>6, <1>10, <1>11, <1>12 DEF StreamsInv, StreamsApart, Stream

\* Where the two relative seeks lead, and where they should.
LEMMA MovedStays ==
  ASSUME NEW o \in 0 .. UintValues - 1, NEW n \in -UintValues .. UintValues - 1
  PROVE  /\ Added(o, n) \in 0 .. UintValues - 1
         /\ NotNegative(n) \in 0 .. UintValues - 1
         /\ NotNegative(o + n) \in Nat /\ NotNegative(o + n) =< 2 * UintValues
         /\ NotNegative(o + n) < UintValues => Added(o, n) = NotNegative(o + n)
<1>1. UintValues \in Nat \ {0}
  BY StreamsAssumption
<1>2. o + n \in Int /\ (o + n) % UintValues \in 0 .. UintValues - 1
  <2>1. o + n \in Int
    BY <1>1
  <2> QED BY <2>1, <1>1, DividedIs, Zenon
<1>3. ASSUME o + n \in 0 .. UintValues - 1
      PROVE  (o + n) % UintValues = o + n
  <2>1. 0 * UintValues + (o + n) = o + n
    BY <1>1, <1>2, SMT
  <2>2. 0 \in Int /\ (0 * UintValues + (o + n)) % UintValues = o + n
    BY <1>1, <1>3, QuotientIs
  <2> QED BY <2>1, <2>2
<1>4. Added(o, n) \in 0 .. UintValues - 1
  BY <1>1, <1>2 DEF Added
<1>5. NotNegative(n) \in 0 .. UintValues - 1 /\ NotNegative(o + n) \in Nat
      /\ NotNegative(o + n) =< 2 * UintValues
  BY <1>1, <1>2 DEF NotNegative
<1>6. ASSUME NotNegative(o + n) < UintValues
      PROVE  Added(o, n) = NotNegative(o + n)
  <2>1. CASE n < 0 /\ -n > o
    BY <1>1, <2>1 DEF Added, NotNegative
  <2>2. CASE ~ (n < 0 /\ -n > o)
    <3>1. o + n >= 0 /\ NotNegative(o + n) = o + n
      BY <1>1, <2>2 DEF NotNegative
    <3>2. o + n \in 0 .. UintValues - 1
      BY <1>1, <1>2, <1>6, <3>1
    <3> QED BY <2>2, <3>1, <3>2, <1>3 DEF Added
  <2> QED BY <2>1, <2>2
<1> QED BY <1>4, <1>5, <1>6

LEMMA StreamsStepInv == StreamsInv /\ [StreamsNext]_streamsVars => StreamsInv'
<1> SUFFICES ASSUME StreamsInv, [StreamsNext]_streamsVars PROVE StreamsInv'
  OBVIOUS
<1>1. /\ UintValues \in Nat \ {0} /\ FileSize \in 0 .. UintValues - 1
      /\ Seeks \subseteq -UintValues .. UintValues - 1 /\ Unknown = -1
  BY StreamsAssumption DEF Unknown
<1>2. ASSUME NEW k \in DOMAIN streams
      PROVE  /\ streams[k].offset \in 0 .. UintValues - 1
             /\ wanted[k] \in -1 .. UintValues - 1
             /\ wanted[k] # Unknown => streams[k].offset = wanted[k]
  <2>1. /\ streams \in Seq(Stream) /\ wanted \in Seq(Unknown .. UintValues - 1)
        /\ Len(wanted) = Len(streams)
    BY DEF StreamsInv, Stream
  <2>2. streams[k] \in Stream
    BY <2>1
  <2>3. wanted[k] \in Unknown .. UintValues - 1
    <3> DEFINE T == Unknown .. UintValues - 1
    <3> HIDE DEF T
    <3>1. wanted \in Seq(T) /\ k \in DOMAIN wanted
      BY <2>1 DEF T
    <3>2. wanted[k] \in T
      BY <3>1
    <3> QED BY <3>2 DEF T
  <2> QED BY <2>2, <2>3, <1>1 DEF StreamsInv, StreamsApart, SeeksAsAsked, Stream
<1>3. ASSUME NEW k \in DOMAIN streams, NEW n \in Seeks, SeekSet(k, n)
      PROVE  StreamsInv'
  <2>1. NotNegative(n) \in 0 .. UintValues - 1
    BY <1>1, MovedStays
  <2>2. NotNegative(n) \in Unknown .. 2 * UintValues
    BY <2>1, <1>1
  <2>3. SeekTo(k, NotNegative(n), NotNegative(n))
    BY <1>3 DEF SeekSet
  <2> QED BY <2>1, <2>2, <2>3, SeekInv
<1>4. ASSUME NEW k \in DOMAIN streams, NEW n \in Seeks, SeekCur(k, n)
      PROVE  StreamsInv'
  <2> DEFINE o == Added(streams[k].offset, n)
             want == IF wanted[k] = Unknown THEN Unknown ELSE NotNegative(wanted[k] + n)
  <2>1. o \in 0 .. UintValues - 1
    BY <1>1, <1>2, MovedStays
  <2>2. want \in Unknown .. 2 * UintValues /\ (0 =< want /\ want < UintValues => o = want)
    <3>1. CASE wanted[k] = Unknown
      BY <3>1, <1>1
    <3>2. CASE wanted[k] # Unknown
      <4>1. streams[k].offset = wanted[k] /\ want = NotNegative(wanted[k] + n)
            /\ wanted[k] \in 0 .. UintValues - 1
        BY <1>2, <3>2
      <4>2. /\ NotNegative(wanted[k] + n) \in Nat /\ NotNegative(wanted[k] + n) =< 2 * UintValues
            /\ NotNegative(wanted[k] + n) < UintValues
                 => Added(wanted[k], n) = NotNegative(wanted[k] + n)
        BY <4>1, <1>1, MovedStays
      <4> HIDE DEF want
      <4>3. want \in Nat /\ want =< 2 * UintValues /\ (want < UintValues => o = want)
        BY <4>1, <4>2
      <4> QED BY <4>3, <1>1
    <3> QED BY <3>1, <3>2
  <2>3. SeekTo(k, o, want)
    BY <1>4 DEF SeekCur
  <2> HIDE DEF o, want
  <2> QED BY <2>1, <2>2, <2>3, SeekInv
<1>5. ASSUME NEW k \in DOMAIN streams, SeekEnd(k)
      PROVE  StreamsInv'
  <2>1. SeekTo(k, FileSize, FileSize) /\ FileSize \in Unknown .. 2 * UintValues
    BY <1>1, <1>5 DEF SeekEnd
  <2> QED BY <2>1, <1>1, SeekInv
<1>6. CASE UNCHANGED streamsVars
  <2>1. streams' = streams /\ taken' = taken /\ astray' = astray /\ wanted' = wanted
    BY <1>6 DEF streamsVars
  <2> QED BY <2>1 DEF StreamsInv, StreamsApart, SeeksAsAsked, FreesAtStalePointer, ClosedBy
<1> QED BY <1>3, <1>4, <1>5, <1>6, OpenInv, CloseInv DEF StreamsNext

\* For every size of an unsigned int and however many streams are opened: a stream
\* is where its seeks lead, and the blocks in use are those of the open streams, of
\* closed ones what their stale pointers left, and no other.
THEOREM StreamsStayApart == StreamsSpec => []StreamsApart
<1>1. StreamsInv => StreamsApart
  BY DEF StreamsInv
<1> QED BY <1>1, StreamsInitInv, StreamsStepInv, PTL DEF StreamsSpec

-----------------------------------------------------------------------------
\* Directories.

\* What the assumption says of the volume at hand.
LEMMA VolumeIs ==
  ASSUME volume \in Volumes
  PROVE  /\ Root \in DOMAIN volume /\ 0 \in DOMAIN volume
         /\ \A d \in DOMAIN volume :
              /\ Len(volume[d]) \in Nat /\ DOMAIN volume[d] = 1 .. Len(volume[d])
              /\ Filled(d) \subseteq 1 .. Len(volume[d])
              /\ \A k \in Filled(d) : volume[d][k].dir \in BOOLEAN
              /\ \A k \in Filled(d) : volume[d][k].dir => volume[d][k].first \in DOMAIN volume
              /\ \A j, k \in Filled(d) : volume[d][j].name = volume[d][k].name => j = k
<1>1. /\ {Root, 0} \subseteq DOMAIN volume
      /\ \A d \in DOMAIN volume :
           /\ Len(volume[d]) \in Nat /\ DOMAIN volume[d] = 1 .. Len(volume[d])
           /\ \A k \in DOMAIN volume[d] : Used(volume[d][k]) =>
                /\ volume[d][k].dir \in BOOLEAN
                /\ volume[d][k].dir => volume[d][k].first \in DOMAIN volume
                /\ \A j \in 1 .. k - 1 :
                     Used(volume[d][j]) /\ volume[d][j].name = volume[d][k].name =>
                       \E l \in 1 .. k : volume[d][l].mark = "end"
  BY DirectoryAssumption
<1>2. ASSUME NEW d \in DOMAIN volume
      PROVE  /\ Filled(d) \subseteq 1 .. Len(volume[d])
             /\ \A k \in Filled(d) : volume[d][k].dir \in BOOLEAN
             /\ \A k \in Filled(d) : volume[d][k].dir => volume[d][k].first \in DOMAIN volume
  BY <1>1 DEF Filled
<1>3. ASSUME NEW d \in DOMAIN volume, NEW j \in Filled(d), NEW k \in Filled(d), j < k,
             volume[d][j].name = volume[d][k].name
      PROVE  FALSE
  <2>1. j \in 1 .. k - 1 /\ k \in DOMAIN volume[d] /\ Used(volume[d][j]) /\ Used(volume[d][k])
    BY <1>1, <1>2, <1>3 DEF Filled
  <2>2. \A l \in 1 .. k : volume[d][l].mark # "end"
    BY DEF Filled
  <2> QED BY <1>1, <1>3, <2>1, <2>2
<1>4. ASSUME NEW d \in DOMAIN volume, NEW j \in Filled(d), NEW k \in Filled(d),
             volume[d][j].name = volume[d][k].name
      PROVE  j = k
  <2>1. j \in Int /\ k \in Int
    BY <1>2
  <2>2. ~ (j < k) /\ ~ (k < j)
    BY <1>3, <1>4
  <2> QED BY <2>1, <2>2
<1> QED BY <1>1, <1>2, <1>4

\* A directory names an entry once.
LEMMA NamedOnce ==
  ASSUME volume \in Volumes, NEW d \in DOMAIN volume, NEW k \in Filled(d)
  PROVE  Named(d, volume[d][k].name) = {volume[d][k]}
BY VolumeIs DEF Named

LEMMA NamedKnown ==
  ASSUME NEW d \in DOMAIN volume, NEW n
  PROVE  Named(d, n) \subseteq Known
BY DEF Named, Known

\* Known directories are on the volume.
LEMMA KnownLeads ==
  ASSUME volume \in Volumes, NEW e \in Known
  PROVE  e.dir \in BOOLEAN /\ (e.dir => e.first \in DOMAIN volume)
BY VolumeIs DEF Known

\* What is asked does not change, nor what the path denotes.
LEMMA SoughtStays ==
  ASSUME UNCHANGED <<volume, sought, op>>
  PROVE  /\ volume' = volume /\ sought' = sought /\ op' = op
         /\ \A d : Filled(d)' = Filled(d)
         /\ Known' = Known
         /\ \A k : Denoted(k)' = Denoted(k)
         /\ ThroughWiped' <=> ThroughWiped
<1>1. volume' = volume /\ sought' = sought /\ op' = op
  OBVIOUS
<1>2. \A d : Filled(d)' = Filled(d)
  BY <1>1 DEF Filled, Used
<1>3. \A d, n : Named(d, n)' = Named(d, n)
  BY <1>1, <1>2 DEF Named
<1>4. Known' = Known
  BY <1>1, <1>2 DEF Known
<1>5. \A k : Ways(k)' = Ways(k)
  BY <1>1, <1>3, <1>4 DEF Ways
<1>6. \A k : Denoted(k)' = Denoted(k)
  BY <1>5 DEF Denoted
<1>7. ThroughWiped' <=> ThroughWiped
  BY <1>1, <1>6 DEF ThroughWiped
<1> QED BY <1>1, <1>2, <1>4, <1>6, <1>7

-----------------------------------------------------------------------------
\* What a path denotes.

LEMMA FirstDenoted ==
  ASSUME volume \in Volumes
  PROVE  Denoted(1) = Named(Root, sought[1])
<1>1. Named(Root, sought[1]) \subseteq Known
  BY VolumeIs, NamedKnown
<1>2. ASSUME NEW e \in Denoted(1)
      PROVE  e \in Named(Root, sought[1])
  BY DEF Denoted, Ways
<1>3. ASSUME NEW e \in Named(Root, sought[1])
      PROVE  e \in Denoted(1)
  <2> DEFINE w == [j \in 1 .. 1 |-> e]
  <2>1. w \in [1 .. 1 -> Known] /\ w[1] = e /\ 2 .. 1 = {}
    BY <1>1, SMT
  <2> HIDE DEF w
  <2>2. w \in Ways(1)
    BY <2>1 DEF Ways
  <2> QED BY <2>1, <2>2 DEF Denoted
<1> QED BY <1>2, <1>3

\* The next name leads on from what the ones before denote.
LEMMA NextDenoted ==
  ASSUME volume \in Volumes, NEW k \in Nat \ {0}
  PROVE  Denoted(k + 1) = UNION {Named(e.first, sought[k + 1]) : e \in {f \in Denoted(k) : f.dir}}
<1>1. ASSUME NEW e \in Denoted(k + 1)
      PROVE  \E f \in Denoted(k) : f.dir /\ e \in Named(f.first, sought[k + 1])
  <2>1. PICK w \in Ways(k + 1) : e = w[k + 1]
    BY DEF Denoted
  <2>2. /\ w \in [1 .. k + 1 -> Known] /\ w[1] \in Named(Root, sought[1])
        /\ \A j \in 2 .. k + 1 : w[j - 1].dir /\ w[j] \in Named(w[j - 1].first, sought[j])
    BY DEF Ways
  <2> DEFINE v == [j \in 1 .. k |-> w[j]]
  <2>3. v \in [1 .. k -> Known] /\ \A j \in 1 .. k : v[j] = w[j]
    BY <2>2
  <2> HIDE DEF v
  <2>4. v[1] = w[1] /\ v[k] = w[k] /\ \A j \in 2 .. k : v[j] = w[j] /\ v[j - 1] = w[j - 1]
    BY <2>3
  <2>5. v \in Ways(k)
    BY <2>2, <2>3, <2>4 DEF Ways
  <2>6. w[k + 1 - 1].dir /\ w[k + 1] \in Named(w[k + 1 - 1].first, sought[k + 1])
    BY <2>2
  <2>7. k + 1 - 1 = k
    OBVIOUS
  <2>8. v[k].dir /\ e \in Named(v[k].first, sought[k + 1])
    BY <2>1, <2>4, <2>6, <2>7
  <2> QED BY <2>5, <2>8 DEF Denoted
<1>2. ASSUME NEW f \in Denoted(k), f.dir, NEW e \in Named(f.first, sought[k + 1])
      PROVE  e \in Denoted(k + 1)
  <2>1. PICK w \in Ways(k) : f = w[k]
    BY DEF Denoted
  <2>2. /\ w \in [1 .. k -> Known] /\ w[1] \in Named(Root, sought[1])
        /\ \A j \in 2 .. k : w[j - 1].dir /\ w[j] \in Named(w[j - 1].first, sought[j])
    BY DEF Ways
  <2>3. e \in Known
    <3>1. f \in Known
      BY <2>1, <2>2
    <3> QED BY <3>1, <1>2, KnownLeads, NamedKnown
  <2> DEFINE v == [j \in 1 .. k + 1 |-> IF j = k + 1 THEN e ELSE w[j]]
  <2>4. /\ v \in [1 .. k + 1 -> Known] /\ v[k + 1] = e
        /\ \A j \in 1 .. k : v[j] = w[j]
    BY <2>2, <2>3
  <2> HIDE DEF v
  <2>5. v[1] \in Named(Root, sought[1])
    BY <2>2, <2>4
  <2>6. ASSUME NEW j \in 2 .. k + 1
        PROVE  v[j - 1].dir /\ v[j] \in Named(v[j - 1].first, sought[j])
    <3>1. j - 1 \in 1 .. k
      OBVIOUS
    <3>2. v[j - 1] = w[j - 1]
      BY <3>1, <2>4
    <3>3. CASE j = k + 1
      <4>1. j - 1 = k
        BY <3>3
      <4> QED BY <4>1, <3>2, <3>3, <2>1, <2>4, <1>2
    <3>4. CASE j # k + 1
      <4>1. j \in 2 .. k /\ j \in 1 .. k
        BY <3>4
      <4> QED BY <4>1, <3>2, <2>2, <2>4
    <3> QED BY <3>3, <3>4
  <2>7. v \in Ways(k + 1)
    BY <2>4, <2>5, <2>6 DEF Ways
  <2> QED BY <2>4, <2>7 DEF Denoted
<1> QED BY <1>1, <1>2

\* What a whole path denotes lies behind something each part of it denotes.
LEMMA EarlierDenoted ==
  ASSUME NEW m \in Nat, NEW k \in 1 .. m, NEW e \in Denoted(m)
  PROVE  \E f \in Denoted(k) : k # m => f.dir
<1>1. PICK w \in Ways(m) : e = w[m]
  BY DEF Denoted
<1>2. /\ w \in [1 .. m -> Known] /\ w[1] \in Named(Root, sought[1])
      /\ \A j \in 2 .. m : w[j - 1].dir /\ w[j] \in Named(w[j - 1].first, sought[j])
  BY DEF Ways
<1> DEFINE v == [j \in 1 .. k |-> w[j]]
<1>3. v \in [1 .. k -> Known] /\ \A j \in 1 .. k : v[j] = w[j]
  BY <1>2
<1> HIDE DEF v
<1>4. v[1] = w[1] /\ v[k] = w[k]
  BY <1>3
<1>5. ASSUME NEW j \in 2 .. k
      PROVE  v[j - 1].dir /\ v[j] \in Named(v[j - 1].first, sought[j])
  <2>1. j \in 2 .. m /\ j \in 1 .. k /\ j - 1 \in 1 .. k
    OBVIOUS
  <2> QED BY <2>1, <1>2, <1>3
<1>6. v \in Ways(k)
  BY <1>2, <1>3, <1>4, <1>5 DEF Ways
<1>7. ASSUME k # m
      PROVE  v[k].dir
  <2>1. k + 1 \in 2 .. m /\ (k + 1) - 1 = k
    BY <1>7
  <2>2. PICK j \in 2 .. m : j - 1 = k
    BY <2>1
  <2>3. w[j - 1].dir
    BY <1>2
  <2> QED BY <2>2, <2>3, <1>4
<1> QED BY <1>6, <1>7 DEF Denoted

-----------------------------------------------------------------------------
\* Where a scan is.

\* The first p entries of the directory do not end it, and the names given are those
\* of the ones in use among them.
Passed(p) == p <= Len(volume[dir]) /\ \A j \in 1 .. p : volume[dir][j].mark # "end"

Given(p)  ==
  /\ Len(names) = Turn(dir, p)
  /\ \A k \in Filled(dir) : k <= p => names[Turn(dir, k)] = volume[dir][k].name

\* The inductive invariant: how far a scan is, and what led to its directory
\* (ksrc/fs/fat.c:135-158, 211-241, 298-360).
DirectoryInv ==
  /\ volume \in Volumes /\ sought \in Paths /\ op \in {"find", "list"}
  /\ scan_pc \in {"find", "missing", "found", "list", "stopped", "listed", "overrun"}
  /\ dir \in DOMAIN volume /\ pos \in Nat \ {0}
  /\ names \in Seq({e.name : e \in Known})
  /\ sought = <<>> => output = NoEntry
  /\ scan_pc = "find" =>
       /\ sought # <<>> /\ level \in 1 .. Len(sought) /\ names = <<>>
       /\ Passed(pos - 1) /\ \A j \in 1 .. pos - 1 : ~Matches(volume[dir][j])
       /\ level = 1 => dir = Root /\ output = NoEntry
       /\ level # 1 =>
            /\ output.dir
            /\ ThroughWiped \/ (dir = output.first /\ Denoted(level - 1) = {output})
  /\ scan_pc \in {"list", "stopped", "listed"} =>
       op = "list" /\ dir = Listing /\ (sought # <<>> => output.dir)
  /\ scan_pc = "list"    => Passed(pos - 1) /\ Given(pos - 1)
  /\ scan_pc = "stopped" => Given(pos)
  /\ scan_pc = "listed"  => Given(Len(volume[dir]))
  /\ Lookups

\* An entry in use that a scan comes to is one of those the directory holds.
LEMMA ComesToFilled ==
  ASSUME volume \in Volumes, dir \in DOMAIN volume, pos \in Nat \ {0}, Passed(pos - 1), Inside,
         Used(Entry)
  PROVE  pos \in Filled(dir) /\ Entry \in Known
<1>1. /\ Len(volume[dir]) \in Nat /\ DOMAIN volume[dir] = 1 .. Len(volume[dir])
  BY VolumeIs
<1>2. pos \in DOMAIN volume[dir]
  BY <1>1 DEF Inside
<1>3. \A j \in 1 .. pos : volume[dir][j].mark # "end"
  <2>1. \A j \in 1 .. pos : j \in 1 .. pos - 1 \/ j = pos
    OBVIOUS
  <2>2. volume[dir][pos].mark # "end"
    BY DEF Used, Entry
  <2> QED BY <2>1, <2>2 DEF Passed
<1>4. pos \in Filled(dir)
  BY <1>2, <1>3 DEF Filled, Entry
<1> QED BY <1>4 DEF Known, Entry

\* Past an entry that does not end it, a scan is one further.
LEMMA PassedNext ==
  ASSUME volume \in Volumes, dir \in DOMAIN volume, pos \in Nat \ {0}, Passed(pos - 1), Inside,
         ~Ends(Entry)
  PROVE  Passed(pos)
<1>1. Len(volume[dir]) \in Nat /\ pos <= Len(volume[dir])
  BY VolumeIs DEF Inside
<1>2. \A j \in 1 .. pos : j \in 1 .. pos - 1 \/ j = pos
  OBVIOUS
<1>3. volume[dir][pos].mark # "end"
  BY DEF Ends, Entry
<1> QED BY <1>1, <1>2, <1>3 DEF Passed

\* When a scan is over, all the directory holds was passed.
LEMMA FilledPassed ==
  ASSUME volume \in Volumes, dir \in DOMAIN volume, pos \in Nat \ {0}, Passed(pos - 1),
         ~Inside \/ Ends(Entry)
  PROVE  \A k \in Filled(dir) : k \in 1 .. pos - 1
<1>1. /\ Len(volume[dir]) \in Nat /\ DOMAIN volume[dir] = 1 .. Len(volume[dir])
      /\ Filled(dir) \subseteq 1 .. Len(volume[dir])
  BY VolumeIs
<1>2. ASSUME NEW k \in Filled(dir)
      PROVE  k \in 1 .. pos - 1
  <2>1. k \in 1 .. Len(volume[dir])
    BY <1>1
  <2>2. CASE ~Inside
    BY <2>1, <2>2, <1>1 DEF Inside
  <2>3. CASE Ends(Entry)
    <3>1. ~ (pos \in 1 .. k)
      BY <2>3 DEF Filled, Ends, Entry
    <3> QED BY <3>1, <2>1
  <2> QED BY <2>2, <2>3
<1> QED BY <1>2

\* If the path got here without a cleared entry, what it denotes next is here.
LEMMA DenotedHere ==
  ASSUME DirectoryInv, scan_pc = "find"
  PROVE  ThroughWiped \/ Denoted(level) = Named(dir, sought[level])
<1>1. volume \in Volumes /\ level \in 1 .. Len(sought) /\ Len(sought) \in Nat
  BY DirectoryAssumption DEF DirectoryInv
<1>2. CASE level = 1
  BY <1>1, <1>2, FirstDenoted DEF DirectoryInv
<1>3. CASE level # 1 /\ ~ThroughWiped
  <2>1. level - 1 \in Nat \ {0} /\ (level - 1) + 1 = level
    BY <1>1, <1>3
  <2>2. output.dir /\ dir = output.first /\ Denoted(level - 1) = {output}
    BY <1>3 DEF DirectoryInv
  <2>3. {f \in Denoted(level - 1) : f.dir} = {output}
    BY <2>2
  <2> DEFINE k == level - 1
  <2>4. Denoted(k + 1) = UNION {Named(e.first, sought[k + 1]) : e \in {f \in Denoted(k) : f.dir}}
    <3>1. k \in Nat \ {0}
      BY <2>1
    <3> HIDE DEF k
    <3> QED BY <3>1, <1>1, NextDenoted
  <2>5. Denoted(level) = UNION {Named(e.first, sought[level]) : e \in {output}}
    BY <2>1, <2>3, <2>4
  <2> QED BY <2>2, <2>5
<1> QED BY <1>2, <1>3

\* What the name of an entry denotes is that entry alone.
LEMMA MatchDenoted ==
  ASSUME DirectoryInv, scan_pc = "find", Inside, Matches(Entry)
  PROVE  /\ pos \in Filled(dir) /\ Entry \in Known
         /\ Entry.dir \in BOOLEAN /\ (Entry.dir => Entry.first \in DOMAIN volume)
         /\ ThroughWiped \/ Denoted(level) = {Entry}
<1>1. /\ volume \in Volumes /\ dir \in DOMAIN volume /\ pos \in Nat \ {0} /\ Passed(pos - 1)
      /\ Used(Entry) /\ Entry.name = sought[level]
  BY DEF DirectoryInv, Matches
<1>2. pos \in Filled(dir) /\ Entry \in Known
  BY <1>1, ComesToFilled
<1>3. Named(dir, sought[level]) = {Entry}
  BY <1>1, <1>2, NamedOnce DEF Entry
<1> QED BY <1>1, <1>2, <1>3, KnownLeads, DenotedHere

\* If no entry here has the name, the path denotes nothing.
LEMMA MissDenoted ==
  ASSUME DirectoryInv, scan_pc = "find", ~Inside \/ Ends(Entry)
  PROVE  /\ Named(dir, sought[level]) = {}
         /\ ThroughWiped \/ Denoted(Len(sought)) = {}
<1>1. /\ volume \in Volumes /\ dir \in DOMAIN volume /\ pos \in Nat \ {0} /\ Passed(pos - 1)
      /\ \A j \in 1 .. pos - 1 : ~Matches(volume[dir][j])
  BY DEF DirectoryInv
<1>2. \A k \in Filled(dir) : k \in 1 .. pos - 1
  BY <1>1, FilledPassed
<1>3. \A k \in Filled(dir) : volume[dir][k].name # sought[level]
  BY <1>1, <1>2 DEF Matches, Filled
<1>4. Named(dir, sought[level]) = {}
  BY <1>3 DEF Named
<1>5. level \in 1 .. Len(sought) /\ Len(sought) \in Nat
  BY DirectoryAssumption DEF DirectoryInv
<1>6. ASSUME ~ThroughWiped
      PROVE  Denoted(Len(sought)) = {}
  <2>1. Denoted(level) = {}
    BY <1>4, <1>6, DenotedHere
  <2> QED BY <2>1, <1>5, EarlierDenoted
<1> QED BY <1>4, <1>6

-----------------------------------------------------------------------------
\* Each step of a look-up.

LEMMA DirectoryInitInv == DirectoryInit => DirectoryInv
<1> SUFFICES ASSUME DirectoryInit PROVE DirectoryInv
  OBVIOUS
<1>1. /\ volume \in Volumes /\ sought \in Paths /\ op \in {"find", "list"}
      /\ scan_pc = IF sought # <<>> THEN "find" ELSE IF op = "list" THEN "list" ELSE "found"
      /\ level = 1 /\ dir = Root /\ pos = 1
      /\ output = NoEntry /\ names = <<>>
  BY DEF DirectoryInit
<1>2. dir \in DOMAIN volume /\ Len(volume[dir]) \in Nat /\ Filled(dir) \subseteq 1 .. Len(volume[dir])
  BY <1>1, VolumeIs
<1>3. Passed(pos - 1)
  <2>1. pos - 1 = 0 /\ 1 .. pos - 1 = {}
    BY <1>1
  <2> QED BY <2>1, <1>2 DEF Passed
<1>4. Given(pos - 1)
  <2>1. \A k \in Filled(dir) : ~ (k <= 0)
    BY <1>2
  <2>2. {j \in Filled(dir) : j <= 0} = {}
    BY <2>1
  <2>3. Turn(dir, 0) = 0
    BY <2>2, FS_EmptySet DEF Turn
  <2> QED BY <1>1, <2>1, <2>3 DEF Given
<1>5. sought # <<>> => 1 \in 1 .. Len(sought)
  <2>1. DOMAIN sought = 1 .. Len(sought) /\ Len(sought) \in Nat
    BY <1>1, DirectoryAssumption
  <2> QED BY <2>1
<1>6. Lookups
  BY <1>1 DEF Lookups, FindsEntry, OverrunsFullOnly
<1>7. names \in Seq({e.name : e \in Known})
  BY <1>1
<1>8. \A j \in 1 .. pos - 1 : FALSE
  BY <1>1
<1> QED BY <1>1, <1>2, <1>3, <1>4, <1>5, <1>6, <1>7, <1>8 DEF DirectoryInv, Listing

LEMMA SkipInv ==
  ASSUME DirectoryInv, Skip
  PROVE  DirectoryInv'
<1>1. /\ scan_pc = "find" /\ Inside /\ ~Ends(Entry) /\ ~Matches(Entry)
      /\ pos' = pos + 1 /\ scan_pc' = scan_pc /\ level' = level /\ dir' = dir /\ output' = output
      /\ names' = names
  BY DEF Skip, Step
<1>2. /\ volume' = volume /\ sought' = sought /\ op' = op /\ Known' = Known
      /\ \A k : Denoted(k)' = Denoted(k)
      /\ ThroughWiped' <=> ThroughWiped
  BY SoughtStays DEF Skip
<1>3. volume \in Volumes /\ dir \in DOMAIN volume /\ pos \in Nat \ {0} /\ Passed(pos - 1)
  BY <1>1 DEF DirectoryInv
<1>4. Passed(pos) /\ pos' - 1 = pos
  BY <1>1, <1>3, PassedNext
<1>5. Passed(pos - 1)'
  BY <1>1, <1>2, <1>4 DEF Passed
<1>6. \A j \in 1 .. pos' - 1 : ~Matches(volume[dir][j])'
  <2>1. \A j \in 1 .. pos' - 1 : j \in 1 .. pos - 1 \/ j = pos
    BY <1>3, <1>4
  <2>2. \A j \in 1 .. pos - 1 : ~Matches(volume[dir][j])
    BY <1>1 DEF DirectoryInv
  <2>3. ~Matches(volume[dir][pos])
    BY <1>1 DEF Entry
  <2> QED BY <2>1, <2>2, <2>3, <1>1, <1>2 DEF Matches, Used
<1>7. Lookups'
  BY <1>1 DEF Lookups, FindsEntry, OverrunsFullOnly
<1>8. /\ sought # <<>> /\ level \in 1 .. Len(sought) /\ names = <<>>
      /\ level = 1 => dir = Root /\ output = NoEntry
      /\ level # 1 => /\ output.dir
                      /\ ThroughWiped \/ (dir = output.first /\ Denoted(level - 1) = {output})
  BY <1>1 DEF DirectoryInv
<1>9. ThroughWiped' \/ level' = 1 \/ (dir' = output'.first /\ Denoted(level - 1)' = {output'})
  BY <1>1, <1>2, <1>8
<1>10. pos' \in Nat \ {0} /\ names' \in Seq({e.name : e \in Known'})
  BY <1>1, <1>2, <1>3, <1>4 DEF DirectoryInv
<1> QED BY <1>1, <1>2, <1>3, <1>5, <1>6, <1>7, <1>8, <1>9, <1>10 DEF DirectoryInv

LEMMA MissingInv ==
  ASSUME DirectoryInv, Missing
  PROVE  DirectoryInv'
<1>1. /\ scan_pc = "find" /\ Inside /\ Ends(Entry) /\ scan_pc' = "missing"
      /\ level' = level /\ dir' = dir /\ pos' = pos /\ output' = output /\ names' = names
  BY DEF Missing
<1>2. /\ volume' = volume /\ sought' = sought /\ op' = op /\ Known' = Known
      /\ \A k : Denoted(k)' = Denoted(k)
      /\ ThroughWiped' <=> ThroughWiped
  BY SoughtStays DEF Missing
<1>3. ThroughWiped' \/ Denoted(Len(sought))' = {}
  BY <1>1, <1>2, MissDenoted
<1>4. Lookups'
  BY <1>1, <1>3 DEF Lookups, FindsEntry, OverrunsFullOnly, Misses
<1> QED BY <1>1, <1>2, <1>4 DEF DirectoryInv

\* Past a full directory there is nothing it holds.
LEMMA OverrunInv ==
  ASSUME DirectoryInv, Overrun
  PROVE  DirectoryInv'
<1>1. /\ ~Inside
      /\ scan_pc = "find" \/ (scan_pc = "list" /\ dir # Root)
      /\ scan_pc' = "overrun"
      /\ level' = level /\ dir' = dir /\ pos' = pos /\ output' = output /\ names' = names
  BY DEF Overrun
<1>2. /\ volume' = volume /\ sought' = sought /\ op' = op /\ Known' = Known
      /\ \A d : Filled(d)' = Filled(d)
  BY SoughtStays DEF Overrun
<1>3. volume \in Volumes /\ dir \in DOMAIN volume /\ pos \in Nat \ {0} /\ Passed(pos - 1)
  BY <1>1 DEF DirectoryInv
<1>4. Full(dir)
  <2>1. Len(volume[dir]) \in Nat /\ DOMAIN volume[dir] = 1 .. Len(volume[dir])
    BY <1>3, VolumeIs
  <2>2. \A k \in DOMAIN volume[dir] : k \in 1 .. pos - 1
    BY <1>1, <1>3, <2>1 DEF Inside
  <2> QED BY <2>2, <1>3 DEF Full, Passed
<1>5. output = NoEntry \/ output.dir
  BY <1>1 DEF DirectoryInv
<1>6. op = "list" \/ Named(dir, sought[level]) = {}
  <2>1. CASE scan_pc = "find"
    BY <1>1, <2>1, MissDenoted
  <2>2. CASE scan_pc # "find"
    BY <1>1, <2>2 DEF DirectoryInv
  <2> QED BY <2>1, <2>2
<1>7. Full(dir)' /\ (op = "list" \/ Named(dir, sought[level]) = {})'
  BY <1>1, <1>2, <1>4, <1>6 DEF Full, Named
<1>8. Lookups'
  BY <1>1, <1>5, <1>7 DEF Lookups, FindsEntry, OverrunsFullOnly
<1> QED BY <1>1, <1>2, <1>8 DEF DirectoryInv

\* The next name is looked for in the directory the last one led to, unless that is
\* the wrong one.
LEMMA MatchInv ==
  ASSUME DirectoryInv, Match
  PROVE  DirectoryInv'
<1>1. /\ scan_pc = "find" /\ Inside /\ Matches(Entry) /\ output' = Entry /\ pos' = 1 /\ names' = names
      /\ level = Len(sought) =>
           /\ scan_pc' = IF op = "find" THEN "found" ELSE IF Entry.dir THEN "list" ELSE "missing"
           /\ dir' = IF scan_pc' = "list" THEN Entry.first ELSE dir
           /\ level' = level
      /\ level # Len(sought) =>
           /\ scan_pc' = IF Entry.dir THEN "find" ELSE "missing"
           /\ dir' = IF ~Entry.dir THEN dir ELSE IF Wiped THEN 0 ELSE Entry.first
           /\ level' = level + 1
  BY DEF Match
<1>2. /\ volume' = volume /\ sought' = sought /\ op' = op /\ Known' = Known
      /\ \A d : Filled(d)' = Filled(d)
      /\ \A k : Denoted(k)' = Denoted(k)
      /\ ThroughWiped' <=> ThroughWiped
  BY SoughtStays DEF Match
<1>3. /\ volume \in Volumes /\ dir \in DOMAIN volume /\ op \in {"find", "list"}
      /\ sought # <<>> /\ level \in 1 .. Len(sought) /\ Len(sought) \in Nat /\ names = <<>>
      /\ names \in Seq({e.name : e \in Known})
      /\ 0 \in DOMAIN volume
  BY <1>1, DirectoryAssumption, VolumeIs DEF DirectoryInv
<1>4. /\ pos \in Filled(dir) /\ Entry \in Known
      /\ Entry.dir \in BOOLEAN /\ (Entry.dir => Entry.first \in DOMAIN volume)
      /\ ThroughWiped \/ Denoted(level) = {Entry}
  BY <1>1, MatchDenoted
<1>5. pos' \in Nat \ {0} /\ names' \in Seq({e.name : e \in Known'})
  BY <1>1, <1>2, <1>3
<1>6. dir' \in DOMAIN volume'
  BY <1>1, <1>2, <1>3, <1>4
<1>7. Passed(pos - 1)' /\ \A j \in 1 .. pos' - 1 : FALSE
  <2>1. pos' - 1 = 0 /\ 1 .. pos' - 1 = {}
    BY <1>1
  <2>2. Len(volume'[dir']) \in Nat
    BY <1>2, <1>3, <1>6, VolumeIs
  <2> QED BY <2>1, <2>2 DEF Passed
<1>8. CASE level = Len(sought)
  <2>1. CASE op = "find"
    <3>1. scan_pc' = "found"
      BY <1>1, <1>8, <2>1
    <3>2. Finds(output)' \/ ThroughWiped'
      BY <1>1, <1>2, <1>4, <1>8 DEF Finds
    <3>3. Lookups'
      BY <3>1, <3>2 DEF Lookups, FindsEntry, OverrunsFullOnly
    <3> QED BY <3>1, <3>3, <1>2, <1>3, <1>5, <1>6 DEF DirectoryInv
  <2>2. CASE op = "list" /\ Entry.dir
    <3>1. scan_pc' = "list" /\ dir' = output'.first /\ output'.dir
      BY <1>1, <1>8, <2>2
    <3>2. Finds(output)' \/ ThroughWiped'
      BY <1>1, <1>2, <1>4, <1>8 DEF Finds
    <3>3. Lookups'
      BY <3>1, <3>2 DEF Lookups, FindsEntry, OverrunsFullOnly
    <3>4. Given(pos - 1)'
      <4>1. \A k \in Filled(dir') : ~ (k <= 0)
        BY <1>2, <1>3, <1>6, VolumeIs
      <4>2. {j \in Filled(dir') : j <= 0} = {}
        BY <4>1
      <4>3. Turn(dir, pos - 1)' = 0
        <5>1. pos' - 1 = 0
          BY <1>1
        <5> QED BY <5>1, <4>2, <1>2, FS_EmptySet DEF Turn
      <4>4. Len(names') = 0 /\ pos' - 1 = 0
        BY <1>1, <1>3
      <4> QED BY <4>1, <4>3, <4>4, <1>2 DEF Given
    <3>5. dir' = Listing'
      BY <3>1, <1>2, <1>3 DEF Listing
    <3> QED BY <3>1, <3>3, <3>4, <3>5, <2>2, <1>2, <1>3, <1>5, <1>6, <1>7 DEF DirectoryInv
  <2>3. CASE op = "list" /\ ~Entry.dir
    <3>1. scan_pc' = "missing"
      BY <1>1, <1>8, <2>3
    <3>2. Misses' \/ ThroughWiped'
      BY <1>2, <1>4, <1>8, <2>3 DEF Misses
    <3>3. Lookups'
      BY <3>1, <3>2 DEF Lookups, FindsEntry, OverrunsFullOnly
    <3> QED BY <3>1, <3>3, <1>2, <1>3, <1>5, <1>6 DEF DirectoryInv
  <2> QED BY <2>1, <2>2, <2>3, <1>3
<1>9. CASE level # Len(sought) /\ ~Entry.dir
  <2>1. scan_pc' = "missing"
    BY <1>1, <1>9
  <2>2. Misses' \/ ThroughWiped'
    <3>1. ASSUME ~ThroughWiped
          PROVE  Denoted(Len(sought)) = {}
      BY <3>1, <1>3, <1>4, <1>9, EarlierDenoted
    <3> QED BY <3>1, <1>2 DEF Misses
  <2>3. Lookups'
    BY <2>1, <2>2 DEF Lookups, FindsEntry, OverrunsFullOnly
  <2> QED BY <2>1, <2>3, <1>2, <1>3, <1>5, <1>6 DEF DirectoryInv
<1>10. CASE level # Len(sought) /\ Entry.dir
  <2>1. /\ scan_pc' = "find" /\ level' = level + 1
        /\ dir' = IF Wiped THEN 0 ELSE Entry.first
    BY <1>1, <1>10
  <2>2. level' \in 1 .. Len(sought') /\ level' # 1 /\ level' - 1 = level
    BY <2>1, <1>2, <1>3, <1>10
  <2>3. ASSUME ~ThroughWiped
        PROVE  dir' = Entry.first /\ Denoted(level - 1)' = {Entry}
    <3>1. Denoted(level) = {Entry}
      BY <2>3, <1>4
    <3>2. ~Wiped
      <4>1. SUFFICES ASSUME level > 1, pos <= SectorsPerCluster \div 2
                     PROVE  FALSE
        BY DEF Wiped
      <4>2. level \in 2 .. Len(sought) - 1
        BY <4>1, <1>3, <1>10
      <4>3. output.dir /\ dir = output.first /\ Denoted(level - 1) = {output}
        BY <4>2, <2>3, <1>1 DEF DirectoryInv
      <4>4. pos \in DOMAIN volume[dir] /\ pos \in 1 .. SectorsPerCluster \div 2
        <5>1. pos \in Nat \ {0} /\ SectorsPerCluster \div 2 \in Int /\ pos \in DOMAIN volume[dir]
          <6>1. SectorsPerCluster \div 2 \in Int
            BY DirectoryAssumption
          <6> QED BY <6>1, <1>4 DEF DirectoryInv, Filled
        <5> QED BY <5>1, <4>1
      <4>5. output \in Denoted(level - 1) /\ volume[output.first][pos] \in Denoted(level)
        BY <3>1, <4>3 DEF Entry
      <4> QED BY <4>2, <4>3, <4>4, <4>5, <2>3 DEF ThroughWiped
    <3>3. Denoted(level - 1)' = {Entry}
      BY <3>1, <2>2, <1>2
    <3> QED BY <3>2, <3>3, <2>1
  <2>4. output'.dir /\ (ThroughWiped' \/ (dir' = output'.first /\ Denoted(level - 1)' = {output'}))
    BY <2>3, <1>1, <1>2, <1>10
  <2>5. Lookups'
    BY <2>1 DEF Lookups, FindsEntry, OverrunsFullOnly
  <2>6. \A j \in 1 .. pos' - 1 : ~Matches(volume[dir][j])'
    BY <1>7
  <2> QED BY <2>1, <2>2, <2>4, <2>5, <2>6, <1>1, <1>2, <1>3, <1>5, <1>6, <1>7 DEF DirectoryInv
<1> QED BY <1>8, <1>9, <1>10

-----------------------------------------------------------------------------
\* Each step of a listing.

\* How many entries are in use among the first ones.
LEMMA TurnIs ==
  ASSUME volume \in Volumes, NEW d \in DOMAIN volume
  PROVE  /\ Cardinality(Filled(d)) \in Nat
         /\ \A p \in Nat :
              /\ Turn(d, p) \in Nat /\ Turn(d, p) <= Cardinality(Filled(d))
              /\ Turn(d, p + 1) = IF p + 1 \in Filled(d) THEN Turn(d, p) + 1 ELSE Turn(d, p)
              /\ \A k \in Filled(d) : p < k => Turn(d, p) < Turn(d, k)
              /\ (\A k \in Filled(d) : k <= p) => Turn(d, p) = Cardinality(Filled(d))
<1>1. Len(volume[d]) \in Nat /\ Filled(d) \subseteq 1 .. Len(volume[d])
  BY VolumeIs
<1>2. IsFiniteSet(Filled(d)) /\ Cardinality(Filled(d)) \in Nat
  <2>1. IsFiniteSet(1 .. Len(volume[d]))
    BY <1>1, FS_Interval
  <2>2. IsFiniteSet(Filled(d))
    BY <1>1, <2>1, FS_Subset
  <2> QED BY <2>2, FS_CardinalityType
<1> DEFINE Upto(p) == {j \in Filled(d) : j <= p}
<1>3. ASSUME NEW p
      PROVE  /\ IsFiniteSet(Upto(p)) /\ Turn(d, p) = Cardinality(Upto(p))
             /\ Turn(d, p) \in Nat /\ Turn(d, p) <= Cardinality(Filled(d))
  <2>1. Upto(p) \in SUBSET Filled(d)
    OBVIOUS
  <2>2. Turn(d, p) = Cardinality(Upto(p))
    BY DEF Turn
  <2> HIDE DEF Upto
  <2>3. IsFiniteSet(Upto(p)) /\ Cardinality(Upto(p)) <= Cardinality(Filled(d))
    BY <2>1, <1>2, FS_Subset
  <2> QED BY <2>2, <2>3, FS_CardinalityType
<1>4. ASSUME NEW p \in Nat
      PROVE  Turn(d, p + 1) = IF p + 1 \in Filled(d) THEN Turn(d, p) + 1 ELSE Turn(d, p)
  <2>1. \A j \in Filled(d) : j <= p + 1 <=> j <= p \/ j = p + 1
    BY <1>1
  <2>2. p + 1 \notin Upto(p)
    OBVIOUS
  <2>3. CASE p + 1 \in Filled(d)
    <3>1. Upto(p + 1) = Upto(p) \cup {p + 1}
      BY <2>1, <2>3
    <3> HIDE DEF Upto
    <3> QED BY <3>1, <2>2, <2>3, <1>3, FS_AddElement
  <2>4. CASE p + 1 \notin Filled(d)
    <3>1. Upto(p + 1) = Upto(p)
      BY <2>1, <2>4
    <3> HIDE DEF Upto
    <3> QED BY <3>1, <2>4, <1>3
  <2> QED BY <2>3, <2>4
<1>5. ASSUME NEW p \in Nat, NEW k \in Filled(d), p < k
      PROVE  Turn(d, p) < Turn(d, k)
  <2>1. Upto(p) \cup {k} \in SUBSET Upto(k) /\ k \notin Upto(p)
    BY <1>1, <1>5
  <2> HIDE DEF Upto
  <2>2. Cardinality(Upto(p) \cup {k}) = Cardinality(Upto(p)) + 1
    BY <2>1, <1>3, FS_AddElement
  <2>3. Cardinality(Upto(p) \cup {k}) <= Cardinality(Upto(k))
    BY <2>1, <1>3, FS_Subset
  <2>4. Turn(d, p) + 1 <= Turn(d, k) /\ Turn(d, p) \in Nat /\ Turn(d, k) \in Nat
    BY <2>2, <2>3, <1>3
  <2> QED BY <2>4
<1>6. ASSUME NEW p \in Nat, \A k \in Filled(d) : k <= p
      PROVE  Turn(d, p) = Cardinality(Filled(d))
  <2>1. Upto(p) = Filled(d)
    BY <1>6
  <2> HIDE DEF Upto
  <2> QED BY <2>1, <1>3
<1> HIDE DEF Upto
<1> QED BY <1>2, <1>3, <1>4, <1>5, <1>6

\* Names are given only for what the directory holds, so no more than it holds.
LEMMA ListedSoFar ==
  ASSUME volume \in Volumes, dir \in DOMAIN volume, NEW p \in Nat, Given(p)
  PROVE  /\ Len(names) <= Cardinality(Filled(dir))
         /\ \A k \in Filled(dir) :
              Turn(dir, k) <= Len(names) => names[Turn(dir, k)] = volume[dir][k].name
<1>1. Len(names) = Turn(dir, p) /\ Turn(dir, p) <= Cardinality(Filled(dir))
  BY TurnIs DEF Given
<1>2. ASSUME NEW k \in Filled(dir), Turn(dir, k) <= Len(names)
      PROVE  names[Turn(dir, k)] = volume[dir][k].name
  <2>1. k \in Nat /\ Turn(dir, k) \in Nat /\ Turn(dir, p) \in Nat
    <3>1. k \in Nat
      BY VolumeIs
    <3> QED BY <3>1, TurnIs
  <2>2. ~ (p < k)
    <3>1. p < k => Turn(dir, p) < Turn(dir, k)
      BY TurnIs
    <3> QED BY <3>1, <2>1, <1>1, <1>2
  <2> QED BY <2>1, <2>2 DEF Given
<1> QED BY <1>1, <1>2

\* A listing keeps what the look-up found.
LEMMA ListingFinds ==
  ASSUME DirectoryInv, scan_pc = "list", UNCHANGED <<volume, sought, op, level, dir, output>>,
         scan_pc' \in {"list", "stopped", "listed"}
  PROVE  /\ Lookups' /\ dir' = Listing' /\ op' = "list"
         /\ (sought # <<>>)' => output'.dir
         /\ (sought = <<>>)' => (output = NoEntry)'
         /\ volume' \in Volumes /\ sought' \in Paths /\ dir' \in DOMAIN volume'
         /\ \A p : Turn(dir, p)' = Turn(dir, p)
<1>1. /\ volume' = volume /\ sought' = sought /\ op' = op
      /\ \A d : Filled(d)' = Filled(d)
      /\ \A k : Denoted(k)' = Denoted(k)
      /\ ThroughWiped' <=> ThroughWiped
  BY SoughtStays
<1>2. sought # <<>> => Finds(output) \/ ThroughWiped
  BY DEF DirectoryInv, Lookups, FindsEntry
<1>3. (sought # <<>> => Finds(output) \/ ThroughWiped)'
  BY <1>1, <1>2 DEF Finds
<1>4. Lookups'
  BY <1>3 DEF Lookups, FindsEntry, OverrunsFullOnly
<1>5. /\ op = "list" /\ dir = Listing /\ (sought # <<>> => output.dir)
      /\ sought = <<>> => output = NoEntry
      /\ volume \in Volumes /\ sought \in Paths /\ dir \in DOMAIN volume
  BY DEF DirectoryInv
<1>6. dir' = Listing'
  BY <1>1, <1>5 DEF Listing
<1>7. \A p : Turn(dir, p)' = Turn(dir, p)
  BY <1>1 DEF Turn
<1>8. (sought = <<>>)' => (output = NoEntry)'
  BY <1>1, <1>5 DEF NoEntry
<1> QED BY <1>1, <1>4, <1>5, <1>6, <1>7, <1>8

\* An entry that is not in use is passed over.
LEMMA ListSkipInv ==
  ASSUME DirectoryInv, ListSkip
  PROVE  DirectoryInv'
<1>1. /\ scan_pc = "list" /\ Inside /\ ~Ends(Entry) /\ ~Used(Entry)
      /\ pos' = pos + 1 /\ scan_pc' = "list" /\ names' = names
      /\ volume' = volume /\ dir' = dir
      /\ UNCHANGED <<volume, sought, op, level, dir, output>>
  BY DEF ListSkip, Step
<1>2. /\ volume \in Volumes /\ dir \in DOMAIN volume /\ pos \in Nat \ {0} /\ Passed(pos - 1)
      /\ Given(pos - 1) /\ names \in Seq({e.name : e \in Known})
  BY <1>1 DEF DirectoryInv
<1>3. Passed(pos) /\ pos' - 1 = pos /\ pos' \in Nat \ {0}
  BY <1>1, <1>2, PassedNext
<1>4. /\ Lookups' /\ dir' = Listing' /\ op' = "list"
      /\ (sought # <<>>)' => output'.dir
      /\ (sought = <<>>)' => (output = NoEntry)'
      /\ volume' \in Volumes /\ sought' \in Paths /\ dir' \in DOMAIN volume'
      /\ \A p : Turn(dir, p)' = Turn(dir, p)
  BY <1>1, ListingFinds
<1>5. Filled(dir)' = Filled(dir) /\ Known' = Known
  BY <1>1, SoughtStays
<1>6. pos \notin Filled(dir)
  BY <1>1 DEF Filled, Entry
<1>7. Turn(dir, pos) = Turn(dir, pos - 1)
  <2>1. pos - 1 \in Nat /\ (pos - 1) + 1 = pos
    BY <1>2
  <2>2. Turn(dir, (pos - 1) + 1) = IF (pos - 1) + 1 \in Filled(dir) THEN Turn(dir, pos - 1) + 1 ELSE Turn(dir, pos - 1)
    BY <2>1, <1>2, TurnIs
  <2> QED BY <2>1, <2>2, <1>6
<1>8. Given(pos)
  <2>1. ASSUME NEW k \in Filled(dir), k <= pos
        PROVE  k <= pos - 1
    <3>1. k \in Nat /\ k # pos
      BY <1>2, <1>6, VolumeIs
    <3> QED BY <3>1, <2>1, <1>2
  <2> QED BY <2>1, <1>2, <1>7 DEF Given
<1>9. Given(pos - 1)'
  BY <1>1, <1>3, <1>4, <1>5, <1>8 DEF Given
<1>10. Passed(pos - 1)'
  BY <1>1, <1>3 DEF Passed
<1>11. names' \in Seq({e.name : e \in Known'})
  BY <1>1, <1>2, <1>5
<1> QED BY <1>1, <1>3, <1>4, <1>9, <1>10, <1>11 DEF DirectoryInv

\* An entry in use is given, after those before it.
LEMMA ListEntryInv ==
  ASSUME DirectoryInv, ListEntry
  PROVE  DirectoryInv'
<1>1. /\ scan_pc = "list" /\ Inside /\ ~Ends(Entry) /\ Used(Entry)
      /\ names' = Append(names, Entry.name)
      /\ \/ pos' = pos + 1 /\ scan_pc' = "list"
         \/ pos' = pos /\ scan_pc' = "stopped"
      /\ volume' = volume /\ dir' = dir
      /\ UNCHANGED <<volume, sought, op, level, dir, output>>
  BY DEF ListEntry, Step
<1>2. /\ volume \in Volumes /\ dir \in DOMAIN volume /\ pos \in Nat \ {0} /\ Passed(pos - 1)
      /\ Given(pos - 1) /\ names \in Seq({e.name : e \in Known})
  BY <1>1 DEF DirectoryInv
<1>3. Passed(pos) /\ pos' \in Nat \ {0}
  BY <1>1, <1>2, PassedNext
<1>4. /\ Lookups' /\ dir' = Listing' /\ op' = "list"
      /\ (sought # <<>>)' => output'.dir
      /\ (sought = <<>>)' => (output = NoEntry)'
      /\ volume' \in Volumes /\ sought' \in Paths /\ dir' \in DOMAIN volume'
      /\ \A p : Turn(dir, p)' = Turn(dir, p)
  BY <1>1, ListingFinds
<1>5. Filled(dir)' = Filled(dir) /\ Known' = Known
  BY <1>1, SoughtStays
<1>6. pos \in Filled(dir) /\ Entry \in Known
  BY <1>1, <1>2, ComesToFilled
<1>7. Turn(dir, pos) = Turn(dir, pos - 1) + 1 /\ Turn(dir, pos - 1) \in Nat
  <2>1. pos - 1 \in Nat /\ (pos - 1) + 1 = pos
    BY <1>2
  <2>2. /\ Turn(dir, (pos - 1) + 1) = IF (pos - 1) + 1 \in Filled(dir) THEN Turn(dir, pos - 1) + 1 ELSE Turn(dir, pos - 1)
        /\ Turn(dir, pos - 1) \in Nat
    BY <2>1, <1>2, TurnIs
  <2> QED BY <2>1, <2>2, <1>6
<1>8. /\ names' \in Seq({e.name : e \in Known'}) /\ Len(names') = Len(names) + 1
      /\ \A n \in 1 .. Len(names) : names'[n] = names[n]
      /\ names'[Len(names) + 1] = Entry.name
  <2> DEFINE T == {e.name : e \in Known}
  <2>1. names \in Seq(T) /\ Entry.name \in T
    BY <1>2, <1>6
  <2> HIDE DEF T
  <2>2. /\ Append(names, Entry.name) \in Seq(T) /\ Len(Append(names, Entry.name)) = Len(names) + 1
        /\ \A n \in 1 .. Len(names) : Append(names, Entry.name)[n] = names[n]
        /\ Append(names, Entry.name)[Len(names) + 1] = Entry.name
    BY <2>1, AppendProperties
  <2>3. T = {e.name : e \in Known'}
    BY <1>5 DEF T
  <2> QED BY <2>2, <2>3, <1>1
<1>9. ASSUME NEW p, p = pos
      PROVE  Given(p)'
  <2>1. Len(names') = Turn(dir, pos) /\ Len(names) = Turn(dir, pos - 1)
    BY <1>2, <1>7, <1>8 DEF Given
  <2>2. ASSUME NEW k \in Filled(dir), k <= pos
        PROVE  names'[Turn(dir, k)] = volume[dir][k].name
    <3>1. CASE k = pos
      BY <3>1, <2>1, <1>7, <1>8 DEF Entry
    <3>2. CASE k # pos
      <4>1. k \in Nat /\ k <= pos - 1
        <5>1. k \in Nat
          BY <1>2, VolumeIs
        <5> QED BY <5>1, <3>2, <2>2, <1>2
      <4>2. names[Turn(dir, k)] = volume[dir][k].name
        BY <4>1, <1>2 DEF Given
      <4>3. Turn(dir, k) \in 1 .. Len(names)
        <5>1. Turn(dir, k) \in Nat /\ Turn(dir, pos - 1) \in Nat
          BY <4>1, <1>2, <1>7, TurnIs
        <5>2. Turn(dir, k) < Turn(dir, pos)
          BY <4>1, <3>2, <2>2, <1>2, <1>6, TurnIs
        <5>3. Turn(dir, 0) < Turn(dir, k) /\ Turn(dir, 0) \in Nat
          <6>1. k \in 1 .. Len(volume[dir]) /\ Len(volume[dir]) \in Nat
            BY <1>2, VolumeIs
          <6>2. 0 < k /\ 0 \in Nat
            BY <6>1
          <6> QED BY <6>2, <1>2, TurnIs
        <5> QED BY <5>1, <5>2, <5>3, <2>1, <1>7
      <4> QED BY <4>2, <4>3, <1>8
    <3> QED BY <3>1, <3>2
  <2>3. \A q : Turn(dir, q)' = Turn(dir, q)
    BY <1>4
  <2>4. Len(names') = Turn(dir, p)' /\ \A k \in Filled(dir)' : k <= p => names'[Turn(dir, k)'] = volume[dir][k].name
    BY <2>1, <2>2, <2>3, <1>5, <1>9
  <2> QED BY <2>4, <1>1 DEF Given
<1>10. CASE pos' = pos + 1 /\ scan_pc' = "list"
  <2>1. pos' - 1 = pos
    BY <1>2, <1>10
  <2>2. Passed(pos - 1)'
    BY <2>1, <1>1, <1>3 DEF Passed
  <2>3. Given(pos - 1)'
    BY <2>1, <1>9 DEF Given
  <2> QED BY <2>2, <2>3, <1>1, <1>3, <1>4, <1>8, <1>10 DEF DirectoryInv
<1>11. CASE pos' = pos /\ scan_pc' = "stopped"
  <2>1. Given(pos)'
    BY <1>9, <1>11 DEF Given
  <2> QED BY <2>1, <1>1, <1>3, <1>4, <1>8, <1>11 DEF DirectoryInv
<1> QED BY <1>1, <1>10, <1>11

\* The end of a directory is reached when all it holds was given.
LEMMA ListEndInv ==
  ASSUME DirectoryInv, ListEnd
  PROVE  DirectoryInv'
<1>1. /\ scan_pc = "list" /\ (~Inside \/ Ends(Entry))
      /\ scan_pc' = "listed" /\ names' = names /\ pos' = pos
      /\ volume' = volume /\ dir' = dir
      /\ UNCHANGED <<volume, sought, op, level, dir, output>>
  BY DEF ListEnd
<1>2. /\ volume \in Volumes /\ dir \in DOMAIN volume /\ pos \in Nat \ {0} /\ Passed(pos - 1)
      /\ Given(pos - 1) /\ names \in Seq({e.name : e \in Known})
  BY <1>1 DEF DirectoryInv
<1>3. /\ Lookups' /\ dir' = Listing' /\ op' = "list"
      /\ (sought # <<>>)' => output'.dir
      /\ (sought = <<>>)' => (output = NoEntry)'
      /\ volume' \in Volumes /\ sought' \in Paths /\ dir' \in DOMAIN volume'
      /\ \A p : Turn(dir, p)' = Turn(dir, p)
  BY <1>1, ListingFinds
<1>4. Filled(dir)' = Filled(dir) /\ Known' = Known
  BY <1>1, SoughtStays
<1>5. \A k \in Filled(dir) : k \in 1 .. pos - 1
  BY <1>1, <1>2, FilledPassed
<1>6. /\ Len(volume[dir]) \in Nat
      /\ \A k \in Filled(dir) : k \in 1 .. Len(volume[dir])
  BY <1>2, VolumeIs
<1>7. Turn(dir, pos - 1) = Cardinality(Filled(dir))
  <2>1. pos - 1 \in Nat /\ \A k \in Filled(dir) : k <= pos - 1
    BY <1>2, <1>5
  <2> QED BY <2>1, <1>2, TurnIs
<1>8. Turn(dir, Len(volume[dir])) = Cardinality(Filled(dir))
  <2>1. \A k \in Filled(dir) : k <= Len(volume[dir])
    BY <1>6
  <2> QED BY <2>1, <1>2, <1>6, TurnIs
<1>9. Given(Len(volume[dir]))
  <2>1. \A k \in Filled(dir) : k <= pos - 1
    BY <1>2, <1>5
  <2> QED BY <2>1, <1>2, <1>7, <1>8 DEF Given
<1>10. Given(Len(volume[dir]))'
  BY <1>1, <1>3, <1>4, <1>9 DEF Given
<1>11. names' \in Seq({e.name : e \in Known'}) /\ pos' \in Nat \ {0}
  BY <1>1, <1>2, <1>4
<1> QED BY <1>1, <1>3, <1>10, <1>11 DEF DirectoryInv

\* Nothing changes what a look-up has come to but its own steps.
LEMMA DirectoryStays ==
  ASSUME DirectoryInv, UNCHANGED directoryVars
  PROVE  DirectoryInv'
<1>1. /\ UNCHANGED <<volume, sought, op>>
      /\ scan_pc' = scan_pc /\ level' = level /\ dir' = dir /\ pos' = pos /\ output' = output
      /\ names' = names /\ volume' = volume /\ sought' = sought /\ op' = op
  BY DEF directoryVars
<1>2. /\ \A d : Filled(d)' = Filled(d)
      /\ Known' = Known
      /\ \A k : Denoted(k)' = Denoted(k)
      /\ ThroughWiped' <=> ThroughWiped
  BY <1>1, SoughtStays
<1>3. \A d, p : Turn(d, p)' = Turn(d, p)
  BY <1>2 DEF Turn
<1>4. \A p : (Passed(p)' <=> Passed(p)) /\ (Given(p)' <=> Given(p))
  BY <1>1, <1>2, <1>3 DEF Passed, Given
<1>5. Passed(pos - 1)' <=> Passed(pos - 1)
  BY <1>1 DEF Passed
<1>6. /\ Given(pos - 1)' <=> Given(pos - 1)
      /\ Given(pos)' <=> Given(pos)
      /\ Given(Len(volume[dir]))' <=> Given(Len(volume[dir]))
  BY <1>1, <1>2, <1>3 DEF Given
<1>7. \A d, n : Named(d, n)' = Named(d, n)
  BY <1>1, <1>2 DEF Named
<1>8. Lookups' <=> Lookups
  BY <1>1, <1>2, <1>7 DEF Lookups, FindsEntry, OverrunsFullOnly, Finds, Misses, Full, NoEntry
<1>9. \A e : Matches(e)' <=> Matches(e)
  BY <1>1 DEF Matches, Used
<1>10. NoEntry' = NoEntry /\ Listing' = Listing
  BY <1>1 DEF NoEntry, Listing
<1> QED BY <1>1, <1>2, <1>5, <1>6, <1>8, <1>9, <1>10 DEF DirectoryInv

LEMMA DirectoryStepInv == DirectoryInv /\ [DirectoryNext]_directoryVars => DirectoryInv'
BY SkipInv, MissingInv, MatchInv, OverrunInv, ListSkipInv, ListEntryInv, ListEndInv, DirectoryStays
   DEF DirectoryNext

-----------------------------------------------------------------------------
\* A scan has passed over all that is in front of it, and what it has found is what
\* the path denotes so far (ksrc/fs/fat.c:135-158, 211-241, 298-360).
THEOREM DirectoryInvariant == DirectorySpec => []DirectoryInv
<1>1. DirectoryInit => DirectoryInv
  BY DirectoryInitInv
<1>2. DirectoryInv /\ [DirectoryNext]_directoryVars => DirectoryInv'
  BY DirectoryStepInv
<1> QED BY <1>1, <1>2, PTL DEF DirectorySpec

\* On every volume, a look-up of any path answers what the directories say of it,
\* unless the path leads through an entry that is cleared before its cluster is
\* read, or runs past the end of a full directory that does not hold the name
\* (ksrc/fs/fat.c:135-158, 211-241).
THEOREM LooksUpRight == DirectorySpec => []Lookups
<1>1. DirectoryInv => Lookups
  BY DEF DirectoryInv
<1> QED BY <1>1, DirectoryInvariant, PTL

\* On every volume, a listing gives the names a directory holds, in order, once each,
\* and all of them if it gets to the end (ksrc/fs/fat.c:298-360).
THEOREM ListsRight == DirectorySpec => []ListsAll
<1>1. ASSUME DirectoryInv
      PROVE  ListsAll
  <2>1. volume \in Volumes /\ dir \in DOMAIN volume /\ pos \in Nat \ {0}
    BY <1>1 DEF DirectoryInv
  <2>2. /\ Len(volume[dir]) \in Nat /\ pos - 1 \in Nat
        /\ \A k \in Filled(dir) : k <= Len(volume[dir])
    BY <2>1, VolumeIs
  <2>3. ASSUME scan_pc \in {"list", "stopped", "listed"}
        PROVE  /\ dir = Listing /\ Len(names) <= Cardinality(Filled(dir))
               /\ \A k \in Filled(dir) :
                    Turn(dir, k) <= Len(names) => names[Turn(dir, k)] = volume[dir][k].name
    <3>1. dir = Listing /\ \E p \in Nat : Given(p)
      BY <1>1, <2>1, <2>2, <2>3 DEF DirectoryInv
    <3> QED BY <3>1, <2>1, ListedSoFar
  <2>4. ASSUME scan_pc = "listed"
        PROVE  Len(names) = Cardinality(Filled(dir))
    <3>1. Given(Len(volume[dir]))
      BY <1>1, <2>4 DEF DirectoryInv
    <3>2. Turn(dir, Len(volume[dir])) = Cardinality(Filled(dir))
      BY <2>1, <2>2, TurnIs
    <3> QED BY <3>1, <3>2 DEF Given
  <2> QED BY <2>3, <2>4 DEF ListsAll
<1> QED BY <1>1, DirectoryInvariant, PTL

-----------------------------------------------------------------------------
\* Short names.

\* The characters of an entry come back from their small form.
LEMMA SmallIsUndone ==
  ASSUME NEW c \in InNames \cup {Blank}
  PROVE  Capital(Small(c)) = c /\ Small(c) # DotLetter /\ c # DotLetter
<1>1. CASE c \in Letters \X {"big"}
  BY <1>1 DEF Capital, Small, DotLetter
<1>2. CASE c \in Others \X {"none"}
  <2>1. PICK o \in Others : c = <<o, "none">>
    BY <1>2
  <2>2. Small(c) = c /\ Capital(c) = c /\ o # "."
    BY <2>1, NamesAssumption DEF Small, Capital
  <2> QED BY <2>1, <2>2 DEF DotLetter
<1>3. CASE c = Blank
  BY <1>3 DEF Capital, Small, DotLetter, Blank
<1> QED BY <1>1, <1>2, <1>3 DEF InNames

\* Where the base and the extension of an entry end.
LEMMA LengthsAre ==
  ASSUME NEW e \in Entries
  PROVE  /\ BaseLength(e) \in 1 .. Base /\ e[BaseLength(e)] # Blank
         /\ \A l \in BaseLength(e) + 1 .. Base : e[l] = Blank
         /\ ExtLength(e) \in 0 .. Ext
         /\ \A l \in Base + 1 .. Base + ExtLength(e) : e[l] # Blank
         /\ \A l \in Base + ExtLength(e) + 1 .. Size : e[l] = Blank
<1>1. /\ Base \in Nat \ {0} /\ Ext \in Nat \ {0} /\ Size = Base + Ext
      /\ e[1] # Blank
      /\ \A k \in Base + 1 .. Size - 1 : e[k] = Blank => e[k + 1] = Blank
  BY NamesAssumption DEF Entries, Size
<1> DEFINE LastOf(k) == e[k] # Blank /\ \A l \in k + 1 .. Base : e[l] = Blank
           EndOf(k)  == /\ \A l \in Base + 1 .. Base + k : e[l] # Blank
                        /\ k = Ext \/ e[Base + k + 1] = Blank
<1>2. \E k \in 1 .. Base : LastOf(k)
  <2> DEFINE S == {k \in 1 .. Base : e[k] # Blank}
             f == [k \in S |-> Base - k]
  <2>1. S # {} /\ f \in [S -> Nat] /\ \A k \in S : f[k] = Base - k
    BY <1>1
  <2>2. PICK k \in S : \A l \in S : f[k] =< f[l]
    <3> HIDE DEF S, f
    <3> QED BY <2>1, LeastExists
  <2>3. ASSUME NEW l \in k + 1 .. Base
        PROVE  e[l] = Blank
    <3>1. ASSUME l \in S PROVE FALSE
      <4>1. f[k] =< f[l] /\ f[l] = Base - l /\ f[k] = Base - k
        BY <2>1, <2>2, <3>1
      <4> QED BY <4>1, <1>1
    <3>2. l \in 1 .. Base
      BY <1>1
    <3> QED BY <3>1, <3>2
  <2> QED BY <2>3
<1>3. \E k \in 0 .. Ext : EndOf(k)
  <2> DEFINE S == {k \in 1 .. Ext : e[Base + k] = Blank}
             f == [k \in S |-> k]
  <2>1. CASE S = {}
    <3>1. ASSUME NEW l \in Base + 1 .. Base + Ext
          PROVE  e[l] # Blank
      <4>1. l - Base \in 1 .. Ext /\ Base + (l - Base) = l
        BY <1>1
      <4> QED BY <4>1, <2>1
    <3> QED BY <3>1, <1>1
  <2>2. CASE S # {}
    <3>1. f \in [S -> Nat] /\ \A k \in S : f[k] = k
      BY <1>1
    <3>2. PICK k \in S : \A l \in S : f[k] =< f[l]
      <4> HIDE DEF S, f
      <4> QED BY <2>2, <3>1, LeastExists
    <3>3. ASSUME NEW l \in Base + 1 .. Base + (k - 1)
          PROVE  e[l] # Blank
      <4>1. l - Base \in 1 .. Ext /\ Base + (l - Base) = l /\ ~ (k =< l - Base)
        BY <1>1
      <4>2. l - Base \notin S
        BY <4>1, <3>1, <3>2
      <4> QED BY <4>1, <4>2
    <3>4. k - 1 \in 0 .. Ext /\ Base + (k - 1) + 1 = Base + k
      BY <1>1
    <3> QED BY <3>3, <3>4
  <2> QED BY <2>1, <2>2
<1>4. /\ BaseLength(e) = CHOOSE k \in 1 .. Base : LastOf(k)
      /\ ExtLength(e) = CHOOSE k \in 0 .. Ext : EndOf(k)
  BY DEF BaseLength, ExtLength
<1> HIDE DEF LastOf, EndOf
<1>5. /\ BaseLength(e) \in 1 .. Base /\ LastOf(BaseLength(e))
      /\ ExtLength(e) \in 0 .. Ext /\ EndOf(ExtLength(e))
  BY <1>2, <1>3, <1>4
<1> DEFINE x == ExtLength(e)
<1>6. x \in 0 .. Ext /\ (x = Ext \/ e[Base + x + 1] = Blank)
  BY <1>5 DEF EndOf
<1> HIDE DEF x
<1>7. \A l \in Base + x + 1 .. Size : e[l] = Blank
  <2> DEFINE S == {l \in Base + x + 1 .. Size : e[l] # Blank}
             f == [k \in S |-> k]
  <2>1. SUFFICES ASSUME S # {} PROVE FALSE
    OBVIOUS
  <2>2. f \in [S -> Nat] /\ \A k \in S : f[k] = k
    BY <1>1, <1>6
  <2>3. PICK k \in S : \A l \in S : f[k] =< f[l]
    <3> HIDE DEF S, f
    <3> QED BY <2>1, <2>2, LeastExists
  <2>4. k # Base + x + 1
    BY <1>1, <1>6
  <2>5. k - 1 \in Base + x + 1 .. Size /\ k - 1 \in Base + 1 .. Size - 1 /\ (k - 1) + 1 = k /\ ~ (k =< k - 1)
    BY <2>4, <1>1, <1>6
  <2>6. k - 1 \notin S
    BY <2>2, <2>3, <2>5
  <2>7. e[k - 1] = Blank
    BY <2>5, <2>6
  <2>8. e[(k - 1) + 1] = Blank
    BY <2>5, <2>7, <1>1
  <2> QED BY <2>5, <2>8
<1> QED BY <1>5, <1>7 DEF LastOf, EndOf, x

\* Three sequences one behind the other, the second of one element.
LEMMA Joined ==
  ASSUME NEW C, NEW p \in Seq(C), NEW c \in C, NEW q \in Seq(C)
  PROVE  /\ Len((p \o <<c>>) \o q) = Len(p) + 1 + Len(q)
         /\ \A k \in 1 .. Len(p) : ((p \o <<c>>) \o q)[k] = p[k]
         /\ ((p \o <<c>>) \o q)[Len(p) + 1] = c
         /\ \A k \in 1 .. Len(q) : ((p \o <<c>>) \o q)[Len(p) + 1 + k] = q[k]
         /\ Len(p \o q) = Len(p) + Len(q)
         /\ \A k \in 1 .. Len(p) : (p \o q)[k] = p[k]
         /\ \A k \in 1 .. Len(q) : (p \o q)[Len(p) + k] = q[k]
<1> DEFINE r == <<c>>
           m == p \o r
<1>1. r \in Seq(C) /\ Len(r) = 1 /\ r[1] = c /\ Len(p) \in Nat /\ Len(q) \in Nat
  BY LenProperties
<1> HIDE DEF r
<1>2. /\ m \in Seq(C) /\ Len(m) = Len(p) + Len(r)
      /\ \A k \in 1 .. Len(p) + Len(r) : m[k] = IF k <= Len(p) THEN p[k] ELSE r[k - Len(p)]
  BY <1>1, ConcatProperties
<1> HIDE DEF m
<1>3. /\ Len(m \o q) = Len(m) + Len(q)
      /\ \A k \in 1 .. Len(m) + Len(q) : (m \o q)[k] = IF k <= Len(m) THEN m[k] ELSE q[k - Len(m)]
  <2>1. m \in Seq(C)
    BY <1>2
  <2> QED BY <2>1, ConcatProperties
<1>4. /\ Len(p \o q) = Len(p) + Len(q)
      /\ \A k \in 1 .. Len(p) + Len(q) : (p \o q)[k] = IF k <= Len(p) THEN p[k] ELSE q[k - Len(p)]
  BY ConcatProperties
<1>5. \A k \in 1 .. Len(p) : (m \o q)[k] = p[k] /\ (p \o q)[k] = p[k]
  BY <1>1, <1>2, <1>3, <1>4
<1>6. (m \o q)[Len(p) + 1] = c
  BY <1>1, <1>2, <1>3
<1>7. \A k \in 1 .. Len(q) : (m \o q)[Len(p) + 1 + k] = q[k] /\ (p \o q)[Len(p) + k] = q[k]
  BY <1>1, <1>2, <1>3, <1>4
<1> QED BY <1>1, <1>2, <1>3, <1>4, <1>5, <1>6, <1>7 DEF m, r

\* The characters of the names a listing shows, and of those without a dot.
LEMMA NamesAre ==
  ASSUME NEW e \in Entries, NEW b, b = BaseLength(e), NEW x, x = ExtLength(e)
  PROVE  /\ Len(fattostr(e)) = IF x = 0 THEN b ELSE b + 1 + x
         /\ \A k \in 1 .. b : fattostr(e)[k] = Small(e[k])
         /\ x # 0 => fattostr(e)[b + 1] = DotLetter
         /\ \A k \in 1 .. x : fattostr(e)[b + 1 + k] = Small(e[Base + k])
         /\ Len(WithoutDot(e)) = b + x
         /\ \A k \in 1 .. b : WithoutDot(e)[k] = Small(e[k])
         /\ \A k \in 1 .. x : WithoutDot(e)[b + k] = Small(e[Base + k])
         /\ \A k \in 1 .. b : e[k] \in InNames \cup {Blank}
         /\ \A k \in 1 .. x : e[Base + k] \in InNames \cup {Blank}
<1>1. /\ b \in 1 .. Base /\ x \in 0 .. Ext /\ Base \in Nat \ {0} /\ Ext \in Nat \ {0} /\ Size = Base + Ext
      /\ e \in [1 .. Size -> InNames \cup {Blank}]
  BY LengthsAre, NamesAssumption DEF Entries, Size
<1>2. /\ \A k \in 1 .. b : e[k] \in InNames \cup {Blank}
      /\ \A k \in 1 .. x : e[Base + k] \in InNames \cup {Blank}
  BY <1>1
<1> DEFINE C == {Small(c) : c \in InNames \cup {Blank}} \cup {DotLetter}
           p == BaseOf(e)
           q == ExtOf(e)
<1>3. DotLetter \in C /\ (\A k \in 1 .. b : Small(e[k]) \in C) /\ (\A k \in 1 .. x : Small(e[Base + k]) \in C)
  BY <1>2
<1>4. p = [k \in 1 .. b |-> Small(e[k])] /\ q = [k \in 1 .. x |-> Small(e[Base + k])]
  BY DEF BaseOf, ExtOf
<1>5. fattostr(e) = (IF x = 0 THEN p ELSE (p \o <<DotLetter>>) \o q) /\ WithoutDot(e) = p \o q
  BY DEF fattostr, WithoutDot
<1> HIDE DEF C, p, q
<1>6. p \in [1 .. b -> C] /\ q \in [1 .. x -> C]
  BY <1>3, <1>4
<1>7. p \in Seq(C) /\ q \in Seq(C)
  BY <1>1, <1>6, SMTT(20)
<1>8. Len(p) = b /\ Len(q) = x
  BY <1>1, <1>4
<1>9. /\ Len((p \o <<DotLetter>>) \o q) = b + 1 + x
      /\ \A k \in 1 .. b : ((p \o <<DotLetter>>) \o q)[k] = p[k]
      /\ ((p \o <<DotLetter>>) \o q)[b + 1] = DotLetter
      /\ \A k \in 1 .. x : ((p \o <<DotLetter>>) \o q)[b + 1 + k] = q[k]
      /\ Len(p \o q) = b + x
      /\ \A k \in 1 .. b : (p \o q)[k] = p[k]
      /\ \A k \in 1 .. x : (p \o q)[b + k] = q[k]
  <2>1. /\ Len((p \o <<DotLetter>>) \o q) = Len(p) + 1 + Len(q)
        /\ \A k \in 1 .. Len(p) : ((p \o <<DotLetter>>) \o q)[k] = p[k]
        /\ ((p \o <<DotLetter>>) \o q)[Len(p) + 1] = DotLetter
        /\ \A k \in 1 .. Len(q) : ((p \o <<DotLetter>>) \o q)[Len(p) + 1 + k] = q[k]
        /\ Len(p \o q) = Len(p) + Len(q)
        /\ \A k \in 1 .. Len(p) : (p \o q)[k] = p[k]
        /\ \A k \in 1 .. Len(q) : (p \o q)[Len(p) + k] = q[k]
    BY <1>3, <1>7, Joined
  <2> QED BY <2>1, <1>8
<1>10. \A k \in 1 .. b : p[k] = Small(e[k])
  BY <1>4
<1>11. \A k \in 1 .. x : q[k] = Small(e[Base + k])
  BY <1>4
<1>12. /\ Len(fattostr(e)) = IF x = 0 THEN b ELSE b + 1 + x
       /\ \A k \in 1 .. b : fattostr(e)[k] = Small(e[k])
       /\ x # 0 => fattostr(e)[b + 1] = DotLetter
       /\ \A k \in 1 .. x : fattostr(e)[b + 1 + k] = Small(e[Base + k])
  <2>1. CASE x = 0
    <3>1. fattostr(e) = p /\ 1 .. x = {}
      BY <2>1, <1>5
    <3> QED BY <2>1, <3>1, <1>8, <1>10
  <2>2. CASE x # 0
    BY <2>2, <1>5, <1>9, <1>10, <1>11, ZenonT(60)
  <2> QED BY <2>1, <2>2
<1> QED BY <1>2, <1>5, <1>9, <1>10, <1>11, <1>12, ZenonT(60)

\* Two entries with the same name in a listing are the same.
LEMMA NamesDiffer ==
  ASSUME NEW e \in Entries, NEW o \in Entries, fattostr(e) = fattostr(o)
  PROVE  e = o
<1> DEFINE f == fattostr(e)
           b == BaseLength(e)
           x == ExtLength(e)
           c == BaseLength(o)
           y == ExtLength(o)
<1>1. /\ Base \in Nat \ {0} /\ Ext \in Nat \ {0} /\ Size = Base + Ext
      /\ e \in [1 .. Size -> InNames \cup {Blank}] /\ o \in [1 .. Size -> InNames \cup {Blank}]
  BY NamesAssumption DEF Entries, Size
<1>2. /\ b \in 1 .. Base /\ x \in 0 .. Ext
      /\ \A l \in b + 1 .. Base : e[l] = Blank
      /\ \A l \in Base + x + 1 .. Size : e[l] = Blank
  BY LengthsAre
<1>3. /\ c \in 1 .. Base /\ y \in 0 .. Ext
      /\ \A l \in c + 1 .. Base : o[l] = Blank
      /\ \A l \in Base + y + 1 .. Size : o[l] = Blank
  BY LengthsAre
<1>4. /\ Len(f) = IF x = 0 THEN b ELSE b + 1 + x
      /\ \A k \in 1 .. b : f[k] = Small(e[k])
      /\ x # 0 => f[b + 1] = DotLetter
      /\ \A k \in 1 .. x : f[b + 1 + k] = Small(e[Base + k])
  BY NamesAre
<1>5. /\ Len(f) = IF y = 0 THEN c ELSE c + 1 + y
      /\ \A k \in 1 .. c : f[k] = Small(o[k])
      /\ y # 0 => f[c + 1] = DotLetter
      /\ \A k \in 1 .. y : f[c + 1 + k] = Small(o[Base + k])
  BY NamesAre
<1>6. ASSUME NEW k \in 1 .. Size
      PROVE  /\ Capital(Small(e[k])) = e[k] /\ Small(e[k]) # DotLetter
             /\ Capital(Small(o[k])) = o[k] /\ Small(o[k]) # DotLetter
  <2>1. e[k] \in InNames \cup {Blank} /\ o[k] \in InNames \cup {Blank}
    BY <1>1
  <2> QED BY <2>1, SmallIsUndone
<1> HIDE DEF f, b, x, c, y
<1>7. /\ \A k \in 1 .. b : f[k] # DotLetter
      /\ \A k \in 1 .. x : f[b + 1 + k] # DotLetter
  <2>1. \A k \in 1 .. b : k \in 1 .. Size
    BY <1>1, <1>2
  <2>2. \A k \in 1 .. x : Base + k \in 1 .. Size
    BY <1>1, <1>2
  <2> QED BY <2>1, <2>2, <1>4, <1>6
<1>8. /\ \A k \in 1 .. c : f[k] # DotLetter
      /\ \A k \in 1 .. y : f[c + 1 + k] # DotLetter
  <2>1. \A k \in 1 .. c : k \in 1 .. Size
    BY <1>1, <1>3
  <2>2. \A k \in 1 .. y : Base + k \in 1 .. Size
    BY <1>1, <1>3
  <2> QED BY <2>1, <2>2, <1>5, <1>6
<1>9. c = b /\ y = x
  <2>0. b \in Nat /\ c \in Nat /\ x \in Nat /\ y \in Nat
    BY <1>1, <1>2, <1>3
  <2>1. ASSUME x # 0, b < c PROVE FALSE
    <3>1. b + 1 \in 1 .. c
      BY <2>0, <2>1
    <3> QED BY <3>1, <2>1, <1>4, <1>8
  <2>2. ASSUME y # 0, c < b PROVE FALSE
    <3>1. c + 1 \in 1 .. b
      BY <2>0, <2>2
    <3> QED BY <3>1, <2>2, <1>5, <1>7
  <2>3. CASE x = 0 /\ y = 0
    BY <2>3, <1>4, <1>5
  <2>4. CASE x # 0 /\ y = 0
    <3>1. c = b + 1 + x
      BY <2>4, <1>4, <1>5
    <3> QED BY <3>1, <2>0, <2>1, <2>4
  <2>5. CASE x = 0 /\ y # 0
    <3>1. b = c + 1 + y
      BY <2>5, <1>4, <1>5
    <3> QED BY <3>1, <2>0, <2>2, <2>5
  <2>6. CASE x # 0 /\ y # 0
    <3>1. b + 1 + x = c + 1 + y
      BY <2>6, <1>4, <1>5
    <3> QED BY <3>1, <2>0, <2>1, <2>2, <2>6
  <2> QED BY <2>3, <2>4, <2>5, <2>6
<1>10. ASSUME NEW k \in 1 .. Size
       PROVE  e[k] = o[k]
  <2>1. CASE k \in 1 .. b
    <3>1. Small(e[k]) = Small(o[k])
      BY <2>1, <1>4, <1>5, <1>9
    <3> QED BY <3>1, <1>6
  <2>2. CASE k \in b + 1 .. Base
    BY <2>2, <1>2, <1>3, <1>9
  <2>3. CASE k \in Base + 1 .. Base + x
    <3>1. k - Base \in 1 .. x /\ Base + (k - Base) = k
      BY <2>3, <1>1, <1>2
    <3>2. Small(e[Base + (k - Base)]) = Small(o[Base + (k - Base)])
      BY <3>1, <1>4, <1>5, <1>9
    <3> QED BY <3>1, <3>2, <1>6
  <2>4. CASE k \in Base + x + 1 .. Size
    BY <2>4, <1>2, <1>3, <1>9
  <2>5. k \in 1 .. b \/ k \in b + 1 .. Base \/ k \in Base + 1 .. Base + x \/ k \in Base + x + 1 .. Size
    BY <1>1, <1>2
  <2> QED BY <2>1, <2>2, <2>3, <2>4, <2>5
<1> QED BY <1>1, <1>10

\* The first k characters are the entry's, and the rest is blank.
AsEntryUpTo(k) == \A l \in 1 .. Size : dest[l] = IF l <= k THEN entry[l] ELSE Blank

Past == src_i > BaseLength(entry)

\* The inductive invariant: how far strtofat is, and what it has made of the name.
NamesInv ==
  /\ entry \in Entries
  /\ names_pc \in {"list", "listed", "convert", "looked"}
  /\ names_pc = "list" \/ shown = fattostr(entry)
  /\ names_pc \in {"list", "listed"} => src_i = 0 /\ dest_j = 0
  /\ names_pc \in {"convert", "looked"} =>
       /\ src \in {shown, WithoutDot(entry)}
       /\ dest \in [1 .. Size -> InNames \cup {Blank, DotLetter}]
       /\ dest_j \in 0 .. Size /\ src_i \in 0 .. Len(src)
       /\ ~Past => dest_j = src_i /\ AsEntryUpTo(dest_j)
       /\ Past /\ src = shown /\ ~FullBase =>
            dest_j = Base + (src_i - BaseLength(entry) - 1) /\ AsEntryUpTo(dest_j)
       /\ Past /\ src = shown /\ FullBase => dest_j = src_i /\ dest[Base + 1] = DotLetter
       /\ Past /\ src # shown /\ FullBase => dest_j = src_i /\ AsEntryUpTo(dest_j)
  /\ names_pc = "looked" => ~InLoop

\* One character of a name that strtofat is given.
LEMMA TakeInv ==
  ASSUME NamesInv, Take
  PROVE  NamesInv'
<1> DEFINE e == entry
           b == BaseLength(entry)
           x == ExtLength(entry)
           k == src_i + 1
<1>1. /\ Base \in Nat \ {0} /\ Ext \in Nat \ {0} /\ Size = Base + Ext
      /\ e \in Entries /\ e \in [1 .. Size -> InNames \cup {Blank}]
  BY NamesAssumption DEF NamesInv, Entries, Size
<1>2. /\ b \in 1 .. Base /\ x \in 0 .. Ext /\ e[b] # Blank
      /\ \A l \in b + 1 .. Base : e[l] = Blank
      /\ \A l \in Base + x + 1 .. Size : e[l] = Blank
  BY <1>1, LengthsAre
<1>3. /\ names_pc = "convert" /\ names_pc' = "convert" /\ shown = fattostr(e)
      /\ src \in {shown, WithoutDot(e)}
      /\ dest \in [1 .. Size -> InNames \cup {Blank, DotLetter}]
      /\ dest_j \in 0 .. Size - 1 /\ src_i \in Nat /\ src_i < Len(src)
      /\ entry' = entry /\ shown' = shown /\ src' = src /\ src_i' = k
      /\ IF Separates(k)
         THEN dest_j' = Base /\ dest' = dest
         ELSE dest_j' = dest_j + 1 /\ dest' = [dest EXCEPT ![dest_j + 1] = Capital(src[k])]
  <2>1. /\ names_pc = "convert" /\ shown = fattostr(e)
        /\ src \in {shown, WithoutDot(e)}
        /\ dest \in [1 .. Size -> InNames \cup {Blank, DotLetter}]
        /\ dest_j \in 0 .. Size /\ src_i \in 0 .. Len(src) /\ dest_j < Size /\ src_i < Len(src)
    BY DEF NamesInv, Take, InLoop
  <2> QED BY <2>1, <1>1 DEF Take
<1>4. /\ src_i <= b => dest_j = src_i /\ AsEntryUpTo(dest_j)
      /\ src_i > b /\ src = shown /\ ~FullBase => dest_j = Base + (src_i - b - 1) /\ AsEntryUpTo(dest_j)
      /\ src_i > b /\ src = shown /\ FullBase => dest_j = src_i /\ dest[Base + 1] = DotLetter
      /\ src_i > b /\ src # shown /\ FullBase => dest_j = src_i /\ AsEntryUpTo(dest_j)
  BY <1>1, <1>2, <1>3 DEF NamesInv, Past
<1>5. /\ Len(shown) = IF x = 0 THEN b ELSE b + 1 + x
      /\ \A l \in 1 .. b : shown[l] = Small(e[l])
      /\ x # 0 => shown[b + 1] = DotLetter
      /\ \A l \in 1 .. x : shown[b + 1 + l] = Small(e[Base + l])
      /\ Len(WithoutDot(e)) = b + x
      /\ \A l \in 1 .. b : WithoutDot(e)[l] = Small(e[l])
      /\ \A l \in 1 .. x : WithoutDot(e)[b + l] = Small(e[Base + l])
  <2>1. /\ Len(fattostr(e)) = IF x = 0 THEN b ELSE b + 1 + x
        /\ \A l \in 1 .. b : fattostr(e)[l] = Small(e[l])
        /\ x # 0 => fattostr(e)[b + 1] = DotLetter
        /\ \A l \in 1 .. x : fattostr(e)[b + 1 + l] = Small(e[Base + l])
        /\ Len(WithoutDot(e)) = b + x
        /\ \A l \in 1 .. b : WithoutDot(e)[l] = Small(e[l])
        /\ \A l \in 1 .. x : WithoutDot(e)[b + l] = Small(e[Base + l])
    <3>1. b = BaseLength(e) /\ x = ExtLength(e) /\ e \in Entries
      BY <1>1
    <3> HIDE DEF e, b, x
    <3> QED BY <3>1, NamesAre
  <2> QED BY <2>1, <1>3
<1>6. FullBase <=> b = Base
  BY <1>1, <1>2 DEF FullBase
<1>7. ASSUME NEW l \in 1 .. Size
      PROVE  Capital(Small(e[l])) = e[l] /\ Small(e[l]) # DotLetter /\ e[l] \in InNames \cup {Blank}
  <2>1. e[l] \in InNames \cup {Blank}
    BY <1>1
  <2> QED BY <2>1, SmallIsUndone
<1> HIDE DEF b, x
\* A character of the entry is copied.
<1>8. ASSUME NEW l \in 1 .. Size, src[k] = Small(e[l])
      PROVE  /\ dest_j' = dest_j + 1
             /\ dest' = [dest EXCEPT ![dest_j + 1] = e[l]]
             /\ dest' \in [1 .. Size -> InNames \cup {Blank, DotLetter}]
             /\ dest_j' \in 0 .. Size
  <2>1. ~Separates(k)
    BY <1>7, <1>8 DEF Separates
  <2>2. dest_j' = dest_j + 1 /\ dest' = [dest EXCEPT ![dest_j + 1] = e[l]]
    BY <2>1, <1>3, <1>7, <1>8
  <2>3. dest_j + 1 \in 0 .. Size
    BY <1>1, <1>3
  <2>4. e[l] \in InNames \cup {Blank, DotLetter}
    BY <1>7
  <2> QED BY <2>2, <2>3, <2>4, <1>3
\* It is the one that belongs there.
<1>9. ASSUME NEW l \in 1 .. Size, src[k] = Small(e[l]), l = dest_j + 1, AsEntryUpTo(dest_j)
      PROVE  \A m \in 1 .. Size : dest'[m] = IF m <= dest_j' THEN e[m] ELSE Blank
  <2>1. dest_j' = dest_j + 1 /\ dest' = [dest EXCEPT ![dest_j + 1] = e[l]]
    BY <1>8, <1>9
  <2>2. ASSUME NEW m \in 1 .. Size
        PROVE  dest'[m] = IF m <= dest_j' THEN e[m] ELSE Blank
    <3>1. CASE m = l
      BY <3>1, <2>1, <1>1, <1>3, <1>9
    <3>2. CASE m # l
      <4>1. dest'[m] = dest[m]
        BY <3>2, <2>1, <1>3, <1>9
      <4>2. m <= dest_j' <=> m <= dest_j
        BY <3>2, <2>1, <1>3, <1>9
      <4> QED BY <4>1, <4>2, <1>9 DEF AsEntryUpTo
    <3> QED BY <3>1, <3>2
  <2> QED BY <2>2
<1> DEFINE Fits == \A m \in 1 .. Size : dest'[m] = IF m <= dest_j' THEN e[m] ELSE Blank
<1> HIDE DEF Fits
<1>10. /\ dest' \in [1 .. Size -> InNames \cup {Blank, DotLetter}]
       /\ dest_j' \in 0 .. Size
       /\ k <= b => dest_j' = k /\ Fits
       /\ k > b /\ src = shown /\ ~FullBase => dest_j' = Base + (k - b - 1) /\ Fits
       /\ k > b /\ src = shown /\ FullBase => dest_j' = k /\ dest'[Base + 1] = DotLetter
       /\ k > b /\ src # shown /\ FullBase => dest_j' = k /\ Fits
  <2>0. k > b => ~ (k <= b)
    BY <1>2, <1>3
  <2>1. CASE k <= b
    <3>1. k \in 1 .. Size /\ k \in 1 .. b /\ src_i <= b /\ ~ (k > b)
      BY <2>1, <1>1, <1>2, <1>3
    <3>2. src[k] = Small(e[k])
      BY <3>1, <1>3, <1>5
    <3>3. k = dest_j + 1 /\ AsEntryUpTo(dest_j)
      BY <3>1, <1>4
    <3>4. Fits
      BY <3>1, <3>2, <3>3, <1>9 DEF Fits
    <3>5. /\ dest' \in [1 .. Size -> InNames \cup {Blank, DotLetter}]
          /\ dest_j' \in 0 .. Size /\ dest_j' = dest_j + 1
      BY <3>1, <3>2, <1>8
    <3> QED BY <3>1, <3>3, <3>4, <3>5
  <2>2. CASE k > b /\ src = shown /\ src_i <= b
    <3>1. src_i = b /\ k = b + 1 /\ x # 0 /\ dest_j = b /\ AsEntryUpTo(b)
      BY <2>2, <1>2, <1>3, <1>4, <1>5
    <3>2. src[k] = DotLetter
      BY <3>1, <2>2, <1>5
    <3>3. CASE b = Base
      <4>1. ~Separates(k)
        BY <3>1, <3>3, <1>1 DEF Separates
      <4>2. dest_j' = k /\ dest' = [dest EXCEPT ![b + 1] = DotLetter]
        BY <4>1, <3>1, <3>2, <1>3 DEF Capital, DotLetter
      <4>3. b + 1 \in 1 .. Size /\ k \in 0 .. Size
        BY <3>1, <3>3, <1>1
      <4>4. dest'[b + 1] = DotLetter /\ dest' \in [1 .. Size -> InNames \cup {Blank, DotLetter}]
        BY <4>2, <4>3, <1>3
      <4> HIDE DEF k
      <4> QED BY <4>2, <4>3, <4>4, <3>3, <2>0, <2>2, <1>6
    <3>4. CASE b # Base
      <4>1. Separates(k)
        BY <3>1, <3>2, <3>4, <1>1, <1>2 DEF Separates
      <4>2. dest_j' = Base /\ dest' = dest
        BY <4>1, <1>3
      <4>3. Base \in 0 .. Size /\ k - b - 1 = 0 /\ Base + 0 = Base
        BY <3>1, <1>1, <1>2
      <4>4. Fits
        <5>1. ASSUME NEW m \in 1 .. Size
              PROVE  dest[m] = IF m <= Base THEN e[m] ELSE Blank
          <6>1. dest[m] = IF m <= b THEN e[m] ELSE Blank
            BY <3>1 DEF AsEntryUpTo
          <6>2. m <= b \/ m \in b + 1 .. Base \/ ~ (m <= Base)
            BY <1>1, <1>2
          <6>3. m <= b => m <= Base
            BY <1>1, <1>2
          <6>4. ~ (m <= Base) => ~ (m <= b)
            BY <6>3
          <6>5. m \in b + 1 .. Base => m <= Base /\ ~ (m <= b)
            BY <1>1, <1>2
          <6> QED BY <6>1, <6>2, <6>3, <6>4, <6>5, <1>2
        <5> QED BY <5>1, <4>2 DEF Fits
      <4>5. dest_j' = Base + (k - b - 1)
        BY <4>2, <4>3
      <4> HIDE DEF k
      <4> QED BY <4>2, <4>3, <4>4, <4>5, <3>4, <2>0, <2>2, <1>3, <1>6
    <3> QED BY <3>3, <3>4
  <2>3. CASE k > b /\ src = shown /\ src_i > b
    <3>1. k - b - 1 \in 1 .. x /\ b + 1 + (k - b - 1) = k /\ x # 0
      BY <2>3, <1>2, <1>3, <1>5
    <3> DEFINE l == Base + (k - b - 1)
    <3>2. l \in 1 .. Size
      <4>1. k - b - 1 \in 1 .. Ext
        BY <3>1, <1>1, <1>2
      <4> QED BY <4>1, <1>1
    <3>3. src[k] = Small(e[l])
      BY <3>1, <2>3, <1>5
    <3>4. /\ dest_j' = dest_j + 1
          /\ dest' = [dest EXCEPT ![dest_j + 1] = e[l]]
          /\ dest' \in [1 .. Size -> InNames \cup {Blank, DotLetter}]
          /\ dest_j' \in 0 .. Size
      BY <3>2, <3>3, <1>8
    <3>5. CASE FullBase
      <4>1. dest_j = src_i /\ dest[Base + 1] = DotLetter
        BY <3>5, <2>3, <1>4
      <4>2. b = Base /\ Base + 1 \in 1 .. Size /\ dest_j + 1 # Base + 1
        BY <4>1, <3>5, <2>3, <1>1, <1>2, <1>3, <1>6
      <4>3. dest'[Base + 1] = DotLetter
        BY <4>1, <4>2, <3>4, <1>3
      <4>4. dest_j' = k
        BY <4>1, <3>4
      <4> HIDE DEF k, l
      <4> QED BY <4>3, <4>4, <3>4, <3>5, <2>0, <2>3
    <3>6. CASE ~FullBase
      <4>1. dest_j = Base + (src_i - b - 1) /\ AsEntryUpTo(dest_j)
        BY <3>6, <2>3, <1>4
      <4>2. l = dest_j + 1
        BY <4>1, <1>1, <1>2, <1>3
      <4> HIDE DEF l
      <4>3. Fits
        BY <4>1, <4>2, <3>2, <3>3, <1>9 DEF Fits
      <4>4. dest_j' = Base + (k - b - 1)
        BY <4>2, <3>4 DEF l
      <4> HIDE DEF k
      <4> QED BY <4>3, <4>4, <3>4, <3>6, <2>0, <2>3
    <3> QED BY <3>5, <3>6
  <2>4. CASE k > b /\ src # shown
    <3>1. src = WithoutDot(e) /\ k - b \in 1 .. x /\ b + (k - b) = k
      BY <2>4, <1>2, <1>3, <1>5
    <3> DEFINE l == Base + (k - b)
    <3>2. l \in 1 .. Size
      BY <3>1, <1>1, <1>2
    <3>3. src[k] = Small(e[l])
      BY <3>1, <1>5
    <3>4. /\ dest_j' = dest_j + 1
          /\ dest' \in [1 .. Size -> InNames \cup {Blank, DotLetter}]
          /\ dest_j' \in 0 .. Size
      BY <3>2, <3>3, <1>8
    <3>5. CASE FullBase
      <4>1. dest_j = src_i /\ AsEntryUpTo(dest_j)
        BY <3>5, <2>4, <1>2, <1>3, <1>4
      <4>2. l = dest_j + 1
        BY <4>1, <3>5, <1>1, <1>2, <1>3, <1>6
      <4> HIDE DEF l
      <4>3. Fits
        BY <4>1, <4>2, <3>2, <3>3, <1>9 DEF Fits
      <4>4. dest_j' = k
        BY <4>1, <3>4
      <4> HIDE DEF k
      <4> QED BY <4>3, <4>4, <3>4, <3>5, <2>0, <2>4
    <3>6. CASE ~FullBase
      <4> HIDE DEF k, l
      <4> QED BY <3>4, <3>6, <2>0, <2>4
    <3> QED BY <3>5, <3>6
  <2> QED BY <2>1, <2>2, <2>3, <2>4, <1>2, <1>3
<1>11. Fits => AsEntryUpTo(dest_j)'
  BY <1>3 DEF Fits, AsEntryUpTo
<1>12. /\ Past' <=> k > b
       /\ FullBase' <=> FullBase
  BY <1>3 DEF Past, FullBase, b
<1>13. k \in 0 .. Len(src')
  <2>1. Len(src) \in Nat
    BY <1>1, <1>2, <1>3, <1>5
  <2> QED BY <2>1, <1>3
<1>14. b' = b
  BY <1>3 DEF b
<1> DEFINE A == AsEntryUpTo(dest_j)'
<1>15. /\ ~Past' => dest_j' = src_i' /\ A
       /\ Past' /\ src' = shown' /\ ~FullBase' => dest_j' = Base + (src_i' - b - 1) /\ A
       /\ Past' /\ src' = shown' /\ FullBase' => dest_j' = src_i' /\ dest'[Base + 1] = DotLetter
       /\ Past' /\ src' # shown' /\ FullBase' => dest_j' = src_i' /\ A
  <2>1. ~ (k > b) => k <= b
    BY <1>2, <1>3
  <2> HIDE DEF A, k
  <2> QED BY <2>1, <1>3, <1>10, <1>11, <1>12 DEF A
<1> QED BY <1>1, <1>3, <1>10, <1>13, <1>14, <1>15 DEF NamesInv, b

LEMMA NamesInitInv == ShortNamesInit => NamesInv
<1> SUFFICES ASSUME ShortNamesInit PROVE NamesInv
  OBVIOUS
<1> QED BY DEF ShortNamesInit, NamesInv

\* Every step keeps the invariant.
LEMMA NamesStep == NamesInv /\ [ShortNamesNext]_namesVars => NamesInv'
<1> SUFFICES ASSUME NamesInv, [ShortNamesNext]_namesVars PROVE NamesInv'
  OBVIOUS
<1>0. /\ entry \in Entries /\ Base \in Nat \ {0} /\ Ext \in Nat \ {0} /\ Size = Base + Ext
      /\ BaseLength(entry) \in 1 .. Base /\ ExtLength(entry) \in 0 .. Ext
  BY LengthsAre, NamesAssumption DEF NamesInv, Size
<1>1. CASE List
  BY <1>1 DEF List, NamesInv
<1>2. CASE Look
  <2>1. /\ shown = fattostr(entry) /\ src_i = 0 /\ dest_j = 0
        /\ src' \in {shown, WithoutDot(entry)} /\ dest' = [k \in 1 .. Size |-> Blank]
        /\ names_pc' = "convert"
        /\ entry' = entry /\ shown' = shown /\ src_i' = 0 /\ dest_j' = 0
    BY <1>2 DEF Look, NamesInv
  <2>2. Len(fattostr(entry)) \in Nat /\ Len(WithoutDot(entry)) \in Nat
    <3> DEFINE e == entry
               b == BaseLength(e)
               x == ExtLength(e)
    <3>1. e \in Entries /\ b \in Nat /\ x \in Nat
      BY <1>0
    <3>2. b = BaseLength(e) /\ x = ExtLength(e)
      OBVIOUS
    <3> HIDE DEF e, b, x
    <3>3. /\ Len(fattostr(e)) = IF x = 0 THEN b ELSE b + 1 + x
          /\ Len(WithoutDot(e)) = b + x
      BY <3>1, <3>2, NamesAre
    <3> QED BY <3>1, <3>3 DEF e
  <2>3. src_i' \in 0 .. Len(src') /\ dest_j' \in 0 .. Size
    BY <1>0, <2>1, <2>2
  <2>4. dest' \in [1 .. Size -> InNames \cup {Blank, DotLetter}]
    BY <2>1
  <2>5. ~Past'
    BY <1>0, <2>1 DEF Past
  <2>6. AsEntryUpTo(dest_j)'
    <3>1. \A l \in 1 .. Size : dest'[l] = Blank /\ ~ (l <= dest_j')
      BY <1>0, <2>1
    <3> QED BY <3>1 DEF AsEntryUpTo
  <2> QED BY <1>0, <2>1, <2>3, <2>4, <2>5, <2>6 DEF NamesInv
<1>3. CASE Take
  BY <1>3, TakeInv
<1>4. CASE Looked
  <2>1. /\ names_pc = "convert" /\ ~InLoop /\ names_pc' = "looked"
        /\ entry' = entry /\ shown' = shown /\ src' = src /\ dest' = dest
        /\ src_i' = src_i /\ dest_j' = dest_j
    BY <1>4 DEF Looked
  <2>2. /\ Past' <=> Past
        /\ FullBase' <=> FullBase
        /\ InLoop' <=> InLoop
        /\ AsEntryUpTo(dest_j)' <=> AsEntryUpTo(dest_j)
    BY <2>1 DEF Past, FullBase, InLoop, AsEntryUpTo
  <2> QED BY <2>1, <2>2 DEF NamesInv
<1>5. CASE UNCHANGED namesVars
  <2>1. /\ Past' <=> Past
        /\ FullBase' <=> FullBase
        /\ InLoop' <=> InLoop
        /\ AsEntryUpTo(dest_j)' <=> AsEntryUpTo(dest_j)
    BY <1>5 DEF namesVars, Past, FullBase, InLoop, AsEntryUpTo
  <2> QED BY <1>5, <2>1 DEF namesVars, NamesInv
<1> QED BY <1>1, <1>2, <1>3, <1>4, <1>5 DEF ShortNamesNext

\* How far strtofat is in a name, and what it has made of it, in every state
\* (ksrc/fs/fat.c:69-88).
THEOREM NamesInvariant == ShortNamesSpec => []NamesInv
<1> QED BY NamesInitInv, NamesStep, PTL DEF ShortNamesSpec

LEMMA NamesRight == NamesInv => Renaming
<1> SUFFICES ASSUME NamesInv PROVE Renaming
  OBVIOUS
<1> DEFINE e == entry
           b == BaseLength(entry)
           x == ExtLength(entry)
<1>1. /\ Base \in Nat \ {0} /\ Ext \in Nat \ {0} /\ Size = Base + Ext
      /\ e \in Entries /\ e \in [1 .. Size -> InNames \cup {Blank}]
  BY NamesAssumption DEF NamesInv, Entries, Size
<1>2. /\ b \in 1 .. Base /\ x \in 0 .. Ext /\ e[b] # Blank
      /\ \A l \in b + 1 .. Base : e[l] = Blank
      /\ \A l \in Base + 1 .. Base + x : e[l] # Blank
      /\ \A l \in Base + x + 1 .. Size : e[l] = Blank
  BY <1>1, LengthsAre
<1>3. /\ Len(fattostr(e)) = IF x = 0 THEN b ELSE b + 1 + x
      /\ Len(WithoutDot(e)) = b + x
  <2>1. b = BaseLength(e) /\ x = ExtLength(e) /\ e \in Entries
    BY <1>1
  <2> HIDE DEF e, b, x
  <2> QED BY <2>1, NamesAre
<1>4. FullBase <=> b = Base
  BY <1>1, <1>2 DEF FullBase
<1>5. HasExt <=> x # 0
  BY <1>1, <1>2 DEF HasExt
<1>6. ListedApart
  BY <1>1, NamesDiffer DEF ListedApart, NamesInv
\* What is known when strtofat is done.
<1>7. ASSUME names_pc = "looked"
      PROVE  /\ shown = fattostr(e) /\ src \in {shown, WithoutDot(e)}
             /\ dest \in [1 .. Size -> InNames \cup {Blank, DotLetter}]
             /\ dest_j \in 0 .. Size /\ src_i \in 0 .. Len(src)
             /\ dest_j = Size \/ src_i = Len(src)
             /\ src_i <= b => dest_j = src_i /\ AsEntryUpTo(dest_j)
             /\ src_i > b /\ src = shown /\ ~FullBase => dest_j = Base + (src_i - b - 1) /\ AsEntryUpTo(dest_j)
             /\ src_i > b /\ src = shown /\ FullBase => dest_j = src_i /\ dest[Base + 1] = DotLetter
             /\ src_i > b /\ src # shown /\ FullBase => dest_j = src_i /\ AsEntryUpTo(dest_j)
  <2>1. /\ shown = fattostr(e) /\ src \in {shown, WithoutDot(e)}
        /\ dest \in [1 .. Size -> InNames \cup {Blank, DotLetter}]
        /\ dest_j \in 0 .. Size /\ src_i \in 0 .. Len(src)
        /\ ~InLoop
    BY <1>7 DEF NamesInv
  <2>2. Len(src) \in Nat
    BY <2>1, <1>2, <1>3
  <2>3. dest_j = Size \/ src_i = Len(src)
    BY <2>1, <2>2, <1>1 DEF InLoop
  <2>4. src_i <= b => ~Past
    BY <2>1, <2>2, <1>2 DEF Past
  <2>5. src_i > b => Past
    BY DEF Past
  <2> QED BY <2>1, <2>3, <2>4, <2>5, <1>7 DEF NamesInv
<1> HIDE DEF b, x
\* Behind the last character of the entry all is blank.
<1>8. ASSUME dest \in [1 .. Size -> InNames \cup {Blank, DotLetter}],
             NEW k \in Nat, AsEntryUpTo(k),
             k = Size \/ k = Base + x \/ (k = b /\ x = 0)
      PROVE  dest = e
  <2>1. ASSUME NEW l \in 1 .. Size
        PROVE  dest[l] = e[l]
    <3>1. dest[l] = IF l <= k THEN e[l] ELSE Blank
      BY <1>8 DEF AsEntryUpTo
    <3>2. ASSUME ~ (l <= k)
          PROVE  l \in b + 1 .. Base \/ l \in Base + x + 1 .. Size
      BY <3>2, <1>1, <1>2, <1>8
    <3> QED BY <3>1, <3>2, <1>2
  <2> QED BY <2>1, <1>1, <1>8
<1>9. FoundAgain
  <2> SUFFICES ASSUME names_pc = "looked", src = shown
               PROVE  dest = e <=> ~ (FullBase /\ HasExt)
    BY DEF FoundAgain
  <2>1. CASE x = 0
    <3>1. src_i = b /\ dest_j = b /\ AsEntryUpTo(b)
      BY <2>1, <1>1, <1>2, <1>3, <1>7
    <3>2. dest = e
      BY <3>1, <2>1, <1>2, <1>7, <1>8
    <3> QED BY <3>2, <2>1, <1>5
  <2>2. CASE x # 0
    <3>1. src_i > b /\ Len(src) = b + 1 + x
      BY <2>2, <1>1, <1>2, <1>3, <1>7
    <3>2. CASE FullBase
      <4>1. dest[Base + 1] = DotLetter
        BY <3>1, <3>2, <1>7
      <4>2. e[Base + 1] \in InNames \cup {Blank}
        BY <1>1
      <4>3. e[Base + 1] # DotLetter
        BY <4>2, SmallIsUndone
      <4>4. dest # e
        BY <4>1, <4>3
      <4> QED BY <4>4, <3>2, <2>2, <1>5
    <3>3. CASE ~FullBase
      <4>1. dest_j = Base + (src_i - b - 1) /\ AsEntryUpTo(dest_j)
        BY <3>1, <3>3, <1>7
      <4>2. dest_j = Size \/ dest_j = Base + x
        BY <4>1, <3>1, <1>1, <1>2, <1>7
      <4>3. dest_j \in Nat
        BY <1>1, <1>7
      <4>4. dest = e
        BY <4>1, <4>2, <4>3, <1>7, <1>8
      <4> QED BY <4>4, <3>3
    <3> QED BY <3>2, <3>3
  <2> QED BY <2>1, <2>2
<1>10. FoundWithoutDot
  <2> SUFFICES ASSUME names_pc = "looked", src = WithoutDot(e), FullBase
               PROVE  dest = e
    BY DEF FoundWithoutDot
  <2>1. Len(src) = b + x /\ b = Base /\ dest_j \in Nat
    BY <1>1, <1>3, <1>4, <1>7
  <2>2. CASE src_i <= b
    <3>1. dest_j = b /\ x = 0 /\ AsEntryUpTo(dest_j)
      BY <2>1, <2>2, <1>1, <1>2, <1>7
    <3> QED BY <3>1, <2>1, <1>7, <1>8
  <2>3. CASE src_i > b
    <3>1. src # shown
      BY <2>1, <2>3, <1>2, <1>3, <1>7
    <3>2. dest_j = src_i /\ AsEntryUpTo(dest_j)
      BY <3>1, <2>3, <1>7
    <3>3. dest_j = Size \/ dest_j = Base + x
      BY <3>2, <2>1, <1>7
    <3> QED BY <3>2, <3>3, <2>1, <1>7, <1>8
  <2>4. src_i <= b \/ src_i > b
    BY <1>2, <2>1, <1>7
  <2> QED BY <2>2, <2>3, <2>4
<1> QED BY <1>6, <1>9, <1>10 DEF Renaming

\* For every set of letters and every length of base and extension: a name from a
\* listing leads back to its entry unless base and extension are full and present,
\* such a name is found without its dot, and no two entries are listed alike
\* (ksrc/fs/fat.c:69-127).
THEOREM RenamesRight == ShortNamesSpec => []Renaming
<1> QED BY NamesInvariant, NamesRight, PTL

=============================================================================
