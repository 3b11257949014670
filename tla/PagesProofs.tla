----------------------------- MODULE PagesProofs -----------------------------
(***************************************************************************)
(* Proofs about the page frames of Tasks, for every number of tasks and    *)
(* pages: what alloc_page returns to task_create and task_dup is one       *)
(* stretch of frames, and so two invariants of the pages hold, each for    *)
(* the programs it is about.                                               *)
(*                                                                         *)
(* ExactInv, of programs that do not allocate: memory is cut into stretches *)
(* as long as init's address space, and each live task has one of them.    *)
(* ApartInv, of programs that never die: the frames given out are the first *)
(* ones, and each is a directory, a table or one page of one task.         *)
(***************************************************************************)
EXTENDS TasksProofs

Limit == (TotalPages \div PagesPerByte) * PagesPerByte

LEMMA SizeFacts ==
  /\ TotalPages \in Nat /\ Entries \in Nat /\ Limit \in Nat
  /\ UserDir \in Nat /\ 1 <= UserDir /\ UserDir <= Entries - 2
  /\ InitPages \in Nat /\ 1 <= InitPages /\ InitPages <= Entries
  /\ InitPages + 2 <= Limit
<1>1. TotalPages \div PagesPerByte \in Nat
  BY TasksAssumption
<1>2. Limit \in Nat
  BY <1>1, TasksAssumption DEF Limit
<1> QED
  BY <1>2, TasksAssumption DEF Limit

LEMMA Product == ASSUME NEW a \in Nat, NEW b \in Nat, NEW c \in Nat, a <= b
                 PROVE  a * c <= b * c /\ a * c \in Nat
<1>1. b * c = a * c + (b - a) * c
  BY SMT
<1>2. (b - a) * c \in Nat /\ a * c \in Nat /\ b * c \in Nat
  BY SMT
<1> QED
  BY <1>1, <1>2

\* alloc_page gives out the frames below Limit, and Limit is within memory.
LEMMA UsableFrames == Usable = 0 .. Limit - 1 /\ Limit <= TotalPages
<1> DEFINE T == TotalPages \div PagesPerByte
<1>1. PagesPerByte \in Nat \ {0} /\ TotalPages \in Nat
  BY TasksAssumption
<1>2. T \in Nat /\ T * PagesPerByte <= TotalPages
  BY <1>1
<1>3. ASSUME NEW f \in Nat
      PROVE  f \div PagesPerByte < T <=> f < T * PagesPerByte
  <2> DEFINE q == f \div PagesPerByte
  <2>1. q \in Nat /\ q * PagesPerByte <= f /\ f < q * PagesPerByte + PagesPerByte
    BY <1>1
  <2> HIDE DEF q, T
  <2>2. CASE q < T
    <3>1. (q + 1) * PagesPerByte <= T * PagesPerByte
      BY <1>1, <1>2, <2>1, <2>2, Product
    <3>2. (q + 1) * PagesPerByte = q * PagesPerByte + PagesPerByte
      BY <1>1, <2>1
    <3>3. q * PagesPerByte \in Nat /\ T * PagesPerByte \in Nat
      BY <1>1, <1>2, <2>1
    <3> QED
      BY <1>1, <2>1, <2>2, <3>1, <3>2, <3>3 DEF q
  <2>3. CASE T <= q
    <3>1. T * PagesPerByte <= q * PagesPerByte
      BY <1>1, <1>2, <2>1, <2>3, Product
    <3>2. q * PagesPerByte \in Nat /\ T * PagesPerByte \in Nat
      BY <1>1, <1>2, <2>1
    <3> QED
      BY <1>1, <1>2, <2>1, <2>3, <3>1, <3>2 DEF q
  <2> QED
    BY <1>2, <2>1, <2>2, <2>3
<1> HIDE DEF T
<1>4. Limit = T * PagesPerByte /\ Usable = {f \in Frames : f \div PagesPerByte < T}
  BY DEF Limit, Usable, T
<1> QED
  BY <1>1, <1>2, <1>3, <1>4, SizeFacts DEF Frames

LEMMA FreeFrames ==
  /\ Free = (0 .. Limit - 1) \ pagemap
  /\ \A f \in Free : f \in Nat /\ f \in Frames
BY UsableFrames, SizeFacts DEF Free, Frames

-----------------------------------------------------------------------------
(* The order in which alloc_page gives out frames.                          *)

LEMMA BelowFinite ==
  ASSUME NEW f \in Free
  PROVE  IsFiniteSet({g \in Free : g < f})
<1>1. IsFiniteSet(0 .. f - 1)
  <2>1. 0 \in Int /\ f - 1 \in Int
    BY FreeFrames
  <2> QED
    BY <2>1, FS_Interval
<1>2. {g \in Free : g < f} \in SUBSET (0 .. f - 1)
  BY FreeFrames
<1> QED
  BY <1>1, <1>2, FS_Subset

\* No two frames are given out by the same call.
LEMMA RankGrows ==
  ASSUME NEW f \in Free, NEW g \in Free, f < g
  PROVE  Rank(f) < Rank(g)
<1> DEFINE F == {h \in Free : h < f}
           G == {h \in Free : h < g}
<1>0. f \in Nat /\ g \in Nat
  BY FreeFrames
<1>1. F \in SUBSET G
  BY <1>0, FreeFrames
<1>2. f \in G /\ f \notin F
  BY <1>0
<1>3. IsFiniteSet(F) /\ IsFiniteSet(G)
  BY BelowFinite
<1> HIDE DEF F, G
<1>4. Cardinality(F) <= Cardinality(G) /\ Cardinality(F) # Cardinality(G)
  BY <1>1, <1>2, <1>3, FS_Subset
<1>5. Cardinality(F) \in Nat /\ Cardinality(G) \in Nat
  BY <1>3, FS_CardinalityType
<1>6. Cardinality(F) < Cardinality(G)
  BY <1>4, <1>5
<1> QED
  BY <1>6 DEF Rank, F, G

LEMMA RankUnique ==
  ASSUME NEW f \in Free, NEW g \in Free, Rank(f) = Rank(g)
  PROVE  f = g
<1>1. Rank(f) \in Nat /\ Rank(g) \in Nat
  BY BelowFinite, FS_CardinalityType DEF Rank
<1>2. ~(f < g) /\ ~(g < f)
  BY <1>1, RankGrows
<1> QED
  BY <1>2, FreeFrames

Least(m) == m \in Free /\ \A g \in Free : m <= g

\* A frame's rank is no more than its distance from the first free frame, and just
\* that when the frames in between are free.
LEMMA RankAbove ==
  ASSUME NEW m, Least(m), NEW f \in Free
  PROVE  /\ Rank(f) <= f - m
         /\ m .. f \subseteq Free => Rank(f) = f - m
<1>0. m \in Nat /\ f \in Nat /\ m <= f
  BY FreeFrames DEF Least
<1> DEFINE F == {g \in Free : g < f}
<1>1. F \in SUBSET (m .. f - 1)
  BY <1>0, FreeFrames DEF Least
<1>2. IsFiniteSet(m .. f - 1) /\ Cardinality(m .. f - 1) = f - m
  <2>1. f - 1 \in Int /\ m \in Int
    BY <1>0
  <2>2. IsFiniteSet(m .. f - 1)
        /\ Cardinality(m .. f - 1) = IF m > f - 1 THEN 0 ELSE f - 1 - m + 1
    BY <2>1, FS_Interval
  <2> QED
    BY <1>0, <2>2
<1>3. m .. f \subseteq Free => F = m .. f - 1
  <2> SUFFICES ASSUME m .. f \subseteq Free, NEW g \in m .. f - 1 PROVE g \in F
    BY <1>1
  <2> QED
    BY <1>0
<1> HIDE DEF F
<1>4. Cardinality(F) <= f - m
  BY <1>1, <1>2, FS_Subset
<1>5. m .. f \subseteq Free => Cardinality(F) = f - m
  BY <1>2, <1>3
<1> QED
  BY <1>4, <1>5 DEF Rank, F

-----------------------------------------------------------------------------
(* The calls for a task with one table and n pages.                         *)

Keys(n) == {DirectoryKey} \cup TableKey(UserDir) .. TableKey(UserDir) + n

LEMMA KeyFacts ==
  ASSUME NEW n \in Nat, n <= Entries
  PROVE  /\ TableKey(UserDir) \in Nat \ {0, 1}
         /\ \A s \in Slots : /\ PageKey(UserDir, s) = TableKey(UserDir) + s + 1
                             /\ PageKey(UserDir, s) \in Keys(n) <=> s < n
         /\ \A e \in UserDirs : TableKey(e) \in Keys(n) => e = UserDir
         /\ Keys(n) = {DirectoryKey, TableKey(UserDir)}
                        \cup {PageKey(UserDir, s) : s \in 0 .. n - 1}
<1> DEFINE T == TableKey(UserDir)
<1>1. T \in Nat /\ T >= 2
  <2>1. 1 * (Entries + 1) <= UserDir * (Entries + 1) /\ UserDir * (Entries + 1) \in Nat
    <3>1. UserDir * (Entries + 1) \in Nat
      BY SizeFacts
    <3>2. 1 * (Entries + 1) <= UserDir * (Entries + 1)
      <4>1. 1 \in Nat /\ UserDir \in Nat /\ Entries + 1 \in Nat /\ 1 <= UserDir
        BY SizeFacts
      <4> QED
        BY <4>1, Product
    <3> QED
      BY <3>1, <3>2
  <2> QED
    BY <2>1, SizeFacts DEF TableKey
<1>2. \A s \in Slots : PageKey(UserDir, s) = T + s + 1
  BY DEF PageKey, TableKey
<1>3. ASSUME NEW e \in UserDirs, e # UserDir PROVE TableKey(e) > T + Entries
  <2>1. e \in Nat /\ UserDir + 1 <= e /\ Entries + 1 \in Nat /\ UserDir + 1 \in Nat
    BY <1>3, SizeFacts DEF UserDirs
  <2>2. (UserDir + 1) * (Entries + 1) <= e * (Entries + 1) /\ e * (Entries + 1) \in Nat
    <3>1. e * (Entries + 1) \in Nat
      BY <2>1
    <3> QED
      BY <2>1, <3>1, Product
  <2>3. (UserDir + 1) * (Entries + 1) = UserDir * (Entries + 1) + Entries + 1
    BY SizeFacts
  <2>4. UserDir * (Entries + 1) \in Nat
    BY SizeFacts
  <2> QED
    BY <2>2, <2>3, <2>4, SizeFacts DEF TableKey
<1> HIDE DEF T
<1>4. Keys(n) = {0} \cup T .. T + n
  BY DEF Keys, T, DirectoryKey
<1>5. \A s \in Slots : PageKey(UserDir, s) \in Keys(n) <=> s < n
  BY <1>1, <1>2, <1>4, SizeFacts DEF Slots
<1>6. ASSUME NEW e \in UserDirs, TableKey(e) \in Keys(n) PROVE e = UserDir
  <2> SUFFICES ASSUME e # UserDir PROVE FALSE
    OBVIOUS
  <2>1. TableKey(e) > T + Entries
    BY <1>3
  <2>2. TableKey(e) <= T + n
    BY <1>1, <1>4, <1>6
  <2>3. TableKey(e) \in Nat
    BY <1>1, <1>4, <1>6
  <2> QED
    BY <1>1, <2>1, <2>2, <2>3, SizeFacts
<1>7. Keys(n) = {DirectoryKey, T} \cup {PageKey(UserDir, s) : s \in 0 .. n - 1}
  <2>1. \A s \in 0 .. n - 1 : PageKey(UserDir, s) = T + s + 1
    BY <1>2, SizeFacts DEF Slots
  <2>2. ASSUME NEW k \in T .. T + n, k # T
        PROVE  k - T - 1 \in 0 .. n - 1 /\ k = T + (k - T - 1) + 1
    BY <1>1, <2>2
  <2>3. {PageKey(UserDir, s) : s \in 0 .. n - 1} = T + 1 .. T + n
    <3>1. \A s \in 0 .. n - 1 : PageKey(UserDir, s) \in T + 1 .. T + n
      BY <1>1, <2>1
    <3>2. ASSUME NEW k \in T + 1 .. T + n PROVE \E s \in 0 .. n - 1 : k = PageKey(UserDir, s)
      <4>1. k \in T .. T + n /\ k # T
        BY <1>1
      <4>2. k - T - 1 \in 0 .. n - 1 /\ k = PageKey(UserDir, k - T - 1)
        BY <2>1, <2>2, <4>1
      <4> QED
        BY <4>2
    <3> QED
      BY <3>1, <3>2
  <2>4. T .. T + n = {T} \cup T + 1 .. T + n
    BY <1>1
  <2> QED
    BY <1>4, <2>3, <2>4 DEF DirectoryKey
<1> QED
  BY <1>1, <1>2, <1>5, <1>6, <1>7 DEF T

LEMMA Positions ==
  ASSUME NEW n \in Nat, n <= Entries
  PROVE  /\ Position(Keys(n), DirectoryKey) = 0
         /\ \A j \in 0 .. n : Position(Keys(n), TableKey(UserDir) + j) = j + 1
<1> DEFINE T == TableKey(UserDir)
<1>1. T \in Nat /\ T >= 2
  BY KeyFacts
<1> HIDE DEF T
<1>2. Keys(n) = {0} \cup T .. T + n
  BY DEF Keys, T, DirectoryKey
<1>3. {j \in Keys(n) : j < DirectoryKey} = {}
  BY <1>1, <1>2 DEF DirectoryKey
<1>4. ASSUME NEW j \in 0 .. n PROVE Position(Keys(n), T + j) = j + 1
  <2>1. {k \in Keys(n) : k < T + j} = T .. T + j - 1 \cup {0}
    BY <1>1, <1>2
  <2>2. T \in Int /\ T + j - 1 \in Int
    BY <1>1
  <2>3. /\ IsFiniteSet(T .. T + j - 1)
        /\ Cardinality(T .. T + j - 1) = IF T > T + j - 1 THEN 0 ELSE T + j - 1 - T + 1
    BY <2>2, FS_Interval
  <2>4. Cardinality(T .. T + j - 1) = j /\ 0 \notin T .. T + j - 1
    BY <1>1, <2>3
  <2>5. Cardinality(T .. T + j - 1 \cup {0}) = j + 1
    BY <2>3, <2>4, FS_AddElement
  <2> QED
    BY <2>1, <2>5 DEF Position
<1> QED
  BY <1>3, <1>4, FS_EmptySet DEF Position, T

\* When all the calls find a page and the frames they look at first are free, the
\* task gets one stretch of frames: its directory, its table and its pages.
LEMMA Stretch ==
  ASSUME NEW n \in Nat, 1 <= n, n <= Entries, Enough(Keys(n)),
         NEW m, Least(m), \A f \in m .. m + n + 1 : f \notin pagemap
  PROVE  /\ m \in Nat /\ m + n + 1 < Limit
         /\ Allocated(Keys(n))[DirectoryKey] = m
         /\ \A j \in 0 .. n : Allocated(Keys(n))[TableKey(UserDir) + j] = m + 1 + j
<1> DEFINE T == TableKey(UserDir)
<1>0. m \in Nat /\ m \in Free /\ T \in Nat
  BY FreeFrames, KeyFacts DEF Least
<1>1. /\ DirectoryKey \in Keys(n) /\ Position(Keys(n), DirectoryKey) = 0
      /\ \A j \in 0 .. n : T + j \in Keys(n) /\ Position(Keys(n), T + j) = j + 1
  BY <1>0, Positions DEF Keys
<1>2. m + n + 1 < Limit
  <2>1. n \in 0 .. n
    OBVIOUS
  <2>2. PICK f \in Free : Rank(f) = n + 1
    BY <1>1, <2>1 DEF Enough
  <2>3. n + 1 <= f - m
    BY <2>2, RankAbove
  <2> QED
    BY <1>0, <2>3, FreeFrames, SizeFacts
<1>3. m .. m + n + 1 \subseteq Free
  BY <1>0, <1>2, FreeFrames, SizeFacts
<1>4. ASSUME NEW i \in 0 .. n + 1 PROVE m + i \in Free /\ Rank(m + i) = i
  <2>1. m + i \in Free /\ m .. m + i \subseteq Free
    BY <1>0, <1>3
  <2>2. \A f \in Free : m .. f \subseteq Free => Rank(f) = f - m
    BY RankAbove
  <2>3. Rank(m + i) = m + i - m
    BY <1>0, <2>1, <2>2
  <2> QED
    BY <1>0, <2>1, <2>3
<1>5. ASSUME NEW k \in Keys(n), NEW i \in 0 .. n + 1, Position(Keys(n), k) = i
      PROVE  Allocated(Keys(n))[k] = m + i
  <2>1. \A f \in Free : Rank(f) = i => f = m + i
    BY <1>4, RankUnique
  <2>2. (CHOOSE f \in Free : Rank(f) = i) = m + i
    BY <1>4, <2>1
  <2> QED
    BY <1>5, <2>2 DEF Allocated
<1>6. Allocated(Keys(n))[DirectoryKey] = m
  <2>1. 0 \in 0 .. n + 1
    OBVIOUS
  <2>2. Allocated(Keys(n))[DirectoryKey] = m + 0
    BY <1>1, <1>5, <2>1
  <2> QED
    BY <1>0, <2>2
<1>7. ASSUME NEW j \in 0 .. n PROVE Allocated(Keys(n))[T + j] = m + 1 + j
  <2>1. j + 1 \in 0 .. n + 1
    OBVIOUS
  <2>2. Allocated(Keys(n))[T + j] = m + (j + 1)
    BY <1>1, <1>5, <2>1
  <2> QED
    BY <1>0, <2>2
<1> QED
  BY <1>0, <1>2, <1>6, <1>7

-----------------------------------------------------------------------------
(* Address spaces.                                                          *)

\* The directory in frame d of a task whose table is in the next frame.
DirectoryAt(d) ==
  [s \in Slots |-> IF s = 0 THEN KernelEntry ELSE IF s = UserDir THEN d + 1 ELSE Absent]

\* In memory m, a directory in frame d, its table in the next one, and n pages.
LaidIn(m, d, n) ==
  /\ d \in Frames /\ d + 1 \in Frames
  /\ m[d] = DirectoryAt(d)
  /\ \A s \in Slots : IF s < n THEN m[d + 1][s] \in Frames ELSE m[d + 1][s] = Absent
Laid(d, n) == LaidIn(mem, d, n)

\* The pages are different, and none is the directory or the table.
Distinct(d, n) ==
  /\ \A s \in 0 .. n - 1 : mem[d + 1][s] \notin {d, d + 1}
  /\ \A s, r \in 0 .. n - 1 : mem[d + 1][s] = mem[d + 1][r] => s = r

LEMMA DirectoryEntries ==
  ASSUME NEW d \in Frames, mem[d] = DirectoryAt(d)
  PROVE  /\ mem[d][0] = KernelEntry /\ mem[d][UserDir] = d + 1
         /\ TablesOf(d) = {UserDir}
<1>1. 0 \in Slots /\ UserDir \in Slots /\ UserDir # 0 /\ UserDir \in UserDirs
  BY SizeFacts DEF Slots, UserDirs
<1>2. mem[d][0] = KernelEntry /\ mem[d][UserDir] = d + 1
  BY <1>1 DEF DirectoryAt
<1>3. \A e \in UserDirs : e \in Slots /\ e # 0 /\ (e # UserDir => mem[d][e] = Absent)
  BY SizeFacts DEF DirectoryAt, UserDirs, Slots
<1>4. d + 1 # Absent
  BY DEF Frames, Absent
<1> QED
  BY <1>1, <1>2, <1>3, <1>4 DEF TablesOf, Present

\* What the kernel finds when it walks such an address space.
LEMMA LaidFacts ==
  ASSUME NEW n \in Nat, 1 <= n, n <= Entries, NEW d, Laid(d, n)
  PROVE  /\ mem[d][0] = KernelEntry /\ mem[d][UserDir] = d + 1
         /\ TablesOf(d) = {UserDir}
         /\ PagesOf(d) = {<<UserDir, s>> : s \in 0 .. n - 1}
         /\ Returned(d) = {d, d + 1} \cup {mem[d + 1][s] : s \in 0 .. n - 1}
         /\ Mapped(d) = {mem[d + 1][s] : s \in 0 .. n - 1}
         /\ LastTable(d) = d + 1
         /\ DupKeys(d) = Keys(n)
         /\ ~NonExistent(d)
<1>1. /\ d \in Frames /\ d + 1 \in Frames /\ d \in Nat
      /\ mem[d][0] = KernelEntry /\ mem[d][UserDir] = d + 1 /\ TablesOf(d) = {UserDir}
  BY DirectoryEntries, SizeFacts DEF Laid, LaidIn, Frames
<1>2. 0 .. n - 1 \subseteq Slots /\ UserDir \in UserDirs
  BY SizeFacts DEF Slots, UserDirs
<1>3. \A s \in Slots : Present(mem[d + 1][s]) <=> s \in 0 .. n - 1
  BY SizeFacts, ConstantFacts DEF Laid, LaidIn, Slots, Present
<1>4. \A s \in 0 .. n - 1 : mem[d + 1][s] \in Frames
  BY <1>2 DEF Laid, LaidIn
<1>5. PagesOf(d) = {<<UserDir, s>> : s \in 0 .. n - 1}
  <2>1. ASSUME NEW es \in PagesOf(d)
        PROVE  es[2] \in 0 .. n - 1 /\ es = <<UserDir, es[2]>>
    <3>1. es \in UserDirs \X Slots /\ es[1] = UserDir /\ Present(mem[d + 1][es[2]])
      BY <1>1, <2>1 DEF PagesOf
    <3> QED
      BY <1>3, <3>1
  <2>2. ASSUME NEW s \in 0 .. n - 1 PROVE <<UserDir, s>> \in PagesOf(d)
    BY <1>1, <1>2, <1>3 DEF PagesOf
  <2> QED
    BY <2>1, <2>2
<1>6. {mem[d][e] : e \in TablesOf(d)} = {d + 1}
  BY <1>1
<1>7. {mem[mem[d][es[1]]][es[2]] : es \in PagesOf(d)} = {mem[d + 1][s] : s \in 0 .. n - 1}
  <2>1. \A es \in PagesOf(d) : mem[mem[d][es[1]]][es[2]] = mem[d + 1][es[2]] /\ es[2] \in 0 .. n - 1
    BY <1>1, <1>5
  <2>2. \A s \in 0 .. n - 1 : <<UserDir, s>> \in PagesOf(d) /\ <<UserDir, s>>[2] = s
    BY <1>5
  <2>3. \A s \in 0 .. n - 1 : mem[mem[d][<<UserDir, s>>[1]]][<<UserDir, s>>[2]] = mem[d + 1][s]
    BY <1>1
  <2>4. ASSUME NEW v \in {mem[mem[d][es[1]]][es[2]] : es \in PagesOf(d)}
        PROVE  v \in {mem[d + 1][s] : s \in 0 .. n - 1}
    <3>1. PICK es \in PagesOf(d) : v = mem[mem[d][es[1]]][es[2]]
      BY <2>4
    <3>2. v = mem[d + 1][es[2]] /\ es[2] \in 0 .. n - 1
      BY <2>1, <3>1
    <3> QED
      BY <3>2
  <2>5. ASSUME NEW s \in 0 .. n - 1
        PROVE  mem[d + 1][s] \in {mem[mem[d][es[1]]][es[2]] : es \in PagesOf(d)}
    <3>1. \E es \in PagesOf(d) : mem[d + 1][s] = mem[mem[d][es[1]]][es[2]]
      BY <2>2, <2>3 
    <3> QED
      BY <3>1
  <2> QED
    BY <2>4, <2>5
<1>8. Returned(d) = {d, d + 1} \cup {mem[d + 1][s] : s \in 0 .. n - 1}
  BY <1>6, <1>7 DEF Returned, Entry
<1>9. Mapped(d) = {mem[d + 1][s] : s \in 0 .. n - 1}
  BY <1>4, <1>7 DEF Mapped
<1>10. LastTable(d) = d + 1
  <2>1. (CHOOSE e \in TablesOf(d) : \A o \in TablesOf(d) : o <= e) = UserDir
    BY <1>1, SizeFacts
  <2> QED
    BY <1>1, <2>1 DEF LastTable
<1>11. DupKeys(d) = Keys(n)
  <2>1. {TableKey(e) : e \in TablesOf(d)} = {TableKey(UserDir)}
    BY <1>1
  <2>2. {PageKey(es[1], es[2]) : es \in PagesOf(d)} = {PageKey(UserDir, s) : s \in 0 .. n - 1}
    <3>1. \A es \in PagesOf(d) : PageKey(es[1], es[2]) = PageKey(UserDir, es[2]) /\ es[2] \in 0 .. n - 1
      BY <1>5
    <3>2. \A s \in 0 .. n - 1 : <<UserDir, s>> \in PagesOf(d) /\ <<UserDir, s>>[2] = s
      BY <1>5
    <3> QED
      BY <3>1, <3>2
  <2> QED
    BY <2>1, <2>2, KeyFacts DEF DupKeys
<1>12. ~NonExistent(d)
  <2>1. KernelEntry \notin Frames
    BY DEF KernelEntry, Frames
  <2> QED
    BY <1>1, <1>4, <1>8, <2>1 DEF NonExistent
<1> QED
  BY <1>1, <1>5, <1>8, <1>9, <1>10, <1>11, <1>12

\* Its pages are counted once each, so free_page finds each of them in use.
LEMMA LaidCount ==
  ASSUME NEW n \in Nat, 1 <= n, n <= Entries, NEW d, Laid(d, n), Distinct(d, n)
  PROVE  Cardinality(Returned(d)) = Calls(d)
<1> DEFINE P == {mem[d + 1][s] : s \in 0 .. n - 1}
           f == [s \in 0 .. n - 1 |-> mem[d + 1][s]]
           g == [s \in 0 .. n - 1 |-> <<UserDir, s>>]
<1>0. d \in Nat
  BY SizeFacts DEF Laid, LaidIn, Frames
<1>1. IsFiniteSet(0 .. n - 1) /\ Cardinality(0 .. n - 1) = n
  <2>1. 0 \in Int /\ n - 1 \in Int
    OBVIOUS
  <2>2. IsFiniteSet(0 .. n - 1) /\ Cardinality(0 .. n - 1) = IF 0 > n - 1 THEN 0 ELSE n - 1 - 0 + 1
    BY <2>1, FS_Interval
  <2> QED
    BY <2>2
<1>2. f \in Surjection(0 .. n - 1, P) /\ f \in Injection(0 .. n - 1, P)
  BY DEF Surjection, Injection, IsInjective, Distinct
<1> HIDE DEF f
<1>3. IsFiniteSet(P) /\ Cardinality(P) = n
  BY <1>1, <1>2, FS_Surjection
<1>4. g \in Surjection(0 .. n - 1, PagesOf(d)) /\ g \in Injection(0 .. n - 1, PagesOf(d))
  <2> DEFINE S == 0 .. n - 1
             T == {<<UserDir, s>> : s \in S}
  <2>1. PagesOf(d) = T
    BY LaidFacts
  <2> HIDE DEF S
  <2>2. g = [s \in S |-> <<UserDir, s>>]
    BY DEF S
  <2>3. /\ g \in [S -> T]
        /\ \A t \in T : \E s \in S : g[s] = t
        /\ \A s, r \in S : g[s] = g[r] => s = r
    BY <2>2
  <2> HIDE DEF T, g
  <2>4. g \in Surjection(S, T) /\ g \in Injection(S, T)
    BY <2>3 DEF Surjection, Injection, IsInjective
  <2> QED BY <2>1, <2>4 DEF S
<1> HIDE DEF g
<1>5. Cardinality(PagesOf(d)) = n
  BY <1>1, <1>4, FS_Surjection
<1>6. Cardinality(TablesOf(d)) = 1
  BY LaidFacts, FS_Singleton
<1>7. d + 1 \notin P /\ d \notin P \cup {d + 1}
  BY <1>0 DEF Distinct
<1> HIDE DEF P
<1>8. IsFiniteSet(P \cup {d + 1}) /\ Cardinality(P \cup {d + 1}) = n + 1
  BY <1>3, <1>7, FS_AddElement
<1>9. Cardinality((P \cup {d + 1}) \cup {d}) = n + 2
  <2> DEFINE Q == P \cup {d + 1}
  <2>1. IsFiniteSet(Q) /\ Cardinality(Q) = n + 1 /\ d \notin Q
    BY <1>7, <1>8
  <2> HIDE DEF Q
  <2>2. Cardinality(Q \cup {d}) = Cardinality(Q) + 1
    BY <2>1, FS_AddElement
  <2> QED
    BY <2>1, <2>2 DEF Q
<1>10. Returned(d) = (P \cup {d + 1}) \cup {d}
  BY LaidFacts DEF P
<1> QED
  BY <1>5, <1>6, <1>9, <1>10 DEF Calls


\* What task_create and task_dup write, in one stretch of frames whose second one
\* no program has written to.
LEMMA Built ==
  ASSUME TypeOK, NEW n \in Nat, 1 <= n, n <= Entries, NEW fr,
         NEW m \in Nat, m + n + 1 < TotalPages, m + 1 \notin dirty,
         fr[DirectoryKey] = m,
         \A j \in 0 .. n : fr[TableKey(UserDir) + j] = m + 1 + j,
         BuildSpace(Keys(n), fr, KernelEntry)
  PROVE  /\ pagemap' = pagemap \cup m .. m + n + 1
         /\ dirty' = (dirty \ {m, m + 1}) \cup m + 2 .. m + n + 1
         /\ mem'[m] = DirectoryAt(m)
         /\ \A s \in Slots : mem'[m + 1][s] = IF s < n THEN m + 2 + s ELSE mem[m + 1][s]
         /\ \A f \in m + 2 .. m + n + 1 : mem'[f] = Zeros
         /\ \A f \in Frames : f \notin m .. m + n + 1 => mem'[f] = mem[f]
<1> DEFINE T      == TableKey(UserDir)
           keys   == Keys(n)
           dirs   == {e \in UserDirs : TableKey(e) \in keys}
           tables == {fr[TableKey(e)] : e \in dirs}
           pages  == {fr[k] : k \in {j \in keys : \E e \in dirs, s \in Slots : j = PageKey(e, s)}}
           dir    == [s \in Slots |-> IF s = 0 THEN KernelEntry
                                      ELSE IF s \in dirs THEN fr[TableKey(s)] ELSE Absent]
           Filled(f, left) ==
             LET e == CHOOSE e \in dirs : fr[TableKey(e)] = f
             IN  [s \in Slots |-> IF PageKey(e, s) \in keys THEN fr[PageKey(e, s)]
                                                            ELSE left[f][s]]
<1>1. PICK left \in [tables -> UNION {Leftovers(t) : t \in tables}] :
        /\ \A t \in tables : left[t] \in Leftovers(t)
        /\ mem' = [f \in Frames |->
             IF f = fr[DirectoryKey] THEN dir
             ELSE IF f \in tables THEN Filled(f, left)
             ELSE IF f \in pages THEN Zeros ELSE mem[f]]
        /\ dirty' = (dirty \ (tables \cup {fr[DirectoryKey]})) \cup pages
        /\ pagemap' = pagemap \cup {fr[k] : k \in keys}
  BY DEF BuildSpace
<1>2. /\ T \in Nat \ {0, 1}
      /\ \A s \in Slots : PageKey(UserDir, s) = T + s + 1 /\ (PageKey(UserDir, s) \in keys <=> s < n)
      /\ \A e \in UserDirs : TableKey(e) \in keys => e = UserDir
      /\ keys = {DirectoryKey} \cup T .. T + n
      /\ UserDir \in UserDirs /\ UserDir \in Slots /\ UserDir # 0
  BY KeyFacts, SizeFacts DEF Keys, UserDirs, Slots
<1>3. dirs = {UserDir}
  BY <1>2
<1>4. fr[T] = m + 1
  <2>1. 0 \in 0 .. n /\ T + 0 = T /\ m + 1 + 0 = m + 1
    BY <1>2
  <2> QED
    BY <2>1
<1> HIDE DEF dirs
<1>5. tables = {m + 1}
  BY <1>3, <1>4
<1>6. \A s \in Slots : s < n => fr[PageKey(UserDir, s)] = m + 2 + s
  <2> SUFFICES ASSUME NEW s \in Slots, s < n PROVE fr[PageKey(UserDir, s)] = m + 2 + s
    OBVIOUS
  <2>1. s \in Nat /\ s + 1 \in 0 .. n /\ PageKey(UserDir, s) = T + (s + 1)
    BY <1>2 DEF Slots
  <2> HIDE DEF T
  <2>2. fr[T + (s + 1)] = m + 1 + (s + 1)
    BY <2>1 DEF T
  <2> QED
    BY <2>1, <2>2
<1> DEFINE P == m + 2 .. m + n + 1
<1>7. pages = P
  <2>1. ASSUME NEW s \in Slots, s < n
        PROVE  PageKey(UserDir, s) \in {j \in keys : \E e \in dirs, r \in Slots : j = PageKey(e, r)}
    BY <1>2, <1>3, <2>1
  <2>2. ASSUME NEW f \in P PROVE f \in pages
    <3>1. f - m - 2 \in Slots /\ f - m - 2 < n /\ m + 2 + (f - m - 2) = f
      BY SizeFacts DEF Slots
    <3>2. fr[PageKey(UserDir, f - m - 2)] = f
      BY <1>6, <3>1
    <3> QED
      BY <2>1, <3>1, <3>2
  <2>3. ASSUME NEW f \in pages PROVE f \in P
    <3>1. PICK s \in Slots : PageKey(UserDir, s) \in keys /\ f = fr[PageKey(UserDir, s)]
      BY <1>3, <2>3
    <3>2. s < n /\ s \in Nat
      BY <1>2, <3>1 DEF Slots
    <3> QED
      BY <1>6, <3>1, <3>2
  <2> QED
    BY <2>2, <2>3
<1>8. {fr[k] : k \in keys} = m .. m + n + 1
  <2>1. ASSUME NEW k \in keys PROVE fr[k] \in m .. m + n + 1
    <3>1. CASE k = DirectoryKey
      BY <3>1
    <3>2. CASE k \in T .. T + n
      <4>1. k - T \in 0 .. n /\ T + (k - T) = k
        BY <1>2, <3>2
      <4>2. fr[k] = m + 1 + (k - T)
        BY <4>1
      <4> QED
        BY <1>2, <4>1, <4>2
    <3> QED
      BY <1>2, <3>1, <3>2
  <2>2. ASSUME NEW f \in m .. m + n + 1 PROVE \E k \in keys : fr[k] = f
    <3>1. CASE f = m
      BY <1>2, <3>1
    <3>2. CASE f # m
      <4>1. f - m - 1 \in 0 .. n /\ m + 1 + (f - m - 1) = f
        BY <3>2
      <4>2. fr[T + (f - m - 1)] = f /\ T + (f - m - 1) \in keys
        BY <1>2, <4>1
      <4> QED
        BY <4>2
    <3> QED
      BY <3>1, <3>2
  <2> QED
    BY <2>1, <2>2
<1>9. dir = DirectoryAt(m)
  <2>1. \A s \in Slots : s \in dirs <=> s = UserDir
    BY <1>2, <1>3
  <2> QED
    BY <1>4, <2>1 DEF DirectoryAt
<1>10. (CHOOSE e \in dirs : fr[TableKey(e)] = m + 1) = UserDir
  BY <1>3, <1>4
<1>11. left[m + 1] = mem[m + 1]
  <2>1. left[m + 1] \in Leftovers(m + 1)
    BY <1>1, <1>5
  <2> QED
    BY <2>1 DEF Leftovers
<1>12. \A s \in Slots : Filled(m + 1, left)[s] = IF s < n THEN m + 2 + s ELSE mem[m + 1][s]
  BY <1>2, <1>6, <1>10, <1>11
<1> HIDE DEF T, keys, tables, pages, dir, Filled
<1>13. m \in Frames /\ m + 1 \in Frames /\ P \subseteq Frames
  BY SizeFacts DEF Frames
<1>14. mem' = [f \in Frames |-> IF f = m THEN DirectoryAt(m)
                                ELSE IF f = m + 1 THEN Filled(m + 1, left)
                                ELSE IF f \in P THEN Zeros ELSE mem[f]]
  BY <1>1, <1>5, <1>7, <1>9
<1>15. /\ pagemap' = pagemap \cup m .. m + n + 1
       /\ dirty' = (dirty \ {m, m + 1}) \cup P
  BY <1>1, <1>5, <1>7, <1>8 DEF keys
<1>16. /\ mem'[m] = DirectoryAt(m)
       /\ mem'[m + 1] = Filled(m + 1, left)
       /\ \A f \in P : mem'[f] = Zeros
       /\ \A f \in Frames : f \notin m .. m + n + 1 => mem'[f] = mem[f]
  BY <1>13, <1>14
<1> QED
  BY <1>12, <1>15, <1>16


\* The first frame alloc_page returns is the first free one.
LEMMA FirstFree ==
  ASSUME NEW f \in Free, Rank(f) = 0
  PROVE  Least(f)
<1> SUFFICES ASSUME NEW g \in Free, ~(f <= g) PROVE FALSE
  BY DEF Least
<1>1. g < f
  BY FreeFrames
<1>2. Rank(g) < Rank(f) /\ Rank(g) \in Nat
  BY <1>1, RankGrows, BelowFinite, FS_CardinalityType DEF Rank
<1> QED
  BY <1>2

LEMMA SomeFree ==
  ASSUME NEW n \in Nat, n <= Entries, Enough(Keys(n))
  PROVE  \E m : Least(m)
<1>1. DirectoryKey \in Keys(n) /\ Position(Keys(n), DirectoryKey) = 0
  BY Positions DEF Keys
<1> QED
  BY <1>1, FirstFree DEF Enough

LEMMA InitKeysAre == InitKeys = Keys(InitPages)
BY KeyFacts, SizeFacts DEF InitKeys

-----------------------------------------------------------------------------
(* Programs that do not allocate pages.                                     *)

BlockSize == InitPages + 2
Aligned == {q * BlockSize : q \in Nat}
Block(d) == d .. d + BlockSize - 1

TableAt(d) == [s \in Slots |-> IF s < InitPages THEN d + 2 + s ELSE Absent]

\* Each live task has the stretch its directory starts; nothing else is in use, no
\* program has written where a directory or a table may come to lie, and where a
\* table may come to lie nothing is left that could look like a page.
BlocksKept ==
  \A p \in Live : LET d == tasks[p].dir
                  IN  /\ d \in Aligned /\ d + BlockSize <= Limit
                      /\ mem[d] = DirectoryAt(d) /\ mem[d + 1] = TableAt(d)
                      /\ Block(d) \subseteq pagemap
BlocksDiffer == \A p, q \in Live : p # q => tasks[p].dir # tasks[q].dir
NothingElse == pc # "halted" => \A f \in pagemap : \E p \in Live : f \in Block(tasks[p].dir)
NoneWritten == \A a \in Aligned : a \notin dirty /\ a + 1 \notin dirty
NothingLeft ==
  \A a \in Aligned : a + 1 \in Frames =>
    \A s \in Slots : s >= InitPages => mem[a + 1][s] = Absent

ExactInv == BlocksKept /\ BlocksDiffer /\ NothingElse /\ NoneWritten /\ NothingLeft

LEMMA BlockLength ==
  BlockSize \in Nat /\ BlockSize >= 3 /\ BlockSize = InitPages + 2
BY SizeFacts DEF BlockSize

LEMMA BlockFacts ==
  /\ 0 \in Aligned
  /\ Aligned \subseteq Nat
  /\ \A a, b \in Aligned : a < b => a + BlockSize <= b
  /\ \A f \in Nat : \E a \in Aligned : a <= f /\ f < a + BlockSize
<1>1. BlockSize \in Nat /\ BlockSize >= 3 /\ BlockSize = InitPages + 2
  BY BlockLength
<1> HIDE DEF BlockSize
<1>2. Aligned \subseteq Nat
  BY <1>1 DEF Aligned
<1>3. ASSUME NEW a \in Aligned, NEW b \in Aligned, a < b PROVE a + BlockSize <= b
  <2>1. PICK q \in Nat, r \in Nat : a = q * BlockSize /\ b = r * BlockSize
    BY DEF Aligned
  <2>2. ~(r <= q)
    BY <1>1, <1>2, <1>3, <2>1, Product
  <2>3. (q + 1) * BlockSize <= r * BlockSize
    BY <1>1, <2>2, Product
  <2>4. (q + 1) * BlockSize = q * BlockSize + BlockSize
    BY <1>1
  <2> QED
    BY <2>1, <2>3, <2>4
<1>4. ASSUME NEW f \in Nat PROVE \E a \in Aligned : a <= f /\ f < a + BlockSize
  <2> DEFINE q == f \div BlockSize
  <2>1. q \in Nat /\ q * BlockSize <= f /\ f < q * BlockSize + BlockSize
    BY <1>1
  <2> HIDE DEF q
  <2> QED
    BY <2>1 DEF Aligned
<1>5. 0 \in Aligned
  <2>1. 0 = 0 * BlockSize /\ 0 \in Nat
    BY <1>1
  <2> QED
    BY <2>1 DEF Aligned
<1> QED
  BY <1>1, <1>2, <1>3, <1>4, <1>5

\* Each task's stretch is an address space of init's size.
LEMMA BlockLaid ==
  ASSUME BlocksKept, NEW p \in Live
  PROVE  LET d == tasks[p].dir
         IN  /\ d \in Nat /\ Laid(d, InitPages) /\ Distinct(d, InitPages)
             /\ Returned(d) = Block(d) /\ Mapped(d) = d + 2 .. d + BlockSize - 1
             /\ Cardinality(Returned(d)) = Calls(d) /\ ~NonExistent(d)
             /\ DupKeys(d) = InitKeys /\ mem[d][0] = KernelEntry
<1> DEFINE d == tasks[p].dir
<1>1. /\ d \in Nat /\ d + BlockSize <= Limit
      /\ mem[d] = DirectoryAt(d) /\ mem[d + 1] = TableAt(d)
  BY BlockFacts DEF BlocksKept
<1> HIDE DEF d
<1>2. \A s \in Slots : s \in Nat /\ mem[d + 1][s] = IF s < InitPages THEN d + 2 + s ELSE Absent
  BY <1>1, SizeFacts DEF TableAt, Slots
<1>3. d .. d + InitPages + 1 \subseteq Frames
  BY <1>1, BlockLength, UsableFrames, SizeFacts DEF Frames
<1>4. Laid(d, InitPages)
  BY <1>1, <1>2, <1>3, SizeFacts DEF Laid, LaidIn
<1>5. \A s \in 0 .. InitPages - 1 : mem[d + 1][s] = d + 2 + s
  BY <1>2, SizeFacts DEF Slots
<1>6. Distinct(d, InitPages)
  BY <1>1, <1>5 DEF Distinct
<1>7. {mem[d + 1][s] : s \in 0 .. InitPages - 1} = d + 2 .. d + BlockSize - 1
  <2>1. \A f \in d + 2 .. d + BlockSize - 1 :
          f - d - 2 \in 0 .. InitPages - 1 /\ d + 2 + (f - d - 2) = f
    BY <1>1, BlockLength, SizeFacts
  <2>2. \A s \in 0 .. InitPages - 1 : d + 2 + s \in d + 2 .. d + BlockSize - 1
    BY <1>1, BlockLength, SizeFacts
  <2> QED
    BY <1>5, <2>1, <2>2
<1>8. Block(d) = {d, d + 1} \cup d + 2 .. d + BlockSize - 1
  BY <1>1, BlockLength DEF Block
<1>9. Returned(d) = Block(d) /\ Mapped(d) = d + 2 .. d + BlockSize - 1
  BY <1>4, <1>7, <1>8, LaidFacts, SizeFacts, ZenonT(60)
<1>10. Cardinality(Returned(d)) = Calls(d) /\ ~NonExistent(d)
       /\ DupKeys(d) = InitKeys /\ mem[d][0] = KernelEntry
  BY <1>4, <1>6, LaidFacts, LaidCount, InitKeysAre, SizeFacts
<1> QED
  BY <1>1, <1>4, <1>6, <1>9, <1>10 DEF d

LEMMA BlocksApart ==
  ASSUME BlocksKept, BlocksDiffer, NEW p \in Live, NEW q \in Live, p # q
  PROVE  Block(tasks[p].dir) \cap Block(tasks[q].dir) = {}
<1> DEFINE d == tasks[p].dir
           e == tasks[q].dir
<1>1. d \in Aligned /\ e \in Aligned /\ d # e
  BY DEF BlocksKept, BlocksDiffer
<1> HIDE DEF d, e
<1>2. d \in Nat /\ e \in Nat /\ (d + BlockSize <= e \/ e + BlockSize <= d)
  BY <1>1, BlockFacts
<1>3. Block(d) \cap Block(e) = {}
  BY <1>2, BlockLength DEF Block
<1> QED
  BY <1>3 DEF d, e

LEMMA ExactImplies == ExactInv => PagesExact
<1> SUFFICES ASSUME ExactInv PROVE PagesExact
  OBVIOUS
<1>1. \A p \in Live : ~NonExistent(tasks[p].dir) /\ ~FreedTwice(tasks[p].dir)
  <2> SUFFICES ASSUME NEW p \in Live PROVE ~NonExistent(tasks[p].dir) /\ ~FreedTwice(tasks[p].dir)
    OBVIOUS
  <2> DEFINE d == tasks[p].dir
  <2>1. ~NonExistent(d) /\ Cardinality(Returned(d)) = Calls(d) /\ Returned(d) = Block(d)
    BY BlockLaid DEF ExactInv
  <2>2. Block(d) \subseteq pagemap
    BY DEF ExactInv, BlocksKept
  <2>3. Cardinality(Block(d)) \in Nat
    <3>0. d \in Nat
      BY BlockLaid DEF ExactInv
    <3>1. d \in Int /\ d + BlockSize - 1 \in Int
      BY <3>0, BlockLength
    <3>2. IsFiniteSet(Block(d))
      BY <3>1, FS_Interval DEF Block
    <3> QED
      BY <3>2, FS_CardinalityType
  <2> QED
    BY <2>1, <2>2, <2>3 DEF FreedTwice
<1>2. \A p, q \in Live : p # q => Returned(tasks[p].dir) \cap Returned(tasks[q].dir) = {}
  BY BlocksApart, BlockLaid DEF ExactInv
<1>3. NoLostPages
  <2>1. \A p \in Live : Returned(tasks[p].dir) = Block(tasks[p].dir)
    BY BlockLaid DEF ExactInv
  <2> QED
    BY <2>1 DEF ExactInv, NothingElse, NoLostPages
<1>4. SpacesIntact
  <2> SUFFICES ASSUME NEW p \in Live PROVE Intact(p)
    BY DEF SpacesIntact
  <2> DEFINE d == tasks[p].dir
  <2>1. Laid(d, InitPages) /\ d \in Aligned
    BY BlockLaid DEF ExactInv, BlocksKept
  <2>2. d \notin dirty /\ d + 1 \notin dirty
    BY <2>1 DEF ExactInv, NoneWritten
  <2>3. mem[d][0] = KernelEntry /\ TablesOf(d) = {UserDir} /\ mem[d][UserDir] = d + 1
    BY <2>1, LaidFacts, SizeFacts
  <2>4. d + 1 \in Frames
    BY <2>1 DEF Laid, LaidIn
  <2> QED
    BY <2>2, <2>3, <2>4 DEF Intact
<1> QED
  BY <1>1, <1>2, <1>3, <1>4 DEF PagesExact, NoSharedPages


\* The frame alloc_page looks at first starts a stretch, and all of it is free.
LEMMA FirstFreeBlock ==
  ASSUME ExactInv, pc # "halted", NEW m, Least(m)
  PROVE  /\ m \in Aligned /\ m \in Nat
         /\ \A f \in Block(m) : f \notin pagemap
         /\ \A p \in Live : tasks[p].dir # m /\ Block(tasks[p].dir) \cap Block(m) = {}
<1>0. m \in Nat /\ m \in Free /\ m < Limit /\ m \notin pagemap
  BY FreeFrames, SizeFacts DEF Least
<1>1. \A p \in Live : /\ tasks[p].dir \in Aligned /\ tasks[p].dir \in Nat
                      /\ Block(tasks[p].dir) \subseteq pagemap
  BY BlockFacts DEF ExactInv, BlocksKept
<1>2. m \in Aligned
  <2>1. PICK a \in Aligned : a <= m /\ m < a + BlockSize
    BY <1>0, BlockFacts
  <2>2. a \in Nat
    BY <2>1, BlockFacts
  <2> SUFFICES ASSUME a # m PROVE FALSE
    BY <2>1
  <2>3. a \in 0 .. Limit - 1 /\ ~(m <= a)
    BY <1>0, <2>1, <2>2, SizeFacts
  <2>4. a \in pagemap
    BY <2>3, FreeFrames DEF Least
  <2>5. PICK p \in Live : a \in Block(tasks[p].dir)
    BY <2>4 DEF ExactInv, NothingElse
  <2> DEFINE d == tasks[p].dir
  <2>6. d \in Aligned /\ d \in Nat /\ Block(d) \subseteq pagemap /\ a \in Block(d)
    BY <1>1, <2>5
  <2> HIDE DEF d
  <2>7. d <= a /\ a < d + BlockSize
    BY <2>2, <2>6, BlockLength DEF Block
  <2>8. ~(d < a)
    BY <2>1, <2>2, <2>6, <2>7, BlockFacts, BlockLength
  <2>9. d = a
    BY <2>2, <2>6, <2>7, <2>8
  <2>10. m \in Block(d)
    BY <1>0, <2>1, <2>2, <2>9, BlockLength DEF Block
  <2> QED
    BY <1>0, <2>6, <2>10
<1>3. ASSUME NEW p \in Live
      PROVE  tasks[p].dir # m /\ Block(tasks[p].dir) \cap Block(m) = {}
  <2> DEFINE d == tasks[p].dir
  <2>1. d \in Aligned /\ d \in Nat /\ Block(d) \subseteq pagemap
    BY <1>1
  <2> HIDE DEF d
  <2>2. d # m
    <3> SUFFICES ASSUME d = m PROVE FALSE
      OBVIOUS
    <3>1. m \in Block(d)
      BY <1>0, BlockLength DEF Block
    <3> QED
      BY <1>0, <2>1, <3>1
  <2>3. d + BlockSize <= m \/ m + BlockSize <= d
    BY <1>0, <1>2, <2>1, <2>2, BlockFacts
  <2>4. Block(d) \cap Block(m) = {}
    BY <1>0, <2>1, <2>3, BlockLength DEF Block
  <2> QED
    BY <2>2, <2>4 DEF d
<1>4. \A f \in Block(m) : f \notin pagemap
  BY <1>3 DEF ExactInv, NothingElse
<1> QED
  BY <1>0, <1>2, <1>3, <1>4

\* A task is born in the first free stretch.
LEMMA ExactBorn ==
  ASSUME IInv, ExactInv, pc # "halted", Enough(InitKeys),
         BuildSpace(InitKeys, Allocated(InitKeys), KernelEntry),
         NEW p \in Pids, p \notin Live, Live' = Live \cup {p},
         tasks'[p].dir = Allocated(InitKeys)[DirectoryKey],
         \A q \in Pids : q # p => tasks'[q] = tasks[q]
  PROVE  ExactInv'
<1> DEFINE n == InitPages
           fr == Allocated(Keys(n))
<1>0. n \in Nat /\ 1 <= n /\ n <= Entries /\ Enough(Keys(n))
      /\ BuildSpace(Keys(n), fr, KernelEntry)
  BY InitKeysAre, SizeFacts
<1>1. PICK m : Least(m)
  BY <1>0, SomeFree
<1>2. /\ m \in Aligned /\ m \in Nat
      /\ \A f \in Block(m) : f \notin pagemap
      /\ \A q \in Live : tasks[q].dir # m /\ Block(tasks[q].dir) \cap Block(m) = {}
  BY <1>1, FirstFreeBlock
<1>3. Block(m) = m .. m + n + 1
  BY <1>2, BlockLength, SizeFacts DEF Block
<1>4. /\ m + n + 1 < Limit /\ fr[DirectoryKey] = m
      /\ \A j \in 0 .. n : fr[TableKey(UserDir) + j] = m + 1 + j
  <2>1. \A f \in m .. m + n + 1 : f \notin pagemap
    BY <1>2, <1>3
  <2> HIDE DEF n
  <2> QED
    BY <1>0, <1>1, <2>1, Stretch DEF n
<1>5. m + 1 \notin dirty /\ m + n + 1 < TotalPages
  BY <1>2, <1>4, UsableFrames, SizeFacts DEF ExactInv, NoneWritten
<1>6. /\ pagemap' = pagemap \cup m .. m + n + 1
      /\ dirty' = (dirty \ {m, m + 1}) \cup m + 2 .. m + n + 1
      /\ mem'[m] = DirectoryAt(m)
      /\ \A s \in Slots : mem'[m + 1][s] = IF s < n THEN m + 2 + s ELSE mem[m + 1][s]
      /\ \A f \in m + 2 .. m + n + 1 : mem'[f] = Zeros
      /\ \A f \in Frames : f \notin m .. m + n + 1 => mem'[f] = mem[f]
  <2>1. TypeOK
    BY DEF IInv
  <2> HIDE DEF fr, n
  <2> QED
    BY <1>0, <1>2, <1>4, <1>5, <2>1, Built
<1>7. tasks'[p].dir = m
  BY <1>4, InitKeysAre
<1> HIDE DEF n, fr
<1>8. n = InitPages /\ m + BlockSize <= Limit
  BY <1>2, <1>4, BlockLength, SizeFacts DEF n
<1>9. m + 1 \in Frames /\ m \in Frames
  BY <1>2, <1>5, <1>8, SizeFacts DEF Frames
<1>10. mem'[m + 1] = TableAt(m)
  <2>1. mem' \in [Frames -> Contents]
    <3>1. DirectoryKey \in InitKeys
      BY DEF InitKeys
    <3>2. TypeOK
      BY DEF IInv
    <3> QED
      BY <3>1, <3>2, NewSpaceType
  <2>2. mem'[m + 1] \in [Slots -> Frames \cup {Absent, KernelEntry}]
    BY <1>9, <2>1 DEF Contents
  <2>3. \A s \in Slots : ~(s < n) => mem[m + 1][s] = Absent
    BY <1>2, <1>8, <1>9, SizeFacts DEF ExactInv, NothingLeft, Slots
  <2> QED
    BY <1>6, <1>8, <2>2, <2>3 DEF TableAt
<1>11. \A q \in Live : q # p /\ q \in Pids /\ tasks'[q] = tasks[q]
  BY DEF Live
<1>12. ASSUME NEW q \in Live
       PROVE  LET d == tasks[q].dir
              IN  /\ mem'[d] = mem[d] /\ mem'[d + 1] = mem[d + 1] 
                  /\ d \in Aligned /\ d + BlockSize <= Limit
                  /\ mem[d] = DirectoryAt(d) /\ mem[d + 1] = TableAt(d)
                  /\ Block(d) \subseteq pagemap
  <2> DEFINE d == tasks[q].dir
  <2>1. Laid(d, InitPages) /\ Block(d) \cap Block(m) = {} /\ d \in Nat
    BY <1>2, BlockLaid DEF ExactInv
  <2>2. d \in Frames /\ d + 1 \in Frames
    BY <2>1 DEF Laid, LaidIn
  <2>3. d \in Block(d) /\ d + 1 \in Block(d)
    <3> HIDE DEF d
    <3> QED
      BY <2>1, BlockLength DEF Block
  <2>4. d \notin m .. m + n + 1 /\ d + 1 \notin m .. m + n + 1
    BY <1>3, <1>8, <2>1, <2>3
  <2>5. mem'[d] = mem[d] /\ mem'[d + 1] = mem[d + 1]
    BY <1>6, <2>2, <2>4
  <2> QED
    BY <2>5 DEF ExactInv, BlocksKept
<1>13. BlocksKept'
  <2> SUFFICES ASSUME NEW q \in Live'
               PROVE  LET d == tasks'[q].dir
                      IN  /\ d \in Aligned /\ d + BlockSize <= Limit
                          /\ mem'[d] = DirectoryAt(d) /\ mem'[d + 1] = TableAt(d)
                          /\ Block(d) \subseteq pagemap'
    BY DEF BlocksKept
  <2>1. CASE q = p
    BY <1>2, <1>3, <1>6, <1>7, <1>8, <1>10, <2>1
  <2>2. CASE q \in Live
    BY <1>6, <1>11, <1>12, <2>2
  <2> QED
    BY <2>1, <2>2
<1>14. BlocksDiffer'
  BY <1>2, <1>7, <1>11 DEF ExactInv, BlocksDiffer
<1>15. NothingElse'
  <2>1. \A f \in m .. m + n + 1 : f \in Block(tasks'[p].dir)
    BY <1>3, <1>7, <1>8
  <2>2. \A f \in pagemap : \E q \in Live : f \in Block(tasks'[q].dir)
    BY <1>11 DEF ExactInv, NothingElse
  <2> QED
    BY <1>6, <2>1, <2>2 DEF NothingElse
<1>16. NoneWritten'
  <2> SUFFICES ASSUME NEW a \in Aligned PROVE a \notin dirty' /\ a + 1 \notin dirty'
    BY DEF NoneWritten
  <2>1. a \in Nat /\ m \in Nat /\ (a = m \/ a + BlockSize <= m \/ m + BlockSize <= a)
    BY <1>2, BlockFacts
  <2>2. a \notin m + 2 .. m + n + 1 /\ a + 1 \notin m + 2 .. m + n + 1
    BY <1>8, <2>1, BlockLength, SizeFacts
  <2> QED
    BY <1>6, <2>2 DEF ExactInv, NoneWritten
<1>17. NothingLeft'
  <2> SUFFICES ASSUME NEW a \in Aligned, a + 1 \in Frames, NEW s \in Slots, s >= InitPages
               PROVE  mem'[a + 1][s] = Absent
    BY DEF NothingLeft
  <2>1. mem[a + 1][s] = Absent
    BY DEF ExactInv, NothingLeft
  <2>2. a \in Nat /\ m \in Nat /\ (a = m \/ a + BlockSize <= m \/ m + BlockSize <= a)
    BY <1>2, BlockFacts
  <2>3. CASE a = m
    BY <1>6, <1>8, <2>1, <2>3, SizeFacts DEF Slots
  <2>4. CASE a # m
    <3>1. a + 1 \notin m .. m + n + 1
      BY <1>8, <2>2, <2>4, BlockLength, SizeFacts
    <3> QED
      BY <1>6, <2>1, <3>1
  <2> QED
    BY <2>3, <2>4
<1> QED
  BY <1>13, <1>14, <1>15, <1>16, <1>17 DEF ExactInv


\* A task dies and gives back its stretch: free_page never panics.
LEMMA ExactDied ==
  ASSUME IInv, ExactInv, pc # "halted", NEW p \in Live, NEW where, where # "halted",
         KillAndFree(p, where), UNCHANGED <<mem, dirty>>
  PROVE  ExactInv'
<1> DEFINE d == tasks[p].dir
<1>1. PagesExact
  BY ExactImplies
<1>2. ~NonExistent(d) /\ ~FreedTwice(d) /\ Returned(d) = Block(d)
  BY <1>1, BlockLaid DEF ExactInv, PagesExact, NoSharedPages
<1>3. /\ pagemap' = pagemap \ Block(d)
      /\ tasks' = [tasks EXCEPT ![p] = NULL] /\ num_tasks' = num_tasks - 1
      /\ pc' = where
  BY <1>2 DEF KillAndFree
<1>4. Live' = Live \ {p} /\ \A q \in Pids : q # p => tasks'[q] = tasks[q]
  BY <1>3, Died DEF IInv
<1>5. \A q \in Live' : q \in Live /\ q # p /\ tasks'[q] = tasks[q]
  BY <1>4 DEF Live
<1>6. \A q \in Live' : Block(tasks[q].dir) \cap Block(d) = {}
  BY <1>5, BlocksApart DEF ExactInv
<1> HIDE DEF d
<1>7. BlocksKept'
  <2> SUFFICES ASSUME NEW q \in Live'
               PROVE  LET e == tasks'[q].dir
                      IN  /\ e \in Aligned /\ e + BlockSize <= Limit
                          /\ mem'[e] = DirectoryAt(e) /\ mem'[e + 1] = TableAt(e)
                          /\ Block(e) \subseteq pagemap'
    BY DEF BlocksKept
  <2>1. Block(tasks[q].dir) \subseteq pagemap'
    BY <1>3, <1>5, <1>6 DEF ExactInv, BlocksKept
  <2> QED
    BY <1>5, <2>1 DEF ExactInv, BlocksKept
<1>8. BlocksDiffer'
  BY <1>5 DEF ExactInv, BlocksDiffer
<1>9. NothingElse'
  <2> SUFFICES ASSUME NEW f \in pagemap'
               PROVE  \E q \in Live' : f \in Block(tasks'[q].dir)
    BY DEF NothingElse
  <2>1. PICK q \in Live : f \in Block(tasks[q].dir)
    BY <1>3 DEF ExactInv, NothingElse
  <2>2. q # p
    BY <1>3, <2>1 DEF d
  <2> QED
    BY <1>4, <1>5, <2>1, <2>2
<1>10. NoneWritten' /\ NothingLeft'
  BY DEF ExactInv, NoneWritten, NothingLeft
<1> QED
  BY <1>7, <1>8, <1>9, <1>10 DEF ExactInv

\* A program writes to a page of its own.
LEMMA ExactWrite ==
  ASSUME IInv, ExactInv, NEW f \in Frames, UserWrite(f)
  PROVE  ExactInv'
<1> DEFINE d == tasks[current_task].dir
<1>1. /\ pc = "user" /\ f \in Mapped(cr3) /\ dirty' = dirty \cup {f}
      /\ mem' = [mem EXCEPT ![f] = Zeros]
      /\ UNCHANGED <<pc, pagemap, tasks>>
  BY DEF UserWrite
<1>2. current_task \in Live /\ cr3 = d
  BY <1>1, Running
<1>3. d \in Aligned /\ d \in Nat /\ f \in d + 2 .. d + BlockSize - 1
  BY <1>1, <1>2, BlockLaid DEF ExactInv, BlocksKept
<1> HIDE DEF d
<1>4. ASSUME NEW a \in Aligned PROVE f # a /\ f # a + 1
  <2>1. a \in Nat /\ (a = d \/ a + BlockSize <= d \/ d + BlockSize <= a)
    BY <1>3, BlockFacts
  <2> QED
    BY <1>3, <2>1, BlockLength
<1>5. \A g \in Frames : g # f => mem'[g] = mem[g]
  BY <1>1 DEF IInv, TypeOK
<1>6. Live' = Live
  BY <1>1 DEF Live
<1>7. BlocksKept'
  <2> SUFFICES ASSUME NEW p \in Live
               PROVE  LET e == tasks[p].dir IN mem'[e] = mem[e] /\ mem'[e + 1] = mem[e + 1]
    BY <1>1, <1>6 DEF ExactInv, BlocksKept
  <2> DEFINE e == tasks[p].dir
  <2>1. e \in Aligned /\ e \in Frames /\ e + 1 \in Frames
    BY BlockLaid DEF ExactInv, BlocksKept, Laid, LaidIn
  <2> QED
    BY <1>4, <1>5, <2>1
<1>8. BlocksDiffer' /\ NothingElse'
  BY <1>1, <1>6 DEF ExactInv, BlocksDiffer, NothingElse
<1>9. NoneWritten'
  BY <1>1, <1>4 DEF ExactInv, NoneWritten
<1>10. NothingLeft'
  BY <1>4, <1>5 DEF ExactInv, NothingLeft
<1> QED
  BY <1>7, <1>8, <1>9, <1>10 DEF ExactInv

\* The pages and the tasks' directories stay as they are, except that a fork that
\* runs out of pages leaves none behind.
LEMMA ExactSame ==
  ASSUME ExactInv, UNCHANGED <<mem, dirty>>, Live' = Live,
         \A p \in Live : tasks'[p].dir = tasks[p].dir,
         \/ pagemap' = pagemap /\ (pc = "halted" => pc' = "halted")
         \/ pagemap \subseteq pagemap' /\ pc' = "halted"
  PROVE  ExactInv'
<1>1. BlocksKept'
  BY DEF ExactInv, BlocksKept
<1>2. BlocksDiffer'
  BY DEF ExactInv, BlocksDiffer
<1>3. NothingElse'
  BY DEF ExactInv, NothingElse
<1>4. NoneWritten' /\ NothingLeft'
  BY DEF ExactInv, NoneWritten, NothingLeft
<1> QED
  BY <1>1, <1>2, <1>3, <1>4 DEF ExactInv

LEMMA ExactInit == Init => ExactInv
<1> SUFFICES ASSUME Init PROVE ExactInv
  OBVIOUS
<1>1. Live = {} /\ pagemap = {} /\ dirty = {} /\ mem = [f \in Frames |-> Zeros]
  BY DEF Init, Live
<1>2. \A f \in Frames, s \in Slots : mem[f][s] = Absent
  BY <1>1 DEF Zeros
<1> QED
  BY <1>1, <1>2 DEF ExactInv, BlocksKept, BlocksDiffer, NothingElse, NoneWritten, NothingLeft

\* Steps that leave every page as it is.
LEMMA QuietPages ==
  ASSUME IInv,
         \/ InstallSwitch \/ OtherInterrupt \/ PanicEnds \/ Timer \/ TimerFindsNoTask
         \/ UserStep \/ GetPid \/ ForkFull \/ ForkOutOfHeap \/ ForkOutOfPages
         \/ ClearCurrent \/ Sti \/ AllocOutOfPages
         \/ \E p \in Pids : KillNobody(p)
         \/ UNCHANGED vars
  PROVE  /\ UNCHANGED <<mem, dirty>> /\ Live' = Live
         /\ \A p \in Live : tasks'[p].dir = tasks[p].dir
         /\ \/ pagemap' = pagemap /\ (pc = "halted" => pc' = "halted")
            \/ pagemap \subseteq pagemap' /\ pc' = "halted"
<1>1. CASE Timer
  <2>1. tasks' = Saved /\ UNCHANGED <<mem, dirty, pagemap>> /\ pc # "halted"
    BY <1>1 DEF Timer, InterruptsEnabled
  <2>2. \A p \in Pids : p \in Live => tasks'[p] # NULL /\ tasks'[p].dir = tasks[p].dir
    BY <2>1, SavedTasks, ConstantFacts
  <2>3. \A p \in Pids : p \notin Live => tasks'[p] = NULL
    BY <2>1, SavedTasks
  <2> QED
    BY <2>1, <2>2, <2>3 DEF Live
<1>2. CASE \/ InstallSwitch \/ OtherInterrupt \/ PanicEnds \/ TimerFindsNoTask
           \/ UserStep \/ GetPid \/ ForkFull \/ ForkOutOfHeap \/ ForkOutOfPages
           \/ ClearCurrent \/ Sti \/ AllocOutOfPages
           \/ \E p \in Pids : KillNobody(p)
  <2>1. UNCHANGED <<mem, dirty, tasks>>
    BY <1>2 DEF InstallSwitch, OtherInterrupt, PanicEnds, TimerFindsNoTask, UserStep, GetPid,
                ForkFull, ForkOutOfHeap, ForkOutOfPages, ClearCurrent, Sti, AllocOutOfPages,
                KillNobody
  <2>2. pagemap' = pagemap \/ (pagemap' = pagemap \cup Free /\ pc' = "halted")
    BY <1>2 DEF InstallSwitch, OtherInterrupt, PanicEnds, TimerFindsNoTask, UserStep, GetPid,
                ForkFull, ForkOutOfHeap, ForkOutOfPages, ClearCurrent, Sti, AllocOutOfPages,
                KillNobody, Panic
  <2>3. pc # "halted"
    BY <1>2 DEF InstallSwitch, OtherInterrupt, PanicEnds, TimerFindsNoTask, UserStep, GetPid,
                ForkFull, ForkOutOfHeap, ForkOutOfPages, ClearCurrent, Sti, AllocOutOfPages,
                KillNobody, InCall, InterruptsEnabled
  <2> QED
    BY <2>1, <2>2, <2>3 DEF Live
<1>3. CASE UNCHANGED vars
  BY <1>3 DEF vars, Live
<1> QED
  BY <1>1, <1>2, <1>3

-----------------------------------------------------------------------------
(* Programs that never die.                                                 *)

\* The first N frames are given out; no program has had its hands on the others.
GivenOut(N) ==
  /\ 0 .. N - 1 \subseteq pagemap
  /\ pc # "halted" => pagemap = 0 .. N - 1
  /\ dirty \subseteq 0 .. N - 1
  /\ \A f \in Frames : f >= N => mem[f] = Zeros

\* Each live task has an address space among them, its first page next to the table.
SpaceAt(m, d, N) ==
  /\ \E n \in 1 .. Entries : LaidIn(m, d, n)
  /\ d + 1 < N /\ \A s \in Slots : m[d + 1][s] < N
  /\ m[d + 1][0] = d + 2
SpacesKept(N) == \A p \in Live : SpaceAt(mem, tasks[p].dir, N)

\* The frames of directories and tables, and those of pages.
TablesUnwritten == \A p \in Live : tasks[p].dir \notin dirty /\ tasks[p].dir + 1 \notin dirty
TablesDiffer ==
  \A p, q \in Live : LET d == tasks[p].dir  e == tasks[q].dir
                     IN  p # q => d # e /\ d # e + 1
PagesNotTables ==
  \A p, q \in Live, s \in Slots : LET d == tasks[p].dir  e == tasks[q].dir
                                  IN  mem[d + 1][s] # e /\ mem[d + 1][s] # e + 1
PagesDiffer ==
  \A p, q \in Live, s, r \in Slots :
    LET d == tasks[p].dir  e == tasks[q].dir
    IN  mem[d + 1][s] = mem[e + 1][r] /\ mem[d + 1][s] # Absent => p = q /\ s = r

Grown(N) == /\ GivenOut(N) /\ SpacesKept(N)
            /\ TablesUnwritten /\ TablesDiffer /\ PagesNotTables /\ PagesDiffer

ApartInv == \E N \in 0 .. Limit : Grown(N)

LEMMA GrownLaid ==
  ASSUME IInv, NEW N \in 0 .. Limit, Grown(N), NEW p \in Live
  PROVE  LET d == tasks[p].dir
         IN  /\ d \in Nat /\ d + 1 < N /\ d \in Frames /\ d + 1 \in Frames
             /\ \E n \in 1 .. Entries :
                  /\ Laid(d, n) /\ Distinct(d, n)
                  /\ \A s \in 0 .. n - 1 : /\ s \in Slots /\ mem[d + 1][s] \in 0 .. N - 1
                                           /\ mem[d + 1][s] # Absent
                  /\ mem[d + 1][0] = d + 2
<1> DEFINE d == tasks[p].dir
<1>1. PICK n \in 1 .. Entries : /\ Laid(d, n) /\ d + 1 < N
                                /\ \A s \in Slots : mem[d + 1][s] < N
                                /\ mem[d + 1][0] = d + 2
  BY DEF Grown, SpacesKept, SpaceAt, Laid
<1>2. d \in Frames /\ d \in Nat /\ d + 1 \in Frames
  BY <1>1, SizeFacts DEF Laid, LaidIn, Frames
<1>3. \A s \in 0 .. n - 1 : s \in Slots /\ mem[d + 1][s] \in Frames
  BY <1>1, SizeFacts DEF Laid, LaidIn, Slots
<1>4. \A s \in 0 .. n - 1 : mem[d + 1][s] \in 0 .. N - 1 /\ mem[d + 1][s] # Absent
  BY <1>1, <1>3, SizeFacts, ConstantFacts DEF Frames
<1>5. Distinct(d, n)
  <2>1. \A s \in 0 .. n - 1 : mem[d + 1][s] \notin {d, d + 1}
    BY <1>3 DEF Grown, PagesNotTables
  <2>2. \A s, r \in 0 .. n - 1 : mem[d + 1][s] = mem[d + 1][r] => s = r
    BY <1>3, <1>4 DEF Grown, PagesDiffer
  <2> QED
    BY <2>1, <2>2 DEF Distinct
<1> QED
  BY <1>1, <1>2, <1>3, <1>4, <1>5

LEMMA ApartImplies == IInv /\ ApartInv => PagesApart
<1> SUFFICES ASSUME IInv, NEW N \in 0 .. Limit, Grown(N) PROVE PagesApart
  BY DEF ApartInv
<1>1. ASSUME NEW p \in Live
      PROVE  /\ ~NonExistent(tasks[p].dir) /\ ~FreedTwice(tasks[p].dir) /\ Intact(p)
             /\ \A v \in Returned(tasks[p].dir) :
                  \/ v = tasks[p].dir \/ v = tasks[p].dir + 1
                  \/ \E s \in Slots : v = mem[tasks[p].dir + 1][s] /\ v # Absent
  <2> DEFINE d == tasks[p].dir
  <2>1. PICK n \in 1 .. Entries :
          /\ Laid(d, n) /\ Distinct(d, n)
          /\ \A s \in 0 .. n - 1 : /\ s \in Slots /\ mem[d + 1][s] \in 0 .. N - 1
                                   /\ mem[d + 1][s] # Absent
    BY GrownLaid
  <2>2. d \in Nat /\ d + 1 < N /\ d + 1 \in Frames
    BY GrownLaid
  <2>3. n \in Nat /\ 1 <= n /\ n <= Entries
    BY SizeFacts
  <2> HIDE DEF d
  <2>4. /\ mem[d][0] = KernelEntry /\ mem[d][UserDir] = d + 1 /\ TablesOf(d) = {UserDir}
        /\ Returned(d) = {d, d + 1} \cup {mem[d + 1][s] : s \in 0 .. n - 1}
        /\ ~NonExistent(d) /\ Cardinality(Returned(d)) = Calls(d)
    BY <2>1, <2>3, LaidFacts, LaidCount
  <2>5. Returned(d) \subseteq 0 .. N - 1
    BY <2>1, <2>2, <2>4
  <2>6. Calls(d) \in Nat
    <3>1. IsFiniteSet(Returned(d))
      <4>1. 0 \in Int /\ N - 1 \in Int
        BY SizeFacts
      <4> QED
        BY <2>5, <4>1, FS_Interval, FS_Subset
    <3> QED
      BY <2>4, <3>1, FS_CardinalityType
  <2>7. ~FreedTwice(d)
    BY <2>4, <2>5, <2>6 DEF FreedTwice, Grown, GivenOut
  <2>8. d \notin dirty /\ d + 1 \notin dirty
    BY DEF d, Grown, TablesUnwritten
  <2>9. Intact(p)
    BY <2>2, <2>4, <2>8 DEF Intact, d
  <2>10. \A v \in Returned(d) : \/ v = d \/ v = d + 1
                                \/ \E s \in Slots : v = mem[d + 1][s] /\ v # Absent
    BY <2>1, <2>4
  <2> QED
    BY <2>4, <2>7, <2>9, <2>10 DEF d
<1>2. ASSUME NEW p \in Live, NEW q \in Live, p # q,
             NEW v \in Returned(tasks[p].dir), v \in Returned(tasks[q].dir)
      PROVE  FALSE
  <2> DEFINE d == tasks[p].dir
             e == tasks[q].dir
  <2>1. d \in Nat /\ e \in Nat /\ d # e /\ d # e + 1 /\ e # d + 1
    BY <1>2, GrownLaid DEF Grown, TablesDiffer
  <2>2. \A s \in Slots : /\ mem[d + 1][s] # e /\ mem[d + 1][s] # e + 1
                         /\ mem[e + 1][s] # d /\ mem[e + 1][s] # d + 1
    BY DEF Grown, PagesNotTables
  <2>3. \A s, r \in Slots : mem[d + 1][s] = mem[e + 1][r] => mem[d + 1][s] = Absent
    BY <1>2 DEF Grown, PagesDiffer
  <2>4. v = d \/ v = d + 1 \/ \E s \in Slots : v = mem[d + 1][s] /\ v # Absent
    BY <1>1, <1>2
  <2>5. v = e \/ v = e + 1 \/ \E s \in Slots : v = mem[e + 1][s] /\ v # Absent
    BY <1>1, <1>2
  <2> HIDE DEF d, e
  <2>6. CASE v = d \/ v = d + 1
    BY <2>1, <2>2, <2>5, <2>6
  <2>7. CASE \E s \in Slots : v = mem[d + 1][s] /\ v # Absent
    BY <2>2, <2>3, <2>5, <2>7
  <2> QED
    BY <2>4, <2>6, <2>7
<1> QED
  BY <1>1, <1>2 DEF PagesApart, NoSharedPages, SpacesIntact


\* The first free frame is the next one.
LEMMA NextFrame ==
  ASSUME NEW N \in 0 .. Limit, Grown(N), pc # "halted", NEW m, Least(m)
  PROVE  m = N /\ N < Limit /\ N \in Frames
<1>1. Free = (0 .. Limit - 1) \ 0 .. N - 1
  BY FreeFrames DEF Grown, GivenOut
<1>2. m \in Nat /\ N <= m /\ m < Limit
  BY <1>1, SizeFacts DEF Least
<1>3. N \in Free /\ N < Limit
  BY <1>1, <1>2, SizeFacts
<1>4. m <= N
  BY <1>3 DEF Least
<1> QED
  BY <1>2, <1>3, <1>4, FreeFrames, SizeFacts

\* An address space stays one while its directory and its table do.
LEMMA SpaceStays ==
  ASSUME NEW m, NEW k, NEW d, NEW N \in Nat, NEW M \in Nat, N <= M,
         SpaceAt(m, d, N), k[d] = m[d], k[d + 1] = m[d + 1]
  PROVE  SpaceAt(k, d, M)
<1>1. PICK n \in 1 .. Entries : LaidIn(m, d, n)
  BY DEF SpaceAt
<1>2. LaidIn(k, d, n)
  BY <1>1 DEF LaidIn
<1>3. d \in Nat
  BY <1>1, SizeFacts DEF LaidIn, Frames
<1>4. \A s \in Slots : m[d + 1][s] \in Int
  BY <1>1, SizeFacts DEF LaidIn, Frames, Absent
<1> QED
  BY <1>2, <1>3, <1>4 DEF SpaceAt

\* A task is born in the next frames.
LEMMA ApartBorn ==
  ASSUME IInv, NEW N \in 0 .. Limit, Grown(N), pc # "halted", NEW n \in 1 .. Entries,
         Enough(Keys(n)), BuildSpace(Keys(n), Allocated(Keys(n)), KernelEntry),
         NEW p \in Pids, p \notin Live, Live' = Live \cup {p},
         tasks'[p].dir = Allocated(Keys(n))[DirectoryKey],
         \A q \in Pids : q # p => tasks'[q] = tasks[q]
  PROVE  ApartInv'
<1> DEFINE fr == Allocated(Keys(n))
<1>0. n \in Nat /\ 1 <= n /\ n <= Entries /\ N \in Nat /\ N <= Limit
  BY SizeFacts
<1>1. PICK m : Least(m)
  BY <1>0, SomeFree
<1>2. m = N /\ N < Limit
  BY <1>1, NextFrame
<1>3. /\ N + n + 1 < Limit /\ fr[DirectoryKey] = N
      /\ \A j \in 0 .. n : fr[TableKey(UserDir) + j] = N + 1 + j
  <2>1. pagemap = 0 .. N - 1
    BY DEF Grown, GivenOut
  <2>2. \A f \in N .. N + n + 1 : f \notin pagemap
    BY <1>0, <2>1
  <2> QED
    BY <1>0, <1>1, <1>2, <2>2, Stretch
<1>4. N + 1 \notin dirty /\ N + n + 1 < TotalPages
  BY <1>0, <1>3, UsableFrames, SizeFacts DEF Grown, GivenOut
<1>5. /\ pagemap' = pagemap \cup N .. N + n + 1
      /\ dirty' = (dirty \ {N, N + 1}) \cup N + 2 .. N + n + 1
      /\ mem'[N] = DirectoryAt(N)
      /\ \A s \in Slots : mem'[N + 1][s] = IF s < n THEN N + 2 + s ELSE mem[N + 1][s]
      /\ \A f \in N + 2 .. N + n + 1 : mem'[f] = Zeros
      /\ \A f \in Frames : f \notin N .. N + n + 1 => mem'[f] = mem[f]
  <2>1. TypeOK
    BY DEF IInv
  <2> HIDE DEF fr
  <2> QED
    BY <1>0, <1>3, <1>4, <2>1, Built DEF fr
<1>6. tasks'[p].dir = N
  BY <1>3
<1> HIDE DEF fr
<1> DEFINE M == N + n + 2
<1>7. M \in 0 .. Limit /\ N \in Frames /\ N + 1 \in Frames
  BY <1>0, <1>3, <1>4, SizeFacts DEF Frames
<1>8. \A s \in Slots : s \in Nat /\ mem'[N + 1][s] = IF s < n THEN N + 2 + s ELSE Absent
  <2>1. mem[N + 1] = Zeros
    BY <1>0, <1>7 DEF Grown, GivenOut
  <2>2. \A s \in Slots : s \in Nat /\ mem[N + 1][s] = Absent
    BY <2>1 DEF Zeros, Slots
  <2> QED
    BY <1>5, <2>2
<1>9. \A q \in Live : q # p /\ q \in Pids /\ tasks'[q] = tasks[q]
  BY DEF Live
<1>10. ASSUME NEW q \in Live
       PROVE  LET d == tasks[q].dir
              IN  /\ mem'[d] = mem[d] /\ mem'[d + 1] = mem[d + 1] /\ d \in Nat /\ d + 1 < N
  <2> DEFINE d == tasks[q].dir
  <2>1. d \in Nat /\ d + 1 < N /\ d \in Frames /\ d + 1 \in Frames
    BY GrownLaid
  <2> HIDE DEF d
  <2>2. d \notin N .. N + n + 1 /\ d + 1 \notin N .. N + n + 1
    BY <1>0, <2>1
  <2> QED
    BY <1>5, <2>1, <2>2 DEF d
<1>11. GivenOut(M)'
  <2>1. 0 .. M - 1 = 0 .. N - 1 \cup N .. N + n + 1
    BY <1>0
  <2>2. pagemap' = 0 .. M - 1
    BY <1>5, <2>1 DEF Grown, GivenOut
  <2>3. dirty' \subseteq 0 .. M - 1
    BY <1>0, <1>5, <2>1 DEF Grown, GivenOut
  <2>4. \A f \in Frames : f >= M => mem'[f] = Zeros
    <3> SUFFICES ASSUME NEW f \in Frames, f >= M PROVE mem'[f] = Zeros
      OBVIOUS
    <3>1. f \in Nat /\ f >= N /\ f \notin N .. N + n + 1
      BY <1>0, SizeFacts DEF Frames
    <3> QED
      BY <1>5, <3>1 DEF Grown, GivenOut
  <2> QED
    BY <2>2, <2>3, <2>4 DEF GivenOut
<1>12. SpacesKept(M)'
  <2> SUFFICES ASSUME NEW q \in Live' PROVE SpaceAt(mem', tasks'[q].dir, M)
    BY DEF SpacesKept
  <2>1. CASE q = p
    <3>1. LaidIn(mem', N, n)
      <4>1. \A s \in Slots : s < n => N + 2 + s \in Frames
        BY <1>0, <1>4, SizeFacts DEF Frames, Slots
      <4> QED
        BY <1>5, <1>7, <1>8, <4>1 DEF LaidIn
    <3>2. \A s \in Slots : mem'[N + 1][s] < M
      BY <1>0, <1>8 DEF Absent
    <3>3. mem'[N + 1][0] = N + 2
      <4>1. 0 \in Slots
        BY SizeFacts DEF Slots
      <4> QED
        BY <1>0, <1>8, <4>1
    <3>4. N + 1 < M
      BY <1>0
    <3>5. SpaceAt(mem', N, M)
      BY <3>1, <3>2, <3>3, <3>4 DEF SpaceAt
    <3> QED
      BY <1>6, <2>1, <3>5
  <2>2. CASE q \in Live
    <3>1. SpaceAt(mem, tasks[q].dir, N)
      BY <2>2 DEF Grown, SpacesKept
    <3>2. SpaceAt(mem', tasks[q].dir, M)
      BY <1>0, <1>10, <2>2, <3>1, SpaceStays
    <3> QED
      BY <1>9, <2>2, <3>2
  <2> QED
    BY <2>1, <2>2
<1>13. TablesUnwritten'
  <2> SUFFICES ASSUME NEW q \in Live'
               PROVE  tasks'[q].dir \notin dirty' /\ tasks'[q].dir + 1 \notin dirty'
    BY DEF TablesUnwritten
  <2>1. CASE q = p
    BY <1>0, <1>5, <1>6, <2>1
  <2>2. CASE q \in Live
    <3>1. tasks[q].dir \in Nat /\ tasks[q].dir + 1 < N
      BY <1>10, <2>2
    <3> QED
      BY <1>0, <1>5, <1>9, <2>2, <3>1 DEF Grown, TablesUnwritten
  <2> QED
    BY <2>1, <2>2
<1>14. TablesDiffer'
  <2> SUFFICES ASSUME NEW q \in Live', NEW r \in Live', q # r
               PROVE  tasks'[q].dir # tasks'[r].dir /\ tasks'[q].dir # tasks'[r].dir + 1
    BY DEF TablesDiffer
  <2>1. \A t \in Live : tasks'[t].dir \in Nat /\ tasks'[t].dir + 1 < N
    BY <1>9, <1>10
  <2>2. CASE q \in Live /\ r \in Live
    BY <1>9, <2>2 DEF Grown, TablesDiffer
  <2>3. CASE q = p /\ r \in Live
    BY <1>0, <1>6, <2>1, <2>3
  <2>4. CASE r = p /\ q \in Live
    BY <1>0, <1>6, <2>1, <2>4
  <2> QED
    BY <2>2, <2>3, <2>4
<1>15. PagesNotTables'
  <2> SUFFICES ASSUME NEW q \in Live', NEW r \in Live', NEW s \in Slots
               PROVE  LET v == mem'[tasks'[q].dir + 1][s]
                      IN  v # tasks'[r].dir /\ v # tasks'[r].dir + 1
    BY DEF PagesNotTables
  <2>1. CASE q \in Live /\ r \in Live
    BY <1>9, <1>10, <2>1 DEF Grown, PagesNotTables
  <2>2. CASE q \in Live /\ r = p
    <3>1. mem'[tasks'[q].dir + 1][s] < N
      BY <1>9, <1>10, <2>2 DEF Grown, SpacesKept, SpaceAt
    <3>2. mem'[tasks'[q].dir + 1][s] # N /\ mem'[tasks'[q].dir + 1][s] # N + 1
      BY <1>0, <3>1
    <3> QED
      BY <1>6, <2>2, <3>2
  <2>3. CASE q = p
    <3>1. \A t \in Live' : tasks'[t].dir \in Nat /\ tasks'[t].dir <= N
      BY <1>0, <1>6, <1>9, <1>10
    <3>2. mem'[N + 1][s] = Absent \/ (mem'[N + 1][s] \in Nat /\ mem'[N + 1][s] >= N + 2)
      BY <1>0, <1>8
    <3> QED
      BY <1>0, <1>6, <2>3, <3>1, <3>2 DEF Absent
  <2> QED
    BY <2>1, <2>2, <2>3
<1>16. PagesDiffer'
  <2> SUFFICES ASSUME NEW q \in Live', NEW r \in Live', NEW s \in Slots, NEW t \in Slots,
                      mem'[tasks'[q].dir + 1][s] = mem'[tasks'[r].dir + 1][t],
                      mem'[tasks'[q].dir + 1][s] # Absent
               PROVE  q = r /\ s = t
    BY DEF PagesDiffer
  <2>1. \A u \in Slots : mem'[N + 1][u] = Absent \/ (u \in Nat /\ mem'[N + 1][u] = N + 2 + u)
    BY <1>8
  <2>2. \A o \in Live, u \in Slots : mem'[tasks'[o].dir + 1][u] < N
    BY <1>9, <1>10 DEF Grown, SpacesKept, SpaceAt
  <2>3. CASE q \in Live /\ r \in Live
    BY <1>9, <1>10, <2>3 DEF Grown, PagesDiffer
  <2>4. CASE q = p /\ r = p
    BY <1>0, <1>6, <2>1, <2>4
  <2>5. CASE q = p /\ r \in Live
    BY <1>0, <1>6, <2>1, <2>2, <2>5
  <2>6. CASE r = p /\ q \in Live
    BY <1>0, <1>6, <2>1, <2>2, <2>6
  <2> QED
    BY <2>3, <2>4, <2>5, <2>6
<1> HIDE DEF M
<1>17. Grown(M)'
  BY <1>11, <1>12, <1>13, <1>14, <1>15, <1>16 DEF Grown
<1> QED
  BY <1>7, <1>17 DEF ApartInv


\* sys_alloc_page writes the entry where the task's pages end, or, its table full,
\* into its own first page.
LEMMA EntryWritten ==
  ASSUME TypeOK, NEW n \in 1 .. Entries, NEW d, Laid(d, n), NEW f \in Frames
  PROVE  LET m == WithEntry(d + 1, f)
         IN  /\ m \in [Frames -> Contents]
             /\ \A g \in Frames : g # d + 1 /\ g # d + 2 => m[g] = mem[g]
             /\ \/ \A s \in Slots : m[d + 1][s] = mem[d + 1][s]
                \/ /\ n \in Slots /\ m[d + 1][n] = f
                   /\ \A s \in Slots : s # n => m[d + 1][s] = mem[d + 1][s]
<1> DEFINE t == d + 1
           m == WithEntry(t, f)
<1>0. n \in Nat /\ 1 <= n /\ n <= Entries /\ Entries \in Nat /\ d \in Nat
      /\ t \in Frames /\ t # d + 2 /\ mem \in [Frames -> Contents]
  <2>1. d \in Nat /\ t \in Frames
    BY SizeFacts DEF Laid, LaidIn, Frames
  <2>2. mem \in [Frames -> Contents]
    BY DEF TypeOK
  <2>3. n \in Nat /\ 1 <= n /\ n <= Entries /\ Entries \in Nat
    BY SizeFacts
  <2>4. t # d + 2
    BY <2>1
  <2> QED
    BY <2>1, <2>2, <2>3, <2>4
<1>1. \A s \in Slots : s \in Nat /\ (Present(mem[t][s]) <=> s < n)
  BY <1>0, ConstantFacts DEF Laid, LaidIn, Present, Slots
<1>2. m \in [Frames -> Contents]
  BY WithEntryType
<1>3. CASE n < Entries
  <2>1. n \in Slots
    BY <1>0, <1>3 DEF Slots
  <2> HIDE DEF t
  <2>2. ASSUME NEW s \in Slots, FirstClear(t, s) PROVE s = n
    <3>1. ~(s < n) /\ ~(n < s)
      BY <1>0, <1>1, <2>1, <2>2 DEF FirstClear
    <3> QED
      BY <1>0, <1>1, <3>1
  <2>3. FirstClear(t, n)
    BY <1>0, <1>1, <2>1 DEF FirstClear
  <2>4. (CHOOSE s \in Slots : FirstClear(t, s)) = n
    BY <2>1, <2>2, <2>3
  <2>5. \E s \in Slots : ~Present(mem[t][s])
    BY <1>0, <1>1, <2>1
  <2>6. m = [mem EXCEPT ![t][n] = f]
    BY <2>4, <2>5 DEF WithEntry
  <2>7. mem[t] \in [Slots -> Frames \cup {Absent, KernelEntry}]
    BY <1>0 DEF Contents
  <2>8. /\ m[t] = [mem[t] EXCEPT ![n] = f]
        /\ \A g \in Frames : g # t => m[g] = mem[g]
    BY <1>0, <2>6
  <2>9. m[t][n] = f /\ \A s \in Slots : s # n => m[t][s] = mem[t][s]
    BY <2>1, <2>7, <2>8
  <2> QED
    BY <1>2, <2>1, <2>8, <2>9 DEF t
<1>4. CASE n = Entries
  <2>1. ~\E s \in Slots : ~Present(mem[t][s])
    BY <1>0, <1>1, <1>4 DEF Slots
  <2>2. t + 1 = d + 2
    BY <1>0
  <2>3. m = mem \/ (d + 2 \in Frames /\ m = [mem EXCEPT ![d + 2][0] = f])
    BY <2>1, <2>2 DEF WithEntry
  <2>4. \A g \in Frames : g # d + 2 => m[g] = mem[g]
    BY <1>0, <2>3
  <2> QED
    BY <1>0, <1>2, <2>4
<1> QED
  BY <1>0, <1>3, <1>4

\* The program gets the next frame, and its table the entry for it.
LEMMA ApartAlloc ==
  ASSUME IInv, NEW N \in 0 .. Limit, Grown(N), AllocPage
  PROVE  ApartInv'
<1> DEFINE d == tasks[current_task].dir
           M == N + 1
<1>1. PICK f \in Free :
        /\ Rank(f) = 0
        /\ pagemap' = pagemap \cup {f}
        /\ mem' = [WithEntry(LastTable(d), f) EXCEPT ![f] = Zeros]
        /\ dirty' = dirty \cup {f}
  BY DEF AllocPage
<1>2. pc = "user" /\ UNCHANGED <<pc, tasks>> /\ Live' = Live
  BY DEF AllocPage, InCall, Live
<1>3. f = N /\ N < Limit /\ N \in Frames /\ N \in Nat
  BY <1>1, <1>2, FirstFree, NextFrame, SizeFacts
<1>4. current_task \in Live /\ current_task \in Pids
  BY <1>2, Running
<1>5. d \in Nat /\ d + 1 < N /\ d \in Frames /\ d + 1 \in Frames
  BY <1>4, GrownLaid
<1>6. PICK n \in 1 .. Entries : /\ Laid(d, n) /\ Distinct(d, n)
                                /\ \A s \in 0 .. n - 1 : s \in Slots /\ mem[d + 1][s] \in 0 .. N - 1
                                /\ mem[d + 1][0] = d + 2
  BY <1>4, GrownLaid
<1>7. n \in Nat /\ 1 <= n /\ n <= Entries /\ 0 \in 0 .. n - 1 /\ d + 2 < N /\ 0 \in Slots
  <2>1. n \in Nat /\ 1 <= n /\ n <= Entries /\ 0 \in 0 .. n - 1
    BY SizeFacts
  <2>2. d + 2 \in 0 .. N - 1 /\ 0 \in Slots
    BY <1>6, <2>1
  <2> QED
    BY <1>3, <2>1, <2>2
<1> HIDE DEF d
<1>8. LastTable(d) = d + 1
  BY <1>6, <1>7, LaidFacts
<1> DEFINE m == WithEntry(d + 1, N)
<1>9. /\ m \in [Frames -> Contents]
      /\ \A g \in Frames : g # d + 1 /\ g # d + 2 => m[g] = mem[g]
      /\ \/ \A s \in Slots : m[d + 1][s] = mem[d + 1][s]
         \/ /\ n \in Slots /\ m[d + 1][n] = N
            /\ \A s \in Slots : s # n => m[d + 1][s] = mem[d + 1][s]
  <2>1. TypeOK
    BY DEF IInv
  <2> QED
    BY <1>3, <1>6, <2>1, EntryWritten
<1>10. mem' = [m EXCEPT ![N] = Zeros]
  BY <1>1, <1>3, <1>8
<1> HIDE DEF m
<1>11. mem'[N] = Zeros /\ \A g \in Frames : g # N => mem'[g] = m[g]
  BY <1>3, <1>9, <1>10
<1>12. /\ mem'[N] = Zeros
       /\ \A g \in Frames : g \notin {N, d + 1, d + 2} => mem'[g] = mem[g]
       /\ \/ \A s \in Slots : mem'[d + 1][s] = mem[d + 1][s]
          \/ /\ n \in Slots /\ mem'[d + 1][n] = N
             /\ \A s \in Slots : s # n => mem'[d + 1][s] = mem[d + 1][s]
  <2>1. d + 1 # N
    BY <1>3, <1>5
  <2> QED
    BY <1>5, <1>9, <1>11, <2>1
<1>13. ASSUME NEW p \in Live
       PROVE  LET e == tasks[p].dir
              IN  /\ e \in Nat /\ e + 1 < N /\ mem'[e] = mem[e]
                  /\ e # d => mem'[e + 1] = mem[e + 1]
                  /\ e = d => p = current_task
  <2> DEFINE e == tasks[p].dir
  <2>1. e \in Nat /\ e + 1 < N /\ e \in Frames /\ e + 1 \in Frames
    BY GrownLaid
  <2>2. d + 2 # e /\ d + 2 # e + 1
    BY <1>4, <1>6, <1>7 DEF d, Grown, PagesNotTables
  <2>3. p # current_task => e # d /\ e # d + 1 /\ d # e + 1
    BY <1>4 DEF d, Grown, TablesDiffer
  <2>4. p = current_task => e = d
    BY DEF d
  <2> HIDE DEF e
  <2>5. e \notin {N, d + 1, d + 2}
    BY <1>3, <1>5, <2>1, <2>2, <2>3, <2>4
  <2>6. e # d => e + 1 \notin {N, d + 1, d + 2}
    BY <1>3, <1>5, <2>1, <2>2, <2>3, <2>4
  <2>7. mem'[e] = mem[e] /\ (e # d => mem'[e + 1] = mem[e + 1])
    BY <1>12, <2>1, <2>5, <2>6
  <2> QED
    BY <2>1, <2>3, <2>7 DEF e
\* What tables hold now: what they held, or the new page.
<1>14. ASSUME NEW p \in Live, NEW s \in Slots
       PROVE  LET e == tasks[p].dir
              IN  \/ mem'[e + 1][s] = mem[e + 1][s]
                  \/ mem'[e + 1][s] = N /\ p = current_task /\ s = n
  <2>2. mem'[d + 1][s] = mem[d + 1][s] \/ (mem'[d + 1][s] = N /\ s = n)
    BY <1>12
  <2>3. CASE tasks[p].dir = d
    BY <1>13, <2>2, <2>3
  <2>4. CASE tasks[p].dir # d
    BY <1>13, <2>4
  <2> QED
    BY <2>3, <2>4
<1>15. ASSUME NEW p \in Live, NEW s \in Slots
       PROVE  mem[tasks[p].dir + 1][s] \in Int /\ mem[tasks[p].dir + 1][s] < N
  <2>1. SpaceAt(mem, tasks[p].dir, N)
    BY DEF Grown, SpacesKept
  <2> QED
    BY <2>1, SizeFacts DEF SpaceAt, LaidIn, Frames, Absent
<1>16. GivenOut(M)'
  <2>1. pagemap' = 0 .. M - 1
    BY <1>1, <1>2, <1>3 DEF Grown, GivenOut
  <2>2. dirty' \subseteq 0 .. M - 1
    BY <1>1, <1>3 DEF Grown, GivenOut
  <2>3. \A g \in Frames : g >= M => mem'[g] = Zeros
    <3> SUFFICES ASSUME NEW g \in Frames, g >= M PROVE mem'[g] = Zeros
      OBVIOUS
    <3>1. g \in Nat /\ g >= N /\ g \notin {N, d + 1, d + 2}
      BY <1>3, <1>5, <1>7, SizeFacts DEF Frames
    <3> QED
      BY <1>12, <3>1 DEF Grown, GivenOut
  <2> QED
    BY <2>1, <2>2, <2>3 DEF GivenOut
<1>17. SpacesKept(M)'
  <2> SUFFICES ASSUME NEW p \in Live PROVE SpaceAt(mem', tasks[p].dir, M)
    BY <1>2 DEF SpacesKept
  <2>1. CASE tasks[p].dir # d
    <3>1. SpaceAt(mem, tasks[p].dir, N)
      BY DEF Grown, SpacesKept
    <3>2. M \in Nat /\ N <= M
      BY <1>3
    <3> QED
      BY <1>3, <1>13, <2>1, <3>1, <3>2, SpaceStays
  <2>2. CASE tasks[p].dir = d
    <3>1. LaidIn(mem, d, n) /\ mem'[d] = mem[d]
      BY <1>6, <1>13, <2>2 DEF Laid
    <3>3. \E k \in 1 .. Entries : LaidIn(mem', d, k)
      <4>1. CASE \A s \in Slots : mem'[d + 1][s] = mem[d + 1][s]
        BY <3>1, <4>1 DEF LaidIn
      <4>2. CASE /\ n \in Slots /\ mem'[d + 1][n] = N
                 /\ \A s \in Slots : s # n => mem'[d + 1][s] = mem[d + 1][s]
        <5>1. n + 1 \in 1 .. Entries
          BY <1>7, <4>2, SizeFacts DEF Slots
        <5>2. \A s \in Slots :
                IF s < n + 1 THEN mem'[d + 1][s] \in Frames ELSE mem'[d + 1][s] = Absent
          <6> SUFFICES ASSUME NEW s \in Slots
              PROVE IF s < n + 1 THEN mem'[d + 1][s] \in Frames ELSE mem'[d + 1][s] = Absent
            OBVIOUS
          <6>1. s \in Nat /\ (s < n + 1 <=> s < n \/ s = n)
            BY <1>7, SizeFacts DEF Slots
          <6> QED
            BY <1>3, <1>7, <3>1, <4>2, <6>1 DEF LaidIn
        <5>3. LaidIn(mem', d, n + 1)
          BY <3>1, <5>2 DEF LaidIn
        <5> QED
          BY <5>1, <5>3
      <4> QED
        BY <1>12, <4>1, <4>2
    <3>4. \A s \in Slots : mem'[d + 1][s] < M
      BY <1>3, <1>14, <1>15, <2>2
    <3>5. mem'[d + 1][0] = d + 2
      BY <1>6, <1>7, <1>12
    <3>6. d + 1 < M
      BY <1>3, <1>5
    <3> QED
      BY <2>2, <3>3, <3>4, <3>5, <3>6 DEF SpaceAt
  <2> QED
    BY <2>1, <2>2
<1>18. TablesUnwritten'
  <2> SUFFICES ASSUME NEW p \in Live
               PROVE  tasks[p].dir \notin dirty' /\ tasks[p].dir + 1 \notin dirty'
    BY <1>2 DEF TablesUnwritten
  <2>1. tasks[p].dir # N /\ tasks[p].dir + 1 # N
    BY <1>3, <1>13
  <2> QED
    BY <1>1, <1>3, <2>1 DEF Grown, TablesUnwritten
<1>19. TablesDiffer'
  BY <1>2 DEF Grown, TablesDiffer
<1>20. PagesNotTables'
  <2> SUFFICES ASSUME NEW p \in Live, NEW q \in Live, NEW s \in Slots
               PROVE  LET v == mem'[tasks[p].dir + 1][s]
                      IN  v # tasks[q].dir /\ v # tasks[q].dir + 1
    BY <1>2 DEF PagesNotTables
  <2>1. tasks[q].dir # N /\ tasks[q].dir + 1 # N
    BY <1>3, <1>13
  <2> QED
    BY <1>14, <2>1 DEF Grown, PagesNotTables
<1>21. PagesDiffer'
  <2> SUFFICES ASSUME NEW p \in Live, NEW q \in Live, NEW s \in Slots, NEW r \in Slots,
                      mem'[tasks[p].dir + 1][s] = mem'[tasks[q].dir + 1][r],
                      mem'[tasks[p].dir + 1][s] # Absent
               PROVE  p = q /\ s = r
    BY <1>2 DEF PagesDiffer
  <2>1. mem[tasks[p].dir + 1][s] # N /\ mem[tasks[q].dir + 1][r] # N
    BY <1>3, <1>15
  <2>2. \/ mem'[tasks[p].dir + 1][s] = mem[tasks[p].dir + 1][s]
        \/ mem'[tasks[p].dir + 1][s] = N /\ p = current_task /\ s = n
    BY <1>14
  <2>3. \/ mem'[tasks[q].dir + 1][r] = mem[tasks[q].dir + 1][r]
        \/ mem'[tasks[q].dir + 1][r] = N /\ q = current_task /\ r = n
    BY <1>14
  <2> QED
    BY <2>1, <2>2, <2>3 DEF Grown, PagesDiffer
<1>22. M \in 0 .. Limit
  BY <1>3, SizeFacts
<1> HIDE DEF M
<1>23. Grown(M)'
  BY <1>16, <1>17, <1>18, <1>19, <1>20, <1>21 DEF Grown
<1> QED
  BY <1>22, <1>23 DEF ApartInv


\* A program writes to a page of its own.
LEMMA ApartWrite ==
  ASSUME IInv, NEW N \in 0 .. Limit, Grown(N), NEW f \in Frames, UserWrite(f)
  PROVE  ApartInv'
<1> DEFINE d == tasks[current_task].dir
<1>1. /\ pc = "user" /\ f \in Mapped(cr3) /\ dirty' = dirty \cup {f}
      /\ mem' = [mem EXCEPT ![f] = Zeros]
      /\ UNCHANGED <<pc, pagemap, tasks>>
  BY DEF UserWrite
<1>2. current_task \in Live /\ cr3 = d
  BY <1>1, Running
<1>3. N \in Nat /\ Live' = Live
  BY <1>1, SizeFacts DEF Live
<1>4. \E s \in Slots : f = mem[d + 1][s] /\ f \in 0 .. N - 1
  <2>1. PICK n \in 1 .. Entries :
          Laid(d, n) /\ \A s \in 0 .. n - 1 : s \in Slots /\ mem[d + 1][s] \in 0 .. N - 1
    BY <1>2, GrownLaid
  <2>2. n \in Nat /\ 1 <= n /\ n <= Entries
    BY SizeFacts
  <2> HIDE DEF d
  <2>3. Mapped(d) = {mem[d + 1][s] : s \in 0 .. n - 1}
    BY <2>1, <2>2, LaidFacts
  <2> QED
    BY <1>1, <1>2, <2>1, <2>3
<1>5. \A g \in Frames : g # f => mem'[g] = mem[g]
  BY <1>1 DEF IInv, TypeOK
<1>6. mem'[f] = Zeros
  BY <1>1 DEF IInv, TypeOK
<1>7. ASSUME NEW p \in Live
      PROVE  LET e == tasks[p].dir
             IN  /\ f # e /\ f # e + 1 /\ mem'[e] = mem[e] /\ mem'[e + 1] = mem[e + 1]
  <2>1. tasks[p].dir \in Frames /\ tasks[p].dir + 1 \in Frames
    BY GrownLaid
  <2>2. f # tasks[p].dir /\ f # tasks[p].dir + 1
    BY <1>2, <1>4 DEF Grown, PagesNotTables
  <2> QED
    BY <1>5, <2>1, <2>2
<1> HIDE DEF d
<1>8. GivenOut(N)'
  <2>1. \A g \in Frames : g >= N => mem'[g] = Zeros
    BY <1>5, <1>6 DEF Grown, GivenOut
  <2>2. dirty' \subseteq 0 .. N - 1
    BY <1>1, <1>4 DEF Grown, GivenOut
  <2> QED
    BY <1>1, <2>1, <2>2 DEF Grown, GivenOut
<1>9. SpacesKept(N)'
  <2> SUFFICES ASSUME NEW p \in Live PROVE SpaceAt(mem', tasks[p].dir, N)
    BY <1>1, <1>3 DEF SpacesKept
  <2>1. SpaceAt(mem, tasks[p].dir, N)
    BY DEF Grown, SpacesKept
  <2> QED
    BY <1>3, <1>7, <2>1, SpaceStays
<1>10. TablesUnwritten'
  BY <1>1, <1>3, <1>7 DEF Grown, TablesUnwritten
<1>11. TablesDiffer'
  BY <1>1, <1>3 DEF Grown, TablesDiffer
<1>12. PagesNotTables'
  BY <1>1, <1>3, <1>7 DEF Grown, PagesNotTables
<1>13. PagesDiffer'
  BY <1>1, <1>3, <1>7 DEF Grown, PagesDiffer
<1>14. Grown(N)'
  BY <1>8, <1>9, <1>10, <1>11, <1>12, <1>13 DEF Grown
<1> QED
  BY <1>14 DEF ApartInv

LEMMA ApartSame ==
  ASSUME ApartInv, UNCHANGED <<mem, dirty>>, Live' = Live,
         \A p \in Live : tasks'[p].dir = tasks[p].dir,
         \/ pagemap' = pagemap /\ (pc = "halted" => pc' = "halted")
         \/ pagemap \subseteq pagemap' /\ pc' = "halted"
  PROVE  ApartInv'
<1>1. PICK N \in 0 .. Limit : Grown(N)
  BY DEF ApartInv
<1>2. GivenOut(N)'
  BY <1>1 DEF Grown, GivenOut
<1>3. SpacesKept(N)'
  BY <1>1 DEF Grown, SpacesKept
<1>4. TablesUnwritten' /\ TablesDiffer'
  BY <1>1 DEF Grown, TablesUnwritten, TablesDiffer
<1>5. PagesNotTables'
  BY <1>1 DEF Grown, PagesNotTables
<1>6. PagesDiffer'
  BY <1>1 DEF Grown, PagesDiffer
<1>7. Grown(N)'
  BY <1>2, <1>3, <1>4, <1>5, <1>6 DEF Grown
<1> QED
  BY <1>7 DEF ApartInv

LEMMA ApartInit == Init => ApartInv
<1> SUFFICES ASSUME Init PROVE ApartInv
  OBVIOUS
<1>1. Live = {} /\ pagemap = {} /\ dirty = {} /\ mem = [f \in Frames |-> Zeros]
  BY DEF Init, Live
<1>2. GivenOut(0)
  BY <1>1 DEF GivenOut
<1>3. Grown(0)
  BY <1>1, <1>2 DEF Grown, SpacesKept, TablesUnwritten, TablesDiffer, PagesNotTables, PagesDiffer
<1>4. 0 \in 0 .. Limit
  BY SizeFacts
<1> QED
  BY <1>3, <1>4 DEF ApartInv

-----------------------------------------------------------------------------
(* What the birth of a task does to the table, in the terms used above.     *)

LEMMA InitBorn ==
  ASSUME IInv, TaskCreate
  PROVE  /\ pc = "boot" /\ Enough(InitKeys)
         /\ BuildSpace(InitKeys, Allocated(InitKeys), KernelEntry)
         /\ 0 \in Pids /\ 0 \notin Live /\ Live' = Live \cup {0}
         /\ tasks'[0].dir = Allocated(InitKeys)[DirectoryKey]
         /\ \A q \in Pids : q # 0 => tasks'[q] = tasks[q]
<1>1. PICK d \in Frames :
        tasks' = [tasks EXCEPT ![0] =
          [pid |-> 0, dir |-> d, tss |-> [frame |-> 0, eax |-> 0, rest |-> 0]]]
  BY InitTask
<1>2. /\ pc = "boot" /\ Enough(InitKeys)
      /\ BuildSpace(InitKeys, Allocated(InitKeys), KernelEntry)
      /\ tasks' = [tasks EXCEPT ![0] =
           [pid |-> 0, dir |-> Allocated(InitKeys)[DirectoryKey],
            tss |-> [frame |-> 0, eax |-> 0, rest |-> 0]]]
  BY DEF TaskCreate
<1>3. 0 \in Pids /\ 0 \notin Live /\ tasks \in [Pids -> Task \cup {NULL}]
  BY <1>2, ConstantFacts DEF IInv, KernelAlone, TypeOK
<1>4. tasks'[0].dir = Allocated(InitKeys)[DirectoryKey]
      /\ \A q \in Pids : q # 0 => tasks'[q] = tasks[q]
  BY <1>2, <1>3
<1>5. tasks'[0] # NULL
  <2>1. [pid |-> 0, dir |-> d, tss |-> [frame |-> 0, eax |-> 0, rest |-> 0]] \in Task
    BY ConstantFacts, TaskFields, ContextFields
  <2> QED
    BY <1>1, <1>3, <2>1, ConstantFacts
<1>6. Live' = Live \cup {0}
  BY <1>3, <1>4, <1>5 DEF Live
<1> QED
  BY <1>2, <1>3, <1>4, <1>6

LEMMA ForkBorn ==
  ASSUME IInv, ForkTask, NEW keys, DirectoryKey \in keys,
         DupKeys(tasks[current_task].dir) = keys,
         mem[tasks[current_task].dir][0] = KernelEntry
  PROVE  /\ pc = "user" /\ Enough(keys) /\ BuildSpace(keys, Allocated(keys), KernelEntry)
         /\ \E p \in Pids : /\ p \notin Live /\ Live' = Live \cup {p}
                            /\ tasks'[p].dir = Allocated(keys)[DirectoryKey]
                            /\ \A q \in Pids : q # p => tasks'[q] = tasks[q]
<1>1. /\ pc = "user" /\ Enough(keys)
      /\ BuildSpace(keys, Allocated(keys), KernelEntry)
  BY DEF ForkTask, InCall
<1>2. PICK p \in Pids :
        /\ FirstFreePid(p)
        /\ tasks' = [tasks EXCEPT ![p] = Child(p, Allocated(keys)[DirectoryKey])]
  BY DEF ForkTask
<1>3. p \notin Live /\ tasks \in [Pids -> Task \cup {NULL}]
  BY <1>2 DEF FirstFreePid, Live, IInv, TypeOK
<1>4. tasks'[p].dir = Allocated(keys)[DirectoryKey]
      /\ \A q \in Pids : q # p => tasks'[q] = tasks[q]
  BY <1>2, <1>3 DEF Child
<1>5. tasks'[p] # NULL
  <2>1. tasks'[p] = Child(p, Allocated(keys)[DirectoryKey])
    BY <1>2, <1>3
  <2>2. Allocated(keys)[DirectoryKey] \in Frames
    BY <1>1, AllocatedPages
  <2>3. [frame |-> cpu.frame, eax |-> p, rest |-> 0] \in Context
    <3>1. cpu.frame \in Words
      BY DEF IInv, TypeOK, Context
    <3> QED
      BY <3>1, ConstantFacts, ContextFields
  <2>4. Child(p, Allocated(keys)[DirectoryKey]) \in Task
    BY <2>2, <2>3, TaskFields DEF Child
  <2> QED
    BY <2>1, <2>4, ConstantFacts
<1>6. Live' = Live \cup {p}
  BY <1>4, <1>5 DEF Live
<1> QED
  BY <1>1, <1>3, <1>4, <1>6

-----------------------------------------------------------------------------
(* The theorems.                                                            *)


LEMMA ExactNext ==
  ASSUME "alloc" \notin UserCalls, IInv, ExactInv, [Next]_vars
  PROVE  ExactInv'
<1>1. CASE \/ InstallSwitch \/ OtherInterrupt \/ PanicEnds \/ Timer \/ TimerFindsNoTask
           \/ UserStep \/ GetPid \/ ForkFull \/ ForkOutOfHeap \/ ForkOutOfPages
           \/ ClearCurrent \/ Sti \/ AllocOutOfPages
           \/ (\E p \in Pids : KillNobody(p))
           \/ UNCHANGED vars
  BY <1>1, QuietPages, ExactSame
<1>2. CASE TaskCreate
  BY <1>2, InitBorn, ExactBorn
<1>3. CASE ForkTask
  <2> DEFINE parent == tasks[current_task].dir
  <2>1. pc = "user" /\ current_task \in Live
    BY <1>3, Running DEF ForkTask, InCall
  <2>2. DupKeys(parent) = InitKeys /\ mem[parent][0] = KernelEntry
    BY <2>1, BlockLaid DEF ExactInv
  <2>3. DirectoryKey \in InitKeys
    BY DEF InitKeys
  <2>4. /\ Enough(InitKeys) /\ BuildSpace(InitKeys, Allocated(InitKeys), KernelEntry)
        /\ \E p \in Pids : /\ p \notin Live /\ Live' = Live \cup {p}
                           /\ tasks'[p].dir = Allocated(InitKeys)[DirectoryKey]
                           /\ \A q \in Pids : q # p => tasks'[q] = tasks[q]
    BY <1>3, <2>2, <2>3, ForkBorn
  <2> QED
    BY <2>1, <2>4, ExactBorn
<1>4. CASE Exit \/ Trap \/ KillSelf
  <2>1. pc = "user" /\ KillAndFree(current_task, "dying") /\ UNCHANGED <<mem, dirty>>
    BY <1>4 DEF Exit, Trap, KillSelf, InCall
  <2>2. current_task \in Live
    BY <2>1, Running
  <2> QED
    BY <2>1, <2>2, ExactDied
<1>5. ASSUME NEW p \in Pids, Kill(p) PROVE ExactInv'
  <2>1. pc = "user" /\ KillAndFree(p, "user") /\ UNCHANGED <<mem, dirty>> /\ p \in Live
    BY <1>5 DEF Kill, Live, InCall
  <2> QED
    BY <2>1, ExactDied
<1>6. ASSUME NEW f \in Frames, UserWrite(f) PROVE ExactInv'
  BY <1>6, ExactWrite
<1>7. CASE AllocPage
  BY <1>7 DEF AllocPage, InCall
<1> QED
  BY <1>1, <1>2, <1>3, <1>4, <1>5, <1>6, <1>7 DEF Next, Step, Stopped

\* While nobody allocates pages, whatever programs fork, exit, kill and trap, and
\* whatever they write: the stretches stay as they are.
THEOREM StretchesKept ==
  ASSUME "alloc" \notin UserCalls
  PROVE  Spec => []ExactInv
<1>1. IInv /\ ExactInv /\ [Next]_vars => ExactInv'
  BY ExactNext
<1> QED
  BY <1>1, ExactInit, InductiveInvariant, PTL DEF Spec

\* Without allocation, pages go round exactly: no page is in two address spaces, none
\* is freed twice, none is lost, and the tables that lead to them stay as written.
THEOREM PagesGoRound ==
  ASSUME "alloc" \notin UserCalls
  PROVE  Spec => []PagesExact
<1>1. Spec => []ExactInv
  BY StretchesKept
<1> QED
  BY <1>1, ExactImplies, PTL

LEMMA ApartNext ==
  ASSUME UserCalls \cap {"exit", "kill", "trap"} = {}, IInv, ApartInv, [Next]_vars
  PROVE  ApartInv'
<1>0. PICK N \in 0 .. Limit : Grown(N)
  BY DEF ApartInv
<1>1. CASE \/ InstallSwitch \/ OtherInterrupt \/ PanicEnds \/ Timer \/ TimerFindsNoTask
           \/ UserStep \/ GetPid \/ ForkFull \/ ForkOutOfHeap \/ ForkOutOfPages
           \/ ClearCurrent \/ Sti \/ AllocOutOfPages
           \/ (\E p \in Pids : KillNobody(p))
           \/ UNCHANGED vars
  BY <1>1, QuietPages, ApartSame
<1>2. CASE TaskCreate
  <2>1. InitPages \in 1 .. Entries
    BY SizeFacts
  <2>2. /\ pc # "halted" /\ Enough(Keys(InitPages))
        /\ BuildSpace(Keys(InitPages), Allocated(Keys(InitPages)), KernelEntry)
        /\ 0 \in Pids /\ 0 \notin Live /\ Live' = Live \cup {0}
        /\ tasks'[0].dir = Allocated(Keys(InitPages))[DirectoryKey]
        /\ \A q \in Pids : q # 0 => tasks'[q] = tasks[q]
    BY <1>2, InitBorn, InitKeysAre
  <2> QED
    BY <1>0, <2>1, <2>2, ApartBorn
<1>3. CASE ForkTask
  <2> DEFINE parent == tasks[current_task].dir
  <2>1. pc = "user" /\ current_task \in Live
    BY <1>3, Running DEF ForkTask, InCall
  <2>2. PICK n \in 1 .. Entries : Laid(parent, n)
    BY <1>0, <2>1, GrownLaid
  <2>3. n \in Nat /\ 1 <= n /\ n <= Entries
    BY SizeFacts
  <2>4. DupKeys(parent) = Keys(n) /\ mem[parent][0] = KernelEntry
    <3> HIDE DEF parent
    <3> QED
      BY <2>2, <2>3, LaidFacts
  <2>5. DirectoryKey \in Keys(n)
    BY DEF Keys
  <2>6. /\ Enough(Keys(n)) /\ BuildSpace(Keys(n), Allocated(Keys(n)), KernelEntry)
        /\ \E p \in Pids : /\ p \notin Live /\ Live' = Live \cup {p}
                           /\ tasks'[p].dir = Allocated(Keys(n))[DirectoryKey]
                           /\ \A q \in Pids : q # p => tasks'[q] = tasks[q]
    BY <1>3, <2>4, <2>5, ForkBorn
  <2> QED
    BY <1>0, <2>1, <2>6, ApartBorn
<1>4. CASE Exit \/ Trap \/ KillSelf \/ \E p \in Pids : Kill(p)
  BY <1>4 DEF Exit, Trap, KillSelf, Kill, InCall
<1>5. ASSUME NEW f \in Frames, UserWrite(f) PROVE ApartInv'
  BY <1>0, <1>5, ApartWrite
<1>6. CASE AllocPage
  BY <1>0, <1>6, ApartAlloc
<1> QED
  BY <1>1, <1>2, <1>3, <1>4, <1>5, <1>6 DEF Next, Step, Stopped

\* While nobody dies, whatever programs allocate, fork and write, also past the end
\* of their tables: the frames given out keep their roles.
THEOREM RolesKept ==
  ASSUME UserCalls \cap {"exit", "kill", "trap"} = {}
  PROVE  Spec => []ApartInv
<1>1. IInv /\ ApartInv /\ [Next]_vars => ApartInv'
  BY ApartNext
<1> QED
  BY <1>1, ApartInit, InductiveInvariant, PTL DEF Spec

\* Without deaths, no page is in two address spaces or twice in one, and the tables
\* that lead to them stay as written.
THEOREM PagesStayApart ==
  ASSUME UserCalls \cap {"exit", "kill", "trap"} = {}
  PROVE  Spec => []PagesApart
<1>1. Spec => []ApartInv
  BY RolesKept
<1> QED
  BY <1>1, ApartImplies, InductiveInvariant, PTL

=============================================================================
