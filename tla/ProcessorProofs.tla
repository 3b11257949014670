-------------------------- MODULE ProcessorProofs --------------------------
(***************************************************************************)
(* What the kernel sets up for the processor, proved for every value of    *)
(* the constants: the kernel's page tables (Paging), the descriptors       *)
(* (Segments) and interrupts from power-on to the tasks (Interrupts).      *)
(***************************************************************************)
EXTENDS Interrupts, Segments, Paging, Quotients, TLAPS

-----------------------------------------------------------------------------
\* The page tables.

\* The pages tables are in: of an absent entry page 0.
TablePages == {0} \cup {Tables + d : d \in 0 .. Mapped4M - 1}

\* What paging_init fixes and no call changes: where the tables are.
DirectoryFixed ==
  directory = [d \in Indices |-> IF d < Mapped4M THEN Tables + d ELSE 0]

MemoryTypeOK ==
  /\ DOMAIN memory = TablePages
  /\ \A t \in TablePages : memory[t] \in [Indices -> Nat \cup {Absent}]

AskedTypeOK == asked \in [Pages -> Nat \cup {Absent}]

\* An entry holds the number of the page that was asked for.
HoldsAsked(p) ==
  HasTable(p) =>
    TableEntry(p) = IF asked[p] = Absent THEN Absent ELSE asked[p] \div Page

PagingInv ==
  /\ DirectoryFixed /\ MemoryTypeOK /\ AskedTypeOK
  /\ \A p \in Pages : HoldsAsked(p)

\* Every page has a directory entry and an entry in its table.
LEMMA IndicesOf ==
  ASSUME NEW p \in Pages
  PROVE  /\ p \in Nat /\ DirI(p) \in Indices /\ TblI(p) \in Indices
         /\ p = DirI(p) * Entries + TblI(p)
<1> DEFINE E == Entries
<1>1. E \in Nat \ {0}
  BY PagingAssumption
<1>2. E * E \in Nat
  BY <1>1, SMT
<1>3. p \in Nat /\ p < E * E
  BY <1>2, SMT DEF Pages
<1>4. /\ p \div E \in Int /\ p % E \in 0 .. E - 1 /\ p = (p \div E) * E + (p % E)
      /\ p \div E >= 0
  <2>1. p \in Int /\ p >= 0
    BY <1>3, SMT
  <2> QED BY <1>1, <2>1, DividedIs, Zenon
<1>5. ASSUME NEW q \in Int, q = p \div E, q >= E PROVE FALSE
  <2>1. q * E >= E * E
    BY <1>1, <1>5, TimesOrdered, SMT
  <2>2. PICK r \in 0 .. E - 1 : p = q * E + r
    BY <1>4, <1>5
  <2>3. q * E \in Int /\ r >= 0
    BY <1>1, <1>5, <2>2, SMT
  <2> QED BY <2>1, <2>2, <2>3, <1>2, <1>3, SMT
<1>6. p \div E \in 0 .. E - 1
  BY <1>1, <1>4, <1>5, SMT
<1> QED BY <1>3, <1>4, <1>6 DEF DirI, TblI, Indices

\* With the directory of paging_init, a page has a table as its number says.
LEMMA TablesAt ==
  ASSUME DirectoryFixed, NEW p \in Pages
  PROVE  /\ Table(p) \in TablePages
         /\ HasTable(p) <=> DirI(p) < Mapped4M
         /\ HasTable(p) => Table(p) = Tables + DirI(p)
<1>1. DirI(p) \in Indices
  BY IndicesOf
<1>2. Table(p) = IF DirI(p) < Mapped4M THEN Tables + DirI(p) ELSE 0
  BY <1>1 DEF Table, DirectoryFixed
<1>3. /\ Tables \in Nat \ {0} /\ Mapped4M \in Nat /\ DirI(p) \in Nat
  BY <1>1, PagingAssumption, SMT DEF Indices
<1>4. CASE DirI(p) < Mapped4M
  <2>1. DirI(p) \in 0 .. Mapped4M - 1
    BY <1>3, <1>4, SMT
  <2>2. Tables + DirI(p) # 0
    BY <1>3, SMT
  <2> QED BY <1>2, <1>4, <2>1, <2>2 DEF TablePages, HasTable
<1>5. CASE ~(DirI(p) < Mapped4M)
  BY <1>2, <1>5 DEF TablePages, HasTable
<1> QED BY <1>4, <1>5

\* Two pages with tables have two entries.
LEMMA EntriesApart ==
  ASSUME DirectoryFixed, NEW p \in Pages, NEW k \in Pages, HasTable(p), p # k
  PROVE  Table(p) # Table(k) \/ TblI(p) # TblI(k)
<1> SUFFICES ASSUME Table(p) = Table(k), TblI(p) = TblI(k) PROVE FALSE
  OBVIOUS
<1>1. HasTable(k)
  BY DEF HasTable
<1>2. DirI(p) \in Nat /\ DirI(k) \in Nat /\ Tables \in Nat
  BY IndicesOf, PagingAssumption, SMT DEF Indices
<1>3. DirI(p) = DirI(k)
  <2>1. Tables + DirI(p) = Tables + DirI(k)
    BY <1>1, TablesAt
  <2> QED BY <2>1, <1>2, SMT
<1> QED BY <1>3, IndicesOf

LEMMA PagingInitInv == PagingInit => PagingInv
<1> SUFFICES ASSUME PagingInit PROVE PagingInv
  OBVIOUS
<1>1. DirectoryFixed
  BY DEF PagingInit, DirectoryFixed
<1>2. Mapped4M \in Nat /\ Mapped4M =< Entries /\ Entries \in Nat \ {0} /\ Tables \in Nat \ {0}
  BY PagingAssumption, SMT
<1>3. {0} \cup {directory[d] : d \in Indices} \subseteq TablePages
  <2>1. ASSUME NEW d \in Indices PROVE directory[d] \in TablePages
    <3>1. CASE d < Mapped4M
      <4>1. d \in 0 .. Mapped4M - 1
        BY <1>2, <3>1, SMT DEF Indices
      <4> QED BY <4>1, <3>1, <1>1 DEF DirectoryFixed, TablePages
    <3>2. CASE ~(d < Mapped4M)
      BY <3>2, <1>1 DEF DirectoryFixed, TablePages
    <3> QED BY <3>1, <3>2
  <2> QED BY <2>1 DEF TablePages
<1>4. TablePages \subseteq {0} \cup {directory[d] : d \in Indices}
  <2>1. ASSUME NEW d \in 0 .. Mapped4M - 1
        PROVE  d \in Indices /\ directory[d] = Tables + d
    <3>1. d \in Indices /\ d < Mapped4M
      BY <1>2, SMT DEF Indices
    <3> QED BY <3>1, <1>1 DEF DirectoryFixed
  <2> QED BY <2>1 DEF TablePages
<1>5. TablePages = {0} \cup {directory[d] : d \in Indices}
  BY <1>3, <1>4
<1>6. PICK low \in [Indices -> {Absent, 0}] :
        memory = [t \in TablePages |->
                    IF t = 0 THEN low ELSE [i \in Indices |-> (t - Tables) * Entries + i]]
  BY <1>5 DEF PagingInit
<1>7. ASSUME NEW d \in 0 .. Mapped4M - 1, NEW i \in Indices
      PROVE  /\ Tables + d \in TablePages /\ Tables + d # 0
             /\ memory[Tables + d][i] = d * Entries + i
             /\ d * Entries + i \in Nat
  <2>1. Tables + d \in TablePages
    BY DEF TablePages
  <2>2. Tables + d # 0 /\ (Tables + d) - Tables = d
    BY <1>2, SMT
  <2>3. memory[Tables + d] = [j \in Indices |-> ((Tables + d) - Tables) * Entries + j]
    BY <2>1, <2>2, <1>6
  <2>4. d * Entries \in Nat /\ i \in Nat
    BY <1>2, SMT DEF Indices
  <2>5. d * Entries + i \in Nat
    BY <2>4, SMT
  <2> QED BY <2>1, <2>2, <2>3, <2>5
<1>8. MemoryTypeOK
  <2>1. DOMAIN memory = TablePages
    BY <1>6
  <2>2. ASSUME NEW t \in TablePages PROVE memory[t] \in [Indices -> Nat \cup {Absent}]
    <3>1. CASE t = 0
      BY <3>1, <1>6
    <3>2. CASE t # 0
      <4>1. PICK d \in 0 .. Mapped4M - 1 : t = Tables + d
        BY <3>2 DEF TablePages
      <4>2. ASSUME NEW i \in Indices PROVE memory[t][i] \in Nat
        BY <4>1, <1>7
      <4>3. memory[t] = [i \in Indices |-> (t - Tables) * Entries + i]
        BY <3>2, <1>6
      <4> QED BY <4>2, <4>3
    <3> QED BY <3>1, <3>2
  <2> QED BY <2>1, <2>2 DEF MemoryTypeOK
<1>9. ASSUME NEW p \in Pages PROVE p * Page \in Nat /\ (p * Page) \div Page = p
  <2>1. p \in Nat /\ Page \in Nat \ {0}
    BY IndicesOf, PagingAssumption
  <2>2. p * Page \in Nat /\ p * Page + 0 = p * Page /\ 0 \in 0 .. Page - 1
    BY <2>1, SMT
  <2>3. (p * Page + 0) \div Page = p
    BY <2>1, <2>2, QuotientIs, SMT
  <2> QED BY <2>2, <2>3
<1>10. AskedTypeOK
  BY <1>9 DEF PagingInit, AskedTypeOK
<1>11. ASSUME NEW p \in Pages, HasTable(p) PROVE TableEntry(p) = p /\ asked[p] = p * Page
  <2>1. DirI(p) < Mapped4M /\ Table(p) = Tables + DirI(p)
    BY <1>1, <1>11, TablesAt
  <2>2. DirI(p) \in 0 .. Mapped4M - 1
    BY <2>1, <1>2, IndicesOf, SMT DEF Indices
  <2>3. TableEntry(p) = DirI(p) * Entries + TblI(p)
    BY <2>1, <2>2, <1>7, IndicesOf DEF TableEntry
  <2>4. asked[p] = p * Page
    BY <2>1 DEF PagingInit
  <2> QED BY <2>3, <2>4, IndicesOf
<1>12. ASSUME NEW p \in Pages PROVE HoldsAsked(p)
  <2>1. p * Page # Absent
    BY <1>9, SMT DEF Absent
  <2> QED BY <2>1, <1>9, <1>11 DEF HoldsAsked
<1> QED BY <1>1, <1>8, <1>10, <1>12 DEF PagingInv

\* Storing an entry changes that one and no other.
LEMMA StoresOne ==
  ASSUME DirectoryFixed, MemoryTypeOK, NEW p \in Pages, NEW q \in Nat \cup {Absent}, Stored(p, q)
  PROVE  /\ MemoryTypeOK'
         /\ memory'[Table(p)][TblI(p)] = q
         /\ \A t \in TablePages, i \in Indices :
              t # Table(p) \/ i # TblI(p) => memory'[t][i] = memory[t][i]
<1> DEFINE t0 == Table(p)
           i0 == TblI(p)
<1>1. t0 \in TablePages /\ i0 \in Indices
  BY TablesAt, IndicesOf
<1>2. memory' = [memory EXCEPT ![t0] = [@ EXCEPT ![i0] = q]]
  BY DEF Stored
<1>3. memory[t0] \in [Indices -> Nat \cup {Absent}]
  BY <1>1 DEF MemoryTypeOK
<1>4. /\ memory'[t0] = [memory[t0] EXCEPT ![i0] = q]
      /\ DOMAIN memory' = TablePages
      /\ \A t \in TablePages : t # t0 => memory'[t] = memory[t]
  BY <1>1, <1>2 DEF MemoryTypeOK
<1>5. /\ memory'[t0] \in [Indices -> Nat \cup {Absent}]
      /\ memory'[t0][i0] = q
      /\ \A i \in Indices : i # i0 => memory'[t0][i] = memory[t0][i]
  BY <1>1, <1>3, <1>4
<1>6. MemoryTypeOK'
  <2>1. ASSUME NEW t \in TablePages PROVE memory'[t] \in [Indices -> Nat \cup {Absent}]
    BY <1>4, <1>5 DEF MemoryTypeOK
  <2> QED BY <1>4, <2>1 DEF MemoryTypeOK, TablePages
<1> QED BY <1>4, <1>5, <1>6

\* Where an entry was stored, and the same was noted of its page, entries hold
\* what was asked; nothing was stored for any other page with a table.
LEMMA StoredHolds ==
  ASSUME PagingInv, NEW p \in Pages, NEW q \in Nat \cup {Absent}, Stored(p, q),
         NEW physical \in Nat \cup {Absent},
         asked' = IF HasTable(p) THEN [asked EXCEPT ![p] = physical] ELSE asked,
         q = IF physical = Absent THEN Absent ELSE physical \div Page,
         directory' = directory
  PROVE  PagingInv'
<1> USE DEF PagingInv
<1>1. DirectoryFixed'
  BY DEF DirectoryFixed
<1>2. /\ MemoryTypeOK'
      /\ memory'[Table(p)][TblI(p)] = q
      /\ \A t \in TablePages, i \in Indices :
           t # Table(p) \/ i # TblI(p) => memory'[t][i] = memory[t][i]
  BY StoresOne
<1>3. AskedTypeOK'
  <2>1. CASE HasTable(p)
    BY <2>1 DEF AskedTypeOK
  <2>2. CASE ~HasTable(p)
    BY <2>2 DEF AskedTypeOK
  <2> QED BY <2>1, <2>2
<1>4. ASSUME NEW k \in Pages, HasTable(k)
      PROVE  memory'[Table(k)][TblI(k)] =
               IF asked'[k] = Absent THEN Absent ELSE asked'[k] \div Page
  <2>1. CASE k = p
    <3>1. asked'[k] = physical
      BY <1>4, <2>1 DEF AskedTypeOK
    <3> QED BY <1>2, <2>1, <3>1
  <2>2. CASE k # p
    <3>1. Table(k) # Table(p) \/ TblI(k) # TblI(p)
      BY <1>4, <2>2, EntriesApart
    <3>2. Table(k) \in TablePages /\ TblI(k) \in Indices
      BY TablesAt, IndicesOf
    <3>3. memory'[Table(k)][TblI(k)] = TableEntry(k)
      BY <1>2, <3>1, <3>2 DEF TableEntry
    <3>4. asked'[k] = asked[k]
      BY <2>2 DEF AskedTypeOK
    <3> QED BY <1>4, <3>3, <3>4 DEF HoldsAsked
  <2> QED BY <2>1, <2>2
<1>5. \A k \in Pages : HoldsAsked(k)'
  BY <1>4 DEF HoldsAsked, HasTable, TableEntry, Table
<1> QED BY <1>1, <1>2, <1>3, <1>5

LEMMA PagingStepInv == PagingInv /\ [PagingNext]_pagingVars => PagingInv'
<1> SUFFICES ASSUME PagingInv, [PagingNext]_pagingVars PROVE PagingInv'
  OBVIOUS
<1>1. ASSUME NEW p \in Pages, NEW physical \in Physical, Map(p, physical) PROVE PagingInv'
  <2>1. physical \in Nat /\ Page \in Nat \ {0} /\ physical # Absent
    BY PagingAssumption, SMT DEF Absent
  <2>2. physical \div Page \in Nat
    <3>1. physical \in Int /\ physical >= 0
      BY <2>1, SMT
    <3>2. physical \div Page \in Int /\ physical \div Page >= 0
      BY <2>1, <3>1, DividedIs, Zenon
    <3> QED BY <3>2, SMT
  <2> QED BY <1>1, <2>1, <2>2, StoredHolds DEF Map
<1>2. ASSUME NEW p \in Pages, Unmap(p) PROVE PagingInv'
  BY <1>2, StoredHolds DEF Unmap
<1>3. CASE UNCHANGED <<directory, memory, asked>>
  BY <1>3 DEF PagingInv, DirectoryFixed, MemoryTypeOK, AskedTypeOK, HoldsAsked, HasTable,
       TableEntry, Table
<1>4. CASE UNCHANGED pagingVars
  BY <1>3, <1>4 DEF pagingVars
<1> QED BY <1>1, <1>2, <1>3, <1>4 DEF PagingNext, MapPanics, UnmapPanics

\* What is proved of the page tables.
THEOREM PagingInvariant == PagingSpec => []PagingInv
<1> QED BY PagingInitInv, PagingStepInv, PTL DEF PagingSpec

\* For every size of pages and tables, however many directory entries paging_init
\* sets and wherever its tables are: a page with a table leads to the page that
\* was last asked for, or nowhere if none was (ksrc/paging.c:14-106).  Addresses
\* that paging_map should have refused are left out.
THEOREM LeadsRight == PagingSpec => []LeadsWhereAsked
<1>1. PagingInv => LeadsWhereAsked
  <2> SUFFICES ASSUME PagingInv, NEW p \in Pages, HasTable(p)
               PROVE  /\ TableEntry(p) = Absent <=> asked[p] = Absent
                      /\ TableEntry(p) # Absent /\ asked[p] % Page = 0 =>
                           \A o \in Offsets : Translated(p * Page + o) = asked[p] + o
    BY DEF LeadsWhereAsked
  <2>1. /\ asked[p] \in Nat \cup {Absent} /\ Page \in Nat \ {0} /\ p \in Nat
        /\ TableEntry(p) = IF asked[p] = Absent THEN Absent ELSE asked[p] \div Page
    BY IndicesOf, PagingAssumption DEF PagingInv, AskedTypeOK, HoldsAsked
  <2>2. ASSUME asked[p] # Absent
        PROVE  /\ asked[p] \div Page \in Nat
               /\ (asked[p] \div Page) * Page = asked[p] - (asked[p] % Page)
               /\ asked[p] % Page \in Int
    <3>1. asked[p] \in Nat
      BY <2>1, <2>2
    <3>2. PICK n \in Nat : n = asked[p]
      BY <3>1
    <3>3. /\ n \div Page \in Int /\ n % Page \in 0 .. Page - 1
          /\ n = (n \div Page) * Page + (n % Page)
          /\ n >= 0 => n \div Page >= 0
      <4>1. n \in Int
        BY SMT
      <4> QED BY <2>1, <4>1, DividedIs, Zenon
    <3>4. PICK a \in Int, b \in Int : a = n \div Page /\ b = n % Page
      BY <3>3, SMT
    <3>5. a * Page \in Int /\ n = a * Page + b /\ a >= 0
      BY <2>1, <3>3, <3>4, SMT
    <3>6. a * Page = n - b /\ a \in Nat
      BY <3>4, <3>5, SMT
    <3> QED BY <3>2, <3>4, <3>6
  <2>3. TableEntry(p) = Absent <=> asked[p] = Absent
    BY <2>1, <2>2, SMT DEF Absent
  <2>4. ASSUME TableEntry(p) # Absent, asked[p] % Page = 0, NEW o \in Offsets
        PROVE  Translated(p * Page + o) = asked[p] + o
    <3>1. o \in 0 .. Page - 1
      BY <2>1, SMT DEF Offsets
    <3>2. (p * Page + o) \div Page = p /\ (p * Page + o) % Page = o
      <4>1. p \in Int
        BY <2>1, SMT
      <4> QED BY <2>1, <3>1, <4>1, QuotientIs, Zenon
    <3>3. Translated(p * Page + o) = (asked[p] \div Page) * Page + o
      BY <2>1, <2>3, <2>4, <3>2 DEF Translated
    <3>4. (asked[p] \div Page) * Page = asked[p]
      BY <2>1, <2>2, <2>3, <2>4, SMT
    <3> QED BY <3>3, <3>4
  <2> QED BY <2>3, <2>4
<1> QED BY <1>1, PagingInvariant, PTL

-----------------------------------------------------------------------------
\* The descriptors.

LEMMA DigitFacts ==
  /\ Digit \in Nat \ {0} /\ Pair \in Nat \ {0} /\ Pair = Digit * Digit
  /\ Pair * Digit \in Nat \ {0} /\ Unit \in Nat \ {0} /\ Address \subseteq Nat
<1>1. Digit \in Nat \ {0} /\ Unit \in Nat \ {0}
  BY SegmentsAssumption
<1>2. Pair \in Nat \ {0}
  BY <1>1, SMT DEF Pair
<1>3. Pair * Digit \in Nat \ {0}
  BY <1>1, <1>2, SMT
<1>4. Address \subseteq Nat
  BY <1>2, SMT DEF Address
<1> QED BY <1>1, <1>2, <1>3, <1>4 DEF Pair

LEMMA Distributed ==
  ASSUME NEW a \in Int, NEW b \in Int, NEW c \in Int, NEW d \in Int
  PROVE  (a * b + c) * d = a * (d * b) + c * d
<1> QED BY SMT

\* A number comes back from its digits: a limit's lower two and what is above
\* them, an address's lower three.
LEMMA DigitsComeBack ==
  ASSUME NEW n \in Nat
  PROVE  /\ (n \div Pair) * Pair + ((n \div Digit) % Digit) * Digit + (n % Digit) = n
         /\ (n \div (Pair * Digit)) * (Pair * Digit) + ((n \div Pair) % Digit) * Pair
              + ((n \div Digit) % Digit) * Digit + (n % Digit) = n
<1>1. Digit \in Nat \ {0} /\ Pair \in Nat \ {0} /\ Pair = Digit * Digit
  BY DigitFacts
<1>2. PICK q \in Nat, r \in Int : q = n \div Digit /\ r = n % Digit /\ n = q * Digit + r
  <2>1. n \div Digit \in Nat /\ n % Digit \in 0 .. Digit - 1
        /\ n = (n \div Digit) * Digit + (n % Digit)
    BY <1>1, NaturalDivided
  <2>2. n % Digit \in Int
    BY <2>1, <1>1, SMT
  <2> QED BY <2>1, <2>2
<1>3. PICK q2 \in Nat, r2 \in Int : /\ q2 = n \div Pair /\ r2 = (n \div Digit) % Digit
                                   /\ q = q2 * Digit + r2
  <2>1. q \div Digit \in Nat /\ q % Digit \in 0 .. Digit - 1 /\ q = (q \div Digit) * Digit + (q % Digit)
    BY <1>1, NaturalDivided
  <2>2. q % Digit \in Int
    BY <2>1, <1>1, SMT
  <2>3. n \div (Digit * Digit) = (n \div Digit) \div Digit
    BY <1>1, DividedTwice
  <2> QED BY <1>1, <1>2, <2>1, <2>2, <2>3
<1>4. PICK q3 \in Nat, r3 \in Int : /\ q3 = n \div (Pair * Digit) /\ r3 = (n \div Pair) % Digit
                                   /\ q2 = q3 * Digit + r3
  <2>1. /\ q2 \div Digit \in Nat /\ q2 % Digit \in 0 .. Digit - 1
        /\ q2 = (q2 \div Digit) * Digit + (q2 % Digit)
    BY <1>1, NaturalDivided
  <2>2. q2 % Digit \in Int
    BY <2>1, <1>1, SMT
  <2>3. n \div (Pair * Digit) = (n \div Pair) \div Digit
    BY <1>1, DividedTwice
  <2> QED BY <1>1, <1>3, <2>1, <2>2, <2>3
<1>5. q2 * Pair + r2 * Digit + r = n
  <2>1. q * Digit = q2 * Pair + r2 * Digit
    <3>1. (q2 * Digit + r2) * Digit = q2 * (Digit * Digit) + r2 * Digit
      BY <1>1, Distributed, SMT
    <3> QED BY <1>1, <1>3, <3>1
  <2>2. q2 * Pair \in Int /\ r2 * Digit \in Int /\ q * Digit \in Int
    BY <1>1, SMT
  <2> QED BY <1>2, <2>1, <2>2, SMT
<1>6. q3 * (Pair * Digit) + r3 * Pair + r2 * Digit + r = n
  <2>1. q2 * Pair = q3 * (Pair * Digit) + r3 * Pair
    <3>1. (q3 * Digit + r3) * Pair = q3 * (Pair * Digit) + r3 * Pair
      BY <1>1, Distributed, SMT
    <3> QED BY <1>4, <3>1
  <2>2. q3 * (Pair * Digit) \in Int /\ r3 * Pair \in Int /\ r2 * Digit \in Int
    BY <1>1, DigitFacts, SMT
  <2> QED BY <1>5, <2>1, <2>2, SMT
<1> QED BY <1>2, <1>3, <1>4, <1>5, <1>6

Entry == [base : Nat, limit : Nat, large : BOOLEAN, readwrite : BOOLEAN, conforming : BOOLEAN,
          executable : BOOLEAN, privilege : 0 .. 3, bits32 : BOOLEAN]

Deleted(r) == [r EXCEPT !.present = FALSE]

\* gdt_decode undoes gdt_encode, of a deleted descriptor too.
LEMMA DecodeEncode ==
  ASSUME NEW e \in Entry
  PROVE  Decode(Encode(e)) = e /\ Decode(Deleted(Encode(e))) = e
<1>1. /\ e.limit \in Nat /\ e.base \in Nat /\ e.privilege \in 0 .. 3
      /\ e = [base |-> e.base, limit |-> e.limit, large |-> e.large, readwrite |-> e.readwrite,
              conforming |-> e.conforming, executable |-> e.executable,
              privilege |-> e.privilege, bits32 |-> e.bits32]
  BY DEF Entry
<1>2. e.privilege % 4 = e.privilege
  BY <1>1, SMT
<1> DEFINE low == e.limit % Digit
           middle == (e.limit \div Digit) % Digit
           high == e.limit \div Pair
           b2 == e.base % Digit
           b3 == (e.base \div Digit) % Digit
           b4 == (e.base \div Pair) % Digit
           b7 == e.base \div (Pair * Digit)
           packed(p) ==
             [b0 |-> low, b1 |-> middle, b2 |-> b2, b3 |-> b3, b4 |-> b4, b7 |-> b7,
              high |-> high, bits32 |-> e.bits32, large |-> e.large, readwrite |-> e.readwrite,
              conforming |-> e.conforming, executable |-> e.executable,
              privilege |-> e.privilege % 4, present |-> p]
<1>3. high * Pair + middle * Digit + low = e.limit
  BY <1>1, DigitsComeBack, Zenon
<1>4. b7 * (Pair * Digit) + b4 * Pair + b3 * Digit + b2 = e.base
  BY <1>1, DigitsComeBack, Zenon
<1>5. Encode(e) = packed(TRUE) /\ Deleted(Encode(e)) = packed(FALSE)
  <2> HIDE DEF low, middle, high, b2, b3, b4, b7
  <2>0. PICK yes, no, zero : yes = TRUE /\ no = FALSE /\ zero = 0
    OBVIOUS
  <2>1. EncodeShort(e) =
          [b0 |-> low, b1 |-> middle, b2 |-> b2, b3 |-> b3, b4 |-> b4, b7 |-> b7,
           high |-> zero, bits32 |-> e.bits32, large |-> e.large, readwrite |-> e.readwrite,
           conforming |-> e.conforming, executable |-> e.executable,
           privilege |-> e.privilege % 4, present |-> yes]
    BY <2>0 DEF EncodeShort, low, middle, b2, b3, b4, b7
  <2>2. Encode(e) = [EncodeShort(e) EXCEPT !.high = high]
    BY DEF Encode, high
  <2>3. Encode(e) = packed(yes)
    BY <2>1, <2>2
  <2>4. [Encode(e) EXCEPT !.present = no] = packed(no)
    BY <2>3
  <2>5. Deleted(Encode(e)) = [Encode(e) EXCEPT !.present = FALSE]
    BY DEF Deleted
  <2> QED BY <2>0, <2>3, <2>4, <2>5
<1>6. ASSUME NEW p \in BOOLEAN PROVE Decode(packed(p)) = e
  <2> HIDE DEF low, middle, high, b2, b3, b4, b7
  <2>1. Decode(packed(p)) =
          [limit |-> high * Pair + middle * Digit + low,
           base |-> b7 * (Pair * Digit) + b4 * Pair + b3 * Digit + b2,
           large |-> e.large, readwrite |-> e.readwrite, conforming |-> e.conforming,
           executable |-> e.executable, privilege |-> e.privilege % 4, bits32 |-> e.bits32]
    BY DEF Decode
  <2>2. Decode(packed(p)) =
          [base |-> e.base, limit |-> e.limit, large |-> e.large, readwrite |-> e.readwrite,
              conforming |-> e.conforming, executable |-> e.executable,
              privilege |-> e.privilege, bits32 |-> e.bits32]
    BY <2>1, <1>2, <1>3, <1>4
  <2> QED BY <2>2, <1>1
<1> HIDE DEF packed
<1> QED BY <1>5, <1>6

\* What a descriptor was made for and what it says agree.
Agrees(m) ==
  /\ m.size \in Nat /\ m.entry \in Entry
  /\ m.entry.large = Large(m.size) /\ m.entry.limit = Limit(m.size)

Selectors == 0 .. Slots - 1

\* What gdt_encode makes of a descriptor, deleted or not.
Holds(r, m) == r = Encode(m.entry) \/ r = Deleted(Encode(m.entry))

\* Every slot holds what it was made of, deleted or not.
SegmentsInv ==
  /\ DOMAIN made = Selectors /\ DOMAIN gdt = Selectors
  /\ \A s \in Selectors : made[s] = Nothing \/ Agrees(made[s])
  /\ \A s \in Selectors : Holds(gdt[s], made[s])

\* The factories make descriptors that agree with their sizes, whoever asks.
LEMMA FactoriesAgree ==
  ASSUME NEW z \in Address, NEW b \in Address, NEW p \in Nat, NEW x \in BOOLEAN
  PROVE  /\ Agrees(Made(z, Descriptor(b, z, p, x)))
         /\ Agrees(Made(z, [Descriptor(b, z, p, x) EXCEPT !.bits32 = FALSE]))
<1>1. z \in Nat /\ b \in Nat
  BY DigitFacts
<1>2. p % 4 \in 0 .. 3
  BY SMT
<1>3. Limit(z) \in Nat
  <2>1. z \div Unit \in Nat
    BY <1>1, DigitFacts, NaturalDivided, Zenon
  <2> QED BY <1>1, <2>1 DEF Limit
<1>4. Large(z) \in BOOLEAN
  BY DEF Large
<1>0. PICK yes, no, lg, pr : yes = TRUE /\ no = FALSE /\ lg = Large(z) /\ pr = p % 4
  OBVIOUS
<1> DEFINE e(w) == [base |-> b, limit |-> Limit(z), large |-> lg, readwrite |-> yes,
                    conforming |-> no, executable |-> x, privilege |-> pr, bits32 |-> w]
<1>5. /\ Descriptor(b, z, p, x) = e(TRUE)
      /\ [Descriptor(b, z, p, x) EXCEPT !.bits32 = FALSE] = e(FALSE)
  <2>1. Descriptor(b, z, p, x) = e(TRUE)
    BY <1>0 DEF Descriptor
  <2>2. ASSUME NEW R, R = e(yes) PROVE [R EXCEPT !.bits32 = no] = e(no)
    BY <2>2
  <2>3. [e(yes) EXCEPT !.bits32 = no] = e(no)
    BY <2>2
  <2> QED BY <1>0, <2>1, <2>3
<1>6. ASSUME NEW w \in BOOLEAN PROVE Agrees(Made(z, e(w)))
  <2>1. e(w) \in Entry
    BY <1>0, <1>1, <1>2, <1>3, <1>4 DEF Entry
  <2>2. Made(z, e(w)).size = z /\ Made(z, e(w)).entry = e(w)
    BY DEF Made
  <2> QED BY <1>0, <1>1, <2>1, <2>2 DEF Agrees
<1> HIDE DEF e
<1> QED BY <1>5, <1>6

LEMMA SlotFacts ==
  /\ Slots - 1 \in Nat /\ 0 \in Selectors /\ 1 .. 4 \subseteq Selectors
  /\ \A s \in Selectors : s \in Int /\ 0 =< s
<1> QED BY SegmentsAssumption, SMT DEF Selectors

LEMMA SegmentsInitInv == SegmentsInit => SegmentsInv
<1> SUFFICES ASSUME SegmentsInit PROVE SegmentsInv
  OBVIOUS
<1> DEFINE whole == Pair * Pair - 1
           small == Pair - 1
           first == << Made(whole, Descriptor(0, whole, 0, TRUE)),
                       Made(whole, Descriptor(0, whole, 0, FALSE)),
                       Made(small, [Descriptor(0, small, 0, TRUE) EXCEPT !.bits32 = FALSE]),
                       Made(small, [Descriptor(0, small, 0, FALSE) EXCEPT !.bits32 = FALSE]) >>
<1>1. /\ made = [s \in Selectors |-> IF s \in 1 .. 4 THEN first[s] ELSE Nothing]
      /\ gdt = [s \in Selectors |-> IF s > 4 THEN Unset ELSE Encode(made[s].entry)]
  BY DEF SegmentsInit, Selectors
<1>2. whole \in Address /\ small \in Address /\ 0 \in Address
  <2>1. Pair \in Nat /\ Pair >= 1
    BY DigitFacts, SMT
  <2>2. 1 * Pair =< Pair * Pair
    BY <2>1, TimesOrdered
  <2>3. Pair * Pair \in Nat /\ Pair =< Pair * Pair
    BY <2>1, <2>2, SMT
  <2> QED BY <2>1, <2>3, SMT DEF Address
<1>3. Agrees(first[1]) /\ Agrees(first[2]) /\ Agrees(first[3]) /\ Agrees(first[4])
  <2> HIDE DEF whole, small
  <2>1. TRUE \in BOOLEAN /\ FALSE \in BOOLEAN /\ 0 \in Nat
    OBVIOUS
  <2>2. /\ first[1] = Made(whole, Descriptor(0, whole, 0, TRUE))
        /\ first[2] = Made(whole, Descriptor(0, whole, 0, FALSE))
        /\ first[3] = Made(small, [Descriptor(0, small, 0, TRUE) EXCEPT !.bits32 = FALSE])
        /\ first[4] = Made(small, [Descriptor(0, small, 0, FALSE) EXCEPT !.bits32 = FALSE])
    OBVIOUS
  <2> HIDE DEF first
  <2>3. Agrees(Made(whole, Descriptor(0, whole, 0, TRUE)))
    BY <1>2, <2>1, FactoriesAgree, Zenon
  <2>4. Agrees(Made(whole, Descriptor(0, whole, 0, FALSE)))
    BY <1>2, <2>1, FactoriesAgree, Zenon
  <2>5. Agrees(Made(small, [Descriptor(0, small, 0, TRUE) EXCEPT !.bits32 = FALSE]))
    BY <1>2, <2>1, FactoriesAgree, Zenon
  <2>6. Agrees(Made(small, [Descriptor(0, small, 0, FALSE) EXCEPT !.bits32 = FALSE]))
    BY <1>2, <2>1, FactoriesAgree, Zenon
  <2> QED BY <2>2, <2>3, <2>4, <2>5, <2>6
<1> HIDE DEF first
<1>4. ASSUME NEW s \in Selectors PROVE made[s] = Nothing \/ Agrees(made[s])
  <2>1. CASE s \in 1 .. 4
    <3>1. s = 1 \/ s = 2 \/ s = 3 \/ s = 4
      BY <2>1, SMT
    <3>2. made[s] = first[s]
      BY <1>1, <2>1
    <3> QED BY <1>3, <3>1, <3>2
  <2>2. CASE s \notin 1 .. 4
    BY <1>1, <2>2
  <2> QED BY <2>1, <2>2
<1>5. ASSUME NEW s \in Selectors PROVE Holds(gdt[s], made[s])
  <2>1. CASE s > 4
    <3>1. s \notin 1 .. 4
      BY <2>1, SMT
    <3>2. made[s] = Nothing /\ gdt[s] = Unset
      BY <1>1, <2>1, <3>1
    <3>3. Nothing.entry = NullEntry
      BY DEF Nothing
    <3> QED BY <3>2, <3>3 DEF Holds, Unset, Deleted
  <2>2. CASE ~(s > 4)
    BY <1>1, <2>2 DEF Holds
  <2> QED BY <2>1, <2>2
<1>6. DOMAIN made = Selectors /\ DOMAIN gdt = Selectors
  BY <1>1
<1> QED BY <1>4, <1>5, <1>6 DEF SegmentsInv

\* Something new in a slot.
LEMMA SlotMade ==
  ASSUME SegmentsInv, NEW s \in Selectors, NEW new, Agrees(new),
         gdt' = [gdt EXCEPT ![s] = Encode(new.entry)], made' = [made EXCEPT ![s] = new]
  PROVE  SegmentsInv'
<1>1. /\ DOMAIN made' = Selectors /\ DOMAIN gdt' = Selectors
      /\ made'[s] = new /\ gdt'[s] = Encode(new.entry)
      /\ \A t \in Selectors : t # s => made'[t] = made[t] /\ gdt'[t] = gdt[t]
  BY DEF SegmentsInv
<1>2. ASSUME NEW t \in Selectors
      PROVE  /\ made'[t] = Nothing \/ Agrees(made'[t])
             /\ Holds(gdt'[t], made'[t])
  <2>1. CASE t = s
    BY <1>1, <2>1 DEF Holds
  <2>2. CASE t # s
    BY <1>1, <2>2 DEF SegmentsInv
  <2> QED BY <2>1, <2>2
<1> QED BY <1>1, <1>2 DEF SegmentsInv

LEMMA SegmentsStepInv == SegmentsInv /\ [SegmentsNext]_segmentsVars => SegmentsInv'
<1> SUFFICES ASSUME SegmentsInv, [SegmentsNext]_segmentsVars PROVE SegmentsInv'
  OBVIOUS
<1>1. ASSUME NEW new \in New PROVE Agrees(new)
  <2>1. PICK b \in Bases, z \in Sizes, p \in Privileges, x \in BOOLEAN :
          new = Made(z, Descriptor(b, z, p, x))
    BY DEF New
  <2>2. b \in Address /\ z \in Address /\ p \in Nat
    BY SegmentsAssumption
  <2> QED BY <2>1, <2>2, FactoriesAgree
<1>2. ASSUME NEW new \in New, NEW s \in Selectors, SetEntry(s, new) PROVE SegmentsInv'
  BY <1>1, <1>2, SlotMade DEF SetEntry
<1>3. ASSUME NEW new \in New, AddEntry(new) PROVE SegmentsInv'
  <2>1. PICK s \in Free :
          /\ gdt' = [gdt EXCEPT ![s] = Encode(new.entry)]
          /\ made' = [made EXCEPT ![s] = new]
    BY <1>3 DEF AddEntry
  <2>2. s \in Selectors
    BY DEF Free, Selectors
  <2> QED BY <1>1, <2>1, <2>2, SlotMade
<1>4. CASE AddFull
  BY <1>4 DEF AddFull, SegmentsInv
<1>5. ASSUME NEW s \in Selectors, DelEntry(s) PROVE SegmentsInv'
  <2>1. gdt' = [gdt EXCEPT ![s] = Deleted(gdt[s])] /\ made' = made
    BY <1>5 DEF DelEntry, Deleted
  <2>2. /\ DOMAIN gdt' = Selectors /\ gdt'[s] = Deleted(gdt[s])
        /\ \A t \in Selectors : t # s => gdt'[t] = gdt[t]
    BY <2>1 DEF SegmentsInv
  <2>3. Holds(Deleted(gdt[s]), made[s])
    <3>1. \A r : Deleted(Deleted(r)) = Deleted(r)
      <4>1. PICK no : no = FALSE
        OBVIOUS
      <4>2. \A r : [[r EXCEPT !.present = no] EXCEPT !.present = no] = [r EXCEPT !.present = no]
        OBVIOUS
      <4> QED BY <4>1, <4>2 DEF Deleted
    <3> QED BY <3>1 DEF SegmentsInv, Holds
  <2> QED BY <2>1, <2>2, <2>3 DEF SegmentsInv
<1>6. CASE UNCHANGED segmentsVars
  BY <1>6 DEF segmentsVars, SegmentsInv
<1> QED BY <1>2, <1>3, <1>4, <1>5, <1>6 DEF SegmentsNext, SegmentsStep, Selectors

\* The limit of a descriptor reaches the bytes it was made for and no more than
\* a unit beyond.
LEMMA LimitReaches ==
  ASSUME NEW m, Agrees(m)
  PROVE  LET unit == IF m.entry.large THEN Unit ELSE 1
             bytes == (m.entry.limit + 1) * unit
         IN  bytes > m.size /\ bytes =< m.size + unit
<1>1. /\ m.size \in Nat /\ Unit \in Nat \ {0}
      /\ m.entry.large = Large(m.size) /\ m.entry.limit = Limit(m.size)
  BY DigitFacts DEF Agrees
<1>2. CASE Large(m.size)
  <2>1. PICK q \in Nat, r \in 0 .. Unit - 1 :
          q = m.size \div Unit /\ m.size = q * Unit + r
    BY <1>1, NaturalDivided
  <2>2. m.entry.large /\ m.entry.limit = q
    BY <1>1, <1>2, <2>1 DEF Limit
  <2>3. (q + 1) * Unit = q * Unit + Unit /\ q * Unit \in Nat
    BY <1>1, SMT
  <2>4. (q + 1) * Unit > m.size /\ (q + 1) * Unit =< m.size + Unit
    BY <1>1, <2>1, <2>3, SMT
  <2> QED BY <2>2, <2>4
<1>3. CASE ~Large(m.size)
  <2>1. ~m.entry.large /\ m.entry.limit = m.size
    BY <1>1, <1>3 DEF Limit
  <2>2. (m.size + 1) * 1 > m.size /\ (m.size + 1) * 1 =< m.size + 1
    BY <1>1, SMT
  <2> QED BY <2>1, <2>2
<1> QED BY <1>2, <1>3

\* Whatever is set, added and deleted, and whichever slots gdt_add_entry takes,
\* every slot of the table holds what it was made of (ksrc/gdt.c:48-166).
THEOREM SegmentsInvariant == SegmentsSpec => []SegmentsInv
<1> QED BY SegmentsInitInv, SegmentsStepInv, PTL DEF SegmentsSpec

\* For every size of the table, of the processor's digits and of large units:
\* descriptors mean in the table what they meant to their makers and reach what they
\* were made for (ksrc/gdt.c:9-166).
THEOREM DescriptorsRight == SegmentsSpec => []DescriptorsFit
<1>1. SegmentsInv => DescriptorsFit
  <2> SUFFICES ASSUME SegmentsInv PROVE DescriptorsFit
    OBVIOUS
  <2>1. ASSUME NEW s \in Selectors, made[s] # Nothing
        PROVE  Agrees(made[s]) /\ Decode(gdt[s]) = made[s].entry
    <3>1. Agrees(made[s]) /\ Holds(gdt[s], made[s])
      BY <2>1 DEF SegmentsInv
    <3> QED BY <3>1, DecodeEncode DEF Agrees, Holds
  <2>2. ComesBack
    BY <2>1 DEF ComesBack, Selectors
  <2>3. Reaches
    BY <2>1, LimitReaches DEF Reaches, Selectors
  <2> QED BY <2>2, <2>3 DEF DescriptorsFit
<1> QED BY <1>1, SegmentsInvariant, PTL

\* The factories never make a descriptor that gdt_encode refuses: whatever the
\* size, its limit fits (ksrc/gdt.c:9-46, 115-116).
THEOREM NeverRefused ==
  ASSUME NEW z \in Address, NEW b \in Address, NEW p \in Nat, NEW x \in BOOLEAN
  PROVE  ~EncodePanics(Descriptor(b, z, p, x))
<1>1. Descriptor(b, z, p, x).limit = Limit(z)
  BY DEF Descriptor
<1>2. /\ z \in Nat /\ Unit \in Nat \ {0} /\ Limits \in Nat /\ Pair \in Nat
      /\ Pair < Limits /\ Unit * Limits = Pair * Pair
  BY DigitFacts, SegmentsAssumption
<1>3. z < Unit * Limits
  <2>1. Pair * Pair \in Nat
    BY <1>2, SMT
  <2> QED BY <1>2, <2>1, SMT DEF Address
<1>4. Limit(z) < Limits
  <2>1. CASE Large(z)
    <3>1. PICK q \in Nat, r \in 0 .. Unit - 1 : q = z \div Unit /\ z = q * Unit + r
      BY <1>2, NaturalDivided, ZenonT(60)
    <3>2. ASSUME Limits =< q PROVE FALSE
      <4>1. Limits * Unit =< q * Unit
        BY <1>2, <3>2, TimesOrdered, SMT
      <4>2. Limits * Unit = Unit * Limits /\ q * Unit \in Nat /\ Unit * Limits \in Nat
        BY <1>2, SMT
      <4> QED BY <1>3, <3>1, <4>1, <4>2, SMT
    <3> QED BY <1>2, <2>1, <3>1, <3>2, SMT DEF Limit
  <2>2. CASE ~Large(z)
    <3>1. z =< Pair
      BY <1>2, <2>2, SMT DEF Large
    <3> QED BY <1>2, <2>2, <3>1, SMT DEF Limit
  <2> QED BY <2>1, <2>2
<1> QED BY <1>1, <1>2, <1>4, SMT DEF EncodePanics, Limit

-----------------------------------------------------------------------------
\* Interrupts.

LEMMA LineFacts ==
  /\ Lines \subseteq Master \cup Slave /\ Cascade \notin Lines /\ None \notin Lines
  /\ Master \subseteq Nat /\ Slave \subseteq Nat /\ Master \cap Slave = {}
  /\ Cascade \in Master /\ Timer \in Master /\ Timer # None /\ Cascade # None /\ Timer # Keyboard
  /\ None \notin Slave /\ Reads \in Nat /\ Timer \notin Slave /\ Keyboard # None
<1>1. Lines \subseteq (Master \cup Slave) \ {Cascade} /\ Reads \in Nat
  BY InterruptsAssumption
<1>2. /\ Master \subseteq Nat /\ Slave \subseteq Nat /\ Master \cap Slave = {}
      /\ Cascade \in Master /\ Timer \in Master /\ Timer # None /\ Cascade # None /\ Timer # Keyboard
      /\ None \notin Slave /\ None \notin Master /\ Timer \notin Slave /\ Keyboard # None
  BY SMT DEF Master, Slave, Cascade, Timer, None, Keyboard
<1> QED BY <1>1, <1>2

\* The line of highest priority of some is one of them.
LEMMA FirstIsOne ==
  ASSUME lowest \in Master, NEW S, S \subseteq Master, S # {}
  PROVE  First(S) \in S
<1> DEFINE f == [m \in S |-> Rank(m)]
<1>1. ASSUME NEW m \in S PROVE Rank(m) \in Nat
  <2>1. m \in Int /\ lowest \in Int
    BY LineFacts, SMT
  <2> QED BY <2>1, SMT DEF Rank
<1>2. f \in [S -> Nat]
  BY <1>1
<1>3. PICK m \in S : \A k \in S : f[m] =< f[k]
  BY <1>2, LeastExists
<1>4. \A k \in S : Rank(m) =< Rank(k)
  BY <1>3
<1> QED BY <1>4 DEF First

\* Ending an interrupt at the master takes out at most one of its lines and none
\* of the slave's; the only one in service goes.
LEMMA EndsOne ==
  ASSUME lowest \in Master, NEW s
  PROVE  /\ Ended(s) \subseteq s /\ s \cap Slave \subseteq Ended(s)
         /\ s \cap Master = {} => Ended(s) = s
         /\ \A m \in Master : s \cap Master = {m} => Ended(s) \cap Master = {}
         /\ Rotated(s) \in Master
<1>1. CASE s \cap Master = {}
  <2>1. \A m \in Master : s \cap Master # {m}
    BY <1>1
  <2> QED BY <1>1, <2>1 DEF Ended, Rotated
<1>2. CASE s \cap Master # {}
  <2> DEFINE T == s \cap Master
  <2>1. First(T) \in T
    <3>1. T \subseteq Master /\ T # {}
      BY <1>2
    <3> HIDE DEF T
    <3> QED BY <3>1, FirstIsOne
  <2>2. Ended(s) = s \ {First(T)} /\ Rotated(s) = First(T)
    BY <1>2 DEF Ended, Rotated
  <2>3. First(T) \notin Slave
    BY <2>1, LineFacts
  <2> HIDE DEF T
  <2>4. T = s \cap Master
    BY DEF T
  <2> QED BY <1>2, <2>1, <2>2, <2>3, <2>4
<1> QED BY <1>1, <1>2

\* A line of the slave the processor is told of is above all the slave has in service.
LEMMA OfferedAbove ==
  ASSUME InterruptsTypeOK, NEW l \in Slave, l = Offered
  PROVE  \A s \in service \cap Slave : l < s
<1>1. MasterAsks \subseteq Master /\ MasterOffers \subseteq MasterAsks
  BY LineFacts DEF MasterAsks, MasterOffers
<1>2. MasterOffers # {}
  BY LineFacts DEF Offered
<1>3. lowest \in Master
  BY DEF InterruptsTypeOK
<1>4. First(MasterOffers) \in MasterOffers
  BY <1>1, <1>2, <1>3, FirstIsOne
<1>5. First(MasterOffers) = Cascade
  <2>1. ASSUME First(MasterOffers) # Cascade PROVE l \in Master
    BY <1>1, <1>2, <1>4, <2>1 DEF Offered
  <2> QED BY <2>1, LineFacts
<1>6. SlaveOffers # {}
  <2>1. Cascade \in MasterAsks /\ Cascade \notin requests
    BY <1>1, <1>4, <1>5, LineFacts DEF InterruptsTypeOK
  <2> QED BY <2>1 DEF MasterAsks
<1>7. SlaveOffers \subseteq Nat
  BY LineFacts DEF SlaveOffers
<1>8. \E m \in SlaveOffers : \A k \in SlaveOffers : m =< k
  <2> DEFINE f == [m \in SlaveOffers |-> m]
  <2>1. f \in [SlaveOffers -> Nat]
    BY <1>7
  <2>2. PICK m \in SlaveOffers : \A k \in SlaveOffers : f[m] =< f[k]
    BY <1>6, <2>1, LeastExists
  <2> QED BY <2>2
<1>9. l = CHOOSE m \in SlaveOffers : \A k \in SlaveOffers : m =< k
  BY <1>2, <1>5 DEF Offered
<1>10. l \in SlaveOffers
  BY <1>8, <1>9
<1> QED BY <1>10 DEF SlaveOffers

\* Where the program has what, by what it does next.
Early == {"idt_init", "trap_init", "kb_init", "task_init"}
Late == {"hlt", "tasks", "panic", "halted"}
InReal == {"lidt real", "bios", "sti", "jmp 0x08"}
SmallData == {"mov cr0", "lidt real", "bios", "sti", "jmp 0x08", "mov ds, 0x10"}
Unsettled == {"bios", "sti", "jmp 0x08", "mov ds, 0x10", "map_irqs"}

Cpu == [pe : BOOLEAN, cs : {"kernel", "code16", "real"}, ds : {"kernel", "64K"},
        idt : {"none", "kernel", "real"}, ints : BOOLEAN]

CpuInv ==
  /\ cpu.pe <=> boot_pc \notin {"lidt real", "bios"}
  /\ cpu.cs = "real" <=> boot_pc \in InReal
  /\ cpu.ds = "64K" <=> boot_pc \in SmallData
  /\ cpu.idt = "kernel" <=> boot_pc \notin {"idt_init", "bios"}
  /\ cpu.idt = "real" <=> boot_pc = "bios"
  /\ cpu.ints => handling = None /\ boot_pc \notin {"idt_init", "sti", "halted"}

\* A handler runs only where one can: elsewhere the machine is dead.
KernelInv ==
  /\ dpl3 <=> boot_pc \notin Early
  /\ installed <=> boot_pc \in Late
  /\ boot_pc \notin {"idt_init", "trap_init", "kb_init"} => Vector(Keyboard) \in handlers
  /\ handling # None => boot_pc \notin Early \cup InReal \cup SmallData \cup {"halted"} /\ ~dead
  /\ dead => boot_pc \in Windows

\* But for what the BIOS leaves until the controllers are initialised again, the
\* master has in service what is handled and nothing else.
Serving(l) == IF l = None THEN {} ELSE IF l \in Slave THEN {Cascade} ELSE {l}
ServiceInv == boot_pc \notin Unsettled /\ ~dead => service \cap Master = Serving(handling)

InterruptsIInv == InterruptsTypeOK /\ CpuInv /\ KernelInv /\ ServiceInv

LEMMA CpuIs ==
  ASSUME NEW p \in BOOLEAN, NEW c \in {"kernel", "code16", "real"}, NEW d \in {"kernel", "64K"},
         NEW t \in {"none", "kernel", "real"}, NEW i \in BOOLEAN,
         NEW C, C \in Cpu
  PROVE  /\ [C EXCEPT !.ints = i] \in Cpu
         /\ [C EXCEPT !.ints = i] =
              [pe |-> C.pe, cs |-> C.cs, ds |-> C.ds, idt |-> C.idt, ints |-> i]
         /\ [C EXCEPT !.cs = c] =
              [pe |-> C.pe, cs |-> c, ds |-> C.ds, idt |-> C.idt, ints |-> C.ints]
         /\ [C EXCEPT !.ds = d] =
              [pe |-> C.pe, cs |-> C.cs, ds |-> d, idt |-> C.idt, ints |-> C.ints]
         /\ [C EXCEPT !.idt = t, !.ints = i] =
              [pe |-> C.pe, cs |-> C.cs, ds |-> C.ds, idt |-> t, ints |-> i]
         /\ [C EXCEPT !.pe = p, !.cs = c] =
              [pe |-> p, cs |-> c, ds |-> C.ds, idt |-> C.idt, ints |-> C.ints]
         /\ [C EXCEPT !.pe = p, !.idt = t, !.ints = i] =
              [pe |-> p, cs |-> C.cs, ds |-> C.ds, idt |-> t, ints |-> i]
<1>1. C = [pe |-> C.pe, cs |-> C.cs, ds |-> C.ds, idt |-> C.idt, ints |-> C.ints]
  BY DEF Cpu
<1>2. /\ C.pe \in BOOLEAN /\ C.cs \in {"kernel", "code16", "real"} /\ C.ds \in {"kernel", "64K"}
      /\ C.idt \in {"none", "kernel", "real"} /\ C.ints \in BOOLEAN
  BY DEF Cpu
<1>3. [C EXCEPT !.ints = i] =
              [pe |-> C.pe, cs |-> C.cs, ds |-> C.ds, idt |-> C.idt, ints |-> i]
  BY <1>1
<1>4. [C EXCEPT !.cs = c] =
              [pe |-> C.pe, cs |-> c, ds |-> C.ds, idt |-> C.idt, ints |-> C.ints]
  BY <1>1
<1>5. [C EXCEPT !.ds = d] =
              [pe |-> C.pe, cs |-> C.cs, ds |-> d, idt |-> C.idt, ints |-> C.ints]
  BY <1>1
<1>6. [C EXCEPT !.idt = t, !.ints = i] =
              [pe |-> C.pe, cs |-> C.cs, ds |-> C.ds, idt |-> t, ints |-> i]
  <2>1. PICK D : D = [C EXCEPT !.idt = t]
    OBVIOUS
  <2>2. D = [pe |-> C.pe, cs |-> C.cs, ds |-> C.ds, idt |-> t, ints |-> C.ints]
    BY <1>1, <2>1
  <2>3. [D EXCEPT !.ints = i] = [pe |-> C.pe, cs |-> C.cs, ds |-> C.ds, idt |-> t, ints |-> i]
    BY <2>2
  <2> QED BY <2>1, <2>3, Zenon
<1>7. [C EXCEPT !.pe = p, !.cs = c] =
              [pe |-> p, cs |-> c, ds |-> C.ds, idt |-> C.idt, ints |-> C.ints]
  <2>1. PICK D : D = [C EXCEPT !.pe = p]
    OBVIOUS
  <2>2. D = [pe |-> p, cs |-> C.cs, ds |-> C.ds, idt |-> C.idt, ints |-> C.ints]
    BY <1>1, <2>1
  <2>3. [D EXCEPT !.cs = c] = [pe |-> p, cs |-> c, ds |-> C.ds, idt |-> C.idt, ints |-> C.ints]
    BY <2>2
  <2> QED BY <2>1, <2>3, Zenon
<1>8. [C EXCEPT !.pe = p, !.idt = t, !.ints = i] =
              [pe |-> p, cs |-> C.cs, ds |-> C.ds, idt |-> t, ints |-> i]
  <2>1. PICK D : D = [C EXCEPT !.pe = p]
    OBVIOUS
  <2>2. D = [pe |-> p, cs |-> C.cs, ds |-> C.ds, idt |-> C.idt, ints |-> C.ints]
    BY <1>1, <2>1
  <2>3. PICK E : E = [D EXCEPT !.idt = t]
    OBVIOUS
  <2>4. E = [pe |-> p, cs |-> C.cs, ds |-> C.ds, idt |-> t, ints |-> C.ints]
    BY <2>2, <2>3
  <2>5. [E EXCEPT !.ints = i] = [pe |-> p, cs |-> C.cs, ds |-> C.ds, idt |-> t, ints |-> i]
    BY <2>4
  <2> QED BY <2>1, <2>3, <2>5, Zenon
<1>9. [C EXCEPT !.ints = i] \in Cpu
  BY <1>2, <1>3 DEF Cpu
<1> QED BY <1>3, <1>4, <1>5, <1>6, <1>7, <1>8, <1>9

LEMMA CpuInts ==
  ASSUME NEW i \in BOOLEAN, NEW C \in Cpu
  PROVE  [C EXCEPT !.ints = i] =
           [pe |-> C.pe, cs |-> C.cs, ds |-> C.ds, idt |-> C.idt, ints |-> i]
<1>1. C = [pe |-> C.pe, cs |-> C.cs, ds |-> C.ds, idt |-> C.idt, ints |-> C.ints]
  BY DEF Cpu
<1> QED BY <1>1

LEMMA InterruptsInitIInv == InterruptsInit => InterruptsIInv
<1> SUFFICES ASSUME InterruptsInit PROVE InterruptsIInv
  OBVIOUS
<1>1. InterruptsTypeOK
  <2>1. Reads \in 0 .. Reads /\ 7 \in Master
    BY LineFacts, SMT DEF Master
  <2>2. cpu \in Cpu
    BY DEF InterruptsInit, Cpu
  <2> QED BY <2>1, <2>2 DEF InterruptsInit, InterruptsTypeOK, Cpu
<1>2. CpuInv /\ KernelInv
  BY DEF InterruptsInit, CpuInv, KernelInv, Early, Late, InReal, SmallData, Windows
<1>3. ServiceInv
  BY DEF InterruptsInit, ServiceInv, Serving
<1> QED BY <1>1, <1>2, <1>3 DEF InterruptsIInv

\* The program goes on from one place to the next, with the processor as it should
\* be there.
LEMMA StepKeeps ==
  ASSUME InterruptsIInv, handling = None, handling' = None, ~dead, ~dead',
         InterruptsTypeOK', CpuInv',
         \/ service' = service /\ (boot_pc' \notin Unsettled => boot_pc \notin Unsettled)
         \/ service' = {},
         dpl3' <=> boot_pc' \notin Early,
         installed' <=> boot_pc' \in Late,
         boot_pc' \notin {"idt_init", "trap_init", "kb_init"} => Vector(Keyboard) \in handlers'
  PROVE  InterruptsIInv'
<1>1. KernelInv'
  BY DEF KernelInv
<1>2. ServiceInv'
  BY DEF InterruptsIInv, ServiceInv, Serving
<1> QED BY <1>1, <1>2 DEF InterruptsIInv

LEMMA BootKeeps ==
  ASSUME InterruptsIInv, Boot
  PROVE  InterruptsIInv'
<1> USE DEF InterruptsIInv
<1>0. cpu \in Cpu
  BY DEF InterruptsTypeOK, Cpu
<1>1. CASE IdtInit
  <2>1. /\ boot_pc = "idt_init" /\ boot_pc' = "trap_init" /\ UNCHANGED <<handling, dead>>
        /\ handling = None /\ ~dead
        /\ service' = {} /\ requests' = {} /\ lowest' = 7
        /\ UNCHANGED <<dpl3, installed, handlers, reads, unread>>
        /\ cpu' = [pe |-> cpu.pe, cs |-> cpu.cs, ds |-> cpu.ds, idt |-> "kernel", ints |-> TRUE]
    BY <1>0, <1>1, CpuIs DEF IdtInit, Initialised, Step, kernel
  <2>2. InterruptsTypeOK'
    <3>1. cpu' \in Cpu
      BY <1>0, <2>1 DEF Cpu
    <3>2. 7 \in Master
      BY SMT DEF Master
    <3> QED BY <2>1, <3>1, <3>2 DEF InterruptsTypeOK, Cpu
  <2>3. CpuInv'
    BY <2>1 DEF CpuInv, InReal, SmallData
  <2> QED BY <2>1, <2>2, <2>3, StepKeeps DEF KernelInv, Early, Late
<1>2. CASE TrapInit
  <2>1. /\ boot_pc = "trap_init" /\ boot_pc' = "kb_init" /\ UNCHANGED <<handling, dead>>
        /\ handling = None /\ ~dead
        /\ UNCHANGED <<service, requests, lowest, dpl3, installed, reads, unread, cpu>>
        /\ handlers' = handlers \cup 0 .. 30
    BY <1>2 DEF TrapInit, Step, Subscribe, controllers
  <2>2. InterruptsTypeOK'
    <3>1. handlers' \subseteq 0 .. 47
      <4>1. 0 .. 30 \subseteq 0 .. 47
        BY SMT
      <4> QED BY <2>1, <4>1 DEF InterruptsTypeOK
    <3> QED BY <2>1, <3>1 DEF InterruptsTypeOK
  <2>3. CpuInv'
    BY <2>1 DEF CpuInv, InReal, SmallData
  <2> QED BY <2>1, <2>2, <2>3, StepKeeps DEF KernelInv, Early, Late, Unsettled
<1>3. CASE KbInit
  <2>1. /\ boot_pc = "kb_init" /\ boot_pc' = "task_init" /\ UNCHANGED <<handling, dead>>
        /\ handling = None /\ ~dead
        /\ UNCHANGED <<service, requests, lowest, dpl3, installed, reads, unread, cpu>>
        /\ handlers' = handlers \cup {Vector(Keyboard)}
    BY <1>3 DEF KbInit, Step, Subscribe, controllers
  <2>2. InterruptsTypeOK'
    <3>1. handlers' \subseteq 0 .. 47
      <4>1. Vector(Keyboard) \in 0 .. 47
        BY SMT DEF Vector, Keyboard
      <4> QED BY <2>1, <4>1 DEF InterruptsTypeOK
    <3> QED BY <2>1, <3>1 DEF InterruptsTypeOK
  <2>3. CpuInv'
    BY <2>1 DEF CpuInv, InReal, SmallData
  <2> QED BY <2>1, <2>2, <2>3, StepKeeps DEF KernelInv, Early, Late, Unsettled
<1>4. CASE TaskInit
  <2>1. /\ boot_pc = "task_init" /\ boot_pc' = "read" /\ UNCHANGED <<handling, dead>>
        /\ handling = None /\ ~dead
        /\ UNCHANGED <<service, requests, lowest, installed, handlers, reads, unread, cpu>>
        /\ dpl3'
    BY <1>4 DEF TaskInit, Step, controllers
  <2>2. InterruptsTypeOK'
    BY <2>1 DEF InterruptsTypeOK
  <2>3. CpuInv'
    BY <2>1 DEF CpuInv, InReal, SmallData
  <2> QED BY <2>1, <2>2, <2>3, StepKeeps DEF KernelInv, Early, Late, Unsettled
<1>5. CASE Read
  <2>1. /\ boot_pc = "read" /\ boot_pc' = "jmp 0x18" /\ UNCHANGED <<handling, dead>>
        /\ handling = None /\ ~dead
        /\ UNCHANGED <<service, requests, lowest, dpl3, installed, handlers, unread, cpu>>
        /\ reads > 0 /\ reads' = reads - 1
    BY <1>5 DEF Read, Step, controllers
  <2>2. InterruptsTypeOK'
    <3>1. reads' \in 0 .. Reads
      <4>1. reads \in 0 .. Reads /\ Reads \in Nat
        BY LineFacts DEF InterruptsTypeOK
      <4>2. reads > 0 /\ reads' = reads - 1
        BY <2>1
      <4> QED BY <4>1, <4>2, SMT
    <3> QED BY <2>1, <3>1 DEF InterruptsTypeOK
  <2>3. CpuInv'
    BY <2>1 DEF CpuInv, InReal, SmallData
  <2> QED BY <2>1, <2>2, <2>3, StepKeeps DEF KernelInv, Early, Late, Unsettled
<1>6. CASE JumpTo16
  <2>1. /\ boot_pc = "jmp 0x18" /\ boot_pc' = "mov ds, 0x20" /\ UNCHANGED <<handling, dead>>
        /\ handling = None /\ ~dead
        /\ UNCHANGED <<service, requests, lowest, dpl3, installed, handlers, reads, unread>>
        /\ cpu' = [pe |-> cpu.pe, cs |-> "code16", ds |-> cpu.ds, idt |-> cpu.idt, ints |-> cpu.ints]
    BY <1>0, <1>6, CpuIs DEF JumpTo16, Step, Loads, kernel, controllers
  <2>2. InterruptsTypeOK'
    <3>1. cpu' \in Cpu
      BY <1>0, <2>1 DEF Cpu
    <3> QED BY <2>1, <3>1 DEF InterruptsTypeOK, Cpu
  <2>3. CpuInv'
    BY <2>1 DEF CpuInv, InReal, SmallData
  <2> QED BY <2>1, <2>2, <2>3, StepKeeps DEF KernelInv, Early, Late, Unsettled
<1>7. CASE LoadSmall
  <2>1. /\ boot_pc = "mov ds, 0x20" /\ boot_pc' = "mov cr0" /\ UNCHANGED <<handling, dead>>
        /\ handling = None /\ ~dead
        /\ UNCHANGED <<service, requests, lowest, dpl3, installed, handlers, reads, unread>>
        /\ cpu' = [pe |-> cpu.pe, cs |-> cpu.cs, ds |-> "64K", idt |-> cpu.idt, ints |-> cpu.ints]
    BY <1>0, <1>7, CpuIs DEF LoadSmall, Step, Loads, kernel, controllers
  <2>2. InterruptsTypeOK'
    <3>1. cpu' \in Cpu
      BY <1>0, <2>1 DEF Cpu
    <3> QED BY <2>1, <3>1 DEF InterruptsTypeOK, Cpu
  <2>3. CpuInv'
    BY <2>1 DEF CpuInv, InReal, SmallData
  <2> QED BY <2>1, <2>2, <2>3, StepKeeps DEF KernelInv, Early, Late, Unsettled
<1>8. CASE LeaveProtected
  <2>1. /\ boot_pc = "mov cr0" /\ boot_pc' = "lidt real" /\ UNCHANGED <<handling, dead>>
        /\ handling = None /\ ~dead
        /\ UNCHANGED <<service, requests, lowest, dpl3, installed, handlers, reads, unread>>
        /\ cpu' = [pe |-> FALSE, cs |-> "real", ds |-> cpu.ds, idt |-> cpu.idt, ints |-> cpu.ints]
    BY <1>0, <1>8, CpuIs DEF LeaveProtected, Step, Loads, kernel, controllers
  <2>2. InterruptsTypeOK'
    <3>1. cpu' \in Cpu
      BY <1>0, <2>1 DEF Cpu
    <3> QED BY <2>1, <3>1 DEF InterruptsTypeOK, Cpu
  <2>3. CpuInv'
    BY <2>1 DEF CpuInv, InReal, SmallData
  <2> QED BY <2>1, <2>2, <2>3, StepKeeps DEF KernelInv, Early, Late, Unsettled
<1>9. CASE LoadRealTable
  <2>1. /\ boot_pc = "lidt real" /\ boot_pc' = "bios" /\ UNCHANGED <<handling, dead>>
        /\ handling = None /\ ~dead
        /\ UNCHANGED <<service, requests, lowest, dpl3, installed, handlers, reads, unread>>
        /\ cpu' = [pe |-> cpu.pe, cs |-> cpu.cs, ds |-> cpu.ds, idt |-> "real", ints |-> TRUE]
    BY <1>0, <1>9, CpuIs DEF LoadRealTable, Step, Loads, kernel, controllers
  <2>2. InterruptsTypeOK'
    <3>1. cpu' \in Cpu
      BY <1>0, <2>1 DEF Cpu
    <3> QED BY <2>1, <3>1 DEF InterruptsTypeOK, Cpu
  <2>3. CpuInv'
    BY <2>1 DEF CpuInv, InReal, SmallData
  <2> QED BY <2>1, <2>2, <2>3, StepKeeps DEF KernelInv, Early, Late, Unsettled
<1>10. CASE CliAndBack
  <2>1. /\ boot_pc = "bios" /\ boot_pc' = "sti" /\ UNCHANGED <<handling, dead>>
        /\ handling = None /\ ~dead
        /\ UNCHANGED <<service, requests, lowest, dpl3, installed, handlers, reads, unread>>
        /\ cpu' = [pe |-> TRUE, cs |-> cpu.cs, ds |-> cpu.ds, idt |-> "kernel", ints |-> FALSE]
    BY <1>0, <1>10, CpuIs, ZenonT(60) DEF CliAndBack, Step, Loads, kernel, controllers
  <2>2. InterruptsTypeOK'
    <3>1. cpu' \in Cpu
      BY <1>0, <2>1 DEF Cpu
    <3> QED BY <2>1, <3>1 DEF InterruptsTypeOK, Cpu
  <2>3. CpuInv'
    BY <2>1 DEF CpuInv, InReal, SmallData
  <2> QED BY <2>1, <2>2, <2>3, StepKeeps DEF KernelInv, Early, Late, Unsettled
<1>11. CASE StiAndLgdt
  <2>1. /\ boot_pc = "sti" /\ boot_pc' = "jmp 0x08" /\ UNCHANGED <<handling, dead>>
        /\ handling = None /\ ~dead
        /\ UNCHANGED <<service, requests, lowest, dpl3, installed, handlers, reads, unread>>
        /\ cpu' = [pe |-> cpu.pe, cs |-> cpu.cs, ds |-> cpu.ds, idt |-> cpu.idt, ints |-> TRUE]
    BY <1>0, <1>11, CpuIs DEF StiAndLgdt, Step, Loads, kernel, controllers
  <2>2. InterruptsTypeOK'
    <3>1. cpu' \in Cpu
      BY <1>0, <2>1 DEF Cpu
    <3> QED BY <2>1, <3>1 DEF InterruptsTypeOK, Cpu
  <2>3. CpuInv'
    BY <2>1 DEF CpuInv, InReal, SmallData
  <2> QED BY <2>1, <2>2, <2>3, StepKeeps DEF KernelInv, Early, Late, Unsettled
<1>12. CASE JumpTo32
  <2>1. /\ boot_pc = "jmp 0x08" /\ boot_pc' = "mov ds, 0x10" /\ UNCHANGED <<handling, dead>>
        /\ handling = None /\ ~dead
        /\ UNCHANGED <<service, requests, lowest, dpl3, installed, handlers, reads, unread>>
        /\ cpu' = [pe |-> cpu.pe, cs |-> "kernel", ds |-> cpu.ds, idt |-> cpu.idt, ints |-> cpu.ints]
    BY <1>0, <1>12, CpuIs DEF JumpTo32, Step, Loads, kernel, controllers
  <2>2. InterruptsTypeOK'
    <3>1. cpu' \in Cpu
      BY <1>0, <2>1 DEF Cpu
    <3> QED BY <2>1, <3>1 DEF InterruptsTypeOK, Cpu
  <2>3. CpuInv'
    BY <2>1 DEF CpuInv, InReal, SmallData
  <2> QED BY <2>1, <2>2, <2>3, StepKeeps DEF KernelInv, Early, Late, Unsettled
<1>13. CASE LoadKernel
  <2>1. /\ boot_pc = "mov ds, 0x10" /\ boot_pc' = "map_irqs" /\ UNCHANGED <<handling, dead>>
        /\ handling = None /\ ~dead
        /\ UNCHANGED <<service, requests, lowest, dpl3, installed, handlers, reads, unread>>
        /\ cpu' = [pe |-> cpu.pe, cs |-> cpu.cs, ds |-> "kernel", idt |-> cpu.idt, ints |-> cpu.ints]
    BY <1>0, <1>13, CpuIs DEF LoadKernel, Step, Loads, kernel, controllers
  <2>2. InterruptsTypeOK'
    <3>1. cpu' \in Cpu
      BY <1>0, <2>1 DEF Cpu
    <3> QED BY <2>1, <3>1 DEF InterruptsTypeOK, Cpu
  <2>3. CpuInv'
    BY <2>1 DEF CpuInv, InReal, SmallData
  <2> QED BY <2>1, <2>2, <2>3, StepKeeps DEF KernelInv, Early, Late, Unsettled
<1>14. CASE MapIrqs
  <2>1. /\ boot_pc = "map_irqs" /\ boot_pc' = "read" /\ UNCHANGED <<handling, dead>>
        /\ handling = None /\ ~dead
        /\ UNCHANGED <<dpl3, installed, handlers, reads, unread, cpu>>
        /\ service' = {} /\ requests' = {} /\ lowest' = 7
    BY <1>14 DEF MapIrqs, Step, Initialised, kernel
  <2>2. InterruptsTypeOK'
    <3>1. 7 \in Master
      BY SMT DEF Master
    <3> QED BY <2>1, <3>1 DEF InterruptsTypeOK
  <2>3. CpuInv'
    BY <2>1 DEF CpuInv, InReal, SmallData
  <2> QED BY <2>1, <2>2, <2>3, StepKeeps DEF KernelInv, Early, Late
<1>15. CASE Install
  <2>1. /\ boot_pc = "read" /\ boot_pc' = "hlt" /\ UNCHANGED <<handling, dead>>
        /\ handling = None /\ ~dead
        /\ UNCHANGED <<service, requests, lowest, dpl3, handlers, reads, unread, cpu>>
        /\ installed'
    BY <1>15 DEF Install, Step, controllers
  <2>2. InterruptsTypeOK'
    BY <2>1 DEF InterruptsTypeOK
  <2>3. CpuInv'
    BY <2>1 DEF CpuInv, InReal, SmallData
  <2> QED BY <2>1, <2>2, <2>3, StepKeeps DEF KernelInv, Early, Late, Unsettled
<1> QED BY <1>1, <1>2, <1>3, <1>4, <1>5, <1>6, <1>7, <1>8, <1>9, <1>10, <1>11, <1>12, <1>13,
           <1>14, <1>15 DEF Boot

\* Tasks enter and leave system calls, and a panic stops.
LEMMA ProgramKeeps ==
  ASSUME InterruptsIInv, EnterCall \/ LeaveCall \/ PanicPrints
  PROVE  InterruptsIInv'
<1> USE DEF InterruptsIInv
<1>0. cpu \in Cpu
  BY DEF InterruptsTypeOK, Cpu
<1>1. PICK i \in BOOLEAN, to \in {"tasks", "halted"} :
        /\ boot_pc' = to /\ UNCHANGED <<handling, dead>> /\ handling = None /\ ~dead
        /\ \/ boot_pc = "tasks" /\ to = "tasks"
           \/ boot_pc = "panic" /\ to = "halted" /\ ~i
        /\ UNCHANGED <<service, requests, lowest, dpl3, installed, handlers, reads, unread>>
        /\ cpu' = [cpu EXCEPT !.ints = i]
  BY DEF EnterCall, LeaveCall, PanicPrints, Step, Loads, kernel, controllers
<1>2. cpu' = [pe |-> cpu.pe, cs |-> cpu.cs, ds |-> cpu.ds, idt |-> cpu.idt, ints |-> i]
  <2>1. [cpu EXCEPT !.ints = i] =
          [pe |-> cpu.pe, cs |-> cpu.cs, ds |-> cpu.ds, idt |-> cpu.idt, ints |-> i]
    BY <1>0, CpuInts
  <2> QED BY <1>1, <2>1
<1>3. InterruptsTypeOK'
  <2>1. cpu' \in Cpu
    BY <1>0, <1>2 DEF Cpu
  <2> QED BY <1>1, <2>1 DEF InterruptsTypeOK, Cpu
<1>4. CpuInv'
  BY <1>1, <1>2 DEF CpuInv, InReal, SmallData
<1> QED BY <1>1, <1>3, <1>4, StepKeeps DEF KernelInv, Early, Late, Unsettled

LEMMA RaiseKeeps ==
  ASSUME InterruptsIInv, NEW l \in Lines, Raise(l)
  PROVE  InterruptsIInv'
<1> USE DEF InterruptsIInv
<1>1. /\ UNCHANGED <<boot_pc, cpu, dpl3, installed, handlers, reads>>
      /\ UNCHANGED <<service, lowest, handling, dead>>
      /\ requests' = requests \cup {l} /\ unread' \in BOOLEAN
  BY DEF Raise, kernel, InterruptsTypeOK
<1>2. InterruptsTypeOK'
  <2>1. requests' \subseteq Lines
    BY <1>1 DEF InterruptsTypeOK
  <2>2. cpu' \in Cpu
    BY <1>1 DEF InterruptsTypeOK, Cpu
  <2> QED BY <1>1, <2>1, <2>2 DEF InterruptsTypeOK, Cpu
<1> QED BY <1>1, <1>2 DEF CpuInv, KernelInv, ServiceInv

\* A line taken into service: of the master's it is the only one if there was none.
LEMMA TakenService ==
  ASSUME NEW l \in Lines, InterruptsTypeOK
  PROVE  /\ InService(l) \subseteq Lines \cup {Cascade}
         /\ service \cap Master = {} => InService(l) \cap Master = Serving(l)
<1>1. CASE l \in Slave
  BY <1>1, LineFacts, ZenonT(60) DEF InService, Serving, InterruptsTypeOK
<1>2. CASE l \notin Slave
  BY <1>2, LineFacts DEF InService, Serving, InterruptsTypeOK
<1> QED BY <1>1, <1>2

LEMMA TakeKeeps ==
  ASSUME InterruptsIInv, NEW l \in Lines, Take(l) \/ TakeWrongly(l) \/ TakeInBios(l)
  PROVE  InterruptsIInv'
<1> USE DEF InterruptsIInv
<1>1. /\ ~dead /\ handling = None /\ cpu.ints
      /\ requests' \subseteq requests /\ service' \subseteq InService(l)
      /\ UNCHANGED <<boot_pc, dpl3, installed, handlers, reads, lowest>>
      /\ boot_pc \notin {"idt_init", "sti", "halted"}
  BY DEF Take, TakeWrongly, TakeInBios, Taking, kernel, CpuInv
<1>2. l # None /\ cpu \in Cpu
  BY LineFacts DEF InterruptsTypeOK, Cpu
<1>3. service' \subseteq Lines \cup {Cascade} /\ requests' \subseteq Lines
  BY <1>1, TakenService DEF InterruptsTypeOK
<1>4. CASE Take(l)
  <2>1. /\ cpu.idt = "kernel" /\ EntryRuns /\ handling' = l
        /\ service' = InService(l) /\ UNCHANGED <<unread, dead>>
    BY <1>4 DEF Take, Taking
  <2>2. cpu' = [pe |-> cpu.pe, cs |-> cpu.cs, ds |-> cpu.ds, idt |-> cpu.idt, ints |-> FALSE]
    <3>1. [cpu EXCEPT !.ints = FALSE] =
            [pe |-> cpu.pe, cs |-> cpu.cs, ds |-> cpu.ds, idt |-> cpu.idt, ints |-> FALSE]
      BY <1>2, CpuInts
    <3> QED BY <1>4, <3>1 DEF Take
  <2>3. InterruptsTypeOK'
    <3>1. cpu' \in Cpu
      BY <1>2, <2>2 DEF Cpu
    <3> QED BY <1>1, <1>3, <2>1, <3>1 DEF InterruptsTypeOK, Cpu
  <2>4. CpuInv'
    BY <1>1, <2>2 DEF CpuInv
  <2>5. KernelInv'
    BY <1>1, <2>1 DEF KernelInv, CpuInv, EntryRuns, InReal, SmallData
  <2>6. ServiceInv'
    <3>1. ASSUME boot_pc \notin Unsettled PROVE service' \cap Master = Serving(l)
      BY <1>1, <2>1, <3>1, TakenService DEF ServiceInv, Serving
    <3> QED BY <1>1, <2>1, <3>1 DEF ServiceInv
  <2> QED BY <2>3, <2>4, <2>5, <2>6
<1>5. CASE TakeWrongly(l)
  <2>1. /\ cpu.idt = "kernel" /\ ~EntryRuns /\ dead'
        /\ UNCHANGED <<cpu, unread, handling>>
    BY <1>5 DEF TakeWrongly
  <2>2. boot_pc \in Windows
    BY <1>1, <2>1 DEF EntryRuns, CpuInv, KernelInv, Windows, Early, InReal, SmallData
  <2>3. InterruptsTypeOK'
    BY <1>1, <1>3, <2>1 DEF InterruptsTypeOK
  <2> QED BY <1>1, <2>1, <2>2, <2>3 DEF CpuInv, KernelInv, ServiceInv
<1>6. CASE TakeInBios(l)
  <2>1. cpu.idt = "real" /\ UNCHANGED <<cpu, handling, dead>> /\ unread' \in BOOLEAN
    BY <1>6 DEF TakeInBios, InterruptsTypeOK
  <2>2. boot_pc = "bios"
    BY <2>1 DEF CpuInv
  <2>3. InterruptsTypeOK'
    BY <1>1, <1>3, <2>1 DEF InterruptsTypeOK
  <2> QED BY <1>1, <2>1, <2>2, <2>3 DEF CpuInv, KernelInv, ServiceInv, Unsettled
<1> QED BY <1>4, <1>5, <1>6

LEMMA HandleKeeps ==
  ASSUME InterruptsIInv, Handle
  PROVE  InterruptsIInv'
<1> USE DEF InterruptsIInv
<1>1. /\ handling # None /\ handling' = None /\ handling \in Lines
      /\ cpu' = [cpu EXCEPT !.ints = TRUE]
      /\ UNCHANGED <<dpl3, installed, handlers, reads, requests, dead>>
  BY LineFacts DEF Handle, Switch, Dispatch, kernel, InterruptsTypeOK
<1>2. cpu' = [pe |-> cpu.pe, cs |-> cpu.cs, ds |-> cpu.ds, idt |-> cpu.idt, ints |-> TRUE]
  <2>1. cpu \in Cpu
    BY DEF InterruptsTypeOK, Cpu
  <2>2. [cpu EXCEPT !.ints = TRUE] =
          [pe |-> cpu.pe, cs |-> cpu.cs, ds |-> cpu.ds, idt |-> cpu.idt, ints |-> TRUE]
    BY <2>1, CpuInts
  <2> QED BY <1>1, <2>2
<1>3. /\ ~dead /\ boot_pc \notin Early \cup InReal \cup SmallData \cup {"halted"}
      /\ boot_pc \notin Unsettled => service \cap Master = Serving(handling)
  BY <1>1 DEF KernelInv, ServiceInv
<1>4. lowest \in Master /\ service \subseteq Lines \cup {Cascade}
  BY DEF InterruptsTypeOK
<1>5. /\ \A m \in Master : service \cap Master = {m} => Ended(service) \cap Master = {}
      /\ service \cap Master = {} => Ended(service) \cap Master = {}
      /\ Ended(service) \subseteq service
      /\ Ended(service) \cap Master = {} => Ended(Ended(service)) = Ended(service)
      /\ Ended(Ended(service)) \subseteq service
      /\ Rotated(service) \in Master
  <2>1. Ended(Ended(service)) \subseteq Ended(service)
    BY <1>4, EndsOne
  <2> QED BY <1>4, <2>1, EndsOne
<1>6. ASSUME boot_pc \notin Unsettled PROVE Ended(service) \cap Master = {}
  <2>1. PICK m \in Master : Serving(handling) = {m}
    BY <1>1, LineFacts DEF Serving
  <2> QED BY <1>3, <1>5, <1>6, <2>1
<1>7. cpu' \in Cpu
  <2>1. cpu \in Cpu
    BY DEF InterruptsTypeOK, Cpu
  <2> QED BY <1>2, <2>1 DEF Cpu
<1>8. CASE Switch
  <2>1. installed /\ boot_pc' = "tasks" /\ service' = Ended(service) /\ UNCHANGED <<lowest, unread>>
    BY <1>8 DEF Switch
  <2>2. boot_pc \in Late
    BY <2>1 DEF KernelInv
  <2>3. InterruptsTypeOK'
    BY <1>1, <1>4, <1>5, <1>7, <2>1 DEF InterruptsTypeOK, Cpu
  <2>4. CpuInv'
    BY <1>1, <1>2, <2>1, <2>2 DEF CpuInv, Late, InReal, SmallData
  <2>5. service' \cap Master = {}
    BY <1>6, <2>1, <2>2 DEF Late, Unsettled
  <2>6. KernelInv'
    BY <1>1, <1>3, <2>1, <2>2 DEF KernelInv, Early, Late
  <2>7. ServiceInv'
    BY <1>1, <2>5 DEF ServiceInv, Serving
  <2> QED BY <2>3, <2>4, <2>6, <2>7
<1>9. CASE Dispatch
  <2>1. /\ service' = Ended(Ended(service)) /\ lowest' = Rotated(service)
        /\ boot_pc' = IF boot_pc = "hlt" THEN "panic" ELSE boot_pc
        /\ unread' \in BOOLEAN
    BY <1>9 DEF Dispatch, AfterDispatch, InterruptsTypeOK
  <2>2. InterruptsTypeOK'
    BY <1>1, <1>4, <1>5, <1>7, <2>1 DEF InterruptsTypeOK, Cpu
  <2>3. CpuInv'
    <3>1. boot_pc' \notin Early \cup InReal \cup SmallData \cup {"halted"}
      BY <1>3, <2>1 DEF Early, InReal, SmallData
    <3> QED BY <1>1, <1>2, <1>3, <2>1, <3>1 DEF CpuInv, Early, InReal, SmallData
  <2>4. KernelInv'
    BY <1>1, <1>3, <2>1 DEF KernelInv, Early, Late
  <2>5. boot_pc \notin Unsettled => service' \cap Master = {}
    BY <1>5, <1>6, <2>1
  <2>6. ServiceInv'
    BY <1>1, <2>1, <2>5 DEF ServiceInv, Serving, Unsettled
  <2> QED BY <2>2, <2>3, <2>4, <2>6
<1> QED BY <1>8, <1>9 DEF Handle

LEMMA InterruptsStepIInv == InterruptsIInv /\ [InterruptsNext]_interruptsVars => InterruptsIInv'
<1> SUFFICES ASSUME InterruptsIInv, [InterruptsNext]_interruptsVars PROVE InterruptsIInv'
  OBVIOUS
<1>1. CASE UNCHANGED interruptsVars
  <2>1. /\ UNCHANGED <<boot_pc, cpu, dpl3, installed, handlers, reads>>
        /\ UNCHANGED <<requests, service, lowest, unread, handling, dead>>
    BY <1>1 DEF interruptsVars, kernel, controllers
  <2>2. InterruptsTypeOK'
    <3>1. cpu' \in Cpu
      BY <2>1 DEF InterruptsIInv, InterruptsTypeOK, Cpu
    <3> QED BY <2>1, <3>1 DEF InterruptsIInv, InterruptsTypeOK, Cpu
  <2>3. CpuInv' /\ KernelInv' /\ ServiceInv'
    BY <2>1 DEF InterruptsIInv, CpuInv, KernelInv, ServiceInv
  <2> QED BY <2>2, <2>3 DEF InterruptsIInv
<1> QED BY <1>1, BootKeeps, ProgramKeeps, RaiseKeeps, TakeKeeps, HandleKeeps
        DEF InterruptsNext, Deliver

\* Processor, handlers and controllers are as each place of boot expects them, or the
\* machine is dead (ksrc/main.c:36-76, idt.c:30-100, realmode/realmode.asm).
THEOREM InterruptsInvariant == InterruptsSpec => []InterruptsIInv
<1> QED BY InterruptsInitIInv, InterruptsStepIInv, PTL DEF InterruptsSpec

\* For every set of lines and number of disk reads: whatever the order of boot
\* steps and interrupts, once tasks run the master has nothing in service when the
\* next interrupt may come (ksrc/isrs.asm:26-51, task.asm:14-150).
THEOREM RunningIsOpen == InterruptsSpec => []InterruptsInv
<1>1. InterruptsIInv => InterruptsInv
  BY DEF InterruptsIInv, InterruptsInv, MasterOpen, ServiceInv, KernelInv, Unsettled, Windows, Serving
<1> QED BY <1>1, InterruptsInvariant, PTL

\* For every set of lines and number of disk reads: an interrupt brings the machine
\* down in the windows of boot only (ksrc/main.c:44-74, realmode/realmode.asm).
THEOREM DiesOnlyInWindows == InterruptsSpec => DiesInWindows
<1>1. InterruptsIInv' /\ InterruptsIInv /\ [InterruptsNext]_interruptsVars =>
        [dead' # dead => boot_pc \in Windows]_interruptsVars
  <2> SUFFICES ASSUME InterruptsIInv, InterruptsIInv', InterruptsNext, dead' # dead
               PROVE  boot_pc \in Windows
    BY DEF interruptsVars
  <2>1. dead' \/ dead
    BY DEF InterruptsIInv, InterruptsTypeOK
  <2>2. CASE dead
    BY <2>2 DEF InterruptsIInv, KernelInv
  <2>3. CASE dead' /\ ~dead
    <3>1. boot_pc' \in Windows
      BY <2>3 DEF InterruptsIInv, KernelInv
    <3>2. boot_pc' = boot_pc
      BY <2>3 DEF InterruptsNext, Boot, IdtInit, TrapInit, KbInit, TaskInit, Read, JumpTo16,
           LoadSmall, LeaveProtected, LoadRealTable, CliAndBack, StiAndLgdt, JumpTo32,
           LoadKernel, MapIrqs, Install, EnterCall, LeaveCall, PanicPrints, Step,
           Deliver, Take, TakeWrongly, TakeInBios, Handle, Switch, Dispatch, Raise
    <3> QED BY <3>1, <3>2
  <2> QED BY <2>1, <2>2, <2>3
<1> QED BY <1>1, InterruptsInvariant, PTL DEF InterruptsSpec, DiesInWindows

\* For every set of lines: once tasks run a line of the slave that was handled is
\* never ended, so that no line below it is handled again (ksrc/isrs.asm:26-51).
THEOREM SlaveNeverEnds == InterruptsSpec => SlaveOnce
<1> DEFINE Stays(l) == boot_pc = "tasks" /\ l \in service =>
             l \in service' /\ \A k \in Slave : k >= l /\ handling' = k => handling = k
<1>1. ASSUME InterruptsIInv, InterruptsNext, NEW l \in Slave, boot_pc = "tasks", l \in service
      PROVE  l \in service' /\ \A k \in Slave : k >= l /\ handling' = k => handling = k
  <2>1. lowest \in Master /\ InterruptsTypeOK /\ cpu.idt = "kernel"
    BY <1>1 DEF InterruptsIInv, InterruptsTypeOK, CpuInv
  <2>2. CASE EnterCall \/ LeaveCall
    BY <1>1, <2>2 DEF EnterCall, LeaveCall, Step, Loads, controllers
  <2>3. CASE \E n \in Lines : Raise(n)
    BY <1>1, <2>3 DEF Raise
  <2>4. CASE Deliver
    <3>1. PICK n \in Lines : Take(n) \/ TakeWrongly(n)
      BY <2>1, <2>4 DEF Deliver, TakeInBios
    <3>2. l \in service' /\ n = Offered
      BY <1>1, <3>1 DEF Take, TakeWrongly, Taking, InService
    <3>3. CASE TakeWrongly(n)
      BY <3>2, <3>3 DEF TakeWrongly
    <3>4. CASE Take(n)
      <4>1. handling' = n
        BY <3>4 DEF Take
      <4>2. ASSUME NEW k \in Slave, k >= l, handling' = k PROVE FALSE
        <5>1. k < l
          BY <1>1, <2>1, <3>2, <4>1, <4>2, OfferedAbove
        <5>2. k \in Nat /\ l \in Nat
          BY LineFacts
        <5> QED BY <4>2, <5>1, <5>2, SMT
      <4> QED BY <3>2, <4>2
    <3> QED BY <3>1, <3>3, <3>4
  <2>5. CASE Handle
    <3>1. handling' = None /\ (service' = Ended(service) \/ service' = Ended(Ended(service)))
      BY <2>5 DEF Handle, Switch, Dispatch, AfterDispatch
    <3>2. service \cap Slave \subseteq Ended(service)
      BY <2>1, EndsOne
    <3>3. Ended(service) \cap Slave \subseteq Ended(Ended(service))
      BY <2>1, EndsOne
    <3>4. l \in service'
      BY <1>1, <3>1, <3>2, <3>3
    <3> QED BY <3>1, <3>4, LineFacts
  <2>6. ~Boot /\ ~PanicPrints
    BY <1>1 DEF Boot, IdtInit, TrapInit, KbInit, TaskInit, Read, JumpTo16,
         LoadSmall, LeaveProtected, LoadRealTable, CliAndBack, StiAndLgdt, JumpTo32,
         LoadKernel, MapIrqs, Install, PanicPrints, Step
  <2> QED BY <1>1, <2>2, <2>3, <2>4, <2>5, <2>6 DEF InterruptsNext
<1>2. ASSUME UNCHANGED interruptsVars, NEW l \in Slave PROVE Stays(l)
  BY <1>2 DEF interruptsVars, controllers
<1>3. InterruptsIInv /\ [InterruptsNext]_interruptsVars =>
        [\A l \in Slave : Stays(l)]_interruptsVars
  BY <1>1, <1>2
<1> QED BY <1>3, InterruptsInvariant, PTL DEF InterruptsSpec, SlaveOnce

\* For every set of lines and number of disk reads: an unread code without a request
\* to come is left by idt_map_irqs and the BIOS only (ksrc/idt.c, kb.c).
THEOREM BootSilences == InterruptsSpec => SilencedByBoot
<1>1. ASSUME InterruptsIInv, InterruptsNext, ~Silent, Silent', ~dead'
      PROVE  boot_pc \in {"idt_init", "bios", "map_irqs"}
  <2>1. CASE Boot \/ EnterCall \/ LeaveCall \/ PanicPrints
    <3>1. CASE IdtInit \/ MapIrqs
      BY <3>1 DEF IdtInit, MapIrqs, Step
    <3>2. CASE ~(IdtInit \/ MapIrqs)
      <4>1. UNCHANGED <<unread, requests, handling>>
        BY <2>1, <3>2 DEF Boot, TrapInit, KbInit, TaskInit, Read, JumpTo16,
             LoadSmall, LeaveProtected, LoadRealTable, CliAndBack, StiAndLgdt, JumpTo32,
             LoadKernel, Install, EnterCall, LeaveCall, PanicPrints, Step, Loads, Subscribe,
             controllers
      <4> QED BY <1>1, <4>1 DEF Silent
    <3> QED BY <3>1, <3>2
  <2>2. CASE \E l \in Lines : Raise(l)
    BY <1>1, <2>2 DEF Raise, Silent
  <2>3. CASE Deliver
    <3>1. PICK l \in Lines : Take(l) \/ TakeInBios(l)
      BY <1>1, <2>3 DEF Deliver, TakeWrongly
    <3>2. CASE Take(l)
      BY <1>1, <3>2, LineFacts DEF Take, Taking, Silent
    <3>3. CASE TakeInBios(l)
      BY <1>1, <3>3 DEF TakeInBios, InterruptsIInv, CpuInv
    <3> QED BY <3>1, <3>2, <3>3
  <2>4. CASE Handle
    <3>1. CASE Switch
      BY <1>1, <3>1, LineFacts DEF Switch, Silent
    <3>2. CASE Dispatch
      <4>1. boot_pc \notin Early
        BY <1>1, <3>2 DEF Dispatch, InterruptsIInv, KernelInv
      <4>2. Vector(Keyboard) \in handlers
        BY <1>1, <4>1 DEF InterruptsIInv, KernelInv, Early
      <4>3. unread' => unread /\ handling # Keyboard
        BY <3>2, <4>2 DEF Dispatch
      <4> QED BY <1>1, <3>2, <4>3 DEF Dispatch, Silent
    <3> QED BY <2>4, <3>1, <3>2 DEF Handle
  <2> QED BY <1>1, <2>1, <2>2, <2>3, <2>4 DEF InterruptsNext
<1>2. InterruptsIInv /\ [InterruptsNext]_interruptsVars =>
        [Silent' /\ ~Silent => boot_pc \in {"idt_init", "bios", "map_irqs"} \/ dead']_interruptsVars
  BY <1>1
<1> QED BY <1>2, InterruptsInvariant, PTL DEF InterruptsSpec, SilencedByBoot

=============================================================================
