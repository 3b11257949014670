------------------------------- MODULE Paging -------------------------------
(***************************************************************************)
(* The kernel's page tables, ksrc/paging.c: the identity map of            *)
(* paging_init, changes by paging_map and paging_unmap and what            *)
(* paging_virtual_to_physical makes of them.                               *)
(*                                                                         *)
(* A page has Page bytes, a table Entries entries.  Physical memory is     *)
(* kept as entries: a table is where its directory entry says, and that is *)
(* page 0 if the entry is absent.                                          *)
(***************************************************************************)
EXTENDS Integers

CONSTANTS
  Page,       \* bytes of a page, 4096
  Tested,     \* what paging_map tests a physical address for, 256
  Entries,    \* entries of a table and of the directory, 1024
  Mapped4M,   \* directory entries that paging_init sets
  Tables,     \* the page the first table is in
  Physical    \* addresses paging_map is called with

ASSUME PagingAssumption ==
  /\ Page \in Nat \ {0} /\ Tested \in Nat \ {0} /\ Page % Tested = 0
  /\ Entries \in Nat \ {0} /\ Mapped4M \in 0 .. Entries
  /\ Tables \in Nat \ {0} /\ Physical \subseteq Nat

VARIABLES
  directory,  \* entry -> page of the table, 0 if absent
  memory,     \* page -> entry -> the page it maps, or Absent
  asked,      \* history: what pages with a table were last mapped to, or Absent
  panicked

pagingVars == <<directory, memory, asked, panicked>>

Absent == -1
Indices == 0 .. Entries - 1
Pages == 0 .. Entries * Entries - 1

DirI(p) == p \div Entries
\* Mutant: the table is indexed like the directory.
TblIOfDirectory(p) == p \div Entries
TblI(p)  == p % Entries
Table(p) == directory[DirI(p)]

\* paging_init.  What is in page 0 is not the kernel's; bound: an entry of it
\* is absent or maps page 0.
PagingInit ==
  /\ directory = [d \in Indices |-> IF d < Mapped4M THEN Tables + d ELSE 0]
  /\ \E low \in [Indices -> {Absent, 0}] :
       memory = [q \in {0} \cup {directory[d] : d \in Indices} |->
                   IF q = 0 THEN low ELSE [i \in Indices |-> (q - Tables) * Entries + i]]
  /\ asked = [p \in Pages |-> IF DirI(p) < Mapped4M THEN p * Page ELSE Absent]
  /\ panicked = FALSE

HasTable(p) == Table(p) # 0

TableEntry(p) == memory[Table(p)][TblI(p)]
Stored(p, q) == memory' = [memory EXCEPT ![Table(p)][TblI(p)] = q]

\* Offsets of the addresses the functions are called with.
Offsets == {0, Page - 1}

Map(p, physical) ==
  /\ ~panicked /\ physical % Tested = 0 /\ TableEntry(p) = Absent
  /\ Stored(p, physical \div Page)
  /\ asked' = IF HasTable(p) THEN [asked EXCEPT ![p] = physical] ELSE asked
  /\ UNCHANGED <<directory, panicked>>

MapPanics(p, offset, physical) ==
  /\ ~panicked
  /\ offset # 0 \/ physical % Tested # 0 \/ TableEntry(p) # Absent
  /\ panicked' = TRUE
  /\ UNCHANGED <<directory, memory, asked>>

Unmap(p) ==
  /\ ~panicked /\ TableEntry(p) # Absent
  /\ Stored(p, Absent)
  /\ asked' = IF HasTable(p) THEN [asked EXCEPT ![p] = Absent] ELSE asked
  /\ UNCHANGED <<directory, panicked>>

UnmapPanics(p, offset) ==
  /\ ~panicked
  /\ offset # 0 \/ TableEntry(p) = Absent
  /\ panicked' = TRUE
  /\ UNCHANGED <<directory, memory, asked>>

PagingNext == \E p \in Pages, offset \in Offsets :
          \/ \E physical \in Physical :
               (offset = 0 /\ Map(p, physical)) \/ MapPanics(p, offset, physical)
          \/ (offset = 0 /\ Unmap(p)) \/ UnmapPanics(p, offset)

PagingSpec == PagingInit /\ [][PagingNext]_pagingVars

\* paging_virtual_to_physical, which does not ask whether the entry is there.
Translated(v) == TableEntry(v \div Page) * Page + (v % Page)

-----------------------------------------------------------------------------
\* Where the directory has a table, an address leads to the byte paging_init or the
\* last paging_map meant, and no page is mapped that they did not map, whatever was
\* written where the directory has no table.  A request that paging_map means to
\* refuse, for an address within a page (ksrc/paging.c:36-37), means no byte.
LeadsWhereAsked ==
  \A p \in Pages : HasTable(p) =>
    /\ TableEntry(p) = Absent <=> asked[p] = Absent
    /\ TableEntry(p) # Absent /\ asked[p] % Page = 0 =>
         \A o \in Offsets : Translated(p * Page + o) = asked[p] + o

=============================================================================
