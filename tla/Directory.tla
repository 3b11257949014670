----------------------------- MODULE Directory -----------------------------
(***************************************************************************)
(* Looking a path up in a FAT volume and listing a directory: fat_find_ent *)
(* with fat_find_in_dir, fat_vfs_type and fat_vfs_readdir of               *)
(* ksrc/fs/fat.c.                                                          *)
(*                                                                         *)
(* A directory is the sequence of the entries the driver sees of it: the   *)
(* root's, or those of a subdirectory's first cluster (the driver never    *)
(* follows a directory's chain).  Scans look at one entry per step.        *)
(***************************************************************************)
EXTENDS Naturals, Sequences, FiniteSets

CONSTANTS
  Volumes,   \* the volumes: functions from directory to entries
  Paths,     \* the paths looked up, as parse_path returns them
  Root,      \* the root directory; the others are named by their first cluster
  SectorsPerCluster

\* An entry that is in use: no LFN part or label, not deleted.
Used(e) == e.mark = "used"

\* Directories are sequences, their subdirectories are on the volume, and no two
\* entries in use in front of the first empty one share a name.
ASSUME DirectoryAssumption ==
  /\ SectorsPerCluster \in Nat
  /\ \A s \in Paths : Len(s) \in Nat /\ DOMAIN s = 1 .. Len(s)
  /\ \A v \in Volumes :
       /\ {Root, 0} \subseteq DOMAIN v
       /\ \A d \in DOMAIN v :
            /\ Len(v[d]) \in Nat /\ DOMAIN v[d] = 1 .. Len(v[d])
            /\ \A k \in DOMAIN v[d] : Used(v[d][k]) =>
                 /\ v[d][k].dir \in BOOLEAN
                 /\ v[d][k].dir => v[d][k].first \in DOMAIN v
                 /\ \A j \in 1 .. k - 1 :
                      Used(v[d][j]) /\ v[d][j].name = v[d][k].name =>
                        \E l \in 1 .. k : v[d][l].mark = "end"

VARIABLES
  volume, sought, op,   \* what is asked: to find or to list
  scan_pc,            \* "find", "list", or how it ended
  level,              \* i of fat_find_ent, from 1
  dir, pos,           \* directory and entry that the scan is at
  output,             \* the entry found
  names               \* the names given to the callback

directoryVars == <<volume, sought, op, scan_pc, level, dir, pos, output, names>>

Entry   == volume[dir][pos]
Inside  == pos <= Len(volume[dir])
NoEntry == [mark |-> "end"]

DirectoryInit ==
  /\ volume \in Volumes /\ sought \in Paths /\ op \in {"find", "list"}
  /\ scan_pc = IF sought # <<>> THEN "find" ELSE IF op = "list" THEN "list" ELSE "found"
  /\ level = 1 /\ dir = Root /\ pos = 1
  /\ output = NoEntry /\ names = <<>>

Step == /\ pos' = pos + 1
        /\ UNCHANGED <<scan_pc, level, dir, output>>

\* Mutant: a deleted entry ends a scan.
EndsAtDeleted(e) == e.mark \in {"end", "deleted"}

Matches(e) == Used(e) /\ e.name = sought[level]
Ends(e)    == e.mark = "end"

Skip ==
  /\ scan_pc = "find" /\ Inside /\ ~Ends(Entry) /\ ~Matches(Entry)
  /\ Step
  /\ UNCHANGED <<volume, sought, op, names>>

Missing ==
  /\ scan_pc = "find" /\ Inside /\ Ends(Entry)
  /\ scan_pc' = "missing"
  /\ UNCHANGED <<volume, sought, op, level, dir, pos, output, names>>

\* The buffer of entries is cleared for the next directory before the entry in it
\* is asked for its cluster: 16 bytes for each sector, of entries of 32 bytes.
\* Mutant: all of the buffer is cleared.
WipedAll == level > 1
Wiped    == level > 1 /\ pos <= SectorsPerCluster \div 2

Match ==
  /\ scan_pc = "find" /\ Inside /\ ~Ends(Entry) /\ Matches(Entry)
  /\ output' = Entry
  /\ IF level = Len(sought)
     THEN /\ scan_pc' = IF op = "find" THEN "found"
                   ELSE IF Entry.dir THEN "list" ELSE "missing"
          /\ dir' = IF scan_pc' = "list" THEN Entry.first ELSE dir
          /\ UNCHANGED level
     ELSE /\ scan_pc' = IF Entry.dir THEN "find" ELSE "missing"
          /\ dir' = IF ~Entry.dir THEN dir ELSE IF Wiped THEN 0 ELSE Entry.first
          /\ level' = level + 1
  /\ pos' = 1
  /\ UNCHANGED <<volume, sought, op, names>>

\* Nothing but an empty entry ends a scan, except in the listing of the root:
\* past a full directory it reads whatever lies on the stack.
Overrun ==
  /\ ~Inside
  /\ scan_pc = "find" \/ (scan_pc = "list" /\ dir # Root)
  /\ scan_pc' = "overrun"
  /\ UNCHANGED <<volume, sought, op, level, dir, pos, output, names>>

ListSkip ==
  /\ scan_pc = "list" /\ Inside /\ ~Ends(Entry) /\ ~Used(Entry)
  /\ Step
  /\ UNCHANGED <<volume, sought, op, names>>

\* The callback may want no more.
ListEntry ==
  /\ scan_pc = "list" /\ Inside /\ ~Ends(Entry) /\ Used(Entry)
  /\ names' = Append(names, Entry.name)
  /\ \/ Step
     \/ scan_pc' = "stopped" /\ UNCHANGED <<level, dir, pos, output>>
  /\ UNCHANGED <<volume, sought, op>>

ListEnd ==
  /\ scan_pc = "list"
  /\ IF Inside THEN Ends(Entry) ELSE dir = Root
  /\ scan_pc' = "listed"
  /\ UNCHANGED <<volume, sought, op, level, dir, pos, output, names>>

DirectoryNext == Skip \/ Missing \/ Match \/ Overrun \/ ListSkip \/ ListEntry \/ ListEnd

DirectorySpec == DirectoryInit /\ [][DirectoryNext]_directoryVars

-----------------------------------------------------------------------------
\* What a directory holds: where its entries in use in front of the first empty one are.
Filled(d) == {k \in DOMAIN volume[d] : Used(volume[d][k]) /\ \A j \in 1 .. k : volume[d][j].mark # "end"}

Full(d) == \A k \in DOMAIN volume[d] : volume[d][k].mark # "end"

Named(d, n) == {e \in {volume[d][k] : k \in Filled(d)} : e.name = n}

\* The ways the first k names of the path lead: an entry for each, in the directory
\* that is the one before.
Known   == UNION {{volume[d][k] : k \in Filled(d)} : d \in DOMAIN volume}
Ways(k) ==
  {w \in [1 .. k -> Known] :
     /\ w[1] \in Named(Root, sought[1])
     /\ \A j \in 2 .. k : w[j - 1].dir /\ w[j] \in Named(w[j - 1].first, sought[j])}

\* What they denote: entries, at most one.
Denoted(k) == {w[k] : w \in Ways(k)}

\* The path leads through an entry that is cleared before its cluster is read.
ThroughWiped ==
  \E k \in 2 .. Len(sought) - 1 :
    \E d \in Denoted(k - 1), p \in 1 .. SectorsPerCluster \div 2 :
      d.dir /\ p \in DOMAIN volume[d.first] /\ volume[d.first][p] \in Denoted(k)

\* Among deleted entries, parts of long names, labels and what older contents left
\* behind the end, the entry found is the one the path denotes, and nothing is
\* missed, unless the path leads through one of the first entries of a
\* subdirectory, one for every two sectors of a cluster (ksrc/fs/fat.c:135-158,
\* 211-241).
Finds(e) == e \in Denoted(Len(sought))
Misses   == \A e \in Denoted(Len(sought)) : op = "list" /\ ~e.dir
FindsEntry ==
  sought # <<>> =>
    /\ scan_pc \in {"found", "list", "listed", "stopped"} => Finds(output) \/ ThroughWiped
    /\ scan_pc = "missing" => Misses \/ ThroughWiped

\* A listing gives each name once and in order, all of them unless the callback
\* stops it (ksrc/fs/fat.c:298-360).
Turn(d, k) == Cardinality({j \in Filled(d) : j <= k})
Listing     == IF sought = <<>> THEN Root ELSE output.first
ListsAll ==
  LET d == Listing
  IN  /\ scan_pc \in {"list", "stopped", "listed"} =>
           /\ Len(names) <= Cardinality(Filled(d))
           /\ \A k \in Filled(d) :
                Turn(d, k) <= Len(names) => names[Turn(d, k)] = volume[d][k].name
      /\ scan_pc = "listed" => Len(names) = Cardinality(Filled(d))

\* A scan leaves its directory only when that is full, and then either the name
\* it looks for is not there or it is listing (ksrc/fs/fat.c:139, 338).
OverrunsFullOnly ==
  scan_pc = "overrun" =>
    /\ Full(dir)
    /\ output = NoEntry \/ output.dir
    /\ op = "list" \/ Named(dir, sought[level]) = {}

\* A look-up answers what the directories say, or goes on past the end of a full one
\* that does not hold the name (ksrc/fs/fat.c:135-158, 211-241).
Lookups == FindsEntry /\ OverrunsFullOnly

=============================================================================
