------------------------------ MODULE FatFile ------------------------------
(***************************************************************************)
(* Reading a file of a FAT volume: fat_vfs_readfile with                   *)
(* fat_ent_readcluster and fat_read_cluster of ksrc/fs/fat.c.              *)
(*                                                                         *)
(* The file is the chain of its clusters, anywhere on the volume; a byte   *)
(* is known by its sector and its place in it.                             *)
(***************************************************************************)
EXTENDS Integers, Sequences

CONSTANTS
  Chains,       \* the clusters of the file, in order
  Offsets, Lengths,
  ClusterSizes, \* sectors per cluster
  SectorSize,   \* bytes
  DataSector    \* first_data_sector and the sectors of the root directory

\* The last entry of a chain.
End == 65535

\* A chain leads through clusters of the volume and nowhere twice.
ASSUME FatFileAssumption ==
  /\ \A s \in Chains : /\ s \in Seq(2 .. End - 1) /\ s # << >>
                      /\ \A j, k \in DOMAIN s : s[j] = s[k] => j = k
  /\ Offsets \subseteq Nat /\ Lengths \subseteq Nat
  /\ ClusterSizes \subseteq Nat \ {0}
  /\ SectorSize \in Nat \ {0} /\ DataSector \in Nat

VARIABLES
  chain, spc, offset, length,  \* the volume, the file and what is asked
  file_pc,          \* "skip", "read", "copy", or how it ended
  clus,             \* the cluster of the file that is read
  ahead,            \* how many clusters were skipped on the way to it
  cluster_number,   \* where the walk along the chain is
  buff,             \* the bytes of the clusters read
  buffer            \* the caller's memory

given    == <<chain, spc, offset, length>>
fileVars  == <<given, file_pc, clus, ahead, cluster_number, buff, buffer>>

\* The allocation table, as far as the file uses it.
Fat(c) == LET k == CHOOSE j \in 1 .. Len(chain) : chain[j] = c
          IN  IF k = Len(chain) THEN End ELSE chain[k + 1]

bpc           == spc * SectorSize
start_cluster == offset \div bpc
end_cluster   == (offset + length - 1) \div bpc

FatFileInit ==
  /\ chain \in Chains /\ spc \in ClusterSizes
  /\ offset \in Offsets /\ length \in Lengths
  /\ file_pc = IF length = 0 THEN "returned" ELSE "skip"
  /\ clus = start_cluster /\ ahead = 0 /\ cluster_number = chain[1]
  /\ buff = << >> /\ buffer = << >>

\* An entry of the table is looked up that is behind its end.
Outside ==
  /\ cluster_number = End
  /\ file_pc = "read" \/ (file_pc = "skip" /\ ahead < clus)
  /\ file_pc' = "outside"
  /\ UNCHANGED <<given, clus, ahead, cluster_number, buff, buffer>>

SkipAhead ==
  /\ file_pc = "skip" /\ ahead < clus /\ cluster_number # End
  /\ cluster_number' = Fat(cluster_number)
  /\ ahead' = ahead + 1
  /\ UNCHANGED <<given, file_pc, clus, buff, buffer>>

Arrive ==
  /\ file_pc = "skip" /\ ahead = clus
  /\ file_pc' = "read"
  /\ UNCHANGED <<given, clus, ahead, cluster_number, buff, buffer>>

\* Mutant: the two reserved clusters are taken off before the product.
SectorScaled(c) == DataSector + (c - 2) * spc
SectorOf(c)     == DataSector + c * spc - 2

\* The walk starts again from the first cluster for each cluster of the file.
WalkAgain == chain[1]

ReadCluster ==
  /\ file_pc = "read" /\ cluster_number # End
  /\ buff' = buff \o [b \in 1 .. bpc |-> <<SectorOf(cluster_number) + (b - 1) \div SectorSize,
                                           (b - 1) % SectorSize>>]
  /\ IF clus = end_cluster
     THEN file_pc' = "copy" /\ UNCHANGED <<clus, ahead, cluster_number>>
     ELSE /\ file_pc' = "skip" /\ clus' = clus + 1
          /\ ahead' = 0 /\ cluster_number' = WalkAgain
  /\ UNCHANGED <<given, buffer>>

Copy ==
  /\ file_pc = "copy"
  /\ buffer' = [b \in 1 .. length |-> buff[offset - start_cluster * bpc + b]]
  /\ file_pc' = "returned"
  /\ UNCHANGED <<given, clus, ahead, cluster_number, buff>>

FatFileNext == Outside \/ SkipAhead \/ Arrive \/ ReadCluster \/ Copy

FatFileSpec == FatFileInit /\ [][FatFileNext]_fileVars

-----------------------------------------------------------------------------
\* Where byte n of the file is: FAT keeps the first two clusters for itself.
Place(n) == LET c == chain[n \div bpc + 1]
            IN  <<DataSector + (c - 2) * spc + (n % bpc) \div SectorSize, n % SectorSize>>

\* However the file is scattered, the bytes read are the bytes asked for when a
\* cluster is one sector, as on the disk image; of larger clusters, those that lie
\* 2 * (spc - 1) sectors behind them (ksrc/fs/fat.c:129-133, 369-408).
ReadsFile ==
  file_pc = "returned" =>
    \A b \in 1 .. length :
      buffer[b] = [Place(offset + b - 1) EXCEPT ![1] = @ + 2 * (spc - 1)]

\* What is asked for within the file's clusters never leads behind the table, and
\* nothing else is answered (ksrc/fs/fat.c:369-379).
InsideFat ==
  LET past == length # 0 /\ offset + length > Len(chain) * bpc
  IN  /\ file_pc = "outside"  => past
      /\ file_pc = "returned" => ~past

\* A read returns exactly where the file has what is asked for, and then with the
\* bytes the sectors of its clusters hold, as the driver counts them
\* (ksrc/fs/fat.c:129-133, 369-408).
ReadsExactly == ReadsFile /\ InsideFat

=============================================================================
