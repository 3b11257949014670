-------------------------------- MODULE Disk --------------------------------
(***************************************************************************)
(* The disk driver, ksrc/ata.c: requests are cut into calls of the BIOS,   *)
(* each through a packet and a bounce buffer in low memory, and a call     *)
(* that fails panics.  Callers name sectors relative to a partition        *)
(* (ksrc/part.c), which only adds its start.                               *)
(*                                                                         *)
(* The BIOS is external: it moves the sectors of the packet, or fails and  *)
(* leaves anything in them.  ata_read_sector is a read of one sector.      *)
(***************************************************************************)
EXTENDS Naturals

CONSTANTS
  Data,      \* what a sector may hold
  Size,      \* sectors of the disk
  Room,      \* sectors of the caller's memory
  AtATime    \* at_a_time: sectors of the bounce buffer

ASSUME SizesAssumption == Size \in Nat /\ Room \in Nat /\ AtATime \in Nat \ {0}

VARIABLES
  disk, buffer, bounce,
  packet,    \* the BIOS's orders: struct lba_packet
  failed,    \* the byte at 0x2000 that the real-mode code sets
  request,   \* the arguments of ata_read_sectors or ata_write_sectors
  i,         \* sectors done by the calls that are over
  disk_pc    \* "idle", "prepare", "bios", "copy", "check", "panic"

diskVars == <<disk, buffer, bounce, packet, failed, request, i, disk_pc>>

Requests == {r \in [kind : {"read", "write"}, lba : 0 .. Size, sectors : 0 .. Room] :
               r.lba + r.sectors <= Size}
Reading == request.kind = "read"

\* Mutant: each call begins where the request does.
LbaOfFirst == request.lba

\* The sectors of the next call of the BIOS, and the first of them.
Chunk == IF ~Reading THEN 1
         ELSE IF request.sectors - i > AtATime THEN AtATime
         ELSE request.sectors - i
Lba   == request.lba + i

DiskInit ==
  /\ disk \in [0 .. Size - 1 -> Data]
  /\ buffer \in [0 .. Room - 1 -> Data]
  /\ bounce \in [0 .. AtATime - 1 -> Data]
  /\ request \in Requests
  /\ packet = [lba |-> 0, sectors |-> 0] /\ failed = FALSE
  /\ i = 0 /\ disk_pc = "idle"

\* A write of no sector is over at once; a read of none still asks the BIOS.
Ask ==
  /\ disk_pc = "idle"
  /\ request' \in Requests
  /\ i' = 0
  /\ disk_pc' = IF request'.kind = "write" /\ request'.sectors = 0 THEN "return" ELSE "prepare"
  /\ UNCHANGED <<disk, buffer, bounce, packet, failed>>

Prepare ==
  /\ disk_pc = "prepare"
  /\ packet' = [lba |-> Lba, sectors |-> Chunk]
  /\ bounce' = IF Reading THEN bounce ELSE [bounce EXCEPT ![0] = buffer[i]]
  /\ disk_pc' = "bios"
  /\ UNCHANGED <<disk, buffer, failed, request, i>>

InPacket(k) == packet.lba <= k /\ k < packet.lba + packet.sectors

\* What the BIOS moves ends up as f, given by sector of the packet.
Moved(f) ==
  IF Reading
  THEN /\ bounce' = [k \in 0 .. AtATime - 1 |->
                       IF k < packet.sectors THEN f[k] ELSE bounce[k]]
       /\ UNCHANGED disk
  ELSE /\ disk' = [k \in 0 .. Size - 1 |->
                     IF InPacket(k) THEN f[k - packet.lba] ELSE disk[k]]
       /\ UNCHANGED bounce

BiosMoves ==
  /\ disk_pc = "bios"
  /\ Moved([k \in 0 .. packet.sectors - 1 |->
              IF Reading THEN disk[packet.lba + k] ELSE bounce[k]])
  /\ failed' = FALSE
  /\ disk_pc' = IF Reading THEN "copy" ELSE "check"
  /\ UNCHANGED <<buffer, packet, request, i>>

BiosFails ==
  /\ disk_pc = "bios"
  /\ \E f \in [0 .. packet.sectors - 1 -> Data] : Moved(f)
  /\ failed' = TRUE
  /\ disk_pc' = IF Reading THEN "copy" ELSE "check"
  /\ UNCHANGED <<buffer, packet, request, i>>

\* The caller's memory is written before the outcome is looked at.
Copy ==
  /\ disk_pc = "copy"
  /\ buffer' = [k \in 0 .. Room - 1 |->
                  IF i <= k /\ k < i + Chunk THEN bounce[k - i] ELSE buffer[k]]
  /\ disk_pc' = "check"
  /\ UNCHANGED <<disk, bounce, packet, failed, request, i>>

DiskPanic ==
  /\ disk_pc = "check" /\ failed
  /\ disk_pc' = "panic"
  /\ UNCHANGED <<disk, buffer, bounce, packet, failed, request, i>>

AllDone == i + Chunk >= request.sectors

Advance ==
  /\ disk_pc = "check" /\ ~failed
  /\ i' = i + Chunk
  /\ disk_pc' = IF AllDone THEN "return" ELSE "prepare"
  /\ UNCHANGED <<disk, buffer, bounce, packet, failed, request>>

DiskReturn ==
  /\ disk_pc = "return"
  /\ disk_pc' = "idle"
  /\ UNCHANGED <<disk, buffer, bounce, packet, failed, request, i>>

Serve == Prepare \/ BiosMoves \/ BiosFails \/ Copy \/ DiskPanic \/ Advance \/ DiskReturn

DiskNext == Ask \/ Serve

DiskSpec == DiskInit /\ [][DiskNext]_diskVars

-----------------------------------------------------------------------------

Moving == disk_pc = "check" /\ ~failed

Transferring == INSTANCE Transfer WITH
  done  <- IF Moving THEN i + Chunk ELSE i,
  state <- IF disk_pc = "idle" THEN "idle"
           ELSE IF disk_pc = "panic" \/ (disk_pc = "check" /\ failed) THEN "panic" ELSE "busy"

\* The driver keeps the promises of Transfer: the split, the bounce buffer and the
\* copy in front of the test lose, repeat or misplace no sector (ksrc/ata.c:20-114).
ImplementsTransfer == Transferring!Spec

=============================================================================
