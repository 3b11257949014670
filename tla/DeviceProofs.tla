---------------------------- MODULE DeviceProofs ----------------------------
(***************************************************************************)
(* Proofs about the devices: the keyboard driver and its reader, the disk  *)
(* driver and the console, for every value of the constants.               *)
(***************************************************************************)
EXTENDS Keyboard, Disk, Console, Quotients, SequenceTheorems, TLAPS

-----------------------------------------------------------------------------
\* The keyboard.

\* The initial mailbox is empty and nobody reads it.
LEMMA KeyboardInitInv == KeyboardInit => KeyboardInv
<1> SUFFICES ASSUME KeyboardInit PROVE KeyboardInv
  OBVIOUS
<1> USE DEF KeyboardInit
<1>1. NoCode \in Scancode /\ Zero = "00"
  BY DEF NoCode, Scancode, Zero
<1>2. KeyboardTypeOK
  BY <1>1 DEF KeyboardTypeOK, Waiting, Copying
<1>3. Delivered /\ MixesFreshCodes /\ Untorn
  BY DEF Delivered, MixesFreshCodes, Untorn, CopiedModifiers, Copying
<1> QED BY <1>2, <1>3 DEF KeyboardInv

\* The keyboard's interrupt keeps KeyboardInv: it only adds to arrived, and sets the flag.
LEMMA KeyInterruptInv ==
  ASSUME KeyboardInv, NEW k \in Codes, KeyInterrupt(k)
  PROVE  KeyboardInv'
<1> USE DEF KeyboardInv, KeyInterrupt, Wake, Store, Copying, Waiting, Scancode
<1>1. KeyboardTypeOK'
  <2>1. reader_pc' \in {"idle", "clear", "sti"} \cup Waiting \cup Copying
    BY DEF KeyboardTypeOK
  <2>2. held' \subseteq Modifiers
    BY DEF KeyboardTypeOK, HeldAfter
  <2>3. arrived' \subseteq Scancode
    BY DEF KeyboardTypeOK
  <2>4. QED
    BY <2>1, <2>2, <2>3, ZenonT(60) DEF KeyboardTypeOK
<1>2. Delivered'
  <2>1. CASE k = Prefix /\ ~kb_isr_escaped
    BY <2>1 DEF KeyboardTypeOK, Delivered
  <2>2. CASE ~(k = Prefix /\ ~kb_isr_escaped) /\ reader_pc \in {"idle", "clear"}
    BY <2>2 DEF KeyboardTypeOK, Delivered
  <2>3. CASE ~(k = Prefix /\ ~kb_isr_escaped) /\ reader_pc \notin {"idle", "clear"}
    <3>1. arrived' = arrived \cup {[escaped |-> escape', key |-> key']} /\ key_ready'
      BY <2>3 DEF KeyboardTypeOK
    <3>2. QED
      BY <2>3, <3>1 DEF KeyboardTypeOK, Delivered
  <2>4. QED BY <2>1, <2>2, <2>3
<1>3. MixesFreshCodes'
  BY DEF KeyboardTypeOK, MixesFreshCodes
<1>4. Untorn'
  BY ZenonT(60) DEF KeyboardTypeOK, Untorn, CopiedModifiers
<1> QED BY <1>1, <1>2, <1>3, <1>4

\* Every other step keeps KeyboardInv.
LEMMA KeyboardStepInv == KeyboardInv /\ [KeyboardNext]_keyboardVars => KeyboardInv'
<1> SUFFICES ASSUME KeyboardInv, [KeyboardNext]_keyboardVars PROVE KeyboardInv'
  OBVIOUS
<1> USE DEF KeyboardInv, KeyboardTypeOK, Delivered, MixesFreshCodes, Untorn, CopiedModifiers,
        Copying, Waiting, Scancode, mailbox
<1>1. CASE Call
  <2>1. KeyboardTypeOK'
    BY <1>1 DEF Call
  <2>2. Delivered' /\ MixesFreshCodes' /\ Untorn'
    BY <1>1 DEF Call
  <2>3. QED BY <2>1, <2>2
<1>2. CASE ClearKey
  <2>1. KeyboardTypeOK'
    BY <1>2, ZenonT(60) DEF ClearKey, ClearReady
  <2>2. Delivered' /\ MixesFreshCodes' /\ Untorn'
    BY <1>2 DEF ClearKey, ClearReady
  <2>3. QED BY <2>1, <2>2
<1>3. CASE Sti        BY <1>3 DEF Sti
<1>4. CASE Test       BY <1>4 DEF Test
<1>5. CASE Hlt        BY <1>5 DEF Hlt
<1>6. CASE CopyEscape BY <1>6 DEF CopyEscape
<1>7. CASE CopyKey    BY <1>7 DEF CopyKey
<1>8. CASE ReturnScancode
  BY <1>8 DEF ReturnScancode, Return, NoCode
<1>9. ASSUME NEW m \in Modifiers, ReadModifier(m) PROVE KeyboardInv'
  BY <1>9 DEF ReadModifier, Following, Modifiers, Pressed
<1>10. CASE TryAgain
  BY <1>10 DEF TryAgain, NoCode
<1>11. CASE ReturnSpecial
  BY <1>11 DEF ReturnSpecial, Return, NoCode
<1>12. CASE ReturnAscii
  <2>1. reader_pc' = "idle" /\ sc' = NoCode /\ mods' = {} /\ arrived' = {} /\ torn' = FALSE
        /\ UNCHANGED <<mailbox, ints>>
    BY <1>12 DEF ReturnAscii, Return
  <2>2. answer' = [kind |-> "ascii", sc |-> sc, mods |-> mods, upper |-> "shift" \in held]
    BY <1>12 DEF ReturnAscii, Return
  <2>3. KeyboardTypeOK'
    <3>1. ("shift" \in held) \in BOOLEAN
      OBVIOUS
    <3>2. answer' \in [kind : {"none", "scancode", "special", "ascii"}, sc : Scancode,
                       mods : SUBSET Modifiers, upper : BOOLEAN]
      <4>1. sc \in Scancode /\ mods \in SUBSET Modifiers
        OBVIOUS
      <4>2. QED BY <2>2, <3>1, <4>1, Zenon
    <3>3. UNCHANGED <<kb_isr_escaped, escape, key, key_ready, held, ints>>
      BY <2>1
    <3>4. NoCode \in Scancode
      BY DEF NoCode
    <3>5. QED
      BY <2>1, <3>2, <3>3, <3>4
  <2>4. Delivered' /\ MixesFreshCodes' /\ Untorn'
    BY <2>1
  <2>5. QED BY <2>3, <2>4
<1>13. CASE OtherInterrupt
  BY <1>13 DEF OtherInterrupt, Wake
<1>14. ASSUME NEW k \in Codes, KeyInterrupt(k) PROVE KeyboardInv'
  BY <1>14, KeyInterruptInv
<1>15. CASE UNCHANGED keyboardVars
  BY <1>15 DEF keyboardVars
<1> QED
  BY <1>1, <1>2, <1>3, <1>4, <1>5, <1>6, <1>7, <1>8, <1>9, <1>10, <1>11, <1>12,
     <1>13, <1>14, <1>15 DEF KeyboardNext, Reader

\* The mailbox and the reader's copies agree as far as the handler lets them
\* (ksrc/kb.c:22-131).
THEOREM KeyboardInvariant == KeyboardSpec => []KeyboardInv
<1>1. KeyboardInit => KeyboardInv
  BY KeyboardInitInv
<1>2. KeyboardInv /\ [KeyboardNext]_keyboardVars => KeyboardInv'
  BY KeyboardStepInv
<1> QED BY <1>1, <1>2, PTL DEF KeyboardSpec

\* The driver's variables keep their types (ksrc/kb.c:9-17).
THEOREM KeyboardTypeCorrect == KeyboardSpec => []KeyboardTypeOK
<1>1. KeyboardInv => KeyboardTypeOK
  BY DEF KeyboardInv
<1> QED BY <1>1, KeyboardInvariant, PTL

\* However the keyboard interrupts the reader, the two bytes it gets came since
\* it cleared key_ready (ksrc/kb.c:79-85).
THEOREM Fresh == KeyboardSpec => []MixesFreshCodes
<1>1. KeyboardInv => MixesFreshCodes
  BY DEF KeyboardInv
<1> QED BY <1>1, KeyboardInvariant, PTL

-----------------------------------------------------------------------------
\* The mailbox begins as KeyReader does: nobody asks, no modifier is down.
LEMMA ReaderInit == KeyboardInit => Promise!Init
  BY DEF KeyboardInit, Promise!Init

\* What a reader that was not disturbed has copied is the code in the mailbox.
LEMMA CopiedWhole ==
  ASSUME KeyboardInv, ~torn, reader_pc \in Copying \ {"escape", "key"}
  PROVE  sc = [escaped |-> escape, key |-> key]
  BY DEF KeyboardInv, Untorn, KeyboardTypeOK, Scancode

\* A call that returns gives what the mailbox holds, and its modifiers, unless torn.
LEMMA ReturnRefines ==
  ASSUME KeyboardInv,
         ReturnScancode \/ ReturnSpecial \/ ReturnAscii
  PROVE  Promise!Answer
<1> USE DEF KeyboardInv, Delivered, Untorn, Return, Copying, CopiedModifiers, mailbox
<1>1. ~torn => sc = [escaped |-> escape, key |-> key]
  BY CopiedWhole DEF ReturnScancode, ReturnSpecial, ReturnAscii
<1>2. arrived # {} /\ arrived' = {} /\ torn' = FALSE /\ reader_pc \notin {"idle", "clear"} /\ reader_pc' = "idle"
  BY DEF ReturnScancode, ReturnSpecial, ReturnAscii
<1>3. UNCHANGED <<escape, key, held>>
  BY DEF ReturnScancode, ReturnSpecial, ReturnAscii
<1>4. torn \/ ReturnScancode \/ mods = held
  BY DEF ReturnSpecial, ReturnAscii, KeyboardTypeOK
<1>8. CASE torn
  BY <1>2, <1>3, <1>8 DEF Promise!Answer
<1>5. CASE ReturnScancode /\ ~torn
  BY <1>1, <1>2, <1>3, <1>5 DEF ReturnScancode, Promise!Answer
<1>6. CASE ReturnSpecial /\ ~torn
  <2>1. Promise!Kind = "special"
    BY <1>1, <1>6 DEF ReturnSpecial, Promise!Kind
  <2>2. ~escape \/ key \in Named
    BY <1>1, <1>6 DEF ReturnSpecial
  <2>3. mods = held
    BY <1>6 DEF ReturnSpecial, KeyboardTypeOK
  <2>4. QED
    BY <1>1, <1>2, <1>3, <1>6, <2>1, <2>2, <2>3 DEF ReturnSpecial, Promise!Answer
<1>7. CASE ReturnAscii /\ ~torn
  <2>1. Promise!Kind = "ascii"
    BY <1>1, <1>7 DEF ReturnAscii, Promise!Kind
  <2>2. mods = held
    BY <1>7 DEF ReturnAscii, KeyboardTypeOK
  <2>3. QED
    BY <1>1, <1>2, <1>3, <1>7, <2>1, <2>2 DEF ReturnAscii, Promise!Answer
<1> QED BY <1>5, <1>6, <1>7, <1>8

\* Each step of the driver is one of KeyReader's, or none.
LEMMA ReaderStep ==
  ASSUME KeyboardInv, [KeyboardNext]_keyboardVars
  PROVE  [Promise!Next]_(Promise!vars)
<1> USE DEF mailbox, Promise!vars
<1>1. CASE ClearKey
  BY <1>1 DEF ClearKey, Promise!Next, Promise!Ask
<1>2. ASSUME NEW k \in Codes, KeyInterrupt(k)
      PROVE  [Promise!Next]_(Promise!vars)
  <2>1. CASE k = Prefix /\ ~kb_isr_escaped
    BY <1>2, <2>1 DEF KeyInterrupt, Wake
  <2>2. CASE ~(k = Prefix /\ ~kb_isr_escaped)
    <3>1. torn' \in {torn, reader_pc \notin {"idle", "clear"}}
      <4>1. CASE reader_pc \in Copying
        <5>1. torn' = TRUE
          BY <1>2, <2>2, <4>1 DEF KeyInterrupt
        <5>2. (reader_pc \notin {"idle", "clear"}) = TRUE
          BY <4>1 DEF Copying
        <5>3. QED BY <5>1, <5>2
      <4>2. CASE reader_pc \notin Copying
        <5>1. torn' = torn
          BY <1>2, <2>2, <4>2 DEF KeyInterrupt, KeyboardInv, KeyboardTypeOK
        <5>2. QED BY <5>1
      <4>3. QED BY <4>1, <4>2
    <3>2. QED
      BY <1>2, <2>2, <3>1 DEF KeyInterrupt, Wake, Promise!Next, Promise!Type
  <2>3. QED BY <2>1, <2>2
<1>3. CASE TryAgain
  <2>1. (~torn => sc = [escaped |-> escape, key |-> key]) /\ arrived # {}
    BY <1>3, CopiedWhole DEF TryAgain, KeyboardInv, Delivered, Copying
  <2>2. QED
    BY <1>3, <2>1 DEF TryAgain, Promise!Next, Promise!AskAgain
<1>4. CASE ReturnScancode \/ ReturnSpecial \/ ReturnAscii
  BY <1>4, ReturnRefines DEF Promise!Next
<1>5. CASE Call
  BY <1>5 DEF Call
<1>6. CASE Sti \/ Test \/ Hlt \/ CopyEscape \/ CopyKey
  BY <1>6 DEF Sti, Test, Hlt, CopyEscape, CopyKey
<1>7. ASSUME NEW m \in Modifiers, ReadModifier(m)
      PROVE  [Promise!Next]_(Promise!vars)
  BY <1>7 DEF ReadModifier, Following, Modifiers, Pressed
<1>8. CASE OtherInterrupt
  BY <1>8 DEF OtherInterrupt, Wake
<1>9. CASE UNCHANGED keyboardVars
  BY <1>9 DEF keyboardVars
<1> QED
  BY <1>1, <1>2, <1>3, <1>4, <1>5, <1>6, <1>7, <1>8, <1>9 DEF KeyboardNext, Reader

\* Unless a code comes in while another is copied, kb_read_scancode and
\* kb_read_key return the latest code, whole, with its modifiers (ksrc/kb.c:77-131).
THEOREM KeyboardImplementation == KeyboardSpec => ImplementsReader
<1>1. KeyboardInit => Promise!Init
  BY ReaderInit
<1>2. KeyboardInv /\ [KeyboardNext]_keyboardVars => [Promise!Next]_(Promise!vars)
  BY ReaderStep
<1> QED
  BY <1>1, <1>2, KeyboardInvariant, PTL DEF KeyboardSpec, ImplementsReader, Promise!Spec

-----------------------------------------------------------------------------
\* The disk.

DiskTypeOK ==
  /\ disk \in [0 .. Size - 1 -> Data]
  /\ buffer \in [0 .. Room - 1 -> Data]
  /\ bounce \in [0 .. AtATime - 1 -> Data]
  /\ request \in Requests
  /\ packet \in [lba : 0 .. Size, sectors : 0 .. AtATime]
  /\ failed \in BOOLEAN
  /\ i \in 0 .. request.sectors
  /\ disk_pc \in {"idle", "prepare", "bios", "copy", "check", "return", "panic"}

\* The call under way is about sectors of the request that have not moved.
InRequest == disk_pc \in {"prepare", "bios", "copy", "check"} =>
               /\ i + Chunk <= request.sectors
               /\ disk_pc # "prepare" => packet = [lba |-> Lba, sectors |-> Chunk]

\* What is in the bounce buffer is what the call is to move.
Bounced ==
  /\ disk_pc = "bios" /\ ~Reading => bounce[0] = buffer[i]
  /\ disk_pc = "copy" /\ ~failed =>
       Reading /\ \A k \in 0 .. Chunk - 1 : bounce[k] = disk[Lba + k]
  /\ disk_pc = "copy" => Reading

AllMoved == disk_pc = "return" => i = request.sectors

\* The inductive invariant: the packet and the bounce buffer say what the loop
\* means, whatever calls came before (ksrc/ata.c:70-114).
DiskInv == DiskTypeOK /\ InRequest /\ Bounced /\ AllMoved

LEMMA DiskInitInv == DiskInit => DiskInv
<1> SUFFICES ASSUME DiskInit PROVE DiskInv
  OBVIOUS
<1>1. packet \in [lba : 0 .. Size, sectors : 0 .. AtATime]
  BY SizesAssumption DEF DiskInit
<1>2. i \in 0 .. request.sectors
  BY SizesAssumption DEF DiskInit, Requests
<1>3. QED
  BY <1>1, <1>2 DEF DiskInit, DiskInv, DiskTypeOK, InRequest, Bounced, AllMoved

\* The next call moves at least a sector, unless none is left, and fits.
LEMMA ChunkFits ==
  ASSUME DiskTypeOK, disk_pc # "return",
         request.kind = "write" => i < request.sectors
  PROVE  /\ Chunk \in 0 .. AtATime
         /\ i + Chunk <= request.sectors
         /\ Lba \in 0 .. Size
BY SizesAssumption, SMTT(20) DEF DiskTypeOK, Requests, Chunk, Lba, Reading

\* Every step keeps DiskInv.
LEMMA DiskStepInv == DiskInv /\ [DiskNext]_diskVars => DiskInv'
<1> SUFFICES ASSUME DiskInv, [DiskNext]_diskVars PROVE DiskInv'
  OBVIOUS
<1> USE SizesAssumption DEF DiskInv
<1>1. CASE Ask
  <2>1. request' \in Requests /\ i' = 0 /\ disk_pc' \in {"return", "prepare"}
    BY <1>1 DEF Ask
  <2>2. DiskTypeOK'
    BY <1>1, <2>1 DEF Ask, DiskTypeOK, Requests
  <2>3. InRequest'
    BY <1>1, <2>1 DEF Ask, InRequest, Chunk, Reading, Requests
  <2>4. QED
    BY <1>1, <2>1, <2>2, <2>3 DEF Ask, Bounced, AllMoved, Requests
<1>2. CASE Prepare
  <2>1. Chunk \in 0 .. AtATime /\ i + Chunk <= request.sectors /\ Lba \in 0 .. Size
    BY <1>2, SMTT(20) DEF Prepare, InRequest, Chunk, Lba, Reading, DiskTypeOK, Requests
  <2>2. Chunk' = Chunk /\ Lba' = Lba /\ Reading' = Reading
    BY <1>2 DEF Prepare, Chunk, Lba, Reading
  <2>3. packet' = [lba |-> Lba, sectors |-> Chunk]
    BY <1>2 DEF Prepare
  <2>4. bounce' \in [0 .. AtATime - 1 -> Data] /\ (~Reading => bounce'[0] = buffer[i])
    <3>1. CASE Reading
      BY <1>2, <3>1 DEF Prepare, DiskTypeOK
    <3>2. CASE ~Reading
      <4>1. i \in 0 .. Room - 1
        BY <1>2, <2>1, <3>2 DEF DiskTypeOK, Requests, Chunk
      <4>2. QED
        BY <1>2, <3>2, <4>1 DEF Prepare, DiskTypeOK
    <3>3. QED BY <3>1, <3>2
  <2>5. DiskTypeOK'
    BY <1>2, <2>1, <2>3, <2>4 DEF Prepare, DiskTypeOK
  <2>6. InRequest'
    BY <1>2, <2>1, <2>2, <2>3 DEF Prepare, InRequest
  <2>7. Bounced'
    BY <1>2, <2>2, <2>4 DEF Prepare, Bounced
  <2>8. QED
    BY <1>2, <2>5, <2>6, <2>7 DEF Prepare, AllMoved
<1>3. ASSUME BiosMoves \/ BiosFails PROVE DiskInv'
  <2> USE DEF BiosMoves, BiosFails
  <2>1. packet.lba = Lba /\ packet.sectors = Chunk /\ Chunk \in 0 .. AtATime
        /\ Chunk' = Chunk /\ Lba' = Lba /\ Reading' = Reading
    BY <1>3 DEF InRequest, DiskTypeOK, Chunk, Lba, Reading
  <2>2. PICK f \in [0 .. packet.sectors - 1 -> Data] :
          /\ Moved(f)
          /\ ~failed' => f = [k \in 0 .. packet.sectors - 1 |->
                                IF Reading THEN disk[packet.lba + k] ELSE bounce[k]]
    <3>1. CASE BiosMoves
      <4> DEFINE g == [k \in 0 .. packet.sectors - 1 |->
                         IF Reading THEN disk[packet.lba + k] ELSE bounce[k]]
      <4>1. Chunk + Lba <= Size
        BY <1>3, <2>1 DEF InRequest, DiskTypeOK, Requests, Lba
      <4>2. \A k \in 0 .. packet.sectors - 1 :
              packet.lba + k \in 0 .. Size - 1 /\ k \in 0 .. AtATime - 1
        BY <2>1, <4>1 DEF DiskTypeOK
      <4>3. g \in [0 .. packet.sectors - 1 -> Data]
        BY <4>2 DEF DiskTypeOK
      <4>4. QED BY <3>1, <4>3
    <3>2. CASE BiosFails
      BY <3>2
    <3>3. QED BY <1>3, <3>1, <3>2
  <2>3. disk' \in [0 .. Size - 1 -> Data] /\ bounce' \in [0 .. AtATime - 1 -> Data]
    <3>1. CASE Reading
      <4>1. \A k \in 0 .. AtATime - 1 : k < packet.sectors => k \in 0 .. packet.sectors - 1
        BY DEF DiskTypeOK
      <4>2. /\ bounce' = [k \in 0 .. AtATime - 1 |-> IF k < packet.sectors THEN f[k] ELSE bounce[k]]
            /\ disk' = disk
        BY <2>2, <3>1 DEF Moved
      <4>3. QED BY <4>1, <4>2 DEF DiskTypeOK
    <3>2. CASE ~Reading
      <4>1. \A k \in 0 .. Size - 1 : InPacket(k) => k - packet.lba \in 0 .. packet.sectors - 1
        BY DEF InPacket, DiskTypeOK
      <4>2. QED BY <2>2, <3>2, <4>1 DEF Moved, DiskTypeOK
    <3>3. QED BY <3>1, <3>2
  <2>4. DiskTypeOK'
    <3>1. disk_pc' \in {"copy", "check"} /\ failed' \in BOOLEAN
      BY <1>3
    <3>2. UNCHANGED <<buffer, packet, request, i>>
      BY <1>3
    <3>3. QED BY <2>3, <3>1, <3>2 DEF DiskTypeOK
  <2>5. Bounced'
    <3>1. ASSUME disk_pc' = "copy", ~failed', NEW k \in 0 .. Chunk' - 1
          PROVE  bounce'[k] = disk'[Lba' + k]
      <4>1. Reading
        BY <1>3, <3>1
      <4>2. disk' = disk /\ bounce'[k] = f[k] /\ f[k] = disk[packet.lba + k]
        BY <2>1, <2>2, <3>1, <4>1 DEF Moved
      <4>3. QED BY <2>1, <4>2
    <3>2. disk_pc' = "copy" => Reading'
      BY <1>3, <2>1
    <3>3. QED BY <1>3, <3>1, <3>2 DEF Bounced
  <2>6. InRequest'
    BY <1>3, <2>1 DEF InRequest
  <2>7. QED BY <1>3, <2>4, <2>5, <2>6 DEF AllMoved
<1>4. CASE Copy
  <2>1. i \in Nat /\ Chunk \in 0 .. AtATime /\ Chunk' = Chunk /\ Lba' = Lba /\ Reading' = Reading
    BY <1>4 DEF Copy, InRequest, DiskTypeOK, Chunk, Lba, Reading
  <2>2. \A k \in 0 .. Room - 1 : i <= k /\ k < i + Chunk => k - i \in 0 .. AtATime - 1
    BY <2>1
  <2>3. buffer' \in [0 .. Room - 1 -> Data]
    BY <1>4, <2>2 DEF Copy, DiskTypeOK
  <2>4. DiskTypeOK'
    BY <1>4, <2>3 DEF Copy, DiskTypeOK
  <2>5. QED
    BY <1>4, <2>1, <2>4 DEF Copy, InRequest, Bounced, AllMoved
<1>5. CASE DiskPanic
  BY <1>5 DEF DiskPanic, DiskTypeOK, InRequest, Bounced, AllMoved
<1>6. CASE Advance
  <2>1. i' = i + Chunk /\ Chunk \in 0 .. AtATime /\ i' <= request.sectors /\ i \in Nat
        /\ request.sectors \in Nat
    BY <1>6 DEF Advance, InRequest, DiskTypeOK, Requests
  <2>2. DiskTypeOK'
    BY <1>6, <2>1 DEF Advance, DiskTypeOK, Requests
  <2>3. InRequest'
    BY <1>6, <2>1 DEF Advance, AllDone, InRequest, Chunk, Reading
  <2>4. AllMoved'
    BY <1>6, <2>1 DEF Advance, AllDone, AllMoved
  <2>5. QED
    BY <1>6, <2>2, <2>3, <2>4 DEF Advance, Bounced
<1>7. CASE DiskReturn
  BY <1>7 DEF DiskReturn, DiskTypeOK, InRequest, Bounced, AllMoved
<1>8. CASE UNCHANGED diskVars
  BY <1>8 DEF diskVars, DiskTypeOK, InRequest, Bounced, AllMoved, Chunk, Lba, Reading, Requests
<1>9. QED
  BY <1>1, <1>2, <1>3, <1>4, <1>5, <1>6, <1>7, <1>8 DEF DiskNext, Serve

\* For every size of disk, memory and bounce buffer, the packet and the bounce
\* buffer say what the loop means (ksrc/ata.c:70-114).
THEOREM DiskInvariant == DiskSpec => []DiskInv
BY DiskInitInv, DiskStepInv, PTL DEF DiskSpec

-----------------------------------------------------------------------------
\* The initial states are ones of Transfer.
LEMMA TransferInit == DiskInit => Transferring!Init
BY SizesAssumption DEF DiskInit, Requests, Moving, Transferring!Init, Transferring!Requests

\* Every step is one of Transfer or leaves its state alone.
LEMMA TransferStep == DiskInv /\ [DiskNext]_diskVars => [Transferring!Next]_(Transferring!vars)
<1> SUFFICES ASSUME DiskInv, [DiskNext]_diskVars
             PROVE  Transferring!Next \/ UNCHANGED Transferring!vars
  OBVIOUS
<1> DEFINE done == IF Moving THEN i + Chunk ELSE i
           state == IF disk_pc = "idle" THEN "idle"
                    ELSE IF disk_pc = "panic" \/ (disk_pc = "check" /\ failed) THEN "panic" ELSE "busy"
<1> USE SizesAssumption DEF DiskInv
<1>1. CASE Ask
  <2>1. request' \in Transferring!Requests
    BY <1>1 DEF Ask, Requests, Transferring!Requests
  <2>2. Transferring!Ask
    BY <1>1, <2>1 DEF Ask, Transferring!Ask, Moving
  <2>3. QED BY <2>2 DEF Transferring!Next
<1>2. CASE Prepare
  BY <1>2 DEF Prepare, Transferring!vars, Moving
<1>3. ASSUME BiosMoves \/ BiosFails, Reading PROVE UNCHANGED Transferring!vars
  BY <1>3 DEF BiosMoves, BiosFails, Moved, Transferring!vars, Moving
<1>4. ASSUME BiosMoves, ~Reading PROVE Transferring!Move(1)
  <2> USE DEF BiosMoves
  <2>1. /\ packet.lba = request.lba + i /\ packet.sectors = 1 /\ Chunk = 1 /\ Chunk' = 1
        /\ bounce[0] = buffer[i] /\ i + 1 <= request.sectors /\ request.kind = "write"
        /\ request.lba \in Nat /\ i \in Nat /\ request.sectors \in Nat
    BY <1>4 DEF InRequest, Bounced, Chunk, Lba, Reading, DiskTypeOK, Requests
  <2>2. /\ done = i /\ done' = i + 1 /\ state = "busy" /\ state' = "busy"
    BY <1>4, <2>1 DEF Moving
  <2>3. disk' = [k \in 0 .. Size - 1 |-> IF k = request.lba + i THEN buffer[i] ELSE disk[k]]
    <3> DEFINE f == [k \in 0 .. packet.sectors - 1 |->
                       IF Reading THEN disk[packet.lba + k] ELSE bounce[k]]
    <3>1. \A k \in 0 .. Size - 1 : /\ InPacket(k) <=> k = request.lba + i
                                  /\ InPacket(k) => k - packet.lba = 0
      BY <2>1 DEF InPacket
    <3>2. disk' = [k \in 0 .. Size - 1 |-> IF InPacket(k) THEN f[k - packet.lba] ELSE disk[k]]
      BY <1>4 DEF Moved
    <3>3. f[0] = buffer[i]
      BY <1>4, <2>1
    <3> HIDE DEF f
    <3>4. \A k \in 0 .. Size - 1 : (IF InPacket(k) THEN f[k - packet.lba] ELSE disk[k])
                                 = (IF k = request.lba + i THEN buffer[i] ELSE disk[k])
      BY <2>1, <3>1, <3>3 DEF InPacket
    <3>5. QED BY <3>2, <3>4, Zenon
  <2>4. buffer' = buffer /\ request' = request
    BY <1>4
  <2>5. Transferring!Set(1, [k \in 0 .. 1 - 1 |-> Transferring!Source(k)])
    <3> DEFINE f == [k \in 0 .. 1 - 1 |-> Transferring!Source(k)]
    <3>1. f[0] = buffer[i]
      BY <2>1, <2>2 DEF Transferring!Source, Moving
    <3>2. \A k \in 0 .. Size - 1 :
            (request.lba + done <= k /\ k < request.lba + done + 1) <=> k = request.lba + i
      BY <2>1, <2>2
    <3> HIDE DEF f
    <3>3. disk' = [k \in 0 .. Size - 1 |->
                     IF request.lba + done <= k /\ k < request.lba + done + 1
                     THEN f[k - (request.lba + done)] ELSE disk[k]]
      BY <2>1, <2>2, <2>3, <3>1, <3>2
    <3>4. Transferring!Set(1, f)
      BY <2>1, <2>4, <3>3 DEF Transferring!Set, Moving
    <3>5. QED BY <3>4 DEF f
  <2>6. 1 <= Transferring!Left
    BY <2>1, <2>2 DEF Transferring!Left, Moving
  <2>7. QED BY <2>2, <2>4, <2>5, <2>6 DEF Transferring!Move, Moving
<1>5. ASSUME BiosFails, ~Reading PROVE Transferring!Fail(1)
  <2> USE DEF BiosFails
  <2>1. /\ packet.lba = request.lba + i /\ packet.sectors = 1
        /\ i + 1 <= request.sectors /\ request.kind = "write"
        /\ request.lba \in Nat /\ i \in Nat /\ request.sectors \in Nat
    BY <1>5 DEF InRequest, Chunk, Lba, Reading, DiskTypeOK, Requests
  <2>2. done = i /\ done' = i /\ state = "busy" /\ state' = "panic"
    BY <1>5 DEF Moving
  <2>3. PICK f \in [0 .. 1 - 1 -> Data] : Moved(f)
    BY <1>5, <2>1
  <2>4. disk' = [k \in 0 .. Size - 1 |-> IF k = request.lba + i THEN f[0] ELSE disk[k]]
    <3>1. \A k \in 0 .. Size - 1 : /\ InPacket(k) <=> k = request.lba + i
                                  /\ InPacket(k) => k - packet.lba = 0
      BY <2>1 DEF InPacket
    <3>2. disk' = [k \in 0 .. Size - 1 |-> IF InPacket(k) THEN f[k - packet.lba] ELSE disk[k]]
      BY <1>5, <2>3 DEF Moved
    <3>3. \A k \in 0 .. Size - 1 : (IF InPacket(k) THEN f[k - packet.lba] ELSE disk[k])
                                 = (IF k = request.lba + i THEN f[0] ELSE disk[k])
      BY <2>1, <3>1 DEF InPacket
    <3>4. QED BY <3>2, <3>3, Zenon
  <2>5. buffer' = buffer /\ request' = request
    BY <1>5
  <2>6. Transferring!Set(1, f)
    BY <2>1, <2>2, <2>4, <2>5 DEF Transferring!Set, Moving
  <2>7. 1 <= Transferring!Left
    BY <2>1, <2>2 DEF Transferring!Left, Moving
  <2>8. QED BY <2>2, <2>3, <2>5, <2>6, <2>7 DEF Transferring!Fail, Moving
<1>6. ASSUME Copy PROVE Transferring!Move(Chunk) \/ Transferring!Fail(Chunk)
  <2> USE DEF Copy
  <2>1. /\ Chunk \in 0 .. AtATime /\ Chunk' = Chunk /\ i + Chunk <= request.sectors
        /\ request.kind = "read" /\ i \in Nat /\ request.sectors \in Nat /\ request.lba \in Nat
    BY <1>6 DEF InRequest, Bounced, Chunk, Reading, DiskTypeOK, Requests
  <2>2. done = i /\ state = "busy" /\ Chunk <= Transferring!Left
    BY <1>6, <2>1 DEF Moving, Transferring!Left
  <2>3. disk' = disk /\ request' = request
    BY <1>6
  <2>4. CASE failed
    <3> DEFINE f == [k \in 0 .. Chunk - 1 |-> bounce[k]]
    <3>1. f \in [0 .. Chunk - 1 -> Data]
      BY <2>1 DEF DiskTypeOK
    <3>2. \A k \in 0 .. Room - 1 : i <= k /\ k < i + Chunk => f[k - i] = bounce[k - i]
      BY <2>1
    <3>3. Transferring!Set(Chunk, f)
      BY <1>6, <2>1, <2>2, <2>3, <3>2 DEF Transferring!Set, Moving
    <3>4. done' = i /\ state' = "panic"
      BY <1>6, <2>4 DEF Moving
    <3>5. Transferring!Fail(Chunk)
      BY <2>2, <2>3, <3>1, <3>3, <3>4 DEF Transferring!Fail, Moving
    <3>6. QED BY <3>5
  <2>5. CASE ~failed
    <3> DEFINE f == [k \in 0 .. Chunk - 1 |-> Transferring!Source(k)]
    <3>1. \A k \in 0 .. Chunk - 1 : f[k] = bounce[k]
      BY <1>6, <2>1, <2>2, <2>5 DEF Bounced, Transferring!Source, Lba, Moving
    <3>2. \A k \in 0 .. Room - 1 : i <= k /\ k < i + Chunk => f[k - i] = bounce[k - i]
      BY <2>1, <3>1
    <3>3. Transferring!Set(Chunk, f)
      BY <1>6, <2>1, <2>2, <2>3, <3>2 DEF Transferring!Set, Moving
    <3>4. done' = i + Chunk /\ state' = "busy"
      BY <1>6, <2>1, <2>5 DEF Moving
    <3>5. Transferring!Move(Chunk)
      BY <2>2, <2>3, <3>3, <3>4 DEF Transferring!Move, Moving
    <3>6. QED BY <3>5
  <2>6. QED BY <2>4, <2>5
<1>7. CASE DiskPanic
  BY <1>7 DEF DiskPanic, Transferring!vars, Moving
<1>8. CASE Advance
  BY <1>8 DEF Advance, Transferring!vars, Moving
<1>9. CASE DiskReturn
  <2>1. done = request.sectors /\ done' = done
    BY <1>9 DEF DiskReturn, AllMoved, Moving
  <2>2. Transferring!Return
    BY <1>9, <2>1 DEF DiskReturn, Transferring!Return, Moving
  <2>3. QED BY <2>2 DEF Transferring!Next
<1>10. CASE UNCHANGED diskVars
  BY <1>10 DEF diskVars, Transferring!vars, Moving, Chunk, Reading
<1>11. ASSUME NEW n \in Nat, n <= Transferring!Left PROVE n \in 0 .. Transferring!Left
  BY <1>11 DEF Transferring!Left, DiskTypeOK, Requests, Moving, Chunk, Reading
<1>12. Copy => Transferring!Next
  <2> SUFFICES ASSUME Copy PROVE Transferring!Next
    OBVIOUS
  <2>1. Chunk \in Nat /\ Chunk <= Transferring!Left
    BY <1>6 DEF Copy, InRequest, DiskTypeOK, Transferring!Move, Transferring!Fail
  <2>2. Chunk \in 0 .. Transferring!Left
    BY <1>11, <2>1
  <2>3. QED BY <1>6, <2>2 DEF Transferring!Next
<1>13. ASSUME ~Reading, BiosMoves \/ BiosFails PROVE Transferring!Next
  <2>1. 1 <= Transferring!Left /\ (Transferring!Move(1) \/ Transferring!Fail(1))
    BY <1>4, <1>5, <1>13 DEF Transferring!Move, Transferring!Fail
  <2>2. 1 \in 0 .. Transferring!Left
    BY <1>11, <2>1
  <2>3. QED BY <2>1, <2>2 DEF Transferring!Next
<1>14. QED
  BY <1>1, <1>2, <1>3, <1>7, <1>8, <1>9, <1>10, <1>12, <1>13 DEF DiskNext, Serve

\* For every size, the driver moves each sector of a request once, in order and
\* nowhere else, and returns only when all have moved (ksrc/ata.c:20-114).
THEOREM DiskImplementation == DiskSpec => ImplementsTransfer
BY DiskInitInv, DiskStepInv, TransferInit, TransferStep, PTL
   DEF DiskSpec, ImplementsTransfer, Transferring!Spec

-----------------------------------------------------------------------------
\* The console.

\* The cell at a row and a column of the screen is one of its cells.
LEMMA PlaceFits ==
  ASSUME NEW w \in Nat \ {0}, NEW h \in Nat \ {0},
         NEW r \in 0 .. h - 1, NEW c \in 0 .. w - 1
  PROVE  r * w + c \in 0 .. w * h - 1
<1>1. r * w \in Nat /\ w * h \in Nat /\ r * w + c \in Nat
  BY SMT
<1>2. r * w <= (h - 1) * w
  BY SMT
<1>3. (h - 1) * w = w * h - w
  BY SMT
<1>4. QED
  BY <1>1, <1>2, <1>3

\* What is reduced by a size is below it.
LEMMA Reduced ==
  ASSUME NEW n \in Nat \ {0}, NEW a \in Int
  PROVE  a % n \in 0 .. n - 1
OBVIOUS

\* Different rows and columns are different cells.
LEMMA OnePlace ==
  ASSUME NEW w \in Nat \ {0}, NEW r \in Nat, NEW c \in 0 .. w - 1,
         NEW q \in Nat, NEW d \in 0 .. w - 1, r * w + c = q * w + d
  PROVE  r = q /\ c = d
<1>1. ASSUME NEW x \in Nat, NEW y \in Nat, NEW e \in 0 .. w - 1, NEW f \in 0 .. w - 1, x < y
      PROVE  x * w + e < y * w + f
  <2>1. (x + 1) * w =< y * w
    BY <1>1, SMT
  <2>2. (x + 1) * w = x * w + w /\ x * w \in Nat /\ y * w \in Nat
    BY SMT
  <2> QED BY <2>1, <2>2
<1>2. r * w \in Nat /\ q * w \in Nat
  BY SMT
<1>3. ~ r < q /\ ~ q < r
  <2>1. r < q => r * w + c < q * w + d
    BY <1>1
  <2>2. q < r => q * w + d < r * w + c
    BY <1>1
  <2> QED BY <2>1, <2>2, <1>2
<1>4. r = q
  BY <1>3
<1> QED BY <1>2, <1>4

Rows == 0 .. height - 1

LEMMA RowCellsFit ==
  ASSUME NEW q \in Rows, NEW j \in Columns
  PROVE  q * width + j \in Cells
BY ScreenAssumption, PlaceFits DEF Rows, Columns, Cells

\* Cell k of row r of v, changed to c; and what that is row by row.
ChangedAt(v, w, r, k, c) == w = [v EXCEPT ![r * width + k] = c]

ChangedThere(v, w, r, k, c) ==
  \A q \in Rows, j \in Columns :
    /\ q = r /\ j = k => RowOf(w, q)[j] = c
    /\ ~ (q = r /\ j = k) => RowOf(w, q)[j] = RowOf(v, q)[j]

\* A character written to a cell is in its row and in no other.
LEMMA WrittenRows ==
  ASSUME NEW S, NEW v \in [Cells -> S], NEW r \in Rows, NEW k \in Columns, NEW c,
         NEW w, ChangedAt(v, w, r, k, c)
  PROVE  ChangedThere(v, w, r, k, c)
<1>1. ASSUME NEW q \in Rows, NEW j \in Columns
      PROVE  /\ q = r /\ j = k => RowOf(w, q)[j] = c
             /\ ~ (q = r /\ j = k) => RowOf(w, q)[j] = RowOf(v, q)[j]
  <2> DEFINE p == r * width + k
             o == q * width + j
  <2>1. p \in Cells /\ o \in Cells
    BY RowCellsFit
  <2>2. o = p => q = r /\ j = k
    <3>1. /\ width \in Nat \ {0} /\ r \in Nat /\ q \in Nat
          /\ j \in 0 .. width - 1 /\ k \in 0 .. width - 1
      BY ScreenAssumption DEF Rows, Columns
    <3> QED BY <3>1, OnePlace
  <2>3. q = r /\ j = k => o = p
    OBVIOUS
  <2>4. RowOf(w, q)[j] = w[o] /\ RowOf(v, q)[j] = v[o]
    BY DEF RowOf
  <2>5. w[p] = c /\ (o # p => w[o] = v[o])
    BY <2>1 DEF ChangedAt
  <2> HIDE DEF p, o
  <2> QED BY <2>2, <2>3, <2>4, <2>5
<1> QED BY <1>1 DEF ChangedThere

\* Scrolling moves every row up, and leaves the last one empty.
LEMMA ScrolledRows ==
  ASSUME NEW S, NEW v \in [Cells -> S], NEW q \in Rows
  PROVE  /\ q < height - 1 => q + 1 \in Rows /\ RowOf(Scrolled(v), q) = RowOf(v, q + 1)
         /\ q = height - 1 => RowOf(Scrolled(v), q) = [k \in Columns |-> Blank]
<1> USE ScreenAssumption
<1>1. /\ q \in Nat /\ width \in Nat /\ height \in Nat /\ height >= 1 /\ q * width \in Nat
      /\ (q + 1) * width = q * width + width
      /\ Last = (height - 1) * width /\ Last \in Nat
  BY SMT DEF Rows, Last
<1>2. ASSUME NEW k \in Columns PROVE RowOf(Scrolled(v), q)[k] =
        IF q * width + k < Last THEN v[q * width + k + width] ELSE Blank
  BY RowCellsFit DEF RowOf, Scrolled
<1>3. ASSUME q < height - 1, NEW k \in Columns
      PROVE  q * width + k < Last /\ q * width + k + width = (q + 1) * width + k
  <2>1. (q + 1) * width =< (height - 1) * width
    BY <1>1, <1>3, SMT
  <2> QED BY <2>1, <1>1 DEF Columns
<1>4. ASSUME q = height - 1, NEW k \in Columns
      PROVE  ~ (q * width + k < Last)
  <2>1. q * width = Last
    BY <1>4 DEF Last
  <2> QED BY <2>1, <1>1 DEF Columns
<1>5. ASSUME q < height - 1
      PROVE  q + 1 \in Rows /\ RowOf(Scrolled(v), q) = RowOf(v, q + 1)
  <2>1. \A k \in Columns : RowOf(Scrolled(v), q)[k] = v[(q + 1) * width + k]
    BY <1>2, <1>3, <1>5
  <2>2. RowOf(Scrolled(v), q) = [k \in Columns |-> RowOf(Scrolled(v), q)[k]]
    BY DEF RowOf
  <2>3. RowOf(v, q + 1) = [k \in Columns |-> v[(q + 1) * width + k]]
    BY DEF RowOf
  <2>4. q + 1 \in Rows
    BY <1>1, <1>5 DEF Rows
  <2> QED BY <2>1, <2>2, <2>3, <2>4
<1>6. ASSUME q = height - 1
      PROVE  RowOf(Scrolled(v), q) = [k \in Columns |-> Blank]
  <2>1. \A k \in Columns : RowOf(Scrolled(v), q)[k] = Blank
    BY <1>2, <1>4, <1>6
  <2>2. RowOf(Scrolled(v), q) = [k \in Columns |-> RowOf(Scrolled(v), q)[k]]
    BY DEF RowOf
  <2> QED BY <2>1, <2>2
<1> QED BY <1>5, <1>6

\* A character behind the last one.
LEMMA FilledByOne ==
  ASSUME NEW S, NEW v \in [Cells -> S], NEW r \in Rows, NEW k \in Columns, FilledTo(v, r, k),
         NEW c, c # Blank, NEW w, ChangedAt(v, w, r, k, c)
  PROVE  FilledTo(w, r, k + 1)
<1>1. \A q \in Rows, j \in Columns :
        /\ q = r /\ j = k => RowOf(w, q)[j] = c
        /\ ~ (q = r /\ j = k) => RowOf(w, q)[j] = RowOf(v, q)[j]
  BY WrittenRows DEF ChangedThere
<1>2. k \in Nat /\ k + 1 \in Nat /\ k =< width - 1 /\ width \in Nat /\ r \in Nat
  BY ScreenAssumption DEF Columns, Rows
<1>3. ASSUME NEW q \in 0 .. height - 1, NEW j \in Columns, RowOf(w, q)[j] # Blank
      PROVE  /\ q < r \/ (q = r /\ j < k + 1)
             /\ \A h \in 0 .. j - 1 : RowOf(w, q)[h] # Blank
  <2>1. q \in Rows /\ j \in Nat /\ j =< width - 1 /\ \A h \in 0 .. j - 1 : h \in Columns
    BY ScreenAssumption DEF Rows, Columns
  <2>2. CASE q = r /\ j = k
    <3>1. \A h \in 0 .. k - 1 : RowOf(v, r)[h] # Blank
      BY DEF FilledTo
    <3>2. \A h \in 0 .. k - 1 : h # k
      BY <1>2
    <3> QED BY <3>1, <3>2, <2>1, <2>2, <1>1, <1>2
  <2>3. CASE ~ (q = r /\ j = k)
    <3>1. RowOf(v, q)[j] # Blank
      BY <2>1, <2>3, <1>1, <1>3
    <3>2. /\ q < r \/ (q = r /\ j < k)
          /\ \A h \in 0 .. j - 1 : RowOf(v, q)[h] # Blank
      BY <3>1 DEF FilledTo
    <3>3. q < r \/ (q = r /\ j < k + 1)
      BY <3>2, <2>1, <1>2
    <3> QED BY <3>2, <3>3, <2>1, <1>1
  <2> QED BY <2>2, <2>3
<1>4. ASSUME NEW j \in 0 .. (k + 1) - 1 PROVE RowOf(w, r)[j] # Blank
  <2>1. j \in Columns /\ (j = k \/ j \in 0 .. k - 1)
    BY <1>2 DEF Columns
  <2>2. j \in 0 .. k - 1 => RowOf(v, r)[j] # Blank
    BY DEF FilledTo
  <2> QED BY <2>1, <2>2, <1>1
<1> QED BY <1>3, <1>4 DEF FilledTo

\* Going on in the next row.
LEMMA FilledNextRow ==
  ASSUME NEW v, NEW r \in Nat, NEW k \in Int, FilledTo(v, r, k)
  PROVE  FilledTo(v, r + 1, 0)
<1>1. ASSUME NEW q \in 0 .. height - 1, NEW j \in Columns, RowOf(v, q)[j] # Blank
      PROVE  /\ q < r + 1 \/ (q = r + 1 /\ j < 0)
             /\ \A h \in 0 .. j - 1 : RowOf(v, q)[h] # Blank
  <2>1. q < r \/ q = r
    BY <1>1 DEF FilledTo
  <2>2. \A h \in 0 .. j - 1 : RowOf(v, q)[h] # Blank
    BY <1>1 DEF FilledTo
  <2>3. q < r + 1
    BY <2>1, ScreenAssumption
  <2> QED BY <2>2, <2>3
<1> QED BY <1>1 DEF FilledTo

\* A full screen, scrolled.
LEMMA FilledScrolled ==
  ASSUME NEW S, NEW v \in [Cells -> S], FilledTo(v, height, 0)
  PROVE  FilledTo(Scrolled(v), height - 1, 0)
<1>1. ASSUME NEW q \in 0 .. height - 1, NEW j \in Columns, RowOf(Scrolled(v), q)[j] # Blank
      PROVE  /\ q < height - 1 \/ (q = height - 1 /\ j < 0)
             /\ \A h \in 0 .. j - 1 : RowOf(Scrolled(v), q)[h] # Blank
  <2>1. q \in Rows /\ q \in Int /\ height \in Int
    BY ScreenAssumption DEF Rows
  <2>2. q # height - 1
    <3> SUFFICES ASSUME q = height - 1 PROVE FALSE
      OBVIOUS
    <3>1. RowOf(Scrolled(v), q) = [k \in Columns |-> Blank]
      BY <2>1, ScrolledRows
    <3> QED BY <3>1, <1>1
  <2>3. q < height - 1
    BY <2>1, <2>2
  <2>4. q + 1 \in Rows /\ RowOf(Scrolled(v), q) = RowOf(v, q + 1)
    BY <2>1, <2>3, ScrolledRows
  <2>5. \A h \in 0 .. j - 1 : RowOf(v, q + 1)[h] # Blank
    BY <1>1, <2>4 DEF FilledTo, Rows
  <2> QED BY <2>3, <2>4, <2>5
<1> QED BY <1>1 DEF FilledTo

\* One more character, or a newline: the screen before it is scrolled.
LEMMA FilledByChar ==
  ASSUME ConsoleTypeOK, OnScreen, FilledTo(vram, row, col),
         NEW c \in Letters \cup {Newline}, Char(c)
  PROVE  /\ Written(c) \in [Cells -> Letters \cup {Blank}]
         /\ FilledTo(Written(c), NextRow(c), NextCol(c))
         /\ FilledTo(vram', row', col')
<1> USE ScreenAssumption
<1>1. col \in Columns /\ row \in Rows /\ row \in Nat /\ col \in Nat /\ vram \in [Cells -> Letters \cup {Blank}]
  BY DEF OnScreen, Columns, Rows, ConsoleTypeOK
<1>2. Written(c) \in [Cells -> Letters \cup {Blank}]
  <2>1. Place \in Cells
    BY <1>1, RowCellsFit DEF Place
  <2> QED BY <1>1, <2>1 DEF Written
<1>3. FilledTo(Written(c), NextRow(c), NextCol(c))
  <2>1. CASE c = Newline
    <3>1. FilledTo(vram, row + 1, 0)
      BY <1>1, FilledNextRow
    <3> QED BY <3>1, <2>1 DEF Written, NextRow, NextCol
  <2>2. CASE c # Newline
    <3>1. c # Blank
      BY <2>2, LettersAssumption
    <3>2. FilledTo(Written(c), row, col + 1)
      <4>1. ChangedAt(vram, Written(c), row, col, c)
        BY <2>2 DEF Written, Place, ChangedAt
      <4> QED BY <4>1, <3>1, <1>1, FilledByOne
    <3>3. FilledTo(Written(c), row + 1, 0)
      <4>1. col + 1 \in Int
        BY <1>1
      <4> QED BY <3>2, <4>1, <1>1, FilledNextRow
    <3> QED BY <3>2, <3>3, <2>2 DEF NextRow, NextCol
  <2> QED BY <2>1, <2>2
<1>4. FilledTo(vram', row', col')
  <2>1. CASE NextRow(c) = height
    <3>1. NextCol(c) = 0
      BY <2>1, <1>1 DEF NextRow, NextCol, OnScreen
    <3>2. FilledTo(Scrolled(Written(c)), height - 1, 0)
      BY <3>1, <2>1, <1>2, <1>3, FilledScrolled
    <3> QED BY <3>1, <3>2, <2>1 DEF Char, RowScrolled
  <2>2. CASE NextRow(c) # height
    BY <2>2, <1>3 DEF Char, RowScrolled
  <2> QED BY <2>1, <2>2
<1> QED BY <1>2, <1>3, <1>4

LEMMA ConsoleInitInv == ConsoleInit => ConsoleInv
<1> SUFFICES ASSUME ConsoleInit PROVE ConsoleInv
  OBVIOUS
<1>1. 0 * width + 0 \in Cells /\ 0 * width + 0 = 0
  BY ScreenAssumption, PlaceFits DEF Cells
<1>2. cursor = Place /\ cursor \in Cells
  BY <1>1 DEF ConsoleInit, Place
<1>3. col \in 0 .. width - 1 /\ row \in 0 .. height - 1
  BY ScreenAssumption DEF ConsoleInit
<1>4. vram \in [Cells -> Letters \cup {Blank}] /\ printing \in BOOLEAN /\ moved \in BOOLEAN
  BY DEF ConsoleInit
<1>5. FilledTo(vram, row, col)
  <2>1. \A q \in 0 .. height - 1, j \in Columns : q * width + j \in Cells
    BY RowCellsFit DEF Rows
  <2>2. \A q \in 0 .. height - 1, j \in Columns : RowOf(vram, q)[j] = Blank
    BY <2>1 DEF RowOf, ConsoleInit
  <2>3. \A j \in 0 .. col - 1 : FALSE
    BY DEF ConsoleInit
  <2> QED BY <2>2, <2>3 DEF FilledTo
<1>6. QED
  BY <1>2, <1>3, <1>4, <1>5 DEF ConsoleInv, ConsoleTypeOK, OnScreen, CursorFollows, FilledFromLeft

OnTheSpot == ConsoleTypeOK /\ OnScreen /\ CursorFollows

\* Each character is written to the cell of the cursor, and there it stays.
LEMMA ConsoleStepSpot == OnTheSpot /\ [ConsoleNext]_consoleVars => OnTheSpot'
<1> SUFFICES ASSUME OnTheSpot, [ConsoleNext]_consoleVars PROVE OnTheSpot'
  OBVIOUS
<1> USE ScreenAssumption, WordAssumption DEF OnTheSpot
<1>1. CASE Begin
  BY <1>1 DEF Begin, ConsoleTypeOK, OnScreen, CursorFollows
<1>2. CASE Finish
  <2>1. Place \in Cells
    BY PlaceFits DEF OnScreen, Place, Cells
  <2>2. QED
    BY <1>2, <2>1 DEF Finish, ConsoleTypeOK, OnScreen, CursorFollows, Place
<1>3. CASE ClearScreen
  BY <1>3 DEF ClearScreen, ConsoleTypeOK, OnScreen, CursorFollows, Place
<1>4. ASSUME NEW c \in Letters \cup {Newline}, Char(c) PROVE OnTheSpot'
  <2>1. Written(c) \in [Cells -> Letters \cup {Blank}]
    <3>1. Place \in Cells
      BY PlaceFits DEF OnScreen, Place, Cells
    <3>2. QED
      BY <3>1 DEF ConsoleTypeOK, Written
  <2>2. Scrolled(Written(c)) \in [Cells -> Letters \cup {Blank}]
    <3>1. (height - 1) * width = width * height - width
      BY SMT
    <3>2. \A k \in Cells : k < Last => k + width \in Cells
      BY <3>1, PlaceFits DEF Cells, Last
    <3>3. QED
      BY <2>1, <3>2 DEF Scrolled
  <2>3. vram' \in [Cells -> Letters \cup {Blank}]
    BY <1>4, <2>1, <2>2 DEF Char
  <2>4. OnScreen'
    BY <1>4 DEF Char, OnScreen, NextRow, NextCol, RowScrolled
  <2>5. QED
    BY <1>4, <2>3, <2>4 DEF Char, ConsoleTypeOK, CursorFollows
<1>5. ASSUME NEW x \in 0 .. Far, NEW y \in 0 .. Far, Gotoxy(x, y) PROVE OnTheSpot'
  <2>1. col' \in 0 .. width - 1 /\ row' \in 0 .. height - 1
    BY <1>5, Reduced DEF Gotoxy
  <2>2. row' * width + col' \in Cells
    BY <2>1, PlaceFits DEF Cells
  <2>3. QED
    BY <1>5, <2>1, <2>2 DEF Gotoxy, ConsoleTypeOK, OnScreen, CursorFollows, Place
<1>6. ASSUME NEW x \in Shifts, NEW y \in Shifts, Movexy(x, y) PROVE OnTheSpot'
  <2>1. ASSUME NEW a \in Nat, NEW b \in Int, NEW n \in Nat \ {0}
        PROVE  Sum(a, b, n) \in 0 .. n - 1
    <3>1. (a + b) % Word \in Int
      BY Reduced
    <3>2. QED BY <3>1, Reduced DEF Sum
  <2>2. col' \in 0 .. width - 1 /\ row' \in 0 .. height - 1
    <3>1. x \in Int /\ y \in Int /\ col \in Nat /\ row \in Nat
      BY DEF Shifts, OnScreen
    <3>2. Sum(col, x, width) \in 0 .. width - 1 /\ Sum(row, y, height) \in 0 .. height - 1
      BY <2>1, <3>1
    <3>3. QED BY <1>6, <3>2 DEF Movexy
  <2>3. row' * width + col' \in Cells
    BY <2>2, PlaceFits DEF Cells
  <2>4. QED
    BY <1>6, <2>2, <2>3 DEF Movexy, ConsoleTypeOK, OnScreen, CursorFollows, Place
<1>7. CASE UNCHANGED consoleVars
  BY <1>7 DEF consoleVars, ConsoleTypeOK, OnScreen, CursorFollows, Place
<1>8. QED
  BY <1>1, <1>2, <1>3, <1>4, <1>5, <1>6, <1>7 DEF ConsoleNext


LEMMA ConsoleStepFilled == ConsoleInv /\ [ConsoleNext]_consoleVars => FilledFromLeft'
<1> SUFFICES ASSUME ConsoleInv, [ConsoleNext]_consoleVars, ~moved' PROVE FilledTo(vram', row', col')
  BY DEF FilledFromLeft
<1>1. ASSUME NEW c \in Letters \cup {Newline}, Char(c) PROVE FilledTo(vram', row', col')
  <2>1. FilledTo(vram, row, col)
    BY <1>1 DEF Char, ConsoleInv, FilledFromLeft
  <2> QED BY <2>1, <1>1, FilledByChar DEF ConsoleInv
<1>2. CASE UNCHANGED <<vram, row, col, moved>>
  BY <1>2 DEF ConsoleInv, FilledFromLeft
<1>3. CASE Begin \/ Finish \/ UNCHANGED consoleVars
  BY <1>2, <1>3 DEF Begin, Finish, consoleVars
<1>4. CASE ClearScreen \/ (\E x, y \in 0 .. Far : Gotoxy(x, y)) \/ (\E x, y \in Shifts : Movexy(x, y))
  BY <1>4 DEF ClearScreen, Gotoxy, Movexy
<1> QED BY <1>1, <1>3, <1>4 DEF ConsoleNext

\* Every step keeps ConsoleInv.
LEMMA ConsoleStepInv == ConsoleInv /\ [ConsoleNext]_consoleVars => ConsoleInv'
BY ConsoleStepSpot, ConsoleStepFilled DEF ConsoleInv, OnTheSpot

\* Whatever is printed and wherever the cursor is moved, nothing is ever written
\* outside the screen (ksrc/console.c:71-115).
THEOREM StaysOnScreen == ConsoleSpec => []ConsoleInv
BY ConsoleInitInv, ConsoleStepInv, PTL DEF ConsoleSpec

-----------------------------------------------------------------------------
\* What prints show.

\* What row r of the screen v shows, and the rows up to it.
ShownIn(v, r) == [q \in 1 .. r + 1 |-> LettersOf(RowOf(v, q - 1))]

\* A row whose first n cells, and no more, are filled.
LEMMA FilledIs ==
  ASSUME NEW s, NEW n \in 0 .. width,
         \A j \in 0 .. n - 1 : s[j] # Blank,
         n < width => s[n] = Blank
  PROVE  Filled(s) = n
<1> USE ScreenAssumption
<1>1. ShowsFirst(s, n)
  BY DEF ShowsFirst
<1>2. ASSUME NEW m \in 0 .. width, ShowsFirst(s, m) PROVE m = n
  <2> USE DEF ShowsFirst
  <2>1. ~ (m < n)
    <3> SUFFICES ASSUME m < n PROVE FALSE
      OBVIOUS
    <3>1. m \in 0 .. n - 1 /\ m < width
      OBVIOUS
    <3> QED BY <3>1, <1>2
  <2>2. ~ (n < m)
    <3> SUFFICES ASSUME n < m PROVE FALSE
      OBVIOUS
    <3>1. n \in 0 .. m - 1 /\ n < width
      OBVIOUS
    <3> QED BY <3>1, <1>2
  <2> QED BY <2>1, <2>2
<1> QED BY <1>1, <1>2 DEF Filled

\* The row of the cursor shows what is before the cursor.
LEMMA CurrentRow ==
  ASSUME NEW v, NEW r \in Rows, NEW k \in 0 .. width, FilledTo(v, r, k)
  PROVE  LettersOf(RowOf(v, r)) = [j \in 1 .. k |-> RowOf(v, r)[j - 1]]
<1> USE ScreenAssumption
<1>1. \A j \in 0 .. k - 1 : RowOf(v, r)[j] # Blank
  BY DEF FilledTo
<1>2. ASSUME k < width PROVE RowOf(v, r)[k] = Blank
  <2>1. k \in Columns /\ r \in 0 .. height - 1 /\ ~ (r < r) /\ ~ (k < k)
    BY <1>2 DEF Columns, Rows
  <2> QED BY <2>1 DEF FilledTo
<1>3. Filled(RowOf(v, r)) = k
  BY <1>1, <1>2, FilledIs
<1> QED BY <1>3 DEF LettersOf

\* A row with nothing in it.
LEMMA EmptyRow ==
  ASSUME NEW s, s[0] = Blank
  PROVE  LettersOf(s) = << >>
<1>1. Filled(s) = 0
  BY FilledIs, ScreenAssumption
<1>2. LettersOf(s) = [k \in 1 .. 0 |-> s[k - 1]]
  BY <1>1 DEF LettersOf
<1> QED BY <1>2

LEMMA ShownInit == ConsoleInit => Shown!Init
<1> SUFFICES ASSUME ConsoleInit PROVE LettersShown = << << >> >>
  BY DEF Shown!Init
<1>1. row = 0 /\ vram \in [Cells -> {Blank}]
  BY DEF ConsoleInit
<1>2. RowOf(vram, 0)[0] = Blank
  <2>1. 0 \in Columns /\ 0 * width + 0 = 0 /\ 0 \in Rows
    BY ScreenAssumption DEF Columns, Rows
  <2>2. 0 * width + 0 \in Cells
    BY <2>1, RowCellsFit
  <2> QED BY <2>1, <2>2, <1>1 DEF RowOf
<1>3. LettersOf(RowOf(vram, 0)) = << >>
  BY <1>2, EmptyRow
<1>4. LettersShown = [r \in 1 .. 1 |-> LettersOf(RowOf(vram, r - 1))]
  BY <1>1 DEF LettersShown
<1>5. \A r \in 1 .. 1 : r - 1 = 0
  OBVIOUS
<1>6. LettersShown = [r \in 1 .. 1 |-> << >>]
  BY <1>3, <1>4, <1>5
<1> QED BY <1>6

LEMMA AppendIs ==
  ASSUME NEW T, NEW n \in Nat, NEW f \in [1 .. n -> T], NEW e \in T,
         NEW g \in [1 .. n + 1 -> T], \A j \in 1 .. n : g[j] = f[j], g[n + 1] = e
  PROVE  g = Append(f, e)
<1>1. f \in Seq(T) /\ Len(f) = n
  OBVIOUS
<1>2. Append(f, e) \in Seq(T) /\ Len(Append(f, e)) = n + 1
  BY <1>1
<1>3. Append(f, e) \in [1 .. n + 1 -> T]
  BY <1>2, LenProperties
<1>4. Append(f, e)[n + 1] = e /\ \A j \in 1 .. n : Append(f, e)[j] = f[j]
  BY <1>1
<1>5. \A j \in 1 .. n + 1 : j \in 1 .. n \/ j = n + 1
  OBVIOUS
<1>6. \A j \in 1 .. n + 1 : Append(f, e)[j] = g[j]
  BY <1>4, <1>5
<1> QED BY <1>3, <1>6

\* A letter in the cell of the cursor comes behind the letters of its row.
LEMMA ShownLetter ==
  ASSUME ConsoleTypeOK, OnScreen, FilledTo(vram, row, col), NEW c \in Letters
  PROVE  /\ ShownIn(Written(c), row)
              = [LettersShown EXCEPT ![Len(LettersShown)] = Append(@, c)]
         /\ Len(ShownIn(Written(c), row)[row + 1]) = col + 1
<1> USE ScreenAssumption
<1> DEFINE w == Written(c)
           s == LettersShown
           t == ShownIn(w, row)
<1>1. /\ col \in Columns /\ row \in Rows /\ row \in Nat /\ col \in Nat /\ col + 1 \in 0 .. width
      /\ vram \in [Cells -> Letters \cup {Blank}] /\ c # Blank /\ c # Newline
  BY LettersAssumption DEF OnScreen, Columns, Rows, ConsoleTypeOK, Newline
<1>2. ChangedAt(vram, w, row, col, c)
  BY <1>1 DEF Written, Place, ChangedAt
<1>3. FilledTo(w, row, col + 1)
  BY <1>1, <1>2, FilledByOne
<1>4. \A q \in Rows, j \in Columns :
        /\ q = row /\ j = col => RowOf(w, q)[j] = c
        /\ ~ (q = row /\ j = col) => RowOf(w, q)[j] = RowOf(vram, q)[j]
  <2>1. ChangedThere(vram, w, row, col, c)
    BY <1>1, <1>2, WrittenRows
  <2> QED BY <2>1 DEF ChangedThere
<1> HIDE DEF w
<1>5. LettersOf(RowOf(w, row)) = [j \in 1 .. col + 1 |-> RowOf(w, row)[j - 1]]
  BY <1>1, <1>3, CurrentRow
<1>6. LettersOf(RowOf(vram, row)) = [j \in 1 .. col |-> RowOf(vram, row)[j - 1]]
  <2>1. col \in 0 .. width
    BY <1>1
  <2> QED BY <2>1, <1>1, CurrentRow
<1>7. LettersOf(RowOf(w, row)) = Append(LettersOf(RowOf(vram, row)), c)
  <2> DEFINE f == [j \in 1 .. col |-> RowOf(vram, row)[j - 1]]
             g == [j \in 1 .. col + 1 |-> RowOf(w, row)[j - 1]]
             T == Letters \cup {Blank}
  <2>1. \A j \in 1 .. col : j - 1 \in Columns /\ j - 1 # col
    BY <1>1 DEF Columns
  <2>2. \A j \in 1 .. col : g[j] = f[j]
    BY <2>1, <1>1, <1>4
  <2>3. g[col + 1] = c
    BY <1>1, <1>4
  <2>4. \A j \in Columns : RowOf(vram, row)[j] \in T
    BY <1>1, RowCellsFit DEF RowOf
  <2>5. f \in [1 .. col -> T]
    BY <2>1, <2>4
  <2>6. g \in [1 .. col + 1 -> T]
    <3>1. \A j \in 1 .. col + 1 : j \in 1 .. col \/ j = col + 1
      BY <1>1
    <3>2. \A j \in 1 .. col + 1 : g[j] \in T
      BY <3>1, <2>2, <2>3, <2>5
    <3> QED BY <3>2
  <2>7. c \in T /\ col \in Nat
    BY <1>1
  <2> HIDE DEF f, g, T
  <2>8. g = Append(f, c)
    BY <2>2, <2>3, <2>5, <2>6, <2>7, AppendIs
  <2> QED BY <2>8, <1>5, <1>6 DEF f, g
<1>8. \A q \in 0 .. row - 1 : RowOf(w, q) = RowOf(vram, q)
  <2> TAKE q \in 0 .. row - 1
  <2>1. q \in Rows /\ q # row
    BY <1>1 DEF Rows
  <2>2. \A j \in Columns : RowOf(w, q)[j] = RowOf(vram, q)[j]
    BY <2>1, <1>4
  <2> QED BY <2>2 DEF RowOf
<1>9. Len(s) = row + 1
  BY <1>1 DEF LettersShown
<1>10. t = [s EXCEPT ![row + 1] = Append(@, c)]
  <2>1. \A q \in 1 .. row + 1 : q - 1 \in 0 .. row - 1 \/ (q = row + 1 /\ q - 1 = row)
    BY <1>1
  <2>2. t[row + 1] = Append(s[row + 1], c)
    <3>1. row + 1 \in 1 .. row + 1 /\ (row + 1) - 1 = row
      BY <1>1
    <3>2. t[row + 1] = LettersOf(RowOf(w, row)) /\ s[row + 1] = LettersOf(RowOf(vram, row))
      BY <3>1 DEF ShownIn, LettersShown
    <3> QED BY <3>2, <1>7
  <2>3. \A q \in 1 .. row + 1 : q # row + 1 => t[q] = s[q]
    BY <2>1, <1>8 DEF ShownIn, LettersShown
  <2> QED BY <2>2, <2>3 DEF ShownIn, LettersShown
<1>11. Len(t[row + 1]) = col + 1
  <2>1. t[row + 1] = [j \in 1 .. col + 1 |-> RowOf(w, row)[j - 1]]
    BY <1>1, <1>5 DEF ShownIn
  <2> QED BY <2>1, <1>1
<1>12. t = [s EXCEPT ![Len(s)] = Append(@, c)]
  <2> HIDE DEF s, t
  <2> QED BY <1>9, <1>10
<1> QED BY <1>11, <1>12 DEF w


\* A new row: below the others, or in place of the first.
LEMMA ShownNewRow ==
  ASSUME NEW S, NEW v \in [Cells -> S], NEW r \in Rows, NEW k \in Int, FilledTo(v, r, k)
  PROVE  /\ r + 1 # height => ShownIn(v, r + 1) = Shown!Begun(ShownIn(v, r))
         /\ r + 1 = height => ShownIn(Scrolled(v), r) = Shown!Begun(ShownIn(v, r))
<1> USE ScreenAssumption
<1> DEFINE s == ShownIn(v, r)
<1>1. r \in Nat /\ r + 1 \in Nat /\ height \in Nat /\ r + 1 =< height /\ 0 \in Columns
  BY DEF Rows, Columns
<1>2. Len(s) = r + 1
  BY <1>1 DEF ShownIn
<1> DEFINE T == {s[q] : q \in 1 .. r + 1} \cup {<< >>}
<1>3. s \in [1 .. r + 1 -> T]
  BY DEF ShownIn
<1>4. << >> \in T
  OBVIOUS
<1>5. ASSUME r + 1 # height PROVE ShownIn(v, r + 1) = Shown!Begun(s)
  <2> DEFINE t == ShownIn(v, r + 1)
  <2>1. \A q \in 1 .. r + 1 : t[q] = s[q]
    BY <1>1 DEF ShownIn
  <2>2. t[r + 1 + 1] = << >>
    <3>1. r + 1 \in Rows
      BY <1>1, <1>5 DEF Rows
    <3>2. RowOf(v, r + 1)[0] = Blank
      <4>1. r + 1 \in 0 .. height - 1 /\ ~ (r + 1 < r) /\ r + 1 # r
        BY <3>1, <1>1 DEF Rows
      <4> QED BY <4>1, <1>1 DEF FilledTo
    <3>3. LettersOf(RowOf(v, r + 1)) = << >>
      BY <3>2, EmptyRow
    <3>4. r + 1 + 1 \in 1 .. r + 1 + 1 /\ (r + 1 + 1) - 1 = r + 1
      BY <1>1
    <3> QED BY <3>3, <3>4 DEF ShownIn
  <2>3. t \in [1 .. r + 1 + 1 -> T]
    <3>1. \A q \in 1 .. r + 1 + 1 : q \in 1 .. r + 1 \/ q = r + 1 + 1
      BY <1>1
    <3>2. \A q \in 1 .. r + 1 + 1 : t[q] \in T
      BY <3>1, <2>1, <2>2, <1>3
    <3> QED BY <3>2 DEF ShownIn
  <2> HIDE DEF s, t, T
  <2>4. t = Append(s, << >>)
    BY <2>1, <2>2, <2>3, <1>1, <1>3, <1>4, AppendIs
  <2>5. Len(s) # height
    BY <1>2, <1>5
  <2> QED BY <2>4, <2>5 DEF Shown!Begun, t
<1>6. ASSUME r + 1 = height PROVE ShownIn(Scrolled(v), r) = Shown!Begun(s)
  <2> DEFINE t == ShownIn(Scrolled(v), r)
             u == Tail(s)
  <2>1. s \in Seq(T)
    <3> HIDE DEF s, T
    <3> QED BY <1>1, <1>3
  <2>2. u \in Seq(T) /\ Len(u) = r /\ \A q \in 1 .. r : u[q] = s[q + 1]
    <3> HIDE DEF s, T
    <3>1. s # << >>
      BY <1>1, <1>2
    <3> QED BY <2>1, <3>1, <1>1, <1>2, HeadTailProperties
  <2>3. u \in [1 .. r -> T]
    <3> HIDE DEF u, T
    <3> QED BY <2>2, LenProperties
  <2>4. \A q \in 1 .. r : t[q] = s[q + 1]
    <3> TAKE q \in 1 .. r
    <3>1. q - 1 \in Rows /\ q - 1 < height - 1 /\ q - 1 + 1 = q /\ (q + 1) - 1 = q
      BY <1>1, <1>6 DEF Rows
    <3>2. RowOf(Scrolled(v), q - 1) = RowOf(v, q - 1 + 1)
      BY <3>1, ScrolledRows
    <3>3. q \in 1 .. r + 1 /\ q + 1 \in 1 .. r + 1
      BY <1>1
    <3>4. t[q] = LettersOf(RowOf(Scrolled(v), q - 1)) /\ s[q + 1] = LettersOf(RowOf(v, (q + 1) - 1))
      BY <3>3 DEF ShownIn
    <3> QED BY <3>1, <3>2, <3>4
  <2>5. t[r + 1] = << >>
    <3>1. r = height - 1
      BY <1>1, <1>6
    <3>2. RowOf(Scrolled(v), r) = [j \in Columns |-> Blank]
      BY <3>1, ScrolledRows
    <3>3. LettersOf(RowOf(Scrolled(v), r)) = << >>
      BY <3>2, <1>1, EmptyRow
    <3>4. r + 1 \in 1 .. r + 1 /\ (r + 1) - 1 = r
      BY <1>1
    <3> QED BY <3>3, <3>4 DEF ShownIn
  <2>6. \A q \in 1 .. r : t[q] = u[q]
    BY <2>2, <2>4
  <2>7. t \in [1 .. r + 1 -> T]
    <3>1. \A q \in 1 .. r + 1 : q \in 1 .. r \/ q = r + 1
      BY <1>1
    <3>2. \A q \in 1 .. r + 1 : t[q] \in T
      BY <3>1, <2>5, <2>6, <2>3
    <3> QED BY <3>2 DEF ShownIn
  <2> HIDE DEF s, t, u, T
  <2>8. t = Append(u, << >>)
    BY <2>3, <2>5, <2>6, <2>7, <1>1, <1>4, AppendIs
  <2>9. Len(s) = height
    BY <1>2, <1>6
  <2> QED BY <2>8, <2>9 DEF Shown!Begun, t, u
<1> QED BY <1>5, <1>6

\* A character is a step of Terminal.
LEMMA CharShows ==
  ASSUME ConsoleTypeOK, OnScreen, FilledTo(vram, row, col),
         NEW c \in Letters \cup {Newline}, Char(c)
  PROVE  Shown!Next
<1> USE ScreenAssumption
<1> DEFINE w == Written(c)
           s == LettersShown
           t == ShownIn(w, row)
<1>1. /\ row \in Rows /\ row \in Nat /\ col \in Nat /\ col + 1 =< width /\ width \in Nat
      /\ height \in Nat /\ row + 1 =< height
  BY DEF OnScreen, Rows
<1>2. w \in [Cells -> Letters \cup {Blank}] /\ FilledTo(w, NextRow(c), NextCol(c))
  BY FilledByChar
<1>3. LettersShown' = ShownIn(vram', row')
  BY DEF LettersShown, ShownIn
<1>4. s = ShownIn(vram, row)
  BY DEF LettersShown, ShownIn
<1>5. ASSUME NextRow(c) = row + 1, NEW k \in Int, FilledTo(w, row, k)
      PROVE  LettersShown' = Shown!Begun(t)
  <2>1. CASE row + 1 = height
    <3>1. vram' = Scrolled(w) /\ row' = row
      BY <2>1, <1>1, <1>5 DEF Char, RowScrolled
    <3>2. ShownIn(Scrolled(w), row) = Shown!Begun(t)
      BY <2>1, <1>1, <1>2, <1>5, ShownNewRow
    <3> QED BY <3>1, <3>2, <1>3
  <2>2. CASE row + 1 # height
    <3>1. vram' = w /\ row' = row + 1
      BY <2>2, <1>5 DEF Char, RowScrolled
    <3>2. ShownIn(w, row + 1) = Shown!Begun(t)
      BY <2>2, <1>1, <1>2, <1>5, ShownNewRow
    <3> QED BY <3>1, <3>2, <1>3
  <2> QED BY <2>1, <2>2
<1>6. CASE c = Newline
  <2>1. w = vram /\ NextRow(c) = row + 1
    BY <1>6 DEF Written, NextRow
  <2>2. LettersShown' = Shown!Begun(s)
    <3>1. FilledTo(w, row, col) /\ col \in Int
      BY <2>1, <1>1
    <3>2. t = s
      BY <2>1, <1>4
    <3> HIDE DEF w, t, s
    <3> QED BY <3>1, <3>2, <2>1, <1>5
  <2> QED BY <2>2 DEF Shown!Next, Shown!NewRow
<1>7. CASE c # Newline
  <2>1. c \in Letters
    BY <1>7
  <2>2. /\ t = [s EXCEPT ![Len(s)] = Append(@, c)]
        /\ Len(t[row + 1]) = col + 1
    BY <2>1, ShownLetter
  <2>3. Len(t) = row + 1
    BY <1>1 DEF ShownIn
  <2>4. FilledTo(w, row, col + 1)
    <3>1. ChangedAt(vram, w, row, col, c) /\ c # Blank /\ col \in Columns
      BY <1>7, <2>1, LettersAssumption DEF Written, Place, ChangedAt, OnScreen, Columns
    <3> QED BY <3>1, <1>1, FilledByOne DEF ConsoleTypeOK
  <2>5. LettersShown' = IF Len(t[Len(t)]) = width THEN Shown!Begun(t) ELSE t
    <3>1. CASE col + 1 = width
      <4>1. NextRow(c) = row + 1
        BY <3>1 DEF NextRow
      <4>2. LettersShown' = Shown!Begun(t)
        BY <4>1, <2>4, <1>1, <1>5
      <4>3. Len(t[Len(t)]) = width
        BY <3>1, <2>2, <2>3
      <4> HIDE DEF t
      <4> QED BY <4>2, <4>3
    <3>2. CASE col + 1 # width
      <4>1. NextRow(c) = row /\ row # height
        BY <3>2, <1>1, <1>7 DEF NextRow
      <4>2. vram' = w /\ row' = row
        BY <4>1 DEF Char, RowScrolled
      <4>3. LettersShown' = t
        BY <4>2, <1>3
      <4>4. Len(t[Len(t)]) # width
        BY <3>2, <2>2, <2>3
      <4> HIDE DEF t
      <4> QED BY <4>3, <4>4
    <3> QED BY <3>1, <3>2
  <2>6. Shown!Put(c)
    <3> HIDE DEF t, w
    <3>1. LettersShown' = IF Len(t[Len(t)]) = width THEN Shown!Begun(t) ELSE t
      BY <2>5
    <3> QED BY <3>1, <2>2 DEF Shown!Put
  <2> QED BY <2>1, <2>6 DEF Shown!Next
<1> QED BY <1>6, <1>7

\* Until the cursor is first moved, prints come out as on Terminal, whatever the
\* size of the screen, full rows and scrolling included (ksrc/console.c:85-115).
THEOREM PrintsShow == ConsoleSpec => ImplementsTerminal
<1>1. ConsoleInit => Shown!Init
  BY ShownInit
<1>2. ConsoleInv /\ [ConsoleNext]_consoleVars => [~moved' => Shown!Next]_LettersShown
  <2> SUFFICES ASSUME ConsoleInv, [ConsoleNext]_consoleVars, ~moved', LettersShown' # LettersShown
               PROVE  Shown!Next
    OBVIOUS
  <2>1. ~ UNCHANGED <<vram, row>>
    BY DEF LettersShown
  <2>2. ASSUME NEW c \in Letters \cup {Newline}, Char(c) PROVE Shown!Next
    <3>1. FilledTo(vram, row, col)
      BY <2>2 DEF Char, ConsoleInv, FilledFromLeft
    <3> QED BY <3>1, <2>2, CharShows DEF ConsoleInv
  <2>3. ~ ClearScreen /\ ~ (\E x, y \in 0 .. Far : Gotoxy(x, y)) /\ ~ (\E x, y \in Shifts : Movexy(x, y))
    BY DEF ClearScreen, Gotoxy, Movexy
  <2>4. ~ Begin /\ ~ Finish /\ ~ UNCHANGED consoleVars
    BY <2>1 DEF Begin, Finish, consoleVars
  <2> QED BY <2>2, <2>3, <2>4 DEF ConsoleNext
<1> QED BY <1>1, <1>2, StaysOnScreen, PTL DEF ConsoleSpec, ImplementsTerminal


\* A move to the left that stays in the row is exact; one that leaves it is off by
\* what an unsigned int's range is off a multiple of the row, for every width
\* (ksrc/console.c:78-83).
THEOREM MovesRight == ConsoleSpec => MovesExactly
<1>1. ASSUME ConsoleInv, NEW n \in 0 .. Far, Movexy(Word - n, 0)
      PROVE  col' = IF n <= col THEN col - n
                    ELSE (((col - n) % width) + (Word % width)) % width
  <2> USE ScreenAssumption, WordAssumption
  <2>1. /\ n \in Nat /\ n =< Word /\ col \in Nat /\ col =< width - 1 /\ width \in Nat \ {0}
        /\ Word \in Nat \ {0} /\ width =< Word
    BY <1>1 DEF ConsoleInv, OnScreen
  <2>2. col' = ((col + (Word - n)) % Word) % width
    BY <1>1 DEF Movexy, Sum
  <2>3. CASE n =< col
    <3> DEFINE x == col - n
    <3>1. x \in 0 .. Word - 1 /\ x \in 0 .. width - 1 /\ x \in Int
      BY <2>1, <2>3
    <3>2. col + (Word - n) = 1 * Word + x /\ x = 0 * width + x
      BY <2>1
    <3> HIDE DEF x
    <3>3. (1 * Word + x) % Word = x
      <4>1. 1 \in Int
        OBVIOUS
      <4> QED BY <4>1, <3>1, <2>1, QuotientIs, Zenon
    <3>4. (0 * width + x) % width = x
      <4>1. 0 \in Int
        OBVIOUS
      <4> QED BY <4>1, <3>1, <2>1, QuotientIs, Zenon
    <3>5. col' = x
      BY <2>2, <3>2, <3>3, <3>4, Zenon
    <3> QED BY <2>3, <3>5 DEF x
  <2>4. CASE ~ n =< col
    <3> DEFINE x == col + (Word - n)
    <3>1. x \in 0 .. Word - 1 /\ x = 0 * Word + x /\ x = (col - n) + Word /\ col - n \in Int /\ Word \in Int
      BY <2>1, <2>4
    <3> HIDE DEF x
    <3>2. (0 * Word + x) % Word = x
      <4>1. 0 \in Int
        OBVIOUS
      <4> QED BY <4>1, <3>1, <2>1, QuotientIs, Zenon
    <3>3. ((col - n) + Word) % width = (((col - n) % width) + (Word % width)) % width
      BY <3>1, <2>1, RestOfSum, Zenon
    <3>4. x % Word = x
      BY <3>1, <3>2, Zenon
    <3>5. col' = x % width
      BY <2>2, <3>4, Zenon DEF x
    <3>6. col' = (((col - n) % width) + (Word % width)) % width
      BY <3>1, <3>3, <3>5, Zenon
    <3> QED BY <2>4, <3>6
  <2> QED BY <2>3, <2>4
<1>2. ConsoleInv /\ [ConsoleNext]_consoleVars =>
        [\A n \in 0 .. Far : Movexy(Word - n, 0) =>
           col' = IF n <= col THEN col - n
                  ELSE (((col - n) % width) + (Word % width)) % width]_consoleVars
  BY <1>1
<1> QED BY <1>2, StaysOnScreen, PTL DEF ConsoleSpec, MovesExactly


=============================================================================
