----------------------------- MODULE MCMachine -----------------------------
(***************************************************************************)
(* Small instances of what drives the machine.  The parts share no         *)
(* variable: in each behaviour one of them works, named by job, and the    *)
(* others rest in an initial state.                                        *)
(***************************************************************************)
EXTENDS Interrupts, Keyboard, Disk, Console, Segments, Paging

VARIABLE job

machineVars ==
  <<job, interruptsVars, keyboardVars, diskVars, consoleVars, segmentsVars, pagingVars>>

\* The timer, the keyboard and two lines of the slave: the clock's and the disk's.
MCLines == {Timer, Keyboard, 8, 14}

\* "2a" is shift, and has no name after the prefix; "48" is an arrow after the
\* prefix and the keypad's 8 without it.
MCCodes == {"e0", "2a", "48"}

MCData    == {"old", "new"}
MCLetters == {"a", "b"}

\* Bytes of four values: addresses below 256, limits below 32 of one or of eight
\* bytes.  Many kinds of descriptors are made by few changes, and two by many.
MCBases == {0, 27, 255}
MCSizes == {0, 15, 16, 17, 24, 200, 255}
FewKinds == {Made(z, Descriptor(27, z, 7, FALSE)) : z \in {16, 17}}

MCPhysical == {0, 1, 6, 8}

-----------------------------------------------------------------------------
Jobs == {"interrupts", "keyboard", "disk", "console", "segments", "table", "paging"}

\* One initial state for what rests.
Resting ==
  /\ job = "keyboard" \/ (job # "keyboard" /\ ints = FALSE)
  /\ \/ job = "disk"
     \/ /\ job # "disk"
        /\ disk = [k \in 0 .. Size - 1 |-> "old"]
        /\ buffer = [k \in 0 .. Room - 1 |-> "old"]
        /\ bounce = [k \in 0 .. AtATime - 1 |-> "old"]
        /\ request = [kind |-> "read", lba |-> 0, sectors |-> 0]
  /\ \/ job = "paging"
     \/ job # "paging" /\ memory[0] = [k \in Indices |-> Absent]

MCInit ==
  /\ job \in Jobs
  /\ PagingInit /\ InterruptsInit /\ ConsoleInit /\ SegmentsInit
  /\ Resting
  /\ KeyboardInit /\ DiskInit

Works(parts) == job \in parts /\ UNCHANGED job

TakesInterrupts ==
  /\ Works({"interrupts"}) /\ InterruptsNext
  /\ UNCHANGED <<keyboardVars, diskVars, consoleVars, segmentsVars, pagingVars>>
ReadsKeys ==
  /\ Works({"keyboard"}) /\ KeyboardNext
  /\ UNCHANGED <<interruptsVars, diskVars, consoleVars, segmentsVars, pagingVars>>
TransfersSectors ==
  /\ Works({"disk"}) /\ DiskNext
  /\ UNCHANGED <<interruptsVars, keyboardVars, consoleVars, segmentsVars, pagingVars>>
Prints ==
  /\ Works({"console"}) /\ ConsoleNext
  /\ UNCHANGED <<interruptsVars, keyboardVars, diskVars, segmentsVars, pagingVars>>
MakesSegments ==
  /\ \/ Works({"segments"}) /\ changes < 2 /\ SegmentsNext
     \/ Works({"table"}) /\ SegmentsStep(FewKinds)
  /\ UNCHANGED <<interruptsVars, keyboardVars, diskVars, consoleVars, pagingVars>>
MapsPages ==
  /\ Works({"paging"}) /\ PagingNext
  /\ UNCHANGED <<interruptsVars, keyboardVars, diskVars, consoleVars, segmentsVars>>

\* The keyboard and the console never stop; the others may.
Stopped == Works(Jobs \ {"keyboard", "console"}) /\ UNCHANGED machineVars

MCNext ==
  \/ TakesInterrupts \/ ReadsKeys \/ TransfersSectors \/ Prints \/ MakesSegments
  \/ MapsPages \/ Stopped

\* The fairness of each part, for the one that works.
MCFairness ==
  /\ WF_interruptsVars(job = "interrupts" /\ LeaveCall)
  /\ WF_interruptsVars(job = "interrupts" /\ Handle)
  /\ \A l \in Lines : SF_interruptsVars(job = "interrupts" /\ Take(l))
  /\ WF_keyboardVars(job = "keyboard" /\ Reader)
  /\ WF_keyboardVars(job = "keyboard" /\ OtherInterrupt)

MCSpec == MCInit /\ [][MCNext]_machineVars /\ MCFairness

=============================================================================
