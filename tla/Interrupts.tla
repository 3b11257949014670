----------------------------- MODULE Interrupts -----------------------------
(***************************************************************************)
(* Interrupts from power-on to the first task: the interrupt table of      *)
(* ksrc/idt.c, the common entry of ksrc/isrs.asm, the boot of ksrc/main.c  *)
(* and the trips to real mode that every disk read makes (ksrc/realmode.c, *)
(* ksrc/realmode/realmode.asm), against a timer, a keyboard and a disk     *)
(* that ask for attention whenever they like.                              *)
(*                                                                         *)
(* The two interrupt controllers, the keyboard controller and the BIOS are *)
(* external: a controller takes the request of highest priority above all  *)
(* it has in service, a non-specific end of interrupt (0x20) takes the     *)
(* highest out of service, 0xa0 does the same and gives that line the      *)
(* lowest priority, and initialisation forgets requests and service.       *)
(***************************************************************************)
EXTENDS Integers, FiniteSets

CONSTANTS
  Lines,   \* the lines devices are on, out of 0..15
  Reads    \* disk reads at boot

Timer == 0
Keyboard == 1
Cascade == 2
Master == 0 .. 7
Slave == 8 .. 15
None == -1
Vector(l) == 32 + l

ASSUME InterruptsAssumption ==
  /\ Lines \subseteq (Master \cup Slave) \ {Cascade}
  /\ Reads \in Nat

VARIABLES
  boot_pc,   \* what kmain or real_exec does next
  cpu,       \* protection, code and data segment, interrupt table and flag
  dpl3,      \* the user's segments are in the GDT
  installed, \* vector 32 leads to task_switch
  handlers,  \* vectors whose isr_handlers is set
  reads,     \* disk reads to come
  requests, service, lowest,  \* the controllers; lowest of the master
  unread,    \* a code waits in the keyboard controller
  handling,  \* the line whose handler runs, or None
  dead       \* an interrupt found a processor its handler cannot run on

controllers == <<requests, service, lowest>>
kernel == <<dpl3, installed, handlers, reads>>
interruptsVars == <<boot_pc, cpu, kernel, controllers, unread, handling, dead>>

InterruptsInit ==
  /\ boot_pc = "idt_init"
  /\ cpu = [pe |-> TRUE, cs |-> "kernel", ds |-> "kernel", idt |-> "none", ints |-> FALSE]
  /\ dpl3 = FALSE /\ installed = FALSE /\ handlers = {} /\ reads = Reads
  /\ requests = {} /\ service = {} /\ lowest = 7
  /\ unread = FALSE /\ handling = None /\ dead = FALSE

-----------------------------------------------------------------------------
\* The controllers.  Smaller ranks go first.
Rank(m) == (m - lowest - 1) % 8
First(S) == CHOOSE m \in S : \A k \in S : Rank(m) =< Rank(k)

SlaveOffers == {l \in requests \cap Slave : \A s \in service \cap Slave : l < s}
MasterAsks  == (requests \cap Master) \cup (IF SlaveOffers = {} THEN {} ELSE {Cascade})
MasterOffers == {m \in MasterAsks : \A s \in service \cap Master : Rank(m) < Rank(s)}

\* The line the processor is told of.
Offered ==
  IF MasterOffers = {} THEN None
  ELSE IF First(MasterOffers) = Cascade
       THEN CHOOSE l \in SlaveOffers : \A k \in SlaveOffers : l =< k
       ELSE First(MasterOffers)

InService(l) == service \cup (IF l \in Slave THEN {l, Cascade} ELSE {l})

\* End of interrupt at the master, of what is in service in s.
Ended(s) == IF s \cap Master = {} THEN s ELSE s \ {First(s \cap Master)}
Rotated(s) == IF s \cap Master = {} THEN lowest ELSE First(s \cap Master)

Initialised == requests' = {} /\ service' = {} /\ lowest' = 7

-----------------------------------------------------------------------------
Step(from, to) ==
  /\ boot_pc = from /\ handling = None /\ ~dead
  /\ boot_pc' = to
  /\ UNCHANGED <<handling, dead>>

Loads(new) == cpu' = new /\ UNCHANGED <<kernel, controllers, unread>>

\* idt_init: its sti ends what the cli of kmain began.
IdtInit ==
  /\ Step("idt_init", "trap_init")
  /\ cpu' = [cpu EXCEPT !.idt = "kernel", !.ints = TRUE]
  /\ Initialised
  /\ UNCHANGED <<kernel, unread>>

Subscribe(vectors) ==
  /\ vectors \cap handlers = {}
  /\ handlers' = handlers \cup vectors
  /\ UNCHANGED <<cpu, dpl3, installed, reads, controllers, unread>>

TrapInit == Step("trap_init", "kb_init") /\ Subscribe(0 .. 30)

\* Mutant: nobody subscribes to the keyboard.
KbInitNot == Step("kb_init", "task_init") /\ Subscribe({})

KbInit == Step("kb_init", "task_init") /\ Subscribe({Vector(Keyboard)})

TaskInit ==
  /\ Step("task_init", "read")
  /\ dpl3' = TRUE
  /\ UNCHANGED <<cpu, installed, handlers, reads, controllers, unread>>

\* real_exec, one instruction that matters a step.
Read == /\ reads > 0
        /\ Step("read", "jmp 0x18")
        /\ reads' = reads - 1
        /\ UNCHANGED <<cpu, dpl3, installed, handlers, controllers, unread>>

JumpTo16  == Step("jmp 0x18", "mov ds, 0x20") /\ Loads([cpu EXCEPT !.cs = "code16"])
LoadSmall == Step("mov ds, 0x20", "mov cr0") /\ Loads([cpu EXCEPT !.ds = "64K"])
LeaveProtected == Step("mov cr0", "lidt real") /\ Loads([cpu EXCEPT !.pe = FALSE, !.cs = "real"])
LoadRealTable  == Step("lidt real", "bios") /\ Loads([cpu EXCEPT !.idt = "real", !.ints = TRUE])

\* Mutant: protected mode is entered with interrupts enabled.
BackOpen == Step("bios", "sti") /\ Loads([cpu EXCEPT !.pe = TRUE, !.idt = "kernel"])

CliAndBack ==
  /\ Step("bios", "sti")
  /\ Loads([cpu EXCEPT !.pe = TRUE, !.idt = "kernel", !.ints = FALSE])

\* The lgdt after the sti runs before any interrupt.
StiAndLgdt == Step("sti", "jmp 0x08") /\ Loads([cpu EXCEPT !.ints = TRUE])
JumpTo32   == Step("jmp 0x08", "mov ds, 0x10") /\ Loads([cpu EXCEPT !.cs = "kernel"])
LoadKernel == Step("mov ds, 0x10", "map_irqs") /\ Loads([cpu EXCEPT !.ds = "kernel"])

\* idt_map_irqs; while it is half done the controllers offer nothing.
MapIrqs ==
  /\ Step("map_irqs", "read")
  /\ Initialised
  /\ UNCHANGED <<cpu, kernel, unread>>

\* task_create and the handler of vector 32.
Install ==
  /\ reads = 0
  /\ Step("read", "hlt")
  /\ installed' = TRUE
  /\ UNCHANGED <<cpu, dpl3, handlers, reads, controllers, unread>>

\* Tasks run; a system call disables interrupts while it lasts.
EnterCall == cpu.ints /\ Step("tasks", "tasks") /\ Loads([cpu EXCEPT !.ints = FALSE])
LeaveCall == ~cpu.ints /\ Step("tasks", "tasks") /\ Loads([cpu EXCEPT !.ints = TRUE])

Boot == \/ IdtInit \/ TrapInit \/ KbInit \/ TaskInit \/ Read \/ JumpTo16 \/ LoadSmall
        \/ LeaveProtected \/ LoadRealTable \/ CliAndBack \/ StiAndLgdt \/ JumpTo32 \/ LoadKernel
        \/ MapIrqs \/ Install

-----------------------------------------------------------------------------
\* A device raises its line, at any time; while a request of it waits another one
\* is lost in it.  The keyboard holds a code, and its line, until it is read.
Raise(l) ==
  /\ ~dead
  /\ l \notin requests
  /\ l = Keyboard => ~unread
  /\ requests' = requests \cup {l}
  /\ unread' = (unread \/ l = Keyboard)
  /\ UNCHANGED <<boot_pc, cpu, kernel, service, lowest, handling, dead>>

\* What the entry in isrs.asm takes for granted: protected mode, a data
\* segment that reaches its variables, a code segment iret can return to and
\* the segment 0x8b that isr_main loads at its end.
EntryRuns == cpu.pe /\ cpu.ds # "64K" /\ cpu.cs # "real" /\ dpl3

Taking(l) ==
  /\ ~dead /\ handling = None /\ cpu.ints
  /\ l = Offered
  /\ requests' = requests \ {l}
  /\ service' = InService(l)

Take(l) ==
  /\ Taking(l)
  /\ cpu.idt = "kernel" /\ EntryRuns
  /\ handling' = l
  /\ cpu' = [cpu EXCEPT !.ints = FALSE]
  /\ UNCHANGED <<boot_pc, kernel, lowest, unread, dead>>

TakeWrongly(l) ==
  /\ Taking(l)
  /\ cpu.idt = "kernel" /\ ~EntryRuns
  /\ dead' = TRUE
  /\ UNCHANGED <<boot_pc, cpu, kernel, lowest, unread, handling>>

\* In real mode the BIOS has what it likes at the vectors the kernel chose:
\* it may end any interrupts or none, and read the code or not.
TakeInBios(l) ==
  /\ ~dead /\ handling = None /\ cpu.ints /\ cpu.idt = "real"
  /\ l = Offered
  /\ requests' = requests \ {l}
  /\ service' \in SUBSET InService(l)
  /\ unread' \in {unread, unread /\ l # Keyboard}
  /\ UNCHANGED <<boot_pc, cpu, kernel, lowest, handling, dead>>

\* Mutant: task_switch leaves without an end of interrupt.
SwitchUnended ==
  /\ handling = Timer /\ installed
  /\ handling' = None /\ cpu' = [cpu EXCEPT !.ints = TRUE]
  /\ boot_pc' = "tasks"
  /\ UNCHANGED <<kernel, controllers, unread, dead>>

\* task_switch, with a single end of interrupt.
Switch ==
  /\ handling = Timer /\ installed
  /\ handling' = None /\ cpu' = [cpu EXCEPT !.ints = TRUE]
  /\ boot_pc' = "tasks"
  /\ service' = Ended(service)
  /\ UNCHANGED <<kernel, requests, lowest, unread, dead>>

\* Mutant: the first of the two ends goes to the slave if it is its interrupt.
AfterDispatchBoth ==
  IF handling \in Slave THEN Ended(service) \ {handling} ELSE Ended(service)

\* isr_main sends both 0xa0 and 0x20 to the master.
AfterDispatch == Ended(Ended(service))

\* isr_dispatch and the rest of isr_main.  An interrupt that ends the hlt of
\* kmain goes on to panic.
Dispatch ==
  /\ handling # None /\ ~(handling = Timer /\ installed)
  /\ handling' = None /\ cpu' = [cpu EXCEPT !.ints = TRUE]
  /\ boot_pc' = IF boot_pc = "hlt" THEN "panic" ELSE boot_pc
  /\ unread' = (unread /\ ~(handling = Keyboard /\ Vector(Keyboard) \in handlers))
  /\ service' = AfterDispatch
  /\ lowest' = Rotated(service)
  /\ UNCHANGED <<kernel, requests, dead>>

\* panic prints with interrupts enabled, then stops.
PanicPrints == Step("panic", "halted") /\ Loads([cpu EXCEPT !.ints = FALSE])

Deliver == \E l \in Lines : Take(l) \/ TakeWrongly(l) \/ TakeInBios(l)
Handle == Switch \/ Dispatch

InterruptsNext ==
  \/ Boot \/ EnterCall \/ LeaveCall \/ PanicPrints \/ Deliver \/ Handle
  \/ \E l \in Lines : Raise(l)

\* System calls and handlers end; the processor takes an interrupt that it is offered
\* again and again while the flag is set.  No device need ever ask.
InterruptsFairness ==
  /\ WF_interruptsVars(LeaveCall) /\ WF_interruptsVars(Handle)
  /\ \A l \in Lines : SF_interruptsVars(Take(l))

InterruptsSpec == InterruptsInit /\ [][InterruptsNext]_interruptsVars /\ InterruptsFairness

-----------------------------------------------------------------------------
InterruptsTypeOK ==
  /\ boot_pc \in {"idt_init", "trap_init", "kb_init", "task_init", "read", "jmp 0x18",
             "mov ds, 0x20", "mov cr0", "lidt real", "bios", "sti", "jmp 0x08",
             "mov ds, 0x10", "map_irqs", "hlt", "tasks", "panic", "halted"}
  /\ cpu \in [pe : BOOLEAN, cs : {"kernel", "code16", "real"}, ds : {"kernel", "64K"},
              idt : {"none", "kernel", "real"}, ints : BOOLEAN]
  /\ dpl3 \in BOOLEAN /\ installed \in BOOLEAN /\ handlers \subseteq 0 .. 47
  /\ reads \in 0 .. Reads
  /\ requests \subseteq Lines /\ service \subseteq Lines \cup {Cascade} /\ lowest \in Master
  /\ unread \in BOOLEAN /\ dead \in BOOLEAN
  /\ handling \in Lines \cup {None}

\* Where an interrupt brings the machine down: between the sti of idt_init and
\* the descriptors of task_init, and on each trip to real mode from the load
\* of the small data segment to the lidt, and after lgdt until ds is back.
\* Everywhere else boot may be interrupted.
Windows == {"trap_init", "kb_init", "task_init", "mov cr0", "lidt real", "jmp 0x08", "mov ds, 0x10"}
DiesInWindows == [][dead' # dead => boot_pc \in Windows]_interruptsVars

\* Once tasks run every interrupt has been ended at the master when the next
\* one may come, though isr_main ends twice and task_switch once.
MasterOpen ==
  boot_pc = "tasks" /\ handling = None => service \cap Master = {}

\* The invariant of the composition: the state is one the code can be in, and no
\* order of boot steps, disk reads and interrupts leaves a running system with the
\* timer shut out (ksrc/isrs.asm:26-51, task.asm:14-150; kmain, main.c:44-74).
InterruptsInv == InterruptsTypeOK /\ MasterOpen

\* Once tasks run, a line of the slave that was handled stays in service for
\* ever: neither it nor any line below it is handled again.
SlaveOnce ==
  [][\A l \in Slave : boot_pc = "tasks" /\ l \in service =>
       l \in service' /\ \A k \in Slave : k >= l /\ handling' = k => handling = k]_interruptsVars

\* The keyboard goes silent for ever, a code unread and no request to come,
\* only when idt_map_irqs forgets its request, at boot and after a disk read,
\* or the BIOS takes it.
Silent == unread /\ Keyboard \notin requests /\ handling # Keyboard
SilencedByBoot ==
  [][Silent' /\ ~Silent => boot_pc \in {"idt_init", "bios", "map_irqs"} \/ dead']_interruptsVars

\* The timer's period is longer than task_switch takes: the next tick does not come
\* while one is handled.  It may come at any other time.
TicksApart == <>[][handling = Timer => Timer \notin requests' \ requests]_interruptsVars

\* While tasks run every request to the master is taken in the end, however many
\* interrupts of the slave were handled and left in service (ksrc/isrs.asm:26-51,
\* task.asm:139-140).
MasterTaken ==
  TicksApart =>
    \A l \in Lines \cap Master : (boot_pc = "tasks" /\ l \in requests) ~> (l \notin requests)

=============================================================================
