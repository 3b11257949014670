-------------------------------- MODULE Tasks --------------------------------
(***************************************************************************)
(* User processes of CSOS: the page allocator, the task table, fork, exit, *)
(* kill and page allocation, the exception handler and the timer interrupt *)
(* that switches tasks (ksrc/task.c, task.asm, syscall.c, syscall.asm,     *)
(* trap.c and the end of kmain in main.c).                                 *)
(*                                                                         *)
(* There is one processor.  The kernel runs with interrupts disabled       *)
(* except in four places, where pc says so: kmain's hlt ("idle") and the   *)
(* panic that follows it ("panicking"), user code ("user") and the endless *)
(* loop a dying task is left in ("spin").  A stretch of kernel code with   *)
(* interrupts disabled is one step, cut where the order of its writes      *)
(* matters to the next interrupt.  multitasking_enabled has no part in     *)
(* this: task_switch tests its address, which is never zero.               *)
(***************************************************************************)
EXTENDS Integers, FiniteSets

CONSTANTS
  MaxTasks,     \* MAX_TASKS (128)
  TotalPages,   \* total_pages: page frames above user_base
  PagesPerByte, \* bits of a byte of pagemap (8)
  Entries,      \* entries of a page directory or page table (1024)
  UserDir,      \* directory entry of 0x10000000, where user space begins (64)
  InitPages,    \* pages of init: its image and one page of stack
  HeapTasks,    \* how many task_t the kernel heap ever serves
  Words,        \* contents of a register that are told apart
  UserCalls,    \* what programs do: the workload
  NULL

Pids  == 0 .. MaxTasks - 1
Slots == 0 .. Entries - 1
UserDirs == UserDir .. Entries - 1
Frames == 0 .. TotalPages - 1        \* page numbers, less page_base

NoTask == -1        \* 0xffffffff, which is -1 modulo MAX_TASKS too
Absent == -1        \* an entry with its present bit clear
KernelEntry == -2   \* entry 0 of every directory: the kernel's first 4 MB
KernelDir == -1     \* cr3: the kernel's own page_directory

Contents == [Slots -> Frames \cup {Absent, KernelEntry}]
Zeros == [s \in Slots |-> Absent]

Context == [frame : Words, eax : Words \cup Pids \cup {NoTask}, rest : Words]
Task == [pid : Pids, dir : Frames, tss : Context]

ASSUME TasksAssumption ==
  /\ MaxTasks \in Nat /\ MaxTasks >= 1
  /\ TotalPages \in Nat /\ PagesPerByte \in Nat \ {0}
  /\ Entries \in Nat /\ UserDir \in 1 .. Entries - 2
  /\ InitPages \in 1 .. Entries   \* the image is read into the 4 MB kernel heap
  \* kmain gives up with less than 16 MB, so there is room for init
  /\ InitPages + 2 <= (TotalPages \div PagesPerByte) * PagesPerByte
  /\ HeapTasks \in Nat \ {0}
  /\ Words \subseteq Nat /\ 0 \in Words
  /\ UserCalls \subseteq {"fork", "exit", "kill", "alloc", "trap"}
  /\ NULL \notin Task

VARIABLES
  pc,           \* where the processor is
  panic,        \* the message of the panic there was, "" before
  pagemap,      \* the pages whose bit is set
  mem,          \* what pages hold, read as a directory or table
  dirty,        \* pages a program may have written since: any contents
  tasks,        \* task table
  num_tasks,
  current_task,
  cr3,          \* page directory of the processor
  tr,           \* task whose TSS names the kernel stack of the next interrupt
  cpu,          \* registers of the program, meaningful while it is current
  heap          \* task_t the heap can still serve

vars == <<pc, panic, pagemap, mem, dirty, tasks, num_tasks, current_task, cr3,
          tr, cpu, heap>>

TypeOK ==
  /\ pc \in {"boot", "created", "idle", "user", "dying", "cleared", "spin",
            "panicking", "halted"}
  /\ panic \in {"", "init exited", "no tasks running", "No free pages",
                "kmalloc failed", "Freeing freed page", "Freeing non-existent page"}
  /\ pagemap \subseteq Frames
  /\ mem \in [Frames -> Contents]
  /\ dirty \subseteq Frames
  /\ tasks \in [Pids -> Task \cup {NULL}]
  /\ num_tasks \in Int
  /\ current_task \in Pids \cup {NoTask}
  /\ cr3 \in Frames \cup {KernelDir}
  /\ tr \in Pids \cup {NoTask}
  /\ cpu \in Context
  /\ heap \in 0 .. HeapTasks

Live == {p \in Pids : tasks[p] # NULL}

Init ==
  /\ pc = "boot" /\ panic = ""
  /\ pagemap = {} /\ mem = [f \in Frames |-> Zeros] /\ dirty = {}
  /\ tasks = [p \in Pids |-> NULL] /\ num_tasks = 0 /\ current_task = NoTask
  /\ cr3 = KernelDir /\ tr = NoTask
  /\ cpu = [frame |-> 0, eax |-> 0, rest |-> 0]
  /\ heap = HeapTasks

Panic(why) == pc' = "halted" /\ panic' = why

-----------------------------------------------------------------------------
(* alloc_page scans whole bytes of pagemap and takes the lowest clear bit.  *)

Usable == {f \in Frames : f \div PagesPerByte < TotalPages \div PagesPerByte}

Free == Usable \ pagemap

\* How many calls of alloc_page come before the one that returns f.
Rank(f) == Cardinality({g \in Free : g < f})

(* A task's pages, in the order task_create and task_dup ask for them:      *)
(* Directory, then each table followed by its pages.  All of them are one    *)
(* ascending set of numbers.                                                *)

DirectoryKey == 0
TableKey(e) == e * (Entries + 1)
PageKey(e, s) == e * (Entries + 1) + s + 1

Position(keys, k) == Cardinality({j \in keys : j < k})

\* Every one of these calls of alloc_page finds a page.
Enough(keys) == \A k \in keys : \E f \in Free : Rank(f) = Position(keys, k)

\* The page each call returns.
Allocated(keys) ==
  [k \in keys |-> CHOOSE f \in Free : Rank(f) = Position(keys, k)]

InitKeys ==
  {DirectoryKey, TableKey(UserDir)} \cup {PageKey(UserDir, s) : s \in 0 .. InitPages - 1}

Present(entry) == entry # Absent

TablesOf(dir) == {e \in UserDirs : Present(mem[dir][e])}
PagesOf(dir) ==
  {es \in UserDirs \X Slots : es[1] \in TablesOf(dir) /\ Present(mem[mem[dir][es[1]]][es[2]])}

DupKeys(dir) ==
  {DirectoryKey} \cup {TableKey(e) : e \in TablesOf(dir)}
                 \cup {PageKey(es[1], es[2]) : es \in PagesOf(dir)}

\* What is in a page that becomes a page table: nobody clears it.  Bound: of
\* what a program may have left there, at most one entry looks present.
Leftovers(f) ==
  IF f \in dirty
  THEN {Zeros} \cup {[Zeros EXCEPT ![s] = g] : s \in Slots, g \in Frames}
  ELSE {mem[f]}

\* Build the address space of a new task in the pages fr: the directory is
\* cleared, the tables are not, the pages are copied from the image or parent.
BuildSpace(keys, fr, kernelEntry) ==
  LET dirs   == {e \in UserDirs : TableKey(e) \in keys}
      tables == {fr[TableKey(e)] : e \in dirs}
      pages  == {fr[k] : k \in {j \in keys : \E e \in dirs, s \in Slots : j = PageKey(e, s)}}
      dir    == [s \in Slots |-> IF s = 0 THEN kernelEntry
                                 ELSE IF s \in dirs THEN fr[TableKey(s)] ELSE Absent]
  IN  \E left \in [tables -> UNION {Leftovers(t) : t \in tables}] :
        /\ \A t \in tables : left[t] \in Leftovers(t)
        /\ mem' = [f \in Frames |->
             IF f = fr[DirectoryKey] THEN dir
             ELSE IF f \in tables
               THEN LET e == CHOOSE e \in dirs : fr[TableKey(e)] = f
                    IN  [s \in Slots |-> IF PageKey(e, s) \in keys THEN fr[PageKey(e, s)]
                                                                   ELSE left[f][s]]
             ELSE IF f \in pages THEN Zeros ELSE mem[f]]
        /\ dirty' = (dirty \ (tables \cup {fr[DirectoryKey]})) \cup pages
        /\ pagemap' = pagemap \cup {fr[k] : k \in keys}

FirstFreePid(p) == tasks[p] = NULL /\ \A q \in Pids : q < p => tasks[q] # NULL

-----------------------------------------------------------------------------
(* Boot: kmain creates init, installs the timer handler and halts.          *)

TaskCreate ==
  /\ pc = "boot" /\ heap > 0 /\ Enough(InitKeys)
  /\ LET fr == Allocated(InitKeys)
     IN  /\ BuildSpace(InitKeys, fr, KernelEntry)
         /\ tasks' = [tasks EXCEPT ![0] =
              [pid |-> 0, dir |-> fr[DirectoryKey],
               tss |-> [frame |-> 0, eax |-> 0, rest |-> 0]]]
  /\ num_tasks' = num_tasks + 1
  /\ heap' = heap - 1
  /\ pc' = "created"
  /\ UNCHANGED <<panic, current_task, cr3, tr, cpu>>

InstallSwitch ==
  /\ pc = "created"
  /\ pc' = "idle"
  /\ UNCHANGED <<panic, pagemap, mem, dirty, tasks, num_tasks, current_task, cr3, tr,
                 cpu, heap>>

\* Any other interrupt than the timer's ends the hlt of kmain, which panics with
\* interrupts enabled: until the cli at the end of panic, the timer may still come.
OtherInterrupt ==
  /\ pc = "idle"
  /\ pc' = "panicking" /\ panic' = "init exited"
  /\ UNCHANGED <<pagemap, mem, dirty, tasks, num_tasks, current_task, cr3, tr, cpu, heap>>

PanicEnds ==
  /\ pc = "panicking"
  /\ pc' = "halted"
  /\ UNCHANGED <<panic, pagemap, mem, dirty, tasks, num_tasks, current_task, cr3, tr,
                 cpu, heap>>

-----------------------------------------------------------------------------
(* The timer interrupt, task_switch.                                        *)

InterruptsEnabled == pc \in {"idle", "panicking", "user", "spin"}

\* Mutant: the search starts over at task 0 each time.
FirstTask(t, n) == n \in Live /\ \A m \in Live : n <= m

\* task_find_next: round robin from the task after t.
NextTask(t, n) ==
  \E i \in 1 .. MaxTasks :
    /\ n = (t + i) % MaxTasks
    /\ n \in Live
    /\ \A j \in 1 .. i - 1 : (t + j) % MaxTasks \notin Live

\* Mutant: task_switch saves eax after it has used it.
SavedPartly ==
  IF current_task \in Live
  THEN [tasks EXCEPT ![current_task].tss = [cpu EXCEPT !.eax = 0]] ELSE tasks

\* With no task there is nothing to save.
Saved ==
  IF current_task \in Live THEN [tasks EXCEPT ![current_task].tss = cpu] ELSE tasks

Timer ==
  /\ InterruptsEnabled
  /\ \E n \in Pids :
       /\ NextTask(current_task, n)
       /\ tasks' = Saved
       /\ current_task' = n
       /\ tr' = n
       /\ cr3' = Saved[n].dir
       /\ cpu' = Saved[n].tss
  /\ pc' = "user"
  /\ UNCHANGED <<panic, pagemap, mem, dirty, num_tasks, heap>>

TimerFindsNoTask ==
  /\ InterruptsEnabled /\ Live = {}
  /\ Panic("no tasks running")
  /\ UNCHANGED <<pagemap, mem, dirty, tasks, num_tasks, current_task, cr3, tr, cpu, heap>>

-----------------------------------------------------------------------------
(* The running program, its system calls and its exceptions.                *)

SameMachine == UNCHANGED <<current_task, cr3, tr>>

UserStep ==
  /\ pc = "user"
  /\ cpu' \in [frame : Words, eax : Words, rest : Words]
  /\ UNCHANGED <<pc, panic, pagemap, mem, dirty, tasks, num_tasks, heap>>
  /\ SameMachine

\* sys_get_pid
GetPid ==
  /\ pc = "user"
  /\ cpu' = [cpu EXCEPT !.eax = tasks[current_task].pid]
  /\ UNCHANGED <<pc, panic, pagemap, mem, dirty, tasks, num_tasks, heap>>
  /\ SameMachine

\* The pages the running program can write to; it may do so at any time.
Mapped(dir) == {mem[mem[dir][es[1]]][es[2]] : es \in PagesOf(dir)} \cap Frames

UserWrite(f) ==
  /\ pc = "user" /\ f \in Mapped(cr3) \ dirty
  /\ dirty' = dirty \cup {f}
  /\ mem' = [mem EXCEPT ![f] = Zeros]
  /\ UNCHANGED <<pc, panic, pagemap, tasks, num_tasks, cpu, heap>>
  /\ SameMachine

InCall(call) == pc = "user" /\ call \in UserCalls

\* sys_fork and task_dup.  The new task's general registers stay zero.
Child(p, dir) ==
  [pid |-> p, dir |-> dir, tss |-> [frame |-> cpu.frame, eax |-> p, rest |-> 0]]

ForkTask ==
  /\ InCall("fork") /\ num_tasks # MaxTasks /\ heap > 0
  /\ LET parent == tasks[current_task].dir
         keys == DupKeys(parent)
         fr == Allocated(keys)
     IN  /\ Enough(keys)
         /\ BuildSpace(keys, fr, mem[parent][0])
         /\ \E p \in Pids :
              /\ FirstFreePid(p)
              /\ tasks' = [tasks EXCEPT ![p] = Child(p, fr[DirectoryKey])]
              /\ cpu' = [cpu EXCEPT !.eax = p]
  /\ num_tasks' = num_tasks + 1
  /\ heap' = heap - 1
  /\ UNCHANGED <<pc, panic>>
  /\ SameMachine

ForkFull ==
  /\ InCall("fork") /\ num_tasks = MaxTasks
  /\ cpu' = [cpu EXCEPT !.eax = NoTask]
  /\ UNCHANGED <<pc, panic, pagemap, mem, dirty, tasks, num_tasks, heap>>
  /\ SameMachine

ForkOutOfHeap ==
  /\ InCall("fork") /\ num_tasks # MaxTasks /\ heap = 0
  /\ Panic("kmalloc failed")
  /\ UNCHANGED <<pagemap, mem, dirty, tasks, num_tasks, cpu, heap>>
  /\ SameMachine

ForkOutOfPages ==
  /\ InCall("fork") /\ num_tasks # MaxTasks /\ heap > 0
  /\ ~ Enough(DupKeys(tasks[current_task].dir))
  /\ Panic("No free pages")
  /\ pagemap' = pagemap \cup Free
  /\ heap' = heap - 1
  /\ UNCHANGED <<mem, dirty, tasks, num_tasks, cpu>>
  /\ SameMachine

(* task_kill_and_free gives back every page the directory leads to.          *)

Entry(dir, es) == mem[mem[dir][es[1]]][es[2]]

\* Mutant: the directory itself is not freed.
ReturnedButDirectory(dir) ==
  {mem[dir][e] : e \in TablesOf(dir)} \cup {Entry(dir, es) : es \in PagesOf(dir)}

Returned(dir) ==
  {dir} \cup {mem[dir][e] : e \in TablesOf(dir)} \cup {Entry(dir, es) : es \in PagesOf(dir)}
Calls(dir) == 1 + Cardinality(TablesOf(dir)) + Cardinality(PagesOf(dir))

\* The panics of free_page, if one of its calls meets them.
NonExistent(dir) == KernelEntry \in Returned(dir)
FreedTwice(dir) ==
  Cardinality(Returned(dir)) < Calls(dir) \/ ~ (Returned(dir) \ {KernelEntry} \subseteq pagemap)

\* task_kill_and_free(tasks[p]), then on to where
KillAndFree(p, where) ==
  LET dir == tasks[p].dir
  IN  \/ /\ ~NonExistent(dir) /\ ~FreedTwice(dir)
         /\ pagemap' = pagemap \ Returned(dir)
         /\ tasks' = [tasks EXCEPT ![p] = NULL]
         /\ num_tasks' = num_tasks - 1
         /\ pc' = where
         /\ UNCHANGED panic
      \/ /\ NonExistent(dir)
         /\ Panic("Freeing non-existent page")
         /\ UNCHANGED <<pagemap, tasks, num_tasks>>
      \/ /\ FreedTwice(dir)
         /\ Panic("Freeing freed page")
         /\ UNCHANGED <<pagemap, tasks, num_tasks>>

\* Mutant: the dying task's directory stays loaded.
KeepDirectory(p, c) == c

\* cr3 once task p is dead, when c was loaded: the kernel leaves a directory it
\* is about to free.
LeaveDirectory(p, c) == IF p = current_task THEN KernelDir ELSE c

\* sys_exit; a system call runs on the kernel's directory
Exit ==
  /\ InCall("exit")
  /\ KillAndFree(current_task, "dying")
  /\ cr3' = LeaveDirectory(current_task, KernelDir)
  /\ UNCHANGED <<mem, dirty, current_task, tr, cpu, heap>>

\* trap_handler; an exception is handled on the directory of the program
Trap ==
  /\ InCall("trap")
  /\ KillAndFree(current_task, "dying")
  /\ cr3' = LeaveDirectory(current_task, cr3)
  /\ UNCHANGED <<mem, dirty, current_task, tr, cpu, heap>>

\* sys_kill of another task; the system call returns to its caller's directory
Kill(p) ==
  /\ InCall("kill") /\ p # current_task /\ tasks[p] # NULL
  /\ KillAndFree(p, "user")
  /\ UNCHANGED <<mem, dirty, cpu, heap>>
  /\ SameMachine

KillSelf ==
  /\ InCall("kill")
  /\ KillAndFree(current_task, "dying")
  /\ cr3' = LeaveDirectory(current_task, KernelDir)
  /\ UNCHANGED <<mem, dirty, current_task, tr, cpu, heap>>

KillNobody(p) ==
  /\ InCall("kill") /\ tasks[p] = NULL
  /\ cpu' = [cpu EXCEPT !.eax = 0]
  /\ UNCHANGED <<pc, panic, pagemap, mem, dirty, tasks, num_tasks, heap>>
  /\ SameMachine

\* Mutant: current_task keeps naming the dead task.
ClearCurrentForgets ==
  /\ pc = "dying"
  /\ pc' = "cleared"
  /\ UNCHANGED <<panic, pagemap, mem, dirty, tasks, num_tasks, cpu, heap>>
  /\ SameMachine

\* What sys_exit and trap_handler do next, interrupts still disabled; then sti.
ClearCurrent ==
  /\ pc = "dying"
  /\ current_task' = NoTask
  /\ pc' = "cleared"
  /\ UNCHANGED <<panic, pagemap, mem, dirty, tasks, num_tasks, cr3, tr, cpu, heap>>

\* Mutant: the dying task spins with interrupts disabled.
StiForgotten == pc = "cleared" /\ UNCHANGED vars

Sti ==
  /\ pc = "cleared"
  /\ pc' = "spin"
  /\ UNCHANGED <<panic, pagemap, mem, dirty, tasks, num_tasks, cpu, heap>>
  /\ SameMachine

(* sys_alloc_page maps a new page in the first clear entry of the program's *)
(* last page table; when there is none it writes past the end of the table, *)
(* into the first word of the next page frame.                              *)

LastTable(dir) ==
  LET last == CHOOSE e \in TablesOf(dir) : \A o \in TablesOf(dir) : o <= e
  IN  mem[dir][last]

FirstClear(table, s) ==
  /\ ~Present(mem[table][s])
  /\ \A r \in Slots : r < s => Present(mem[table][r])

\* Mutant: without a clear entry, the word before the table is written.
WithEntryBefore(table, f) ==
  IF \E s \in Slots : ~Present(mem[table][s])
  THEN [mem EXCEPT ![table][CHOOSE s \in Slots : FirstClear(table, s)] = f]
  ELSE IF table - 1 \in Frames \ dirty THEN [mem EXCEPT ![table - 1][0] = f]
  ELSE mem

\* mem once the entry for page f is written
WithEntry(table, f) ==
  IF \E s \in Slots : ~Present(mem[table][s])
  THEN [mem EXCEPT ![table][CHOOSE s \in Slots : FirstClear(table, s)] = f]
  ELSE IF table + 1 \in Frames \ dirty THEN [mem EXCEPT ![table + 1][0] = f]
  ELSE mem

AllocPage ==
  /\ InCall("alloc")
  /\ \E f \in Free, w \in Words :
       /\ Rank(f) = 0
       /\ pagemap' = pagemap \cup {f}
       /\ mem' = [WithEntry(LastTable(tasks[current_task].dir), f) EXCEPT ![f] = Zeros]
       /\ cpu' = [cpu EXCEPT !.eax = w]
       /\ dirty' = dirty \cup {f}
  /\ UNCHANGED <<pc, panic, tasks, num_tasks, heap>>
  /\ SameMachine

AllocOutOfPages ==
  /\ InCall("alloc") /\ Free = {}
  /\ Panic("No free pages")
  /\ UNCHANGED <<pagemap, mem, dirty, tasks, num_tasks, cpu, heap>>
  /\ SameMachine

-----------------------------------------------------------------------------
\* The directory or a table of a live task no longer holds what the kernel put
\* there.  Bound: what the processor does then is not modelled.
Intact(p) ==
  LET d == tasks[p].dir
  IN  /\ d \notin dirty /\ mem[d][0] = KernelEntry
      /\ \A e \in TablesOf(d) : mem[d][e] \in Frames \ dirty

SpacesIntact == \A p \in Live : Intact(p)

Step ==
  \/ TaskCreate \/ InstallSwitch \/ OtherInterrupt \/ PanicEnds
  \/ Timer \/ TimerFindsNoTask
  \/ UserStep \/ GetPid
  \/ \E f \in Frames : UserWrite(f)
  \/ ForkTask \/ ForkFull \/ ForkOutOfHeap \/ ForkOutOfPages
  \/ Exit \/ Trap \/ KillSelf
  \/ \E p \in Pids : Kill(p) \/ KillNobody(p)
  \/ ClearCurrent \/ Sti
  \/ AllocPage \/ AllocOutOfPages

\* The machine stays as it is after a panic.
Stopped == (pc = "halted" \/ ~SpacesIntact) /\ UNCHANGED vars

Next == (SpacesIntact /\ Step) \/ Stopped

Spec == Init /\ [][Next]_vars

\* The timer keeps ticking, and the kernel runs on by itself.
FairSpec ==
  /\ Spec
  /\ WF_vars(SpacesIntact /\ (TaskCreate \/ InstallSwitch \/ PanicEnds
                             \/ ClearCurrent \/ Sti))
  /\ WF_vars(SpacesIntact /\ (Timer \/ TimerFindsNoTask))

-----------------------------------------------------------------------------
(* Properties.                                                              *)

\* num_tasks, which decides whether fork may go on to look for a free slot, counts
\* the live tasks, and a task's own idea of its number, by which
\* task_kill_and_free clears the table, is its slot (ksrc/task.c:141-145, 243-246).
SlotsAgree ==
  /\ num_tasks = Cardinality(Live)
  /\ \A p \in Live : tasks[p].pid = p

\* Whenever the timer can interrupt, task_switch saves the registers to the task
\* they belong to or nowhere: never to a task that died, never the kernel's own
\* registers; and a program runs on its own directory and kernel stack
\* (ksrc/task.asm:42-60, 92-104, 128-143; syscall.c:77-81; trap.c:49-53).
SwitchSafe ==
  /\ pc = "user" => /\ current_task \in Live
                    /\ tr = current_task
                    /\ cr3 = tasks[current_task].dir
  /\ pc \in {"idle", "panicking", "spin"} => current_task = NoTask

\* The processor never runs on a page directory that has been freed
\* (ksrc/task.c:219-222, task.asm:128-129, syscall.asm:39-40).
LoadedDirectoryLives ==
  cr3 # KernelDir => \E p \in Live : tasks[p].dir = cr3

\* Between boot and the first program, and after a death, no task is current and
\* the kernel runs on its own directory (ksrc/main.c:70-74, syscall.c:77-81,
\* trap.c:49-53, task.c:219-222).
KernelAlone ==
  /\ pc = "boot" => Live = {}
  /\ pc \in {"boot", "created", "idle", "panicking", "cleared", "spin"} =>
       current_task = NoTask
  /\ pc \in {"boot", "created", "idle", "panicking", "dying", "cleared", "spin"} =>
       cr3 = KernelDir
  /\ pc = "dying" => current_task \notin Live

\* What the proofs show to be inductive.
IInv ==
  /\ TypeOK
  /\ SlotsAgree
  /\ SwitchSafe
  /\ LoadedDirectoryLives
  /\ KernelAlone

\* Pages a live task can reach and will free are allocated, reached once, and
\* not reached by any other task (ksrc/task.c:152-247, syscall.c:40-68).
NoSharedPages ==
  /\ \A p \in Live : ~NonExistent(tasks[p].dir) /\ ~FreedTwice(tasks[p].dir)
  /\ \A p, q \in Live :
       p # q => Returned(tasks[p].dir) \cap Returned(tasks[q].dir) = {}

\* Every allocated page belongs to a live task: what exit, kill and exceptions
\* leave behind can be used again (ksrc/task.c:223-241).
NoLostPages ==
  pc # "halted" => pagemap \subseteq UNION {Returned(tasks[p].dir) : p \in Live}

\* While nobody both allocates and dies, pages go round exactly: each one in use is
\* reached from one live task, once, and the tables that lead there are as the
\* kernel wrote them (ksrc/task.c:152-247).
PagesExact == NoSharedPages /\ NoLostPages /\ SpacesIntact

\* Programs that allocate until their tables are full and beyond, and fork, never
\* come to share a page or lose a table (ksrc/syscall.c:40-68, task.c:152-207).
PagesApart == NoSharedPages /\ SpacesIntact

\* The assertion of free_page, "Freeing freed page" (ksrc/task.c:89-90).
FreesOnlyUsedPages == panic # "Freeing freed page"

\* The panic of alloc_page, "No free pages" (ksrc/task.c:77): no page is free.
NoFreePagesMeansNone == panic = "No free pages" => pagemap = Frames

\* The panic of kmain, "init exited" (ksrc/main.c:75): init is gone.
InitExitedMeansGone == panic = "init exited" => Live = {}

\* sys_fork's comment: "we copy the registers from our current registers and
\* modify EAX to be the new pid" (ksrc/syscall.c:110-112).
ForkCopiesRegisters ==
  [][\A p \in Pids : pc = "user" /\ p \notin Live /\ p \in Live' =>
       tasks'[p].tss.rest = cpu.rest]_vars

\* The registers of every live task, wherever they are.
Registers == [p \in Live |-> IF p = current_task THEN cpu ELSE tasks[p].tss]
RunningTask == IF current_task \in Live THEN current_task ELSE NoTask

\* To a program, this is a set of processes with registers of their own:
\* task_switch, the system calls and the exception handler together keep what
\* Processes promises (ksrc/task.asm:42-143, syscall.c:70-142, trap.c:39-55).
Promise == INSTANCE Processes WITH
  procs <- Live, ctx <- Registers, running <- RunningTask, down <- pc = "halted"
ImplementsProcesses == Promise!Spec

\* No task starves: again and again each live task's program runs, unless it dies
\* or the machine stops.  (task_find_next starts over from task 0 after every
\* death, but a kernel heap that takes no task_t back bounds the deaths.)
EveryTaskRuns ==
  \A p \in Pids :
    []<>(p \notin Live \/ (pc = "user" /\ current_task = p) \/ pc = "halted")

\* How many tasks task_find_next tries before p when it starts after task t
\* (ksrc/task.c:256-265).
Away(t, p) == IF p > t THEN p - t - 1 ELSE p - t - 1 + MaxTasks

\* Whatever the programs do, a switch brings every live task its turn or brings it
\* nearer; only a death starts the search over at task 0 (ksrc/task.c:256-268,
\* syscall.c:77, trap.c:49).
TurnsComeNearer ==
  [][Timer \/ current_task' # current_task =>
       \A p \in Live :
         current_task' \in {p, NoTask} \/ Away(current_task', p) < Away(current_task, p)]_vars

\* The endless loop a dying task is left in is left for another task, or the
\* machine stops (ksrc/syscall.c:77-81, trap.c:49-53).
DeathIsFollowed == pc = "dying" ~> pc \in {"user", "halted"}

\* kmain's hlt ends in the first program or in a panic (ksrc/main.c:70-75).
BootEnds == <>(pc \in {"user", "halted"})

\* No wait of the kernel for the timer is the last thing that happens: not the hlt
\* of boot, not the loop of a dying task (ksrc/main.c:70-75, syscall.c:77-81,
\* trap.c:49-53).
KernelGoesOn == DeathIsFollowed /\ BootEnds

=============================================================================
