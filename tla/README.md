# CSOS in TLA+

CSOS is a small multitasking kernel for 32-bit x86 PCs (`src/ksrc`, `src/kinc`), with a C
runtime for its user programs (`src/user`, `src/uinc`).  This directory holds TLA+ modules of
it: heap, page frames, tasks and task switch, interrupts and boot, keyboard, disk, console,
descriptors, page tables, the FAT16 file system, and what programs rely on.  They are
model-checked with TLC on small instances, and the main results are proved with TLAPS for every
value of the constants.  `PROJECT.json` maps every definition to the lines it models.

## 1. The system

### 1.1 Components

| Component | State | Operations |
|---|---|---|
| Kernel heap (`kmalloc.c`) | `chunks[2048]`, `n_chunks`; a length word in front of each block | `kmalloc_init`, `_kmalloc`, `_kfree`, `mm_fix_chunk` |
| Page frames (`task.c`) | `pagemap`, one bit for each page of user memory; `page_base`, `total_pages` | `alloc_page`, `free_page` |
| Tasks (`task.c`) | `tasks[128]`, `num_tasks`, `current_task`; for each task a TSS, a kernel stack, a page directory and its tables, file descriptors | `task_create`, `task_dup`, `task_kill_and_free` |
| Scheduler (`task.asm`, `task.c`) | the registers of the processor, `cr3`, the task register; the TSS of each task | `task_switch`, `task_find_next`, `task_install_next_tss` |
| System calls (`syscall.asm`, `syscall.c`) | a saved `cr3`; nothing else of its own | `alloc_page`, `exit`, `kill`, `get_pid`, `fork`, `write`; the others are empty or only print |
| Exceptions (`trap.c`) | none | kill the current task |
| Boot (`main.c`, `loader.asm`) | none | initialise everything, create init, halt |
| Panic (`panic.asm`, `panic.c`) | none | print, `cli`, `hlt` |
| Interrupt table (`idt.c`, `isrs.asm`) | the IDT, `isr_handlers[256]`, a stack of interrupt flags | register, subscribe, unsubscribe, dispatch |
| Keyboard (`kb.c`) | the last scan code, a flag, shift state | interrupt handler, `kb_read_scancode` and what is built on it |
| FAT16 (`fs/fat.c`) | boot record, file allocation table | parse a path, look up, read, size |
| VFS (`fs/vfs.c`) | one mounted file system; streams | open, read, seek, close |
| Partitions and disk (`part.c`, `ata.c`, `realmode/`) | none; the BIOS does the work | read sectors |
| Console (`console.c`) | text memory, cursor | print, scroll, the stdout stream |
| GDT, paging (`gdt.c`, `paging.c`) | the GDT; the kernel's page directory and tables | encode, decode; identity map |
| User runtime (`user/crt`) | the heap of the C library | system calls, 64-bit division, stdio |
| Init (`user/init.c`) | its registers and pages | one program, linked with the runtime |

Vendored code (`linux-0.01`, `pdclib`, `lua-5.1.4`), host tools and boot files are no part of
the running kernel's logic.

### 1.2 How they interact

`kmain` initialises the parts one after the other, reads `/init.bin` through VFS, FAT, the
partition and the BIOS, has `task_create` build the first task in pages of `alloc_page` and in
heap memory, installs `task_switch` as the handler of the timer interrupt and halts.  From then
on the machine is driven by interrupts: the timer (`task_switch`), `int 0x80` (system calls)
and exceptions.  There is one processor.  The kernel disables interrupts on every entry and
keeps them disabled, except in four places: `kmain`'s `hlt`; the panic right after it; user
code; and the endless loop `for(;;)` in which a task that exited or was killed by an exception
waits for the next timer interrupt.

`multitasking_enabled` looks like a lock against task switches in the kernel.  It is none:
`task_switch` loads its *address* (`task.asm:22`, `mov eax, multitasking_enabled` without
brackets), which is never zero.  Only the interrupt flag protects the kernel, and the model
follows the code in that.

### 1.3 What is hard

* *Interleaving.*  The timer may fire as soon as `sti` runs: in a dying task between
  `current_task = 0xffffffff` and the endless loop, and while `kmain` is panicking.
  `task_switch` then saves registers through `tasks[current_task]` without a further look.
* *Ownership of pages.*  `pagemap`, the page directories and the page tables describe the same
  pages three times.  Page tables are never cleared when they are allocated, and
  `sys_alloc_page` writes past the end of a full table.
* *Long sequences.*  `num_tasks` against the occupied slots; the chunk table against the
  blocks handed out; heap memory that never comes back.
* *Limits.*  A full task table, no page, no heap, a page count that is no multiple of 8.
* *Progress.*  Everybody must get a turn again, and the loop of a dying task must be left.

### 1.4 What makes each component correct

* *Heap*: blocks and free chunks never overlap and stay in the heap; the merge loop ends; the
  chunk table describes all that is free; a failure means that memory is really used up.
* *Page frames*: a page has one owner; what a dead task had can be used again; only pages in
  use are freed; "no free pages" means none.
* *Tasks and scheduler*: `num_tasks` counts the slots; a switch saves the right registers or
  none; the processor is never on a freed directory; every process has registers of its own;
  nobody starves.
* *System calls and exceptions*: they run to the end, or the machine stops; a dead task is left
  for good.
* *Boot and panic*: the first task runs, or the kernel says truly why not.
* *Interrupt table*: at most one subscriber for each interrupt; the saved flags nest.
* *Keyboard*: a reader gets each scan code that came since it asked, untorn.
* *FAT16 and VFS*: the sectors read are those of the file; path parts are freed once; a closed
  stream frees what it owns.
* *Disk*: a read of any length is split into requests that cover it exactly.
* *Console*: the cursor stays on the screen, scrolling keeps the lines in order.
* *GDT, paging*: decoding inverts encoding; heap, page tables and user memory are disjoint.
* *User runtime*: quotient and remainder are those of the division.

## 2. The modules

| Module | What it is | Proofs | Run |
|---|---|---|---|
| `Heap` | what a heap promises: disjoint blocks, and failure only when used up | | |
| `Kmalloc` | `kmalloc.c`: the chunk table, best fit, the merge loop | `KmallocProofs` | `heap` |
| `Layout` | `Kmalloc` where `main.c` and `paging.c` put it, over the page tables | `KmallocProofs` | `heap` |
| `Processes` | what multitasking promises: processes with registers of their own | | |
| `Tasks` | `task.c`, `task.asm`, `syscall.c`, `trap.c` and the end of `main.c` together | `TasksProofs`, `PagesProofs` | `tasks_*` |
| `Interrupts` | boot, the trips to real mode and the interrupt entry, against the controllers | `ProcessorProofs` | `machine` |
| `KeyReader` | what a reader of the keyboard may rely on | | |
| `Keyboard` | `kb.c`: the interrupt handler against a reader | `DeviceProofs` | `machine` |
| `Transfer` | what a reader or writer of the disk may rely on | | |
| `Disk` | `ata.c`, `part.c`: requests cut into BIOS calls | `DeviceProofs` | `machine` |
| `Terminal` | what printing shows: rows of letters | | |
| `Console` | `console.c`: cursor, printing, scrolling | `DeviceProofs` | `machine` |
| `Segments` | `gdt.c`: descriptors and their table | `ProcessorProofs` | `machine` |
| `Paging` | `paging.c`: the kernel's page tables | `ProcessorProofs` | `machine` |
| `Walk` | what a path means | | |
| `Paths` | `fat.c`: parsing a path, and the memory that takes | `FileProofs` | `services` |
| `Directory` | `fat.c`: looking up and listing | `FileProofs` | `services` |
| `FatFile` | `fat.c`: reading a file along its clusters | `FileProofs` | `services` |
| `ShortNames` | `fat.c`: 8.3 names, both ways | `FileProofs` | `services` |
| `Streams` | `vfs.c`: streams on files | `FileProofs` | `services` |
| `Write` | `sys_write`, address translation and `console_vfs_write` | `ProgramProofs` | `services` |
| `Format` | `string.c`: `vsnprintf` | `ProgramProofs` | `services` |
| `Division` | `user/crt/csos.c`: 64-bit division | `ProgramProofs` | `services` |
| `UserHeap` | the C library's `malloc` on `_PDCLIB_allocpages` and `sys_alloc_page` | `ProgramProofs` | `services`, `heap_elsewhere` |

`MCKmalloc`, `MCTasks`, `MCMachine` and `MCServices` hold the instances for TLC.
`Quotients` holds the lemmas about quotients, rests and least elements that the proof modules share.
An inductive invariant that serves a proof only is defined in the proof module.

Definitions above which a comment says "Mutant" are plausible wrong versions of the definition
that follows them.  The specifications do not use them; each run's properties have been seen to
fail when one of them takes its original's place (`PROJECT.json`, "mutants").

The modules whose parts work together in one behaviour are `Tasks` (table, pages, system calls,
switch), `Interrupts` (boot, real mode, controllers, first task), `Layout` (heap and page
tables), `Write` (system call, paging, console stream) and `UserHeap` (library and system call).
Where one module stands on another it says on what: `Tasks` counts heap blocks as `Kmalloc`
proves they behave; `FatFile` and `Directory` read sectors as `Transfer` promises.

### 2.1 Kmalloc

`chunks` and `n_chunks` are the code's variables.  `live` holds the blocks handed out with
their header word: what a caller knows plus what is in memory before the block.  `fixing` is
the local variable `c` of `_kfree`'s loop, `NoSlot` outside of it.  `freed` (the lengths of freed
blocks), `frees` (how many there were) and `served` (how many bytes were handed out) are history
variables, for the properties only.  `BytesInUse` are the bytes of chunks and blocks, so
`HeadersNeverReturn` says that each free takes a header's worth out of them for good.

| Action | Code |
|---|---|
| `Kmalloc(len)` | `_kmalloc`, one step |
| `KmallocFails(len)` | its panic |
| `Kfree(b)` | `_kfree` up to the loop |
| `FixChunk`, `FixDone` | one call of `mm_fix_chunk` that returns true, or false |

`_kfree` gives back `len` bytes from the header on, not `len + 4`: the last four bytes of every
freed block are lost.  What looks like a small leak shapes the whole heap, and the model keeps
it.  No freed chunk ever ends where another region begins, so `mm_fix_chunk` never has anything
to merge, except a chunk of length zero with itself (it then clears its own slot, and the loop
ends).

Bounds: `MaxChunks` slots, and a `_kfree` that would write past the table is not a step;
the code has no check either, and `TableGrowsSlowly` shows that 2048 slots take at least 4094
frees to fill.  Freeing a pointer that is not a block is not modelled: no caller does.

### 2.2 Tasks

| Variable | Code |
|---|---|
| `pc` | which stretch of code the processor is in (see 1.2) |
| `panic` | the message of the panic there was |
| `pagemap` | set of pages whose bit is set |
| `mem` | what each page holds if it is read as a directory or table |
| `dirty` | pages a program may have written since: their contents are anything |
| `tasks`, `num_tasks`, `current_task` | the same |
| `cr3`, `tr`, `cpu` | page directory, task register, registers of the running program |
| `heap` | how many `task_t` the heap will still serve |

A register set is a record of three parts that the code treats differently: `frame` (what an
interrupt pushes: ss, esp, eflags, cs, eip), `eax`, and `rest`.  An entry of a directory or
table is a page number, `Absent` (present bit clear) or `KernelEntry` (entry 0, the kernel's
first 4 MB).

Building an address space takes the pages that the successive calls of `alloc_page` return
(`Allocated`), in the code's order: the directory, then each table followed by its pages.  The
directory is cleared, tables keep what the page frame held before (`Leftovers`), pages are
copies.  `Returned` are the pages that `task_kill_and_free` gives back.

| Action | Code |
|---|---|
| `TaskCreate`, `InstallSwitch`, `OtherInterrupt`, `PanicEnds` | end of `kmain`, and its panic, during which the timer may still come |
| `Timer`, `TimerFindsNoTask` | `task_switch` with `task_find_next` and `task_install_next_tss` |
| `UserStep`, `UserWrite(f)` | any program: computes, writes its pages |
| `GetPid`, `ForkTask`, `ForkFull`, `ForkOutOfHeap`, `ForkOutOfPages` | `sys_get_pid`; `sys_fork` with `task_dup`, and its three ways to fail |
| `Exit`, `KillSelf`, `Kill(p)`, `KillNobody(p)`, `Trap` | `sys_exit`, `sys_kill`, `trap_handler`, each with `task_kill_and_free` |
| `ClearCurrent`, `Sti` | what a dying task does last |
| `AllocPage`, `AllocOutOfPages` | `sys_alloc_page` |

Kernel code with interrupts disabled is one step, except after a death: there the order of
leaving the directory, clearing `current_task` and `sti` is what matters, so they are steps.

Assumptions and bounds, all in the modules:

* RAM is zero at boot (`Init`): what page tables inherit is then only what programs and the
  kernel left there.
* Init's image fits one page table, and there is room for it (`TasksAssumption`); `kmain`
  refuses less than 16 MB, and the image is read into the kernel heap first.
* `Leftovers`: of what a program may have left in a page that becomes a page table, at most one
  entry looks present.  One is enough for the failure found below.
* `SpacesIntact` stops a behaviour once the directory or a table of a live task is
  overwritten, by a program it is mapped to or by `sys_alloc_page`: what the processor does with
  such a table is not modelled.  The runs `tasks_life` and `tasks_grow` show that with less than
  the full workload this never happens; the others explore all that comes before it.
* `heap` counts task blocks down and never up.  That is the heap's own behaviour: by
  `LargestNeverReused` of `Kmalloc`, a freed block never serves a request of the largest size
  again, and `task_t` is the largest block the running kernel asks for.
* `MAX_TASKS` is 128, which divides 2^32, so `(i + t) % MAX_TASKS` with `t = 0xffffffff` is
  what the model computes with -1.

### 2.3 Processes, and the refinement

`Processes` says what a program may rely on: dispatching a process resumes it exactly where it
was, nobody else changes its registers, a dead process never runs again, fork makes one more
process, and it fails only when every number is taken.  (The new process gets the caller's
`frame`, the new number in `eax`, and zero elsewhere: see finding 5.)  `Tasks` implements it
with the mapping `Promise`: the registers of a task are in `cpu` while it is current and in its
TSS otherwise.  Heap and page exhaustion are `Stop` steps there.

### 2.4 Interrupts

`kmain` and `real_exec` are one step for each instruction after which an interrupt finds
something different: protection, code and data segment, interrupt table, interrupt flag (`cpu`).
The two 8259 controllers are modelled as their manual has them, as far as the kernel programs
them: requests, what is in service, priorities, the non-specific end of interrupt (0x20) and the
rotating one (0xa0, which `isr_main` sends to the *master*), initialisation by `idt_map_irqs`.
The BIOS may end any interrupt or none, and read the keyboard or not.  The keyboard holds its line until its
code is read.

| Action | Code |
|---|---|
| `IdtInit`, `TrapInit`, `KbInit`, `TaskInit`, `Install` | `kmain` |
| `Read`, `JumpTo16` ... `LoadKernel`, `MapIrqs` | `ata.c` through `realmode.c`, `realmode.asm` |
| `Take`, `TakeWrongly`, `TakeInBios` | the processor takes an interrupt: to `isrs.asm`, to its death, or to the BIOS |
| `Dispatch`, `Switch` | `isr_main` with the handler; `task_switch` |
| `EnterCall`, `LeaveCall`, `PanicPrints` | system calls and the panic of `kmain` |
| `Raise` | a device |

`DiesInWindows` lists all places where an interrupt brings the machine down: between the `sti` at
the end of `idt_init`, which undoes the `cli` of `kmain`, and `task_init`; and, on each trip to
real mode, from the load of the 64 KB data segment to `lidt`, and from the `sti` on the way back
until `ds` is the kernel's again.  `SilencedByBoot` says when the keyboard falls silent for ever:
only when initialising the controllers, or the BIOS, swallows its request.  Once tasks run, no
interrupt of the master is lost or blocked (`MasterOpen`, `MasterTaken`), though some get two
ends and some one, and each line of the slave works once (`SlaveOnce`): the slave is never told
of any end.  A device raises its line whenever it likes, the timer included: ticks come while
requests wait, while handlers run, and while lines of the slave are stuck in service.

### 2.5 Keyboard and KeyReader

The reader (`kb_read_scancode`, `kb_read_key`) is modelled one access of the shared variables at
a time, the handler in one step anywhere between them while interrupts are enabled.  `held` is
the set of modifiers, `sc` and `mods` what the reader copied so far.  `arrived` (what came since
the call cleared `key_ready`) and `torn` (a code came while another was being copied) are
history variables.  Without a lock the reader may mix two codes; `MixesFreshCodes` says that it
never does worse, `KeyEndsWait` that a code between the test and the `hlt` does not leave it
waiting (the next tick wakes it), `ImplementsReader` that the driver implements `KeyReader`,
which promises nothing for torn codes.

### 2.6 Disk, Console, Segments, Paging

`Disk` has the loop of `ata_read_sectors` and `ata_write_sectors` with packet, bounce buffer and
error byte, one BIOS call and one copy a step; a failing call leaves anything in what it was to
move.  The mapping to `Transfer` counts a chunk as moved when it is in its place and the call
had not failed.  The partition's start is added by the callers in `part.c`.

`Console` prints one character a step; `Movexy` adds unsigned numbers, as the code does.
`ImplementsTerminal` maps the cells to rows of letters (`LettersOf`: what a row shows in front of
its first empty cell); it holds until the cursor is first moved (`moved`), because until then
the screen is filled from the left and from the top, up to the cursor (`FilledFromLeft`).

`Segments` and `Paging` keep what was asked for beside what the tables hold (`made`, `asked`),
so that decoding and translation can be compared with it, after any sequence of changes.
`AddEntry` takes the slot that the code's test leads to (`TakenForFree`), which is not the one its
comment means; what is checked is what the slots hold, wherever it was put.  `LeadsWhereAsked`
leaves out mappings to addresses within a page, which `paging_map` means to refuse.  The
ranges of `Segments` are given by `Pair` (2^16), `Limits` (2^20) and `Unit` (2^12) and what
relates them, instead of as powers.
Physical memory in `Paging` is the tables and page 0, because a directory entry that is absent
sends `paging_map` there.

### 2.7 Paths, Directory, FatFile, ShortNames, Streams

`Paths` takes a path as the sequence of what stands between its slashes; each part is a step, as
is each block freed in the end.  Blocks are known by the number of their `kmalloc`.  `strcmp`
compares lengths only (`string.c:89-102`), so a name of two letters is taken for `..`: `FreedOnce` holds
all the same, `FollowsPath` (implementing `Walk`) for paths without such names.

`Directory` looks at one entry a step, among deleted ones, labels, what older contents left
behind the end, and in directories without an end.  On the way down a path the buffer that holds
the entry just found is cleared before the entry is asked for its cluster (`fat.c:230`): 16 bytes
for each sector of a cluster, so with six sectors the first entry after `.` and `..` is gone, and
the lookup goes on at cluster 0, in the end of the root directory.  `FindsEntry` says that
lookups go wrong on such a path only (`ThroughWiped`), and what they find otherwise: the entry
that the path denotes (`Denoted`, one level of `Ways` after the other).  `ListsAll` compares a listing
with the entries in use in front of the first empty one (`Filled`).  What a volume must be like
is `DirectoryAssumption`: up to the first empty entry names differ, and directories lead to
directories.

`FatFile` reads a file cluster by cluster, starting again from the first for each.  `ReadsFile`
says which bytes come out: for clusters of one sector those asked for, for larger ones those
`2 * (spc - 1)` sectors behind them.

`ShortNames` makes the name of an entry as `fattostr` does and then takes it, with its dot or
without, through the loop of `strtofat`, one character a step (`Take`; `src_i` and `dest_j` are its
`i` and `j`).  A character is a pair of a sign and its case; `Others` have none.  `Renaming` says
which listed names are found again, and that no two entries are listed alike.

`Streams` has `vfs_open`, whose state block keeps what lay in memory but for the path, seeking,
and closing, which frees what the stale pointer says.

### 2.8 Write, Format, Division, UserHeap

`Write` follows `sys_write` over an address space whose pages may be scattered, shared, or not
mapped, a chunk a step, down to what is printed and what heap memory is lost.  Memory is known by
where its zero bytes are (`zeros`); `handed`, `chunks`, `printed` and `wasted` record the addresses
handed to the console, the chunks they came in, the addresses printed and the bytes lost.
`PrintedUpTo` says what is printed if each chunk meets a zero in time: what is asked for but its zeros.

`Format` is `vsnprintf`, a directive a step: `fmt_i` counts the directives done, characters are
their codes.  `Digits` fills `tmp` as the loops over the quotients do, with C's quotient and
remainder, which matter for the least int; `Numeral` is what it is judged by, the only string of
digits without a leading zero that has the number as its value.  `Division` subtracts as the code
does; signed overflow wraps around.  `DividesUneven` says what is right about it: quotients that
do not come out even, and rests of numerators that are not negative.

`UserHeap` is the free list with its `last` pointer.  `Kernels` says how the kernel answers:
`FALSE` is this kernel, which answers with an address that is not the one it mapped (finding 6);
writing the first node there is the end of the program for this model.  `TRUE` is one that answers
with the address it mapped, which is what the library is written for, so that the list can be
checked at all: what `UserHeapInv` and `Accounted` say of blocks is about such a kernel.

## 3. The runs

| Run | Instance | Shows |
|---|---|---|
| `heap` | 13 bytes, header 2, lengths 0, 1, 3, 5 slots, page tables at byte 8; 80 000 states | separation, the inductive invariant, the bounds on what is lost, the merge loop ends, refinement of `Heap`, the page tables are safe as long as all allocations together fit below them |
| `tasks_life` | 3 slots, 14 pages, no `sys_alloc_page`; with fairness | page ownership is exact, switching is safe, no starvation, no switch passes a live task by, every death is followed |
| `tasks_grow` | 3 slots, 16 pages, forks and `sys_alloc_page`, no deaths | no page is shared, even when full tables are written past their end |
| `tasks_all` | 2 slots, 7 pages, registers with two contents, all calls; 159 000 states | the inductive invariant of the proofs, and refinement of `Processes`: table, switching, directory and registers stay right even where page ownership is lost; a swapped, lost or stale register would be seen |
| `machine` | each of interrupts, keyboard, disk, console, descriptors and page mappings; 300 000 states | 2.4 to 2.6 |
| `services` | each of paths, lookups, files, names, streams, writes, the library's heap, divisions and messages; 970 000 states | 2.7 and 2.8 |
| `heap_slot_not_counted` | | finding 1 |
| `freed_page_freed` | | finding 2 |
| `free_pages_left` | | finding 3 |
| `init_never_ran` | | finding 4 |
| `fork_registers` | | finding 5 |
| `heap_elsewhere` | `UserHeap` alone, on this kernel | finding 6 |

Several properties are conjunctions of statements that belong together; the text above and below
names the parts where it is about one of them.

| Run | Property | Parts |
|---|---|---|
| `heap` | `IInv` | `TypeOK`, `Separated`, `FixingEmpty`, `FirstChunk` |
| | `FreedIsLost` | `HeadersNeverReturn`, `LargestNeverReused`, `TableGrowsSlowly` |
| | `TablesUntouched`, `MergeLoopEnds`, `ImplementsHeap` | |
| `tasks_life` | `PagesExact` | `NoSharedPages`, `NoLostPages`, `SpacesIntact` |
| | `KernelGoesOn` | `DeathIsFollowed`, `BootEnds` |
| | `SwitchSafe`, `LoadedDirectoryLives`, `EveryTaskRuns`, `TurnsComeNearer` | |
| `tasks_grow` | `PagesApart` | `NoSharedPages`, `SpacesIntact` |
| `tasks_all` | `IInv` | `TypeOK`, `SlotsAgree`, `SwitchSafe`, `LoadedDirectoryLives`, `KernelAlone` |
| | `ImplementsProcesses` | |
| `machine` | `InterruptsInv` | `InterruptsTypeOK`, `MasterOpen` |
| | `DiesInWindows`, `SlaveOnce`, `SilencedByBoot`, `MasterTaken` | |
| | `KeyboardInv` | `KeyboardTypeOK`, `Delivered`, `MixesFreshCodes`, `Untorn` |
| | `KeyEndsWait`, `ImplementsReader`, `ImplementsTransfer` | |
| | `ConsoleInv`, `ImplementsTerminal`, `MovesExactly` | |
| | `DescriptorsFit` | `ComesBack`, `Reaches` |
| | `LeadsWhereAsked` | |
| `services` | `Lookups` | `FindsEntry`, `OverrunsFullOnly` |
| | `ReadsExactly` | `ReadsFile`, `InsideFat` |
| | `Renaming` | `FoundAgain`, `FoundWithoutDot`, `ListedApart` |
| | `StreamsApart` | `SeeksAsAsked`, `FreesAtStalePointer` |
| | `FreedOnce`, `FollowsPath`, `ListsAll` | |
| | `WriteOutcome` | `HandsOnAll`, `CountsHandedOn`, `PrintsOthersWhenLosing`, `PrintsAsked`, `LosesItsLength` |
| | `MessageFits` | `CutsText`, `StaysInside`, `PanicsInRoom` |
| | `UserHeapInv`, `Accounted`, `DividesUneven` | |

In `machine` and `services` the parts share no variable.  `job` names the one that
works; the others rest in an initial state, so a behaviour of the run is one of a part, and the
states of the parts add up instead of multiplying.

Why the bounds are enough.

* *Heap.*  A header of 2 bytes instead of 4, and lengths 0, 1 and 3, give an
  empty chunk, an exact fit, a remainder too small for any request and a request that cannot be
  met, all on 13 bytes; five slots let holes come about before, at and after `n_chunks`.
* *Tasks.*  Two task slots already give reuse of a slot by a new task while the other one lives;
  three give round robin with a gap.  Four entries to a directory and to a table, of which three
  directory entries are user space, let a table be full, while a task uses one table only, as
  init does.  A byte of `pagemap` has 4 bits (1 in `tasks_all`) instead of 8.  Six `task_t` are
  enough for a table to be filled, emptied and filled again.
* *Interrupts.*  The timer and the keyboard are the only lines with handlers; two lines of the
  slave show what one in service does to another.  Two disk reads let a trip begin in what the
  trip before left behind.
* *Keyboard.*  The prefix, one modifier and one code that means something else after the prefix;
  any number of them, in any order.
* *Disk.*  Three sectors with two at a time: a full chunk, a rest, requests of none, and room to
  see a misplaced sector; each call may fail.
* *Console.*  Three columns and two rows give the right edge, the last row and both at once;
  moves reach over all edges.  `Word` is 16, no multiple of 3, as 2^32 is none of 80.
* *Segments.*  Four values to a byte; sizes on both sides of where the unit changes.  All
  descriptors with two changes, two of them with six.
* *Paging.*  Three entries to a table, one table present, two not; physical addresses at a page,
  between, and at what the code tests for.
* *Files.*  Paths of up to five parts, of lengths 0 to 4, cover every order of ups and downs
  that comes back to the root.  Directories of three entries with two
  levels below them; files of three clusters in any order, of one or two sectors; bases of three
  letters, upper case or without case, and extensions of two.  Two streams show what one close does to another.
* *Programs.*  Divisions of five-bit numbers, signed and not, all pairs.  Two pages of 12 bytes: requests
  that share a page, fill one, need both, or find none.  Writes of all lengths and places in a
  wrapping address space of four pages.  Formats of three directives into buffers of 1 to 12;
  numbers of a byte, the least int included, which have up to three digits (`Places`; the code's
  `tmp` has room for 20, an int takes 10).

The theorems below need none of these bounds.

Deadlock is checked in all passing runs; the stutter of a stopped machine or of a call that has
returned (`Stopped`, `Halted`, `Over`) is a step of its own.

Fairness:

* `heap`, `tasks_life`: the processor goes on (weak fairness of the kernel's own steps and of
  the merge loop, during which nothing else can run), and the timer keeps ticking (weak fairness
  of the timer where interrupts are enabled).  Programs owe nothing: they may compute for ever.
  Under this, `EveryTaskRuns` is not obvious: after every death the search starts again at task
  0, so endless deaths could keep a task with a high number waiting.  They cannot be endless,
  because the heap takes no `task_t` back.
* Interrupts: a system call and a handler end (both run with interrupts disabled, so nothing
  holds them up), and a request that is offered again and again, whenever a program runs with
  interrupts enabled, is taken: strong fairness of each line's `Take`, because the flag goes on and
  off.  Boot owes nothing: `MasterTaken` is about running tasks.  It has a premise on the hardware,
  `TicksApart`: from some time on the timer does not tick again while `task_switch` handles its
  tick, so its period is longer than that handler.  Ticks may come at any other time, also while
  other requests wait or are handled, or lines of the slave are stuck.  Without the premise ticks
  back to back would keep the keyboard out, and no code could help.  No device need ever ask.
* Keyboard: the reader goes on, and another interrupt wakes it from its `hlt`: the timer ticks.
* The other parts have safety properties only, and need no fairness.

## 4. Findings

Each is what the code does against what a comment, an assertion or a message of the code says.

1. `_kfree` takes the increment of `n_chunks` back also when the free slot is the new last one
   (`kmalloc.c:88-94`).  The chunk is then invisible to `_kmalloc` and is overwritten later.  The
   comments say that the increment is for exactly that case.
2. `task_dup` does not clear page tables (`task.c:168-178`).  A new task inherits what the page
   frame held; when it dies, pages of others are freed, or free ones, and the kernel panics
   with "Freeing freed page".
3. `alloc_page` scans `total_pages / 8` bytes, `task_init` makes `(total_pages + 7) / 8`.  The
   kernel panics with "No free pages" while some are free.
4. `kmain` panics with "init exited" when another interrupt than the timer's ends its `hlt`,
   though init is alive.  Interrupts stay enabled until the end of the panic, so
   the timer may still start init: the message is then all that is wrong.
5. `sys_fork` copies the five words of the interrupt frame, not "the registers", as its
   comment says; the other registers of the new task are zero.
6. `sys_alloc_page` maps a page at the end of the program's heap and answers with an address made
   of the page frame's number and the last directory index of its scan (`syscall.c:67`).  The
   library wants "the *former* end-of-heap" (`_PDCLIB_glue.h:26-30`), and its `malloc` writes its
   first node at the answer.

The properties of other modules say what the code does where that is not what one expects.  They
hold, and each says exactly how far the code goes, or leaves out the case where the code does not do what
a comment, a message or a test means:

| Code | What it does | Property |
|---|---|---|
| `malloc.c:97` | moves `memlist.last` ("last" node, `malloc.c:21`) in front of the node it split: nodes behind it are forgotten by the next `free` | `Accounted` (with `lost`) |
| `main.c:42`, `task.c:111` | the heap goes on to 6 MB, over the page tables at 4 MB and beyond the 4 MB that a task maps as "what the kernel will be using" | `TablesUntouched` |
| `main.c:45`, `realmode.asm` | interrupts enabled where they must not come | `DiesInWindows` |
| `isrs.asm:40-44` | both ends of interrupt go to the master | `SlaveOnce` |
| `realmode.c:20` | forgets requests | `SilencedByBoot` |
| `gdt.c:99` | adds 5 to a byte instead of to its address: an entry is added over the null descriptor or over one that is present | `DescriptorsFit` says nothing of the slot |
| `gdt.c:12` | limits are sizes, one byte or unit too many | `Reaches` |
| `paging.c:36` | "not page-aligned" is tested with `& 0xff` | `LeadsWhereAsked` leaves those addresses out |
| `console.c:80` | moves to the left out of the row come back 16 columns off | `MovesExactly` |
| `console.c:40` | prints the original, not the terminated copy, and forgets the copy | `PrintsOthersWhenLosing`, `LosesItsLength` |
| `string.c:160` | the least int has no opposite: its digits come out below `'0'` | `CutsText` (but for `HasLeast`) |
| `string.c:89` | `strcmp` compares lengths | `FollowsPath` (with `Plain`) |
| `fat.c:77` | a dot behind eight letters is no dot | `FoundAgain` |
| `fat.c:131` | subtracts the reserved clusters as sectors | `ReadsFile` |
| `vfs.c:71` | frees a pointer nobody set | `FreesAtStalePointer` |
| `user/crt/csos.c:25`, `:49` | quotients that come out even are one too small, and rests have no sign, where `lldiv.c:38-39` tests for -1 | `DividesUneven` leaves both out |

## 5. What is proved

All theorems hold for every value of the constants that the named assumptions of their modules
allow, hence for the code's own.  The first step is always the same: an invariant that is
inductive, with a step for each action.

**Heap** (`KmallocProofs`, from `HeapAssumption`).  `Separated` is not inductive if a chunk is
just its bytes: a chunk next to a block would have to be merged when the block is freed.  The
invariant gives each chunk the four bytes after its end (`ChunkExtent`): as a freed block returns
without its last four bytes, extents never overlap and never grow.  `IInv` adds what the merge
loop needs (a slot that is being fixed and is not present is empty) and what the panic needs
(slot 0 holds the rest of the first chunk until the heap has served its length).  From it:
`TypeCorrect`, `Separation`, `NoMerge` (the loop joins no two chunks) and `Implementation`
(`Kmalloc` implements `Heap`).  `TablesSafe` is about `Layout` (with `LayoutAssumption`): every
chunk begins, and every block ends, within as many bytes of the heap's beginning as were ever
served (`FromFront`), because best fit carves from the front.  `OneIteration` is the safety half of
`MergeLoopEnds`: an iteration that takes a chunk out leaves none that touches, so there is no second one.

**Tasks** (`TasksProofs`, from `TasksAssumption`).  `SwitchSafe` and `LoadedDirectoryLives` speak
of moments at which the timer can fire, or a task runs.  To get there, `KernelAlone` says what
holds in between: while the kernel runs for no task, none is current and its own directory is
loaded, and a dying task is out of the table.  With `TypeOK` and `SlotsAgree` this is inductive
(`IInv`).  `NewSpaceType` carries the types through the building of an address space: while there
are `Enough` pages, each call returns a page.  `Born` and `Died` are the two changes of the
table, with their effect on its cardinality.  Results: `TypeCorrect`, `TableAgrees`,
`SwitchingIsSafe`, `DirectoryLives` and `Implementation`: `Tasks` implements `Processes`.  A
failing fork there needs that `num_tasks` counts the slots: only then is a full count a full
table.  `NoTaskPassedBy` (`TurnsComeNearer`) is the safety half of `EveryTaskRuns`: each switch runs a live task or brings
it nearer in the round (`Away`, a number below `MaxTasks`), and only a death starts the round again.

**Losses of the heap** (`KmallocProofs`).  `LostInv` stands on `IInv`: no chunk but the rest of the
first has room for the largest length and its header, and that rest and what was served of the largest fit
the heap together (`FreedAreSmall`); of the slots beyond the scanned ones only the next may be filled,
which then took one free more (`OneUncounted`).  The number of bytes in use
is followed through each action as the cardinality of a set, which needs no sum over the table.
Result: `Losses`.

**Page frames** (`PagesProofs`, on `TasksProofs`).  What `alloc_page` returns to a building task is a
stretch of frames, whatever its loops look like.  Two workloads are proved apart, because neither
statement holds for both together (finding 2), each with an invariant of its own:

* nobody calls `sys_alloc_page` (`StretchesKept`, `PagesGoRound`): memory is cut into stretches as
  long as init's address space, each live task has one, no two the same, and nothing else is in use
  (`ExactInv`).  Tables then inherit absent entries only, so a death gives back what was taken:
  `PagesExact`;
* nobody dies (`RolesKept`, `PagesStayApart`): the pages given out are the first ones, each is the
  directory, the table or one page of one task (`ApartInv`), also when `sys_alloc_page` writes past the
  end of a full table: `PagesApart`.

**Interrupts** (`ProcessorProofs`, from `InterruptsAssumption`).  `InterruptsIInv` says for each place of boot what
segments, table and interrupt flag are (`CpuInv`), which handlers are installed (`KernelInv`), and that,
except between the BIOS and the next initialisation, the master has in service what is being handled
and nothing else (`ServiceInv`).  From it: `RunningIsOpen` (`InterruptsInv`), `DiesOnlyInWindows`, `SlaveNeverEnds`,
`BootSilences`.

**Descriptors** (`ProcessorProofs`, from `SegmentsAssumption`).  `SegmentsInv` relates each slot to what it was made of;
packing a byte and unpacking it is a lemma about digits (`Quotients`).  It does not matter which slot
`gdt_add_entry` takes.  `DescriptorsRight` is `DescriptorsFit`; `NeverRefused` says that `gdt_encode` panics over no descriptor of the factories.

**Page tables** (`ProcessorProofs`, from `PagingAssumption`).  `PagingInv`: each entry holds the number of
the page that was asked for.  `LeadsRight` needs that page 0, which absent directory entries lead to,
is none of the tables.

**Keyboard** (`DeviceProofs`).  `KeyboardInv` relates the mailbox, the reader's copies and what
arrived: a code flagged as ready has arrived (`Delivered`), the two bytes copied are of codes
that arrived (`MixesFreshCodes`), and unless one came meanwhile the copies are what the mailbox
holds (`Untorn`).  The last part is what `KeyboardImplementation` (of `KeyReader`) needs when the call
returns.

**Disk** (`DeviceProofs`, from `SizesAssumption`).  `DiskInv`: packet and bounce buffer hold what
the loop means by `i`.  From it, `DiskImplementation`: each step of the driver is one of `Transfer`,
or none.

**Console** (`DeviceProofs`, from `ScreenAssumption`, `WordAssumption` and `LettersAssumption`).
`StaysOnScreen`: no character is written outside of the screen, and the cursor of the hardware is
where the next print goes on.  `PrintsShow` (refinement of `Terminal`) needs `FilledFromLeft`: only
then is the letter printed next the one that follows what its row shows, and only then does
scrolling move rows and not parts of them.  `MovesRight` is arithmetic of the wrapped sum.

**Paths** (`FileProofs`, from `PathsAssumption`).  `Ownership` says that the entries in use are
blocks of their own and that, with the array, these are all there are; it is inductive through
parsing and freeing, and gives `AllFreed`.  `Implementation` shows that paths without names
of one or two letters are followed as `Walk` says.

**Directories** (`FileProofs`, from `DirectoryAssumption`).  `DirectoryInv`: a scan has passed over
entries that do not match and are not the end (`Passed`), what it has listed are the names in use
among them in order (`Given`), and the directory it is in is the one the path denotes so far, unless
an entry on the way was cleared.  Each level of a path has one entry it denotes (`Denoted`), because
names differ.  Results: `LooksUpRight` (`Lookups`) and `ListsRight` (`ListsAll`).

**Files** (`FileProofs`, from `FatFileAssumption`).  `FileInv` says where the walk along the chain
is and that what was read is `Gathered` from the first cluster asked for on, byte for byte.
Result: `ReadsRight` (`ReadsExactly`).

**Names** (`FileProofs`, from `NamesAssumption`).  `NamesInv` says after every character what
`strtofat` has made of a listed name: up to the base's length the entry's characters; behind it those
of the extension, at its place, or, behind a full base, a dot that is none.  `NamesDiffer` shows that `fattostr` is
injective, from the place of the dot.  Result: `RenamesRight` (`Renaming`).

**Streams** (`FileProofs`, from `StreamsAssumption`).  `StreamsInv` adds to `StreamsApart` that what is in use
was allocated for some stream, and that without a stray pointer each closed stream freed a block of
one.  Result: `StreamsStayApart`.

**Division** (`ProgramProofs`, from `MaxAssumption`).  `DivisionInv` accounts for the numerator at each
subtraction; `Divides` (`DividesUneven`) derives which quotients and rests come out.

**User heap** (`ProgramProofs`, from `UserHeapAssumption`).  `UserHeapInv`: blocks, free nodes
and forgotten nodes never overlap and lie in the program's pages, through splits, the moves of
`last` and `realloc`.  That includes forgotten nodes because their memory could otherwise be
given out twice.  `Covered` adds that each byte of the pages is in one of them; together they give
`NoByteLost` (`Accounted`: each byte has exactly one owner).

**Write** (`ProgramProofs`, from `WriteAssumption`).  `WriteInv` holds after each chunk: `handed` is the
translation of all bytes in front of `vaddr`; and, depending on the zeros, what is printed and lost of them.
A chunk ends with its page, so the pages counted in `LosesItsLength` grow by one with each (`ChunkPages`).
Result: `WritesRight` (`WriteOutcome`).  `WriteAssumption` says that memory has a zero behind
every byte; without one `strlen` would not end.

**Messages** (`ProgramProofs`, from `FormatAssumption` and `PlacesAssumption`).  `FormatInv`: what stands
in the buffer is the text of the directives done, cut in front of the last byte.  A step adds
what fits of one more text (`CutGrows`), and behind a full buffer the rest of the format changes nothing
(`CutStays`).  The digits, the values of a string of digits and the text of a format are recursive
functions; the library's induction takes a predicate as a parameter, which the provers here cannot
instantiate, so `Recursion` and `Descent` say the same of sets and functions: a recursion that descends to what is
in a base has a solution, and a set that each element inherits from the next is everything.  With them
`DigitsOfNumeral` shows that the quotients' loop yields the numeral of every number, in both
bases, by following the values of the numeral's beginnings.  Results: `FormatInvariant` and
`MessagesFit` (`MessageFits`).  `PlacesAssumption` says that numbers have numerals of at most
`Places` digits; TLC evaluates it.

Only model-checked:

* liveness (`MergeLoopEnds`, `EveryTaskRuns`, `KernelGoesOn`, `KeyEndsWait`, `MasterTaken`): the
  prover has no rule for fairness.  Of the first two, the safety halves are proved (see Heap, Tasks);
* page ownership with both deaths and `sys_alloc_page`: there it does not hold (finding 2).

## 6. What is not modelled

* *Vendored code*: `linux-0.01`, `pdclib`, `user/lua-5.1.4` and `user/pdclib`.  They are most of
  the repository's lines (all but some 4600 of them), have specifications of their own, and of
  them only `user/pdclib` is built.  Its `malloc`, `free` and `realloc` are modelled, because they meet the kernel's
  `sys_alloc_page`.  `user/crt/stdio.c`, `stdlib.c` and `string.c` are not compiled.
* *No caller*: `unsubscribe_isr`, `begin_no_ints`, `end_no_ints`, `task_peek`, `bios_int`, and the
  handler that `sys_exception_handler` sets (`trap.c:47` is always true).
* *No state*: the empty system calls, `vfs_exists` to `vfs_readfile`, which hand their arguments
  on, and `sys_open`, `sys_read`, `sys_close`, which do nothing.
* *Sequential and once*: the checks of the multiboot data, `fat_vfs`, which copies the boot sector and
  the allocation table into memory, and the devices' own initialisation.
* *Output*: colours, the backtrace of a panic, the wording of messages.
* *Sizes of stacks*: `tmp[256]` in `parse_path` and the file buffer in `fat_vfs_readfile`.  The
  running kernel parses `"/init.bin"` only, and reads that file only; `Paths` assumes parts that fit.
* *The machine*: faults of the kernel itself, what the BIOS does, translation caches (reloaded
  after every change).
* *The C interface of programs*: `user/crt/csos.c` calls `alloc_page`, `read` and `write`, while
  `csos.asm` exports `sys_alloc_page` and so on; `UserHeap` takes the one for the other.
