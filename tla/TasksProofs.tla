----------------------------- MODULE TasksProofs -----------------------------
(***************************************************************************)
(* Proofs about Tasks, for every number of tasks, pages, entries and page  *)
(* contents, and every workload: IInv is inductive, hence the timer always *)
(* finds the machine fit for a switch, the processor never runs on a freed *)
(* page directory, the task table and num_tasks agree, and every process   *)
(* has registers of its own (Processes).                                   *)
(***************************************************************************)
EXTENDS Tasks, Quotients, FiniteSetTheorems, TLAPS

(* Constants.                                                               *)

LEMMA ConstantFacts ==
  /\ 0 \in Pids /\ NoTask \notin Pids
  /\ KernelDir \notin Frames /\ Absent \notin Frames
  /\ 0 \in Words /\ NULL \notin Task
BY TasksAssumption DEF Pids, NoTask, KernelDir, Absent, Frames

LEMMA HeapTasksNat == HeapTasks \in Nat
BY TasksAssumption

LEMMA PidsFinite == IsFiniteSet(Pids) /\ Cardinality(Pids) = MaxTasks
<1>1. MaxTasks \in Nat /\ MaxTasks >= 1
  BY TasksAssumption
<1>2. 0 \in Int /\ MaxTasks - 1 \in Int
  BY <1>1
<1>3. /\ IsFiniteSet(0 .. MaxTasks - 1)
      /\ Cardinality(0 .. MaxTasks - 1) =
           IF 0 > MaxTasks - 1 THEN 0 ELSE (MaxTasks - 1) - 0 + 1
  BY <1>2, FS_Interval
<1> QED
  BY <1>1, <1>3 DEF Pids

LEMMA LiveFinite ==
  /\ IsFiniteSet(Live) /\ Cardinality(Live) \in Nat
  /\ Cardinality(Live) = MaxTasks => Live = Pids
<1>1. Live \in SUBSET Pids
  BY DEF Live
<1>2. IsFiniteSet(Live) /\ (Cardinality(Pids) = Cardinality(Live) => Pids = Live)
  BY <1>1, PidsFinite, FS_Subset
<1>3. Cardinality(Live) \in Nat
  BY <1>2, FS_CardinalityType
<1> QED
  BY <1>2, <1>3, PidsFinite

-----------------------------------------------------------------------------
(* The page allocator and the address space of a new task.                  *)

\* While there are enough pages, alloc_page returns pages.
LEMMA AllocatedPages ==
  ASSUME NEW keys, Enough(keys)
  PROVE  Allocated(keys) \in [keys -> Frames]
<1> SUFFICES ASSUME NEW k \in keys
             PROVE  (CHOOSE f \in Free : Rank(f) = Position(keys, k)) \in Frames
  BY DEF Allocated
<1>1. \E f \in Free : Rank(f) = Position(keys, k)
  BY DEF Enough
<1>2. Free \subseteq Frames
  BY DEF Free, Usable
<1> HIDE DEF Free, Rank, Position
<1> QED
  BY <1>1, <1>2

LEMMA LeftoversType ==
  ASSUME TypeOK, NEW f \in Frames
  PROVE  Leftovers(f) \subseteq Contents
<1>1. Zeros \in Contents
  BY DEF Zeros, Contents
<1>2. ASSUME NEW s \in Slots, NEW g \in Frames
      PROVE  [Zeros EXCEPT ![s] = g] \in Contents
  BY DEF Zeros, Contents
<1>3. mem[f] \in Contents
  BY DEF TypeOK
<1> QED
  BY <1>1, <1>2, <1>3 DEF Leftovers

LEMMA BuildSpaceType ==
  ASSUME TypeOK, NEW keys, DirectoryKey \in keys,
         NEW fr \in [keys -> Frames],
         NEW k \in Frames \cup {Absent, KernelEntry},
         BuildSpace(keys, fr, k)
  PROVE  /\ mem' \in [Frames -> Contents]
         /\ dirty' \subseteq Frames
         /\ pagemap' \subseteq Frames
<1> DEFINE dirs   == {e \in UserDirs : TableKey(e) \in keys}
           tables == {fr[TableKey(e)] : e \in dirs}
           pages  == {fr[j] : j \in {j \in keys : \E e \in dirs, s \in Slots : j = PageKey(e, s)}}
           dir    == [s \in Slots |-> IF s = 0 THEN k
                                      ELSE IF s \in dirs THEN fr[TableKey(s)] ELSE Absent]
           Filled(f, left) ==
             LET e == CHOOSE e \in dirs : fr[TableKey(e)] = f
             IN  [s \in Slots |-> IF PageKey(e, s) \in keys THEN fr[PageKey(e, s)]
                                                            ELSE left[f][s]]
<1>1. tables \subseteq Frames /\ pages \subseteq Frames /\ {fr[j] : j \in keys} \subseteq Frames
  OBVIOUS
<1>2. dir \in Contents
  BY DEF Contents
<1>3. Zeros \in Contents
  BY DEF Zeros, Contents
<1>4. PICK left \in [tables -> UNION {Leftovers(t) : t \in tables}] :
        /\ \A t \in tables : left[t] \in Leftovers(t)
        /\ mem' = [f \in Frames |->
             IF f = fr[DirectoryKey] THEN dir
             ELSE IF f \in tables THEN Filled(f, left)
             ELSE IF f \in pages THEN Zeros ELSE mem[f]]
        /\ dirty' = (dirty \ (tables \cup {fr[DirectoryKey]})) \cup pages
        /\ pagemap' = pagemap \cup {fr[j] : j \in keys}
  BY DEF BuildSpace
<1>5. ASSUME NEW f \in tables PROVE Filled(f, left) \in Contents
  <2>1. left[f] \in Contents
    BY <1>1, <1>4, <1>5, LeftoversType
  <2>2. \A s \in Slots : left[f][s] \in Frames \cup {Absent, KernelEntry}
    BY <2>1 DEF Contents
  <2>3. \A j \in keys : fr[j] \in Frames
    OBVIOUS
  <2> QED
    BY <2>2, <2>3 DEF Contents
<1>6. \A f \in Frames : mem[f] \in Contents
  BY DEF TypeOK
<1>7. mem' \in [Frames -> Contents]
  <2> HIDE DEF dir, tables, pages, Filled
  <2> QED
    BY <1>2, <1>3, <1>4, <1>5, <1>6
<1>8. dirty' \subseteq Frames /\ pagemap' \subseteq Frames
  BY <1>1, <1>4 DEF TypeOK
<1> QED
  BY <1>7, <1>8

\* The address space task_create and task_dup build in pages alloc_page returned.
LEMMA NewSpaceType ==
  ASSUME TypeOK, NEW keys, DirectoryKey \in keys, Enough(keys),
         NEW k \in Frames \cup {Absent, KernelEntry},
         BuildSpace(keys, Allocated(keys), k)
  PROVE  /\ mem' \in [Frames -> Contents]
         /\ dirty' \subseteq Frames
         /\ pagemap' \subseteq Frames
         /\ Allocated(keys)[DirectoryKey] \in Frames
<1>1. Allocated(keys) \in [keys -> Frames]
  BY AllocatedPages
<1> HIDE DEF Allocated
<1> QED
  BY <1>1, BuildSpaceType

LEMMA ForkSpaceType ==
  ASSUME TypeOK, NEW parent \in Frames, Enough(DupKeys(parent)),
         BuildSpace(DupKeys(parent), Allocated(DupKeys(parent)), mem[parent][0])
  PROVE  /\ mem' \in [Frames -> Contents]
         /\ dirty' \subseteq Frames
         /\ pagemap' \subseteq Frames
         /\ Allocated(DupKeys(parent))[DirectoryKey] \in Frames
<1>1. DirectoryKey \in DupKeys(parent)
  BY DEF DupKeys
<1>2. mem[parent][0] \in Frames \cup {Absent, KernelEntry}
  <2>1. 0 \in Slots
    BY TasksAssumption DEF Slots
  <2>2. mem[parent] \in Contents
    BY DEF TypeOK
  <2> QED
    BY <2>1, <2>2 DEF Contents
<1> HIDE DEF DupKeys
<1> QED
  BY <1>1, <1>2, NewSpaceType

-----------------------------------------------------------------------------
(* The task table.                                                          *)

\* A free slot is filled: task_create and task_dup.
LEMMA Born ==
  ASSUME TypeOK, SlotsAgree, NEW p \in Pids, p \notin Live, NEW t \in Task, t.pid = p,
         tasks' = [tasks EXCEPT ![p] = t], num_tasks' = num_tasks + 1
  PROVE  /\ tasks' \in [Pids -> Task \cup {NULL}]
         /\ Live' = Live \cup {p}
         /\ tasks'[p] = t
         /\ \A q \in Pids : q # p => tasks'[q] = tasks[q]
         /\ num_tasks' \in Int
         /\ SlotsAgree'
<1>1. tasks' \in [Pids -> Task \cup {NULL}]
  BY DEF TypeOK
<1>2. tasks'[p] = t /\ \A q \in Pids : q # p => tasks'[q] = tasks[q]
  BY DEF TypeOK
<1>3. Live' = Live \cup {p}
  BY <1>2, ConstantFacts DEF Live
<1>4. Cardinality(Live') = Cardinality(Live) + 1
  BY <1>3, LiveFinite, FS_AddElement
<1>5. num_tasks' \in Int
  <2>1. num_tasks \in Int
    BY DEF TypeOK
  <2> QED
    BY <2>1
<1>6. SlotsAgree'
  <2>1. num_tasks' = Cardinality(Live')
    BY <1>4 DEF SlotsAgree
  <2>2. \A q \in Live' : tasks'[q].pid = q
    BY <1>2, <1>3 DEF SlotsAgree, Live
  <2> QED
    BY <2>1, <2>2 DEF SlotsAgree
<1> QED
  BY <1>1, <1>2, <1>3, <1>5, <1>6

\* A slot is cleared: task_kill_and_free.
LEMMA Died ==
  ASSUME TypeOK, SlotsAgree, NEW p \in Live,
         tasks' = [tasks EXCEPT ![p] = NULL], num_tasks' = num_tasks - 1
  PROVE  /\ tasks' \in [Pids -> Task \cup {NULL}]
         /\ Live' = Live \ {p}
         /\ \A q \in Pids : q # p => tasks'[q] = tasks[q]
         /\ num_tasks' \in Int
         /\ SlotsAgree'
<1>0. p \in Pids
  BY DEF Live
<1>1. tasks' \in [Pids -> Task \cup {NULL}]
  BY DEF TypeOK
<1>2. tasks'[p] = NULL /\ \A q \in Pids : q # p => tasks'[q] = tasks[q]
  BY <1>0 DEF TypeOK
<1>3. Live' = Live \ {p}
  BY <1>2 DEF Live
<1>4. Cardinality(Live') = Cardinality(Live) - 1
  BY <1>3, LiveFinite, FS_RemoveElement
<1>5. num_tasks' \in Int
  <2>1. num_tasks \in Int
    BY DEF TypeOK
  <2> QED
    BY <2>1
<1>6. SlotsAgree'
  <2>1. num_tasks' = Cardinality(Live')
    BY <1>4 DEF SlotsAgree
  <2>2. \A q \in Live' : tasks'[q].pid = q
    BY <1>2, <1>3 DEF SlotsAgree, Live
  <2> QED
    BY <2>1, <2>2 DEF SlotsAgree
<1> QED
  BY <1>1, <1>2, <1>3, <1>5, <1>6

\* task_kill_and_free either clears the slot or stops the machine.
LEMMA KillOutcomes ==
  ASSUME TypeOK, SlotsAgree, NEW p \in Live, NEW where, KillAndFree(p, where)
  PROVE  /\ pagemap' \subseteq Frames
         /\ tasks' \in [Pids -> Task \cup {NULL}]
         /\ num_tasks' \in Int
         /\ panic' \in {panic, "Freeing freed page", "Freeing non-existent page"}
         /\ SlotsAgree'
         /\ \/ /\ pc' = where /\ Live' = Live \ {p}
               /\ \A q \in Pids : q # p => tasks'[q] = tasks[q]
            \/ /\ pc' = "halted" /\ Live' = Live /\ tasks' = tasks
<1> DEFINE dir == tasks[p].dir
<1>1. CASE /\ pagemap' = pagemap \ Returned(dir)
           /\ tasks' = [tasks EXCEPT ![p] = NULL]
           /\ num_tasks' = num_tasks - 1
           /\ pc' = where
           /\ UNCHANGED panic
  <2>1. pagemap' \subseteq Frames
    BY <1>1 DEF TypeOK
  <2> QED
    BY <1>1, <2>1, Died
<1>2. CASE /\ pc' = "halted"
           /\ panic' \in {"Freeing freed page", "Freeing non-existent page"}
           /\ UNCHANGED <<pagemap, tasks, num_tasks>>
  BY <1>2 DEF TypeOK, SlotsAgree, Live
<1> QED
  BY <1>1, <1>2 DEF KillAndFree, Panic

-----------------------------------------------------------------------------
(* Steps that leave the tasks, the current one and the machine's registers  *)
(* for it alone.                                                            *)

\* While a program runs, its task is in the table, with its directory loaded.
LEMMA Running ==
  ASSUME IInv, pc = "user"
  PROVE  /\ current_task \in Live /\ current_task \in Pids
         /\ tr = current_task
         /\ tasks[current_task] \in Task
         /\ tasks[current_task].dir \in Frames
         /\ cr3 = tasks[current_task].dir
         /\ cr3 # KernelDir
<1>1. current_task \in Live /\ tr = current_task /\ cr3 = tasks[current_task].dir
  BY DEF IInv, SwitchSafe
<1>2. current_task \in Pids /\ tasks[current_task] # NULL
  BY <1>1 DEF Live
<1>3. tasks \in [Pids -> Task \cup {NULL}]
  BY DEF IInv, TypeOK
<1>4. tasks[current_task] \in Task
  BY <1>2, <1>3
<1>5. tasks[current_task].dir \in Frames
  BY <1>4 DEF Task
<1> QED
  BY <1>1, <1>2, <1>4, <1>5, ConstantFacts

LEMMA SameTasks ==
  ASSUME IInv, UNCHANGED <<tasks, num_tasks, current_task, cr3, tr>>,
         pc' = pc \/ pc' = "halted", TypeOK'
  PROVE  IInv'
<1>1. Live' = Live
  BY DEF Live
<1>2. SlotsAgree'
  BY <1>1 DEF IInv, SlotsAgree
<1>3. SwitchSafe'
  BY <1>1 DEF IInv, SwitchSafe
<1>4. LoadedDirectoryLives'
  BY <1>1 DEF IInv, LoadedDirectoryLives
<1>5. KernelAlone'
  BY <1>1 DEF IInv, KernelAlone
<1> QED
  BY <1>2, <1>3, <1>4, <1>5 DEF IInv

LEMMA InitIInv == Init => IInv
<1> SUFFICES ASSUME Init PROVE IInv
  OBVIOUS
<1>1. Live = {}
  BY DEF Init, Live
<1>2. TypeOK
  <2>1. Zeros \in Contents
    BY DEF Zeros, Contents
  <2>2. mem \in [Frames -> Contents]
    BY <2>1 DEF Init
  <2>3. cpu \in Context
    BY ConstantFacts DEF Init, Context
  <2>4. heap \in 0 .. HeapTasks
    <3>1. heap = HeapTasks
      BY DEF Init
    <3> QED
      BY <3>1, HeapTasksNat
  <2>5. tasks \in [Pids -> Task \cup {NULL}]
    BY DEF Init
  <2>6. num_tasks \in Int /\ pagemap \subseteq Frames /\ dirty \subseteq Frames
    <3>1. num_tasks = 0 /\ pagemap = {} /\ dirty = {}
      BY DEF Init
    <3> QED
      BY <3>1
  <2>7. pc = "boot" /\ panic = "" /\ current_task = NoTask /\ cr3 = KernelDir /\ tr = NoTask
    BY DEF Init
  <2> QED
    BY <2>2, <2>3, <2>4, <2>5, <2>6, <2>7 DEF TypeOK
<1>3. SlotsAgree
  BY <1>1, FS_EmptySet DEF Init, SlotsAgree
<1>4. SwitchSafe /\ LoadedDirectoryLives /\ KernelAlone
  BY <1>1 DEF Init, SwitchSafe, LoadedDirectoryLives, KernelAlone
<1> QED
  BY <1>2, <1>3, <1>4 DEF IInv

\* The kernel's panics with interrupts disabled.
LEMMA QuietSteps ==
  ASSUME IInv,
         \/ TimerFindsNoTask
         \/ ForkOutOfHeap \/ ForkOutOfPages \/ AllocOutOfPages
  PROVE  IInv'
<1>1. /\ UNCHANGED <<tasks, num_tasks, current_task, cr3, tr, mem, dirty, cpu>>
      /\ pc' = "halted"
      /\ panic' \in {"no tasks running", "No free pages", "kmalloc failed"}
      /\ pagemap' \in {pagemap, pagemap \cup Free}
      /\ heap' = heap \/ (heap > 0 /\ heap' = heap - 1)
  BY DEF TimerFindsNoTask, ForkOutOfHeap, ForkOutOfPages, AllocOutOfPages,
         Panic, SameMachine
<1>2. Free \subseteq Frames
  BY DEF Free, Usable
<1>3. heap' \in 0 .. HeapTasks
  <2>1. heap \in 0 .. HeapTasks
    BY DEF IInv, TypeOK
  <2>2. heap' = heap \/ (heap > 0 /\ heap' = heap - 1)
    BY <1>1
  <2> QED
    BY <2>1, <2>2, HeapTasksNat
<1>4. pagemap' \subseteq Frames
  BY <1>1, <1>2 DEF IInv, TypeOK
<1>5. TypeOK'
  BY <1>1, <1>3, <1>4 DEF IInv, TypeOK
<1> QED
  BY <1>1, <1>5, SameTasks

LEMMA UserSteps ==
  ASSUME IInv,
         \/ UserStep \/ GetPid \/ ForkFull
         \/ \E f \in Frames : UserWrite(f)
         \/ \E p \in Pids : KillNobody(p)
  PROVE  IInv'
<1> USE DEF SameMachine
<1>1. CASE UserStep \/ GetPid \/ ForkFull \/ \E p \in Pids : KillNobody(p)
  <2>1. UNCHANGED <<pc, panic, pagemap, mem, dirty, tasks, num_tasks, heap,
                    current_task, cr3, tr>>
    BY <1>1 DEF UserStep, GetPid, ForkFull, KillNobody
  <2>2. cpu' \in Context
    <3>0. cpu \in Context
      BY DEF IInv, TypeOK
    <3>1. CASE UserStep
      BY <3>1 DEF UserStep, Context
    <3>2. CASE ForkFull
      BY <3>0, <3>2 DEF ForkFull, Context
    <3>3. CASE \E p \in Pids : KillNobody(p)
      BY <3>0, <3>3, ConstantFacts DEF KillNobody, Context
    <3>4. CASE GetPid
      <4>1. tasks[current_task].pid \in Pids
        BY <3>4, Running DEF GetPid, Task
      <4> QED
        BY <3>0, <3>4, <4>1 DEF GetPid, Context
    <3> QED
      BY <1>1, <3>1, <3>2, <3>3, <3>4
  <2>3. TypeOK'
    BY <2>1, <2>2 DEF IInv, TypeOK
  <2> QED
    BY <2>1, <2>3, SameTasks
<1>2. ASSUME NEW f \in Frames, UserWrite(f) PROVE IInv'
  <2>1. UNCHANGED <<pc, panic, pagemap, tasks, num_tasks, cpu, heap, current_task, cr3, tr>>
    BY <1>2 DEF UserWrite
  <2>2. Zeros \in Contents
    BY DEF Zeros, Contents
  <2>3. mem' \in [Frames -> Contents]
    <3>1. mem \in [Frames -> Contents]
      BY DEF IInv, TypeOK
    <3> QED
      BY <1>2, <2>2, <3>1 DEF UserWrite
  <2>4. dirty' \subseteq Frames
    BY <1>2 DEF IInv, TypeOK, UserWrite
  <2>5. TypeOK'
    BY <2>1, <2>3, <2>4 DEF IInv, TypeOK
  <2> QED
    BY <2>1, <2>5, SameTasks
<1> QED
  BY <1>1, <1>2

\* Writing an entry keeps the pages' type, wherever the entry is.
LEMMA WithEntryType ==
  ASSUME TypeOK, NEW table, NEW f \in Frames
  PROVE  WithEntry(table, f) \in [Frames -> Contents]
<1>1. mem \in [Frames -> Contents]
  BY DEF TypeOK
<1>2. ASSUME NEW t, NEW s
      PROVE  [mem EXCEPT ![t][s] = f] \in [Frames -> Contents]
  <2>1. \A g \in Frames : mem[g] \in [Slots -> Frames \cup {Absent, KernelEntry}]
    BY <1>1 DEF Contents
  <2>2. \A g \in Frames :
          [mem[g] EXCEPT ![s] = f] \in [Slots -> Frames \cup {Absent, KernelEntry}]
    BY <2>1
  <2>3. \A g \in Frames : [mem[g] EXCEPT ![s] = f] \in Contents
    BY <2>2 DEF Contents
  <2> QED
    BY <1>1, <2>3
<1> QED
  BY <1>1, <1>2 DEF WithEntry

LEMMA AllocPageStep ==
  ASSUME IInv, AllocPage
  PROVE  IInv'
<1>1. PICK f \in Free, w \in Words :
        /\ pagemap' = pagemap \cup {f}
        /\ mem' = [WithEntry(LastTable(tasks[current_task].dir), f) EXCEPT ![f] = Zeros]
        /\ cpu' = [cpu EXCEPT !.eax = w]
        /\ dirty' = dirty \cup {f}
  BY DEF AllocPage
<1>2. UNCHANGED <<pc, panic, tasks, num_tasks, heap, current_task, cr3, tr>>
  BY DEF AllocPage, SameMachine
<1>3. f \in Frames
  BY DEF Free, Usable
<1>4. mem' \in [Frames -> Contents]
  <2>1. Zeros \in Contents
    BY DEF Zeros, Contents
  <2>2. WithEntry(LastTable(tasks[current_task].dir), f) \in [Frames -> Contents]
    BY <1>3, WithEntryType DEF IInv
  <2> QED
    BY <1>1, <2>1, <2>2
<1>5. cpu' \in Context
  <2>1. cpu \in Context
    BY DEF IInv, TypeOK
  <2> QED
    BY <1>1, <2>1 DEF Context
<1>6. pagemap' \subseteq Frames /\ dirty' \subseteq Frames
  BY <1>1, <1>3 DEF IInv, TypeOK
<1>7. TypeOK'
  BY <1>2, <1>4, <1>5, <1>6 DEF IInv, TypeOK
<1> QED
  BY <1>2, <1>7, SameTasks

-----------------------------------------------------------------------------
(* Birth: task_create and task_dup.                                         *)

LEMMA TaskFields ==
  ASSUME NEW p \in Pids, NEW d \in Frames, NEW c \in Context
  PROVE  LET t == [pid |-> p, dir |-> d, tss |-> c]
         IN  t \in Task /\ t.pid = p /\ t.dir = d /\ t.tss = c
BY DEF Task

LEMMA ContextFields ==
  ASSUME NEW w \in Words, NEW e \in Words \cup Pids \cup {NoTask}, NEW r \in Words
  PROVE  [frame |-> w, eax |-> e, rest |-> r] \in Context
BY DEF Context

LEMMA HeapServesTask ==
  ASSUME TypeOK, heap > 0, heap' = heap - 1
  PROVE  heap' \in 0 .. HeapTasks
<1>1. heap \in 0 .. HeapTasks
  BY DEF TypeOK
<1> QED
  BY <1>1, HeapTasksNat

\* What task_create does to the table.
LEMMA InitTask ==
  ASSUME IInv, TaskCreate
  PROVE  /\ \E d \in Frames :
              tasks' = [tasks EXCEPT ![0] =
                [pid |-> 0, dir |-> d, tss |-> [frame |-> 0, eax |-> 0, rest |-> 0]]]
         /\ mem' \in [Frames -> Contents] /\ dirty' \subseteq Frames /\ pagemap' \subseteq Frames
<1>1. DirectoryKey \in InitKeys
  BY DEF InitKeys
<1>2. Enough(InitKeys) /\ BuildSpace(InitKeys, Allocated(InitKeys), KernelEntry)
  BY DEF TaskCreate
<1>3. /\ mem' \in [Frames -> Contents] /\ dirty' \subseteq Frames /\ pagemap' \subseteq Frames
      /\ Allocated(InitKeys)[DirectoryKey] \in Frames
  BY <1>1, <1>2, NewSpaceType DEF IInv
<1> QED
  BY <1>3 DEF TaskCreate

LEMMA TaskCreateStep ==
  ASSUME IInv, TaskCreate
  PROVE  IInv'
<1>1. PICK d \in Frames :
        tasks' = [tasks EXCEPT ![0] =
          [pid |-> 0, dir |-> d, tss |-> [frame |-> 0, eax |-> 0, rest |-> 0]]]
  BY InitTask
<1>2. /\ pc = "boot" /\ pc' = "created" /\ num_tasks' = num_tasks + 1
      /\ heap > 0 /\ heap' = heap - 1
      /\ UNCHANGED <<panic, current_task, cr3, tr, cpu>>
  BY DEF TaskCreate
<1> DEFINE t == [pid |-> 0, dir |-> d, tss |-> [frame |-> 0, eax |-> 0, rest |-> 0]]
<1>3. t \in Task /\ t.pid = 0
  BY ConstantFacts, TaskFields, ContextFields
<1>4. 0 \in Pids /\ 0 \notin Live
  BY <1>2, ConstantFacts DEF IInv, KernelAlone
<1> HIDE DEF t
<1>5. tasks' = [tasks EXCEPT ![0] = t]
  BY <1>1 DEF t
<1>6. tasks' \in [Pids -> Task \cup {NULL}] /\ num_tasks' \in Int /\ SlotsAgree'
  BY <1>2, <1>3, <1>4, <1>5, Born DEF IInv
<1>7. TypeOK'
  <2>1. heap' \in 0 .. HeapTasks
    BY <1>2, HeapServesTask DEF IInv
  <2>2. mem' \in [Frames -> Contents] /\ dirty' \subseteq Frames /\ pagemap' \subseteq Frames
    BY InitTask
  <2> QED
    BY <1>2, <1>6, <2>1, <2>2 DEF IInv, TypeOK
<1>8. current_task' = NoTask /\ cr3' = KernelDir
  BY <1>2 DEF IInv, KernelAlone
<1>9. SwitchSafe' /\ LoadedDirectoryLives' /\ KernelAlone'
  BY <1>2, <1>8 DEF SwitchSafe, LoadedDirectoryLives, KernelAlone
<1> QED
  BY <1>6, <1>7, <1>9 DEF IInv

\* What sys_fork and task_dup do to the table.
LEMMA ForkedTask ==
  ASSUME IInv, ForkTask
  PROVE  /\ \E p \in Pids, d \in Frames :
              /\ p \notin Live
              /\ tasks' = [tasks EXCEPT ![p] = Child(p, d)]
              /\ cpu' = [cpu EXCEPT !.eax = p]
         /\ mem' \in [Frames -> Contents] /\ dirty' \subseteq Frames /\ pagemap' \subseteq Frames
<1> DEFINE parent == tasks[current_task].dir
           keys == DupKeys(parent)
<1>1. parent \in Frames
  BY Running DEF ForkTask, InCall
<1>2. Enough(keys) /\ BuildSpace(keys, Allocated(keys), mem[parent][0])
  BY DEF ForkTask
<1>3. /\ mem' \in [Frames -> Contents] /\ dirty' \subseteq Frames /\ pagemap' \subseteq Frames
      /\ Allocated(keys)[DirectoryKey] \in Frames
  BY <1>1, <1>2, ForkSpaceType DEF IInv
<1>4. PICK p \in Pids :
        /\ FirstFreePid(p)
        /\ tasks' = [tasks EXCEPT ![p] = Child(p, Allocated(keys)[DirectoryKey])]
        /\ cpu' = [cpu EXCEPT !.eax = p]
  BY DEF ForkTask
<1>5. p \notin Live
  BY <1>4 DEF FirstFreePid, Live
<1> QED
  BY <1>3, <1>4, <1>5

LEMMA ForkTaskStep ==
  ASSUME IInv, ForkTask
  PROVE  IInv'
<1>1. PICK p \in Pids, d \in Frames :
        /\ p \notin Live
        /\ tasks' = [tasks EXCEPT ![p] = Child(p, d)]
        /\ cpu' = [cpu EXCEPT !.eax = p]
  BY ForkedTask
<1>2. /\ pc = "user" /\ num_tasks' = num_tasks + 1 /\ heap > 0 /\ heap' = heap - 1
      /\ UNCHANGED <<pc, panic, current_task, cr3, tr>>
  BY DEF ForkTask, InCall, SameMachine
<1>3. cpu \in Context
  BY DEF IInv, TypeOK
<1>4. Child(p, d) \in Task /\ Child(p, d).pid = p
  <2>1. cpu.frame \in Words
    BY <1>3 DEF Context
  <2>2. [frame |-> cpu.frame, eax |-> p, rest |-> 0] \in Context
    BY <2>1, ConstantFacts, ContextFields
  <2> QED
    BY <2>2, TaskFields DEF Child
<1>5. /\ tasks' \in [Pids -> Task \cup {NULL}] /\ num_tasks' \in Int /\ SlotsAgree'
      /\ Live' = Live \cup {p}
      /\ \A q \in Pids : q # p => tasks'[q] = tasks[q]
  BY <1>1, <1>2, <1>4, Born DEF IInv
<1>6. TypeOK'
  <2>1. heap' \in 0 .. HeapTasks
    BY <1>2, HeapServesTask DEF IInv
  <2>2. mem' \in [Frames -> Contents] /\ dirty' \subseteq Frames /\ pagemap' \subseteq Frames
    BY ForkedTask
  <2>3. cpu' \in Context
    BY <1>1, <1>3 DEF Context
  <2> QED
    BY <1>2, <1>5, <2>1, <2>2, <2>3 DEF IInv, TypeOK
<1>7. /\ current_task' \in Live' /\ tasks'[current_task'] = tasks[current_task]
      /\ tr' = current_task' /\ cr3' = tasks'[current_task'].dir
  BY <1>1, <1>2, <1>5, Running
<1>8. SwitchSafe' /\ LoadedDirectoryLives' /\ KernelAlone'
  BY <1>2, <1>7 DEF SwitchSafe, LoadedDirectoryLives, KernelAlone
<1> QED
  BY <1>5, <1>6, <1>8 DEF IInv

-----------------------------------------------------------------------------
(* Death: task_kill_and_free and what follows it.                           *)

\* A task that exits, faults or kills itself.
LEMMA OwnDeathStep ==
  ASSUME IInv, Exit \/ Trap \/ KillSelf
  PROVE  IInv'
<1>1. /\ pc = "user" /\ KillAndFree(current_task, "dying") /\ cr3' = KernelDir
      /\ UNCHANGED <<mem, dirty, current_task, tr, cpu, heap>>
  BY DEF Exit, Trap, KillSelf, InCall, LeaveDirectory
<1>2. current_task \in Live
  BY <1>1, Running
<1>3. /\ pagemap' \subseteq Frames
      /\ tasks' \in [Pids -> Task \cup {NULL}]
      /\ num_tasks' \in Int
      /\ panic' \in {panic, "Freeing freed page", "Freeing non-existent page"}
      /\ SlotsAgree'
      /\ \/ pc' = "dying" /\ Live' = Live \ {current_task}
         \/ pc' = "halted" /\ Live' = Live
  BY <1>1, <1>2, KillOutcomes DEF IInv
<1>4. TypeOK'
  BY <1>1, <1>3 DEF IInv, TypeOK
<1>5. SwitchSafe' /\ LoadedDirectoryLives' /\ KernelAlone'
  BY <1>1, <1>3 DEF SwitchSafe, LoadedDirectoryLives, KernelAlone
<1> QED
  BY <1>3, <1>4, <1>5 DEF IInv

LEMMA KillStep ==
  ASSUME IInv, NEW p \in Pids, Kill(p)
  PROVE  IInv'
<1>1. /\ pc = "user" /\ p # current_task /\ KillAndFree(p, "user")
      /\ UNCHANGED <<mem, dirty, cpu, heap, current_task, cr3, tr>>
  BY DEF Kill, InCall, SameMachine
<1>2. p \in Live
  BY DEF Kill, Live
<1>3. /\ pagemap' \subseteq Frames
      /\ tasks' \in [Pids -> Task \cup {NULL}]
      /\ num_tasks' \in Int
      /\ panic' \in {panic, "Freeing freed page", "Freeing non-existent page"}
      /\ SlotsAgree'
      /\ \/ /\ pc' = "user" /\ Live' = Live \ {p}
            /\ \A q \in Pids : q # p => tasks'[q] = tasks[q]
         \/ /\ pc' = "halted" /\ Live' = Live /\ tasks' = tasks
  BY <1>1, <1>2, KillOutcomes DEF IInv
<1>4. TypeOK'
  BY <1>1, <1>3 DEF IInv, TypeOK
<1>5. /\ current_task' \in Live' /\ tasks'[current_task'] = tasks[current_task]
      /\ tr' = current_task' /\ cr3' = tasks'[current_task'].dir
  BY <1>1, <1>3, Running
<1>6. SwitchSafe' /\ LoadedDirectoryLives' /\ KernelAlone'
  BY <1>1, <1>3, <1>5 DEF SwitchSafe, LoadedDirectoryLives, KernelAlone
<1> QED
  BY <1>3, <1>4, <1>6 DEF IInv

\* The rest of a death, and the end of kmain.
LEMMA KernelSteps ==
  ASSUME IInv, InstallSwitch \/ OtherInterrupt \/ PanicEnds \/ ClearCurrent \/ Sti
  PROVE  IInv'
<1>1. /\ UNCHANGED <<pagemap, mem, dirty, tasks, num_tasks, cr3, tr, cpu, heap>>
      /\ panic' \in {panic, "init exited"}
      /\ cr3 = KernelDir
      /\ current_task' \in {current_task, NoTask}
      /\ \/ pc = "created" /\ pc' = "idle" /\ current_task' = NoTask
         \/ pc = "dying" /\ pc' = "cleared" /\ current_task' = NoTask
         \/ pc = "cleared" /\ pc' = "spin" /\ current_task' = NoTask
         \/ pc = "idle" /\ pc' = "panicking" /\ current_task' = NoTask
         \/ pc' = "halted"
  BY DEF InstallSwitch, OtherInterrupt, PanicEnds, ClearCurrent, Sti, SameMachine, IInv, KernelAlone
<1>2. TypeOK'
  BY <1>1 DEF IInv, TypeOK
<1>3. Live' = Live /\ SlotsAgree'
  BY <1>1 DEF IInv, SlotsAgree, Live
<1>4. SwitchSafe' /\ LoadedDirectoryLives' /\ KernelAlone'
  BY <1>1 DEF SwitchSafe, LoadedDirectoryLives, KernelAlone
<1> QED
  BY <1>2, <1>3, <1>4 DEF IInv

-----------------------------------------------------------------------------
(* task_switch.                                                             *)

\* Saving the registers changes nothing else in the table.
LEMMA SavedTasks ==
  ASSUME IInv
  PROVE  /\ Saved \in [Pids -> Task \cup {NULL}]
         /\ \A p \in Live :
              /\ Saved[p] \in Task
              /\ Saved[p].pid = tasks[p].pid /\ Saved[p].dir = tasks[p].dir
              /\ Saved[p].tss = IF p = current_task THEN cpu ELSE tasks[p].tss
         /\ \A p \in Pids : p \notin Live => Saved[p] = NULL
<1>1. tasks \in [Pids -> Task \cup {NULL}] /\ cpu \in Context
  BY DEF IInv, TypeOK
<1>2. \A p \in Pids : p \in Live <=> tasks[p] # NULL
  BY DEF Live
<1>3. \A p \in Live : p \in Pids /\ tasks[p] \in Task
  BY <1>1 DEF Live
<1>4. CASE current_task \in Live
  <2> DEFINE t == [tasks[current_task] EXCEPT !.tss = cpu]
  <2>1. t \in Task /\ t.pid = tasks[current_task].pid /\ t.dir = tasks[current_task].dir
        /\ t.tss = cpu
    <3>1. tasks[current_task] \in Task
      BY <1>3, <1>4
    <3> QED
      BY <1>1, <3>1 DEF Task
  <2> HIDE DEF t
  <2>2. Saved = [tasks EXCEPT ![current_task] = t]
    BY <1>4 DEF Saved, t
  <2>3. /\ Saved \in [Pids -> Task \cup {NULL}]
        /\ Saved[current_task] = t
        /\ \A p \in Pids : p # current_task => Saved[p] = tasks[p]
    BY <1>1, <1>3, <1>4, <2>1, <2>2
  <2> QED
    BY <1>2, <1>3, <1>4, <2>1, <2>3
<1>5. CASE current_task \notin Live
  BY <1>1, <1>2, <1>3, <1>5 DEF Saved
<1> QED
  BY <1>4, <1>5

LEMMA TimerStep ==
  ASSUME IInv, Timer
  PROVE  IInv'
<1>1. PICK n \in Pids :
        /\ NextTask(current_task, n)
        /\ tasks' = Saved /\ current_task' = n /\ tr' = n
        /\ cr3' = Saved[n].dir /\ cpu' = Saved[n].tss
  BY DEF Timer
<1>2. pc' = "user" /\ UNCHANGED <<panic, pagemap, mem, dirty, num_tasks, heap>>
  BY DEF Timer
<1>3. n \in Live
  BY <1>1 DEF NextTask
<1>4. Live' = Live
  <2>1. \A p \in Pids : p \in Live => tasks'[p] # NULL
    BY <1>1, SavedTasks, ConstantFacts
  <2>2. \A p \in Pids : p \notin Live => tasks'[p] = NULL
    BY <1>1, SavedTasks
  <2> QED
    BY <2>1, <2>2 DEF Live
<1>5. Saved[n].dir \in Frames /\ Saved[n].tss \in Context
  BY <1>3, SavedTasks DEF Task
<1>6. TypeOK'
  <2>1. tasks' \in [Pids -> Task \cup {NULL}]
    BY <1>1, SavedTasks
  <2> QED
    BY <1>1, <1>2, <1>5, <2>1 DEF IInv, TypeOK
<1>7. SlotsAgree'
  BY <1>1, <1>2, <1>4, SavedTasks DEF IInv, SlotsAgree
<1>8. SwitchSafe' /\ LoadedDirectoryLives' /\ KernelAlone'
  BY <1>1, <1>2, <1>3, <1>4 DEF SwitchSafe, LoadedDirectoryLives, KernelAlone
<1> QED
  BY <1>6, <1>7, <1>8 DEF IInv

-----------------------------------------------------------------------------
(* The theorems.                                                            *)

LEMMA NextIInv == IInv /\ [Next]_vars => IInv'
<1> SUFFICES ASSUME IInv, [Next]_vars PROVE IInv'
  OBVIOUS
<1>1. CASE TaskCreate
  BY <1>1, TaskCreateStep
<1>2. CASE InstallSwitch \/ OtherInterrupt \/ PanicEnds \/ ClearCurrent \/ Sti
  BY <1>2, KernelSteps
<1>3. CASE \/ TimerFindsNoTask
           \/ ForkOutOfHeap \/ ForkOutOfPages \/ AllocOutOfPages
  BY <1>3, QuietSteps
<1>4. CASE Timer
  BY <1>4, TimerStep
<1>5. CASE \/ UserStep \/ GetPid \/ ForkFull
           \/ \E f \in Frames : UserWrite(f)
           \/ \E p \in Pids : KillNobody(p)
  BY <1>5, UserSteps
<1>6. CASE ForkTask
  BY <1>6, ForkTaskStep
<1>7. CASE Exit \/ Trap \/ KillSelf
  BY <1>7, OwnDeathStep
<1>8. CASE \E p \in Pids : Kill(p)
  BY <1>8, KillStep
<1>9. CASE AllocPage
  BY <1>9, AllocPageStep
<1>10. CASE UNCHANGED vars
  BY <1>10 DEF vars, IInv, TypeOK, SlotsAgree, SwitchSafe, LoadedDirectoryLives,
               KernelAlone, Live
<1> QED
  BY <1>1, <1>2, <1>3, <1>4, <1>5, <1>6, <1>7, <1>8, <1>9, <1>10 DEF Next, Step, Stopped

\* The kernel's bookkeeping is an inductive invariant, whatever programs do.
THEOREM InductiveInvariant == Spec => []IInv
BY InitIInv, NextIInv, PTL DEF Spec

\* Every variable of the kernel stays within its type.
THEOREM TypeCorrect == Spec => []TypeOK
<1>1. IInv => TypeOK
  BY DEF IInv
<1> QED
  BY <1>1, InductiveInvariant, PTL

\* num_tasks counts the live tasks and every task knows its slot, after any
\* sequence of forks, exits, kills and exceptions.
THEOREM TableAgrees == Spec => []SlotsAgree
<1>1. IInv => SlotsAgree
  BY DEF IInv
<1> QED
  BY <1>1, InductiveInvariant, PTL

\* Whenever the timer can interrupt, task_switch saves to the right task or nowhere.
THEOREM SwitchingIsSafe == Spec => []SwitchSafe
<1>1. IInv => SwitchSafe
  BY DEF IInv
<1> QED
  BY <1>1, InductiveInvariant, PTL

\* The processor never runs on the directory of a dead task.
THEOREM DirectoryLives == Spec => []LoadedDirectoryLives
<1>1. IInv => LoadedDirectoryLives
  BY DEF IInv
<1> QED
  BY <1>1, InductiveInvariant, PTL

-----------------------------------------------------------------------------
(* Every step of the kernel is a step of Processes or invisible to a program. *)

LEMMA RunningProcess ==
  ASSUME IInv, pc = "user"
  PROVE  /\ RunningTask = current_task /\ RunningTask # NoTask
         /\ Registers[current_task] = cpu
<1>1. current_task \in Live /\ current_task \in Pids
  BY Running
<1> QED
  BY <1>1, ConstantFacts DEF RunningTask, Registers

\* The running program gets other registers, and nothing else changes.
LEMMA Computes ==
  ASSUME IInv, pc = "user", pc' = "user", UNCHANGED <<tasks, current_task>>,
         cpu' \in Context
  PROVE  Promise!Compute
<1>1. current_task \in Live
  BY Running
<1>2. Live' = Live /\ RunningTask' = RunningTask
  BY DEF Live, RunningTask
<1>3. Registers' = [Registers EXCEPT ![current_task] = cpu']
  BY <1>1, <1>2 DEF Registers
<1>4. cpu' \in Promise!Context
  BY DEF Context, Promise!Context
<1> QED
  BY <1>2, <1>3, <1>4, RunningProcess DEF Promise!Compute

\* A panic leaves the tasks as they are.
LEMMA Stops ==
  ASSUME pc # "halted", pc' = "halted", UNCHANGED <<tasks, current_task, cpu>>
  PROVE  Promise!Stop
<1>1. Live' = Live /\ RunningTask' = RunningTask /\ Registers' = Registers
  BY DEF Live, RunningTask, Registers
<1> QED
  BY <1>1 DEF Promise!Stop

LEMMA Boots ==
  ASSUME IInv, TaskCreate
  PROVE  Promise!Boot(0)
<1> DEFINE zero == [frame |-> 0, eax |-> 0, rest |-> 0]
<1>1. PICK d \in Frames :
        tasks' = [tasks EXCEPT ![0] = [pid |-> 0, dir |-> d, tss |-> zero]]
  BY InitTask
<1> DEFINE t == [pid |-> 0, dir |-> d, tss |-> zero]
<1>2. pc = "boot" /\ pc' = "created" /\ current_task' = current_task
      /\ num_tasks' = num_tasks + 1
  BY DEF TaskCreate
<1>3. Live = {} /\ current_task = NoTask /\ 0 \in Pids /\ NoTask # 0
  BY <1>2, ConstantFacts DEF IInv, KernelAlone
<1>4. t \in Task /\ t.pid = 0 /\ t.tss = zero
  BY ConstantFacts, TaskFields, ContextFields
<1> HIDE DEF t
<1>5. tasks' = [tasks EXCEPT ![0] = t]
  BY <1>1 DEF t
<1>6. Live' = Live \cup {0} /\ tasks'[0] = t
  BY <1>2, <1>3, <1>4, <1>5, Born DEF IInv
<1>7. Live' = {0}
  BY <1>3, <1>6
<1>8. Registers' = [q \in {0} |-> zero]
  BY <1>2, <1>3, <1>4, <1>6, <1>7 DEF Registers
<1>9. RunningTask = NoTask /\ RunningTask' = RunningTask
  BY <1>2, <1>3, <1>7 DEF RunningTask
<1> QED
  BY <1>2, <1>3, <1>7, <1>8, <1>9 DEF Promise!Boot

LEMMA Forks ==
  ASSUME IInv, ForkTask
  PROVE  \E p \in Pids : Promise!Fork(p)
<1>1. PICK p \in Pids, d \in Frames :
        /\ p \notin Live
        /\ tasks' = [tasks EXCEPT ![p] = Child(p, d)]
        /\ cpu' = [cpu EXCEPT !.eax = p]
  BY ForkedTask
<1>2. pc = "user" /\ pc' = pc /\ current_task' = current_task
  BY DEF ForkTask, InCall, SameMachine
<1>3. tasks \in [Pids -> Task \cup {NULL}] /\ cpu \in Context
  BY DEF IInv, TypeOK
<1>4. Child(p, d) \in Task /\ Child(p, d).tss = [frame |-> cpu.frame, eax |-> p, rest |-> 0]
  <2>1. cpu.frame \in Words
    BY <1>3 DEF Context
  <2>2. [frame |-> cpu.frame, eax |-> p, rest |-> 0] \in Context
    BY <2>1, ConstantFacts, ContextFields
  <2> QED
    BY <2>2, TaskFields DEF Child
<1>5. tasks'[p] = Child(p, d) /\ \A q \in Pids : q # p => tasks'[q] = tasks[q]
  BY <1>1, <1>3
<1>6. Live' = Live \cup {p}
  BY <1>1, <1>4, <1>5, ConstantFacts DEF Live
<1>7. current_task \in Live /\ p # current_task
  BY <1>1, <1>2, Running
<1>8. RunningTask = current_task /\ RunningTask # NoTask /\ RunningTask' = RunningTask
  BY <1>2, <1>6, <1>7, RunningProcess DEF RunningTask
<1>9. Registers' = [q \in Live' |->
        IF q = RunningTask THEN [Registers[q] EXCEPT !.eax = p]
        ELSE IF q = p THEN [frame |-> Registers[RunningTask].frame, eax |-> p, rest |-> 0]
        ELSE Registers[q]]
  <2> SUFFICES ASSUME NEW q \in Live'
      PROVE  (IF q = current_task' THEN cpu' ELSE tasks'[q].tss) =
               IF q = RunningTask THEN [Registers[q] EXCEPT !.eax = p]
               ELSE IF q = p
                 THEN [frame |-> Registers[RunningTask].frame, eax |-> p, rest |-> 0]
               ELSE Registers[q]
    BY DEF Registers
  <2>1. Registers[current_task] = cpu
    BY <1>2, RunningProcess
  <2>2. CASE q = current_task
    BY <1>1, <1>2, <1>8, <2>1, <2>2
  <2>3. CASE q = p
    BY <1>2, <1>4, <1>5, <1>7, <1>8, <2>1, <2>3
  <2>4. CASE q # current_task /\ q # p
    <3>1. q \in Live /\ q \in Pids
      BY <1>6, <2>4 DEF Live
    <3>2. Registers[q] = tasks[q].tss
      BY <2>4, <3>1 DEF Registers
    <3> QED
      BY <1>2, <1>5, <1>8, <2>4, <3>1, <3>2
  <2> QED
    BY <2>2, <2>3, <2>4
<1> QED
  BY <1>1, <1>2, <1>6, <1>8, <1>9 DEF Promise!Fork

\* A failing fork means that every process number is taken.
LEMMA ForkFails ==
  ASSUME IInv, ForkFull
  PROVE  Promise!ForkFails
<1>1. /\ pc = "user" /\ num_tasks = MaxTasks /\ cpu' = [cpu EXCEPT !.eax = NoTask]
      /\ UNCHANGED <<pc, tasks, current_task>>
  BY DEF ForkFull, InCall, SameMachine
<1>2. Live = Pids
  BY <1>1, LiveFinite DEF IInv, SlotsAgree
<1>3. current_task \in Live
  BY <1>1, Running
<1>4. Live' = Live /\ RunningTask' = RunningTask
  BY <1>1 DEF Live, RunningTask
<1>5. Registers' = [Registers EXCEPT ![current_task].eax = NoTask]
  BY <1>1, <1>3, <1>4 DEF Registers
<1> QED
  BY <1>1, <1>2, <1>4, <1>5, RunningProcess DEF Promise!ForkFails

\* task_kill_and_free takes one process away or stops the machine.
LEMMA Dies ==
  ASSUME IInv, pc = "user", NEW p \in Live, NEW where, where # "halted",
         KillAndFree(p, where), UNCHANGED <<current_task, cpu>>
  PROVE  Promise!Die(p) \/ Promise!Stop
<1>1. \/ /\ pc' = where /\ Live' = Live \ {p}
         /\ \A q \in Pids : q # p => tasks'[q] = tasks[q]
      \/ /\ pc' = "halted" /\ Live' = Live /\ tasks' = tasks
  BY KillOutcomes DEF IInv
<1>2. CASE /\ pc' = where /\ Live' = Live \ {p}
           /\ \A q \in Pids : q # p => tasks'[q] = tasks[q]
  <2>1. \A q \in Live' : q \in Live /\ q \in Pids /\ tasks'[q] = tasks[q]
    BY <1>2 DEF Live
  <2>2. Registers' = [q \in Live' |-> Registers[q]]
    BY <2>1 DEF Registers
  <2>3. RunningTask' = IF p = RunningTask THEN NoTask ELSE RunningTask
    BY <1>2, Running DEF RunningTask
  <2> QED
    BY <1>2, <2>2, <2>3, RunningProcess DEF Promise!Die
<1>3. CASE pc' = "halted" /\ Live' = Live /\ tasks' = tasks
  BY <1>3, Stops
<1> QED
  BY <1>1, <1>2, <1>3

\* task_switch loads the registers the task was left with.
LEMMA Dispatches ==
  ASSUME IInv, Timer
  PROVE  \E n \in Pids : Promise!Dispatch(n)
<1>1. PICK n \in Pids :
        /\ NextTask(current_task, n)
        /\ tasks' = Saved /\ current_task' = n /\ cpu' = Saved[n].tss
  BY DEF Timer
<1>2. pc # "halted" /\ pc' = "user"
  BY DEF Timer, InterruptsEnabled
<1>3. n \in Live
  BY <1>1 DEF NextTask
<1>4. Live' = Live
  <2>1. \A p \in Pids : p \in Live => tasks'[p] # NULL
    BY <1>1, SavedTasks, ConstantFacts
  <2>2. \A p \in Pids : p \notin Live => tasks'[p] = NULL
    BY <1>1, SavedTasks
  <2> QED
    BY <2>1, <2>2 DEF Live
<1>5. Registers' = Registers
  <2>1. \A q \in Live : (IF q = current_task' THEN cpu' ELSE tasks'[q].tss) = Saved[q].tss
    BY <1>1
  <2>2. \A q \in Live : Saved[q].tss = IF q = current_task THEN cpu ELSE tasks[q].tss
    BY SavedTasks
  <2> QED
    BY <1>4, <2>1, <2>2 DEF Registers
<1>6. RunningTask' = n
  BY <1>1, <1>3, <1>4 DEF RunningTask
<1> QED
  BY <1>2, <1>3, <1>4, <1>5, <1>6 DEF Promise!Dispatch

\* ForkFull, KillNobody and the rest of a program's own doing.
LEMMA ComputingSteps ==
  ASSUME IInv,
         \/ UserStep \/ GetPid \/ AllocPage
         \/ \E f \in Frames : UserWrite(f)
         \/ \E p \in Pids : KillNobody(p)
  PROVE  Promise!Compute
<1>1. pc = "user" /\ pc' = "user" /\ UNCHANGED <<tasks, current_task>>
  BY DEF UserStep, GetPid, AllocPage, UserWrite, KillNobody, InCall, SameMachine
<1>2. cpu' \in Context
  <2>1. CASE UserStep \/ GetPid \/ (\E f \in Frames : UserWrite(f)) \/ \E p \in Pids : KillNobody(p)
    BY <2>1, UserSteps DEF IInv, TypeOK
  <2>2. CASE AllocPage
    BY <2>2, AllocPageStep DEF IInv, TypeOK
  <2> QED
    BY <2>1, <2>2
<1> QED
  BY <1>1, <1>2, Computes

\* The task table and task_switch implement processes that have registers of
\* their own, whatever programs do and whenever the timer interrupts them.
THEOREM Implementation == Spec => ImplementsProcesses
<1>1. Init => Promise!Init
  <2> SUFFICES ASSUME Init PROVE Promise!Init
    OBVIOUS
  <2>1. Live = {} /\ current_task = NoTask /\ pc # "halted"
    BY DEF Init, Live
  <2>2. Registers = [p \in {} |-> 0]
    BY <2>1 DEF Registers
  <2>3. RunningTask = NoTask
    BY <2>1 DEF RunningTask
  <2> QED
    BY <2>1, <2>2, <2>3 DEF Promise!Init
<1>2. IInv /\ [Next]_vars => [Promise!Next]_(Promise!vars)
  <2> SUFFICES ASSUME IInv, [Next]_vars PROVE [Promise!Next]_(Promise!vars)
    OBVIOUS
  <2>1. CASE TaskCreate
    BY <2>1, Boots, ConstantFacts DEF Promise!Next
  <2>2. CASE InstallSwitch \/ OtherInterrupt \/ ClearCurrent \/ Sti
    <3>1. /\ Live' = Live /\ UNCHANGED <<tasks, cpu>>
          /\ pc # "halted" /\ pc' # "halted"
      BY <2>2 DEF InstallSwitch, OtherInterrupt, ClearCurrent, Sti, Live
    <3>2. current_task \notin Live /\ current_task' \notin Live
      BY <2>2, ConstantFacts
         DEF InstallSwitch, OtherInterrupt, ClearCurrent, Sti, SameMachine, IInv, KernelAlone, Live
    <3>3. Registers' = Registers /\ RunningTask' = RunningTask
      BY <3>1, <3>2 DEF Registers, RunningTask
    <3> QED
      BY <3>1, <3>3 DEF Promise!vars
  <2>3. CASE \/ PanicEnds \/ TimerFindsNoTask
             \/ ForkOutOfHeap \/ ForkOutOfPages \/ AllocOutOfPages
    <3>1. pc # "halted" /\ pc' = "halted" /\ UNCHANGED <<tasks, current_task, cpu>>
      BY <2>3 DEF PanicEnds, TimerFindsNoTask, ForkOutOfHeap, ForkOutOfPages,
                  AllocOutOfPages, Panic, SameMachine, InCall, InterruptsEnabled
    <3> QED
      BY <3>1, Stops DEF Promise!Next
  <2>4. CASE Timer
    BY <2>4, Dispatches DEF Promise!Next
  <2>5. CASE \/ UserStep \/ GetPid \/ AllocPage
             \/ \E f \in Frames : UserWrite(f)
             \/ \E p \in Pids : KillNobody(p)
    BY <2>5, ComputingSteps DEF Promise!Next
  <2>6. CASE ForkFull
    BY <2>6, ForkFails DEF Promise!Next
  <2>7. CASE ForkTask
    BY <2>7, Forks DEF Promise!Next
  <2>8. CASE Exit \/ Trap \/ KillSelf
    <3>1. /\ pc = "user" /\ KillAndFree(current_task, "dying")
          /\ UNCHANGED <<current_task, cpu>>
      BY <2>8 DEF Exit, Trap, KillSelf, InCall
    <3>2. current_task \in Live /\ current_task \in Pids
      BY <3>1, Running
    <3> QED
      BY <3>1, <3>2, Dies DEF Promise!Next
  <2>9. ASSUME NEW p \in Pids, Kill(p) PROVE Promise!Next
    <3>1. /\ pc = "user" /\ KillAndFree(p, "user") /\ p \in Live
          /\ UNCHANGED <<current_task, cpu>>
      BY <2>9 DEF Kill, InCall, SameMachine, Live
    <3> QED
      BY <3>1, Dies DEF Promise!Next
  <2>10. CASE UNCHANGED vars
    <3>1. Live' = Live /\ Registers' = Registers /\ RunningTask' = RunningTask /\ pc' = pc
      BY <2>10 DEF vars, Live, Registers, RunningTask
    <3> QED
      BY <3>1 DEF Promise!vars
  <2> QED
    BY <2>1, <2>2, <2>3, <2>4, <2>5, <2>6, <2>7, <2>8, <2>9, <2>10 DEF Next, Step, Stopped
<1> QED
  BY <1>1, <1>2, InductiveInvariant, PTL DEF Spec, ImplementsProcesses, Promise!Spec

-----------------------------------------------------------------------------
(* A live task's turn comes nearer with every switch.                       *)

\* What task_find_next tries in its i-th iteration.
LEMMA Tried ==
  ASSUME NEW t \in Pids \cup {NoTask}, NEW i \in 1 .. MaxTasks
  PROVE  (t + i) % MaxTasks = IF t + i < MaxTasks THEN t + i ELSE t + i - MaxTasks
<1>1. /\ MaxTasks \in Nat /\ MaxTasks >= 1
      /\ t \in -1 .. MaxTasks - 1
  BY TasksAssumption DEF Pids, NoTask
<1>2. CASE t + i < MaxTasks
  <2>1. t + i \in 0 .. MaxTasks - 1 /\ t + i = 0 * MaxTasks + (t + i)
    BY <1>1, <1>2
  <2>2. (0 * MaxTasks + (t + i)) % MaxTasks = t + i
    BY <1>1, <2>1, QuotientIs
  <2> QED
    BY <1>2, <2>1, <2>2
<1>3. CASE t + i >= MaxTasks
  <2>1. t + i - MaxTasks \in 0 .. MaxTasks - 1 /\ t + i = 1 * MaxTasks + (t + i - MaxTasks)
    BY <1>1, <1>3
  <2>2. (1 * MaxTasks + (t + i - MaxTasks)) % MaxTasks = t + i - MaxTasks
    <3>1. 1 \in Int /\ MaxTasks \in Nat \ {0}
      BY <1>1
    <3> QED
      BY <3>1, <2>1, QuotientIs
  <2> QED
    BY <1>1, <1>3, <2>1, <2>2
<1> QED
  BY <1>1, <1>2, <1>3

\* A search that does not end at the live task p ends in front of it.
LEMMA SearchComesNearer ==
  ASSUME NEW t \in Pids \cup {NoTask}, NEW n \in Pids, NextTask(t, n),
         NEW p \in Live, n # p
  PROVE  Away(n, p) < Away(t, p)
<1>1. /\ MaxTasks \in Nat /\ MaxTasks >= 1
      /\ t \in -1 .. MaxTasks - 1 /\ p \in 0 .. MaxTasks - 1
  BY TasksAssumption DEF Pids, NoTask, Live
<1>2. PICK i \in 1 .. MaxTasks :
        /\ n = (t + i) % MaxTasks
        /\ \A j \in 1 .. i - 1 : (t + j) % MaxTasks \notin Live
  BY DEF NextTask
<1> DEFINE k == Away(t, p) + 1
<1>3. k \in 1 .. MaxTasks
  BY <1>1 DEF Away
<1>4. p = (t + k) % MaxTasks
  BY <1>1, <1>3, Tried DEF Away
<1>5. i < k
  <2>1. ~(k \in 1 .. i - 1)
    BY <1>2, <1>4
  <2>2. k # i
    BY <1>2, <1>4
  <2> QED
    BY <1>2, <1>3, <2>1, <2>2
<1>6. n = IF t + i < MaxTasks THEN t + i ELSE t + i - MaxTasks
  BY <1>2, Tried
<1> QED
  BY <1>1, <1>2, <1>5, <1>6 DEF Away

LEMMA CurrentOrNone == IInv => current_task \in Pids \cup {NoTask}
BY DEF IInv, TypeOK

\* Only the timer and a death change the current task.
LEMMA OnlySwitches ==
  ASSUME Step, current_task' # current_task
  PROVE  Timer \/ current_task' = NoTask
<1>1. CASE TaskCreate \/ InstallSwitch \/ OtherInterrupt \/ PanicEnds \/ TimerFindsNoTask
  BY <1>1 DEF TaskCreate, InstallSwitch, OtherInterrupt, PanicEnds, TimerFindsNoTask
<1>2. CASE UserStep \/ GetPid \/ (\E f \in Frames : UserWrite(f)) \/ Sti
  BY <1>2 DEF UserStep, GetPid, UserWrite, Sti, SameMachine
<1>3. CASE ForkTask \/ ForkFull \/ ForkOutOfHeap \/ ForkOutOfPages
  BY <1>3 DEF ForkTask, ForkFull, ForkOutOfHeap, ForkOutOfPages, SameMachine
<1>4. CASE Exit \/ Trap \/ KillSelf \/ \E p \in Pids : Kill(p) \/ KillNobody(p)
  BY <1>4 DEF Exit, Trap, KillSelf, Kill, KillNobody, SameMachine
<1>5. CASE AllocPage \/ AllocOutOfPages
  BY <1>5 DEF AllocPage, AllocOutOfPages, SameMachine
<1>6. CASE ClearCurrent
  BY <1>6 DEF ClearCurrent
<1> QED
  BY <1>1, <1>2, <1>3, <1>4, <1>5, <1>6 DEF Step

\* A task waits for at most the tasks between the one that runs and itself, unless
\* somebody dies: task_find_next passes no live task by (ksrc/task.c:256-268).
THEOREM NoTaskPassedBy == Spec => TurnsComeNearer
<1>1. IInv /\ [Next]_vars =>
        [Timer \/ current_task' # current_task =>
           \A p \in Live :
             current_task' \in {p, NoTask} \/ Away(current_task', p) < Away(current_task, p)]_vars
  <2> SUFFICES ASSUME IInv, Next, Timer \/ current_task' # current_task, NEW p \in Live
               PROVE  \/ current_task' \in {p, NoTask}
                      \/ Away(current_task', p) < Away(current_task, p)
    OBVIOUS
  <2>1. Timer \/ current_task' = NoTask
    BY OnlySwitches DEF Next, Stopped, vars
  <2>2. CASE Timer
    <3>1. PICK n \in Pids : NextTask(current_task, n) /\ current_task' = n
      BY <2>2 DEF Timer
    <3> QED
      BY <3>1, CurrentOrNone, SearchComesNearer
  <2> QED
    BY <2>1, <2>2
<1> QED
  BY <1>1, InductiveInvariant, PTL DEF Spec, TurnsComeNearer

=============================================================================
