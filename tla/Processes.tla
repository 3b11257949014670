----------------------------- MODULE Processes ------------------------------
(***************************************************************************)
(* What multitasking promises a user program: a process has registers of   *)
(* its own that nobody else changes, dispatching it resumes it exactly     *)
(* where it was, it lives until it exits, faults or is killed, a dead      *)
(* process never runs again, and fork makes one more process (or fails     *)
(* only when every process number is taken).                               *)
(***************************************************************************)
EXTENDS Integers

CONSTANTS
  Pids,        \* process numbers
  NoTask,      \* not a process number; also what a failed fork returns
  Words        \* contents of a register

VARIABLES
  procs,       \* the processes alive
  ctx,         \* the registers of each of them
  running,     \* the one whose program runs, NoTask when none does
  down         \* the machine has stopped

vars == <<procs, ctx, running, down>>

\* frame: what an interrupt pushes (ss, esp, eflags, cs, eip); eax; rest: the others.
Context == [frame : Words, eax : Words \cup Pids \cup {NoTask}, rest : Words]

Init == procs = {} /\ ctx = [p \in {} |-> 0] /\ running = NoTask /\ down = FALSE

\* The first process is made at boot, with all registers zero.
Boot(p) ==
  /\ procs = {} /\ running = NoTask /\ ~down
  /\ procs' = {p}
  /\ ctx' = [q \in {p} |-> [frame |-> 0, eax |-> 0, rest |-> 0]]
  /\ UNCHANGED <<running, down>>

\* The running program changes its own registers.
Compute ==
  /\ running # NoTask /\ ~down
  /\ \E c \in Context : ctx' = [ctx EXCEPT ![running] = c]
  /\ UNCHANGED <<procs, running, down>>

\* Both processes get the number of the new one; of the caller's registers the
\* new one inherits those the interrupt saved.
Fork(p) ==
  /\ running # NoTask /\ ~down /\ p \in Pids \ procs
  /\ procs' = procs \cup {p}
  /\ ctx' = [q \in procs' |->
       IF q = running THEN [ctx[q] EXCEPT !.eax = p]
       ELSE IF q = p THEN [frame |-> ctx[running].frame, eax |-> p, rest |-> 0]
       ELSE ctx[q]]
  /\ UNCHANGED <<running, down>>

ForkFails ==
  /\ running # NoTask /\ ~down /\ procs = Pids
  /\ ctx' = [ctx EXCEPT ![running].eax = NoTask]
  /\ UNCHANGED <<procs, running, down>>

\* The running process exits, faults or kills itself, or kills another one.
Die(p) ==
  /\ running # NoTask /\ ~down /\ p \in procs
  /\ procs' = procs \ {p}
  /\ ctx' = [q \in procs' |-> ctx[q]]
  /\ running' = IF p = running THEN NoTask ELSE running
  /\ UNCHANGED down

Dispatch(p) ==
  /\ p \in procs /\ ~down
  /\ running' = p
  /\ UNCHANGED <<procs, ctx, down>>

Stop == ~down /\ down' = TRUE /\ UNCHANGED <<procs, ctx, running>>

Next ==
  \/ Compute \/ ForkFails \/ Stop
  \/ \E p \in Pids : Boot(p) \/ Fork(p) \/ Die(p) \/ Dispatch(p)

Spec == Init /\ [][Next]_vars

=============================================================================
