------------------------------- MODULE MCTasks -------------------------------
(* Workloads and registers for Tasks. *)
EXTENDS Tasks

AllCalls   == {"fork", "exit", "kill", "alloc", "trap"}
LifeCalls  == {"fork", "exit", "kill", "trap"}   \* no page allocation
GrowCalls  == {"fork", "alloc"}                   \* nobody dies
OneWord    == {0}
TwoWords   == {0, 1}

=============================================================================
