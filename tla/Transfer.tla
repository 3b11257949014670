------------------------------ MODULE Transfer ------------------------------
(***************************************************************************)
(* What a caller of the disk driver may rely on: the sectors of a request  *)
(* move in order, nothing else changes, and a request that ends normally   *)
(* moved them all.  One that fails never ends: the kernel panics, and only *)
(* sectors of the request that had not moved yet may hold something else.  *)
(***************************************************************************)
EXTENDS Naturals

CONSTANTS Data, Size, Room

VARIABLES
  disk,     \* the sectors of the disk
  buffer,   \* the caller's memory, in sectors
  request,  \* its kind, first sector and number of sectors
  done,     \* how many have moved
  state     \* "idle", "busy", "panic"

vars == <<disk, buffer, request, done, state>>

Requests == {r \in [kind : {"read", "write"}, lba : Nat, sectors : Nat] :
               r.lba + r.sectors <= Size /\ r.sectors <= Room}

Init ==
  /\ disk \in [0 .. Size - 1 -> Data]
  /\ buffer \in [0 .. Room - 1 -> Data]
  /\ request \in Requests /\ done = 0 /\ state = "idle"

Ask ==
  /\ state = "idle"
  /\ request' \in Requests
  /\ done' = 0 /\ state' = "busy"
  /\ UNCHANGED <<disk, buffer>>

Left == request.sectors - done

\* Both sides with the sectors from the one that is next on set as f gives them.
Set(n, f) ==
  IF request.kind = "read"
  THEN /\ buffer' = [k \in 0 .. Room - 1 |->
                       IF done <= k /\ k < done + n THEN f[k - done] ELSE buffer[k]]
       /\ disk' = disk
  ELSE /\ disk' = [k \in 0 .. Size - 1 |->
                     IF request.lba + done <= k /\ k < request.lba + done + n
                     THEN f[k - (request.lba + done)] ELSE disk[k]]
       /\ buffer' = buffer

Source(k) == IF request.kind = "read" THEN disk[request.lba + done + k]
             ELSE buffer[done + k]

Move(n) ==
  /\ state = "busy" /\ n <= Left
  /\ Set(n, [k \in 0 .. n - 1 |-> Source(k)])
  /\ done' = done + n
  /\ UNCHANGED <<request, state>>

Fail(n) ==
  /\ state = "busy" /\ n <= Left
  /\ \E f \in [0 .. n - 1 -> Data] : Set(n, f)
  /\ state' = "panic"
  /\ UNCHANGED <<request, done>>

Return ==
  /\ state = "busy" /\ done = request.sectors
  /\ state' = "idle"
  /\ UNCHANGED <<disk, buffer, request, done>>

Next == \/ Ask
        \/ \E n \in 0 .. Left : Move(n) \/ Fail(n)
        \/ Return

Spec == Init /\ [][Next]_vars

=============================================================================
