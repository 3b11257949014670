-------------------------------- MODULE Heap --------------------------------
(***************************************************************************)
(* What a kernel heap promises its callers, without a chunk table: blocks  *)
(* lie inside the heap and no two of them share a byte; a block leaves the *)
(* heap only when it is freed; and the machine is stopped for want of      *)
(* memory only when the heap has handed out its whole length, counting     *)
(* every block ever served as used up.                                     *)
(***************************************************************************)
EXTENDS Integers

CONSTANTS HeapBegin, HeapLen, Header, Lens

VARIABLES
  live,      \* blocks handed out: address of the header word, and length
  served,    \* bytes handed out so far, headers included
  halted

vars == <<live, served, halted>>

Disjoint(b, c) ==
  \/ b.begin + b.len + Header <= c.begin
  \/ c.begin + c.len + Header <= b.begin

Init == live = {} /\ served = 0 /\ halted = FALSE

Alloc(len) ==
  /\ ~halted
  /\ \E a \in HeapBegin .. (HeapBegin + HeapLen - len - Header) :
       LET b == [begin |-> a, len |-> len]
       IN  /\ \A c \in live : Disjoint(b, c)
           /\ live' = live \cup {b}
  /\ served' = served + len + Header
  /\ UNCHANGED halted

Free(b) ==
  /\ ~halted
  /\ b \in live
  /\ live' = live \ {b}
  /\ UNCHANGED <<served, halted>>

OutOfMemory(len) ==
  /\ ~halted
  /\ served + len + Header > HeapLen
  /\ halted' = TRUE
  /\ UNCHANGED <<live, served>>

Next ==
  \/ \E len \in Lens : Alloc(len)
  \/ \E b \in live : Free(b)
  \/ \E len \in Lens : OutOfMemory(len)

Spec == Init /\ [][Next]_vars

=============================================================================
