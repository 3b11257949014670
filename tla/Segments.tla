------------------------------ MODULE Segments ------------------------------
(***************************************************************************)
(* The global descriptor table, ksrc/gdt.c: making descriptors, packing    *)
(* them into the digits the processor wants and back, and keeping them in  *)
(* the table.                                                              *)
(*                                                                         *)
(* Sizes scale with Digit, 256 in the code: a byte limit counts up to the  *)
(* values of two digits, addresses to those of four.                       *)
(***************************************************************************)
EXTENDS Integers

CONSTANTS
  Digit,      \* values of a byte, 256
  Unit,       \* bytes of a large unit, 4096
  Limits,     \* values of a limit, 2 ^ 20
  Plus,       \* what gdt_add_entry adds to the byte it reads, 5
  Slots,      \* entries of the table, 512
  Bases, Sizes, Privileges,   \* what descriptors are made of
  MaxChanges  \* bound: changes after gdt_init

Pair == Digit * Digit
Address == 0 .. Pair * Pair - 1

\* Plus leaves the sign of a byte 0 what it is.
ASSUME SegmentsAssumption ==
  /\ Digit \in Nat \ {0} /\ Unit \in Nat \ {0} /\ Limits \in Nat /\ Unit * Limits = Pair * Pair
  /\ Pair < Limits
  /\ Plus \in Nat /\ Plus % Digit < Digit \div 2
  /\ Slots \in Nat /\ Slots > 4
  /\ Bases \subseteq Address /\ Sizes \subseteq Address /\ Privileges \subseteq Nat
  /\ MaxChanges \in Nat

\* The factories.
Large(size) == size > Pair

Limit(size) == IF Large(size) THEN size \div Unit ELSE size

Descriptor(base, size, privilege, executable) ==
  [base |-> base, limit |-> Limit(size), large |-> Large(size), readwrite |-> TRUE,
   conforming |-> FALSE, executable |-> executable, privilege |-> privilege % 4, bits32 |-> TRUE]

NullEntry ==
  [base |-> 0, limit |-> 0, large |-> FALSE, readwrite |-> FALSE,
   conforming |-> FALSE, executable |-> FALSE, privilege |-> 0, bits32 |-> FALSE]

\* The bytes of a descriptor; bits of bytes 5 and 6 are fields of their own.
EncodePanics(e) == e.limit >= Limits

\* Mutant: the high bits of the limit are forgotten.
EncodeShort(e) ==
  [b0 |-> e.limit % Digit, b1 |-> (e.limit \div Digit) % Digit,
   b2 |-> e.base % Digit, b3 |-> (e.base \div Digit) % Digit,
   b4 |-> (e.base \div Pair) % Digit, b7 |-> e.base \div (Pair * Digit),
   high |-> 0, bits32 |-> e.bits32, large |-> e.large,
   readwrite |-> e.readwrite, conforming |-> e.conforming, executable |-> e.executable,
   privilege |-> e.privilege % 4, present |-> TRUE]

Encode(e) == [EncodeShort(e) EXCEPT !.high = e.limit \div Pair]

Decode(r) ==
  [limit |-> r.high * Pair + r.b1 * Digit + r.b0,
   base |-> r.b7 * (Pair * Digit) + r.b4 * Pair + r.b3 * Digit + r.b2,
   large |-> r.large, readwrite |-> r.readwrite, conforming |-> r.conforming,
   executable |-> r.executable, privilege |-> r.privilege, bits32 |-> r.bits32]

\* Bound: the memory of the table is taken to be zero at first.
Unset == [Encode(NullEntry) EXCEPT !.present = FALSE]

-----------------------------------------------------------------------------
VARIABLES
  gdt,
  made,     \* history: what each descriptor was made of, or Nothing
  changes

segmentsVars == <<gdt, made, changes>>

Nothing == [size |-> -1, entry |-> NullEntry]
Made(size, entry) == [size |-> size, entry |-> entry]

\* gdt_init: the null descriptor, the kernel's segments and real mode's.
SegmentsInit ==
  LET whole == Pair * Pair - 1
      small == Pair - 1
      first == << Made(whole, Descriptor(0, whole, 0, TRUE)),
                  Made(whole, Descriptor(0, whole, 0, FALSE)),
                  Made(small, [Descriptor(0, small, 0, TRUE) EXCEPT !.bits32 = FALSE]),
                  Made(small, [Descriptor(0, small, 0, FALSE) EXCEPT !.bits32 = FALSE]) >>
  IN  /\ made = [s \in 0 .. Slots - 1 |-> IF s \in 1 .. 4 THEN first[s] ELSE Nothing]
      /\ gdt = [s \in 0 .. Slots - 1 |-> IF s > 4 THEN Unset ELSE Encode(made[s].entry)]
      /\ changes = 0

Change == changes < MaxChanges /\ changes' = changes + 1

New == {Made(z, Descriptor(b, z, p, x)) : b \in Bases, z \in Sizes, p \in Privileges, x \in BOOLEAN}

SetEntry(s, new) ==
  /\ Change /\ ~EncodePanics(new.entry)
  /\ gdt' = [gdt EXCEPT ![s] = Encode(new.entry)]
  /\ made' = [made EXCEPT ![s] = new]

\* The sign of a char: the first byte of the entry with Plus added to it.
TakenForFree(r) == (r.b0 + Plus) % Digit < Digit \div 2

Free == {s \in 0 .. Slots - 1 : TakenForFree(gdt[s])}

AddEntry(new) ==
  /\ Change /\ ~EncodePanics(new.entry)
  /\ \E s \in Free :
       /\ \A t \in Free : s =< t
       /\ gdt' = [gdt EXCEPT ![s] = Encode(new.entry)]
       /\ made' = [made EXCEPT ![s] = new]

AddFull ==
  /\ Change /\ Free = {}
  /\ UNCHANGED <<gdt, made>>

DelEntry(s) ==
  /\ Change
  /\ gdt' = [gdt EXCEPT ![s].present = FALSE]
  /\ UNCHANGED made

SegmentsStep(kinds) ==
  \/ \E new \in kinds : AddEntry(new) \/ \E s \in 0 .. Slots - 1 : SetEntry(s, new)
  \/ AddFull
  \/ \E s \in 0 .. Slots - 1 : DelEntry(s)

SegmentsNext == SegmentsStep(New)

SegmentsSpec == SegmentsInit /\ [][SegmentsNext]_segmentsVars

-----------------------------------------------------------------------------
\* What was packed comes back whole: gdt_decode undoes gdt_encode for every
\* base and limit the factories make, deleted descriptors included.
ComesBack ==
  \A s \in 0 .. Slots - 1 : made[s] # Nothing => Decode(gdt[s]) = made[s].entry

\* A segment reaches all the bytes it was made for, and goes on for a byte or
\* a large unit at most: the limit is the size, not the size less one.
Reaches ==
  \A s \in 0 .. Slots - 1 : made[s] # Nothing =>
    LET e == Decode(gdt[s])
        unit == IF e.large THEN Unit ELSE 1
        bytes == (e.limit + 1) * unit
    IN  bytes > made[s].size /\ bytes =< made[s].size + unit

\* Descriptors mean in the table what they meant to their makers, whatever is set,
\* added and deleted (ksrc/gdt.c:9-167).  Nothing is said of the slot that
\* gdt_add_entry takes: its comment asks for one that is not present, and it looks
\* at another byte (ksrc/gdt.c:99-100).
DescriptorsFit == ComesBack /\ Reaches

=============================================================================
