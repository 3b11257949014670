------------------------------ MODULE Keyboard ------------------------------
(***************************************************************************)
(* The keyboard driver, ksrc/kb.c: the interrupt handler kb_isr against a  *)
(* caller of kb_read_scancode or kb_read_key.                              *)
(*                                                                         *)
(* They share a one-entry mailbox without a lock.  The reader is modelled  *)
(* one access at a time; the handler runs with interrupts disabled, so it  *)
(* is one step, between any two of the reader's while interrupts are       *)
(* enabled.  A keyboard may send any code at any time; one that comes      *)
(* while interrupts are disabled waits in the controller, which is to come *)
(* later.                                                                  *)
(***************************************************************************)
CONSTANT Codes   \* the bytes the keyboard sends

VARIABLES
  kb_isr_escaped, escape, key, key_ready,   \* the variables of the same names
  held,     \* which of shift, ctrl and alt are true
  reader_pc, \* the reader's next access
  ints,     \* the interrupt flag
  sc,       \* sc, as far as it is copied
  mods,     \* the modifiers copied to the key_t
  answer,   \* what the last call returned
  arrived,  \* history: codes stored since the reader last cleared key_ready
  torn      \* history: one was stored while the reader copied another

mailbox      == <<kb_isr_escaped, escape, key, key_ready, held>>
keyboardVars == <<mailbox, reader_pc, ints, sc, mods, answer, arrived, torn>>

Prefix    == "e0"
Named     == {"48", "50", "4b", "4d"}
Pressed   == [ctrl |-> "1d", alt |-> "38", shift |-> "2a"]
Released  == [ctrl |-> "9d", alt |-> "b8", shift |-> "aa"]
Modifiers == DOMAIN Pressed
Zero      == "00"
Scancode  == [escaped : BOOLEAN, key : Codes \cup {Zero}]
NoCode    == [escaped |-> FALSE, key |-> Zero]

Copying == {"escape", "key", "ctrl", "shift", "alt", "decode"}
Waiting == {"test", "hlt", "asleep"}

KeyboardTypeOK ==
  /\ kb_isr_escaped \in BOOLEAN /\ escape \in BOOLEAN /\ key_ready \in BOOLEAN
  /\ key \in Codes \cup {Zero}
  /\ held \subseteq Modifiers /\ mods \subseteq Modifiers
  /\ reader_pc \in {"idle", "clear", "sti"} \cup Waiting \cup Copying
  /\ ints \in BOOLEAN
  /\ sc \in Scancode
  /\ answer \in [kind : {"none", "scancode", "special", "ascii"}, sc : Scancode,
                 mods : SUBSET Modifiers, upper : BOOLEAN]
  /\ arrived \subseteq Scancode
  /\ torn \in BOOLEAN

KeyboardInit ==
  /\ kb_isr_escaped = FALSE /\ escape = FALSE /\ key_ready = FALSE
  /\ key = Zero /\ held = {}
  /\ reader_pc = "idle" /\ ints \in BOOLEAN
  /\ sc = NoCode /\ mods = {} /\ arrived = {} /\ torn = FALSE
  /\ answer = [kind |-> "none", sc |-> NoCode, mods |-> {}, upper |-> FALSE]

-----------------------------------------------------------------------------
\* Any interrupt ends a hlt.
Wake == reader_pc' = IF reader_pc = "asleep" THEN "test" ELSE reader_pc

\* Mutant: an escaped code does not count as a key.
StoreUnescapedOnly(k) ==
  /\ escape' = kb_isr_escaped /\ key' = k
  /\ key_ready' = (key_ready \/ ~kb_isr_escaped)
  /\ kb_isr_escaped' = FALSE

Store(k) ==
  /\ escape' = kb_isr_escaped /\ key' = k /\ key_ready' = TRUE
  /\ kb_isr_escaped' = FALSE

HeldAfter(k) == (held \cup {m \in Modifiers : Pressed[m] = k})
                \ {m \in Modifiers : Released[m] = k}

KeyInterrupt(k) ==
  /\ ints
  /\ Wake
  /\ IF k = Prefix /\ ~kb_isr_escaped
     THEN /\ kb_isr_escaped' = TRUE
          /\ UNCHANGED <<escape, key, key_ready, held, arrived, torn>>
     ELSE /\ Store(k)
          /\ held' = HeldAfter(k)
          /\ arrived' = IF reader_pc \in {"idle", "clear"} THEN {}
                       ELSE arrived \cup {[escaped |-> kb_isr_escaped, key |-> k]}
          /\ torn' = (torn \/ reader_pc \in Copying)
  /\ UNCHANGED <<ints, sc, mods, answer>>

\* The timer, or any other device: only the hlt notices.
OtherInterrupt ==
  /\ ints /\ reader_pc = "asleep"
  /\ Wake
  /\ UNCHANGED <<mailbox, ints, sc, mods, answer, arrived, torn>>

-----------------------------------------------------------------------------
\* A caller may have interrupts enabled or not.
Call ==
  /\ reader_pc = "idle"
  /\ reader_pc' = "clear"
  /\ ints' \in BOOLEAN
  /\ UNCHANGED <<mailbox, sc, mods, answer, arrived, torn>>

\* Mutant: the code left from before the call is not forgotten.
ClearReadyForgotten == key_ready' = key_ready

ClearReady == key_ready' = FALSE

ClearKey ==
  /\ reader_pc = "clear"
  /\ ClearReady
  /\ arrived' = {}
  /\ reader_pc' = "sti"
  /\ UNCHANGED <<kb_isr_escaped, escape, key, held, ints, sc, mods, answer, torn>>

Sti ==
  /\ reader_pc = "sti"
  /\ ints' = TRUE
  /\ reader_pc' = "test"
  /\ UNCHANGED <<mailbox, sc, mods, answer, arrived, torn>>

Test ==
  /\ reader_pc = "test"
  /\ reader_pc' = IF key_ready THEN "escape" ELSE "hlt"
  /\ UNCHANGED <<mailbox, ints, sc, mods, answer, arrived, torn>>

Hlt ==
  /\ reader_pc = "hlt"
  /\ reader_pc' = "asleep"
  /\ UNCHANGED <<mailbox, ints, sc, mods, answer, arrived, torn>>

CopyEscape ==
  /\ reader_pc = "escape"
  /\ sc' = [sc EXCEPT !.escaped = escape]
  /\ reader_pc' = "key"
  /\ UNCHANGED <<mailbox, ints, mods, answer, arrived, torn>>

CopyKey ==
  /\ reader_pc = "key"
  /\ sc' = [sc EXCEPT !.key = key]
  /\ reader_pc' = "ctrl"
  /\ UNCHANGED <<mailbox, ints, mods, answer, arrived, torn>>

Return(kind, m, upper) ==
  /\ answer' = [kind |-> kind, sc |-> sc, mods |-> m, upper |-> upper]
  /\ reader_pc' = "idle"
  /\ sc' = NoCode /\ mods' = {} /\ arrived' = {} /\ torn' = FALSE
  /\ UNCHANGED <<mailbox, ints>>

\* kb_read_scancode ends here; kb_read_key goes on.
ReturnScancode == reader_pc = "ctrl" /\ Return("scancode", {}, FALSE)

\* Mutant: shift is not copied.
FollowingSkipsShift == [ctrl |-> "alt", shift |-> "alt", alt |-> "decode"]

Following == [ctrl |-> "shift", shift |-> "alt", alt |-> "decode"]

ReadModifier(m) ==
  /\ reader_pc = m
  /\ mods' = (mods \ {m}) \cup ({m} \cap held)
  /\ reader_pc' = Following[m]
  /\ UNCHANGED <<mailbox, ints, sc, answer, arrived, torn>>

\* The recursive call of kb_read_key.
TryAgain ==
  /\ reader_pc = "decode" /\ sc.escaped /\ sc.key \notin Named
  /\ reader_pc' = "clear"
  /\ sc' = NoCode /\ mods' = {} /\ arrived' = {} /\ torn' = FALSE
  /\ UNCHANGED <<mailbox, ints, answer>>

ReturnSpecial ==
  /\ reader_pc = "decode"
  /\ IF sc.escaped THEN sc.key \in Named ELSE sc.key = "0e"
  /\ Return("special", mods, FALSE)

\* The table is chosen by shift as it is now, not by the copy.
ReturnAscii ==
  /\ reader_pc = "decode" /\ ~sc.escaped /\ sc.key # "0e"
  /\ Return("ascii", mods, "shift" \in held)

Reader ==
  \/ ClearKey \/ Sti \/ Test \/ Hlt \/ CopyEscape \/ CopyKey
  \/ ReturnScancode \/ (\E m \in Modifiers : ReadModifier(m))
  \/ TryAgain \/ ReturnSpecial \/ ReturnAscii

KeyboardNext == Call \/ Reader \/ OtherInterrupt \/ (\E k \in Codes : KeyInterrupt(k))

\* The processor goes on, and the timer ticks.
KeyboardFairness == WF_keyboardVars(Reader) /\ WF_keyboardVars(OtherInterrupt)

KeyboardSpec == KeyboardInit /\ [][KeyboardNext]_keyboardVars /\ KeyboardFairness

-----------------------------------------------------------------------------
\* A code that comes in between the test of key_ready and the hlt does not wake
\* the reader, and the handler may store many more: still a reader for whom a code
\* came gets out of the loop (ksrc/kb.c:79-82).
KeyEndsWait == (reader_pc \in Waiting /\ arrived # {}) ~> (reader_pc \in Copying)

\* However many codes come in before the call, during it and while the reader
\* copies: the two bytes it gets are those of codes that came since it cleared
\* key_ready, at worst of two different ones (ksrc/kb.c:79-85).
MixesFreshCodes ==
  reader_pc \in Copying \ {"escape", "key"} =>
    \E a, b \in arrived : sc.escaped = a.escaped /\ sc.key = b.key

\* What the reader has copied so far is what the mailbox holds, unless the
\* handler stored another code in between.
CopiedModifiers ==
  {m \in Modifiers : \/ reader_pc = "decode"
                     \/ m = "ctrl" /\ reader_pc \in {"shift", "alt"}
                     \/ m = "shift" /\ reader_pc = "alt"}
Untorn ==
  /\ reader_pc \notin Copying => ~torn
  /\ ~torn =>
    /\ reader_pc \in Copying \ {"escape"} => sc.escaped = escape
    /\ reader_pc \in Copying \ {"escape", "key"} => sc.key = key
    /\ mods = held \cap CopiedModifiers

\* A code the handler flags as ready is one that arrived.
Delivered ==
  /\ reader_pc \notin {"idle", "clear"} /\ key_ready =>
       [escaped |-> escape, key |-> key] \in arrived
  /\ reader_pc \in {"idle", "clear"} => arrived = {}
  /\ arrived # {} => key_ready
  /\ reader_pc \in Copying => key_ready
  /\ reader_pc \in Copying \ {"escape"} => \E a \in arrived : sc.escaped = a.escaped

\* The inductive invariant of the proofs (ksrc/kb.c:22-131).
KeyboardInv == KeyboardTypeOK /\ Delivered /\ MixesFreshCodes /\ Untorn

\* Unless a code is stored while the reader copies another, it does what
\* KeyReader promises: the code is whole, the newest, and its modifiers belong
\* to it (ksrc/kb.c:77-131).
Promise == INSTANCE KeyReader WITH
  asking <- reader_pc \notin {"idle", "clear"},
  fresh  <- arrived # {},
  last   <- [escaped |-> escape, key |-> key]
ImplementsReader == Promise!Spec

=============================================================================
