------------------------------ MODULE KeyReader ------------------------------
(***************************************************************************)
(* What a caller of kb_read_scancode and kb_read_key may rely on: it waits *)
(* until a scan code comes in after it asked, and gets the latest one,     *)
(* whole, with the modifiers that hold at that moment.  kb_read_key asks   *)
(* again after an escaped code that it has no name for.  Nothing is        *)
(* promised when another code comes in while it is being answered.         *)
(***************************************************************************)
CONSTANTS Named        \* the escaped codes kb_read_key has a name for

VARIABLES
  asking,   \* a caller has begun to wait
  fresh,    \* a code came in since
  torn,     \* another came while the answer was made
  last,     \* the latest code: [escaped, key]
  held,     \* the modifiers that are down
  answer    \* what the last call returned: [kind, sc, mods, upper]

vars == <<asking, fresh, torn, last, held, answer>>

Init == ~asking /\ ~fresh /\ ~torn /\ held = {}

Ask == /\ ~asking
       /\ asking' /\ ~fresh'
       /\ UNCHANGED <<torn, last, held, answer>>

Type == /\ fresh' = asking
        /\ torn' \in {torn, asking}
        /\ UNCHANGED <<asking, answer>>

AskAgain == /\ asking /\ fresh
            /\ torn \/ (last.escaped /\ last.key \notin Named)
            /\ ~asking' /\ ~fresh' /\ ~torn'
            /\ UNCHANGED <<last, held, answer>>

Kind == IF last.escaped \/ last.key = "0e" THEN "special" ELSE "ascii"

Answer ==
  /\ asking /\ fresh
  /\ ~asking' /\ ~fresh' /\ ~torn'
  /\ \/ torn
     \/ answer' = [kind |-> "scancode", sc |-> last, mods |-> {}, upper |-> FALSE]
     \/ /\ ~last.escaped \/ last.key \in Named
        /\ answer' = [kind |-> Kind, sc |-> last, mods |-> held,
                      upper |-> Kind = "ascii" /\ "shift" \in held]
  /\ UNCHANGED <<last, held>>

Next == Ask \/ Type \/ AskAgain \/ Answer

Spec == Init /\ [][Next]_vars

=============================================================================
