------------------------------ MODULE Division ------------------------------
(***************************************************************************)
(* The 64-bit division of the user library, user/crt/csos.c: __divdi3,     *)
(* __moddi3, __udivdi3 and __umoddi3, which the compiler calls for / and   *)
(* % and which subtract in a loop.                                         *)
(*                                                                         *)
(* A signed value that overflows wraps around, as the build computes it.   *)
(***************************************************************************)
EXTENDS Integers

CONSTANT MaxSigned   \* the greatest signed value, 2^63 - 1

ASSUME MaxAssumption == MaxSigned \in Nat \ {0}

MinSigned == -MaxSigned - 1
Signed    == MinSigned .. MaxSigned
Unsigned  == 0 .. 2 * MaxSigned + 1

VARIABLES
  routine,       \* "div", "mod", "udiv", "umod"
  n, d,          \* the arguments
  numerator, denominator, result, sign,   \* the locals
  division_pc    \* "enter", "loop", "returned"

arguments == <<routine, n, d>>
divisionVars == <<arguments, numerator, denominator, result, sign, division_pc>>

HasSign == routine \in {"div", "mod"}

Wrapped(x) == CASE x > MaxSigned -> x - 2 * (MaxSigned + 1)
                [] x < MinSigned -> x + 2 * (MaxSigned + 1)
                [] OTHER         -> x
Opposite(x) == Wrapped(-x)

DivisionInit ==
  /\ routine \in {"div", "mod", "udiv", "umod"}
  /\ IF HasSign THEN n \in Signed /\ d \in Signed ELSE n \in Unsigned /\ d \in Unsigned
  /\ numerator = n /\ denominator = d /\ result = 0 /\ sign = 1
  /\ division_pc = "enter"

ByZero ==
  /\ division_pc = "enter" /\ d = 0
  /\ result' = 0 /\ numerator' = 0 /\ division_pc' = "returned"
  /\ UNCHANGED <<arguments, denominator, sign>>

Enter ==
  /\ division_pc = "enter" /\ d # 0
  /\ numerator'   = IF n < 0 THEN Opposite(n) ELSE n
  /\ denominator' = IF d < 0 THEN Opposite(d) ELSE d
  /\ sign' = IF (n < 0) = (d < 0) THEN 1 ELSE -1
  /\ division_pc' = "loop"
  /\ UNCHANGED <<arguments, result>>

\* Mutant: it goes on until both are equal.
GoesOnApart == numerator # denominator
GoesOn      == numerator > denominator

Subtract ==
  /\ division_pc = "loop" /\ GoesOn
  /\ numerator' = IF HasSign THEN Wrapped(numerator - denominator)
                  ELSE (numerator - denominator) % (2 * (MaxSigned + 1))
  /\ result' = Wrapped(result + 1)
  /\ UNCHANGED <<arguments, denominator, sign, division_pc>>

Leave ==
  /\ division_pc = "loop" /\ ~GoesOn
  /\ division_pc' = "returned"
  /\ UNCHANGED <<arguments, numerator, denominator, result, sign>>

DivisionNext == ByZero \/ Enter \/ Subtract \/ Leave

DivisionSpec == DivisionInit /\ [][DivisionNext]_divisionVars

Quotient == result * sign
Remainder     == numerator

-----------------------------------------------------------------------------
Abs(x) == IF x < 0 THEN -x ELSE x

\* Neither is the smallest value, and the quotient is a signed one.
Regular == n # MinSigned /\ d # MinSigned /\ n <= MaxSigned

\* A division that does not come out even returns the quotient that C means, rounded
\* towards 0 whatever the signs, and for a numerator that is not negative the rest
\* (user/crt/csos.c:8-78).  Nothing is said where the code differs from C: of even
\* divisions, where it stops one subtraction early, and of the rest of a negative
\* numerator, which has no sign (user/pdclib/functions/stdlib/lldiv.c:38-39).
DividesUneven ==
  LET q == Abs(n) \div Abs(d)
      r == Abs(n) % Abs(d)
  IN  division_pc = "returned" /\ Regular /\ d # 0 /\ (n = 0 \/ r # 0) =>
        /\ Quotient = (IF (n < 0) = (d < 0) THEN 1 ELSE -1) * q
        /\ n >= 0 => Remainder = r

=============================================================================
