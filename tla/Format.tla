------------------------------- MODULE Format -------------------------------
(***************************************************************************)
(* vsnprintf of ksrc/string.c, which makes the text of every kprintf and   *)
(* panicf: one directive of the format a step, into a buffer of len.       *)
(*                                                                         *)
(* A directive is an ordinary character, %s, %c, %d or %x with its         *)
(* argument, a text or a number, or one vsnprintf does not know.           *)
(***************************************************************************)
EXTENDS Integers, Sequences

CONSTANTS
  IntMax,    \* the greatest int
  Formats,   \* sequences of directives
  Lens,      \* sizes of the buffer
  Places     \* digits of the longest number

Ints  == -IntMax - 1 .. IntMax
Uints == 0 .. 2 * IntMax + 1

\* Characters by their codes.
Digit(d) == IF d < 10 THEN 48 + d ELSE 87 + d
Minus    == 45

IsDirective(d) ==
  /\ d.kind \in {"letter", "s", "c", "d", "x", "unknown"} /\ d.text \in Seq(Int)
  /\ d.kind \in {"letter", "c"} => Len(d.text) = 1
  /\ d.kind = "d" => d.number \in Ints
  /\ d.kind = "x" => d.number \in Uints

ASSUME FormatAssumption ==
  /\ IntMax \in Nat \ {0} /\ Places \in Nat \ {0} /\ Lens \subseteq Nat \ {0}
  /\ \A f \in Formats : /\ Len(f) \in Nat /\ DOMAIN f = 1 .. Len(f)
                        /\ \A k \in DOMAIN f : IsDirective(f[k])

VARIABLES
  fmt,    \* the format
  fmt_i,  \* the directives of it that are done
  buflen, str, format_pc
formatVars == <<fmt, fmt_i, buflen, str, format_pc>>

FormatInit ==
  /\ fmt \in Formats /\ fmt_i = 0 /\ buflen \in Lens
  /\ str = << >> /\ format_pc = "format"

\* The remainder of a C division, of the dividend's sign, and the quotient.
Rem(n, d)  == IF n < 0 THEN -((-n) % d) ELSE n % d
Quot(n, d) == IF n < 0 THEN -((-n) \div d) ELSE n \div d
Negated(n) == IF n = -IntMax - 1 THEN n ELSE -n

\* tmp, with its last digit first, read from its end.
Digits(n, base) ==
  LET tmp[m \in Ints \cup Uints] ==
        IF Quot(m, base) = 0 THEN <<Digit(Rem(m, base))>>
                             ELSE Append(tmp[Quot(m, base)], Digit(Rem(m, base)))
  IN  tmp[n]

\* As much of s as goes in front of the last byte.
\* Mutant: the last byte is written too.
RoomAll == buflen - Len(str)
Room == buflen - 1 - Len(str)
Fitting(s) == SubSeq(s, 1, IF Len(s) =< Room THEN Len(s) ELSE Room)

\* A minus is written like an ordinary character, without another test.
Written(d) ==
  str \o CASE d.kind \in {"letter", "c"} -> d.text
           [] d.kind = "s" -> Fitting(d.text)
           [] d.kind = "x" -> Fitting(Digits(d.number, 16))
           [] d.kind = "d" ->
                IF d.number < 0
                THEN Fitting(<<Minus>> \o Digits(Negated(d.number), 10))
                ELSE Fitting(Digits(d.number, 10))

Directive ==
  /\ format_pc = "format" /\ fmt_i < Len(fmt) /\ Room > 0
  /\ fmt[fmt_i + 1].kind # "unknown"
  /\ str' = Written(fmt[fmt_i + 1])
  /\ fmt_i' = fmt_i + 1
  /\ UNCHANGED <<fmt, buflen, format_pc>>

\* panicf, which formats in turn and stops.
UnknownDirective ==
  /\ format_pc = "format" /\ fmt_i < Len(fmt) /\ Room > 0
  /\ fmt[fmt_i + 1].kind = "unknown"
  /\ format_pc' = "panic"
  /\ UNCHANGED <<fmt, fmt_i, buflen, str>>

Done ==
  /\ format_pc = "format" /\ (fmt_i = Len(fmt) \/ Room = 0)
  /\ format_pc' = "done"
  /\ UNCHANGED <<fmt, fmt_i, buflen, str>>

FormatNext == Directive \/ UnknownDirective \/ Done

FormatSpec == FormatInit /\ [][FormatNext]_formatVars

-----------------------------------------------------------------------------
\* The numeral of n: the digits without a leading zero whose value it is.
Value(s, base) ==
  LET v[k \in 0 .. Len(s)] == IF k = 0 THEN 0 ELSE v[k - 1] * base + s[k] IN v[Len(s)]
Strings(base) == UNION {[1 .. k -> 0 .. base - 1] : k \in 1 .. Places}
IsNumeral(s, n, base) == Value(s, base) = n /\ (Len(s) > 1 => s[1] # 0)

\* Places are enough.
ASSUME PlacesAssumption ==
  \A n \in Uints : \A base \in {10, 16} : \E s \in Strings(base) : IsNumeral(s, n, base)

Numeral(n, base) ==
  LET s == CHOOSE s \in Strings(base) : IsNumeral(s, n, base)
  IN  [k \in DOMAIN s |-> Digit(s[k])]
Decimals == [n \in 0 .. IntMax |-> Numeral(n, 10)]
Hexadecimals == [n \in Uints |-> Numeral(n, 16)]

\* What a directive says, and the first k of ds.
Text(d) ==
  CASE d.kind = "x" -> Hexadecimals[d.number]
    [] d.kind = "d" -> IF d.number < 0 THEN <<Minus>> \o Decimals[-d.number] ELSE Decimals[d.number]
    [] OTHER -> d.text
TextTo(ds, k) ==
  LET t[j \in 0 .. Len(ds)] == IF j = 0 THEN << >> ELSE t[j - 1] \o Text(ds[j]) IN t[k]

\* What of it goes in front of the last byte.
Cut(t) == SubSeq(t, 1, IF Len(t) < buflen THEN Len(t) ELSE buflen - 1)

IsLeast(d) == d.kind = "d" /\ d.number < -IntMax
HasLeast == \E k \in DOMAIN fmt : IsLeast(fmt[k])

\* The buffer ends up holding as much of the text as goes in front of its last
\* byte, for every number but the least int, whose opposite is itself.
CutsText == format_pc = "done" /\ ~HasLeast => str = Cut(TextTo(fmt, Len(fmt)))

\* Nothing is written behind the buffer, the zero at its end included, though
\* only some directives test for room.
StaysInside == Len(str) < buflen

\* The machine stops over an unknown directive only if the text in front of it
\* leaves room: a longer prefix hides it.
PanicsInRoom ==
  format_pc = "panic" => \E k \in DOMAIN fmt :
    /\ fmt[k].kind = "unknown"
    /\ \A j \in 1 .. k - 1 : fmt[j].kind # "unknown"
    /\ ~HasLeast => Len(TextTo(fmt, k - 1)) < buflen - 1

\* A message is its text, cut where the buffer ends, or a panic over a directive that
\* nothing in front of it hides (ksrc/string.c:120-202).
MessageFits == CutsText /\ StaysInside /\ PanicsInRoom

=============================================================================
