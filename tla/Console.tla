------------------------------ MODULE Console ------------------------------
(***************************************************************************)
(* The text console of ksrc/console.c: kprintc, one character per step,    *)
(* and the operations on the cursor.                                       *)
(*                                                                         *)
(* A print that faults on its string is given up between two characters,   *)
(* and the trap handler prints next: to the console that is a print that   *)
(* goes on, with the cursor where it is.                                   *)
(***************************************************************************)
EXTENDS Integers

CONSTANTS
  width, height,
  Word,        \* an unsigned int counts up to Word - 1
  Letters,     \* the characters that are no newline
  Blank,       \* the zero byte of an empty cell
  Far          \* how far, in either direction, the cursor is moved at once

ASSUME ScreenAssumption == width \in Nat \ {0} /\ height \in Nat \ {0}
\* A row is far shorter than what an unsigned int counts, and so is every move.
ASSUME WordAssumption   == Word \in Nat /\ Far \in Nat /\ width <= Word /\ Far <= Word
\* The zero byte ends a string, kprintc never writes it.
ASSUME LettersAssumption == Blank \notin Letters /\ "\n" \notin Letters

VARIABLES
  col, row,
  vram,        \* the characters of the cells
  cursor,      \* the position the video hardware was told
  printing,    \* kprintc runs
  moved        \* history: the cursor was moved, or the screen cleared

consoleVars == <<col, row, vram, cursor, printing, moved>>

Newline == "\n"
Cells   == 0 .. width * height - 1
Last    == (height - 1) * width    \* the first cell of the last row
Place   == row * width + col

ConsoleInit ==
  /\ col = 0 /\ row = 0 /\ cursor = 0 /\ printing = FALSE /\ moved = FALSE
  /\ vram \in [Cells -> {Blank}]

Begin ==
  /\ ~printing
  /\ printing' = TRUE
  /\ UNCHANGED <<col, row, vram, cursor, moved>>

-----------------------------------------------------------------------------
\* Where the cursor is after a character, before the screen is scrolled.
NextRow(c) == IF c = Newline \/ col + 1 = width THEN row + 1 ELSE row
NextCol(c) == IF c = Newline \/ col + 1 = width THEN 0 ELSE col + 1

Written(c) == IF c = Newline THEN vram ELSE [vram EXCEPT ![Place] = c]

\* Mutant: the last row keeps what it was.
ScrolledKeepsLast(v) == [k \in Cells |-> IF k < Last THEN v[k + width] ELSE v[k]]
Scrolled(v) == [k \in Cells |-> IF k < Last THEN v[k + width] ELSE Blank]

\* Mutant: the cursor stays behind the last row.
RowScrolledOff(r) == r
RowScrolled(r)    == IF r = height THEN height - 1 ELSE r

Char(c) ==
  /\ printing
  /\ vram' = IF NextRow(c) = height THEN Scrolled(Written(c)) ELSE Written(c)
  /\ row' = RowScrolled(NextRow(c))
  /\ col' = NextCol(c)
  /\ UNCHANGED <<cursor, printing, moved>>

Finish ==
  /\ printing
  /\ cursor' = Place
  /\ printing' = FALSE
  /\ UNCHANGED <<col, row, vram, moved>>

-----------------------------------------------------------------------------
\* An unsigned sum: negative ones wrap around. Mutant: it is not reduced.
SumOnly(a, b, n) == a + b
Sum(a, b, n)     == ((a + b) % Word) % n

Gotoxy(x, y) ==
  /\ ~printing
  /\ col' = x % width /\ row' = y % height
  /\ cursor' = row' * width + col'
  /\ moved' = TRUE
  /\ UNCHANGED <<vram, printing>>

Movexy(x, y) ==
  /\ ~printing
  /\ col' = Sum(col, x, width) /\ row' = Sum(row, y, height)
  /\ cursor' = row' * width + col'
  /\ moved' = TRUE
  /\ UNCHANGED <<vram, printing>>

\* The cursor stays where it is.
ClearScreen ==
  /\ ~printing
  /\ vram' = [k \in Cells |-> Blank]
  /\ moved' = TRUE
  /\ UNCHANGED <<col, row, cursor, printing>>

\* A negative offset is passed as the unsigned number of the same bits.
Shifts == (0 .. Far) \cup (Word - Far .. Word - 1)

ConsoleNext ==
  \/ Begin \/ Finish \/ ClearScreen
  \/ \E c \in Letters \cup {Newline} : Char(c)
  \/ \E x, y \in 0 .. Far : Gotoxy(x, y)
  \/ \E x, y \in Shifts : Movexy(x, y)

ConsoleSpec == ConsoleInit /\ [][ConsoleNext]_consoleVars

-----------------------------------------------------------------------------
ConsoleTypeOK ==
  /\ vram \in [Cells -> Letters \cup {Blank}]
  /\ cursor \in Cells
  /\ printing \in BOOLEAN /\ moved \in BOOLEAN

\* Each time a character is looked at, by whichever print, the cursor is on the
\* screen: the next cell written is one of it (ksrc/console.c:71-115).
OnScreen == col \in 0 .. width - 1 /\ row \in 0 .. height - 1

\* The blinking cursor is where the next print goes on (ksrc/console.c:50-60, 114).
CursorFollows == ~printing => cursor = Place

\* The characters of row r of the screen v.
Columns     == 0 .. width - 1
RowOf(v, r) == [k \in Columns |-> v[r * width + k]]

\* Every row is filled from the left, nothing is in column k of row r or behind it,
\* and nothing is missing before it.
FilledTo(v, r, k) ==
  /\ \A q \in 0 .. height - 1, j \in Columns :
       RowOf(v, q)[j] # Blank =>
         /\ q < r \/ (q = r /\ j < k)
         /\ \A i \in 0 .. j - 1 : RowOf(v, q)[i] # Blank
  /\ \A j \in 0 .. k - 1 : RowOf(v, r)[j] # Blank

\* As long as nothing but prints happens the screen is filled as far as the cursor
\* and no further, whatever is scrolled (ksrc/console.c:85-115).
FilledFromLeft == ~moved => FilledTo(vram, row, col)

\* The inductive invariant.
ConsoleInv == ConsoleTypeOK /\ OnScreen /\ CursorFollows /\ FilledFromLeft

\* A move to the left that stays in the row goes as far as it says; one that leaves
\* it comes back Word % width columns off, 16 of 80 (ksrc/console.c:78-83).
MovesExactly ==
  [][\A n \in 0 .. Far : Movexy(Word - n, 0) =>
       col' = IF n <= col THEN col - n
              ELSE (((col - n) % width) + (Word % width)) % width]_consoleVars

-----------------------------------------------------------------------------
\* What a row shows is what comes before its first empty cell.
ShowsFirst(s, n) == (\A j \in 0 .. n - 1 : s[j] # Blank) /\ (n < width => s[n] = Blank)
Filled(s)        == CHOOSE n \in 0 .. width : ShowsFirst(s, n)

LettersOf(s) == [k \in 1 .. Filled(s) |-> s[k - 1]]

LettersShown == [r \in 1 .. row + 1 |-> LettersOf(RowOf(vram, r - 1))]

Shown == INSTANCE Terminal WITH rows <- LettersShown

\* Until the cursor is first moved, characters and newlines come out as on
\* Terminal, scrolling and full rows included (ksrc/console.c:85-115).
ImplementsTerminal == Shown!Init /\ [][~moved' => Shown!Next]_LettersShown

=============================================================================
