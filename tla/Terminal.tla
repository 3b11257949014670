------------------------------ MODULE Terminal ------------------------------
(***************************************************************************)
(* What a print shows: rows of letters.  A newline begins a row, and so    *)
(* does the letter that fills one; of more rows than fit the first goes.   *)
(***************************************************************************)
EXTENDS Naturals, Sequences

CONSTANTS width, height, Letters

VARIABLE rows

Init == rows = << << >> >>

\* The rows with a new one behind them.
Begun(s) == IF Len(s) = height THEN Append(Tail(s), << >>) ELSE Append(s, << >>)

Put(c) ==
  LET s == [rows EXCEPT ![Len(rows)] = Append(@, c)]
  IN  rows' = IF Len(s[Len(s)]) = width THEN Begun(s) ELSE s

NewRow == rows' = Begun(rows)

Next == NewRow \/ \E c \in Letters : Put(c)

Spec == Init /\ [][Next]_rows

=============================================================================
