-------------------------------- MODULE Walk --------------------------------
(***************************************************************************)
(* What a path means, part by part: an empty part and "." stay where they  *)
(* are, ".." goes up (and stays at the root), a name goes down.            *)
(***************************************************************************)
EXTENDS Naturals, Sequences

CONSTANTS Names, Empty, Dot, DotDot

VARIABLES
  path,    \* the parts of the path
  seen,    \* how many of them were followed
  at       \* the names from the root to where they lead

vars == <<path, seen, at>>

Init == seen = 0 /\ at = <<>>

Up(s) == IF s = <<>> THEN s ELSE SubSeq(s, 1, Len(s) - 1)

Follow(n) ==
  at' = CASE n \in {Empty, Dot} -> at
          [] n = DotDot         -> Up(at)
          [] OTHER              -> Append(at, n)

Next ==
  /\ seen < Len(path)
  /\ seen' = seen + 1
  /\ Follow(path[seen + 1])
  /\ UNCHANGED path

Spec == Init /\ [][Next]_vars

=============================================================================
