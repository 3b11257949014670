---------------------------- MODULE ProgramProofs ---------------------------
(***************************************************************************)
(* Proofs about what programs rely on: the 64-bit division of the runtime, *)
(* the heap of the C library, on this kernel and on a mended one, the      *)
(* system call that writes, and the formatting of the kernel's messages,   *)
(* for every value of the constants.                                       *)
(***************************************************************************)
EXTENDS Division, UserHeap, Write, Format, Quotients, SequenceTheorems, FiniteSetTheorems,
        TLAPS

-----------------------------------------------------------------------------
\* Division.

\* A product is no less than its first factor.
LEMMA Grows == ASSUME NEW a \in Nat, NEW b \in Nat \ {0} PROVE a * b >= a
<1>1. a * b = a * (b - 1) + a
  BY SMT
<1>2. a * (b - 1) \in Nat
  BY SMT
<1>3. QED BY <1>1, <1>2

DivisionTypeOK ==
  /\ routine \in {"div", "mod", "udiv", "umod"}
  /\ IF HasSign THEN n \in Signed /\ d \in Signed ELSE n \in Unsigned /\ d \in Unsigned
  /\ sign \in {1, -1}
  /\ division_pc \in {"enter", "loop", "returned"}

\* What was subtracted and what is left make up the numerator.
Accounts ==
  Regular /\ d # 0 /\ division_pc # "enter" =>
    /\ denominator = Abs(d)
    /\ numerator \in 0 .. MaxSigned /\ result \in 0 .. MaxSigned
    /\ result * denominator + numerator = Abs(n)
    /\ result > 0 => numerator > 0
    /\ sign = IF (n < 0) = (d < 0) THEN 1 ELSE -1
    /\ division_pc = "returned" => numerator <= denominator

Entered == division_pc = "enter" => numerator = n /\ denominator = d /\ result = 0 /\ sign = 1

\* The inductive invariant.
DivisionInv == DivisionTypeOK /\ Entered /\ Accounts

LEMMA DivisionInitInv == DivisionInit => DivisionInv
BY DEF DivisionInit, DivisionInv, DivisionTypeOK, Entered, Accounts

\* Every step keeps DivisionInv: no value of a division with regular arguments overflows.
LEMMA DivisionStepInv == DivisionInv /\ [DivisionNext]_divisionVars => DivisionInv'
<1> SUFFICES ASSUME DivisionInv, [DivisionNext]_divisionVars PROVE DivisionInv'
  OBVIOUS
<1> USE MaxAssumption DEF DivisionInv, arguments
<1>1. CASE ByZero
  BY <1>1 DEF ByZero, DivisionTypeOK, Entered, Accounts, HasSign, Regular
<1>2. CASE Enter
  <2>1. DivisionTypeOK' /\ Entered'
    BY <1>2 DEF Enter, DivisionTypeOK, Entered, HasSign
  <2>2. Accounts'
    <3> SUFFICES ASSUME Regular' /\ d' # 0 PROVE Accounts'
      BY DEF Accounts
    <3>1. Regular /\ n' = n /\ d' = d /\ n \in Int /\ d \in Int /\ -MaxSigned <= n /\ -MaxSigned <= d /\ n <= MaxSigned
      BY <1>2 DEF Enter, Regular, DivisionTypeOK, HasSign, Signed, Unsigned, MinSigned
    <3>2. numerator' = Abs(n) /\ denominator' = Abs(d) /\ result' = 0
      <4>1. n < 0 => Opposite(n) = -n
        BY <3>1 DEF Opposite, Wrapped, MinSigned
      <4>2. d < 0 => Opposite(d) = -d
        BY <3>1 DEF Opposite, Wrapped, MinSigned
      <4>3. QED
        BY <1>2, <4>1, <4>2 DEF Enter, Entered, Abs
    <3>3. Abs(n) \in 0 .. MaxSigned
      BY <3>1 DEF Abs
    <3>4. result' * denominator' = 0
      BY <3>1, <3>2 DEF Abs
    <3>5. QED
      BY <1>2, <3>1, <3>2, <3>3, <3>4 DEF Enter, Accounts, Abs
  <2>3. QED BY <2>1, <2>2
<1>3. CASE Subtract
  <2>1. DivisionTypeOK' /\ Entered'
    BY <1>3 DEF Subtract, DivisionTypeOK, Entered, HasSign
  <2>2. Accounts'
    <3> SUFFICES ASSUME Regular' /\ d' # 0 PROVE Accounts'
      BY DEF Accounts
    <3>1. Regular /\ n' = n /\ d' = d /\ division_pc = "loop" /\ d # 0 /\ d \in Int /\ n \in Int
      BY <1>3 DEF Subtract, Regular, DivisionTypeOK, HasSign, Signed, Unsigned
    <3>2. /\ denominator = Abs(d) /\ denominator \in Nat \ {0}
          /\ numerator \in 0 .. MaxSigned /\ result \in 0 .. MaxSigned
          /\ result * denominator + numerator = Abs(n)
          /\ sign = IF (n < 0) = (d < 0) THEN 1 ELSE -1
      BY <3>1 DEF Accounts, Abs
    <3>3. Abs(n) \in 0 .. MaxSigned
      BY <3>1 DEF Regular, Abs, DivisionTypeOK, Signed, Unsigned, MinSigned
    <3>4. numerator > denominator
      BY <1>3 DEF Subtract, GoesOn
    <3>5. result + 1 <= MaxSigned
      <4>1. result \in Nat /\ denominator \in Nat \ {0}
        BY <3>2
      <4> HIDE DEF DivisionInv
      <4>2. result * denominator >= result
        BY <4>1, Grows
      <4>3. QED BY <3>2, <3>3, <3>4, <4>2
    <3>6. result' = result + 1
      BY <1>3, <3>2, <3>5 DEF Subtract, Wrapped, MinSigned
    <3>7. numerator' = numerator - denominator
      BY <1>3, <3>2, <3>4 DEF Subtract, Wrapped, MinSigned
    <3>8. result' * denominator + numerator' = Abs(n)
      <4>1. (result + 1) * denominator = result * denominator + denominator
        BY <3>2, SMT
      <4>2. QED BY <3>2, <3>6, <3>7, <4>1
    <3>9. denominator' = denominator /\ sign' = sign /\ division_pc' = division_pc
      BY <1>3 DEF Subtract
    <3>10. numerator' \in 1 .. MaxSigned /\ result' \in 0 .. MaxSigned
      BY <3>2, <3>4, <3>5, <3>6, <3>7
    <3>11. QED
      BY <3>1, <3>2, <3>8, <3>9, <3>10 DEF Accounts
  <2>3. QED BY <2>1, <2>2
<1>4. CASE Leave
  <2>1. DivisionTypeOK' /\ Entered'
    BY <1>4 DEF Leave, DivisionTypeOK, Entered, HasSign
  <2>2. Accounts'
    <3>1. Regular' => Regular
      BY <1>4 DEF Leave, Regular
    <3>2. Regular /\ d # 0 => numerator <= denominator
      <4> SUFFICES ASSUME Regular, d # 0 PROVE numerator <= denominator
        OBVIOUS
      <4>1. numerator \in Int /\ denominator \in Int
        BY <1>4 DEF Leave, Accounts, Abs, DivisionTypeOK, Regular, HasSign, Signed, Unsigned
      <4>2. QED BY <1>4, <4>1 DEF Leave, GoesOn
    <3>3. QED BY <1>4, <3>1, <3>2 DEF Leave, Accounts
  <2>3. QED BY <2>1, <2>2
<1>5. CASE UNCHANGED divisionVars
  BY <1>5 DEF divisionVars, DivisionTypeOK, Entered, Accounts, HasSign, Regular
<1>6. QED
  BY <1>1, <1>2, <1>3, <1>4, <1>5 DEF DivisionNext

\* In every division of regular values the quotient and what is left make up the
\* numerator, for every size of the values.
THEOREM DivisionInvariant == DivisionSpec => []DivisionInv
BY DivisionInitInv, DivisionStepInv, PTL DEF DivisionSpec

\* A number is its quotient by another times that plus the rest, uniquely.
LEMMA Unique ==
  ASSUME NEW a \in Nat, NEW b \in Nat \ {0}, NEW q \in Nat, NEW r \in 0 .. b - 1,
         q * b + r = a
  PROVE  a \div b = q /\ a % b = r
<1>1. a \div b \in Nat /\ a % b \in 0 .. b - 1 /\ a = b * (a \div b) + (a % b)
  BY SMT
<1> DEFINE p == a \div b
           s == a % b
<1>2. q * b + r = p * b + s
  BY <1>1, SMT
<1> HIDE DEF p, s
<1>3. ~(q < p)
  <2> SUFFICES ASSUME q < p PROVE FALSE
    OBVIOUS
  <2>1. (p - q) * b >= b
    BY <1>1, SMT DEF p
  <2>2. QED BY <1>1, <1>2, <2>1, SMT DEF p, s
<1>4. ~(p < q)
  <2> SUFFICES ASSUME p < q PROVE FALSE
    OBVIOUS
  <2>1. (q - p) * b >= b
    BY <1>1, SMT DEF p
  <2>2. QED BY <1>1, <1>2, <2>1, SMT DEF p, s
<1>5. p = q
  BY <1>1, <1>3, <1>4 DEF p
<1>6. QED
  BY <1>1, <1>2, <1>5 DEF p, s

\* For every size of the values, a division that does not come out even returns the
\* quotient whatever the signs, and the rest of a numerator that is not negative
\* (user/crt/csos.c:8-78).
THEOREM Divides == DivisionSpec => []DividesUneven
<1>1. DivisionInv => DividesUneven
  <2> DEFINE s == IF (n < 0) = (d < 0) THEN 1 ELSE -1
  <2> SUFFICES ASSUME DivisionInv, division_pc = "returned", Regular, d # 0,
                      n = 0 \/ Abs(n) % Abs(d) # 0
               PROVE  /\ Quotient = s * (Abs(n) \div Abs(d))
                      /\ Remainder = Abs(n) % Abs(d)
    BY DEF DividesUneven
  <2>1. n \in Int /\ d \in Int /\ Abs(n) \in Nat /\ Abs(d) \in Nat \ {0}
    BY MaxAssumption DEF DivisionInv, DivisionTypeOK, HasSign, Signed, Unsigned, MinSigned, Abs
  <2>2. /\ numerator \in Nat /\ result \in Nat
        /\ result * Abs(d) + numerator = Abs(n)
        /\ result > 0 => numerator > 0
        /\ sign = s /\ numerator <= Abs(d)
    BY <2>1 DEF DivisionInv, Accounts
  <2>3. result * s = s * result /\ s \in {1, -1}
    BY <2>2
  <2>4. CASE numerator < Abs(d)
    <3>1. Abs(n) \div Abs(d) = result /\ Abs(n) % Abs(d) = numerator
      <4>1. numerator \in 0 .. Abs(d) - 1
        BY <2>1, <2>2, <2>4
      <4>2. QED BY <2>1, <2>2, <4>1, Unique
    <3>2. QED BY <2>2, <2>3, <3>1 DEF Quotient, Remainder
  <2>5. CASE numerator = Abs(d)
    <3>1. (result + 1) * Abs(d) + 0 = Abs(n) /\ 0 \in 0 .. Abs(d) - 1
      BY <2>1, <2>2, <2>5, SMT
    <3>2. Abs(n) \div Abs(d) = result + 1 /\ Abs(n) % Abs(d) = 0
      <4>1. Abs(n) \in Nat /\ Abs(d) \in Nat \ {0} /\ result + 1 \in Nat
        BY <2>1, <2>2
      <4>2. QED BY <3>1, <4>1, Unique, Zenon
    <3>3. n # 0
      <4>1. result * Abs(d) \in Nat
        BY <2>1, <2>2, SMT
      <4>2. QED BY <2>1, <2>2, <2>5, <4>1 DEF Abs
    <3>4. QED BY <3>2, <3>3
  <2>6. QED BY <2>1, <2>2, <2>4, <2>5
<1>2. QED
  BY DivisionInvariant, <1>1, PTL

-----------------------------------------------------------------------------
\* The heap of the C library.

LEMMA WantedSize == ASSUME NEW request \in Requests
                    PROVE  Wanted(request) \in Nat
  BY UserHeapAssumption DEF Wanted

\* Being apart has no direction.
LEMMA ApartSymmetric ==
  ASSUME NEW m \in Node, NEW o \in Node, Apart(m, o)
  PROVE  Apart(o, m)
  BY DEF Apart

\* A node is never apart from itself: its header is in it.
LEMMA ApartDiffer ==
  ASSUME NEW m \in Node
  PROVE  ~Apart(m, m)
  BY UserHeapAssumption DEF Apart, Node

\* A sequence without one of its elements.
LEMMA WithoutElements ==
  ASSUME list \in Seq(Node), NEW k \in DOMAIN list
  PROVE  /\ Without(k) \in Seq(Node)
         /\ Len(Without(k)) = Len(list) - 1
         /\ \A i \in DOMAIN Without(k) :
              Without(k)[i] = IF i < k THEN list[i] ELSE list[i + 1]
  <1> DEFINE A == SubSeq(list, 1, k - 1)
             B == SubSeq(list, k + 1, Len(list))
  <1>1. k \in 1 .. Len(list)
    OBVIOUS
  <1>2. A \in Seq(Node) /\ Len(A) = k - 1
    BY <1>1
  <1>3. B \in Seq(Node) /\ Len(B) = Len(list) - k
    BY <1>1
  <1>4. \A i \in 1 .. k - 1 : A[i] = list[i]
    BY <1>1
  <1>5. \A i \in 1 .. Len(list) - k : B[i] = list[k + i]
    BY <1>1
  <1> HIDE DEF A, B
  <1>6. Without(k) = A \o B
    BY DEF Without, A, B
  <1>7. A \o B \in Seq(Node) /\ Len(A \o B) = Len(list) - 1
    BY <1>1, <1>2, <1>3
  <1>8. ASSUME NEW i \in 1 .. Len(list) - 1
        PROVE  (A \o B)[i] = IF i < k THEN list[i] ELSE list[i + 1]
    <2>0. /\ i \in 1 .. Len(A) + Len(B)
          /\ (A \o B)[i] = IF i <= Len(A) THEN A[i] ELSE B[i - Len(A)]
      BY <1>1, <1>2, <1>3, ConcatProperties, SMTT(20)
    <2>1. CASE i < k
      BY <2>0, <2>1, <1>1, <1>2, <1>4
    <2>2. CASE i >= k
      <3>1. i - (k - 1) \in 1 .. Len(list) - k
        BY <2>2, <1>1
      <3>2. (A \o B)[i] = B[i - (k - 1)]
        BY <2>2, <2>0, <1>1, <1>2, <1>3
      <3>3. B[i - (k - 1)] = list[k + (i - (k - 1))]
        BY <3>1, <1>5
      <3>4. k + (i - (k - 1)) = i + 1
        BY <1>1
      <3>5. (A \o B)[i] = list[i + 1]
        BY <3>2, <3>3, <3>4
      <3>6. ~(i < k)
        BY <2>2, <1>1
      <3> QED BY <3>5, <3>6
    <2>3. i < k \/ i >= k
      BY <1>1
    <2> QED BY <2>1, <2>2, <2>3
  <1>9. DOMAIN (A \o B) = 1 .. Len(list) - 1
    BY <1>7
  <1> QED BY <1>6, <1>7, <1>8, <1>9, Zenon

\* A sequence cut behind memlist.last, and one more node.
LEMMA Appended ==
  ASSUME list \in Seq(Node), last \in 0 .. Len(list), NEW node \in Node,
         NEW l, l = Append(SubSeq(list, 1, last), node)
  PROVE  /\ l \in Seq(Node)
         /\ Len(l) = last + 1
         /\ \A i \in 1 .. last : l[i] = list[i]
         /\ l[last + 1] = node
  <1> DEFINE A == SubSeq(list, 1, last)
  <1>1. A \in Seq(Node) /\ Len(A) = last /\ \A i \in 1 .. last : A[i] = list[i]
    OBVIOUS
  <1> HIDE DEF A
  <1>2. l = Append(A, node)
    BY DEF A
  <1> QED BY <1>1, <1>2

-----------------------------------------------------------------------------
\* Taking a whole node keeps everything apart.
LEMMA TakeWholeSound ==
  ASSUME UserHeapInv, NEW k \in DOMAIN list, TakeWhole(k)
  PROVE  /\ list' \in Seq(Node) /\ last' \in 0 .. Len(list')
         /\ blocks' \subseteq Node /\ lost' \subseteq Node
         /\ blocks' \cap lost' = {}
         /\ Within(list', Off', Top')
         /\ Separate(list', Off')
  <1> DEFINE old(i) == IF i < k THEN i ELSE i + 1
  <1> USE DEF UserHeapInv, UserHeapTypeOK
  <1>1. k \in 1 .. Len(list) /\ list[k] \in Node
    OBVIOUS
  <1>2. /\ list' \in Seq(Node)
        /\ Len(list') = Len(list) - 1
        /\ \A i \in DOMAIN list' : list'[i] = list[old(i)]
    BY WithoutElements DEF TakeWhole
  <1>3. \A i \in DOMAIN list' : old(i) \in DOMAIN list /\ old(i) # k
    BY <1>1, <1>2
  <1>4. \A i, j \in DOMAIN list' : i # j => old(i) # old(j)
    BY <1>1, <1>2
  <1> HIDE DEF old
  <1>5. last' \in 0 .. Len(list')
    BY <1>1, <1>2 DEF TakeWhole, LastWithout, Shifted
  <1>6. Off' = Off \cup {list[k]} /\ Top' = Top
    BY DEF TakeWhole, Off, Top
  <1>7. Off \subseteq Node
    BY DEF Off
  <1>8. list[k] \notin Off
    BY <1>1, <1>7, ApartDiffer DEF Separate
  <1>9. blocks' \subseteq Node /\ lost' \subseteq Node /\ blocks' \cap lost' = {}
    BY <1>1, <1>8 DEF TakeWhole, Off
  <1>10. Within(list', Off', Top')
    BY <1>1, <1>2, <1>3, <1>6 DEF Within
  <1>11. \A i, j \in DOMAIN list' : i # j => Apart(list'[i], list'[j])
    BY <1>2, <1>3, <1>4 DEF Separate
  <1>12. \A m \in Off', i \in DOMAIN list' : Apart(m, list'[i])
    BY <1>1, <1>2, <1>3, <1>6 DEF Separate
  <1>13. \A m, o \in Off' : m # o => Apart(m, o)
    BY <1>1, <1>6, <1>7, ApartSymmetric DEF Separate
  <1> QED BY <1>2, <1>5, <1>9, <1>10, <1>11, <1>12, <1>13 DEF Separate

\* Splitting a node keeps everything apart: block and rest share the node.
LEMMA TakePartSound ==
  ASSUME UserHeapInv, NEW k \in DOMAIN list, NEW size \in Nat,
         list[k].size - size > MinAlloc, TakePart(k, size)
  PROVE  /\ list' \in Seq(Node) /\ last' \in 0 .. Len(list')
         /\ blocks' \subseteq Node /\ lost' \subseteq Node
         /\ blocks' \cap lost' = {}
         /\ Within(list', Off', Top')
         /\ Separate(list', Off')
  <1> DEFINE node  == list[k]
             rest  == [at |-> node.at + Header + size, size |-> node.size - size - Header]
             block == [at |-> node.at, size |-> size]
  <1>0. /\ list \in Seq(Node) /\ last \in 0 .. Len(list)
        /\ blocks \subseteq Node /\ lost \subseteq Node /\ blocks \cap lost = {}
        /\ pages \in Nat
        /\ Within(list, Off, Top) /\ Separate(list, Off)
    BY DEF UserHeapInv, UserHeapTypeOK
  <1>1. k \in 1 .. Len(list) /\ node \in Node
    BY <1>0
  <1>2. node.at \in Nat /\ node.size \in Nat
    BY <1>1 DEF Node
  <1>a. /\ node.size - size > MinAlloc
        /\ MinAlloc \in Nat /\ Header \in Nat /\ MinAlloc >= Header /\ ProgramEnd \in Nat
    BY UserHeapAssumption
  <1>3. rest \in Node /\ block \in Node
    <2>1. node.at + Header + size \in Nat /\ node.size - size - Header \in Nat
      <3> HIDE DEF node
      <3> QED BY <1>2, <1>a
    <2> QED BY <1>2, <2>1 DEF Node
  <1>5. list' = [list EXCEPT ![k] = rest] /\ blocks' = blocks \cup {block}
    BY DEF TakePart, Rest
  <1>r. /\ rest.at = node.at + Header + size /\ rest.size = node.size - size - Header
        /\ block.at = node.at /\ block.size = size
    OBVIOUS
  <1> HIDE DEF rest, block
  <1>6. Apart(block, rest)
    BY <1>2, <1>r, <1>a DEF Apart
  <1>7. ASSUME NEW m \in Node, Apart(m, node) \/ Apart(node, m)
        PROVE  /\ Apart(m, rest) /\ Apart(rest, m)
               /\ Apart(m, block) /\ Apart(block, m)
    <2>1. m.at \in Nat /\ m.size \in Nat
      BY DEF Node
    <2> HIDE DEF node
    <2>3. CASE m.at + Header + m.size =< node.at
      BY <1>2, <1>a, <2>1, <1>r, <2>3 DEF Apart
    <2>4. CASE node.at + Header + node.size =< m.at
      BY <1>2, <1>a, <2>1, <1>r, <2>4 DEF Apart
    <2>5. m.at + Header + m.size =< node.at \/ node.at + Header + node.size =< m.at
      BY <1>7 DEF Apart
    <2> QED BY <2>3, <2>4, <2>5
  <1>8. /\ ProgramEnd =< node.at /\ node.at + Header + node.size =< Top
    BY <1>0, <1>1 DEF Within
  <1>9. /\ ProgramEnd =< rest.at /\ rest.at + Header + rest.size =< Top
        /\ ProgramEnd =< block.at /\ block.at + Header + block.size =< Top
    <2>1. Top \in Nat
      BY <1>0, UserHeapAssumption DEF Top
    <2> HIDE DEF node
    <2> QED BY <1>2, <1>8, <1>r, <1>a, <2>1
  <1>10. Off \subseteq Node
    BY <1>0 DEF Off
  <1>11. /\ list' \in Seq(Node) /\ Len(list') = Len(list) /\ list'[k] = rest
         /\ \A i \in DOMAIN list' : i # k => list'[i] = list[i] /\ list[i] \in Node
    BY <1>0, <1>1, <1>3, <1>5
  <1>12. last' \in 0 .. Len(list')
    BY <1>0, <1>1, <1>11 DEF TakePart, LastWithout
  <1>13. Off' = Off \cup {block} /\ Top' = Top
    BY <1>5 DEF TakePart, Off, Top
  <1>14. block \notin Off
    <2>1. SUFFICES ASSUME block \in Off PROVE FALSE
      OBVIOUS
    <2>2. Apart(block, node)
      BY <1>0, <2>1 DEF Separate
    <2>3. Apart(block, block)
      BY <2>2, <1>3, <1>7
    <2> QED BY <2>3, <1>3, ApartDiffer
  <1>15. blocks' \subseteq Node /\ lost' \subseteq Node /\ blocks' \cap lost' = {}
    BY <1>0, <1>3, <1>5, <1>14 DEF TakePart, Off
  <1>16. Within(list', Off', Top')
    BY <1>0, <1>9, <1>11, <1>13 DEF Within
  <1>17. \A i, j \in DOMAIN list' : i # j => Apart(list'[i], list'[j])
    <2>1. SUFFICES ASSUME NEW i \in DOMAIN list', NEW j \in DOMAIN list', i # j
                   PROVE  Apart(list'[i], list'[j])
      OBVIOUS
    <2>2. Apart(list[i], list[j])
      BY <1>0, <2>1, <1>11 DEF Separate
    <2>3. CASE i = k
      BY <2>1, <2>2, <2>3, <1>7, <1>11
    <2>4. CASE j = k
      BY <2>1, <2>2, <2>4, <1>7, <1>11
    <2>5. CASE i # k /\ j # k
      BY <2>2, <2>5, <1>11
    <2> QED BY <2>3, <2>4, <2>5
  <1>18. \A m \in Off', i \in DOMAIN list' : Apart(m, list'[i])
    <2>1. SUFFICES ASSUME NEW m \in Off', NEW i \in DOMAIN list'
                   PROVE  Apart(m, list'[i])
      OBVIOUS
    <2>2. CASE m = block /\ i = k
      BY <2>2, <1>6, <1>11
    <2>3. CASE m = block /\ i # k
      <3>1. Apart(list[i], node)
        BY <1>0, <2>3, <1>1, <1>11 DEF Separate
      <3> QED BY <3>1, <2>3, <1>7, <1>11
    <2>4. CASE m \in Off /\ i = k
      <3>1. Apart(m, node)
        BY <1>0, <2>4 DEF Separate
      <3> QED BY <3>1, <2>4, <1>7, <1>10, <1>11
    <2>5. CASE m \in Off /\ i # k
      BY <1>0, <2>5, <1>11 DEF Separate
    <2> QED BY <2>2, <2>3, <2>4, <2>5, <1>13
  <1>19. \A m, o \in Off' : m # o => Apart(m, o)
    <2>1. \A m \in Off : Apart(m, node)
      BY <1>0 DEF Separate
    <2>2. \A m \in Off : Apart(m, block) /\ Apart(block, m)
      BY <2>1, <1>7, <1>10
    <2> QED BY <1>0, <2>2, <1>13 DEF Separate
  <1> QED BY <1>11, <1>12, <1>15, <1>16, <1>17, <1>18, <1>19 DEF Separate

-----------------------------------------------------------------------------
\* Putting a node that is apart from everything behind memlist.last keeps
\* everything apart, the forgotten nodes included.
LEMMA PutSound ==
  ASSUME list \in Seq(Node), last \in 0 .. Len(list),
         NEW S, S \subseteq Node, NEW top \in Nat, NEW higher \in Nat, top =< higher,
         Within(list, S, top), Separate(list, S),
         NEW node \in Node,
         ProgramEnd =< node.at, node.at + Header + node.size =< higher,
         \A m \in S : Apart(m, node),
         \A k \in DOMAIN list : Apart(node, list[k]),
         NEW l, l = Append(SubSeq(list, 1, last), node),
         NEW T, T = S \cup {list[k] : k \in last + 1 .. Len(list)}
  PROVE  /\ l \in Seq(Node) /\ last + 1 \in 0 .. Len(l)
         /\ T \subseteq Node
         /\ Within(l, T, higher)
         /\ Separate(l, T)
  <1>1. /\ l \in Seq(Node) /\ Len(l) = last + 1
        /\ \A i \in 1 .. last : l[i] = list[i]
        /\ l[last + 1] = node
    BY Appended
  <1>2. \A i \in 1 .. last : i \in DOMAIN list /\ list[i] \in Node
    OBVIOUS
  <1>3. \A i \in DOMAIN l : i \in 1 .. last \/ i = last + 1
    BY <1>1
  <1>4. \A k \in last + 1 .. Len(list) : k \in DOMAIN list /\ list[k] \in Node /\ k \notin 1 .. last
    OBVIOUS
  <1>5. T \subseteq Node
    BY <1>4
  <1>6. \A m \in T : m \in S \/ \E k \in DOMAIN list : k \notin 1 .. last /\ m = list[k]
    BY <1>4
  <1>7. Within(l, T, higher)
    <2>1. \A m \in Node : m.at \in Nat /\ m.size \in Nat
      BY DEF Node
    <2>2. Header \in Nat
      BY UserHeapAssumption
    <2>3. ASSUME NEW i \in DOMAIN l
          PROVE  ProgramEnd =< l[i].at /\ l[i].at + Header + l[i].size =< higher
      <3>1. CASE i = last + 1
        BY <3>1, <1>1
      <3>2. CASE i \in 1 .. last
        <4>1. ProgramEnd =< list[i].at /\ list[i].at + Header + list[i].size =< top
          BY <3>2, <1>2 DEF Within
        <4>2. l[i] = list[i] /\ list[i] \in Node
          BY <3>2, <1>1, <1>2
        <4>3. l[i].at \in Nat /\ l[i].size \in Nat
          BY <4>2, <2>1
        <4> QED BY <4>1, <4>2, <4>3, <2>2
      <3> QED BY <3>1, <3>2, <1>3
    <2>4. ASSUME NEW m \in T
          PROVE  ProgramEnd =< m.at /\ m.at + Header + m.size =< higher
      <3>1. ProgramEnd =< m.at /\ m.at + Header + m.size =< top
        BY <1>6 DEF Within
      <3> QED BY <3>1, <1>5, <2>1, <2>2
    <2> QED BY <2>3, <2>4 DEF Within
  <1>8. ASSUME NEW i \in DOMAIN l, NEW j \in DOMAIN l, i # j
        PROVE  Apart(l[i], l[j])
    <2>1. CASE i \in 1 .. last /\ j \in 1 .. last
      BY <2>1, <1>1, <1>2, <1>8 DEF Separate
    <2>2. CASE i = last + 1 /\ j \in 1 .. last
      BY <2>2, <1>1, <1>2
    <2>3. CASE i \in 1 .. last /\ j = last + 1
      <3>1. Apart(node, list[i]) /\ list[i] \in Node
        BY <2>3, <1>2
      <3> QED BY <3>1, <2>3, <1>1, ApartSymmetric
    <2> QED BY <2>1, <2>2, <2>3, <1>3, <1>8
  <1>9. ASSUME NEW m \in T, NEW i \in DOMAIN l
        PROVE  Apart(m, l[i])
    <2>1. CASE m \in S /\ i = last + 1
      BY <2>1, <1>1
    <2>2. CASE m \in S /\ i \in 1 .. last
      BY <2>2, <1>1, <1>2 DEF Separate
    <2>3. CASE m \notin S
      <3>1. PICK k \in DOMAIN list : k \notin 1 .. last /\ m = list[k]
        BY <2>3, <1>6
      <3>2. CASE i = last + 1
        <4>1. Apart(node, m)
          BY <3>1
        <4> QED BY <4>1, <3>2, <1>1, <1>5, ApartSymmetric
      <3>3. CASE i \in 1 .. last
        BY <3>1, <3>3, <1>1, <1>2 DEF Separate
      <3> QED BY <3>2, <3>3, <1>3
    <2> QED BY <2>1, <2>2, <2>3, <1>3
  <1>10. ASSUME NEW m \in T, NEW o \in T, m # o
         PROVE  Apart(m, o)
    <2>1. CASE m \in S /\ o \in S
      BY <2>1, <1>10 DEF Separate
    <2>2. CASE m \in S /\ o \notin S
      BY <2>2, <1>6 DEF Separate
    <2>3. CASE m \notin S /\ o \in S
      <3>1. Apart(o, m)
        BY <2>3, <1>6 DEF Separate
      <3> QED BY <3>1, <1>5, ApartSymmetric
    <2>4. CASE m \notin S /\ o \notin S
      <3>1. PICK j \in DOMAIN list : m = list[j]
        BY <2>4, <1>6
      <3>2. PICK k \in DOMAIN list : o = list[k]
        BY <2>4, <1>6
      <3> QED BY <3>1, <3>2, <1>10 DEF Separate
    <2> QED BY <2>1, <2>2, <2>3, <2>4
  <1>11. Separate(l, T)
    BY <1>5, <1>8, <1>9, <1>10 DEF Separate
  <1> QED BY <1>1, <1>5, <1>7, <1>11

\* A free gives a block back to the list.
LEMMA FreeSound ==
  ASSUME UserHeapInv, NEW b \in blocks, Free(b)
  PROVE  /\ list' \in Seq(Node) /\ last' \in 0 .. Len(list')
         /\ blocks' \subseteq Node /\ lost' \subseteq Node
         /\ blocks' \cap lost' = {}
         /\ Within(list', Off', Top')
         /\ Separate(list', Off')
  <1> DEFINE S == (blocks \ {b}) \cup lost
  <1>0. /\ list \in Seq(Node) /\ last \in 0 .. Len(list)
        /\ blocks \subseteq Node /\ lost \subseteq Node /\ blocks \cap lost = {}
        /\ pages \in Nat
        /\ Within(list, Off, Top) /\ Separate(list, Off)
    BY DEF UserHeapInv, UserHeapTypeOK
  <1>1. Top \in Nat /\ Top' = Top
    BY <1>0, UserHeapAssumption DEF Top, Free
  <1>2. b \in Node /\ b \in Off /\ b \notin S /\ S \subseteq Off /\ S \subseteq Node
    BY <1>0 DEF Off
  <1>3. Within(list, S, Top) /\ Separate(list, S)
    BY <1>0, <1>2 DEF Within, Separate
  <1>4. /\ ProgramEnd =< b.at /\ b.at + Header + b.size =< Top
        /\ \A m \in S : Apart(m, b)
        /\ \A k \in DOMAIN list : Apart(b, list[k])
    BY <1>0, <1>2 DEF Within, Separate
  <1>5. /\ list' = Append(SubSeq(list, 1, last), b) /\ last' = last + 1
        /\ Off' = S \cup {list[k] : k \in last + 1 .. Len(list)}
    BY DEF Free, Append1, Off
  <1>6. Top =< Top
    BY <1>1
  <1> HIDE DEF S
  <1>7. /\ list' \in Seq(Node) /\ last' \in 0 .. Len(list')
        /\ Off' \subseteq Node
        /\ Within(list', Off', Top') /\ Separate(list', Off')
    BY <1>0, <1>1, <1>2, <1>3, <1>4, <1>5, <1>6, PutSound
  <1>8. blocks' \cap lost' = {}
    <2>1. SUFFICES ASSUME NEW m \in blocks', m \in lost' PROVE FALSE
      OBVIOUS
    <2>2. m \in blocks /\ m \notin lost /\ m \in Off /\ m \in Node
      BY <1>0 DEF Free, Off
    <2>3. PICK k \in last + 1 .. Len(list) : m = list[k]
      BY <2>1, <2>2 DEF Free, Append1
    <2>4. k \in DOMAIN list
      BY <1>0
    <2>5. Apart(m, m)
      BY <1>0, <2>2, <2>3, <2>4 DEF Separate
    <2> QED BY <2>2, <2>5, ApartDiffer
  <1> QED BY <1>7, <1>8 DEF Off

-----------------------------------------------------------------------------
\* The pages asked for hold the request and its header.
LEMMA PagesHold ==
  ASSUME NEW size \in Nat
  PROVE  /\ PagesFor(size) \in Nat
         /\ PagesFor(size) * HeapPage \in Nat
         /\ PagesFor(size) * HeapPage >= size + Header
  <1> DEFINE x == size + Header - 1
             q == x \div HeapPage
             r == x % HeapPage
  <1>1. x \in Nat /\ HeapPage \in Nat /\ HeapPage > 0
    BY UserHeapAssumption
  <1> HIDE DEF x
  <1>2. q \in Int /\ r \in 0 .. HeapPage - 1 /\ x = HeapPage * q + r
    BY <1>1
  <1>3. q \in Nat
    BY <1>1
  <1> HIDE DEF q, r
  <1>4. HeapPage * q \in Int /\ (q + 1) * HeapPage = HeapPage * q + HeapPage
    BY <1>1, <1>3
  <1>5. (q + 1) * HeapPage > x
    BY <1>1, <1>2, <1>4
  <1>6. PagesFor(size) = q + 1
    BY DEF PagesFor, q, x
  <1>7. size + Header = x + 1
    BY UserHeapAssumption DEF x
  <1> QED BY <1>1, <1>3, <1>4, <1>5, <1>6, <1>7

\* More pages move the end of the heap up by what they hold.
LEMMA TopMoves ==
  ASSUME pages \in Nat, NEW size \in Nat, Extend(size)
  PROVE  /\ pages' \in Nat
         /\ Top \in Nat /\ Top' \in Nat
         /\ Top' = Top + PagesFor(size) * HeapPage
         /\ Top' >= Top + size + Header
  <1>1. PagesFor(size) \in Nat /\ PagesFor(size) * HeapPage \in Nat
        /\ PagesFor(size) * HeapPage >= size + Header
    BY PagesHold
  <1>2. pages' = pages + PagesFor(size)
    BY DEF Extend
  <1>3. HeapPage \in Nat /\ ProgramEnd \in Nat /\ Header \in Nat
    BY UserHeapAssumption
  <1> DEFINE m == PagesFor(size)
  <1> HIDE DEF m
  <1>4. m \in Nat /\ m * HeapPage >= size + Header /\ pages' = pages + m
    BY <1>1, <1>2 DEF m
  <1>5. HeapPage * (pages + m) = HeapPage * pages + m * HeapPage
    BY <1>3, <1>4
  <1>6. HeapPage * pages \in Nat /\ m * HeapPage \in Nat
    BY <1>3, <1>4
  <1>7. Top' = Top + m * HeapPage
    BY <1>3, <1>4, <1>5, <1>6 DEF Top
  <1>8. Top \in Nat
    BY <1>3, <1>6 DEF Top
  <1> QED BY <1>3, <1>4, <1>6, <1>7, <1>8 DEF m

\* A block in new pages is apart from everything there was.
LEMMA NewBlockSound ==
  ASSUME UserHeapInv, NEW higher \in Nat, NEW block \in Node,
         block.at = Top, Top + Header + block.size =< higher
  PROVE  /\ block \notin Off /\ Off \cup {block} \subseteq Node
         /\ Within(list, Off \cup {block}, higher)
         /\ Separate(list, Off \cup {block})
         /\ \A m \in Off : m.at + Header + m.size =< Top
         /\ \A k \in DOMAIN list : list[k].at + Header + list[k].size =< Top
  <1>0. /\ list \in Seq(Node) /\ Off \subseteq Node /\ pages \in Nat
        /\ Within(list, Off, Top) /\ Separate(list, Off)
    BY DEF UserHeapInv, UserHeapTypeOK, Off
  <1>1. /\ Top \in Nat /\ ProgramEnd \in Nat /\ Header \in Nat /\ Header > 0 /\ ProgramEnd =< Top
        /\ block.size \in Nat /\ block.at \in Nat
    <2>1. HeapPage * pages \in Nat
      BY <1>0, UserHeapAssumption
    <2> QED BY <2>1, UserHeapAssumption DEF Top, Node
  <1>2. \A m \in Node : m.at \in Nat /\ m.size \in Nat
    BY DEF Node
  <1>3. \A k \in DOMAIN list : list[k] \in Node
    BY <1>0
  <1>4. ASSUME NEW m \in Node, ProgramEnd =< m.at, m.at + Header + m.size =< Top
        PROVE  /\ m.at + Header + m.size =< higher
               /\ Apart(m, block) /\ Apart(block, m) /\ m # block
    BY <1>1, <1>2, <1>4 DEF Apart
  <1>5. \A m \in Off : ProgramEnd =< m.at /\ m.at + Header + m.size =< Top
    BY <1>0 DEF Within
  <1>6. \A k \in DOMAIN list : ProgramEnd =< list[k].at /\ list[k].at + Header + list[k].size =< Top
    BY <1>0 DEF Within
  <1>7. Within(list, Off \cup {block}, higher)
    BY <1>0, <1>1, <1>3, <1>4, <1>5, <1>6 DEF Within
  <1>8. Separate(list, Off \cup {block})
    BY <1>0, <1>3, <1>4, <1>5, <1>6 DEF Separate
  <1> QED BY <1>0, <1>4, <1>5, <1>6, <1>7, <1>8

LEMMA ExtendWholeSound ==
  ASSUME UserHeapInv, NEW size \in Nat, ExtendWhole(size)
  PROVE  /\ list' \in Seq(Node) /\ last' \in 0 .. Len(list')
         /\ blocks' \subseteq Node /\ lost' \subseteq Node
         /\ blocks' \cap lost' = {}
         /\ Within(list', Off', Top')
         /\ Separate(list', Off')
  <1> DEFINE block == NewNode(size)
  <1>0. /\ list \in Seq(Node) /\ last \in 0 .. Len(list)
        /\ blocks \subseteq Node /\ lost \subseteq Node /\ blocks \cap lost = {}
        /\ pages \in Nat /\ Header \in Nat
    BY UserHeapAssumption DEF UserHeapInv, UserHeapTypeOK
  <1>1. /\ Top \in Nat /\ Top' \in Nat /\ Top' = Top + PagesFor(size) * HeapPage
        /\ PagesFor(size) * HeapPage \in Nat /\ PagesFor(size) * HeapPage >= size + Header
    BY <1>0, TopMoves, PagesHold DEF ExtendWhole
  <1>2. block.at = Top /\ block.size = PagesFor(size) * HeapPage - Header
    BY DEF NewNode
  <1>3. block.size \in Nat /\ Top + Header + block.size =< Top'
    BY <1>0, <1>1, <1>2
  <1>4. block \in Node
    BY <1>1, <1>2, <1>3 DEF NewNode, Node
  <1>5. blocks' = blocks \cup {block} /\ Off' = Off \cup {block}
    BY DEF ExtendWhole, Off
  <1> HIDE DEF block
  <1>6. /\ block \notin Off /\ Off \cup {block} \subseteq Node
        /\ Within(list, Off \cup {block}, Top')
        /\ Separate(list, Off \cup {block})
    BY <1>1, <1>2, <1>3, <1>4, NewBlockSound
  <1>7. list' = list /\ last' = last /\ lost' = lost
    BY DEF ExtendWhole
  <1>8. Within(list', Off', Top') /\ Separate(list', Off')
    BY <1>5, <1>6, <1>7
  <1> QED BY <1>0, <1>4, <1>5, <1>6, <1>7, <1>8 DEF Off

LEMMA ExtendSplitSound ==
  ASSUME UserHeapInv, NEW size \in Nat, ExtendSplit(size)
  PROVE  /\ list' \in Seq(Node) /\ last' \in 0 .. Len(list')
         /\ blocks' \subseteq Node /\ lost' \subseteq Node
         /\ blocks' \cap lost' = {}
         /\ Within(list', Off', Top')
         /\ Separate(list', Off')
  <1> DEFINE block == [at |-> Top, size |-> size]
             rest  == Rest(NewNode(size), size)
             S     == Off \cup {block}
  <1>0. /\ list \in Seq(Node) /\ last \in 0 .. Len(list)
        /\ blocks \subseteq Node /\ lost \subseteq Node /\ blocks \cap lost = {}
        /\ pages \in Nat /\ Header \in Nat /\ Header > 0 /\ MinAlloc \in Nat /\ ProgramEnd \in Nat
    BY UserHeapAssumption DEF UserHeapInv, UserHeapTypeOK
  <1>1. /\ Top \in Nat /\ Top' \in Nat /\ Top' = Top + PagesFor(size) * HeapPage
        /\ PagesFor(size) * HeapPage \in Nat /\ PagesFor(size) * HeapPage >= size + Header
    BY <1>0, TopMoves, PagesHold DEF ExtendSplit
  <1>2. /\ PagesFor(size) * HeapPage - Header - size > MinAlloc + Header
        /\ rest.at = Top + Header + size
        /\ rest.size = PagesFor(size) * HeapPage - Header - size - Header
    BY DEF ExtendSplit, NewNode, Rest
  <1>3. /\ rest.size \in Nat /\ rest.at \in Nat
        /\ rest.at + Header + rest.size = Top' /\ Top =< rest.at
        /\ Top + Header + size =< Top' /\ Top + Header + size =< rest.at
        /\ Top \in Nat /\ Top' \in Nat
    BY <1>0, <1>1, <1>2
  <1>4. block \in Node /\ block.at = Top /\ block.size = size
    BY <1>1 DEF Node
  <1>5. rest \in Node
    <2>1. rest = [at |-> rest.at, size |-> rest.size]
      BY DEF Rest
    <2> HIDE DEF rest
    <2> QED BY <2>1, <1>3 DEF Node
  <1>6. /\ blocks' = blocks \cup {block}
        /\ list' = Append(SubSeq(list, 1, last), rest) /\ last' = last + 1
        /\ lost' = lost \cup {list[k] : k \in last + 1 .. Len(list)}
    BY DEF ExtendSplit, Append1
  <1> HIDE DEF block, rest
  <1>7. /\ block \notin Off /\ S \subseteq Node
        /\ Within(list, S, Top') /\ Separate(list, S)
        /\ \A m \in Off : m.at + Header + m.size =< Top
        /\ \A k \in DOMAIN list : list[k].at + Header + list[k].size =< Top
    BY <1>1, <1>3, <1>4, NewBlockSound
  <1>8. Off' = S \cup {list[k] : k \in last + 1 .. Len(list)}
    BY <1>6 DEF Off
  <1>9. ASSUME NEW m \in Node, m.at + Header + m.size =< Top
        PROVE  Apart(m, rest) /\ Apart(rest, m)
    <2>1. m.at \in Nat /\ m.size \in Nat
      BY DEF Node
    <2> QED BY <1>0, <1>3, <1>9, <2>1 DEF Apart
  <1>10. Apart(block, rest)
    BY <1>0, <1>3, <1>4 DEF Apart
  <1>11. \A m \in S : Apart(m, rest)
    BY <1>7, <1>9, <1>10
  <1>12. \A k \in DOMAIN list : Apart(rest, list[k])
    BY <1>0, <1>7, <1>9
  <1>13. ProgramEnd =< rest.at /\ Top' =< Top' /\ rest.at + Header + rest.size =< Top'
    <2>1. ProgramEnd =< Top
      <3>1. HeapPage * pages \in Nat
        BY <1>0, UserHeapAssumption
      <3> QED BY <3>1, <1>0 DEF Top
    <2> QED BY <2>1, <1>0, <1>1, <1>2, <1>3, SMTT(20)
  <1> HIDE DEF S
  <1>14. /\ list' \in Seq(Node) /\ last' \in 0 .. Len(list')
         /\ Off' \subseteq Node
         /\ Within(list', Off', Top') /\ Separate(list', Off')
    <2>1. Top' \in Nat
      BY <1>3
    <2> QED BY <1>0, <2>1, <1>5, <1>6, <1>7, <1>8, <1>11, <1>12, <1>13, PutSound
  <1>15. blocks' \cap lost' = {}
    <2>1. SUFFICES ASSUME NEW m \in blocks', m \in lost' PROVE FALSE
      OBVIOUS
    <2>2. m \in S /\ m \in Node
      BY <1>6, <1>7 DEF S, Off
    <2>3. CASE m \in lost
      BY <2>1, <2>3, <1>0, <1>6, <1>7 DEF Off
    <2>4. CASE m \notin lost
      <3>1. PICK k \in last + 1 .. Len(list) : m = list[k]
        BY <2>1, <2>4, <1>6
      <3>2. k \in DOMAIN list
        BY <1>0
      <3>3. Apart(m, m)
        BY <1>7, <2>2, <3>1, <3>2 DEF Separate
      <3> QED BY <2>2, <3>3, ApartDiffer
    <2> QED BY <2>3, <2>4
  <1> QED BY <1>6, <1>14, <1>15 DEF Off

-----------------------------------------------------------------------------
\* malloc keeps the heap sound, and what is handed out stays handed out.
LEMMA MallocSound ==
  ASSUME UserHeapInv, NEW size \in Nat, Malloc(size)
  PROVE  /\ list' \in Seq(Node) /\ last' \in 0 .. Len(list')
         /\ blocks' \subseteq Node /\ lost' \subseteq Node
         /\ blocks' \cap lost' = {}
         /\ Within(list', Off', Top')
         /\ Separate(list', Off')
         /\ pages' \in Nat /\ running' \in BOOLEAN /\ blocks \subseteq blocks'
  <1>0. /\ list \in Seq(Node) /\ last \in 0 .. Len(list)
        /\ blocks \subseteq Node /\ lost \subseteq Node /\ blocks \cap lost = {}
        /\ pages \in Nat /\ running \in BOOLEAN
        /\ Within(list, Off, Top) /\ Separate(list, Off)
    BY DEF UserHeapInv, UserHeapTypeOK
  <1>1. CASE \E k \in DOMAIN list : TakeWhole(k)
    BY <1>1, <1>0, TakeWholeSound DEF TakeWhole
  <1>2. CASE \E k \in DOMAIN list : list[k].size - size > MinAlloc /\ TakePart(k, size)
    BY <1>2, <1>0, TakePartSound DEF TakePart
  <1>3. CASE ExtendWhole(size)
    BY <1>3, <1>0, ExtendWholeSound, TopMoves DEF ExtendWhole
  <1>4. CASE ExtendSplit(size)
    BY <1>4, <1>0, ExtendSplitSound, TopMoves DEF ExtendSplit
  <1>5. CASE ExtendElsewhere(size)
    <2>1. list' = list /\ last' = last /\ Off' = Off /\ blocks' = blocks /\ lost' = lost
          /\ running' = FALSE
      BY <1>5 DEF ExtendElsewhere, nodes, Off
    <2>2. pages' \in Nat /\ Top \in Nat /\ Top' \in Nat /\ Top' >= Top
      <3>1. PagesFor(size) * HeapPage \in Nat
        BY PagesHold
      <3> QED BY <1>0, <1>5, <3>1, TopMoves DEF ExtendElsewhere
    <2>3. Within(list, Off, Top')
      <3>1. \A m \in Node : m.at \in Nat /\ m.size \in Nat
        BY DEF Node
      <3>2. Header \in Nat /\ Off \subseteq Node /\ \A k \in DOMAIN list : list[k] \in Node
        BY <1>0, UserHeapAssumption DEF Off
      <3>3. ASSUME NEW m \in Node, m.at + Header + m.size =< Top
            PROVE  m.at + Header + m.size =< Top'
        BY <2>2, <3>1, <3>2, <3>3
      <3>4. \A k \in DOMAIN list : /\ ProgramEnd =< list[k].at
                                   /\ list[k].at + Header + list[k].size =< Top'
        BY <1>0, <3>2, <3>3 DEF Within
      <3>5. \A m \in Off : ProgramEnd =< m.at /\ m.at + Header + m.size =< Top'
        BY <1>0, <3>2, <3>3 DEF Within
      <3> QED BY <3>4, <3>5 DEF Within
    <2> QED BY <1>0, <2>1, <2>2, <2>3
  <1>6. CASE OutOfPages(size)
    BY <1>6, <1>0 DEF OutOfPages, nodes, Off, Top
  <1> QED BY <1>1, <1>2, <1>3, <1>4, <1>5, <1>6 DEF Malloc, Splits

LEMMA UserHeapInitInv == UserHeapInit => UserHeapInv
  <1> SUFFICES ASSUME UserHeapInit PROVE UserHeapInv
    OBVIOUS
  <1>1. list = <<>> /\ last = 0 /\ blocks = {} /\ lost = {} /\ pages = 0 /\ moving = 0
        /\ running = TRUE /\ mended \in BOOLEAN
    BY UserHeapAssumption DEF UserHeapInit
  <1>2. list \in Seq(Node) /\ Len(list) = 0 /\ DOMAIN list = {}
    BY <1>1
  <1> QED BY <1>1, <1>2 DEF UserHeapInv, UserHeapTypeOK, Within, Separate, Off

LEMMA UserHeapStepInv == UserHeapInv /\ [UserHeapNext]_heapVars => UserHeapInv'
  <1> SUFFICES ASSUME UserHeapInv, [UserHeapNext]_heapVars PROVE UserHeapInv'
    OBVIOUS
  <1>0. mended \in BOOLEAN /\ moving \in Nat /\ pages \in Nat /\ running \in BOOLEAN
    BY DEF UserHeapInv, UserHeapTypeOK
  <1>1. ASSUME NEW request \in Requests, CallMalloc(request) PROVE UserHeapInv'
    BY <1>1, WantedSize, MallocSound DEF CallMalloc, UserHeapInv, UserHeapTypeOK
  <1>2. ASSUME NEW b \in blocks, CallFree(b) PROVE UserHeapInv'
    BY <1>2, FreeSound DEF CallFree, Free, UserHeapInv, UserHeapTypeOK
  <1>3. ASSUME NEW b \in blocks, NEW request \in Requests, Grow(b, request) PROVE UserHeapInv'
    <2>1. b.at \in Nat
      BY DEF UserHeapInv, UserHeapTypeOK, Node
    <2> QED BY <1>3, <2>1, WantedSize, MallocSound DEF Grow, UserHeapInv, UserHeapTypeOK
  <1>4. ASSUME NEW b \in blocks, FreeMoved(b) PROVE UserHeapInv'
    BY <1>4, FreeSound DEF FreeMoved, Free, UserHeapInv, UserHeapTypeOK
  <1>5. CASE UNCHANGED heapVars
    BY <1>5 DEF heapVars, nodes, UserHeapInv, UserHeapTypeOK, Within, Separate, Off, Top
  <1> QED BY <1>1, <1>2, <1>3, <1>4, <1>5 DEF UserHeapNext

\* For every size of pages, headers and requests, and whatever the kernel
\* answers: blocks and free nodes never share a byte and never leave the pages
\* the program has.
THEOREM UserHeapInvariant == UserHeapSpec => []UserHeapInv
  BY UserHeapInitInv, UserHeapStepInv, PTL DEF UserHeapSpec

-----------------------------------------------------------------------------
\* Who holds each byte.

\* The bytes from ProgramEnd on, to the end of the pages, and some node for each.
Covered == \A x \in ProgramEnd .. Top - 1 : \E m \in Held : Holds(m, x)

\* No byte is held twice.
LEMMA HeldOnce ==
  ASSUME UserHeapInv, NEW x \in Int, NEW m \in Held, NEW o \in Held, Holds(m, x), Holds(o, x)
  PROVE  o = m
<1>1. /\ list \in Seq(Node) /\ Off \subseteq Node /\ Separate(list, Off) /\ Header \in Nat
  BY UserHeapAssumption DEF UserHeapInv, UserHeapTypeOK, Off
<1>2. \A k \in DOMAIN list : list[k] \in Node
  BY <1>1
<1>3. m \in Node /\ o \in Node
  BY <1>1, <1>2 DEF Held
<1>4. ~ Apart(m, o) /\ ~ Apart(o, m)
  <2>1. m.at \in Nat /\ m.size \in Nat /\ o.at \in Nat /\ o.size \in Nat
    BY <1>3 DEF Node
  <2> QED BY <2>1, <1>1 DEF Holds, Apart
<1>5. CASE m \in Off /\ o \in Off
  BY <1>5, <1>1, <1>4 DEF Separate
<1>6. CASE m \in Off /\ o \notin Off
  <2>1. PICK k \in DOMAIN list : o = list[k]
    BY <1>6 DEF Held
  <2> QED BY <2>1, <1>6, <1>1, <1>4 DEF Separate
<1>7. CASE m \notin Off /\ o \in Off
  <2>1. PICK k \in DOMAIN list : m = list[k]
    BY <1>7 DEF Held
  <2> QED BY <2>1, <1>7, <1>1, <1>4 DEF Separate
<1>8. CASE m \notin Off /\ o \notin Off
  <2>1. PICK k \in DOMAIN list : m = list[k]
    BY <1>8 DEF Held
  <2>2. PICK j \in DOMAIN list : o = list[j]
    BY <1>8 DEF Held
  <2> QED BY <2>1, <2>2, <1>1, <1>4 DEF Separate
<1> QED BY <1>5, <1>6, <1>7, <1>8

\* Bytes stay covered when nodes stay, or are split in two without a gap, and what
\* is new is covered up to the new end.
LEMMA StillCovered ==
  ASSUME Covered, Top \in Nat, Top' \in Nat,
         \A x \in ProgramEnd .. Top - 1, m \in Held :
            Holds(m, x) => \E o \in Held' : Holds(o, x),
         \A x \in Top .. Top' - 1 : \E o \in Held' : Holds(o, x)
  PROVE  Covered'
<1>1. ProgramEnd \in Nat
  BY UserHeapAssumption
<1>2. ASSUME NEW top \in Nat, NEW higher \in Nat, NEW x \in ProgramEnd .. higher - 1
      PROVE  x \in ProgramEnd .. top - 1 \/ x \in top .. higher - 1
  BY <1>1
<1>3. \A x \in ProgramEnd .. Top' - 1 : x \in ProgramEnd .. Top - 1 \/ x \in Top .. Top' - 1
  BY <1>2
<1> QED BY <1>3 DEF Covered

\* A node appended behind memlist.last is held, and so is all that was.
LEMMA AppendHolds ==
  ASSUME list \in Seq(Node), last \in 0 .. Len(list), NEW node \in Node, Append1(node),
         blocks \subseteq blocks' \cup {node}
  PROVE  Held \cup {node} \subseteq Held'
<1>1. /\ list' \in Seq(Node) /\ Len(list') = last + 1
      /\ \A i \in 1 .. last : list'[i] = list[i]
      /\ list'[last + 1] = node
  BY Appended DEF Append1
<1>2. DOMAIN list' = 1 .. last + 1
  BY <1>1
<1>3. node \in Held'
  <2>1. last + 1 \in 1 .. last + 1
    OBVIOUS
  <2> QED BY <2>1, <1>1, <1>2 DEF Held
<1>4. ASSUME NEW k \in DOMAIN list
      PROVE  list[k] \in Held'
  <2>1. CASE k \in 1 .. last
    BY <2>1, <1>1, <1>2 DEF Held
  <2>2. CASE k \in last + 1 .. Len(list)
    BY <2>2 DEF Append1, Held, Off
  <2> QED BY <2>1, <2>2
<1>5. blocks \cup lost \subseteq Held'
  BY <1>3 DEF Held, Off, Append1
<1> QED BY <1>3, <1>4, <1>5 DEF Held, Off

LEMMA TakeWholeCovers ==
  ASSUME UserHeapInv, Covered, NEW k \in DOMAIN list, TakeWhole(k)
  PROVE  Covered'
<1>1. list \in Seq(Node) /\ pages \in Nat
  BY DEF UserHeapInv, UserHeapTypeOK
<1>2. /\ DOMAIN list' = 1 .. Len(list) - 1
      /\ \A j \in DOMAIN list' : list'[j] = IF j < k THEN list[j] ELSE list[j + 1]
  BY <1>1, WithoutElements DEF TakeWhole
<1>3. ASSUME NEW j \in DOMAIN list
      PROVE  list[j] \in Held'
  <2>1. k \in 1 .. Len(list) /\ j \in 1 .. Len(list) /\ Len(list) \in Nat
    BY <1>1
  <2>2. CASE j < k
    <3>1. j \in 1 .. Len(list) - 1
      BY <2>1, <2>2
    <3>2. list'[j] = list[j]
      BY <3>1, <1>2, <2>2
    <3> QED BY <3>1, <3>2, <1>2 DEF Held
  <2>3. CASE j = k
    BY <2>3 DEF Held, Off, TakeWhole
  <2>4. CASE j > k
    <3>1. j - 1 \in 1 .. Len(list) - 1 /\ ~ (j - 1 < k) /\ j - 1 + 1 = j
      BY <2>1, <2>4
    <3>2. list'[j - 1] = list[j]
      BY <3>1, <1>2
    <3> QED BY <3>1, <3>2, <1>2 DEF Held
  <2> QED BY <2>1, <2>2, <2>3, <2>4
<1>4. Held \subseteq Held'
  BY <1>3 DEF Held, Off, TakeWhole
<1>5. Top' = Top
  BY DEF TakeWhole, Top
<1> QED BY <1>4, <1>5 DEF Covered

LEMMA TakePartCovers ==
  ASSUME UserHeapInv, Covered, NEW k \in DOMAIN list, NEW size \in Nat,
         list[k].size - size > MinAlloc, TakePart(k, size)
  PROVE  Covered'
<1> DEFINE node  == list[k]
           rest  == Rest(node, size)
           block == [at |-> node.at, size |-> size]
<1>1. list \in Seq(Node) /\ pages \in Nat
  BY DEF UserHeapInv, UserHeapTypeOK
<1>2. /\ DOMAIN list' = DOMAIN list /\ list'[k] = rest
      /\ \A j \in DOMAIN list : j # k => list'[j] = list[j]
      /\ blocks' = blocks \cup {block} /\ lost' = lost
  BY <1>1 DEF TakePart
<1>3. /\ node.at \in Nat /\ node.size \in Nat /\ Header \in Nat
      /\ rest.at = node.at + Header + size /\ rest.size = node.size - size - Header
      /\ block.at = node.at /\ block.size = size
  <2>1. node \in Node
    BY <1>1
  <2> QED BY <2>1, UserHeapAssumption DEF Rest, Node
<1> HIDE DEF node, rest, block
<1>4. rest \in Held' /\ block \in Held'
  BY <1>2 DEF Held, Off
<1>5. ASSUME NEW m \in Held, m # node
      PROVE  m \in Held'
  BY <1>2, <1>5 DEF Held, Off, node
<1>6. ASSUME NEW x \in Int, Holds(node, x)
      PROVE  Holds(rest, x) \/ Holds(block, x)
  BY <1>3, <1>6 DEF Holds
<1>7. Top' = Top /\ ProgramEnd \in Nat /\ Top \in Int
  <2>1. Top' = Top
    BY DEF TakePart, Top
  <2>2. HeapPage * pages \in Nat
    BY <1>1, UserHeapAssumption, SMT
  <2> QED BY <2>1, <2>2, UserHeapAssumption DEF Top
<1>8. ASSUME NEW x \in ProgramEnd .. Top - 1
      PROVE  \E m \in Held' : Holds(m, x)
  <2>1. x \in Int
    BY <1>7
  <2>2. PICK m \in Held : Holds(m, x)
    BY DEF Covered
  <2> QED BY <2>1, <2>2, <1>4, <1>5, <1>6
<1> QED BY <1>7, <1>8 DEF Covered

LEMMA FreeCovers ==
  ASSUME UserHeapInv, Covered, NEW b \in blocks, Free(b)
  PROVE  Covered'
<1>1. Held \subseteq Held'
  <2>1. list \in Seq(Node) /\ last \in 0 .. Len(list) /\ b \in Node
    BY DEF UserHeapInv, UserHeapTypeOK
  <2>2. Append1(b) /\ blocks \subseteq blocks' \cup {b}
    BY DEF Free
  <2> QED BY <2>1, <2>2, AppendHolds
<1>2. Top' = Top
  BY DEF Free, Top
<1> QED BY <1>1, <1>2 DEF Covered

LEMMA ExtendWholeCovers ==
  ASSUME UserHeapInv, Covered, NEW size \in Nat, ExtendWhole(size)
  PROVE  Covered'
<1> DEFINE block == NewNode(size)
<1>1. pages \in Nat /\ Header \in Nat
  BY UserHeapAssumption DEF UserHeapInv, UserHeapTypeOK
<1>2. /\ Top \in Nat /\ Top' \in Nat /\ Top' = Top + PagesFor(size) * HeapPage
      /\ PagesFor(size) * HeapPage \in Nat
  BY <1>1, TopMoves, PagesHold DEF ExtendWhole
<1>3. block.at = Top /\ block.size = PagesFor(size) * HeapPage - Header
  BY DEF NewNode
<1>4. Held' = Held \cup {block}
  BY DEF ExtendWhole, Held, Off
<1> HIDE DEF block
<1>5. \A x \in Top .. Top' - 1 : Holds(block, x)
  BY <1>1, <1>2, <1>3 DEF Holds
<1> QED BY <1>2, <1>4, <1>5, StillCovered

LEMMA ExtendSplitCovers ==
  ASSUME UserHeapInv, Covered, NEW size \in Nat, ExtendSplit(size)
  PROVE  Covered'
<1> DEFINE block == [at |-> Top, size |-> size]
           rest  == Rest(NewNode(size), size)
<1>1. /\ pages \in Nat /\ Header \in Nat /\ MinAlloc \in Nat
      /\ list \in Seq(Node) /\ last \in 0 .. Len(list)
  BY UserHeapAssumption DEF UserHeapInv, UserHeapTypeOK
<1>2. /\ Top \in Nat /\ Top' \in Nat /\ Top' = Top + PagesFor(size) * HeapPage
      /\ PagesFor(size) * HeapPage \in Nat
  BY <1>1, TopMoves, PagesHold DEF ExtendSplit
<1>3. /\ rest.at = Top + Header + size
      /\ rest.size = PagesFor(size) * HeapPage - Header - size - Header
      /\ PagesFor(size) * HeapPage - Header - size > MinAlloc + Header
      /\ block.at = Top /\ block.size = size
      /\ rest = [at |-> rest.at, size |-> rest.size]
  BY DEF ExtendSplit, NewNode, Rest
<1>4. blocks' = blocks \cup {block} /\ Append1(rest)
  BY DEF ExtendSplit
<1> HIDE DEF block, rest
<1>5. rest \in Node
  <2>1. rest.at \in Nat /\ rest.size \in Nat
    BY <1>1, <1>2, <1>3
  <2> QED BY <2>1, <1>3 DEF Node
<1>6. Held \subseteq Held' /\ rest \in Held' /\ block \in Held'
  <2>1. Held \cup {rest} \subseteq Held'
    BY <1>1, <1>4, <1>5, AppendHolds
  <2> QED BY <2>1, <1>4 DEF Held, Off
<1>7. \A x \in Top .. Top' - 1 : Holds(block, x) \/ Holds(rest, x)
  BY <1>1, <1>2, <1>3, SMTT(20) DEF Holds
<1> QED BY <1>2, <1>6, <1>7, StillCovered

\* malloc loses no byte as long as the program runs.
LEMMA MallocCovers ==
  ASSUME UserHeapInv, Covered, NEW size \in Nat, Malloc(size)
  PROVE  running' => Covered'
<1>1. CASE \E k \in DOMAIN list : TakeWhole(k)
  BY <1>1, TakeWholeCovers
<1>2. CASE \E k \in DOMAIN list : list[k].size - size > MinAlloc /\ TakePart(k, size)
  BY <1>2, TakePartCovers
<1>3. CASE ExtendWhole(size)
  BY <1>3, ExtendWholeCovers
<1>4. CASE ExtendSplit(size)
  BY <1>4, ExtendSplitCovers
<1>5. CASE ExtendElsewhere(size) \/ OutOfPages(size)
  BY <1>5 DEF ExtendElsewhere, OutOfPages
<1> QED BY <1>1, <1>2, <1>3, <1>4, <1>5 DEF Malloc, Splits

LEMMA CoveredStep ==
  UserHeapInv /\ (running => Covered) /\ [UserHeapNext]_heapVars => (running => Covered)'
<1> SUFFICES ASSUME UserHeapInv, running => Covered, [UserHeapNext]_heapVars
             PROVE  (running => Covered)'
  OBVIOUS
<1>1. ASSUME NEW request \in Requests, CallMalloc(request) PROVE (running => Covered)'
  BY <1>1, WantedSize, MallocCovers DEF CallMalloc
<1>2. ASSUME NEW b \in blocks, CallFree(b) PROVE (running => Covered)'
  BY <1>2, FreeCovers DEF CallFree
<1>3. ASSUME NEW b \in blocks, NEW request \in Requests, Grow(b, request) PROVE (running => Covered)'
  BY <1>3, WantedSize, MallocCovers DEF Grow
<1>4. ASSUME NEW b \in blocks, FreeMoved(b) PROVE (running => Covered)'
  BY <1>4, FreeCovers DEF FreeMoved
<1>5. CASE UNCHANGED heapVars
  BY <1>5 DEF heapVars, nodes, Covered, Held, Off, Top
<1> QED BY <1>1, <1>2, <1>3, <1>4, <1>5 DEF UserHeapNext

\* Every byte of every page the library got has exactly one owner as long as the
\* program runs: a block, a node of the list or one that was forgotten, for every
\* size of pages, headers and requests.
THEOREM NoByteLost == UserHeapSpec => []Accounted
<1>1. UserHeapInit => (running => Covered)
  <2>1. ASSUME UserHeapInit PROVE ProgramEnd .. Top - 1 = {}
    <3>1. Top = ProgramEnd /\ ProgramEnd \in Nat
      BY <2>1, UserHeapAssumption DEF UserHeapInit, Top
    <3> QED BY <3>1
  <2> QED BY <2>1 DEF Covered
<1>2. UserHeapInv /\ (running => Covered) => Accounted
  <2> SUFFICES ASSUME UserHeapInv, running, Covered, NEW x \in ProgramEnd .. Top - 1
               PROVE  \E m \in Held : Holds(m, x) /\ \A o \in Held : Holds(o, x) => o = m
    BY DEF Accounted
  <2>1. x \in Int
    OBVIOUS
  <2>2. PICK m \in Held : Holds(m, x)
    BY DEF Covered
  <2>3. \A o \in Held : Holds(o, x) => o = m
    BY <2>1, <2>2, HeldOnce
  <2> QED BY <2>2, <2>3
<1> QED BY <1>1, <1>2, CoveredStep, UserHeapInvariant, PTL DEF UserHeapSpec

-----------------------------------------------------------------------------
\* Writing.

\* Every text in memory ends.
LEMMA FirstZero ==
  ASSUME zeros \in Zeros, NEW f \in Frames, NEW r \in 0 .. PageSize - 1
  PROVE  LET a == f * PageSize + r
         IN  /\ Length(a) \in Nat /\ a + Length(a) \in zeros
             /\ \A k \in 0 .. Length(a) - 1 : a + k \notin zeros
<1> DEFINE a == f * PageSize + r
           S == {k \in 0 .. Memory : a + k \in zeros}
           g == [k \in S |-> k]
           First(k) == a + k \in zeros /\ \A j \in 0 .. k - 1 : a + j \notin zeros
<1>1. S # {} /\ S \subseteq Nat /\ Memory \in Nat
  <2>1. \E k \in 0 .. Memory : f * PageSize + r + k \in zeros
    BY WriteAssumption, Zenon
  <2>2. Memory \in Nat
    BY WriteAssumption
  <2> QED BY <2>1, <2>2
<1>2. g \in [S -> Nat] /\ \A k \in S : g[k] = k
  BY <1>1
<1>3. PICK l \in S : \A k \in S : g[l] =< g[k]
  <2> HIDE DEF S, g
  <2> QED BY <1>1, <1>2, LeastExists
<1>4. l \in 0 .. Memory /\ First(l)
  <2>1. \A k \in S : l =< k
    BY <1>2, <1>3
  <2>2. ASSUME NEW j \in 0 .. l - 1, a + j \in zeros
        PROVE  FALSE
    <3>1. j \in S /\ ~ (l =< j)
      BY <1>1, <2>2
    <3> QED BY <2>1, <3>1
  <2> QED BY <2>2
<1>5. Length(a) = CHOOSE k \in 0 .. Memory : First(k)
  BY DEF Length
<1> HIDE DEF a, S, g, First
<1>6. Length(a) \in 0 .. Memory /\ First(Length(a))
  BY <1>4, <1>5
<1> QED BY <1>1, <1>6 DEF a, First

\* Addresses in one page follow each other.
LEMMA AddressIs ==
  ASSUME map \in Maps, NEW v \in 0 .. Word - 1
  PROVE  \E f \in Frames, r \in 0 .. PageSize - 1 :
           r = v % PageSize /\ Address(v) = f * PageSize + r /\ Address(v) \in Nat
<1>1. /\ map[v \div PageSize] \in Frames /\ Frames \subseteq Nat /\ PageSize \in Nat \ {0}
      /\ Word \in Nat
  BY WriteAssumption, Zenon
<1>2. v \in Nat
  BY <1>1
<1>3. v % PageSize \in 0 .. PageSize - 1
  BY <1>1, <1>2, NaturalDivided
<1>4. map[v \div PageSize] * PageSize + (v % PageSize) \in Nat
  <2> DEFINE f == map[v \div PageSize]
             r == v % PageSize
  <2>1. f \in Frames /\ r \in 0 .. PageSize - 1
    BY <1>1, <1>3
  <2> HIDE DEF f, r
  <2>2. f * PageSize + r \in Nat
    BY <2>1, <1>1
  <2> QED BY <2>2 DEF f, r
<1> QED BY <1>1, <1>3, <1>4 DEF Address

LEMMA WithinPage ==
  ASSUME map \in Maps, NEW v \in 0 .. Word - 1, NEW k \in Nat, (v % PageSize) + k < PageSize
  PROVE  Address(v + k) = Address(v) + k /\ (v + k) \div PageSize = v \div PageSize
<1>1. PageSize \in Nat \ {0} /\ v \in Nat /\ Frames \subseteq Nat /\ map[v \div PageSize] \in Frames
  <2>1. /\ map[v \div PageSize] \in Frames /\ Frames \subseteq Nat /\ PageSize \in Nat \ {0}
        /\ Word \in Nat
    BY WriteAssumption, Zenon
  <2> QED BY <2>1
<1>2. PICK q \in Nat, r \in 0 .. PageSize - 1 :
        q = v \div PageSize /\ r = v % PageSize /\ v = q * PageSize + r
  BY <1>1, NaturalDivided
<1>3. r + k \in 0 .. PageSize - 1 /\ q \in Int
  BY <1>1, <1>2
<1>4. (q * PageSize + (r + k)) \div PageSize = q /\ (q * PageSize + (r + k)) % PageSize = r + k
  BY <1>1, <1>3, QuotientIs, Zenon
<1>5. v + k = q * PageSize + (r + k)
  <2>1. q * PageSize \in Nat
    BY <1>1
  <2> QED BY <2>1, <1>2
<1>6. (v + k) \div PageSize = q /\ (v + k) % PageSize = r + k
  BY <1>4, <1>5
<1>7. Address(v + k) = map[q] * PageSize + (r + k) /\ Address(v) = map[q] * PageSize + r
  BY <1>2, <1>6 DEF Address
<1>8. map[q] * PageSize \in Nat
  <2>1. map[q] \in Nat /\ PageSize \in Nat
    BY <1>1, <1>2
  <2> HIDE <1>2
  <2> QED BY <2>1
<1> QED BY <1>2, <1>6, <1>7, <1>8

Upto == vaddr - ecx

\* The inductive invariant: what the loop has handed on, printed and lost of the bytes
\* in front of vaddr, which is at the beginning of a page unless it is at an end.
WriteInv ==
  /\ map \in Maps /\ zeros \in Zeros /\ open \in BOOLEAN
  /\ ecx \in 0 .. Word - 1 /\ edx \in 0 .. Word - 1
  /\ vaddr \in ecx .. ecx + edx
  /\ chunks \subseteq Nat \X Nat /\ printed \in Seq(Nat) /\ wasted \in Nat
  /\ write_pc \in {"write", "returned"}
  /\ handed = [k \in 1 .. Upto |-> Address(ecx + k - 1)]
  /\ Wraps => vaddr = ecx
  /\ vaddr = ecx \/ vaddr = ecx + edx \/ vaddr % PageSize = 0
  /\ wasted = 0 => Bytes(printed) \subseteq Bytes(handed)
  /\ (\A c \in chunks : EndsInTime(c)) => PrintedUpTo(Upto)
  /\ Bytes(handed) \cap zeros = {} => wasted = Upto + Cardinality(PagesOf(Upto))
  /\ Returned => eax = edx /\ (Wraps \/ vaddr = ecx + edx)

\* A chunk stays in its page and ends with it, or with what was asked for.
LEMMA ChunkIs ==
  ASSUME WriteInv, vaddr < RangeEnd
  PROVE  /\ ~Wraps /\ vaddr \in 0 .. Word - 1 /\ ecx \in Nat /\ edx \in Nat
         /\ len \in Nat \ {0} /\ vaddr + len =< ecx + edx
         /\ (vaddr % PageSize) + len =< PageSize
         /\ vaddr + len = ecx + edx \/ (vaddr + len) % PageSize = 0
<1>1. /\ PageSize \in Nat \ {0} /\ Word \in Nat \ {0} /\ ecx \in 0 .. Word - 1 /\ edx \in 0 .. Word - 1
      /\ vaddr \in ecx .. ecx + edx /\ (Wraps => vaddr = ecx)
  BY WriteAssumption DEF WriteInv
<1>2. /\ ~Wraps => RangeEnd = ecx + edx
      /\ Wraps => RangeEnd = ecx + edx - Word
  <2>1. CASE ~Wraps
    <3>1. ecx + edx \in 0 .. Word - 1 /\ 0 \in Int
      BY <1>1, <2>1 DEF Wraps
    <3>2. (0 * Word + (ecx + edx)) % Word = ecx + edx
      BY <1>1, <3>1, QuotientIs, Zenon
    <3>3. 0 * Word + (ecx + edx) = ecx + edx
      BY <1>1
    <3> QED BY <2>1, <3>2, <3>3 DEF RangeEnd
  <2>2. CASE Wraps
    <3>1. ecx + edx - Word \in 0 .. Word - 1 /\ 1 \in Int
      BY <1>1, <2>2 DEF Wraps
    <3>2. (1 * Word + (ecx + edx - Word)) % Word = ecx + edx - Word
      BY <1>1, <3>1, QuotientIs, Zenon
    <3>3. 1 * Word + (ecx + edx - Word) = ecx + edx
      BY <1>1
    <3> QED BY <2>2, <3>2, <3>3 DEF RangeEnd
  <2> QED BY <2>1, <2>2
<1>3. ~Wraps
  BY <1>1, <1>2
<1>4. vaddr \in 0 .. Word - 1 /\ vaddr \in Nat /\ RangeEnd = ecx + edx
  BY <1>1, <1>2, <1>3 DEF Wraps
<1>5. PICK q \in Nat, r \in 0 .. PageSize - 1 :
        q = vaddr \div PageSize /\ r = vaddr % PageSize /\ vaddr = q * PageSize + r
  BY <1>1, <1>4, NaturalDivided
<1>6. len = IF RangeEnd - vaddr < PageSize - r THEN RangeEnd - vaddr ELSE PageSize - r
  BY <1>5 DEF len, ToPageEnd
<1>7. /\ len \in Nat \ {0} /\ vaddr + len =< ecx + edx /\ r + len =< PageSize
      /\ vaddr + len = ecx + edx \/ len = PageSize - r
  BY <1>1, <1>4, <1>5, <1>6
<1>8. ASSUME len = PageSize - r
      PROVE  (vaddr + len) % PageSize = 0
  <2>1. q + 1 \in Int /\ 0 \in 0 .. PageSize - 1
    BY <1>1
  <2>2. ((q + 1) * PageSize + 0) % PageSize = 0
    BY <1>1, <2>1, QuotientIs, Zenon
  <2>3. (q + 1) * PageSize + 0 = q * PageSize + PageSize /\ q * PageSize \in Nat
    BY <1>1
  <2>4. vaddr + len = q * PageSize + PageSize
    BY <1>1, <1>5, <1>8, <2>3
  <2> QED BY <2>2, <2>3, <2>4
<1> QED BY <1>1, <1>3, <1>4, <1>5, <1>7, <1>8

\* How many of the first bytes are no zeros.
LEMMA ShownCounted ==
  ASSUME NEW k \in Nat
  PROVE  /\ IsFiniteSet(Shown(k)) /\ Cardinality(Shown(k)) \in Nat
         /\ \A j \in Shown(k) : Cardinality(Shown(j)) \in 1 .. Cardinality(Shown(k))
<1>1. ASSUME NEW l \in 0 .. k
      PROVE  IsFiniteSet(Shown(l)) /\ Cardinality(Shown(l)) \in Nat
  <2>1. IsFiniteSet(1 .. l) /\ Shown(l) \in SUBSET (1 .. l)
    BY FS_Interval DEF Shown
  <2> QED BY <2>1, FS_Subset, FS_CardinalityType
<1>2. ASSUME NEW j \in Shown(k)
      PROVE  Cardinality(Shown(j)) \in 1 .. Cardinality(Shown(k))
  <2>1. j \in 1 .. k /\ j \in Shown(j) /\ Shown(j) \subseteq Shown(k)
    BY DEF Shown
  <2>2. /\ IsFiniteSet(Shown(j)) /\ Cardinality(Shown(j)) \in Nat
        /\ IsFiniteSet(Shown(k)) /\ Cardinality(Shown(k)) \in Nat
    BY <1>1, <2>1
  <2>3. Cardinality(Shown(j)) # 0
    BY <2>1, <2>2, FS_EmptySet
  <2>4. Cardinality(Shown(j)) <= Cardinality(Shown(k))
    BY <2>1, <2>2, FS_Subset
  <2> QED BY <2>2, <2>3, <2>4
<1> QED BY <1>1, <1>2

\* Of the next size bytes the first shown ones are no zeros.
LEMMA ShownMore ==
  ASSUME NEW k \in Nat, NEW size \in Nat, NEW shown \in 0 .. size,
         \A j \in 1 .. size : Address(ecx + (k + j) - 1) \notin zeros <=> j <= shown,
         NEW j \in 0 .. size
  PROVE  Cardinality(Shown(k + j)) = Cardinality(Shown(k)) + (IF j <= shown THEN j ELSE shown)
<1> DEFINE more == IF j <= shown THEN j ELSE shown
           New  == k + 1 .. k + more
<1>1. more \in 0 .. j /\ more \in Nat
  OBVIOUS
<1>2. Shown(k + j) = Shown(k) \cup New
  <2>1. ASSUME NEW x \in 1 .. k + j, ~ (x \in 1 .. k)
        PROVE  Address(ecx + x - 1) \notin zeros <=> x \in New
    <3>1. PICK y \in 1 .. size : x = k + y /\ y <= j
      <4>1. x - k \in 1 .. size /\ x = k + (x - k) /\ x - k <= j
        BY <2>1
      <4> QED BY <4>1
    <3>2. Address(ecx + (k + y) - 1) \notin zeros <=> y <= shown
      OBVIOUS
    <3>3. x \in New <=> y <= shown
      BY <3>1
    <3> QED BY <3>1, <3>2, <3>3
  <2>2. \A x \in 1 .. k : x \in 1 .. k + j /\ x \notin New
    OBVIOUS
  <2>3. \A x \in New : x \in 1 .. k + j /\ ~ (x \in 1 .. k)
    BY <1>1
  <2> HIDE DEF New
  <2> QED BY <2>1, <2>2, <2>3 DEF Shown
<1>3. IsFiniteSet(New) /\ Cardinality(New) = more
  BY <1>1, FS_Interval
<1>4. Shown(k) \cap New = {}
  BY DEF Shown
<1>5. IsFiniteSet(Shown(k)) /\ Cardinality(Shown(k)) \in Nat
  BY ShownCounted
<1> HIDE DEF New
<1>6. Cardinality(Shown(k) \cup New) = Cardinality(Shown(k)) + Cardinality(New) - Cardinality(Shown(k) \cap New)
  BY <1>3, <1>5, FS_Union
<1>7. Cardinality(Shown(k) \cap New) = 0
  BY <1>4, FS_EmptySet
<1> HIDE DEF more
<1>8. Cardinality(Shown(k + j)) = Cardinality(Shown(k)) + more
  BY <1>1, <1>2, <1>3, <1>5, <1>6, <1>7
<1> QED BY <1>8 DEF more

\* The bytes of a chunk, as they are asked for and as they lie in memory.
LEMMA ChunkBytes ==
  ASSUME WriteInv, vaddr < RangeEnd
  PROVE  LET phys == Address(vaddr)
         IN  /\ phys \in Nat /\ Upto \in Nat /\ Upto + len <= edx
             /\ \A j \in 1 .. len :
                  /\ Address(ecx + (Upto + j) - 1) = phys + j - 1
                  /\ (ecx + (Upto + j) - 1) \div PageSize = vaddr \div PageSize
             /\ handed \in Seq(Nat) /\ Len(handed) = Upto
             /\ handed \o From(phys, len) = [k \in 1 .. Upto + len |-> Address(ecx + k - 1)]
             /\ Length(phys) \in Nat /\ phys + Length(phys) \in zeros
             /\ \A k \in 0 .. Length(phys) - 1 : phys + k \notin zeros
<1> DEFINE phys == Address(vaddr)
<1>1. /\ vaddr \in 0 .. Word - 1 /\ ecx \in Nat /\ edx \in Nat /\ ~Wraps
      /\ len \in Nat \ {0} /\ vaddr + len =< ecx + edx
      /\ (vaddr % PageSize) + len =< PageSize
  BY ChunkIs
<1>2. /\ map \in Maps /\ zeros \in Zeros /\ vaddr \in ecx .. ecx + edx
      /\ handed = [k \in 1 .. Upto |-> Address(ecx + k - 1)]
      /\ PageSize \in Nat \ {0} /\ Word \in Nat \ {0}
  BY WriteAssumption DEF WriteInv
<1>3. Upto \in Nat /\ Upto + len <= edx /\ vaddr = ecx + Upto
  BY <1>1, <1>2 DEF Upto
<1>4. PICK f \in Frames, r \in 0 .. PageSize - 1 :
        r = vaddr % PageSize /\ phys = f * PageSize + r /\ phys \in Nat
  BY <1>1, <1>2, AddressIs
<1>5. ASSUME NEW j \in 1 .. len
      PROVE  /\ Address(ecx + (Upto + j) - 1) = phys + j - 1
             /\ (ecx + (Upto + j) - 1) \div PageSize = vaddr \div PageSize
  <2>1. j - 1 \in Nat /\ (vaddr % PageSize) + (j - 1) < PageSize
    BY <1>1, <1>2, <1>4
  <2>2. Address(vaddr + (j - 1)) = Address(vaddr) + (j - 1)
        /\ (vaddr + (j - 1)) \div PageSize = vaddr \div PageSize
    BY <1>1, <1>2, <2>1, WithinPage, Zenon
  <2>3. ecx + (Upto + j) - 1 = vaddr + (j - 1)
    BY <1>1, <1>3
  <2>4. phys + (j - 1) = phys + j - 1
    BY <1>4
  <2> QED BY <2>2, <2>3, <2>4
<1>6. \A k \in 1 .. Upto : Address(ecx + k - 1) \in Nat
  <2>1. ecx + edx < Word
    BY <1>1, <1>2 DEF Wraps
  <2>2. \A k \in 1 .. Upto : ecx + k - 1 \in 0 .. Word - 1
    BY <1>1, <1>2, <1>3, <2>1
  <2> QED BY <1>2, <2>2, AddressIs
<1>7. handed \in Seq(Nat) /\ Len(handed) = Upto
  BY <1>2, <1>3, <1>6
<1>8. From(phys, len) \in Seq(Nat) /\ Len(From(phys, len)) = len
      /\ \A j \in 1 .. len : From(phys, len)[j] = phys + j - 1
  BY <1>1, <1>4 DEF From
<1>9. handed \o From(phys, len) = [k \in 1 .. Upto + len |-> Address(ecx + k - 1)]
  <2> DEFINE c == From(phys, len)
             h == handed \o c
             w == [k \in 1 .. Upto + len |-> Address(ecx + k - 1)]
  <2>1. c \in Seq(Nat) /\ Len(c) = len /\ \A j \in 1 .. len : c[j] = phys + j - 1
    BY <1>8
  <2>2. \A k \in 1 .. Upto : handed[k] = Address(ecx + k - 1)
    BY <1>2
  <2> HIDE DEF c
  <2>3. /\ h \in Seq(Nat) /\ Len(h) = Upto + len
        /\ \A k \in 1 .. Upto + len : h[k] = IF k <= Upto THEN handed[k] ELSE c[k - Upto]
    BY <1>7, <2>1, ConcatProperties
  <2> HIDE DEF h
  <2>4. ASSUME NEW k \in 1 .. Upto + len
        PROVE  h[k] = Address(ecx + k - 1)
    <3>1. CASE k <= Upto
      <4>1. k \in 1 .. Upto
        BY <1>1, <1>3, <3>1
      <4> QED BY <4>1, <3>1, <2>2, <2>3
    <3>2. CASE ~ (k <= Upto)
      <4>1. PICK j \in 1 .. len : k = Upto + j /\ k - Upto = j
        <5>1. k - Upto \in 1 .. len /\ k = Upto + (k - Upto)
          BY <1>1, <1>3, <3>2
        <5> QED BY <5>1
      <4> QED BY <3>2, <4>1, <1>5, <2>1, <2>3
    <3> QED BY <3>1, <3>2
  <2>5. h = [k \in 1 .. Upto + len |-> h[k]]
    BY <1>1, <1>3, <2>3
  <2>6. h = w
    BY <2>4, <2>5
  <2> QED BY <2>6 DEF h, c
<1>10. /\ Length(phys) \in Nat /\ phys + Length(phys) \in zeros
       /\ \A k \in 0 .. Length(phys) - 1 : phys + k \notin zeros
  BY <1>2, <1>4, FirstZero
<1> HIDE DEF phys
<1>11. /\ phys \in Nat /\ Upto \in Nat /\ Upto + len <= edx
       /\ handed \in Seq(Nat) /\ Len(handed) = Upto
  BY <1>3, <1>4, <1>7
<1> QED BY <1>5, <1>9, <1>10, <1>11 DEF phys

\* A chunk that ends in time shows its bytes up to the first zero.
LEMMA ChunkPrints ==
  ASSUME WriteInv, vaddr < RangeEnd, PrintedUpTo(Upto), EndsInTime(<<Address(vaddr), len>>),
         printed' = printed \o String(Address(vaddr))
  PROVE  /\ Len(printed') = Cardinality(Shown(Upto + len))
         /\ \A j \in Shown(Upto + len) : printed'[Cardinality(Shown(j))] = Address(ecx + j - 1)
<1> DEFINE phys == Address(vaddr)
           size == Length(phys)
<1>1. /\ phys \in Nat /\ Upto \in Nat /\ len \in Nat \ {0}
      /\ \A j \in 1 .. len : Address(ecx + (Upto + j) - 1) = phys + j - 1
      /\ size \in Nat /\ phys + size \in zeros
      /\ \A k \in 0 .. size - 1 : phys + k \notin zeros
  BY ChunkIs, ChunkBytes
<1>2. size \in {len - 1, len}
  BY DEF EndsInTime
<1>3. printed \in Seq(Nat)
  BY DEF WriteInv
<1>4. String(phys) = [k \in 1 .. size |-> phys + k - 1]
  BY DEF String, From
<1> DEFINE text == String(phys)
<1> HIDE DEF phys, size
<1>5. text \in Seq(Nat) /\ Len(text) = size /\ \A k \in 1 .. size : text[k] = phys + k - 1
  BY <1>1, <1>4
<1>6. size \in 0 .. len /\ len \in Nat
  BY <1>1, <1>2
<1>7. \A j \in 1 .. len : Address(ecx + (Upto + j) - 1) \notin zeros <=> j <= size
  <2>1. ASSUME NEW j \in 1 .. len
        PROVE  phys + j - 1 \notin zeros <=> j <= size
    <3>1. CASE j <= size
      <4>1. j - 1 \in 0 .. size - 1 /\ phys + (j - 1) = phys + j - 1
        BY <1>1, <3>1
      <4> QED BY <4>1, <3>1, <1>1
    <3>2. CASE ~ (j <= size)
      <4>1. phys + j - 1 = phys + size
        BY <1>1, <1>2, <3>2
      <4> QED BY <4>1, <3>2, <1>1
    <3> QED BY <3>1, <3>2
  <2> QED BY <2>1, <1>1
<1>8. \A j \in 0 .. len :
        Cardinality(Shown(Upto + j)) = Cardinality(Shown(Upto)) + (IF j <= size THEN j ELSE size)
  BY <1>1, <1>6, <1>7, ShownMore
<1> DEFINE before == Cardinality(Shown(Upto))
<1>9. before \in Nat /\ Len(printed) = before
      /\ \A j \in Shown(Upto) : Cardinality(Shown(j)) \in 1 .. before
                                /\ printed[Cardinality(Shown(j))] = Address(ecx + j - 1)
  BY <1>1, ShownCounted DEF PrintedUpTo
<1> HIDE DEF text, before
<1>10. /\ Len(printed') = before + size
       /\ \A k \in 1 .. before + size : printed'[k] = IF k <= before THEN printed[k] ELSE text[k - before]
  BY <1>3, <1>5, <1>9, ConcatProperties DEF text, phys
<1>11. Len(printed') = Cardinality(Shown(Upto + len))
  <2>1. Cardinality(Shown(Upto + len)) = before + (IF len <= size THEN len ELSE size)
    BY <1>6, <1>8 DEF before
  <2> QED BY <2>1, <1>2, <1>6, <1>9, <1>10
<1>12. ASSUME NEW j \in Shown(Upto + len)
       PROVE  printed'[Cardinality(Shown(j))] = Address(ecx + j - 1)
  <2>1. j \in 1 .. Upto + len /\ Address(ecx + j - 1) \notin zeros
    BY DEF Shown
  <2>2. CASE j <= Upto
    <3>1. j \in Shown(Upto)
      BY <2>1, <2>2, <1>1 DEF Shown
    <3> DEFINE place == Cardinality(Shown(j))
    <3>2. place \in 1 .. before /\ printed[place] = Address(ecx + j - 1)
      BY <3>1, <1>9
    <3> HIDE DEF place
    <3>3. place \in 1 .. before + size /\ place <= before
      BY <3>2, <1>6, <1>9
    <3>4. printed'[place] = printed[place]
      BY <3>3, <1>10
    <3> QED BY <3>2, <3>4 DEF place
  <2>3. CASE ~ (j <= Upto)
    <3>1. PICK k \in 1 .. len : j = Upto + k
      <4>1. j - Upto \in 1 .. len /\ j = Upto + (j - Upto)
        BY <2>1, <2>3, <1>1
      <4> QED BY <4>1
    <3>2. k <= size /\ Address(ecx + j - 1) = phys + k - 1
      BY <3>1, <2>1, <1>1, <1>7
    <3>3. Cardinality(Shown(j)) = before + k
      <4>1. k \in 0 .. len
        BY <1>6
      <4> QED BY <4>1, <3>1, <3>2, <1>8 DEF before
    <3>4. before + k \in 1 .. before + size /\ ~ (before + k <= before) /\ (before + k) - before = k
          /\ k \in 1 .. size
      BY <3>2, <1>6, <1>9
    <3>5. printed'[before + k] = text[k]
      BY <3>4, <1>10
    <3> QED BY <3>2, <3>3, <3>4, <3>5, <1>5
  <2> QED BY <2>2, <2>3
<1> QED BY <1>11, <1>12

\* Each chunk lies on a page of its own.
LEMMA ChunkPages ==
  ASSUME WriteInv, vaddr < RangeEnd
  PROVE  /\ Cardinality(PagesOf(Upto)) \in Nat
         /\ Cardinality(PagesOf(Upto + len)) = Cardinality(PagesOf(Upto)) + 1
<1>1. /\ vaddr \in 0 .. Word - 1 /\ ecx \in Nat /\ edx \in Nat
      /\ len \in Nat \ {0} /\ vaddr + len =< ecx + edx /\ Upto \in Nat
      /\ \A j \in 1 .. len : (ecx + (Upto + j) - 1) \div PageSize = vaddr \div PageSize
  BY ChunkIs, ChunkBytes
<1>2. /\ PageSize \in Nat \ {0} /\ Word \in Nat \ {0} /\ vaddr \in ecx .. ecx + edx
      /\ vaddr = ecx \/ vaddr = ecx + edx \/ vaddr % PageSize = 0
  BY WriteAssumption DEF WriteInv
<1>3. vaddr = ecx + Upto /\ (vaddr = ecx \/ vaddr % PageSize = 0)
  BY <1>1, <1>2 DEF Upto
<1> DEFINE page == vaddr \div PageSize
<1>4. PagesOf(Upto + len) = PagesOf(Upto) \cup {page}
  <2>1. ASSUME NEW j \in 0 .. (Upto + len) - 1, ~ (j \in 0 .. Upto - 1)
        PROVE  (ecx + j) \div PageSize = page
    <3>1. PICK k \in 1 .. len : j = (Upto + k) - 1
      <4>1. (j - Upto) + 1 \in 1 .. len /\ j = (Upto + ((j - Upto) + 1)) - 1
        BY <2>1, <1>1
      <4> QED BY <4>1
    <3>2. ecx + j = ecx + (Upto + k) - 1
      BY <3>1, <1>1
    <3> QED BY <3>1, <3>2, <1>1
  <2>2. \A j \in 0 .. Upto - 1 : j \in 0 .. (Upto + len) - 1
    BY <1>1
  <2>3. Upto \in 0 .. (Upto + len) - 1 /\ ecx + Upto = vaddr
    BY <1>1, <1>3
  <2> QED BY <2>1, <2>2, <2>3 DEF PagesOf
<1>5. IsFiniteSet(PagesOf(Upto)) /\ Cardinality(PagesOf(Upto)) \in Nat
  <2> DEFINE upper == vaddr \div PageSize
  <2>1. \A j \in 0 .. Upto - 1 : (ecx + j) \div PageSize \in 0 .. upper
    <3>1. ASSUME NEW j \in 0 .. Upto - 1
          PROVE  (ecx + j) \div PageSize \in 0 .. upper
      <4>1. ecx + j \in Nat /\ ecx + j =< vaddr /\ vaddr \in Nat /\ ecx + j \in Int /\ vaddr \in Int
        BY <1>1, <1>2, <1>3
      <4>2. (ecx + j) \div PageSize \in Nat /\ upper \in Nat
        BY <4>1, <1>2, NaturalDivided, Zenon
      <4>3. (ecx + j) \div PageSize =< upper
        BY <4>1, <1>2, QuotientsOrdered, Zenon
      <4> QED BY <4>2, <4>3
    <3> QED BY <3>1
  <2>2. PagesOf(Upto) \in SUBSET (0 .. upper)
    BY <2>1 DEF PagesOf
  <2>3. upper \in Int
    <3>1. vaddr \in Nat
      BY <1>1, <1>2
    <3>2. upper \in Nat
      BY <3>1, <1>2, NaturalDivided, Zenon
    <3> QED BY <3>2
  <2>4. IsFiniteSet(0 .. upper)
    BY <2>3, FS_Interval
  <2> QED BY <2>2, <2>4, FS_Subset, FS_CardinalityType
<1>6. page \notin PagesOf(Upto)
  <2>1. ASSUME NEW j \in 0 .. Upto - 1
        PROVE  (ecx + j) \div PageSize # page
    <3>1. vaddr % PageSize = 0 /\ vaddr \in Nat /\ ecx + j \in Int /\ ecx + j < vaddr
      BY <2>1, <1>1, <1>2, <1>3
    <3>2. page \in Nat /\ vaddr = page * PageSize + (vaddr % PageSize)
      BY <3>1, <1>2, NaturalDivided, Zenon
    <3> HIDE DEF page
    <3>3. page * PageSize \in Nat
      BY <3>2, <1>2
    <3>4. ecx + j < page * PageSize
      BY <3>1, <3>2, <3>3
    <3>5. page \in Int
      BY <3>2
    <3>6. (ecx + j) \div PageSize < page
      BY <3>1, <3>4, <3>5, <1>2, QuotientBelow, Zenon
    <3> QED BY <3>6, <3>5
  <2> QED BY <2>1 DEF PagesOf
<1> HIDE DEF page
<1> QED BY <1>4, <1>5, <1>6, FS_AddElement

LEMMA WriteInitInv == WriteInit => WriteInv
<1> SUFFICES ASSUME WriteInit PROVE WriteInv
  OBVIOUS
<1>1. /\ map \in Maps /\ zeros \in Zeros /\ open \in BOOLEAN
      /\ ecx \in 0 .. Word - 1 /\ edx \in 0 .. Word - 1
      /\ vaddr = ecx /\ handed = << >> /\ chunks = {} /\ printed = << >> /\ wasted = 0
      /\ write_pc = "write" /\ Word \in Nat
  BY WriteAssumption DEF WriteInit
<1>2. vaddr \in ecx .. ecx + edx /\ Upto = 0
  BY <1>1 DEF Upto
<1>3. handed = [k \in 1 .. Upto |-> Address(ecx + k - 1)]
  BY <1>1, <1>2
<1>4. Shown(Upto) = {} /\ PagesOf(Upto) = {}
  BY <1>2 DEF Shown, PagesOf
<1>5. Cardinality(Shown(Upto)) = 0 /\ Cardinality(PagesOf(Upto)) = 0
  BY <1>4, FS_EmptySet
<1>6. PrintedUpTo(Upto) /\ Bytes(printed) = {}
  BY <1>1, <1>4, <1>5 DEF PrintedUpTo, Bytes
<1> QED BY <1>1, <1>2, <1>3, <1>5, <1>6 DEF WriteInv, Returned

\* What a state says of the bytes asked for depends on the call alone.
LEMMA CallStays ==
  ASSUME UNCHANGED call
  PROVE  /\ map' = map /\ zeros' = zeros /\ open' = open /\ ecx' = ecx /\ edx' = edx
         /\ \A v : Address(v)' = Address(v)
         /\ \A a : Length(a)' = Length(a)
         /\ \A k : Shown(k)' = Shown(k) /\ PagesOf(k)' = PagesOf(k)
         /\ \A c : EndsInTime(c)' <=> EndsInTime(c)
         /\ Wraps' <=> Wraps
<1>1. map' = map /\ zeros' = zeros /\ open' = open /\ ecx' = ecx /\ edx' = edx
  BY DEF call
<1>2. \A v : Address(v)' = Address(v)
  BY <1>1 DEF Address
<1>3. \A a : Length(a)' = Length(a)
  BY <1>1 DEF Length
<1>4. \A k : Shown(k)' = Shown(k) /\ PagesOf(k)' = PagesOf(k)
  BY <1>1, <1>2 DEF Shown, PagesOf
<1>5. \A c : EndsInTime(c)' <=> EndsInTime(c)
  BY <1>3 DEF EndsInTime
<1>6. Wraps' <=> Wraps
  BY <1>1 DEF Wraps
<1> QED BY <1>1, <1>2, <1>3, <1>4, <1>5, <1>6

LEMMA ChunkInv ==
  ASSUME WriteInv, Chunk
  PROVE  WriteInv'
<1> DEFINE phys == Address(vaddr)
           text == String(phys)
<1>1. /\ write_pc = "write" /\ open /\ vaddr < RangeEnd
      /\ handed' = handed \o From(phys, len)
      /\ chunks' = chunks \cup {<<phys, len>>}
      /\ printed' = printed \o text
      /\ wasted' = IF Terminated(phys, len) THEN wasted ELSE wasted + len + 1
      /\ vaddr' = vaddr + len /\ write_pc' = write_pc /\ UNCHANGED call
  BY DEF Chunk
<1>2. /\ map' = map /\ zeros' = zeros /\ open' = open /\ ecx' = ecx /\ edx' = edx
      /\ \A v : Address(v)' = Address(v)
      /\ \A k : Shown(k)' = Shown(k) /\ PagesOf(k)' = PagesOf(k)
      /\ \A c : EndsInTime(c)' <=> EndsInTime(c)
      /\ Wraps' <=> Wraps
  BY <1>1, CallStays
<1>3. /\ ~Wraps /\ vaddr \in 0 .. Word - 1 /\ ecx \in Nat /\ edx \in Nat
      /\ len \in Nat \ {0} /\ vaddr + len =< ecx + edx
      /\ vaddr + len = ecx + edx \/ (vaddr + len) % PageSize = 0
  BY <1>1, ChunkIs
<1>4. /\ phys \in Nat /\ Upto \in Nat /\ Upto + len <= edx
      /\ \A j \in 1 .. len : Address(ecx + (Upto + j) - 1) = phys + j - 1
      /\ handed \in Seq(Nat) /\ Len(handed) = Upto
      /\ handed \o From(phys, len) = [k \in 1 .. Upto + len |-> Address(ecx + k - 1)]
      /\ Length(phys) \in Nat /\ phys + Length(phys) \in zeros
      /\ \A k \in 0 .. Length(phys) - 1 : phys + k \notin zeros
  BY <1>1, ChunkBytes
<1>5. /\ map \in Maps /\ zeros \in Zeros /\ ecx \in 0 .. Word - 1 /\ edx \in 0 .. Word - 1
      /\ vaddr \in ecx .. ecx + edx
      /\ chunks \subseteq Nat \X Nat /\ printed \in Seq(Nat) /\ wasted \in Nat
      /\ handed = [k \in 1 .. Upto |-> Address(ecx + k - 1)]
      /\ wasted = 0 => Bytes(printed) \subseteq Bytes(handed)
      /\ (\A c \in chunks : EndsInTime(c)) => PrintedUpTo(Upto)
      /\ Bytes(handed) \cap zeros = {} => wasted = Upto + Cardinality(PagesOf(Upto))
  BY DEF WriteInv
<1>6. vaddr' \in ecx' .. ecx' + edx' /\ Upto' = Upto + len
  BY <1>1, <1>2, <1>3, <1>4, <1>5 DEF Upto
<1>7. text \in Seq(Nat) /\ Len(text) = Length(phys) /\ \A k \in 1 .. Length(phys) : text[k] = phys + k - 1
  <2>1. text = [k \in 1 .. Length(phys) |-> phys + k - 1]
    BY DEF String, From
  <2> HIDE DEF text, phys
  <2> QED BY <2>1, <1>4, SMTT(20)
<1>8. From(phys, len) \in Seq(Nat) /\ Len(From(phys, len)) = len
      /\ \A j \in 1 .. len : From(phys, len)[j] = phys + j - 1
  <2> HIDE DEF phys
  <2> QED BY <1>3, <1>4 DEF From
<1>9. handed' = [k \in 1 .. Upto' |-> Address(ecx + k - 1)']
  BY <1>1, <1>2, <1>4, <1>6
<1>10. \A k \in 1 .. Upto + len : handed'[k] = Address(ecx + k - 1)
  BY <1>1, <1>4
<1>11. DOMAIN handed' = 1 .. Upto + len /\ DOMAIN handed = 1 .. Upto
       /\ \A k \in 1 .. Upto : handed[k] = Address(ecx + k - 1) /\ k \in 1 .. Upto + len
  BY <1>1, <1>3, <1>4, <1>5
<1>12. Bytes(handed) \subseteq Bytes(handed')
  BY <1>10, <1>11 DEF Bytes
<1>13. \A j \in 1 .. len : phys + j - 1 \in Bytes(handed')
  <2>1. ASSUME NEW j \in 1 .. len
        PROVE  phys + j - 1 \in Bytes(handed')
    <3>1. Upto + j \in 1 .. Upto + len
      BY <1>3, <1>4
    <3>2. handed'[Upto + j] = phys + j - 1
      BY <3>1, <1>4, <1>10
    <3> QED BY <3>1, <3>2, <1>11 DEF Bytes
  <2> QED BY <2>1
<1> HIDE DEF phys, text
<1>14. printed' \in Seq(Nat) /\ wasted' \in Nat /\ chunks' \subseteq Nat \X Nat
  <2>1. printed' \in Seq(Nat)
    BY <1>1, <1>5, <1>7, ConcatProperties
  <2>2. wasted' \in Nat
    BY <1>1, <1>3, <1>5
  <2>3. <<phys, len>> \in Nat \X Nat
    BY <1>3, <1>4
  <2> QED BY <2>1, <2>2, <2>3, <1>1, <1>5
<1>15. ASSUME wasted' = 0
       PROVE  Bytes(printed') \subseteq Bytes(handed')
  <2>1. Terminated(phys, len) /\ wasted = 0
    BY <1>1, <1>3, <1>5, <1>15
  <2>2. PICK k \in 0 .. len - 1 : phys + k \in zeros
    BY <2>1 DEF Terminated
  <2>3. Length(phys) <= k
    <3>1. ~ (k \in 0 .. Length(phys) - 1)
      BY <2>2, <1>4
    <3> QED BY <3>1, <1>3, <1>4
  <2>4. \A j \in 1 .. Length(phys) : text[j] \in Bytes(handed')
    <3>1. \A j \in 1 .. Length(phys) : j \in 1 .. len
      BY <2>3, <1>3, <1>4
    <3> QED BY <3>1, <1>7, <1>13
  <2>5. ASSUME NEW j \in DOMAIN printed'
        PROVE  printed'[j] \in Bytes(handed')
    <3>1. /\ j \in 1 .. Len(printed) + Len(text) /\ Len(printed) \in Nat /\ Len(text) \in Nat
          /\ printed'[j] = IF j <= Len(printed) THEN printed[j] ELSE text[j - Len(printed)]
      <4>1. /\ printed \o text \in Seq(Nat) /\ Len(printed \o text) = Len(printed) + Len(text)
            /\ \A k1 \in 1 .. Len(printed) + Len(text) : (printed \o text)[k1] =
                    IF k1 <= Len(printed) THEN printed[k1] ELSE text[k1 - Len(printed)]
        BY <1>5, <1>7, ConcatProperties
      <4>2. DOMAIN printed' = 1 .. Len(printed) + Len(text)
        BY <4>1, <1>1
      <4>3. Len(printed) \in Nat /\ Len(text) \in Nat
        BY <1>5, <1>7
      <4> QED BY <4>1, <4>2, <4>3, <2>5, <1>1
    <3>2. CASE j <= Len(printed)
      <4>1. j \in DOMAIN printed
        BY <3>1, <3>2, <1>5
      <4>2. printed[j] \in Bytes(handed)
        BY <4>1, <2>1, <1>5 DEF Bytes
      <4> QED BY <4>2, <3>1, <3>2, <1>12
    <3>3. CASE ~ (j <= Len(printed))
      <4>1. j - Len(printed) \in 1 .. Length(phys)
        BY <3>1, <3>3, <1>7
      <4> QED BY <4>1, <3>1, <3>3, <2>4
    <3> QED BY <3>2, <3>3
  <2> QED BY <2>5 DEF Bytes
<1>16. ASSUME \A c \in chunks' : EndsInTime(c)'
       PROVE  PrintedUpTo(Upto)'
  <2>1. (\A c \in chunks : EndsInTime(c)) /\ EndsInTime(<<phys, len>>)
    BY <1>1, <1>2, <1>16
  <2>2. /\ Len(printed') = Cardinality(Shown(Upto + len))
        /\ \A j \in Shown(Upto + len) : printed'[Cardinality(Shown(j))] = Address(ecx + j - 1)
    BY <2>1, <1>1, <1>5, ChunkPrints DEF phys, text
  <2> QED BY <2>2, <1>2, <1>6 DEF PrintedUpTo
<1>17. ASSUME Bytes(handed') \cap zeros' = {}
       PROVE  wasted' = Upto' + Cardinality(PagesOf(Upto)')
  <2>1. Bytes(handed) \cap zeros = {}
    BY <1>2, <1>12, <1>17
  <2>2. ~Terminated(phys, len)
    <3>1. ASSUME NEW k \in 0 .. len - 1
          PROVE  phys + k \notin zeros
      <4>1. k + 1 \in 1 .. len /\ phys + (k + 1) - 1 = phys + k
        BY <1>3, <1>4
      <4> QED BY <4>1, <1>2, <1>13, <1>17
    <3> QED BY <3>1 DEF Terminated
  <2>3. wasted = Upto + Cardinality(PagesOf(Upto)) /\ wasted' = wasted + len + 1
    BY <2>1, <2>2, <1>1, <1>5
  <2>4. /\ Cardinality(PagesOf(Upto)) \in Nat
        /\ Cardinality(PagesOf(Upto + len)) = Cardinality(PagesOf(Upto)) + 1
    BY <1>1, ChunkPages
  <2>5. PagesOf(Upto)' = PagesOf(Upto + len)
    BY <1>2, <1>6 DEF PagesOf
  <2> QED BY <2>3, <2>4, <2>5, <1>3, <1>4, <1>6, SMTT(20)
<1>18. vaddr' = ecx' + edx' \/ vaddr' % PageSize = 0
  BY <1>1, <1>2, <1>3
<1>19. ~Returned' /\ ~Wraps'
  BY <1>1, <1>2, <1>3 DEF Returned
<1> QED BY <1>1, <1>2, <1>5, <1>6, <1>9, <1>14, <1>15, <1>16, <1>17, <1>18, <1>19 DEF WriteInv

\* Nothing but a chunk changes what was handed on.
LEMMA WriteStays ==
  ASSUME WriteInv, UNCHANGED <<call, vaddr, handed, chunks, printed, wasted>>,
         write_pc' \in {"write", "returned"},
         write_pc' = "returned" /\ open => eax' = edx /\ (Wraps \/ vaddr = ecx + edx)
  PROVE  WriteInv'
<1>1. /\ map' = map /\ zeros' = zeros /\ open' = open /\ ecx' = ecx /\ edx' = edx
      /\ \A v : Address(v)' = Address(v)
      /\ \A k : Shown(k)' = Shown(k) /\ PagesOf(k)' = PagesOf(k)
      /\ \A c : EndsInTime(c)' <=> EndsInTime(c)
      /\ Wraps' <=> Wraps
  BY CallStays
<1>2. /\ vaddr' = vaddr /\ handed' = handed /\ chunks' = chunks /\ printed' = printed /\ wasted' = wasted
      /\ Upto' = Upto
  BY <1>1 DEF Upto
<1>3. /\ PrintedUpTo(Upto)' <=> PrintedUpTo(Upto)
      /\ PagesOf(Upto)' = PagesOf(Upto)
  BY <1>1, <1>2 DEF PrintedUpTo, PagesOf
<1>4. Bytes(handed)' = Bytes(handed) /\ Bytes(printed)' = Bytes(printed)
  BY <1>2 DEF Bytes
<1>5. Returned' => eax' = edx' /\ (Wraps' \/ vaddr' = ecx' + edx')
  BY <1>1, <1>2 DEF Returned
<1> QED BY <1>1, <1>2, <1>3, <1>4, <1>5 DEF WriteInv

LEMMA WriteStepInv == WriteInv /\ [WriteNext]_writeVars => WriteInv'
<1> SUFFICES ASSUME WriteInv, [WriteNext]_writeVars PROVE WriteInv'
  OBVIOUS
<1>1. CASE Chunk
  BY <1>1, ChunkInv
<1>2. CASE BadDescriptor
  BY <1>2, WriteStays DEF BadDescriptor
<1>3. CASE Finish
  <2>1. Wraps \/ vaddr = ecx + edx
    <3>1. SUFFICES ASSUME ~Wraps PROVE vaddr = ecx + edx
      OBVIOUS
    <3>2. /\ Word \in Nat \ {0} /\ ecx \in 0 .. Word - 1 /\ edx \in 0 .. Word - 1
          /\ vaddr \in ecx .. ecx + edx
      BY WriteAssumption DEF WriteInv
    <3>3. ecx + edx \in 0 .. Word - 1 /\ 0 \in Int
      BY <3>1, <3>2 DEF Wraps
    <3>4. (0 * Word + (ecx + edx)) % Word = ecx + edx
      BY <3>2, <3>3, QuotientIs, Zenon
    <3>5. 0 * Word + (ecx + edx) = ecx + edx
      BY <3>2
    <3>6. RangeEnd = ecx + edx
      BY <3>4, <3>5 DEF RangeEnd
    <3>7. ~ (vaddr < ecx + edx)
      BY <1>3, <3>6 DEF Finish
    <3> QED BY <3>2, <3>7
  <2> QED BY <2>1, <1>3, WriteStays DEF Finish
<1>4. CASE UNCHANGED writeVars
  <2>1. /\ UNCHANGED <<call, vaddr, handed, chunks, printed, wasted>>
        /\ write_pc' = write_pc /\ eax' = eax
    BY <1>4 DEF writeVars
  <2>2. /\ write_pc \in {"write", "returned"}
        /\ Returned => eax = edx /\ (Wraps \/ vaddr = ecx + edx)
    BY DEF WriteInv
  <2> QED BY <2>1, <2>2, WriteStays DEF Returned
<1> QED BY <1>1, <1>2, <1>3, <1>4 DEF WriteNext

\* At every turn of its loop a write has handed on what lies in front of vaddr, and
\* has printed and lost what the zeros there say (ksrc/syscall.c:135-143).
THEOREM WriteInvariant == WriteSpec => []WriteInv
<1>1. WriteInit => WriteInv
  BY WriteInitInv
<1>2. WriteInv /\ [WriteNext]_writeVars => WriteInv'
  BY WriteStepInv
<1> QED BY <1>1, <1>2, PTL DEF WriteSpec

\* However pages are scattered, shared or absent and wherever zeros lie, a write hands
\* on every byte once and in order and says so; what it prints and loses depends on
\* the zeros alone (ksrc/syscall.c:124-145, console.c:28-46).
THEOREM WritesRight == WriteSpec => []WriteOutcome
<1>1. ASSUME WriteInv
      PROVE  WriteOutcome
  <2>1. /\ ecx \in Nat /\ edx \in Nat /\ vaddr \in ecx .. ecx + edx
        /\ handed = [k \in 1 .. Upto |-> Address(ecx + k - 1)]
        /\ Wraps => vaddr = ecx
        /\ wasted = 0 => Bytes(printed) \subseteq Bytes(handed)
        /\ (\A c \in chunks : EndsInTime(c)) => PrintedUpTo(Upto)
        /\ Bytes(handed) \cap zeros = {} => wasted = Upto + Cardinality(PagesOf(Upto))
        /\ Returned => eax = edx /\ (Wraps \/ vaddr = ecx + edx)
    <3>1. ecx \in 0 .. Word - 1 /\ edx \in 0 .. Word - 1 /\ Word \in Nat
      BY <1>1, WriteAssumption DEF WriteInv
    <3>2. ecx \in Nat /\ edx \in Nat
      BY <3>1
    <3> QED BY <3>2, <1>1 DEF WriteInv
  <2>2. Upto \in 0 .. edx
    BY <2>1 DEF Upto
  <2>3. Returned /\ ~Wraps => Upto = edx /\ handed = asked /\ Len(handed) = edx
    <3>1. ASSUME Returned, ~Wraps
          PROVE  Upto = edx
      BY <3>1, <2>1 DEF Upto
    <3>2. Upto = edx => handed = asked /\ Len(handed) = edx
      BY <2>1 DEF asked
    <3> QED BY <3>1, <3>2
  <2>4. Returned /\ Wraps => handed = << >>
    <3>1. ASSUME Wraps
          PROVE  handed = << >>
      <4>1. Upto = 0
        BY <3>1, <2>1 DEF Upto
      <4> QED BY <4>1, <2>1
    <3> QED BY <3>1
  <2>5. Bytes(handed) \subseteq Bytes(asked)
    BY <2>1, <2>2 DEF Bytes, asked
  <2>6. HandsOnAll /\ CountsHandedOn
    BY <2>1, <2>3, <2>4 DEF HandsOnAll, CountsHandedOn
  <2>7. PrintsOthersWhenLosing
    BY <2>1, <2>5 DEF PrintsOthersWhenLosing
  <2>8. PrintsAsked
    BY <2>1, <2>3 DEF PrintsAsked
  <2>9. LosesItsLength
    BY <2>1, <2>3 DEF LosesItsLength
  <2> QED BY <2>6, <2>7, <2>8, <2>9 DEF WriteOutcome
<1> QED BY <1>1, WriteInvariant, PTL

-----------------------------------------------------------------------------
\* Recursive functions, which the formatting of numbers and its texts are.

\* What is not in B leads to something smaller; S has what is in B and what leads
\* into S; f is first where an argument is in B and a step from the next one elsewhere.
Descends(D, most, size, B, next) ==
  /\ most \in Nat /\ size \in [D -> 0 .. most] /\ next \in [D -> D]
  /\ \A x \in D \ B : size[next[x]] < size[x]
Inherits(D, B, next, S) ==
  /\ S \in SUBSET D
  /\ \A x \in D : x \in B \/ next[x] \in S => x \in S
Recurs(D, B, first, next, step, f) ==
  \A x \in D : f[x] = IF x \in B THEN first[x] ELSE step[<<f[next[x]], x>>]

\* Recursion that descends defines a function.
LEMMA Recursion ==
  ASSUME NEW D, NEW C, NEW most, NEW size, NEW B, NEW next, Descends(D, most, size, B, next),
         NEW first \in [D -> C], NEW step \in [C \X D -> C]
  PROVE  \E f \in [D -> C] : Recurs(D, B, first, next, step, f)
<1> USE DEF Descends, Recurs
<1> DEFINE Low(k) == {x \in D : size[x] =< k}
           Solves(f, k) == \A x \in Low(k) :
                             f[x] = IF x \in B THEN first[x] ELSE step[<<f[next[x]], x>>]
           Bad == {k \in 0 .. most : ~ \E f \in [Low(k) -> C] : Solves(f, k)}
           id == [k \in Bad |-> k]
<1>1. ASSUME Bad # {}
      PROVE  FALSE
  <2>1. PICK k \in Bad : \A j \in Bad : id[k] =< id[j]
    <3>1. id \in [Bad -> Nat]
      OBVIOUS
    <3> HIDE DEF id, Bad
    <3> QED BY <3>1, <1>1, LeastExists
  <2>2. k \in 0 .. most /\ ~ \E f \in [Low(k) -> C] : Solves(f, k)
    OBVIOUS
  <2>3. CASE k = 0
    <3> DEFINE g == [x \in Low(k) |-> first[x]]
    <3>1. g \in [Low(k) -> C]
      OBVIOUS
    <3>2. \A x \in Low(k) : x \in B
      BY <2>3
    <3>3. Solves(g, k)
      BY <3>2
    <3> QED BY <3>1, <3>3, <2>2
  <2>4. CASE k > 0
    <3>1. k - 1 \in 0 .. most
      BY <2>2, <2>4
    <3>2. k - 1 \notin Bad
      <4> SUFFICES ASSUME k - 1 \in Bad
                   PROVE  FALSE
        OBVIOUS
      <4>1. id[k] = k /\ id[k - 1] = k - 1
        OBVIOUS
      <4>2. id[k] =< id[k - 1]
        BY <2>1
      <4> QED BY <4>1, <4>2, <2>2, <3>1
    <3>3. PICK f \in [Low(k - 1) -> C] : Solves(f, k - 1)
      BY <3>1, <3>2
    <3> DEFINE g == [x \in Low(k) |-> IF x \in B THEN first[x] ELSE step[<<f[next[x]], x>>]]
    <3>4. \A x \in Low(k) \ B : next[x] \in Low(k - 1) /\ next[x] \in Low(k)
      <4> SUFFICES ASSUME NEW x \in Low(k) \ B
                   PROVE  next[x] \in Low(k - 1) /\ next[x] \in Low(k)
        OBVIOUS
      <4>1. x \in D /\ next[x] \in D /\ size[x] \in 0 .. most /\ size[next[x]] \in 0 .. most
        OBVIOUS
      <4>2. size[next[x]] < size[x] /\ size[x] =< k
        OBVIOUS
      <4>3. size[next[x]] =< k - 1 /\ size[next[x]] =< k
        BY <4>1, <4>2, <2>2
      <4> QED BY <4>1, <4>3
    <3>5. \A x \in Low(k) : g[x] \in C
      <4> SUFFICES ASSUME NEW x \in Low(k)
                   PROVE  g[x] \in C
        OBVIOUS
      <4>1. CASE x \in B
        BY <4>1
      <4>2. CASE x \notin B
        <5>1. f[next[x]] \in C /\ x \in D
          BY <3>4, <4>2
        <5>2. <<f[next[x]], x>> \in C \X D
          BY <5>1
        <5> QED BY <5>2, <4>2
      <4> QED BY <4>1, <4>2
    <3>6. \A y \in Low(k - 1) : y \in Low(k) /\ g[y] = f[y]
      <4> SUFFICES ASSUME NEW y \in Low(k - 1)
                   PROVE  y \in Low(k) /\ g[y] = f[y]
        OBVIOUS
      <4>1. size[y] \in 0 .. most /\ size[y] =< k - 1 /\ y \in D
        OBVIOUS
      <4>2. y \in Low(k)
        BY <4>1, <2>2
      <4> QED BY <4>2, <3>3
    <3>7. Solves(g, k)
      <4> SUFFICES ASSUME NEW x \in Low(k)
                   PROVE  g[x] = IF x \in B THEN first[x] ELSE step[<<g[next[x]], x>>]
        OBVIOUS
      <4>1. x \notin B => g[next[x]] = f[next[x]]
        BY <3>4, <3>6
      <4>2. g[x] = IF x \in B THEN first[x] ELSE step[<<f[next[x]], x>>]
        OBVIOUS
      <4> HIDE DEF g
      <4> QED BY <4>1, <4>2
    <3>8. g \in [Low(k) -> C]
      BY <3>5
    <3> QED BY <3>7, <3>8, <2>2
  <2> QED BY <2>2, <2>3, <2>4
<1>2. PICK f \in [Low(most) -> C] : Solves(f, most)
  <2>1. most \in 0 .. most /\ most \notin Bad
    <3>1. most \in 0 .. most
      OBVIOUS
    <3> HIDE DEF Bad
    <3> QED BY <3>1, <1>1
  <2> QED BY <2>1
<1>3. Low(most) = D
  OBVIOUS
<1> QED BY <1>2, <1>3

\* What is passed on to everything holds of everything.
LEMMA Descent ==
  ASSUME NEW D, NEW most, NEW size, NEW B, NEW next, Descends(D, most, size, B, next),
         NEW S, Inherits(D, B, next, S)
  PROVE  S = D
<1> USE DEF Descends, Inherits
<1> SUFFICES ASSUME D \ S # {}
             PROVE  FALSE
  OBVIOUS
<1> DEFINE left == [x \in D \ S |-> size[x]]
<1>1. left \in [D \ S -> Nat]
  OBVIOUS
<1>2. PICK x \in D \ S : \A y \in D \ S : left[x] =< left[y]
  BY <1>1, LeastExists
<1>3. x \notin B /\ next[x] \in D \ S
  OBVIOUS
<1>4. left[x] =< left[next[x]] /\ left[x] = size[x] /\ left[next[x]] = size[next[x]]
  BY <1>2, <1>3
<1>5. size[next[x]] < size[x] /\ size[x] \in Nat /\ size[next[x]] \in Nat
  BY <1>3
<1> QED BY <1>4, <1>5

\* Counting up from 0.
LEMMA Ascent ==
  ASSUME NEW L \in Nat, NEW S \in SUBSET (0 .. L), 0 \in S,
         \A k \in 1 .. L : k - 1 \in S => k \in S
  PROVE  S = 0 .. L
<1> DEFINE D == 0 .. L
           size == [k \in D |-> k]
           B == {0}
           next == [k \in D |-> IF k = 0 THEN 0 ELSE k - 1]
<1>1. Descends(D, L, size, B, next)
  BY DEF Descends
<1>2. Inherits(D, B, next, S)
  BY DEF Inherits
<1> HIDE DEF D, size, B, next
<1>3. S = D
  BY <1>1, <1>2, Descent
<1> QED BY <1>3 DEF D

\* Each value of a sequence that grows is at most the last one, and at least the first.
LEMMA Growing ==
  ASSUME NEW L \in Nat, NEW v \in [0 .. L -> Nat], \A k \in 1 .. L : v[k - 1] =< v[k]
  PROVE  \A k \in 0 .. L : v[k] =< v[L]
<1> DEFINE S == {k \in 0 .. L : v[L - k] =< v[L]}
<1>1. v[L] \in Nat /\ L - 0 = L /\ 0 \in 0 .. L /\ L \in 0 .. L
  OBVIOUS
<1>2. 0 \in S
  BY <1>1
<1>3. \A k \in 1 .. L : k - 1 \in S => k \in S
  <2> SUFFICES ASSUME NEW k \in 1 .. L, k - 1 \in S
               PROVE  k \in S
    OBVIOUS
  <2>1. L - (k - 1) \in 1 .. L /\ L - (k - 1) - 1 = L - k /\ L - k \in 0 .. L /\ k \in 0 .. L
    OBVIOUS
  <2>2. v[L - k] =< v[L - (k - 1)] /\ v[L - (k - 1)] =< v[L]
    BY <2>1
  <2>3. v[L - k] \in Nat /\ v[L - (k - 1)] \in Nat /\ v[L] \in Nat
    BY <2>1
  <2> QED BY <2>1, <2>2, <2>3
<1>4. S = 0 .. L
  <2>1. S \in SUBSET (0 .. L)
    OBVIOUS
  <2> HIDE DEF S
  <2> QED BY <2>1, <1>2, <1>3, Ascent
<1> QED
  <2> SUFFICES ASSUME NEW k \in 0 .. L
               PROVE  v[k] =< v[L]
    OBVIOUS
  <2>1. L - k \in 0 .. L /\ L - (L - k) = k
    OBVIOUS
  <2> QED BY <2>1, <1>4

\* A quotient is nearer to zero, unless it is zero.
LEMMA QuotientNearer ==
  ASSUME NEW m \in Ints \cup Uints, NEW base \in {10, 16}
  PROVE  /\ Quot(m, base) \in Ints \cup Uints /\ Rem(m, base) \in Int
         /\ Abs(m) \in 0 .. 2 * IntMax + 1 /\ Abs(Quot(m, base)) \in 0 .. 2 * IntMax + 1
         /\ Quot(m, base) # 0 => Abs(Quot(m, base)) < Abs(m)
<1>1. m \in Int /\ IntMax \in Nat /\ -IntMax - 1 =< m /\ m =< 2 * IntMax + 1
  BY FormatAssumption DEF Ints, Uints
<1>2. CASE base = 10
  BY <1>1, <1>2 DEF Ints, Uints, Quot, Rem, Abs
<1>3. CASE base = 16
  BY <1>1, <1>3 DEF Ints, Uints, Quot, Rem, Abs
<1> QED BY <1>2, <1>3

LEMMA DigitTyped == ASSUME NEW m \in Int PROVE Digit(m) \in Int
BY DEF Digit

\* What the loop over the quotients puts into tmp: the last digit behind those of the
\* quotient.
LEMMA DigitsAre ==
  ASSUME NEW base \in {10, 16}
  PROVE  \A m \in Ints \cup Uints :
           /\ Digits(m, base) \in Seq(Int)
           /\ Digits(m, base) =
                IF Quot(m, base) = 0 THEN <<Digit(Rem(m, base))>>
                ELSE Append(Digits(Quot(m, base), base), Digit(Rem(m, base)))
<1> DEFINE D == Ints \cup Uints
           C == Seq(Int)
           most == 2 * IntMax + 1
           size == [m \in D |-> Abs(m)]
           B == {m \in D : Quot(m, base) = 0}
           first == [m \in D |-> <<Digit(Rem(m, base))>>]
           next == [m \in D |-> Quot(m, base)]
           step == [p \in C \X D |-> Append(p[1], Digit(Rem(p[2], base)))]
           Is(f) == f = [m \in D |-> IF Quot(m, base) = 0 THEN <<Digit(Rem(m, base))>>
                                     ELSE Append(f[Quot(m, base)], Digit(Rem(m, base)))]
<1>1. most \in Nat /\ size \in [D -> 0 .. most] /\ next \in [D -> D]
  BY QuotientNearer, FormatAssumption
<1>2. \A m \in D : Digit(Rem(m, base)) \in Int
  BY QuotientNearer, DigitTyped
<1>3. first \in [D -> C]
  BY <1>2
<1>4. step \in [C \X D -> C]
  <2> SUFFICES ASSUME NEW p \in C \X D
               PROVE  Append(p[1], Digit(Rem(p[2], base))) \in C
    OBVIOUS
  <2>1. p[1] \in Seq(Int) /\ Digit(Rem(p[2], base)) \in Int
    BY <1>2
  <2> QED BY <2>1, AppendProperties
<1>5. Descends(D, most, size, B, next)
  BY QuotientNearer, <1>1 DEF Descends
<1>6. \E f \in [D -> C] : Recurs(D, B, first, next, step, f)
  <2> HIDE DEF D, C, most, size, B, first, next, step
  <2> QED BY <1>3, <1>4, <1>5, Recursion
<1>7. PICK f \in [D -> C] : Recurs(D, B, first, next, step, f)
  BY <1>6
<1>8. \A m \in D : f[m] = IF Quot(m, base) = 0 THEN <<Digit(Rem(m, base))>>
                           ELSE Append(f[Quot(m, base)], Digit(Rem(m, base)))
  <2> SUFFICES ASSUME NEW m \in D
               PROVE  f[m] = IF Quot(m, base) = 0 THEN <<Digit(Rem(m, base))>>
                             ELSE Append(f[Quot(m, base)], Digit(Rem(m, base)))
    OBVIOUS
  <2>1. next[m] = Quot(m, base) /\ next[m] \in D /\ first[m] = <<Digit(Rem(m, base))>>
    BY <1>1
  <2>2. m \in B <=> Quot(m, base) = 0
    OBVIOUS
  <2>3. <<f[next[m]], m>> \in C \X D
    BY <2>1
  <2>4. step[<<f[next[m]], m>>] = Append(f[next[m]], Digit(Rem(m, base)))
    BY <2>3
  <2> HIDE DEF D, C, B, first, next, step
  <2> QED BY <1>7, <2>1, <2>2, <2>4 DEF Recurs
<1>9. Is(f)
  BY <1>8
<1> DEFINE t == CHOOSE g : Is(g)
<1>10. Is(t)
  <2> HIDE DEF Is
  <2> QED BY <1>9
<1>11. \A m \in D : Digits(m, base) = t[m]
  BY DEF Digits
<1> HIDE DEF t
<1>12. \A m \in D : t[m] = IF Quot(m, base) = 0 THEN <<Digit(Rem(m, base))>>
                           ELSE Append(t[Quot(m, base)], Digit(Rem(m, base)))
  BY <1>10
<1> DEFINE S == {m \in D : t[m] = f[m]}
<1>13. Inherits(D, B, next, S)
  BY <1>8, <1>12, <1>1 DEF Inherits
<1>14. S = D
  <2> HIDE DEF D, most, size, B, next, S
  <2> QED BY <1>5, <1>13, Descent
<1>15. \A m \in D : Digits(m, base) = f[m] /\ Quot(m, base) \in D /\ f[m] \in C
  BY <1>11, <1>14, <1>1
<1> HIDE DEF D, C
<1> QED BY <1>8, <1>15 DEF D, C

\* A series begins with z and goes on with step.
Continues(L, z, step, v) == v[0] = z /\ \A k \in 1 .. L : v[k] = step[<<v[k - 1], k>>]

LEMMA Series ==
  ASSUME NEW C, NEW z \in C, NEW L \in Nat, NEW step \in [C \X (1 .. L) -> C]
  PROVE  \E v \in [0 .. L -> C] : Continues(L, z, step, v)
<1> DEFINE D == 0 .. L
           B == {0}
           id == [k \in D |-> k]
           next == [k \in D |-> IF k = 0 THEN 0 ELSE k - 1]
           first == [k \in D |-> z]
           go == [p \in C \X D |-> IF p[2] = 0 THEN z ELSE step[p]]
<1>1. Descends(D, L, id, B, next)
  BY DEF Descends
<1>2. first \in [D -> C]
  OBVIOUS
<1>3. go \in [C \X D -> C]
  <2> SUFFICES ASSUME NEW p \in C \X D
               PROVE  go[p] \in C
    OBVIOUS
  <2>1. p[2] # 0 => p \in C \X (1 .. L)
    OBVIOUS
  <2> QED BY <2>1
<1>4. PICK v \in [D -> C] : Recurs(D, B, first, next, go, v)
  <2> HIDE DEF D, id, B, next, first, go
  <2> QED BY <1>1, <1>2, <1>3, Recursion
<1>5. v[0] = z
  <2>1. 0 \in D /\ 0 \in B /\ first[0] = z
    OBVIOUS
  <2> QED BY <1>4, <2>1 DEF Recurs
<1>6. ASSUME NEW k \in 1 .. L
      PROVE  v[k] = step[<<v[k - 1], k>>]
  <2>1. k \in D /\ k \notin B /\ next[k] = k - 1 /\ k - 1 \in D
    OBVIOUS
  <2>2. <<v[k - 1], k>> \in C \X D
    BY <2>1
  <2>3. go[<<v[k - 1], k>>] = step[<<v[k - 1], k>>]
    BY <2>2
  <2>4. v[k] = go[<<v[next[k]], k>>]
    BY <1>4, <2>1 DEF Recurs
  <2> QED BY <2>1, <2>3, <2>4
<1> QED BY <1>5, <1>6 DEF Continues

\* The value of a string of digits is the last of the values of its beginnings.
LEMMA ValueIs ==
  ASSUME NEW L \in Nat, NEW s \in [1 .. L -> Nat], NEW base \in {10, 16}
  PROVE  \E v \in [0 .. L -> Nat] :
           /\ v[0] = 0 /\ \A k \in 1 .. L : v[k] = v[k - 1] * base + s[k]
           /\ Value(s, base) = v[L]
<1> DEFINE step == [p \in Nat \X (1 .. L) |-> p[1] * base + s[p[2]]]
           Is(f) == f = [k \in 0 .. L |-> IF k = 0 THEN 0 ELSE f[k - 1] * base + s[k]]
           t == CHOOSE f : Is(f)
<1>1. step \in [Nat \X (1 .. L) -> Nat]
  <2> SUFFICES ASSUME NEW p \in Nat \X (1 .. L)
               PROVE  p[1] * base + s[p[2]] \in Nat
    OBVIOUS
  <2>1. p[1] \in Nat /\ s[p[2]] \in Nat
    OBVIOUS
  <2>2. p[1] * 10 \in Nat /\ p[1] * 16 \in Nat
    BY <2>1
  <2> QED BY <2>1, <2>2
<1>2. PICK v \in [0 .. L -> Nat] : Continues(L, 0, step, v)
  <2>1. 0 \in Nat
    OBVIOUS
  <2> HIDE DEF step
  <2> QED BY <1>1, <2>1, Series
<1>3. \A k \in 1 .. L : v[k] = v[k - 1] * base + s[k]
  <2> SUFFICES ASSUME NEW k \in 1 .. L
               PROVE  v[k] = v[k - 1] * base + s[k]
    OBVIOUS
  <2>1. v[k - 1] \in Nat
    OBVIOUS
  <2> QED BY <1>2, <2>1 DEF Continues
<1>4. Is(v)
  BY <1>2, <1>3 DEF Continues
<1>5. Is(t)
  <2> HIDE DEF Is
  <2> QED BY <1>4
<1>6. Len(s) = L
  OBVIOUS
<1>7. Value(s, base) = t[L]
  BY <1>6 DEF Value
<1> HIDE DEF t
<1> DEFINE S == {k \in 0 .. L : t[k] = v[k]}
<1>8. 0 \in S
  BY <1>2, <1>5 DEF Continues
<1>9. \A k \in 1 .. L : k - 1 \in S => k \in S
  <2> SUFFICES ASSUME NEW k \in 1 .. L, k - 1 \in S
               PROVE  t[k] = v[k]
    OBVIOUS
  <2>1. k \in 0 .. L /\ k # 0
    OBVIOUS
  <2>2. t[k] = t[k - 1] * base + s[k]
    BY <1>5, <2>1
  <2> QED BY <1>3, <2>2
<1>10. S = 0 .. L
  <2>1. S \in SUBSET (0 .. L)
    OBVIOUS
  <2> HIDE DEF S
  <2> QED BY <2>1, <1>8, <1>9, Ascent
<1>11. t[L] = v[L]
  BY <1>10
<1> QED BY <1>2, <1>3, <1>7, <1>11 DEF Continues

\* The text of k directives is that of one less and then that of the last.
LEMMA TextToIs ==
  ASSUME NEW ds, Len(ds) \in Nat, \A k \in 1 .. Len(ds) : Text(ds[k]) \in Seq(Int)
  PROVE  /\ TextTo(ds, 0) = << >>
         /\ \A k \in 0 .. Len(ds) : TextTo(ds, k) \in Seq(Int)
         /\ \A k \in 1 .. Len(ds) : TextTo(ds, k) = TextTo(ds, k - 1) \o Text(ds[k])
<1> DEFINE L == Len(ds)
           C == Seq(Int)
           step == [p \in C \X (1 .. L) |-> p[1] \o Text(ds[p[2]])]
           Is(f) == f = [k \in 0 .. L |-> IF k = 0 THEN << >> ELSE f[k - 1] \o Text(ds[k])]
           t == CHOOSE f : Is(f)
<1>1. step \in [C \X (1 .. L) -> C]
  <2> SUFFICES ASSUME NEW p \in C \X (1 .. L)
               PROVE  p[1] \o Text(ds[p[2]]) \in C
    OBVIOUS
  <2>1. p[1] \in Seq(Int) /\ Text(ds[p[2]]) \in Seq(Int)
    OBVIOUS
  <2> QED BY <2>1, ConcatProperties
<1>2. PICK v \in [0 .. L -> C] : Continues(L, << >>, step, v)
  <2>1. << >> \in C /\ L \in Nat
    OBVIOUS
  <2> HIDE DEF step, C, L
  <2> QED BY <1>1, <2>1, Series
<1>3. \A k \in 1 .. L : v[k] = v[k - 1] \o Text(ds[k])
  <2> SUFFICES ASSUME NEW k \in 1 .. L
               PROVE  v[k] = v[k - 1] \o Text(ds[k])
    OBVIOUS
  <2>1. k - 1 \in 0 .. L
    OBVIOUS
  <2>2. v[k - 1] \in C
    BY <2>1
  <2>3. <<v[k - 1], k>> \in C \X (1 .. L)
    BY <2>2
  <2> QED BY <1>2, <2>3 DEF Continues
<1>4. Is(v)
  <2>1. v[0] = << >> /\ \A k \in 0 .. L : k = 0 \/ k \in 1 .. L
    BY <1>2 DEF Continues
  <2>2. \A k \in 0 .. L : v[k] = IF k = 0 THEN << >> ELSE v[k - 1] \o Text(ds[k])
    BY <1>3, <2>1
  <2> HIDE DEF C, L
  <2> QED BY <2>2
<1>5. Is(t)
  <2> HIDE DEF Is
  <2> QED BY <1>4
<1>6. \A k : TextTo(ds, k) = t[k]
  BY DEF TextTo
<1> HIDE DEF t
<1> DEFINE S == {k \in 0 .. L : t[k] = v[k]}
<1>7. 0 \in S
  BY <1>2, <1>5 DEF Continues
<1>8. \A k \in 1 .. L : k - 1 \in S => k \in S
  <2> SUFFICES ASSUME NEW k \in 1 .. L, k - 1 \in S
               PROVE  t[k] = v[k]
    OBVIOUS
  <2>1. k \in 0 .. L /\ k # 0
    OBVIOUS
  <2>2. t[k] = t[k - 1] \o Text(ds[k])
    BY <1>5, <2>1
  <2> QED BY <1>3, <2>2
<1>9. S = 0 .. L
  <2>1. S \in SUBSET (0 .. L) /\ L \in Nat
    OBVIOUS
  <2> HIDE DEF S, L
  <2> QED BY <2>1, <1>7, <1>8, Ascent
<1>10. \A k \in 0 .. L : t[k] = v[k]
  BY <1>9
<1>11. \A k \in 1 .. L : k - 1 \in 0 .. L /\ k \in 0 .. L
  OBVIOUS
<1> HIDE DEF L, step, Is, S
<1>12. L \in Nat /\ 0 \in 0 .. L
  BY DEF L
<1> QED BY <1>2, <1>3, <1>6, <1>10, <1>11, <1>12 DEF L, Continues

\* A sequence is its beginning and its last element.
LEMMA BeginningAndLast ==
  ASSUME NEW k \in Nat \ {0}, NEW g, \A j \in 1 .. k : g[j] \in Int
  PROVE  Append([j \in 1 .. k - 1 |-> g[j]], g[k]) = [j \in 1 .. k |-> g[j]]
<1> DEFINE a == [j \in 1 .. k - 1 |-> g[j]]
           b == [j \in 1 .. k |-> g[j]]
<1>1. a \in [1 .. k - 1 -> Int] /\ b \in [1 .. k -> Int] /\ k - 1 \in Nat /\ k \in Nat
  OBVIOUS
<1>2. a \in Seq(Int) /\ b \in Seq(Int) /\ Len(a) = k - 1 /\ Len(b) = k
  <2> HIDE DEF a, b
  <2> QED BY <1>1, SeqDef, LenProperties
<1>3. g[k] \in Int
  OBVIOUS
<1> DEFINE c == Append(a, g[k])
<1>4. /\ c \in Seq(Int) /\ Len(c) = k
      /\ \A j \in 1 .. k - 1 : c[j] = a[j]
      /\ c[k] = g[k]
  <2> HIDE DEF a
  <2>1. /\ c \in Seq(Int) /\ Len(c) = Len(a) + 1 /\ c[Len(a) + 1] = g[k]
        /\ \A j \in 1 .. Len(a) : c[j] = a[j]
    BY <1>2, <1>3, AppendProperties
  <2>2. Len(a) + 1 = k
    BY <1>2
  <2> QED BY <2>1, <2>2, <1>2
<1>5. \A j \in 1 .. k : c[j] = b[j]
  <2> SUFFICES ASSUME NEW j \in 1 .. k
               PROVE  c[j] = b[j]
    OBVIOUS
  <2>1. j \in 1 .. k - 1 \/ j = k
    OBVIOUS
  <2>2. j \in 1 .. k - 1 => a[j] = b[j]
    OBVIOUS
  <2>3. b[k] = g[k]
    OBVIOUS
  <2> HIDE DEF a, b, c
  <2> QED BY <2>1, <2>2, <2>3, <1>4
<1> HIDE DEF a, b, c
<1>6. c = b
  BY <1>2, <1>4, <1>5, SeqEqual
<1> QED BY <1>6 DEF a, b, c

\* The digits of a number are its numeral.
LEMMA DigitsOfNumeral ==
  ASSUME NEW m \in Uints, NEW base \in {10, 16}, NEW s \in Strings(base), IsNumeral(s, m, base)
  PROVE  Digits(m, base) = [k \in DOMAIN s |-> Digit(s[k])]
<1>1. PICK L \in 1 .. Places : s \in [1 .. L -> 0 .. base - 1]
  BY DEF Strings
<1>2. L \in Nat \ {0} /\ s \in [1 .. L -> Nat]
  BY <1>1, FormatAssumption
<1>3. DOMAIN s = 1 .. L /\ Len(s) = L
  BY <1>2
<1>4. PICK v \in [0 .. L -> Nat] :
        /\ v[0] = 0 /\ \A k \in 1 .. L : v[k] = v[k - 1] * base + s[k]
        /\ Value(s, base) = v[L]
  <2>1. L \in Nat
    BY <1>2
  <2> QED BY <2>1, <1>2, ValueIs
<1>5. v[L] = m
  BY <1>4 DEF IsNumeral
<1>6. ASSUME NEW k \in 1 .. L
      PROVE  /\ v[k - 1] \in Nat /\ v[k] \in Nat /\ s[k] \in Nat
             /\ v[k - 1] =< v[k] /\ s[k] =< v[k]
             /\ Quot(v[k], base) = v[k - 1] /\ Rem(v[k], base) = s[k]
  <2>1. k \in 0 .. L /\ k - 1 \in 0 .. L
    BY <1>2
  <2>2. v[k - 1] \in Nat /\ v[k] \in Nat /\ s[k] \in Nat /\ s[k] < base
    BY <2>1, <1>1, <1>2
  <2>3. v[k] = v[k - 1] * base + s[k]
    BY <1>4
  <2> DEFINE p == v[k - 1]
             q == v[k]
             r == s[k]
  <2>4. p \in Nat /\ q \in Nat /\ r \in Nat /\ r < base /\ q = p * base + r
    BY <2>2, <2>3
  <2> HIDE DEF p, q, r
  <2>5. p =< q /\ r =< q /\ Quot(q, base) = p /\ Rem(q, base) = r
    <3>1. CASE base = 10
      BY <3>1, <2>4 DEF Quot, Rem
    <3>2. CASE base = 16
      BY <3>2, <2>4 DEF Quot, Rem
    <3> QED BY <3>1, <3>2
  <2> QED BY <2>2, <2>5 DEF p, q, r
<1>7. \A k \in 0 .. L : v[k] \in Uints
  <2>1. \A k \in 0 .. L : v[k] =< m
    BY <1>2, <1>5, <1>6, Growing
  <2> SUFFICES ASSUME NEW k \in 0 .. L
               PROVE  v[k] \in Uints
    OBVIOUS
  <2>2. v[k] \in Nat /\ v[k] =< m
    BY <2>1
  <2> QED BY <2>2, FormatAssumption DEF Uints
<1>8. ASSUME L > 1
      PROVE  \A k \in 1 .. L : v[k] # 0
  <2> DEFINE S == {k \in 0 .. L : k = 0 \/ v[k] >= 1}
  <2>1. 0 \in S
    BY <1>2
  <2>2. ASSUME NEW k \in 1 .. L, k - 1 \in S
        PROVE  k \in S
    <3>1. v[k - 1] =< v[k] /\ v[k - 1] \in Nat /\ v[k] \in Nat /\ k \in 0 .. L
      BY <1>6, <1>2
    <3>2. CASE k = 1
      <4>1. s[1] # 0
        BY <1>3, <1>8 DEF IsNumeral
      <4>2. s[k] =< v[k] /\ s[k] \in Nat
        BY <1>6
      <4> QED BY <3>1, <3>2, <4>1, <4>2
    <3>3. CASE k # 1
      <4>1. v[k - 1] >= 1
        BY <2>2, <3>3
      <4> QED BY <3>1, <4>1
    <3> QED BY <3>2, <3>3
  <2>3. S = 0 .. L
    <3>1. S \in SUBSET (0 .. L) /\ L \in Nat
      BY <1>2
    <3> HIDE DEF S
    <3> QED BY <3>1, <2>1, <2>2, Ascent
  <2>4. ASSUME NEW k \in 1 .. L
        PROVE  v[k] # 0
    <3>1. k \in S /\ k # 0
      BY <2>3
    <3> QED BY <3>1
  <2> QED BY <2>4
<1> DEFINE g == [k \in 1 .. L |-> Digit(s[k])]
           S == {k \in 0 .. L : k = 0 \/ Digits(v[k], base) = [j \in 1 .. k |-> g[j]]}
<1>9. 0 \in S
  BY <1>2
<1>10. \A k \in 1 .. L : g[k] \in Int /\ g[k] = Digit(s[k])
  <2> SUFFICES ASSUME NEW k \in 1 .. L
               PROVE  Digit(s[k]) \in Int
    OBVIOUS
  <2>1. s[k] \in Int
    BY <1>2
  <2> QED BY <2>1, DigitTyped
<1>11. ASSUME NEW k \in 1 .. L, k - 1 \in S
       PROVE  k \in S
  <2>1. k \in 0 .. L /\ k - 1 \in 0 .. L /\ v[k] \in Ints \cup Uints
    BY <1>2, <1>7
  <2>2. Digits(v[k], base) = IF v[k - 1] = 0 THEN <<g[k]>>
                             ELSE Append(Digits(v[k - 1], base), g[k])
    <3>1. Quot(v[k], base) = v[k - 1] /\ Rem(v[k], base) = s[k] /\ g[k] = Digit(s[k])
      BY <1>6, <1>10
    <3> HIDE DEF g
    <3> QED BY <2>1, <3>1, DigitsAre
  <2>3. CASE k = 1
    <3>1. v[k - 1] = 0
      BY <2>3, <1>4
    <3>2. <<g[k]>> = [j \in 1 .. k |-> g[j]]
      BY <2>3
    <3> QED BY <2>1, <2>2, <3>1, <3>2
  <2>4. CASE k # 1
    <3>1. k - 1 \in 1 .. L /\ L > 1
      BY <2>4, <1>2
    <3>2. v[k - 1] # 0
      BY <3>1, <1>8
    <3>3. Digits(v[k - 1], base) = [j \in 1 .. k - 1 |-> g[j]]
      BY <3>1, <1>11
    <3>4. \A j \in 1 .. k : g[j] \in Int
      BY <1>10, <1>2
    <3>5. k \in Nat \ {0}
      OBVIOUS
    <3>6. Append([j \in 1 .. k - 1 |-> g[j]], g[k]) = [j \in 1 .. k |-> g[j]]
      <4> HIDE DEF g
      <4> QED BY <3>4, <3>5, BeginningAndLast
    <3> HIDE DEF g
    <3> QED BY <2>1, <2>2, <3>2, <3>3, <3>6
  <2> QED BY <2>3, <2>4
<1>12. S = 0 .. L
  <2>1. S \in SUBSET (0 .. L) /\ L \in Nat
    BY <1>2
  <2> HIDE DEF S
  <2> QED BY <2>1, <1>9, <1>11, Ascent
<1>13. Digits(v[L], base) = [j \in 1 .. L |-> g[j]]
  <2>1. L \in 0 .. L /\ L # 0
    BY <1>2
  <2>2. L \in S
    <3> HIDE DEF S
    <3> QED BY <2>1, <1>12
  <2> QED BY <2>1, <2>2
<1>14. [j \in 1 .. L |-> g[j]] = [k \in DOMAIN s |-> Digit(s[k])]
  BY <1>3
<1> QED BY <1>5, <1>13, <1>14

LEMMA NumeralIs ==
  ASSUME NEW m \in Uints, NEW base \in {10, 16}
  PROVE  Numeral(m, base) = Digits(m, base) /\ Digits(m, base) \in Seq(Int)
<1> DEFINE s == CHOOSE s \in Strings(base) : IsNumeral(s, m, base)
<1>1. s \in Strings(base) /\ IsNumeral(s, m, base)
  BY PlacesAssumption
<1>2. Numeral(m, base) = [k \in DOMAIN s |-> Digit(s[k])]
  BY DEF Numeral
<1> HIDE DEF s
<1>3. Digits(m, base) = [k \in DOMAIN s |-> Digit(s[k])]
  BY <1>1, DigitsOfNumeral
<1>4. Digits(m, base) \in Seq(Int)
  BY DigitsAre
<1> QED BY <1>2, <1>3, <1>4

-----------------------------------------------------------------------------
\* What one directive adds.

LEMMA LenOf == ASSUME NEW t \in Seq(Int) PROVE Len(t) \in Nat
BY LenProperties

\* The beginning of a sequence.
LEMMA BeginningIs ==
  ASSUME NEW t \in Seq(Int), NEW e \in 0 .. Len(t)
  PROVE  /\ SubSeq(t, 1, e) \in Seq(Int) /\ Len(SubSeq(t, 1, e)) = e
         /\ \A k \in 1 .. e : SubSeq(t, 1, e)[k] = t[k]
         /\ e = Len(t) => SubSeq(t, 1, e) = t
<1> DEFINE l == Len(t)
           f == SubSeq(t, 1, e)
<1>1. l \in Nat /\ \A k \in 1 .. l : t[k] \in Int
  BY LenProperties, ElementOfSeq
<1>2. e \in Nat /\ e =< l
  BY <1>1
<1> HIDE DEF l
<1>3. \A k \in 1 .. e : t[k] \in Int
  BY <1>1, <1>2
<1>4. f \in Seq(Int) /\ Len(f) = e /\ \A k \in 1 .. e : f[k] = t[k]
  <2>1. 1 \in Int /\ e \in Int
    BY <1>2
  <2>2. f \in Seq(Int) /\ Len(f) = (IF 1 <= e THEN e - 1 + 1 ELSE 0)
        /\ \A k \in 1 .. e - 1 + 1 : f[k] = t[1 + k - 1]
    BY <2>1, <1>3, SubSeqProperties
  <2>3. e - 1 + 1 = e /\ \A k \in 1 .. e : 1 + k - 1 = k
    BY <1>2
  <2> HIDE DEF f
  <2>4. Len(f) = e
    BY <2>2, <2>3, <1>2
  <2>5. \A k \in 1 .. e : f[k] = t[k]
    BY <2>2, <2>3
  <2> QED BY <2>2, <2>4, <2>5
<1> HIDE DEF f
<1>5. e = l => f = t
  BY <1>1, <1>2, <1>4, SeqEqual DEF l
<1> QED BY <1>4, <1>5 DEF f, l

\* As many characters as there are, or as there is room for.
LEMMA FittingIs ==
  ASSUME NEW t \in Seq(Int), Room \in Nat
  PROVE  /\ Fitting(t) \in Seq(Int) /\ Len(Fitting(t)) =< Room
         /\ Len(t) =< Room => Fitting(t) = t
         /\ Len(t) > Room => Len(Fitting(t)) = Room
         /\ \A k \in 1 .. Len(Fitting(t)) : Fitting(t)[k] = t[k]
<1> DEFINE e == IF Len(t) =< Room THEN Len(t) ELSE Room
<1>1. Len(t) \in Nat
  BY LenOf
<1>2. /\ e \in 0 .. Len(t) /\ e =< Room
      /\ Len(t) > Room => e = Room
      /\ Len(t) =< Room => e = Len(t)
  BY <1>1
<1>3. Fitting(t) = SubSeq(t, 1, e)
  BY DEF Fitting
<1> HIDE DEF e
<1> QED BY <1>2, <1>3, BeginningIs

\* The text of a directive without the least int is made of characters.
LEMMA TextTyped ==
  ASSUME NEW x, IsDirective(x), ~IsLeast(x)
  PROVE  Text(x) \in Seq(Int)
<1>1. CASE x.kind = "x"
  <2>1. x.number \in Uints /\ 16 \in {10, 16}
    BY <1>1 DEF IsDirective
  <2>2. Numeral(x.number, 16) \in Seq(Int)
    BY <2>1, NumeralIs
  <2>3. Text(x) = Numeral(x.number, 16)
    BY <1>1, <2>1 DEF Text, Hexadecimals
  <2> QED BY <2>2, <2>3
<1>2. CASE x.kind = "d"
  <2>1. x.number \in Int /\ x.number >= -IntMax /\ x.number =< IntMax /\ IntMax \in Nat
    BY <1>2, FormatAssumption DEF IsDirective, IsLeast, Ints
  <2>2. CASE x.number < 0
    <3>1. -x.number \in 0 .. IntMax /\ -x.number \in Uints /\ 10 \in {10, 16}
      BY <2>1, <2>2 DEF Uints
    <3>2. Numeral(-x.number, 10) \in Seq(Int)
      BY <3>1, NumeralIs
    <3>3. Text(x) = <<Minus>> \o Numeral(-x.number, 10)
      BY <1>2, <2>2, <3>1 DEF Text, Decimals
    <3>4. <<Minus>> \in Seq(Int)
      BY DEF Minus
    <3> QED BY <3>2, <3>3, <3>4, ConcatProperties
  <2>3. CASE ~(x.number < 0)
    <3>1. x.number \in 0 .. IntMax /\ x.number \in Uints /\ 10 \in {10, 16}
      BY <2>1, <2>3 DEF Uints
    <3>2. Numeral(x.number, 10) \in Seq(Int)
      BY <3>1, NumeralIs
    <3>3. Text(x) = Numeral(x.number, 10)
      BY <1>2, <2>3, <3>1 DEF Text, Decimals
    <3> QED BY <3>2, <3>3
  <2> QED BY <2>2, <2>3
<1>3. CASE x.kind # "x" /\ x.kind # "d"
  BY <1>3 DEF Text, IsDirective
<1> QED BY <1>1, <1>2, <1>3

\* A known directive writes as much of its text as there is room for.
LEMMA WrittenIs ==
  ASSUME NEW x, IsDirective(x), x.kind # "unknown", ~IsLeast(x), Room \in Nat \ {0}
  PROVE  Written(x) = str \o Fitting(Text(x))
<1>1. CASE x.kind = "x"
  <2>1. x.number \in Uints /\ 16 \in {10, 16}
    BY <1>1 DEF IsDirective
  <2>2. Numeral(x.number, 16) = Digits(x.number, 16)
    BY <2>1, NumeralIs
  <2>3. Text(x) = Numeral(x.number, 16)
    BY <1>1, <2>1 DEF Text, Hexadecimals
  <2>4. Written(x) = str \o Fitting(Digits(x.number, 16))
    BY <1>1 DEF Written
  <2> QED BY <2>2, <2>3, <2>4
<1>2. CASE x.kind = "d"
  <2>1. x.number \in Int /\ x.number >= -IntMax /\ x.number =< IntMax /\ IntMax \in Nat
    BY <1>2, FormatAssumption DEF IsDirective, IsLeast, Ints
  <2>2. CASE x.number < 0
    <3>1. -x.number \in 0 .. IntMax /\ -x.number \in Uints /\ 10 \in {10, 16}
      BY <2>1, <2>2 DEF Uints
    <3>2. Numeral(-x.number, 10) = Digits(-x.number, 10)
      BY <3>1, NumeralIs
    <3>3. Text(x) = <<Minus>> \o Numeral(-x.number, 10)
      BY <1>2, <2>2, <3>1 DEF Text, Decimals
    <3>4. Negated(x.number) = -x.number
      BY <2>1 DEF Negated
    <3>5. Written(x) = str \o Fitting(<<Minus>> \o Digits(Negated(x.number), 10))
      BY <1>2, <2>2 DEF Written
    <3> QED BY <3>2, <3>3, <3>4, <3>5
  <2>3. CASE ~(x.number < 0)
    <3>1. x.number \in 0 .. IntMax /\ x.number \in Uints /\ 10 \in {10, 16}
      BY <2>1, <2>3 DEF Uints
    <3>2. Numeral(x.number, 10) = Digits(x.number, 10)
      BY <3>1, NumeralIs
    <3>3. Text(x) = Numeral(x.number, 10)
      BY <1>2, <2>3, <3>1 DEF Text, Decimals
    <3>4. Written(x) = str \o Fitting(Digits(x.number, 10))
      BY <1>2, <2>3 DEF Written
    <3> QED BY <3>2, <3>3, <3>4
  <2> QED BY <2>2, <2>3
<1>3. CASE x.kind = "s"
  BY <1>3 DEF Written, Text
<1>4. CASE x.kind \in {"letter", "c"}
  <2>1. x.text \in Seq(Int) /\ Len(x.text) = 1
    BY <1>4 DEF IsDirective
  <2>2. Fitting(x.text) = x.text
    <3>1. Len(x.text) =< Room /\ Room \in Nat
      BY <2>1
    <3> QED BY <2>1, <3>1, FittingIs
  <2>3. Written(x) = str \o x.text /\ Text(x) = x.text
    BY <1>4 DEF Written, Text
  <2> QED BY <2>2, <2>3
<1> QED BY <1>1, <1>2, <1>3, <1>4 DEF IsDirective

\* The least int included, nothing is written behind the last byte.
LEMMA WrittenFits ==
  ASSUME NEW x, IsDirective(x), x.kind # "unknown", Room \in Nat \ {0}, str \in Seq(Int)
  PROVE  Written(x) \in Seq(Int) /\ Len(Written(x)) =< Len(str) + Room
<1>1. PICK w \in Seq(Int) : Written(x) = str \o w /\ Len(w) =< Room
  <2>1. CASE ~IsLeast(x)
    <3>1. Text(x) \in Seq(Int)
      BY <2>1, TextTyped
    <3>2. Written(x) = str \o Fitting(Text(x))
      BY <2>1, WrittenIs
    <3>3. Room \in Nat
      OBVIOUS
    <3> QED BY <3>1, <3>2, <3>3, FittingIs
  <2>2. CASE IsLeast(x)
    <3>1. x.kind = "d" /\ x.number = -IntMax - 1 /\ IntMax \in Nat
      BY <2>2, FormatAssumption DEF IsLeast, IsDirective, Ints
    <3>2. Written(x) = str \o Fitting(<<Minus>> \o Digits(-IntMax - 1, 10))
      <4>1. x.number < 0
        BY <3>1
      <4>2. Negated(x.number) = -IntMax - 1
        BY <3>1 DEF Negated
      <4> QED BY <3>1, <4>1, <4>2 DEF Written
    <3>3. -IntMax - 1 \in Ints \cup Uints /\ 10 \in {10, 16} /\ Room \in Nat
      BY <3>1 DEF Ints
    <3>4. Digits(-IntMax - 1, 10) \in Seq(Int)
      BY <3>3, DigitsAre
    <3>5. <<Minus>> \in Seq(Int)
      BY DEF Minus
    <3>6. <<Minus>> \o Digits(-IntMax - 1, 10) \in Seq(Int)
      BY <3>4, <3>5, ConcatProperties
    <3> QED BY <3>2, <3>3, <3>6, FittingIs
  <2> QED BY <2>1, <2>2
<1>2. str \o w \in Seq(Int) /\ Len(str \o w) = Len(str) + Len(w)
  BY ConcatProperties
<1>3. Len(str) \in Nat /\ Len(w) \in Nat
  BY LenOf
<1>4. Len(str) + Len(w) =< Len(str) + Room
  BY <1>1, <1>3
<1> QED BY <1>1, <1>2, <1>4

\* What is in front of the last byte.
LEMMA CutIs ==
  ASSUME NEW t \in Seq(Int), buflen \in Nat \ {0}
  PROVE  /\ Cut(t) \in Seq(Int)
         /\ Len(t) < buflen => Cut(t) = t
         /\ Len(t) >= buflen => Len(Cut(t)) = buflen - 1
         /\ \A k \in 1 .. Len(Cut(t)) : Cut(t)[k] = t[k]
<1> DEFINE e == IF Len(t) < buflen THEN Len(t) ELSE buflen - 1
<1>1. Len(t) \in Nat
  BY LenOf
<1>2. /\ e \in 0 .. Len(t)
      /\ Len(t) >= buflen => e = buflen - 1
      /\ Len(t) < buflen => e = Len(t)
  BY <1>1
<1>3. Cut(t) = SubSeq(t, 1, e)
  BY DEF Cut
<1> HIDE DEF e
<1> QED BY <1>2, <1>3, BeginningIs

\* As long as there is room, what a directive adds is what the text adds.
LEMMA CutGrows ==
  ASSUME NEW t \in Seq(Int), NEW u \in Seq(Int), buflen \in Nat \ {0},
         str = Cut(t), Room \in Nat \ {0}
  PROVE  str \o Fitting(u) = Cut(t \o u)
<1>1. Len(str) \in Nat /\ Len(t) \in Nat /\ Len(u) \in Nat /\ Room = buflen - 1 - Len(str)
  BY LenOf, CutIs DEF Room
<1>2. Len(t) < buflen
  <2>1. Len(t) >= buflen => Len(str) = buflen - 1
    BY CutIs
  <2> QED BY <2>1, <1>1
<1>3. str = t
  BY <1>2, CutIs
<1> DEFINE a == t \o u
           f == Fitting(u)
           b == t \o f
           c == Cut(a)
<1>4. /\ a \in Seq(Int) /\ Len(a) = Len(t) + Len(u)
      /\ \A k \in 1 .. Len(t) + Len(u) : a[k] = IF k <= Len(t) THEN t[k] ELSE u[k - Len(t)]
  BY ConcatProperties
<1>5. /\ f \in Seq(Int) /\ (Len(u) =< Room => f = u) /\ (Len(u) > Room => Len(f) = Room)
      /\ \A k \in 1 .. Len(f) : f[k] = u[k]
  <2>1. Room \in Nat
    OBVIOUS
  <2> QED BY <2>1, FittingIs
<1>6. Len(f) \in Nat
  BY <1>5, LenOf
<1> HIDE DEF f
<1>7. /\ b \in Seq(Int) /\ Len(b) = Len(t) + Len(f)
      /\ \A k \in 1 .. Len(t) + Len(f) : b[k] = IF k <= Len(t) THEN t[k] ELSE f[k - Len(t)]
  BY <1>5, ConcatProperties
<1> HIDE DEF a, b
<1>8. /\ c \in Seq(Int) /\ (Len(a) < buflen => c = a) /\ (Len(a) >= buflen => Len(c) = buflen - 1)
      /\ \A k \in 1 .. Len(c) : c[k] = a[k]
  BY <1>4, CutIs
<1> HIDE DEF c
<1>9. Room = buflen - 1 - Len(t) /\ buflen \in Nat
  BY <1>1, <1>3
<1>10. Len(c) = Len(b) /\ Len(b) \in Nat /\ Len(f) =< Len(u)
  <2>1. CASE Len(u) =< Room
    <3>1. Len(a) < buflen /\ Len(f) = Len(u)
      BY <2>1, <1>1, <1>4, <1>5, <1>9
    <3> QED BY <3>1, <1>1, <1>4, <1>7, <1>8
  <2>2. CASE Len(u) > Room
    <3>1. Len(a) >= buflen /\ Len(f) = Room
      BY <2>2, <1>1, <1>4, <1>5, <1>9
    <3>2. Len(c) = buflen - 1
      BY <3>1, <1>8
    <3> QED BY <3>1, <3>2, <2>2, <1>1, <1>7, <1>9
  <2> QED BY <2>1, <2>2, <1>1, <1>9
<1>11. \A k \in 1 .. Len(b) : b[k] = c[k]
  <2> SUFFICES ASSUME NEW k \in 1 .. Len(b)
               PROVE  b[k] = c[k]
    OBVIOUS
  <2>1. c[k] = a[k]
    BY <1>8, <1>10
  <2>2. k \in 1 .. Len(t) + Len(f) /\ k \in 1 .. Len(t) + Len(u)
    BY <1>1, <1>6, <1>7, <1>10
  <2>3. CASE k <= Len(t)
    BY <2>1, <2>2, <2>3, <1>4, <1>7
  <2>4. CASE ~(k <= Len(t))
    <3>1. k - Len(t) \in 1 .. Len(f)
      BY <2>2, <2>4, <1>1, <1>6
    <3>2. f[k - Len(t)] = u[k - Len(t)]
      BY <3>1, <1>5
    <3> QED BY <2>1, <2>2, <2>4, <3>2, <1>4, <1>7
  <2> QED BY <2>3, <2>4
<1>12. b = c
  BY <1>7, <1>8, <1>10, <1>11, SeqEqual
<1> QED BY <1>3, <1>12 DEF a, b, c, f

\* Behind a full buffer the text changes nothing.
LEMMA CutStays ==
  ASSUME NEW t \in Seq(Int), NEW u \in Seq(Int), buflen \in Nat \ {0},
         Len(Cut(t)) = buflen - 1
  PROVE  Cut(t \o u) = Cut(t)
<1> DEFINE a == t \o u
           b == Cut(t)
           c == Cut(a)
<1>1. /\ a \in Seq(Int) /\ Len(a) = Len(t) + Len(u)
      /\ \A k \in 1 .. Len(t) + Len(u) : a[k] = IF k <= Len(t) THEN t[k] ELSE u[k - Len(t)]
  BY ConcatProperties
<1>2. /\ b \in Seq(Int) /\ (Len(t) < buflen => b = t) /\ (Len(t) >= buflen => Len(b) = buflen - 1)
      /\ \A k \in 1 .. Len(b) : b[k] = t[k]
  BY CutIs
<1> HIDE DEF a
<1>3. /\ c \in Seq(Int) /\ (Len(a) < buflen => c = a) /\ (Len(a) >= buflen => Len(c) = buflen - 1)
      /\ \A k \in 1 .. Len(c) : c[k] = a[k]
  BY <1>1, CutIs
<1>4. Len(t) \in Nat /\ Len(u) \in Nat /\ Len(b) = buflen - 1
  BY LenOf
<1> HIDE DEF b, c
<1>5. Len(t) >= buflen - 1
  BY <1>2, <1>4
<1>6. Len(c) = buflen - 1
  BY <1>1, <1>2, <1>3, <1>4, <1>5
<1>7. \A k \in 1 .. Len(b) : b[k] = c[k]
  <2> SUFFICES ASSUME NEW k \in 1 .. Len(b)
               PROVE  b[k] = c[k]
    OBVIOUS
  <2>1. c[k] = a[k] /\ b[k] = t[k]
    BY <1>2, <1>3, <1>4, <1>6
  <2>2. k \in 1 .. Len(t) + Len(u) /\ k <= Len(t)
    BY <1>4, <1>5
  <2> QED BY <2>1, <2>2, <1>1
<1>8. b = c
  BY <1>2, <1>3, <1>4, <1>6, <1>7, SeqEqual
<1> QED BY <1>8 DEF a, b, c

-----------------------------------------------------------------------------
\* Messages.

FormatTypeOK ==
  /\ fmt \in Formats /\ fmt_i \in 0 .. Len(fmt) /\ buflen \in Lens
  /\ str \in Seq(Int) /\ format_pc \in {"format", "panic", "done"}

\* What stands in the buffer is what fits of the directives done, all of them known.
Reached ==
  /\ Len(str) < buflen
  /\ \A k \in 1 .. fmt_i : fmt[k].kind # "unknown"
  /\ ~HasLeast => str = Cut(TextTo(fmt, fmt_i))

\* It ends in front of an unknown directive, at the end of the format or with a full buffer.
Stopped ==
  /\ format_pc = "panic" => fmt_i < Len(fmt) /\ Room > 0 /\ fmt[fmt_i + 1].kind = "unknown"
  /\ format_pc = "done" => fmt_i = Len(fmt) \/ Room = 0

FormatInv == FormatTypeOK /\ Reached /\ Stopped

\* What the assumptions say of the format at hand.
LEMMA FormatTyped ==
  ASSUME FormatTypeOK
  PROVE  /\ Len(fmt) \in Nat /\ DOMAIN fmt = 1 .. Len(fmt) /\ fmt_i \in Nat
         /\ \A k \in 1 .. Len(fmt) : IsDirective(fmt[k])
         /\ buflen \in Nat \ {0} /\ Len(str) \in Nat
         /\ ~HasLeast => \A k \in 1 .. Len(fmt) : Text(fmt[k]) \in Seq(Int)
<1>1. /\ Len(fmt) \in Nat /\ DOMAIN fmt = 1 .. Len(fmt)
      /\ \A k \in 1 .. Len(fmt) : IsDirective(fmt[k])
  BY FormatAssumption DEF FormatTypeOK
<1>2. buflen \in Nat \ {0} /\ Len(str) \in Nat /\ fmt_i \in Nat
  BY FormatAssumption, <1>1, LenOf DEF FormatTypeOK
<1>3. ASSUME ~HasLeast, NEW k \in 1 .. Len(fmt)
      PROVE  Text(fmt[k]) \in Seq(Int)
  <2>1. IsDirective(fmt[k]) /\ ~IsLeast(fmt[k])
    BY <1>1, <1>3 DEF HasLeast
  <2> QED BY <2>1, TextTyped
<1> QED BY <1>1, <1>2, <1>3

LEMMA FormatInitInv == FormatInit => FormatInv
<1> SUFFICES ASSUME FormatInit
             PROVE  FormatInv
  OBVIOUS
<1>1. /\ fmt \in Formats /\ fmt_i = 0 /\ buflen \in Lens
      /\ str = << >> /\ format_pc = "format"
  BY DEF FormatInit
<1>2. << >> \in Seq(Int) /\ Len(<< >>) = 0
  OBVIOUS
<1>3. Len(fmt) \in Nat
  BY <1>1, FormatAssumption
<1>4. FormatTypeOK
  BY <1>1, <1>2, <1>3 DEF FormatTypeOK
<1>5. ASSUME ~HasLeast
      PROVE  str = Cut(TextTo(fmt, fmt_i))
  <2>1. \A k \in 1 .. Len(fmt) : Text(fmt[k]) \in Seq(Int)
    BY <1>4, <1>5, FormatTyped
  <2>2. TextTo(fmt, 0) = << >>
    BY <1>3, <2>1, TextToIs
  <2>3. Cut(<< >>) = << >>
    <3>1. buflen \in Nat \ {0} /\ Len(<< >>) < buflen
      BY <1>2, <1>4, FormatTyped
    <3> QED BY <1>2, <3>1, CutIs
  <2> QED BY <1>1, <2>2, <2>3
<1>6. Len(str) < buflen /\ \A k \in 1 .. fmt_i : fmt[k].kind # "unknown"
  BY <1>1, <1>2, <1>4, FormatTyped
<1> QED BY <1>1, <1>4, <1>5, <1>6 DEF FormatInv, Reached, Stopped

LEMMA DirectiveInv ==
  ASSUME FormatInv, Directive
  PROVE  FormatInv'
<1> DEFINE x == fmt[fmt_i + 1]
           w == Written(x)
<1>1. /\ format_pc = "format" /\ fmt_i < Len(fmt) /\ Room > 0 /\ x.kind # "unknown"
      /\ str' = w /\ fmt_i' = fmt_i + 1 /\ fmt' = fmt /\ buflen' = buflen
      /\ format_pc' = format_pc
  BY DEF Directive
<1>2. FormatTypeOK /\ Reached
  BY DEF FormatInv
<1>3. /\ Len(fmt) \in Nat /\ fmt_i \in Nat /\ buflen \in Nat \ {0} /\ Len(str) \in Nat
      /\ str \in Seq(Int)
  BY <1>2, FormatTyped DEF FormatTypeOK
<1>4. fmt_i + 1 \in 1 .. Len(fmt) /\ fmt_i \in 0 .. Len(fmt) /\ fmt_i + 1 - 1 = fmt_i
  BY <1>1, <1>3
<1>5. IsDirective(x)
  BY <1>2, <1>4, FormatTyped
<1>6. Room \in Nat \ {0} /\ Len(str) + Room < buflen
  BY <1>1, <1>3 DEF Room
<1> HIDE DEF x
<1>7. w \in Seq(Int) /\ Len(w) < buflen
  <2>1. w \in Seq(Int) /\ Len(w) =< Len(str) + Room
    BY <1>1, <1>3, <1>5, <1>6, WrittenFits
  <2>2. Len(w) \in Nat
    BY <2>1, LenOf
  <2> QED BY <2>1, <2>2, <1>3, <1>6
<1>8. ASSUME ~HasLeast
      PROVE  w = Cut(TextTo(fmt, fmt_i + 1))
  <2>1. \A k \in 1 .. Len(fmt) : Text(fmt[k]) \in Seq(Int)
    BY <1>2, <1>8, FormatTyped
  <2>2. TextTo(fmt, fmt_i) \in Seq(Int) /\ TextTo(fmt, fmt_i + 1) = TextTo(fmt, fmt_i) \o Text(x)
    <3>1. /\ \A k \in 0 .. Len(fmt) : TextTo(fmt, k) \in Seq(Int)
          /\ \A k \in 1 .. Len(fmt) : TextTo(fmt, k) = TextTo(fmt, k - 1) \o Text(fmt[k])
      BY <2>1, <1>3, TextToIs
    <3>2. TextTo(fmt, fmt_i + 1) = TextTo(fmt, fmt_i + 1 - 1) \o Text(x)
      BY <3>1, <1>4 DEF x
    <3> QED BY <3>1, <3>2, <1>4
  <2>3. Text(x) \in Seq(Int)
    BY <2>1, <1>4 DEF x
  <2>4. ~IsLeast(x)
    BY <1>2, <1>4, <1>8, FormatTyped DEF HasLeast, x
  <2>5. w = str \o Fitting(Text(x))
    BY <1>1, <1>5, <1>6, <2>4, WrittenIs
  <2>6. str = Cut(TextTo(fmt, fmt_i))
    BY <1>2, <1>8 DEF Reached
  <2>7. str \o Fitting(Text(x)) = Cut(TextTo(fmt, fmt_i) \o Text(x))
    <3> DEFINE t == TextTo(fmt, fmt_i)
               u == Text(x)
    <3>1. t \in Seq(Int) /\ u \in Seq(Int) /\ str = Cut(t)
      BY <2>2, <2>3, <2>6
    <3> HIDE DEF t, u
    <3>2. str \o Fitting(u) = Cut(t \o u)
      BY <3>1, <1>3, <1>6, CutGrows
    <3> QED BY <3>2 DEF t, u
  <2> QED BY <2>2, <2>5, <2>7
<1>9. FormatTypeOK'
  BY <1>1, <1>2, <1>4, <1>7 DEF FormatTypeOK
<1>10. Reached'
  <2>1. HasLeast' = HasLeast
    BY <1>1 DEF HasLeast
  <2>2. Len(str') < buflen'
    BY <1>1, <1>7
  <2>3. \A k \in 1 .. fmt_i + 1 : fmt[k].kind # "unknown"
    <3> SUFFICES ASSUME NEW k \in 1 .. fmt_i + 1
                 PROVE  fmt[k].kind # "unknown"
      OBVIOUS
    <3>1. k \in 1 .. fmt_i \/ k = fmt_i + 1
      BY <1>3
    <3> QED BY <3>1, <1>1, <1>2 DEF Reached, x
  <2>4. ~HasLeast => str' = Cut(TextTo(fmt, fmt_i))'
    <3>1. Cut(TextTo(fmt, fmt_i))' = Cut(TextTo(fmt, fmt_i + 1))
      BY <1>1 DEF Cut
    <3> QED BY <1>1, <1>8, <3>1
  <2> QED BY <1>1, <2>1, <2>2, <2>3, <2>4 DEF Reached
<1>11. Stopped'
  BY <1>1 DEF Stopped
<1> QED BY <1>9, <1>10, <1>11 DEF FormatInv

\* Every step keeps FormatInv: a directive adds its text, up to the last byte.
LEMMA FormatStepInv == FormatInv /\ [FormatNext]_formatVars => FormatInv'
<1> SUFFICES ASSUME FormatInv, [FormatNext]_formatVars
             PROVE  FormatInv'
  OBVIOUS
<1>1. CASE Directive
  BY <1>1, DirectiveInv
<1>2. ASSUME fmt' = fmt, fmt_i' = fmt_i, buflen' = buflen, str' = str
      PROVE  /\ FormatTypeOK /\ format_pc' \in {"format", "panic", "done"} => FormatTypeOK'
             /\ Reached => Reached'
             /\ Room' = Room
  <2>1. HasLeast' = HasLeast /\ Cut(TextTo(fmt, fmt_i))' = Cut(TextTo(fmt, fmt_i))
    BY <1>2 DEF HasLeast, Cut
  <2> QED BY <1>2, <2>1 DEF FormatTypeOK, Reached, Room
<1>3. CASE UnknownDirective
  BY <1>2, <1>3 DEF UnknownDirective, FormatInv, Stopped
<1>4. CASE Done
  BY <1>2, <1>4 DEF Done, FormatInv, Stopped
<1>5. CASE UNCHANGED formatVars
  BY <1>2, <1>5 DEF formatVars, FormatInv, FormatTypeOK, Stopped
<1> QED BY <1>1, <1>3, <1>4, <1>5 DEF FormatNext

\* At every directive the buffer holds what fits of the text of those done, and the
\* machine stops only over an unknown one (ksrc/string.c:130-199).
THEOREM FormatInvariant == FormatSpec => []FormatInv
<1>1. FormatInit => FormatInv
  BY FormatInitInv
<1>2. FormatInv /\ [FormatNext]_formatVars => FormatInv'
  BY FormatStepInv
<1> QED BY <1>1, <1>2, PTL DEF FormatSpec

\* A buffer that is full before the end of the format holds what it would at the end.
LEMMA FullAtTheEnd ==
  ASSUME FormatInv, ~HasLeast, fmt_i = Len(fmt) \/ Room = 0
  PROVE  str = Cut(TextTo(fmt, Len(fmt)))
<1>1. FormatTypeOK /\ str = Cut(TextTo(fmt, fmt_i))
  BY DEF FormatInv, Reached
<1>2. /\ Len(fmt) \in Nat /\ fmt_i \in Nat /\ buflen \in Nat \ {0} /\ Len(str) \in Nat
      /\ fmt_i \in 0 .. Len(fmt) /\ \A k \in 1 .. Len(fmt) : Text(fmt[k]) \in Seq(Int)
  BY <1>1, FormatTyped DEF FormatTypeOK
<1>3. CASE fmt_i = Len(fmt)
  BY <1>1, <1>3
<1>4. CASE Room = 0
  <2>1. Len(str) = buflen - 1
    BY <1>2, <1>4 DEF Room
  <2> DEFINE L == Len(fmt)
             t == [k \in 0 .. L |-> TextTo(fmt, k)]
             u == [k \in 1 .. L |-> Text(fmt[k])]
             S == {k \in 0 .. L : k >= fmt_i => Cut(t[k]) = str}
  <2>2. /\ \A k \in 0 .. L : t[k] \in Seq(Int)
        /\ \A k \in 1 .. L : t[k] = t[k - 1] \o u[k] /\ u[k] \in Seq(Int)
    <3>1. /\ \A k \in 0 .. L : TextTo(fmt, k) \in Seq(Int)
          /\ \A k \in 1 .. L : TextTo(fmt, k) = TextTo(fmt, k - 1) \o Text(fmt[k])
      BY <1>2, TextToIs
    <3>2. \A k \in 1 .. L : k \in 0 .. L /\ k - 1 \in 0 .. L
      BY <1>2
    <3> QED BY <1>2, <3>1, <3>2
  <2>3. Cut(t[fmt_i]) = str
    BY <1>1, <1>2
  <2> HIDE DEF t, u, L
  <2>4. L \in Nat /\ fmt_i \in 0 .. L
    BY <1>2 DEF L
  <2>5. 0 \in S
    BY <2>3, <2>4
  <2>6. ASSUME NEW k \in 1 .. L, k - 1 \in S
        PROVE  k \in S
    <3>1. k \in 0 .. L /\ k - 1 \in 0 .. L
      BY <2>4
    <3>2. CASE k - 1 >= fmt_i
      <4>1. Cut(t[k - 1]) = str
        BY <2>6, <3>2
      <4>2. t[k - 1] \in Seq(Int) /\ u[k] \in Seq(Int) /\ t[k] = t[k - 1] \o u[k]
        BY <2>2, <3>1
      <4>3. Cut(t[k - 1] \o u[k]) = Cut(t[k - 1])
        BY <1>2, <2>1, <4>1, <4>2, CutStays
      <4> QED BY <3>1, <4>1, <4>2, <4>3
    <3>3. CASE ~(k - 1 >= fmt_i)
      <4>1. k >= fmt_i => k = fmt_i
        BY <2>4, <3>3
      <4> QED BY <2>3, <3>1, <4>1
    <3> QED BY <3>2, <3>3
  <2>7. S = 0 .. L
    <3>1. S \in SUBSET (0 .. L)
      OBVIOUS
    <3> HIDE DEF S
    <3> QED BY <2>4, <2>5, <2>6, <3>1, Ascent
  <2>8. Cut(t[L]) = str
    <3>1. L \in S /\ L >= fmt_i
      <4>1. L \in 0 .. L /\ L >= fmt_i
        BY <2>4
      <4> HIDE DEF S
      <4> QED BY <2>7, <4>1
    <3> QED BY <3>1
  <2>9. t[L] = TextTo(fmt, L)
    BY <2>4 DEF t
  <2> QED BY <2>8, <2>9 DEF L
<1> QED BY <1>3, <1>4

\* Whatever the format, the numbers and the buffer, a message is its text cut where the
\* buffer ends, nothing is written behind it, and the machine stops only over an unknown
\* directive that the text in front of it leaves in sight (ksrc/string.c:120-202).
THEOREM MessagesFit == FormatSpec => []MessageFits
<1>1. ASSUME FormatInv
      PROVE  MessageFits
  <2>1. FormatTypeOK /\ Reached /\ Stopped
    BY <1>1 DEF FormatInv
  <2>2. CutsText
    BY <1>1, <2>1, FullAtTheEnd DEF CutsText, Stopped
  <2>3. StaysInside
    BY <2>1 DEF StaysInside, Reached
  <2>4. PanicsInRoom
    <3> SUFFICES ASSUME format_pc = "panic"
                 PROVE  \E k \in DOMAIN fmt :
                          /\ fmt[k].kind = "unknown"
                          /\ \A j \in 1 .. k - 1 : fmt[j].kind # "unknown"
                          /\ ~HasLeast => Len(TextTo(fmt, k - 1)) < buflen - 1
      BY DEF PanicsInRoom
    <3>1. /\ fmt_i \in Nat /\ Len(fmt) \in Nat /\ buflen \in Nat \ {0} /\ Len(str) \in Nat
          /\ DOMAIN fmt = 1 .. Len(fmt)
      BY <2>1, FormatTyped
    <3>2. fmt_i < Len(fmt) /\ Room > 0 /\ fmt[fmt_i + 1].kind = "unknown"
      BY <2>1 DEF Stopped
    <3>3. fmt_i + 1 \in DOMAIN fmt /\ fmt_i + 1 - 1 = fmt_i /\ fmt_i \in 0 .. Len(fmt)
      BY <3>1, <3>2
    <3>4. \A j \in 1 .. fmt_i : fmt[j].kind # "unknown"
      BY <2>1 DEF Reached
    <3>5. ASSUME ~HasLeast
          PROVE  Len(TextTo(fmt, fmt_i)) < buflen - 1
      <4> DEFINE t == TextTo(fmt, fmt_i)
      <4>1. \A k \in 1 .. Len(fmt) : Text(fmt[k]) \in Seq(Int)
        BY <2>1, <3>5, FormatTyped
      <4>2. t \in Seq(Int)
        BY <3>1, <3>3, <4>1, TextToIs
      <4>3. str = Cut(t)
        BY <2>1, <3>5 DEF Reached
      <4> HIDE DEF t
      <4>4. Len(str) < buflen - 1
        BY <3>1, <3>2 DEF Room
      <4>5. (Len(t) < buflen => str = t) /\ (Len(t) >= buflen => Len(str) = buflen - 1)
        BY <3>1, <4>2, <4>3, CutIs
      <4>6. Len(t) < buflen - 1
        <5>1. Len(t) \in Nat
          BY <4>2, LenOf
        <5> QED BY <3>1, <4>4, <4>5, <5>1
      <4> QED BY <4>6 DEF t
    <3> QED BY <3>2, <3>3, <3>4, <3>5
  <2> QED BY <2>2, <2>3, <2>4 DEF MessageFits
<1> QED BY <1>1, FormatInvariant, PTL

=============================================================================
