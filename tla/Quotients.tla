----------------------------- MODULE Quotients -----------------------------
(***************************************************************************)
(* Facts about quotients and rests that the provers do not find by         *)
(* themselves when the divisor is no literal: the code divides by page     *)
(* sizes, widths and the values a word can hold.  And that of numbers one  *)
(* is the least.                                                           *)
(***************************************************************************)
EXTENDS Integers, WellFoundedInduction, TLAPS

\* Quotient and rest are what they are: the only numbers that fit.
LEMMA QuotientIs ==
  ASSUME NEW d \in Nat \ {0}, NEW q \in Int, NEW r \in 0 .. d - 1
  PROVE  (q * d + r) \div d = q /\ (q * d + r) % d = r
<1> DEFINE n == q * d + r
           p == n \div d
           s == n % d
<1>1. q * d \in Int
  BY SMT
<1>2. n \in Int /\ d \in Nat /\ d > 0
  BY <1>1, SMT
<1>3. p \in Int /\ s \in 0 .. d - 1 /\ n = d * p + s
  BY <1>2, SMT
<1>4. d * (q - p) = s - r
  BY <1>2, <1>3, SMT
<1>5. q - p = 0
  <2>1. CASE q - p >= 1
    <3>1. d * (q - p) >= d
      BY <1>2, <1>3, <2>1, SMT
    <3> QED BY <3>1, <1>3, <1>4, <1>2, SMT
  <2>2. CASE q - p =< 0 - 1
    <3>1. d * (q - p) =< 0 - d
      BY <1>2, <1>3, <2>2, SMT
    <3> QED BY <3>1, <1>3, <1>4, <1>2, SMT
  <2> QED BY <2>1, <2>2, <1>3, SMT
<1>6. p = q /\ s = r
  BY <1>3, <1>4, <1>5, <1>2, SMT
<1> QED BY <1>6

\* A number is its quotient and its rest.
LEMMA DividedIs ==
  ASSUME NEW n \in Int, NEW d \in Nat \ {0}
  PROVE  /\ n \div d \in Int /\ n % d \in 0 .. d - 1
         /\ n = (n \div d) * d + (n % d)
         /\ n >= 0 => n \div d >= 0
<1>1. n \div d \in Int /\ n % d \in 0 .. d - 1 /\ n = d * (n \div d) + (n % d)
  BY SMT
<1>2. d * (n \div d) = (n \div d) * d
  BY <1>1, SMT
<1>3. ASSUME n >= 0, n \div d =< 0 - 1 PROVE FALSE
  <2>1. d * (n \div d) =< 0 - d
    BY <1>1, <1>3, SMT
  <2> QED BY <2>1, <1>1, <1>3, SMT
<1> QED BY <1>1, <1>2, <1>3, SMT

\* Products keep the order.
LEMMA TimesOrdered ==
  ASSUME NEW a \in Int, NEW b \in Int, NEW c \in Nat, a =< b
  PROVE  a * c =< b * c
<1>1. b - a \in Nat
  BY SMT
<1>2. (b - a) * c \in Nat
  BY <1>1, SMT
<1>3. (b - a) * c = b * c - a * c
  BY SMT
<1> QED BY <1>2, <1>3, SMT

\* The same of natural numbers.
LEMMA NaturalDivided ==
  ASSUME NEW n \in Nat, NEW a \in Nat \ {0}
  PROVE  n \div a \in Nat /\ n % a \in 0 .. a - 1 /\ n = (n \div a) * a + (n % a)
<1>1. n \in Int /\ n >= 0
  BY SMT
<1>2. n \div a \in Int /\ n % a \in 0 .. a - 1 /\ n = (n \div a) * a + (n % a) /\ n \div a >= 0
  BY <1>1, DividedIs, Zenon
<1>3. n \div a \in Nat
  BY <1>2, SMT
<1> QED BY <1>2, <1>3

\* Dividing by one number and then by another is dividing by their product.
LEMMA DividedTwice ==
  ASSUME NEW n \in Nat, NEW a \in Nat \ {0}, NEW b \in Nat \ {0}
  PROVE  n \div (a * b) = (n \div a) \div b
<1>1. PICK q1 \in Nat, r1 \in 0 .. a - 1 : q1 = n \div a /\ r1 = n % a /\ n = q1 * a + r1
  BY NaturalDivided
<1>2. PICK q2 \in Nat, r2 \in 0 .. b - 1 : q2 = q1 \div b /\ q1 = q2 * b + r2
  BY NaturalDivided
<1>3. a * b \in Nat \ {0}
  BY SMT
<1> DEFINE r == r2 * a + r1
<1>4. r \in 0 .. a * b - 1
  <2>1. r2 * a \in Nat /\ r2 \in Int /\ b - 1 \in Int /\ r2 =< b - 1 /\ a \in Nat
    BY SMT
  <2>2. r2 * a =< (b - 1) * a
    BY <2>1, TimesOrdered
  <2>3. (b - 1) * a = a * b - a
    BY SMT
  <2>4. a * b \in Nat
    BY <1>3
  <2> HIDE <1>1, <1>2
  <2> QED BY <2>1, <2>2, <2>3, <2>4, SMT
<1>5. n = q2 * (a * b) + r
  <2>1. n = (q2 * b + r2) * a + r1
    BY <1>1, <1>2
  <2>2. (q2 * b + r2) * a = q2 * (a * b) + r2 * a
    BY SMT
  <2>3. r2 * a \in Int /\ q2 * (a * b) \in Int /\ r1 \in Int
    BY <1>3, SMT
  <2> QED BY <2>1, <2>2, <2>3, SMT
<1>6. n \div (a * b) = q2
  <2>1. q2 \in Int
    OBVIOUS
  <2> HIDE DEF r
  <2> QED BY <1>3, <1>4, <1>5, <2>1, QuotientIs, Zenon
<1> QED BY <1>1, <1>2, <1>3, <1>6

\* Multiples of the divisor change no rest.
LEMMA RestShifted ==
  ASSUME NEW d \in Nat \ {0}, NEW q \in Int, NEW x \in Int
  PROVE  (q * d + x) % d = x % d
<1>1. PICK p \in Int, r \in 0 .. d - 1 : p = x \div d /\ r = x % d /\ x = p * d + r
  BY DividedIs
<1>2. q * d + x = (q + p) * d + r
  <2>1. (q + p) * d = q * d + p * d /\ q * d \in Int /\ p * d \in Int
    BY SMT
  <2> QED BY <2>1, <1>1
<1>3. q + p \in Int
  BY SMT
<1>4. ((q + p) * d + r) % d = r
  BY <1>3, QuotientIs, Zenon
<1> QED BY <1>1, <1>2, <1>4

\* The rest of a sum is that of the rests' sum.
LEMMA RestOfSum ==
  ASSUME NEW d \in Nat \ {0}, NEW a \in Int, NEW b \in Int
  PROVE  (a + b) % d = ((a % d) + (b % d)) % d
<1>1. PICK p \in Int, r \in 0 .. d - 1 : p = a \div d /\ r = a % d /\ a = p * d + r
  BY DividedIs
<1>2. PICK q \in Int, s \in 0 .. d - 1 : q = b \div d /\ s = b % d /\ b = q * d + s
  BY DividedIs
<1>3. a + b = (p + q) * d + (r + s)
  <2>1. (p + q) * d = p * d + q * d /\ q * d \in Int /\ p * d \in Int
    BY SMT
  <2> QED BY <2>1, <1>1, <1>2
<1>4. p + q \in Int /\ r + s \in Int
  BY SMT
<1>5. ((p + q) * d + (r + s)) % d = (r + s) % d
  BY <1>4, RestShifted, Zenon
<1> QED BY <1>1, <1>2, <1>3, <1>5

\* Quotients keep the order.
LEMMA QuotientsOrdered ==
  ASSUME NEW d \in Nat \ {0}, NEW a \in Int, NEW b \in Int, a =< b
  PROVE  a \div d =< b \div d
<1>1. PICK p \in Int, r \in 0 .. d - 1 : p = a \div d /\ r = a % d /\ a = p * d + r
  BY DividedIs
<1>2. PICK q \in Int, s \in 0 .. d - 1 : q = b \div d /\ s = b % d /\ b = q * d + s
  BY DividedIs
<1>3. SUFFICES ASSUME q + 1 =< p PROVE FALSE
  BY <1>1, <1>2
<1>4. (q + 1) * d =< p * d
  <2>1. q + 1 \in Int /\ d \in Nat
    OBVIOUS
  <2> QED BY <2>1, <1>3, TimesOrdered
<1>5. (q + 1) * d = q * d + d /\ q * d \in Int /\ p * d \in Int
  BY SMT
<1> QED BY <1>1, <1>2, <1>4, <1>5

\* What is below a multiple has a quotient below its factor, and only that.
LEMMA QuotientBelow ==
  ASSUME NEW d \in Nat \ {0}, NEW n \in Int, NEW m \in Int
  PROVE  n \div d < m <=> n < m * d
<1>1. PICK q \in Int, r \in 0 .. d - 1 : q = n \div d /\ r = n % d /\ n = q * d + r
  BY DividedIs
<1>2. q * d \in Int /\ m * d \in Int /\ d \in Nat
  BY SMT
<1>3. ASSUME q < m PROVE n < m * d
  <2>1. q + 1 \in Int /\ q + 1 =< m
    BY <1>3
  <2>2. (q + 1) * d =< m * d
    BY <2>1, <1>2, TimesOrdered
  <2>3. (q + 1) * d = q * d + d
    BY SMT
  <2> QED BY <2>2, <2>3, <1>1, <1>2
<1>4. ASSUME ~ q < m PROVE ~ n < m * d
  <2>1. m =< q
    BY <1>4
  <2>2. m * d =< q * d
    BY <2>1, <1>2, TimesOrdered
  <2> QED BY <2>2, <1>1, <1>2
<1> QED BY <1>1, <1>3, <1>4

\* A rest is reduced further by a divisor of the divisor.
LEMMA RestOfRest ==
  ASSUME NEW a \in Nat \ {0}, NEW s \in Nat \ {0}, NEW n \in Int
  PROVE  (n % (a * s)) % s = n % s
<1>1. a * s \in Nat \ {0}
  BY SMT
<1>2. PICK q \in Int, r \in 0 .. a * s - 1 : q = n \div (a * s) /\ r = n % (a * s) /\ n = q * (a * s) + r
  BY <1>1, DividedIs
<1>3. q * (a * s) = (q * a) * s /\ q * a \in Int /\ r \in Int
  BY <1>1, SMT
<1>4. ((q * a) * s + r) % s = r % s
  BY <1>3, RestShifted, Zenon
<1> QED BY <1>2, <1>3, <1>4

-----------------------------------------------------------------------------
\* Of numbers given to the members of a set one is the least.
LEMMA LeastExists ==
  ASSUME NEW S, S # {}, NEW f \in [S -> Nat]
  PROVE  \E m \in S : \A k \in S : f[m] =< f[k]
<1> DEFINE T == {f[x] : x \in S}
<1>1. T \subseteq Nat /\ T # {}
  OBVIOUS
<1>2. PICK x \in T : \A y \in T : ~(<<y, x>> \in OpToRel(<, Nat))
  BY <1>1, NatLessThanWellFounded, WFMin, Zenon
<1>3. \A y \in T : ~(y < x)
  BY <1>1, <1>2 DEF OpToRel
<1>4. PICK m \in S : f[m] = x
  OBVIOUS
<1>5. ASSUME NEW k \in S PROVE f[m] =< f[k]
  <2>1. f[k] \in Nat /\ f[m] \in Nat /\ ~(f[k] < f[m])
    BY <1>3, <1>4
  <2> QED BY <2>1, SMT
<1> QED BY <1>5


=============================================================================
