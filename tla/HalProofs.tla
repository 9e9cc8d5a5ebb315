------------------------------ MODULE HalProofs ------------------------------
(***************************************************************************)
(* The machine's own routines are right for words of every width and       *)
(* timers of every period.                                                 *)
(*                                                                         *)
(* The 32-bit divisions of ArmDiv: on the way down what is left of the     *)
(* dividend is its remainder by the divisor shifted one place beyond the   *)
(* last one tested, and the result is the quotient by it.                  *)
(*                                                                         *)
(* The delays of Delay: udelay is never early and, unless asked for too    *)
(* long a delay, never late; the inductive invariant relates the time      *)
(* counted to the time that has passed through every wrap of the counter.  *)
(***************************************************************************)
EXTENDS ArmDiv, Delay, SeqLemmas, FiniteSetTheorems, TLAPS

-----------------------------------------------------------------------------
(* Arithmetic                                                              *)

\* Euclid's division, and that there is only one.
LEMMA Euclid ==
    ASSUME NEW x \in Nat, NEW c \in Nat \ {0}
    PROVE  /\ x \div c \in Nat /\ x % c \in Nat /\ x % c < c
           /\ x = (x \div c) * c + (x % c)
OBVIOUS

\* There is no other quotient and remainder.
LEMMA EuclidUnique ==
    ASSUME NEW x \in Nat, NEW c \in Nat \ {0}, NEW q \in Nat, NEW r \in Nat,
           x = q * c + r, r < c
    PROVE  x \div c = q /\ x % c = r
<1> DEFINE p == x \div c
           s == x % c
<1>1. p \in Nat /\ s \in Nat /\ s < c /\ x = p * c + s
      BY Euclid
<1> HIDE DEF p, s
<1>2. ~(p < q)
  <2>1. SUFFICES ASSUME p < q PROVE FALSE
        OBVIOUS
  <2>2. PICK k \in Nat : q = p + 1 + k
    <3>1. q - p - 1 \in Nat /\ q = p + 1 + (q - p - 1)
          BY <1>1, <2>1
    <3> QED BY <3>1
  <2>3. q * c = p * c + c + k * c /\ k * c \in Nat /\ p * c \in Nat
        BY <2>2, <1>1
  <2> QED BY <2>3, <1>1
<1>3. ~(q < p)
  <2>1. SUFFICES ASSUME q < p PROVE FALSE
        OBVIOUS
  <2>2. PICK k \in Nat : p = q + 1 + k
    <3>1. p - q - 1 \in Nat /\ p = q + 1 + (p - q - 1)
          BY <1>1, <2>1
    <3> QED BY <3>1
  <2>3. p * c = q * c + c + k * c /\ k * c \in Nat /\ q * c \in Nat
        BY <2>2, <1>1
  <2> QED BY <2>3, <1>1
<1>4. p = q
      BY <1>1, <1>2, <1>3
<1>5. p * c \in Nat /\ p * c = q * c
      BY <1>1, <1>4
<1>6. s = r
      BY <1>1, <1>5
<1> QED BY <1>4, <1>6 DEF p, s

\* Quotient and remainder by half of a divisor.
LEMMA HalfDivisor ==
    ASSUME NEW x \in Nat, NEW c \in Nat \ {0}
    PROVE  /\ x % (2 * c) \in Nat /\ x \div (2 * c) \in Nat
           /\ x % (2 * c) >= c => x % c = (x % (2 * c)) - c /\ x \div c = 2 * (x \div (2 * c)) + 1
           /\ x % (2 * c) < c  => x % c = x % (2 * c) /\ x \div c = 2 * (x \div (2 * c))
<1> DEFINE d == 2 * c
           q == x \div d
           r == x % d
<1>1. d \in Nat \ {0} /\ d = c + c
      OBVIOUS
<1>2. q \in Nat /\ r \in Nat /\ r < d /\ x = q * d + r
      BY <1>1, Euclid
<1> HIDE DEF d, q, r
<1>3. q * d = (2 * q) * c /\ (2 * q + 1) * c = (2 * q) * c + c /\ (2 * q) * c \in Nat /\ 2 * q \in Nat
      BY <1>1, <1>2
<1>4. ASSUME r >= c PROVE x % c = r - c /\ x \div c = 2 * q + 1
  <2>1. x = (2 * q + 1) * c + (r - c) /\ r - c \in Nat /\ r - c < c /\ 2 * q + 1 \in Nat
        BY <1>1, <1>2, <1>3, <1>4
  <2> QED BY <2>1, EuclidUnique
<1>5. ASSUME r < c PROVE x % c = r /\ x \div c = 2 * q
  <2>1. x = (2 * q) * c + r
        BY <1>2, <1>3
  <2> QED BY <2>1, <1>2, <1>3, <1>5, EuclidUnique
<1> QED BY <1>2, <1>4, <1>5 DEF d, q, r

\* The product of a number and a power of two, halved.
LEMMA HalfProduct ==
    ASSUME NEW x \in Nat, NEW n \in Nat
    PROVE  /\ x * 2 ^ n \in Nat
           /\ x # 0 => x * 2 ^ n # 0
           /\ x * 2 ^ (n + 1) = 2 * (x * 2 ^ n)
<1> DEFINE p == 2 ^ n
<1>1. p \in Nat \ {0} /\ 2 ^ (n + 1) = 2 * p
      BY TwoExp
<1> HIDE DEF p
<1>2. x * p \in Nat /\ x * (2 * p) = 2 * (x * p) /\ (x # 0 => x * p # 0)
      BY <1>1
<1> QED BY <1>1, <1>2 DEF p

-----------------------------------------------------------------------------
(* Shifts                                                                  *)

\* The bounds of the words that the loops test.
LEMMA WordFacts ==
    /\ W \in Nat /\ W >= 4 /\ W <= 32
    /\ 2 ^ W \in Nat /\ 2 ^ W >= 16
    /\ 2 ^ W = 2 * 2 ^ (W - 1) /\ 2 ^ W = 8 * 2 ^ (W - 3) /\ 2 ^ W = 16 * 2 ^ (W - 4)
    /\ 2 ^ (W - 1) \in Nat /\ 2 ^ (W - 3) \in Nat \ {0} /\ 2 ^ (W - 4) \in Nat \ {0}
<1>1. W \in Nat /\ W >= 4 /\ W <= 32
      BY WordAssumption
<1>2. /\ W - 1 \in Nat /\ W - 2 \in Nat /\ W - 3 \in Nat /\ W - 4 \in Nat
      /\ (W - 1) + 1 = W /\ (W - 2) + 1 = W - 1 /\ (W - 3) + 1 = W - 2 /\ (W - 4) + 1 = W - 3
      BY <1>1
<1>3. /\ 2 ^ (W - 4) \in Nat \ {0} /\ 2 ^ (W - 3) = 2 * 2 ^ (W - 4)
      /\ 2 ^ (W - 2) = 2 * 2 ^ (W - 3) /\ 2 ^ (W - 1) = 2 * 2 ^ (W - 2) /\ 2 ^ W = 2 * 2 ^ (W - 1)
      BY <1>2, TwoExp
<1> DEFINE p == 2 ^ (W - 4)
<1> HIDE DEF p
<1>4. /\ p \in Nat \ {0} /\ 2 ^ (W - 3) = 2 * p /\ 2 ^ (W - 2) = 4 * p
      /\ 2 ^ (W - 1) = 8 * p /\ 2 ^ W = 16 * p
      BY <1>3 DEF p
<1> QED BY <1>1, <1>4 DEF p

\* A shift up that stays below 2^W loses nothing.
LEMMA LslIs ==
    ASSUME NEW x \in Nat, NEW k \in Nat, x * 2 ^ k < 2 ^ W
    PROVE  Lsl(x, k) = x * 2 ^ k
<1>1. x * 2 ^ k \in Nat
      BY HalfProduct
<1>2. \A y \in Nat, z \in Nat : y < z => y % z = y
      OBVIOUS
<1> QED BY <1>1, <1>2, WordFacts DEF Lsl

\* A number shifted up and down again.
LEMMA LsrIs ==
    ASSUME NEW x \in Nat, NEW n \in Nat, NEW k \in 0 .. n
    PROVE  Lsr(x * 2 ^ n, k) = x * 2 ^ (n - k)
<1>1. n - k \in Nat /\ k \in Nat /\ n = (n - k) + k
      OBVIOUS
<1>2. 2 ^ n = 2 ^ (n - k) * 2 ^ k
      BY <1>1, TwoSum
<1> DEFINE p == 2 ^ (n - k)
           t == 2 ^ k
<1>3. p \in Nat /\ t \in Nat \ {0}
      BY <1>1, TwoExp
<1>4. 2 ^ n = p * t
      BY <1>2
<1> HIDE DEF p, t
<1>5. x * (p * t) = (x * p) * t + 0 /\ x * p \in Nat /\ x * (p * t) \in Nat
      BY <1>3
<1>6. (x * (p * t)) \div t = x * p
      BY <1>3, <1>5, EuclidUnique
<1> QED BY <1>4, <1>6 DEF p, t, Lsr

\* A shift down gives a word.
LEMMA LsrTyped ==
    ASSUME NEW x \in Words, NEW k \in Nat
    PROVE  Lsr(x, k) \in Words
<1>1. 2 ^ k \in Nat \ {0} /\ x \in Nat
      BY TwoExp, WordFacts DEF Words
<1>2. \A y \in Nat, z \in Nat \ {0} : y \div z \in Nat /\ y \div z <= y
  <2> TAKE y \in Nat, z \in Nat \ {0}
  <2> DEFINE q == y \div z
  <2>1. q \in Nat /\ y % z \in Nat /\ y = q * z + (y % z)
        BY Euclid
  <2> HIDE DEF q
  <2>2. q * z >= q /\ q * z \in Nat
        BY <2>1
  <2> QED BY <2>1, <2>2 DEF q
<1> QED BY <1>1, <1>2, WordFacts DEF Lsr, Words

\* One narrowing of ARM_DIV2_ORDER moves its shift from the exponent to the order.
LEMMA NarrowIs ==
    ASSUME NEW a \in Nat, NEW o \in Nat, NEW k \in Nat
    PROVE  Narrow([d |-> 2 ^ a, order |-> o], k)
               = IF a >= k THEN [d |-> 2 ^ (a - k), order |-> o + k] ELSE [d |-> 2 ^ a, order |-> o]
<1>1. CASE a >= k
  <2>1. 2 ^ a >= 2 ^ k
        BY <1>1, TwoRises, TwoExp
  <2>2. k \in 0 .. a /\ 2 ^ a = 1 * 2 ^ a /\ a - k \in Nat
        BY <1>1, TwoExp
  <2>3. Lsr(2 ^ a, k) = 1 * 2 ^ (a - k)
    <3>1. Lsr(1 * 2 ^ a, k) = 1 * 2 ^ (a - k)
          BY <2>2, LsrIs
    <3> QED BY <3>1, <2>2
  <2>4. 1 * 2 ^ (a - k) = 2 ^ (a - k)
        BY <2>2, TwoExp
  <2> QED BY <1>1, <2>1, <2>3, <2>4 DEF Narrow
<1>2. CASE ~(a >= k)
  <2>1. 2 ^ (a + 1) <= 2 ^ k /\ 2 ^ (a + 1) = 2 * 2 ^ a /\ 2 ^ a \in Nat \ {0} /\ 2 ^ k \in Nat
        BY <1>2, TwoRises, TwoExp
  <2>2. ~(2 ^ a >= 2 ^ k)
        BY <2>1
  <2> QED BY <1>2, <2>2 DEF Narrow
<1> QED BY <1>1, <1>2

\* ARM_DIV2_ORDER finds the exponent of a power of two.
LEMMA OrderIs ==
    ASSUME NEW k \in 0 .. 31
    PROVE  Order(2 ^ k) = k
<1> DEFINE R(a, o) == [d |-> 2 ^ a, order |-> o]
           a1 == IF k >= 16 THEN k - 16 ELSE k
           a2 == IF a1 >= 8 THEN a1 - 8 ELSE a1
           a3 == IF a2 >= 4 THEN a2 - 4 ELSE a2
<1>1. a1 \in 0 .. 15 /\ a2 \in 0 .. 7 /\ a3 \in 0 .. 3
      OBVIOUS
<1>2. Narrow(R(k, 0), 16) = R(a1, k - a1)
  <2>1. Narrow(R(k, 0), 16) = IF k >= 16 THEN R(k - 16, 0 + 16) ELSE R(k, 0)
        BY NarrowIs
  <2> QED BY <2>1
<1>3. Narrow(R(a1, k - a1), 8) = R(a2, k - a2)
  <2>1. a1 \in Nat /\ k - a1 \in Nat
        OBVIOUS
  <2>2. Narrow(R(a1, k - a1), 8) = IF a1 >= 8 THEN R(a1 - 8, (k - a1) + 8) ELSE R(a1, k - a1)
        BY <2>1, NarrowIs
  <2> QED BY <2>2, <1>1
<1>4. Narrow(R(a2, k - a2), 4) = R(a3, k - a3)
  <2>1. a2 \in Nat /\ k - a2 \in Nat
        OBVIOUS
  <2>2. Narrow(R(a2, k - a2), 4) = IF a2 >= 4 THEN R(a2 - 4, (k - a2) + 4) ELSE R(a2, k - a2)
        BY <2>1, NarrowIs
  <2> QED BY <2>2, <1>1
<1> HIDE DEF a1, a2, a3
<1>5. Narrow(Narrow(Narrow([d |-> 2 ^ k, order |-> 0], 16), 8), 4) = [d |-> 2 ^ a3, order |-> k - a3]
      BY <1>2, <1>3, <1>4
<1>6. Order(2 ^ k) = (k - a3) + (IF 2 ^ a3 > 4 THEN 3 ELSE Lsr(2 ^ a3, 1))
      BY <1>5 DEF Order
<1>7. /\ 2 ^ 0 = 1 /\ 2 ^ 1 = 2 /\ 2 ^ 2 = 4 /\ 2 ^ 3 = 8
      OBVIOUS
<1>8. a3 = 0 \/ a3 = 1 \/ a3 = 2 \/ a3 = 3
      BY <1>1
<1>9. (IF 2 ^ a3 > 4 THEN 3 ELSE Lsr(2 ^ a3, 1)) = a3
  <2>1. 1 \div 2 = 0 /\ 2 \div 2 = 1 /\ 4 \div 2 = 2 /\ ~(1 > 4) /\ ~(2 > 4) /\ ~(4 > 4) /\ 8 > 4
        OBVIOUS
  <2>2. CASE a3 = 0
        BY <2>1, <2>2, <1>7 DEF Lsr
  <2>3. CASE a3 = 1
        BY <2>1, <2>3, <1>7 DEF Lsr
  <2>4. CASE a3 = 2
        BY <2>1, <2>4, <1>7 DEF Lsr
  <2>5. CASE a3 = 3
        BY <2>1, <2>5, <1>7
  <2> QED BY <2>2, <2>3, <2>4, <2>5, <1>8
<1> QED BY <1>6, <1>8, <1>9

\* Setting the bit below the lowest of a number.
LEMMA OrrIs ==
    ASSUME NEW r \in Nat, NEW k \in Nat
    PROVE  Orr(r * 2 ^ (k + 1), k) = (2 * r + 1) * 2 ^ k
<1>1. k \in 0 .. (k + 1) /\ (k + 1) - k = 1 /\ k + 1 \in Nat
      OBVIOUS
<1>2. Lsr(r * 2 ^ (k + 1), k) = r * 2 ^ 1
      BY <1>1, LsrIs
<1>3. (r * 2 ^ 1) % 2 = 0
  <2>1. 2 ^ 1 = 2
        OBVIOUS
  <2>2. r * 2 = r * 2 + 0 /\ r * 2 \in Nat
        OBVIOUS
  <2>3. (r * 2) % 2 = 0
        BY <2>2, EuclidUnique
  <2> QED BY <2>1, <2>3
<1>4. Orr(r * 2 ^ (k + 1), k) = r * 2 ^ (k + 1) + 2 ^ k
      BY <1>2, <1>3 DEF Orr
<1>5. 2 ^ (k + 1) = 2 * 2 ^ k /\ 2 ^ k \in Nat
      BY TwoExp
<1>6. \A p \in Nat : r * (2 * p) + p = (2 * r + 1) * p
      OBVIOUS
<1> QED BY <1>4, <1>5, <1>6

-----------------------------------------------------------------------------
(* The tests of a turn                                                     *)

\* What is left of x, and the quotient, when all places from p on have been tested.
Rest(x, y, p) == x % (y * 2 ^ p)
Quot(x, y, p) == (x \div (y * 2 ^ p)) * 2 ^ p

\* A test that the divisor is shifted down for without losing a bit.
LEMMA TestAbove ==
    ASSUME NEW x \in Nat, NEW y \in Nat \ {0}, NEW p \in Nat, NEW k \in Nat,
           divisor = y * 2 ^ (p + k),
           NEW s, s.rem = Rest(x, y, p + 1)
    PROVE  /\ Test(s, k).rem = Rest(x, y, p)
           /\ bit = p + k /\ s.res = Quot(x, y, p + 1) => Test(s, k).res = Quot(x, y, p)
<1> DEFINE c == y * 2 ^ p
<1>1. c \in Nat \ {0} /\ y * 2 ^ (p + 1) = 2 * c
      BY HalfProduct
<1>2. Lsr(divisor, k) = c
  <2>1. k \in 0 .. (p + k) /\ p + k \in Nat /\ (p + k) - k = p
        OBVIOUS
  <2> QED BY <2>1, LsrIs
<1> DEFINE r == x % (2 * c)
           q == x \div (2 * c)
<1>3. s.rem = r /\ Rest(x, y, p) = x % c
      BY <1>1 DEF Rest
<1>4. Quot(x, y, p + 1) = q * 2 ^ (p + 1) /\ Quot(x, y, p) = (x \div c) * 2 ^ p
      BY <1>1 DEF Quot
<1>5. /\ r \in Nat /\ q \in Nat
      /\ r >= c => x % c = r - c /\ x \div c = 2 * q + 1
      /\ r < c  => x % c = r /\ x \div c = 2 * q
      BY <1>1, HalfDivisor
<1> HIDE DEF c, r, q
<1>6. CASE r >= c
  <2>1. Test(s, k) = [rem |-> r - c, res |-> Orr(s.res, bit - k), hits |-> s.hits \cup {k}]
        BY <1>2, <1>3, <1>6 DEF Test
  <2>2. ASSUME bit = p + k, s.res = Quot(x, y, p + 1)
        PROVE  Test(s, k).res = Quot(x, y, p)
    <3>1. bit - k = p
          BY <2>2
    <3>2. Orr(q * 2 ^ (p + 1), p) = (2 * q + 1) * 2 ^ p
          BY <1>5, OrrIs
    <3> QED BY <3>1, <3>2, <2>1, <2>2, <1>4, <1>5, <1>6
  <2> QED BY <2>1, <2>2, <1>3, <1>5, <1>6
<1>7. CASE ~(r >= c)
  <2>1. Test(s, k) = s /\ x % c = r /\ x \div c = 2 * q
        BY <1>1, <1>2, <1>3, <1>5, <1>7 DEF Test
  <2>2. q * 2 ^ (p + 1) = (2 * q) * 2 ^ p
    <3>1. 2 ^ (p + 1) = 2 * 2 ^ p /\ 2 ^ p \in Nat
          BY TwoExp
    <3>2. \A t \in Nat : q * (2 * t) = (2 * q) * t
          BY <1>5
    <3> QED BY <3>1, <3>2
  <2> QED BY <2>1, <2>2, <1>3, <1>4
<1> QED BY <1>6, <1>7

\* A test below the lowest place leaves the result alone.
LEMMA TestBelow ==
    ASSUME NEW k \in Nat, bit - k < 0, NEW s
    PROVE  Test(s, k).res = s.res
BY DEF Test, Orr

\* Before any test, after the last one, and when nothing is left.
LEMMA RestFirst ==
    ASSUME NEW x \in Nat, NEW y \in Nat \ {0}, NEW p \in Nat, x < 2 * (y * 2 ^ p)
    PROVE  Rest(x, y, p + 1) = x /\ Quot(x, y, p + 1) = 0
<1> DEFINE c == y * 2 ^ (p + 1)
<1>1. c \in Nat \ {0} /\ x < c
      BY HalfProduct
<1> HIDE DEF c
<1>2. x = 0 * c + x
      BY <1>1
<1>3. x \div c = 0 /\ x % c = x
      BY <1>1, <1>2, EuclidUnique
<1>4. 0 * 2 ^ (p + 1) = 0
      BY TwoExp
<1> QED BY <1>3, <1>4 DEF Rest, Quot, c

\* After the last place: remainder and quotient.
LEMMA RestLast ==
    ASSUME NEW x \in Nat, NEW y \in Nat \ {0}
    PROVE  Rest(x, y, 0) = x % y /\ Quot(x, y, 0) = x \div y
<1>1. 2 ^ 0 = 1 /\ y * 1 = y /\ (x \div y) * 1 = x \div y
      BY Euclid
<1> QED BY <1>1 DEF Rest, Quot

\* When nothing is left, the places below are 0: remainder and quotient, too.
LEMMA RestNothing ==
    ASSUME NEW x \in Nat, NEW y \in Nat \ {0}, NEW p \in Nat, Rest(x, y, p) = 0
    PROVE  x % y = 0 /\ Quot(x, y, p) = x \div y
<1> DEFINE c == y * 2 ^ p
           t == 2 ^ p
           q == x \div c
<1>1. c \in Nat \ {0} /\ t \in Nat /\ c = y * t
      BY HalfProduct, TwoExp
<1>2. x % c = 0 /\ Quot(x, y, p) = q * t
      BY DEF Rest, Quot
<1>3. q \in Nat /\ x = q * c + (x % c)
      BY <1>1, Euclid
<1> HIDE DEF c, t, q
<1>4. q * c = (q * t) * y /\ q * t \in Nat /\ q * c \in Nat
      BY <1>1, <1>3
<1>5. x = (q * t) * y + 0 /\ q * t \in Nat
      BY <1>2, <1>3, <1>4
<1>6. x \div y = q * t /\ x % y = 0
      BY <1>5, EuclidUnique
<1> QED BY <1>2, <1>6

\* What is left is below the place tested last.
LEMMA RestTyped ==
    ASSUME NEW x \in Nat, NEW y \in Nat \ {0}, NEW p \in Nat
    PROVE  Rest(x, y, p) \in Nat /\ Rest(x, y, p) < y * 2 ^ p /\ Rest(x, y, p) <= x /\ Quot(x, y, p) \in Nat
<1> DEFINE c == y * 2 ^ p
           t == 2 ^ p
           q == x \div c
           r == x % c
<1>1. c \in Nat \ {0} /\ t \in Nat
      BY HalfProduct, TwoExp
<1>2. q \in Nat /\ r \in Nat /\ r < c /\ x = q * c + r
      BY <1>1, Euclid
<1>3. Rest(x, y, p) = r /\ Quot(x, y, p) = q * t
      BY DEF Rest, Quot
<1> HIDE DEF c, t, q, r
<1>4. q * c \in Nat /\ q * t \in Nat
      BY <1>1, <1>2
<1>5. r <= x
      BY <1>2, <1>4
<1> QED BY <1>2, <1>3, <1>4, <1>5 DEF c

\* A turn is its tests, one after the other.
LEMMA TrySteps ==
    /\ Try(0) = Test([rem |-> dividend, res |-> result, hits |-> {}], 0)
    /\ Try(1) = Test(Try(0), 1) /\ Try(2) = Test(Try(1), 2) /\ Try(3) = Test(Try(2), 3)
BY DEF Try

\* What is left, and the result, after the tests of a turn that lose no bit.
LEMMA TryAbove ==
    ASSUME NEW x \in Nat, NEW y \in Nat \ {0}, NEW b \in Nat,
           divisor = y * 2 ^ b, dividend = Rest(x, y, b + 1)
    PROVE  \A k \in 0 .. 3 : k <= b =>
               /\ Try(k).rem = Rest(x, y, b - k)
               /\ bit = b /\ result = Quot(x, y, b + 1) => Try(k).res = Quot(x, y, b - k)
<1> DEFINE s == [rem |-> dividend, res |-> result, hits |-> {}]
           Good(k) == /\ Try(k).rem = Rest(x, y, b - k)
                      /\ bit = b /\ result = Quot(x, y, b + 1) => Try(k).res = Quot(x, y, b - k)
<1>0. ASSUME NEW t, NEW k \in 0 .. 3, k <= b, Try(k) = Test(t, k),
             t.rem = Rest(x, y, (b - k) + 1),
             bit = b /\ result = Quot(x, y, b + 1) => t.res = Quot(x, y, (b - k) + 1)
      PROVE  Good(k)
  <2> DEFINE p == b - k
  <2>1. p \in Nat /\ k \in Nat /\ p + k = b
        BY <1>0
  <2>2. divisor = y * 2 ^ (p + k) /\ t.rem = Rest(x, y, p + 1)
        BY <2>1, <1>0
  <2> HIDE DEF p
  <2>3. /\ Test(t, k).rem = Rest(x, y, p)
        /\ bit = p + k /\ t.res = Quot(x, y, p + 1) => Test(t, k).res = Quot(x, y, p)
        BY <2>1, <2>2, TestAbove
  <2> QED BY <2>1, <2>3, <1>0 DEF p
<1>1. Good(0)
  <2>1. (b - 0) + 1 = b + 1 /\ 0 \in 0 .. 3 /\ 0 <= b /\ s.rem = dividend /\ s.res = result
        OBVIOUS
  <2>2. Try(0) = Test(s, 0)
        BY TrySteps
  <2> HIDE DEF s, Good
  <2> QED BY <2>1, <2>2, <1>0
<1>2. ASSUME NEW k \in 0 .. 2, k + 1 <= b, Good(k), Try(k + 1) = Test(Try(k), k + 1)
      PROVE  Good(k + 1)
  <2> DEFINE t == Try(k)
  <2>1. k + 1 \in 0 .. 3 /\ (b - (k + 1)) + 1 = b - k
        BY <1>2
  <2>2. /\ t.rem = Rest(x, y, b - k)
        /\ bit = b /\ result = Quot(x, y, b + 1) => t.res = Quot(x, y, b - k)
        BY <1>2
  <2> HIDE DEF t, Good
  <2> QED BY <2>1, <2>2, <1>0, <1>2 DEF t
<1> HIDE DEF Good
<1>3. 1 <= b => Good(1)
  <2>1. 0 \in 0 .. 2 /\ 0 + 1 = 1
        OBVIOUS
  <2> QED BY <2>1, <1>1, <1>2, TrySteps
<1>4. 2 <= b => Good(2)
  <2>1. 1 \in 0 .. 2 /\ 1 + 1 = 2 /\ (2 <= b => 1 <= b)
        OBVIOUS
  <2> QED BY <2>1, <1>3, <1>2, TrySteps
<1>5. 3 <= b => Good(3)
  <2>1. 2 \in 0 .. 2 /\ 2 + 1 = 3 /\ (3 <= b => 2 <= b)
        OBVIOUS
  <2> QED BY <2>1, <1>4, <1>2, TrySteps
<1>6. \A k \in 0 .. 3 : k = 0 \/ k = 1 \/ k = 2 \/ k = 3
      OBVIOUS
<1>7. \A k \in 0 .. 3 : k <= b => Good(k)
      BY <1>1, <1>3, <1>4, <1>5, <1>6
<1> QED BY <1>7 DEF Good

\* The result after a turn: no test below the lowest place changes it.
LEMMA TryResult ==
    ASSUME NEW x \in Nat, NEW y \in Nat \ {0}, bit \in Nat,
           divisor = y * 2 ^ bit, dividend = Rest(x, y, bit + 1), result = Quot(x, y, bit + 1)
    PROVE  Try(3).res = Quot(x, y, IF bit < 3 THEN 0 ELSE bit - 3)
<1>1. \A k \in 0 .. 3 : k <= bit => Try(k).res = Quot(x, y, bit - k)
      BY TryAbove
<1>2. CASE bit >= 3
      BY <1>1, <1>2
<1>3. CASE bit < 3
  <2>1. Try(bit).res = Quot(x, y, 0)
        BY <1>1, <1>3
  <2>2. 2 > bit => Try(2).res = Try(1).res
        BY TestBelow, TrySteps
  <2>3. 1 > bit => Try(1).res = Try(0).res
        BY TestBelow, TrySteps
  <2>4. Try(3).res = Try(2).res
        BY TestBelow, TrySteps, <1>3
  <2>5. bit = 0 \/ bit = 1 \/ bit = 2
        BY <1>3
  <2> QED BY <2>1, <2>2, <2>3, <2>4, <2>5, <1>3
<1> QED BY <1>2, <1>3

\* What each test of a turn takes off.
Taken(k) == IF k \in Try(3).hits THEN Lsr(divisor, k) ELSE 0

\* What is left before a test is what is left after it and what it takes off.
LEMMA TryTakes ==
    ASSUME dividend \in Nat, divisor \in Words
    PROVE  /\ Try(3).hits \subseteq 0 .. 3
           /\ \A k \in 0 .. 3 : Try(k).rem \in Nat /\ Try(k).rem <= dividend /\ Taken(k) \in Nat
           /\ Try(0).rem = Try(1).rem + Taken(1)
           /\ Try(1).rem = Try(2).rem + Taken(2)
           /\ Try(2).rem = Try(3).rem + Taken(3)
<1> DEFINE s == [rem |-> dividend, res |-> result, hits |-> {}]
           L(k) == Lsr(divisor, k)
<1>1. L(0) \in Nat /\ L(1) \in Nat /\ L(2) \in Nat /\ L(3) \in Nat
  <2>1. L(0) \in Words /\ L(1) \in Words /\ L(2) \in Words /\ L(3) \in Words
        BY LsrTyped
  <2> HIDE DEF L
  <2> QED BY <2>1 DEF Words
<1>2. ASSUME NEW t, NEW k, t.rem \in Nat, L(k) \in Nat
      PROVE  /\ Test(t, k).rem \in Nat /\ Test(t, k).rem <= t.rem
             /\ \/ Test(t, k).hits = t.hits /\ Test(t, k).rem = t.rem
                \/ Test(t, k).hits = t.hits \cup {k} /\ t.rem = Test(t, k).rem + L(k)
  <2>1. CASE t.rem >= L(k)
    <3>1. Test(t, k).rem = t.rem - L(k) /\ Test(t, k).hits = t.hits \cup {k}
          BY <2>1 DEF Test
    <3> QED BY <3>1, <2>1, <1>2
  <2>2. CASE ~(t.rem >= L(k))
    <3>1. Test(t, k) = t
          BY <2>2 DEF Test
    <3> QED BY <3>1, <1>2
  <2> QED BY <2>1, <2>2
<1> HIDE DEF L
<1>3. /\ Try(0).rem \in Nat /\ Try(0).rem <= dividend
      /\ Try(0).hits \subseteq {0}
  <2>1. s.rem = dividend /\ s.hits = {}
        OBVIOUS
  <2> QED BY <2>1, <1>1, <1>2, TrySteps
<1>4. /\ Try(1).rem \in Nat /\ Try(1).rem <= Try(0).rem
      /\ \/ Try(1).hits = Try(0).hits /\ Try(1).rem = Try(0).rem
         \/ Try(1).hits = Try(0).hits \cup {1} /\ Try(0).rem = Try(1).rem + L(1)
      BY <1>1, <1>2, <1>3, TrySteps
<1>5. /\ Try(2).rem \in Nat /\ Try(2).rem <= Try(1).rem
      /\ \/ Try(2).hits = Try(1).hits /\ Try(2).rem = Try(1).rem
         \/ Try(2).hits = Try(1).hits \cup {2} /\ Try(1).rem = Try(2).rem + L(2)
      BY <1>1, <1>2, <1>4, TrySteps
<1>6. /\ Try(3).rem \in Nat /\ Try(3).rem <= Try(2).rem
      /\ \/ Try(3).hits = Try(2).hits /\ Try(3).rem = Try(2).rem
         \/ Try(3).hits = Try(2).hits \cup {3} /\ Try(2).rem = Try(3).rem + L(3)
      BY <1>1, <1>2, <1>5, TrySteps
<1>7. /\ Try(3).hits \subseteq 0 .. 3
      /\ 1 \in Try(3).hits <=> 1 \in Try(1).hits
      /\ 2 \in Try(3).hits <=> 2 \in Try(2).hits
      /\ 1 \notin Try(0).hits /\ 2 \notin Try(1).hits /\ 3 \notin Try(2).hits
      BY <1>3, <1>4, <1>5, <1>6
<1>8. Taken(1) = IF 1 \in Try(1).hits THEN L(1) ELSE 0
      BY <1>7 DEF Taken, L
<1>9. Taken(2) = IF 2 \in Try(2).hits THEN L(2) ELSE 0
      BY <1>7 DEF Taken, L
<1>10. Taken(3) = IF 3 \in Try(3).hits THEN L(3) ELSE 0
      BY DEF Taken, L
<1>11. Try(0).rem = Try(1).rem + Taken(1)
      BY <1>3, <1>4, <1>7, <1>8
<1>12. Try(1).rem = Try(2).rem + Taken(2)
      BY <1>4, <1>5, <1>7, <1>9
<1>13. Try(2).rem = Try(3).rem + Taken(3)
      BY <1>5, <1>6, <1>7, <1>10
<1>14. Taken(0) \in Nat /\ Taken(1) \in Nat /\ Taken(2) \in Nat /\ Taken(3) \in Nat
      BY <1>1 DEF Taken, L
<1>15. \A k \in 0 .. 3 : k = 0 \/ k = 1 \/ k = 2 \/ k = 3
      OBVIOUS
<1>16. \A k \in 0 .. 3 : Try(k).rem \in Nat /\ Try(k).rem <= dividend /\ Taken(k) \in Nat
      BY <1>3, <1>4, <1>5, <1>6, <1>14, <1>15
<1> QED BY <1>7, <1>11, <1>12, <1>13, <1>16

-----------------------------------------------------------------------------
(* Signs                                                                   *)

\* The remainder of a negative number.
LEMMA NegativeMod ==
    ASSUME NEW P \in Nat \ {0}, NEW q \in 1 .. (P - 1)
    PROVE  (-q) % P = P - q
OBVIOUS

\* A word is its own remainder.
LEMMA WordTyped == \A x \in Words : x \in Nat /\ x < 2 ^ W /\ x % 2 ^ W = x
<1> DEFINE P == 2 ^ W
<1>1. P \in Nat /\ P >= 16
      BY WordFacts
<1> HIDE DEF P
<1>2. \A x \in 0 .. (P - 1) : x \in Nat /\ x < P /\ x % P = x
      BY <1>1
<1> QED BY <1>2 DEF P, Words

\* What is below 2^W is a word.
LEMMA InWords == \A x \in Nat : x < 2 ^ W => x \in Words
BY WordFacts DEF Words

\* The word that stands for the negative of a number.
LEMMA NegIs ==
    ASSUME NEW x \in Words
    PROVE  /\ Neg(x) = AsWord(-x) /\ Neg(x) \in Words
           /\ x # 0 => Neg(x) = 2 ^ W - x
<1> DEFINE P == 2 ^ W
<1>1. P \in Nat \ {0} /\ x \in 0 .. (P - 1) /\ x \in Words
      BY WordFacts DEF Words
<1>2. Neg(x) = (P - x) % P /\ AsWord(-x) = (-x) % P
      BY DEF Neg, AsWord
<1> HIDE DEF P
<1>3. CASE x = 0
  <2>1. P - x = P
        BY <1>1, <1>3
  <2>2. P % P = 0
    <3>1. P = 1 * P + 0
          BY <1>1
    <3> QED BY <3>1, <1>1, EuclidUnique
  <2>3. (-x) % P = 0
        BY <1>1, <1>3
  <2>4. Neg(x) = 0 /\ AsWord(-x) = 0
        BY <1>2, <2>1, <2>2, <2>3
  <2>5. 0 \in Words
        BY <1>1, <1>3
  <2> QED BY <2>4, <2>5, <1>3
<1>4. CASE x # 0
  <2>1. P - x \in 0 .. (P - 1) /\ x \in 1 .. (P - 1)
        BY <1>1, <1>4
  <2>2. (-x) % P = P - x
        BY <2>1, <1>1, NegativeMod
  <2>3. (P - x) % P = P - x
        BY <2>1, <1>1
  <2>4. Neg(x) = P - x /\ AsWord(-x) = P - x
        BY <1>2, <2>2, <2>3
  <2> QED BY <2>1, <2>4 DEF P, Words
<1> QED BY <1>3, <1>4

\* The absolute value of a word; the least number is its own.
LEMMA AbsIs ==
    ASSUME NEW x \in Words
    PROVE  /\ Abs(x) \in Words /\ (Abs(x) = 0 <=> x = 0)
           /\ Minus(x) => x # 0 /\ Abs(x) = 2 ^ W - x
           /\ ~Minus(x) => Abs(x) = x
<1>1. Minus(x) => x # 0
      BY WordFacts, WordTyped DEF Minus
<1>2. CASE Minus(x)
      BY <1>1, <1>2, NegIs, WordTyped, WordFacts DEF Abs
<1>3. CASE ~Minus(x)
      BY <1>3 DEF Abs
<1> QED BY <1>1, <1>2, <1>3

\* What is divided, and what by, are words.
LEMMA CallTyped ==
    ASSUME TypeOK
    PROVE  /\ call.f \in Names /\ call.n \in Words /\ call.m \in Words
           /\ Numerator \in Words /\ Denominator \in Words
           /\ Numerator \in Nat /\ Denominator \in Nat
           /\ call.m # 0 => Denominator # 0
<1>1. call.f \in Names /\ call.n \in Words /\ call.m \in Words
      BY WordAssumption DEF TypeOK
<1>2. Numerator \in Words /\ Denominator \in Words /\ (call.m # 0 => Denominator # 0)
      BY <1>1, AbsIs DEF Numerator, Denominator
<1> QED BY <1>1, <1>2, WordTyped

\* The sign a division gives its quotient, and its remainder.
LEMMA SignedIs ==
    ASSUME NEW x \in Words
    PROVE  /\ Signed(TRUE, x) = AsWord(-x) /\ Signed(FALSE, x) = x /\ AsWord(x) = x
           /\ \A minus \in BOOLEAN : Signed(minus, x) \in Words
BY NegIs, WordTyped DEF Signed, AsWord

\* C's quotient is that of the absolute values, with a sign.
LEMMA QuotientIs ==
    ASSUME TypeOK, call.m # 0, call.f \in {"udiv", "idiv"}
    PROVE  /\ Numerator \div Denominator \in Words
           /\ Quotient(call.f, call.n, call.m)
                  = Signed(call.f = "idiv" /\ Differ, Numerator \div Denominator)
<1> DEFINE q == Numerator \div Denominator
<1>1. q \in Words
  <2>1. Numerator \in Nat /\ Denominator \in Nat \ {0} /\ Numerator < 2 ^ W
        BY CallTyped, WordTyped
  <2>2. q \in Nat /\ q * Denominator \in Nat /\ Numerator % Denominator \in Nat
        /\ Numerator = q * Denominator + (Numerator % Denominator)
        BY <2>1, Euclid
  <2>3. q <= q * Denominator
    <3> HIDE DEF q
    <3> QED BY <2>1, <2>2
  <2>4. q < 2 ^ W
    <3> HIDE DEF q
    <3> QED BY <2>1, <2>2, <2>3, WordFacts
  <2> QED BY <2>2, <2>4, InWords
<1>2. CASE call.f = "udiv"
  <2>1. q = call.n \div call.m
        BY <1>2 DEF Numerator, Denominator
  <2> QED BY <1>1, <1>2, <2>1, SignedIs DEF Quotient
<1>3. CASE call.f = "idiv"
  <2>1. q = Abs(call.n) \div Abs(call.m)
        BY <1>3 DEF Numerator, Denominator
  <2>2. Quotient(call.f, call.n, call.m) = AsWord(IF Differ THEN -q ELSE q)
        BY <1>3, <2>1 DEF Quotient, Differ
  <2> HIDE DEF q
  <2>3. CASE Differ
        BY <1>1, <1>3, <2>2, <2>3, SignedIs DEF q
  <2>4. CASE ~Differ
        BY <1>1, <1>3, <2>2, <2>4, SignedIs DEF q
  <2> QED BY <2>3, <2>4
<1> QED BY <1>2, <1>3

\* C's remainder is that of the absolute values, with a sign.
LEMMA RemainderIs ==
    ASSUME TypeOK, call.m # 0, call.f \in {"umod", "imod"}
    PROVE  /\ Numerator % Denominator \in Words
           /\ Remainder(call.f, call.n, call.m)
                  = Signed(call.f = "imod" /\ Minus(call.n), Numerator % Denominator)
<1> DEFINE r == Numerator % Denominator
<1>1. r \in Words
  <2>1. Numerator \in Nat /\ Denominator \in Nat \ {0} /\ Denominator < 2 ^ W
        BY CallTyped, WordTyped
  <2>2. r \in Nat /\ r < Denominator
        BY <2>1, Euclid
  <2>3. r < 2 ^ W
    <3> HIDE DEF r
    <3> QED BY <2>1, <2>2, WordFacts
  <2> QED BY <2>2, <2>3, InWords
<1>2. CASE call.f = "umod"
  <2>1. r = call.n % call.m
        BY <1>2 DEF Numerator, Denominator
  <2> QED BY <1>1, <1>2, <2>1, SignedIs DEF Remainder
<1>3. CASE call.f = "imod"
  <2>1. r = Abs(call.n) % Abs(call.m)
        BY <1>3 DEF Numerator, Denominator
  <2>2. Remainder(call.f, call.n, call.m) = IF Minus(call.n) THEN AsWord(-r) ELSE AsWord(call.n % Abs(call.m))
        BY <1>3, <2>1 DEF Remainder
  <2>3. ~Minus(call.n) => AsWord(call.n % Abs(call.m)) = AsWord(r)
        BY <2>1, CallTyped, AbsIs
  <2> HIDE DEF r
  <2>4. CASE Minus(call.n)
        BY <1>1, <1>3, <2>2, <2>4, SignedIs DEF r
  <2>5. CASE ~Minus(call.n)
        BY <1>1, <1>3, <2>2, <2>3, <2>5, SignedIs DEF r
  <2> QED BY <2>4, <2>5
<1> QED BY <1>2, <1>3

-----------------------------------------------------------------------------
(* The invariant is inductive                                              *)

\* No step but the first changes what is divided.
LEMMA CallKept ==
    ASSUME call' = call
    PROVE  Numerator' = Numerator /\ Denominator' = Denominator
BY DEF Numerator, Denominator, Abs, Neg, Minus

\* After the return only the returned value matters.
LEMMA DoneInv ==
    ASSUME TypeOK', pc' = "done", QuotientRight', RemainderRight'
    PROVE  IInv'
BY DEF IInv, Entered, GoingUp, NothingShiftedOut, GoingDown, Repaired, ModDownBy4

\* A return of the right value.
LEMMA ReturnInv ==
    ASSUME TypeOK, NEW v, Return(v),
           call.f \in {"udiv", "idiv"} => v = Quotient(call.f, call.n, call.m),
           call.f = "imod" => v = Remainder("imod", call.n, call.m),
           call.f = "umod" /\ bit < W - 2 => v = Remainder("umod", call.n, call.m)
    PROVE  IInv'
<1>1. TypeOK'
      BY DEF TypeOK, Return
<1>2. QuotientRight' /\ RemainderRight'
  <2>1. ret' = v /\ call' = call /\ bit' = bit /\ pc' = "done"
        BY DEF Return
  <2> QED BY <2>1 DEF QuotientRight, RemainderRight, Quotient, Remainder, AsWord, Abs, Neg, Minus
<1>3. pc' = "done"
      BY DEF Return
<1> QED BY <1>1, <1>2, <1>3, DoneInv

\* The invariant holds of every call.
LEMMA InitInv == Init => IInv
<1> SUFFICES ASSUME Init PROVE IInv
    OBVIOUS
<1>1. call.n \in Words /\ call.m \in Words
      BY WordAssumption DEF Init
<1>2. TypeOK
      BY <1>1 DEF Init, TypeOK
<1> QED BY <1>2 DEF Init, IInv, Entered, GoingUp, NothingShiftedOut, GoingDown, Repaired,
                    ModDownBy4, QuotientRight, RemainderRight

\* Where the loops start.
LEMMA ShiftUpInv ==
    ASSUME TypeOK, Entered, pc = "entry", call.m # 0,
           NEW b \in Nat, NEW d \in Words, d = Denominator * 2 ^ b, ShiftUp(Numerator, d, b)
    PROVE  IInv'
<1>1. /\ pc' = "up4" /\ dividend' = Numerator /\ divisor' = d /\ bit' = b
      /\ call' = call /\ result' = 0
      BY DEF ShiftUp, Entered
<1>2. Numerator' = Numerator /\ Denominator' = Denominator /\ Numerator \in Words
      BY <1>1, CallKept, CallTyped
<1>3. TypeOK'
      BY <1>1, <1>2 DEF TypeOK
<1> QED BY <1>1, <1>2, <1>3 DEF IInv, Entered, GoingUp, NothingShiftedOut, GoingDown, Repaired,
                               ModDownBy4, QuotientRight, RemainderRight

\* Divisions that need no loop.
LEMMA Trivial ==
    /\ \A x \in Nat, y \in Nat : x < y => x \div y = 0 /\ x % y = x
    /\ \A x \in Nat \ {0} : x \div x = 1 /\ x % x = 0
    /\ \A x \in Nat : x \div 1 = x /\ x % 1 = 0
    /\ \A x \in Nat : x * 2 ^ 0 = x
<1>1. ASSUME NEW x \in Nat, NEW y \in Nat, x < y PROVE x \div y = 0 /\ x % y = x
  <2>1. x = 0 * y + x /\ y \in Nat \ {0}
        BY <1>1
  <2> QED BY <2>1, <1>1, EuclidUnique
<1>2. ASSUME NEW x \in Nat \ {0} PROVE x \div x = 1 /\ x % x = 0
  <2>1. x = 1 * x + 0
        OBVIOUS
  <2> QED BY <2>1, EuclidUnique
<1>3. ASSUME NEW x \in Nat PROVE x \div 1 = x /\ x % 1 = 0
  <2>1. x = x * 1 + 0
        OBVIOUS
  <2> QED BY <2>1, EuclidUnique
<1>4. ASSUME NEW x \in Nat PROVE x * 2 ^ 0 = x
      OBVIOUS
<1> QED BY <1>1, <1>2, <1>3, <1>4

\* __udivsi3 and __umodsi3: zero, and dividends below the divisor.
LEMMA EnterUnsignedInv ==
    ASSUME IInv, EnterUnsigned
    PROVE  IInv'
<1>1. /\ TypeOK /\ Entered /\ pc = "entry" /\ call.f \in {"udiv", "umod"}
      /\ dividend = call.n /\ divisor = call.m
      BY DEF EnterUnsigned, IInv, Entered
<1>2. call.n \in Nat /\ call.m \in Nat /\ call.m \in Words
      BY <1>1, CallTyped, WordTyped
<1>3. CASE call.m = 0
  <2>1. Return(0)
        BY <1>1, <1>3 DEF EnterUnsigned
  <2> QED BY <2>1, <1>1, <1>3, ReturnInv DEF Quotient, Remainder
<1>4. CASE call.m # 0 /\ call.n < call.m
  <2>1. Return(IF call.f = "udiv" THEN 0 ELSE call.n)
        BY <1>1, <1>4 DEF EnterUnsigned
  <2>2. call.n \div call.m = 0 /\ call.n % call.m = call.n
        BY <1>2, <1>4, Trivial
  <2>3. call.f = "udiv" => 0 = Quotient(call.f, call.n, call.m)
        BY <2>2, <1>4 DEF Quotient
  <2>4. call.n = Remainder("umod", call.n, call.m)
        BY <2>2, <1>4 DEF Remainder
  <2> QED BY <2>1, <2>3, <2>4, <1>1, ReturnInv
<1>5. CASE call.m # 0 /\ ~(call.n < call.m)
  <2>1. ShiftUp(call.n, call.m, 0)
        BY <1>1, <1>5 DEF EnterUnsigned
  <2>2. Numerator = call.n /\ Denominator = call.m
        BY <1>1 DEF Numerator, Denominator
  <2>3. call.m = Denominator * 2 ^ 0
        BY <1>2, <2>2, Trivial
  <2>4. ShiftUp(Numerator, call.m, 0) /\ 0 \in Nat
        BY <2>1, <2>2
  <2> QED BY <1>1, <1>2, <1>5, <2>3, <2>4, ShiftUpInv
<1> QED BY <1>3, <1>4, <1>5

\* Zero and one are words, and zero is its own negative.
LEMMA SmallWords ==
    /\ 0 \in Words /\ 1 \in Words
    /\ \A minus : Signed(minus, 0) = 0
<1>1. 0 \in Words /\ 1 \in Words
      BY WordFacts DEF Words
<1>2. Neg(0) = 0
  <2> DEFINE P == 2 ^ W
  <2>1. P \in Nat \ {0}
        BY WordFacts
  <2>2. Neg(0) = (P - 0) % P
        BY DEF Neg
  <2> HIDE DEF P
  <2>3. P - 0 = P /\ P % P = 0
        BY <2>1, Trivial
  <2> QED BY <2>2, <2>3
<1> QED BY <1>1, <1>2 DEF Signed

\* The negative of the negative.
LEMMA NegTwice ==
    ASSUME NEW x \in Words
    PROVE  Neg(Neg(x)) = x
<1>1. CASE x = 0
      BY <1>1, SmallWords DEF Signed
<1>2. CASE x # 0
  <2>1. Neg(x) = 2 ^ W - x /\ Neg(x) \in Words /\ x \in Nat /\ x < 2 ^ W /\ 2 ^ W \in Nat
        BY <1>2, NegIs, WordTyped, WordFacts
  <2>2. Neg(x) # 0
        BY <2>1
  <2>3. Neg(Neg(x)) = 2 ^ W - Neg(x)
        BY <2>1, <2>2, NegIs
  <2> QED BY <2>1, <2>3
<1> QED BY <1>1, <1>2

\* The shift of a division by a power of two.
LEMMA PowerIs ==
    ASSUME NEW n \in Nat, NEW m, IsPower(m)
    PROVE  Lsr(n, Order(m)) = n \div m
<1>1. PICK k \in 0 .. (W - 1) : m = 2 ^ k
      BY DEF IsPower
<1>2. k \in 0 .. 31
      BY <1>1, WordFacts
<1>3. Order(m) = k
      BY <1>1, <1>2, OrderIs
<1> QED BY <1>1, <1>3 DEF Lsr

\* __divsi3: a divisor of 0, 1 or -1, of the size of the dividend or above it, or a power of two.
LEMMA EnterDivInv ==
    ASSUME IInv, EnterDiv
    PROVE  IInv'
<1> DEFINE n == Numerator
           m == Denominator
           first == IF m < 2 ^ (W - 3) THEN 3 ELSE 0
<1>1. /\ TypeOK /\ Entered /\ pc = "entry" /\ call.f = "idiv"
      /\ dividend = call.n /\ divisor = call.m
      /\ n = Abs(call.n) /\ m = Abs(call.m)
      BY DEF EnterDiv, IInv, Entered, Numerator, Denominator
<1>2. /\ call.n \in Words /\ call.m \in Words /\ n \in Words /\ m \in Words
      /\ n \in Nat /\ m \in Nat /\ n < 2 ^ W
      /\ (m = 0 <=> call.m = 0)
      BY <1>1, CallTyped, WordTyped, AbsIs
<1>3. IF m = 0 THEN Return(0)
      ELSE IF m = 1 THEN Return(Signed(Minus(call.m), call.n))
      ELSE IF n < m THEN Return(0)
      ELSE IF n = m THEN Return(Signed(Differ, 1))
      ELSE IF IsPower(m) THEN Return(Signed(Differ, Lsr(n, Order(m))))
      ELSE ShiftUp(n, Lsl(m, first), first)
      BY <1>1 DEF EnterDiv
<1>4. m # 0 => Quotient("idiv", call.n, call.m) = Signed(Differ, n \div m)
      BY <1>1, <1>2, QuotientIs DEF Signed
<1> HIDE DEF n, m
<1>5. CASE m = 0
  <2>1. Return(0)
        BY <1>3, <1>5
  <2> QED BY <2>1, <1>1, <1>2, <1>5, ReturnInv DEF Quotient
<1>6. CASE m # 0 /\ m = 1
  <2>1. Return(Signed(Minus(call.m), call.n))
        BY <1>3, <1>6
  <2>2. n \div m = Abs(call.n)
        BY <1>1, <1>2, <1>6, Trivial
  <2>3. Signed(Differ, Abs(call.n)) = Signed(Minus(call.m), call.n)
    <3>1. Neg(Neg(call.n)) = call.n
          BY <1>2, NegTwice
    <3> QED BY <3>1 DEF Signed, Differ, Abs, Minus
  <2> QED BY <2>1, <2>2, <2>3, <1>1, <1>4, <1>6, ReturnInv
<1>7. CASE m # 0 /\ m # 1 /\ n < m
  <2>1. Return(0)
        BY <1>3, <1>7
  <2>2. n \div m = 0
        BY <1>2, <1>7, Trivial
  <2>3. Quotient("idiv", call.n, call.m) = 0
        BY <2>2, <1>4, <1>7, SmallWords
  <2> QED BY <2>1, <2>3, <1>1, ReturnInv
<1>8. CASE m # 0 /\ m # 1 /\ n = m
  <2>1. Return(Signed(Differ, 1))
        BY <1>2, <1>3, <1>8
  <2>2. n \div m = 1
        BY <1>2, <1>8, Trivial
  <2> QED BY <2>1, <2>2, <1>1, <1>4, <1>8, ReturnInv
<1>9. CASE m # 0 /\ m # 1 /\ ~(n < m) /\ n # m /\ IsPower(m)
  <2>1. Return(Signed(Differ, Lsr(n, Order(m))))
        BY <1>3, <1>9
  <2>2. Lsr(n, Order(m)) = n \div m
        BY <1>2, <1>9, PowerIs
  <2> QED BY <2>1, <2>2, <1>1, <1>4, <1>9, ReturnInv
<1>10. CASE m # 0 /\ m # 1 /\ ~(n < m) /\ n # m /\ ~IsPower(m)
  <2>1. ShiftUp(n, Lsl(m, first), first)
        BY <1>3, <1>10
  <2>2. first \in Nat /\ m * 2 ^ first < 2 ^ W
    <3>1. CASE m < 2 ^ (W - 3)
      <4>1. first = 3 /\ 2 ^ 3 = 8
            BY <3>1
      <4> QED BY <4>1, <3>1, <1>2, WordFacts
    <3>2. CASE ~(m < 2 ^ (W - 3))
      <4>1. first = 0 /\ m * 2 ^ 0 = m
            BY <3>2, <1>2, Trivial
      <4> QED BY <4>1, <1>2, WordTyped
    <3> QED BY <3>1, <3>2
  <2> HIDE DEF first
  <2>3. Lsl(m, first) = m * 2 ^ first
        BY <2>2, <1>2, LslIs
  <2>4. Lsl(m, first) \in Words
        BY <2>2, <2>3, <1>2, HalfProduct, InWords
  <2> QED BY <2>1, <2>2, <2>3, <2>4, <1>1, <1>2, <1>10, ShiftUpInv DEF n, m
<1> QED BY <1>5, <1>6, <1>7, <1>8, <1>9, <1>10

\* __modsi3: the same.
LEMMA EnterModInv ==
    ASSUME IInv, EnterMod
    PROVE  IInv'
<1> DEFINE n == Numerator
           m == Denominator
<1>1. /\ TypeOK /\ Entered /\ pc = "entry" /\ call.f = "imod"
      /\ dividend = call.n /\ divisor = call.m
      /\ n = Abs(call.n) /\ m = Abs(call.m)
      BY DEF EnterMod, IInv, Entered, Numerator, Denominator
<1>2. /\ call.n \in Words /\ call.m \in Words /\ n \in Words /\ m \in Words
      /\ n \in Nat /\ m \in Nat
      /\ (m = 0 <=> call.m = 0)
      BY <1>1, CallTyped, WordTyped, AbsIs
<1>3. IF m = 0 \/ m = 1 \/ n = m THEN Return(0)
      ELSE IF n < m THEN Return(Signed(Minus(call.n), n))
      ELSE IF IsPower(m) THEN Return(Signed(Minus(call.n), n % m))
      ELSE ShiftUp(n, m, 0)
      BY <1>1 DEF EnterMod
<1>4. m # 0 => Remainder("imod", call.n, call.m) = Signed(Minus(call.n), n % m)
      BY <1>1, <1>2, RemainderIs DEF Signed
<1> HIDE DEF n, m
<1>5. CASE m = 0
  <2>1. Return(0)
        BY <1>3, <1>5
  <2> QED BY <2>1, <1>1, <1>2, <1>5, ReturnInv DEF Remainder
<1>6. CASE m # 0 /\ (m = 1 \/ n = m)
  <2>1. Return(0)
        BY <1>3, <1>6
  <2>2. n % m = 0
        BY <1>2, <1>6, Trivial
  <2>3. Remainder("imod", call.n, call.m) = 0
        BY <2>2, <1>4, <1>6, SmallWords
  <2> QED BY <2>1, <2>3, <1>1, ReturnInv
<1>7. CASE m # 0 /\ m # 1 /\ n < m
  <2>1. Return(Signed(Minus(call.n), n))
        BY <1>2, <1>3, <1>7
  <2>2. n % m = n
        BY <1>2, <1>7, Trivial
  <2> QED BY <2>1, <2>2, <1>1, <1>4, <1>7, ReturnInv
<1>8. CASE m # 0 /\ m # 1 /\ ~(n < m) /\ n # m /\ IsPower(m)
  <2>1. Return(Signed(Minus(call.n), n % m))
        BY <1>3, <1>8
  <2> QED BY <2>1, <1>1, <1>4, <1>8, ReturnInv
<1>9. CASE m # 0 /\ m # 1 /\ ~(n < m) /\ n # m /\ ~IsPower(m)
  <2>1. ShiftUp(n, m, 0)
        BY <1>3, <1>9
  <2>2. m = m * 2 ^ 0 /\ 0 \in Nat
        BY <1>2, Trivial
  <2> QED BY <2>1, <2>2, <1>1, <1>2, <1>9, ShiftUpInv DEF n, m
<1> QED BY <1>5, <1>6, <1>7, <1>8, <1>9

\* A shift up that loses no bit.
LEMMA ShiftByInv ==
    ASSUME IInv, pc \in {"up4", "up1"}, NEW k \in Nat, divisor * 2 ^ k < 2 ^ W, ShiftBy(k)
    PROVE  IInv'
<1>1. /\ TypeOK /\ call.m # 0 /\ bit \in Nat /\ dividend = Numerator /\ result = 0
      /\ divisor = Denominator * 2 ^ bit
      BY DEF IInv, GoingUp, NothingShiftedOut
<1>2. Denominator \in Nat /\ divisor \in Nat
      BY <1>1, CallTyped, WordTyped DEF TypeOK
<1>3. divisor * 2 ^ k = Denominator * 2 ^ (bit + k)
  <2>1. 2 ^ (bit + k) = 2 ^ bit * 2 ^ k /\ 2 ^ bit \in Nat /\ 2 ^ k \in Nat
        BY <1>1, TwoSum, TwoExp
  <2>2. \A p, q \in Nat : (Denominator * p) * q = Denominator * (p * q)
        BY <1>2
  <2> QED BY <2>1, <2>2, <1>1, Zenon
<1>4. divisor' = Denominator * 2 ^ (bit + k) /\ divisor' \in Words
  <2>1. divisor' = divisor * 2 ^ k
        BY <1>2, LslIs DEF ShiftBy
  <2>2. divisor * 2 ^ k \in Nat
        BY <1>2, HalfProduct
  <2> QED BY <2>1, <2>2, <1>3, InWords
<1>5. /\ bit' = bit + k /\ bit' \in Nat /\ pc' = pc /\ dividend' = dividend /\ result' = 0
      /\ call' = call /\ Numerator' = Numerator /\ Denominator' = Denominator
      BY <1>1, CallKept DEF ShiftBy
<1>6. TypeOK'
      BY <1>1, <1>4, <1>5 DEF TypeOK
<1>7. divisor' = Denominator' * 2 ^ bit'
      BY <1>4, <1>5
<1> QED BY <1>1, <1>5, <1>6, <1>7
        DEF IInv, Entered, GoingUp, NothingShiftedOut, GoingDown, Repaired,
            ModDownBy4, QuotientRight, RemainderRight

\* Loop1: a divisor below 2^(W - 4) has room for four places.
LEMMA Up4Inv ==
    ASSUME IInv, Up4
    PROVE  IInv'
<1>1. TypeOK /\ pc = "up4" /\ divisor \in Nat
      BY WordTyped DEF Up4, IInv, TypeOK
<1>2. CASE divisor < 2 ^ (W - 4) /\ divisor < dividend
  <2>1. ShiftBy(4)
        BY <1>2 DEF Up4
  <2>2. divisor * 2 ^ 4 < 2 ^ W
    <3>1. 2 ^ 4 = 16
          OBVIOUS
    <3> QED BY <3>1, <1>1, <1>2, WordFacts
  <2> QED BY <2>1, <2>2, <1>1, ShiftByInv
<1>3. CASE ~(divisor < 2 ^ (W - 4) /\ divisor < dividend)
  <2>1. pc' = "up1" /\ UNCHANGED <<call, dividend, divisor, bit, result, overdone, ret>>
        BY <1>3 DEF Up4
  <2>2. Numerator' = Numerator /\ Denominator' = Denominator
        BY <2>1, CallKept
  <2>3. TypeOK'
        BY <2>1, <1>1 DEF TypeOK
  <2> QED BY <2>1, <2>2, <2>3, <1>1
          DEF IInv, Entered, GoingUp, NothingShiftedOut, GoingDown, Repaired,
              ModDownBy4, QuotientRight, RemainderRight
<1> QED BY <1>2, <1>3

\* The divisor is high enough: nothing of the dividend lies above it.
LEMMA HighEnough ==
    ASSUME TypeOK, call.m # 0, bit \in Nat, dividend = Numerator,
           divisor = Denominator * 2 ^ bit,
           ~(divisor < 2 ^ (W - 1) /\ divisor < dividend)
    PROVE  /\ Numerator = Rest(Numerator, Denominator, bit + 1)
           /\ 0 = Quot(Numerator, Denominator, bit + 1)
<1>1. Numerator \in Nat /\ Numerator < 2 ^ W /\ Denominator \in Nat \ {0}
      BY CallTyped, WordTyped
<1>2. divisor \in Nat \ {0}
      BY <1>1, HalfProduct
<1>3. Numerator < 2 * (Denominator * 2 ^ bit)
      BY <1>1, <1>2, WordFacts
<1> QED BY <1>1, <1>3, RestFirst

\* Lbignum: one place more, or on to the loop that goes down.
LEMMA Up1Inv ==
    ASSUME IInv, Up1
    PROVE  IInv'
<1>1. /\ TypeOK /\ pc = "up1" /\ divisor \in Nat /\ call.m # 0 /\ bit \in Nat
      /\ dividend = Numerator /\ result = 0 /\ divisor = Denominator * 2 ^ bit
      BY WordTyped DEF Up1, IInv, TypeOK, GoingUp, NothingShiftedOut
<1>2. CASE divisor < 2 ^ (W - 1) /\ divisor < dividend
  <2>1. ShiftBy(1)
        BY <1>2 DEF Up1
  <2>2. divisor * 2 ^ 1 < 2 ^ W
    <3>1. 2 ^ 1 = 2
          OBVIOUS
    <3> QED BY <3>1, <1>1, <1>2, WordFacts
  <2> QED BY <2>1, <2>2, <1>1, ShiftByInv
<1>3. CASE ~(divisor < 2 ^ (W - 1) /\ divisor < dividend)
  <2>1. /\ dividend = Numerator % (Denominator * 2 ^ (bit + 1))
        /\ result = (Numerator \div (Denominator * 2 ^ (bit + 1))) * 2 ^ (bit + 1)
    <3>1. dividend = Rest(Numerator, Denominator, bit + 1) /\ result = Quot(Numerator, Denominator, bit + 1)
          BY <1>1, <1>3, HighEnough
    <3> QED BY <3>1 DEF Rest, Quot
  <2>2. CASE call.f = "imod"
    <3>1. /\ bit' = bit - 3 /\ pc' = (IF bit' < 0 THEN "mod1" ELSE "mod4")
          /\ UNCHANGED <<call, dividend, divisor, result, overdone, ret>>
          BY <1>3, <2>2 DEF Up1
    <3>2. Numerator' = Numerator /\ Denominator' = Denominator
          BY <3>1, CallKept
    <3>3. TypeOK'
          BY <3>1, <1>1 DEF TypeOK
    <3>4. bit' + 3 = bit /\ bit' + 4 = bit + 1 /\ (IF pc' = "mod4" THEN bit' \in Nat ELSE bit' \in -3 .. -1)
          BY <3>1, <1>1
    <3>5. pc' \in {"mod4", "mod1"}
          BY <3>1
    <3>6. ModDownBy4'
          BY <3>1, <3>2, <3>4, <2>1, <2>2, <1>1 DEF ModDownBy4
    <3> QED BY <3>3, <3>5, <3>6
            DEF IInv, Entered, GoingUp, NothingShiftedOut, GoingDown, Repaired,
                QuotientRight, RemainderRight
  <2>3. CASE call.f # "imod"
    <3>1. pc' = "down" /\ UNCHANGED <<call, dividend, divisor, bit, result, overdone, ret>>
          BY <1>3, <2>3 DEF Up1
    <3>2. Numerator' = Numerator /\ Denominator' = Denominator
          BY <3>1, CallKept
    <3>3. TypeOK'
          BY <3>1, <1>1 DEF TypeOK
    <3>4. GoingDown'
          BY <3>1, <3>2, <2>1, <2>3, <1>1 DEF GoingDown
    <3>5. NothingShiftedOut'
          BY <3>1, <3>2, <1>1 DEF NothingShiftedOut
    <3> QED BY <3>1, <3>3, <3>4, <3>5
            DEF IInv, Entered, GoingUp, Repaired, ModDownBy4, QuotientRight, RemainderRight
  <2> QED BY <2>2, <2>3
<1> QED BY <1>2, <1>3

\* What the turns of Loop3 start from.
LEMMA AtDown ==
    ASSUME IInv, pc = "down"
    PROVE  /\ TypeOK /\ call.m # 0 /\ bit \in Nat /\ call.f # "imod"
           /\ Numerator \in Nat /\ Denominator \in Nat \ {0}
           /\ divisor = Denominator * 2 ^ bit
           /\ dividend = Rest(Numerator, Denominator, bit + 1)
           /\ call.f # "umod" => result = Quot(Numerator, Denominator, bit + 1)
<1>1. TypeOK /\ call.m # 0
      BY DEF IInv, GoingDown
<1> QED BY <1>1, CallTyped DEF IInv, GoingDown, NothingShiftedOut, Rest, Quot

\* What a turn of Loop3 leaves.
LEMMA TurnLeaves ==
    ASSUME IInv, pc = "down"
    PROVE  /\ Try(3).rem \in Nat /\ Try(3).rem \in Words
           /\ \A k \in 0 .. 3 : k <= bit => Try(k).rem = Rest(Numerator, Denominator, bit - k)
<1>1. /\ TypeOK /\ bit \in Nat /\ Numerator \in Nat /\ Denominator \in Nat \ {0}
      /\ divisor = Denominator * 2 ^ bit /\ dividend = Rest(Numerator, Denominator, bit + 1)
      BY AtDown
<1>2. dividend \in Nat /\ divisor \in Words /\ dividend < 2 ^ W
      BY <1>1, WordTyped DEF TypeOK
<1>3. Try(3).rem \in Nat /\ Try(3).rem <= dividend
  <2>1. 3 \in 0 .. 3
        OBVIOUS
  <2> QED BY <2>1, <1>2, TryTakes
<1>4. Try(3).rem \in Words
  <2> DEFINE r == Try(3).rem
  <2>1. r \in Nat /\ r <= dividend
        BY <1>3
  <2> HIDE DEF r
  <2>2. r < 2 ^ W
        BY <2>1, <1>2, WordFacts
  <2> QED BY <2>1, <2>2, InWords DEF r
<1>5. \A k \in 0 .. 3 : k <= bit => Try(k).rem = Rest(Numerator, Denominator, bit - k)
      BY <1>1, TryAbove
<1> QED BY <1>3, <1>4, <1>5

\* The end of a turn that is not the last one.
LEMMA NextTurnLeaves ==
    ASSUME IInv, pc = "down", bit >= 4, NextTurn, dividend' = Try(3).rem, call' = call
    PROVE  /\ bit' \in Nat /\ bit' + 1 = bit - 3
           /\ divisor' = Denominator' * 2 ^ bit' /\ divisor' \in Words
           /\ dividend' = Rest(Numerator', Denominator', bit' + 1)
<1>1. /\ bit \in Nat /\ Denominator \in Nat \ {0} /\ divisor = Denominator * 2 ^ bit /\ divisor \in Words
      BY AtDown DEF TypeOK
<1>2. bit' = bit - 4 /\ divisor' = Lsr(divisor, 4)
      BY DEF NextTurn
<1>3. divisor' = Denominator * 2 ^ (bit - 4) /\ divisor' \in Words
  <2>1. 4 \in 0 .. bit
        BY <1>1
  <2> QED BY <2>1, <1>1, <1>2, LsrIs, LsrTyped
<1>4. bit' \in Nat /\ bit' + 1 = bit - 3
      BY <1>1, <1>2
<1>5. dividend' = Rest(Numerator, Denominator, bit - 3)
  <2>1. 3 \in 0 .. 3 /\ 3 <= bit
        BY <1>1
  <2> QED BY <2>1, TurnLeaves
<1>6. Numerator' = Numerator /\ Denominator' = Denominator
      BY CallKept
<1> QED BY <1>2, <1>3, <1>4, <1>5, <1>6

\* A turn of Loop3 of the divisions.
LEMMA DivDownInv ==
    ASSUME IInv, DivDown
    PROVE  IInv'
<1> DEFINE N == Numerator
           D == Denominator
           rem == Try(3).rem
           res == Try(3).res
           p == IF bit < 3 THEN 0 ELSE bit - 3
<1>1. /\ pc = "down" /\ call.f \in {"udiv", "idiv"} /\ dividend' = rem /\ result' = res
      /\ call' = call
      BY DEF DivDown
<1>2. /\ TypeOK /\ call.m # 0 /\ bit \in Nat /\ N \in Nat /\ D \in Nat \ {0}
      /\ divisor = D * 2 ^ bit /\ dividend = Rest(N, D, bit + 1) /\ result = Quot(N, D, bit + 1)
      BY <1>1, AtDown
<1>3. rem \in Nat /\ rem \in Words
      BY <1>1, TurnLeaves
<1>4. res = Quot(N, D, p)
      BY <1>2, TryResult
<1>5. res \in Nat
  <2>1. p \in Nat
        BY <1>2
  <2> HIDE DEF N, D, p, res
  <2> QED BY <2>1, <1>2, <1>4, RestTyped
<1>6. N' = N /\ D' = D
      BY <1>1, CallKept
<1>7. CASE Exhausted(rem)
  <2>1. /\ pc' = "done" /\ ret' = Signed(call.f = "idiv" /\ Differ, res)
        /\ UNCHANGED <<divisor, bit>>
        BY <1>7 DEF DivDown
  <2>2. res = N \div D
    <3>1. CASE bit < 4
      <4>1. p = 0
            BY <3>1, <1>2
      <4> HIDE DEF N, D, p, res
      <4> QED BY <4>1, <1>2, <1>4, RestLast
    <3>2. CASE bit >= 4 /\ rem = 0
      <4>1. 3 \in 0 .. 3 /\ 3 <= bit /\ bit - 3 \in Nat /\ p = bit - 3
            BY <3>2, <1>2
      <4>2. rem = Rest(N, D, bit - 3)
            BY <4>1, <1>1, TurnLeaves
      <4> HIDE DEF N, D, p, res, rem
      <4> QED BY <4>1, <4>2, <3>2, <1>2, <1>4, RestNothing
    <3> QED BY <3>1, <3>2, <1>2, <1>7 DEF Exhausted
  <2>3. TypeOK'
        BY <2>1, <1>1, <1>2, <1>3, <1>5 DEF TypeOK
  <2>4. ret' = Quotient(call.f, call.n, call.m)
        BY <2>1, <2>2, <1>1, <1>2, QuotientIs
  <2>5. QuotientRight'
        BY <2>1, <2>4, <1>1 DEF QuotientRight, Quotient, AsWord, Abs, Neg, Minus
  <2>6. RemainderRight'
        BY <1>1 DEF RemainderRight
  <2> QED BY <2>1, <2>3, <2>5, <2>6, DoneInv
<1>8. CASE ~Exhausted(rem)
  <2>1. NextTurn /\ UNCHANGED <<pc, ret>> /\ bit >= 4
        BY <1>2, <1>8 DEF DivDown, Exhausted
  <2>2. /\ bit' \in Nat /\ bit' + 1 = bit - 3 /\ divisor' = D' * 2 ^ bit' /\ divisor' \in Words
        /\ dividend' = Rest(N', D', bit' + 1)
        BY <2>1, <1>1, NextTurnLeaves
  <2>3. p = bit' + 1
    <3>1. bit \in Nat /\ bit >= 4 /\ bit' + 1 = bit - 3
          BY <2>1, <2>2, <1>2
    <3> QED BY <3>1
  <2>4. result' = Quot(N', D', bit' + 1)
        BY <2>3, <1>1, <1>4, <1>6
  <2>5. TypeOK'
        BY <2>1, <2>2, <1>1, <1>2, <1>3, <1>5 DEF TypeOK
  <2>6. GoingDown'
        BY <2>1, <2>2, <2>4, <1>1, <1>2 DEF GoingDown, Rest, Quot
  <2>7. NothingShiftedOut'
        BY <2>2 DEF NothingShiftedOut
  <2> QED BY <2>1, <2>5, <2>6, <2>7, <1>1
          DEF IInv, Entered, GoingUp, Repaired, ModDownBy4, QuotientRight, RemainderRight
<1> QED BY <1>7, <1>8

\* The bits of overdone in the top three places are those of the subtractions made for
\* shifts beyond the lowest place, unless the last place tested is near the top.
LEMMA Rotated ==
    ASSUME bit \in Nat, bit < W - 2, NEW H, H \subseteq 0 .. 3,
           overdone' = {(bit - j) % W : j \in H \ {0}}, bit' = bit
    PROVE  \A k \in 1 .. 3 : Undone(k)' <=> k \in H /\ bit < k
<1>1. W \in Nat /\ W >= 4
      BY WordFacts
<1>2. \A j \in 1 .. 3 : (bit - j) % W = IF j <= bit THEN bit - j ELSE W + bit - j
  <2> TAKE j \in 1 .. 3
  <2>1. CASE j <= bit
    <3>1. bit - j \in 0 .. (W - 1)
          BY <2>1, <1>1
    <3> QED BY <3>1, <2>1, <1>1
  <2>2. CASE ~(j <= bit)
    <3>1. j - bit \in 1 .. (W - 1) /\ bit - j = -(j - bit) /\ W \in Nat \ {0}
          BY <2>2, <1>1
    <3>2. (-(j - bit)) % W = W - (j - bit)
          BY <3>1, NegativeMod
    <3>3. (bit - j) % W = W - (j - bit)
          BY <3>1, <3>2
    <3>4. W - (j - bit) = W + bit - j
          BY <1>1
    <3> QED BY <3>3, <3>4, <2>2
  <2> QED BY <2>1, <2>2
<1>3. \A j \in 1 .. 3 : ((bit - j) % W \in (W - 3) .. (W - 1)) <=> bit < j
  <2> TAKE j \in 1 .. 3
  <2>1. (bit - j) % W = IF j <= bit THEN bit - j ELSE W + bit - j
        BY <1>2
  <2> QED BY <2>1, <1>1
<1>4. \A j, k \in 1 .. 3 : (bit - j) % W = (bit - k) % W => j = k
  <2> TAKE j, k \in 1 .. 3
  <2>1. (bit - j) % W = IF j <= bit THEN bit - j ELSE W + bit - j
        BY <1>2
  <2>2. (bit - k) % W = IF k <= bit THEN bit - k ELSE W + bit - k
        BY <1>2
  <2> QED BY <2>1, <2>2, <1>1
<1> TAKE k \in 1 .. 3
<1>5. Undone(k)' <=> (bit - k) % W \in {(bit - j) % W : j \in H \ {0}} \cap ((W - 3) .. (W - 1))
      BY DEF Undone
<1>6. (bit - k) % W \in {(bit - j) % W : j \in H \ {0}} <=> k \in H
  <2>1. H \ {0} \subseteq 1 .. 3
        OBVIOUS
  <2>2. ASSUME (bit - k) % W \in {(bit - j) % W : j \in H \ {0}} PROVE k \in H
    <3>1. PICK j \in H \ {0} : (bit - k) % W = (bit - j) % W
          BY <2>2
    <3> QED BY <3>1, <2>1, <1>4
  <2>3. ASSUME k \in H PROVE (bit - k) % W \in {(bit - j) % W : j \in H \ {0}}
        BY <2>3
  <2> QED BY <2>2, <2>3
<1> QED BY <1>3, <1>5, <1>6

\* A turn of Loop3 of __umodsi3, and what the fixup will find in overdone.
LEMMA ModDownInv ==
    ASSUME IInv, ModDown
    PROVE  IInv'
<1> DEFINE N == Numerator
           D == Denominator
           rem == Try(3).rem
           hits == Try(3).hits
<1>1. /\ pc = "down" /\ call.f = "umod" /\ dividend' = rem
      /\ overdone' = {(bit - k) % W : k \in hits \ {0}}
      /\ call' = call /\ result' = result
      BY DEF ModDown
<1>2. /\ TypeOK /\ call.m # 0 /\ bit \in Nat /\ N \in Nat /\ D \in Nat \ {0}
      /\ divisor = D * 2 ^ bit /\ dividend = Rest(N, D, bit + 1)
      BY <1>1, AtDown
<1>3. rem \in Nat /\ rem \in Words
      BY <1>1, TurnLeaves
<1>4. N' = N /\ D' = D /\ N = call.n /\ D = call.m
      BY <1>1, CallKept DEF Numerator, Denominator
<1>5. CASE Exhausted(rem)
  <2>1. pc' = "fixup" /\ divisor' = divisor /\ bit' = bit
        BY <1>5 DEF ModDown
  <2>2. TypeOK'
        BY <2>1, <1>1, <1>2, <1>3 DEF TypeOK
  <2>3. NothingShiftedOut'
        BY <2>1, <1>2, <1>4 DEF NothingShiftedOut
  <2>4. ASSUME bit < W - 2
        PROVE  rem + Restored(3)' + Restored(2)' + Restored(1)' = N % D
    <3>1. dividend \in Nat /\ divisor \in Words
          BY <1>2, WordTyped DEF TypeOK
    <3>2. hits \subseteq 0 .. 3
          BY <3>1, TryTakes
    <3>3. \A k \in 1 .. 3 : Undone(k)' <=> k \in hits /\ bit < k
      <4> HIDE DEF hits
      <4> QED BY <3>2, <2>1, <2>4, <1>1, <1>2, Rotated
    <3>4. \A k \in 1 .. 3 : Restored(k)' = IF bit < k THEN Taken(k) ELSE 0
      <4> TAKE k \in 1 .. 3
      <4>1. Restored(k)' = IF Undone(k)' THEN Lsr(divisor, k) ELSE 0
            BY <2>1 DEF Restored, Lsr
      <4> QED BY <4>1, <3>3 DEF Taken
    <3>5. /\ Restored(1)' = (IF bit < 1 THEN Taken(1) ELSE 0)
          /\ Restored(2)' = (IF bit < 2 THEN Taken(2) ELSE 0)
          /\ Restored(3)' = (IF bit < 3 THEN Taken(3) ELSE 0)
          BY <3>4
    <3>6. /\ Taken(1) \in Nat /\ Taken(2) \in Nat /\ Taken(3) \in Nat
          /\ Try(0).rem \in Nat /\ Try(1).rem \in Nat /\ Try(2).rem \in Nat
          /\ Try(0).rem = Try(1).rem + Taken(1) /\ Try(1).rem = Try(2).rem + Taken(2)
          /\ Try(2).rem = Try(3).rem + Taken(3)
          BY <3>1, TryTakes
    <3>7. \A k \in 0 .. 3 : k <= bit => Try(k).rem = Rest(N, D, bit - k)
          BY <1>1, TurnLeaves
    <3>8. Rest(N, D, 0) = N % D
          BY <1>2, RestLast
    <3> HIDE DEF N, D
    <3>9. CASE bit = 0
      <4>1. Try(0).rem = N % D
            BY <3>7, <3>8, <3>9
      <4>2. Restored(1)' = Taken(1) /\ Restored(2)' = Taken(2) /\ Restored(3)' = Taken(3)
            BY <3>5, <3>9
      <4> QED BY <4>1, <4>2, <3>6, <1>3
    <3>10. CASE bit = 1
      <4>1. Try(1).rem = N % D
            BY <3>7, <3>8, <3>10
      <4>2. Restored(1)' = 0 /\ Restored(2)' = Taken(2) /\ Restored(3)' = Taken(3)
            BY <3>5, <3>10
      <4> QED BY <4>1, <4>2, <3>6, <1>3
    <3>11. CASE bit = 2
      <4>1. Try(2).rem = N % D
            BY <3>7, <3>8, <3>11
      <4>2. Restored(1)' = 0 /\ Restored(2)' = 0 /\ Restored(3)' = Taken(3)
            BY <3>5, <3>11
      <4> QED BY <4>1, <4>2, <3>6, <1>3
    <3>12. CASE bit >= 3
      <4>1. Restored(1)' = 0 /\ Restored(2)' = 0 /\ Restored(3)' = 0
            BY <3>5, <3>12, <1>2
      <4>2. rem = Rest(N, D, bit - 3) /\ bit - 3 \in Nat
            BY <3>7, <3>12, <1>2
      <4>3. rem = N % D
        <5>1. CASE bit = 3
              BY <5>1, <4>2, <3>8
        <5>2. CASE bit # 3
          <6>1. rem = 0
                BY <5>2, <3>12, <1>2, <1>5 DEF Exhausted
          <6> HIDE DEF rem
          <6> QED BY <6>1, <4>2, <1>2, RestNothing
        <5> QED BY <5>1, <5>2
      <4> QED BY <4>1, <4>3, <1>3
    <3> QED BY <3>9, <3>10, <3>11, <3>12, <1>2
  <2>5. Repaired'
    <3> HIDE DEF rem
    <3> QED BY <2>1, <2>4, <1>1, <1>2, <1>4 DEF Repaired
  <2> QED BY <2>1, <2>2, <2>3, <2>5
          DEF IInv, Entered, GoingUp, GoingDown, ModDownBy4, QuotientRight, RemainderRight
<1>6. CASE ~Exhausted(rem)
  <2>1. NextTurn /\ pc' = pc /\ bit >= 4
        BY <1>2, <1>6 DEF ModDown, Exhausted
  <2>2. /\ bit' \in Nat /\ bit' + 1 = bit - 3 /\ divisor' = D' * 2 ^ bit' /\ divisor' \in Words
        /\ dividend' = Rest(N', D', bit' + 1)
        BY <2>1, <1>1, NextTurnLeaves
  <2>3. TypeOK'
        BY <2>1, <2>2, <1>1, <1>2, <1>3 DEF TypeOK
  <2>4. GoingDown'
        BY <2>1, <2>2, <1>1, <1>2 DEF GoingDown, Rest
  <2>5. NothingShiftedOut'
        BY <2>2 DEF NothingShiftedOut
  <2> QED BY <2>1, <2>3, <2>4, <2>5, <1>1
          DEF IInv, Entered, GoingUp, Repaired, ModDownBy4, QuotientRight, RemainderRight
<1> QED BY <1>5, <1>6

\* The fixup of __umodsi3.
LEMMA FixupInv ==
    ASSUME IInv, Fixup
    PROVE  IInv'
<1> DEFINE sum == dividend + Restored(3) + Restored(2) + Restored(1)
           v == sum % 2 ^ W
<1>1. Return(v) /\ pc = "fixup"
      BY DEF Fixup
<1>2. TypeOK /\ call.m # 0 /\ call.f = "umod"
      BY <1>1 DEF IInv, Repaired
<1>3. ASSUME bit < W - 2
      PROVE  v = Remainder("umod", call.n, call.m)
  <2>1. sum = call.n % call.m
        BY <1>1, <1>3 DEF IInv, Repaired
  <2>2. Numerator = call.n /\ Denominator = call.m
        BY <1>2 DEF Numerator, Denominator
  <2>3. call.n % call.m \in Words
        BY <2>2, <1>2, RemainderIs
  <2>4. (call.n % call.m) % 2 ^ W = call.n % call.m
        BY <2>3, WordTyped
  <2> HIDE DEF sum
  <2> QED BY <2>1, <2>4, <1>2 DEF Remainder
<1> HIDE DEF v
<1> QED BY <1>1, <1>2, <1>3, ReturnInv

\* What the turns of imod start from, and the one before them leaves.
LEMMA AtMod ==
    ASSUME IInv, pc \in {"mod4", "mod1"}
    PROVE  /\ TypeOK /\ call.m # 0 /\ call.f = "imod" /\ bit + 3 \in Nat /\ bit \in Int
           /\ Numerator \in Nat /\ Denominator \in Nat \ {0}
           /\ divisor = Denominator * 2 ^ (bit + 3)
           /\ \A k \in 0 .. 3 : k <= bit + 3 =>
                  Try(k).rem = Rest(Numerator, Denominator, (bit + 3) - k)
<1>1. /\ TypeOK /\ call.m # 0 /\ call.f = "imod"
      /\ divisor = Denominator * 2 ^ (bit + 3)
      /\ dividend = Numerator % (Denominator * 2 ^ (bit + 4))
      BY DEF IInv, ModDownBy4
<1>2. bit + 3 \in Nat /\ bit \in Int
  <2>1. IF pc = "mod4" THEN bit \in Nat ELSE bit \in -3 .. -1
        BY DEF IInv, ModDownBy4
  <2> QED BY <2>1
<1>3. Numerator \in Nat /\ Denominator \in Nat \ {0}
      BY <1>1, CallTyped
<1>4. dividend = Rest(Numerator, Denominator, (bit + 3) + 1)
  <2>1. (bit + 3) + 1 = bit + 4
        BY <1>2
  <2> QED BY <2>1, <1>1 DEF Rest
<1>5. \A k \in 0 .. 3 : k <= bit + 3 => Try(k).rem = Rest(Numerator, Denominator, (bit + 3) - k)
  <2> DEFINE b == bit + 3
  <2>1. b \in Nat /\ divisor = Denominator * 2 ^ b /\ dividend = Rest(Numerator, Denominator, b + 1)
        BY <1>1, <1>2, <1>4
  <2> HIDE DEF b
  <2>2. \A k \in 0 .. 3 : k <= b => Try(k).rem = Rest(Numerator, Denominator, b - k)
        BY <2>1, <1>3, TryAbove
  <2> QED BY <2>2 DEF b
<1> QED BY <1>1, <1>2, <1>3, <1>5

\* A turn of __modsi3: whether it is the last one, and what is left to do then.
LEMMA IMod4Inv ==
    ASSUME IInv, IMod4
    PROVE  IInv'
<1> DEFINE N == Numerator
           D == Denominator
           rem == Try(3).rem
           more == rem > 0 /\ ~Minus(rem)
           left == IF more THEN bit - 4 ELSE bit
<1>1. /\ pc = "mod4" /\ dividend' = rem /\ divisor' = Lsr(divisor, 4) /\ bit' = left
      /\ UNCHANGED <<call, result, overdone>>
      /\ IF more /\ left >= 0 THEN UNCHANGED <<pc, ret>>
         ELSE IF left % 4 = 0 \/ rem = 0
              THEN pc' = "done" /\ ret' = Signed(Minus(call.n), rem)
              ELSE pc' = "mod1" /\ UNCHANGED ret
      BY DEF IMod4
<1>2. /\ TypeOK /\ call.m # 0 /\ call.f = "imod" /\ N \in Nat /\ D \in Nat \ {0}
      /\ divisor = D * 2 ^ (bit + 3) /\ bit \in Nat /\ divisor \in Words
      BY <1>1, AtMod DEF IInv, ModDownBy4, TypeOK
<1>3. rem = Rest(N, D, bit)
  <2>1. 3 \in 0 .. 3 /\ 3 <= bit + 3 /\ (bit + 3) - 3 = bit
        BY <1>2
  <2> QED BY <2>1, <1>1, AtMod
<1> HIDE DEF N, D, rem
<1>4. rem \in Nat /\ rem \in Words /\ ~Minus(rem)
  <2> DEFINE c == D * 2 ^ bit
  <2>1. rem \in Nat /\ rem < c
        BY <1>2, <1>3, RestTyped
  <2>2. divisor = 8 * c
    <3>1. 2 ^ (bit + 3) = 2 ^ bit * 2 ^ 3 /\ 2 ^ 3 = 8 /\ 2 ^ bit \in Nat
      <4>1. 3 \in Nat /\ 2 ^ 3 = 8
            OBVIOUS
      <4> QED BY <4>1, <1>2, TwoSum, TwoExp
    <3>2. \A t \in Nat : D * (t * 8) = 8 * (D * t)
          BY <1>2
    <3> QED BY <3>1, <3>2, <1>2
  <2>3. c \in Nat /\ divisor < 2 ^ W
        BY <1>2, HalfProduct, WordTyped
  <2> HIDE DEF c
  <2>4. rem < 2 ^ (W - 1) /\ rem < 2 ^ W
        BY <2>1, <2>2, <2>3, WordFacts
  <2>5. ~(rem >= 2 ^ (W - 1))
        BY <2>1, <2>4, WordFacts
  <2> QED BY <2>1, <2>4, <2>5, InWords DEF Minus
<1>5. (more <=> rem > 0) /\ (~more => rem = 0)
      BY <1>4
<1>6. bit' \in Int /\ divisor' \in Words /\ N' = N /\ D' = D
  <2>1. N' = N /\ D' = D
        BY <1>1, CallKept DEF N, D
  <2>2. divisor' \in Words
        BY <1>1, <1>2, LsrTyped
  <2> QED BY <2>1, <2>2, <1>1, <1>2
<1>7. TypeOK'
      BY <1>1, <1>2, <1>4, <1>6 DEF TypeOK
<1>8. ASSUME bit >= 1
      PROVE  divisor' = D * 2 ^ (bit - 1)
  <2>1. bit + 3 \in Nat /\ 4 \in 0 .. (bit + 3) /\ (bit + 3) - 4 = bit - 1
        BY <1>2, <1>8
  <2> QED BY <2>1, <1>1, <1>2, LsrIs
<1>9. CASE more /\ left >= 0
  <2>1. bit' = bit - 4 /\ bit' \in Nat /\ bit >= 1 /\ bit' + 3 = bit - 1 /\ bit' + 4 = bit /\ pc' = "mod4"
        BY <1>1, <1>2, <1>9
  <2>2. divisor' = D' * 2 ^ (bit' + 3)
        BY <2>1, <1>6, <1>8
  <2>3. dividend' = N' % (D' * 2 ^ (bit' + 4))
        BY <2>1, <1>1, <1>3, <1>6 DEF Rest
  <2>4. ModDownBy4'
        BY <2>1, <2>2, <2>3, <1>1, <1>2 DEF ModDownBy4, N, D
  <2> QED BY <2>1, <2>4, <1>7
          DEF IInv, Entered, GoingUp, NothingShiftedOut, GoingDown, Repaired, QuotientRight, RemainderRight
<1>10. CASE ~(more /\ left >= 0) /\ (left % 4 = 0 \/ rem = 0)
  <2>1. pc' = "done" /\ ret' = Signed(Minus(call.n), rem)
        BY <1>1, <1>10
  <2>2. rem = N % D
    <3>1. CASE rem = 0
          BY <3>1, <1>2, <1>3, RestNothing
    <3>2. CASE rem # 0
      <4>1. more
            BY <3>2, <1>4
      <4>2. left = bit - 4 /\ bit - 4 < 0 /\ (bit - 4) % 4 = 0
            BY <4>1, <3>2, <1>2, <1>10
      <4>3. bit = 0
            BY <4>2, <1>2
      <4> QED BY <4>3, <1>2, <1>3, RestLast
    <3> QED BY <3>1, <3>2
  <2>3. ret' = Remainder("imod", call.n, call.m)
    <3>1. Remainder("imod", call.n, call.m) = Signed(Minus(call.n), N % D)
          BY <1>2, RemainderIs DEF Signed, N, D
    <3> QED BY <3>1, <2>1, <2>2
  <2>4. QuotientRight' /\ RemainderRight'
        BY <2>1, <2>3, <1>1, <1>2 DEF QuotientRight, RemainderRight, Remainder, AsWord, Abs, Neg, Minus
  <2> QED BY <2>1, <2>4, <1>7, DoneInv
<1>11. CASE ~(more /\ left >= 0) /\ ~(left % 4 = 0 \/ rem = 0)
  <2>1. pc' = "mod1" /\ rem # 0
        BY <1>1, <1>11
  <2>2. more
        BY <2>1, <1>4
  <2>3. left = bit - 4 /\ bit - 4 < 0 /\ (bit - 4) % 4 # 0
        BY <2>2, <1>2, <1>11
  <2>4. bit # 0
        BY <2>3
  <2>5. bit' \in -3 .. -1 /\ bit >= 1 /\ bit' + 3 = bit - 1 /\ bit' + 4 = bit
        BY <2>3, <2>4, <1>1, <1>2
  <2>6. divisor' = D' * 2 ^ (bit' + 3)
        BY <2>5, <1>6, <1>8
  <2>7. dividend' = N' % (D' * 2 ^ (bit' + 4))
        BY <2>5, <1>1, <1>3, <1>6 DEF Rest
  <2>8. ModDownBy4'
        BY <2>1, <2>5, <2>6, <2>7, <1>1, <1>2 DEF ModDownBy4, N, D
  <2> QED BY <2>1, <2>8, <1>7
          DEF IInv, Entered, GoingUp, NothingShiftedOut, GoingDown, Repaired, QuotientRight, RemainderRight
<1> QED BY <1>9, <1>10, <1>11

\* The last subtractions of __modsi3.
LEMMA IMod1Inv ==
    ASSUME IInv, IMod1
    PROVE  IInv'
<1> DEFINE k == IF bit < -2 THEN 0 ELSE IF bit = -2 THEN 1 ELSE 2
           v == Signed(Minus(call.n), Try(k).rem)
<1>1. pc = "mod1" /\ Return(v)
      BY DEF IMod1
<1>2. /\ TypeOK /\ call.m # 0 /\ call.f = "imod"
      /\ Numerator \in Nat /\ Denominator \in Nat \ {0}
      /\ bit \in -3 .. -1
      BY <1>1, AtMod DEF IInv, ModDownBy4
<1>3. k \in 0 .. 3 /\ k = bit + 3
      BY <1>2
<1>4. Try(k).rem = Numerator % Denominator
  <2>1. k <= bit + 3 /\ (bit + 3) - k = 0
        BY <1>2, <1>3
  <2>2. Try(k).rem = Rest(Numerator, Denominator, 0)
    <3> HIDE DEF k
    <3>1. Try(k).rem = Rest(Numerator, Denominator, (bit + 3) - k)
          BY <2>1, <1>1, <1>3, AtMod
    <3> QED BY <2>1, <3>1
  <2> HIDE DEF k
  <2> QED BY <2>2, <1>2, RestLast
<1>5. v = Remainder("imod", call.n, call.m)
  <2>1. Remainder("imod", call.n, call.m) = Signed(Minus(call.n), Numerator % Denominator)
        BY <1>2, RemainderIs DEF Signed
  <2> HIDE DEF k
  <2> QED BY <2>1, <1>4
<1> HIDE DEF v
<1> QED BY <1>1, <1>2, <1>5, ReturnInv

\* Every step keeps the invariant.
LEMMA NextInv == IInv /\ [Next]_vars => IInv'
<1> SUFFICES ASSUME IInv, [Next]_vars PROVE IInv'
    OBVIOUS
<1>1. CASE UNCHANGED vars
  <2>1. /\ UNCHANGED <<pc, call, dividend, divisor, bit, result, overdone, ret>>
        /\ Numerator' = Numerator /\ Denominator' = Denominator
        BY <1>1, CallKept DEF vars
  <2> QED BY <2>1 DEF IInv, TypeOK, Entered, GoingUp, NothingShiftedOut, GoingDown, Repaired, ModDownBy4,
                      QuotientRight, RemainderRight, Quotient, Remainder, AsWord, Abs, Neg, Minus,
                      Restored, Undone, Lsr
<1> QED BY <1>1, EnterUnsignedInv, EnterDivInv, EnterModInv, Up4Inv, Up1Inv, DivDownInv, ModDownInv,
           FixupInv, IMod4Inv, IMod1Inv DEF Next

\* The invariant holds of every state of the 32-bit divisions.
THEOREM DivisionInvariant == Spec => []IInv
BY InitInv, NextInv, PTL DEF Spec

\* __udivsi3 and __divsi3 give C's quotient for all words.
THEOREM QuotientAlwaysRight == Spec => []QuotientRight
BY DivisionInvariant, PTL DEF IInv

\* __modsi3 gives C's remainder for all words, and so does __umodsi3 unless its loop
\* ends in the highest two places.
THEOREM RemainderAlwaysRight == Spec => []RemainderRight
BY DivisionInvariant, PTL DEF IInv

\* No shift of the divisor loses a bit.
THEOREM NothingEverShiftedOut == Spec => []NothingShiftedOut
BY DivisionInvariant, PTL DEF IInv

-----------------------------------------------------------------------------
(* The delays: the counter                                                 *)

\* A step of the counter and a sum below two periods, without the modulus.
LEMMA ModPeriod ==
    ASSUME NEW x \in 0 .. (2 * Period - 1)
    PROVE  x % Period = IF x < Period THEN x ELSE x - Period
BY TimerAssumption, SMT

\* The two readings of a poll differ by the ticks between them, less one at a wrap.
LEMMA SeenTicks ==
    ASSUME NEW old \in 0 .. (Period - 1), NEW d \in 0 .. Lag,
           (old + d) % Period # old
    PROVE  /\ d > 0
           /\ old + d < Period => Seen(old, (old + d) % Period) = d
           /\ old + d >= Period => /\ Seen(old, (old + d) % Period) = d - 1
                                   /\ (old + d) % Period = old + d - Period
<1>1. old + d \in 0 .. (2 * Period - 1)
      BY TimerAssumption
<1>2. (old + d) % Period = IF old + d < Period THEN old + d ELSE old + d - Period
  <2>1. PICK x \in 0 .. (2 * Period - 1) : x = old + d
        BY <1>1
  <2>2. x % Period = IF x < Period THEN x ELSE x - Period
        BY ModPeriod
  <2> QED BY <2>1, <2>2, TimerAssumption
<1>3. CASE old + d < Period
      BY <1>2, <1>3, TimerAssumption DEF Seen
<1>4. CASE old + d >= Period
      BY <1>2, <1>4, TimerAssumption DEF Seen
<1> QED BY <1>3, <1>4, TimerAssumption

\* The invariant holds before the first call.
LEMMA DelayInitInv == DelayInit => DelayInv
BY TimerAssumption DEF DelayInit, DelayInv, DelayTypeOK, NeverEarly, OnTime, Fits

\* A call of udelay or mdelay.
LEMMA StartInv ==
    ASSUME DelayInv, NEW us \in Nat, NEW n \in Nat, Start(us, n)
    PROVE  DelayInv'
BY TimerAssumption DEF Start, DelayInv, DelayTypeOK, NeverEarly, OnTime, Fits

\* The first reading of the counter.
LEMMA EnterInv ==
    ASSUME DelayInv, NEW d \in 0 .. Lag, Enter(d)
    PROVE  DelayInv'
<1>1. cnt' \in 0 .. (Period - 1)
      BY TimerAssumption DEF Enter, Clock, DelayInv, DelayTypeOK
<1> QED BY <1>1, TimerAssumption DEF Enter, DelayInv, DelayTypeOK, NeverEarly, OnTime, Fits, Counted

\* A poll: no time is counted twice, and one microsecond is lost at most.
LEMMA PollInv ==
    ASSUME DelayInv, NEW d \in 0 .. Lag, Poll(d)
    PROVE  DelayInv'
<1> USE TimerAssumption
<1>1. /\ phase = "poll" /\ oldcnt = cnt /\ tcntvalue <= elapsed
      /\ tcntvalue < usdelay \/ elapsed = 0
      /\ Fits => Counted
      /\ cnt \in 0 .. (Period - 1) /\ tcntvalue \in 0 .. (Period - 1)
      /\ usdelay \in Nat /\ i \in Nat /\ calls \in Nat /\ elapsed \in Nat
      /\ d \in Nat /\ d <= Lag
      BY DEF Poll, DelayInv, DelayTypeOK
<1>2. /\ cnt' = (cnt + d) % Period /\ cnt' \in 0 .. (Period - 1) /\ oldcnt' = cnt'
      /\ elapsed' = (IF elapsed + d <= MaxElapsed THEN elapsed + d ELSE MaxElapsed)
      /\ elapsed' \in Nat
      /\ usdelay' = usdelay /\ calls' = calls
      BY <1>1 DEF Poll, Clock, Passed
<1>3. /\ tcntvalue' \in 0 .. (Period - 1) /\ tcntvalue' <= elapsed'
      /\ cnt' = cnt => tcntvalue' = tcntvalue /\ d = 0
      /\ Fits => Counted' /\ elapsed' <= usdelay + Lag
  <2>1. CASE cnt' = cnt
    <3>1. d = 0
      <4>1. cnt + d \in 0 .. (2 * Period - 1)
            BY <1>1
      <4>2. cnt' = IF cnt + d < Period THEN cnt + d ELSE cnt + d - Period
        <5>1. PICK x \in 0 .. (2 * Period - 1) : x = cnt + d
              BY <4>1
        <5>2. x % Period = IF x < Period THEN x ELSE x - Period
              BY ModPeriod
        <5> QED BY <5>1, <5>2, <1>1, <1>2
      <4> QED BY <4>2, <2>1, <1>1
    <3>2. tcntvalue' = tcntvalue
          BY <2>1, <1>1 DEF Poll
    <3> QED BY <3>1, <3>2, <2>1, <1>1, <1>2 DEF Counted, Fits
  <2>2. CASE cnt' # cnt
    <3> DEFINE s == Seen(cnt, cnt')
    <3>1. /\ d > 0
          /\ cnt + d < Period => s = d /\ cnt' = cnt + d
          /\ cnt + d >= Period => s = d - 1 /\ cnt' = cnt + d - Period
      <4>1. cnt + d < Period => (cnt + d) % Period = cnt + d
            BY <1>1, ModPeriod
      <4> QED BY <4>1, <2>2, <1>1, <1>2, SeenTicks
    <3>2. tcntvalue' = (tcntvalue + s) % Period
          BY <2>2, <1>1 DEF Poll
    <3> HIDE DEF s
    <3>3. s \in Nat /\ s <= d /\ tcntvalue + s \in 0 .. (2 * Period - 1)
          BY <3>1, <1>1
    <3>4. tcntvalue' = IF tcntvalue + s < Period THEN tcntvalue + s ELSE tcntvalue + s - Period
      <4>1. PICK x \in 0 .. (2 * Period - 1) : x = tcntvalue + s
            BY <3>3
      <4>2. x % Period = IF x < Period THEN x ELSE x - Period
            BY ModPeriod
      <4> QED BY <4>1, <4>2, <3>2, <3>3, <1>1
    <3>5. tcntvalue' \in 0 .. (Period - 1) /\ tcntvalue' <= elapsed'
          BY <3>3, <3>4, <1>1, <1>2
    <3>6. ASSUME Fits
          PROVE  Counted' /\ elapsed' <= usdelay + Lag
      <4>1. tcntvalue' = tcntvalue + s
            BY <3>3, <3>4, <3>6, <1>1 DEF Fits
      <4>2. CASE cnt + d < Period
            BY <4>1, <4>2, <3>1, <3>6, <1>1, <1>2 DEF Counted, Fits
      <4>3. CASE cnt + d >= Period
            BY <4>1, <4>3, <3>1, <3>6, <1>1, <1>2 DEF Counted, Fits
      <4> QED BY <4>2, <4>3, <1>1
    <3> QED BY <3>5, <3>6, <2>2
  <2> QED BY <2>1, <2>2
<1>4. CASE cnt' # oldcnt /\ tcntvalue' >= usdelay
  <2>1. UdelayReturn
        BY <1>4 DEF Poll
  <2> QED BY <2>1, <1>1, <1>2, <1>3, <1>4 DEF UdelayReturn, DelayInv, DelayTypeOK, NeverEarly, OnTime, Fits
<1>5. CASE ~(cnt' # oldcnt /\ tcntvalue' >= usdelay)
  <2>1. UNCHANGED <<phase, i>>
        BY <1>5 DEF Poll
  <2> QED BY <2>1, <1>1, <1>2, <1>3, <1>5 DEF DelayInv, DelayTypeOK, NeverEarly, OnTime, Fits
<1> QED BY <1>4, <1>5

\* Every step keeps the invariant.
LEMMA DelayNextInv == DelayInv /\ [DelayNext]_delayVars => DelayInv'
<1> SUFFICES ASSUME DelayInv, [DelayNext]_delayVars PROVE DelayInv'
    OBVIOUS
<1>1. ASSUME NEW us \in Us, Udelay(us) PROVE DelayInv'
      BY <1>1, StartInv, TimerAssumption DEF Udelay
<1>2. ASSUME NEW ms \in Ms, Mdelay(ms) PROVE DelayInv'
      BY <1>2, StartInv, TimerAssumption DEF Mdelay
<1>3. ASSUME NEW d \in 0 .. Lag, Enter(d) PROVE DelayInv'
      BY <1>3, EnterInv
<1>4. ASSUME NEW d \in 0 .. Lag, Poll(d) PROVE DelayInv'
      BY <1>4, PollInv
<1>5. ASSUME UNCHANGED delayVars PROVE DelayInv'
      BY <1>5 DEF delayVars, DelayInv, DelayTypeOK, NeverEarly, OnTime, Fits, Counted
<1> QED BY <1>1, <1>2, <1>3, <1>4, <1>5 DEF DelayNext, Step

\* The invariant holds of every state of the delays.
THEOREM DelayInvariant == DelaySpec => []DelayInv
<1> QED BY DelayInitInv, DelayNextInv, PTL DEF DelaySpec

\* No udelay ever returns early.
THEOREM DelaysNeverEarly == DelaySpec => []NeverEarly
<1>1. DelayInv => NeverEarly
      BY DEF DelayInv
<1> QED BY <1>1, DelayInvariant, PTL

\* No udelay whose last reading fits below Period is late by more than one reading.
THEOREM DelaysOnTime == DelaySpec => []OnTime
<1>1. DelayInv => OnTime
      BY DEF DelayInv
<1> QED BY <1>1, DelayInvariant, PTL
=============================================================================
