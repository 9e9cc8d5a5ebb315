---------------------------- MODULE LibraryProofs ----------------------------
(***************************************************************************)
(* The library is right for words of any width and memories of every size. *)
(*                                                                         *)
(* The 64-bit division of Div64: both loops keep n = res * base + rem and  *)
(* b = base * d; that halving d loses nothing follows from the weights d   *)
(* has had on its way up.                                                  *)
(*                                                                         *)
(* The functions of string.c: proofs of BlocksRight and StringsRight,      *)
(* about the functions that write, of ReadersRight, about those that       *)
(* compare and search, and of TokensRight, about strtok and strsep.        *)
(*                                                                         *)
(* Formats: number takes the digits of its number, whatever the number and *)
(* the base are; a text that does not run through the last address is not  *)
(* written outside the buffer (BufferKept); and what is written is what C  *)
(* says of the format, or AsHere where it departs from C (FormatsRight).   *)
(***************************************************************************)
EXTENDS Div64, Strings, Formatting, SeqLemmas

-----------------------------------------------------------------------------
(* 64-bit division: arithmetic                                             *)

\* Euclid's division.
LEMMA Euclid ==
    ASSUME NEW x \in Nat, NEW y \in Nat, y > 0
    PROVE  /\ x \div y \in Nat /\ x % y \in Nat
           /\ x = (x \div y) * y + (x % y)
           /\ x % y < y
  OBVIOUS

\* A number below the modulus is its own remainder.
LEMMA SmallMod ==
    ASSUME NEW x \in Nat, NEW y \in Nat, x < y
    PROVE  x % y = x
  OBVIOUS

LEMMA InInterval ==
    ASSUME NEW x \in Nat, NEW y \in Nat, x <= y
    PROVE  x \in 0 .. y
  OBVIOUS

LEMMA SummandIsLess ==
    ASSUME NEW x \in Nat, NEW y \in Nat, NEW z, z = y + x
    PROVE  x <= z
  OBVIOUS

LEMMA MoreThanOne ==
    ASSUME NEW x \in Nat, x > 0, x # 1
    PROVE  x > 1
  OBVIOUS

\* Products are natural numbers that grow with their factors.
LEMMA Product ==
    ASSUME NEW x \in Nat, NEW y \in Nat
    PROVE  /\ x * y \in Nat
           /\ y > 0 => x <= x * y
           /\ x > 0 => y <= x * y
  OBVIOUS

LEMMA ProductMonotone ==
    ASSUME NEW x \in Nat, NEW y \in Nat, NEW z \in Nat, x < y, z > 0
    PROVE  x * z < y * z
  OBVIOUS

LEMMA Distribute ==
    ASSUME NEW x \in Nat, NEW y \in Nat, NEW z \in Nat
    PROVE  /\ (x + y) * z = x * z + y * z
           /\ z * (x + y) = z * x + z * y
           /\ (x * y) * z = (x * z) * y
  OBVIOUS

\* Halving what has been doubled.
LEMMA HalfOfDouble ==
    ASSUME NEW x \in Nat
    PROVE  (2 * x) \div 2 = x /\ x \div 2 \in Nat
  OBVIOUS

\* When x is not below z or not below y, twice x is more than a y below twice z.
LEMMA DoubleIsMore ==
    ASSUME NEW x \in Nat, NEW y \in Nat, NEW z \in Nat,
           y < 2 * z, ~(x < z /\ x < y), x > 0
    PROVE  y < 2 * x
  OBVIOUS

\* Moving t times y from what remains into the quotient.
LEMMA MoveOver ==
    ASSUME NEW x \in Nat, NEW y \in Nat, NEW q \in Nat, NEW r \in Nat, NEW t \in Nat,
           y > 0, x = q * y + r, y * t <= r
    PROVE  /\ r - y * t \in Nat /\ r - y * t <= x
           /\ x = (q + t) * y + (r - y * t)
           /\ q + t \in Nat /\ q + t <= x
<1>1. y * t \in Nat /\ q * y \in Nat /\ q + t \in Nat /\ t * y = y * t
  BY Product
<1>2. (q + t) * y = q * y + y * t
  BY <1>1, Distribute
<1>3. q + t <= (q + t) * y /\ (q + t) * y \in Nat
  BY <1>1, Product
<1> QED
  BY <1>1, <1>2, <1>3

\* Every number of a sequence is twice the one before it.
Doubles(s) == \A i \in 1 .. (Len(s) - 1) : s[i + 1] = 2 * s[i]

LEMMA AppendDouble ==
    ASSUME NEW s \in Seq(Nat), Len(s) > 0, Doubles(s), NEW x \in Nat, x = 2 * s[Len(s)],
           NEW t, t = Append(s, x)
    PROVE  t \in Seq(Nat) /\ Len(t) > 0 /\ t[Len(t)] = x /\ t[1] = s[1] /\ Doubles(t)
<1>1. Len(s) \in Nat
  BY LenProperties
<1>2. /\ t \in Seq(Nat) /\ Len(t) = Len(s) + 1 /\ t[Len(s) + 1] = x
      /\ \A i \in 1 .. Len(s) : t[i] = s[i]
  BY AppendProperties
<1>3. ASSUME NEW i \in 1 .. (Len(t) - 1)
      PROVE  t[i + 1] = 2 * t[i]
  <2>1. i \in 1 .. Len(s) /\ t[i] = s[i]
    BY <1>1, <1>2
  <2>2. CASE i = Len(s)
    BY <2>1, <2>2, <1>2
  <2>3. CASE i # Len(s)
    <3>1. i \in 1 .. (Len(s) - 1) /\ i + 1 \in 1 .. Len(s)
      BY <2>1, <2>3, <1>1
    <3> QED
      BY <3>1, <2>1, <1>2 DEF Doubles
  <2> QED
    BY <2>2, <2>3
<1> QED
  BY <1>1, <1>2, <1>3, SMTT(20) DEF Doubles

\* A sequence of at least two numbers without its last one.
LEMMA DropLast ==
    ASSUME NEW s \in Seq(Nat), Len(s) > 1, Doubles(s), NEW t, t = SubSeq(s, 1, Len(s) - 1)
    PROVE  /\ t \in Seq(Nat) /\ Len(t) > 0 /\ t[1] = s[1] /\ Doubles(t)
           /\ t[Len(t)] \in Nat /\ s[Len(s)] = 2 * t[Len(t)]
<1>1. Len(s) \in Nat /\ \A i \in 1 .. Len(s) : s[i] \in Nat
  BY ElementOfSeq, LenProperties
<1>2. /\ t \in Seq(Nat) /\ Len(t) = Len(s) - 1
      /\ \A i \in 1 .. (Len(s) - 1) : t[i] = s[i]
  <2>1. \A i \in 1 .. (Len(s) - 1) : s[i] \in Nat
    BY <1>1
  <2>2. /\ SubSeq(s, 1, Len(s) - 1) \in Seq(Nat)
        /\ Len(SubSeq(s, 1, Len(s) - 1)) =
             IF 1 <= Len(s) - 1 THEN (Len(s) - 1) - 1 + 1 ELSE 0
        /\ \A i \in 1 .. ((Len(s) - 1) - 1 + 1) : SubSeq(s, 1, Len(s) - 1)[i] = s[1 + i - 1]
    BY <1>1, <2>1, SubSeqProperties
  <2> QED
    BY <1>1, <2>2
<1>3. ASSUME NEW i \in 1 .. (Len(t) - 1)
      PROVE  t[i + 1] = 2 * t[i]
  <2>1. i \in 1 .. (Len(s) - 1) /\ i + 1 \in 1 .. (Len(s) - 1)
    BY <1>1, <1>2
  <2> QED
    BY <2>1, <1>2 DEF Doubles
<1>4. Len(s) - 1 \in 1 .. (Len(s) - 1) /\ 1 \in 1 .. (Len(s) - 1)
  BY <1>1
<1>5. t[1] = s[1] /\ t[Len(t)] = s[Len(s) - 1]
  BY <1>2, <1>4
<1>6. s[(Len(s) - 1) + 1] = 2 * s[Len(s) - 1] /\ (Len(s) - 1) + 1 = Len(s)
  BY <1>1, <1>4 DEF Doubles
<1>7. s[Len(s) - 1] \in Nat
  BY <1>1, <1>4
<1> QED
  BY <1>1, <1>2, <1>3, <1>5, <1>6, <1>7, SMTT(20) DEF Doubles

-----------------------------------------------------------------------------
(* 64-bit division: the steps                                              *)

LEMMA LongIsNat == Long \in Nat /\ Long > 0 /\ 2 * Sign = Long
  BY WidthAssumption, Product DEF Long

LEMMA InitIInv == Init => IInv
<1> SUFFICES ASSUME Init PROVE IInv
  OBVIOUS
<1>1. n \in Nat /\ n < Long /\ base \in Nat /\ base > 0 /\ base < Word
  BY LongIsNat, WidthAssumption, CallAssumption DEF Init, Long
<1>2. TypeOK
  BY <1>1 DEF Init, TypeOK
<1>3. Doubling
  BY DEF Init, Doubling
<1> QED
  BY <1>2, <1>3 DEF Init, IInv, NothingLost, DivisionRight

\* 32-bit dividends: one division is enough.
LEMMA DivideShortIInv == IInv /\ DivideShort => IInv'
<1> SUFFICES ASSUME IInv, DivideShort PROVE IInv'
  OBVIOUS
<1>1. n \in Nat /\ base \in Nat /\ base > 0
  BY DEF IInv, TypeOK
<1>2. /\ res' \in Nat /\ rem' \in Nat
      /\ n = res' * base + rem' /\ rem' < base
  BY <1>1, Euclid DEF DivideShort
<1>3. rem' \in 0 .. n
  <2>1. res' * base \in Nat
    BY <1>1, <1>2, Product
  <2>2. rem' <= n
    BY <1>2, <2>1, SummandIsLess
  <2> QED
    BY <1>1, <1>2, <2>2, InInterval
<1>4. pc' = "done" /\ UNCHANGED <<n, base, b, d, weights>>
  BY DEF DivideShort
<1>5. TypeOK'
  BY <1>2, <1>3, <1>4 DEF IInv, TypeOK
<1>6. Doubling'
  BY <1>4 DEF IInv, Doubling
<1> QED
  BY <1>2, <1>4, <1>5, <1>6 DEF IInv, NothingLost, DivisionRight

\* What is taken off first is a multiple of the divisor that goes into the high word.
LEMMA ReduceIInv == IInv /\ Reduce => IInv'
<1> SUFFICES ASSUME IInv, Reduce PROVE IInv'
  OBVIOUS
<1> DEFINE high == n \div Word
           quot == high \div base
<1>1. /\ n \in Nat /\ n < Long /\ base \in Nat /\ base > 0 /\ base < Word
      /\ b = base /\ d = 1
  BY DEF IInv, TypeOK, Reduce
<1>2. high \in Nat /\ n = high * Word + (n % Word) /\ n % Word \in Nat
  BY <1>1, WidthAssumption, Euclid
<1>3. quot \in Nat /\ high = quot * base + (high % base) /\ high % base \in Nat
  BY <1>1, <1>2, Euclid
<1> HIDE DEF high, quot
<1>4. high < Word
  <2>1. high * Word <= n
    BY <1>1, <1>2, Product, WidthAssumption
  <2>2. high * Word < Word * Word
    BY <2>1, <1>1, <1>2, LongIsNat, Product, WidthAssumption DEF Long
  <2>3. ~(Word <= high)
    <3>1. SUFFICES ASSUME Word <= high PROVE FALSE
      OBVIOUS
    <3>2. high * Word = (high - Word) * Word + Word * Word
      BY <1>2, <3>1, Distribute, WidthAssumption
    <3> QED
      BY <3>2, <2>2, <3>1, <1>2, Product, WidthAssumption
  <2> QED
    BY <2>3, <1>2, WidthAssumption
<1>5. quot * base \in Nat /\ quot * base <= high /\ quot <= high
  BY <1>1, <1>2, <1>3, Product
<1>6. quot * base < Word /\ quot < Word /\ (quot * base) % Word = quot * base
  BY <1>4, <1>5, <1>2, <1>3, SmallMod, WidthAssumption
<1>7. quot * Word \in Nat /\ (quot * Word) % Long = quot * Word
  <2>1. quot * Word < Word * Word /\ quot * Word \in Nat
    BY <1>3, <1>6, ProductMonotone, Product, WidthAssumption
  <2> QED
    BY <2>1, SmallMod, LongIsNat DEF Long
<1>8. /\ res' \in Nat /\ rem' \in Nat /\ rem' <= n
      /\ n = res' * base + rem'
  <2>1. CASE high >= base
    <3>1. res' = quot * Word /\ rem' = n - (quot * base) * Word
      BY <2>1, <1>6, <1>7 DEF Reduce, high, quot
    <3>2. (quot * base) * Word = (quot * Word) * base
      BY <1>1, <1>3, Distribute, WidthAssumption
    <3>3. /\ (quot * base) * Word \in Nat
          /\ high * Word = (quot * base) * Word + (high % base) * Word
          /\ (high % base) * Word \in Nat
      BY <1>3, <1>5, Distribute, Product, WidthAssumption
    <3>4. (quot * base) * Word <= n
      <4>1. high * Word \in Nat
        BY <1>2, Product, WidthAssumption
      <4> QED
        BY <4>1, <3>3, <1>1, <1>2
    <3> QED
      BY <3>1, <3>2, <3>3, <3>4, <1>1, <1>7
  <2>2. CASE ~(high >= base)
    <3>1. res' = 0 /\ rem' = n
      BY <2>2 DEF Reduce, high
    <3> QED
      BY <3>1, <1>1
  <2> QED
    BY <2>1, <2>2
<1>9. pc' = "up" /\ UNCHANGED <<n, base, b, d, weights>>
  BY DEF Reduce
<1>10. TypeOK'
  <2>1. rem' \in 0 .. n /\ res' \in Nat
    BY <1>1, <1>8, InInterval
  <2> QED
    BY <2>1, <1>9 DEF IInv, TypeOK
<1>11. Doubling'
  BY <1>9 DEF IInv, Doubling, Reduce
<1> QED
  BY <1>1, <1>8, <1>9, <1>10, <1>11 DEF IInv, NothingLost, DivisionRight

\* On the way up divisor and weight double without leaving their words; when they
\* stop, twice the divisor is more than remains.
LEMMA ShiftUpIInv == IInv /\ ShiftUp => IInv'
<1> SUFFICES ASSUME IInv, ShiftUp PROVE IInv'
  OBVIOUS
<1>1. /\ n \in Nat /\ n < Long /\ base \in Nat /\ base > 0 /\ base < Word
      /\ rem \in Nat /\ rem <= n /\ res \in Nat /\ b \in Nat /\ d \in Nat /\ d > 0
  BY DEF IInv, TypeOK, ShiftUp
<1>2. n = res * base + rem /\ b = base * d
  BY DEF IInv, NothingLost, ShiftUp
<1>3. /\ weights \in Seq(Nat) /\ Len(weights) > 0 /\ weights[1] = 1
      /\ d = weights[Len(weights)] /\ Doubles(weights)
  BY DEF IInv, Doubling, Doubles, ShiftUp
<1>4. UNCHANGED <<n, base, rem, res>>
  BY DEF ShiftUp
<1>5. d <= b /\ b > 0
  BY <1>1, <1>2, Product
<1>6. CASE b < Sign /\ b < rem
  <2>1. b + b \in Nat /\ b + b < Long /\ d + d \in Nat /\ d + d < Long
    BY <1>1, <1>5, <1>6, LongIsNat, WidthAssumption
  <2>2. pc' = "up" /\ b' = b + b /\ d' = d + d /\ weights' = Append(weights, d + d)
    BY <2>1, <1>1, <1>5, <1>6, LongIsNat, SmallMod DEF ShiftUp
  <2>3. b' = base * d'
    BY <2>2, <1>1, <1>2, Distribute
  <2>4. TypeOK'
    BY <2>1, <2>2, <1>1, <1>4 DEF TypeOK
  <2>5. d + d = 2 * weights[Len(weights)]
    BY <1>1, <1>3
  <2>6. /\ weights' \in Seq(Nat) /\ Len(weights') > 0 /\ weights'[Len(weights')] = d'
        /\ weights'[1] = 1 /\ Doubles(weights')
    BY <2>1, <2>2, <2>5, <1>3, AppendDouble
  <2>7. Doubling'
    BY <2>6 DEF Doubling, Doubles
  <2>8. d' > 0
    BY <2>2, <1>1
  <2> QED
    BY <2>2, <2>3, <2>4, <2>7, <2>8, <1>2, <1>4 DEF IInv, NothingLost, DivisionRight
<1>7. CASE ~(b < Sign /\ b < rem)
  <2>1. pc' = "down" /\ UNCHANGED <<b, d, weights>>
    BY <1>7 DEF ShiftUp
  <2>2. rem < 2 * b
    <3>1. rem < 2 * Sign
      BY <1>1, LongIsNat
    <3> QED
      BY <3>1, <1>1, <1>5, <1>7, DoubleIsMore, WidthAssumption
  <2>3. TypeOK'
    BY <2>1, <1>1, <1>4 DEF TypeOK
  <2>4. Doubling'
    BY <2>1, <1>3 DEF Doubling, Doubles
  <2> QED
    BY <2>1, <2>2, <2>3, <2>4, <1>1, <1>2, <1>4 DEF IInv, NothingLost, DivisionRight
<1> QED
  BY <1>6, <1>7

\* On the way down the weight is even until it is 1, so that halving it is exact; after
\* the last turn what remains is less than the divisor itself.
LEMMA ShiftDownIInv == IInv /\ ShiftDown => IInv'
<1> SUFFICES ASSUME IInv, ShiftDown PROVE IInv'
  OBVIOUS
<1>1. /\ n \in Nat /\ n < Long /\ base \in Nat /\ base > 0 /\ base < Word
      /\ rem \in Nat /\ rem <= n /\ res \in Nat /\ b \in Nat /\ d \in Nat /\ d > 0
      /\ rem < 2 * b
  BY DEF IInv, TypeOK, NothingLost, ShiftDown
<1>2. n = res * base + rem /\ b = base * d
  BY DEF IInv, NothingLost, ShiftDown
<1>3. /\ weights \in Seq(Nat) /\ Len(weights) > 0 /\ weights[1] = 1
      /\ d = weights[Len(weights)] /\ Doubles(weights)
  BY DEF IInv, Doubling, Doubles, ShiftDown
<1>4. /\ UNCHANGED <<n, base>> /\ d' = d \div 2 /\ b' = b \div 2
      /\ weights' = SubSeq(weights, 1, Len(weights) - 1)
      /\ pc' = IF d' # 0 THEN "down" ELSE "done"
  BY DEF ShiftDown
<1>5. /\ rem' \in Nat /\ rem' <= n /\ res' \in Nat /\ rem' < b
      /\ n = res' * base + rem'
  <2>1. CASE rem >= b
    <3>1. /\ rem - base * d \in Nat /\ rem - base * d <= n
          /\ n = (res + d) * base + (rem - base * d)
          /\ res + d \in Nat /\ res + d <= n
      <4>1. base * d <= rem
        BY <2>1, <1>1, <1>2
      <4> QED
        BY <4>1, <1>1, <1>2, MoveOver
    <3>2. res + d < Long
      BY <3>1, <1>1, LongIsNat
    <3>3. res' = res + d /\ rem' = rem - b
      BY <3>1, <3>2, <2>1, SmallMod, LongIsNat DEF ShiftDown
    <3>4. rem - b < b
      BY <1>1, <2>1
    <3> QED
      BY <3>1, <3>3, <3>4, <1>2
  <2>2. CASE ~(rem >= b)
    <3>1. rem' = rem /\ res' = res
      BY <2>2 DEF ShiftDown
    <3>2. rem < b
      BY <2>2, <1>1
    <3> QED
      BY <3>1, <3>2, <1>1, <1>2
  <2> QED
    BY <2>1, <2>2
<1>6. /\ n' \in Nat /\ n' < Long /\ base' \in Nat /\ base' > 0 /\ base' < Word
      /\ rem' \in 0 .. n' /\ res' \in Nat
  <2>1. rem' \in 0 .. n
    BY <1>1, <1>5, InInterval
  <2>2. n' = n /\ base' = base
    BY <1>4
  <2> QED
    BY <2>1, <2>2, <1>1, <1>5
<1>7. CASE Len(weights) = 1
  <2>1. d = 1 /\ b = base
    BY <1>1, <1>2, <1>3, <1>7
  <2>2. d' = 0 /\ pc' = "done"
    BY <2>1, <1>4
  <2>3. weights' \in Seq(Nat) /\ Len(weights') = 0
    BY <1>4, <1>7, SubSeqProperties
  <2>4. b' \in Nat
    BY <1>1, <1>4, HalfOfDouble
  <2>5. TypeOK'
    BY <2>2, <2>4, <1>6 DEF TypeOK
  <2>6. Doubling'
    BY <2>2, <2>3 DEF Doubling
  <2> QED
    BY <2>1, <2>2, <2>5, <2>6, <1>4, <1>5 DEF IInv, NothingLost, DivisionRight
<1>8. CASE Len(weights) # 1
  <2> DEFINE w == weights'[Len(weights')]
  <2>1. /\ weights' \in Seq(Nat) /\ Len(weights') > 0 /\ weights'[1] = 1
        /\ Doubles(weights') /\ w \in Nat /\ d = 2 * w
    <3>1. Len(weights) > 1
      <4>1. Len(weights) \in Nat /\ Len(weights) > 0
        BY <1>3, LenProperties
      <4> QED
        BY <4>1, <1>8, MoreThanOne
    <3> QED
      BY <3>1, <1>3, <1>4, DropLast
  <2>2. ASSUME d' = w PROVE Doubling'
    BY <2>1, <2>2 DEF Doubling, Doubles
  <2> HIDE DEF w
  <2>3. d' = w /\ w > 0
    BY <2>1, <1>1, <1>4, HalfOfDouble
  <2>4. b = 2 * (base * w) /\ base * w \in Nat
    BY <2>1, <1>1, <1>2, Product
  <2>5. b' = base * d' /\ b' \in Nat /\ b = 2 * b'
    BY <2>3, <2>4, <1>4, HalfOfDouble
  <2>6. pc' = "down"
    BY <2>1, <2>3, <1>4
  <2>7. TypeOK'
    BY <2>1, <2>3, <2>5, <2>6, <1>6 DEF TypeOK
  <2>8. NothingLost'
    BY <2>5, <2>6, <1>4, <1>5 DEF NothingLost
  <2> QED
    BY <2>1, <2>2, <2>3, <2>6, <2>7, <2>8 DEF IInv, DivisionRight
<1> QED
  BY <1>7, <1>8

LEMMA NextIInv == IInv /\ [Next]_vars => IInv'
<1> SUFFICES ASSUME IInv, [Next]_vars PROVE IInv'
  OBVIOUS
<1>1. CASE Next
  BY <1>1, DivideShortIInv, ReduceIInv, ShiftUpIInv, ShiftDownIInv DEF Next
<1>2. CASE UNCHANGED vars
  BY <1>2 DEF vars, IInv, TypeOK, Doubling, NothingLost, DivisionRight
<1> QED
  BY <1>1, <1>2

-----------------------------------------------------------------------------
(* 64-bit division: the theorems                                           *)

\* The inductive invariant holds of every division.
THEOREM DivisionInvariant == Spec => []IInv
<1>1. Init => IInv
  BY InitIInv
<1>2. IInv /\ [Next]_vars => IInv'
  BY NextIInv
<1> QED
  BY <1>1, <1>2, PTL DEF Spec

\* The variables of the loops (__div64_32) keep their types.
THEOREM DivisionTypeCorrect == Spec => []TypeOK
<1>1. IInv => TypeOK
  BY DEF IInv
<1> QED
  BY <1>1, DivisionInvariant, PTL

\* Neither loop of __div64_32 loses anything, for words of every width.
THEOREM LoopsLoseNothing == Spec => []NothingLost
<1>1. IInv => NothingLost
  BY DEF IInv
<1> QED
  BY <1>1, DivisionInvariant, PTL

\* do_div returns quotient and remainder of every dividend and divisor, for words of
\* every width.
THEOREM DivisionsRight == Spec => []DivisionRight
<1>1. IInv => DivisionRight
  BY DEF IInv
<1> QED
  BY <1>1, DivisionInvariant, PTL

-----------------------------------------------------------------------------
(* One byte more                                                           *)

\* Memory w after the bytes from l to below N of an area have been moved.
MovedFrom(w, da, s, l, N) ==
    [a \in Addr |-> IF da + l <= a /\ a < da + N THEN w[s + (a - da)] ELSE w[a]]

\* Memory w after k bytes from da have been set to c.
FilledWith(w, da, k, c) == [a \in Addr |-> IF da <= a /\ a < da + k THEN c ELSE w[a]]

\* Memory m after a byte has been written.
With(m, a, v) == [m EXCEPT ![a] = v]

\* The next byte can be moved after k have been: it is in memory, and has not been
\* overwritten.
CanMove(w, da, s, k) ==
    /\ w \in [Addr -> Byte] /\ da \in Nat /\ s \in Nat /\ k \in Nat /\ Size \in Nat
    /\ da + k < Size /\ s + k < Size /\ (da <= s \/ s + k < da)

\* A byte copied upwards comes from where nothing has been overwritten yet, unless the
\* source lies below the destination and reaches into it.
LEMMA MoveUp ==
    ASSUME NEW w, NEW da, NEW s, NEW k, CanMove(w, da, s, k)
    PROVE  /\ Moved(w, da, s, k)[s + k] = w[s + k]
           /\ With(Moved(w, da, s, k), da + k, w[s + k]) = Moved(w, da, s, k + 1)
<1> USE DEF CanMove
<1> DEFINE m == Moved(w, da, s, k)
<1>1. s + k \in Addr /\ da + k \in Addr BY DEF Addr
<1>2. m[s + k] = w[s + k] BY <1>1 DEF Moved, Addr
<1>3. ASSUME NEW a \in Addr
      PROVE  [m EXCEPT ![da + k] = w[s + k]][a] = Moved(w, da, s, k + 1)[a]
  BY <1>1 DEF Moved, Addr
<1>4. With(m, da + k, w[s + k]) = Moved(w, da, s, k + 1) BY <1>3 DEF Moved, With
<1> QED BY <1>2, <1>4

\* And so does one copied downwards, if the source lies below the destination.
LEMMA MoveDown ==
    ASSUME NEW w \in [Addr -> Byte], NEW da \in Nat, NEW s \in Nat, NEW l \in Nat, NEW N \in Nat,
           Size \in Nat, 0 < l, l <= N, da + N <= Size, s < da
    PROVE  LET m == MovedFrom(w, da, s, l, N)
           IN  [m EXCEPT ![da + l - 1] = m[s + l - 1]] = MovedFrom(w, da, s, l - 1, N)
<1> DEFINE m == MovedFrom(w, da, s, l, N)
<1>1. s + l - 1 \in Addr /\ da + l - 1 \in Addr BY DEF Addr
<1>2. m[s + l - 1] = w[s + l - 1] BY <1>1 DEF MovedFrom, Addr
<1>3. ASSUME NEW a \in Addr
      PROVE  [m EXCEPT ![da + l - 1] = m[s + l - 1]][a] = MovedFrom(w, da, s, l - 1, N)[a]
  BY <1>1, <1>2 DEF MovedFrom, Addr
<1>4. [m EXCEPT ![da + l - 1] = m[s + l - 1]] = MovedFrom(w, da, s, l - 1, N) BY <1>3 DEF MovedFrom
<1> QED BY <1>4

LEMMA FillOne ==
    ASSUME NEW w \in [Addr -> Byte], NEW da \in Nat, NEW k \in Nat, NEW c, Size \in Nat, da + k < Size
    PROVE  [FilledWith(w, da, k, c) EXCEPT ![da + k] = c] = FilledWith(w, da, k + 1, c)
<1>1. da + k \in Addr BY DEF Addr
<1>2. ASSUME NEW a \in Addr
      PROVE  [FilledWith(w, da, k, c) EXCEPT ![da + k] = c][a] = FilledWith(w, da, k + 1, c)[a]
  BY <1>1 DEF FilledWith, Addr
<1> QED BY <1>2 DEF FilledWith

\* Where and how much can be moved.
Area(w, da, s, N) == w \in [Addr -> Byte] /\ da \in Nat /\ s \in Nat /\ N \in Nat /\ Size \in Nat

LEMMA MovedNothing ==
    ASSUME NEW w, NEW da, NEW s, NEW N, Area(w, da, s, N)
    PROVE  /\ Moved(w, da, s, 0) = w
           /\ MovedFrom(w, da, s, N, N) = w
           /\ MovedFrom(w, da, s, 0, N) = Moved(w, da, s, N)
<1> USE DEF Area
<1>1. \A a \in Addr : a \in Nat BY DEF Addr
<1>2. \A a \in Addr : Moved(w, da, s, 0)[a] = w[a] BY <1>1 DEF Moved
<1>3. \A a \in Addr : MovedFrom(w, da, s, N, N)[a] = w[a] BY <1>1 DEF MovedFrom
<1>4. \A a \in Addr : MovedFrom(w, da, s, 0, N)[a] = Moved(w, da, s, N)[a] BY <1>1 DEF MovedFrom, Moved
<1>5. Moved(w, da, s, 0) = w BY <1>2 DEF Moved
<1>6. MovedFrom(w, da, s, N, N) = w BY <1>3 DEF MovedFrom
<1>7. MovedFrom(w, da, s, 0, N) = Moved(w, da, s, N) BY <1>4 DEF MovedFrom, Moved
<1> QED BY <1>5, <1>6, <1>7

LEMMA FilledNothing ==
    ASSUME NEW w, NEW da, NEW s, NEW N, NEW c, Area(w, da, s, N)
    PROVE  FilledWith(w, da, 0, c) = w
<1> USE DEF Area
<1>1. \A a \in Addr : a \in Nat BY DEF Addr
<1>2. \A a \in Addr : FilledWith(w, da, 0, c)[a] = w[a] BY <1>1 DEF FilledWith
<1> QED BY <1>2 DEF FilledWith

-----------------------------------------------------------------------------
(* The invariant of the calls on areas                                     *)

\* The call and the memories are what they ought to be.
CallOK ==
    /\ mem \in [Addr -> Byte] /\ was \in [Addr -> Byte]
    /\ op \in MemCalls /\ Legal(was, op)

\* Outside the destination memory is what it was.
Confined == \A a \in Addr : mem[a] # was[a] => op.d <= a /\ a < op.d + op.n

\* A loop has moved, or set, the bytes it has counted.
Called == mem = was /\ dst = op.d /\ src = op.s /\ left = op.n
GoneUp ==
    /\ op.f # "memset" /\ (op.f = "memmove" => op.d <= op.s)
    /\ dst = op.d + (op.n - left) /\ src = op.s + (op.n - left)
    /\ ~Clobbers => mem = Moved(was, op.d, op.s, op.n - left)
GoneDown ==
    /\ op.f = "memmove" /\ op.s < op.d
    /\ dst = op.d + left /\ src = op.s + left
    /\ mem = MovedFrom(was, op.d, op.s, left, op.n)
GoneFill ==
    /\ op.f = "memset" /\ dst = op.d + (op.n - left)
    /\ mem = FilledWith(was, op.d, op.n - left, op.c)

BlockState ==
    /\ at \in {"call", "up", "down", "fill", "back"} /\ left \in 0 .. op.n
    /\ at = "call" => Called
    /\ at = "up" => GoneUp
    /\ at = "down" => GoneDown
    /\ at = "fill" => GoneFill
    /\ at = "back" /\ ~Clobbers => mem = Wanted
    /\ Confined

BlockInv == CallOK /\ (op.f \in Blocks => BlockState)

\* What the invariant says of the call, with its types.
LEMMA CallFacts ==
    ASSUME CallOK
    PROVE  /\ Size \in Nat /\ NUL \in Byte
           /\ op.d \in Nat /\ op.s \in Nat /\ op.n \in Nat /\ op.c \in Byte
           /\ op.f \in Blocks \cup Strs
           /\ op.f \in Blocks => op.d + op.n <= Size
           /\ op.f \in Blocks /\ op.f # "memset" => op.s + op.n <= Size
<1>1. op \in [f : Blocks \cup Strs, d : Nat, s : Nat, n : Nat, c : Byte]
  BY MemAssumption DEF CallOK
<1> QED BY <1>1, MemAssumption DEF CallOK, Legal, LegalBlock

\* No action but a turn of a loop writes, and what it writes lies in the destination.
LEMMA WriteConfined ==
    ASSUME CallOK, Confined, NEW x \in Nat, NEW v \in Byte, op.d <= x, x < op.d + op.n,
           op.f \in Blocks, mem' = [mem EXCEPT ![x] = v], UNCHANGED <<op, was>>
    PROVE  CallOK' /\ Confined'
<1>1. op.d \in Nat /\ op.n \in Nat /\ op.d + op.n <= Size /\ Size \in Nat BY CallFacts
<1>2. x \in Addr BY <1>1 DEF Addr
<1>3. mem' \in [Addr -> Byte] BY <1>2 DEF CallOK
<1>4. CallOK' BY <1>3 DEF CallOK
<1>5. Confined' BY <1>2 DEF CallOK, Confined
<1> QED BY <1>4, <1>5

LEMMA BlockInit == MemInit => BlockInv
<1> SUFFICES ASSUME MemInit PROVE BlockInv OBVIOUS
<1>1. CallOK BY MemAssumption DEF MemInit, CallOK
<1>2. op.n \in Nat BY <1>1, CallFacts
<1>3. BlockState BY <1>2 DEF MemInit, BlockState, Called, Confined
<1> QED BY <1>1, <1>3 DEF BlockInv

LEMMA UpStep ==
    ASSUME BlockInv, op.f \in Blocks, CopyUp
    PROVE  BlockInv'
<1> USE DEF BlockInv
<1>1. /\ op.d \in Nat /\ op.s \in Nat /\ op.n \in Nat /\ Size \in Nat
      /\ op.d + op.n <= Size
  BY CallFacts
<1>2. at = "up" /\ GoneUp /\ left \in 0 .. op.n /\ Confined BY DEF CopyUp, BlockState
<1>3. op.s + op.n <= Size BY <1>2, CallFacts DEF GoneUp
<1>4. CASE left = 0
  <2>1. UNCHANGED <<mem, op, dst, src, left, was>> /\ at' = "back" BY <1>2, <1>4 DEF CopyUp, Return
  <2>2. ~Clobbers => mem = Wanted BY <1>1, <1>2, <1>4 DEF GoneUp, Wanted
  <2>3. BlockState' BY <2>1, <2>2, <1>2 DEF BlockState, Confined, Clobbers, Wanted
  <2>4. CallOK' BY <2>1 DEF CallOK
  <2> QED BY <2>1, <2>3, <2>4
<1>5. CASE left # 0
  <2> DEFINE k == op.n - left
  <2>1. /\ mem' = [mem EXCEPT ![dst] = mem[src]]
        /\ dst' = dst + 1 /\ src' = src + 1 /\ left' = left - 1 /\ UNCHANGED <<at, op, was>>
    BY <1>2, <1>5 DEF CopyUp
  <2>2. /\ k \in Nat /\ k < op.n /\ k + 1 = op.n - left'
        /\ dst = op.d + k /\ src = op.s + k
    BY <1>1, <1>2, <1>5, <2>1 DEF GoneUp
  <2>3. src \in Addr BY <1>1, <1>3, <2>2 DEF Addr
  <2>4. mem[src] \in Byte BY <2>3 DEF CallOK
  <2>5. dst \in Nat /\ op.d <= dst /\ dst < op.d + op.n BY <1>1, <2>2
  <2>6. CallOK' /\ Confined' BY <1>2, <2>1, <2>4, <2>5, WriteConfined
  <2>7. ASSUME ~Clobbers PROVE mem' = Moved(was, op.d, op.s, k + 1)
    <3>1. op.d <= op.s \/ op.s + k < op.d
      BY <2>7, <1>1, <1>2, <1>3, <2>2 DEF GoneUp, Clobbers, Forwards, Blocks
    <3>2. was \in [Addr -> Byte] BY DEF CallOK
    <3>3. op.d + k < Size /\ op.s + k < Size BY <1>1, <1>3, <2>2
    <3>4. mem = Moved(was, op.d, op.s, k) BY <1>2, <2>7 DEF GoneUp
    <3>5. CanMove(was, op.d, op.s, k) BY <3>1, <3>2, <3>3, <1>1, <2>2 DEF CanMove
    <3> HIDE DEF k
    <3>6. /\ Moved(was, op.d, op.s, k)[op.s + k] = was[op.s + k]
          /\ With(Moved(was, op.d, op.s, k), op.d + k, was[op.s + k]) = Moved(was, op.d, op.s, k + 1)
      BY <3>5, MoveUp
    <3> QED BY <3>4, <3>6, <2>1, <2>2 DEF With
  <2>8. left' \in 0 .. op.n' /\ dst' = op.d' + (op.n' - left') /\ src' = op.s' + (op.n' - left')
    BY <1>1, <1>2, <1>5, <2>1, <2>2
  <2>9. GoneUp' BY <1>2, <2>1, <2>2, <2>7, <2>8 DEF GoneUp, Clobbers
  <2>10. BlockState' BY <1>2, <2>1, <2>6, <2>8, <2>9 DEF BlockState
  <2> QED BY <2>6, <2>10
<1> QED BY <1>4, <1>5

LEMMA DownStep ==
    ASSUME BlockInv, op.f \in Blocks, CopyDown
    PROVE  BlockInv'
<1> USE DEF BlockInv
<1>1. /\ op.d \in Nat /\ op.s \in Nat /\ op.n \in Nat /\ Size \in Nat
      /\ op.d + op.n <= Size
  BY CallFacts
<1>2. at = "down" /\ GoneDown /\ left \in 0 .. op.n /\ Confined BY DEF CopyDown, BlockState
<1>3. op.s + op.n <= Size BY <1>2, CallFacts DEF GoneDown
<1>4. was \in [Addr -> Byte] BY DEF CallOK
<1>5. CASE left = 0
  <2>1. UNCHANGED <<mem, op, dst, src, left, was>> /\ at' = "back" BY <1>2, <1>5 DEF CopyDown, Return
  <2>2. MovedFrom(was, op.d, op.s, 0, op.n) = Moved(was, op.d, op.s, op.n)
    <3>1. Area(was, op.d, op.s, op.n) BY <1>1, <1>4 DEF Area
    <3> QED BY <3>1, MovedNothing
  <2>3. mem = Wanted BY <1>2, <1>5, <2>2 DEF GoneDown, Wanted
  <2>4. BlockState' BY <2>1, <2>3, <1>2 DEF BlockState, Confined, Clobbers, Wanted
  <2>5. CallOK' BY <2>1 DEF CallOK
  <2> QED BY <2>1, <2>4, <2>5
<1>6. CASE left # 0
  <2>1. /\ mem' = [mem EXCEPT ![dst - 1] = mem[src - 1]]
        /\ dst' = dst - 1 /\ src' = src - 1 /\ left' = left - 1 /\ UNCHANGED <<at, op, was>>
    BY <1>2, <1>6 DEF CopyDown
  <2>2. /\ left \in Nat /\ 0 < left /\ left <= op.n
        /\ dst = op.d + left /\ src = op.s + left
    BY <1>1, <1>2, <1>6 DEF GoneDown
  <2>3. src - 1 \in Addr BY <1>1, <1>3, <2>2 DEF Addr
  <2>4. mem[src - 1] \in Byte BY <2>3 DEF CallOK
  <2>5. dst - 1 \in Nat /\ op.d <= dst - 1 /\ dst - 1 < op.d + op.n BY <1>1, <2>2
  <2>6. CallOK' /\ Confined' BY <1>2, <2>1, <2>4, <2>5, WriteConfined
  <2>7. mem' = MovedFrom(was, op.d, op.s, left - 1, op.n)
    <3>1. op.s < op.d /\ mem = MovedFrom(was, op.d, op.s, left, op.n) BY <1>2 DEF GoneDown
    <3>2. dst - 1 = op.d + left - 1 /\ src - 1 = op.s + left - 1 BY <2>2, <1>1
    <3> QED BY <3>1, <3>2, <1>1, <1>4, <2>1, <2>2, MoveDown
  <2>8. left' \in 0 .. op.n' /\ dst' = op.d' + left' /\ src' = op.s' + left'
    BY <1>1, <1>2, <1>6, <2>1, <2>2
  <2>9. GoneDown' BY <1>2, <2>1, <2>7, <2>8 DEF GoneDown
  <2>10. BlockState' BY <1>2, <2>1, <2>6, <2>8, <2>9 DEF BlockState
  <2> QED BY <2>6, <2>10
<1> QED BY <1>5, <1>6

LEMMA FillStep ==
    ASSUME BlockInv, op.f \in Blocks, Fill
    PROVE  BlockInv'
<1> USE DEF BlockInv
<1>1. /\ op.d \in Nat /\ op.n \in Nat /\ Size \in Nat /\ op.c \in Byte
      /\ op.d + op.n <= Size
  BY CallFacts
<1>2. at = "fill" /\ GoneFill /\ left \in 0 .. op.n /\ Confined BY DEF Fill, BlockState
<1>3. was \in [Addr -> Byte] BY DEF CallOK
<1>4. CASE left = 0
  <2>1. UNCHANGED <<mem, op, dst, src, left, was>> /\ at' = "back" BY <1>2, <1>4 DEF Fill, Return
  <2>2. mem = Wanted BY <1>1, <1>2, <1>4 DEF GoneFill, Wanted, FilledWith
  <2>3. BlockState' BY <2>1, <2>2, <1>2 DEF BlockState, Confined, Clobbers, Wanted
  <2>4. CallOK' BY <2>1 DEF CallOK
  <2> QED BY <2>1, <2>3, <2>4
<1>5. CASE left # 0
  <2> DEFINE k == op.n - left
  <2>1. mem' = [mem EXCEPT ![dst] = op.c] /\ dst' = dst + 1 /\ left' = left - 1 /\ UNCHANGED <<at, op, src, was>>
    BY <1>2, <1>5 DEF Fill
  <2>2. k \in Nat /\ k < op.n /\ k + 1 = op.n - left' /\ dst = op.d + k
    BY <1>1, <1>2, <1>5, <2>1 DEF GoneFill
  <2>3. dst \in Nat /\ op.d <= dst /\ dst < op.d + op.n /\ op.d + k < Size BY <1>1, <2>2
  <2>4. CallOK' /\ Confined' BY <1>1, <1>2, <2>1, <2>3, WriteConfined
  <2>5. mem = FilledWith(was, op.d, k, op.c) BY <1>2 DEF GoneFill
  <2>6. mem' = FilledWith(was, op.d, k + 1, op.c) BY <1>1, <1>3, <2>1, <2>2, <2>3, <2>5, FillOne
  <2>7. left' \in 0 .. op.n' /\ dst' = op.d' + (op.n' - left') BY <1>1, <1>2, <1>5, <2>1, <2>2
  <2>8. GoneFill' BY <1>2, <2>1, <2>2, <2>6, <2>7 DEF GoneFill
  <2>9. BlockState' BY <1>2, <2>1, <2>4, <2>7, <2>8 DEF BlockState
  <2> QED BY <2>4, <2>9
<1> QED BY <1>4, <1>5

LEMMA EnterStep ==
    ASSUME BlockInv, op.f \in Blocks, Enter \/ EnterMove
    PROVE  BlockInv'
<1> USE DEF BlockInv
<1>1. op.d \in Nat /\ op.s \in Nat /\ op.n \in Nat /\ op.c \in Byte /\ Size \in Nat BY CallFacts
<1>2. at = "call" /\ Called /\ left \in 0 .. op.n /\ Confined /\ was \in [Addr -> Byte]
  BY DEF Enter, EnterMove, BlockState, CallOK
<1>3. UNCHANGED <<mem, op, left, was>> BY DEF Enter, EnterMove
<1>4. CallOK' /\ Confined' BY <1>2, <1>3 DEF CallOK, Confined
<1>5. /\ Moved(was, op.d, op.s, 0) = was
      /\ MovedFrom(was, op.d, op.s, op.n, op.n) = was
      /\ FilledWith(was, op.d, 0, op.c) = was
  <2>1. Area(was, op.d, op.s, op.n) BY <1>1, <1>2 DEF Area
  <2> QED BY <2>1, MovedNothing, FilledNothing
<1>6. op.n - left = 0 BY <1>1, <1>2 DEF Called
<1>7. CASE Enter /\ op.f = "memset"
  <2>1. at' = "fill" /\ dst' = dst BY <1>7 DEF Enter
  <2>2. GoneFill' BY <1>1, <1>2, <1>3, <1>5, <1>6, <1>7, <2>1 DEF GoneFill, Called
  <2> QED BY <1>2, <1>3, <1>4, <2>1, <2>2 DEF BlockState
<1>8. CASE Enter /\ op.f \in {"memcpy", "bcopy"}
  <2>1. at' = "up" /\ dst' = dst /\ src' = src BY <1>8 DEF Enter
  <2>2. GoneUp' BY <1>1, <1>2, <1>3, <1>5, <1>6, <1>8, <2>1 DEF GoneUp, Called
  <2> QED BY <1>2, <1>3, <1>4, <2>1, <2>2 DEF BlockState
<1>9. CASE EnterMove /\ op.d <= op.s
  <2>1. at' = "up" /\ dst' = dst /\ src' = src /\ op.f = "memmove" BY <1>9 DEF EnterMove
  <2>2. GoneUp' BY <1>1, <1>2, <1>3, <1>5, <1>6, <1>9, <2>1 DEF GoneUp, Called
  <2> QED BY <1>2, <1>3, <1>4, <2>1, <2>2 DEF BlockState
<1>10. CASE EnterMove /\ ~(op.d <= op.s)
  <2>1. at' = "down" /\ dst' = op.d + op.n /\ src' = op.s + op.n /\ op.f = "memmove" BY <1>10 DEF EnterMove
  <2>2. GoneDown' BY <1>1, <1>2, <1>3, <1>5, <1>10, <2>1 DEF GoneDown, Called
  <2> QED BY <1>2, <1>3, <1>4, <2>1, <2>2 DEF BlockState
<1> QED BY <1>7, <1>8, <1>9, <1>10 DEF Enter, EnterMove, Blocks

-----------------------------------------------------------------------------
(* The invariant of the calls on strings                                   *)

Cats == {"strcat", "strncat"}

\* Where the copy goes when the destination is a string of t characters.
Target(t) == IF op.f \in Cats THEN op.d + t ELSE op.d

\* How many bytes of a source of l characters are read.
Reads(l) == IF op.f \in {"strcpy", "strcat"} THEN l + 1 ELSE Min2(l + 1, op.n)

\* The call is legal, with strings of l and t characters.
Given(l, t) ==
    /\ IsString(was, op.s, l) /\ (op.f \in Cats => IsString(was, op.d, t))
    /\ Forwards(Target(t), op.s, Reads(l))
    /\ op.f = "strncat" => Target(t) + Min2(l, op.n) < Size

\* The first bytes of the source have been copied, no NUL among them.
Moving(l, t) ==
    /\ src \in op.s .. (op.s + l) /\ dst = Target(t) + (src - op.s)
    /\ mem = Moved(was, Target(t), op.s, src - op.s)

Counting == left \in 0 .. op.n /\ src - op.s = op.n - left

\* What StringsRight asks for.
Done(l, t) ==
    CASE op.f = "strcpy"  -> mem = Moved(was, op.d, op.s, l + 1)
      [] op.f = "strncpy" -> mem = Moved(was, op.d, op.s, Min2(l + 1, op.n))
      [] op.f = "strcat"  -> IsString(was, op.d, t) /\ mem = Moved(was, op.d + t, op.s, l + 1)
      [] op.f = "strncat" -> /\ IsString(was, op.d, t)
                             /\ mem = IF op.n = 0 THEN was
                                      ELSE [Moved(was, op.d + t, op.s, Min2(l, op.n))
                                               EXCEPT ![op.d + t + Min2(l, op.n)] = NUL]

StringState(l, t) ==
    /\ at \in {"call", "seek", "copy", "copyn", "append", "back"}
    /\ at = "call" => Called
    /\ at = "seek" => /\ op.f \in Cats /\ (op.f = "strncat" => 0 < op.n)
                      /\ mem = was /\ src = op.s /\ left = op.n
                      /\ dst \in op.d .. (op.d + t)
    /\ at = "copy" => op.f \in {"strcpy", "strcat"} /\ Moving(l, t)
    /\ at = "copyn" => op.f = "strncpy" /\ Moving(l, t) /\ Counting
    /\ at = "append" => op.f = "strncat" /\ Moving(l, t) /\ Counting /\ 0 < left
    /\ at = "back" => Done(l, t)

StringInv ==
    CallOK /\ (op.f \in Strs => \E l, t \in 0 .. Size : Given(l, t) /\ StringState(l, t))

LEMMA GivenFacts ==
    ASSUME CallOK, op.f \in Strs, NEW l \in 0 .. Size, NEW t \in 0 .. Size, Given(l, t)
    PROVE  /\ Size \in Nat /\ NUL \in Byte /\ op.d \in Nat /\ op.s \in Nat /\ op.n \in Nat
           /\ l \in Nat /\ t \in Nat /\ Target(t) \in Nat /\ Reads(l) \in Nat
           /\ op.s + l \in Addr /\ was[op.s + l] = NUL
           /\ \A k \in Nat : k < l => was[op.s + k] # NUL
           /\ Target(t) + Reads(l) <= Size
           /\ \A k \in Nat : k < Reads(l) => Target(t) <= op.s \/ op.s + k < Target(t)
           /\ was \in [Addr -> Byte]
<1>1. /\ Size \in Nat /\ NUL \in Byte /\ op.d \in Nat /\ op.s \in Nat /\ op.n \in Nat
      /\ was \in [Addr -> Byte]
  BY CallFacts DEF CallOK
<1>2. l \in Nat /\ t \in Nat BY <1>1
<1>3. Target(t) \in Nat /\ Reads(l) \in Nat BY <1>1, <1>2 DEF Target, Reads, Min2
<1>4. op.s + l < Size /\ was[op.s + l] = NUL /\ \A k \in 0 .. (l - 1) : was[op.s + k] # NUL
  BY DEF Given, IsString
<1>5. op.s + l \in Addr BY <1>1, <1>2, <1>4 DEF Addr
<1>6. \A k \in Nat : k < l => was[op.s + k] # NUL BY <1>2, <1>4
<1>7. /\ Target(t) + Reads(l) <= Size
      /\ Target(t) <= op.s \/ op.s + Reads(l) <= Target(t)
  BY DEF Given, Forwards
<1>8. \A k \in Nat : k < Reads(l) => Target(t) <= op.s \/ op.s + k < Target(t)
  BY <1>1, <1>3, <1>7
<1> QED BY <1>1, <1>2, <1>3, <1>4, <1>5, <1>6, <1>7, <1>8

\* One turn of a loop that copies: the byte is the source's, and it is the NUL exactly
\* when the whole string has been copied.
LEMMA CopyOne ==
    ASSUME CallOK, op.f \in Strs, NEW l \in 0 .. Size, NEW t \in 0 .. Size, Given(l, t), Moving(l, t),
           src - op.s < Reads(l)
    PROVE  /\ src \in Nat /\ dst \in Addr /\ mem[src] \in Byte
           /\ mem[src] = NUL <=> src - op.s = l
           /\ [mem EXCEPT ![dst] = mem[src]] = Moved(was, Target(t), op.s, (src - op.s) + 1)
           /\ [mem EXCEPT ![dst] = mem[src]] \in [Addr -> Byte]
<1> DEFINE k == src - op.s
<1>1. /\ Size \in Nat /\ op.s \in Nat /\ l \in Nat /\ Target(t) \in Nat /\ Reads(l) \in Nat
      /\ op.s + l \in Addr /\ was[op.s + l] = NUL /\ was \in [Addr -> Byte]
      /\ Target(t) + Reads(l) <= Size
      /\ \A j \in Nat : j < l => was[op.s + j] # NUL
      /\ \A j \in Nat : j < Reads(l) => Target(t) <= op.s \/ op.s + j < Target(t)
  BY GivenFacts
<1>2. k \in Nat /\ k <= l /\ k < Reads(l) BY <1>1 DEF Moving
<1> HIDE DEF k
<1>3. op.s + k \in Addr /\ op.s + k < Size
  <2>1. Size \in Nat /\ op.s \in Nat /\ l \in Nat /\ op.s + l \in Addr BY <1>1
  <2> QED BY <2>1, <1>2 DEF Addr
<1>4. Target(t) + k \in Addr /\ Target(t) + k < Size
  <2> DEFINE p == Target(t)
             r == Reads(l)
  <2>1. Size \in Nat /\ p \in Nat /\ r \in Nat /\ p + r <= Size BY <1>1
  <2> HIDE DEF p, r
  <2>2. k < r BY <1>2 DEF r
  <2>3. p + k \in Addr /\ p + k < Size BY <2>1, <2>2, <1>2 DEF Addr
  <2> QED BY <2>3 DEF p
<1> USE DEF k
<1>5. mem = Moved(was, Target(t), op.s, k) /\ dst = Target(t) + k BY DEF Moving
<1>6. src = op.s + k /\ src \in Nat BY <1>1 DEF Moving
<1>7. Target(t) <= op.s \/ op.s + k < Target(t) BY <1>1, <1>2
<1>8. /\ mem[op.s + k] = was[op.s + k]
      /\ [mem EXCEPT ![dst] = mem[op.s + k]] = Moved(was, Target(t), op.s, k + 1)
  <2>1. CanMove(was, Target(t), op.s, k) BY <1>1, <1>2, <1>3, <1>4, <1>7 DEF CanMove
  <2> HIDE DEF k
  <2>2. /\ Moved(was, Target(t), op.s, k)[op.s + k] = was[op.s + k]
        /\ With(Moved(was, Target(t), op.s, k), Target(t) + k, was[op.s + k])
             = Moved(was, Target(t), op.s, k + 1)
    BY <2>1, MoveUp
  <2> QED BY <1>5, <2>2 DEF With
<1>9. mem[src] = NUL <=> k = l BY <1>1, <1>2, <1>6, <1>8
<1>10. mem[src] \in Byte BY <1>1, <1>3, <1>6, <1>8
<1>11. [mem EXCEPT ![dst] = mem[src]] \in [Addr -> Byte] BY <1>4, <1>5, <1>10 DEF CallOK
<1> QED BY <1>2, <1>3, <1>4, <1>5, <1>6, <1>8, <1>9, <1>10, <1>11

LEMMA StringInit == MemInit => StringInv
<1> SUFFICES ASSUME MemInit PROVE StringInv OBVIOUS
<1>1. CallOK BY MemAssumption DEF MemInit, CallOK
<1>2. /\ op.d \in Nat /\ op.s \in Nat /\ op.n \in Nat /\ Size \in Nat BY <1>1, CallFacts
<1>3. ASSUME op.f \in Strs PROVE \E l, t \in 0 .. Size : Given(l, t)
  <2>1. LegalString(was, op)
    BY <1>3, <1>1 DEF CallOK, Legal, Strs, Blocks
  <2>2. PICK l \in Addr : IsString(was, op.s, l) /\
            \/ op.f = "strcpy"  /\ Forwards(op.d, op.s, l + 1)
            \/ op.f = "strncpy" /\ Forwards(op.d, op.s, Min2(l + 1, op.n))
            \/ \E t \in Addr : IsString(was, op.d, t) /\
                  \/ op.f = "strcat"  /\ Forwards(op.d + t, op.s, l + 1)
                  \/ op.f = "strncat" /\ Forwards(op.d + t, op.s, Min2(l + 1, op.n))
                                      /\ op.d + t + Min2(l, op.n) < Size
    BY <2>1 DEF LegalString
  <2>3. l \in 0 .. Size /\ 0 \in 0 .. Size BY <1>2 DEF Addr
  <2>4. CASE op.f = "strcpy"
    <3>1. Given(l, 0) BY <2>2, <2>4 DEF Given, Target, Reads, Cats
    <3> QED BY <3>1, <2>3
  <2>5. CASE op.f = "strncpy"
    <3>1. Given(l, 0) BY <2>2, <2>5 DEF Given, Target, Reads, Cats
    <3> QED BY <3>1, <2>3
  <2>6. CASE op.f \in Cats
    <3>1. PICK t \in Addr : IsString(was, op.d, t) /\
                  \/ op.f = "strcat"  /\ Forwards(op.d + t, op.s, l + 1)
                  \/ op.f = "strncat" /\ Forwards(op.d + t, op.s, Min2(l + 1, op.n))
                                      /\ op.d + t + Min2(l, op.n) < Size
      BY <2>2, <2>6 DEF Cats
    <3>2. t \in 0 .. Size BY <1>2 DEF Addr
    <3>3. Given(l, t) BY <2>2, <2>6, <3>1 DEF Given, Target, Reads, Cats
    <3> QED BY <3>2, <3>3, <2>3
  <2> QED BY <1>3, <2>4, <2>5, <2>6 DEF Strs, Cats
<1>4. \A l, t \in 0 .. Size : StringState(l, t) BY <1>2 DEF MemInit, StringState, Called
<1> QED BY <1>1, <1>3, <1>4 DEF StringInv

\* The conditions on the call do not change with a step.
LEMMA GivenStays ==
    ASSUME UNCHANGED <<op, was>>, NEW l, NEW t, Given(l, t)
    PROVE  Given(l, t)' /\ Target(t)' = Target(t)
BY DEF Given, Target, Reads

LEMMA EnterStringStep ==
    ASSUME CallOK, op.f \in Strs, NEW l \in 0 .. Size, NEW t \in 0 .. Size,
           Given(l, t), StringState(l, t), Enter
    PROVE  CallOK' /\ StringState(l, t)'
<1>1. /\ op.d \in Nat /\ op.s \in Nat /\ op.n \in Nat /\ Size \in Nat /\ l \in Nat /\ t \in Nat
      /\ Target(t) \in Nat /\ was \in [Addr -> Byte]
  BY GivenFacts
<1>2. /\ at = "call" /\ mem = was /\ dst = op.d /\ src = op.s /\ left = op.n
      /\ UNCHANGED <<mem, op, dst, src, left, was>>
  BY DEF Enter, StringState, Called
<1>3. CallOK' BY <1>2 DEF CallOK
<1>4. Moved(was, Target(t), op.s, 0) = was
  <2>1. Area(was, Target(t), op.s, op.n) BY <1>1 DEF Area
  <2> QED BY <2>1, MovedNothing
<1>5. src - op.s = 0 /\ op.n - left = 0 BY <1>1, <1>2
<1>6. CASE op.f = "strcpy"
  <2>1. at' = "copy" BY <1>6 DEF Enter
  <2>2. Moving(l, t)' BY <1>1, <1>2, <1>4, <1>5, <1>6 DEF Moving, Target, Cats
  <2> QED BY <1>2, <1>3, <1>6, <2>1, <2>2 DEF StringState
<1>7. CASE op.f = "strncpy"
  <2>1. at' = "copyn" BY <1>7 DEF Enter
  <2>2. Moving(l, t)' BY <1>1, <1>2, <1>4, <1>5, <1>7 DEF Moving, Target, Cats
  <2>3. Counting' BY <1>1, <1>2, <1>5 DEF Counting
  <2> QED BY <1>2, <1>3, <1>7, <2>1, <2>2, <2>3 DEF StringState
<1>8. CASE op.f \in Cats /\ (op.f = "strncat" => 0 < op.n)
  <2>1. at' = "seek" BY <1>1, <1>2, <1>8 DEF Enter, Cats
  <2>2. dst' \in op.d' .. (op.d' + t) BY <1>1, <1>2
  <2> QED BY <1>2, <1>3, <1>8, <2>1, <2>2 DEF StringState
<1>9. CASE op.f = "strncat" /\ ~(0 < op.n)
  <2>1. op.n = 0 BY <1>1, <1>9
  <2>2. at' = "back" BY <1>2, <1>9, <2>1 DEF Enter
  <2>3. IsString(was, op.d, t) BY <1>9 DEF Given, Cats
  <2>4. Done(l, t)' BY <1>2, <1>9, <2>1, <2>3 DEF Done
  <2> QED BY <1>3, <2>2, <2>4 DEF StringState
<1> QED BY <1>6, <1>7, <1>8, <1>9 DEF Strs, Cats

LEMMA SeekStep ==
    ASSUME CallOK, op.f \in Strs, NEW l \in 0 .. Size, NEW t \in 0 .. Size,
           Given(l, t), StringState(l, t), Seek
    PROVE  CallOK' /\ StringState(l, t)'
<1>1. /\ op.d \in Nat /\ op.s \in Nat /\ op.n \in Nat /\ Size \in Nat /\ l \in Nat /\ t \in Nat
      /\ was \in [Addr -> Byte] /\ Target(t) \in Nat
  BY GivenFacts
<1>2. /\ at = "seek" /\ op.f \in Cats /\ (op.f = "strncat" => 0 < op.n)
      /\ mem = was /\ src = op.s /\ left = op.n /\ dst \in op.d .. (op.d + t)
      /\ UNCHANGED <<mem, op, src, left, was>>
  BY DEF Seek, StringState
<1>3. CallOK' BY <1>2 DEF CallOK
<1>4. was[op.d + t] = NUL /\ \A k \in 0 .. (t - 1) : was[op.d + k] # NUL
  BY <1>2 DEF Given, IsString
<1>5. CASE mem[dst] # NUL
  <2>1. dst # op.d + t BY <1>2, <1>4, <1>5
  <2>2. dst' = dst + 1 /\ at' = at BY <1>2, <1>5 DEF Seek
  <2>3. dst' \in op.d' .. (op.d' + t) BY <1>1, <1>2, <2>1, <2>2
  <2> QED BY <1>2, <1>3, <2>2, <2>3 DEF StringState
<1>6. CASE mem[dst] = NUL
  <2>1. dst = op.d + t
    <3>1. dst - op.d \in Nat /\ dst - op.d <= t /\ op.d + (dst - op.d) = dst BY <1>1, <1>2
    <3>2. ~(dst - op.d \in 0 .. (t - 1)) BY <1>2, <1>4, <1>6, <3>1
    <3> QED BY <1>1, <3>1, <3>2
  <2>2. at' = (IF op.f = "strcat" THEN "copy" ELSE "append") /\ dst' = dst
    BY <1>2, <1>6 DEF Seek
  <2>3. src - op.s = 0 /\ op.n - left = 0 BY <1>1, <1>2
  <2>4. Moving(l, t)'
    <3>1. Moved(was, Target(t), op.s, 0) = was
      <4>1. Area(was, Target(t), op.s, op.n) BY <1>1 DEF Area
      <4> QED BY <4>1, MovedNothing
    <3> QED BY <1>1, <1>2, <2>1, <2>2, <2>3, <3>1 DEF Moving, Target
  <2>5. Counting' BY <1>1, <1>2, <2>3 DEF Counting
  <2>6. CASE op.f = "strcat"
    BY <1>3, <1>2, <2>2, <2>4, <2>6 DEF StringState
  <2>7. CASE op.f = "strncat"
    <3>1. 0 < left' /\ at' = "append" BY <1>2, <2>2, <2>7
    <3> QED BY <1>2, <1>3, <2>4, <2>5, <2>7, <3>1 DEF StringState
  <2> QED BY <1>2, <2>6, <2>7 DEF Cats
<1> QED BY <1>5, <1>6

LEMMA CopyStringStep ==
    ASSUME CallOK, op.f \in Strs, NEW l \in 0 .. Size, NEW t \in 0 .. Size,
           Given(l, t), StringState(l, t), CopyString
    PROVE  CallOK' /\ StringState(l, t)'
<1> DEFINE k == src - op.s
<1>1. at = "copy" /\ op.f \in {"strcpy", "strcat"} /\ Moving(l, t) BY DEF CopyString, StringState
<1>2. /\ op.s \in Nat /\ l \in Nat /\ Target(t) \in Nat BY GivenFacts
<1>3. k \in Nat /\ k <= l /\ src = op.s + k /\ src \in Nat /\ dst = Target(t) + k
  BY <1>1, <1>2 DEF Moving
<1>4. k < Reads(l) BY <1>1, <1>2, <1>3 DEF Reads
<1>5. /\ mem' = [mem EXCEPT ![dst] = mem[src]] /\ dst' = dst + 1 /\ src' = src + 1
      /\ at' = (IF mem[src] = NUL THEN "back" ELSE at) /\ UNCHANGED <<op, left, was>>
  BY DEF CopyString
<1>6. /\ mem[src] = NUL <=> k = l
      /\ mem' = Moved(was, Target(t), op.s, k + 1) /\ mem' \in [Addr -> Byte]
  BY <1>1, <1>4, <1>5, CopyOne
<1>7. CallOK' BY <1>5, <1>6 DEF CallOK
<1>8. CASE mem[src] = NUL
  <2>1. Done(l, t)' BY <1>1, <1>5, <1>6, <1>8 DEF Done, Given, Target, Cats
  <2> QED BY <1>5, <1>7, <1>8, <2>1 DEF StringState
<1>9. CASE mem[src] # NUL
  <2>1. src' \in op.s' .. (op.s' + l) /\ src' - op.s' = k + 1 /\ dst' = Target(t) + (k + 1)
    BY <1>2, <1>3, <1>5, <1>6, <1>9
  <2>2. Moving(l, t)' BY <1>5, <1>6, <2>1 DEF Moving, Target
  <2> QED BY <1>1, <1>5, <1>7, <1>9, <2>2 DEF StringState
<1> QED BY <1>8, <1>9

LEMMA CopyAtMostStep ==
    ASSUME CallOK, op.f \in Strs, NEW l \in 0 .. Size, NEW t \in 0 .. Size,
           Given(l, t), StringState(l, t), CopyAtMost
    PROVE  CallOK' /\ StringState(l, t)'
<1> DEFINE k == src - op.s
<1>1. at = "copyn" /\ op.f = "strncpy" /\ Moving(l, t) /\ Counting BY DEF CopyAtMost, StringState
<1>2. /\ op.s \in Nat /\ op.n \in Nat /\ l \in Nat /\ Target(t) \in Nat BY GivenFacts
<1>3. /\ k \in Nat /\ k <= l /\ k <= op.n /\ src = op.s + k /\ src \in Nat /\ dst = Target(t) + k
      /\ left \in Nat /\ left = op.n - k /\ mem = Moved(was, Target(t), op.s, k)
  BY <1>1, <1>2 DEF Moving, Counting
<1>4. Target(t) = op.d BY <1>1 DEF Target, Cats
<1>5. CASE left = 0
  <2>1. UNCHANGED <<mem, op, dst, src, left, was>> /\ at' = "back" BY <1>1, <1>5 DEF CopyAtMost, Return
  <2>2. k = op.n /\ Min2(l + 1, op.n) = k BY <1>2, <1>3, <1>5 DEF Min2
  <2>3. Done(l, t)' BY <1>1, <1>3, <1>4, <2>1, <2>2 DEF Done
  <2>4. CallOK' BY <2>1 DEF CallOK
  <2> QED BY <2>1, <2>3, <2>4 DEF StringState
<1>6. CASE left # 0
  <2>1. /\ mem' = [mem EXCEPT ![dst] = mem[src]]
        /\ dst' = dst + 1 /\ src' = src + 1 /\ left' = left - 1
        /\ at' = (IF mem[src] = NUL THEN "back" ELSE at) /\ UNCHANGED <<op, was>>
    BY <1>1, <1>6 DEF CopyAtMost
  <2>2. k < Reads(l) BY <1>1, <1>2, <1>3, <1>6 DEF Reads, Min2
  <2>3. /\ mem[src] = NUL <=> k = l
        /\ mem' = Moved(was, Target(t), op.s, k + 1) /\ mem' \in [Addr -> Byte]
    BY <1>1, <2>1, <2>2, CopyOne
  <2>4. CallOK' BY <2>1, <2>3 DEF CallOK
  <2>5. CASE mem[src] = NUL
    <3>1. Min2(l + 1, op.n) = k + 1 BY <1>2, <1>3, <1>6, <2>3, <2>5 DEF Min2
    <3>2. Done(l, t)' BY <1>1, <1>4, <2>1, <2>3, <3>1 DEF Done
    <3> QED BY <2>1, <2>4, <2>5, <3>2 DEF StringState
  <2>6. CASE mem[src] # NUL
    <3>1. src' \in op.s' .. (op.s' + l) /\ src' - op.s' = k + 1 /\ dst' = Target(t) + (k + 1)
      BY <1>2, <1>3, <2>1, <2>3, <2>6
    <3>2. Moving(l, t)' BY <2>1, <2>3, <3>1 DEF Moving, Target
    <3>3. Counting' BY <1>2, <1>3, <1>6, <2>1, <3>1 DEF Counting
    <3> QED BY <1>1, <2>1, <2>4, <2>6, <3>2, <3>3 DEF StringState
  <2> QED BY <2>5, <2>6
<1> QED BY <1>5, <1>6

LEMMA AppendStringStep ==
    ASSUME CallOK, op.f \in Strs, NEW l \in 0 .. Size, NEW t \in 0 .. Size,
           Given(l, t), StringState(l, t), AppendString
    PROVE  CallOK' /\ StringState(l, t)'
<1> DEFINE k      == src - op.s
           copied == [mem EXCEPT ![dst] = mem[src]]
<1>1. at = "append" /\ op.f = "strncat" /\ Moving(l, t) /\ Counting /\ 0 < left
  BY DEF AppendString, StringState
<1>2. /\ op.d \in Nat /\ op.s \in Nat /\ op.n \in Nat /\ l \in Nat /\ t \in Nat /\ Size \in Nat
      /\ NUL \in Byte /\ was \in [Addr -> Byte] /\ Target(t) \in Nat
      /\ op.s + l \in Addr /\ was[op.s + l] = NUL
      /\ \A j \in Nat : j < Reads(l) => Target(t) <= op.s \/ op.s + j < Target(t)
  BY GivenFacts
<1>3. /\ k \in Nat /\ k <= l /\ k < op.n /\ src = op.s + k /\ src \in Nat /\ dst = Target(t) + k
      /\ left \in Nat /\ left = op.n - k /\ mem = Moved(was, Target(t), op.s, k)
  BY <1>1, <1>2 DEF Moving, Counting
<1>4. Target(t) = op.d + t /\ IsString(was, op.d, t) /\ Target(t) + Min2(l, op.n) < Size
  BY <1>1 DEF Target, Cats, Given
<1>5. /\ dst' = dst + 1 /\ src' = src + 1
      /\ left' = (IF mem[src] = NUL THEN left ELSE left - 1)
      /\ at' = (IF mem[src] = NUL \/ left' = 0 THEN "back" ELSE at)
      /\ mem' = (IF mem[src] # NUL /\ left' = 0 THEN [copied EXCEPT ![dst + 1] = NUL] ELSE copied)
      /\ UNCHANGED <<op, was>>
  BY DEF AppendString
<1>6. k < Reads(l) BY <1>1, <1>2, <1>3 DEF Reads, Min2
<1>7. /\ mem[src] = NUL <=> k = l
      /\ copied = Moved(was, Target(t), op.s, k + 1) /\ copied \in [Addr -> Byte]
  BY <1>1, <1>6, CopyOne
<1>8. CASE mem[src] = NUL
  <2>1. mem' = Moved(was, Target(t), op.s, l + 1) /\ at' = "back" BY <1>5, <1>7, <1>8
  <2>2. Min2(l, op.n) = l /\ l < op.n BY <1>2, <1>3, <1>7, <1>8 DEF Min2
  <2>3. op.s + l < Size /\ Target(t) + l < Size
    <3>1. op.s \in Nat /\ l \in Nat /\ Size \in Nat /\ op.s + l \in Addr BY <1>2
    <3>2. op.s + l < Size BY <3>1 DEF Addr
    <3>3. Target(t) + l < Size BY <1>4, <2>2
    <3> QED BY <3>2, <3>3
  <2>4. Target(t) <= op.s \/ op.s + l < Target(t) BY <1>2, <1>6, <1>7, <1>8
  <2>5. [Moved(was, Target(t), op.s, l) EXCEPT ![Target(t) + l] = NUL] = Moved(was, Target(t), op.s, l + 1)
    <3>1. CanMove(was, Target(t), op.s, l) BY <1>2, <2>3, <2>4 DEF CanMove
    <3>2. With(Moved(was, Target(t), op.s, l), Target(t) + l, was[op.s + l]) = Moved(was, Target(t), op.s, l + 1)
      BY <3>1, MoveUp
    <3> QED BY <3>2, <1>2 DEF With
  <2>6. op.n # 0 BY <1>3, <1>2
  <2>7. Done(l, t)' BY <1>1, <1>4, <1>5, <2>1, <2>2, <2>5, <2>6 DEF Done
  <2>8. CallOK' BY <1>5, <1>7, <1>8 DEF CallOK
  <2> QED BY <2>1, <2>7, <2>8 DEF StringState
<1>9. CASE mem[src] # NUL /\ left' = 0
  <2>0. left' = left - 1 /\ k # l BY <1>5, <1>7, <1>9
  <2>1. k + 1 = op.n /\ k + 1 <= l BY <1>2, <1>3, <1>9, <2>0
  <2>2. Min2(l, op.n) = k + 1 BY <1>2, <1>3, <2>1 DEF Min2
  <2>3. dst + 1 = Target(t) + (k + 1) BY <1>2, <1>3
  <2>4. mem' = [Moved(was, Target(t), op.s, k + 1) EXCEPT ![Target(t) + (k + 1)] = NUL] /\ at' = "back"
    BY <1>5, <1>7, <1>9, <2>3
  <2>5. op.n # 0 BY <1>3, <1>2
  <2>6. Done(l, t)' BY <1>1, <1>4, <1>5, <2>2, <2>4, <2>5 DEF Done
  <2>7. dst + 1 \in Addr
    <3>1. dst + 1 \in Nat BY <1>2, <1>3
    <3>2. dst + 1 < Size BY <1>4, <2>2, <2>3
    <3> QED BY <1>2, <3>1, <3>2 DEF Addr
  <2>8. CallOK' BY <1>2, <1>5, <1>7, <1>9, <2>7 DEF CallOK
  <2> QED BY <2>4, <2>6, <2>8 DEF StringState
<1>10. CASE mem[src] # NUL /\ left' # 0
  <2>1. mem' = copied /\ at' = at /\ left' = left - 1 BY <1>5, <1>10
  <2>2. src' \in op.s' .. (op.s' + l) /\ src' - op.s' = k + 1 /\ dst' = Target(t) + (k + 1)
    <3>1. k # l /\ k + 1 <= l BY <1>2, <1>3, <1>7, <1>10
    <3>2. src' = op.s + (k + 1) /\ dst' = Target(t) + (k + 1) /\ op' = op BY <1>2, <1>3, <1>5
    <3> QED BY <1>2, <1>3, <3>1, <3>2
  <2>3. Moving(l, t)' BY <1>5, <1>7, <2>1, <2>2 DEF Moving, Target
  <2>4. Counting' /\ 0 < left' BY <1>2, <1>3, <1>5, <1>10, <2>1, <2>2 DEF Counting
  <2>5. CallOK' BY <1>5, <1>7, <2>1 DEF CallOK
  <2> QED BY <1>1, <1>5, <2>1, <2>3, <2>4, <2>5 DEF StringState
<1> QED BY <1>8, <1>9, <1>10

-----------------------------------------------------------------------------
(* The functions that write: the theorems                                  *)

LEMMA BlockStep == BlockInv /\ op.f \in Blocks /\ [MemNext]_memVars => BlockInv'
<1> SUFFICES ASSUME BlockInv, op.f \in Blocks, [MemNext]_memVars PROVE BlockInv' OBVIOUS
<1>1. at \in {"call", "up", "down", "fill", "back"} BY DEF BlockInv, BlockState
<1>2. CASE UNCHANGED memVars
  BY <1>2 DEF memVars, BlockInv, CallOK, BlockState, Called, GoneUp, GoneDown, GoneFill, Clobbers, Wanted, Confined
<1>3. CASE Enter \/ EnterMove BY <1>3, EnterStep
<1>4. CASE CopyUp BY <1>4, UpStep
<1>5. CASE CopyDown BY <1>5, DownStep
<1>6. CASE Fill BY <1>6, FillStep
<1>7. ~(Seek \/ CopyString \/ CopyAtMost \/ AppendString)
  BY <1>1 DEF Seek, CopyString, CopyAtMost, AppendString
<1> QED BY <1>2, <1>3, <1>4, <1>5, <1>6, <1>7 DEF MemNext

LEMMA StringStep == StringInv /\ op.f \in Strs /\ [MemNext]_memVars => StringInv'
<1> SUFFICES ASSUME StringInv, op.f \in Strs, [MemNext]_memVars PROVE StringInv' OBVIOUS
<1>1. CallOK BY DEF StringInv
<1>2. PICK l \in 0 .. Size, t \in 0 .. Size : Given(l, t) /\ StringState(l, t) BY DEF StringInv
<1>3. at \in {"call", "seek", "copy", "copyn", "append", "back"} BY <1>2 DEF StringState
<1>4. op.f # "memmove" BY DEF Strs
<1>5. ~(EnterMove \/ CopyUp \/ CopyDown \/ Fill)
  BY <1>3, <1>4 DEF EnterMove, CopyUp, CopyDown, Fill
<1>6. CASE UNCHANGED memVars
  <2>1. UNCHANGED <<mem, at, op, dst, src, left, was>> BY <1>6 DEF memVars
  <2>2. CallOK' BY <1>1, <2>1 DEF CallOK
  <2>3. Given(l, t)' BY <1>2, <2>1 DEF Given, Target, Reads
  <2>4. StringState(l, t)'
    BY <1>2, <2>1 DEF StringState, Called, Moving, Counting, Done, Target
  <2> QED BY <2>1, <2>2, <2>3, <2>4 DEF StringInv
<1>7. CASE MemNext
  <2>1. CallOK' /\ StringState(l, t)'
    BY <1>1, <1>2, <1>5, <1>7, EnterStringStep, SeekStep, CopyStringStep, CopyAtMostStep, AppendStringStep
       DEF MemNext
  <2>2. UNCHANGED <<op, was>>
    BY <1>5, <1>7 DEF MemNext, Enter, Seek, CopyString, CopyAtMost, AppendString, Return
  <2>3. Given(l, t)' BY <1>2, <2>2, GivenStays
  <2> QED BY <2>1, <2>2, <2>3 DEF StringInv
<1> QED BY <1>6, <1>7

\* The inductive invariant: what a loop has moved is what its count says it has.
MemInv == BlockInv /\ StringInv

\* Every reachable state satisfies it, for memories and bytes of every size.
THEOREM MemInvariant == MemSpec => []MemInv
<1>1. MemInit => MemInv BY BlockInit, StringInit DEF MemInv
<1>2. MemInv /\ [MemNext]_memVars => MemInv'
  <2> SUFFICES ASSUME MemInv, [MemNext]_memVars PROVE MemInv' OBVIOUS
  <2>1. op' = op
    BY DEF MemNext, memVars, Enter, EnterMove, CopyUp, CopyDown, Fill, Seek, CopyString, CopyAtMost,
           AppendString, Return
  <2>2. op.f \in Blocks \cup Strs BY CallFacts DEF MemInv, BlockInv
  <2>3. CASE op.f \in Blocks
    <3>1. BlockInv' BY <2>3, BlockStep DEF MemInv
    <3>2. op.f \notin Strs BY <2>3 DEF Blocks, Strs
    <3> QED BY <2>1, <3>1, <3>2 DEF MemInv, BlockInv, StringInv
  <2>4. CASE op.f \in Strs
    <3>1. StringInv' BY <2>4, StringStep DEF MemInv
    <3>2. op.f \notin Blocks BY <2>4 DEF Blocks, Strs
    <3> QED BY <2>1, <3>1, <3>2 DEF MemInv, BlockInv, StringInv
  <2> QED BY <2>2, <2>3, <2>4
<1> QED BY <1>1, <1>2, PTL DEF MemSpec

\* memset, bcopy, memcpy and memmove leave in their destination what they should and
\* write nowhere else, however the areas lie to each other (string.c:341-420).
THEOREM BlocksAreRight == MemSpec => []BlocksRight
<1>1. MemInv => BlocksRight
  BY DEF MemInv, BlockInv, BlockState, BlocksRight, Confined
<1> QED BY <1>1, MemInvariant, PTL

\* strcpy, strncpy, strcat and strncat copy up to the NUL or the count and nothing else
\* (string.c:45-122).
THEOREM StringsAreRight == MemSpec => []StringsRight
<1>1. MemInv => StringsRight
  <2> SUFFICES ASSUME MemInv, at = "back", op.f \in Strs PROVE StringsRight BY DEF StringsRight
  <2>1. PICK l \in 0 .. Size, t \in 0 .. Size : Given(l, t) /\ StringState(l, t) BY DEF MemInv, StringInv
  <2>2. IsString(was, op.s, l) /\ Done(l, t) BY <2>1 DEF Given, StringState
  <2> QED BY <2>2 DEF Done, StringsRight
<1> QED BY <1>1, MemInvariant, PTL


-----------------------------------------------------------------------------
(* Loops.  One that goes up, or down, is a recursive function; that there  *)
(* is such a function at all is seen from the least place it can stop at.  *)

Rising(stops, g)  == g = [k \in 0 .. Size |-> IF k = Size \/ k \in stops THEN k ELSE g[k + 1]]
Falling(stops, g) == g = [k \in 0 .. Size |-> IF k = 0 \/ k \in stops THEN k ELSE g[k - 1]]

\* The places at or behind k where a loop that goes up can stop, and the least of some.
Ends(stops, k) == {e \in Nat : k <= e /\ e <= Size /\ (e = Size \/ e \in stops)}
Least(E)       == CHOOSE e \in E : \A x \in E : e <= x

LEMMA RisingExists ==
    ASSUME NEW stops, Size \in Nat
    PROVE  \E g : Rising(stops, g)
<1> DEFINE f == [k \in 0 .. Size |-> Least(Ends(stops, k))]
<1>1. ASSUME NEW k \in 0 .. Size
      PROVE  /\ f[k] \in Nat /\ k <= f[k] /\ f[k] <= Size /\ (f[k] = Size \/ f[k] \in stops)
             /\ \A x \in Nat : k <= x /\ x <= Size /\ (x = Size \/ x \in stops) => f[k] <= x
  <2> DEFINE E == Ends(stops, k)
  <2>1. Size \in E
        BY DEF Ends
  <2>2. E \in SUBSET Nat /\ E # {}
        BY <2>1 DEF Ends
  <2>3. f[k] = Least(E)
        OBVIOUS
  <2> HIDE DEF E, f
  <2>4. \E e \in E : \A x \in E : e <= x
        BY <2>2, LeastNat
  <2>5. f[k] \in E /\ \A x \in E : f[k] <= x
        BY <2>3, <2>4 DEF Least
  <2> QED BY <2>5 DEF E, Ends
<1>2. ASSUME NEW k \in 0 .. Size
      PROVE  f[k] = IF k = Size \/ k \in stops THEN k ELSE f[k + 1]
  <2> HIDE DEF f
  <2>1. CASE k = Size \/ k \in stops
        BY <2>1, <1>1
  <2>2. CASE ~(k = Size \/ k \in stops)
    <3>1. k + 1 \in 0 .. Size
          BY <2>2
    <3>2. f[k] # k /\ k + 1 <= f[k]
          BY <2>2, <1>1
    <3>3. f[k + 1] <= f[k]
          BY <3>1, <3>2, <1>1
    <3>4. k <= f[k + 1] /\ f[k + 1] \in Nat /\ f[k + 1] <= Size /\ (f[k + 1] = Size \/ f[k + 1] \in stops)
          BY <3>1, <1>1
    <3>5. f[k] <= f[k + 1] /\ f[k] \in Nat
          BY <3>4, <1>1
    <3>6. f[k] = f[k + 1]
          BY <3>3, <3>4, <3>5
    <3> QED BY <2>2, <3>6
  <2> QED BY <2>1, <2>2
<1>3. f = [k \in 0 .. Size |-> IF k = Size \/ k \in stops THEN k ELSE f[k + 1]]
  <2> DEFINE h == [k \in 0 .. Size |-> IF k = Size \/ k \in stops THEN k ELSE f[k + 1]]
  <2>1. \A k \in 0 .. Size : h[k] = IF k = Size \/ k \in stops THEN k ELSE f[k + 1]
        OBVIOUS
  <2>2. DOMAIN f = 0 .. Size /\ DOMAIN h = 0 .. Size /\ f = [k \in DOMAIN f |-> f[k]] /\ h = [k \in DOMAIN h |-> h[k]]
        OBVIOUS
  <2> HIDE DEF f, h
  <2>3. \A k \in 0 .. Size : f[k] = h[k]
        BY <1>2, <2>1
  <2>4. f = h
        BY <2>2, <2>3
  <2> QED BY <2>4, Zenon DEF h
<1> HIDE DEF f
<1> QED BY <1>3, Zenon DEF Rising

\* z is the first place to stop at from i upwards, or downwards.
FirstUp(stops, i, z) ==
    /\ Size \in Nat /\ i \in Nat /\ z \in i .. Size
    /\ z \in stops /\ \A x \in i .. (z - 1) : x \notin stops
FirstDown(stops, i, z) ==
    /\ i \in 0 .. Size /\ z \in 0 .. i
    /\ z \in stops /\ \A x \in (z + 1) .. i : x \notin stops

\* A loop that goes up ends where it first has to stop.
LEMMA UpStopsAt ==
    ASSUME NEW stops, NEW i, NEW z, FirstUp(stops, i, z)
    PROVE  Up(i, stops) = z
<1>0. /\ Size \in Nat /\ i \in Nat /\ z \in 0 .. Size /\ i <= z
      /\ z \in stops /\ \A x \in i .. (z - 1) : x \notin stops
      BY DEF FirstUp
<1>1. PICK g : Rising(stops, g) /\ Up(i, stops) = g[i]
  <2>1. \E h : Rising(stops, h)
        BY <1>0, RisingExists, Zenon
  <2>2. Rising(stops, CHOOSE h : Rising(stops, h))
        BY <2>1, Zenon
  <2>3. Up(i, stops) = (CHOOSE h : Rising(stops, h))[i]
        BY Zenon DEF Up, Rising
  <2> QED BY <2>2, <2>3, Zenon
<1>2. \A k \in 0 .. Size : g[k] = IF k = Size \/ k \in stops THEN k ELSE g[k + 1]
  <2> DEFINE h == [k \in 0 .. Size |-> IF k = Size \/ k \in stops THEN k ELSE g[k + 1]]
  <2>1. g = h
        BY <1>1, Zenon DEF Rising
  <2>2. \A k \in 0 .. Size : h[k] = IF k = Size \/ k \in stops THEN k ELSE g[k + 1]
        OBVIOUS
  <2> HIDE DEF h
  <2> QED BY <2>1, <2>2
<1>3. ASSUME NEW k \in 0 .. Size
      PROVE  g[k] = IF k = Size \/ k \in stops THEN k ELSE g[k + 1]
      BY <1>2
<1> DEFINE T == {j \in Nat : j <= z - i /\ g[z - j] # z}
<1> SUFFICES ASSUME T # {} PROVE FALSE
  <2>1. z - i \in Nat /\ z - (z - i) = i
        BY <1>0
  <2>2. z - i \notin T
        OBVIOUS
  <2> HIDE DEF T
  <2>3. ~(g[i] # z)
        BY <2>1, <2>2 DEF T
  <2> QED BY <1>1, <2>3
<1>4. PICK j \in T : \A y \in T : j <= y
      BY LeastNat
<1>5. j \in Nat /\ j <= z - i /\ g[z - j] # z
      BY <1>4
<1>6. j # 0
      BY <1>0, <1>3, <1>5
<1>7. /\ z - j \in 0 .. Size /\ z - j \in Nat /\ i <= z - j /\ z - j < z /\ z - j # Size
      /\ (z - j) + 1 = z - (j - 1) /\ j - 1 \in Nat /\ j - 1 <= z - i /\ ~(j <= j - 1)
      BY <1>0, <1>5, <1>6
<1>8. g[z - (j - 1)] = z
      BY <1>4, <1>7
<1>9. z - j \notin stops
      BY <1>0, <1>7
<1>10. g[z - j] = g[(z - j) + 1]
       BY <1>3, <1>7, <1>9
<1> QED BY <1>5, <1>7, <1>8, <1>10

\* Going down is going up seen from the end.
LEMMA FallingExists ==
    ASSUME NEW stops, Size \in Nat
    PROVE  \E g : Falling(stops, g)
<1> DEFINE mirror == {k \in 0 .. Size : Size - k \in stops}
<1>1. PICK r : Rising(mirror, r)
      BY RisingExists, Zenon
<1> DEFINE h == [k \in 0 .. Size |-> IF k = Size \/ k \in mirror THEN k ELSE r[k + 1]]
           f == [k \in 0 .. Size |-> Size - r[Size - k]]
           g == [k \in 0 .. Size |-> IF k = 0 \/ k \in stops THEN k ELSE f[k - 1]]
<1>2. r = h
      BY <1>1, Zenon DEF Rising
<1>3. /\ \A k \in 0 .. Size : k \in mirror <=> Size - k \in stops
      /\ \A k \in 0 .. Size : h[k] = IF k = Size \/ k \in mirror THEN k ELSE r[k + 1]
      /\ \A k \in 0 .. Size : f[k] = Size - r[Size - k]
      /\ \A k \in 0 .. Size : g[k] = IF k = 0 \/ k \in stops THEN k ELSE f[k - 1]
      /\ DOMAIN f = 0 .. Size /\ DOMAIN g = 0 .. Size
      /\ f = [k \in DOMAIN f |-> f[k]] /\ g = [k \in DOMAIN g |-> g[k]]
      OBVIOUS
<1> HIDE DEF mirror, h, f, g
<1>4. ASSUME NEW k \in 0 .. Size
      PROVE  f[k] = g[k]
  <2>1. /\ Size - k \in 0 .. Size /\ (Size - k = Size <=> k = 0) /\ Size - (Size - k) = k
        /\ k # 0 => k - 1 \in 0 .. Size /\ Size - (k - 1) = (Size - k) + 1
        OBVIOUS
  <2>2. r[Size - k] = IF k = 0 \/ k \in stops THEN Size - k ELSE r[(Size - k) + 1]
        BY <2>1, <1>2, <1>3
  <2>3. k # 0 => f[k - 1] = Size - r[(Size - k) + 1]
        BY <2>1, <1>3
  <2>4. f[k] = Size - r[Size - k] /\ g[k] = IF k = 0 \/ k \in stops THEN k ELSE f[k - 1]
        BY <1>3
  <2> QED BY <2>1, <2>2, <2>3, <2>4
<1>5. f = g
      BY <1>3, <1>4
<1>6. f = [k \in 0 .. Size |-> IF k = 0 \/ k \in stops THEN k ELSE f[k - 1]]
      BY <1>5, Zenon DEF g
<1> QED BY <1>6, Zenon DEF Falling

\* A loop that goes down ends where it first has to stop.
LEMMA DownStopsAt ==
    ASSUME NEW stops, NEW i, NEW z, Size \in Nat, FirstDown(stops, i, z)
    PROVE  Down(i, stops) = z
<1>0. /\ i \in 0 .. Size /\ z \in Nat /\ z <= i
      /\ z \in stops /\ \A x \in (z + 1) .. i : x \notin stops
      BY DEF FirstDown
<1>1. PICK g : Falling(stops, g) /\ Down(i, stops) = g[i]
  <2>1. \E h : Falling(stops, h)
        BY <1>0, FallingExists, Zenon
  <2>2. Falling(stops, CHOOSE h : Falling(stops, h))
        BY <2>1, Zenon
  <2>3. Down(i, stops) = (CHOOSE h : Falling(stops, h))[i]
        BY Zenon DEF Down, Falling
  <2> QED BY <2>2, <2>3, Zenon
<1>2. \A k \in 0 .. Size : g[k] = IF k = 0 \/ k \in stops THEN k ELSE g[k - 1]
  <2> DEFINE h == [k \in 0 .. Size |-> IF k = 0 \/ k \in stops THEN k ELSE g[k - 1]]
  <2>1. g = h
        BY <1>1, Zenon DEF Falling
  <2>2. \A k \in 0 .. Size : h[k] = IF k = 0 \/ k \in stops THEN k ELSE g[k - 1]
        OBVIOUS
  <2> HIDE DEF h
  <2> QED BY <2>1, <2>2
<1> DEFINE T == {j \in Nat : j <= i - z /\ g[z + j] # z}
<1> SUFFICES ASSUME T # {} PROVE FALSE
  <2>1. i - z \in Nat /\ z + (i - z) = i
        BY <1>0
  <2>2. i - z \notin T
        OBVIOUS
  <2> HIDE DEF T
  <2>3. ~(g[i] # z)
        BY <2>1, <2>2 DEF T
  <2> QED BY <1>1, <2>3
<1>4. PICK j \in T : \A y \in T : j <= y
      BY LeastNat
<1>5. j \in Nat /\ j <= i - z /\ g[z + j] # z
      BY <1>4
<1>6. j # 0
      BY <1>0, <1>2, <1>5
<1>7. /\ z + j \in 0 .. Size /\ z + j \in Nat /\ z + j <= i /\ z < z + j /\ z + j # 0
      /\ (z + j) - 1 = z + (j - 1) /\ j - 1 \in Nat /\ j - 1 <= i - z /\ ~(j <= j - 1)
      BY <1>0, <1>5, <1>6
<1>8. g[z + (j - 1)] = z
      BY <1>4, <1>7
<1>9. z + j \notin stops
      BY <1>0, <1>7
<1>10. g[z + j] = g[(z + j) - 1]
       BY <1>2, <1>7, <1>9
<1> QED BY <1>5, <1>7, <1>8, <1>10

-----------------------------------------------------------------------------
(* Strings                                                                 *)

\* Memory m holds bytes.
IsMemory(m) == Size \in Nat /\ NUL = 0 /\ m \in [Addr -> 0 .. 255]

\* There is one string at s, and these are its characters.
LEMMA TextIs ==
    ASSUME NEW m, NEW s \in Nat, NEW l \in Nat, IsMemory(m), IsString(m, s, l)
    PROVE  /\ Text(m, s) \in Seq(1 .. 255) /\ Len(Text(m, s)) = l /\ DOMAIN Text(m, s) = 1 .. l
           /\ \A i \in 1 .. l : Text(m, s)[i] = m[s + i - 1] /\ Text(m, s)[i] \in 1 .. 255
           /\ \A i \in Nat \ {0} : i <= l + 1 => CharAt(Text(m, s), i) = m[s + i - 1]
           /\ \A i \in Nat : i > l => CharAt(Text(m, s), i) = NUL
           /\ \A k \in 0 .. l : s + k \in Addr
<1>1. Size \in Nat /\ NUL = 0 /\ m \in [Addr -> 0 .. 255] /\ s + l < Size /\ m[s + l] = NUL
      BY DEF IsMemory, IsString
<1>2. \A k \in 0 .. (l - 1) : m[s + k] # NUL
      BY DEF IsString
<1>3. \A k \in 0 .. l : s + k \in Addr
      BY <1>1 DEF Addr
<1>4. \A k \in 0 .. Size : IsString(m, s, k) => k = l
  <2> SUFFICES ASSUME NEW k \in 0 .. Size, IsString(m, s, k) PROVE k = l
      OBVIOUS
  <2>1. m[s + k] = NUL /\ \A j \in 0 .. (k - 1) : m[s + j] # NUL
        BY DEF IsString
  <2>2. ~(k \in 0 .. (l - 1)) /\ ~(l \in 0 .. (k - 1))
        BY <2>1, <1>1, <1>2
  <2> QED BY <2>2, <1>1
<1>5. (CHOOSE k \in 0 .. Size : IsString(m, s, k)) = l
  <2>1. l \in 0 .. Size
        BY <1>1
  <2> QED BY <2>1, <1>4
<1>6. Text(m, s) = [i \in 1 .. l |-> m[s + i - 1]]
      BY <1>5 DEF Text, Bytes
<1>7. \A i \in 1 .. l : m[s + i - 1] \in 1 .. 255
  <2> SUFFICES ASSUME NEW i \in 1 .. l PROVE m[s + i - 1] \in 1 .. 255
      OBVIOUS
  <2>1. i - 1 \in 0 .. l /\ i - 1 \in 0 .. (l - 1) /\ s + (i - 1) = s + i - 1
        OBVIOUS
  <2>2. m[s + (i - 1)] \in 0 .. 255 /\ m[s + (i - 1)] # 0
        BY <2>1, <1>1, <1>2, <1>3
  <2> QED BY <2>1, <2>2
<1>8. Text(m, s) \in Seq(1 .. 255) /\ Len(Text(m, s)) = l /\ DOMAIN Text(m, s) = 1 .. l
      BY <1>6, <1>7
<1>9. \A i \in 1 .. l : Text(m, s)[i] = m[s + i - 1] /\ Text(m, s)[i] \in 1 .. 255
      BY <1>6, <1>7
<1>10. \A i \in Nat \ {0} : i <= l + 1 => CharAt(Text(m, s), i) = m[s + i - 1]
  <2> SUFFICES ASSUME NEW i \in Nat \ {0}, i <= l + 1 PROVE CharAt(Text(m, s), i) = m[s + i - 1]
      OBVIOUS
  <2>1. CASE i <= l
        BY <2>1, <1>8, <1>9 DEF CharAt
  <2>2. CASE i = l + 1
    <3>1. s + i - 1 = s + l
          BY <2>2
    <3> QED BY <3>1, <2>2, <1>1, <1>8 DEF CharAt
  <2> QED BY <2>1, <2>2
<1>11. \A i \in Nat : i > l => CharAt(Text(m, s), i) = NUL
       BY <1>8 DEF CharAt
<1> QED BY <1>3, <1>8, <1>9, <1>10, <1>11

\* The first and the last of some numbers.
LEMMA FirstIs ==
    ASSUME NEW xs \in SUBSET Int, NEW z \in xs, \A y \in xs : z <= y, NEW none
    PROVE  FirstOr(xs, none) = z
<1>1. \A x \in xs : (\A y \in xs : x <= y) => x = z
      OBVIOUS
<1> QED BY <1>1 DEF FirstOr

LEMMA LastIs ==
    ASSUME NEW xs \in SUBSET Int, NEW z \in xs, \A y \in xs : z >= y, NEW none
    PROVE  LastOr(xs, none) = z
<1>1. \A x \in xs : (\A y \in xs : x >= y) => x = z
      OBVIOUS
<1> QED BY <1>1 DEF LastOr

\* What the sign of a comparison is when nothing differs, and when the first difference
\* is known.
LEMMA SignOfEqual ==
    ASSUME NEW x, NEW y, NEW N \in Nat, \A i \in 1 .. N : CharAt(x, i) = CharAt(y, i)
    PROVE  SignOf(0, x, y, N)
<1>1. {j \in 1 .. N : CharAt(x, j) # CharAt(y, j)} = {}
      OBVIOUS
<1> QED BY <1>1 DEF SignOf, FirstOr

LEMMA SignOfDifference ==
    ASSUME NEW x, NEW y, NEW N \in Nat, NEW i \in 1 .. N, NEW r \in Int,
           \A j \in 1 .. (i - 1) : CharAt(x, j) = CharAt(y, j),
           CharAt(x, i) \in Int, CharAt(y, i) \in Int, CharAt(x, i) # CharAt(y, i),
           r < 0 <=> CharAt(x, i) - CharAt(y, i) < 0, r # 0
    PROVE  SignOf(r, x, y, N)
<1> DEFINE D == {j \in 1 .. N : CharAt(x, j) # CharAt(y, j)}
<1>1. i \in D /\ D \in SUBSET Int /\ \A j \in D : i <= j
      OBVIOUS
<1> HIDE DEF D
<1>2. FirstOr(D, 0) = i
      BY <1>1, FirstIs
<1>3. SignOf(r, x, y, N) <=> IF CharAt(x, i) < CharAt(y, i) THEN r < 0 ELSE r > 0
      BY <1>2 DEF SignOf, D
<1> QED BY <1>3

-----------------------------------------------------------------------------
(* The functions that search                                               *)

LEMMA StrLenIs ==
    ASSUME NEW m, NEW s \in Nat, NEW l \in Nat, IsMemory(m), IsString(m, s, l)
    PROVE  StrLen(m, s) = l
<1>1. /\ Size \in Nat /\ s + l < Size /\ m[s + l] = NUL
      /\ \A k \in 0 .. (l - 1) : m[s + k] # NUL
      BY DEF IsMemory, IsString
<1>2. s + l \in 0 .. Size /\ s <= s + l /\ s + l \in Of(m, NUL)
      BY <1>1 DEF Of, Addr
<1>3. \A x \in Nat : s <= x /\ x < s + l => x \notin Of(m, NUL)
  <2> SUFFICES ASSUME NEW x \in Nat, s <= x, x < s + l PROVE m[x] # NUL
      BY DEF Of
  <2>1. x - s \in 0 .. (l - 1) /\ s + (x - s) = x
        OBVIOUS
  <2> QED BY <2>1, <1>1
<1>4. FirstUp(Of(m, NUL), s, s + l)
      BY <1>1, <1>2, <1>3 DEF FirstUp
<1>5. Up(s, Of(m, NUL)) = s + l
      BY <1>4, UpStopsAt
<1> QED BY <1>5 DEF StrLen

\* A loop that goes up from s and stops at e at the latest.
EndsBy(stops, s, e) == Size \in Nat /\ s \in Nat /\ e \in s .. Size /\ e \in stops

LEMMA UpEnds ==
    ASSUME NEW stops, NEW s, NEW e, EndsBy(stops, s, e)
    PROVE  \E z \in s .. e : FirstUp(stops, s, z) /\ Up(s, stops) = z
<1>0. Size \in Nat /\ s \in Nat /\ e \in s .. Size /\ e \in stops
      BY DEF EndsBy
<1> DEFINE T == {x \in Nat : s <= x /\ x <= e /\ x \in stops}
<1>1. e \in T
      BY <1>0
<1>2. PICK z \in T : \A x \in T : z <= x
      BY <1>1, LeastNat
<1>3. z \in s .. e /\ FirstUp(stops, s, z)
      BY <1>0, <1>2 DEF FirstUp
<1> HIDE DEF T
<1> QED BY <1>3, UpStopsAt

LEMMA StrNLenIs ==
    ASSUME NEW m, NEW s \in Nat, NEW l \in Nat, NEW N \in Nat, IsMemory(m), IsString(m, s, l)
    PROVE  StrNLen(m, s, N) = Min2(l, N)
<1>1. /\ Size \in Nat /\ s + l < Size /\ m[s + l] = NUL
      /\ \A k \in 0 .. (l - 1) : m[s + k] # NUL
      BY DEF IsMemory, IsString
<1> DEFINE stops == {s + N} \cup Of(m, NUL)
           z == s + Min2(l, N)
<1>2. Min2(l, N) \in Nat /\ Min2(l, N) <= l /\ Min2(l, N) <= N
      BY DEF Min2
<1>3. z \in 0 .. Size /\ s <= z /\ z \in Addr
      BY <1>1, <1>2 DEF Addr
<1>4. z \in stops
      BY <1>1, <1>3 DEF Min2, Of
<1>5. \A x \in s .. (z - 1) : x \notin stops
  <2> SUFFICES ASSUME NEW x \in s .. (z - 1) PROVE m[x] # NUL /\ x # s + N
      BY DEF Of
  <2>1. x - s \in 0 .. (l - 1) /\ s + (x - s) = x /\ x # s + N
        BY <1>1, <1>2
  <2> QED BY <2>1, <1>1
<1> HIDE DEF stops, z
<1>6. FirstUp(stops, s, z)
      BY <1>1, <1>3, <1>4, <1>5 DEF FirstUp
<1>7. Up(s, stops) = z
      BY <1>6, UpStopsAt
<1> QED BY <1>7, <1>2 DEF StrNLen, stops, z

LEMMA StrChrIs ==
    ASSUME NEW m, NEW s \in Nat, NEW l \in Nat, NEW c, IsMemory(m), IsString(m, s, l)
    PROVE  StrChr(m, s, c) = FirstOr(Holding(m, s, l + 1, {c}), NULL)
<1>1. /\ Size \in Nat /\ s + l < Size /\ m[s + l] = NUL /\ s + l \in Addr
      /\ \A k \in 0 .. (l - 1) : m[s + k] # NUL
      BY DEF IsMemory, IsString, Addr
<1> DEFINE stops == Of(m, c) \cup Of(m, NUL)
<1>2. PICK z \in s .. (s + l) : /\ Up(s, stops) = z /\ z \in stops
                                /\ \A x \in s .. (z - 1) : x \notin stops
  <2>1. EndsBy(stops, s, s + l)
        BY <1>1 DEF Of, EndsBy
  <2> HIDE DEF stops
  <2>2. PICK z \in s .. (s + l) : FirstUp(stops, s, z) /\ Up(s, stops) = z
        BY <2>1, <1>1, UpEnds
  <2> QED BY <2>2 DEF FirstUp
<1>3. \A x \in s .. (z - 1) : m[x] # c
      BY <1>1, <1>2 DEF Of, Addr
<1>4. StrChr(m, s, c) = IF m[z] = c THEN z ELSE NULL
      BY <1>2 DEF StrChr
<1>5. m[z] = c \/ m[z] = NUL
      BY <1>2 DEF Of
<1> DEFINE xs == Holding(m, s, l + 1, {c})
<1>6. xs \in SUBSET Int /\ \A x : x \in xs <=> x \in s .. (s + l) /\ m[x] = c
      BY DEF Holding
<1> HIDE DEF xs, stops
<1>7. CASE m[z] = c
  <2>1. z \in xs /\ \A x \in xs : z <= x
        BY <1>3, <1>6, <1>7
  <2> QED BY <2>1, <1>4, <1>6, <1>7, FirstIs DEF xs
<1>8. CASE m[z] # c
  <2>1. z = s + l
    <3>1. z - s \notin 0 .. (l - 1)
      <4>1. s + (z - s) = z /\ m[z] = NUL
            BY <1>5, <1>8
      <4> QED BY <4>1, <1>1
    <3> QED BY <3>1
  <2>2. xs = {}
        BY <2>1, <1>3, <1>6, <1>8
  <2> QED BY <2>2, <1>4, <1>8 DEF FirstOr, xs
<1> QED BY <1>7, <1>8

\* A loop that goes down from i and stops at e at the latest.
EndsByDown(stops, i, e) == Size \in Nat /\ i \in 0 .. Size /\ e \in 0 .. i /\ e \in stops

LEMMA DownEnds ==
    ASSUME NEW stops, NEW i, NEW e, EndsByDown(stops, i, e)
    PROVE  \E z \in e .. i : FirstDown(stops, i, z) /\ Down(i, stops) = z
<1>0. Size \in Nat /\ i \in 0 .. Size /\ e \in 0 .. i /\ e \in stops
      BY DEF EndsByDown
<1> DEFINE T == {j \in Nat : j <= i - e /\ i - j \in stops}
<1>1. i - e \in T
      BY <1>0
<1>2. PICK j \in T : \A x \in T : j <= x
      BY <1>1, LeastNat
<1>3. j \in Nat /\ j <= i - e /\ i - j \in stops
      BY <1>2
<1>4. ASSUME NEW x \in ((i - j) + 1) .. i
      PROVE  x \notin stops
  <2>1. i - x \in Nat /\ i - x <= i - e /\ i - (i - x) = x /\ ~(j <= i - x)
        BY <1>0, <1>3
  <2>2. i - x \notin T
        BY <2>1, <1>2
  <2> QED BY <2>1, <2>2
<1>5. i - j \in e .. i /\ i - j \in 0 .. i
      BY <1>0, <1>3
<1> HIDE DEF T
<1>6. FirstDown(stops, i, i - j)
      BY <1>0, <1>3, <1>4, <1>5 DEF FirstDown
<1>7. Size \in Nat
      BY <1>0
<1>8. Down(i, stops) = i - j
      BY <1>6, <1>7, DownStopsAt, Zenon
<1> QED BY <1>5, <1>6, <1>8

LEMMA StrRChrIs ==
    ASSUME NEW m, NEW s \in Nat, NEW l \in Nat, NEW c, IsMemory(m), IsString(m, s, l)
    PROVE  StrRChr(m, s, c) = LastOr(Holding(m, s, l + 1, {c}), NULL)
<1>1. Size \in Nat /\ s + l < Size
      BY DEF IsMemory, IsString
<1> DEFINE stops == {s} \cup Of(m, c)
           xs == Holding(m, s, l + 1, {c})
<1>2. PICK z \in s .. (s + l) : FirstDown(stops, s + l, z) /\ Down(s + l, stops) = z
  <2>1. EndsByDown(stops, s + l, s)
        BY <1>1 DEF EndsByDown
  <2> HIDE DEF stops
  <2>2. \E z \in s .. (s + l) : FirstDown(stops, s + l, z) /\ Down(s + l, stops) = z
        BY <2>1, DownEnds, Zenon
  <2> QED BY <2>2
<1>3. (z = s \/ m[z] = c) /\ \A x \in (z + 1) .. (s + l) : m[x] # c
  <2>1. z \in stops /\ \A x \in (z + 1) .. (s + l) : x \notin stops
        BY <1>2 DEF FirstDown
  <2> QED BY <2>1, <1>1 DEF Of, Addr
<1>4. StrRChr(m, s, c) = IF m[z] = c THEN z ELSE NULL
      BY <1>2, StrLenIs DEF StrRChr
<1>5. xs \in SUBSET Int /\ \A x : x \in xs <=> x \in s .. (s + l) /\ m[x] = c
      BY DEF Holding
<1> HIDE DEF xs, stops
<1>6. CASE m[z] = c
  <2>1. z \in xs /\ \A x \in xs : z >= x
        BY <1>3, <1>5, <1>6
  <2> QED BY <2>1, <1>4, <1>5, <1>6, LastIs DEF xs
<1>7. CASE m[z] # c
  <2>1. xs = {}
        BY <1>3, <1>5, <1>7
  <2> QED BY <2>1, <1>4, <1>7 DEF LastOr, xs
<1> QED BY <1>6, <1>7

\* Where a loop over a string that looks for the bytes of C stops.
Searching(m, C) == {a \in Addr : m[a] = NUL \/ m[a] \in C}

\* A loop that goes up along a string to the first of some characters, or to its end.
Searched(m, s, l, C, a) ==
    /\ a \in s .. (s + l) /\ a \in Addr
    /\ \A none : FirstOr(Holding(m, s, l, C), none) = IF m[a] = NUL THEN none ELSE a
    /\ m[a] = NUL => a = s + l
    /\ m[a] # NUL => m[a] \in C
    /\ \A x \in s .. (a - 1) : m[x] # NUL /\ m[x] \notin C

LEMMA SearchIs ==
    ASSUME NEW m, NEW s \in Nat, NEW l \in Nat, NEW C, IsMemory(m), IsString(m, s, l), NUL \notin C
    PROVE  Searched(m, s, l, C, Up(s, Searching(m, C)))
<1> DEFINE D == Searching(m, C)
<1> HIDE DEF D
<1>1. /\ Size \in Nat /\ s + l < Size /\ m[s + l] = NUL /\ s + l \in Addr
      /\ \A k \in 0 .. (l - 1) : m[s + k] # NUL
      BY DEF IsMemory, IsString, Addr
<1>2. PICK z \in s .. (s + l) : FirstUp(D, s, z) /\ Up(s, D) = z
  <2>1. EndsBy(D, s, s + l)
        BY <1>1 DEF EndsBy, Searching, D
  <2>2. \E z \in s .. (s + l) : FirstUp(D, s, z) /\ Up(s, D) = z
        BY <2>1, UpEnds, Zenon
  <2> QED BY <2>2
<1>3. (m[z] = NUL \/ m[z] \in C) /\ z \in Addr /\ \A x \in s .. (z - 1) : m[x] # NUL /\ m[x] \notin C
  <2>1. z \in D /\ \A x \in s .. (z - 1) : x \notin D
        BY <1>2 DEF FirstUp
  <2> QED BY <2>1, <1>1 DEF Addr, Searching, D
<1>4. m[z] = NUL => z = s + l
  <2> SUFFICES ASSUME m[z] = NUL PROVE z - s \notin 0 .. (l - 1)
      OBVIOUS
  <2>1. s + (z - s) = z
        OBVIOUS
  <2> QED BY <2>1, <1>1
<1> DEFINE xs == Holding(m, s, l, C)
<1>5. xs \in SUBSET Int /\ \A x : x \in xs <=> x \in s .. ((s + l) - 1) /\ m[x] \in C
      BY DEF Holding
<1> HIDE DEF xs
<1>6. \A none : FirstOr(xs, none) = IF m[z] = NUL THEN none ELSE z
  <2>1. CASE m[z] = NUL
    <3>1. xs = {}
          BY <2>1, <1>3, <1>4, <1>5
    <3> QED BY <3>1, <2>1 DEF FirstOr
  <2>2. CASE m[z] # NUL
    <3>1. z # s + l
          BY <2>2, <1>1
    <3>2. z \in xs /\ \A x \in xs : z <= x
          BY <2>2, <3>1, <1>3, <1>5
    <3> QED BY <3>2, <2>2, <1>5, FirstIs
  <2> QED BY <2>1, <2>2
<1> QED BY <1>2, <1>3, <1>4, <1>6 DEF xs, Searched, D

LEMMA LettersAre ==
    ASSUME NEW m, NEW t \in Nat, NEW l \in Nat, IsMemory(m), IsString(m, t, l)
    PROVE  Letters(m, t) = ToSet(Text(m, t)) /\ NUL \notin Letters(m, t)
<1>1. /\ DOMAIN Text(m, t) = 1 .. l
      /\ \A i \in 1 .. l : Text(m, t)[i] = m[t + i - 1] /\ Text(m, t)[i] \in 1 .. 255
      BY TextIs
<1>2. Letters(m, t) = {m[t + k] : k \in 0 .. (l - 1)}
      BY StrLenIs DEF Letters
<1>3. ToSet(Text(m, t)) = {Text(m, t)[i] : i \in 1 .. l}
      BY <1>1 DEF ToSet
<1>4. \A k \in 0 .. (l - 1) : k + 1 \in 1 .. l /\ m[t + k] = Text(m, t)[k + 1]
      BY <1>1
<1>5. \A i \in 1 .. l : i - 1 \in 0 .. (l - 1) /\ Text(m, t)[i] = m[t + (i - 1)]
      BY <1>1
<1>6. Letters(m, t) = ToSet(Text(m, t))
      BY <1>2, <1>3, <1>4, <1>5
<1>7. NUL \notin ToSet(Text(m, t))
  <2>1. NUL = 0
        BY DEF IsMemory
  <2>2. \A i \in 1 .. l : Text(m, t)[i] # NUL
    <3> TAKE i \in 1 .. l
    <3>1. Text(m, t)[i] \in 1 .. 255
          BY <1>1
    <3> QED BY <3>1, <2>1
  <2> QED BY <2>2, <1>3
<1> QED BY <1>6, <1>7

LEMMA StrSpnIs ==
    ASSUME NEW m, NEW s \in Nat, NEW t \in Nat, NEW l \in Nat, NEW k \in Nat,
           IsMemory(m), m \in [Addr -> Byte], IsString(m, s, l), IsString(m, t, k)
    PROVE  StrSpn(m, s, t) = FirstOr(Holding(m, s, l + 1, Byte \ ToSet(Text(m, t))), NULL) - s
<1> DEFINE letters == ToSet(Text(m, t))
           stops == {a \in Addr : m[a] = NUL \/ m[a] \notin letters}
           xs == Holding(m, s, l + 1, Byte \ letters)
<1>1. Letters(m, t) = letters /\ NUL \notin letters
      BY LettersAre
<1>2. Size \in Nat /\ s + l < Size /\ m[s + l] = NUL /\ s + l \in Addr
      BY DEF IsMemory, IsString, Addr
<1> HIDE DEF letters
<1>3. PICK z \in s .. (s + l) : FirstUp(stops, s, z) /\ Up(s, stops) = z
  <2>1. EndsBy(stops, s, s + l)
        BY <1>2 DEF EndsBy
  <2> HIDE DEF stops
  <2>2. \E z \in s .. (s + l) : FirstUp(stops, s, z) /\ Up(s, stops) = z
        BY <2>1, UpEnds, Zenon
  <2> QED BY <2>2
<1>4. z \in Addr /\ m[z] \notin letters /\ \A x \in s .. (z - 1) : m[x] \in letters
  <2>1. z \in stops /\ \A x \in s .. (z - 1) : x \notin stops
        BY <1>3 DEF FirstUp
  <2> QED BY <2>1, <1>1, <1>2 DEF Addr
<1>5. StrSpn(m, s, t) = z - s
      BY <1>1, <1>3 DEF StrSpn
<1>6. xs \in SUBSET Int /\ \A x : x \in xs <=> x \in s .. (s + l) /\ m[x] \in Byte /\ m[x] \notin letters
      BY DEF Holding
<1> HIDE DEF xs
<1>7. z \in xs /\ \A x \in xs : z <= x
      BY <1>4, <1>6
<1>8. FirstOr(xs, NULL) = z
      BY <1>6, <1>7, FirstIs
<1> QED BY <1>5, <1>8 DEF xs, letters

LEMMA StrPBrkIs ==
    ASSUME NEW m, NEW s \in Nat, NEW t \in Nat, NEW l \in Nat, NEW k \in Nat,
           IsMemory(m), IsString(m, s, l), IsString(m, t, k)
    PROVE  StrPBrk(m, s, t) = FirstOr(Holding(m, s, l, ToSet(Text(m, t))), NULL)
<1> DEFINE letters == ToSet(Text(m, t))
           stops == Searching(m, letters)
           z == Up(s, stops)
<1>1. Letters(m, t) = letters /\ NUL \notin letters
      BY LettersAre
<1> HIDE DEF letters
<1>2. Searched(m, s, l, letters, z)
      BY <1>1, SearchIs, Zenon
<1>3. StrPBrk(m, s, t) = IF m[z] = NUL THEN NULL ELSE z
      BY <1>1 DEF StrPBrk, Searching
<1> QED BY <1>2, <1>3 DEF letters, Searched

\* The functions that go through an area.
Scans(m, s, c, N) ==
    /\ MemScan(m, s, c, N) = FirstOr(Holding(m, s, N, {c}), s + N)
    /\ MemChr(m, s, c, N) = FirstOr(Holding(m, s, N, {c}), NULL)

LEMMA MemScanIs ==
    ASSUME NEW m, NEW s \in Nat, NEW N \in Nat, NEW c, IsMemory(m), s + N < Size
    PROVE  Scans(m, s, c, N)
<1> DEFINE stops == {s + N} \cup Of(m, c)
           xs == Holding(m, s, N, {c})
<1>1. Size \in Nat
      BY DEF IsMemory
<1>2. PICK z \in s .. (s + N) : FirstUp(stops, s, z) /\ Up(s, stops) = z
  <2>1. EndsBy(stops, s, s + N)
        BY <1>1 DEF EndsBy
  <2> HIDE DEF stops
  <2>2. \E z \in s .. (s + N) : FirstUp(stops, s, z) /\ Up(s, stops) = z
        BY <2>1, UpEnds, Zenon
  <2> QED BY <2>2
<1>3. (z = s + N \/ m[z] = c) /\ \A x \in s .. (z - 1) : m[x] # c
  <2>1. z \in stops /\ \A x \in s .. (z - 1) : x \notin stops
        BY <1>2 DEF FirstUp
  <2> QED BY <2>1, <1>1 DEF Of, Addr
<1>4. xs \in SUBSET Int /\ \A x : x \in xs <=> x \in s .. ((s + N) - 1) /\ m[x] = c
      BY DEF Holding
<1>5. MemScan(m, s, c, N) = z /\ MemChr(m, s, c, N) = IF z = s + N THEN NULL ELSE z
      BY <1>2 DEF MemScan, MemChr
<1> HIDE DEF xs, stops
<1>6. CASE z = s + N
  <2>1. xs = {}
        BY <1>3, <1>4, <1>6
  <2> QED BY <2>1, <1>5, <1>6 DEF FirstOr, xs, Scans
<1>7. CASE z # s + N
  <2>1. z \in xs /\ \A x \in xs : z <= x
        BY <1>3, <1>4, <1>7
  <2>2. \A none : FirstOr(xs, none) = z
        BY <2>1, <1>4, FirstIs
  <2> QED BY <2>2, <1>5, <1>7 DEF xs, Scans
<1> QED BY <1>6, <1>7

-----------------------------------------------------------------------------
(* The functions that compare                                              *)

\* The strings at s and t are alike up to z, where they differ or both end.
Alike(m, s, t, z) ==
    /\ z \in Nat /\ z < Size /\ s + z \in Addr /\ t + z \in Addr /\ z \in Beside(s, t)
    /\ m[s + z] # m[t + z] \/ (m[s + z] = NUL /\ m[t + z] = NUL)
    /\ \A j \in 0 .. (z - 1) : m[s + j] = m[t + j] /\ m[s + j] # NUL /\ j \in Beside(s, t)
AlikeTexts(m, s, t, z) ==
    LET x == Text(m, s)
        y == Text(m, t)
    IN  /\ z < Len(x) + Len(y) + 1
        /\ \A i \in 1 .. z : CharAt(x, i) = CharAt(y, i)
        /\ CharAt(x, z + 1) = m[s + z] /\ CharAt(y, z + 1) = m[t + z]
        /\ m[s + z] = m[t + z] => \A i \in Nat : i > 0 => CharAt(x, i) = CharAt(y, i)

LEMMA AlikeUpTo ==
    ASSUME NEW m, NEW s \in Nat, NEW t \in Nat, NEW l \in Nat, NEW k \in Nat,
           IsMemory(m), IsString(m, s, l), IsString(m, t, k)
    PROVE  \E z \in Nat : Alike(m, s, t, z) /\ AlikeTexts(m, s, t, z)
<1>1. /\ Size \in Nat /\ NUL = 0 /\ s + l < Size /\ m[s + l] = NUL /\ t + k < Size /\ m[t + k] = NUL
      BY DEF IsMemory, IsString
<1> DEFINE T == {j \in Nat : j <= l /\ j <= k /\ (m[s + j] # m[t + j] \/ m[s + j] = NUL)}
<1>2. T # {}
  <2>1. CASE l <= k
    <3>1. l \in T
          BY <2>1, <1>1
    <3> QED BY <3>1
  <2>2. CASE k <= l
    <3>1. k \in T
          BY <2>2, <1>1
    <3> QED BY <3>1
  <2> QED BY <2>1, <2>2
<1>3. PICK z \in T : \A x \in T : z <= x
      BY <1>2, LeastNat
<1>4. /\ z \in Nat /\ z <= l /\ z <= k /\ (m[s + z] # m[t + z] \/ m[s + z] = NUL)
      /\ \A j \in 0 .. (z - 1) : m[s + j] = m[t + j] /\ m[s + j] # NUL
  <2>1. ASSUME NEW j \in 0 .. (z - 1)
        PROVE  m[s + j] = m[t + j] /\ m[s + j] # NUL
    <3>1. j \in Nat /\ j <= l /\ j <= k /\ ~(z <= j)
          BY <1>3
    <3>2. j \notin T
          BY <3>1, <1>3
    <3> QED BY <3>1, <3>2
  <2> QED BY <2>1, <1>3
<1> HIDE DEF T
<1>5. \A j \in 0 .. z : s + j \in Addr /\ t + j \in Addr /\ j \in Beside(s, t)
      BY <1>1, <1>4 DEF Addr, Beside
<1>6. Alike(m, s, t, z)
  <2>1. z < Size /\ z \in 0 .. z /\ \A j \in 0 .. (z - 1) : j \in 0 .. z
        BY <1>1, <1>4
  <2> QED BY <2>1, <1>4, <1>5 DEF Alike
<1> DEFINE x == Text(m, s)
           y == Text(m, t)
<1>7. /\ Len(x) = l /\ Len(y) = k
      /\ \A i \in Nat \ {0} : i <= l + 1 => CharAt(x, i) = m[s + i - 1]
      /\ \A i \in Nat \ {0} : i <= k + 1 => CharAt(y, i) = m[t + i - 1]
      /\ \A i \in Nat : i > l => CharAt(x, i) = NUL
      /\ \A i \in Nat : i > k => CharAt(y, i) = NUL
      BY TextIs
<1> HIDE DEF x, y
<1>8. \A i \in 1 .. (z + 1) : /\ i - 1 \in 0 .. z /\ s + i - 1 = s + (i - 1) /\ t + i - 1 = t + (i - 1)
                              /\ CharAt(x, i) = m[s + (i - 1)] /\ CharAt(y, i) = m[t + (i - 1)]
  <2> TAKE i \in 1 .. (z + 1)
  <2>1. i \in Nat \ {0} /\ i <= l + 1 /\ i <= k + 1
        BY <1>4
  <2>2. i - 1 \in 0 .. z /\ s + i - 1 = s + (i - 1) /\ t + i - 1 = t + (i - 1)
        BY <1>4
  <2>3. CharAt(x, i) = m[s + i - 1] /\ CharAt(y, i) = m[t + i - 1]
        BY <2>1, <1>7
  <2> QED BY <2>2, <2>3
<1>9. \A i \in 1 .. z : CharAt(x, i) = CharAt(y, i)
  <2> TAKE i \in 1 .. z
  <2>1. i \in 1 .. (z + 1) /\ i - 1 \in 0 .. (z - 1)
        BY <1>4
  <2> QED BY <2>1, <1>4, <1>8
<1>10. CharAt(x, z + 1) = m[s + z] /\ CharAt(y, z + 1) = m[t + z]
  <2>1. z + 1 \in 1 .. (z + 1) /\ (z + 1) - 1 = z
        BY <1>4
  <2> QED BY <2>1, <1>8
<1>11. ASSUME m[s + z] = m[t + z], NEW i \in Nat, i > 0
       PROVE  CharAt(x, i) = CharAt(y, i)
  <2>1. CASE i <= z
        BY <2>1, <1>9, <1>11
  <2>2. CASE i = z + 1
        BY <2>2, <1>10, <1>11
  <2>3. CASE i > z + 1
    <3>1. z = l
      <4>1. ~(z < l)
        <5> SUFFICES ASSUME z < l PROVE FALSE
            OBVIOUS
        <5>1. z \in 0 .. (l - 1)
              BY <1>4
        <5> QED BY <5>1, <1>4, <1>11 DEF IsString
      <4> QED BY <4>1, <1>4
    <3>2. z = k
      <4>1. ~(z < k)
        <5> SUFFICES ASSUME z < k PROVE FALSE
            OBVIOUS
        <5>1. z \in 0 .. (k - 1)
              BY <1>4
        <5> QED BY <5>1, <1>4, <1>11 DEF IsString
      <4> QED BY <4>1, <1>4
    <3> QED BY <3>1, <3>2, <2>3, <1>7
  <2> QED BY <2>1, <2>2, <2>3, <1>4
<1>12. AlikeTexts(m, s, t, z)
       BY <1>4, <1>7, <1>9, <1>10, <1>11 DEF AlikeTexts, x, y
<1> QED BY <1>4, <1>6, <1>12

\* A comparison that stops where the strings do, or at a count.
LEMMA ComparesUpTo ==
    ASSUME NEW D, NEW z, FirstUp(D, 0, z), NEW N \in Nat
    PROVE  Up(0, D) = z /\ Up(0, {N} \cup D) = IF N <= z THEN N ELSE z
<1>1. Up(0, D) = z
      BY UpStopsAt
<1> DEFINE e == IF N <= z THEN N ELSE z
           E == {N} \cup D
<1>2. /\ Size \in Nat /\ z \in 0 .. Size /\ z \in D /\ \A x \in 0 .. (z - 1) : x \notin D
      BY DEF FirstUp
<1>3. e \in E /\ e \in 0 .. Size
      BY <1>2
<1>4. \A x \in 0 .. (e - 1) : x \notin E
      BY <1>2
<1> HIDE DEF e, E
<1>5. FirstUp(E, 0, e)
      BY <1>2, <1>3, <1>4 DEF FirstUp
<1>6. Up(0, E) = e
      BY <1>5, UpStopsAt, Zenon
<1> QED BY <1>1, <1>6 DEF e, E

\* What a comparison of N characters returns, 0 when they are alike and otherwise a number
\* with the sign of the first difference, has the right sign.
LEMMA ComparisonIs ==
    ASSUME NEW m, NEW s \in Nat, NEW t \in Nat, NEW z \in Nat, IsMemory(m),
           Alike(m, s, t, z), AlikeTexts(m, s, t, z), NEW N \in Nat, NEW r \in Int,
           N <= z \/ m[s + z] = m[t + z] => r = 0,
           z < N /\ m[s + z] # m[t + z] => r # 0 /\ (r < 0 <=> m[s + z] - m[t + z] < 0)
    PROVE  SignOf(r, Text(m, s), Text(m, t), N)
<1> DEFINE x == Text(m, s)
           y == Text(m, t)
<1>1. /\ \A i \in 1 .. z : CharAt(x, i) = CharAt(y, i)
      /\ CharAt(x, z + 1) = m[s + z] /\ CharAt(y, z + 1) = m[t + z]
      /\ m[s + z] = m[t + z] => \A i \in Nat : i > 0 => CharAt(x, i) = CharAt(y, i)
      BY DEF AlikeTexts
<1>2. m[s + z] \in Int /\ m[t + z] \in Int
      BY DEF Alike, IsMemory
<1> HIDE DEF x, y
<1>3. CASE N <= z \/ m[s + z] = m[t + z]
  <2>1. r = 0
        BY <1>3
  <2>2. \A i \in 1 .. N : CharAt(x, i) = CharAt(y, i)
        BY <1>1, <1>3
  <2>3. SignOf(0, x, y, N)
        BY <2>2, SignOfEqual, Zenon
  <2> QED BY <2>1, <2>3 DEF x, y
<1>4. CASE ~(N <= z \/ m[s + z] = m[t + z])
  <2> DEFINE i == z + 1
  <2>1. i \in 1 .. N /\ i - 1 = z
        BY <1>4
  <2>2. /\ CharAt(x, i) \in Int /\ CharAt(y, i) \in Int /\ CharAt(x, i) # CharAt(y, i)
        /\ \A j \in 1 .. (i - 1) : CharAt(x, j) = CharAt(y, j)
        BY <1>1, <1>2, <1>4, <2>1
  <2>3. r # 0 /\ (r < 0 <=> CharAt(x, i) - CharAt(y, i) < 0)
        BY <1>1, <1>4
  <2> HIDE DEF i
  <2>4. SignOf(r, x, y, N)
        BY <2>1, <2>2, <2>3, SignOfDifference
  <2> QED BY <2>4 DEF x, y
<1> QED BY <1>3, <1>4

\* Strings that differ are not alike.
LEMMA DifferenceIs ==
    ASSUME NEW m, NEW s \in Nat, NEW t \in Nat, NEW z \in Nat, IsMemory(m),
           Alike(m, s, t, z), AlikeTexts(m, s, t, z), NEW N \in Nat, z < N, m[s + z] # m[t + z]
    PROVE  ~SignOf(0, Text(m, s), Text(m, t), N)
<1> DEFINE x == Text(m, s)
           y == Text(m, t)
           i == z + 1
           D == {j \in 1 .. N : CharAt(x, j) # CharAt(y, j)}
<1>1. /\ \A j \in 1 .. z : CharAt(x, j) = CharAt(y, j)
      /\ CharAt(x, i) = m[s + z] /\ CharAt(y, i) = m[t + z]
      BY DEF AlikeTexts
<1>2. m[s + z] \in Int /\ m[t + z] \in Int
      BY DEF Alike, IsMemory
<1> HIDE DEF x, y
<1>3. i \in D /\ D \in SUBSET Int /\ \A j \in D : i <= j
      BY <1>1
<1> HIDE DEF D
<1>4. FirstOr(D, 0) = i
      BY <1>3, FirstIs
<1>5. SignOf(0, x, y, N) <=> IF CharAt(x, i) < CharAt(y, i) THEN 0 < 0 ELSE 0 > 0
      BY <1>4 DEF SignOf, D
<1> QED BY <1>5 DEF x, y

Res(m, s, t, k) == SignedChar(m[s + k] - m[t + k])

\* What is left of a difference in a signed char.
LEMMA ResIs ==
    ASSUME NEW m, NEW s, NEW t, NEW j, m[s + j] \in 0 .. 255, m[t + j] \in 0 .. 255
    PROVE  /\ Res(m, s, t, j) \in Int /\ (Res(m, s, t, j) = 0 <=> m[s + j] = m[t + j])
           /\ m[s + j] <= 127 /\ m[t + j] <= 127 => Res(m, s, t, j) = m[s + j] - m[t + j]
<1> DEFINE x == m[s + j]
           y == m[t + j]
           da == x - y
           r == Res(m, s, t, j)
<1>1. x \in 0 .. 255 /\ y \in 0 .. 255
      OBVIOUS
<1>2. r = ((da + 128) % 256) - 128
      BY DEF Res, SignedChar
<1> HIDE DEF x, y, r
<1>3. da \in Int /\ -255 <= da /\ da <= 255 /\ (da = 0 <=> x = y) /\ (x <= 127 /\ y <= 127 => -128 <= da /\ da < 128)
      BY <1>1
<1> HIDE DEF da
<1>4. r \in Int /\ (r = 0 <=> da = 0) /\ (-128 <= da /\ da < 128 => r = da)
  <2>1. CASE da < -128
    <3>1. (da + 128) % 256 = da + 384
          BY <1>3, <2>1
    <3> QED BY <3>1, <1>2, <1>3, <2>1
  <2>2. CASE -128 <= da /\ da < 128
    <3>1. (da + 128) % 256 = da + 128
          BY <1>3, <2>2
    <3> QED BY <3>1, <1>2, <1>3, <2>2
  <2>3. CASE 128 <= da
    <3>1. (da + 128) % 256 = da - 128
          BY <1>3, <2>3
    <3> QED BY <3>1, <1>2, <1>3, <2>3
  <2> QED BY <1>3, <2>1, <2>2, <2>3
<1>5. r \in Int /\ (r = 0 <=> x = y) /\ (x <= 127 /\ y <= 127 => r = x - y)
      BY <1>3, <1>4 DEF da
<1> QED BY <1>5 DEF x, y, r

LEMMA StrCmpIs ==
    ASSUME NEW m, NEW s \in Nat, NEW t \in Nat, NEW l \in Nat, NEW k \in Nat, NEW N \in Nat,
           IsMemory(m), IsString(m, s, l), IsString(m, t, k)
    PROVE  /\ TellsApart(StrCmp(m, s, t), Text(m, s), Text(m, t), Len(Text(m, s)) + Len(Text(m, t)) + 1)
           /\ TellsApart(StrNCmp(m, s, t, N), Text(m, s), Text(m, t), N)
<1> DEFINE D == {j \in Beside(s, t) : Res(m, s, t, j) # 0 \/ m[s + j] = NUL}
           all == Len(Text(m, s)) + Len(Text(m, t)) + 1
<1>1. PICK z \in Nat : Alike(m, s, t, z) /\ AlikeTexts(m, s, t, z)
      BY AlikeUpTo
<1>2. /\ z < Size /\ s + z \in Addr /\ t + z \in Addr /\ z \in Beside(s, t)
      /\ m[s + z] # m[t + z] \/ (m[s + z] = NUL /\ m[t + z] = NUL)
      /\ \A j \in 0 .. (z - 1) : m[s + j] = m[t + j] /\ m[s + j] # NUL /\ j \in Beside(s, t)
      BY <1>1 DEF Alike
<1>3. Size \in Nat /\ NUL = 0 /\ m \in [Addr -> 0 .. 255]
      BY DEF IsMemory
<1>4. \A j \in Beside(s, t) : m[s + j] \in 0 .. 255 /\ m[t + j] \in 0 .. 255
      BY <1>3 DEF Beside, Addr
<1>5. ASSUME NEW j \in Beside(s, t)
      PROVE  /\ Res(m, s, t, j) \in Int /\ (Res(m, s, t, j) = 0 <=> m[s + j] = m[t + j])
             /\ m[s + j] <= 127 /\ m[t + j] <= 127 => Res(m, s, t, j) = m[s + j] - m[t + j]
  <2>1. m[s + j] \in 0 .. 255 /\ m[t + j] \in 0 .. 255
        BY <1>4
  <2> QED BY <2>1, ResIs
<1>6. FirstUp(D, 0, z)
  <2>1. z \in D
        BY <1>2, <1>5
  <2>2. \A j \in 0 .. (z - 1) : j \notin D
        BY <1>2, <1>5
  <2> HIDE DEF D
  <2> QED BY <2>1, <2>2, <1>2, <1>3 DEF FirstUp
<1>7. ASSUME ToSet(Text(m, s)) \cup ToSet(Text(m, t)) \subseteq 0 .. 127
      PROVE  m[s + z] <= 127 /\ m[t + z] <= 127
  <2>1. CharAt(Text(m, s), z + 1) = m[s + z] /\ CharAt(Text(m, t), z + 1) = m[t + z]
        BY <1>1 DEF AlikeTexts
  <2>2. ASSUME NEW x \in Seq(1 .. 255), ToSet(x) \subseteq 0 .. 127, NEW i \in Nat \ {0}
        PROVE  CharAt(x, i) \in 0 .. 127
    <3>1. CASE i <= Len(x)
      <4>1. x[i] \in ToSet(x)
            BY <3>1 DEF ToSet
      <4>2. x[i] \in 0 .. 127
            BY <4>1, <2>2, Zenon
      <4> QED BY <4>2, <3>1, Zenon DEF CharAt
    <3>2. CASE ~(i <= Len(x))
          BY <3>2, <1>3 DEF CharAt
    <3> QED BY <3>1, <3>2
  <2>3. Text(m, s) \in Seq(1 .. 255) /\ Text(m, t) \in Seq(1 .. 255)
        BY TextIs
  <2>4. z + 1 \in Nat \ {0} /\ ToSet(Text(m, s)) \subseteq 0 .. 127 /\ ToSet(Text(m, t)) \subseteq 0 .. 127
    <3>1. z + 1 \in Nat \ {0}
          OBVIOUS
    <3> QED BY <3>1, <1>7, Zenon
  <2>5. CharAt(Text(m, s), z + 1) \in 0 .. 127 /\ CharAt(Text(m, t), z + 1) \in 0 .. 127
        BY <2>2, <2>3, <2>4, Zenon
  <2> QED BY <2>1, <2>5
<1> HIDE DEF D
<1>8. /\ Res(m, s, t, z) \in Int /\ m[s + z] \in Int /\ m[t + z] \in Int
      /\ Res(m, s, t, z) = 0 <=> m[s + z] = m[t + z]
      /\ m[s + z] <= 127 /\ m[t + z] <= 127 => Res(m, s, t, z) = m[s + z] - m[t + z]
  <2>1. z \in Beside(s, t)
        BY <1>2
  <2>2. m[s + z] \in 0 .. 255 /\ m[t + z] \in 0 .. 255
        BY <2>1, <1>4
  <2> QED BY <2>1, <2>2, <1>5
<1>9. ASSUME NEW e \in Nat
      PROVE  TellsApart(IF e <= z THEN 0 ELSE Res(m, s, t, z), Text(m, s), Text(m, t), e)
  <2> DEFINE r == IF e <= z THEN 0 ELSE Res(m, s, t, z)
  <2>1. r \in Int /\ (e <= z \/ m[s + z] = m[t + z] => r = 0) /\ (z < e /\ m[s + z] # m[t + z] => r # 0)
        BY <1>8
  <2>2. ASSUME ToSet(Text(m, s)) \cup ToSet(Text(m, t)) \subseteq 0 .. 127
        PROVE  SignOf(r, Text(m, s), Text(m, t), e)
    <3>1. z < e /\ m[s + z] # m[t + z] => r # 0 /\ (r < 0 <=> m[s + z] - m[t + z] < 0)
          BY <2>2, <1>7, <1>8
    <3> HIDE DEF r
    <3> QED BY <2>1, <3>1, <1>1, ComparisonIs
  <2> HIDE DEF r
  <2>3. r = 0 <=> SignOf(0, Text(m, s), Text(m, t), e)
    <3>1. CASE e <= z \/ m[s + z] = m[t + z]
      <4>1. SignOf(0, Text(m, s), Text(m, t), e)
        <5> DEFINE o == 0
        <5>1. /\ o \in Int /\ (e <= z \/ m[s + z] = m[t + z] => o = 0)
              /\ z < e /\ m[s + z] # m[t + z] => o # 0 /\ (o < 0 <=> m[s + z] - m[t + z] < 0)
              BY <3>1
        <5> HIDE DEF o
        <5>2. SignOf(o, Text(m, s), Text(m, t), e)
              BY <5>1, <1>1, ComparisonIs
        <5> QED BY <5>2 DEF o
      <4> QED BY <4>1, <3>1, <2>1
    <3>2. CASE ~(e <= z \/ m[s + z] = m[t + z])
      <4>1. ~SignOf(0, Text(m, s), Text(m, t), e)
            BY <3>2, <1>1, DifferenceIs
      <4> QED BY <4>1, <3>2, <2>1
    <3> QED BY <3>1, <3>2
  <2>4. TellsApart(r, Text(m, s), Text(m, t), e)
        BY <2>2, <2>3 DEF TellsApart
  <2> QED BY <2>4 DEF r
<1>10. TellsApart(StrCmp(m, s, t), Text(m, s), Text(m, t), all)
  <2>1. StrCmp(m, s, t) = Res(m, s, t, z)
    <3>1. Up(0, D) = z
          BY <1>6, UpStopsAt
    <3> QED BY <3>1 DEF StrCmp, D, Res
  <2>2. all \in Nat /\ ~(all <= z)
    <3> DEFINE p == Len(Text(m, s))
               q == Len(Text(m, t))
    <3>1. p \in Nat /\ q \in Nat
          BY TextIs
    <3>2. z < p + q + 1
          BY <1>1 DEF AlikeTexts
    <3> HIDE DEF p, q
    <3>3. p + q + 1 \in Nat /\ ~(p + q + 1 <= z)
          BY <3>1, <3>2
    <3> QED BY <3>3 DEF p, q
  <2> HIDE DEF all
  <2>3. TellsApart(IF all <= z THEN 0 ELSE Res(m, s, t, z), Text(m, s), Text(m, t), all)
        BY <2>2, <1>9, Zenon
  <2> QED BY <2>1, <2>2, <2>3
<1>11. TellsApart(StrNCmp(m, s, t, N), Text(m, s), Text(m, t), N)
  <2> DEFINE last == Up(0, {N} \cup D)
  <2>1. last = IF N <= z THEN N ELSE z
        BY <1>6, ComparesUpTo
  <2>2. StrNCmp(m, s, t, N) = IF last = N THEN 0 ELSE Res(m, s, t, last)
        BY DEF StrNCmp, D, Res
  <2> HIDE DEF last
  <2>3. StrNCmp(m, s, t, N) = IF N <= z THEN 0 ELSE Res(m, s, t, z)
        BY <2>1, <2>2
  <2> QED BY <2>3, <1>9, Zenon
<1> QED BY <1>10, <1>11 DEF all

\* The letters the table has as capitals are those that have a small letter.
LEMMA LoweredRight == \A c \in 0 .. 255 : ToLower(c) = SmallOf(c)
BY SMT DEF ToLower, Capitals, SmallOf, SmallLetters

\* Memory m in small letters.
InSmall(m) == [a \in Addr |-> ToLower(m[a])]

LEMMA SmallIs ==
    ASSUME NEW m, NEW s \in Nat, NEW l \in Nat, IsMemory(m), IsString(m, s, l)
    PROVE  /\ IsMemory(InSmall(m)) /\ IsString(InSmall(m), s, l)
           /\ Text(InSmall(m), s) = Lowered(Text(m, s))
           /\ \A a \in Addr : /\ InSmall(m)[a] = ToLower(m[a]) /\ InSmall(m)[a] \in 0 .. 255
                              /\ m[a] \in 0 .. 255 /\ (InSmall(m)[a] = NUL <=> m[a] = NUL)
<1>1. Size \in Nat /\ NUL = 0 /\ m \in [Addr -> 0 .. 255]
      BY DEF IsMemory
<1>2. \A c \in 0 .. 255 : ToLower(c) \in 0 .. 255 /\ (ToLower(c) = 0 <=> c = 0)
      BY SMT DEF ToLower, Capitals
<1>3. \A a \in Addr : /\ InSmall(m)[a] = ToLower(m[a]) /\ InSmall(m)[a] \in 0 .. 255
                      /\ m[a] \in 0 .. 255 /\ (InSmall(m)[a] = NUL <=> m[a] = NUL)
  <2> TAKE a \in Addr
  <2>1. m[a] \in 0 .. 255
        BY <1>1
  <2>2. InSmall(m)[a] = ToLower(m[a])
        BY DEF InSmall
  <2>3. ToLower(m[a]) \in 0 .. 255 /\ (ToLower(m[a]) = 0 <=> m[a] = 0)
        BY <2>1, <1>2, Zenon
  <2> QED BY <2>1, <2>2, <2>3, <1>1
<1>4. IsMemory(InSmall(m))
  <2>1. InSmall(m) = [a \in Addr |-> InSmall(m)[a]]
        BY DEF InSmall
  <2> QED BY <2>1, <1>1, <1>3 DEF IsMemory
<1>5. \A k \in 0 .. l : s + k \in Addr
      BY TextIs
<1>6. IsString(InSmall(m), s, l)
  <2>1. s + l < Size /\ m[s + l] = NUL /\ \A k \in 0 .. (l - 1) : m[s + k] # NUL
        BY DEF IsString
  <2>2. InSmall(m)[s + l] = NUL
    <3>1. l \in 0 .. l
          OBVIOUS
    <3> QED BY <3>1, <2>1, <1>3, <1>5
  <2>3. \A k \in 0 .. (l - 1) : InSmall(m)[s + k] # NUL
    <3> TAKE k \in 0 .. (l - 1)
    <3>1. k \in 0 .. l
          OBVIOUS
    <3> QED BY <3>1, <2>1, <1>3, <1>5
  <2> QED BY <2>1, <2>2, <2>3 DEF IsString
<1>7. Text(InSmall(m), s) = Lowered(Text(m, s))
  <2> DEFINE x == Text(m, s)
             y == Text(InSmall(m), s)
  <2>1. DOMAIN x = 1 .. l /\ \A i \in 1 .. l : x[i] = m[s + i - 1]
        BY TextIs
  <2>2. y \in Seq(1 .. 255) /\ DOMAIN y = 1 .. l /\ \A i \in 1 .. l : y[i] = InSmall(m)[s + i - 1]
        BY <1>4, <1>6, TextIs
  <2>3. \A i \in 1 .. l : s + i - 1 \in Addr
    <3> TAKE i \in 1 .. l
    <3>1. i - 1 \in 0 .. l /\ s + (i - 1) = s + i - 1
          OBVIOUS
    <3> QED BY <3>1, <1>5
  <2> HIDE DEF x, y
  <2>4. \A i \in 1 .. l : y[i] = SmallOf(x[i])
    <3> TAKE i \in 1 .. l
    <3>1. y[i] = ToLower(m[s + i - 1]) /\ x[i] = m[s + i - 1] /\ m[s + i - 1] \in 0 .. 255
          BY <1>3, <2>1, <2>2, <2>3
    <3>2. ToLower(m[s + i - 1]) = SmallOf(m[s + i - 1])
          BY <3>1, LoweredRight, Zenon
    <3> QED BY <3>1, <3>2, Zenon
  <2>5. y = [i \in 1 .. l |-> y[i]]
        BY <2>2
  <2>6. Lowered(x) = [i \in 1 .. l |-> SmallOf(x[i])]
        BY <2>1 DEF Lowered
  <2>7. y = [i \in 1 .. l |-> SmallOf(x[i])]
        BY <2>4, <2>5
  <2> QED BY <2>6, <2>7 DEF x, y
<1> QED BY <1>3, <1>4, <1>6, <1>7

LEMMA StrNICmpIs ==
    ASSUME NEW m, NEW s \in Nat, NEW t \in Nat, NEW l \in Nat, NEW k \in Nat, NEW N \in Nat,
           IsMemory(m), IsString(m, s, l), IsString(m, t, k)
    PROVE  SignOf(StrNICmp(m, s, t, N), Lowered(Text(m, s)), Lowered(Text(m, t)), N)
<1> DEFINE w == InSmall(m)
           D == {j \in Beside(s, t) : (m[s + j] = NUL \/ m[t + j] = NUL) \/ ToLower(m[s + j]) # ToLower(m[t + j])}
           r == StrNICmp(m, s, t, N)
<1>1. /\ IsMemory(w) /\ IsString(w, s, l) /\ IsString(w, t, k)
      /\ Text(w, s) = Lowered(Text(m, s)) /\ Text(w, t) = Lowered(Text(m, t))
      /\ \A a \in Addr : /\ w[a] = ToLower(m[a]) /\ w[a] \in 0 .. 255
                         /\ m[a] \in 0 .. 255 /\ (w[a] = NUL <=> m[a] = NUL)
      BY SmallIs
<1> HIDE DEF w
<1>2. PICK z \in Nat : Alike(w, s, t, z) /\ AlikeTexts(w, s, t, z)
      BY <1>1, AlikeUpTo
<1>3. /\ z < Size /\ s + z \in Addr /\ t + z \in Addr /\ z \in Beside(s, t)
      /\ w[s + z] # w[t + z] \/ (w[s + z] = NUL /\ w[t + z] = NUL)
      /\ \A j \in 0 .. (z - 1) : w[s + j] = w[t + j] /\ w[s + j] # NUL /\ j \in Beside(s, t)
      BY <1>2 DEF Alike
<1>4. Size \in Nat /\ NUL = 0
      BY DEF IsMemory
<1>5. \A j \in Beside(s, t) : s + j \in Addr /\ t + j \in Addr
      BY <1>4 DEF Beside, Addr
<1>6. FirstUp(D, 0, z)
  <2>1. z \in D
    <3>1. m[s + z] = NUL \/ ToLower(m[s + z]) # ToLower(m[t + z])
          BY <1>1, <1>3
    <3> QED BY <3>1, <1>3
  <2>2. \A j \in 0 .. (z - 1) : j \notin D
    <3> TAKE j \in 0 .. (z - 1)
    <3>1. /\ w[s + j] = w[t + j] /\ w[s + j] # NUL /\ s + j \in Addr /\ t + j \in Addr
          BY <1>3, <1>5
    <3>2. m[s + j] # NUL /\ m[t + j] # NUL /\ ToLower(m[s + j]) = ToLower(m[t + j])
          BY <3>1, <1>1
    <3> QED BY <3>2
  <2> HIDE DEF D
  <2> QED BY <2>1, <2>2, <1>3, <1>4 DEF FirstUp
<1>7. r = IF N <= z THEN 0
          ELSE IF m[s + z] = NUL \/ m[t + z] = NUL THEN m[s + z] - m[t + z]
          ELSE ToLower(m[s + z]) - ToLower(m[t + z])
  <2> DEFINE last == Up(0, {N} \cup D)
  <2>1. r = IF last = N THEN 0
            ELSE IF m[s + last] = NUL \/ m[t + last] = NUL THEN m[s + last] - m[t + last]
            ELSE ToLower(m[s + last]) - ToLower(m[t + last])
        BY DEF StrNICmp
  <2> HIDE DEF D
  <2>2. last = IF N <= z THEN N ELSE z
        BY <1>6, ComparesUpTo
  <2> HIDE DEF last, r
  <2>3. N <= z => r = 0
        BY <2>1, <2>2
  <2>4. ~(N <= z) => last = z /\ last # N
        BY <2>2
  <2> QED BY <2>1, <2>3, <2>4
<1> HIDE DEF r, D
<1>8. /\ w[s + z] = ToLower(m[s + z]) /\ w[t + z] = ToLower(m[t + z])
      /\ w[s + z] \in 0 .. 255 /\ w[t + z] \in 0 .. 255 /\ m[s + z] \in 0 .. 255 /\ m[t + z] \in 0 .. 255
      /\ (w[s + z] = NUL <=> m[s + z] = NUL) /\ (w[t + z] = NUL <=> m[t + z] = NUL)
      BY <1>1, <1>3
<1>9. r \in Int
      BY <1>7, <1>8
<1>10. N <= z \/ w[s + z] = w[t + z] => r = 0
       BY <1>3, <1>4, <1>7, <1>8
<1>11. z < N /\ w[s + z] # w[t + z] => r # 0 /\ (r < 0 <=> w[s + z] - w[t + z] < 0)
  <2> SUFFICES ASSUME z < N, w[s + z] # w[t + z]
               PROVE  r # 0 /\ (r < 0 <=> w[s + z] - w[t + z] < 0)
      OBVIOUS
  <2> DEFINE p == m[s + z]
             q == m[t + z]
             u == w[s + z]
             v == w[t + z]
  <2>1. r = IF p = NUL \/ q = NUL THEN p - q ELSE u - v
        BY <1>7, <1>8
  <2>2. /\ p \in 0 .. 255 /\ q \in 0 .. 255 /\ u \in 0 .. 255 /\ v \in 0 .. 255 /\ u # v
        /\ (u = 0 <=> p = 0) /\ (v = 0 <=> q = 0)
        BY <1>4, <1>8
  <2> HIDE DEF p, q, u, v
  <2>3. r # 0 /\ (r < 0 <=> u - v < 0)
        BY <2>1, <2>2, <1>4
  <2> QED BY <2>3 DEF u, v
<1>12. SignOf(r, Text(w, s), Text(w, t), N)
       BY <1>1, <1>2, <1>9, <1>10, <1>11, ComparisonIs
<1> QED BY <1>1, <1>12 DEF r

\* What memcmp returns of two areas of N bytes.
Compares(m, s, t, N) ==
    /\ SignOf(MemCmp(m, s, t, N), Bytes(m, s, N), Bytes(m, t, N), N)
    /\ MemCmp(m, s, t, N) = 0 <=> \A j \in 0 .. (N - 1) : m[s + j] = m[t + j]

LEMMA MemCmpIs ==
    ASSUME NEW m, NEW s \in Nat, NEW t \in Nat, NEW N \in Nat, IsMemory(m),
           s + N <= Size, t + N <= Size, N <= Size
    PROVE  Compares(m, s, t, N)
<1> DEFINE D == {N} \cup {j \in Beside(s, t) : m[s + j] # m[t + j]}
           r == MemCmp(m, s, t, N)
           x == Bytes(m, s, N)
           y == Bytes(m, t, N)
<1>1. Size \in Nat /\ m \in [Addr -> 0 .. 255]
      BY DEF IsMemory
<1>2. \A j \in 0 .. (N - 1) : s + j \in Addr /\ t + j \in Addr /\ j \in Beside(s, t)
      BY <1>1 DEF Addr, Beside
<1>3. PICK z \in 0 .. N : FirstUp(D, 0, z) /\ Up(0, D) = z
  <2>1. EndsBy(D, 0, N)
        BY <1>1 DEF EndsBy
  <2> HIDE DEF D
  <2>2. \E z \in 0 .. N : FirstUp(D, 0, z) /\ Up(0, D) = z
        BY <2>1, UpEnds, Zenon
  <2> QED BY <2>2
<1>4. /\ z = N \/ m[s + z] # m[t + z]
      /\ \A j \in 0 .. (z - 1) : m[s + j] = m[t + j]
  <2>1. z \in D /\ \A j \in 0 .. (z - 1) : j \notin D
        BY <1>3 DEF FirstUp
  <2>2. \A j \in 0 .. (z - 1) : j \in 0 .. (N - 1)
        BY <1>3
  <2> QED BY <2>1, <2>2, <1>2
<1>5. r = IF z = N THEN 0 ELSE m[s + z] - m[t + z]
      BY <1>3 DEF MemCmp
<1>6. \A i \in 1 .. N : CharAt(x, i) = m[s + (i - 1)] /\ CharAt(y, i) = m[t + (i - 1)]
  <2> TAKE i \in 1 .. N
  <2>1. x = [e \in 1 .. N |-> m[s + e - 1]] /\ y = [e \in 1 .. N |-> m[t + e - 1]]
        BY DEF Bytes
  <2>2. Len(x) = N /\ Len(y) = N /\ x[i] = m[s + i - 1] /\ y[i] = m[t + i - 1]
        BY <2>1
  <2>3. s + i - 1 = s + (i - 1) /\ t + i - 1 = t + (i - 1) /\ i <= N
        OBVIOUS
  <2> HIDE DEF x, y
  <2> QED BY <2>2, <2>3 DEF CharAt
<1> HIDE DEF D, r, x, y
<1>7. CASE z = N
  <2>1. \A i \in 1 .. N : CharAt(x, i) = CharAt(y, i)
    <3> TAKE i \in 1 .. N
    <3>1. i - 1 \in 0 .. (z - 1)
          BY <1>7
    <3> QED BY <3>1, <1>4, <1>6
  <2>2. SignOf(0, x, y, N)
        BY <2>1, SignOfEqual, Zenon
  <2>3. r = 0 /\ \A j \in 0 .. (N - 1) : m[s + j] = m[t + j]
        BY <1>4, <1>5, <1>7
  <2> QED BY <2>2, <2>3 DEF x, y, r, Compares
<1>8. CASE z # N
  <2>1. z \in 0 .. (N - 1) /\ m[s + z] # m[t + z]
        BY <1>3, <1>4, <1>8
  <2>2. m[s + z] \in 0 .. 255 /\ m[t + z] \in 0 .. 255
        BY <2>1, <1>1, <1>2
  <2>3. r = m[s + z] - m[t + z] /\ r \in Int /\ r # 0
    <3> DEFINE p == m[s + z]
               q == m[t + z]
    <3>1. p \in 0 .. 255 /\ q \in 0 .. 255 /\ p # q /\ r = p - q
          BY <2>1, <2>2, <1>5, <1>8
    <3> HIDE DEF p, q
    <3>2. r = p - q /\ r \in Int /\ r # 0
          BY <3>1
    <3> QED BY <3>2 DEF p, q
  <2> DEFINE i == z + 1
  <2>4. i \in 1 .. N /\ i - 1 = z
        BY <2>1
  <2>5. CharAt(x, i) = m[s + z] /\ CharAt(y, i) = m[t + z]
        BY <2>4, <1>6
  <2>6. \A j \in 1 .. (i - 1) : CharAt(x, j) = CharAt(y, j)
    <3> TAKE j \in 1 .. (i - 1)
    <3>1. j \in 1 .. N /\ j - 1 \in 0 .. (z - 1)
          BY <2>4
    <3> QED BY <3>1, <1>4, <1>6
  <2> HIDE DEF i
  <2>7. /\ CharAt(x, i) \in Int /\ CharAt(y, i) \in Int /\ CharAt(x, i) # CharAt(y, i)
        /\ r < 0 <=> CharAt(x, i) - CharAt(y, i) < 0
        BY <2>1, <2>2, <2>3, <2>5
  <2>8. SignOf(r, x, y, N)
        BY <2>3, <2>4, <2>6, <2>7, SignOfDifference
  <2> QED BY <2>1, <2>3, <2>8 DEF x, y, r, Compares
<1> QED BY <1>7, <1>8

LEMMA StrStrIs ==
    ASSUME NEW m, NEW s \in Nat, NEW t \in Nat, NEW l \in Nat, NEW k \in Nat,
           IsMemory(m), IsString(m, s, l), IsString(m, t, k)
    PROVE  StrStr(m, s, t) = FirstOr(Occurrences(Text(m, s), Text(m, t), s), NULL)
<1> DEFINE x == Text(m, s)
           y == Text(m, t)
           xs == Occurrences(x, y, s)
           last == s + l - k
           D == {a \in Addr : a > last \/ MemCmp(m, a, t, k) = 0}
<1>1. Size \in Nat /\ s + l < Size /\ t + k < Size
      BY DEF IsMemory, IsString
<1>2. /\ Len(x) = l /\ Len(y) = k /\ DOMAIN y = 1 .. k
      /\ \A i \in 1 .. l : x[i] = m[s + i - 1]
      /\ \A i \in 1 .. k : y[i] = m[t + i - 1]
      BY TextIs
<1>3. StrStr(m, s, t) = IF k = 0 THEN s ELSE IF Up(s, D) > last THEN NULL ELSE Up(s, D)
      BY StrLenIs DEF StrStr
<1> HIDE DEF x, y
<1>4. \A a \in s .. last : a \in xs <=> \A e \in 0 .. (k - 1) : m[a + e] = m[t + e]
  <2> TAKE a \in s .. last
  <2>1. a - s \in 0 .. (l - k) /\ s + (a - s) = a
        BY <1>2
  <2>2. \A i \in 0 .. (l - k) : s + i = a => i = a - s
        OBVIOUS
  <2>3. a \in xs <=> \A e \in 1 .. k : x[(a - s) + e] = y[e]
        BY <2>1, <2>2, <1>2 DEF Occurrences
  <2>4. \A e \in 1 .. k : x[(a - s) + e] = m[a + (e - 1)] /\ y[e] = m[t + (e - 1)]
    <3> TAKE e \in 1 .. k
    <3>1. (a - s) + e \in 1 .. l /\ s + ((a - s) + e) - 1 = a + (e - 1) /\ t + e - 1 = t + (e - 1)
          BY <2>1
    <3>2. x[(a - s) + e] = m[s + ((a - s) + e) - 1] /\ y[e] = m[t + e - 1]
          BY <3>1, <1>2
    <3> QED BY <3>1, <3>2
  <2>5. (\A e \in 1 .. k : m[a + (e - 1)] = m[t + (e - 1)]) <=> \A e \in 0 .. (k - 1) : m[a + e] = m[t + e]
    <3>1. \A e \in 0 .. (k - 1) : e + 1 \in 1 .. k /\ (e + 1) - 1 = e
          OBVIOUS
    <3>2. \A e \in 1 .. k : e - 1 \in 0 .. (k - 1)
          OBVIOUS
    <3> QED BY <3>1, <3>2
  <2> QED BY <2>3, <2>4, <2>5
<1>5. xs \in SUBSET Int /\ \A a \in xs : a \in s .. last
      BY <1>2 DEF Occurrences
<1> HIDE DEF xs
<1>6. CASE k = 0
  <2>1. \A a \in s .. last : a \in xs
    <3> TAKE a \in s .. last
    <3>1. \A e \in 0 .. (k - 1) : m[a + e] = m[t + e]
          BY <1>6
    <3> QED BY <3>1, <1>4
  <2>2. s \in s .. last
        BY <1>6
  <2>3. s \in xs /\ \A a \in xs : s <= a
        BY <2>1, <2>2, <1>5
  <2>4. FirstOr(xs, NULL) = s
        BY <2>3, <1>5, FirstIs
  <2> QED BY <2>4, <1>3, <1>6 DEF x, y, xs
<1>7. CASE k # 0 /\ last < s
  <2>1. FirstUp(D, s, s)
    <3>1. s \in D /\ s \in s .. Size /\ \A a \in s .. (s - 1) : a \notin D
          BY <1>1, <1>7 DEF Addr
    <3> HIDE DEF D
    <3> QED BY <3>1, <1>1 DEF FirstUp
  <2>2. Up(s, D) = s
        BY <2>1, UpStopsAt
  <2> HIDE DEF D
  <2>3. StrStr(m, s, t) = NULL
        BY <2>2, <1>3, <1>7
  <2>4. xs = {}
        BY <1>5, <1>7
  <2> QED BY <2>3, <2>4 DEF FirstOr, x, y, xs
<1>8. CASE k # 0 /\ s <= last
  <2>1. last + 1 \in s .. Size /\ last + 1 \in Addr /\ last + 1 \in D
        BY <1>1, <1>8 DEF Addr
  <2>2. \A a \in s .. last : a \in Addr /\ (a \in D <=> a \in xs)
    <3> TAKE a \in s .. last
    <3>1. a \in Nat /\ a + k <= Size /\ t + k <= Size /\ k <= Size /\ a \in Addr /\ ~(a > last)
          BY <1>1, <1>8 DEF Addr
    <3>2. MemCmp(m, a, t, k) = 0 <=> \A e \in 0 .. (k - 1) : m[a + e] = m[t + e]
      <4>1. Compares(m, a, t, k)
            BY <3>1, MemCmpIs
      <4> QED BY <4>1 DEF Compares
    <3> QED BY <3>1, <3>2, <1>4
  <2> HIDE DEF D
  <2>3. PICK z \in s .. (last + 1) : FirstUp(D, s, z) /\ Up(s, D) = z
    <3>1. EndsBy(D, s, last + 1)
          BY <2>1, <1>1 DEF EndsBy
    <3>2. \E z \in s .. (last + 1) : FirstUp(D, s, z) /\ Up(s, D) = z
          BY <3>1, UpEnds, Zenon
    <3> QED BY <3>2
  <2>4. z \in D /\ \A a \in s .. (z - 1) : a \notin D
        BY <2>3 DEF FirstUp
  <2>5. CASE z > last
    <3>1. \A a \in s .. last : a \in s .. (z - 1)
          BY <2>5, <2>3
    <3>2. xs = {}
          BY <3>1, <2>2, <2>4, <1>5
    <3>3. StrStr(m, s, t) = NULL
          BY <2>3, <2>5, <1>3, <1>8
    <3> QED BY <3>2, <3>3 DEF FirstOr, x, y, xs
  <2>6. CASE ~(z > last)
    <3>1. z \in s .. last /\ \A a \in s .. last : a < z => a \in s .. (z - 1)
          BY <2>6, <2>3
    <3>2. z \in xs
          BY <3>1, <2>2, <2>4
    <3>3. \A a \in xs : z <= a
          BY <3>1, <2>2, <2>4, <1>5
    <3>4. FirstOr(xs, NULL) = z
          BY <3>2, <3>3, <1>5, FirstIs
    <3>5. StrStr(m, s, t) = z
          BY <2>3, <2>6, <1>3, <1>8
    <3> QED BY <3>4, <3>5 DEF x, y, xs
  <2> QED BY <2>5, <2>6
<1> QED BY <1>6, <1>7, <1>8

-----------------------------------------------------------------------------
(* Calls of the functions that compare and search                          *)

\* The call is one a caller may make, and memory is still what the caller gave.
Reading ==
    /\ op.f \in Readers => at \in {"read", "back"}
    /\ op.f \notin Readers => at \in {op.f, "back"} /\ op.f \in Splitters
    /\ op \in TextCalls /\ was \in [Addr -> Byte]
    /\ \E l, t \in Addr :
        /\ IsString(was, op.d, l) /\ IsString(was, op.s, t)
        /\ op.f \in Splitters => op.d + l < op.s \/ op.s + t < op.d
    /\ op.f \in {"memcmp", "memscan", "memchr"} => op.d + op.n < Size /\ op.s + op.n < Size
    /\ op.f \in Readers => mem = was

LEMMA CallIs ==
    ASSUME Reading
    PROVE  /\ op.f \in Readers \cup Splitters /\ op.d \in Nat /\ op.s \in Nat /\ op.n \in Nat /\ op.c \in Byte
           /\ Size \in Nat /\ NUL = 0 /\ IsMemory(was) /\ was \in [Addr -> Byte]
<1>1. op \in [f : Readers \cup Splitters, d : Nat, s : Nat, n : Nat, c : Byte]
      BY StringsAssumption DEF Reading
<1>2. IsMemory(was)
  <2>1. Size \in Nat /\ NUL = 0 /\ Byte \subseteq 0 .. 255 /\ was \in [Addr -> Byte]
        BY MemAssumption, StringsAssumption DEF Reading
  <2>2. was \in [Addr -> 0 .. 255]
        BY <2>1
  <2> QED BY <2>1, <2>2 DEF IsMemory
<1> QED BY <1>1, <1>2, MemAssumption, StringsAssumption DEF Reading

\* The call returns what it ought to.
LEMMA ReadReturns == Reading /\ Read => ReadersRight'
<1> SUFFICES ASSUME Reading, Read PROVE ReadersRight'
    OBVIOUS
<1>1. /\ at = "read" /\ at' = "back" /\ op' = op /\ mem' = mem
      BY DEF Read
<1>2. op.f \in Readers /\ mem = was
      BY <1>1, CallIs DEF Reading, Splitters
<1>3. /\ op.d \in Nat /\ op.s \in Nat /\ op.n \in Nat
      /\ Size \in Nat /\ IsMemory(mem) /\ mem \in [Addr -> Byte]
      BY <1>2, CallIs
<1>4. PICK l, k \in Addr : IsString(mem, op.d, l) /\ IsString(mem, op.s, k)
      BY <1>2 DEF Reading
<1>5. l \in Nat /\ k \in Nat
      BY <1>3 DEF Addr
<1> DEFINE x == Text(mem, op.d)
           y == Text(mem, op.s)
<1>6. Len(x) = l /\ Len(y) = k
      BY <1>3, <1>4, <1>5, TextIs
<1>7. CASE op.f = "strlen"
  <2>1. ret' = Len(x)
        BY <1>3, <1>4, <1>5, <1>6, <1>7, StrLenIs DEF Read
  <2> QED BY <2>1, <1>1, <1>7 DEF ReadersRight
<1>8. CASE op.f = "strnlen"
  <2>1. ret' = Min2(Len(x), op.n)
        BY <1>3, <1>4, <1>5, <1>6, <1>8, StrNLenIs DEF Read
  <2> QED BY <2>1, <1>1, <1>8 DEF ReadersRight
<1>9. CASE op.f = "strcmp"
  <2>1. TellsApart(StrCmp(mem, op.d, op.s), x, y, Len(x) + Len(y) + 1)
        BY <1>3, <1>4, <1>5, StrCmpIs
  <2>2. ret' = StrCmp(mem, op.d, op.s)
        BY <1>9 DEF Read
  <2> QED BY <2>1, <2>2, <1>1, <1>9 DEF ReadersRight
<1>10. CASE op.f = "strncmp"
  <2>1. TellsApart(StrNCmp(mem, op.d, op.s, op.n), x, y, op.n)
        BY <1>3, <1>4, <1>5, StrCmpIs
  <2>2. ret' = StrNCmp(mem, op.d, op.s, op.n)
        BY <1>10 DEF Read
  <2> QED BY <2>1, <2>2, <1>1, <1>10 DEF ReadersRight
<1>11. CASE op.f = "strnicmp"
  <2>1. SignOf(StrNICmp(mem, op.d, op.s, op.n), Lowered(x), Lowered(y), op.n)
        BY <1>3, <1>4, <1>5, StrNICmpIs
  <2>2. ret' = StrNICmp(mem, op.d, op.s, op.n)
        BY <1>11 DEF Read
  <2> QED BY <2>1, <2>2, <1>1, <1>6, <1>11 DEF ReadersRight
<1>12. CASE op.f = "strchr"
  <2>1. StrChr(mem, op.d, op.c) = FirstOr(Holding(mem, op.d, l + 1, {op.c}), NULL)
        BY <1>3, <1>4, <1>5, StrChrIs
  <2>2. ret' = StrChr(mem, op.d, op.c)
        BY <1>12 DEF Read
  <2> QED BY <2>1, <2>2, <1>1, <1>6, <1>12 DEF ReadersRight
<1>13. CASE op.f = "strrchr"
  <2>1. StrRChr(mem, op.d, op.c) = LastOr(Holding(mem, op.d, l + 1, {op.c}), NULL)
        BY <1>3, <1>4, <1>5, StrRChrIs
  <2>2. ret' = StrRChr(mem, op.d, op.c)
        BY <1>13 DEF Read
  <2> QED BY <2>1, <2>2, <1>1, <1>6, <1>13 DEF ReadersRight
<1>14. CASE op.f = "strspn"
  <2>1. StrSpn(mem, op.d, op.s) = FirstOr(Holding(mem, op.d, l + 1, Byte \ ToSet(y)), NULL) - op.d
        BY <1>3, <1>4, <1>5, StrSpnIs
  <2>2. ret' = StrSpn(mem, op.d, op.s)
        BY <1>14 DEF Read
  <2> QED BY <2>1, <2>2, <1>1, <1>6, <1>14 DEF ReadersRight
<1>15. CASE op.f = "strpbrk"
  <2>1. StrPBrk(mem, op.d, op.s) = FirstOr(Holding(mem, op.d, l, ToSet(y)), NULL)
        BY <1>3, <1>4, <1>5, StrPBrkIs
  <2>2. ret' = StrPBrk(mem, op.d, op.s)
        BY <1>15 DEF Read
  <2> QED BY <2>1, <2>2, <1>1, <1>6, <1>15 DEF ReadersRight
<1>16. op.f \in {"memcmp", "memscan", "memchr"} => op.d + op.n < Size /\ op.s + op.n < Size
       BY DEF Reading
<1>17. CASE op.f = "memcmp"
  <2>1. op.d + op.n <= Size /\ op.s + op.n <= Size /\ op.n <= Size
        BY <1>3, <1>16, <1>17
  <2>2. Compares(mem, op.d, op.s, op.n)
        BY <1>3, <2>1, MemCmpIs
  <2>3. ret' = MemCmp(mem, op.d, op.s, op.n)
        BY <1>17 DEF Read
  <2>4. SignOf(ret', Bytes(mem, op.d, op.n), Bytes(mem, op.s, op.n), op.n)
        BY <2>2, <2>3 DEF Compares
  <2> QED BY <2>4, <1>1, <1>17 DEF ReadersRight
<1>18. CASE op.f = "memscan"
  <2>1. MemScan(mem, op.d, op.c, op.n) = FirstOr(Holding(mem, op.d, op.n, {op.c}), op.d + op.n)
    <3>1. op.d + op.n < Size
          BY <1>16, <1>18
    <3>2. Scans(mem, op.d, op.c, op.n)
          BY <3>1, <1>3, MemScanIs
    <3> QED BY <3>2 DEF Scans
  <2>2. ret' = MemScan(mem, op.d, op.c, op.n)
        BY <1>18 DEF Read
  <2> QED BY <2>1, <2>2, <1>1, <1>18 DEF ReadersRight
<1>19. CASE op.f = "memchr"
  <2>1. MemChr(mem, op.d, op.c, op.n) = FirstOr(Holding(mem, op.d, op.n, {op.c}), NULL)
    <3>1. op.d + op.n < Size
          BY <1>16, <1>19
    <3>2. Scans(mem, op.d, op.c, op.n)
          BY <3>1, <1>3, MemScanIs
    <3> QED BY <3>2 DEF Scans
  <2>2. ret' = MemChr(mem, op.d, op.c, op.n)
        BY <1>19 DEF Read
  <2> QED BY <2>1, <2>2, <1>1, <1>19 DEF ReadersRight
<1>20. CASE op.f = "strstr"
  <2>1. StrStr(mem, op.d, op.s) = FirstOr(Occurrences(x, y, op.d), NULL)
        BY <1>3, <1>4, <1>5, StrStrIs
  <2>2. ret' = StrStr(mem, op.d, op.s)
        BY <1>20 DEF Read
  <2> QED BY <2>1, <2>2, <1>1, <1>20 DEF ReadersRight
<1> QED
    BY <1>2, <1>7, <1>8, <1>9, <1>10, <1>11, <1>12, <1>13, <1>14, <1>15, <1>17, <1>18, <1>19, <1>20
    DEF Readers

-----------------------------------------------------------------------------
(* Taking a string apart                                                   *)

\* Delimiters that have been cut at are NUL, and nothing else has changed.
OnlyCuts ==
    /\ mem \in [Addr -> Byte]
    /\ \A a \in Addr : mem[a] # was[a] => a \in op.d .. (StringEnd - 1) /\ was[a] \in Delimiters /\ mem[a] = NUL

\* What is left begins where a token may, and is as it was.
RestGood ==
    rest # NULL =>
        /\ rest \in op.d .. StringEnd
        /\ rest = op.d \/ was[rest - 1] \in Delimiters
        /\ \A a \in Addr : a >= rest => mem[a] = was[a]

\* A token begins where it should, is still there and ends before what is left.
TokenGood(B) ==
    /\ B \in Starts /\ EndOfToken(B) \in B .. StringEnd
    /\ \A a \in B .. (EndOfToken(B) - 1) : mem[a] = was[a]
    /\ mem[EndOfToken(B)] = NUL
    /\ rest # NULL => EndOfToken(B) < rest

Splits ==
    /\ OnlyCuts /\ RestGood /\ toks \in Seq(Nat)
    /\ \A i \in DOMAIN toks : TokenGood(toks[i])
    /\ \A i, j \in DOMAIN toks : i < j => toks[i] < toks[j]
    /\ \A a \in Starts : a \in ToSet(toks) \/ (rest # NULL /\ rest <= a)
    /\ at = "back" => rest = NULL

LEMMA SplitFacts ==
    ASSUME Reading, op.f \in Splitters
    PROVE  /\ op.d \in Nat /\ Size \in Nat /\ NUL = 0 /\ op.s \in Nat
           /\ StringEnd \in Nat /\ op.d <= StringEnd /\ StringEnd < Size
           /\ was \in [Addr -> Byte] /\ was[StringEnd] = NUL /\ NUL \notin Delimiters
           /\ \A x \in op.d .. (StringEnd - 1) : was[x] # NUL
           /\ \E k \in Nat : IsString(was, op.s, k) /\ (StringEnd < op.s \/ op.s + k < op.d)
<1>1. /\ op.d \in Nat /\ op.s \in Nat /\ Size \in Nat /\ NUL = 0 /\ IsMemory(was) /\ was \in [Addr -> Byte]
      BY CallIs
<1>2. PICK l, k \in Addr : /\ IsString(was, op.d, l) /\ IsString(was, op.s, k)
                           /\ op.d + l < op.s \/ op.s + k < op.d
      BY DEF Reading
<1>3. l \in Nat /\ k \in Nat
      BY <1>1 DEF Addr
<1>4. StringEnd = op.d + l
      BY <1>1, <1>2, <1>3, TextIs DEF StringEnd
<1>5. op.d + l < Size /\ was[op.d + l] = NUL /\ \A x \in 0 .. (l - 1) : was[op.d + x] # NUL
      BY <1>2 DEF IsString
<1>6. \A x \in op.d .. (StringEnd - 1) : was[x] # NUL
  <2> TAKE x \in op.d .. (StringEnd - 1)
  <2>1. x - op.d \in 0 .. (l - 1) /\ op.d + (x - op.d) = x
        BY <1>1, <1>3, <1>4
  <2> QED BY <2>1, <1>5
<1>7. NUL \notin Delimiters
      BY <1>1, <1>2, <1>3, LettersAre DEF Delimiters
<1>8. StringEnd \in Nat /\ op.d <= StringEnd /\ StringEnd < Size
      BY <1>1, <1>3, <1>4, <1>5
<1>9. \E e \in Nat : IsString(was, op.s, e) /\ (StringEnd < op.s \/ op.s + e < op.d)
      BY <1>2, <1>3, <1>4
<1> QED BY <1>1, <1>4, <1>5, <1>6, <1>7, <1>8, <1>9

\* Where a token ends that begins at a.
LEMMA TokenEnds ==
    ASSUME Reading, op.f \in Splitters, NEW a \in Nat, NEW e \in Nat, op.d <= a, a <= e, e <= StringEnd,
           was[e] \in Delimiters \cup {NUL}, \A x \in a .. (e - 1) : was[x] \notin Delimiters \cup {NUL}
    PROVE  EndOfToken(a) = e
<1> DEFINE C  == Delimiters \cup {NUL}
           N  == Size - a
           xs == Holding(was, a, N, C)
<1>1. Size \in Nat /\ StringEnd \in Nat /\ StringEnd < Size /\ N \in Int /\ a + N = Size
      BY SplitFacts
<1> HIDE DEF N, C
<1>2. xs \in SUBSET Int /\ \A x : x \in xs <=> x \in a .. ((a + N) - 1) /\ was[x] \in C
      BY <1>1 DEF Holding
<1> HIDE DEF xs
<1>3. e \in xs
      BY <1>1, <1>2 DEF C
<1>4. \A x \in xs : e <= x
      BY <1>1, <1>2 DEF C
<1>5. FirstOr(xs, Size) = e
      BY <1>2, <1>3, <1>4, FirstIs
<1> QED BY <1>5 DEF EndOfToken, xs, C, N

\* From what is left on memory is as it was, and so are the delimiters.
LEMMA RestAgrees ==
    ASSUME Reading, op.f \in Splitters, OnlyCuts, RestGood, rest # NULL, NEW B \in rest .. StringEnd
    PROVE  /\ B \in Nat /\ IsMemory(mem) /\ IsString(mem, B, StringEnd - B) /\ StringEnd - B \in Nat
           /\ \E k \in Nat : IsString(mem, op.s, k)
           /\ ToSet(Text(mem, op.s)) = Delimiters
<1>1. /\ op.d \in Nat /\ Size \in Nat /\ NUL = 0 /\ op.s \in Nat
      /\ StringEnd \in Nat /\ op.d <= StringEnd /\ StringEnd < Size
      /\ was \in [Addr -> Byte] /\ was[StringEnd] = NUL
      /\ \A x \in op.d .. (StringEnd - 1) : was[x] # NUL
      BY SplitFacts
<1>2. rest \in op.d .. StringEnd /\ \A a \in Addr : a >= rest => mem[a] = was[a]
      BY DEF RestGood
<1>3. /\ mem \in [Addr -> Byte]
      /\ \A a \in Addr : mem[a] # was[a] => a \in op.d .. (StringEnd - 1)
      BY DEF OnlyCuts
<1>4. B \in Nat /\ op.d <= B /\ B <= StringEnd /\ rest <= B /\ StringEnd - B \in Nat /\ B + (StringEnd - B) = StringEnd
      BY <1>1, <1>2
<1>5. IsMemory(mem) /\ IsMemory(was)
  <2>1. mem \in [Addr -> 0 .. 255]
        BY <1>3, StringsAssumption
  <2> QED BY <2>1, <1>1, CallIs DEF IsMemory
<1>6. IsString(mem, B, StringEnd - B)
  <2>1. mem[StringEnd] = NUL
        BY <1>1, <1>2, <1>4 DEF Addr
  <2>2. \A x \in 0 .. ((StringEnd - B) - 1) : mem[B + x] # NUL
    <3> TAKE x \in 0 .. ((StringEnd - B) - 1)
    <3>1. B + x \in op.d .. (StringEnd - 1) /\ B + x \in Addr /\ B + x >= rest
          BY <1>1, <1>2, <1>4 DEF Addr
    <3> QED BY <3>1, <1>1, <1>2
  <2> QED BY <2>1, <2>2, <1>1, <1>4 DEF IsString
<1>7. PICK k \in Nat : IsString(was, op.s, k) /\ (StringEnd < op.s \/ op.s + k < op.d)
      BY SplitFacts
<1>8. op.s + k < Size /\ was[op.s + k] = NUL /\ \A x \in 0 .. (k - 1) : was[op.s + x] # NUL
      BY <1>7 DEF IsString
<1>9. \A x \in 0 .. k : op.s + x \in Addr /\ mem[op.s + x] = was[op.s + x]
  <2> TAKE x \in 0 .. k
  <2>1. op.s + x \in Addr /\ op.s + x \notin op.d .. (StringEnd - 1)
        BY <1>1, <1>7, <1>8, SMTT(20) DEF Addr
  <2> QED BY <2>1, <1>3
<1>10. IsString(mem, op.s, k)
  <2>1. k \in 0 .. k /\ \A x \in 0 .. (k - 1) : x \in 0 .. k
        OBVIOUS
  <2> QED BY <2>1, <1>8, <1>9 DEF IsString
<1>11. ToSet(Text(mem, op.s)) = Delimiters
  <2>1. Letters(mem, op.s) = ToSet(Text(mem, op.s)) /\ Letters(was, op.s) = Delimiters
        BY <1>1, <1>5, <1>7, <1>10, LettersAre DEF Delimiters
  <2>2. StrLen(mem, op.s) = k /\ StrLen(was, op.s) = k
        BY <1>1, <1>5, <1>7, <1>10, StrLenIs
  <2>3. \A x \in 0 .. (k - 1) : mem[op.s + x] = was[op.s + x]
    <3>1. \A x \in 0 .. (k - 1) : x \in 0 .. k
          OBVIOUS
    <3> QED BY <3>1, <1>9
  <2>4. {mem[op.s + x] : x \in 0 .. (k - 1)} = {was[op.s + x] : x \in 0 .. (k - 1)}
        BY <2>3
  <2> QED BY <2>1, <2>2, <2>4 DEF Letters
<1> QED BY <1>4, <1>5, <1>6, <1>10, <1>11

\* The token that begins at B ends at end, a delimiter, or with the string when end is NULL.
EndsWith(B, end) ==
    /\ EndOfToken(B) \in B .. StringEnd
    /\ \A x \in B .. (EndOfToken(B) - 1) : was[x] \notin Delimiters
    /\ IF end = NULL THEN EndOfToken(B) = StringEnd
       ELSE end = EndOfToken(B) /\ end < StringEnd /\ was[end] \in Delimiters

LEMMA BreakIs ==
    ASSUME Reading, op.f \in Splitters, OnlyCuts, RestGood, rest # NULL, NEW B \in rest .. StringEnd
    PROVE  EndsWith(B, StrPBrk(mem, B, op.s))
<1>1. /\ op.d \in Nat /\ Size \in Nat /\ StringEnd \in Nat /\ StringEnd < Size /\ op.s \in Nat
      /\ was[StringEnd] = NUL /\ NUL \notin Delimiters
      BY SplitFacts
<1>2. /\ B \in Nat /\ IsMemory(mem) /\ IsString(mem, B, StringEnd - B) /\ StringEnd - B \in Nat
      /\ \E k \in Nat : IsString(mem, op.s, k)
      /\ ToSet(Text(mem, op.s)) = Delimiters
      BY RestAgrees
<1>3. rest \in op.d .. StringEnd /\ \A a \in Addr : a >= rest => mem[a] = was[a]
      BY DEF RestGood
<1>4. Letters(mem, op.s) = Delimiters
      BY <1>1, <1>2, LettersAre
<1> DEFINE z == Up(B, Searching(mem, Delimiters))
<1>5. Searched(mem, B, StringEnd - B, Delimiters, z)
      BY <1>1, <1>2, SearchIs, Zenon
<1>6. StrPBrk(mem, B, op.s) = IF mem[z] = NUL THEN NULL ELSE z
      BY <1>4 DEF StrPBrk, Searching
<1> HIDE DEF z
<1>7. /\ z \in B .. StringEnd /\ z \in Nat
      /\ mem[z] = NUL => z = StringEnd
      /\ mem[z] # NUL => mem[z] \in Delimiters
      /\ \A x \in B .. (z - 1) : mem[x] # NUL /\ mem[x] \notin Delimiters
  <2>1. B + (StringEnd - B) = StringEnd
        BY <1>1, <1>2
  <2> QED BY <2>1, <1>1, <1>2, <1>5 DEF Searched
<1>8. \A x \in B .. z : x \in Addr /\ mem[x] = was[x]
      BY <1>1, <1>2, <1>3, <1>7 DEF Addr
<1>9. was[z] \in Delimiters \cup {NUL} /\ \A x \in B .. (z - 1) : was[x] \notin Delimiters \cup {NUL}
      BY <1>2, <1>7, <1>8
<1>10. EndOfToken(B) = z
       BY <1>1, <1>2, <1>3, <1>7, <1>9, TokenEnds
<1>11. CASE mem[z] = NUL
       BY <1>6, <1>7, <1>9, <1>10, <1>11 DEF EndsWith
<1>12. CASE mem[z] # NUL
  <2>1. was[z] = mem[z] /\ z # StringEnd
        BY <1>1, <1>2, <1>7, <1>8, <1>12
  <2>2. z # NULL
        BY <1>7 DEF NULL
  <2>3. z \in Nat /\ z < StringEnd
        BY <2>1, <1>1, <1>7
  <2> QED BY <2>1, <2>2, <2>3, <1>6, <1>7, <1>9, <1>10, <1>12 DEF EndsWith
<1> QED BY <1>11, <1>12

\* The calls leave what is asked for as it is.
LEMMA SameTask ==
    ASSUME op' = op, was' = was
    PROVE  /\ Delimiters' = Delimiters /\ StringEnd' = StringEnd /\ Starts' = Starts
           /\ \A B : EndOfToken(B)' = EndOfToken(B)
<1> USE DEF Delimiters, StringEnd, Starts, EndOfToken
<1> QED OBVIOUS

\* A call that gives out the token at B.
LEMMA CutStep ==
    ASSUME Reading, op.f \in Splitters, Splits, at # "back", rest # NULL,
           NEW B \in rest .. StringEnd, NEW end,
           \A x \in rest .. (B - 1) : was[x] \in Delimiters,
           op.f = "strsep" => B = rest, op.f = "strtok" => was[B] \notin Delimiters \cup {NUL},
           EndsWith(B, end), Cut(B, end)
    PROVE  Splits'
<1> DEFINE e == EndOfToken(B)
<1>1. /\ op.d \in Nat /\ Size \in Nat /\ NUL = 0 /\ StringEnd \in Nat /\ op.d <= StringEnd /\ StringEnd < Size
      /\ was \in [Addr -> Byte] /\ was[StringEnd] = NUL
      BY SplitFacts
<1>2. /\ rest \in op.d .. StringEnd /\ (rest = op.d \/ was[rest - 1] \in Delimiters)
      /\ \A a \in Addr : a >= rest => mem[a] = was[a]
      BY DEF Splits, RestGood
<1>3. /\ mem \in [Addr -> Byte] /\ toks \in Seq(Nat)
      /\ \A a \in Addr : mem[a] # was[a] => a \in op.d .. (StringEnd - 1) /\ was[a] \in Delimiters /\ mem[a] = NUL
      BY DEF Splits, OnlyCuts
<1>4. /\ op' = op /\ was' = was /\ at' = at /\ toks' = Append(toks, B)
      /\ mem' = IF end = NULL THEN mem ELSE [mem EXCEPT ![end] = NUL]
      /\ rest' = IF end = NULL THEN NULL ELSE end + 1
      BY DEF Cut
<1>5. /\ e \in B .. StringEnd /\ e \in Addr /\ B \in Nat /\ rest <= B /\ op.d <= rest /\ B \in op.d .. StringEnd
      /\ \A x \in B .. (e - 1) : was[x] \notin Delimiters
      BY <1>1, <1>2 DEF EndsWith, Addr
<1>6. /\ mem' \in [Addr -> Byte] /\ \A a \in Addr : a # e => mem'[a] = mem[a]
      /\ mem'[e] = NUL
      /\ e < StringEnd => was[e] \in Delimiters /\ rest' = e + 1
      /\ rest' # NULL => rest' = e + 1 /\ e < StringEnd
  <2>1. CASE end = NULL
    <3>1. e = StringEnd
          BY <2>1 DEF EndsWith
    <3>2. mem[e] = NUL
          BY <3>1, <1>1, <1>2, <1>5
    <3> HIDE DEF e
    <3> QED BY <2>1, <3>1, <3>2, <1>1, <1>3, <1>4
  <2>2. CASE end # NULL
    <3>1. end = e /\ e < StringEnd /\ was[e] \in Delimiters
          BY <2>2 DEF EndsWith
    <3>2. NUL \in Byte
          BY <1>1 DEF Addr
    <3> HIDE DEF e
    <3> QED BY <2>2, <3>1, <3>2, <1>1, <1>3, <1>4, <1>5
  <2> QED BY <2>1, <2>2
<1>7. \A i \in DOMAIN toks : TokenGood(toks[i]) /\ toks[i] \in Nat
      BY <1>3 DEF Splits
<1>8. B \in Starts
  <2>1. B = op.d \/ was[B - 1] \in Delimiters
    <3>1. CASE B = rest
          BY <3>1, <1>2
    <3>2. CASE B # rest
          BY <3>2, <1>1, <1>2, <1>5
    <3> QED BY <3>1, <3>2
  <2> QED BY <2>1, <1>5 DEF Starts
<1> HIDE DEF e
<1>9. ASSUME NEW i \in DOMAIN toks
      PROVE  /\ toks[i] \in Starts /\ EndOfToken(toks[i]) \in toks[i] .. StringEnd
             /\ \A a \in toks[i] .. (EndOfToken(toks[i]) - 1) : mem'[a] = was[a]
             /\ mem'[EndOfToken(toks[i])] = NUL
             /\ rest' # NULL => EndOfToken(toks[i]) < rest'
             /\ toks[i] < B
  <2>1. /\ toks[i] \in Starts /\ EndOfToken(toks[i]) \in toks[i] .. StringEnd /\ toks[i] \in Nat
        /\ \A a \in toks[i] .. (EndOfToken(toks[i]) - 1) : mem[a] = was[a]
        /\ mem[EndOfToken(toks[i])] = NUL
        /\ EndOfToken(toks[i]) < rest
        BY <1>7 DEF TokenGood
  <2>2. \A a \in toks[i] .. EndOfToken(toks[i]) : a \in Addr /\ a # e
        BY <2>1, <1>1, <1>2, <1>5 DEF Addr
  <2>3. EndOfToken(toks[i]) < e /\ toks[i] < B
        BY <2>1, <1>1, <1>2, <1>5
  <2>4. EndOfToken(toks[i]) \in toks[i] .. EndOfToken(toks[i])
        BY <2>1
  <2>5. \A a \in toks[i] .. (EndOfToken(toks[i]) - 1) : a \in toks[i] .. EndOfToken(toks[i])
        BY <2>1
  <2> QED BY <2>1, <2>2, <2>3, <2>4, <2>5, <1>1, <1>5, <1>6
<1>10. /\ \A a \in B .. (e - 1) : mem'[a] = was[a]
       /\ rest' # NULL => e < rest'
  <2>1. \A a \in B .. (e - 1) : a \in Addr /\ a # e /\ a >= rest
        BY <1>1, <1>2, <1>5 DEF Addr
  <2>2. \A a \in B .. (e - 1) : mem'[a] = was[a]
        BY <2>1, <1>2, <1>6
  <2>3. rest' # NULL => e < rest'
        BY <1>1, <1>5, <1>6
  <2> QED BY <2>2, <2>3
<1>11. /\ toks' \in Seq(Nat) /\ DOMAIN toks' = 1 .. (Len(toks) + 1) /\ DOMAIN toks = 1 .. Len(toks)
       /\ \A i \in DOMAIN toks : toks'[i] = toks[i]
       /\ toks'[Len(toks) + 1] = B /\ Len(toks) \in Nat
       BY <1>3, <1>4, <1>5
<1>12. /\ Delimiters' = Delimiters /\ StringEnd' = StringEnd /\ Starts' = Starts
       /\ \A c : EndOfToken(c)' = EndOfToken(c)
       BY <1>4, SameTask
<1>13. OnlyCuts'
  <2> SUFFICES ASSUME NEW a \in Addr, mem'[a] # was[a]
               PROVE  a \in op.d .. (StringEnd - 1) /\ was[a] \in Delimiters /\ mem'[a] = NUL
      BY <1>4, <1>6, <1>12 DEF OnlyCuts
  <2>1. CASE a = e
    <3>1. e # StringEnd
          BY <2>1, <1>1, <1>6
    <3> QED BY <2>1, <3>1, <1>1, <1>5, <1>6
  <2>2. CASE a # e
        BY <2>2, <1>3, <1>6
  <2> QED BY <2>1, <2>2
<1>14. RestGood'
  <2> SUFFICES ASSUME rest' # NULL
               PROVE  /\ rest' \in op.d .. StringEnd
                      /\ was[rest' - 1] \in Delimiters
                      /\ \A a \in Addr : a >= rest' => mem'[a] = was[a]
      BY <1>4, <1>12 DEF RestGood
  <2>1. rest' = e + 1 /\ e < StringEnd /\ was[e] \in Delimiters /\ rest' - 1 = e
        BY <1>1, <1>5, <1>6
  <2>2. \A a \in Addr : a >= rest' => a # e /\ a >= rest
        BY <2>1, <1>1, <1>2, <1>5 DEF Addr
  <2> QED BY <2>1, <2>2, <1>1, <1>2, <1>5, <1>6
<1>15. \A i \in DOMAIN toks' : TokenGood(toks[i])'
  <2> TAKE i \in DOMAIN toks'
  <2> DEFINE c == toks'[i]
  <2>1. /\ c \in Starts /\ EndOfToken(c) \in c .. StringEnd
        /\ \A a \in c .. (EndOfToken(c) - 1) : mem'[a] = was[a]
        /\ mem'[EndOfToken(c)] = NUL
        /\ rest' # NULL => EndOfToken(c) < rest'
    <3>1. CASE i \in DOMAIN toks
      <4>1. c = toks[i]
            BY <3>1, <1>11
      <4> HIDE DEF c
      <4> QED BY <3>1, <4>1, <1>9
    <3>2. CASE i \notin DOMAIN toks
      <4>1. c = B
            BY <3>2, <1>11
      <4> HIDE DEF c
      <4> QED BY <4>1, <1>5, <1>6, <1>8, <1>10 DEF e
    <3> QED BY <3>1, <3>2
  <2>2. EndOfToken(toks[i])' = EndOfToken(c)
        BY <1>4 DEF EndOfToken, Delimiters
  <2> QED BY <2>1, <2>2, <1>4, <1>12 DEF TokenGood
<1>16. \A i, j \in DOMAIN toks' : i < j => toks'[i] < toks'[j]
  <2> TAKE i \in DOMAIN toks', j \in DOMAIN toks'
  <2> HAVE i < j
  <2>1. i \in DOMAIN toks /\ toks'[i] = toks[i]
        BY <1>11
  <2>2. CASE j \in DOMAIN toks
        BY <2>1, <2>2, <1>11 DEF Splits
  <2>3. CASE j \notin DOMAIN toks
    <3>1. toks'[j] = B
          BY <2>3, <1>11
    <3> QED BY <3>1, <2>1, <1>9
  <2> QED BY <2>2, <2>3
<1>17. \A a \in Starts : a \in ToSet(toks') \/ (rest' # NULL /\ rest' <= a)
  <2>1. ASSUME NEW a \in ToSet(toks) \cup {B}
        PROVE  a \in ToSet(toks')
        BY <1>11 DEF ToSet
  <2> TAKE a \in Starts
  <2>2. /\ a \in op.d .. StringEnd /\ (a = op.d \/ was[a - 1] \in Delimiters)
        /\ op.f = "strtok" => was[a] \notin Delimiters
        BY DEF Starts
  <2>3. CASE a \in ToSet(toks)
        BY <2>1, <2>3
  <2>4. CASE a \notin ToSet(toks)
    <3>1. rest <= a
          BY <2>4 DEF Splits
    <3>2. CASE a < B
      <4>1. a \in rest .. (B - 1) /\ rest # B
            BY <3>1, <3>2, <2>2, <1>1, <1>2, <1>5
      <4>2. was[a] \in Delimiters /\ op.f = "strtok"
            BY <4>1 DEF Splitters
      <4> QED BY <4>2, <2>2
    <3>3. CASE a = B
          BY <3>3, <2>1
    <3>4. CASE a > B
      <4>1. was[a - 1] \in Delimiters /\ a - 1 >= B
            BY <3>4, <2>2, <1>1, <1>5
      <4>2. ~(a - 1 \in B .. (e - 1))
            BY <4>1, <1>5
      <4>3. a > e
            BY <4>1, <4>2, <2>2, <1>1, <1>5
      <4>4. e < StringEnd /\ rest' = e + 1
            BY <4>3, <2>2, <1>1, <1>5, <1>6
      <4>5. rest' # NULL
            BY <4>4, <1>1, <1>5 DEF NULL
      <4>6. rest' <= a
            BY <4>3, <4>4, <2>2, <1>1, <1>5
      <4> QED BY <4>5, <4>6
    <3> QED BY <3>2, <3>3, <3>4, <2>2, <1>1, <1>5
  <2> QED BY <2>3, <2>4
<1> QED BY <1>4, <1>11, <1>12, <1>13, <1>14, <1>15, <1>16, <1>17 DEF Splits

\* strtok goes over delimiters to the first other character, or to the end.
Skips(B) ==
    /\ B \in rest .. StringEnd /\ mem[B] = was[B]
    /\ \A x \in rest .. (B - 1) : was[x] \in Delimiters
    /\ was[B] = NUL => B = StringEnd
    /\ was[B] # NUL => was[B] \notin Delimiters

LEMMA SkipIs ==
    ASSUME Reading, op.f \in Splitters, OnlyCuts, RestGood, rest # NULL
    PROVE  Skips(rest + StrSpn(mem, rest, op.s))
<1>1. /\ op.d \in Nat /\ Size \in Nat /\ StringEnd \in Nat /\ StringEnd < Size /\ op.s \in Nat
      BY SplitFacts
<1>2. rest \in op.d .. StringEnd /\ rest \in rest .. StringEnd /\ \A a \in Addr : a >= rest => mem[a] = was[a]
      BY <1>1 DEF RestGood
<1>3. /\ rest \in Nat /\ IsMemory(mem) /\ IsString(mem, rest, StringEnd - rest) /\ StringEnd - rest \in Nat
      /\ \E k \in Nat : IsString(mem, op.s, k)
      /\ ToSet(Text(mem, op.s)) = Delimiters
      BY <1>2, RestAgrees
<1>4. Letters(mem, op.s) = Delimiters
      BY <1>1, <1>3, LettersAre
<1>5. mem \in [Addr -> Byte]
      BY DEF OnlyCuts
<1> DEFINE C == Byte \ (Delimiters \cup {NUL})
           z == Up(rest, Searching(mem, C))
<1>6. Searched(mem, rest, StringEnd - rest, C, z)
  <2>1. NUL \notin C
        OBVIOUS
  <2> HIDE DEF C, z
  <2> QED BY <2>1, <1>3, SearchIs, Zenon DEF z
<1>7. rest + StrSpn(mem, rest, op.s) = z
  <2>1. Searching(mem, C) = {a \in Addr : mem[a] = NUL \/ mem[a] \notin Letters(mem, op.s)}
        BY <1>4, <1>5 DEF Searching
  <2>2. StrSpn(mem, rest, op.s) = z - rest
        BY <2>1 DEF StrSpn
  <2>3. rest + (StringEnd - rest) = StringEnd /\ z \in rest .. (rest + (StringEnd - rest))
        BY <1>1, <1>3, <1>6 DEF Searched
  <2> HIDE DEF z
  <2> QED BY <2>2, <2>3, <1>1, <1>3
<1> HIDE DEF z
<1>8. /\ z \in rest .. StringEnd /\ z \in Addr
      /\ mem[z] = NUL => z = StringEnd
      /\ mem[z] # NUL => mem[z] \in C
      /\ \A x \in rest .. (z - 1) : mem[x] # NUL /\ mem[x] \notin C
  <2>1. rest + (StringEnd - rest) = StringEnd
        BY <1>1, <1>3
  <2> QED BY <2>1, <1>1, <1>3, <1>6 DEF Searched
<1>9. \A x \in rest .. z : x \in Addr /\ mem[x] = was[x]
      BY <1>1, <1>2, <1>3, <1>8 DEF Addr
<1>10. \A x \in rest .. (z - 1) : was[x] \in Delimiters
  <2> TAKE x \in rest .. (z - 1)
  <2>1. x \in rest .. z
        BY <1>8
  <2>2. mem[x] \in Byte
        BY <2>1, <1>5, <1>9
  <2> QED BY <2>1, <2>2, <1>8, <1>9
<1>11. mem[z] = was[z]
       BY <1>1, <1>3, <1>8, <1>9
<1>12. Skips(z)
       BY <1>8, <1>10, <1>11 DEF Skips
<1> QED BY <1>7, <1>12

\* A call that gives out no token, when there is none left.
LEMMA NoMoreStep ==
    ASSUME Splits, NoMore, \A a \in Starts : a \in ToSet(toks)
    PROVE  Splits'
<1>1. /\ mem' = mem /\ op' = op /\ was' = was /\ toks' = toks /\ at' = "back" /\ rest' = NULL
      BY DEF NoMore
<1>2. /\ Delimiters' = Delimiters /\ StringEnd' = StringEnd /\ Starts' = Starts
      /\ \A B : EndOfToken(B)' = EndOfToken(B)
      BY <1>1, SameTask
<1>3. OnlyCuts' /\ RestGood'
      BY <1>1, <1>2 DEF OnlyCuts, RestGood, Splits
<1>4. \A i \in DOMAIN toks' : TokenGood(toks[i])'
  <2> TAKE i \in DOMAIN toks'
  <2>1. TokenGood(toks[i])
        BY <1>1 DEF Splits
  <2>2. EndOfToken(toks[i])' = EndOfToken(toks[i])
        BY <1>1 DEF EndOfToken, Delimiters
  <2> QED BY <2>1, <2>2, <1>1, <1>2 DEF TokenGood
<1> QED BY <1>1, <1>2, <1>3, <1>4 DEF Splits

LEMMA TakesApart == Reading /\ op.f \in Splitters /\ Splits /\ (StrTok \/ StrSep) => Splits'
<1> SUFFICES ASSUME Reading, op.f \in Splitters, Splits, StrTok \/ StrSep PROVE Splits'
    OBVIOUS
<1>1. OnlyCuts /\ RestGood
      BY DEF Splits
<1>2. CASE rest = NULL
  <2>1. NoMore
        BY <1>2 DEF StrTok, StrSep
  <2> QED BY <2>1, <1>2, NoMoreStep DEF Splits
<1>3. CASE rest # NULL /\ StrTok
  <2> DEFINE B == rest + StrSpn(mem, rest, op.s)
  <2>1. Skips(B)
        BY <1>1, <1>3, SkipIs
  <2>2. at = "strtok" /\ op.f = "strtok"
        BY <1>3 DEF StrTok, Reading, Splitters, Readers
  <2>3. IF mem[B] = NUL THEN NoMore ELSE Cut(B, StrPBrk(mem, B, op.s))
        BY <1>3 DEF StrTok
  <2> HIDE DEF B
  <2>4. /\ B \in rest .. StringEnd /\ mem[B] = was[B]
        /\ \A x \in rest .. (B - 1) : was[x] \in Delimiters
        /\ was[B] = NUL => B = StringEnd
        /\ was[B] # NUL => was[B] \notin Delimiters
        BY <2>1 DEF Skips
  <2>5. CASE mem[B] = NUL
    <3>1. rest \in op.d .. StringEnd /\ op.d \in Nat /\ StringEnd \in Nat
          BY <1>1, <1>3, SplitFacts DEF RestGood
    <3>2. ASSUME NEW a \in Starts PROVE a \in ToSet(toks)
      <4>1. a \in op.d .. StringEnd /\ was[a] \notin Delimiters /\ was[a] # NUL
            BY <2>2 DEF Starts
      <4>2. ~(rest <= a)
        <5>1. a # B /\ a \notin rest .. (B - 1)
              BY <4>1, <2>4, <2>5
        <5> QED BY <5>1, <4>1, <3>1, <2>4, <2>5
      <4> QED BY <4>2 DEF Splits
    <3> QED BY <3>2, <2>3, <2>5, NoMoreStep
  <2>6. CASE mem[B] # NUL
    <3>1. EndsWith(B, StrPBrk(mem, B, op.s))
          BY <2>4, <1>1, <1>3, BreakIs
    <3>2. was[B] \notin Delimiters \cup {NUL}
          BY <2>4, <2>6
    <3>3. Cut(B, StrPBrk(mem, B, op.s))
          BY <2>3, <2>6
    <3> QED BY <3>1, <3>2, <3>3, <2>2, <2>4, <1>3, CutStep
  <2> QED BY <2>5, <2>6
<1>4. CASE rest # NULL /\ StrSep
  <2>1. at = "strsep" /\ op.f = "strsep" /\ Cut(rest, StrPBrk(mem, rest, op.s))
        BY <1>4 DEF StrSep, Reading, Splitters, Readers
  <2>2. rest \in rest .. StringEnd /\ \A x \in rest .. (rest - 1) : was[x] \in Delimiters
        BY <1>1, <1>4, SplitFacts DEF RestGood
  <2>3. EndsWith(rest, StrPBrk(mem, rest, op.s))
        BY <2>2, <1>1, <1>4, BreakIs
  <2> QED BY <2>1, <2>2, <2>3, <1>4, CutStep
<1> QED BY <1>2, <1>3, <1>4

LEMMA SplitsAreRight == Reading /\ (op.f \in Splitters => Splits) => TokensRight
<1> SUFFICES ASSUME Reading, op.f \in Splitters, Splits PROVE TokensRight
    BY DEF TokensRight
<1>1. \A a \in Starts :
          at = "back" \/ (\E i \in DOMAIN toks : a < toks[i]) => a \in ToSet(toks)
  <2> SUFFICES ASSUME NEW a \in Starts, at = "back" \/ \E i \in DOMAIN toks : a < toks[i], a \notin ToSet(toks)
               PROVE  FALSE
      OBVIOUS
  <2>1. rest # NULL /\ rest <= a /\ at # "back"
        BY DEF Splits
  <2>2. PICK i \in DOMAIN toks : a < toks[i]
        BY <2>1
  <2>3. EndOfToken(toks[i]) \in toks[i] .. StringEnd /\ EndOfToken(toks[i]) < rest /\ toks[i] \in Nat
        BY <2>1 DEF Splits, TokenGood
  <2>4. a \in Nat /\ rest \in Nat
        BY <2>1, SplitFacts DEF Splits, RestGood, Starts
  <2> QED BY <2>1, <2>2, <2>3, <2>4
<1> QED BY <1>1 DEF TokensRight, Splits, TokenGood

-----------------------------------------------------------------------------
(* The inductive invariant and the theorems                                *)

StrInv == Reading /\ ReadersRight /\ (op.f \in Splitters => Splits)

LEMMA StrStarts == StrInit => StrInv
<1> SUFFICES ASSUME StrInit PROVE StrInv
    OBVIOUS
<1>1. /\ op \in TextCalls /\ mem \in [Addr -> Byte] /\ was = mem
      /\ op \in [f : Readers \cup Splitters, d : Nat, s : Nat, n : Nat, c : Byte]
      /\ at = IF op.f \in Readers THEN "read" ELSE op.f
      /\ rest = op.d /\ toks = <<>>
      BY StringsAssumption DEF StrInit
<1>2. at # "back"
      BY <1>1 DEF Readers, Splitters
<1>3. Reading
  <2>1. \E l, t \in Addr :
            /\ IsString(was, op.d, l) /\ IsString(was, op.s, t)
            /\ op.f \in Splitters => op.d + l < op.s \/ op.s + t < op.d
        BY <1>1 DEF StrInit
  <2>2. op.f \in {"memcmp", "memscan", "memchr"} => op.d + op.n < Size /\ op.s + op.n < Size
        BY DEF StrInit
  <2> QED BY <2>1, <2>2, <1>1 DEF Reading
<1>4. ReadersRight
      BY <1>2 DEF ReadersRight
<1>5. ASSUME op.f \in Splitters PROVE Splits
  <2>1. op.d \in Nat /\ StringEnd \in Nat /\ op.d <= StringEnd
        BY <1>3, <1>5, SplitFacts
  <2>2. OnlyCuts
        BY <1>1 DEF OnlyCuts
  <2>3. RestGood
        BY <2>1, <1>1 DEF RestGood
  <2>4. \A a \in Starts : rest # NULL /\ rest <= a
        BY <2>1, <1>1 DEF Starts, NULL
  <2> QED BY <2>2, <2>3, <2>4, <1>1, <1>2 DEF Splits
<1> QED BY <1>3, <1>4, <1>5 DEF StrInv

LEMMA StrSteps == StrInv /\ [StrNext]_<<memVars, strVars>> => StrInv'
<1> SUFFICES ASSUME StrInv, [StrNext]_<<memVars, strVars>> PROVE StrInv'
    OBVIOUS
<1>1. Reading /\ ReadersRight /\ (op.f \in Splitters => Splits)
      BY DEF StrInv
<1>2. Readers \cap Splitters = {}
      BY DEF Readers, Splitters
<1>3. CASE Read
  <2>1. at = "read" /\ at' = "back" /\ op' = op /\ mem' = mem /\ was' = was
        BY <1>3 DEF Read
  <2>2. op.f \in Readers
        BY <2>1, <1>1 DEF Reading, Splitters
  <2>3. Reading'
        BY <2>1, <2>2, <1>1 DEF Reading
  <2> QED BY <2>1, <2>2, <2>3, <1>1, <1>2, <1>3, ReadReturns DEF StrInv
<1>4. CASE StrTok \/ StrSep
  <2>1. at \in Splitters /\ op' = op /\ was' = was /\ at' \in {at, "back"}
        BY <1>4 DEF StrTok, StrSep, NoMore, Cut, Splitters
  <2>2. op.f \in Splitters /\ op.f \notin Readers /\ at = op.f
        BY <2>1, <1>1, <1>2 DEF Reading, Splitters
  <2>3. Splits'
        BY <2>2, <1>1, <1>4, TakesApart
  <2>4. Reading'
        BY <2>1, <2>2, <1>1 DEF Reading
  <2>5. ReadersRight'
        BY <2>1, <2>2 DEF ReadersRight
  <2> QED BY <2>3, <2>4, <2>5 DEF StrInv
<1>5. CASE UNCHANGED <<memVars, strVars>>
  <2>1. at' = at /\ op' = op /\ mem' = mem /\ was' = was /\ ret' = ret /\ rest' = rest /\ toks' = toks
        BY <1>5 DEF memVars, strVars
  <2>2. Reading'
        BY <2>1, <1>1 DEF Reading
  <2>3. ReadersRight'
        BY <2>1, <1>1 DEF ReadersRight
  <2>4. ASSUME op.f \in Splitters PROVE Splits'
    <3>1. Splits
          BY <2>4, <1>1
    <3>2. /\ Delimiters' = Delimiters /\ StringEnd' = StringEnd /\ Starts' = Starts
          BY <2>1, SameTask
    <3>3. OnlyCuts' /\ RestGood'
          BY <3>1, <3>2, <2>1 DEF OnlyCuts, RestGood, Splits
    <3>4. \A i \in DOMAIN toks' : TokenGood(toks[i])'
      <4> TAKE i \in DOMAIN toks'
      <4>1. TokenGood(toks[i])
            BY <2>1, <3>1 DEF Splits
      <4>2. EndOfToken(toks[i])' = EndOfToken(toks[i])
            BY <2>1 DEF EndOfToken, Delimiters
      <4> QED BY <4>1, <4>2, <2>1, <3>2 DEF TokenGood
    <3> QED BY <3>1, <3>2, <3>3, <3>4, <2>1 DEF Splits
  <2> QED BY <2>1, <2>2, <2>3, <2>4 DEF StrInv
<1> QED BY <1>3, <1>4, <1>5 DEF StrNext

\* The functions that compare and search return what their comments say, for every
\* content of memory that holds the strings and every size of it (string.c:176-530).
THEOREM ReadersAreRight == StrSpec => []ReadersRight
<1>1. StrInv => ReadersRight
      BY DEF StrInv
<1> QED BY <1>1, StrStarts, StrSteps, PTL DEF StrSpec

\* strtok and strsep give out the tokens of a string, once each and in their order, and
\* leave those given out as they were, whatever the string and the delimiters are.
THEOREM TokensAreRight == StrSpec => []TokensRight
<1>1. StrInv => TokensRight
      BY SplitsAreRight DEF StrInv
<1> QED BY <1>1, StrStarts, StrSteps, PTL DEF StrSpec

-----------------------------------------------------------------------------
(* Formats: digits.                                                        *)

\* Both short forms of the division by ten are exact as far as put_dec takes them.
LEMMA TenthRight ==
    ASSUME NEW x \in 0 .. 339
    PROVE  Tenth(x) \in 0 .. 33 /\ x - 10 * Tenth(x) \in 0 .. 9
  BY SMT DEF Tenth

\* The form with 13 is exact as far as the third digit takes it.
LEMMA ShortTenthRight ==
    ASSUME NEW x \in 0 .. 63
    PROVE  (x * 13) \div 128 \in 0 .. 6 /\ x - 10 * ((x * 13) \div 128) \in 0 .. 9
  BY SMT

\* What put_dec_trunc takes, and a number by its digits in radix 16.
FiveDigits == 0 .. (Five - 1)
HexValue(n0, n1, n2, n3) == 4096 * n3 + 256 * n2 + 16 * n1 + n0

\* The numbers of five digits, as the provers need them.
LEMMA FiveRange == \A q \in FiveDigits : q \in Nat /\ q < Five
<1>1. Five \in Nat
      BY SMT DEF Five
<1> QED BY <1>1, SMT DEF FiveDigits

\* A number of five digits by its digits in base 16: what put_dec_trunc takes apart.
LEMMA Nibbles ==
    ASSUME NEW q \in FiveDigits
    PROVE  /\ (q \div 16) % 16 \in 0 .. 15 /\ (q \div 256) % 16 \in 0 .. 15
           /\ q \div 4096 \in 0 .. 24 /\ q % 16 \in 0 .. 15
           /\ q = HexValue(q % 16, (q \div 16) % 16, (q \div 256) % 16, q \div 4096)
<1>1. q \in Nat /\ q < 100000
      BY FiveRange, SMT DEF Five
<1>2. /\ (q \div 16) % 16 \in 0 .. 15 /\ (q \div 256) % 16 \in 0 .. 15
      /\ q \div 4096 \in 0 .. 24 /\ q % 16 \in 0 .. 15
      /\ q = 4096 * (q \div 4096) + 256 * ((q \div 256) % 16) + 16 * ((q \div 16) % 16) + (q % 16)
      BY <1>1, SMT
<1> QED BY <1>2, SMT DEF HexValue

\* Five digits, lowest first, with l of them that count: all of q, without leading zeros.
DigitsOfFive(q, p, l) ==
    /\ p \in Seq(0 .. 9) /\ Len(p) = 5
    /\ q = p[1] + 10 * p[2] + 100 * p[3] + 1000 * p[4] + 10000 * p[5]
    /\ l \in 1 .. 5
    /\ \A i \in 1 .. 5 : i > l => p[i] = 0
    /\ l > 1 => p[l] # 0

\* FromHex with the sums it carries from digit to digit named, and what of each is carried.
HexAt(n0, n1, n2, n3, s0, t0, s1, t1, s2, t2, s3, t3) ==
    /\ s0 = 6 * (n3 + n2 + n1) + n0 /\ s0 - 10 * t0 \in 0 .. 9
    /\ s1 = t0 + 9 * n3 + 5 * n2 + n1 /\ s1 - 10 * t1 \in 0 .. 9
    /\ s2 = t1 + 2 * n2 /\ s2 - 10 * t2 \in 0 .. 9
    /\ s3 = t2 + 4 * n3 /\ s3 - 10 * t3 \in 0 .. 9
    /\ FromHex(n0, n1, n2, n3) =
         [digits |-> <<s0 - 10 * t0, s1 - 10 * t1, s2 - 10 * t2, s3 - 10 * t3, t3>>,
          len |-> IF s1 = 0 THEN 1 ELSE IF s2 = 0 /\ n3 = 0 THEN 2
                  ELSE IF s3 = 0 THEN 3 ELSE IF t3 = 0 THEN 4 ELSE 5]

HexSteps(n0, n1, n2, n3) ==
    \E s0 \in 0 .. 339, t0 \in 0 .. 33, s1 \in 0 .. 339, t1 \in 0 .. 33,
       s2 \in 0 .. 63, t2 \in 0 .. 6, s3 \in 0 .. 339, t3 \in 0 .. 33 :
          HexAt(n0, n1, n2, n3, s0, t0, s1, t1, s2, t2, s3, t3)

\* None of the sums that put_dec_trunc carries from digit to digit exceeds its division.
LEMMA FromHexIs ==
    ASSUME NEW n0 \in 0 .. 15, NEW n1 \in 0 .. 15, NEW n2 \in 0 .. 15, NEW n3 \in 0 .. 24
    PROVE  HexSteps(n0, n1, n2, n3)
<1>1. PICK s0 \in 0 .. 339 : s0 = 6 * (n3 + n2 + n1) + n0
  <2>1. 6 * (n3 + n2 + n1) + n0 \in 0 .. 339
        BY SMT
  <2> QED BY <2>1, SMT
<1>2. PICK t0 \in 0 .. 33 : t0 = Tenth(s0) /\ s0 - 10 * t0 \in 0 .. 9
      BY TenthRight, Zenon
<1>3. PICK s1 \in 0 .. 339 : s1 = t0 + 9 * n3 + 5 * n2 + n1
  <2>1. t0 + 9 * n3 + 5 * n2 + n1 \in 0 .. 339
        BY SMT
  <2> QED BY <2>1, SMT
<1>4. PICK t1 \in 0 .. 33 : t1 = Tenth(s1) /\ s1 - 10 * t1 \in 0 .. 9
      BY TenthRight, Zenon
<1>5. PICK s2 \in 0 .. 63 : s2 = t1 + 2 * n2
  <2>1. t1 + 2 * n2 \in 0 .. 63
        BY SMT
  <2> QED BY <2>1, SMT
<1>6. PICK t2 \in 0 .. 6 : t2 = (s2 * 13) \div 128 /\ s2 - 10 * t2 \in 0 .. 9
      BY ShortTenthRight, Zenon
<1>7. PICK s3 \in 0 .. 339 : s3 = t2 + 4 * n3
  <2>1. t2 + 4 * n3 \in 0 .. 339
        BY SMT
  <2> QED BY <2>1, SMT
<1>8. PICK t3 \in 0 .. 33 : t3 = Tenth(s3) /\ s3 - 10 * t3 \in 0 .. 9
      BY TenthRight, Zenon
<1>9. FromHex(n0, n1, n2, n3) =
        [digits |-> <<s0 - 10 * t0, s1 - 10 * t1, s2 - 10 * t2, s3 - 10 * t3, t3>>,
         len |-> IF s1 = 0 THEN 1 ELSE IF s2 = 0 /\ n3 = 0 THEN 2
                 ELSE IF s3 = 0 THEN 3 ELSE IF t3 = 0 THEN 4 ELSE 5]
      BY <1>1, <1>2, <1>3, <1>4, <1>5, <1>6, <1>7, <1>8, SMTT(30) DEF FromHex
<1>10. HexAt(n0, n1, n2, n3, s0, t0, s1, t1, s2, t2, s3, t3)
       BY <1>1, <1>2, <1>3, <1>4, <1>5, <1>6, <1>7, <1>8, <1>9, Zenon DEF HexAt
<1> QED BY <1>10, Zenon DEF HexSteps

\* The four digits in base 16 give the decimal digits of the number and their count.
LEMMA FromHexRight ==
    ASSUME NEW q \in FiveDigits,
           NEW n0 \in 0 .. 15, NEW n1 \in 0 .. 15, NEW n2 \in 0 .. 15, NEW n3 \in 0 .. 24,
           q = HexValue(n0, n1, n2, n3)
    PROVE  DigitsOfFive(q, FromHex(n0, n1, n2, n3).digits, FromHex(n0, n1, n2, n3).len)
<1>2. q = 4096 * n3 + 256 * n2 + 16 * n1 + n0 /\ q < 100000 /\ q \in Nat
  <2>1. q = 4096 * n3 + 256 * n2 + 16 * n1 + n0
        BY Zenon DEF HexValue
  <2>2. q \in Nat /\ q < 100000
        BY FiveRange, SMT DEF Five
  <2> QED BY <2>1, <2>2, SMT
<1>1. HexSteps(n0, n1, n2, n3)
      BY FromHexIs, Zenon
<1>3. PICK s0 \in 0 .. 339, t0 \in 0 .. 33, s1 \in 0 .. 339, t1 \in 0 .. 33,
           s2 \in 0 .. 63, t2 \in 0 .. 6, s3 \in 0 .. 339, t3 \in 0 .. 33 :
                HexAt(n0, n1, n2, n3, s0, t0, s1, t1, s2, t2, s3, t3)
      BY <1>1, Zenon DEF HexSteps
<1>4. /\ s0 = 6 * (n3 + n2 + n1) + n0 /\ s0 - 10 * t0 \in 0 .. 9
      /\ s1 = t0 + 9 * n3 + 5 * n2 + n1 /\ s1 - 10 * t1 \in 0 .. 9
      /\ s2 = t1 + 2 * n2 /\ s2 - 10 * t2 \in 0 .. 9
      /\ s3 = t2 + 4 * n3 /\ s3 - 10 * t3 \in 0 .. 9
      BY <1>3, Zenon DEF HexAt
<1>10. q = (s0 - 10 * t0) + 10 * (s1 - 10 * t1) + 100 * (s2 - 10 * t2) + 1000 * (s3 - 10 * t3) + 10000 * t3
       BY <1>2, <1>4, SMT
<1>11. t3 \in 0 .. 9
       BY <1>2, <1>4, <1>10, SMT
<1>12. /\ s1 = 0 => t1 = 0 /\ s2 = 0 /\ n3 = 0
       /\ s2 = 0 /\ n3 = 0 => t2 = 0 /\ s3 = 0 /\ t1 = 0
       /\ s3 = 0 => t3 = 0 /\ t2 = 0 /\ n3 = 0
       BY <1>4, SMT
<1> DEFINE p == <<s0 - 10 * t0, s1 - 10 * t1, s2 - 10 * t2, s3 - 10 * t3, t3>>
           l == IF s1 = 0 THEN 1 ELSE IF s2 = 0 /\ n3 = 0 THEN 2
                ELSE IF s3 = 0 THEN 3 ELSE IF t3 = 0 THEN 4 ELSE 5
<1>13. FromHex(n0, n1, n2, n3) = [digits |-> p, len |-> l]
       BY <1>3, Zenon DEF HexAt
<1>14. /\ p \in Seq(0 .. 9) /\ Len(p) = 5
       /\ p[1] = s0 - 10 * t0 /\ p[2] = s1 - 10 * t1 /\ p[3] = s2 - 10 * t2 /\ p[4] = s3 - 10 * t3 /\ p[5] = t3
       BY <1>4, <1>11, SMT
<1>15. /\ l \in 1 .. 5
       /\ (l = 1 <=> s1 = 0) /\ (l = 2 <=> s1 # 0 /\ s2 = 0 /\ n3 = 0)
       /\ (l = 3 <=> s1 # 0 /\ ~(s2 = 0 /\ n3 = 0) /\ s3 = 0)
       /\ (l = 4 <=> s1 # 0 /\ ~(s2 = 0 /\ n3 = 0) /\ s3 # 0 /\ t3 = 0)
  <2>1. s1 = 0 => l = 1
        BY Zenon
  <2>2. s1 # 0 /\ s2 = 0 /\ n3 = 0 => l = 2
        BY Zenon
  <2>3. s1 # 0 /\ ~(s2 = 0 /\ n3 = 0) /\ s3 = 0 => l = 3
        BY Zenon
  <2>4. s1 # 0 /\ ~(s2 = 0 /\ n3 = 0) /\ s3 # 0 /\ t3 = 0 => l = 4
        BY Zenon
  <2>5. s1 # 0 /\ ~(s2 = 0 /\ n3 = 0) /\ s3 # 0 /\ t3 # 0 => l = 5
        BY Zenon
  <2> HIDE DEF l
  <2> QED BY <2>1, <2>2, <2>3, <2>4, <2>5, SMT
<1> HIDE DEF p, l
<1>16. \A i \in 1 .. 5 : i > l => p[i] = 0
  <2>1. /\ l < 2 => p[2] = 0
        /\ l < 3 => p[3] = 0
        /\ l < 4 => p[4] = 0
        /\ l < 5 => p[5] = 0
        BY <1>12, <1>14, <1>15, SMT
  <2> QED BY <1>15, <2>1, SMT
<1>17. l > 1 => p[l] # 0
       BY <1>12, <1>14, <1>15, SMTT(20)
<1>18. DigitsOfFive(q, p, l)
       BY <1>10, <1>14, <1>15, <1>16, <1>17, SMT DEF DigitsOfFive
<1> QED BY <1>13, <1>18, SMT

\* put_dec_trunc and put_dec_full give the digits of q, and the tests for zero leave out
\* exactly the leading zeros.
THEOREM DecimalRight ==
    ASSUME NEW q \in FiveDigits
    PROVE  DigitsOfFive(q, Decimal(q).digits, Decimal(q).len)
<1> DEFINE m0 == q % 16
           m1 == (q \div 16) % 16
           m2 == (q \div 256) % 16
           m3 == q \div 4096
<1>1. /\ m0 \in 0 .. 15 /\ m1 \in 0 .. 15 /\ m2 \in 0 .. 15 /\ m3 \in 0 .. 24
      /\ q = HexValue(m0, m1, m2, m3)
      BY Nibbles, SMT
<1>2. Decimal(q) = FromHex(m0, m1, m2, m3)
      BY Zenon DEF Decimal
<1> HIDE DEF m0, m1, m2, m3
<1>3. DigitsOfFive(q, FromHex(m0, m1, m2, m3).digits, FromHex(m0, m1, m2, m3).len)
      BY <1>1, FromHexRight, Zenon
<1> QED BY <1>2, <1>3, SMT

-----------------------------------------------------------------------------
(* Formats: a number in a radix is what dividing by it again and again      *)
(* leaves.                                                                 *)

\* s are the digits of u, lowest first and without leading zeros; those of 0 are none.
Digital(u, s, radix) ==
    /\ s \in Seq(0 .. (radix - 1))
    /\ \E r \in [1 .. (Len(s) + 1) -> Nat] :
          /\ r[1] = u /\ r[Len(s) + 1] = 0
          /\ \A i \in 1 .. Len(s) : r[i] # 0 /\ r[i] = radix * r[i + 1] + s[i]

\* 0 has no digits.
LEMMA NoDigits == ASSUME NEW radix \in Nat \ {0} PROVE Digital(0, <<>>, radix)
<1>1. <<>> \in Seq(0 .. (radix - 1)) /\ Len(<<>>) = 0
      OBVIOUS
<1> DEFINE r == [i \in 1 .. (Len(<<>>) + 1) |-> 0]
<1>2. r \in [1 .. (Len(<<>>) + 1) -> Nat] /\ r[1] = 0 /\ r[Len(<<>>) + 1] = 0
      BY <1>1
<1> HIDE DEF r
<1> QED BY <1>1, <1>2 DEF Digital

\* More digits below those of u: v are the numbers that they begin.
LEMMA MoreDigits ==
    ASSUME NEW radix \in Nat \ {0}, NEW s, NEW p \in Seq(0 .. (radix - 1)),
           NEW v \in [1 .. (Len(p) + 1) -> Nat], Digital(v[Len(p) + 1], s, radix),
           \A i \in 1 .. Len(p) : v[i] # 0 /\ v[i] = radix * v[i + 1] + p[i]
    PROVE  Digital(v[1], p \o s, radix)
<1> DEFINE S == 0 .. (radix - 1)
<1>1. PICK r \in [1 .. (Len(s) + 1) -> Nat] :
          /\ r[1] = v[Len(p) + 1] /\ r[Len(s) + 1] = 0
          /\ \A i \in 1 .. Len(s) : r[i] # 0 /\ r[i] = radix * r[i + 1] + s[i]
      BY Zenon DEF Digital
<1>2. s \in Seq(S) /\ p \in Seq(S)
      BY Zenon DEF Digital
<1> HIDE DEF S
<1>3. Len(s) \in Nat /\ Len(p) \in Nat
      BY <1>2, LenProperties
<1> DEFINE w == p \o s
<1>4. /\ w \in Seq(S) /\ Len(w) = Len(p) + Len(s)
      /\ \A i \in 1 .. Len(p) : w[i] = p[i]
      /\ \A i \in 1 .. Len(s) : w[Len(p) + i] = s[i]
      BY <1>2, SMT
<1> HIDE DEF w
<1> DEFINE x == [i \in 1 .. (Len(w) + 1) |-> IF i <= Len(p) THEN v[i] ELSE r[i - Len(p)]]
<1>5. x \in [1 .. (Len(w) + 1) -> Nat]
  <2>1. ASSUME NEW i \in 1 .. (Len(w) + 1) PROVE (IF i <= Len(p) THEN v[i] ELSE r[i - Len(p)]) \in Nat
    <3>1. CASE i <= Len(p)
      <4>1. i \in 1 .. (Len(p) + 1)
            BY <3>1, <1>3, SMT
      <4>2. v[i] \in Nat
            BY <4>1, Zenon
      <4> QED BY <3>1, <4>2, Zenon
    <3>2. CASE ~(i <= Len(p))
      <4>1. i - Len(p) \in 1 .. (Len(s) + 1)
            BY <3>2, <1>3, <1>4, SMT
      <4>2. r[i - Len(p)] \in Nat
            BY <4>1, Zenon
      <4> QED BY <3>2, <4>2, Zenon
    <3> QED BY <3>1, <3>2
  <2> QED BY <2>1, Zenon
<1>6. /\ \A i \in 1 .. Len(p) : x[i] = v[i]
      /\ \A i \in 1 .. (Len(s) + 1) : x[Len(p) + i] = r[i]
  <2>1. \A i \in 1 .. Len(p) : x[i] = v[i]
        BY <1>3, <1>4, SMT
  <2>2. ASSUME NEW i \in 1 .. (Len(s) + 1) PROVE x[Len(p) + i] = r[i]
    <3>1. Len(p) + i \in 1 .. (Len(w) + 1) /\ ~(Len(p) + i <= Len(p)) /\ (Len(p) + i) - Len(p) = i
          BY <1>3, <1>4, SMT
    <3> QED BY <3>1, Zenon
  <2> QED BY <2>1, <2>2, Zenon
<1> HIDE DEF x
<1>7. x[Len(p) + 1] = v[Len(p) + 1]
      BY <1>1, <1>3, <1>6, SMT
<1>8. x[1] = v[1]
      BY <1>3, <1>6, <1>7, SMT
<1>9. x[Len(w) + 1] = 0
      BY <1>1, <1>3, <1>4, <1>6, SMT
<1>10. ASSUME NEW i \in 1 .. Len(w) PROVE x[i] # 0 /\ x[i] = radix * x[i + 1] + w[i]
  <2>1. CASE i <= Len(p)
    <3>1. i \in 1 .. Len(p) /\ i + 1 \in 1 .. (Len(p) + 1)
          BY <2>1, <1>3, SMT
    <3>2. x[i] = v[i] /\ w[i] = p[i] /\ v[i] # 0 /\ v[i] = radix * v[i + 1] + p[i]
          BY <3>1, <1>4, <1>6, Zenon
    <3>3. x[i + 1] = v[i + 1]
      <4>1. i = Len(p) \/ i + 1 \in 1 .. Len(p)
            BY <3>1, <1>3, SMT
      <4> QED BY <4>1, <1>6, <1>7, Zenon
    <3> QED BY <3>2, <3>3, Zenon
  <2>2. CASE ~(i <= Len(p))
    <3> DEFINE j == i - Len(p)
    <3>1. j \in 1 .. Len(s) /\ j \in 1 .. (Len(s) + 1) /\ j + 1 \in 1 .. (Len(s) + 1)
          /\ i = Len(p) + j /\ i + 1 = Len(p) + (j + 1)
          BY <2>2, <1>3, <1>4, SMT
    <3> HIDE DEF j
    <3>2. x[i] = r[j] /\ x[i + 1] = r[j + 1] /\ w[i] = s[j]
          BY <3>1, <1>4, <1>6, Zenon
    <3> QED BY <3>1, <3>2, <1>1, Zenon
  <2> QED BY <2>1, <2>2
<1>11. Digital(v[1], w, radix)
  <2>1. w \in Seq(0 .. (radix - 1))
        BY <1>4 DEF S
  <2>2. \A i \in 1 .. Len(w) : x[i] # 0 /\ x[i] = radix * x[i + 1] + w[i]
        BY <1>10, Zenon
  <2> QED BY <1>5, <1>8, <1>9, <2>1, <2>2, Zenon DEF Digital
<1> QED BY <1>11, Zenon DEF w

\* One more digit.
LEMMA OneMoreDigit ==
    ASSUME NEW radix \in Nat \ {0}, NEW u \in Nat, NEW s, Digital(u, s, radix),
           NEW p \in 0 .. (radix - 1), NEW m \in Nat \ {0}, m = radix * u + p
    PROVE  Digital(m, <<p>> \o s, radix)
<1> DEFINE e == <<p>>
           v == <<m, u>>
<1>1. e \in Seq(0 .. (radix - 1)) /\ Len(e) = 1 /\ e[1] = p
      BY SMT
<1>2. v \in [1 .. 2 -> Nat] /\ v[1] = m /\ v[2] = u
      BY SMT
<1> HIDE DEF e, v
<1>3. \A i \in 1 .. Len(e) : v[i] # 0 /\ v[i] = radix * v[i + 1] + e[i]
      BY <1>1, <1>2, SMT
<1>4. v \in [1 .. (Len(e) + 1) -> Nat] /\ Digital(v[Len(e) + 1], s, radix)
      BY <1>1, <1>2, SMT
<1>5. Digital(v[1], e \o s, radix)
      BY <1>1, <1>3, <1>4, MoreDigits, Zenon
<1> QED BY <1>2, <1>5, Zenon DEF e

-----------------------------------------------------------------------------
(* The loops of put_dec and number, as recursive functions.                *)

\* g takes a number apart by k until what is left is below t.
Chained(u, t, k, leaf, head, g) ==
    g = [x \in 0 .. u |-> IF x < t THEN leaf[x] ELSE head[x] \o g[x \div k]]

\* A quotient is less than what was divided.
LEMMA QuotientIsLess ==
    ASSUME NEW x \in Nat, x # 0, NEW k \in Nat, k >= 2
    PROVE  x \div k \in Nat /\ x \div k < x
  OBVIOUS

\* There is such a function: the least bound for which there were none has one below it,
\* which can be extended.
LEMMA ChainExists ==
    ASSUME NEW u \in Nat, NEW t \in Nat \ {0}, NEW k \in Nat, k >= 2, NEW leaf, NEW head
    PROVE  \E g : Chained(u, t, k, leaf, head, g)
<1> DEFINE T == {m \in Nat : ~ \E g : Chained(m, t, k, leaf, head, g)}
<1> SUFFICES ASSUME T # {} PROVE FALSE
      OBVIOUS
<1>1. PICK m \in T : \A y \in T : m <= y
      BY LeastNat
<1>2. m \in Nat /\ ~ \E g : Chained(m, t, k, leaf, head, g)
      BY <1>1
<1>3. PICK f : m # 0 => Chained(m - 1, t, k, leaf, head, f)
  <2>1. CASE m = 0
        BY <2>1
  <2>2. CASE m # 0
    <3>1. m - 1 \in Nat /\ ~(m <= m - 1)
          BY <2>2, <1>2
    <3>2. m - 1 \notin T
          BY <3>1, <1>1
    <3> QED BY <3>1, <3>2
  <2> QED BY <2>1, <2>2
<1> HIDE DEF T
<1> DEFINE h == [x \in 0 .. m |-> IF x < t THEN leaf[x] ELSE head[x] \o f[x \div k]]
           e == [x \in 0 .. m |-> IF x < t THEN leaf[x] ELSE head[x] \o h[x \div k]]
<1>4. \A x \in 0 .. m : h[x] = IF x < t THEN leaf[x] ELSE head[x] \o f[x \div k]
      OBVIOUS
<1>5. \A x \in 0 .. m : e[x] = IF x < t THEN leaf[x] ELSE head[x] \o h[x \div k]
      OBVIOUS
<1>6. h = [x \in 0 .. m |-> h[x]] /\ e = [x \in 0 .. m |-> e[x]]
      OBVIOUS
<1> HIDE DEF h, e
<1>7. ASSUME NEW x \in 0 .. m PROVE h[x] = e[x]
  <2>1. CASE x < t
        BY <2>1, <1>4, <1>5, Zenon
  <2>2. CASE ~(x < t)
    <3>1. x # 0 /\ x \in Nat /\ m # 0 /\ m - 1 \in Nat
          BY <2>2, <1>2
    <3>2. x \div k \in Nat /\ x \div k < x
          BY <3>1, QuotientIsLess
    <3> DEFINE y == x \div k
    <3>3. y \in 0 .. (m - 1) /\ y \in 0 .. m
          BY <3>1, <3>2, <1>2
    <3> HIDE DEF y
    <3>4. f = [z \in 0 .. (m - 1) |-> IF z < t THEN leaf[z] ELSE head[z] \o f[z \div k]]
          BY <1>3, <3>1, Zenon DEF Chained
    <3> DEFINE c == [z \in 0 .. (m - 1) |-> IF z < t THEN leaf[z] ELSE head[z] \o f[z \div k]]
    <3>5. c[y] = IF y < t THEN leaf[y] ELSE head[y] \o f[y \div k]
          BY <3>3, Zenon
    <3>6. f[y] = c[y]
          BY <3>4, Zenon
    <3> HIDE DEF c
    <3>7. f[y] = h[y]
          BY <3>3, <3>5, <3>6, <1>4, Zenon
    <3>8. f[x \div k] = h[x \div k]
          BY <3>7 DEF y
    <3> QED BY <2>2, <1>4, <1>5, <3>8, Zenon
  <2> QED BY <2>1, <2>2
<1>8. h = e
      BY <1>6, <1>7
<1>9. Chained(m, t, k, leaf, head, h)
      BY <1>8, Zenon DEF Chained, e
<1> QED BY <1>2, <1>9

\* The loop of number for the bases 8 and 16 is such a function.
LEMMA PutBitsIs ==
    ASSUME NEW num \in Nat, NEW radix \in Nat, radix >= 2
    PROVE  \E g : /\ PutBits(num, radix) = g[num]
                  /\ g = [x \in 0 .. num |-> IF x = 0 THEN <<>> ELSE <<x % radix>> \o g[x \div radix]]
<1> DEFINE Step(g) == [x \in 0 .. num |-> IF x = 0 THEN <<>> ELSE <<x % radix>> \o g[x \div radix]]
           leaf == [x \in 0 .. num |-> <<>>]
           head == [x \in 0 .. num |-> <<x % radix>>]
<1>1. PICK f : Chained(num, 1, radix, leaf, head, f)
  <2> HIDE DEF leaf, head
  <2>1. \E f : Chained(num, 1, radix, leaf, head, f)
        BY ChainExists, SMT
  <2> QED BY <2>1, Zenon
<1>2. f = Step(f)
  <2>1. ASSUME NEW x \in 0 .. num
        PROVE  (IF x < 1 THEN leaf[x] ELSE head[x] \o f[x \div radix]) =
               (IF x = 0 THEN <<>> ELSE <<x % radix>> \o f[x \div radix])
    <3>1. (x < 1) = (x = 0)
          BY SMT
    <3>2. leaf[x] = <<>> /\ head[x] = <<x % radix>>
          BY Zenon
    <3> HIDE DEF leaf, head
    <3> QED BY <3>1, <3>2, Zenon
  <2> QED BY <1>1, <2>1, Zenon DEF Chained
<1> DEFINE go == CHOOSE g : g = Step(g)
<1>3. go = Step(go)
      BY <1>2, Zenon
<1>4. PutBits(num, radix) = go[num]
      BY Zenon DEF PutBits
<1> QED BY <1>3, <1>4, Zenon

\* number's loop for the bases 8 and 16 gives the digits of its number.
LEMMA PutBitsRight ==
    ASSUME NEW num \in Nat, NEW radix \in Nat, radix >= 2
    PROVE  Digital(num, PutBits(num, radix), radix)
<1>1. PICK g : /\ PutBits(num, radix) = g[num]
               /\ g = [x \in 0 .. num |-> IF x = 0 THEN <<>> ELSE <<x % radix>> \o g[x \div radix]]
      BY PutBitsIs
<1> DEFINE c == [x \in 0 .. num |-> IF x = 0 THEN <<>> ELSE <<x % radix>> \o g[x \div radix]]
<1>2. ASSUME NEW x \in 0 .. num
      PROVE  g[x] = IF x = 0 THEN <<>> ELSE <<x % radix>> \o g[x \div radix]
  <2>1. c[x] = IF x = 0 THEN <<>> ELSE <<x % radix>> \o g[x \div radix]
        BY Zenon
  <2>2. g = c
        BY <1>1, Zenon
  <2> HIDE DEF c
  <2> QED BY <2>1, <2>2, Zenon
<1> HIDE DEF c
<1> DEFINE Wrong == {x \in 0 .. num : ~Digital(x, g[x], radix)}
<1>3. ASSUME NEW x \in 0 .. num, \A y \in 0 .. num : y < x => Digital(y, g[y], radix)
      PROVE  Digital(x, g[x], radix)
  <2>1. CASE x = 0
    <3>1. radix \in Nat \ {0}
          OBVIOUS
    <3> QED BY <2>1, <3>1, <1>2, NoDigits, Zenon
  <2>2. CASE x # 0
    <3>1. /\ x \div radix \in 0 .. num /\ x \div radix \in Nat /\ x \div radix < x
          /\ x % radix \in 0 .. (radix - 1) /\ x \in Nat \ {0} /\ radix \in Nat \ {0}
          /\ x = radix * (x \div radix) + (x % radix)
      <4>1. x \in Nat
            OBVIOUS
      <4>2. x \div radix \in Nat /\ x \div radix < x
            BY <2>2, <4>1, QuotientIsLess
      <4>3. x % radix \in 0 .. (radix - 1) /\ x = radix * (x \div radix) + (x % radix)
            BY <4>1, SMT
      <4> QED BY <2>2, <4>1, <4>2, <4>3, SMT
    <3>2. Digital(x \div radix, g[x \div radix], radix)
          BY <3>1, <1>3, Zenon
    <3>3. Digital(x, <<x % radix>> \o g[x \div radix], radix)
          BY <3>1, <3>2, OneMoreDigit, Zenon
    <3> QED BY <2>2, <3>3, <1>2, Zenon
  <2> QED BY <2>1, <2>2
<1>4. Wrong = {}
  <2> SUFFICES ASSUME Wrong # {} PROVE FALSE
      OBVIOUS
  <2>1. PICK m \in Wrong : \A y \in Wrong : m <= y
    <3>1. Wrong \subseteq Nat
          BY SMT
    <3> HIDE DEF Wrong
    <3> QED BY <3>1, LeastNat, Zenon
  <2>2. m \in 0 .. num /\ ~Digital(m, g[m], radix)
        BY Zenon
  <2>3. ASSUME NEW y \in 0 .. num, y < m PROVE Digital(y, g[y], radix)
    <3>1. ~(m <= y)
          BY <2>2, <2>3, SMT
    <3> QED BY <3>1, <2>1, Zenon
  <2> QED BY <2>2, <2>3, <1>3, Zenon
<1>5. num \in 0 .. num
      BY SMT
<1> QED BY <1>1, <1>4, <1>5, Zenon

-----------------------------------------------------------------------------

\* put_dec is such a function too.
LEMMA PutDecIs ==
    ASSUME NEW num \in Nat
    PROVE  \E g : /\ PutDec(num) = g[num]
                  /\ g = [x \in 0 .. num |-> IF x < Five THEN PutDecTrunc(x) ELSE PutDecFull(x % Five) \o g[x \div Five]]
<1> DEFINE Step(g) == [x \in 0 .. num |-> IF x < Five THEN PutDecTrunc(x) ELSE PutDecFull(x % Five) \o g[x \div Five]]
           leaf == [x \in 0 .. num |-> PutDecTrunc(x)]
           head == [x \in 0 .. num |-> PutDecFull(x % Five)]
<1>1. PICK f : Chained(num, Five, Five, leaf, head, f)
  <2>1. Five \in Nat \ {0} /\ Five \in Nat /\ Five >= 2
        BY SMT DEF Five
  <2> HIDE DEF leaf, head
  <2> QED BY <2>1, ChainExists, Zenon
<1>2. f = Step(f)
  <2>1. ASSUME NEW x \in 0 .. num
        PROVE  (IF x < Five THEN leaf[x] ELSE head[x] \o f[x \div Five]) =
               (IF x < Five THEN PutDecTrunc(x) ELSE PutDecFull(x % Five) \o f[x \div Five])
    <3>1. leaf[x] = PutDecTrunc(x) /\ head[x] = PutDecFull(x % Five)
          BY Zenon
    <3> HIDE DEF leaf, head
    <3> QED BY <3>1, Zenon
  <2> QED BY <1>1, <2>1, Zenon DEF Chained
<1> DEFINE go == CHOOSE g : g = Step(g)
<1>3. go = Step(go)
      BY <1>2, Zenon
<1>4. PutDec(num) = go[num]
      BY Zenon DEF PutDec
<1> QED BY <1>3, <1>4, Zenon

\* A decimal digit, and the value of five, lowest first.
Digit == 0 .. 9
FiveValue(a1, a2, a3, a4, a5) == a1 + 10 * a2 + 100 * a3 + 1000 * a4 + 10000 * a5

\* What DigitsOfFive says, of five digits each with its name.
FiveAre(q, a1, a2, a3, a4, a5, l) ==
    /\ q = FiveValue(a1, a2, a3, a4, a5)
    /\ Decimal(q).digits = <<a1, a2, a3, a4, a5>> /\ Decimal(q).len = l
    /\ l < 5 => a5 = 0
    /\ l < 4 => a4 = 0
    /\ l < 3 => a3 = 0
    /\ l < 2 => a2 = 0
    /\ (l = 5 => a5 # 0) /\ (l = 4 => a4 # 0) /\ (l = 3 => a3 # 0) /\ (l = 2 => a2 # 0)

\* The numbers that five digits and what is above them begin.
Begins(p, u, v) ==
    /\ v \in [1 .. 6 -> Nat] /\ v[6] = u
    /\ v[1] = 10 * v[2] + p[1] /\ v[2] = 10 * v[3] + p[2] /\ v[3] = 10 * v[4] + p[3]
    /\ v[4] = 10 * v[5] + p[4] /\ v[5] = 10 * v[6] + p[5]

\* Five digits above others begin a number each.
LEMMA FiveBegin ==
    ASSUME NEW p, NEW u \in Nat,
           p[1] \in Digit, p[2] \in Digit, p[3] \in Digit, p[4] \in Digit, p[5] \in Digit
    PROVE  \E v : Begins(p, u, v) /\ v[1] = Five * u + FiveValue(p[1], p[2], p[3], p[4], p[5])
<1> PICK a1 \in Digit, a2 \in Digit, a3 \in Digit, a4 \in Digit, a5 \in Digit :
        a1 = p[1] /\ a2 = p[2] /\ a3 = p[3] /\ a4 = p[4] /\ a5 = p[5]
    BY Zenon
<1>1. PICK v5 \in Nat : v5 = 10 * u + a5
      BY SMT DEF Digit
<1>2. PICK v4 \in Nat : v4 = 10 * v5 + a4
      BY SMT DEF Digit
<1>3. PICK v3 \in Nat : v3 = 10 * v4 + a3
      BY SMT DEF Digit
<1>4. PICK v2 \in Nat : v2 = 10 * v3 + a2
      BY SMT DEF Digit
<1>5. PICK v1 \in Nat : v1 = 10 * v2 + a1
      BY SMT DEF Digit
<1>6. v1 = Five * u + FiveValue(a1, a2, a3, a4, a5)
      BY <1>1, <1>2, <1>3, <1>4, <1>5, SMT DEF Digit, Five, FiveValue
<1> DEFINE v == <<v1, v2, v3, v4, v5, u>>
<1>7. v \in [1 .. 6 -> Nat] /\ v[1] = v1 /\ v[2] = v2 /\ v[3] = v3 /\ v[4] = v4 /\ v[5] = v5 /\ v[6] = u
      BY SMT
<1> HIDE DEF v
<1>8. Begins(p, u, v)
      BY <1>1, <1>2, <1>3, <1>4, <1>5, <1>7, Zenon DEF Begins
<1> QED BY <1>6, <1>7, <1>8, Zenon

\* Five elements as a sequence.
LEMMA SequenceOfFive ==
    ASSUME NEW S, NEW a1 \in S, NEW a2 \in S, NEW a3 \in S, NEW a4 \in S, NEW a5 \in S
    PROVE  LET p == <<a1, a2, a3, a4, a5>>
           IN  p[1] = a1 /\ p[2] = a2 /\ p[3] = a3 /\ p[4] = a4 /\ p[5] = a5 /\ Len(p) = 5 /\ p \in Seq(S)
  BY SMT

\* A sequence of five by its elements.
LEMMA FiveElements ==
    ASSUME NEW S, NEW p \in Seq(S), Len(p) = 5
    PROVE  p[1] \in S /\ p[2] \in S /\ p[3] \in S /\ p[4] \in S /\ p[5] \in S /\ p = <<p[1], p[2], p[3], p[4], p[5]>>
<1>1. p[1] \in S /\ p[2] \in S /\ p[3] \in S /\ p[4] \in S /\ p[5] \in S
  <2>1. \A i \in 1 .. Len(p) : p[i] \in S
        BY ElementOfSeq, Zenon
  <2>2. {1, 2, 3, 4, 5} \subseteq 1 .. Len(p)
        BY SMT
  <2> QED BY <2>1, <2>2, Zenon
<1>2. PICK a1 \in S, a2 \in S, a3 \in S, a4 \in S, a5 \in S :
         p[1] = a1 /\ p[2] = a2 /\ p[3] = a3 /\ p[4] = a4 /\ p[5] = a5
      BY <1>1, Zenon
<1> DEFINE e == <<a1, a2, a3, a4, a5>>
<1>3. e[1] = a1 /\ e[2] = a2 /\ e[3] = a3 /\ e[4] = a4 /\ e[5] = a5 /\ Len(e) = 5 /\ e \in Seq(S)
      BY SequenceOfFive, Zenon
<1> HIDE DEF e
<1>4. ASSUME NEW i \in 1 .. Len(p) PROVE p[i] = e[i]
  <2>1. i = 1 \/ i = 2 \/ i = 3 \/ i = 4 \/ i = 5
        BY SMT
  <2> QED BY <2>1, <1>2, <1>3, Zenon
<1>5. p = e
      BY <1>3, <1>4, SeqEqual, Zenon
<1> QED BY <1>2, <1>5, Zenon DEF e

\* The first elements of five.
LEMMA BeginningOfFive ==
    ASSUME NEW S, NEW p \in Seq(S), Len(p) = 5, NEW l \in 1 .. 5
    PROVE  SubSeq(p, 1, l) \in Seq(S) /\ Len(SubSeq(p, 1, l)) = l /\ \A i \in 1 .. l : SubSeq(p, 1, l)[i] = p[i]
<1>1. ASSUME NEW i \in 1 .. l PROVE p[i] \in S
  <2>1. i \in 1 .. Len(p)
        BY SMT
  <2> QED BY <2>1, ElementOfSeq, Zenon
<1>2. SubSeq(p, 1, l) = [i \in 1 .. l |-> p[i]]
      BY SMT
<1>3. [i \in 1 .. l |-> p[i]] \in Seq(S) /\ Len([i \in 1 .. l |-> p[i]]) = l
      BY <1>1, SMT
<1> QED BY <1>2, <1>3, Zenon

\* Five digits, as Decimal gives them.
LEMMA FiveOf ==
    ASSUME NEW q \in FiveDigits
    PROVE  \E a1 \in Digit, a2 \in Digit, a3 \in Digit, a4 \in Digit, a5 \in Digit, l \in 1 .. 5 :
              FiveAre(q, a1, a2, a3, a4, a5, l)
<1> DEFINE p == Decimal(q).digits
           l == Decimal(q).len
<1>1. DigitsOfFive(q, p, l)
      BY DecimalRight, Zenon
<1> HIDE DEF p, l
<1>2. /\ p \in Seq(Digit) /\ Len(p) = 5
      /\ q = FiveValue(p[1], p[2], p[3], p[4], p[5])
      /\ l \in 1 .. 5
      /\ \A i \in 1 .. 5 : i > l => p[i] = 0
      /\ l > 1 => p[l] # 0
      BY <1>1, SMT DEF DigitsOfFive, Digit, FiveValue
<1>3. p[1] \in Digit /\ p[2] \in Digit /\ p[3] \in Digit /\ p[4] \in Digit /\ p[5] \in Digit
      /\ p = <<p[1], p[2], p[3], p[4], p[5]>>
  <2>1. p \in Seq(Digit) /\ Len(p) = 5
        BY <1>2
  <2> QED BY <2>1, FiveElements, Zenon
<1>4. /\ l < 5 => p[5] = 0
      /\ l < 4 => p[4] = 0
      /\ l < 3 => p[3] = 0
      /\ l < 2 => p[2] = 0
      /\ (l = 5 => p[5] # 0) /\ (l = 4 => p[4] # 0) /\ (l = 3 => p[3] # 0) /\ (l = 2 => p[2] # 0)
      BY <1>2, SMT
<1>5. Decimal(q).digits = p /\ Decimal(q).len = l
      BY Zenon DEF p, l
<1>6. FiveAre(q, p[1], p[2], p[3], p[4], p[5], l)
      BY <1>2, <1>3, <1>4, <1>5, Zenon DEF FiveAre
<1>7. l \in 1 .. 5
      BY <1>2, Zenon
<1> QED BY <1>3, <1>6, <1>7, Zenon

\* Five digits above others.
LEMMA FullAbove ==
    ASSUME NEW q \in FiveDigits, NEW u \in Nat \ {0}, NEW s, Digital(u, s, 10),
           NEW m, m = Five * u + q
    PROVE  Digital(m, PutDecFull(q) \o s, 10)
<1> PICK a1 \in Digit, a2 \in Digit, a3 \in Digit, a4 \in Digit, a5 \in Digit, l \in 1 .. 5 :
        FiveAre(q, a1, a2, a3, a4, a5, l)
    BY FiveOf, Zenon
<1>0. q = FiveValue(a1, a2, a3, a4, a5) /\ Decimal(q).digits = <<a1, a2, a3, a4, a5>>
      BY Zenon DEF FiveAre
<1> DEFINE p == <<a1, a2, a3, a4, a5>>
<1>1. PutDecFull(q) = p
      BY <1>0, Zenon DEF PutDecFull
<1>2. p[1] = a1 /\ p[2] = a2 /\ p[3] = a3 /\ p[4] = a4 /\ p[5] = a5 /\ Len(p) = 5 /\ p \in Seq(Digit)
      BY SequenceOfFive, Zenon
<1> HIDE DEF p
<1>3. PICK v : Begins(p, u, v) /\ v[1] = Five * u + FiveValue(a1, a2, a3, a4, a5)
      BY <1>2, FiveBegin, Zenon
<1>4. v[1] = m
      BY <1>0, <1>3, Zenon
<1>5. /\ v \in [1 .. 6 -> Nat] /\ v[6] = u
      /\ v[1] = 10 * v[2] + p[1] /\ v[2] = 10 * v[3] + p[2] /\ v[3] = 10 * v[4] + p[3]
      /\ v[4] = 10 * v[5] + p[4] /\ v[5] = 10 * v[6] + p[5]
  <2>1. Begins(p, u, v)
        BY <1>3, Zenon
  <2> QED BY <2>1, Zenon DEF Begins
<1>6. PICK v1 \in Nat, v2 \in Nat, v3 \in Nat, v4 \in Nat, v5 \in Nat :
         v[1] = v1 /\ v[2] = v2 /\ v[3] = v3 /\ v[4] = v4 /\ v[5] = v5
  <2>1. v[1] \in Nat /\ v[2] \in Nat /\ v[3] \in Nat /\ v[4] \in Nat /\ v[5] \in Nat
        BY <1>5, SMT
  <2> QED BY <2>1, Zenon
<1>7. v1 # 0 /\ v2 # 0 /\ v3 # 0 /\ v4 # 0 /\ v5 # 0
  <2>1. v5 = 10 * u + a5 /\ v4 = 10 * v5 + a4 /\ v3 = 10 * v4 + a3 /\ v2 = 10 * v3 + a2 /\ v1 = 10 * v2 + a1
        BY <1>2, <1>5, <1>6, Zenon
  <2> QED BY <2>1, SMT DEF Digit
<1>8. ASSUME NEW i \in 1 .. Len(p) PROVE v[i] # 0 /\ v[i] = 10 * v[i + 1] + p[i]
  <2>1. \/ i = 1 /\ i + 1 = 2
        \/ i = 2 /\ i + 1 = 3
        \/ i = 3 /\ i + 1 = 4
        \/ i = 4 /\ i + 1 = 5
        \/ i = 5 /\ i + 1 = 6
    <3>1. i \in 1 .. 5
          BY <1>2, Zenon
    <3> QED BY <3>1, SMT
  <2> QED BY <1>5, <1>6, <1>7, <2>1, Zenon
<1>9. v \in [1 .. (Len(p) + 1) -> Nat] /\ v[Len(p) + 1] = u /\ 10 \in Nat \ {0} /\ p \in Seq(0 .. (10 - 1))
  <2>1. 5 + 1 = 6 /\ 10 \in Nat \ {0} /\ 0 .. (10 - 1) = Digit
        BY SMT DEF Digit
  <2> QED BY <1>2, <1>5, <2>1, Zenon
<1>10. Digital(v[1], p \o s, 10)
       BY <1>2, <1>8, <1>9, MoreDigits, Zenon
<1> QED BY <1>1, <1>4, <1>10, Zenon

\* The highest digits, without leading zeros.
LEMMA TruncHighest ==
    ASSUME NEW q \in FiveDigits, q # 0
    PROVE  Digital(q, PutDecTrunc(q), 10)
<1> PICK a1 \in Digit, a2 \in Digit, a3 \in Digit, a4 \in Digit, a5 \in Digit, l \in 1 .. 5 :
        FiveAre(q, a1, a2, a3, a4, a5, l)
    BY FiveOf, Zenon
<1>0. /\ q = FiveValue(a1, a2, a3, a4, a5)
      /\ Decimal(q).digits = <<a1, a2, a3, a4, a5>> /\ Decimal(q).len = l
      /\ l < 5 => a5 = 0
      /\ l < 4 => a4 = 0
      /\ l < 3 => a3 = 0
      /\ l < 2 => a2 = 0
      /\ (l = 5 => a5 # 0) /\ (l = 4 => a4 # 0) /\ (l = 3 => a3 # 0) /\ (l = 2 => a2 # 0)
      BY Zenon DEF FiveAre
<1> DEFINE p == <<a1, a2, a3, a4, a5>>
           e == SubSeq(p, 1, l)
<1>1. PutDecTrunc(q) = e
      BY <1>0, Zenon DEF PutDecTrunc
<1>2. p[1] = a1 /\ p[2] = a2 /\ p[3] = a3 /\ p[4] = a4 /\ p[5] = a5 /\ Len(p) = 5 /\ p \in Seq(Digit)
      BY SequenceOfFive, Zenon
<1> HIDE DEF p
<1>3. PICK v : Begins(p, 0, v) /\ v[1] = Five * 0 + FiveValue(a1, a2, a3, a4, a5)
      BY <1>2, FiveBegin, Zenon
<1>4. v[1] = q
  <2>1. Five * 0 + q = q
        BY FiveRange, SMT DEF Five
  <2> QED BY <1>0, <1>3, <2>1, Zenon
<1>5. /\ v \in [1 .. 6 -> Nat] /\ v[6] = 0
      /\ v[1] = 10 * v[2] + p[1] /\ v[2] = 10 * v[3] + p[2] /\ v[3] = 10 * v[4] + p[3]
      /\ v[4] = 10 * v[5] + p[4] /\ v[5] = 10 * v[6] + p[5]
  <2>1. Begins(p, 0, v)
        BY <1>3, Zenon
  <2> QED BY <2>1, Zenon DEF Begins
<1>6. PICK v1 \in Nat, v2 \in Nat, v3 \in Nat, v4 \in Nat, v5 \in Nat :
         v[1] = v1 /\ v[2] = v2 /\ v[3] = v3 /\ v[4] = v4 /\ v[5] = v5
  <2>1. v[1] \in Nat /\ v[2] \in Nat /\ v[3] \in Nat /\ v[4] \in Nat /\ v[5] \in Nat
        BY <1>5, SMT
  <2> QED BY <2>1, Zenon
<1>7. v1 # 0 /\ v5 = a5 /\ v4 = 10 * v5 + a4 /\ v3 = 10 * v4 + a3 /\ v2 = 10 * v3 + a2 /\ v1 = 10 * v2 + a1
  <2>1. v5 = 10 * 0 + a5 /\ v4 = 10 * v5 + a4 /\ v3 = 10 * v4 + a3 /\ v2 = 10 * v3 + a2 /\ v1 = 10 * v2 + a1 /\ v1 = q
        BY <1>2, <1>4, <1>5, <1>6, Zenon
  <2>2. 10 * 0 + a5 = a5
        BY SMT DEF Digit
  <2> QED BY <2>1, <2>2, Zenon
<1>8. /\ l > 1 => v2 # 0
      /\ l > 2 => v3 # 0
      /\ l > 3 => v4 # 0
      /\ l > 4 => v5 # 0
      /\ (l < 5 => v5 = 0) /\ (l < 4 => v4 = 0) /\ (l < 3 => v3 = 0) /\ (l < 2 => v2 = 0)
      BY <1>0, <1>7, SMT DEF Digit
<1>9. e \in Seq(0 .. (10 - 1)) /\ Len(e) = l /\ \A i \in 1 .. l : e[i] = p[i]
  <2>1. 0 .. (10 - 1) = Digit
        BY SMT DEF Digit
  <2>2. p \in Seq(Digit) /\ Len(p) = 5
        BY <1>2, Zenon
  <2>3. e \in Seq(Digit) /\ Len(e) = l /\ \A i \in 1 .. l : e[i] = p[i]
        BY <2>2, BeginningOfFive, Zenon DEF e
  <2> QED BY <2>1, <2>3, Zenon
<1> DEFINE w == [i \in 1 .. (l + 1) |-> v[i]]
<1>10. w \in [1 .. (Len(e) + 1) -> Nat] /\ \A i \in 1 .. (l + 1) : w[i] = v[i]
  <2>1. ASSUME NEW i \in 1 .. (l + 1) PROVE v[i] \in Nat
    <3>1. i \in 1 .. 6
          BY SMT
    <3> QED BY <3>1, <1>5, Zenon
  <2>2. w \in [1 .. (l + 1) -> Nat] /\ \A i \in 1 .. (l + 1) : w[i] = v[i]
        BY <2>1, Zenon
  <2> QED BY <2>2, <1>9, Zenon
<1> HIDE DEF e, w
<1>11. ASSUME NEW i \in 1 .. Len(e) PROVE w[i] # 0 /\ w[i] = 10 * w[i + 1] + e[i]
  <2>1. i \in 1 .. l /\ i \in 1 .. (l + 1) /\ i + 1 \in 1 .. (l + 1)
    <3>1. i \in 1 .. l
          BY <1>9, Zenon
    <3> QED BY <3>1, SMT
  <2>2. w[i] = v[i] /\ w[i + 1] = v[i + 1] /\ e[i] = p[i]
        BY <2>1, <1>9, <1>10, Zenon
  <2>3. \/ i = 1 /\ i + 1 = 2
        \/ i = 2 /\ i + 1 = 3 /\ l > 1
        \/ i = 3 /\ i + 1 = 4 /\ l > 2
        \/ i = 4 /\ i + 1 = 5 /\ l > 3
        \/ i = 5 /\ i + 1 = 6 /\ l > 4
        BY <2>1, SMT
  <2> QED BY <1>5, <1>6, <1>7, <1>8, <2>2, <2>3, Zenon
<1>12. w[Len(e) + 1] = 0 /\ w[1] = q /\ 10 \in Nat \ {0}
  <2>1. 1 \in 1 .. (l + 1) /\ l + 1 \in 1 .. (l + 1) /\ 10 \in Nat \ {0}
        BY SMT
  <2>2. w[1] = v[1] /\ w[l + 1] = v[l + 1]
        BY <2>1, <1>10, Zenon
  <2>3. v[l + 1] = 0
    <3>1. \/ l = 1 /\ l + 1 = 2 /\ l < 2
          \/ l = 2 /\ l + 1 = 3 /\ l < 3
          \/ l = 3 /\ l + 1 = 4 /\ l < 4
          \/ l = 4 /\ l + 1 = 5 /\ l < 5
          \/ l = 5 /\ l + 1 = 6
          BY SMT
    <3> QED BY <3>1, <1>5, <1>6, <1>8, Zenon
  <2> QED BY <2>1, <2>2, <2>3, <1>4, <1>9, Zenon
<1>13. Digital(w[Len(e) + 1], <<>>, 10)
       BY <1>12, NoDigits, Zenon
<1>14. Digital(w[1], e \o <<>>, 10)
       BY <1>9, <1>10, <1>11, <1>12, <1>13, MoreDigits, Zenon
<1>15. e \o <<>> = e
       BY <1>9, SMT
<1> QED BY <1>1, <1>12, <1>14, <1>15, Zenon

\* put_dec_trunc gives digits of 0 too.
LEMMA PutDecZero == PutDec(0) \in Seq(Digit)
<1>1. 0 \in Nat /\ 0 \in FiveDigits /\ 0 \in 0 .. 0 /\ 0 < Five
      BY SMT DEF FiveDigits, Five
<1>2. PICK g : /\ PutDec(0) = g[0]
               /\ g = [x \in 0 .. 0 |-> IF x < Five THEN PutDecTrunc(x) ELSE PutDecFull(x % Five) \o g[x \div Five]]
      BY <1>1, PutDecIs, Zenon
<1> DEFINE c == [x \in 0 .. 0 |-> IF x < Five THEN PutDecTrunc(x) ELSE PutDecFull(x % Five) \o g[x \div Five]]
<1>3. c[0] = PutDecTrunc(0)
      BY <1>1, Zenon
<1>4. g = c
      BY <1>2, Zenon
<1> HIDE DEF c
<1>5. DigitsOfFive(0, Decimal(0).digits, Decimal(0).len)
      BY <1>1, DecimalRight, Zenon
<1>6. Decimal(0).digits \in Seq(Digit) /\ Len(Decimal(0).digits) = 5 /\ Decimal(0).len \in 1 .. 5
      BY <1>5, SMT DEF DigitsOfFive, Digit
<1>7. PutDecTrunc(0) \in Seq(Digit)
      BY <1>6, BeginningOfFive, Zenon DEF PutDecTrunc
<1> QED BY <1>2, <1>3, <1>4, <1>7, Zenon

\* One turn of put_dec takes five digits off.
LEMMA FiveOff ==
    ASSUME NEW x \in Nat, ~(x < Five)
    PROVE  x % Five \in 0 .. (Five - 1) /\ x = Five * (x \div Five) + (x % Five) /\ x \div Five # 0
<1>1. Five \in Nat /\ Five > 0
      BY SMT DEF Five
<1>2. x % Five \in 0 .. (Five - 1) /\ x = Five * (x \div Five) + (x % Five) /\ x \div Five \in Nat
      BY <1>1, SMT
<1>3. x \div Five # 0
  <2>1. ASSUME x \div Five = 0 PROVE FALSE
    <3>1. Five * 0 = 0
          BY <1>1, SMT
    <3>2. x = x % Five
          BY <1>1, <1>2, <2>1, <3>1, SMT
    <3> QED BY <1>1, <1>2, <3>2, SMT
  <2> QED BY <2>1
<1> QED BY <1>2, <1>3, Zenon

\* What put_dec gives are the digits of its number.
LEMMA PutDecRight ==
    ASSUME NEW num \in Nat, num # 0
    PROVE  Digital(num, PutDec(num), 10)
<1>0. Five \in Nat /\ Five >= 2 /\ FiveDigits = 0 .. (Five - 1)
      BY SMT DEF Five, FiveDigits
<1>1. PICK g : /\ PutDec(num) = g[num]
               /\ g = [x \in 0 .. num |-> IF x < Five THEN PutDecTrunc(x) ELSE PutDecFull(x % Five) \o g[x \div Five]]
      BY PutDecIs, Zenon
<1> DEFINE c == [x \in 0 .. num |-> IF x < Five THEN PutDecTrunc(x) ELSE PutDecFull(x % Five) \o g[x \div Five]]
<1>2. ASSUME NEW x \in 0 .. num
      PROVE  g[x] = IF x < Five THEN PutDecTrunc(x) ELSE PutDecFull(x % Five) \o g[x \div Five]
  <2>1. c[x] = IF x < Five THEN PutDecTrunc(x) ELSE PutDecFull(x % Five) \o g[x \div Five]
        BY Zenon
  <2>2. g = c
        BY <1>1, Zenon
  <2> HIDE DEF c
  <2> QED BY <2>1, <2>2, Zenon
<1> HIDE DEF c
<1>3. ASSUME NEW x \in 0 .. num, \A y \in 0 .. num : y < x => (y = 0 \/ Digital(y, g[y], 10))
      PROVE  x = 0 \/ Digital(x, g[x], 10)
  <2>1. CASE x < Five
    <3>1. x \in FiveDigits
          BY <2>1, <1>0, SMT
    <3> QED BY <2>1, <3>1, <1>2, TruncHighest, Zenon
  <2>2. CASE ~(x < Five)
    <3>1. /\ x \div Five \in 0 .. num /\ x \div Five \in Nat \ {0} /\ x \div Five < x
          /\ x % Five \in FiveDigits
          /\ x = Five * (x \div Five) + (x % Five)
      <4>1. x \in Nat /\ x # 0
            BY <2>2, <1>0, SMT
      <4>2. x \div Five \in Nat /\ x \div Five < x
            BY <4>1, <1>0, QuotientIsLess, Zenon
      <4>3. x % Five \in 0 .. (Five - 1) /\ x = Five * (x \div Five) + (x % Five) /\ x \div Five # 0
            BY <4>1, <2>2, FiveOff, Zenon
      <4>4. x \div Five \in 0 .. num
            BY <4>2, SMT
      <4> QED BY <4>2, <4>3, <4>4, <1>0, Zenon
    <3>2. x \div Five # 0 /\ Digital(x \div Five, g[x \div Five], 10)
          BY <3>1, <1>3, Zenon
    <3>3. Digital(x, PutDecFull(x % Five) \o g[x \div Five], 10)
          BY <3>1, <3>2, FullAbove, Zenon
    <3> QED BY <2>2, <3>3, <1>2, Zenon
  <2> QED BY <2>1, <2>2, Zenon
<1> DEFINE Wrong == {x \in 0 .. num : ~(x = 0 \/ Digital(x, g[x], 10))}
<1>4. Wrong = {}
  <2> SUFFICES ASSUME Wrong # {} PROVE FALSE
      BY Zenon
  <2>1. PICK m \in Wrong : \A y \in Wrong : m <= y
    <3>1. Wrong \subseteq Nat
          BY SMT
    <3> HIDE DEF Wrong
    <3> QED BY <3>1, LeastNat, Zenon
  <2>2. m \in 0 .. num /\ ~(m = 0 \/ Digital(m, g[m], 10))
        BY Zenon
  <2>3. ASSUME NEW y \in 0 .. num, y < m PROVE y = 0 \/ Digital(y, g[y], 10)
    <3>1. ~(m <= y)
          BY <2>2, <2>3, SMT
    <3> QED BY <3>1, <2>1, Zenon
  <2> QED BY <2>2, <2>3, <1>3, Zenon
<1>5. num \in 0 .. num
      BY SMT
<1> QED BY <1>1, <1>4, <1>5, Zenon

\* number's tmp holds the digits of its number, lowest first and without leading zeros, in
\* the bases 8, 10 and 16; 0 alone is written as a digit.
THEOREM TmpRight ==
    ASSUME NEW num \in Nat, NEW radix \in {8, 10, 16},
           radix = 10 => num < 2 ^ LongLongBits
    PROVE  num # 0 => Digital(num, Tmp(num, radix), radix)
<1> SUFFICES ASSUME num # 0 PROVE Digital(num, Tmp(num, radix), radix)
    BY Zenon
<1>1. CASE radix = 10
  <2>1. num % 2 ^ LongLongBits = num
    <3>1. LongLongBits \in Nat
          BY RequestsAssumption, SMT
    <3>2. 2 ^ LongLongBits \in Nat \ {0}
          BY <3>1, TwoExp, Zenon
    <3> QED BY <1>1, <3>2, SmallMod, Zenon
  <2> QED BY <1>1, <2>1, PutDecRight, Zenon DEF Tmp
<1>2. CASE radix # 10
  <2>1. radix \in Nat /\ radix >= 2
        BY SMT
  <2> QED BY <1>2, <2>1, PutBitsRight, Zenon DEF Tmp
<1> QED BY <1>1, <1>2, Zenon

-----------------------------------------------------------------------------
(* Formats: what an item adds to the text is text.                         *)

\* Text behind text is text.
LEMMA TextJoined ==
    ASSUME NEW s \in Seq(Chars), NEW t \in Seq(Chars)
    PROVE  s \o t \in Seq(Chars) /\ Len(s \o t) = Len(s) + Len(t)
  BY SMT

\* A sequence of a set is one of every larger set.
LEMMA SeqOfMore ==
    ASSUME NEW S, NEW T, S \subseteq T, NEW s \in Seq(S)
    PROVE  s \in Seq(T)
  BY SMT

\* A character again and again is text.
LEMMA Repeated ==
    ASSUME NEW S, NEW c \in S, NEW l \in Nat
    PROVE  [i \in 1 .. l |-> c] \in Seq(S)
  BY SMT

\* A function on the first numbers is a sequence.
LEMMA FunctionIsSeq ==
    ASSUME NEW S, NEW u \in Nat, NEW f \in [1 .. u -> S]
    PROVE  f \in Seq(S)
  BY SMT

\* The beginning of a sequence is a sequence of the same set.
LEMMA Beginning ==
    ASSUME NEW S, NEW s \in Seq(S), NEW u \in Nat, u <= Len(s)
    PROVE  SubSeq(s, 1, u) \in Seq(S)
  BY SMT

\* Padding is text.
LEMMA RepText ==
    ASSUME NEW c \in Chars, NEW u \in Int
    PROVE  Rep(c, u) \in Seq(Chars)
<1> DEFINE l == IF u > 0 THEN u ELSE 0
<1>1. l \in Nat
      BY SMT
<1> HIDE DEF l
<1>2. [i \in 1 .. l |-> c] \in Seq(Chars)
      BY <1>1, Repeated, Zenon
<1> QED BY <1>2, Zenon DEF Rep, l

\* The powers of two of a word.
LEMMA BitsAre ==
    ASSUME NEW bits \in Nat \ {0}
    PROVE  2 ^ bits \in Nat \ {0} /\ 2 ^ (bits - 1) \in Nat \ {0}
<1>1. bits \in Nat /\ bits - 1 \in Nat
      BY SMT
<1> QED BY <1>1, TwoExp, Zenon

\* The widths of the types are such.
LEMMA WidthsAre ==
    /\ ShortBits \in Nat \ {0} /\ IntBits \in Nat \ {0} /\ LongLongBits \in Nat \ {0}
    /\ ShortBits <= LongLongBits /\ IntBits <= LongLongBits
  BY RequestsAssumption, SMT

\* A word read as unsigned and as signed is a number.
LEMMA WordIs ==
    ASSUME NEW x \in Int, NEW bits \in Nat \ {0}
    PROVE  x % 2 ^ bits \in Nat /\ AsSigned(x, bits) \in Int
<1> DEFINE m == 2 ^ bits
           h == 2 ^ (bits - 1)
<1>1. m \in Nat \ {0} /\ h \in Nat \ {0}
      BY BitsAre, Zenon
<1> HIDE DEF m, h
<1>2. x % m \in Nat
      BY <1>1, SMT
<1>3. (IF x % m >= h THEN (x % m) - m ELSE x % m) \in Int
      BY <1>1, <1>2, SMT
<1> QED BY <1>2, <1>3, Zenon DEF AsSigned, LowBits, m, h

\* The number a directive takes from its argument; a pointer is never negative.
LEMMA NumIs ==
    ASSUME NEW it, it.arg \in Nat
    PROVE  /\ Num(it) \in Int
           /\ it.conv = "p" => Num(it) \in Nat
<1>1. ShortBits \in Nat \ {0} /\ IntBits \in Nat \ {0} /\ LongLongBits \in Nat \ {0}
      BY RequestsAssumption, SMT
<1>2. it.arg \in Int
      BY SMT
<1>3. /\ AsSigned(it.arg, LongLongBits) \in Int
      /\ AsSigned(it.arg, ShortBits) \in Int /\ AsSigned(it.arg, IntBits) \in Int
      /\ it.arg % 2 ^ ShortBits \in Nat /\ it.arg % 2 ^ IntBits \in Nat
      BY <1>1, <1>2, WordIs, Zenon
<1> DEFINE a == it.arg % 2 ^ ShortBits
           z == it.arg % 2 ^ IntBits
<1>4. a \in Int /\ z \in Int
  <2>1. a \in Nat /\ z \in Nat
        BY <1>3, Zenon
  <2> HIDE DEF a, z
  <2> QED BY <2>1, SMT
<1>5. CASE it.conv = "p"
  <2>1. Num(it) = it.arg
        BY <1>5, Zenon DEF Num
  <2> QED BY <2>1, <1>2, Zenon
<1>6. CASE it.conv # "p"
  <2>1. CASE it.qual = "L"
    <3>1. Num(it) = AsSigned(it.arg, LongLongBits)
          BY <1>6, <2>1, SMT DEF Num
    <3> QED BY <3>1, <1>3, <1>6, Zenon
  <2>2. CASE it.qual \in {"z", "Z"}
    <3>1. Num(it) = it.arg
          BY <1>6, <2>2, SMT DEF Num
    <3> QED BY <3>1, <1>2, <1>6, Zenon
  <2>3. CASE it.qual = "h"
    <3>1. Num(it) = IF Signed(it) THEN AsSigned(it.arg, ShortBits) ELSE a
          BY <1>6, <2>3, SMT DEF Num
    <3> QED BY <3>1, <1>3, <1>4, <1>6, Zenon
  <2>4. CASE it.qual \notin {"L", "z", "Z", "h"}
    <3>1. Num(it) = IF Signed(it) THEN AsSigned(it.arg, IntBits) ELSE z
          BY <1>6, <2>4, SMT DEF Num
    <3> QED BY <3>1, <1>3, <1>4, <1>6, Zenon
  <2> QED BY <2>1, <2>2, <2>3, <2>4, Zenon
<1> QED BY <1>5, <1>6, Zenon

\* The digits, of any number whose digits number takes.
LEMMA TmpIs ==
    ASSUME NEW num \in Int, NEW radix \in {8, 10, 16}, radix # 10 => num \in Nat
    PROVE  Tmp(num, radix) \in Seq(0 .. 15)
<1>1. CASE num = 0
  <2>1. Tmp(num, radix) = <<0>>
        BY <1>1, Zenon DEF Tmp
  <2>2. 0 \in 0 .. 15
        BY SMT
  <2>3. <<0>> \in Seq(0 .. 15)
        BY <2>2, SMT
  <2> QED BY <2>1, <2>3, Zenon
<1>2. ASSUME NEW u, NEW s, Digital(u, s, radix) PROVE s \in Seq(0 .. 15)
  <2>1. s \in Seq(0 .. (radix - 1))
        BY <1>2, Zenon DEF Digital
  <2>2. 0 .. (radix - 1) \subseteq 0 .. 15
        BY SMT
  <2> QED BY <2>1, <2>2, SeqOfMore, Zenon
<1>3. CASE num # 0 /\ radix = 10
  <2> DEFINE u == num % 2 ^ LongLongBits
  <2>1. u \in Nat
        BY WordIs, WidthsAre, Zenon
  <2>2. Tmp(num, radix) = PutDec(u)
        BY <1>3, Zenon DEF Tmp
  <2> HIDE DEF u
  <2>3. CASE u # 0
        BY <2>1, <2>2, <2>3, <1>2, <1>3, PutDecRight, Zenon
  <2>4. CASE u = 0
    <3>1. PutDec(0) \in Seq(Digit)
          BY PutDecZero, Zenon
    <3>2. Digit \subseteq 0 .. 15
          BY SMT DEF Digit
    <3>3. PutDec(0) \in Seq(0 .. 15)
          BY <3>1, <3>2, SeqOfMore, Zenon
    <3> QED BY <3>3, <2>2, <2>4, Zenon
  <2> QED BY <2>3, <2>4, Zenon
<1>4. CASE num # 0 /\ radix # 10
  <2>1. num \in Nat /\ radix \in Nat /\ radix >= 2
        BY <1>4, SMT
  <2>2. Tmp(num, radix) = PutBits(num, radix)
        BY <1>4, Zenon DEF Tmp
  <2> QED BY <2>1, <2>2, <1>2, PutBitsRight, Zenon
<1> QED BY <1>1, <1>3, <1>4, Zenon

\* Texts of at most two characters.
LEMMA ShortTexts ==
    /\ <<>> \in Seq(Chars)
    /\ \A c \in Chars : <<c>> \in Seq(Chars)
    /\ \A c \in Chars, p \in Chars : <<c, p>> \in Seq(Chars)
<1>1. ASSUME NEW S
      PROVE  /\ <<>> \in Seq(S)
             /\ \A c \in S : <<c>> \in Seq(S)
             /\ \A c \in S, p \in S : <<c, p>> \in Seq(S)
      BY SMT
<1> QED BY <1>1, Zenon

\* The tables of digits (vsprintf.c:303-304).
LEMMA LetterTables ==
    /\ Upper \in Seq(Chars) /\ Len(Upper) = 16
    /\ Lower \in Seq(Chars) /\ Len(Lower) = 16
<1>1. ASSUME NEW S, NEW a0 \in S, NEW a1 \in S, NEW a2 \in S, NEW a3 \in S, NEW a4 \in S, NEW a5 \in S, NEW a6 \in S, NEW a7 \in S,
             NEW a8 \in S, NEW a9 \in S, NEW a10 \in S, NEW a11 \in S, NEW a12 \in S, NEW a13 \in S, NEW a14 \in S, NEW a15 \in S
      PROVE  LET s == <<a0, a1, a2, a3, a4, a5, a6, a7, a8, a9, a10, a11, a12, a13, a14, a15>>
             IN  s \in Seq(S) /\ Len(s) = 16
      BY SMT
<1>2. /\ "0" \in Chars /\ "1" \in Chars /\ "2" \in Chars /\ "3" \in Chars /\ "4" \in Chars /\ "5" \in Chars
      /\ "6" \in Chars /\ "7" \in Chars /\ "8" \in Chars /\ "9" \in Chars /\ "A" \in Chars /\ "B" \in Chars
      /\ "C" \in Chars /\ "D" \in Chars /\ "E" \in Chars /\ "F" \in Chars /\ "a" \in Chars /\ "b" \in Chars
      /\ "c" \in Chars /\ "d" \in Chars /\ "e" \in Chars /\ "f" \in Chars
      BY Zenon DEF Chars
<1>3. Upper \in Seq(Chars) /\ Len(Upper) = 16
      BY <1>1, <1>2, Zenon DEF Upper
<1>4. Lower \in Seq(Chars) /\ Len(Lower) = 16
      BY <1>1, <1>2, Zenon DEF Lower
<1> QED BY <1>3, <1>4

\* Digits written with such a table are text.
LEMMA DigitText ==
    ASSUME NEW tmp \in Seq(0 .. 15), NEW digit \in {Upper, Lower}
    PROVE  [i \in DOMAIN tmp |-> digit[tmp[Len(tmp) + 1 - i] + 1]] \in Seq(Chars)
<1> DEFINE l == Len(tmp)
           D == 0 .. 15
<1>1. digit \in Seq(Chars) /\ Len(digit) = 16
      BY LetterTables, SMT
<1>2. tmp \in Seq(D)
      BY Zenon
<1> HIDE DEF D
<1>3. l \in Nat /\ DOMAIN tmp = 1 .. l
      BY <1>2, SMT
<1> HIDE DEF l
<1>4. ASSUME NEW i \in 1 .. l PROVE digit[tmp[l + 1 - i] + 1] \in Chars
  <2>1. l + 1 - i \in 1 .. Len(tmp)
        BY <1>3, SMT DEF l
  <2>2. tmp[l + 1 - i] \in D
        BY <1>2, <2>1, ElementOfSeq, Zenon
  <2> DEFINE p == tmp[l + 1 - i]
  <2>3. p + 1 \in 1 .. Len(digit)
    <3> HIDE DEF p
    <3>1. p \in D
          BY <2>2, Zenon DEF p
    <3>2. p + 1 \in 1 .. 16
          BY <3>1, SMT DEF D
    <3> QED BY <1>1, <3>2, Zenon
  <2> QED BY <1>1, <2>3, ElementOfSeq, Zenon DEF p
<1>5. [i \in 1 .. l |-> digit[tmp[l + 1 - i] + 1]] \in Seq(Chars)
  <2> DEFINE t == [i \in 1 .. l |-> digit[tmp[l + 1 - i] + 1]]
  <2>1. t \in [1 .. l -> Chars]
        BY <1>4, Zenon
  <2> HIDE DEF t
  <2>2. t \in Seq(Chars)
        BY <1>3, <2>1, FunctionIsSeq, Zenon
  <2> QED BY <2>2, Zenon DEF t
<1> QED BY <1>3, <1>5, Zenon DEF l

\* What stands before the digits is text.
LEMMA SignIs == ASSUME NEW it PROVE SignChar(it) \in Seq(Chars)
<1>1. <<>> \in Seq(Chars) /\ <<"-">> \in Seq(Chars) /\ <<"+">> \in Seq(Chars) /\ <<" ">> \in Seq(Chars)
      BY ShortTexts, Zenon DEF Chars
<1> QED BY <1>1, Zenon DEF SignChar

\* The prefix of octal and hexadecimal numbers is text.
LEMMA PrefixIs == ASSUME NEW it PROVE PrefixOf(it) \in Seq(Chars)
<1>1. <<>> \in Seq(Chars) /\ <<"0">> \in Seq(Chars) /\ <<"0", "x">> \in Seq(Chars)
      BY ShortTexts, Zenon DEF Chars
<1> QED BY <1>1, Zenon DEF PrefixOf

\* A negative width from an argument is a width to the left.
LEMMA WidthIs == ASSUME NEW it, it.width \in Int PROVE Width(it) \in Int
<1>1. IntBits \in Nat
      BY RequestsAssumption, SMT
<1>2. IntBits \div 4 \in Int /\ -it.width \in Int
      BY <1>1, SMT
<1> QED BY <1>2, Zenon DEF Width

\* A directive and its argument.
LEMMA ItemIs ==
    ASSUME NEW it, IsItem(it), it.kind = "dir"
    PROVE  /\ it.conv \in STRING /\ it.width \in Int /\ it.prec \in Nat \cup {None}
           /\ it.conv \in Numeric => it.arg \in Nat
           /\ it.conv = "p" \/ it.qual \in {"z", "Z"} => it.arg < 2 ^ IntBits
           /\ it.conv = "c" => it.arg \in STRING
           /\ it.conv = "s" => it.arg \in Seq(STRING)
<1>1. it.kind # "lit"
      BY SMT
<1>2. /\ it.conv \in STRING /\ it.width \in -IntMax .. IntMax /\ it.prec \in None .. IntMax
      /\ it.conv \in Numeric => it.arg \in Nat
      /\ it.conv = "p" \/ it.qual \in {"z", "Z"} => it.arg < 2 ^ IntBits
      /\ it.conv = "c" => it.arg \in STRING
      /\ it.conv = "s" => it.arg \in Seq(STRING)
      BY <1>1, Zenon DEF IsItem
<1>3. Top \in Nat
      BY RequestsAssumption, Zenon
<1>4. IntMax \in Int /\ -IntMax \in Int
      BY <1>3, SMT DEF IntMax
<1>5. it.width \in Int /\ it.prec \in Nat \cup {None}
      BY <1>2, <1>4, SMT DEF None
<1> QED BY <1>2, <1>5, Zenon

\* What number writes is text, for every directive whose digits end.
LEMMA NumberText ==
    ASSUME NEW it, IsItem(it), it.kind = "dir", it.conv \in Numeric, ~Runaway(it)
    PROVE  Number(it) \in Seq(Chars)
<1>1. it.width \in Int /\ it.prec \in Nat \cup {None} /\ it.arg \in Nat
      BY ItemIs, Zenon
<1> DEFINE num == Num(it)
           radix == Base(it)
           u == IF Signed(it) /\ num < 0 THEN -num ELSE num
<1>2. num \in Int /\ (it.conv = "p" => num \in Nat)
      BY <1>1, NumIs, Zenon
<1>3. radix \in {8, 10, 16} /\ (radix # 10 => it.conv \in {"o", "x", "X", "p"})
      BY SMT DEF Base
<1>4. u \in Int /\ (radix # 10 => u \in Nat)
  <2>1. radix # 10 => num >= 0
        BY <1>2, <1>3, SMT DEF Runaway, Signed
  <2> HIDE DEF num, radix
  <2>2. num < 0 => -num \in Int
        BY <1>2, SMT
  <2>3. u \in Int
        BY <1>2, SMT
  <2>4. radix # 10 => u \in Nat
        BY <1>2, <2>1, SMT
  <2> QED BY <2>3, <2>4, Zenon
<1> DEFINE tmp == Tmp(u, radix)
<1>5. tmp \in Seq(0 .. 15)
  <2> HIDE DEF u, radix
  <2> QED BY <1>3, <1>4, TmpIs, Zenon
<1> DEFINE prec == Greater(it.prec, Len(tmp))
           room == Room(it, prec)
           digit == IF "#" \in it.flags THEN Lower ELSE Upper
           text1 == [i \in DOMAIN tmp |-> digit[tmp[Len(tmp) + 1 - i] + 1]]
<1>6. digit \in {Upper, Lower}
      BY Zenon
<1>7. text1 \in Seq(Chars)
  <2> HIDE DEF tmp, digit
  <2> QED BY <1>5, <1>6, DigitText, Zenon
<1>8. Len(tmp) \in Int
  <2> HIDE DEF tmp
  <2>1. Len(tmp) \in Nat
        BY <1>5, LenProperties, Zenon
  <2> QED BY <2>1, SMT
<1>9. prec \in Int /\ prec - Len(tmp) \in Int
  <2> HIDE DEF tmp
  <2>1. it.prec \in Int
        BY <1>1, SMT DEF None
  <2>2. prec \in Int
        BY <2>1, <1>8, Zenon DEF Greater
  <2> HIDE DEF prec
  <2> QED BY <2>2, <1>8, SMT
<1>10. room \in Int
  <2> HIDE DEF prec
  <2>1. SignChar(it) \in Seq(Chars) /\ PrefixOf(it) \in Seq(Chars) /\ Width(it) \in Int
        BY <1>1, SignIs, PrefixIs, WidthIs, Zenon
  <2>2. Len(SignChar(it)) \in Nat /\ Len(PrefixOf(it)) \in Nat
        BY <2>1, LenProperties, Zenon
  <2> QED BY <2>1, <2>2, <1>9, SMT DEF Room
<1> HIDE DEF u, radix, tmp, prec, room, digit, text1
<1> DEFINE r1 == Rep(" ", IF Left(it) \/ ZeroPad(it) THEN 0 ELSE room)
           r2 == Rep("0", IF ZeroPad(it) THEN room ELSE 0)
           r3 == Rep("0", prec - Len(tmp))
           r4 == Rep(" ", IF Left(it) THEN room ELSE 0)
<1>11. r1 \in Seq(Chars) /\ r2 \in Seq(Chars) /\ r3 \in Seq(Chars) /\ r4 \in Seq(Chars)
  <2>1. " " \in Chars /\ "0" \in Chars /\ 0 \in Int
    <3>1. 0 \in Int
          BY SMT
    <3> QED BY <3>1, Zenon DEF Chars
  <2>2. /\ (IF Left(it) \/ ZeroPad(it) THEN 0 ELSE room) \in Int
        /\ (IF ZeroPad(it) THEN room ELSE 0) \in Int
        /\ (IF Left(it) THEN room ELSE 0) \in Int
        BY <2>1, <1>10, Zenon
  <2> QED BY <2>1, <2>2, <1>9, RepText, Zenon
<1>12. Number(it) = r1 \o SignChar(it) \o PrefixOf(it) \o r2 \o r3 \o text1 \o r4
       BY Zenon DEF Number, u, radix, tmp, prec, room, digit, text1
<1> HIDE DEF r1, r2, r3, r4
<1>13. SignChar(it) \in Seq(Chars) /\ PrefixOf(it) \in Seq(Chars)
       BY SignIs, PrefixIs, Zenon
<1>14. r1 \o SignChar(it) \o PrefixOf(it) \o r2 \in Seq(Chars)
       BY <1>11, <1>13, TextJoined, Zenon
<1>15. r1 \o SignChar(it) \o PrefixOf(it) \o r2 \o r3 \o text1 \o r4 \in Seq(Chars)
       BY <1>7, <1>11, <1>14, TextJoined, Zenon
<1> QED BY <1>12, <1>15, Zenon

\* A padded text is text.
LEMMA PaddedText ==
    ASSUME NEW it, it.width \in Int, NEW body \in Seq(Chars)
    PROVE  Padded(it, body) \in Seq(Chars)
<1>1. Width(it) - Len(body) \in Int /\ 0 \in Int /\ " " \in Chars
  <2>1. Width(it) \in Int
        BY WidthIs, Zenon
  <2>2. Len(body) \in Nat
        BY LenProperties, Zenon
  <2>3. Width(it) - Len(body) \in Int /\ 0 \in Int
        BY <2>1, <2>2, SMT
  <2> QED BY <2>3, Zenon DEF Chars
<1>2. /\ Rep(" ", IF Left(it) THEN 0 ELSE Width(it) - Len(body)) \in Seq(Chars)
      /\ Rep(" ", IF Left(it) THEN Width(it) - Len(body) ELSE 0) \in Seq(Chars)
      BY <1>1, RepText, Zenon
<1> QED BY <1>2, TextJoined, Zenon DEF Padded

\* What string writes is text.
LEMMA StringText ==
    ASSUME NEW it, it.arg \in Seq(Chars), it.prec \in Nat \cup {None}
    PROVE  StringOf(it) \in Seq(Chars)
<1> DEFINE s == IF it.arg = NullPtr THEN NullText ELSE it.arg
<1>1. s \in Seq(Chars)
  <2>1. ASSUME NEW S, NEW a \in S, NEW z \in S, NEW c \in S, NEW p \in S, NEW e \in S, NEW f \in S
        PROVE  <<a, z, c, p, e, f>> \in Seq(S)
        BY SMT
  <2>2. NullText \in Seq(Chars)
        BY <2>1, Zenon DEF NullText, Chars
  <2> QED BY <2>2, Zenon
<1> HIDE DEF s
<1>2. CASE it.prec = None \/ it.prec >= Len(s)
      BY <1>1, <1>2, Zenon DEF StringOf, s
<1>3. CASE ~(it.prec = None \/ it.prec >= Len(s))
  <2>1. it.prec \in Nat /\ it.prec <= Len(s)
    <3>1. Len(s) \in Nat
          BY <1>1, LenProperties, Zenon
    <3> QED BY <3>1, <1>3, SMT
  <2>2. SubSeq(s, 1, it.prec) \in Seq(Chars)
        BY <1>1, <2>1, Beginning, Zenon
  <2>3. StringOf(it) = SubSeq(s, 1, it.prec)
        BY <1>3, Zenon DEF StringOf, s
  <2> QED BY <2>2, <2>3, Zenon
<1> QED BY <1>2, <1>3, Zenon

\* What an item adds to the text is text.
LEMMA PieceText ==
    ASSUME NEW it, IsItem(it), it.kind = "dir" /\ it.conv \in Numeric => ~Runaway(it)
    PROVE  Piece(it) \in Seq(Chars)
<1>1. CASE it.kind = "lit"
  <2>1. it.ch \in STRING
        BY <1>1, SMT DEF IsItem
  <2>2. <<it.ch>> \in Seq(Chars)
        BY <2>1, ShortTexts, Zenon DEF Chars
  <2> QED BY <1>1, <2>2, Zenon DEF Piece
<1>2. CASE it.kind # "lit"
  <2>1. /\ it.kind = "dir" /\ it.conv \in STRING
        /\ it.width \in Int /\ it.prec \in Nat \cup {None}
        /\ it.conv = "c" => it.arg \in STRING
        /\ it.conv = "s" => it.arg \in Seq(STRING)
    <3>1. it.kind = "dir"
          BY <1>2, Zenon DEF IsItem
    <3> QED BY <3>1, ItemIs, Zenon
  <2>9. it.conv = "s" => it.arg \in Seq(Chars)
    <3>1. STRING \subseteq Chars
          BY Zenon DEF Chars
    <3> QED BY <2>1, <3>1, SeqOfMore, Zenon
  <2>2. CASE it.conv \in Numeric
    <3>1. Piece(it) = Number(it)
          BY <1>2, <2>2, Zenon DEF Piece
    <3> QED BY <2>1, <2>2, <3>1, NumberText, Zenon
  <2>3. CASE it.conv \notin Numeric
    <3>1. <<>> \in Seq(Chars) /\ <<"%">> \in Seq(Chars)
          BY ShortTexts, Zenon DEF Chars
    <3>2. <<"%", it.conv>> \in Seq(Chars)
          BY <2>1, ShortTexts, Zenon DEF Chars
    <3>3. CASE it.conv = "c"
      <4>1. <<it.arg>> \in Seq(Chars)
            BY <2>1, <3>3, ShortTexts, Zenon DEF Chars
      <4>2. Piece(it) = Padded(it, <<it.arg>>)
            BY <1>2, <2>3, <3>3, SMT DEF Piece, Nul
      <4> QED BY <2>1, <4>1, <4>2, PaddedText, Zenon
    <3>4. CASE it.conv = "s"
      <4>1. Piece(it) = Padded(it, StringOf(it))
            BY <1>2, <2>3, <3>4, SMT DEF Piece, Nul
      <4>2. StringOf(it) \in Seq(Chars)
            BY <2>1, <2>9, <3>4, StringText, Zenon
      <4> QED BY <2>1, <4>1, <4>2, PaddedText, Zenon
    <3>5. CASE it.conv \notin {"c", "s"}
      <4>1. CASE it.conv = "n"
        <5>1. Piece(it) = <<>>
              BY <1>2, <2>3, <4>1, Zenon DEF Piece, Nul
        <5> QED BY <3>1, <5>1, Zenon
      <4>2. CASE it.conv \in {"%", Nul}
        <5>1. Piece(it) = <<"%">>
              BY <1>2, <2>3, <4>2, Zenon DEF Piece, Nul
        <5> QED BY <3>1, <5>1, Zenon
      <4>3. CASE it.conv \notin {"n", "%", Nul}
        <5>1. Piece(it) = <<"%", it.conv>>
              BY <1>2, <2>3, <3>5, <4>3, Zenon DEF Piece, Nul
        <5> QED BY <3>2, <5>1, Zenon
      <4> QED BY <4>1, <4>2, <4>3, Zenon
    <3> QED BY <3>3, <3>4, <3>5, Zenon
  <2> QED BY <2>2, <2>3, Zenon
<1> QED BY <1>1, <1>2, Zenon

-----------------------------------------------------------------------------
(* Formats: the buffer.                                                    *)

\* An address that went round once.
LEMMA OnceRound ==
    ASSUME NEW x \in Nat, NEW t \in Nat \ {0}, x - t \in 0 .. (t - 1)
    PROVE  x % t = x - t
<1> DEFINE q == x \div t
           r == x % t
<1>1. q \in Nat /\ r \in 0 .. (t - 1) /\ x = q * t + r
      BY SMT
<1> HIDE DEF q, r
<1>2. CASE q >= 2
  <2>1. PICK k \in Nat : q = k + 2
    <3>1. q - 2 \in Nat /\ q = (q - 2) + 2
          BY <1>1, <1>2, SMT
    <3> QED BY <3>1, Zenon
  <2>2. q * t = k * t + 2 * t /\ k * t >= 0
        BY <2>1, SMT
  <2> QED BY <1>1, <2>2, SMT
<1>3. CASE q = 0
  <2>1. q * t = 0
        BY <1>3, SMT
  <2> QED BY <1>1, <2>1, SMT
<1>4. CASE q = 1
  <2>1. q * t = t
        BY <1>4, SMT
  <2>2. r = x - t
        BY <1>1, <2>1, SMT
  <2> QED BY <2>2, Zenon DEF r
<1> QED BY <1>1, <1>2, <1>3, <1>4, SMT

\* The last address of the buffer is end, also when it would lie beyond memory; at address
\* 0 end is the last of all.
LEMMA EndIs ==
    ASSUME NEW call \in Requests
    PROVE  /\ call.buf \in 0 .. (Top - 1) /\ SizeOf(call) \in 0 .. (Top - 1)
           /\ BufferSize(call) \in 0 .. (Top - 1) /\ call.buf + BufferSize(call) <= Top
           /\ EndOf(call.buf, SizeOf(call)) \in Int
           /\ EndOf(call.buf, SizeOf(call)) >= call.buf + BufferSize(call) - 1
           /\ call.buf > 0 => EndOf(call.buf, SizeOf(call)) = call.buf + BufferSize(call) - 1
           /\ SizeOf(call) > 0 <=> BufferSize(call) > 0
           /\ call.buf + SizeOf(call) <= Top => BufferSize(call) = SizeOf(call)
           /\ call.f = "vscnprintf" => SizeOf(call) = call.size
<1>1. /\ Top \in Nat /\ Top >= 2 /\ call.buf \in 0 .. (Top - 1) /\ call.size \in 0 .. (Top - 1)
      BY RequestsAssumption, Zenon
<1>2. SizeOf(call) \in 0 .. (Top - 1) /\ (call.f = "vscnprintf" => SizeOf(call) = call.size)
  <2>1. CASE call.f = "vsprintf"
    <3>1. Top \div 2 - 1 \in 0 .. (Top - 1)
          BY <1>1, SMT
    <3>2. SizeOf(call) = Top \div 2 - 1
          BY <2>1, Zenon DEF SizeOf
    <3>3. call.f # "vscnprintf"
          BY <2>1, Zenon
    <3> QED BY <3>1, <3>2, <3>3, Zenon
  <2>2. CASE call.f # "vsprintf"
        BY <1>1, <2>2, Zenon DEF SizeOf
  <2> QED BY <2>1, <2>2, Zenon
<1> DEFINE z == call.buf
           s == SizeOf(call)
           end == (z + s - 1) % Top
           before == (z - 1) % Top
<1>3. z \in 0 .. (Top - 1) /\ s \in 0 .. (Top - 1)
      BY <1>1, <1>2, Zenon
<1>4. BufferSize(call) = IF z + s > Top THEN Top - z ELSE s
      BY Zenon DEF BufferSize
<1>5. EndOf(z, s) = IF end < before THEN Top - 1 ELSE end
      BY Zenon DEF EndOf
<1> HIDE DEF z, s
<1>6. /\ BufferSize(call) \in 0 .. (Top - 1) /\ z + BufferSize(call) <= Top
      /\ s > 0 <=> BufferSize(call) > 0
      /\ z + s <= Top => BufferSize(call) = s
      BY <1>1, <1>3, <1>4, SMT
<1>7. /\ EndOf(z, s) \in Int /\ EndOf(z, s) >= z + BufferSize(call) - 1
      /\ z > 0 => EndOf(z, s) = z + BufferSize(call) - 1
  <2>1. CASE z = 0
    <3>1. before = Top - 1
          BY <2>1, <1>1, SMT
    <3>2. end \in 0 .. (Top - 1)
          BY <1>1, <1>3, SMT
    <3> HIDE DEF end, before
    <3> QED BY <2>1, <3>1, <3>2, <1>1, <1>3, <1>4, <1>5, SMT
  <2>2. CASE z > 0
    <3>1. before = z - 1
      <4>1. z - 1 \in Nat /\ Top \in Nat \ {0} /\ z - 1 < Top
            BY <2>2, <1>1, <1>3, SMT
      <4> QED BY <4>1, SmallMod, Zenon
    <3>2. CASE z + s <= Top
      <4>1. end = z + s - 1
        <5>1. z + s - 1 \in Nat /\ Top \in Nat \ {0} /\ z + s - 1 < Top
              BY <2>2, <3>2, <1>1, <1>3, SMT
        <5> QED BY <5>1, SmallMod, Zenon
      <4> HIDE DEF end, before
      <4> QED BY <2>2, <3>1, <3>2, <4>1, <1>1, <1>3, <1>4, <1>5, SMT
    <3>3. CASE ~(z + s <= Top)
      <4>1. end = (z + s - 1) - Top
        <5>1. /\ z + s - 1 \in Nat /\ (z + s - 1) - Top \in 0 .. (Top - 1)
              BY <2>2, <3>3, <1>1, <1>3, SMT
        <5>2. Top \in Nat \ {0}
              BY <1>1, SMT
        <5> QED BY <5>1, <5>2, OnceRound, Zenon
      <4> HIDE DEF end, before
      <4> QED BY <2>2, <3>1, <3>3, <4>1, <1>1, <1>3, <1>4, <1>5, SMT
    <3> QED BY <3>2, <3>3, Zenon
  <2>3. z = 0 \/ z > 0
        BY <1>1, <1>3, SMT
  <2> QED BY <2>1, <2>2, <2>3, Zenon
<1> QED BY <1>2, <1>3, <1>6, <1>7, Zenon DEF z, s

\* Going on from a place that went round.
LEMMA GoingOn ==
    ASSUME NEW x \in Nat, NEW k \in Nat, NEW t \in Nat \ {0}
    PROVE  ((x % t) + k) % t = (x + k) % t
<1> DEFINE y == (x % t) + k
           q == x \div t
           a == y \div t
           c == (x + k) \div t
           u == y % t
           v == (x + k) % t
<1>1. /\ q \in Int /\ a \in Int /\ c \in Int /\ u \in 0 .. (t - 1) /\ v \in 0 .. (t - 1)
      /\ x = q * t + (x % t) /\ y = a * t + u /\ x + k = c * t + v
  <2>1. x % t \in Nat /\ q \in Int /\ x = q * t + (x % t)
        BY SMT
  <2>2. y \in Nat /\ x + k \in Nat
        BY <2>1, SMT
  <2> HIDE DEF y, q
  <2>3. a \in Int /\ u \in 0 .. (t - 1) /\ y = a * t + u
        BY <2>2, SMT
  <2>4. c \in Int /\ v \in 0 .. (t - 1) /\ x + k = c * t + v
        BY <2>2, SMT
  <2> QED BY <2>1, <2>3, <2>4, Zenon
<1>2. PICK diff \in Int : diff = q + a - c
  <2>1. q + a - c \in Int
        BY <1>1, SMT
  <2> QED BY <2>1, Zenon
<1>3. diff * t = v - u
  <2> DEFINE r == x % t
  <2>1. y = r + k /\ r \in Int
        BY SMT
  <2> HIDE DEF r, y, q, a, c, u, v
  <2>2. x = q * t + r
        BY <1>1, Zenon DEF r
  <2>3. q * t + a * t + u = c * t + v
        BY <1>1, <2>1, <2>2, SMT
  <2>4. diff * t = q * t + a * t - c * t
        BY <1>1, <1>2, SMT
  <2> QED BY <1>1, <2>3, <2>4, SMT
<1> HIDE DEF y, q, a, c, u, v
<1>4. CASE diff >= 1
  <2>1. PICK e \in Nat : diff = e + 1
    <3>1. diff - 1 \in Nat /\ diff = (diff - 1) + 1
          BY <1>4, SMT
    <3> QED BY <3>1, Zenon
  <2>2. diff * t = e * t + t /\ e * t >= 0
        BY <2>1, SMT
  <2> QED BY <1>1, <1>3, <2>2, SMT
<1>5. CASE diff <= -1
  <2>1. PICK e \in Nat : diff = -1 - e
    <3>1. -1 - diff \in Nat /\ diff = -1 - (-1 - diff)
          BY <1>5, SMT
    <3> QED BY <3>1, Zenon
  <2>2. diff * t = -(e * t) - t /\ e * t >= 0
        BY <2>1, SMT
  <2> QED BY <1>1, <1>3, <2>2, SMT
<1>6. CASE diff = 0
  <2>1. diff * t = 0
        BY <1>6, SMT
  <2>2. u = v
        BY <1>1, <1>3, <2>1, SMT
  <2> QED BY <2>2, Zenon DEF u, v, y
<1> QED BY <1>4, <1>5, <1>6, SMT

\* Memory that was written over: what is new and what was there.
LEMMA OverIs ==
    ASSUME NEW f, NEW g
    PROVE  /\ DOMAIN Over(f, g) = DOMAIN f \cup DOMAIN g
           /\ \A a \in DOMAIN f : Over(f, g)[a] = f[a]
           /\ \A a \in DOMAIN g : a \notin DOMAIN f => Over(f, g)[a] = g[a]
  BY Zenon DEF Over

\* Where the elements of two sequences stand behind one another.
LEMMA JoinedAt ==
    ASSUME NEW S, NEW s \in Seq(S), NEW t \in Seq(S)
    PROVE  /\ s \o t \in Seq(S) /\ Len(s \o t) = Len(s) + Len(t)
           /\ Len(s) \in Nat /\ Len(t) \in Nat
           /\ \A i \in 1 .. Len(s) : (s \o t)[i] = s[i]
           /\ \A i \in 1 .. (Len(s) + Len(t)) : i > Len(s) => (s \o t)[i] = t[i - Len(s)]
  BY SMT

\* The place behind a text that ends before the last address.
LEMMA PlaceIs ==
    ASSUME NEW x \in Nat, x < Top
    PROVE  x % Top = x
<1>1. Top \in Nat
      BY RequestsAssumption, Zenon
<1> QED BY <1>1, SmallMod, Zenon

\* Where the characters of a piece go that ends before the last address.
LEMMA WrittenIs ==
    ASSUME NEW it, NEW place \in Nat, NEW l \in Nat, NEW e \in Int, place + l <= Top
    PROVE  /\ Written(it, place, l, e) \subseteq {a \in place .. (place + l - 1) : a <= e}
           /\ \A a \in place .. (place + l - 1) : a < e => a \in Written(it, place, l, e)
           /\ \A a \in place .. (place + l - 1) : Behind(a, place) = a - place
<1> DEFINE last == IF it.kind = "dir" /\ it.conv \in Numeric THEN e - 1 ELSE e
           A == {(place + i) % Top : i \in 0 .. (l - 1)}
           B == place .. (place + l - 1)
<1>1. Written(it, place, l, e) = {a \in A : a <= last}
      BY Zenon DEF Written
<1>2. last \in Int /\ last <= e /\ \A a \in Int : a < e => a <= last
      BY SMT
<1> HIDE DEF last
<1>3. Top \in Nat
      BY RequestsAssumption, Zenon
<1>4. A = B
  <2>1. ASSUME NEW i \in 0 .. (l - 1) PROVE (place + i) % Top = place + i /\ place + i \in B
    <3>1. place + i \in Nat /\ place + i < Top /\ place + i \in B
          BY <1>3, SMT
    <3> QED BY <3>1, PlaceIs, Zenon
  <2>2. ASSUME NEW a \in B PROVE \E i \in 0 .. (l - 1) : a = (place + i) % Top
    <3>1. a - place \in 0 .. (l - 1) /\ place + (a - place) = a
          BY SMT
    <3> QED BY <3>1, <2>1, Zenon
  <2> HIDE DEF B
  <2> QED BY <2>1, <2>2, Zenon
<1>5. \A a \in B : a \in Int
      BY SMT
<1>6. ASSUME NEW a \in B PROVE Behind(a, place) = a - place
  <2>1. a - place \in Nat /\ a - place < Top
        BY <1>3, SMT
  <2> QED BY <2>1, PlaceIs, Zenon DEF Behind
<1> HIDE DEF A, B
<1>7. \A a \in B : a <= last => a <= e
      BY <1>2, <1>5, SMT
<1>8. Written(it, place, l, e) = {a \in B : a <= last}
      BY <1>1, <1>4, Zenon
<1>9. /\ {a \in B : a <= last} \subseteq {a \in B : a <= e}
      /\ \A a \in B : a < e => a \in {a1 \in B : a1 <= last}
      BY <1>2, <1>5, <1>7, Zenon
<1> QED BY <1>6, <1>8, <1>9, Zenon DEF B

\* One turn of the loop: the piece goes behind what is there, as far as there is room.
LEMMA ItemWritten ==
    ASSUME FormInv, FormatItem
    PROVE  FormInv'
<1> DEFINE it == request.fmt[item]
           piece == Piece(it)
           W == Written(it, str, Len(piece), End)
           new == [a \in W |-> piece[Behind(a, str) + 1]]
           z == request.buf
           u == Len(text)
           e == End
<1>1. /\ request \in Requests /\ stage = "format" /\ item \in Nat \ {0} /\ item <= Len(request.fmt)
      /\ text \in Seq(Chars) /\ str = (z + u) % Top
      BY Zenon DEF FormInv, FormTypeOK, FormatItem
<1>2. /\ request' = request /\ stage' = stage /\ item' = item + 1 /\ str' = (str + Len(piece)) % Top
      /\ cells' = Over(new, cells) /\ text' = text \o piece /\ SizeOf(request) < Top \div 2
      /\ IsDir(it) /\ it.conv \in Numeric => ~Runaway(it)
      BY Zenon DEF FormatItem
<1>3. /\ z \in 0 .. (Top - 1) /\ SizeOf(request) \in 0 .. (Top - 1)
      /\ BufferSize(request) \in 0 .. (Top - 1)
      /\ z > 0 => e = z + BufferSize(request) - 1
      /\ e \in Int
      BY <1>1, EndIs, Zenon DEF End
<1>4. piece \in Seq(Chars)
  <2>1. Len(request.fmt) \in Nat /\ \A k \in 1 .. Len(request.fmt) : IsItem(request.fmt[k])
        BY <1>1, RequestsAssumption, Zenon
  <2>2. item \in 1 .. Len(request.fmt)
        BY <1>1, <2>1, SMT
  <2>3. IsItem(it)
        BY <2>1, <2>2, Zenon
  <2> QED BY <1>2, <2>3, PieceText, Zenon DEF IsDir
<1>5. DOMAIN new = W /\ \A a \in W : new[a] = piece[Behind(a, str) + 1]
      BY Zenon
<1>6. Top \in Nat \ {0} /\ z \in Nat
  <2>1. Top \in Nat /\ Top >= 2
        BY RequestsAssumption, Zenon
  <2> QED BY <2>1, <1>3, SMT
<1> HIDE DEF new, W, piece, it, z, u, e
<1>7. /\ DOMAIN cells' = W \cup DOMAIN cells
      /\ \A a \in W : cells'[a] = piece[Behind(a, str) + 1]
      /\ \A a \in DOMAIN cells : a \notin W => cells'[a] = cells[a]
  <2>1. /\ DOMAIN cells' = DOMAIN new \cup DOMAIN cells
        /\ \A a \in DOMAIN new : cells'[a] = new[a]
        /\ \A a \in DOMAIN cells : a \notin DOMAIN new => cells'[a] = cells[a]
    <3>1. cells' = Over(new, cells)
          BY <1>2, Zenon
    <3>2. /\ DOMAIN Over(new, cells) = DOMAIN new \cup DOMAIN cells
          /\ \A a \in DOMAIN new : Over(new, cells)[a] = new[a]
          /\ \A a \in DOMAIN cells : a \notin DOMAIN new => Over(new, cells)[a] = cells[a]
          BY OverIs, Zenon
    <3> QED BY <3>1, <3>2, Zenon
  <2> QED BY <2>1, <1>5, Zenon
<1>8. /\ text' \in Seq(Chars) /\ Len(text') = u + Len(piece) /\ u \in Nat /\ Len(piece) \in Nat
      /\ \A i \in 1 .. u : text'[i] = text[i]
      /\ \A i \in 1 .. (u + Len(piece)) : i > u => text'[i] = piece[i - u]
      BY <1>1, <1>2, <1>4, JoinedAt, Zenon DEF u
<1>9. End' = End /\ SizeOf(request') = SizeOf(request)
      BY <1>2, Zenon DEF End
<1>10. FormTypeOK'
  <2>1. item' \in Nat \ {0}
        BY <1>1, <1>2, SMT
  <2>2. str' = (z + (u + Len(piece))) % Top
    <3> DEFINE l == Len(piece)
    <3>1. z + u \in Nat /\ (z + u) + l = z + (u + l) /\ l \in Nat
          BY <1>6, <1>8, SMT
    <3>2. (((z + u) % Top) + l) % Top = ((z + u) + l) % Top
          BY <1>6, <3>1, GoingOn, Zenon
    <3> QED BY <1>1, <1>2, <3>1, <3>2, Zenon
  <2> QED BY <1>1, <1>2, <1>8, <2>1, <2>2, Zenon DEF FormTypeOK, z
\* What is written if the text does not run through the last address.
<1>11. ASSUME z + (u + Len(piece)) < Top
       PROVE  /\ str = z + u
              /\ W \subseteq {a \in str .. (str + Len(piece) - 1) : a <= e}
              /\ \A a \in str .. (str + Len(piece) - 1) : a < e => a \in W
              /\ \A a \in str .. (str + Len(piece) - 1) : Behind(a, str) = a - str
  <2>1. z + u \in Nat /\ z + u < Top
        BY <1>6, <1>8, <1>11, SMT
  <2>2. str = z + u
        BY <2>1, <1>1, PlaceIs, Zenon
  <2>3. str \in Nat /\ str + Len(piece) <= Top /\ Len(piece) \in Nat
        BY <2>1, <2>2, <1>6, <1>8, <1>11, SMT
  <2> QED BY <2>2, <2>3, <1>3, WrittenIs, Zenon DEF W, e
<1>12. ASSUME z > 0, z + (u + Len(piece)) < Top
       PROVE  DOMAIN cells' \subseteq z .. e
  <2>1. z + u < Top
        BY <1>6, <1>8, <1>12, SMT
  <2>2. DOMAIN cells \subseteq z .. e
        BY <2>1, <1>3, <1>12, Zenon DEF FormInv, BufferKept, WithinMemory, z, u
  <2>3. W \subseteq z .. e
        BY <1>3, <1>6, <1>8, <1>11, <1>12, SMT
  <2> QED BY <2>2, <2>3, <1>7, Zenon
<1>13. ~(SizeOf(request) >= Top \div 2)
  <2>1. Top \div 2 \in Int /\ SizeOf(request) \in Int
    <3>1. Top \in Nat
          BY RequestsAssumption, Zenon
    <3> QED BY <3>1, <1>3, SMT
  <2> QED BY <2>1, <1>2, SMT
<1>14. BufferKept'
  <2>1. WithinMemory' => z > 0 /\ z + (u + Len(piece)) < Top
        BY <1>2, <1>8, Zenon DEF WithinMemory, z
  <2>2. WithinMemory' => DOMAIN cells' \subseteq request'.buf .. (request'.buf + BufferSize(request') - 1)
        BY <2>1, <1>2, <1>3, <1>12, Zenon DEF z
  <2>3. stage' # "scan"
        BY <1>1, <1>2, SMT
  <2> QED BY <2>2, <2>3, <1>9, <1>13, Zenon DEF BufferKept
<1>15. Refused'
       BY <1>9, <1>13, Zenon DEF Refused
<1>16. Filled'
  <2> SUFFICES ASSUME z + (u + Len(piece)) < Top, NEW i \in 1 .. (u + Len(piece)), z + i - 1 < e
               PROVE  z + i - 1 \in DOMAIN cells' /\ cells'[z + i - 1] = text'[i]
      BY <1>2, <1>8, <1>9, Zenon DEF Filled, z, e
  <2> DEFINE a == z + i - 1
  <2>0. str = z + u /\ z + u < Top
        BY <1>6, <1>8, <1>11, SMT
  <2>1. CASE i <= u
    <3>1. i \in 1 .. u /\ ~(a >= str)
          BY <2>0, <2>1, <1>6, <1>8, SMT
    <3>2. a \notin W
      <4> HIDE DEF a
      <4>1. a \in W => a >= str
            BY <2>0, <1>6, <1>8, <1>11, SMT
      <4> QED BY <3>1, <4>1, Zenon
    <3>3. a \in DOMAIN cells /\ cells[a] = text[i]
          BY <2>0, <3>1, Zenon DEF FormInv, Filled, z, u, e
    <3> HIDE DEF a
    <3>4. a \in DOMAIN cells' /\ cells'[a] = text'[i]
          BY <3>1, <3>2, <3>3, <1>7, <1>8, Zenon
    <3> QED BY <3>4, Zenon DEF a
  <2>2. CASE ~(i <= u)
    <3>1. a \in str .. (str + Len(piece) - 1) /\ (a - str) + 1 = i - u /\ i > u /\ a < e
          BY <2>0, <2>2, <1>3, <1>6, <1>8, SMT
    <3> HIDE DEF a
    <3>2. a \in W /\ Behind(a, str) = a - str
          BY <3>1, <1>11, Zenon
    <3>3. cells'[a] = piece[i - u] /\ a \in DOMAIN cells'
          BY <3>1, <3>2, <1>7, Zenon
    <3>4. a \in DOMAIN cells' /\ cells'[a] = text'[i]
          BY <3>1, <3>3, <1>8, Zenon
    <3> QED BY <3>4, Zenon DEF a
  <2> QED BY <2>1, <2>2, Zenon
<1> QED BY <1>10, <1>14, <1>15, <1>16, Zenon DEF FormInv

\* The end: a NUL behind the text, or over the last character there is room for.
LEMMA EndWritten ==
    ASSUME FormInv, FormatEnd
    PROVE  FormInv'
<1> DEFINE z == request.buf
           u == Len(text)
           e == End
           room == BufferSize(request)
           kept == Kept(request, u)
           last == IF str <= e THEN str ELSE e
           wrote == str <= e \/ SizeOf(request) > 0
<1>1. /\ request \in Requests /\ stage = "format"
      /\ text \in Seq(Chars) /\ str = (z + u) % Top
      BY Zenon DEF FormInv, FormTypeOK, FormatEnd
<1>2. /\ request' = request /\ stage' = "scan" /\ item' = 1 /\ str' = str /\ text' = text
      /\ SizeOf(request) < Top \div 2
      /\ wrote => cells' = Over([a \in {last} |-> Nul], cells)
      /\ ~wrote => cells' = cells
      /\ retval' = Returned(request, Behind(str, z))
      BY Zenon DEF FormatEnd
<1>3. /\ z \in 0 .. (Top - 1) /\ SizeOf(request) \in 0 .. (Top - 1)
      /\ room \in 0 .. (Top - 1) /\ e \in Int
      /\ z > 0 => e = z + room - 1
      /\ SizeOf(request) > 0 <=> room > 0
      /\ z + SizeOf(request) <= Top => room = SizeOf(request)
      /\ request.f = "vscnprintf" => SizeOf(request) = request.size
      BY <1>1, EndIs, Zenon DEF End
<1>4. u \in Nat /\ Top \in Nat /\ Top >= 2 /\ z \in Nat
  <2>1. u \in Nat /\ Top \in Nat /\ Top >= 2
        BY <1>1, LenProperties, RequestsAssumption, Zenon
  <2> QED BY <2>1, <1>3, SMT
<1>5. kept = IF u < room THEN u ELSE room - 1
      BY Zenon DEF Kept
<1>6. z + u < Top => /\ z > 0 => DOMAIN cells \subseteq z .. e
                     /\ \A i \in 1 .. u : z + i - 1 < e => z + i - 1 \in DOMAIN cells /\ cells[z + i - 1] = text[i]
      BY <1>3, Zenon DEF FormInv, BufferKept, Filled, WithinMemory
<1> HIDE DEF z, u, e, room, kept, last, wrote
\* What is written: a NUL at last, or nothing.
<1>7. /\ wrote => DOMAIN cells' = {last} \cup DOMAIN cells /\ cells'[last] = Nul
      /\ ~wrote => DOMAIN cells' = DOMAIN cells
      /\ \A a \in DOMAIN cells : a # last => a \in DOMAIN cells' /\ cells'[a] = cells[a]
  <2> DEFINE f == [a \in {last} |-> Nul]
  <2>1. DOMAIN f = {last} /\ f[last] = Nul
        BY Zenon
  <2>2. wrote => cells' = Over(f, cells)
        BY <1>2, Zenon
  <2> HIDE DEF f
  <2>3. /\ DOMAIN Over(f, cells) = DOMAIN f \cup DOMAIN cells
        /\ \A a \in DOMAIN f : Over(f, cells)[a] = f[a]
        /\ \A a \in DOMAIN cells : a \notin DOMAIN f => Over(f, cells)[a] = cells[a]
        BY OverIs, Zenon
  <2>4. CASE wrote
        BY <2>1, <2>2, <2>3, <2>4, Zenon
  <2>5. CASE ~wrote
        BY <2>5, <1>2, Zenon
  <2> QED BY <2>4, <2>5, Zenon
\* A text that does not run through the last address.
<1>8. ASSUME z + u < Top PROVE str = z + u
  <2>1. z + u \in Nat
        BY <1>4, SMT
  <2> QED BY <2>1, <1>1, <1>8, PlaceIs, Zenon
<1>9. ASSUME z + u < Top, NEW i \in 1 .. u, z + i - 1 < e
      PROVE  z + i - 1 \in DOMAIN cells' /\ cells'[z + i - 1] = text[i]
  <2> DEFINE a == z + i - 1
  <2>1. a # last
        BY <1>3, <1>4, <1>8, <1>9, SMT DEF last
  <2>2. a \in DOMAIN cells /\ cells[a] = text[i]
        BY <1>6, <1>9, Zenon
  <2> HIDE DEF a
  <2>3. a \in DOMAIN cells' /\ cells'[a] = text[i]
        BY <2>1, <2>2, <1>7, Zenon
  <2> QED BY <2>3, Zenon DEF a
\* In a buffer that is not at the first address.
<1>10. ASSUME z > 0, z + u < Top
       PROVE  /\ wrote => room > 0 /\ last = z + kept /\ last \in z .. e
              /\ room > 0 => wrote
              /\ kept <= u /\ kept \in Int /\ z + kept <= e + 1
  <2>1. str <= e \/ ~(str <= e)
        OBVIOUS
  <2>2. CASE str <= e
        BY <2>2, <1>3, <1>4, <1>5, <1>8, <1>10, SMT DEF last, wrote
  <2>3. CASE ~(str <= e)
        BY <2>3, <1>3, <1>4, <1>5, <1>8, <1>10, SMT DEF last, wrote
  <2> QED BY <2>1, <2>2, <2>3, Zenon
<1>11. ASSUME z > 0, z + u < Top
       PROVE  DOMAIN cells' \subseteq z .. e
  <2>1. CASE wrote
        BY <2>1, <1>6, <1>7, <1>10, <1>11, Zenon
  <2>2. CASE ~wrote
        BY <2>2, <1>6, <1>7, <1>11, Zenon
  <2> QED BY <2>1, <2>2, Zenon
<1>12. ASSUME z > 0, z + u < Top, room > 0, NEW i \in 1 .. kept
       PROVE  cells'[z + i - 1] = text[i]
  <2> DEFINE a == z + i - 1
  <2>1. /\ room > 0 /\ last = z + kept /\ last \in z .. e /\ kept <= u /\ kept \in Int
        BY <1>10, <1>12, Zenon
  <2>2. i \in 1 .. u /\ a < e
        BY <2>1, <1>3, <1>4, <1>5, <1>12, SMT
  <2> QED BY <2>2, <1>9, <1>12, Zenon
<1>13. End' = End /\ SizeOf(request') = SizeOf(request) /\ BufferSize(request') = room /\ Len(text') = u /\ request.buf = z
       /\ Kept(request', Len(text')) = kept
       BY <1>2, Zenon DEF End, room, u, z, kept
<1>14. FormTypeOK'
  <2>1. 1 \in Nat \ {0}
        BY SMT
  <2> QED BY <1>1, <1>2, <2>1, Zenon DEF FormTypeOK, z, u
<1>15. Filled'
       BY <1>2, <1>9, <1>13, Zenon DEF Filled, e
<1>16. ~(SizeOf(request) >= Top \div 2)
  <2>1. Top \div 2 \in Int /\ SizeOf(request) \in Int
        BY <1>3, <1>4, SMT
  <2> QED BY <2>1, <1>2, SMT
<1>17. Refused'
       BY <1>13, <1>16, <1>2, Zenon DEF Refused
\* What is returned.
<1>18. ASSUME z + u < Top
       PROVE  /\ request.f # "vscnprintf" /\ u <= IntMax => retval' = u
              /\ request.f = "vscnprintf" /\ z + request.size <= Top /\ room > 0 => retval' = kept
  <2>1. Behind(str, z) = u
    <3>1. str - z = u /\ u < Top
          BY <1>4, <1>8, <1>18, SMT
    <3> QED BY <3>1, <1>4, PlaceIs, Zenon DEF Behind
  <2>2. u <= IntMax => AsInt(u) = u
    <3>1. u <= IntMax => ~(u >= Top \div 2)
          BY <1>4, SMT DEF IntMax
    <3> QED BY <3>1, Zenon DEF AsInt
  <2>3. CASE request.f # "vscnprintf"
        BY <2>1, <2>2, <2>3, <1>2, Zenon DEF Returned
  <2>4. CASE request.f = "vscnprintf"
    <3>1. retval' = IF u >= request.size THEN request.size - 1 ELSE AsInt(u)
          BY <2>1, <2>4, <1>2, Zenon DEF Returned
    <3>2. z + request.size <= Top => room = request.size
          BY <2>4, <1>3, Zenon
    <3>3. request.size \in Nat /\ request.size < Top \div 2
      <4>1. SizeOf(request) \in Nat
            BY <1>3, <1>4, SMT
      <4> QED BY <4>1, <2>4, <1>2, <1>3, Zenon
    <3>4. u >= request.size \/ AsInt(u) = u
      <4>1. ~(u >= request.size) => u <= IntMax
            BY <3>3, <1>4, SMT DEF IntMax
      <4> QED BY <4>1, <2>2, Zenon
    <3>5. z + request.size <= Top => kept = IF u >= request.size THEN request.size - 1 ELSE u
          BY <3>2, <3>3, <1>4, <1>5, SMT
    <3> QED BY <2>4, <3>1, <3>4, <3>5, Zenon
  <2> QED BY <2>3, <2>4, Zenon
<1>19. BufferKept'
  <2>1. WithinMemory' => z > 0 /\ z + u < Top
        BY <1>2, <1>13, Zenon DEF WithinMemory, z
  <2>2. SizeOf(request') >= Top \div 2 => cells' = <<>>
        BY <1>13, <1>16, Zenon
  <2>3. WithinMemory' => DOMAIN cells' \subseteq z .. (z + room - 1)
        BY <2>1, <1>3, <1>11, Zenon
  <2>4. ASSUME WithinMemory', room > 0
        PROVE  /\ cells'[z + kept] = Nul
               /\ \A i \in 1 .. kept : cells'[z + i - 1] = text[i]
               /\ request.f # "vscnprintf" /\ u <= IntMax => retval' = u
               /\ request.f = "vscnprintf" /\ z + request.size <= Top => retval' = kept
    <3>1. z > 0 /\ z + u < Top
          BY <2>1, <2>4, Zenon
    <3>2. wrote /\ last = z + kept
          BY <3>1, <2>4, <1>10, Zenon
    <3>3. cells'[z + kept] = Nul
          BY <3>2, <1>7, Zenon
    <3> QED BY <3>1, <3>3, <2>4, <1>12, <1>18, Zenon
  <2> QED BY <2>2, <2>3, <2>4, <1>2, <1>13, Zenon DEF BufferKept
<1> QED BY <1>14, <1>15, <1>17, <1>19, Zenon DEF FormInv

\* The other steps write nothing.
LEMMA NothingWritten ==
    ASSUME FormInv, UNCHANGED <<request, str, text, cells, retval>>,
           item' \in Nat \ {0},
           \/ stage' = stage
           \/ stage' = "back"
    PROVE  FormInv'
<1>1. FormTypeOK'
      BY Zenon DEF FormInv, FormTypeOK
<1>2. End' = End /\ BufferSize(request') = BufferSize(request) /\ SizeOf(request') = SizeOf(request)
      /\ Kept(request', Len(text')) = Kept(request, Len(text)) /\ WithinMemory' = WithinMemory
      BY Zenon DEF End, WithinMemory
<1>3. Filled'
      BY <1>2, Zenon DEF FormInv, Filled
<1>4. stage' = "scan" => stage = "scan"
      BY Zenon
<1>5. Refused'
      BY <1>2, <1>4, Zenon DEF FormInv, Refused
<1>6. BufferKept'
      BY <1>2, <1>4, Zenon DEF FormInv, BufferKept
<1> QED BY <1>1, <1>3, <1>5, <1>6, Zenon DEF FormInv

\* The invariant holds when a call begins.
LEMMA FormInitInv == FormInit => FormInv
<1> SUFFICES ASSUME FormInit PROVE FormInv
    BY Zenon
<1>1. /\ request \in Requests /\ stage = "format" /\ item = 1 /\ str = request.buf
      /\ cells = <<>> /\ text = <<>>
      BY Zenon DEF FormInit
<1>2. text \in Seq(Chars) /\ Len(text) = 0 /\ DOMAIN cells = {} /\ 1 \in Nat \ {0}
      BY <1>1, SMT
<1>3. (request.buf + 0) % Top = request.buf
  <2>1. request.buf \in 0 .. (Top - 1) /\ Top \in Nat
        BY <1>1, RequestsAssumption, Zenon
  <2>2. request.buf + 0 = request.buf /\ request.buf \in Nat /\ request.buf < Top
        BY <2>1, SMT
  <2> QED BY <2>2, PlaceIs, Zenon
<1>4. FormTypeOK
      BY <1>1, <1>2, <1>3, Zenon DEF FormTypeOK
<1>5. Filled
  <2>1. 1 .. 0 = {}
        BY SMT
  <2> QED BY <1>2, <2>1, Zenon DEF Filled
<1>6. Refused /\ BufferKept
      BY <1>1, <1>2, Zenon DEF Refused, BufferKept
<1> QED BY <1>4, <1>5, <1>6, Zenon DEF FormInv

\* Every step keeps it.
LEMMA FormNextInv == FormInv /\ [FormNext]_formVars => FormInv'
<1> SUFFICES ASSUME FormInv, [FormNext]_formVars PROVE FormInv'
    BY Zenon
<1>1. item \in Nat \ {0}
      BY Zenon DEF FormInv, FormTypeOK
<1>2. item + 1 \in Nat \ {0}
      BY <1>1, SMT
<1>3. CASE Refuse
      BY <1>1, <1>3, NothingWritten, Zenon DEF Refuse
<1>4. CASE FormatItem
      BY <1>4, ItemWritten, Zenon
<1>5. CASE FormatEnd
      BY <1>5, EndWritten, Zenon
<1>6. CASE ScanNext
      BY <1>2, <1>6, NothingWritten, Zenon DEF ScanNext
<1>7. CASE ScanEnd
      BY <1>1, <1>7, NothingWritten, Zenon DEF ScanEnd
<1>8. CASE UNCHANGED formVars
      BY <1>1, <1>8, NothingWritten, Zenon DEF formVars
<1> QED BY <1>3, <1>4, <1>5, <1>6, <1>7, <1>8, Zenon DEF FormNext

\* A text that ends before the last address is never written outside the buffer by vsnprintf
\* and its variants; what they leave in it is as much of the text as there is room for and a
\* NUL behind it, and they return the length of the text, if an int holds it (vscnprintf: of
\* what is kept) - for every format, buffer and size, also a size of 0 and a buffer that
\* would reach beyond the last address, but for one at address 0; a size that is negative as
\* an int is refused and nothing written (vsprintf.c:381-406, 635-668).
THEOREM BufferAlwaysKept == FormSpec => []BufferKept
<1>1. FormInv => BufferKept
      BY Zenon DEF FormInv
<1> QED BY FormInitInv, FormNextInv, <1>1, PTL DEF FormSpec

-----------------------------------------------------------------------------
(* Formats: the digits written are those wanted.                           *)

\* The bases of %o, %d and %x.
Radices == {8, 10, 16}

\* What is left of a number, r, when k of its digits, s, are taken off it.
Taken(radix, k, s, r) ==
    /\ \A i \in 1 .. k : s[i] \in 0 .. (radix - 1)
    /\ \A i \in 1 .. (k + 1) : r[i] \in Nat
    /\ \A i \in 1 .. k : r[i] = radix * r[i + 1] + s[i]

\* There is one way to take them.
Alone(k, s, t, r, q) == (\A i \in 1 .. (k + 1) : r[i] = q[i]) /\ (\A i \in 1 .. k : s[i] = t[i])

LEMMA SameRests ==
    ASSUME NEW radix \in Radices, NEW k \in Nat, NEW s, NEW t, NEW r, NEW q,
           Taken(radix, k, s, r), Taken(radix, k, t, q), r[1] = q[1]
    PROVE  Alone(k, s, t, r, q)
<1>0. /\ \A i \in 1 .. k : s[i] \in 0 .. (radix - 1) /\ t[i] \in 0 .. (radix - 1)
      /\ \A i \in 1 .. (k + 1) : r[i] \in Nat /\ q[i] \in Nat
      /\ \A i \in 1 .. k : r[i] = radix * r[i + 1] + s[i] /\ q[i] = radix * q[i + 1] + t[i]
      BY Zenon DEF Taken
<1> DEFINE Wrong == {i \in 1 .. (k + 1) : r[i] # q[i]}
<1>1. Wrong = {}
  <2> SUFFICES ASSUME Wrong # {} PROVE FALSE
      OBVIOUS
  <2>1. PICK m \in Wrong : \A y \in Wrong : m <= y
    <3>1. Wrong \subseteq Nat
          BY SMT
    <3> HIDE DEF Wrong
    <3> QED BY <3>1, LeastNat
  <2>2. m \in 1 .. (k + 1) /\ r[m] # q[m]
        BY <2>1
  <2>3. m # 1
        BY <2>2
  <2> DEFINE j == m - 1
  <2>4. j \in 1 .. k /\ j \in 1 .. (k + 1) /\ j + 1 = m /\ ~(m <= j)
        BY <2>2, <2>3, SMT
  <2> HIDE DEF j
  <2>5. r[j] = q[j]
        BY <2>1, <2>4, Zenon
  <2>6. r[j] = radix * r[m] + s[j] /\ q[j] = radix * q[m] + t[j]
        BY <1>0, <2>4, Zenon
  <2>7. r[m] \in Nat /\ q[m] \in Nat /\ s[j] \in 0 .. (radix - 1) /\ t[j] \in 0 .. (radix - 1)
        BY <1>0, <2>2, <2>4, Zenon
  <2>8. radix * r[m] + s[j] = radix * q[m] + t[j]
        BY <2>5, <2>6
  <2>9. r[m] = q[m]
    <3> DEFINE x == r[m]
               y == q[m]
               u == s[j]
               v == t[j]
    <3>1. x \in Nat /\ y \in Nat /\ u \in 0 .. (radix - 1) /\ v \in 0 .. (radix - 1)
          /\ radix * x + u = radix * y + v
          BY <2>7, <2>8, Zenon
    <3> HIDE DEF x, y, u, v
    <3>2. x = y
          BY <3>1, SMT DEF Radices
    <3> QED BY <3>2, Zenon DEF x, y
  <2> QED BY <2>2, <2>9, Zenon
<1>2. \A i \in 1 .. (k + 1) : r[i] = q[i]
      BY <1>1, Zenon
<1>3. ASSUME NEW i \in 1 .. k PROVE s[i] = t[i]
  <2>1. i \in 1 .. (k + 1) /\ i + 1 \in 1 .. (k + 1)
        BY SMT
  <2>2. r[i] = q[i] /\ r[i + 1] = q[i + 1] /\ r[i + 1] \in Nat
        BY <1>0, <2>1, <1>2, Zenon
  <2>3. radix * r[i + 1] + s[i] = radix * r[i + 1] + t[i]
        BY <1>0, <2>2, Zenon
  <2> DEFINE x == r[i + 1]
             u == s[i]
             v == t[i]
  <2>4. x \in Nat /\ u \in 0 .. (radix - 1) /\ v \in 0 .. (radix - 1) /\ radix * x + u = radix * x + v
        BY <1>0, <2>2, <2>3, Zenon
  <2> HIDE DEF x, u, v
  <2>5. u = v
        BY <2>4, SMT DEF Radices
  <2> QED BY <2>5, Zenon DEF u, v
<1> QED BY <1>2, <1>3, Zenon DEF Alone

\* A number has no other digits: one of two sequences of them does not end before the other.
LEMMA NoShorter ==
    ASSUME NEW radix \in Radices, NEW x, NEW s, NEW t,
           Digital(x, s, radix), Digital(x, t, radix), Len(s) <= Len(t)
    PROVE  s = t
<1> DEFINE S == 0 .. (radix - 1)
<1>1. /\ s \in Seq(S) /\ t \in Seq(S)
      BY Zenon DEF Digital
<1>2. /\ Len(s) \in Nat /\ Len(t) \in Nat
      /\ \A i \in 1 .. Len(s) : s[i] \in S
      /\ \A i \in 1 .. Len(t) : t[i] \in S
  <2> HIDE DEF S
  <2> QED BY <1>1, LenProperties, ElementOfSeq, Zenon
<1>3. PICK r \in [1 .. (Len(s) + 1) -> Nat] :
          /\ r[1] = x /\ r[Len(s) + 1] = 0
          /\ \A i \in 1 .. Len(s) : r[i] # 0 /\ r[i] = radix * r[i + 1] + s[i]
      BY Zenon DEF Digital
<1>4. PICK q \in [1 .. (Len(t) + 1) -> Nat] :
          /\ q[1] = x /\ q[Len(t) + 1] = 0
          /\ \A i \in 1 .. Len(t) : q[i] # 0 /\ q[i] = radix * q[i + 1] + t[i]
      BY Zenon DEF Digital
<1> DEFINE k == Len(s)
<1>5. /\ k \in Nat /\ 1 .. k \subseteq 1 .. Len(t) /\ 1 .. (k + 1) \subseteq 1 .. (Len(t) + 1)
      /\ k + 1 \in 1 .. (k + 1)
      BY <1>2, SMT
<1> HIDE DEF S
<1>6. /\ \A i \in 1 .. (k + 1) : r[i] = q[i]
      /\ \A i \in 1 .. k : s[i] = t[i]
  <2>1. \A i \in 1 .. k : s[i] \in 0 .. (radix - 1) /\ t[i] \in 0 .. (radix - 1)
        BY <1>2, <1>5, Zenon DEF S
  <2>2. \A i \in 1 .. (k + 1) : r[i] \in Nat /\ q[i] \in Nat
        BY <1>5, Zenon
  <2>3. \A i \in 1 .. k : r[i] = radix * r[i + 1] + s[i] /\ q[i] = radix * q[i + 1] + t[i]
    <3> SUFFICES ASSUME NEW i \in 1 .. k
                 PROVE  r[i] = radix * r[i + 1] + s[i] /\ q[i] = radix * q[i + 1] + t[i]
        BY Zenon
    <3>1. i \in 1 .. Len(t)
          BY <1>5, Zenon
    <3>2. r[i] = radix * r[i + 1] + s[i]
          BY <1>3, Zenon
    <3>3. q[i] = radix * q[i + 1] + t[i]
          BY <1>4, <3>1, Zenon
    <3> QED BY <3>2, <3>3, Zenon
  <2>4. r[1] = q[1]
        BY <1>3, <1>4, Zenon
  <2> HIDE DEF k
  <2>5. Taken(radix, k, s, r)
        BY <2>1, <2>2, <2>3, Zenon DEF Taken
  <2>6. Taken(radix, k, t, q)
        BY <2>1, <2>2, <2>3, Zenon DEF Taken
  <2>7. k \in Nat
        BY <1>5, Zenon
  <2>8. Alone(k, s, t, r, q)
        BY <2>4, <2>5, <2>6, <2>7, SameRests, Zenon
  <2> QED BY <2>8, Zenon DEF Alone
<1>7. Len(t) = k
  <2>1. q[k + 1] = 0
        BY <1>3, <1>5, <1>6, Zenon
  <2>2. k + 1 \notin 1 .. Len(t)
        BY <2>1, <1>4, Zenon
  <2> QED BY <2>2, <1>2, SMT
<1> QED BY <1>1, <1>6, <1>7, SeqEqual, Zenon

\* A number has one sequence of digits.
LEMMA DigitsUnique ==
    ASSUME NEW radix \in Radices, NEW x, NEW s, NEW t,
           Digital(x, s, radix), Digital(x, t, radix)
    PROVE  s = t
<1>1. s \in Seq(0 .. (radix - 1)) /\ t \in Seq(0 .. (radix - 1))
      BY Zenon DEF Digital
<1> DEFINE S == 0 .. (radix - 1)
<1> HIDE DEF S
<1>2. Len(s) \in Nat /\ Len(t) \in Nat
      BY <1>1, LenProperties, Zenon
<1>3. Len(s) <= Len(t) \/ Len(t) <= Len(s)
      BY <1>2, SMT
<1> QED BY <1>3, NoShorter, Zenon

\* Nothing behind a sequence leaves it as it is.
LEMMA NothingBehind ==
    ASSUME NEW S, NEW s \in Seq(S)
    PROVE  s \o <<>> = s /\ <<>> \o s = s
  BY SMT

\* The digits of the reference, DigitsOf, come from such a function too.
Spells(num, radix, digit, s) == DigitsOf(num, radix, digit) = [i \in DOMAIN s |-> digit[s[Len(s) + 1 - i] + 1]]

LEMMA LowestIs ==
    ASSUME NEW num \in Nat, NEW radix \in Nat, radix >= 2, NEW digit
    PROVE  \E g : /\ Spells(num, radix, digit, g[num])
                  /\ g = [x \in 0 .. num |-> IF x < radix THEN <<x>> ELSE <<x % radix>> \o g[x \div radix]]
<1> DEFINE Step(g) == [x \in 0 .. num |-> IF x < radix THEN <<x>> ELSE <<x % radix>> \o g[x \div radix]]
           leaf == [x \in 0 .. num |-> <<x>>]
           head == [x \in 0 .. num |-> <<x % radix>>]
<1>1. PICK f : Chained(num, radix, radix, leaf, head, f)
  <2>1. radix \in Nat \ {0}
        OBVIOUS
  <2> HIDE DEF leaf, head
  <2> QED BY <2>1, ChainExists, Zenon
<1>2. f = Step(f)
  <2>1. ASSUME NEW x \in 0 .. num
        PROVE  (IF x < radix THEN leaf[x] ELSE head[x] \o f[x \div radix]) =
               (IF x < radix THEN <<x>> ELSE <<x % radix>> \o f[x \div radix])
    <3>1. leaf[x] = <<x>> /\ head[x] = <<x % radix>>
          BY Zenon
    <3> HIDE DEF leaf, head
    <3> QED BY <3>1, Zenon
  <2> QED BY <1>1, <2>1, Zenon DEF Chained
<1> DEFINE lowest == CHOOSE g : g = Step(g)
<1>3. lowest = Step(lowest)
      BY <1>2, Zenon
<1>4. Spells(num, radix, digit, lowest[num])
      BY Zenon DEF Spells, DigitsOf
<1> QED BY <1>3, <1>4, Zenon

\* They are the digits of the number; 0 alone has one.
LEMMA LowestRight ==
    ASSUME NEW num \in Nat, NEW radix \in Nat, radix >= 2, NEW g,
           g = [x \in 0 .. num |-> IF x < radix THEN <<x>> ELSE <<x % radix>> \o g[x \div radix]]
    PROVE  /\ num = 0 => g[num] = <<0>>
           /\ num # 0 => Digital(num, g[num], radix)
<1> DEFINE c == [x \in 0 .. num |-> IF x < radix THEN <<x>> ELSE <<x % radix>> \o g[x \div radix]]
<1>2. ASSUME NEW x \in 0 .. num
      PROVE  g[x] = IF x < radix THEN <<x>> ELSE <<x % radix>> \o g[x \div radix]
  <2>1. c[x] = IF x < radix THEN <<x>> ELSE <<x % radix>> \o g[x \div radix]
        BY Zenon
  <2>2. g = c
        BY Zenon
  <2> HIDE DEF c
  <2> QED BY <2>1, <2>2, Zenon
<1> HIDE DEF c
<1>3. radix \in Nat \ {0} /\ 0 < radix /\ num \in 0 .. num
      BY SMT
<1> DEFINE Wrong == {x \in 0 .. num : x # 0 /\ ~Digital(x, g[x], radix)}
<1>4. ASSUME NEW x \in 0 .. num, x # 0, \A y \in 0 .. num : y < x /\ y # 0 => Digital(y, g[y], radix)
      PROVE  Digital(x, g[x], radix)
  <2>1. CASE x < radix
    <3>1. x \in 0 .. (radix - 1) /\ x \in Nat \ {0} /\ 0 \in Nat /\ x = radix * 0 + x
          BY <1>4, <2>1, SMT
    <3>2. Digital(x, <<x>> \o <<>>, radix)
          BY <1>3, <3>1, NoDigits, OneMoreDigit, Zenon
    <3>3. <<x>> \o <<>> = <<x>>
          BY SMT
    <3> QED BY <2>1, <3>2, <3>3, <1>2, Zenon
  <2>2. CASE ~(x < radix)
    <3>1. /\ x \div radix \in 0 .. num /\ x \div radix \in Nat /\ x \div radix < x /\ x \div radix # 0
          /\ x % radix \in 0 .. (radix - 1) /\ x \in Nat \ {0}
          /\ x = radix * (x \div radix) + (x % radix)
      <4>1. x \in Nat
            OBVIOUS
      <4>2. x \div radix \in Nat /\ x \div radix < x
            BY <1>4, <4>1, QuotientIsLess
      <4>3. x % radix \in 0 .. (radix - 1) /\ x = radix * (x \div radix) + (x % radix)
            BY <4>1, SMT
      <4>4. x \div radix # 0
        <5>1. x \div radix = 0 => x = x % radix
              BY <4>1, <4>3, SMT
        <5> QED BY <2>2, <4>1, <4>3, <5>1, SMT
      <4> QED BY <1>4, <4>1, <4>2, <4>3, <4>4, SMT
    <3>2. Digital(x \div radix, g[x \div radix], radix)
          BY <3>1, <1>4, Zenon
    <3>3. Digital(x, <<x % radix>> \o g[x \div radix], radix)
          BY <1>3, <3>1, <3>2, OneMoreDigit, Zenon
    <3> QED BY <2>2, <3>3, <1>2, Zenon
  <2> QED BY <2>1, <2>2, Zenon
<1>5. Wrong = {}
  <2> SUFFICES ASSUME Wrong # {} PROVE FALSE
      OBVIOUS
  <2>1. PICK m \in Wrong : \A y \in Wrong : m <= y
    <3>1. Wrong \subseteq Nat
          BY SMT
    <3> HIDE DEF Wrong
    <3> QED BY <3>1, LeastNat, Zenon
  <2>2. m \in 0 .. num /\ m # 0 /\ ~Digital(m, g[m], radix)
        BY Zenon
  <2>3. ASSUME NEW y \in 0 .. num, y < m, y # 0 PROVE Digital(y, g[y], radix)
    <3>1. ~(m <= y)
          BY <2>2, <2>3, SMT
    <3> QED BY <2>3, <3>1, <2>1, Zenon
  <2> QED BY <2>2, <2>3, <1>4, Zenon
<1>6. num = 0 => g[num] = <<0>>
      BY <1>2, <1>3, Zenon
<1> QED BY <1>3, <1>5, <1>6, Zenon

\* number's digits are those of the reference.
LEMMA DigitsAre ==
    ASSUME NEW num \in Nat, NEW radix \in Radices, NEW digit, radix = 10 => num < 2 ^ LongLongBits
    PROVE  Spells(num, radix, digit, Tmp(num, radix))
<1>1. radix \in Nat /\ radix >= 2 /\ radix \in {8, 10, 16}
      BY SMT DEF Radices
<1>2. PICK g : /\ Spells(num, radix, digit, g[num])
               /\ g = [x \in 0 .. num |-> IF x < radix THEN <<x>> ELSE <<x % radix>> \o g[x \div radix]]
      BY <1>1, LowestIs, Zenon
<1>3. /\ num = 0 => g[num] = <<0>>
      /\ num # 0 => Digital(num, g[num], radix)
      BY <1>1, <1>2, LowestRight, Zenon
<1>4. g[num] = Tmp(num, radix)
  <2>1. CASE num = 0
        BY <2>1, <1>3, Zenon DEF Tmp
  <2>2. CASE num # 0
    <3>1. Digital(num, Tmp(num, radix), radix)
          BY <1>1, <2>2, TmpRight, Zenon
    <3> QED BY <2>2, <3>1, <1>3, DigitsUnique, Zenon
  <2> QED BY <2>1, <2>2, Zenon
<1> QED BY <1>2, <1>4, Zenon

\* In base 8 and 10 both tables give the same.
LEMMA TablesAgree ==
    ASSUME NEW num \in Nat, NEW radix \in {8, 10}, radix = 10 => num < 2 ^ LongLongBits
    PROVE  DigitsOf(num, radix, Upper) = DigitsOf(num, radix, Lower)
<1> DEFINE tmp == Tmp(num, radix)
           l == Len(tmp)
           D == 0 .. 9
           top == 2 ^ LongLongBits
<1>1. radix \in Radices /\ radix \in {8, 10, 16} /\ radix - 1 <= 9
      BY SMT DEF Radices
<1>2. /\ DigitsOf(num, radix, Upper) = [i \in DOMAIN tmp |-> Upper[tmp[l + 1 - i] + 1]]
      /\ DigitsOf(num, radix, Lower) = [i \in DOMAIN tmp |-> Lower[tmp[l + 1 - i] + 1]]
  <2>1. Spells(num, radix, Upper, tmp) /\ Spells(num, radix, Lower, tmp)
        BY <1>1, DigitsAre, Zenon
  <2> QED BY <2>1, Zenon DEF Spells
<1>3. tmp \in Seq(D)
  <2>1. CASE num = 0
    <3>1. tmp = <<0>>
          BY <2>1, Zenon DEF Tmp
    <3>2. 0 \in D
          BY SMT
    <3> HIDE DEF tmp, D
    <3> QED BY <3>1, <3>2, SMT
  <2>2. CASE num # 0
    <3>1. Digital(num, tmp, radix)
          BY <1>1, <2>2, TmpRight, Zenon
    <3>2. tmp \in Seq(0 .. (radix - 1))
          BY <3>1, Zenon DEF Digital
    <3>3. 0 .. (radix - 1) \subseteq D
          BY <1>1, SMT
    <3> HIDE DEF tmp, D
    <3> QED BY <3>2, <3>3, SeqOfMore, Zenon
  <2> QED BY <2>1, <2>2, Zenon
<1>4. \A p \in D : Upper[p + 1] = Lower[p + 1]
  <2>1. ASSUME NEW k \in 1 .. 10 PROVE Upper[k] = Lower[k]
        BY SMT DEF Upper, Lower
  <2>2. \A p \in D : p + 1 \in 1 .. 10
        BY SMT
  <2> QED BY <2>1, <2>2, Zenon
<1> HIDE DEF D, tmp
<1>5. l \in Nat /\ DOMAIN tmp = 1 .. l
      BY <1>3, LenProperties, Zenon
<1>6. ASSUME NEW i \in DOMAIN tmp PROVE Upper[tmp[l + 1 - i] + 1] = Lower[tmp[l + 1 - i] + 1]
  <2>1. l + 1 - i \in 1 .. l
        BY <1>5, SMT
  <2>2. tmp[l + 1 - i] \in D
        BY <1>3, <2>1, ElementOfSeq, Zenon
  <2> QED BY <2>2, <1>4, Zenon
<1> QED BY <1>2, <1>6, Zenon

-----------------------------------------------------------------------------
(* Formats: the number taken from an argument is the one meant.            *)

\* The number that vsprintf.c writes for an argument.
Takes(it) == Meant(it, it.conv \in {"d", "i"} /\ it.qual \notin {"z", "Z"})

\* A word read as signed, in its two halves.
LEMMA SignedWord ==
    ASSUME NEW x \in Nat, NEW bits \in Nat \ {0}
    PROVE  /\ 2 ^ bits \in Nat \ {0} /\ x % 2 ^ bits \in 0 .. (2 ^ bits - 1)
           /\ \/ AsSigned(x, bits) = x % 2 ^ bits
              \/ /\ AsSigned(x, bits) = (x % 2 ^ bits) - 2 ^ bits
                 /\ x % 2 ^ bits > 0
<1> DEFINE m == 2 ^ bits
           h == 2 ^ (bits - 1)
<1>1. m \in Nat \ {0} /\ h \in Nat \ {0}
      BY BitsAre, Zenon
<1>2. AsSigned(x, bits) = IF x % m >= h THEN (x % m) - m ELSE x % m
      BY Zenon DEF AsSigned, LowBits
<1> HIDE DEF m, h
<1>3. x % m \in 0 .. (m - 1)
      BY <1>1, SMT
<1>4. x % m >= h => x % m > 0
      BY <1>1, <1>3, SMT
<1>5. /\ m \in Nat \ {0} /\ x % m \in 0 .. (m - 1)
      /\ \/ AsSigned(x, bits) = x % m
         \/ AsSigned(x, bits) = (x % m) - m /\ x % m > 0
      BY <1>1, <1>2, <1>3, <1>4, Zenon
<1> QED BY <1>5, Zenon DEF m

\* What number is given, and what is meant, by the bits of the argument.
LEMMA NumCases ==
    ASSUME NEW it, it.arg \in Nat, it.conv = "p" \/ it.qual \in {"z", "Z"} => it.arg < 2 ^ IntBits
    PROVE  /\ Bits(it) \in Nat \ {0} /\ Bits(it) <= LongLongBits
           /\ Takes(it) = IF Signed(it) /\ it.qual \notin {"z", "Z"} THEN AsSigned(it.arg, Bits(it))
                          ELSE it.arg % 2 ^ Bits(it)
           /\ \/ Num(it) = Takes(it)
              \/ /\ ~Signed(it) /\ Bits(it) = LongLongBits
                 /\ Num(it) = AsSigned(it.arg, LongLongBits)
<1> DEFINE w == Bits(it)
           low == it.arg % 2 ^ w
<1>1. w \in Nat \ {0} /\ w <= LongLongBits
  <2>1. ShortBits <= LongLongBits /\ IntBits <= LongLongBits /\ LongLongBits <= LongLongBits
        BY WidthsAre, SMT
  <2> QED BY <2>1, WidthsAre, SMT DEF Bits
<1>2. Takes(it) = IF Signed(it) /\ it.qual \notin {"z", "Z"} /\ low >= 2 ^ (w - 1) THEN low - 2 ^ w ELSE low
      BY Zenon DEF Takes, Meant, Signed
<1>3. AsSigned(it.arg, w) = IF low >= 2 ^ (w - 1) THEN low - 2 ^ w ELSE low
      BY Zenon DEF AsSigned, LowBits
<1> HIDE DEF w, low
<1>4. Takes(it) = IF Signed(it) /\ it.qual \notin {"z", "Z"} THEN AsSigned(it.arg, w) ELSE low
      BY <1>2, <1>3, Zenon
<1>5. \/ Num(it) = Takes(it)
      \/ ~Signed(it) /\ w = LongLongBits /\ Num(it) = AsSigned(it.arg, LongLongBits)
  <2>1. CASE it.conv = "p" \/ it.qual \in {"z", "Z"}
    <3>1. Num(it) = it.arg
          BY <2>1, Zenon DEF Num
    <3>2. w = IntBits
      <4>1. CASE it.conv = "p"
            BY <4>1, Zenon DEF w, Bits
      <4>2. CASE it.conv # "p"
        <5>1. it.qual \in {"z", "Z"}
              BY <2>1, <4>2, Zenon
        <5> QED BY <4>2, <5>1, SMT DEF w, Bits
      <4> QED BY <4>1, <4>2, Zenon
    <3>3. low = it.arg
      <4>1. it.arg < 2 ^ IntBits
            BY <2>1, Zenon
      <4>2. 2 ^ IntBits \in Nat
            BY WidthsAre, BitsAre, SMT
      <4> QED BY <3>2, <4>1, <4>2, SmallMod, Zenon DEF low
    <3>4. Signed(it) => it.qual \in {"z", "Z"}
          BY <2>1, SMT DEF Signed
    <3> QED BY <3>1, <3>3, <3>4, <1>4, Zenon
  <2>2. CASE it.conv # "p" /\ it.qual \notin {"z", "Z"}
    <3>1. CASE it.qual = "L"
      <4>1. w = LongLongBits
            BY <2>2, <3>1, SMT DEF w, Bits
      <4>2. Num(it) = AsSigned(it.arg, LongLongBits)
            BY <2>2, <3>1, SMT DEF Num
      <4> QED BY <2>2, <4>1, <4>2, <1>4, Zenon
    <3>2. CASE it.qual = "h"
      <4>1. w = ShortBits
            BY <2>2, <3>2, SMT DEF w, Bits
      <4>2. Num(it) = IF Signed(it) THEN AsSigned(it.arg, ShortBits) ELSE it.arg % 2 ^ ShortBits
            BY <2>2, <3>2, SMT DEF Num
      <4> QED BY <2>2, <4>1, <4>2, <1>4, Zenon DEF low
    <3>3. CASE it.qual \notin {"L", "h"}
      <4>1. w = IntBits
            BY <2>2, <3>3, SMT DEF w, Bits
      <4>2. Num(it) = IF Signed(it) THEN AsSigned(it.arg, IntBits) ELSE it.arg % 2 ^ IntBits
            BY <2>2, <3>3, SMT DEF Num
      <4> QED BY <2>2, <4>1, <4>2, <1>4, Zenon DEF low
    <3> QED BY <3>1, <3>2, <3>3, Zenon
  <2> QED BY <2>1, <2>2, Zenon
<1> QED BY <1>1, <1>4, <1>5, Zenon DEF w, low

\* A number without its sign.
Taking(it)   == IF Signed(it) /\ Num(it) < 0 THEN -Num(it) ELSE Num(it)
Magnitude(x) == IF x < 0 THEN -x ELSE x

\* The sign written is that of this number, and the digits are its digits.
LEMMA MeantIs ==
    ASSUME NEW it, IsItem(it), it.kind = "dir", it.conv \in Numeric, ~Runaway(it)
    PROVE  /\ Signed(it) /\ Num(it) < 0 <=> Takes(it) < 0
           /\ Magnitude(Takes(it)) \in Nat /\ Magnitude(Takes(it)) < 2 ^ LongLongBits
           /\ Tmp(Taking(it), Base(it)) = Tmp(Magnitude(Takes(it)), Base(it))
<1> DEFINE w == Bits(it)
           m == 2 ^ w
           low == it.arg % m
           u == Num(it)
           v == Takes(it)
           top == 2 ^ LongLongBits
<1>1. it.arg \in Nat /\ (it.conv = "p" \/ it.qual \in {"z", "Z"} => it.arg < 2 ^ IntBits)
      BY ItemIs, Zenon
<1>2. /\ w \in Nat \ {0} /\ w <= LongLongBits
      /\ v = IF Signed(it) /\ it.qual \notin {"z", "Z"} THEN AsSigned(it.arg, w) ELSE low
      /\ \/ u = v
         \/ ~Signed(it) /\ w = LongLongBits /\ u = AsSigned(it.arg, w)
  <2>1. /\ Bits(it) \in Nat \ {0} /\ Bits(it) <= LongLongBits
        /\ Takes(it) = IF Signed(it) /\ it.qual \notin {"z", "Z"} THEN AsSigned(it.arg, Bits(it))
                       ELSE it.arg % 2 ^ Bits(it)
        /\ \/ Num(it) = Takes(it)
           \/ /\ ~Signed(it) /\ Bits(it) = LongLongBits
              /\ Num(it) = AsSigned(it.arg, LongLongBits)
        BY <1>1, NumCases, Zenon
  <2> QED BY <2>1, Zenon
<1>3. /\ m \in Nat \ {0} /\ low \in 0 .. (m - 1)
      /\ AsSigned(it.arg, w) = low \/ (AsSigned(it.arg, w) = low - m /\ low > 0)
      BY <1>1, <1>2, SignedWord, Zenon
<1>4. m <= top /\ top \in Nat \ {0}
  <2>1. w \in Nat /\ LongLongBits \in Nat
        BY <1>2, WidthsAre, SMT
  <2> QED BY <2>1, <1>2, TwoRises, TwoExp, Zenon
<1>5. /\ v \in Int /\ Magnitude(v) \in Nat /\ Magnitude(v) < top
      /\ v < 0 => Signed(it)
  <2>1. v = low \/ (v = low - m /\ low > 0 /\ Signed(it))
        BY <1>2, <1>3, Zenon
  <2> HIDE DEF v, low, m, top
  <2>2. CASE v = low
        BY <2>2, <1>3, <1>4, SMT DEF Magnitude
  <2>3. CASE v = low - m /\ low > 0 /\ Signed(it)
    <3>1. v \in Int /\ v < 0 /\ -v \in Nat /\ -v < top
          BY <2>3, <1>3, <1>4, SMT
    <3> QED BY <2>3, <3>1, Zenon DEF Magnitude
  <2> QED BY <2>1, <2>2, <2>3, Zenon
<1>6. CASE u = v
  <2>1. Signed(it) /\ u < 0 <=> v < 0
        BY <1>5, <1>6, Zenon
  <2>2. Taking(it) = Magnitude(v)
        BY <2>1, <1>6, Zenon DEF Taking, Magnitude
  <2> QED BY <1>5, <2>1, <2>2, Zenon
<1>7. CASE u # v
  <2>1. ~Signed(it) /\ w = LongLongBits /\ v = low /\ u = low - m /\ low > 0 /\ m = top
        BY <1>2, <1>3, <1>7, Zenon
  <2>2. u < 0 /\ ~(v < 0) /\ v \in Nat /\ v # 0 /\ u # 0 /\ v < top
    <3> HIDE DEF u, v, low, m, top
    <3> QED BY <2>1, <1>3, <1>4, SMT
  <2>3. Base(it) = 10
    <3>1. it.conv # "p"
      <4>1. it.conv = "p" => Num(it) \in Nat
            BY <1>1, NumIs, Zenon
      <4>2. ~(u \in Nat)
        <5> HIDE DEF u
        <5> QED BY <2>2, SMT
      <4> QED BY <4>1, <4>2, Zenon
    <3>2. it.conv \notin {"x", "X", "o"}
          BY <2>1, <2>2, Zenon DEF Runaway
    <3> QED BY <3>1, <3>2, SMT DEF Base
  <2>4. u % top = v /\ v % top = v
    <3> HIDE DEF u, v, low, m, top
    <3>1. u = v - top
          BY <2>1, Zenon
    <3>2. (v - top) % top = v
          BY <2>2, <1>4, SMT
    <3>3. v % top = v
          BY <2>2, <1>4, SmallMod, SMT
    <3> QED BY <3>1, <3>2, <3>3, Zenon
  <2>5. Taking(it) = u /\ Magnitude(v) = v
        BY <2>1, <2>2, Zenon DEF Taking, Magnitude
  <2>6. Tmp(u, 10) = Tmp(v, 10)
    <3>1. Tmp(u, 10) = PutDec(u % top)
          BY <2>2, Zenon DEF Tmp
    <3>2. Tmp(v, 10) = PutDec(v % top)
          BY <2>2, Zenon DEF Tmp
    <3> QED BY <3>1, <3>2, <2>4, Zenon
  <2> QED BY <2>1, <2>2, <2>3, <2>5, <2>6, <1>5, Zenon
<1> QED BY <1>6, <1>7, Zenon

-----------------------------------------------------------------------------
(* Formats: what an item adds to the text is what is wanted of it.         *)

\* Sequences are joined in any grouping.
Regroups(a, c, e) == (a \o c) \o e = a \o (c \o e)

LEMMA Grouping ==
    ASSUME NEW S, NEW a \in Seq(S), NEW c \in Seq(S), NEW e \in Seq(S)
    PROVE  Regroups(a, c, e) /\ c \o e \in Seq(S)
<1>1. (a \o c) \o e = a \o (c \o e)
      BY SMT
<1>2. c \o e \in Seq(S)
      BY SMT
<1> QED BY <1>1, <1>2, Zenon DEF Regroups

\* A sign, a prefix, two kinds of zeros and digits between two kinds of blanks.
FieldRegroups(a, c, e, f, g, h, k) ==
    a \o c \o e \o f \o g \o h \o k = (a \o (((c \o e) \o (f \o g)) \o h)) \o k

LEMMA Regrouped ==
    ASSUME NEW S, NEW a \in Seq(S), NEW c \in Seq(S), NEW e \in Seq(S), NEW f \in Seq(S),
           NEW g \in Seq(S), NEW h \in Seq(S), NEW k \in Seq(S)
    PROVE  FieldRegroups(a, c, e, f, g, h, k)
<1> DEFINE x == c \o e
           y == x \o f
           z == y \o g
<1>1. Regroups(a, c, e) /\ x \in Seq(S)
      BY Grouping, Zenon
<1> HIDE DEF x
<1>2. Regroups(a, x, f) /\ Regroups(x, f, g) /\ y \in Seq(S)
      BY <1>1, Grouping, Zenon
<1> HIDE DEF y
<1>3. Regroups(a, y, g) /\ z \in Seq(S)
      BY <1>2, Grouping, Zenon
<1> HIDE DEF z
<1>4. Regroups(a, z, h)
      BY <1>3, Grouping, Zenon
<1>5. z = (c \o e) \o (f \o g)
      BY <1>2, Zenon DEF x, y, z, Regroups
<1>6. a \o c \o e = a \o x /\ (a \o x) \o f = a \o y /\ (a \o y) \o g = a \o z /\ (a \o z) \o h = a \o (z \o h)
      BY <1>1, <1>2, <1>3, <1>4, Zenon DEF Regroups, x, y, z
<1> QED BY <1>5, <1>6, Zenon DEF FieldRegroups

\* How often a character is repeated.
Above(u) == IF u > 0 THEN u ELSE 0

\* Repeating k times and l times is repeating k + l times.
LEMMA Repetitions ==
    ASSUME NEW S, NEW c \in S, NEW k \in Nat, NEW l \in Nat
    PROVE  /\ [i \in 1 .. k |-> c] \in Seq(S) /\ Len([i \in 1 .. k |-> c]) = k
           /\ [i \in 1 .. k |-> c] \o [i \in 1 .. l |-> c] = [i \in 1 .. (k + l) |-> c]
<1> DEFINE e == [i \in 1 .. k |-> c]
           f == [i \in 1 .. l |-> c]
           g == [i \in 1 .. (k + l) |-> c]
<1>1. /\ e \in Seq(S) /\ Len(e) = k /\ (\A i \in 1 .. k : e[i] = c)
      /\ f \in Seq(S) /\ Len(f) = l /\ (\A i \in 1 .. l : f[i] = c)
      /\ g \in Seq(S) /\ Len(g) = k + l /\ (\A i \in 1 .. (k + l) : g[i] = c)
      BY SMT
<1> HIDE DEF e, f, g
<1>2. e \o f = g
  <2>1. /\ e \o f \in Seq(S) /\ Len(e \o f) = k + l
        /\ \A i \in 1 .. k : (e \o f)[i] = e[i]
        /\ \A i \in 1 .. (k + l) : i > k => (e \o f)[i] = f[i - k]
        BY <1>1, SMT
  <2>2. ASSUME NEW i \in 1 .. (k + l) PROVE (e \o f)[i] = g[i]
    <3>1. CASE i <= k
      <4>1. i \in 1 .. k
            BY <3>1, SMT
      <4> QED BY <4>1, <1>1, <2>1, Zenon
    <3>2. CASE ~(i <= k)
      <4>1. i > k /\ i - k \in 1 .. l
            BY <3>2, SMT
      <4> QED BY <4>1, <1>1, <2>1, Zenon
    <3> QED BY <3>1, <3>2, Zenon
  <2> QED BY <1>1, <2>1, <2>2, SeqEqual, Zenon
<1> QED BY <1>1, <1>2, Zenon DEF e, f, g

\* Padding: its length is all there is to it.
LEMMA RepIs ==
    ASSUME NEW c \in Chars, NEW u \in Int, NEW v \in Int
    PROVE  /\ Rep(c, u) \in Seq(Chars) /\ Len(Rep(c, u)) = Above(u)
           /\ Above(u) \in Nat /\ Above(v) \in Nat
           /\ Above(u) = Above(v) => Rep(c, u) = Rep(c, v)
           /\ Rep(c, u) \o Rep(c, v) = Rep(c, Above(u) + Above(v))
<1> DEFINE k == Above(u)
           l == Above(v)
<1>1. k \in Nat /\ l \in Nat
      BY SMT DEF Above
<1>2. /\ Rep(c, u) = [i \in 1 .. k |-> c]
      /\ Rep(c, v) = [i \in 1 .. l |-> c]
      BY Zenon DEF Rep, Above
<1> HIDE DEF k, l
<1>3. Rep(c, k + l) = [i \in 1 .. (k + l) |-> c]
  <2> DEFINE q == k + l
  <2>1. (IF q > 0 THEN q ELSE 0) = q
        BY <1>1, SMT
  <2> HIDE DEF q
  <2>2. Rep(c, q) = [i \in 1 .. q |-> c]
        BY <2>1, Zenon DEF Rep
  <2> QED BY <2>2, Zenon DEF q
<1>4. /\ Rep(c, u) \in Seq(Chars) /\ Len(Rep(c, u)) = k
      /\ Rep(c, u) \o Rep(c, v) = Rep(c, k + l)
      BY <1>1, <1>2, <1>3, Repetitions, SMT
<1>5. k = l => Rep(c, u) = Rep(c, v)
      BY <1>2, Zenon
<1> QED BY <1>1, <1>4, <1>5, Zenon DEF k, l

\* No padding.
LEMMA NoPadding ==
    ASSUME NEW c, NEW u \in Int, ~(u > 0)
    PROVE  Rep(c, u) = <<>>
<1>1. (IF u > 0 THEN u ELSE 0) = 0
      BY Zenon
<1>2. Rep(c, u) = [i \in 1 .. 0 |-> c]
      BY <1>1, Zenon DEF Rep
<1>3. [i \in 1 .. 0 |-> c] = <<>>
      BY SMT
<1> QED BY <1>2, <1>3, Zenon

\* As many as one is as many as the other.
LEMMA SameCount == ASSUME NEW k \in Nat, NEW l \in Nat, 1 .. k = 1 .. l PROVE k = l
  BY SMT

\* How number lays out a field, by lengths: w wide, the sign and the prefix h long, l digits,
\* a precision of p, filled with zeros or not.  The zeros of the precision and those of the
\* width together, and what is left for blanks.
LaidOut(w, h, p, l, zero) ==
    LET room  == w - h - Greater(p, l)
        least == IF zero THEN Greater(p, w - h) ELSE p
    IN  /\ room \in Int /\ least \in Int /\ least - l \in Int /\ Greater(p, l) - l \in Int
        /\ Above(IF zero THEN room ELSE 0) + Above(Greater(p, l) - l) = Above(least - l)
        /\ zero => ~(w - (h + Above(least - l) + l) > 0)
        /\ ~zero => w - (h + Above(least - l) + l) = room

\* It is so for all lengths.
LEMMA Layout ==
    ASSUME NEW w \in Int, NEW h \in Nat, NEW p \in Int, NEW l \in Nat, NEW zero \in BOOLEAN
    PROVE  LaidOut(w, h, p, l, zero)
<1>1. CASE zero
      BY <1>1, SMT DEF Greater, Above, LaidOut
<1>2. CASE ~zero
      BY <1>2, SMT DEF Greater, Above, LaidOut
<1> QED BY <1>1, <1>2, Zenon

\* What stands for the sign, and the prefix.
PrefixHere(it) ==
    IF "#" \in it.flags
    THEN CASE it.conv = "o" -> <<"0">> [] it.conv \in {"x", "X", "p"} -> <<"0", "x">> [] OTHER -> <<>>
    ELSE <<>>

\* They are those AsHere gives.
LEMMA HeadIs ==
    ASSUME NEW it, it.conv \in Numeric, Signed(it) /\ Num(it) < 0 <=> Takes(it) < 0
    PROVE  /\ SignChar(it) = IF Takes(it) < 0 THEN <<"-">> ELSE Plus(it)
           /\ PrefixOf(it) = PrefixHere(it)
<1>1. SignChar(it) = IF Takes(it) < 0 THEN <<"-">> ELSE Plus(it)
      BY Zenon DEF SignChar, Signed, Plus
<1> DEFINE prefix == CASE it.conv = "o" -> <<"0">> [] it.conv \in {"x", "X", "p"} -> <<"0", "x">> [] OTHER -> <<>>
<1>2. PrefixOf(it) = IF "#" \in it.flags THEN prefix ELSE <<>>
  <2>1. CASE it.conv = "o"
    <3>1. Base(it) = 8 /\ prefix = <<"0">>
          BY <2>1, SMT DEF Base
    <3>2. Base(it) # 10
          BY <3>1, SMT
    <3> HIDE DEF prefix
    <3> QED BY <3>1, <3>2, Zenon DEF PrefixOf
  <2>2. CASE it.conv \in {"x", "X", "p"}
    <3>1. Base(it) = 16 /\ prefix = <<"0", "x">>
          BY <2>2, SMT DEF Base
    <3>2. Base(it) # 10 /\ Base(it) # 8
          BY <3>1, SMT
    <3> HIDE DEF prefix
    <3> QED BY <3>1, <3>2, Zenon DEF PrefixOf
  <2>3. CASE it.conv \notin {"o", "x", "X", "p"}
    <3>1. Base(it) = 10 /\ prefix = <<>>
          BY <2>3, SMT DEF Base
    <3> HIDE DEF prefix
    <3> QED BY <3>1, Zenon DEF PrefixOf
  <2> QED BY <2>1, <2>2, <2>3, Zenon
<1> QED BY <1>1, <1>2, Zenon DEF PrefixHere

\* What number writes, for every directive whose digits end: sign, prefix, zeros, digits
\* and blanks.
LEMMA NumberHere ==
    ASSUME NEW it, IsItem(it), it.kind = "dir", it.conv \in Numeric, ~Runaway(it)
    PROVE  Number(it) \in Seq(Chars) /\ Number(it) = AsHere(it)
<1>1. it.width \in Int /\ it.prec \in Int /\ it.arg \in Nat
  <2>1. it.width \in Int /\ it.prec \in Nat \cup {None} /\ it.arg \in Nat
        BY ItemIs, Zenon
  <2> QED BY <2>1, SMT DEF None
<1> DEFINE radix == Base(it)
           mag == Magnitude(Takes(it))
           tmp == Tmp(Taking(it), radix)
           l == Len(tmp)
           digit == IF "#" \in it.flags THEN Lower ELSE Upper
           text1 == [i \in DOMAIN tmp |-> digit[tmp[Len(tmp) + 1 - i] + 1]]
           sign == SignChar(it)
           prefix == PrefixOf(it)
           prec == Greater(it.prec, l)
           room == Room(it, prec)
           h == Len(sign) + Len(prefix)
           least == IF ZeroPad(it) THEN Greater(it.prec, Width(it) - h) ELSE it.prec
           r1 == Rep(" ", IF Left(it) \/ ZeroPad(it) THEN 0 ELSE room)
           r2 == Rep("0", IF ZeroPad(it) THEN room ELSE 0)
           r3 == Rep("0", prec - l)
           r4 == Rep(" ", IF Left(it) THEN room ELSE 0)
           zeros == Rep("0", least - l)
           body == ((sign \o prefix) \o zeros) \o text1
\* The digits.
<1>2. /\ Signed(it) /\ Num(it) < 0 <=> Takes(it) < 0
      /\ mag \in Nat /\ mag < 2 ^ LongLongBits
      /\ tmp = Tmp(mag, radix)
      BY MeantIs, Zenon
<1>3. radix \in Radices /\ radix \in {8, 10, 16}
      BY SMT DEF Base, Radices
<1>4. tmp \in Seq(0 .. 15)
  <2> HIDE DEF mag, radix, tmp
  <2>1. mag \in Int
        BY <1>2, SMT
  <2> QED BY <1>2, <1>3, <2>1, TmpIs, Zenon
<1>5. DigitsOf(mag, radix, digit) = text1
  <2> HIDE DEF mag, radix, tmp, digit
  <2>1. Spells(mag, radix, digit, Tmp(mag, radix))
        BY <1>2, <1>3, DigitsAre, Zenon
  <2>2. Spells(mag, radix, digit, tmp)
        BY <2>1, <1>2, Zenon
  <2> QED BY <2>2, Zenon DEF Spells
<1> HIDE DEF tmp
<1>6. digit \in {Upper, Lower}
      BY Zenon
<1>7. text1 \in Seq(Chars)
  <2> HIDE DEF digit
  <2> QED BY <1>4, <1>6, DigitText, Zenon
<1>8. l \in Nat /\ Len(text1) = l
  <2> DEFINE E == 0 .. 15
  <2> HIDE DEF E
  <2>1. tmp \in Seq(E)
        BY <1>4, Zenon DEF E
  <2>2. l \in Nat /\ DOMAIN tmp = 1 .. l
        BY <2>1, LenProperties, Zenon
  <2>3. DOMAIN text1 = DOMAIN tmp
        BY Zenon
  <2> HIDE DEF text1, l
  <2>4. Len(text1) \in Nat /\ DOMAIN text1 = 1 .. Len(text1)
        BY <1>7, LenProperties, Zenon
  <2> QED BY <2>2, <2>3, <2>4, SameCount, Zenon
<1> HIDE DEF text1, l, mag, radix, digit
\* What stands before them.
<1>9. /\ sign \in Seq(Chars) /\ prefix \in Seq(Chars) /\ Len(sign) \in Nat /\ Len(prefix) \in Nat
      /\ sign \o prefix \in Seq(Chars) /\ Len(sign \o prefix) = h
  <2>1. sign \in Seq(Chars) /\ prefix \in Seq(Chars)
        BY SignIs, PrefixIs, Zenon
  <2> HIDE DEF sign, prefix
  <2> QED BY <2>1, JoinedAt, Zenon
<1>10. Width(it) \in Int
       BY <1>1, WidthIs, Zenon
<1> HIDE DEF sign, prefix
<1>11. h \in Nat /\ room = Width(it) - h - prec
  <2>1. room = Width(it) - Len(sign) - Len(prefix) - prec
        BY Zenon DEF Room, sign, prefix
  <2>2. prec \in Int
        BY <1>1, <1>8, SMT DEF Greater
  <2> HIDE DEF prec, room
  <2> QED BY <1>9, <1>10, <2>1, <2>2, SMT
<1> HIDE DEF h, room
<1> DEFINE w == Width(it)
           zero == ZeroPad(it)
<1>12. /\ room \in Int /\ least \in Int /\ least - l \in Int /\ prec - l \in Int
       /\ Above(IF zero THEN room ELSE 0) + Above(prec - l) = Above(least - l)
       /\ zero => ~(w - (h + Above(least - l) + l) > 0)
       /\ ~zero => w - (h + Above(least - l) + l) = room
  <2>1. zero \in BOOLEAN
        BY Zenon DEF ZeroPad
  <2>2. w \in Int /\ least = IF zero THEN Greater(it.prec, w - h) ELSE it.prec
        BY <1>10, Zenon
  <2>3. room = w - h - Greater(it.prec, l)
        BY <1>11, Zenon
  <2> HIDE DEF zero, w, least
  <2>4. LaidOut(w, h, it.prec, l, zero)
        BY <1>1, <1>8, <1>11, <2>1, <2>2, Layout, Zenon
  <2> DEFINE room1  == w - h - Greater(it.prec, l)
             least1 == IF zero THEN Greater(it.prec, w - h) ELSE it.prec
  <2>5. /\ room1 \in Int /\ least1 \in Int /\ least1 - l \in Int /\ prec - l \in Int
        /\ Above(IF zero THEN room1 ELSE 0) + Above(prec - l) = Above(least1 - l)
        /\ zero => ~(w - (h + Above(least1 - l) + l) > 0)
        /\ ~zero => w - (h + Above(least1 - l) + l) = room1
        BY <2>4, Zenon DEF LaidOut
  <2>6. room1 = room /\ least1 = least
        BY <2>2, <2>3, Zenon
  <2> HIDE DEF room1, least1, prec
  <2> QED BY <2>5, <2>6, Zenon
<1> HIDE DEF prec, least
\* Both kinds of zeros.
<1>13. " " \in Chars /\ "0" \in Chars /\ 0 \in Int /\ ~(0 > 0)
  <2>1. 0 \in Int /\ ~(0 > 0)
        BY SMT
  <2> QED BY <2>1, Zenon DEF Chars
<1>14. /\ (IF Left(it) \/ ZeroPad(it) THEN 0 ELSE room) \in Int
       /\ (IF ZeroPad(it) THEN room ELSE 0) \in Int
       /\ (IF Left(it) THEN room ELSE 0) \in Int
       BY <1>12, <1>13, Zenon
<1>15. /\ r1 \in Seq(Chars) /\ r2 \in Seq(Chars) /\ r3 \in Seq(Chars) /\ r4 \in Seq(Chars)
       /\ zeros \in Seq(Chars) /\ Len(zeros) = Above(least - l)
       BY <1>12, <1>13, <1>14, RepIs, Zenon
<1>16. r2 \o r3 = zeros
  <2> DEFINE u == IF ZeroPad(it) THEN room ELSE 0
             v == prec - l
             x == Above(u) + Above(v)
  <2>1. u \in Int /\ v \in Int /\ x = Above(least - l) /\ Above(u) \in Nat /\ Above(v) \in Nat
        BY <1>12, <1>13, <1>14, RepIs, Zenon
  <2>2. r2 \o r3 = Rep("0", x)
        BY <1>13, <2>1, RepIs, Zenon
  <2>3. x \in Int /\ Above(x) = Above(least - l)
    <3>1. least - l \in Int
          BY <1>12, Zenon
    <3> HIDE DEF u, v
    <3> QED BY <2>1, <3>1, SMT DEF Above
  <2> HIDE DEF x
  <2>4. least - l \in Int
        BY <1>12, Zenon
  <2>5. Rep("0", x) = Rep("0", least - l)
        BY <2>3, <2>4, <1>13, RepIs, Zenon
  <2>6. zeros = Rep("0", least - l)
        BY Zenon
  <2> QED BY <2>2, <2>5, <2>6, Zenon
<1>17. Number(it) = r1 \o sign \o prefix \o r2 \o r3 \o text1 \o r4
       BY Zenon DEF Number, Taking, tmp, text1, l, radix, digit, sign, prefix, prec, room
<1>18. body \in Seq(Chars) /\ Len(body) = h + Above(least - l) + l
  <2> HIDE DEF zeros
  <2>1. (sign \o prefix) \o zeros \in Seq(Chars) /\ Len((sign \o prefix) \o zeros) = h + Above(least - l)
        BY <1>9, <1>15, JoinedAt, Zenon
  <2> QED BY <2>1, <1>7, <1>8, JoinedAt, Zenon
<1> HIDE DEF body, zeros, r1, r2, r3, r4
\* The same parts in AsHere.
<1>19. AsHere(it) = PadTo(it, body)
  <2>1. sign = (IF Takes(it) < 0 THEN <<"-">> ELSE Plus(it)) /\ prefix = PrefixHere(it)
        BY <1>2, HeadIs, Zenon DEF sign, prefix
  <2> DEFINE minus  == Takes(it) < 0
             head   == (IF minus THEN <<"-">> ELSE Plus(it)) \o PrefixHere(it)
             digits == DigitsOf(IF minus THEN -Takes(it) ELSE Takes(it), Base(it), IF "#" \in it.flags THEN Lower ELSE Upper)
             few    == IF ZeroPad(it) THEN Greater(it.prec, Width(it) - Len(head)) ELSE it.prec
  <2>2. AsHere(it) = PadTo(it, head \o Rep("0", few - Len(digits)) \o digits)
        BY Zenon DEF AsHere, Field, Takes, PrefixHere
  <2>3. head = sign \o prefix
        BY <2>1, Zenon
  <2>4. digits = text1
        BY <1>5, Zenon DEF mag, radix, digit, Magnitude
  <2> HIDE DEF head, digits
  <2>5. few = least
        BY <2>3, <1>9, Zenon DEF least
  <2> HIDE DEF few
  <2> QED BY <2>2, <2>3, <2>4, <2>5, <1>8, Zenon DEF body, zeros
<1>20. PadTo(it, body) = (r1 \o body) \o r4
  <2> DEFINE pad == Rep(" ", Width(it) - Len(body))
  <2>1. PadTo(it, body) = IF Left(it) THEN body \o pad ELSE pad \o body
        BY Zenon DEF PadTo
  <2>2. Width(it) - Len(body) \in Int
    <3>1. Len(body) \in Nat
          BY <1>18, LenProperties, Zenon
    <3> QED BY <3>1, <1>10, SMT
  <2>3. pad \in Seq(Chars)
        BY <1>13, <2>2, RepIs, Zenon
  <2>4. body \o <<>> = body /\ <<>> \o body = body /\ pad \o body \in Seq(Chars)
        BY <1>18, <2>3, NothingBehind, TextJoined, Zenon
  <2>5. CASE Left(it)
    <3>1. ~ZeroPad(it)
          BY <2>5, Zenon DEF ZeroPad
    <3>2. r1 = <<>>
          BY <2>5, <1>13, NoPadding, Zenon DEF r1
    <3>3. r4 = pad
          BY <2>5, <3>1, <1>12, <1>18, Zenon DEF r4
    <3> QED BY <2>1, <2>4, <2>5, <3>2, <3>3, Zenon
  <2>6. CASE ~Left(it)
    <3>1. r4 = <<>>
          BY <2>6, <1>13, NoPadding, Zenon DEF r4
    <3>2. r1 = pad
      <4>1. CASE ZeroPad(it)
        <5>1. r1 = <<>>
              BY <4>1, <1>13, NoPadding, Zenon DEF r1
        <5>2. ~(Width(it) - Len(body) > 0)
              BY <4>1, <1>12, <1>18, Zenon
        <5>3. pad = <<>>
              BY <2>2, <5>2, NoPadding, Zenon
        <5> QED BY <5>1, <5>3, Zenon
      <4>2. CASE ~ZeroPad(it)
            BY <2>6, <4>2, <1>12, <1>18, Zenon DEF r1
      <4> QED BY <4>1, <4>2, Zenon
    <3>3. (pad \o body) \o <<>> = pad \o body
          BY <2>4, NothingBehind, Zenon
    <3> QED BY <2>1, <2>6, <3>1, <3>2, <3>3, Zenon
  <2> QED BY <2>5, <2>6, Zenon
<1>21. Number(it) = (r1 \o body) \o r4
  <2>1. FieldRegroups(r1, sign, prefix, r2, r3, text1, r4)
        BY <1>7, <1>9, <1>15, Regrouped, Zenon
  <2> QED BY <2>1, <1>16, <1>17, Zenon DEF FieldRegroups, body
<1>22. (r1 \o body) \o r4 \in Seq(Chars)
       BY <1>15, <1>18, TextJoined, Zenon
<1> QED BY <1>19, <1>20, <1>21, <1>22, Zenon

\* Where Departs finds nothing, the number is the one C means.
LEMMA SameMeant ==
    ASSUME NEW it, it.arg \in Nat, ~Departs(it)
    PROVE  /\ Meant(it, it.conv \in {"d", "i"}) = Takes(it)
           /\ Takes(it) = 0 <=> Meant(it, FALSE) = 0
           /\ it.conv \notin {"d", "i"} => Takes(it) = Meant(it, FALSE)
<1> DEFINE w == Bits(it)
           m == 2 ^ w
           h == 2 ^ (w - 1)
           low == it.arg % m
<1>1. m \in Nat \ {0} /\ h \in Nat \ {0}
  <2>1. w \in Nat \ {0}
        BY WidthsAre, SMT DEF Bits
  <2> QED BY <2>1, BitsAre, Zenon
<1>2. \A s : Meant(it, s) = IF s /\ low >= h THEN low - m ELSE low
      BY Zenon DEF Meant
<1> HIDE DEF w, m, h
<1>3. low \in 0 .. (m - 1)
      BY <1>1, SMT
<1> HIDE DEF low
<1>4. Meant(it, FALSE) = low
      BY <1>2, Zenon
<1>5. Meant(it, TRUE) = IF low >= h THEN low - m ELSE low
      BY <1>2, Zenon
<1>6. low >= h => low - m < 0 /\ low # 0 /\ low - m # 0
      BY <1>1, <1>3, SMT
<1>7. CASE it.conv \notin {"d", "i"}
  <2>1. Meant(it, it.conv \in {"d", "i"}) = low /\ Takes(it) = low
        BY <1>2, <1>7, Zenon DEF Takes
  <2> QED BY <2>1, <1>4, Zenon
<1>8. CASE it.conv \in {"d", "i"}
  <2>1. Meant(it, it.conv \in {"d", "i"}) = Meant(it, TRUE)
        BY <1>2, <1>8, Zenon
  <2>2. CASE it.qual \in {"z", "Z"}
    <3>1. ~(Meant(it, TRUE) < 0)
          BY <1>8, <2>2, Zenon DEF Departs
    <3>2. Meant(it, TRUE) = low
          BY <3>1, <1>5, <1>6, Zenon
    <3>3. Takes(it) = low
          BY <1>2, <1>8, <2>2, Zenon DEF Takes
    <3> QED BY <3>2, <3>3, <2>1, <1>4, <1>8, Zenon
  <2>3. CASE it.qual \notin {"z", "Z"}
    <3>1. Takes(it) = Meant(it, TRUE)
          BY <1>2, <1>8, <2>3, Zenon DEF Takes
    <3>2. Meant(it, TRUE) = 0 <=> low = 0
          BY <1>5, <1>6, Zenon
    <3> QED BY <3>1, <3>2, <2>1, <1>4, <1>8, Zenon
  <2> QED BY <2>2, <2>3, Zenon
<1> QED BY <1>7, <1>8, Zenon

\* And so is all that is written of it.
LEMMA ThereAsInC ==
    ASSUME NEW it, IsItem(it), it.kind = "dir", it.conv \in Numeric, ~Runaway(it), ~Departs(it)
    PROVE  InC(it) = AsHere(it)
<1>1. it.arg \in Nat /\ it.prec \in Int
  <2>1. it.prec \in Nat \cup {None} /\ it.arg \in Nat
        BY ItemIs, Zenon
  <2> QED BY <2>1, SMT DEF None
<1> DEFINE value == Meant(it, it.conv \in {"d", "i"})
           mag == Magnitude(value)
           none == value = 0 /\ it.prec = 0
           small == IF it.conv = "X" THEN Upper ELSE Lower
           here == IF "#" \in it.flags THEN Lower ELSE Upper
           digits == DigitsOf(mag, Base(it), here)
           octal == IF none \/ (value # 0 /\ it.prec <= Len(digits)) THEN <<"0">> ELSE <<>>
           hexa == IF value # 0 THEN <<"0", "x">> ELSE <<>>
           hexA == IF value # 0 THEN <<"0", "X">> ELSE <<>>
           prefix == CASE it.conv = "o" -> octal [] it.conv = "x" -> hexa [] it.conv = "X" -> hexA [] OTHER -> <<>>
           fill == "0" \in it.flags /\ ~Left(it) /\ it.prec = None
<1>2. /\ value = Takes(it)
      /\ value = 0 <=> Meant(it, FALSE) = 0
      /\ it.conv \notin {"d", "i"} => value = Meant(it, FALSE)
      BY <1>1, SameMeant, Zenon
<1>3. mag \in Nat /\ mag < 2 ^ LongLongBits
      BY <1>2, MeantIs, Zenon
<1>4. ~none
      BY <1>2, Zenon DEF Departs
\* The letters are those of the conversion.
<1>5. DigitsOf(mag, Base(it), small) = digits
  <2>1. CASE it.conv \in {"x", "X"}
    <3>1. it.conv = "X" <=> "#" \notin it.flags
      <4>1. ~(it.conv = "x" <=> "#" \notin it.flags)
            BY <2>1, Zenon DEF Departs
      <4>2. it.conv = "X" <=> ~(it.conv = "x")
            BY <2>1, SMT
      <4> QED BY <4>1, <4>2, Zenon
    <3>2. small = here
          BY <3>1, Zenon
    <3> QED BY <3>2, Zenon
  <2>2. CASE it.conv \notin {"x", "X"}
    <3>1. Base(it) \in {8, 10}
      <4>1. it.conv # "p"
            BY Zenon DEF Departs
      <4> QED BY <4>1, <2>2, SMT DEF Base
    <3> HIDE DEF mag
    <3>2. DigitsOf(mag, Base(it), Upper) = DigitsOf(mag, Base(it), Lower)
          BY <1>3, <3>1, TablesAgree, Zenon
    <3> QED BY <3>2, Zenon
  <2> QED BY <2>1, <2>2, Zenon
\* An octal number that # leads with a zero has none from its precision.
<1>6. "#" \in it.flags /\ it.conv = "o" => octal = <<"0">>
  <2> SUFFICES ASSUME "#" \in it.flags, it.conv = "o" PROVE octal = <<"0">>
      OBVIOUS
  <2>1. it.conv \notin {"d", "i"} /\ it.conv # "X" /\ Base(it) = 8
        BY SMT DEF Base
  <2>2. value = Meant(it, FALSE) /\ value # 0
        BY <2>1, <1>2, Zenon DEF Departs
  <2>3. mag = value
    <3>1. ~(value < 0)
      <4> HIDE DEF value
      <4>1. Signed(it) /\ Num(it) < 0 <=> value < 0
            BY <1>2, MeantIs, Zenon
      <4> QED BY <2>1, <4>1, Zenon DEF Signed
    <3> QED BY <3>1, Zenon DEF Magnitude
  <2>4. digits = DigitsOf(Meant(it, FALSE), 8, Lower)
        BY <2>1, <2>2, <2>3, Zenon
  <2>5. ~(it.prec > Len(digits))
        BY <2>4, Zenon DEF Departs
  <2>6. Len(digits) \in Nat
    <3> DEFINE tmp == Tmp(mag, 8)
    <3>1. 8 \in {8, 10, 16} /\ 8 \in Radices /\ 8 # 10
          BY SMT DEF Radices
    <3> HIDE DEF mag
    <3>2. mag \in Int
          BY <1>3, SMT
    <3>3. tmp \in Seq(0 .. 15)
          BY <1>3, <3>1, <3>2, TmpIs, Zenon
    <3>4. here \in {Upper, Lower}
          BY Zenon
    <3> HIDE DEF here
    <3>5. Spells(mag, 8, here, tmp)
          BY <1>3, <3>1, DigitsAre, Zenon
    <3> HIDE DEF tmp
    <3>6. DigitsOf(mag, 8, here) \in Seq(Chars)
          BY <3>3, <3>4, <3>5, DigitText, Zenon DEF Spells
    <3>7. digits \in Seq(Chars)
          BY <3>6, <2>1, Zenon
    <3> HIDE DEF digits
    <3> QED BY <3>7, LenProperties, Zenon
  <2>7. it.prec <= Len(digits)
    <3> HIDE DEF digits
    <3> QED BY <2>5, <2>6, <1>1, SMT
  <2> QED BY <2>2, <2>7, Zenon
<1>7. (IF "#" \in it.flags THEN prefix ELSE <<>>) = PrefixHere(it)
  <2>1. CASE "#" \notin it.flags
        BY <2>1, Zenon DEF PrefixHere
  <2>2. CASE "#" \in it.flags
    <3>1. PrefixHere(it) = CASE it.conv = "o" -> <<"0">> [] it.conv \in {"x", "X", "p"} -> <<"0", "x">> [] OTHER -> <<>>
          BY <2>2, Zenon DEF PrefixHere
    <3>2. CASE it.conv = "o"
      <4>1. prefix = octal
        <5> HIDE DEF octal, hexa, hexA
        <5> QED BY <3>2, SMT
      <4>2. PrefixHere(it) = <<"0">>
            BY <3>1, <3>2, SMT
      <4> QED BY <4>1, <4>2, <2>2, <3>2, <1>6, Zenon
    <3>3. CASE it.conv = "x"
      <4>1. prefix = hexa
        <5> HIDE DEF octal, hexa, hexA
        <5> QED BY <3>3, SMT
      <4>2. PrefixHere(it) = <<"0", "x">>
            BY <3>1, <3>3, SMT
      <4>3. hexa = <<"0", "x">>
        <5>1. value # 0
              BY <1>2, <2>2, <3>3, Zenon DEF Departs
        <5> QED BY <5>1, Zenon
      <4> QED BY <4>1, <4>2, <4>3, <2>2, Zenon
    <3>4. CASE it.conv \notin {"o", "x"}
      <4>1. it.conv # "X" /\ it.conv # "p"
        <5>1. it.conv = "X" => it.conv # "x"
              BY SMT
        <5> QED BY <5>1, <2>2, Zenon DEF Departs
      <4>2. prefix = <<>>
        <5> HIDE DEF octal, hexa, hexA
        <5> QED BY <3>4, <4>1, Zenon
      <4>3. PrefixHere(it) = <<>>
            BY <3>1, <3>4, <4>1, Zenon
      <4> QED BY <4>2, <4>3, <2>2, Zenon
    <3> QED BY <3>2, <3>3, <3>4, Zenon
  <2> QED BY <2>1, <2>2, Zenon
<1>8. fill = ZeroPad(it)
  <2>1. it.conv # "p"
        BY Zenon DEF Departs
  <2>2. "0" \in it.flags /\ ~Left(it) => it.prec = None
        BY Zenon DEF Departs
  <2>3. fill <=> ZeroPad(it)
        BY <2>1, <2>2, Zenon DEF ZeroPad
  <2>4. fill \in BOOLEAN /\ ZeroPad(it) \in BOOLEAN
        BY Zenon DEF ZeroPad
  <2> HIDE DEF fill
  <2> QED BY <2>3, <2>4, SMT
<1>9. AsHere(it) = Field(it, value, PrefixHere(it), digits, ZeroPad(it))
      BY <1>2, Zenon DEF AsHere, Takes, PrefixHere, Magnitude
<1>10. InC(it) = Field(it, value, IF "#" \in it.flags THEN prefix ELSE <<>>, digits, fill)
  <2> DEFINE first == IF none THEN <<>> ELSE DigitsOf(mag, Base(it), small)
             octal1 == IF none \/ (value # 0 /\ it.prec <= Len(first)) THEN <<"0">> ELSE <<>>
             prefix1 == CASE it.conv = "o" -> octal1 [] it.conv = "x" -> hexa [] it.conv = "X" -> hexA [] OTHER -> <<>>
  <2>1. InC(it) = Field(it, value, IF "#" \in it.flags THEN prefix1 ELSE <<>>, first, fill)
        BY Zenon DEF InC, Magnitude
  <2>2. first = digits
        BY <1>4, <1>5, Zenon
  <2>3. octal1 = octal
        BY <2>2, Zenon
  <2>4. prefix1 = prefix
    <3> HIDE DEF octal1, octal, hexa, hexA
    <3> QED BY <2>3, SMT
  <2> HIDE DEF first, digits, prefix1, prefix, value, fill
  <2> QED BY <2>1, <2>2, <2>4, SMT
<1> HIDE DEF prefix, digits, value, fill
<1> QED BY <1>7, <1>8, <1>9, <1>10, Zenon

\* What number writes is what is wanted.
LEMMA NumberRight ==
    ASSUME NEW it, IsItem(it), it.kind = "dir", it.conv \in Numeric, ~Runaway(it)
    PROVE  Number(it) \in Seq(Chars) /\ Number(it) = WantedNumber(it)
<1>1. Number(it) \in Seq(Chars) /\ Number(it) = AsHere(it)
      BY NumberHere, Zenon
<1>2. ~Departs(it) => InC(it) = AsHere(it)
      BY ThereAsInC, Zenon
<1> QED BY <1>1, <1>2, Zenon DEF WantedNumber

\* Padding to either side.
LEMMA PaddedIs ==
    ASSUME NEW it, it.width \in Int, NEW body \in Seq(Chars)
    PROVE  Padded(it, body) = PadTo(it, body)
<1> DEFINE u == Width(it) - Len(body)
           pad == Rep(" ", u)
           none == Rep(" ", 0)
<1>1. u \in Int /\ 0 \in Int /\ ~(0 > 0)
  <2>1. Width(it) \in Int
        BY WidthIs, Zenon
  <2>2. Len(body) \in Nat
        BY LenProperties, Zenon
  <2> QED BY <2>1, <2>2, SMT
<1>2. none = <<>>
      BY <1>1, NoPadding, Zenon
<1>3. pad \in Seq(Chars)
      BY <1>1, RepText, Zenon DEF Chars
<1>4. /\ <<>> \o body = body /\ body \o pad \in Seq(Chars)
      /\ pad \o body \in Seq(Chars)
      BY <1>3, NothingBehind, TextJoined, Zenon
<1>5. (pad \o body) \o <<>> = pad \o body
      BY <1>4, NothingBehind, Zenon
<1>6. CASE Left(it)
  <2>1. Padded(it, body) = none \o body \o pad
        BY <1>6, Zenon DEF Padded
  <2>2. PadTo(it, body) = body \o pad
        BY <1>6, Zenon DEF PadTo
  <2> QED BY <2>1, <2>2, <1>2, <1>4, Zenon
<1>7. CASE ~Left(it)
  <2>1. Padded(it, body) = pad \o body \o none
        BY <1>7, Zenon DEF Padded
  <2>2. PadTo(it, body) = pad \o body
        BY <1>7, Zenon DEF PadTo
  <2> QED BY <2>1, <2>2, <1>2, <1>5, Zenon
<1> QED BY <1>6, <1>7, Zenon

\* A sequence is all of itself.
LEMMA WholeSeq == ASSUME NEW S, NEW s \in Seq(S) PROVE SubSeq(s, 1, Len(s)) = s
  BY SMT

\* The precision cuts the string.
LEMMA CutIs ==
    ASSUME NEW it, it.arg \in Seq(Chars), it.prec \in Nat \cup {None}
    PROVE  LET s == IF it.arg = NullPtr THEN NullText ELSE it.arg
           IN  StringOf(it) = SubSeq(s, 1, IF it.prec \in DOMAIN s \cup {0} THEN it.prec ELSE Len(s))
<1> DEFINE s == IF it.arg = NullPtr THEN NullText ELSE it.arg
           cut == IF it.prec \in DOMAIN s \cup {0} THEN it.prec ELSE Len(s)
<1>1. s \in Seq(Chars)
  <2>1. ASSUME NEW S, NEW a \in S, NEW z \in S, NEW c \in S, NEW p \in S, NEW e \in S, NEW f \in S
        PROVE  <<a, z, c, p, e, f>> \in Seq(S)
        BY SMT
  <2>2. NullText \in Seq(Chars)
        BY <2>1, Zenon DEF NullText, Chars
  <2> QED BY <2>2, Zenon
<1>2. StringOf(it) = IF it.prec = None \/ it.prec >= Len(s) THEN s ELSE SubSeq(s, 1, it.prec)
      BY Zenon DEF StringOf
<1> HIDE DEF s
<1>3. SubSeq(s, 1, Len(s)) = s /\ Len(s) \in Nat /\ DOMAIN s = 1 .. Len(s)
      BY <1>1, WholeSeq, LenProperties, Zenon
<1> DEFINE l == Len(s)
<1> HIDE DEF l
<1>4. ASSUME it.prec = None \/ it.prec >= l
      PROVE  StringOf(it) = SubSeq(s, 1, cut)
  <2>1. cut = l
    <3>1. ASSUME it.prec \in 1 .. l \cup {0} PROVE it.prec = l
          BY <3>1, <1>3, <1>4, SMT DEF None, l
    <3> QED BY <3>1, <1>3, Zenon DEF l
  <2> QED BY <2>1, <1>2, <1>3, <1>4, Zenon DEF l
<1>5. ASSUME ~(it.prec = None \/ it.prec >= l)
      PROVE  StringOf(it) = SubSeq(s, 1, cut)
  <2>1. it.prec \in 1 .. l \cup {0}
    <3>1. it.prec \in Nat /\ l \in Nat
          BY <1>3, <1>5, Zenon DEF l
    <3> QED BY <3>1, <1>5, SMT
  <2>2. cut = it.prec
        BY <2>1, <1>3, Zenon DEF l
  <2> QED BY <2>2, <1>2, <1>5, Zenon DEF l
<1>6. StringOf(it) = SubSeq(s, 1, cut)
      BY <1>4, <1>5, Zenon
<1> QED BY <1>6, Zenon DEF s

\* What an item adds to the text is what is wanted of it.
LEMMA PieceRight ==
    ASSUME NEW it, IsItem(it), IsDir(it) /\ it.conv \in Numeric => ~Runaway(it)
    PROVE  Piece(it) \in Seq(Chars) /\ WantedText(it) = Piece(it)
<1>1. Piece(it) \in Seq(Chars)
      BY PieceText, Zenon DEF IsDir
<1>3. CASE ~IsDir(it)
  <2>1. it.kind = "lit"
        BY <1>3, Zenon DEF IsItem, IsDir
  <2>2. WantedText(it) = <<it.ch>> /\ Piece(it) = <<it.ch>>
        BY <1>3, <2>1, Zenon DEF WantedText, Piece
  <2> QED BY <1>1, <2>2, Zenon
<1>4. CASE IsDir(it)
  <2>1. /\ it.kind = "dir" /\ it.kind # "lit"
        /\ it.width \in Int /\ it.prec \in Nat \cup {None}
        /\ it.conv = "c" => it.arg \in STRING
        /\ it.conv = "s" => it.arg \in Seq(STRING)
    <3>1. it.kind = "dir" /\ it.kind # "lit"
          BY <1>4, SMT DEF IsDir
    <3> QED BY <3>1, ItemIs, Zenon
  <2>2. CASE it.conv \in Numeric
    <3>1. Piece(it) = Number(it) /\ WantedText(it) = WantedNumber(it)
          BY <1>4, <2>1, <2>2, Zenon DEF Piece, WantedText
    <3> QED BY <1>4, <2>1, <2>2, <3>1, NumberRight, Zenon
  <2>3. CASE it.conv \notin Numeric /\ it.conv = "c"
    <3>1. <<it.arg>> \in Seq(Chars)
          BY <2>1, <2>3, ShortTexts, Zenon DEF Chars
    <3>2. Piece(it) = Padded(it, <<it.arg>>)
          BY <2>1, <2>3, SMT DEF Piece, Nul
    <3>3. WantedText(it) = PadTo(it, <<it.arg>>)
          BY <1>4, <2>1, <2>3, SMT DEF WantedText
    <3>4. WantedText(it) = Piece(it)
          BY <2>1, <3>1, <3>2, <3>3, PaddedIs, Zenon
    <3> QED BY <1>1, <3>4, Zenon
  <2>4. CASE it.conv \notin Numeric /\ it.conv = "s"
    <3> DEFINE s == IF it.arg = NullPtr THEN NullText ELSE it.arg
               cut == SubSeq(s, 1, IF it.prec \in DOMAIN s \cup {0} THEN it.prec ELSE Len(s))
    <3>1. it.arg \in Seq(Chars)
      <4>1. STRING \subseteq Chars
            BY Zenon DEF Chars
      <4> QED BY <2>1, <2>4, <4>1, SeqOfMore, Zenon
    <3>2. StringOf(it) \in Seq(Chars) /\ StringOf(it) = cut
          BY <2>1, <3>1, StringText, CutIs, Zenon
    <3>3. Piece(it) = Padded(it, StringOf(it))
          BY <2>1, <2>4, SMT DEF Piece, Nul
    <3>4. WantedText(it) = PadTo(it, cut)
      <4> DEFINE z == PadTo(it, cut)
      <4>1. WantedText(it) = CASE it.conv = "c" -> PadTo(it, <<it.arg>>)
                               [] it.conv = "s" -> z
                               [] OTHER           -> Piece(it)
            BY <1>4, <2>4, Zenon DEF WantedText
      <4> HIDE DEF z
      <4>2. WantedText(it) = z
            BY <2>4, <4>1, SMT
      <4> QED BY <4>2, Zenon DEF z
    <3>5. WantedText(it) = Piece(it)
          BY <2>1, <3>2, <3>3, <3>4, PaddedIs, Zenon
    <3> QED BY <1>1, <3>5, Zenon
  <2>5. CASE it.conv \notin Numeric /\ it.conv \notin {"c", "s"}
    <3>1. WantedText(it) = Piece(it)
          BY <1>4, <2>5, Zenon DEF WantedText
    <3> QED BY <1>1, <3>1, Zenon
  <2> QED BY <2>2, <2>3, <2>4, <2>5, Zenon
<1> QED BY <1>3, <1>4, Zenon

-----------------------------------------------------------------------------
(* The text is what the format asks for                                    *)

\* What is wanted of the first items, and of one item more.
OneMore(f, k) == WantedUpTo(f, k + 1) = WantedUpTo(f, k) \o WantedText(f[k + 1])

\* Both are texts, as long as number returns.
LEMMA WantedNext ==
    ASSUME NEW f, NEW k \in Nat, \A j \in 1 .. (k + 1) : IsItem(f[j]) /\ CameToAnEnd(f[j])
    PROVE  /\ WantedUpTo(f, k) \in Seq(Chars) /\ WantedUpTo(f, k + 1) \in Seq(Chars)
           /\ OneMore(f, k)
<1> DEFINE w(j) == WantedText(f[j])
           s == [j \in 1 .. k |-> w(j)]
           u == [j \in 1 .. (k + 1) |-> w(j)]
<1>1. WantedUpTo(f, k) = FlattenSeq(s) /\ WantedUpTo(f, k + 1) = FlattenSeq(u)
      BY Zenon DEF WantedUpTo
<1>2. \A j \in 1 .. (k + 1) : w(j) \in Seq(Chars)
      BY PieceRight, Zenon DEF CameToAnEnd
<1>3. WantedText(f[k + 1]) = w(k + 1)
      BY Zenon
<1> HIDE DEF w
<1>4. s \in Seq(Seq(Chars)) /\ w(k + 1) \in Seq(Chars)
      BY <1>2, SMT
<1>5. u = Append(s, w(k + 1))
      BY <1>2, SMT
<1> HIDE DEF s, u
<1>6. FlattenSeq(s) \in Seq(Chars) /\ FlattenSeq(Append(s, w(k + 1))) = FlattenSeq(s) \o w(k + 1)
      BY <1>4, FlattenAppend, SMT
<1>7. FlattenSeq(s) \o w(k + 1) \in Seq(Chars)
      BY <1>4, <1>6, TextJoined, Zenon
<1> QED BY <1>1, <1>3, <1>5, <1>6, <1>7, Zenon DEF OneMore

\* An item more.
LEMMA ItemAsWanted ==
    ASSUME FormatInv, FormatItem
    PROVE  AsWanted'
<1> DEFINE fmt == request.fmt
           k == item - 1
           it == fmt[item]
<1>1. /\ request \in Requests /\ stage = "format" /\ item \in Nat \ {0} /\ item <= Len(fmt)
      /\ text \in Seq(Chars)
      BY Zenon DEF FormatInv, FormInv, FormTypeOK, FormatItem
<1>2. /\ request' = request /\ stage' = stage /\ item' = item + 1
      /\ text' = text \o Piece(it)
      BY Zenon DEF FormatItem
<1>3. CameToAnEnd(it)
      BY Zenon DEF FormatItem, CameToAnEnd
<1>4. Len(fmt) \in Nat /\ \A j \in 1 .. Len(fmt) : IsItem(fmt[j])
      BY <1>1, RequestsAssumption, Zenon
<1>5. k \in Nat /\ k + 1 = item /\ item' - 1 = item /\ item \in 1 .. Len(fmt)
      BY <1>1, <1>2, <1>4, SMT
<1>6. Had = k /\ Had' = item
      BY <1>1, <1>2, <1>5, SMT DEF Had
<1>7. (\A j \in 1 .. k : CameToAnEnd(fmt[j])) /\ text = WantedUpTo(fmt, k)
      BY <1>1, <1>6, SMT DEF FormatInv, AsWanted
<1> HIDE DEF k
<1>8. \A j \in 1 .. (k + 1) : IsItem(fmt[j]) /\ CameToAnEnd(fmt[j])
  <2>1. \A j \in 1 .. (k + 1) : j \in 1 .. Len(fmt) /\ (j = item \/ j \in 1 .. k)
        BY <1>4, <1>5, SMT
  <2> QED BY <1>3, <1>4, <1>7, <2>1, Zenon
<1>9. /\ WantedUpTo(fmt, k) \in Seq(Chars) /\ WantedUpTo(fmt, item) \in Seq(Chars)
      /\ WantedUpTo(fmt, item) = WantedUpTo(fmt, k) \o WantedText(it)
  <2>1. /\ WantedUpTo(fmt, k) \in Seq(Chars) /\ WantedUpTo(fmt, k + 1) \in Seq(Chars)
        /\ OneMore(fmt, k)
        BY <1>5, <1>8, WantedNext, Zenon
  <2> QED BY <1>5, <2>1, Zenon DEF OneMore
<1>10. WantedText(it) = Piece(it)
  <2>1. IsItem(it)
        BY <1>4, <1>5, Zenon
  <2> QED BY <1>3, <2>1, PieceRight, Zenon DEF CameToAnEnd
<1> HIDE DEF it, fmt
<1>11. text \o Piece(it) = WantedUpTo(fmt, item)
       BY <1>7, <1>9, <1>10, Zenon
<1> QED BY <1>1, <1>2, <1>5, <1>6, <1>8, <1>11, SMT DEF AsWanted, fmt

\* Nothing is wanted yet, and nothing is there, when a call begins.
LEMMA FormatInitInv == FormInit => FormatInv
<1> SUFFICES ASSUME FormInit PROVE FormatInv
    BY Zenon
<1>1. FormInv
      BY FormInitInv, Zenon
<1>2. request \in Requests /\ stage = "format" /\ item = 1 /\ text = <<>>
      BY Zenon DEF FormInit
<1>3. Had = 0
      BY <1>2, SMT DEF Had
<1>4. Len(request.fmt) \in Nat
      BY <1>2, RequestsAssumption, Zenon
<1>5. WantedUpTo(request.fmt, 0) = <<>>
  <2>1. [j \in 1 .. 0 |-> WantedText(request.fmt[j])] = <<>>
        BY SMT
  <2> QED BY <2>1, FlattenNothing, Zenon DEF WantedUpTo
<1>6. Had <= Len(request.fmt) /\ 1 .. Had = {}
      BY <1>3, <1>4, SMT
<1>7. text = WantedUpTo(request.fmt, Had)
      BY <1>2, <1>3, <1>5, Zenon
<1>8. AsWanted
      BY <1>6, <1>7, Zenon DEF AsWanted
<1> QED BY <1>1, <1>8, Zenon DEF FormatInv

\* Every step keeps it: the scan leaves the text as it is.
LEMMA FormatNextInv == FormatInv /\ [FormNext]_formVars => FormatInv'
<1> SUFFICES ASSUME FormatInv, [FormNext]_formVars PROVE FormatInv'
    BY Zenon
<1>1. FormInv /\ AsWanted
      BY Zenon DEF FormatInv
<1>2. FormInv'
      BY <1>1, FormNextInv, Zenon
<1>3. AsWanted'
  <2>1. item \in Nat \ {0} /\ Len(request.fmt) \in Nat
        BY <1>1, RequestsAssumption, Zenon DEF FormInv, FormTypeOK
  <2>2. CASE Refuse \/ ScanEnd
    <3>1. stage' = "back"
          BY <2>2, Zenon DEF Refuse, ScanEnd
    <3> QED BY <3>1, Zenon DEF AsWanted
  <2>3. CASE FormatItem
        BY <2>3, ItemAsWanted, Zenon
  <2>4. CASE FormatEnd
    <3>1. stage = "format" /\ item > Len(request.fmt) /\ stage' = "scan" /\ request' = request /\ text' = text
          BY <2>4, Zenon DEF FormatEnd
    <3>2. stage # "back" /\ Had = item - 1 /\ Had' = Len(request.fmt)
          BY <3>1, SMT DEF Had
    <3>3. Had <= Len(request.fmt)
          BY <1>1, <3>2, Zenon DEF AsWanted
    <3>4. Had' = Had
          BY <2>1, <3>1, <3>2, <3>3, SMT
    <3> QED BY <1>1, <3>1, <3>2, <3>4, Zenon DEF AsWanted
  <2>5. CASE ScanNext
    <3>1. stage = "scan" /\ stage' = stage /\ request' = request /\ text' = text
          BY <2>5, Zenon DEF ScanNext
    <3>2. stage # "back" /\ Had' = Had
          BY <3>1, SMT DEF Had
    <3> QED BY <1>1, <3>1, <3>2, Zenon DEF AsWanted
  <2>6. CASE UNCHANGED formVars
    <3>1. stage' = stage /\ request' = request /\ text' = text /\ item' = item
          BY <2>6, Zenon DEF formVars
    <3>2. Had' = Had
          BY <3>1, Zenon DEF Had
    <3> QED BY <1>1, <3>1, <3>2, Zenon DEF AsWanted
  <2> QED BY <2>2, <2>3, <2>4, <2>5, <2>6, Zenon DEF FormNext
<1> QED BY <1>2, <1>3, Zenon DEF FormatInv

\* A text there is room for is in memory as it is.
LEMMA Stored ==
    ASSUME FormInv, stage = "scan", Len(text) < BufferSize(request)
    PROVE  [i \in 1 .. Len(text) |-> cells[request.buf + i - 1]] = text
<1> DEFINE l == Len(text)
           stored == [i \in 1 .. l |-> cells[request.buf + i - 1]]
<1>1. text \in Seq(Chars) /\ request \in Requests
      BY Zenon DEF FormInv, FormTypeOK
<1>2. l \in Nat /\ text = [i \in 1 .. l |-> text[i]]
      BY <1>1, SMT
<1>3. /\ request.buf \in 0 .. (Top - 1) /\ BufferSize(request) \in 0 .. (Top - 1)
      /\ request.buf + BufferSize(request) <= Top
      /\ End \in Int /\ End >= request.buf + BufferSize(request) - 1
      BY <1>1, EndIs, Zenon DEF End
<1>4. Top \in Nat
      BY RequestsAssumption, Zenon
<1>5. \A i \in 1 .. l : cells[request.buf + i - 1] = text[i]
  <2>1. request.buf + l < Top /\ \A i \in 1 .. l : request.buf + i - 1 < End
        BY <1>2, <1>3, <1>4, SMT
  <2> QED BY <2>1, Zenon DEF FormInv, Filled
<1> HIDE DEF l
<1>6. stored = [i \in 1 .. l |-> text[i]]
      BY <1>5, Zenon
<1> QED BY <1>2, <1>6, Zenon DEF l

\* What a format gives is what C says of each of its directives - and where vsprintf.c departs
\* from C, which Departs lists and NumberRight shows to be all of it, what AsHere says -,
\* whatever their flags, widths and precisions, and the numbers, characters and strings they
\* are given: the digits of the number as the argument's width has it, its sign and prefix,
\* the zeros of precision and width, strings cut to the precision, and the padding, to the
\* last character (vsprintf.c:234-343, 399-634).  Nothing is said of the calls in which number
\* never returns.
THEOREM FormatsAreRight == FormSpec => []FormatsRight
<1>1. FormatInv => FormatsRight
  <2> SUFFICES ASSUME FormatInv, stage = "scan", Len(text) < BufferSize(request)
               PROVE  [i \in 1 .. Len(text) |-> cells[request.buf + i - 1]]
                        = FlattenSeq([k \in DOMAIN request.fmt |-> WantedText(request.fmt[k])])
      BY Zenon DEF FormatsRight
  <2>1. FormInv /\ AsWanted
        BY Zenon DEF FormatInv
  <2>2. DOMAIN request.fmt = 1 .. Len(request.fmt)
        BY <2>1, RequestsAssumption, Zenon DEF FormInv, FormTypeOK
  <2>3. Had = Len(request.fmt) /\ stage # "back"
        BY SMT DEF Had
  <2>4. text = WantedUpTo(request.fmt, Len(request.fmt))
        BY <2>1, <2>3, Zenon DEF AsWanted
  <2>5. WantedUpTo(request.fmt, Len(request.fmt)) = FlattenSeq([k \in DOMAIN request.fmt |-> WantedText(request.fmt[k])])
        BY <2>2, Zenon DEF WantedUpTo
  <2>6. [i \in 1 .. Len(text) |-> cells[request.buf + i - 1]] = text
        BY <2>1, Stored, Zenon
  <2> QED BY <2>4, <2>5, <2>6, Zenon
<1> QED BY FormatInitInv, FormatNextInv, <1>1, PTL DEF FormSpec
=============================================================================
