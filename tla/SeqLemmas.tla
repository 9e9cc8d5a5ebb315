----------------------------- MODULE SeqLemmas -----------------------------
(***************************************************************************)
(* Facts the other proofs share.  About sequences that hold an element at  *)
(* most once, as the linked lists of the kernel do: what unlinking an      *)
(* entry and appending one do to the elements of such a sequence.  About   *)
(* powers of two, and about sequences joined to one.  All of them rest on  *)
(* that a set of numbers has a least one.                                  *)
(***************************************************************************)
EXTENDS Integers, Sequences, SequencesExt, SequenceTheorems, WellFoundedInduction, FiniteSetTheorems, TLAPS

\* Every non-empty set of naturals has a least element.
LEMMA LeastNat ==
    ASSUME NEW T \in SUBSET Nat, T # {}
    PROVE  \E x \in T : \A y \in T : x <= y
<1>1. \E x \in T : \A y \in T : ~(<<y, x>> \in OpToRel(<, Nat))
      BY NatLessThanWellFounded, WFMin
<1>2. \A x, y \in Nat : <<y, x>> \in OpToRel(<, Nat) <=> y < x
      BY DEF OpToRel
<1>3. PICK x \in T : \A y \in T : ~(y < x)
      BY <1>1, <1>2
<1> QED BY <1>3

\* Element e occurs in sequence s.
Occurs(e, s) == \E i \in DOMAIN s : s[i] = e

\* No element occurs twice in s.
Simple(s) == \A i, j \in DOMAIN s : s[i] = s[j] => i = j

\* Unlinking one entry keeps the others in their order.
LEMMA RemoveAtEntries ==
    ASSUME NEW S, NEW s \in Seq(S), NEW i \in DOMAIN s
    PROVE  /\ RemoveAt(s, i) \in Seq(S)
           /\ Len(RemoveAt(s, i)) = Len(s) - 1
           /\ \A j \in 1 .. (Len(s) - 1) :
                RemoveAt(s, i)[j] = s[IF j < i THEN j ELSE j + 1]
<1> DEFINE a == SubSeq(s, 1, i - 1)
           b == SubSeq(s, i + 1, Len(s))
<1>1. i \in 1 .. Len(s) /\ Len(s) \in Nat
      BY LenProperties
<1>2. \A j \in 1 .. Len(s) : s[j] \in S
      BY ElementOfSeq
<1>3. /\ a \in Seq(S) /\ Len(a) = i - 1
      /\ \A j \in 1 .. (i - 1) : a[j] = s[j]
  <2>1. \A j \in 1 .. (i - 1) : s[j] \in S
        BY <1>1, <1>2
  <2>2. /\ SubSeq(s, 1, i - 1) \in Seq(S)
        /\ Len(SubSeq(s, 1, i - 1)) = IF 1 <= i - 1 THEN (i - 1) - 1 + 1 ELSE 0
        /\ \A j \in 1 .. ((i - 1) - 1 + 1) : SubSeq(s, 1, i - 1)[j] = s[1 + j - 1]
        BY <1>1, <2>1, SubSeqProperties
  <2> QED BY <1>1, <2>2
<1>4. /\ b \in Seq(S) /\ Len(b) = Len(s) - i
      /\ \A j \in 1 .. (Len(s) - i) : b[j] = s[i + j]
  <2>1. \A j \in (i + 1) .. Len(s) : s[j] \in S
        BY <1>1, <1>2
  <2>2. /\ SubSeq(s, i + 1, Len(s)) \in Seq(S)
        /\ Len(SubSeq(s, i + 1, Len(s))) =
             IF i + 1 <= Len(s) THEN Len(s) - (i + 1) + 1 ELSE 0
        /\ \A j \in 1 .. (Len(s) - (i + 1) + 1) :
             SubSeq(s, i + 1, Len(s))[j] = s[i + 1 + j - 1]
        BY <1>1, <2>1, SubSeqProperties
  <2> QED BY <1>1, <2>2
<1>5. /\ a \o b \in Seq(S)
      /\ Len(a \o b) = Len(a) + Len(b)
      /\ \A j \in 1 .. (Len(a) + Len(b)) :
           (a \o b)[j] = IF j <= Len(a) THEN a[j] ELSE b[j - Len(a)]
      BY <1>3, <1>4, ConcatProperties
<1>6. RemoveAt(s, i) = a \o b
      BY DEF RemoveAt
<1> HIDE DEF a, b
<1>7. /\ a \o b \in Seq(S) /\ Len(a \o b) = Len(s) - 1
      /\ \A j \in 1 .. (Len(s) - 1) :
           (a \o b)[j] = IF j <= i - 1 THEN a[j] ELSE b[j - (i - 1)]
  <2>1. Len(a) + Len(b) = Len(s) - 1
        BY <1>1, <1>3, <1>4
  <2>2. Len(a) = i - 1
        BY <1>3
  <2> QED BY <1>5, <2>1, <2>2
<1>8. \A j \in 1 .. (Len(s) - 1) : (a \o b)[j] = s[IF j < i THEN j ELSE j + 1]
  <2> TAKE j \in 1 .. (Len(s) - 1)
  <2>1. CASE j < i
        BY <2>1, <1>1, <1>3, <1>7
  <2>2. CASE ~(j < i)
    <3>1. (a \o b)[j] = b[j - (i - 1)]
          BY <2>2, <1>1, <1>7
    <3>2. b[j - (i - 1)] = s[i + (j - (i - 1))]
          BY <2>2, <1>1, <1>4
    <3> QED BY <2>2, <3>1, <3>2, <1>1
  <2> QED BY <2>1, <2>2
<1> QED BY <1>6, <1>7, <1>8

\* Unlinking an entry of a list without repetitions removes its element and no other.
LEMMA RemoveAtElements ==
    ASSUME NEW S, NEW s \in Seq(S), NEW i \in DOMAIN s, Simple(s)
    PROVE  /\ Simple(RemoveAt(s, i))
           /\ \A e : Occurs(e, RemoveAt(s, i)) <=> Occurs(e, s) /\ e # s[i]
<1> DEFINE r == RemoveAt(s, i)
<1>1. /\ i \in 1 .. Len(s) /\ Len(s) \in Nat
      /\ DOMAIN s = 1 .. Len(s)
      BY LenProperties
<1>2. /\ r \in Seq(S) /\ Len(r) = Len(s) - 1
      /\ \A j \in 1 .. (Len(s) - 1) : r[j] = s[IF j < i THEN j ELSE j + 1]
      BY RemoveAtEntries
<1>3. DOMAIN r = 1 .. (Len(s) - 1)
      BY <1>2, LenProperties
<1> HIDE DEF r
<1>4. Simple(r)
  <2> SUFFICES ASSUME NEW j \in 1 .. (Len(s) - 1), NEW k \in 1 .. (Len(s) - 1),
                      r[j] = r[k]
               PROVE  j = k
      BY <1>3 DEF Simple
  <2> DEFINE jj == IF j < i THEN j ELSE j + 1
             kk == IF k < i THEN k ELSE k + 1
  <2>1. jj \in 1 .. Len(s) /\ kk \in 1 .. Len(s)
        BY <1>1
  <2>2. s[jj] = s[kk]
        BY <1>2
  <2>3. jj = kk
        BY <2>1, <2>2, <1>1 DEF Simple
  <2> QED BY <2>3, <1>1
<1>5. ASSUME NEW e, Occurs(e, r) PROVE Occurs(e, s) /\ e # s[i]
  <2>1. PICK j \in 1 .. (Len(s) - 1) : r[j] = e
        BY <1>3, <1>5 DEF Occurs
  <2> DEFINE jj == IF j < i THEN j ELSE j + 1
  <2>2. jj \in 1 .. Len(s) /\ jj # i
        BY <1>1
  <2>3. s[jj] = e
        BY <2>1, <1>2
  <2> HIDE DEF jj
  <2> QED BY <2>2, <2>3, <1>1 DEF Occurs, Simple
<1>6. ASSUME NEW e, Occurs(e, s), e # s[i] PROVE Occurs(e, r)
  <2>1. PICK j \in 1 .. Len(s) : s[j] = e
        BY <1>1, <1>6 DEF Occurs
  <2> DEFINE jj == IF j < i THEN j ELSE j - 1
  <2>2. j # i
        BY <2>1, <1>6
  <2>3. jj \in 1 .. (Len(s) - 1) /\ (IF jj < i THEN jj ELSE jj + 1) = j
        BY <2>2, <1>1
  <2>4. r[jj] = e
        BY <2>1, <2>3, <1>2
  <2> HIDE DEF jj
  <2> QED BY <2>3, <2>4, <1>3 DEF Occurs
<1> QED BY <1>4, <1>5, <1>6 DEF r

\* Appending an element that is not in the list adds it and nothing else.
LEMMA AppendElements ==
    ASSUME NEW S, NEW s \in Seq(S), NEW d \in S
    PROVE  /\ Append(s, d) \in Seq(S)
           /\ \A e : Occurs(e, Append(s, d)) <=> Occurs(e, s) \/ e = d
           /\ Simple(s) /\ ~Occurs(d, s) => Simple(Append(s, d))
<1> DEFINE r == Append(s, d)
<1>1. /\ Len(s) \in Nat
      /\ DOMAIN s = 1 .. Len(s)
      BY LenProperties
<1>2. /\ r \in Seq(S) /\ Len(r) = Len(s) + 1
      /\ \A j \in 1 .. Len(s) : r[j] = s[j]
      /\ r[Len(s) + 1] = d
      BY AppendProperties
<1>3. DOMAIN r = 1 .. (Len(s) + 1)
      BY <1>2, LenProperties
<1> HIDE DEF r
<1>4. \A e : Occurs(e, r) <=> Occurs(e, s) \/ e = d
  <2> TAKE e
  <2>1. ASSUME Occurs(e, r) PROVE Occurs(e, s) \/ e = d
    <3>1. PICK j \in 1 .. (Len(s) + 1) : r[j] = e
          BY <2>1, <1>3 DEF Occurs
    <3>2. CASE j = Len(s) + 1
          BY <3>1, <3>2, <1>2
    <3>3. CASE j # Len(s) + 1
      <4>1. j \in 1 .. Len(s)
            BY <3>3, <1>1
      <4> QED BY <4>1, <3>1, <1>1, <1>2 DEF Occurs
    <3> QED BY <3>2, <3>3
  <2>2. ASSUME Occurs(e, s) PROVE Occurs(e, r)
    <3>1. PICK j \in 1 .. Len(s) : s[j] = e
          BY <2>2, <1>1 DEF Occurs
    <3>2. j \in 1 .. (Len(s) + 1)
          BY <1>1
    <3> QED BY <3>1, <3>2, <1>2, <1>3 DEF Occurs
  <2>3. ASSUME e = d PROVE Occurs(e, r)
    <3>1. Len(s) + 1 \in 1 .. (Len(s) + 1)
          BY <1>1
    <3> QED BY <3>1, <2>3, <1>2, <1>3 DEF Occurs
  <2> QED BY <2>1, <2>2, <2>3
<1>5. ASSUME Simple(s), ~Occurs(d, s) PROVE Simple(r)
  <2> SUFFICES ASSUME NEW j \in 1 .. (Len(s) + 1), NEW k \in 1 .. (Len(s) + 1),
                      r[j] = r[k]
               PROVE  j = k
      BY <1>3 DEF Simple
  <2>1. CASE j \in 1 .. Len(s) /\ k \in 1 .. Len(s)
        BY <2>1, <1>1, <1>2, <1>5 DEF Simple
  <2>2. CASE j \in 1 .. Len(s) /\ k = Len(s) + 1
        BY <2>2, <1>1, <1>2, <1>5 DEF Occurs
  <2>3. CASE j = Len(s) + 1 /\ k \in 1 .. Len(s)
        BY <2>3, <1>1, <1>2, <1>5 DEF Occurs
  <2>4. CASE j = Len(s) + 1 /\ k = Len(s) + 1
        BY <2>4
  <2> QED BY <2>1, <2>2, <2>3, <2>4, <1>1
<1> QED BY <1>2, <1>4, <1>5 DEF r

\* A power of two is the number of subsets of a set, which a further element doubles.
LEMMA TwoExp ==
    ASSUME NEW n \in Nat
    PROVE  2 ^ n \in Nat \ {0} /\ 2 ^ (n + 1) = 2 * 2 ^ n
<1> DEFINE S == 1 .. n
           T == {A \cup {n + 1} : A \in SUBSET S}
           f == [A \in SUBSET S |-> A \cup {n + 1}]
<1>1. IsFiniteSet(S) /\ Cardinality(S) = n
      BY FS_Interval
<1>2. IsFiniteSet(1 .. (n + 1)) /\ Cardinality(1 .. (n + 1)) = n + 1
      BY FS_Interval
<1>3. IsFiniteSet(SUBSET S) /\ Cardinality(SUBSET S) = 2 ^ n
      BY <1>1, FS_SUBSET
<1>4. IsFiniteSet(SUBSET (1 .. (n + 1))) /\ Cardinality(SUBSET (1 .. (n + 1))) = 2 ^ (n + 1)
      BY <1>2, FS_SUBSET
<1>5. 2 ^ n \in Nat
      BY <1>3, FS_CardinalityType
<1>6. n + 1 \notin S /\ 1 .. (n + 1) = S \cup {n + 1}
      OBVIOUS
<1> HIDE DEF S
<1>7. f \in Bijection(SUBSET S, T)
  <2>1. f \in [SUBSET S -> T]
        OBVIOUS
  <2>2. \A A, B \in SUBSET S : f[A] = f[B] => A = B
    <3> TAKE A, B \in SUBSET S
    <3> HAVE f[A] = f[B]
    <3>1. A \cup {n + 1} = B \cup {n + 1}
          OBVIOUS
    <3> QED BY <3>1, <1>6
  <2>3. \A t \in T : \E A \in SUBSET S : f[A] = t
        OBVIOUS
  <2> HIDE DEF f, T
  <2> QED BY <2>1, <2>2, <2>3 DEF Bijection, Injection, Surjection, IsInjective
<1>8. IsFiniteSet(T) /\ Cardinality(T) = 2 ^ n
      BY <1>7, <1>3, FS_Bijection DEF ExistsBijection
<1>9. SUBSET (1 .. (n + 1)) = (SUBSET S) \cup T
  <2>1. ASSUME NEW A \in SUBSET (1 .. (n + 1))
        PROVE  A \in (SUBSET S) \cup T
    <3>1. CASE n + 1 \in A
      <4>1. A \ {n + 1} \in SUBSET S /\ A = (A \ {n + 1}) \cup {n + 1}
            BY <3>1, <1>6
      <4> QED BY <4>1
    <3>2. CASE n + 1 \notin A
          BY <3>2, <1>6
    <3> QED BY <3>1, <3>2
  <2>2. ASSUME NEW A \in (SUBSET S) \cup T
        PROVE  A \in SUBSET (1 .. (n + 1))
        BY <1>6
  <2> QED BY <2>1, <2>2
<1>10. (SUBSET S) \cap T = {}
       BY <1>6
<1>11. Cardinality((SUBSET S) \cap T) = 0
       BY <1>10, FS_EmptySet
<1>12. 2 ^ (n + 1) = 2 ^ n + 2 ^ n
  <2> HIDE DEF T
  <2>1. Cardinality((SUBSET S) \cup T)
            = Cardinality(SUBSET S) + Cardinality(T) - Cardinality((SUBSET S) \cap T)
        BY <1>3, <1>8, FS_Union
  <2>2. Cardinality((SUBSET S) \cup T) = 2 ^ (n + 1)
        BY <1>4, <1>9, Zenon
  <2>3. 2 ^ (n + 1) = 2 ^ n + 2 ^ n - 0
        BY <2>1, <2>2, <1>3, <1>8, <1>11, Zenon
  <2> QED BY <2>3, <1>5
<1>13. 2 ^ n # 0
  <2>1. {} \in SUBSET S
        OBVIOUS
  <2> QED BY <2>1, <1>3, FS_EmptySet
<1> QED BY <1>5, <1>12, <1>13

\* Powers of two multiply as their exponents add.
LEMMA TwoSum ==
    ASSUME NEW m \in Nat, NEW n \in Nat
    PROVE  2 ^ (m + n) = 2 ^ m * 2 ^ n
<1> DEFINE T == {k \in Nat : 2 ^ (m + k) # 2 ^ m * 2 ^ k}
<1>1. SUFFICES ASSUME T # {} PROVE FALSE
      OBVIOUS
<1>2. PICK k \in T : \A y \in T : k <= y
      BY <1>1, LeastNat
<1>3. 2 ^ 0 = 1 /\ 2 ^ m \in Nat
      BY TwoExp
<1>4. k # 0
  <2>1. m + 0 = m /\ 2 ^ m = 2 ^ m * 1
        BY <1>3
  <2> QED BY <2>1, <1>2, <1>3
<1>5. k - 1 \in Nat /\ k - 1 \notin T /\ m + (k - 1) \in Nat
      BY <1>2, <1>4
<1>6. 2 ^ (m + (k - 1)) = 2 ^ m * 2 ^ (k - 1)
      BY <1>5
<1>7. 2 ^ ((m + (k - 1)) + 1) = 2 * 2 ^ (m + (k - 1)) /\ 2 ^ ((k - 1) + 1) = 2 * 2 ^ (k - 1)
      BY <1>5, TwoExp
<1>8. (m + (k - 1)) + 1 = m + k /\ (k - 1) + 1 = k
      BY <1>5
<1>9. 2 ^ (k - 1) \in Nat /\ 2 ^ (m + (k - 1)) \in Nat
      BY <1>5, TwoExp
<1>10. 2 ^ (m + k) = 2 ^ m * 2 ^ k
  <2>1. \A a, b \in Nat : 2 * (a * b) = a * (2 * b)
        OBVIOUS
  <2> QED BY <2>1, <1>3, <1>6, <1>7, <1>8, <1>9
<1> QED BY <1>2, <1>10

\* They are in the order of their exponents.
LEMMA TwoRises ==
    ASSUME NEW m \in Nat, NEW n \in Nat, m <= n
    PROVE  2 ^ m <= 2 ^ n
<1>1. n - m \in Nat /\ n = m + (n - m)
      OBVIOUS
<1>2. 2 ^ n = 2 ^ m * 2 ^ (n - m)
      BY <1>1, TwoSum
<1>3. 2 ^ m \in Nat \ {0} /\ 2 ^ (n - m) \in Nat \ {0}
      BY <1>1, TwoExp
<1>4. \A x, y \in Nat \ {0} : x <= x * y
      OBVIOUS
<1> QED BY <1>2, <1>3, <1>4

-----------------------------------------------------------------------------
(* Sequences joined to one                                                 *)

\* As far as m, g is what joining the sequences of s gives.
Joins(s, m, g) == \A n \in 1 .. m : g[n] = IF n = 1 THEN s[n] ELSE g[n - 1] \o s[n]

\* The function that FlattenSeq chooses.
JoinOf(s, g) == g = [n \in 1 .. Len(s) |-> IF n = 1 THEN s[n] ELSE g[n - 1] \o s[n]]

\* There is such a function.
LEMMA JoinExists ==
    ASSUME NEW S, NEW s \in Seq(Seq(S))
    PROVE  \E g : JoinOf(s, g) /\ g \in [1 .. Len(s) -> Seq(S)] /\ Joins(s, Len(s), g)
<1> DEFINE L == Len(s)
           UpTo(m, g) == g \in [1 .. m -> Seq(S)] /\ Joins(s, m, g)
           T == {m \in Nat : m <= L /\ ~(\E g : UpTo(m, g))}
<1>1. L \in Nat /\ \A n \in 1 .. L : s[n] \in Seq(S)
      BY ElementOfSeq, LenProperties
<1>2. T = {}
  <2> SUFFICES ASSUME T # {} PROVE FALSE
      OBVIOUS
  <2> HIDE DEF L
  <2>1. PICK m \in T : \A k \in T : m <= k
        BY LeastNat
  <2>2. m \in Nat /\ m <= L /\ ~(\E g : UpTo(m, g))
        BY <2>1
  <2>3. CASE m = 0
    <3>1. UpTo(0, [n \in 1 .. 0 |-> <<>>])
          BY DEF Joins
    <3> QED BY <3>1, <2>2, <2>3
  <2>4. CASE m # 0
    <3>1. m - 1 \in Nat /\ m - 1 <= L /\ ~(m <= m - 1) /\ m \in 1 .. L
          BY <2>2, <2>4, <1>1
    <3>2. PICK g : UpTo(m - 1, g)
          BY <3>1, <2>1
    <3> DEFINE e == IF m = 1 THEN s[m] ELSE g[m - 1] \o s[m]
               h == [n \in 1 .. m |-> IF n = m THEN e ELSE g[n]]
    <3>3. e \in Seq(S)
      <4>1. s[m] \in Seq(S)
            BY <3>1, <1>1
      <4>2. CASE m = 1
            BY <4>1, <4>2
      <4>3. CASE m # 1
        <5>1. g[m - 1] \in Seq(S)
              BY <3>1, <3>2, <4>3
        <5> QED BY <4>1, <4>3, <5>1, ConcatProperties
      <4> QED BY <4>2, <4>3
    <3> HIDE DEF e
    <3>4. \A n \in 1 .. m : n # m => n \in 1 .. (m - 1)
          BY <3>1
    <3>5. h \in [1 .. m -> Seq(S)]
          BY <3>2, <3>3, <3>4
    <3>6. \A n \in 1 .. m : h[n] = IF n = 1 THEN s[n] ELSE h[n - 1] \o s[n]
      <4> TAKE n \in 1 .. m
      <4>1. n # 1 => n - 1 \in 1 .. m /\ n - 1 # m /\ h[n - 1] = g[n - 1]
            BY <3>1
      <4>2. CASE n = m
            BY <4>1, <4>2 DEF e
      <4>3. CASE n # m
        <5>1. h[n] = g[n] /\ g[n] = IF n = 1 THEN s[n] ELSE g[n - 1] \o s[n]
              BY <3>2, <3>4, <4>3 DEF Joins
        <5> QED BY <4>1, <5>1
      <4> QED BY <4>2, <4>3
    <3> HIDE DEF h
    <3>7. UpTo(m, h)
          BY <3>5, <3>6 DEF Joins
    <3> QED BY <3>7, <2>2
  <2> QED BY <2>3, <2>4
<1>3. PICK g : UpTo(L, g)
  <2>1. L \notin T
        BY <1>2
  <2> HIDE DEF L
  <2> QED BY <1>1, <2>1
<1>4. JoinOf(s, g)
  <2> DEFINE h == [n \in 1 .. L |-> IF n = 1 THEN s[n] ELSE g[n - 1] \o s[n]]
  <2>1. \A n \in 1 .. L : h[n] = IF n = 1 THEN s[n] ELSE g[n - 1] \o s[n]
        OBVIOUS
  <2>2. h = [n \in DOMAIN h |-> h[n]] /\ DOMAIN h = 1 .. L
        OBVIOUS
  <2> HIDE DEF h, L
  <2>3. g = [n \in DOMAIN g |-> g[n]] /\ DOMAIN g = 1 .. L /\ \A n \in 1 .. L : g[n] = h[n]
        BY <1>3, <2>1 DEF Joins
  <2>4. g = h
        BY <2>2, <2>3
  <2> QED BY <2>4, Zenon DEF JoinOf, h, L
<1> QED BY <1>3, <1>4

\* Two such functions agree as far as their sequences do.
LEMMA JoinsAgree ==
    ASSUME NEW s, NEW u, NEW g, NEW h, NEW m \in Nat,
           Joins(s, m, g), Joins(u, m, h), \A n \in 1 .. m : s[n] = u[n]
    PROVE  \A n \in 1 .. m : g[n] = h[n]
<1> DEFINE T == {n \in Nat : n \in 1 .. m /\ g[n] # h[n]}
<1>1. SUFFICES ASSUME T # {} PROVE FALSE
      OBVIOUS
<1>2. PICK n \in T : \A k \in T : n <= k
  <2>1. T \in SUBSET Nat
        OBVIOUS
  <2> HIDE DEF T
  <2> QED BY <1>1, <2>1, LeastNat
<1>3. n \in 1 .. m /\ g[n] # h[n]
      BY <1>2
<1>4. /\ g[n] = IF n = 1 THEN s[n] ELSE g[n - 1] \o s[n]
      /\ h[n] = IF n = 1 THEN u[n] ELSE h[n - 1] \o u[n]
      /\ s[n] = u[n]
      BY <1>3 DEF Joins
<1>5. n # 1 => n - 1 \in Nat /\ n - 1 \in 1 .. m /\ ~(n <= n - 1)
      BY <1>3
<1>6. n # 1 => g[n - 1] = h[n - 1]
      BY <1>2, <1>5
<1> QED BY <1>3, <1>4, <1>6

\* FlattenSeq is the last value of such a function.
LEMMA FlattenIs ==
    ASSUME NEW S, NEW s \in Seq(Seq(S))
    PROVE  \E g : /\ g \in [1 .. Len(s) -> Seq(S)] /\ Joins(s, Len(s), g)
                  /\ FlattenSeq(s) = IF Len(s) = 0 THEN <<>> ELSE g[Len(s)]
<1>1. PICK e : JoinOf(s, e) /\ e \in [1 .. Len(s) -> Seq(S)] /\ Joins(s, Len(s), e)
      BY JoinExists
<1>2. CASE Len(s) = 0
  <2>1. s = <<>>
        BY <1>2, EmptySeq
  <2>2. FlattenSeq(s) = <<>>
        BY <2>1, <1>2 DEF FlattenSeq
  <2> QED BY <2>2, <1>1, <1>2
<1>3. CASE Len(s) # 0
  <2> DEFINE f == CHOOSE g : JoinOf(s, g)
             L == Len(s)
  <2>1. FlattenSeq(s) = f[Len(s)]
        BY <1>3 DEF FlattenSeq, JoinOf
  <2>2. JoinOf(s, f)
        BY <1>1, Zenon
  <2>3. f = [n \in 1 .. L |-> IF n = 1 THEN s[n] ELSE f[n - 1] \o s[n]]
        BY <2>2, Zenon DEF JoinOf
  <2>4. L \in Nat
        BY LenProperties
  <2> HIDE DEF f, L
  <2>5. Joins(s, L, f) /\ f = [n \in 1 .. L |-> f[n]]
    <3> DEFINE h == [n \in 1 .. L |-> IF n = 1 THEN s[n] ELSE f[n - 1] \o s[n]]
    <3>1. DOMAIN h = 1 .. L /\ h = [n \in 1 .. L |-> h[n]]
          /\ \A n \in 1 .. L : h[n] = IF n = 1 THEN s[n] ELSE f[n - 1] \o s[n]
          OBVIOUS
    <3>2. f = h
          BY <2>3, Zenon
    <3> HIDE DEF h
    <3> QED BY <3>1, <3>2 DEF Joins
  <2>6. e \in [1 .. L -> Seq(S)] /\ Joins(s, L, e)
        BY <1>1 DEF L
  <2>7. \A n \in 1 .. L : f[n] = e[n]
    <3>1. L \in Nat /\ Joins(s, L, f) /\ Joins(s, L, e) /\ \A n \in 1 .. L : s[n] = s[n]
          BY <2>4, <2>5, <2>6
    <3> QED BY <3>1, JoinsAgree
  <2>8. f \in [1 .. L -> Seq(S)]
        BY <2>5, <2>6, <2>7
  <2> QED BY <2>1, <2>5, <2>8, <1>3 DEF L
<1> QED BY <1>2, <1>3

\* Nothing joined is nothing.
LEMMA FlattenNothing == FlattenSeq(<<>>) = <<>>
<1>1. Len(<<>>) = 0
      BY EmptySeq
<1> QED BY <1>1 DEF FlattenSeq

\* One sequence more at the end.
LEMMA FlattenAppend ==
    ASSUME NEW S, NEW s \in Seq(Seq(S)), NEW e \in Seq(S)
    PROVE  FlattenSeq(s) \in Seq(S) /\ FlattenSeq(Append(s, e)) = FlattenSeq(s) \o e
<1> DEFINE u == Append(s, e)
           L == Len(s)
<1>1. /\ u \in Seq(Seq(S)) /\ Len(u) = L + 1 /\ L \in Nat /\ u[L + 1] = e
      /\ \A n \in 1 .. L : s[n] = u[n]
      BY AppendProperties, LenProperties
<1> HIDE DEF u, L
<1>2. PICK g : g \in [1 .. L -> Seq(S)] /\ Joins(s, L, g) /\ FlattenSeq(s) = IF L = 0 THEN <<>> ELSE g[L]
      BY FlattenIs DEF L
<1>3. PICK h : h \in [1 .. (L + 1) -> Seq(S)] /\ Joins(u, L + 1, h) /\ FlattenSeq(u) = h[L + 1]
  <2>1. PICK h : /\ h \in [1 .. Len(u) -> Seq(S)] /\ Joins(u, Len(u), h)
                 /\ FlattenSeq(u) = IF Len(u) = 0 THEN <<>> ELSE h[Len(u)]
        BY <1>1, FlattenIs
  <2>2. Len(u) # 0
        BY <1>1
  <2> QED BY <2>1, <2>2, <1>1, Zenon
<1>4. h[L + 1] = IF L + 1 = 1 THEN e ELSE h[(L + 1) - 1] \o e
  <2>1. L + 1 \in 1 .. (L + 1)
        BY <1>1
  <2> QED BY <2>1, <1>1, <1>3 DEF Joins
<1>5. CASE L = 0
  <2>1. FlattenSeq(s) = <<>> /\ FlattenSeq(u) = e
        BY <1>2, <1>3, <1>4, <1>5
  <2>2. <<>> \o e = e
        BY ConcatEmptySeq
  <2> QED BY <2>1, <2>2 DEF u
<1>6. CASE L # 0
  <2>1. \A n \in 1 .. L : g[n] = h[n]
    <3>1. \A n \in 1 .. L : n \in 1 .. (L + 1)
          BY <1>1
    <3>2. Joins(s, L, g) /\ Joins(u, L, h)
          BY <3>1, <1>2, <1>3 DEF Joins
    <3>3. L \in Nat /\ \A n \in 1 .. L : s[n] = u[n]
          BY <1>1
    <3> QED BY <3>2, <3>3, JoinsAgree
  <2>2. L \in 1 .. L /\ (L + 1) - 1 = L /\ L + 1 # 1
        BY <1>1, <1>6
  <2>3. g[L] \in Seq(S)
        BY <2>2, <1>2
  <2>4. FlattenSeq(s) = g[L] /\ FlattenSeq(u) = h[L + 1] /\ h[L + 1] = h[L] \o e
        BY <2>2, <1>2, <1>3, <1>4, <1>6
  <2>5. FlattenSeq(s) \in Seq(S) /\ FlattenSeq(u) = FlattenSeq(s) \o e
        BY <2>1, <2>2, <2>3, <2>4
  <2> QED BY <2>5 DEF u
<1> QED BY <1>5, <1>6
=============================================================================
