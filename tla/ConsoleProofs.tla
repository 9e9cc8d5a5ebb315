---------------------------- MODULE ConsoleProofs ----------------------------
(***************************************************************************)
(* The console loses nothing on its way to the terminal or from it:        *)
(* proofs of ScreenRight and KeysRead, for FIFOs and buffers of every size,  *)
(* every text and every key.                                               *)
(***************************************************************************)
EXTENDS Console, SeqLemmas

-----------------------------------------------------------------------------
(* Carriage returns                                                        *)

\* Characters are strings, these among them.
Char == STRING \cup {LF, CR, Nul}

\* What the terminal gets for one character.
Sends(x) == IF x = LF THEN <<LF, CR>> ELSE <<x>>

LEMMA SendsTyped == \A x \in Char : Sends(x) \in Seq(Char)
<1>1. LF \in Char /\ CR \in Char
      BY DEF Char
<1>2. ASSUME NEW x \in Char, NEW y \in Char
      PROVE  <<x>> \in Seq(Char) /\ <<x, y>> \in Seq(Char)
      OBVIOUS
<1> QED BY <1>1, <1>2 DEF Sends

\* One character more at the end.
LEMMA ReturnsAppend ==
    ASSUME NEW t \in Seq(Char), NEW x \in Char
    PROVE  WithReturns(t) \in Seq(Char) /\ WithReturns(Append(t, x)) = WithReturns(t) \o Sends(x)
<1> DEFINE u == Append(t, x)
           S(v) == [k \in DOMAIN v |-> Sends(v[k])]
<1>1. /\ u \in Seq(Char) /\ DOMAIN u = 1 .. (Len(t) + 1) /\ u[Len(t) + 1] = x
      /\ DOMAIN t = 1 .. Len(t) /\ Len(t) \in Nat /\ \A k \in 1 .. Len(t) : u[k] = t[k]
      BY AppendProperties, LenProperties
<1>2. \A k \in 1 .. Len(t) : Sends(t[k]) \in Seq(Char)
      BY ElementOfSeq, SendsTyped
<1>3. Sends(x) \in Seq(Char)
      BY SendsTyped
<1>4. S(t) \in Seq(Seq(Char))
      BY <1>1, <1>2
<1>5. S(u) = Append(S(t), Sends(x))
      BY <1>1, <1>2, <1>3
<1>6. WithReturns(t) = FlattenSeq(S(t)) /\ WithReturns(u) = FlattenSeq(S(u))
      BY DEF WithReturns, Sends
<1> HIDE DEF S
<1> QED BY <1>3, <1>4, <1>5, <1>6, FlattenAppend

LEMMA ReturnsOfNothing == WithReturns(<<>>) = <<>>
<1>1. [k \in DOMAIN <<>> |-> IF <<>>[k] = LF THEN <<LF, CR>> ELSE <<<<>>[k]>>] = <<>>
      OBVIOUS
<1> QED BY <1>1, FlattenNothing DEF WithReturns

\* One character more at the front.
LEMMA ReturnsFirst ==
    ASSUME NEW t \in Seq(Char), NEW x \in Char
    PROVE  WithReturns(<<x>> \o t) = Sends(x) \o WithReturns(t)
<1> DEFINE T == {n \in Nat :
                    n <= Len(t) /\ WithReturns(<<x>> \o SubSeq(t, 1, n)) # Sends(x) \o WithReturns(SubSeq(t, 1, n))}
<1>1. Len(t) \in Nat /\ <<x>> \in Seq(Char) /\ Sends(x) \in Seq(Char) /\ \A n \in 1 .. Len(t) : t[n] \in Char
      BY SendsTyped, LenProperties, ElementOfSeq
<1>2. T = {}
  <2> SUFFICES ASSUME T # {} PROVE FALSE
      OBVIOUS
  <2>1. PICK n \in T : \A k \in T : n <= k
    <3>1. T \in SUBSET Nat
          OBVIOUS
    <3> HIDE DEF T
    <3> QED BY <3>1, LeastNat
  <2>2. /\ n \in Nat /\ n <= Len(t)
        /\ WithReturns(<<x>> \o SubSeq(t, 1, n)) # Sends(x) \o WithReturns(SubSeq(t, 1, n))
        BY <2>1
  <2>3. \A k \in Nat : k <= Len(t) /\ ~(n <= k) =>
            WithReturns(<<x>> \o SubSeq(t, 1, k)) = Sends(x) \o WithReturns(SubSeq(t, 1, k))
        BY <2>1
  <2> HIDE DEF T
  <2>4. CASE n = 0
    <3>1. SubSeq(t, 1, n) = <<>>
          BY <2>4, SubSeqEmpty
    <3>2. <<x>> \o <<>> = Append(<<>>, x) /\ <<>> \in Seq(Char)
          BY <1>1, EmptySeq
    <3>3. WithReturns(<<x>> \o <<>>) = WithReturns(<<>>) \o Sends(x)
          BY <3>2, ReturnsAppend
    <3>4. <<>> \o Sends(x) = Sends(x) /\ Sends(x) \o <<>> = Sends(x)
          BY <1>1, ConcatEmptySeq
    <3> QED BY <3>1, <3>3, <3>4, <2>2, ReturnsOfNothing
  <2>5. CASE n # 0
    <3> DEFINE a == SubSeq(t, 1, n - 1)
               b == SubSeq(t, 1, n)
    <3>1. n \in 1 .. Len(t) /\ n - 1 \in Nat /\ n - 1 <= Len(t) /\ ~(n <= n - 1) /\ 1 \in 1 .. Len(t)
          BY <2>2, <2>5, <1>1
    <3>2. b = a \o <<t[n]>>
          BY <3>1, SubSeqRecursiveSecond
    <3>3. a \in Seq(Char) /\ t[n] \in Char
      <4>1. \A k \in 1 .. (n - 1) : t[k] \in Char
            BY <3>1, <1>1
      <4> QED BY <4>1, <3>1, <1>1, SubSeqProperties
    <3>4. WithReturns(<<x>> \o a) = Sends(x) \o WithReturns(a)
          BY <3>1, <2>3
    <3> HIDE DEF a, b
    <3>5. b = Append(a, t[n]) /\ <<x>> \o b = Append(<<x>> \o a, t[n]) /\ <<x>> \o a \in Seq(Char)
      <4>1. b = Append(a, t[n])
            BY <3>2, <3>3, AppendIsConcat
      <4>2. <<x>> \o a \in Seq(Char)
            BY <3>3, <1>1, ConcatProperties
      <4>3. Append(<<x>> \o a, t[n]) = (<<x>> \o a) \o <<t[n]>>
            BY <4>2, <3>3, AppendIsConcat
      <4>4. <<t[n]>> \in Seq(Char)
            BY <3>3
      <4> DEFINE p == <<x>>
                 q == <<t[n]>>
      <4>5. p \in Seq(Char) /\ q \in Seq(Char)
            BY <4>4, <1>1
      <4> HIDE DEF p, q
      <4>6. (p \o a) \o q = p \o (a \o q)
            BY <4>5, <3>3, ConcatAssociative
      <4> QED BY <4>1, <4>2, <4>3, <4>6, <3>2 DEF p, q
    <3>6. /\ WithReturns(b) = WithReturns(a) \o Sends(t[n]) /\ WithReturns(a) \in Seq(Char)
          /\ WithReturns(<<x>> \o b) = WithReturns(<<x>> \o a) \o Sends(t[n])
          BY <3>3, <3>5, ReturnsAppend
    <3>7. (Sends(x) \o WithReturns(a)) \o Sends(t[n]) = Sends(x) \o (WithReturns(a) \o Sends(t[n]))
      <4> DEFINE p == Sends(x)
                 q == WithReturns(a)
                 z == Sends(t[n])
      <4>1. p \in Seq(Char) /\ q \in Seq(Char) /\ z \in Seq(Char)
            BY <3>3, <3>6, <1>1, SendsTyped
      <4> HIDE DEF p, q, z
      <4>2. (p \o q) \o z = p \o (q \o z)
            BY <4>1, ConcatAssociative
      <4> QED BY <4>2 DEF p, q, z
    <3> QED BY <3>4, <3>6, <3>7, <2>2 DEF b
  <2> QED BY <2>4, <2>5
<1>3. \A n \in Nat : n <= Len(t) => WithReturns(<<x>> \o SubSeq(t, 1, n)) = Sends(x) \o WithReturns(SubSeq(t, 1, n))
      BY <1>2
<1>4. SubSeq(t, 1, Len(t)) = t
      BY SubSeqFull
<1>5. WithReturns(<<x>> \o SubSeq(t, 1, Len(t))) = Sends(x) \o WithReturns(SubSeq(t, 1, Len(t)))
  <2>1. Len(t) \in Nat /\ Len(t) <= Len(t)
        BY <1>1
  <2> QED BY <2>1, <1>3, Zenon
<1> QED BY <1>4, <1>5

\* The string that strlen sees is one.
LEMMA UpToNulTyped ==
    ASSUME NEW t \in Seq(STRING)
    PROVE  UpToNul(t) \in Seq(Char)
<1> DEFINE T == {q \in Nat : q \in 1 .. (Len(t) + 1) /\ At(t, q) = Nul}
           Q(q) == At(t, q) \in {} \cup {Nul} /\ \A k \in 1 .. (q - 1) : t[k] \notin {} \cup {Nul}
<1>1. Len(t) \in Nat /\ \A n \in 1 .. Len(t) : t[n] \in Char
  <2>1. \A n \in 1 .. Len(t) : t[n] \in STRING
        BY ElementOfSeq
  <2> QED BY <2>1, LenProperties DEF Char
<1>2. Len(t) + 1 \in T
      BY <1>1 DEF At
<1>3. PICK q \in T : \A k \in T : q <= k
  <2>1. T \in SUBSET Nat
        OBVIOUS
  <2> HIDE DEF T
  <2> QED BY <2>1, <1>2, LeastNat
<1>4. q \in 1 .. (Len(t) + 1) /\ Q(q)
  <2>1. q \in 1 .. (Len(t) + 1) /\ At(t, q) = Nul
        BY <1>3
  <2>2. \A k \in 1 .. (q - 1) : t[k] # Nul
    <3> TAKE k \in 1 .. (q - 1)
    <3>1. k \in Nat /\ k \in 1 .. (Len(t) + 1) /\ ~(q <= k) /\ k <= Len(t)
          BY <2>1, <1>1
    <3>2. At(t, k) # Nul
          BY <3>1, <1>3
    <3> QED BY <3>1, <3>2 DEF At
  <2> QED BY <2>1, <2>2
<1>5. UpTo(t, 1, {}) \in 1 .. (Len(t) + 1)
  <2>1. UpTo(t, 1, {}) = CHOOSE z \in 1 .. (Len(t) + 1) : Q(z)
        BY DEF UpTo
  <2> HIDE DEF Q
  <2> QED BY <2>1, <1>4
<1> DEFINE m == UpTo(t, 1, {}) - 1
<1>6. m \in Int /\ \A n \in 1 .. m : t[n] \in Char
      BY <1>1, <1>5
<1> HIDE DEF m
<1>7. SubSeq(t, 1, m) \in Seq(Char)
      BY <1>6, SubSeqProperties
<1> QED BY <1>7 DEF UpToNul, m

-----------------------------------------------------------------------------
(* What is where                                                           *)

ConsoleTypes ==
    /\ outbuf \in Seq(Char) /\ i \in Nat /\ i <= Len(outbuf)
    /\ c \in Char /\ key \in Char /\ line \in Seq(Char)
    /\ tx \in Seq(Char) /\ rx \in Seq(Char)
    /\ screen \in Seq(Char) /\ said \in Seq(Char) /\ typed \in Seq(Char)
    /\ lines \in Seq([text : Seq(Char), end : Nat]) /\ Len(rx) <= Len(typed)
    /\ phase = "putc" => back \in {"print", "store"}

LEMMA CharFacts == LF \in Char /\ CR \in Char /\ Nul \in Char /\ Keys \subseteq Char
BY ConsoleAssumption DEF Char

\* What printf and puts are given is a text.
LEMMA JobText ==
    ASSUME NEW j \in Jobs, j.f \in {"printf", "puts"}
    PROVE  UpToNul(IF j.f = "printf" THEN TextOf(j.fmt) ELSE j.text) \in Seq(Char)
<1>1. (IF j.f = "printf" THEN TextOf(j.fmt) ELSE j.text) \in Seq(STRING)
      BY ConsoleAssumption
<1> QED BY <1>1, UpToNulTyped

LEMMA ReturnsTyped ==
    ASSUME NEW t \in Seq(Char)
    PROVE  WithReturns(t) \in Seq(Char)
BY ReturnsAppend, CharFacts

\* What the terminal gets for one key.
LEMMA ReturnsOfOne ==
    ASSUME NEW x \in Char
    PROVE  WithReturns(<<x>>) = Sends(x)
<1>1. <<>> \in Seq(Char) /\ Append(<<>>, x) = <<x>> /\ Sends(x) \in Seq(Char)
      BY SendsTyped
<1>2. WithReturns(Append(<<>>, x)) = <<>> \o Sends(x)
      BY <1>1, ReturnsAppend, ReturnsOfNothing
<1>3. <<>> \o Sends(x) = Sends(x)
      BY <1>1, ConcatEmptySeq
<1> QED BY <1>1, <1>2, <1>3

LEMMA TypesInit == ConsoleInit => ConsoleTypes
<1>1. \A S : <<>> \in Seq(S)
      BY EmptySeq
<1>2. Len(<<>>) = 0
      OBVIOUS
<1> QED BY <1>1, <1>2, CharFacts DEF ConsoleInit, ConsoleTypes

LEMMA TypesNext == ConsoleTypes /\ [ConsoleNext]_consoleVars => ConsoleTypes'
<1> SUFFICES ASSUME ConsoleTypes, [ConsoleNext]_consoleVars PROVE ConsoleTypes'
    OBVIOUS
<1> USE DEF ConsoleTypes, cpuVars, uartVars, consoleVars
<1>1. CASE CallPrint
  <2>1. PICK j \in Jobs : /\ j.f \in {"printf", "puts"}
                          /\ outbuf' = UpToNul(IF j.f = "printf" THEN TextOf(j.fmt) ELSE j.text)
        BY <1>1 DEF CallPrint
  <2>2. outbuf' \in Seq(Char)
        BY <2>1, JobText
  <2>3. WithReturns(outbuf') \in Seq(Char) /\ Len(outbuf') \in Nat
        BY <2>2, ReturnsTyped, LenProperties
  <2>4. said' \in Seq(Char)
        BY <1>1, <2>3, ConcatProperties DEF CallPrint
  <2> QED BY <1>1, <2>2, <2>3, <2>4 DEF CallPrint
<1>2. CASE CallScanf
  <2>1. <<>> \in Seq(Char)
        BY EmptySeq
  <2> QED BY <1>2, <2>1 DEF CallScanf
<1>3. CASE NextChar
  <2>1. CASE i < Len(outbuf)
    <3>1. outbuf[i + 1] \in Char /\ i + 1 <= Len(outbuf)
          BY <2>1, ElementOfSeq, LenProperties
    <3> QED BY <1>3, <2>1, <3>1 DEF NextChar, Putc
  <2>2. CASE ~(i < Len(outbuf))
        BY <1>3, <2>2 DEF NextChar
  <2> QED BY <2>1, <2>2
<1>4. CASE Put
  <2>1. Append(tx, c) \in Seq(Char)
        BY AppendProperties
  <2>2. tx' \in Seq(Char) /\ c' \in Char
        BY <1>4, <2>1, CharFacts DEF Put, Send
  <2>3. phase' = "putc" => back' \in {"print", "store"}
        BY <1>4 DEF Put, Send
  <2> QED BY <1>4, <2>2, <2>3 DEF Put, Send
<1>5. CASE Get
  <2>1. Head(rx) \in Char /\ Tail(rx) \in Seq(Char)
        BY <1>5, HeadTailProperties DEF Get
  <2>2. WithReturns(<<Head(rx)>>) \in Seq(Char)
        BY <2>1, ReturnsOfOne, SendsTyped
  <2>3. said' \in Seq(Char)
        BY <1>5, <2>2, ConcatProperties DEF Get
  <2>4. Len(Tail(rx)) <= Len(typed)
        BY <1>5, HeadTailProperties, LenProperties DEF Get
  <2> QED BY <1>5, <2>1, <2>3, <2>4 DEF Get, Putc
<1>6. CASE StoreKey
  <2>1. Append(line, key) \in Seq(Char)
        BY AppendProperties
  <2>2. line' \in Seq(Char)
        BY <1>6, <2>1 DEF StoreKey
  <2>3. phase' # "putc"
        BY <1>6 DEF StoreKey
  <2>4. lines' \in Seq([text : Seq(Char), end : Nat])
    <3> DEFINE R == [text : Seq(Char), end : Nat]
               e == [text |-> line, end |-> Len(typed) - Len(rx)]
    <3>1. e \in R
          BY LenProperties
    <3>2. lines' = Append(lines, e) \/ lines' = lines
          BY <1>6 DEF StoreKey
    <3> HIDE DEF e, R
    <3>3. lines \in Seq(R) => Append(lines, e) \in Seq(R)
          BY <3>1, AppendProperties
    <3> QED BY <3>2, <3>3 DEF R
  <2> QED BY <1>6, <2>2, <2>3, <2>4 DEF StoreKey
<1>7. CASE Transmit
  <2>1. Head(tx) \in Char /\ Tail(tx) \in Seq(Char)
        BY <1>7, HeadTailProperties DEF Transmit
  <2>2. Append(screen, Head(tx)) \in Seq(Char)
        BY <2>1, AppendProperties
  <2> QED BY <1>7, <2>1, <2>2 DEF Transmit
<1>8. CASE Type
  <2>1. rx' \in Seq(Char) /\ typed' \in Seq(Char) /\ Len(rx') <= Len(typed')
    <3>1. PICK k \in Keys : IF Len(rx) < RxDepth THEN rx' = Append(rx, k) /\ typed' = Append(typed, k)
                           ELSE UNCHANGED <<rx, typed>>
          BY <1>8 DEF Type
    <3>2. k \in Char
          BY CharFacts
    <3>3. /\ Append(rx, k) \in Seq(Char) /\ Append(typed, k) \in Seq(Char)
          /\ Len(Append(rx, k)) <= Len(Append(typed, k))
          BY <3>2, AppendProperties, LenProperties
    <3> QED BY <3>1, <3>3
  <2> QED BY <1>8, <2>1 DEF Type
<1>9. CASE UNCHANGED consoleVars
      BY <1>9
<1> QED BY <1>1, <1>2, <1>3, <1>4, <1>5, <1>6, <1>7, <1>8, <1>9 DEF ConsoleNext, Cpu

-----------------------------------------------------------------------------
(* To the terminal                                                         *)

\* What the terminal has still to get of the text, and of the call.
Remaining == WithReturns(SubSeq(outbuf, i + 1, Len(outbuf)))
Due ==
    CASE phase = "print" -> Remaining
      [] phase = "putc" -> Sends(c) \o (IF back = "print" THEN Remaining ELSE <<>>)
      [] OTHER -> <<>>

\* What has been sent and what is due are what has been said, and putc has left the FIFO at
\* most one character.
SaidIsSent == (screen \o tx) \o Due = said /\ Len(tx) <= 1

LEMMA Assoc == \A p, q, z \in Seq(Char) : (p \o q) \o z = p \o (q \o z)
BY ConcatAssociative

LEMMA Pair ==
    ASSUME NEW x \in Char, NEW y \in Char
    PROVE  <<x>> \in Seq(Char) /\ <<y>> \in Seq(Char) /\ <<x>> \o <<y>> = <<x, y>>
<1>1. <<x>> \in Seq(Char) /\ <<y>> \in Seq(Char) /\ <<x, y>> \in Seq(Char)
      OBVIOUS
<1> DEFINE p == Append(<<x>>, y)
           q == <<x, y>>
<1>2. p \in Seq(Char) /\ q \in Seq(Char) /\ Len(p) = 2 /\ Len(q) = 2 /\ p[1] = x /\ q[1] = x /\ p[2] = y /\ q[2] = y
  <2>1. Len(<<x>>) = 1 /\ <<x>>[1] = x
        OBVIOUS
  <2>2. Len(p) = 1 + 1 /\ p[1] = x /\ p[1 + 1] = y /\ p \in Seq(Char)
        BY <1>1, <2>1, AppendProperties
  <2> QED BY <1>1, <2>2
<1>3. p = <<x>> \o <<y>>
      BY <1>1, AppendIsConcat
<1> HIDE DEF p, q
<1>4. p = q
  <2>1. \A n \in 1 .. Len(p) : p[n] = q[n]
        BY <1>2
  <2> QED BY <1>2, <2>1, SeqEqual
<1> QED BY <1>1, <1>3, <1>4 DEF q

LEMMA WithNothing == \A p \in Seq(Char) : p \o <<>> = p /\ <<>> \o p = p
BY ConcatEmptySeq

LEMMA Joined == \A p, q \in Seq(Char) : p \o q \in Seq(Char)
BY ConcatProperties

\* The next character of a text.
LEMMA LeftFirst ==
    ASSUME NEW t \in Seq(Char), NEW k \in Nat, k < Len(t)
    PROVE  WithReturns(SubSeq(t, k + 1, Len(t))) = Sends(t[k + 1]) \o WithReturns(SubSeq(t, (k + 1) + 1, Len(t)))
<1> DEFINE u == SubSeq(t, (k + 1) + 1, Len(t))
<1>1. k + 1 \in 1 .. Len(t) /\ Len(t) \in (k + 1) .. Len(t) /\ Len(t) \in Nat
      BY LenProperties
<1>2. SubSeq(t, k + 1, Len(t)) = <<t[k + 1]>> \o u
      BY <1>1, SubSeqRecursiveFirst
<1>3. t[k + 1] \in Char /\ u \in Seq(Char)
  <2>1. \A n \in ((k + 1) + 1) .. Len(t) : t[n] \in Char
        BY ElementOfSeq
  <2> QED BY <1>1, <2>1, ElementOfSeq, SubSeqProperties
<1> HIDE DEF u
<1> QED BY <1>2, <1>3, ReturnsFirst DEF u

LEMMA LeftTyped == ConsoleTypes => Remaining \in Seq(Char) /\ Due \in Seq(Char)
<1> SUFFICES ASSUME ConsoleTypes PROVE Remaining \in Seq(Char) /\ Due \in Seq(Char)
    OBVIOUS
<1>1. outbuf \in Seq(Char) /\ i \in Nat /\ c \in Char /\ Len(outbuf) \in Nat
      BY LenProperties DEF ConsoleTypes
<1>2. SubSeq(outbuf, i + 1, Len(outbuf)) \in Seq(Char)
  <2>1. \A n \in (i + 1) .. Len(outbuf) : outbuf[n] \in Char
        BY <1>1, ElementOfSeq
  <2> QED BY <1>1, <2>1, SubSeqProperties
<1>3. Remaining \in Seq(Char)
      BY <1>2, ReturnsTyped DEF Remaining
<1>4. <<>> \in Seq(Char)
      BY EmptySeq
<1>5. Sends(c) \o Remaining \in Seq(Char) /\ Sends(c) \o <<>> \in Seq(Char)
      BY <1>1, <1>3, <1>4, SendsTyped, Joined
<1> QED BY <1>3, <1>4, <1>5 DEF Due

LEMMA ScreenInit == ConsoleInit => SaidIsSent
<1> SUFFICES ASSUME ConsoleInit PROVE SaidIsSent
    OBVIOUS
<1>1. screen = <<>> /\ tx = <<>> /\ said = <<>> /\ Due = <<>> /\ Len(<<>>) = 0
      BY DEF ConsoleInit, Due
<1>2. <<>> \o <<>> = <<>>
      BY EmptySeq, WithNothing
<1> QED BY <1>1, <1>2 DEF SaidIsSent

LEMMA ScreenNext == ConsoleTypes /\ ConsoleTypes' /\ SaidIsSent /\ [ConsoleNext]_consoleVars => SaidIsSent'
<1> SUFFICES ASSUME ConsoleTypes, ConsoleTypes', SaidIsSent, [ConsoleNext]_consoleVars PROVE SaidIsSent'
    OBVIOUS
<1>1. /\ outbuf \in Seq(Char) /\ i \in Nat /\ i <= Len(outbuf) /\ Len(outbuf) \in Nat
      /\ c \in Char /\ tx \in Seq(Char) /\ screen \in Seq(Char) /\ said \in Seq(Char)
      /\ screen \o tx \in Seq(Char) /\ Due \in Seq(Char) /\ Remaining \in Seq(Char)
      BY LenProperties, Joined, LeftTyped DEF ConsoleTypes
<1>2. (screen \o tx) \o Due = said /\ Len(tx) <= 1
      BY DEF SaidIsSent
<1>3. ASSUME UNCHANGED <<screen, tx, said>>, Due' = Due PROVE SaidIsSent'
      BY <1>3, <1>2 DEF SaidIsSent
<1>4. CASE CallPrint
  <2>1. Due = <<>> /\ UNCHANGED <<screen, tx>> /\ phase' = "print" /\ i' = 0 /\ said' = said \o WithReturns(outbuf')
        BY <1>4 DEF CallPrint, Due, uartVars
  <2>2. outbuf' \in Seq(Char)
        BY DEF ConsoleTypes
  <2>3. SubSeq(outbuf', 1, Len(outbuf')) = outbuf'
        BY <2>2, SubSeqFull
  <2>4. Due' = WithReturns(outbuf')
    <3>1. Due' = WithReturns(SubSeq(outbuf', i' + 1, Len(outbuf'))) /\ i' + 1 = 1
          BY <2>1 DEF Due, Remaining
    <3> QED BY <3>1, <2>3
  <2>5. said = screen \o tx
        BY <1>1, <1>2, <2>1, WithNothing
  <2> QED BY <2>1, <2>4, <2>5, <1>2 DEF SaidIsSent
<1>5. CASE NextChar
  <2>1. Due = Remaining /\ UNCHANGED <<screen, tx, said, outbuf>>
        BY <1>5 DEF NextChar, Due, uartVars
  <2>2. CASE i < Len(outbuf)
    <3>1. phase' = "putc" /\ back' = "print" /\ c' = outbuf[i + 1] /\ i' = i + 1
          BY <1>5, <2>2 DEF NextChar, Putc
    <3>2. Due' = Sends(outbuf[i + 1]) \o WithReturns(SubSeq(outbuf, (i + 1) + 1, Len(outbuf)))
          BY <2>1, <3>1 DEF Due, Remaining
    <3>3. Due' = Due
          BY <1>1, <2>1, <2>2, <3>2, LeftFirst DEF Remaining
    <3> QED BY <1>3, <2>1, <3>3
  <2>3. CASE ~(i < Len(outbuf))
    <3>1. phase' = "idle"
          BY <1>5, <2>3 DEF NextChar
    <3>2. SubSeq(outbuf, i + 1, Len(outbuf)) = <<>>
          BY <1>1, <2>3, SubSeqEmpty
    <3>3. Due = <<>> /\ Due' = <<>>
          BY <2>1, <3>1, <3>2, ReturnsOfNothing DEF Due, Remaining
    <3> QED BY <1>3, <2>1, <3>3
  <2> QED BY <2>2, <2>3
<1>6. CASE Put
  <2> DEFINE rest == IF back = "print" THEN Remaining ELSE <<>>
  <2>1. /\ phase = "putc" /\ tx = <<>> /\ UNCHANGED <<screen, said, outbuf, i, back>> /\ Due = Sends(c) \o rest
        /\ back \in {"print", "store"}
        BY <1>6 DEF Put, Send, Due, ConsoleTypes
  <2>2. rest \in Seq(Char) /\ <<c>> \in Seq(Char) /\ Len(<<c>>) = 1 /\ Append(<<>>, c) = <<c>>
        BY <1>1, EmptySeq
  <2>3. tx' = <<c>>
    <3>1. Len(<<>>) < TxDepth
          BY ConsoleAssumption
    <3> QED BY <1>6, <2>1, <2>2, <3>1 DEF Put, Send
  <2>4. Remaining' = Remaining
        BY <2>1 DEF Remaining
  <2>5. <<c>> \o Due' = Due
    <3>1. CASE c = LF
      <4>1. phase' = "putc" /\ c' = CR /\ back' = back
            BY <1>6, <2>1, <3>1 DEF Put, Send
      <4>2. Due' = <<CR>> \o rest
            BY <2>1, <2>4, <4>1 DEF Due, Sends, CR, LF
      <4>3. Due = <<LF, CR>> \o rest
            BY <2>1, <3>1 DEF Sends
      <4>4. <<CR>> \in Seq(Char) /\ <<LF>> \in Seq(Char) /\ <<LF>> \o <<CR>> = <<LF, CR>>
            BY CharFacts, Pair
      <4> DEFINE p == <<LF>>
                 q == <<CR>>
      <4>5. p \in Seq(Char) /\ q \in Seq(Char)
            BY <4>4
      <4> HIDE DEF p, q, rest
      <4>6. (p \o q) \o rest = p \o (q \o rest)
            BY <2>2, <4>5, Assoc
      <4> QED BY <4>2, <4>3, <4>4, <4>6, <3>1 DEF p, q
    <3>2. CASE c # LF
      <4>1. phase' = back /\ back' = back
            BY <1>6, <2>1, <3>2 DEF Put, Send
      <4>2. Due' = rest
            BY <2>1, <2>4, <4>1 DEF Due
      <4> QED BY <2>1, <4>2, <3>2 DEF Sends
    <3> QED BY <3>1, <3>2
  <2>6. Due' \in Seq(Char)
    <3>1. \A S : <<>> \in Seq(S)
          BY EmptySeq
    <3>2. Sends(CR) \in Seq(Char)
          BY SendsTyped, CharFacts
    <3>3. Sends(CR) \o rest \in Seq(Char)
          BY <2>2, <3>2, Joined
    <3>4. (phase' = "putc" /\ c' = CR /\ back' = back) \/ (phase' = back /\ back' = back)
          BY <1>6, <2>1 DEF Put, Send
    <3> HIDE DEF rest
    <3>5. Due' = Sends(CR) \o rest \/ Due' = rest
          BY <2>1, <2>4, <3>4 DEF Due, rest
    <3> QED BY <2>2, <3>3, <3>5
  <2>7. screen \o tx = screen
        BY <2>1, <1>1, WithNothing
  <2>8. (screen \o tx') \o Due' = screen \o (tx' \o Due')
    <3>1. tx' \in Seq(Char)
          BY <2>2, <2>3
    <3> DEFINE p == screen
               q == tx'
               z == Due'
    <3>2. p \in Seq(Char) /\ q \in Seq(Char) /\ z \in Seq(Char)
          BY <3>1, <1>1, <2>6
    <3> HIDE DEF p, q, z
    <3>3. (p \o q) \o z = p \o (q \o z)
          BY <3>2, Assoc
    <3> QED BY <3>3 DEF p, q, z
  <2>9. (screen \o tx') \o Due' = said
        BY <2>3, <2>5, <2>7, <2>8, <1>2
  <2>10. Len(tx') <= 1 /\ said' = said /\ screen' = screen
        BY <2>1, <2>2, <2>3
  <2> QED BY <2>9, <2>10 DEF SaidIsSent
<1>7. CASE CallScanf
  <2>1. Due = <<>> /\ Due' = <<>> /\ UNCHANGED <<screen, tx, said>>
        BY <1>7 DEF CallScanf, Due, uartVars
  <2> QED BY <1>3, <2>1
<1>8. CASE Get
  <2>1. /\ Due = <<>> /\ UNCHANGED <<screen, tx>> /\ said' = said \o WithReturns(<<Head(rx)>>)
        /\ Due' = Sends(Head(rx)) \o <<>>
        BY <1>8 DEF Get, Putc, Due
  <2>2. Head(rx) \in Char
        BY <1>8, HeadTailProperties DEF Get, ConsoleTypes
  <2>3. Due' = Sends(Head(rx)) /\ said' = said \o Sends(Head(rx))
        BY <2>1, <2>2, SendsTyped, ReturnsOfOne, WithNothing
  <2>4. said = screen \o tx
        BY <1>1, <1>2, <2>1, WithNothing
  <2> QED BY <2>1, <2>3, <2>4, <1>2 DEF SaidIsSent
<1>9. CASE StoreKey
  <2>1. Due = <<>> /\ Due' = <<>> /\ UNCHANGED <<screen, tx, said>>
        BY <1>9 DEF StoreKey, Due, uartVars
  <2> QED BY <1>3, <2>1
<1>10. CASE Transmit
  <2>1. /\ tx # <<>> /\ screen' = Append(screen, Head(tx)) /\ tx' = Tail(tx) /\ said' = said
        /\ Due' = Due
        BY <1>10 DEF Transmit, cpuVars, Due, Remaining
  <2>2. Head(tx) \in Char /\ Tail(tx) \in Seq(Char) /\ Len(Tail(tx)) = Len(tx) - 1 /\ tx = <<Head(tx)>> \o Tail(tx)
    <3>1. 1 \in 1 .. Len(tx) /\ Len(tx) \in 1 .. Len(tx)
          BY <1>1, <2>1, EmptySeq
    <3>2. SubSeq(tx, 1, Len(tx)) = <<tx[1]>> \o SubSeq(tx, 1 + 1, Len(tx))
          BY <1>1, <3>1, SubSeqRecursiveFirst
    <3>3. SubSeq(tx, 1, Len(tx)) = tx /\ Tail(tx) = SubSeq(tx, 1 + 1, Len(tx)) /\ Head(tx) = tx[1]
          BY <1>1, <2>1, SubSeqFull, TailIsSubSeq
    <3> QED BY <1>1, <2>1, <3>2, <3>3, HeadTailProperties
  <2> DEFINE p == <<Head(tx)>>
  <2>3. p \in Seq(Char) /\ Append(screen, Head(tx)) = screen \o p
        BY <1>1, <2>2, AppendIsConcat
  <2> HIDE DEF p
  <2>4. (screen \o p) \o Tail(tx) = screen \o (p \o Tail(tx))
    <3> DEFINE q == screen
               z == Tail(tx)
    <3>1. p \in Seq(Char) /\ q \in Seq(Char) /\ z \in Seq(Char)
          BY <1>1, <2>2, <2>3
    <3> HIDE DEF q, z
    <3>2. (q \o p) \o z = q \o (p \o z)
          BY <3>1, Assoc
    <3> QED BY <3>2 DEF q, z
  <2>5. screen' \o tx' = screen \o tx
        BY <2>1, <2>2, <2>3, <2>4 DEF p
  <2>6. Len(tx') <= 1
        BY <1>1, <1>2, <2>1, <2>2, LenProperties
  <2> QED BY <1>2, <2>1, <2>5, <2>6 DEF SaidIsSent
<1>11. CASE Type
  <2>1. Due' = Due /\ UNCHANGED <<screen, tx, said>>
        BY <1>11 DEF Type, Due, Remaining, cpuVars
  <2> QED BY <1>3, <2>1
<1>12. CASE UNCHANGED consoleVars
  <2>1. Due' = Due /\ UNCHANGED <<screen, tx, said>>
        BY <1>12 DEF Due, Remaining, consoleVars, cpuVars, uartVars
  <2> QED BY <1>3, <2>1
<1> QED BY <1>4, <1>5, <1>6, <1>7, <1>8, <1>9, <1>10, <1>11, <1>12 DEF ConsoleNext, Cpu

\* A sequence begins what is made of it and another.
LEMMA Begins ==
    ASSUME NEW p \in Seq(Char), NEW q \in Seq(Char)
    PROVE  IsPrefix(p, p \o q)
<1>1. Len(p) \in Nat /\ Len(q) \in Nat /\ Len(p \o q) = Len(p) + Len(q)
      BY LenProperties, ConcatProperties
<1>2. SubSeq(p \o q, 1, Len(p)) = SubSeq(p, 1, Len(p))
  <2>1. CASE Len(p) = 0
    <3>1. Len(p) < 1 /\ 1 \in Int /\ Len(p) \in Int
          BY <1>1, <2>1
    <3>2. SubSeq(p \o q, 1, Len(p)) = <<>>
          BY <3>1, SubSeqEmpty
    <3>3. SubSeq(p, 1, Len(p)) = <<>>
          BY <3>1, SubSeqEmpty
    <3> QED BY <3>2, <3>3
  <2>2. CASE Len(p) # 0
    <3>1. 1 \in 1 .. Len(p) /\ Len(p) \in 1 .. Len(p)
          BY <1>1, <2>2
    <3> QED BY <3>1, SubSeqOfConcat1
  <2> QED BY <2>1, <2>2
<1>3. Len(p) <= Len(p \o q)
      BY <1>1
<1> QED BY <1>2, <1>3 DEF IsPrefix

LEMMA ScreenFromInv == ConsoleTypes /\ SaidIsSent => ScreenRight
<1> SUFFICES ASSUME ConsoleTypes, SaidIsSent PROVE ScreenRight
    OBVIOUS
<1>1. screen \o tx \in Seq(Char) /\ Due \in Seq(Char)
      BY Joined, LeftTyped DEF ConsoleTypes
<1>2. (screen \o tx) \o Due = said /\ Len(tx) <= 1
      BY DEF SaidIsSent
<1>3. IsPrefix(screen \o tx, (screen \o tx) \o Due)
      BY <1>1, Begins
<1>4. ASSUME phase = "idle" PROVE screen \o tx = said
  <2>1. Due = <<>>
        BY <1>4 DEF Due
  <2> QED BY <2>1, <1>1, <1>2, WithNothing
<1> QED BY <1>2, <1>3, <1>4 DEF ScreenRight

-----------------------------------------------------------------------------
(* From the keys                                                           *)

\* q is part a + 1 .. b of s, as a whole and character by character.
Part(q, s, a, b) == SubSeq(s, a + 1, b) = q
Spells(q, s, a, b) == Len(q) = b - a /\ \A n \in 1 .. Len(q) : q[n] = s[a + n]

LEMMA PartIs ==
    ASSUME NEW s \in Seq(Char), NEW q \in Seq(Char), NEW a \in Nat, NEW b \in Nat, a <= b, b <= Len(s)
    PROVE  Part(q, s, a, b) <=> Spells(q, s, a, b)
<1> DEFINE p == SubSeq(s, a + 1, b)
<1>1. p \in Seq(Char) /\ Len(p) = b - a /\ \A n \in 1 .. (b - a) : p[n] = s[a + n]
  <2>1. \A n \in (a + 1) .. b : s[n] \in Char
        BY ElementOfSeq
  <2>2. /\ p \in Seq(Char) /\ Len(p) = IF a + 1 <= b THEN b - (a + 1) + 1 ELSE 0
        /\ \A n \in 1 .. (b - (a + 1) + 1) : p[n] = s[(a + 1) + n - 1]
        BY <2>1, SubSeqProperties
  <2>3. b - (a + 1) + 1 = b - a /\ \A n \in Int : (a + 1) + n - 1 = a + n
        OBVIOUS
  <2> HIDE DEF p
  <2> QED BY <2>2, <2>3
<1> HIDE DEF p
<1>2. ASSUME Len(q) = b - a, \A n \in 1 .. Len(q) : q[n] = s[a + n] PROVE p = q
  <2>1. Len(p) = Len(q) /\ \A n \in 1 .. Len(p) : p[n] = q[n]
        BY <1>1, <1>2
  <2> QED BY <2>1, <1>1, SeqEqual
<1> QED BY <1>1, <1>2 DEF p, Part, Spells

\* A key more at the end does not change it.
LEMMA PartKept ==
    ASSUME NEW s \in Seq(Char), NEW x \in Char, NEW a \in Nat, NEW b \in Nat, a <= b, b <= Len(s)
    PROVE  SubSeq(Append(s, x), a + 1, b) = SubSeq(s, a + 1, b)
<1> DEFINE u == Append(s, x)
           q == SubSeq(s, a + 1, b)
<1>1. u \in Seq(Char) /\ Len(u) = Len(s) + 1 /\ Len(s) \in Nat /\ \A n \in 1 .. Len(s) : u[n] = s[n]
      BY AppendProperties, LenProperties
<1>2. q \in Seq(Char)
  <2>1. \A n \in (a + 1) .. b : s[n] \in Char
        BY ElementOfSeq
  <2> QED BY <2>1, SubSeqProperties
<1> HIDE DEF u, q
<1>3. Len(q) = b - a /\ \A n \in 1 .. Len(q) : q[n] = s[a + n]
  <2>1. Part(q, s, a, b)
        BY DEF q, Part
  <2>2. Spells(q, s, a, b)
        BY <2>1, <1>2, PartIs
  <2> QED BY <2>2 DEF Spells
<1>4. \A n \in 1 .. Len(q) : a + n \in 1 .. Len(s) /\ u[a + n] = s[a + n]
      BY <1>1, <1>3
<1>5. Spells(q, u, a, b)
      BY <1>3, <1>4 DEF Spells
<1>6. u \in Seq(Char) /\ b <= Len(u)
      BY <1>1
<1>7. Part(q, u, a, b)
      BY <1>2, <1>5, <1>6, PartIs
<1> QED BY <1>7 DEF u, q, Part

NoEnd(t) == ToSet(t) \cap LineEnds = {}

LEMMA NoEndIs ==
    ASSUME NEW t \in Seq(Char)
    PROVE  NoEnd(t) <=> \A n \in 1 .. Len(t) : t[n] \notin LineEnds
<1>1. DOMAIN t = 1 .. Len(t)
      BY LenProperties
<1> QED BY <1>1 DEF NoEnd, ToSet

\* What scanf has got of the line it is reading.
Open ==
    CASE phase = "getc" -> line
      [] phase = "putc" /\ back = "store" -> Append(line, key)
      [] phase = "store" -> Append(line, key)
      [] OTHER -> <<>>

Reading  == phase \in {"getc", "store"} \/ (phase = "putc" /\ back = "store")
Printing == phase = "print" \/ (phase = "putc" /\ back = "print")

LineRead(k) ==
    /\ LineEnd(k - 1) < LineEnd(k) /\ LineEnd(k) <= Len(typed)
    /\ SubSeq(typed, LineEnd(k - 1) + 1, LineEnd(k) - 1) = lines[k].text
    /\ typed[LineEnd(k)] \in LineEnds
    /\ NoEnd(lines[k].text)

\* The lines lie one behind the other in what has been typed, and what is open and what is
\* in the FIFO behind them.
LinesApart == \A k \in 1 .. Len(lines) : LineRead(k)
RestOpen ==
    /\ LineEnd(Len(lines)) <= Len(typed)
    /\ SubSeq(typed, LineEnd(Len(lines)) + 1, Len(typed)) = Open \o rx
JobKnown ==
    /\ Reading => job.f = "scanf" /\ NoEnd(line)
    /\ Printing => job.f # "scanf"
    /\ phase = "idle" /\ job.f = "scanf" => result = Sscanf(UpToNul(lines[Len(lines)].text), job.fmt)

KeysKept == phase # "wild" => LinesApart /\ RestOpen /\ JobKnown

LEMMA LineEndTyped == ConsoleTypes => Len(lines) \in Nat /\ \A k \in 0 .. Len(lines) : LineEnd(k) \in Nat
<1> SUFFICES ASSUME ConsoleTypes PROVE Len(lines) \in Nat /\ \A k \in 0 .. Len(lines) : LineEnd(k) \in Nat
    OBVIOUS
<1> DEFINE R == [text : Seq(Char), end : Nat]
<1>1. lines \in Seq(R)
      BY DEF ConsoleTypes
<1>2. \A r \in R : r.end \in Nat
      OBVIOUS
<1> HIDE DEF R
<1>3. Len(lines) \in Nat /\ \A k \in 1 .. Len(lines) : lines[k] \in R
      BY <1>1, LenProperties, ElementOfSeq
<1> QED BY <1>2, <1>3 DEF LineEnd

LEMMA KeysInit == ConsoleInit => KeysKept
<1> SUFFICES ASSUME ConsoleInit PROVE KeysKept
    OBVIOUS
<1>1. /\ phase = "idle" /\ job.f = "none" /\ lines = <<>> /\ typed = <<>> /\ rx = <<>> /\ Len(<<>>) = 0
      BY DEF ConsoleInit, NoJob
<1>2. LinesApart
      BY <1>1 DEF LinesApart
<1>3. <<>> \o <<>> = <<>>
      BY EmptySeq, WithNothing
<1>4. SubSeq(<<>>, 1, 0) = <<>>
      BY SubSeqEmpty
<1>5. Open = <<>> /\ LineEnd(Len(lines)) = 0
      BY <1>1 DEF Open, LineEnd
<1>6. RestOpen
      BY <1>1, <1>3, <1>4, <1>5 DEF RestOpen
<1>7. JobKnown
      BY <1>1 DEF JobKnown, Reading, Printing
<1> QED BY <1>2, <1>6, <1>7 DEF KeysKept

\* What a step leaves alone stays right.
LEMMA LinesStay ==
    ASSUME UNCHANGED <<lines, typed>>, LinesApart
    PROVE  LinesApart'
BY DEF LinesApart, LineRead, LineEnd

LEMMA RestStays ==
    ASSUME UNCHANGED <<lines, typed, rx>>, Open' = Open, RestOpen
    PROVE  RestOpen'
BY DEF RestOpen, LineEnd

\* A key that comes: the lines stay, and it goes behind what is in the FIFO.
LEMMA KeyComes ==
    ASSUME ConsoleTypes, LinesApart, RestOpen, UNCHANGED lines, Open' = Open, Open \in Seq(Char),
           NEW x \in Char, typed' = Append(typed, x), rx' = Append(rx, x)
    PROVE  LinesApart' /\ RestOpen'
<1>1. /\ typed \in Seq(Char) /\ rx \in Seq(Char) /\ typed' \in Seq(Char)
      /\ Len(typed) \in Nat /\ Len(typed') = Len(typed) + 1 /\ typed'[Len(typed) + 1] = x
      /\ \A n \in 1 .. Len(typed) : typed'[n] = typed[n]
      BY AppendProperties, LenProperties DEF ConsoleTypes
<1>2. Len(lines) \in Nat /\ \A k \in 0 .. Len(lines) : LineEnd(k) \in Nat
      BY LineEndTyped
<1>3. \A k : LineEnd(k)' = LineEnd(k)
      BY DEF LineEnd
<1>4. ASSUME NEW k \in 1 .. Len(lines) PROVE LineRead(k)'
  <2>1. LineRead(k) /\ LineEnd(k) \in Nat /\ LineEnd(k - 1) \in Nat
        BY <1>2, <1>4 DEF LinesApart
  <2>2. /\ LineEnd(k) - 1 \in Nat /\ LineEnd(k - 1) <= LineEnd(k) - 1
        /\ LineEnd(k) - 1 <= Len(typed) /\ LineEnd(k) \in 1 .. Len(typed)
    <3> DEFINE a == LineEnd(k - 1)
               b == LineEnd(k)
               L == Len(typed)
    <3>1. a \in Nat /\ b \in Nat /\ L \in Nat /\ a < b /\ b <= L
          BY <2>1, <1>1 DEF LineRead
    <3> HIDE DEF a, b, L
    <3>2. b - 1 \in Nat /\ a <= b - 1 /\ b - 1 <= L /\ b \in 1 .. L
          BY <3>1
    <3> QED BY <3>2 DEF a, b, L
  <2>3. SubSeq(typed', LineEnd(k - 1) + 1, LineEnd(k) - 1) = SubSeq(typed, LineEnd(k - 1) + 1, LineEnd(k) - 1)
    <3> DEFINE a == LineEnd(k - 1)
               b == LineEnd(k) - 1
    <3>1. typed \in Seq(Char) /\ a \in Nat /\ b \in Nat /\ a <= b /\ b <= Len(typed)
          BY <1>1, <2>1, <2>2
    <3> HIDE DEF a, b
    <3>2. SubSeq(Append(typed, x), a + 1, b) = SubSeq(typed, a + 1, b)
          BY <3>1, PartKept
    <3> QED BY <3>2 DEF a, b
  <2>4. typed'[LineEnd(k)] = typed[LineEnd(k)] /\ LineEnd(k) <= Len(typed')
        BY <1>1, <2>2
  <2>5. LineEnd(k)' = LineEnd(k) /\ LineEnd(k - 1)' = LineEnd(k - 1)
        BY <1>3
  <2> QED BY <2>1, <2>3, <2>4, <2>5 DEF LineRead
<1>5. LinesApart'
      BY <1>4 DEF LinesApart
<1>6. RestOpen'
  <2> DEFINE E == LineEnd(Len(lines))
             L == Len(typed)
  <2>1. E \in Nat /\ L \in Nat /\ E <= L /\ SubSeq(typed, E + 1, L) = Open \o rx
    <3>1. Len(lines) \in 0 .. Len(lines)
          BY <1>2
    <3>2. E \in Nat
          BY <3>1, <1>2, Zenon
    <3>3. E <= L /\ SubSeq(typed, E + 1, L) = Open \o rx
          BY Zenon DEF RestOpen
    <3> QED BY <1>1, <3>2, <3>3
  <2>2. Len(typed') = L + 1 /\ typed'[L + 1] = x
        BY <1>1
  <2>3. (LineEnd(Len(lines)))' = E
        BY <1>3
  <2>4. SubSeq(typed', E + 1, L) = SubSeq(typed, E + 1, L)
    <3>1. L <= Len(typed)
          BY <2>1
    <3> HIDE DEF E, L
    <3>2. SubSeq(Append(typed, x), E + 1, L) = SubSeq(typed, E + 1, L)
      <4>1. typed \in Seq(Char) /\ E \in Nat /\ L \in Nat /\ E <= L
            BY <1>1, <2>1
      <4> QED BY <4>1, <3>1, PartKept
    <3> QED BY <3>2
  <2> HIDE DEF E, L
  <2>5. SubSeq(typed', E + 1, L + 1) = SubSeq(typed', E + 1, L) \o <<x>>
    <3>1. E + 1 \in 1 .. Len(typed') /\ L + 1 \in (E + 1) .. Len(typed') /\ (L + 1) - 1 = L
          BY <2>1, <2>2
    <3>2. SubSeq(typed', E + 1, L + 1) = SubSeq(typed', E + 1, (L + 1) - 1) \o <<typed'[L + 1]>>
          BY <1>1, <3>1, SubSeqRecursiveSecond
    <3> QED BY <3>1, <3>2, <2>2
  <2>6. (Open \o rx) \o <<x>> = Open \o rx'
    <3> DEFINE p == <<x>>
               q == Open
    <3>1. p \in Seq(Char) /\ Append(rx, x) = rx \o p
          BY <1>1, AppendIsConcat
    <3> HIDE DEF p, q
    <3>2. q \in Seq(Char) /\ rx \in Seq(Char)
          BY <1>1 DEF q
    <3>3. (q \o rx) \o p = q \o (rx \o p)
          BY <3>1, <3>2, Assoc
    <3> QED BY <3>1, <3>3 DEF p, q
  <2>7. SubSeq(typed', E + 1, L + 1) = Open' \o rx'
        BY <2>1, <2>4, <2>5, <2>6
  <2>8. E <= L + 1
        BY <2>1
  <2> QED BY <2>2, <2>3, <2>7, <2>8 DEF RestOpen
<1> QED BY <1>5, <1>6

LEMMA OpenTyped == ConsoleTypes => Open \in Seq(Char)
<1> SUFFICES ASSUME ConsoleTypes PROVE Open \in Seq(Char)
    OBVIOUS
<1>1. line \in Seq(Char) /\ Append(line, key) \in Seq(Char) /\ <<>> \in Seq(Char)
      BY AppendProperties, EmptySeq DEF ConsoleTypes
<1> QED BY <1>1 DEF Open

\* The first character of what is in the FIFO goes behind the line.
LEMMA MovesOver ==
    ASSUME NEW p \in Seq(Char), NEW q \in Seq(Char), q # <<>>
    PROVE  Append(p, Head(q)) \o Tail(q) = p \o q
<1> DEFINE x == <<Head(q)>>
           y == Tail(q)
<1>1. q = x \o y /\ x \in Seq(Char) /\ y \in Seq(Char) /\ Append(p, Head(q)) = p \o x
  <2>1. 1 \in 1 .. Len(q) /\ Len(q) \in 1 .. Len(q)
        BY LenProperties, EmptySeq
  <2>2. SubSeq(q, 1, Len(q)) = <<q[1]>> \o SubSeq(q, 1 + 1, Len(q))
        BY <2>1, SubSeqRecursiveFirst
  <2>3. SubSeq(q, 1, Len(q)) = q /\ Tail(q) = SubSeq(q, 1 + 1, Len(q)) /\ Head(q) = q[1]
        BY SubSeqFull, TailIsSubSeq
  <2>4. Head(q) \in Char /\ Tail(q) \in Seq(Char)
        BY HeadTailProperties
  <2> QED BY <2>2, <2>3, <2>4, AppendIsConcat
<1> HIDE DEF x, y
<1>2. (p \o x) \o y = p \o (x \o y)
      BY <1>1, Assoc
<1>3. Append(p, Head(q)) \o y = p \o q
      BY <1>1, <1>2
<1> QED BY <1>3 DEF y

\* A line ends: it lies behind the ones before it, and the FIFO behind it.
LEMMA LineCloses ==
    ASSUME ConsoleTypes, LinesApart, RestOpen, Open = Append(line, key), NoEnd(line), key \in LineEnds,
           UNCHANGED <<typed, rx>>, Open' = <<>>,
           lines' = Append(lines, [text |-> line, end |-> Len(typed) - Len(rx)])
    PROVE  LinesApart' /\ RestOpen'
<1>0. PICK N, E, L, X : N = Len(lines) /\ E = LineEnd(N) /\ L = Len(typed) /\ X = Len(typed) - Len(rx)
      OBVIOUS
<1> DEFINE rec == [text |-> line, end |-> X]
           opened == Append(line, key)
<1>1. /\ typed \in Seq(Char) /\ rx \in Seq(Char) /\ line \in Seq(Char) /\ key \in Char
      /\ L \in Nat /\ Len(rx) \in Nat /\ Len(line) \in Nat /\ N \in Nat /\ E \in Nat
      /\ \A k \in 0 .. N : LineEnd(k) \in Nat
  <2>1. N \in Nat /\ \A k \in 0 .. N : LineEnd(k) \in Nat
        BY <1>0, LineEndTyped
  <2>2. N \in 0 .. N
        BY <2>1
  <2>3. E \in Nat
        BY <2>1, <2>2, <1>0, Zenon
  <2> QED BY <2>1, <2>3, <1>0, LenProperties DEF ConsoleTypes
<1>2. /\ opened \in Seq(Char) /\ Len(opened) = Len(line) + 1 /\ opened[Len(line) + 1] = key
      /\ \A n \in 1 .. Len(line) : opened[n] = line[n]
      BY <1>1, AppendProperties
<1>3. /\ Len(lines') = N + 1 /\ lines'[N + 1] = rec /\ \A k \in 1 .. N : lines'[k] = lines[k]
  <2> DEFINE R == [text : Seq(Char), end : Nat]
  <2>1. lines \in Seq(R) /\ rec \in R
    <3>1. X \in Nat
          BY <1>0, <1>1 DEF ConsoleTypes
    <3> QED BY <3>1, <1>1 DEF ConsoleTypes
  <2> HIDE DEF R, rec
  <2>2. lines' = Append(lines, rec)
        BY <1>0 DEF rec
  <2> QED BY <2>1, <2>2, <1>0, AppendProperties
<1>4. E <= L /\ SubSeq(typed, E + 1, L) = opened \o rx
      BY <1>0, Zenon DEF RestOpen
<1>5. rec.text = line /\ rec.end = X
      OBVIOUS
<1> HIDE DEF opened, rec
<1>6. /\ opened \o rx \in Seq(Char) /\ Len(opened \o rx) = L - E
      /\ \A n \in 1 .. (L - E) : (opened \o rx)[n] = typed[E + n]
  <2>1. opened \o rx \in Seq(Char)
        BY <1>1, <1>2, Joined
  <2> DEFINE z == opened \o rx
  <2>2. z \in Seq(Char) /\ typed \in Seq(Char) /\ E \in Nat /\ L \in Nat /\ E <= L /\ L <= Len(typed)
        BY <1>0, <1>1, <1>4, <2>1
  <2>3. Part(z, typed, E, L)
        BY <1>4 DEF Part
  <2> HIDE DEF z
  <2>4. Spells(z, typed, E, L)
        BY <2>2, <2>3, PartIs
  <2> QED BY <2>2, <2>4 DEF z, Spells
<1>7. PICK A, B, C : A = Len(opened) /\ B = Len(rx) /\ C = Len(line)
      OBVIOUS
<1>8. /\ A = C + 1 /\ A \in Nat /\ B \in Nat /\ C \in Nat /\ A + B = L - E
      /\ X = (E + C) + 1 /\ X = E + A /\ X \in Nat /\ X - 1 \in Nat /\ E <= X - 1 /\ E < X /\ X <= L
      /\ L - X = B /\ (X - 1) - E = C
  <2>1. Len(opened \o rx) = A + B
        BY <1>1, <1>2, <1>7, ConcatProperties
  <2>2. A = C + 1 /\ A \in Nat /\ B \in Nat /\ C \in Nat /\ A + B = L - E /\ X = L - B /\ L \in Nat /\ E \in Nat
        BY <2>1, <1>0, <1>1, <1>2, <1>6, <1>7
  <2> QED BY <2>2
<1>9. /\ \A n \in 1 .. A : opened[n] = typed[E + n]
      /\ \A n \in 1 .. B : rx[n] = typed[X + n]
  <2>1. \A n \in 1 .. (A + B) : (opened \o rx)[n] = IF n <= A THEN opened[n] ELSE rx[n - A]
        BY <1>1, <1>2, <1>7, ConcatProperties
  <2>2. ASSUME NEW n \in 1 .. A PROVE opened[n] = typed[E + n]
    <3>1. n \in 1 .. (A + B) /\ n \in 1 .. (L - E) /\ n <= A
          BY <1>8, <1>1
    <3> QED BY <3>1, <2>1, <1>6
  <2>3. ASSUME NEW n \in 1 .. B PROVE rx[n] = typed[X + n]
    <3>1. /\ A + n \in 1 .. (A + B) /\ A + n \in 1 .. (L - E) /\ ~(A + n <= A)
          /\ (A + n) - A = n /\ E + (A + n) = X + n
          BY <1>8, <1>1
    <3> QED BY <3>1, <2>1, <1>6
  <2> QED BY <2>2, <2>3
<1>10. SubSeq(typed, E + 1, X - 1) = line
  <2>1. \A n \in 1 .. C : line[n] = typed[E + n]
    <3>1. \A n \in 1 .. C : n \in 1 .. A
          BY <1>8
    <3> QED BY <3>1, <1>2, <1>7, <1>9
  <2>2. Spells(line, typed, E, X - 1)
        BY <2>1, <1>7, <1>8 DEF Spells
  <2>3. /\ typed \in Seq(Char) /\ line \in Seq(Char) /\ E \in Nat
        /\ X - 1 \in Nat /\ E <= X - 1 /\ X - 1 <= Len(typed)
        BY <1>0, <1>1, <1>8
  <2>4. Part(line, typed, E, X - 1)
        BY <2>2, <2>3, PartIs
  <2> QED BY <2>4 DEF Part
<1>11. typed[X] = key
  <2>1. C + 1 \in 1 .. A /\ E + (C + 1) = X
        BY <1>1, <1>8
  <2> QED BY <2>1, <1>2, <1>7, <1>9
<1>12. SubSeq(typed, X + 1, L) = rx
  <2>1. Spells(rx, typed, X, L)
        BY <1>7, <1>8, <1>9 DEF Spells
  <2>2. typed \in Seq(Char) /\ rx \in Seq(Char) /\ X \in Nat /\ L \in Nat /\ X <= L /\ L <= Len(typed)
        BY <1>0, <1>1, <1>8
  <2>3. Part(rx, typed, X, L)
        BY <2>1, <2>2, PartIs
  <2> QED BY <2>3 DEF Part
<1>13. ASSUME NEW k \in 0 .. N PROVE LineEnd(k)' = LineEnd(k)
  <2>1. k # 0 => k \in 1 .. N
        BY <1>1, <1>13
  <2> QED BY <2>1, <1>3 DEF LineEnd
<1>14. LineEnd(N + 1)' = X
  <2>1. N + 1 # 0
        BY <1>1
  <2>2. LineEnd(N + 1)' = lines'[N + 1].end
        BY <2>1 DEF LineEnd
  <2> QED BY <2>2, <1>3, <1>5
<1>15. ASSUME NEW k \in 1 .. N PROVE LineRead(k)'
  <2>1. k \in 0 .. N /\ k - 1 \in 0 .. N
        BY <1>1, <1>15
  <2>2. LineEnd(k)' = LineEnd(k) /\ LineEnd(k - 1)' = LineEnd(k - 1) /\ lines'[k] = lines[k]
        BY <2>1, <1>3, <1>13
  <2>3. LineRead(k)
        BY <1>0, <1>15 DEF LinesApart
  <2> QED BY <2>2, <2>3 DEF LineRead
<1>16. LineRead(N + 1)'
  <2>1. N \in 0 .. N /\ (N + 1) - 1 = N
        BY <1>1
  <2>2. LineEnd((N + 1) - 1)' = E
        BY <2>1, <1>0, <1>13
  <2>3. lines'[N + 1].text = line /\ X <= Len(typed)
        BY <1>0, <1>3, <1>5, <1>8
  <2> QED BY <2>2, <2>3, <1>8, <1>10, <1>11, <1>14 DEF LineRead
<1>17. LinesApart'
  <2>1. \A k \in 1 .. (N + 1) : k \in 1 .. N \/ k = N + 1
        BY <1>1
  <2>2. \A k \in 1 .. Len(lines') : LineRead(k)'
        BY <2>1, <1>3, <1>15, <1>16
  <2> QED BY <2>2 DEF LinesApart
<1>18. RestOpen'
  <2>1. LineEnd(Len(lines))' = X
        BY <1>3, <1>14
  <2>2. Open' \o rx' = rx
        BY <1>1, WithNothing
  <2>3. X <= Len(typed) /\ SubSeq(typed, X + 1, Len(typed)) = rx
        BY <1>0, <1>8, <1>12
  <2> QED BY <2>1, <2>2, <2>3 DEF RestOpen
<1> QED BY <1>17, <1>18

LEMMA KeysNext == ConsoleTypes /\ ConsoleTypes' /\ KeysKept /\ [ConsoleNext]_consoleVars => KeysKept'
<1> SUFFICES ASSUME ConsoleTypes, ConsoleTypes', KeysKept, [ConsoleNext]_consoleVars, phase' # "wild"
             PROVE  LinesApart' /\ RestOpen' /\ JobKnown'
    BY DEF KeysKept
<1>1. Open \in Seq(Char) /\ rx \in Seq(Char) /\ line \in Seq(Char) /\ key \in Char
      BY OpenTyped DEF ConsoleTypes
<1>2. CASE CallPrint
  <2>1. PICK j \in Jobs : j.f \in {"printf", "puts"} /\ job' = j
        BY <1>2 DEF CallPrint
  <2>2. phase = "idle" /\ phase' = "print" /\ UNCHANGED <<lines, typed, rx>>
        BY <1>2 DEF CallPrint, uartVars
  <2>3. Open' = Open
        BY <2>2 DEF Open
  <2>4. JobKnown'
        BY <2>1, <2>2 DEF JobKnown, Reading, Printing
  <2> QED BY <2>2, <2>3, <2>4, LinesStay, RestStays DEF KeysKept
<1>3. CASE CallScanf
  <2>1. phase = "idle" /\ phase' = "getc" /\ line' = <<>> /\ job'.f = "scanf" /\ UNCHANGED <<lines, typed, rx>>
        BY <1>3 DEF CallScanf, uartVars
  <2>2. Open' = Open
        BY <2>1 DEF Open
  <2>3. NoEnd(<<>>)
        BY DEF NoEnd, ToSet
  <2>4. JobKnown'
        BY <2>1, <2>3 DEF JobKnown, Reading, Printing
  <2> QED BY <2>1, <2>2, <2>4, LinesStay, RestStays DEF KeysKept
<1>4. CASE NextChar
  <2>1. /\ phase = "print" /\ UNCHANGED <<lines, typed, rx, job>>
        /\ (phase' = "putc" /\ back' = "print") \/ phase' = "idle"
        BY <1>4 DEF NextChar, Putc, uartVars
  <2>2. Open' = Open
        BY <2>1 DEF Open
  <2>3. JobKnown'
        BY <2>1 DEF KeysKept, JobKnown, Reading, Printing
  <2> QED BY <2>1, <2>2, <2>3, LinesStay, RestStays DEF KeysKept
<1>5. CASE Put
  <2>1. /\ phase = "putc" /\ UNCHANGED <<lines, typed, rx, job, back, line, key>>
        /\ phase' = "putc" \/ phase' = back
        /\ back \in {"print", "store"}
        BY <1>5 DEF Put, Send, ConsoleTypes
  <2>2. Open' = Open
        BY <2>1 DEF Open
  <2>3. JobKnown'
        BY <2>1 DEF KeysKept, JobKnown, Reading, Printing
  <2> QED BY <2>1, <2>2, <2>3, LinesStay, RestStays DEF KeysKept
<1>6. CASE Get
  <2>1. /\ phase = "getc" /\ rx # <<>> /\ phase' = "putc" /\ back' = "store" /\ key' = Head(rx) /\ rx' = Tail(rx)
        /\ UNCHANGED <<lines, typed, job, line>>
        BY <1>6 DEF Get, Putc
  <2>2. Open = line /\ Open' = Append(line, Head(rx))
        BY <2>1 DEF Open
  <2>3. Open' \o rx' = Open \o rx
        BY <2>1, <2>2, <1>1, MovesOver
  <2>4. RestOpen'
        BY <2>1, <2>3 DEF KeysKept, RestOpen, LineEnd
  <2>5. JobKnown'
        BY <2>1 DEF KeysKept, JobKnown, Reading, Printing
  <2> QED BY <2>1, <2>4, <2>5, LinesStay DEF KeysKept
<1>7. CASE StoreKey
  <2>1. phase = "store" /\ UNCHANGED <<typed, rx, job>> /\ Open = Append(line, key)
        BY <1>7 DEF StoreKey, uartVars, Open
  <2>2. NoEnd(line) /\ job.f = "scanf"
        BY <2>1 DEF KeysKept, JobKnown, Reading
  <2>3. CASE key \in LineEnds
    <3>1. /\ phase' = "idle" /\ lines' = Append(lines, [text |-> line, end |-> Len(typed) - Len(rx)])
          /\ result' = Sscanf(UpToNul(line), job.fmt)
          BY <1>7, <2>3 DEF StoreKey
    <3>2. Open' = <<>>
          BY <3>1 DEF Open
    <3>3. LinesApart' /\ RestOpen'
          BY <2>1, <2>2, <2>3, <3>1, <3>2, LineCloses DEF KeysKept
    <3>4. lines'[Len(lines')].text = line
      <4> DEFINE R == [text : Seq(Char), end : Nat]
                 e == [text |-> line, end |-> Len(typed) - Len(rx)]
      <4>1. e \in R
            BY LenProperties DEF ConsoleTypes
      <4>2. lines \in Seq(R) /\ e.text = line /\ lines' = Append(lines, e)
            BY <3>1 DEF ConsoleTypes
      <4> HIDE DEF e, R
      <4>3. Len(lines') = Len(lines) + 1 /\ lines'[Len(lines) + 1] = e
            BY <4>1, <4>2, AppendProperties
      <4> QED BY <4>2, <4>3
    <3>5. JobKnown'
          BY <2>1, <3>1, <3>4 DEF JobKnown, Reading, Printing
    <3> QED BY <3>3, <3>5
  <2>4. CASE key \notin LineEnds
    <3>1. phase' = "getc" /\ line' = Append(line, key) /\ UNCHANGED lines
          BY <1>7, <2>4 DEF StoreKey
    <3>2. Open' = Open
          BY <2>1, <3>1 DEF Open
    <3>3. NoEnd(line')
      <4>1. /\ line' \in Seq(Char) /\ Len(line') = Len(line) + 1 /\ line'[Len(line) + 1] = key
            /\ Len(line) \in Nat /\ \A n \in 1 .. Len(line) : line'[n] = line[n]
            BY <1>1, <3>1, AppendProperties, LenProperties
      <4>2. \A n \in 1 .. Len(line) : line[n] \notin LineEnds
            BY <1>1, <2>2, NoEndIs
      <4>3. \A n \in 1 .. Len(line') : n \in 1 .. Len(line) \/ n = Len(line) + 1
            BY <4>1
      <4>4. \A n \in 1 .. Len(line') : line'[n] \notin LineEnds
            BY <2>4, <4>1, <4>2, <4>3
      <4> QED BY <4>1, <4>4, NoEndIs
    <3>4. NoEnd(line)'
          BY <3>3 DEF NoEnd
    <3>5. JobKnown'
          BY <2>1, <2>2, <3>1, <3>4 DEF JobKnown, Reading, Printing
    <3> QED BY <2>1, <3>1, <3>2, <3>5, LinesStay, RestStays DEF KeysKept
  <2> QED BY <2>3, <2>4
<1>8. CASE Transmit
  <2>1. UNCHANGED <<cpuVars, rx, typed>>
        BY <1>8 DEF Transmit
  <2>2. Open' = Open /\ UNCHANGED <<lines, typed, rx, phase>>
        BY <2>1 DEF cpuVars, Open
  <2>3. JobKnown'
        BY <2>1 DEF KeysKept, JobKnown, Reading, Printing, cpuVars
  <2> QED BY <2>2, <2>3, LinesStay, RestStays DEF KeysKept
<1>9. CASE Type
  <2>1. UNCHANGED cpuVars
        BY <1>9 DEF Type
  <2>2. Open' = Open /\ UNCHANGED <<lines, phase>>
        BY <2>1 DEF cpuVars, Open
  <2>3. JobKnown'
        BY <2>1 DEF KeysKept, JobKnown, Reading, Printing, cpuVars
  <2>4. PICK k \in Keys : IF Len(rx) < RxDepth THEN rx' = Append(rx, k) /\ typed' = Append(typed, k)
                          ELSE UNCHANGED <<rx, typed>>
        BY <1>9 DEF Type
  <2>5. CASE Len(rx) < RxDepth
        BY <1>1, <2>2, <2>3, <2>4, <2>5, KeyComes, CharFacts DEF KeysKept
  <2>6. CASE ~(Len(rx) < RxDepth)
        BY <2>2, <2>3, <2>4, <2>6, LinesStay, RestStays DEF KeysKept
  <2> QED BY <2>5, <2>6
<1>10. CASE UNCHANGED consoleVars
  <2>1. Open' = Open /\ UNCHANGED <<lines, typed, rx, phase>>
        BY <1>10 DEF consoleVars, cpuVars, uartVars, Open
  <2>2. JobKnown'
        BY <1>10 DEF KeysKept, JobKnown, Reading, Printing, consoleVars, cpuVars
  <2> QED BY <2>1, <2>2, LinesStay, RestStays DEF KeysKept
<1> QED BY <1>2, <1>3, <1>4, <1>5, <1>6, <1>7, <1>8, <1>9, <1>10 DEF ConsoleNext, Cpu

LEMMA KeysFromInv == ConsoleTypes /\ KeysKept => KeysRead
<1> SUFFICES ASSUME ConsoleTypes, KeysKept, phase # "wild" PROVE KeysRead
    BY DEF KeysRead
<1>1. LinesApart /\ RestOpen /\ JobKnown /\ DOMAIN lines = 1 .. Len(lines)
      BY LenProperties DEF KeysKept, ConsoleTypes
<1>2. \A k \in DOMAIN lines :
         /\ LineEnd(k - 1) < LineEnd(k)
         /\ SubSeq(typed, LineEnd(k - 1) + 1, LineEnd(k) - 1) = lines[k].text
         /\ typed[LineEnd(k)] \in LineEnds
         /\ ToSet(lines[k].text) \cap LineEnds = {}
      BY <1>1 DEF LinesApart, LineRead, NoEnd
<1>3. SubSeq(typed, LineEnd(Len(lines)) + 1, Len(typed)) = Open \o rx
      BY <1>1 DEF RestOpen
<1>4. phase = "idle" /\ job.f = "scanf" => result = Sscanf(UpToNul(Last(lines).text), job.fmt)
      BY <1>1 DEF JobKnown, Last
<1> QED BY <1>2, <1>3, <1>4 DEF KeysRead, Open

-----------------------------------------------------------------------------
(* Theorems                                                                *)

ConsoleInv == ConsoleTypes /\ SaidIsSent /\ KeysKept

LEMMA ConsoleInvariant == ConsoleSpec => []ConsoleInv
<1>1. ConsoleInit => ConsoleInv
      BY TypesInit, ScreenInit, KeysInit DEF ConsoleInv
<1>2. ConsoleInv /\ [ConsoleNext]_consoleVars => ConsoleInv'
      BY TypesNext, ScreenNext, KeysNext DEF ConsoleInv
<1> QED BY <1>1, <1>2, PTL DEF ConsoleSpec

\* The terminal gets what has been said, in order and with its carriage returns, whatever
\* is printed, typed and echoed (printf.c, uart.c:203).
THEOREM ScreenIsRight == ConsoleSpec => []ScreenRight
<1>1. ConsoleInv => ScreenRight
      BY ScreenFromInv DEF ConsoleInv
<1> QED BY <1>1, ConsoleInvariant, PTL

\* Every line scanf reads is the keys between two line ends, none lost and none read twice
\* (printf.c:41-54).
THEOREM KeysAreRead == ConsoleSpec => []KeysRead
<1>1. ConsoleInv => KeysRead
      BY KeysFromInv DEF ConsoleInv
<1> QED BY <1>1, ConsoleInvariant, PTL
=============================================================================
