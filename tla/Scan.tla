-------------------------------- MODULE Scan --------------------------------
(***************************************************************************)
(* vsscanf and the conversions of strings to numbers (src/lib/vsprintf.c): *)
(* what a string and a format store.                                       *)
(*                                                                         *)
(* A format is a sequence of items: white space, however much of it, a     *)
(* character that must be there, or a directive.                           *)
(***************************************************************************)
EXTENDS Format, SequencesExt

CONSTANT CharBits   \* 8

Space == [kind |-> "space"]
In(width, qual, conv) == [kind |-> "in", skip |-> FALSE, width |-> width, qual |-> qual, conv |-> conv]
Skipped == [kind |-> "in", skip |-> TRUE, width |-> None, qual |-> Nul, conv |-> Nul]

-----------------------------------------------------------------------------
(* Characters                                                              *)

\* The character at p of a string, or the NUL that ends it.
At(str, p) == IF p <= Len(str) THEN str[p] ELSE Nul

\* A vertical tab and, at 160, the space that must not be broken, which is white space too.
VT   == "VT"
NBSP == "NBSP"
Spaces      == {" ", "\t", "\n", VT, "\f", "\r", NBSP}
IsSpace(c)  == c \in Spaces
Digits(base) == {Upper[i] : i \in 1 .. base} \cup {Lower[i] : i \in 1 .. base}
IsDigit(c)  == c \in Digits(10)
IsXDigit(c) == c \in Digits(16)
DigitVal(c) == CHOOSE d \in 0 .. 15 : c \in {Upper[d + 1], Lower[d + 1]}

\* The first place from p on whose character is none of the chars, or is one of them; or
\* the end of the string.
Past(str, p, chars) ==
    CHOOSE q \in p .. (Len(str) + 1) :
        At(str, q) \notin chars /\ \A k \in p .. (q - 1) : str[k] \in chars
UpTo(str, p, chars) ==
    CHOOSE q \in p .. (Len(str) + 1) :
        At(str, q) \in chars \cup {Nul} /\ \A k \in p .. (q - 1) : str[k] \notin chars \cup {Nul}

SkipSpaces(str, p) == Past(str, p, Spaces)

-----------------------------------------------------------------------------
(* Numbers                                                                 *)

\* mutant: no base is given by a prefix
PrefixIgnored(str, p, base) == [base |-> IF base = 0 THEN 10 ELSE base, from |-> p]

\* The base, and where the digits start: base 0 leaves it to the string.
Prefix(str, p, base) ==
    LET x(q) == At(str, q) \in {"x", "X"}
    IN  CASE base = 0 /\ At(str, p) = "0" /\ x(p + 1) /\ IsXDigit(At(str, p + 2)) -> [base |-> 16, from |-> p + 2]
          [] base = 0 /\ At(str, p) = "0" /\ ~(x(p + 1) /\ IsXDigit(At(str, p + 2))) -> [base |-> 8, from |-> p + 1]
          [] base = 0 /\ At(str, p) # "0" -> [base |-> 10, from |-> p]
          [] base = 16 /\ At(str, p) = "0" /\ x(p + 1) -> [base |-> 16, from |-> p + 2]
          [] OTHER -> [base |-> base, from |-> p]

\* simple_strtoul and simple_strtoull, by the width of their result: the value, and endp.
StrToUL(str, p, base, bits) ==
    LET start == Prefix(str, p, base)
        end   == Past(str, start.from, Digits(start.base))
    IN  [val |-> FoldLeft(LAMBDA v, c : LowBits(v * start.base + DigitVal(c), bits), 0,
                          SubSeq(str, start.from, end - 1)),
         endp |-> end]

\* simple_strtol and simple_strtoll.
StrToL(str, p, base, bits) ==
    IF At(str, p) = "-"
    THEN [StrToUL(str, p + 1, base, bits) EXCEPT !.val = AsSigned(-@, bits)]
    ELSE [StrToUL(str, p, base, bits) EXCEPT !.val = AsSigned(@, bits)]

\* What a directive converts to: its base, whether there may be a minus, and the width
\* of the object the value is stored in.
ScanBase(dir)   == CASE dir.conv = "o" -> 8 [] dir.conv \in {"x", "X"} -> 16 [] dir.conv = "i" -> 0 [] OTHER -> 10
ScanSigned(dir) == dir.conv \in {"d", "i"}
ScanBits(dir)   == CASE dir.qual = "H" -> CharBits [] dir.qual = "h" -> ShortBits
                     [] dir.qual = "L" -> LongLongBits [] OTHER -> IntBits

\* Whether the digit that follows, after a minus if there may be one, is one of the base.
StartsNumber(str, p, dir) ==
    LET q == IF ScanSigned(dir) /\ At(str, p) = "-" THEN p + 1 ELSE p
    IN  CASE ScanBase(dir) = 16 -> IsXDigit(At(str, q))
          [] ScanBase(dir) = 8  -> IsDigit(At(str, q)) /\ DigitVal(At(str, q)) < 8
          [] OTHER              -> IsDigit(At(str, q))

\* The value stored, cut to the object, and where the number ends.  %zd stores a size_t.
ScanNumber(str, p, dir) ==
    LET bits == IF dir.qual = "L" THEN LongLongBits ELSE IntBits
    IN  IF ScanSigned(dir) /\ dir.qual \notin {"z", "Z"}
        THEN [StrToL(str, p, ScanBase(dir), bits) EXCEPT !.val = AsSigned(@, ScanBits(dir))]
        ELSE [StrToUL(str, p, ScanBase(dir), bits) EXCEPT !.val = LowBits(@, ScanBits(dir))]

-----------------------------------------------------------------------------
(* vsscanf                                                                 *)

(* The state between two items: the place in the string, what has been     *)
(* stored and how many of that count as converted; and whether it goes on, *)
(* has stopped, or looks for the next white space of the format.           *)
Start == [p |-> 1, num |-> 0, got |-> <<>>, mode |-> "on"]

Stop(s)             == [s EXCEPT !.mode = "stop"]
Go(s, p)            == [s EXCEPT !.p = p, !.mode = "on"]
Store(s, v, p)      == [s EXCEPT !.p = p, !.got = Append(@, v), !.num = @ + 1]
StoreUncounted(s, v) == [s EXCEPT !.got = Append(@, v)]

ScanChars(str, s, dir) ==
    LET last == s.p + Greater(dir.width, 1) - 1
        end  == IF last < Len(str) THEN last ELSE Len(str)
    IN  Store(s, SubSeq(str, s.p, end), end + 1)

ScanString(str, s, dir) ==
    LET from == SkipSpaces(str, s.p)
        word == UpTo(str, from, Spaces)
        end  == IF dir.width # None /\ from + dir.width < word THEN from + dir.width ELSE word
    IN  Store(s, SubSeq(str, from, end - 1), end)

ScanInt(str, s, dir) ==
    LET from == SkipSpaces(str, s.p)
        num  == ScanNumber(str, from, dir)
    IN  IF StartsNumber(str, from, dir) THEN Store(s, num.val, num.endp) ELSE Stop(s)

\* A directive; the string has not ended.  The width of a number is not looked at.
ScanDir(str, s, dir) ==
    CASE dir.skip                    -> [Go(s, UpTo(str, s.p, Spaces)) EXCEPT !.mode = "skip"]
      [] ~dir.skip /\ dir.conv = "c" -> ScanChars(str, s, dir)
      [] ~dir.skip /\ dir.conv = "s" -> ScanString(str, s, dir)
      [] ~dir.skip /\ dir.conv = "n" -> StoreUncounted(s, s.p - 1)
      [] ~dir.skip /\ dir.conv = "%" -> IF str[s.p] = "%" THEN Go(s, s.p + 1) ELSE Stop(s)
      [] ~dir.skip /\ dir.conv \in {"d", "i", "u", "o", "x", "X"} -> ScanInt(str, s, dir)
      [] OTHER                       -> Stop(s)

\* An item: where the string has ended the function returns, and after a directive with *
\* the format is passed over to its next white space.
ScanItem(str, s, item) ==
    IF s.mode = "stop" \/ s.p > Len(str) THEN Stop(s)
    ELSE IF item.kind = "space" THEN Go(s, SkipSpaces(str, s.p))
    ELSE IF s.mode = "skip" THEN s
    ELSE IF item.kind = "lit" THEN IF str[s.p] = item.ch THEN Go(s, s.p + 1) ELSE Stop(s)
    ELSE ScanDir(str, s, item)

\* vsscanf: what it stores, in the order of the arguments, and what it returns.
Sscanf(string, fmt) ==
    LET end == FoldLeft(LAMBDA s, item : ScanItem(string, s, item), Start, fmt)
    IN  [got |-> end.got, ret |-> end.num]
=============================================================================
