------------------------------- MODULE Format -------------------------------
(***************************************************************************)
(* vsnprintf and the functions around it (src/lib/vsprintf.c): what text a *)
(* format and its arguments give, and what of it is stored where.          *)
(*                                                                         *)
(* A character is a string of length 1.  A format is a sequence of items:  *)
(* a character copied as it is, or a directive, which carries the argument *)
(* it takes.  Integers are words of the widths below, and an integer       *)
(* argument is the pattern of its bits.                                    *)
(***************************************************************************)
EXTENDS Integers, Sequences

CONSTANTS
    ShortBits, IntBits, LongLongBits,   \* 16, 32, 64
    Top         \* addresses are 0 .. Top - 1: 2^32

Nul     == ""       \* the character 0; no qualifier
None    == -1       \* no width, no precision
NullPtr == <<Nul>>  \* in place of a string, a pointer below 1024

Dir(flags, width, prec, qual, conv, arg) ==
    [kind |-> "dir", flags |-> flags, width |-> width, star |-> FALSE, prec |-> prec, qual |-> qual,
     conv |-> conv, arg |-> arg]
Lit(c) == [kind |-> "lit", ch |-> c]

-----------------------------------------------------------------------------
(* Words                                                                   *)

LowBits(x, bits)  == x % 2 ^ bits
AsSigned(x, bits) == IF LowBits(x, bits) >= 2 ^ (bits - 1) THEN LowBits(x, bits) - 2 ^ bits ELSE LowBits(x, bits)

\* %d and %i have SIGN.
Signed(dir) == dir.conv \in {"d", "i"}

\* num: the argument as the signed long long that number takes.  A long long without a
\* sign comes as a negative number when its highest bit is set; %zd has no sign.
Num(dir) ==
    LET word(bits) == IF Signed(dir) THEN AsSigned(dir.arg, bits) ELSE dir.arg % 2 ^ bits
    IN  IF dir.conv = "p" \/ dir.qual \in {"z", "Z"} THEN dir.arg
        ELSE CASE dir.qual = "L" -> AsSigned(dir.arg, LongLongBits)
               [] dir.qual = "h" -> word(ShortBits)
               [] OTHER          -> word(IntBits)

-----------------------------------------------------------------------------
(* Digits                                                                  *)

\* mutant: the short form of the division is used where it is not exact
TenthRough(x) == (x * 25) \div 256

\* x / 10 by a multiplication and a shift
Tenth(x) == (x * 205) \div 2048

\* The five decimal digits of a number whose digits in base 16 are d0 to d3, the highest
\* of which may be more than 15: lowest first, and how many of them put_dec_trunc writes.
FromHex(d0, d1, d2, d3) ==
    LET s0 == 6 * (d3 + d2 + d1) + d0
        s1 == Tenth(s0) + 9 * d3 + 5 * d2 + d1
        s2 == Tenth(s1) + 2 * d2
        q2 == (s2 * 13) \div 128
        s3 == q2 + 4 * d3
    IN  [digits |-> <<s0 - 10 * Tenth(s0), s1 - 10 * Tenth(s1), s2 - 10 * q2, s3 - 10 * Tenth(s3), Tenth(s3)>>,
         len |-> IF s1 = 0 THEN 1
                 ELSE IF s2 = 0 /\ d3 = 0 THEN 2
                 ELSE IF s3 = 0 THEN 3
                 ELSE IF Tenth(s3) = 0 THEN 4 ELSE 5]

\* Those of q < Five.
Decimal(q) == FromHex(q % 16, (q \div 16) % 16, (q \div 256) % 16, q \div 4096)

PutDecTrunc(q) == SubSeq(Decimal(q).digits, 1, Decimal(q).len)
PutDecFull(q)  == Decimal(q).digits

\* put_dec divides by this as long as the number is no less; do_div is Div64's.
Five == 100000

PutDec(num) ==
    LET go[x \in 0 .. num] ==
            IF x < Five THEN PutDecTrunc(x) ELSE PutDecFull(x % Five) \o go[x \div Five]
    IN  go[num]

\* do { ... num >>= shift; } while (num), of a signed num.
PutBits(num, base) ==
    LET go[x \in 0 .. num] == IF x = 0 THEN <<>> ELSE <<x % base>> \o go[x \div base]
    IN  go[num]

\* A negative number shifted right never comes to 0: number does not return, and writes
\* over its stack.
Runaway(dir) == Num(dir) < 0 /\ ~Signed(dir) /\ dir.conv \in {"x", "X", "o"}

\* tmp: the digits, lowest first.
Tmp(num, base) ==
    IF num = 0 THEN <<0>>
    ELSE IF base = 10 THEN PutDec(num % 2 ^ LongLongBits)
    ELSE PutBits(num, base)

Upper == <<"0", "1", "2", "3", "4", "5", "6", "7", "8", "9", "A", "B", "C", "D", "E", "F">>
Lower == <<"0", "1", "2", "3", "4", "5", "6", "7", "8", "9", "a", "b", "c", "d", "e", "f">>

-----------------------------------------------------------------------------
(* Fields                                                                  *)

Rep(c, n) == [i \in 1 .. (IF n > 0 THEN n ELSE 0) |-> c]
Greater(x, y) == IF x > y THEN x ELSE y

Base(dir) == CASE dir.conv = "o" -> 8 [] dir.conv \in {"x", "X", "p"} -> 16 [] OTHER -> 10

\* field_width, when * takes it from the arguments too; and LEFT.
NoWidth(dir) == dir.width = None /\ ~dir.star
Width(dir) ==
    IF dir.conv = "p" /\ NoWidth(dir) THEN IntBits \div 4
    ELSE IF dir.star /\ dir.width < 0 THEN -dir.width ELSE dir.width
Left(dir) == "-" \in dir.flags \/ (dir.star /\ dir.width < 0)
ZeroPad(dir) == ~Left(dir) /\ ("0" \in dir.flags \/ (dir.conv = "p" /\ NoWidth(dir)))

\* The sign, or the place kept for it; and the prefix.
SignChar(dir) ==
    IF ~Signed(dir) THEN <<>>
    ELSE IF Num(dir) < 0 THEN <<"-">>
    ELSE IF "+" \in dir.flags THEN <<"+">>
    ELSE IF " " \in dir.flags THEN <<" ">> ELSE <<>>

PrefixOf(dir) ==
    IF "#" \notin dir.flags \/ Base(dir) = 10 THEN <<>>
    ELSE IF Base(dir) = 8 THEN <<"0">> ELSE <<"0", "x">>

\* What is left of the width.
Room(dir, prec) == Width(dir) - Len(SignChar(dir)) - Len(PrefixOf(dir)) - prec

\* number: what is left of the width after sign, prefix and digits goes before them, or
\* as zeros between, or after them.  SMALL is SPECIAL: # makes the letters small, and
\* nothing else does; LARGE is never looked at.
Number(dir) ==
    LET num   == Num(dir)
        tmp   == Tmp(IF Signed(dir) /\ num < 0 THEN -num ELSE num, Base(dir))
        prec  == Greater(dir.prec, Len(tmp))
        room  == Room(dir, prec)
        digit == IF "#" \in dir.flags THEN Lower ELSE Upper
    IN  Rep(" ", IF Left(dir) \/ ZeroPad(dir) THEN 0 ELSE room)
        \o SignChar(dir) \o PrefixOf(dir)
        \o Rep("0", IF ZeroPad(dir) THEN room ELSE 0)
        \o Rep("0", prec - Len(tmp))
        \o [i \in DOMAIN tmp |-> digit[tmp[Len(tmp) + 1 - i] + 1]]
        \o Rep(" ", IF Left(dir) THEN room ELSE 0)

\* %c and %s: the precision cuts the string, a NULL pointer is <NULL>.
Padded(dir, body) ==
    Rep(" ", IF Left(dir) THEN 0 ELSE Width(dir) - Len(body)) \o body
    \o Rep(" ", IF Left(dir) THEN Width(dir) - Len(body) ELSE 0)

NullText == <<"<", "N", "U", "L", "L", ">">>

StringOf(dir) ==
    LET s == IF dir.arg = NullPtr THEN NullText ELSE dir.arg
    IN  IF dir.prec = None \/ dir.prec >= Len(s) THEN s ELSE SubSeq(s, 1, dir.prec)

Numeric == {"d", "i", "u", "o", "x", "X", "p"}

\* What an item of the format adds to the text.  A conversion that is not known is copied,
\* and a format that ends in a directive ends with the %.
Piece(item) ==
    IF item.kind = "lit" THEN <<item.ch>>
    ELSE IF item.conv \in Numeric THEN Number(item)
    ELSE CASE item.conv = "c" -> Padded(item, <<item.arg>>)
           [] item.conv = "s" -> Padded(item, StringOf(item))
           [] item.conv = "n" -> <<>>
           [] item.conv = "%" -> <<"%">>
           [] item.conv = Nul -> <<"%">>
           [] OTHER           -> <<"%", item.conv>>

\* The text of a whole format.
TextOf(fmt) ==
    LET go[i \in 0 .. Len(fmt)] == IF i = 0 THEN <<>> ELSE go[i - 1] \o Piece(fmt[i])
    IN  go[Len(fmt)]

-----------------------------------------------------------------------------
(* The buffer                                                              *)

\* mutant: end is left where the sum with size wraps to
EndUnwrapped(buf, size) == (buf + size - 1) % Top

\* end: a buffer that would reach beyond the last address ends there, and so does every
\* one at address 0.  vsprintf passes a size of half the address space, with which every
\* buffer in the upper half does.
EndOf(buf, size) ==
    LET end == (buf + size - 1) % Top
    IN  IF end < (buf - 1) % Top THEN Top - 1 ELSE end

\* How far address a lies behind address b: their difference as pointers.
Behind(a, b) == (a - b) % Top

\* The addresses from str on that the piece of an item is written to: up to end, or with
\* ADDCH, which number uses, to the one before.  Behind the last address comes 0, which
\* is not behind the end.
Written(item, str, length, end) ==
    LET last == IF item.kind = "dir" /\ item.conv \in Numeric THEN end - 1 ELSE end
    IN  {a \in {(str + i) % Top : i \in 0 .. (length - 1)} : a <= last}

\* What vsprintf and the others pass to vsnprintf as size.
SizeOf(call) == IF call.f = "vsprintf" THEN Top \div 2 - 1 ELSE call.size

\* A word as an int.
AsInt(x) == IF x >= Top \div 2 THEN x - Top ELSE x

\* What is returned of str - buf.  vscnprintf: i is compared with a size_t, and size - 1
\* returned as an int.
Returned(call, length) == IF call.f = "vscnprintf" /\ length >= call.size THEN call.size - 1 ELSE AsInt(length)
=============================================================================
