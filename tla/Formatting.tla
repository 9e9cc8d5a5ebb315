----------------------------- MODULE Formatting -----------------------------
(***************************************************************************)
(* Calls of the functions of src/lib/vsprintf.c: one of them formats into  *)
(* its buffer, and vsscanf reads the text back with the matching format.   *)
(* One action is one turn of the loop over the format.                     *)
(***************************************************************************)
EXTENDS Scan

CONSTANT Requests   \* the calls made: [f, buf, size, fmt]

\* The numbers that are not negative as an int.
IntMax == Top \div 2 - 1

\* An item and the argument it takes: a number, a character or a string.  Widths and
\* precisions are ints, and a string does not fill more than half of memory.
IsItem(it) ==
    \/ it.kind = "lit" /\ it.ch \in STRING
    \/ /\ it.kind = "dir" /\ it.conv \in STRING
       /\ it.width \in -IntMax .. IntMax /\ it.prec \in None .. IntMax
       /\ it.conv \in Numeric => it.arg \in Nat
       /\ it.conv = "p" \/ it.qual \in {"z", "Z"} => it.arg < 2 ^ IntBits
       /\ it.conv = "c" => it.arg \in STRING
       /\ it.conv = "s" => it.arg \in Seq(STRING) /\ Len(it.arg) <= IntMax

ASSUME RequestsAssumption ==
    /\ Top \in Nat /\ Top >= 2
    /\ LongLongBits \in Nat /\ ShortBits \in 1 .. LongLongBits /\ IntBits \in 1 .. LongLongBits
    /\ \A call \in Requests :
          /\ call.f \in {"vsnprintf", "vscnprintf", "vsprintf"}
          /\ call.buf \in 0 .. (Top - 1) /\ call.size \in 0 .. (Top - 1)
          /\ Len(call.fmt) \in Nat /\ DOMAIN call.fmt = 1 .. Len(call.fmt)
          /\ \A k \in 1 .. Len(call.fmt) : IsItem(call.fmt[k])

VARIABLES
    request,
    stage,      \* "format", "scan", "back"
    item,       \* which item of the format comes next
    str,        \* the place in the buffer, behind it when that is full: an address
    cells,      \* what has been written, by address
    text,       \* ghost: what was to be written
    counts,     \* what the %n have stored
    retval,
    scan        \* the state of vsscanf

formVars == <<request, stage, item, str, cells, text, counts, retval, scan>>

FormInit ==
    /\ request \in Requests
    /\ stage = "format" /\ item = 1 /\ str = request.buf
    /\ cells = <<>> /\ text = <<>> /\ counts = <<>> /\ retval = 0
    /\ scan = Start

-----------------------------------------------------------------------------
(* vsnprintf                                                               *)

IsDir(it) == it.kind = "dir"
End       == EndOf(request.buf, SizeOf(request))

\* Memory after characters have been written over it.
Over(new, old) == [a \in DOMAIN new \cup DOMAIN old |-> IF a \in DOMAIN new THEN new[a] ELSE old[a]]

\* A size that is negative as an int.
Refuse ==
    /\ stage = "format" /\ SizeOf(request) >= Top \div 2
    /\ stage' = "back"
    /\ UNCHANGED <<request, item, str, cells, text, counts, retval, scan>>

\* A directive for which number does not return is where the behaviour stays.
FormatItem ==
    LET it    == request.fmt[item]
        piece == Piece(it)
    IN  /\ stage = "format" /\ SizeOf(request) < Top \div 2
        /\ item <= Len(request.fmt)
        /\ IsDir(it) /\ it.conv \in Numeric => ~Runaway(it)
        /\ item' = item + 1
        /\ str' = (str + Len(piece)) % Top
        /\ cells' = Over([a \in Written(it, str, Len(piece), End) |-> piece[Behind(a, str) + 1]], cells)
        /\ text' = text \o piece
        /\ counts' = IF IsDir(it) /\ it.conv = "n" THEN Append(counts, Behind(str, request.buf)) ELSE counts
        /\ UNCHANGED <<request, stage, retval, scan>>

\* The NUL, behind the text or over its last character; behind a text that has run through
\* the last address it is where that has come to.
FormatEnd ==
    /\ stage = "format" /\ SizeOf(request) < Top \div 2
    /\ item > Len(request.fmt)
    /\ stage' = "scan" /\ item' = 1
    /\ cells' = IF str <= End THEN Over([a \in {str} |-> Nul], cells)
                ELSE IF SizeOf(request) > 0 THEN Over([a \in {End} |-> Nul], cells) ELSE cells
    /\ retval' = Returned(request, Behind(str, request.buf))
    /\ UNCHANGED <<request, str, text, counts, scan>>

-----------------------------------------------------------------------------
(* vsscanf                                                                 *)

\* The matching item: flags, widths and precisions are left out, a prefix is left to %i.
Mirror(it) ==
    IF ~IsDir(it) THEN IF IsSpace(it.ch) THEN Space ELSE it
    ELSE In(None, it.qual, IF "#" \in it.flags /\ it.conv \in {"x", "X", "o"} THEN "i" ELSE it.conv)

ScanNext ==
    /\ stage = "scan" /\ item <= Len(request.fmt)
    /\ item' = item + 1
    /\ scan' = ScanItem(text, scan, Mirror(request.fmt[item]))
    /\ UNCHANGED <<request, stage, str, cells, text, counts, retval>>

ScanEnd ==
    /\ stage = "scan" /\ item > Len(request.fmt)
    /\ stage' = "back"
    /\ UNCHANGED <<request, item, str, cells, text, counts, retval, scan>>

FormNext == Refuse \/ FormatItem \/ FormatEnd \/ ScanNext \/ ScanEnd

FormSpec == FormInit /\ [][FormNext]_formVars

-----------------------------------------------------------------------------
(* What is wanted                                                          *)

\* The digits of a number, highest first: what dividing by the base leaves, as long as there
\* is something to divide.
DigitsOf(num, base, digit) ==
    LET lowest[x \in 0 .. num] == IF x < base THEN <<x>> ELSE <<x % base>> \o lowest[x \div base]
        digits == lowest[num]
    IN  [i \in DOMAIN digits |-> digit[digits[Len(digits) + 1 - i] + 1]]

\* The argument of a number without a sign, and as the signed number of its bits.
Bits(dir) ==
    IF dir.conv = "p" THEN IntBits
    ELSE CASE dir.qual = "L" -> LongLongBits [] dir.qual = "h" -> ShortBits [] OTHER -> IntBits
Meant(dir, signed) ==
    LET low == dir.arg % 2 ^ Bits(dir)
    IN  IF signed /\ low >= 2 ^ (Bits(dir) - 1) THEN low - 2 ^ Bits(dir) ELSE low

PadTo(dir, body) ==
    LET pad == Rep(" ", Width(dir) - Len(body)) IN IF Left(dir) THEN body \o pad ELSE pad \o body

\* A number in its field: the sign or what stands for it, the prefix, and at least as many
\* digits as the precision calls for, and the width when it is filled with zeros.
Plus(dir) ==
    IF dir.conv \notin {"d", "i"} THEN <<>>
    ELSE IF "+" \in dir.flags THEN <<"+">> ELSE IF " " \in dir.flags THEN <<" ">> ELSE <<>>
Field(dir, value, prefix, digits, filled) ==
    LET head  == (IF value < 0 THEN <<"-">> ELSE Plus(dir)) \o prefix
        least == IF filled THEN Greater(dir.prec, Width(dir) - Len(head)) ELSE dir.prec
    IN  PadTo(dir, head \o Rep("0", least - Len(digits)) \o digits)

\* ISO C99, 7.19.6.1: zero has no digits when the precision is 0; # puts 0x before what is
\* not zero, and leads an octal number with a zero if it does not begin with one already;
\* 0 is ignored when there is a precision; the letters are as large as that of the
\* conversion; and z with d or i is the signed number of its size.
InC(dir) ==
    LET value  == Meant(dir, dir.conv \in {"d", "i"})
        none   == value = 0 /\ dir.prec = 0
        digits == IF none THEN <<>>
                  ELSE DigitsOf(IF value < 0 THEN -value ELSE value, Base(dir), IF dir.conv = "X" THEN Upper ELSE Lower)
        prefix == CASE dir.conv = "o" -> IF none \/ (value # 0 /\ dir.prec <= Len(digits)) THEN <<"0">> ELSE <<>>
                    [] dir.conv = "x" -> IF value # 0 THEN <<"0", "x">> ELSE <<>>
                    [] dir.conv = "X" -> IF value # 0 THEN <<"0", "X">> ELSE <<>>
                    [] OTHER          -> <<>>
    IN  Field(dir, value, IF "#" \in dir.flags THEN prefix ELSE <<>>, digits,
              "0" \in dir.flags /\ ~Left(dir) /\ dir.prec = None)

\* Where vsprintf.c does not give what C does, or C leaves it open: pointers; zd and zi of
\* what would be negative; letters, which only # makes small; zero with # or with precision
\* 0; an octal number with # that its precision begins with a zero already; and 0 together
\* with a precision.
Departs(dir) ==
    LET value == Meant(dir, FALSE)
    IN  \/ dir.conv = "p"
        \/ dir.conv \in {"d", "i"} /\ dir.qual \in {"z", "Z"} /\ Meant(dir, TRUE) < 0
        \/ dir.conv \in {"x", "X"} /\ (dir.conv = "x" <=> "#" \notin dir.flags)
        \/ dir.conv \in {"o", "x", "X"} /\ "#" \in dir.flags /\ value = 0
        \/ dir.prec = 0 /\ value = 0
        \/ dir.conv = "o" /\ "#" \in dir.flags /\ dir.prec > Len(DigitsOf(value, 8, Lower))
        \/ "0" \in dir.flags /\ ~Left(dir) /\ dir.prec # None

\* What it gives there: prefix, digits and zeros in any case, %zd without a sign, large
\* letters without # and small ones with it; a pointer is a %X with as many digits as it
\* may have.
AsHere(dir) ==
    LET value  == Meant(dir, dir.conv \in {"d", "i"} /\ dir.qual \notin {"z", "Z"})
        prefix == CASE dir.conv = "o" -> <<"0">> [] dir.conv \in {"x", "X", "p"} -> <<"0", "x">> [] OTHER -> <<>>
    IN  Field(dir, value, IF "#" \in dir.flags THEN prefix ELSE <<>>,
              DigitsOf(IF value < 0 THEN -value ELSE value, Base(dir), IF "#" \in dir.flags THEN Lower ELSE Upper),
              ZeroPad(dir))

WantedNumber(dir) == IF Departs(dir) THEN AsHere(dir) ELSE InC(dir)

WantedText(it) ==
    IF ~IsDir(it) THEN <<it.ch>>
    ELSE IF it.conv \in Numeric THEN WantedNumber(it)
    ELSE CASE it.conv = "c" -> PadTo(it, <<it.arg>>)
           [] it.conv = "s" -> LET s == IF it.arg = NullPtr THEN NullText ELSE it.arg
                                 IN  PadTo(it, SubSeq(s, 1, IF it.prec \in DOMAIN s \cup {0} THEN it.prec ELSE Len(s)))
           [] OTHER           -> Piece(it)

-----------------------------------------------------------------------------
(* Properties                                                              *)

\* The size of a call's buffer: the size it names, which for vsprintf is half of all
\* memory, and at most what is left of memory.
BufferSize(call) == IF call.buf + SizeOf(call) > Top THEN Top - call.buf ELSE SizeOf(call)

\* What a format gives, when there is room for it, is what ISO C99 (which vsprintf.c:354
\* names) says of each of its directives: the digits of the number in the argument's own
\* width, sign, prefix, the zeros of precision and width, strings cut to the precision,
\* and the padding - for flags that contradict each other, widths that are too small and
\* the lowest and highest numbers too.  Where the code departs from C (Departs lists it)
\* it is what AsHere says of the directive.
FormatsRight ==
    LET wanted == FlattenSeq([k \in DOMAIN request.fmt |-> WantedText(request.fmt[k])])
        stored == [i \in 1 .. Len(text) |-> cells[request.buf + i - 1]]
    IN  stage = "scan" /\ item = 1 /\ Len(text) < BufferSize(request) => stored = wanted

\* How much of the text there is room for.
Kept(call, length) == IF length < BufferSize(call) THEN length ELSE BufferSize(call) - 1

\* The text does not run through the last address, and the buffer is not at the first.
WithinMemory == request.buf > 0 /\ request.buf + Len(text) < Top

\* Whatever the size of the buffer, a text that ends before the last address is never
\* written outside it, and when the call returns the buffer holds as much of the text as
\* there is room for and a NUL after it - also when the end of the buffer would lie beyond
\* the last address.  The value is the length of the whole text, if an int holds it, or,
\* from vscnprintf (vsprintf.c:352-358, 655), of what was kept, unless the buffer does
\* reach beyond.  A size that is negative as an int is refused.
BufferKept ==
    LET room == BufferSize(request)
        kept == Kept(request, Len(text))
    IN  /\ SizeOf(request) >= Top \div 2 => cells = <<>>
        /\ WithinMemory => DOMAIN cells \subseteq request.buf .. (request.buf + room - 1)
        /\ WithinMemory /\ stage = "scan" /\ room > 0 =>
              /\ cells[request.buf + kept] = Nul
              /\ \A i \in 1 .. kept : cells[request.buf + i - 1] = text[i]
              /\ request.f # "vscnprintf" /\ Len(text) <= IntMax => retval = Len(text)
              /\ request.f = "vscnprintf" /\ request.buf + request.size <= Top => retval = kept

\* What vsprintf.c:356-358 says without such a condition: of a text that is longer than the
\* buffer what does not fit is cut off.  A text that does run through the last address
\* goes on at address 0.
NothingOutside ==
    request.buf > 0 => DOMAIN cells \subseteq request.buf .. (request.buf + BufferSize(request) - 1)

\* Strings, with the characters the code itself writes named: the provers do not know that
\* a literal is a string.
Chars == STRING \cup {"0", "1", "2", "3", "4", "5", "6", "7", "8", "9", "A", "B", "C", "D", "E", "F",
                      "a", "b", "c", "d", "e", "f", "x", " ", "+", "-", "%", "<", "N", "U", "L", ">"}

\* The inductive invariant: str is behind the text so far, of which all that lies before
\* the last address of the buffer is in memory, unless it has been written over from
\* address 0 on - what lies at the last one a number leaves to the NUL that ends the call.
FormTypeOK ==
    /\ request \in Requests
    /\ stage \in {"format", "scan", "back"} /\ item \in Nat \ {0}
    /\ text \in Seq(Chars) /\ str = (request.buf + Len(text)) % Top

Filled == request.buf + Len(text) < Top =>
    \A i \in 1 .. Len(text) :
        request.buf + i - 1 < End => /\ request.buf + i - 1 \in DOMAIN cells
                                     /\ cells[request.buf + i - 1] = text[i]

Refused == SizeOf(request) >= Top \div 2 => cells = <<>> /\ stage # "scan"

FormInv == FormTypeOK /\ Filled /\ Refused /\ BufferKept

\* And the text so far is what is wanted of the items that had their turn, which all came
\* to an end.
Had                == IF stage = "format" THEN item - 1 ELSE Len(request.fmt)
WantedUpTo(fmt, k) == FlattenSeq([j \in 1 .. k |-> WantedText(fmt[j])])
CameToAnEnd(it)    == IsDir(it) /\ it.conv \in Numeric => ~Runaway(it)

AsWanted == stage # "back" =>
    /\ Had <= Len(request.fmt)
    /\ \A j \in 1 .. Had : CameToAnEnd(request.fmt[j])
    /\ text = WantedUpTo(request.fmt, Had)

FormatInv == FormInv /\ AsWanted

\* What sscanf can read back: numbers without a plus, for %i without more than their
\* digits, words for %s, one character for %c, and what stops a number after it; %n where
\* more text follows.
ReadableItem(it) ==
    CASE it.conv \in {"d", "u", "o", "x", "X"} -> "+" \notin it.flags
      [] it.conv = "i" -> "+" \notin it.flags /\ ~ZeroPad(it) /\ it.prec \in {None, 0, 1}
      [] it.conv = "s" -> StringOf(it) # <<>> /\ \A i \in DOMAIN StringOf(it) : ~IsSpace(StringOf(it)[i])
      [] it.conv = "c" -> it.width \in {None, 1} /\ ~IsSpace(it.arg) /\ it.arg # Nul
      [] OTHER           -> it.conv \in {"n", "%"}

\* What follows directive k ends it: white space, a comma or %n.
Separated(fmt, k) ==
    LET this == fmt[k]
        next == fmt[k + 1]
    IN  \/ ~IsDir(next) /\ IsSpace(next.ch)
        \/ this.conv \notin {"s", "n"} /\ ~Left(this) /\ next = Lit(",")
        \/ this.conv # "n" /\ ~Left(this) /\ IsDir(next) /\ next.conv = "n"

Readable(fmt) ==
    \A k \in DOMAIN fmt : IsDir(fmt[k]) =>
        /\ ReadableItem(fmt[k])
        /\ k < Len(fmt) => Separated(fmt, k)
        /\ fmt[k].conv = "n" => k \in 2 .. (Len(fmt) - 1)

\* Value v that vsscanf stored is the one item k of the format was given.
SameArgument(v, fmt, k) ==
    LET bits == CASE fmt[k].qual = "L" -> LongLongBits [] fmt[k].qual = "h" -> ShortBits [] OTHER -> IntBits
    IN  CASE fmt[k].conv = "n" -> v \in ToSet(counts)
          [] fmt[k].conv = "c" -> v = <<fmt[k].arg>>
          [] fmt[k].conv = "s" -> v = StringOf(fmt[k])
          [] OTHER             -> LowBits(v, bits) = LowBits(fmt[k].arg, bits)

\* What was printed is read back: the matching format stores the arguments of the call
\* again, each in the width its qualifier names, and counts them - through signs,
\* prefixes, padding and truncated arguments.
ReadBack ==
    stage = "back" /\ item > 1 /\ Readable(request.fmt) =>
        LET fmt  == request.fmt
            dirs == SelectSeq([k \in DOMAIN fmt |-> k], LAMBDA k : IsDir(fmt[k]) /\ fmt[k].conv # "%")
        IN  /\ Len(scan.got) = Len(dirs)
            /\ \A i \in DOMAIN dirs : SameArgument(scan.got[i], fmt, dirs[i])
            /\ scan.num = Len(SelectSeq(dirs, LAMBDA k : fmt[k].conv # "n"))
=============================================================================
