------------------------------- MODULE Strings -------------------------------
(***************************************************************************)
(* The rest of src/lib/string.c, on the memory of Mem: the functions that  *)
(* compare and search, as operators on two loops, one that goes up and one *)
(* that goes down, and strtok and strsep, which take a string apart in     *)
(* place over several calls.                                               *)
(***************************************************************************)
EXTENDS Mem, SequencesExt

CONSTANTS
    Texts,      \* the contents of memory that are searched and taken apart
    TextCalls   \* the calls made: [f, d, s, n, c] for first and second string, count, byte

Readers == {"strlen", "strnlen", "strcmp", "strncmp", "strnicmp", "strchr", "strrchr", "strspn",
            "strpbrk", "memcmp", "memscan", "memchr", "strstr"}
Splitters == {"strtok", "strsep"}
NULL == -1

(* Bytes are unsigned characters, as ARM's are.                          *)
ASSUME StringsAssumption ==
    /\ Byte \subseteq 0 .. 255 /\ NUL = 0
    /\ Texts \subseteq [Addr -> Byte]
    /\ TextCalls \subseteq [f : Readers \cup Splitters, d : Nat, s : Nat, n : Nat, c : Byte]

VARIABLES
    ret,        \* what a reader returned
    rest,       \* ___strtok, or what strsep's first argument points to
    toks        \* ghost: the tokens returned so far

strVars == <<ret, rest, toks>>

-----------------------------------------------------------------------------
(* Comparing and searching                                                 *)

\* A loop that goes up from i until it stops - at the end of memory, where no call of a
\* caller that keeps to the rules gets.
Up(i, stops) ==
    LET go[k \in 0 .. Size] == IF k = Size \/ k \in stops THEN k ELSE go[k + 1] IN go[i]

\* A loop that goes down.
Down(i, stops) ==
    LET go[k \in 0 .. Size] == IF k = 0 \/ k \in stops THEN k ELSE go[k - 1] IN go[i]

\* The places that hold c, and how far two pointers can go up side by side.
Of(m, c)    == {a \in Addr : m[a] = c}
Beside(s, t) == {k \in Addr : s + k < Size /\ t + k < Size}

StrLen(m, s)     == Up(s, Of(m, NUL)) - s
StrNLen(m, s, n) == Up(s, {s + n} \cup Of(m, NUL)) - s

\* register signed char __res
SignedChar(x) == ((x + 128) % 256) - 128

StrCmp(m, s, t) ==
    LET res(k) == SignedChar(m[s + k] - m[t + k])
    IN  res(Up(0, {k \in Beside(s, t) : res(k) # 0 \/ m[s + k] = NUL}))

StrNCmp(m, s, t, n) ==
    LET res(k) == SignedChar(m[s + k] - m[t + k])
        last   == Up(0, {n} \cup {k \in Beside(s, t) : res(k) # 0 \/ m[s + k] = NUL})
    IN  IF last = n THEN 0 ELSE res(last)

\* isupper and tolower: the table marks the capitals of ISO 8859-1 with _U, those from 192 on
\* among them, but for 215, the sign of multiplication.
Capitals == (65 .. 90) \cup (192 .. 214) \cup (216 .. 222)
ToLower(c) == IF c \in Capitals THEN c + 32 ELSE c

StrNICmp(m, s, t, n) ==
    LET ends(k)  == m[s + k] = NUL \/ m[t + k] = NUL
        lower(a) == ToLower(m[a])
        last     == Up(0, {n} \cup {k \in Beside(s, t) : ends(k) \/ lower(s + k) # lower(t + k)})
    IN  IF last = n THEN 0
        ELSE IF ends(last) THEN m[s + last] - m[t + last] ELSE lower(s + last) - lower(t + last)

StrChr(m, s, c) ==
    LET a == Up(s, Of(m, c) \cup Of(m, NUL)) IN IF m[a] = c THEN a ELSE NULL

StrRChr(m, s, c) ==
    LET a == Down(s + StrLen(m, s), {s} \cup Of(m, c)) IN IF m[a] = c THEN a ELSE NULL

\* The characters of the string at t, which the inner loops run through.
Letters(m, t) == {m[t + k] : k \in 0 .. (StrLen(m, t) - 1)}

StrSpn(m, s, t) == Up(s, {a \in Addr : m[a] = NUL \/ m[a] \notin Letters(m, t)}) - s

StrPBrk(m, s, t) ==
    LET a == Up(s, {x \in Addr : m[x] = NUL \/ m[x] \in Letters(m, t)})
    IN  IF m[a] = NUL THEN NULL ELSE a

MemCmp(m, s, t, n) ==
    LET last == Up(0, {n} \cup {k \in Beside(s, t) : m[s + k] # m[t + k]})
    IN  IF last = n THEN 0 ELSE m[s + last] - m[t + last]

MemScan(m, s, c, n) == Up(s, {s + n} \cup Of(m, c))

MemChr(m, s, c, n) ==
    LET a == Up(s, {s + n} \cup Of(m, c)) IN IF a = s + n THEN NULL ELSE a

\* mutant: the last place the second string has room at is not tried
StrStrShort(m, s, t) ==
    LET l2   == StrLen(m, t)
        last == s + StrLen(m, s) - l2
        p    == Up(s, {a \in Addr : a >= last \/ MemCmp(m, a, t, l2) = 0})
    IN  IF l2 = 0 THEN s ELSE IF p >= last THEN NULL ELSE p

\* The second string is looked for up to the last place it has room at.
StrStr(m, s, t) ==
    LET l2   == StrLen(m, t)
        last == s + StrLen(m, s) - l2
        p    == Up(s, {a \in Addr : a > last \/ MemCmp(m, a, t, l2) = 0})
    IN  IF l2 = 0 THEN s ELSE IF p > last THEN NULL ELSE p

-----------------------------------------------------------------------------
(* The calls                                                               *)

\* Both strings are terminated, and lie apart when the first is taken apart; a count of
\* bytes stays within memory.
StrInit ==
    /\ op \in TextCalls /\ mem \in Texts
    /\ \E l, t \in Addr :
        /\ IsString(mem, op.d, l) /\ IsString(mem, op.s, t)
        /\ op.f \in Splitters => op.d + l < op.s \/ op.s + t < op.d
    /\ op.f \in {"memcmp", "memscan", "memchr"} => op.d + op.n < Size /\ op.s + op.n < Size
    /\ was = mem /\ at = IF op.f \in Readers THEN "read" ELSE op.f
    /\ dst = op.d /\ src = op.s /\ left = op.n
    /\ ret = 0 /\ rest = op.d /\ toks = <<>>

Read ==
    /\ at = "read" /\ at' = "back"
    /\ ret' = CASE op.f = "strlen"   -> StrLen(mem, op.d)
                [] op.f = "strnlen"  -> StrNLen(mem, op.d, op.n)
                [] op.f = "strcmp"   -> StrCmp(mem, op.d, op.s)
                [] op.f = "strncmp"  -> StrNCmp(mem, op.d, op.s, op.n)
                [] op.f = "strnicmp" -> StrNICmp(mem, op.d, op.s, op.n)
                [] op.f = "strchr"   -> StrChr(mem, op.d, op.c)
                [] op.f = "strrchr"  -> StrRChr(mem, op.d, op.c)
                [] op.f = "strspn"   -> StrSpn(mem, op.d, op.s)
                [] op.f = "strpbrk"  -> StrPBrk(mem, op.d, op.s)
                [] op.f = "memcmp"   -> MemCmp(mem, op.d, op.s, op.n)
                [] op.f = "memscan"  -> MemScan(mem, op.d, op.c, op.n)
                [] op.f = "memchr"   -> MemChr(mem, op.d, op.c, op.n)
                [] op.f = "strstr"   -> StrStr(mem, op.d, op.s)
    /\ UNCHANGED <<mem, op, dst, src, left, was, rest, toks>>

\* A token from begin: end, if there is one, is overwritten by NUL and passed.
Cut(begin, end) ==
    /\ mem' = IF end = NULL THEN mem ELSE [mem EXCEPT ![end] = NUL]
    /\ rest' = IF end = NULL THEN NULL ELSE end + 1
    /\ toks' = Append(toks, begin)
    /\ UNCHANGED <<at, op, dst, src, left, was, ret>>

\* There is no token left: the caller stops.
NoMore ==
    /\ at' = "back" /\ rest' = NULL
    /\ UNCHANGED <<mem, op, dst, src, left, was, ret, toks>>

\* mutant: delimiters before the token are not skipped
StrTokUnskipped ==
    /\ at = "strtok"
    /\ IF rest = NULL THEN NoMore
       ELSE IF mem[rest] = NUL THEN NoMore ELSE Cut(rest, StrPBrk(mem, rest, op.s))

\* strtok, first with the string and then with NULL.
StrTok ==
    /\ at = "strtok"
    /\ IF rest = NULL THEN NoMore
       ELSE LET sbegin == rest + StrSpn(mem, rest, op.s)
            IN  IF mem[sbegin] = NUL THEN NoMore ELSE Cut(sbegin, StrPBrk(mem, sbegin, op.s))

StrSep ==
    /\ at = "strsep"
    /\ IF rest = NULL THEN NoMore ELSE Cut(rest, StrPBrk(mem, rest, op.s))

StrNext == Read \/ StrTok \/ StrSep

StrSpec == StrInit /\ [][StrNext]_<<memVars, strVars>>

-----------------------------------------------------------------------------
(* Properties                                                              *)

\* The n bytes at s of memory m, and the string there, as sequences.
Bytes(m, s, n) == [i \in 1 .. n |-> m[s + i - 1]]
Text(m, s)     == Bytes(m, s, CHOOSE k \in 0 .. Size : IsString(m, s, k))

\* What no difference of case tells apart: each capital of ISO 8859-1 stands 32 below its
\* small letter, and the small letters 223 and 255 have none.
SmallLetters == (97 .. 122) \cup ((224 .. 254) \ {247})
SmallOf(c)   == IF c + 32 \in SmallLetters THEN c + 32 ELSE c
Lowered(z)   == [i \in DOMAIN z |-> SmallOf(z[i])]

\* The addresses from a to below a + n that hold a byte of cs; the first of a set.
Holding(m, a, n, cs) == {x \in a .. (a + n - 1) : m[x] \in cs}
FirstOr(xs, none)    == IF xs = {} THEN none ELSE CHOOSE x \in xs : \A y \in xs : x <= y
LastOr(xs, none)     == IF xs = {} THEN none ELSE CHOOSE x \in xs : \A y \in xs : x >= y

\* Where y stands in the string x at s.
Occurrences(x, y, s) == {s + k : k \in {j \in 0 .. (Len(x) - Len(y)) : \A i \in DOMAIN y : x[j + i] = y[i]}}

\* r has the sign of how x and y, cut to n characters, stand to each other.
CharAt(z, i) == IF i <= Len(z) THEN z[i] ELSE NUL
SignOf(r, x, y, n) ==
    LET i == FirstOr({j \in 1 .. n : CharAt(x, j) # CharAt(y, j)}, 0)
    IN  IF i = 0 THEN r = 0
        ELSE IF CharAt(x, i) < CharAt(y, i) THEN r < 0 ELSE r > 0

\* r is 0 when x and y are alike in n characters, and only then; the sign of the first
\* difference it has when the characters are below 128, for only then it fits a signed char.
TellsApart(r, x, y, n) ==
    /\ r = 0 <=> SignOf(0, x, y, n)
    /\ ToSet(x) \cup ToSet(y) \subseteq 0 .. 127 => SignOf(r, x, y, n)

\* Every function that compares or searches returns what its comment says, up to the
\* ends of strings and areas: the sign of the first difference, the first or last place
\* or NULL, or one past the area (string.c:452).  strcmp and strncmp, which keep the
\* difference in a signed char, tell for all characters whether the strings are alike;
\* strnicmp does without the case of the letters of ISO 8859-1, and of no other character.
ReadersRight ==
    at = "back" /\ op.f \in Readers =>
        LET x == Text(mem, op.d)
            y == Text(mem, op.s)
            letters == ToSet(y)
            all == Len(x) + Len(y) + 1
        IN  CASE op.f = "strlen"   -> ret = Len(x)
              [] op.f = "strnlen"  -> ret = Min2(Len(x), op.n)
              [] op.f = "strcmp"   -> TellsApart(ret, x, y, all)
              [] op.f = "strncmp"  -> TellsApart(ret, x, y, op.n)
              [] op.f = "strnicmp" -> SignOf(ret, Lowered(x), Lowered(y), op.n)
              [] op.f = "strchr"   -> ret = FirstOr(Holding(mem, op.d, Len(x) + 1, {op.c}), NULL)
              [] op.f = "strrchr"  -> ret = LastOr(Holding(mem, op.d, Len(x) + 1, {op.c}), NULL)
              [] op.f = "strspn"   -> ret = FirstOr(Holding(mem, op.d, Len(x) + 1, Byte \ letters), NULL) - op.d
              [] op.f = "strpbrk"  -> ret = FirstOr(Holding(mem, op.d, Len(x), letters), NULL)
              [] op.f = "memcmp"   -> SignOf(ret, Bytes(mem, op.d, op.n), Bytes(mem, op.s, op.n), op.n)
              [] op.f = "memscan"  -> ret = FirstOr(Holding(mem, op.d, op.n, {op.c}), op.d + op.n)
              [] op.f = "memchr"   -> ret = FirstOr(Holding(mem, op.d, op.n, {op.c}), NULL)
              [] op.f = "strstr"   -> ret = FirstOr(Occurrences(x, y, op.d), NULL)

\* Where tokens begin in the string that is taken apart: for strsep at its start and
\* behind each delimiter, for strtok there too unless it is a delimiter or the end; and
\* where a token that begins at a ends.
Delimiters == ToSet(Text(was, op.s))
StringEnd  == op.d + Len(Text(was, op.d))
Starts ==
    {a \in op.d .. StringEnd :
        /\ a = op.d \/ was[a - 1] \in Delimiters
        /\ op.f = "strtok" => was[a] \notin Delimiters \cup {NUL}}
EndOfToken(a) == FirstOr(Holding(was, a, Size - a, Delimiters \cup {NUL}), Size)

\* strtok gives out the pieces of the string that are not empty and strsep all its
\* pieces (string.c:312), once each and in their order; none is left out when NULL has been
\* returned or one behind it has been given out.  Every token is still there where it was
\* given out, up to its end, which is a NUL by then, whatever the later calls wrote.
TokensRight ==
    op.f \in Splitters =>
        /\ \A i, j \in DOMAIN toks : i < j => toks[i] < toks[j]
        /\ \A i \in DOMAIN toks :
            /\ toks[i] \in Starts
            /\ \A a \in toks[i] .. (EndOfToken(toks[i]) - 1) : mem[a] = was[a]
            /\ mem[EndOfToken(toks[i])] = NUL
        /\ \A a \in Starts :
            at = "back" \/ (\E i \in DOMAIN toks : a < toks[i]) => a \in ToSet(toks)
=============================================================================
