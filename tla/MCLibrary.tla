------------------------------ MODULE MCLibrary ------------------------------
(* One call of a routine of the library: of string.c, of vsprintf.c or of  *)
(* do_div; or calls of the console.  The machines of the others have       *)
(* nothing to do.                                                          *)
EXTENDS Div64, Strings, Formatting, Console

-----------------------------------------------------------------------------
(* Words of 4 bits and long words of 8: every dividend by every divisor.   *)
MCDividends == 0 .. (Word * Word - 1)
MCDivisors  == 1 .. (Word - 1)

-----------------------------------------------------------------------------
(* Eight bytes of memory, all different but for the ends of strings: areas *)
(* that overlap in every way, strings of up to four characters beside one  *)
(* another.                                                                *)
MCByte == 0 .. 255
MCMemories == {[a \in Addr |-> IF a \in ends THEN 0 ELSE a + 1] : ends \in SUBSET {0, 1, 2, 4, 7}}
MCMemCalls ==
    [f : Blocks, d : 0 .. 4, s : 0 .. 4, n : 0 .. 4, c : {9}] \cup [f : Strs, d : 0 .. 4, s : 0 .. 4, n : 0 .. 3, c : {9}]

\* The string x at 0 and the string y at 5.
Lay(x, y) ==
    [a \in Addr |-> IF a < Len(x) THEN x[a + 1] ELSE IF a >= 5 /\ a - 5 < Len(y) THEN y[a - 4] ELSE 0]
\* A letter of ASCII and one from beyond, capital and small, and the two signs that stand
\* where the table has no letters.
MCLatin == {65, 97, 201, 215, 233, 247}
MCTexts ==
    {Lay(x, y) : x \in BoundedSeq({97, 98}, 4), y \in BoundedSeq({65, 97, 98}, 2)}
    \cup {Lay(x, y) : x \in BoundedSeq({97, 44, 32}, 3) \cup {<<97, 44, 44, 97>>, <<44, 97, 32, 97>>},
                     y \in BoundedSeq({44, 32}, 2)}
    \cup {Lay(<<65, x>>, <<97, y>>) : x \in MCLatin, y \in MCLatin}

Counted == {"strnlen", "strncmp", "strnicmp", "memcmp", "memscan", "memchr"}
Single  == {"strchr", "strrchr"}
TextCall(fs, ds, ns, cs) == [f : fs, d : ds, s : {5}, n : ns, c : cs]
MCTextCalls ==
    TextCall(Counted, {0}, {0, 1, 2}, {97}) \cup TextCall(Single, {0, 1}, {0}, {0, 97})
    \cup TextCall(Readers \ (Counted \cup Single), {0}, {0}, {97}) \cup TextCall(Splitters, {0}, {0}, {97})

-----------------------------------------------------------------------------
(* Formats: a directive alone, with all of its flags; several, in buffers  *)
(* that are too small.                                                     *)
AFlags == SUBSET {"-", "+", " ", "#", "0"}
FewFlags == {{}, {"-"}, {"0"}, {"#"}, {"#", "0"}, {"+", "-"}}
Directive(flags, widths, star, precs, quals, convs, args) ==
    [kind : {"dir"}, flags : flags, width : widths, star : {star}, prec : precs, qual : quals, conv : convs, arg : args]

\* Words of 16 bits, short ones of 8 and long ones of 24.
Ints  == {0, 7, 127, 128, 32767, 32768, 65535}
Longs == {0, 99999, 100000, 1234567, 8388607, 8388608, 16777215}

Numbers ==
    Directive(AFlags, {None, 1, 6}, FALSE, {None, 0, 3}, {Nul}, {"d", "u", "o", "x"}, Ints)
    \cup Directive(FewFlags, {None, 6}, FALSE, {None, 3}, {"h", "l", "z"}, {"i", "u", "X"}, Ints)
    \cup Directive(FewFlags, {None, 9}, FALSE, {None}, {"L"}, {"d", "u", "x"}, Longs)
    \cup Directive(FewFlags, {-6, 0, 6}, TRUE, {None}, {Nul}, {"i", "o"}, Ints)
    \cup Directive({{}, {"-"}, {"#"}}, {None, 6}, FALSE, {None}, {Nul}, {"p"}, Ints)
    \cup Directive({{}, {"0"}}, {-6, None, 6}, TRUE, {None}, {Nul}, {"p"}, Ints)
    \cup Directive({{}}, {None}, FALSE, {None}, {"L"}, {"u"}, 0 .. 9999 \cup {10 ^ 4 * high + low : high \in 1 .. 9, low \in {0, 99, 2048, 9999}})

OtherDirectives ==
    Directive(FewFlags, {None, 1, 4}, FALSE, {None, 0, 2}, {Nul}, {"s"}, {NullPtr, <<>>, <<"a">>, <<"a", "b", "c">>})
    \cup Directive(FewFlags, {None, 1, 4}, FALSE, {None}, {Nul}, {"c", "%", "q", "n"}, {"a"})

D(conv, arg)  == [kind |-> "dir", flags |-> {}, width |-> None, star |-> FALSE, prec |-> None, qual |-> Nul, conv |-> conv, arg |-> arg]
Wide(dir, w)  == [dir EXCEPT !.width = w]
Several == {
    <<D("d", 65535), Lit(NBSP), D("s", <<"a", "b">>), Lit(VT), D("x", 48879)>>,
    <<D("c", "a"), Lit(","), Wide(D("d", 42), 4), D("n", 0), Lit(","), D("u", 7)>>,
    <<Lit("a"), Lit("="), [D("x", 255) EXCEPT !.flags = {"#"}], D("n", 0), Lit(" "), D("%", 0), Lit("b")>>,
    <<[D("d", 5) EXCEPT !.flags = {"-"}, !.width = 3], Lit(" "), [D("i", 65530) EXCEPT !.qual = "h"], Lit(" "), D("o", 8)>>,
    <<D("s", <<"a">>), D(Nul, 0)>> }

Request(f, buf, size, fmt) == [f |-> f, buf |-> buf, size |-> size, fmt |-> fmt]

\* More text than half of memory holds, as an int counts it.
LongTexts == {<<Wide(D("d", 42), 40), Lit("a"), Wide(D("s", <<"b">>), 30)>>}

\* A buffer of 40 characters; buffers of every size up to the text's, at and over the end
\* of memory, at its beginning, and of a size that is negative; vsprintf in the lower and
\* the upper half.  From 120 and from 90 some texts run through the last address.
MCRequests ==
    {Request("vsnprintf", 16, 40, <<dir>>) : dir \in Numbers \cup OtherDirectives}
    \cup {Request(f, 16, size, fmt) : f \in {"vsnprintf", "vscnprintf"}, size \in 0 .. 16 \cup {40, 64, 100}, fmt \in Several}
    \cup {Request(f, buf, size, fmt) : f \in {"vsnprintf", "vscnprintf"}, buf \in {0, 120}, size \in {0, 7, 8, 9, 30}, fmt \in Several}
    \cup {Request("vsprintf", buf, 0, fmt) : buf \in {16, 90, 120}, fmt \in Several \cup LongTexts}

\* Calls of vsnprintf at the end of memory.
MCTopRequests == {Request("vsnprintf", 120, 8, fmt) : fmt \in Several}

-----------------------------------------------------------------------------
(* The console: a number printed with a line feed, a text with one inside, *)
(* a line read.  FIFOs that fill up, lines that fill the buffer and run    *)
(* over it, both ends of lines, a NUL among the keys.                      *)
MCJobs == {
    [f |-> "printf", fmt |-> <<Wide(D("d", 7), 2), Lit(LF), D("c", Nul), Lit("a")>>],
    [f |-> "puts", text |-> <<"a", LF, "b">>],
    [f |-> "scanf", fmt |-> <<In(None, Nul, "d")>>] }

MCKeys == {"1", CR, LF, Nul}

-----------------------------------------------------------------------------
(* The machines                                                            *)

NoCall == [f |-> "none"]     \* no call

DivIdle ==
    /\ pc = "done" /\ n = 0 /\ base = 1 /\ rem = 0 /\ res = 0
    /\ b = 1 /\ d = 1 /\ weights = <<1>>
MemIdle ==
    /\ at = "back" /\ op = NoCall /\ mem = <<>> /\ was = <<>>
    /\ dst = 0 /\ src = 0 /\ left = 0
StrIdle  == ret = 0 /\ rest = 0 /\ toks = <<>>
FormIdle ==
    /\ request = Request("none", 0, 0, <<>>)
    /\ stage = "back" /\ item = 1 /\ str = 0 /\ cells = <<>> /\ text = <<>> /\ counts = <<>> /\ retval = 0
    /\ scan = Start

\* All calls have been made, and all keys typed.
ConsoleIdle ==
    /\ phase = "idle" /\ job = NoJob /\ jobs = MaxJobs
    /\ outbuf = <<>> /\ i = 0 /\ c = Nul /\ key = Nul /\ back = "idle"
    /\ line = <<>> /\ result = [got |-> <<>>, ret |-> 0]
    /\ tx = <<>> /\ rx = <<>> /\ screen = <<>>
    /\ said = <<>> /\ typed = <<>> /\ lines = <<>> /\ strokes = MaxKeys

LibInit ==
    \/ Init /\ MemIdle /\ StrIdle /\ FormIdle /\ ConsoleIdle
    \/ DivIdle /\ MemInit /\ StrIdle /\ FormIdle /\ ConsoleIdle
    \/ DivIdle /\ StrInit /\ FormIdle /\ ConsoleIdle
    \/ DivIdle /\ MemIdle /\ StrIdle /\ FormInit /\ ConsoleIdle
    \/ DivIdle /\ MemIdle /\ StrIdle /\ FormIdle /\ ConsoleInit

\* The routines that are loops.
Loops ==
    \/ Next /\ UNCHANGED <<memVars, strVars, formVars, consoleVars>>
    \/ MemNext /\ UNCHANGED <<vars, strVars, formVars, consoleVars>>
    \/ StrNext /\ UNCHANGED <<vars, formVars, consoleVars>>

Others == UNCHANGED <<vars, memVars, strVars, formVars>>

LibNext ==
    \/ Loops
    \/ FormNext /\ UNCHANGED <<vars, memVars, strVars, consoleVars>>
    \/ ConsoleNext /\ Others

libVars == <<vars, memVars, strVars, formVars, consoleVars>>

\* The processor goes on executing, a call of the console too, and the UART sending; nobody
\* has to type.
LibSpec ==
    /\ LibInit /\ [][LibNext]_libVars
    /\ WF_libVars(Loops) /\ WF_libVars(Cpu /\ Others) /\ WF_libVars(Transmit /\ Others)

-----------------------------------------------------------------------------
(* Properties                                                              *)

\* Every loop ends, for the highest dividends and divisors, areas of no bytes and strings
\* without tokens too.
AllReturn == <>(pc = "done" /\ at = "back")
=============================================================================
