------------------------------- MODULE Console -------------------------------
(***************************************************************************)
(* The console: printf and scanf (src/lib/printf.c), puts, putc and getc   *)
(* (src/hal/imx6ull/uart.c), and the UART between them and the person at   *)
(* the terminal.                                                           *)
(*                                                                         *)
(* The processor makes one call after another and waits for bits of the    *)
(* UART's status register; the UART sends what is in its transmit FIFO,    *)
(* and keys arrive in its receive FIFO at any time.                        *)
(***************************************************************************)
EXTENDS Scan

CONSTANTS
    Jobs,       \* the calls made: [f, fmt], for puts with its string as text
    MaxJobs,    \* bound: how many calls are made
    Keys,       \* what is typed
    MaxKeys,    \* bound: how many keys are typed
    TxDepth,    \* characters the transmit FIFO holds: 32
    RxDepth,    \* and the receive FIFO: 32
    OutBufSize, \* OUTBUFSIZE: 1024
    InBufSize   \* INBUFSIZE: 1024

CR == "\r"
LF == "\n"
LineEnds == {CR, LF}

(* The transmit FIFO holds something; texts and keys are characters.       *)
(* printf does not bound what it formats: its callers do.                  *)
ASSUME ConsoleAssumption ==
    /\ TxDepth \in Nat \ {0}
    /\ Keys \subseteq STRING
    /\ \A j \in Jobs :
        /\ j.f = "printf" => TextOf(j.fmt) \in Seq(STRING) /\ Len(TextOf(j.fmt)) < OutBufSize
        /\ j.f = "puts" => j.text \in Seq(STRING)

VARIABLES
    phase,      \* where the processor is in its call, or idle
    job, jobs,  \* the call, and how many there have been
    outbuf, i,  \* g_pcOutBuf or the string puts was given, and the place in it
    c,          \* the character putc sends
    key,        \* the character getc has returned
    back,       \* where putc returns to
    line,       \* what is in g_pcInBuf
    result,     \* what vsscanf stored and returned
    tx, rx,     \* the FIFOs
    screen,     \* what the terminal has got
    said,       \* ghost: what it ought to get
    typed,      \* ghost: the keys that came into the receive FIFO
    lines,      \* ghost: the lines scanf has read, and how many keys had come up to their ends
    strokes     \* how many keys have been typed

cpuVars  == <<phase, job, outbuf, i, c, key, back, line, result, said, lines>>
uartVars == <<tx, rx, screen, typed, strokes>>
consoleVars == <<cpuVars, jobs, uartVars>>

NoJob == [f |-> "none"]

ConsoleInit ==
    /\ phase = "idle" /\ job = NoJob /\ jobs = 0
    /\ outbuf = <<>> /\ i = 0 /\ c = Nul /\ key = Nul /\ back = "idle"
    /\ line = <<>> /\ result = [got |-> <<>>, ret |-> 0]
    /\ tx = <<>> /\ rx = <<>> /\ screen = <<>>
    /\ said = <<>> /\ typed = <<>> /\ lines = <<>> /\ strokes = 0

-----------------------------------------------------------------------------
(* printf and puts                                                         *)

\* A string up to its first NUL, which is where strlen ends it.
UpToNul(t) == SubSeq(t, 1, UpTo(t, 1, {}) - 1)

\* What the terminal gets for a string: a carriage return after each line feed.
WithReturns(t) == FlattenSeq([k \in DOMAIN t |-> IF t[k] = LF THEN <<LF, CR>> ELSE <<t[k]>>])

\* printf formats into its buffer first; puts goes through the string.
CallPrint ==
    /\ phase = "idle" /\ jobs < MaxJobs
    /\ \E j \in Jobs :
        /\ j.f \in {"printf", "puts"}
        /\ job' = j
        /\ outbuf' = UpToNul(IF j.f = "printf" THEN TextOf(j.fmt) ELSE j.text)
        /\ said' = said \o WithReturns(outbuf')
    /\ phase' = "print" /\ i' = 0 /\ jobs' = jobs + 1
    /\ UNCHANGED <<c, key, back, line, result, lines, uartVars>>

\* putc(ch), which is to return to where.
Putc(ch, where) == phase' = "putc" /\ c' = ch /\ back' = where

NextChar ==
    /\ phase = "print"
    /\ IF i < Len(outbuf) THEN Putc(outbuf[i + 1], "print") /\ i' = i + 1
       ELSE phase' = "idle" /\ UNCHANGED <<c, back, i>>
    /\ UNCHANGED <<job, jobs, outbuf, key, line, result, said, lines, uartVars>>

-----------------------------------------------------------------------------
(* putc                                                                    *)

\* The character is written to UTXD; a FIFO that is full takes none.
Send ==
    /\ tx' = IF Len(tx) < TxDepth THEN Append(tx, c) ELSE tx
    /\ IF c = LF THEN c' = CR /\ UNCHANGED phase ELSE phase' = back /\ UNCHANGED c
    /\ UNCHANGED <<job, jobs, outbuf, i, key, back, line, result, said, lines, rx, screen, typed, strokes>>

\* mutant: putc does not wait
PutUnwaited == phase = "putc" /\ Send

\* TXDC, bit 3 of USR2: all has been sent.
Put == phase = "putc" /\ tx = <<>> /\ Send

-----------------------------------------------------------------------------
(* scanf                                                                   *)

CallScanf ==
    /\ phase = "idle" /\ jobs < MaxJobs
    /\ \E j \in Jobs : j.f = "scanf" /\ job' = j
    /\ phase' = "getc" /\ line' = <<>> /\ jobs' = jobs + 1
    /\ UNCHANGED <<outbuf, i, c, key, back, result, said, lines, uartVars>>

\* RDR, bit 0 of USR2: a character has come.  It is echoed.
Get ==
    /\ phase = "getc" /\ rx # <<>>
    /\ Putc(Head(rx), "store")
    /\ key' = Head(rx) /\ rx' = Tail(rx)
    /\ said' = said \o WithReturns(<<Head(rx)>>)
    /\ UNCHANGED <<job, jobs, outbuf, i, line, result, lines, tx, screen, typed, strokes>>

\* mutant: only a line feed ends the line
StoreUntilLF ==
    /\ phase = "store"
    /\ IF Len(line) >= InBufSize THEN phase' = "wild" /\ UNCHANGED <<line, result, lines>>
       ELSE IF key = LF THEN /\ phase' = "idle" /\ lines' = Append(lines, [text |-> line, end |-> Len(typed) - Len(rx)])
                           /\ result' = Sscanf(UpToNul(line), job.fmt) /\ UNCHANGED line
       ELSE phase' = "getc" /\ line' = Append(line, key) /\ UNCHANGED <<result, lines>>
    /\ UNCHANGED <<job, jobs, outbuf, i, c, key, back, said, uartVars>>

\* Nothing stops a line at the end of the buffer: what lies behind it is written over.
StoreKey ==
    /\ phase = "store"
    /\ IF Len(line) >= InBufSize THEN phase' = "wild" /\ UNCHANGED <<line, result, lines>>
       ELSE IF key \in LineEnds THEN /\ phase' = "idle" /\ lines' = Append(lines, [text |-> line, end |-> Len(typed) - Len(rx)])
                                   /\ result' = Sscanf(UpToNul(line), job.fmt) /\ UNCHANGED line
       ELSE phase' = "getc" /\ line' = Append(line, key) /\ UNCHANGED <<result, lines>>
    /\ UNCHANGED <<job, jobs, outbuf, i, c, key, back, said, uartVars>>

-----------------------------------------------------------------------------
(* The UART and the person                                                 *)

Transmit ==
    /\ tx # <<>>
    /\ screen' = Append(screen, Head(tx)) /\ tx' = Tail(tx)
    /\ UNCHANGED <<cpuVars, jobs, rx, typed, strokes>>

\* A key is lost when the receive FIFO is full.
Type ==
    /\ strokes < MaxKeys /\ strokes' = strokes + 1
    /\ \E k \in Keys : IF Len(rx) < RxDepth THEN rx' = Append(rx, k) /\ typed' = Append(typed, k)
                      ELSE UNCHANGED <<rx, typed>>
    /\ UNCHANGED <<cpuVars, jobs, tx, screen>>

Cpu == NextChar \/ Put \/ Get \/ StoreKey

ConsoleNext == CallPrint \/ CallScanf \/ Cpu \/ Transmit \/ Type

\* The processor goes on with the call it is in and the UART with sending; nobody has to
\* type.
ConsoleSpec ==
    /\ ConsoleInit /\ [][ConsoleNext]_consoleVars
    /\ WF_consoleVars(Cpu) /\ WF_consoleVars(Transmit)

-----------------------------------------------------------------------------
(* Properties                                                              *)

\* The terminal gets every character of every text and every key echoed, once and in
\* order, with a carriage return after each line feed (uart.c:204-205): no character is
\* written over one that has not been sent, and when a call has returned at most its
\* last character is still on its way.
ScreenRight ==
    /\ IsPrefix(screen \o tx, said)
    /\ phase = "idle" => screen \o tx = said /\ Len(tx) <= 1

\* The lines that have been read, each up to an end, what is in the buffer and what is in
\* the FIFO make up the keys that have come: no key is lost between two calls or read
\* twice, and each scanf works on the keys up to the next carriage return or line feed -
\* an empty line when both have been sent for one key (printf.c:41-54) - and, of those,
\* on the keys before the first NUL.
LineEnd(k) == IF k = 0 THEN 0 ELSE lines[k].end
KeysRead ==
    LET open == CASE phase = "getc" -> line
                  [] phase = "putc" /\ back = "store" -> Append(line, key)
                  [] phase = "store" -> Append(line, key)
                  [] OTHER -> <<>>
    IN  phase # "wild" =>
        /\ \A k \in DOMAIN lines :
              /\ LineEnd(k - 1) < LineEnd(k)
              /\ SubSeq(typed, LineEnd(k - 1) + 1, LineEnd(k) - 1) = lines[k].text
              /\ typed[LineEnd(k)] \in LineEnds
              /\ ToSet(lines[k].text) \cap LineEnds = {}
        /\ SubSeq(typed, LineEnd(Len(lines)) + 1, Len(typed)) = open \o rx
        /\ phase = "idle" /\ job.f = "scanf" => result = Sscanf(UpToNul(Last(lines).text), job.fmt)

\* Every printf and puts returns, and so does a scanf once the end of its line has come -
\* or it has run over its buffer.
CallsEnd ==
    /\ (phase # "idle" /\ job.f \in {"printf", "puts"}) ~> (phase = "idle")
    /\ (phase # "idle" /\ job.f = "scanf" /\ ToSet(rx) \cap LineEnds # {}) ~> (phase \in {"idle", "wild"})
=============================================================================
