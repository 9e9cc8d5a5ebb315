------------------------------- MODULE Delay -------------------------------
(***************************************************************************)
(* The busy-wait delays of src/hal/imx6ull/delay.c: udelay polls GPT1->CNT, *)
(* a counter of microseconds that wraps from OCR[0] to 0, and adds up what *)
(* it sees; mdelay calls udelay(1000) over and over.                       *)
(*                                                                         *)
(* One action is one read of the counter and what the code computes from   *)
(* it up to the next read.  Before each read the hardware has counted on   *)
(* by at most Lag: how long a read, the instructions around it and, once   *)
(* they are enabled, interrupts may take.                                  *)
(***************************************************************************)
EXTENDS Integers

CONSTANTS
    Period, \* 2^32: the counter wraps at OCR[0] = Period - 1, as unsigned long does
    Lag,    \* the most microseconds between two reads of the counter
    Milli,  \* the argument of the calls of mdelay, 1000
    Us, Ms, \* arguments of udelay and mdelay
    MaxElapsed \* where the ghost elapsed stops counting

ASSUME TimerAssumption ==
    /\ Period \in Nat /\ Lag \in Nat \ {0} /\ Lag < Period
    /\ Milli \in 0 .. (Period - 1) /\ Us \subseteq 0 .. (Period - 1) /\ Ms \subseteq Nat
    /\ MaxElapsed \in Nat /\ MaxElapsed >= 2 * Period

VARIABLES
    phase,         \* "idle", "enter": udelay is about to read oldcnt, "poll": in its loop
    cnt,        \* GPT1->CNT
    oldcnt,
    tcntvalue,
    usdelay,
    i,          \* calls of udelay completed
    calls,      \* calls of udelay to make: 1 for udelay itself, msdelay for mdelay
    elapsed     \* ghost: microseconds since oldcnt was first read, or MaxElapsed if more

delayVars == <<phase, cnt, oldcnt, tcntvalue, usdelay, i, calls, elapsed>>

-----------------------------------------------------------------------------

\* Initial values but for the counter are those before any call.
DelayInit ==
    /\ cnt \in 0 .. (Period - 1)
    /\ phase = "idle"
    /\ oldcnt = 0 /\ tcntvalue = 0 /\ usdelay = 0
    /\ i = 0 /\ calls = 0 /\ elapsed = 0

Start(us, n) ==
    /\ phase = "idle"
    /\ usdelay' = us /\ calls' = n /\ i' = 0
    /\ phase' = IF n = 0 THEN "idle" ELSE "enter"
    /\ elapsed' = 0
    /\ UNCHANGED <<cnt, oldcnt, tcntvalue>>

Udelay(us) == Start(us, 1)
Mdelay(ms) == Start(Milli, ms)

\* mutant: what was counted before the wrap is forgotten
SeenAfterWrap(old, new) == IF new > old THEN new - old ELSE new

\* What the code takes for the time between two different readings: one less than
\* it was if the counter has wrapped.
Seen(old, new) == IF new > old THEN new - old ELSE (Period - 1) - old + new

Clock(d) == cnt' = (cnt + d) % Period

\* A delay may go on for ever: the ghost stops at MaxElapsed, later than any is right.
Passed(d) == elapsed' = IF elapsed + d <= MaxElapsed THEN elapsed + d ELSE MaxElapsed

Enter(d) ==
    /\ phase = "enter"
    /\ Clock(d)
    /\ oldcnt' = cnt' /\ tcntvalue' = 0 /\ elapsed' = 0
    /\ phase' = "poll"
    /\ UNCHANGED <<usdelay, i, calls>>

\* mutant: mdelay's loop does not count
NoCount ==
    /\ phase' = IF i + 1 = calls THEN "idle" ELSE "enter"
    /\ UNCHANGED i

\* udelay returns, to its caller or to the loop of mdelay.
UdelayReturn ==
    /\ i' = i + 1
    /\ phase' = IF i + 1 = calls THEN "idle" ELSE "enter"

\* mutant: oldcnt is not brought up to date
PollFromStart(d) ==
    /\ phase = "poll"
    /\ Clock(d)
    /\ Passed(d)
    /\ tcntvalue' = IF cnt' = oldcnt THEN tcntvalue
                    ELSE (tcntvalue + Seen(oldcnt, cnt')) % Period
    /\ IF cnt' # oldcnt /\ tcntvalue' >= usdelay THEN UdelayReturn ELSE UNCHANGED <<phase, i>>
    /\ UNCHANGED <<oldcnt, usdelay, calls>>

Poll(d) ==
    /\ phase = "poll"
    /\ Clock(d)
    /\ Passed(d)
    /\ oldcnt' = cnt'
    /\ tcntvalue' = IF cnt' = oldcnt THEN tcntvalue
                    ELSE (tcntvalue + Seen(oldcnt, cnt')) % Period
    /\ IF cnt' # oldcnt /\ tcntvalue' >= usdelay THEN UdelayReturn ELSE UNCHANGED <<phase, i>>
    /\ UNCHANGED <<usdelay, calls>>

Step == \E d \in 0 .. Lag : Enter(d) \/ Poll(d)

DelayNext ==
    \/ \E us \in Us : Udelay(us)
    \/ \E ms \in Ms : Mdelay(ms)
    \/ Step

DelaySpec == DelayInit /\ [][DelayNext]_delayVars

\* The core goes on executing the loop and GPT1 goes on counting.
DelayFairSpec == DelaySpec /\ WF_delayVars(Step)

-----------------------------------------------------------------------------
(* Properties                                                              *)

DelayTypeOK ==
    /\ phase \in {"idle", "enter", "poll"}
    /\ cnt \in 0 .. (Period - 1) /\ oldcnt \in 0 .. (Period - 1)
    /\ tcntvalue \in 0 .. (Period - 1)
    /\ usdelay \in Nat /\ i \in Nat /\ calls \in Nat /\ elapsed \in Nat
    /\ phase # "idle" => i < calls
    /\ i <= calls

\* udelay never returns before its time is over, wherever the counter stands and
\* wraps and however irregularly it is read.
NeverEarly == phase # "poll" /\ i > 0 => elapsed >= usdelay

\* A delay whose last reading cannot carry the sum past the width of tcntvalue.
Fits == usdelay + Lag <= Period

\* Nor is it late by more than one reading may take, the microsecond lost when the
\* counter wraps included - for delays that fit.
OnTime == Fits => elapsed <= usdelay + Lag

\* What delay.c:80 says: a delay of up to 0xFFFFFFFF microseconds is one.  In the code the
\* sum may step over a usdelay that does not fit, wrap (delay.c:94-97) and start again.
LongDelaysOnTime == elapsed <= usdelay + Lag

\* Every delay that fits ends, and mdelay after all its calls.
EveryDelayEnds == phase # "idle" /\ Fits ~> phase = "idle"

\* In the loop the time counted is the time that has passed, or one less once the
\* counter has wrapped: it then stands below the time that has passed, so that it
\* cannot wrap again before the delay ends.
Counted ==
    \/ tcntvalue = elapsed /\ elapsed <= cnt
    \/ tcntvalue = elapsed - 1 /\ cnt < elapsed

\* The inductive invariant: the time counted is never more than has passed, and
\* hardly less if the delay is not too long.
DelayInv ==
    /\ DelayTypeOK /\ NeverEarly /\ OnTime
    /\ phase = "poll" =>
          /\ oldcnt = cnt /\ tcntvalue <= elapsed
          /\ tcntvalue < usdelay \/ elapsed = 0
          /\ Fits => Counted
=============================================================================
