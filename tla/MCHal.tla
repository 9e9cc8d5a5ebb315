-------------------------------- MODULE MCHal --------------------------------
(* One division, or delays one after the other: nothing the two would      *)
(* share.                                                                  *)
EXTENDS ArmDiv, Delay

\* All pairs of words: with 7 bits there are up to two turns of the loop that goes down,
\* ended at each of the four bits, by zero, or by the lowest bit.
MCCalls == [f : Names, n : Words, m : Words]

\* The counter wraps after 12 ticks and is read every 3 ticks or sooner; all delays of the
\* width, those too long for the last reading included.
MCUs == 0 .. (Period - 1)
MCMs == 0 .. 3

-----------------------------------------------------------------------------
(* The machines                                                            *)

NoDivision ==
    /\ pc = "done" /\ call = [f |-> "none"]
    /\ dividend = 0 /\ divisor = 0 /\ bit = 0 /\ result = 0 /\ overdone = {} /\ ret = 0
NoDelay ==
    /\ phase = "idle" /\ cnt = 0 /\ oldcnt = 0 /\ tcntvalue = 0
    /\ usdelay = 0 /\ i = 0 /\ calls = 0 /\ elapsed = 0

halVars == <<vars, delayVars>>

HalInit == (Init /\ NoDelay) \/ (NoDivision /\ DelayInit)

Divide == Next /\ UNCHANGED delayVars
Tick   == Step /\ UNCHANGED vars

HalNext ==
    \/ Divide
    \/ call.f = "none" /\ DelayNext /\ UNCHANGED vars

\* The processor goes on executing and GPT1 goes on counting.
HalSpec == HalInit /\ [][HalNext]_halVars /\ WF_halVars(Divide) /\ WF_halVars(Tick)

-----------------------------------------------------------------------------
(* Properties                                                              *)

\* Nothing in the lowest layer hangs: the loops of every division end, those of a
\* division by zero and of the least number too, every delay does that fits the counter,
\* and mdelay after all its calls.
HalReturns == DivisionsReturn /\ EveryDelayEnds
=============================================================================
