------------------------------- MODULE ArmDiv -------------------------------
(***************************************************************************)
(* The 32-bit divisions of src/hal/lib, which the compiler calls for / and *)
(* %: __udivsi3, __umodsi3, __divsi3 and __modsi3.  Each shifts the        *)
(* divisor up, four bits at a time and then one, until it is larger than   *)
(* the dividend, and brings it down again by four bits per turn, testing   *)
(* each of the four for a subtraction - on the last turn too, where fewer  *)
(* than four may be left.                                                  *)
(*                                                                         *)
(* A behaviour is one call; one action is one turn of a loop.  Words are   *)
(* numbers below 2^W.  curbit is modelled by the place of its only bit     *)
(* (below 0 when the bit has been shifted out), overdone by the set of the *)
(* places of its bits.                                                     *)
(***************************************************************************)
EXTENDS Integers

CONSTANTS
    W,          \* bits of a word: 32
    Calls       \* the calls made

Words == 0 .. (2 ^ W - 1)
Names == {"udiv", "umod", "idiv", "imod"}

(* Four bits are shifted at a time; ARM_DIV2_ORDER is for at most 32.      *)
ASSUME WordAssumption ==
    /\ W \in 4 .. 32
    /\ Calls \subseteq [f : Names, n : Words, m : Words]

VARIABLES
    pc,         \* a label of the code, or "done"
    call,       \* the function and its arguments
    dividend, divisor,
    bit,        \* place of curbit's bit; in imod, order
    result,     \* of udiv and idiv
    overdone,   \* bits set in overdone, of umod
    ret         \* the value returned

vars == <<pc, call, dividend, divisor, bit, result, overdone, ret>>

-----------------------------------------------------------------------------
(* Words                                                                   *)

Lsl(x, k)   == (x * 2 ^ k) % 2 ^ W
Lsr(x, k)   == x \div 2 ^ k
Neg(x)      == (2 ^ W - x) % 2 ^ W                      \* rsb x, x, #0
Minus(x)    == x >= 2 ^ (W - 1)                         \* the sign bit
Abs(x)      == IF Minus(x) THEN Neg(x) ELSE x

\* tst d, d - 1
IsPower(d) == \E k \in 0 .. (W - 1) : d = 2 ^ k

\* ARM_DIV2_ORDER of a power of two.
Narrow(s, k) == IF s.d >= 2 ^ k THEN [d |-> Lsr(s.d, k), order |-> s.order + k] ELSE s

\* mutant: four is counted with the higher powers
OrderHigh(d) ==
    LET s == Narrow(Narrow(Narrow([d |-> d, order |-> 0], 16), 8), 4)
    IN  s.order + (IF s.d >= 4 THEN 3 ELSE Lsr(s.d, 1))

Order(d) ==
    LET s == Narrow(Narrow(Narrow([d |-> d, order |-> 0], 16), 8), 4)
    IN  s.order + (IF s.d > 4 THEN 3 ELSE Lsr(s.d, 1))

\* orr x, x, the word whose only bit is at place k.
Orr(x, k) == IF k < 0 \/ Lsr(x, k) % 2 = 1 THEN x ELSE x + 2 ^ k

\* cmp, subcs, orrcs for the divisor shifted right by k: what remains, the result, and
\* for which shifts it was subtracted.
Test(s, k) ==
    IF s.rem >= Lsr(divisor, k)
    THEN [rem |-> s.rem - Lsr(divisor, k), res |-> Orr(s.res, bit - k), hits |-> s.hits \cup {k}]
    ELSE s

\* The tests for the shifts from 0 to last, which is at most 3.
Try(last) ==
    LET s0 == Test([rem |-> dividend, res |-> result, hits |-> {}], 0)
        s1 == Test(s0, 1)
        s2 == Test(s1, 2)
    IN  CASE last = 0 -> s0 [] last = 1 -> s1 [] last = 2 -> s2 [] last = 3 -> Test(s2, 3)

-----------------------------------------------------------------------------
(* Entry: the special cases, and where the loops start                     *)

Init ==
    /\ call \in Calls
    /\ pc = "entry"
    /\ dividend = call.n /\ divisor = call.m
    /\ bit = 0 /\ result = 0 /\ overdone = {} /\ ret = 0

Return(v) ==
    /\ pc' = "done" /\ ret' = v
    /\ UNCHANGED <<call, dividend, divisor, bit, result, overdone>>

ShiftUp(n, m, b) ==
    /\ pc' = "up4"
    /\ dividend' = n /\ divisor' = m /\ bit' = b
    /\ UNCHANGED <<call, result, overdone, ret>>

EnterUnsigned ==
    /\ pc = "entry" /\ call.f \in {"udiv", "umod"}
    /\ IF divisor = 0 THEN Return(0)
       ELSE IF dividend < divisor THEN Return(IF call.f = "udiv" THEN 0 ELSE dividend)
       ELSE ShiftUp(dividend, divisor, 0)

\* Whether the signs of the arguments differ (ip).
Differ == Minus(call.n) # Minus(call.m)
Signed(minus, v) == IF minus THEN Neg(v) ELSE v

EnterDiv ==
    LET n == Abs(dividend)
        m == Abs(divisor)
        first == IF m < 2 ^ (W - 3) THEN 3 ELSE 0   \* tst divisor, #0xe0000000
    IN  /\ pc = "entry" /\ call.f = "idiv"
        /\ IF m = 0 THEN Return(0)
           ELSE IF m = 1 THEN Return(Signed(Minus(divisor), dividend))
           ELSE IF n < m THEN Return(0)
           ELSE IF n = m THEN Return(Signed(Differ, 1))
           ELSE IF IsPower(m) THEN Return(Signed(Differ, Lsr(n, Order(m))))
           ELSE ShiftUp(n, Lsl(m, first), first)

EnterMod ==
    LET n == Abs(dividend)
        m == Abs(divisor)
    IN  /\ pc = "entry" /\ call.f = "imod"
        /\ IF m = 0 \/ m = 1 \/ n = m THEN Return(0)
           ELSE IF n < m THEN Return(Signed(Minus(dividend), n))
           ELSE IF IsPower(m) THEN Return(Signed(Minus(dividend), n % m))
           ELSE ShiftUp(n, m, 0)

-----------------------------------------------------------------------------
(* The loops                                                               *)

ShiftBy(k) ==
    /\ divisor' = Lsl(divisor, k) /\ bit' = bit + k
    /\ UNCHANGED <<pc, call, dividend, result, overdone, ret>>

\* mutant: the bound is one place too high
Up4Late ==
    /\ pc = "up4"
    /\ IF divisor < 2 ^ (W - 3) /\ divisor < dividend THEN ShiftBy(4)
       ELSE pc' = "up1" /\ UNCHANGED <<call, dividend, divisor, bit, result, overdone, ret>>

\* Loop1
Up4 ==
    /\ pc = "up4"
    /\ IF divisor < 2 ^ (W - 4) /\ divisor < dividend THEN ShiftBy(4)
       ELSE pc' = "up1" /\ UNCHANGED <<call, dividend, divisor, bit, result, overdone, ret>>

\* Lbignum; imod then takes 3 off its order, which says how many full turns there are.
Up1 ==
    /\ pc = "up1"
    /\ IF divisor < 2 ^ (W - 1) /\ divisor < dividend THEN ShiftBy(1)
       ELSE IF call.f = "imod"
            THEN /\ bit' = bit - 3
                 /\ pc' = IF bit' < 0 THEN "mod1" ELSE "mod4"
                 /\ UNCHANGED <<call, dividend, divisor, result, overdone, ret>>
            ELSE pc' = "down" /\ UNCHANGED <<call, dividend, divisor, bit, result, overdone, ret>>

\* The end of Loop3: nothing remains, or curbit would be shifted out.
Exhausted(rem) == rem = 0 \/ bit < 4

\* mutant: curbit stays where it is
NextTurnStuck == divisor' = Lsr(divisor, 4) /\ bit' = bit

NextTurn == divisor' = Lsr(divisor, 4) /\ bit' = bit - 4

\* Loop3 of udivsi3 and of ARM_DIV_BODY.
DivDown ==
    LET turn == Try(3)
    IN  /\ pc = "down" /\ call.f \in {"udiv", "idiv"}
        /\ dividend' = turn.rem /\ result' = turn.res
        /\ IF Exhausted(turn.rem)
           THEN /\ pc' = "done"
                /\ ret' = Signed(call.f = "idiv" /\ Differ, turn.res)
                /\ UNCHANGED <<divisor, bit>>
           ELSE NextTurn /\ UNCHANGED <<pc, ret>>
        /\ UNCHANGED <<call, overdone>>

\* Loop3 of umodsi3: overdone remembers the subtractions of this turn but for the
\* first, as bits of curbit rotated right.
ModDown ==
    LET turn == Try(3)
    IN  /\ pc = "down" /\ call.f = "umod"
        /\ dividend' = turn.rem
        /\ overdone' = {(bit - k) % W : k \in turn.hits \ {0}}
        /\ IF Exhausted(turn.rem)
           THEN pc' = "fixup" /\ UNCHANGED <<divisor, bit>>
           ELSE NextTurn /\ UNCHANGED pc
        /\ UNCHANGED <<call, result, ret>>

\* Whether the subtraction for shift k is taken for one that should not have been made:
\* its bit of overdone is in the top three places.
Undone(k) == (bit - k) % W \in overdone \cap ((W - 3) .. (W - 1))
Restored(k) == IF Undone(k) THEN Lsr(divisor, k) ELSE 0

\* mutant: the shift by three is not undone
FixupTwo == pc = "fixup" /\ Return((dividend + Restored(2) + Restored(1)) % 2 ^ W)

\* What was subtracted for bits below the lowest, which the rotation has brought to the
\* top, is added again.
Fixup == pc = "fixup" /\ Return((dividend + Restored(3) + Restored(2) + Restored(1)) % 2 ^ W)

\* ARM_MOD_BODY: full turns of four, while the dividend is positive as a signed word.
IMod4 ==
    LET rem  == Try(3).rem
        more == rem > 0 /\ ~Minus(rem)
        left == IF more THEN bit - 4 ELSE bit
    IN  /\ pc = "mod4"
        /\ dividend' = rem /\ divisor' = Lsr(divisor, 4) /\ bit' = left
        /\ IF more /\ left >= 0 THEN UNCHANGED <<pc, ret>>
           ELSE IF left % 4 = 0 \/ rem = 0
                THEN pc' = "done" /\ ret' = Signed(Minus(call.n), rem)
                ELSE pc' = "mod1" /\ UNCHANGED ret
        /\ UNCHANGED <<call, result, overdone>>

\* The 1, 2 or 3 subtractions that are left.
IMod1 ==
    /\ pc = "mod1"
    /\ Return(Signed(Minus(call.n), Try(IF bit < -2 THEN 0 ELSE IF bit = -2 THEN 1 ELSE 2).rem))

Next ==
    \/ EnterUnsigned \/ EnterDiv \/ EnterMod
    \/ Up4 \/ Up1 \/ DivDown \/ ModDown \/ Fixup \/ IMod4 \/ IMod1

Spec == Init /\ [][Next]_vars /\ WF_vars(Next)

-----------------------------------------------------------------------------
(* Properties                                                              *)

\* A word as a signed number, and a number as a word.
Int32(x)  == IF Minus(x) THEN x - 2 ^ W ELSE x
AsWord(x) == x % 2 ^ W

\* The quotient C wants: rounded towards zero, 0 for a division by zero.  The one
\* quotient that does not fit, of the least number by -1, wraps.
Quotient(f, n, m) ==
    IF m = 0 THEN 0
    ELSE IF f = "udiv" THEN n \div m
    ELSE LET q == Abs(n) \div Abs(m)
         IN  AsWord(IF Minus(n) = Minus(m) THEN q ELSE -q)

\* The remainder C wants: of the sign of the dividend, so that quotient and remainder
\* give it back.
Remainder(f, n, m) ==
    IF m = 0 THEN 0
    ELSE IF f = "umod" THEN n % m
    ELSE AsWord(IF Minus(n) THEN -(Abs(n) % Abs(m)) ELSE n % Abs(m))

\* Both divisions are right for every pair of words: wherever the highest bits of the
\* arguments stand, whatever the signs, and although the last turn tests bits below
\* the lowest.
QuotientRight ==
    pc = "done" /\ call.f \in {"udiv", "idiv"} => ret = Quotient(call.f, call.n, call.m)

\* Both remainders are right, although umod subtracts too much and puts it back, and
\* imod leaves its loop with 0 to 3 subtractions to go or early - but for umod's when
\* the divisor has been shifted to the highest two places (see UmodRight).
RemainderRight ==
    /\ pc = "done" /\ call.f = "imod" => ret = Remainder("imod", call.n, call.m)
    /\ pc = "done" /\ call.f = "umod" /\ bit < W - 2 => ret = Remainder("umod", call.n, call.m)

\* _umodsi3.S:65-67: when the loop ends early, because nothing remains, none of the
\* tests of the fixup matches.
\* It does not hold: a subtraction for the highest places is taken for one of those
\* that were rotated there, and is undone.
UmodRight ==
    pc = "done" /\ call.f = "umod" => ret = Remainder("umod", call.n, call.m)

\* What the loops divide, and what by: the absolute values, if there are signs.
Numerator   == IF call.f \in {"idiv", "imod"} THEN Abs(call.n) ELSE call.n
Denominator == IF call.f \in {"idiv", "imod"} THEN Abs(call.m) ELSE call.m

\* No shift loses a bit: the divisor is always the one of the call times the weight
\* of curbit, so that no subtraction can be wrong but those below the lowest bit.
NothingShiftedOut ==
    pc \in {"up4", "up1", "down", "fixup"} => divisor = Denominator * 2 ^ bit

\* No division hangs: the loops up and down end for every pair of words.
DivisionsReturn == <>(pc = "done")

(* The inductive invariant.  On the way down what is left of the dividend  *)
(* is its remainder by twice the divisor, and result is the quotient by it *)
(* in the weight it has; the loops of imod run three places behind, for    *)
(* bit is their order.                                                     *)
TypeOK ==
    /\ pc \in {"entry", "up4", "up1", "down", "fixup", "mod4", "mod1", "done"}
    /\ call \in Calls
    /\ dividend \in Words /\ divisor \in Words
    /\ bit \in Int /\ result \in Nat

Entered == pc = "entry" => dividend = call.n /\ divisor = call.m /\ result = 0

GoingUp ==
    pc \in {"up4", "up1"} =>
        /\ call.m # 0 /\ bit \in Nat
        /\ dividend = Numerator /\ result = 0

GoingDown ==
    pc = "down" =>
        /\ call.m # 0 /\ bit \in Nat /\ call.f # "imod"
        /\ dividend = Numerator % (Denominator * 2 ^ (bit + 1))
        /\ call.f # "umod" => result = (Numerator \div (Denominator * 2 ^ (bit + 1))) * 2 ^ (bit + 1)

Repaired ==
    pc = "fixup" =>
        /\ call.m # 0 /\ call.f = "umod"
        /\ bit < W - 2 => dividend + Restored(3) + Restored(2) + Restored(1) = call.n % call.m

ModDownBy4 ==
    pc \in {"mod4", "mod1"} =>
        /\ call.m # 0 /\ call.f = "imod"
        /\ IF pc = "mod4" THEN bit \in Nat ELSE bit \in -3 .. -1
        /\ divisor = Denominator * 2 ^ (bit + 3)
        /\ dividend = Numerator % (Denominator * 2 ^ (bit + 4))

IInv ==
    /\ TypeOK /\ Entered /\ GoingUp /\ NothingShiftedOut /\ GoingDown /\ Repaired /\ ModDownBy4
    /\ QuotientRight /\ RemainderRight
=============================================================================
