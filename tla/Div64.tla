-------------------------------- MODULE Div64 --------------------------------
(***************************************************************************)
(* do_div and __div64_32 (src/include/div64.h, src/lib/div64.c): a 64-bit  *)
(* dividend divided by a 32-bit divisor with shifts and subtractions.      *)
(* put_dec takes the decimal digits of a number with it.                   *)
(*                                                                         *)
(* A behaviour is one call; one action is one turn of a loop.  The 32-bit  *)
(* / and % the code uses are those of ArmDiv.                              *)
(***************************************************************************)
EXTENDS Integers, Sequences

CONSTANTS
    Word,       \* 2^32: unsigned int is 0 .. Word - 1
    Sign,       \* 2^63, the sign bit of long long
    Dividends,
    Divisors

Long == Word * Word     \* unsigned long long is 0 .. Long - 1

ASSUME WidthAssumption ==
    /\ Word \in Nat /\ Word > 1
    /\ Sign \in Nat /\ 2 * Sign = Word * Word

(* put_dec's divisor is 100000: nobody divides by 0.                       *)
ASSUME CallAssumption ==
    Dividends \subseteq 0 .. (Word * Word - 1) /\ Divisors \subseteq 1 .. (Word - 1)

VARIABLES
    pc,
    n, base,    \* the arguments
    rem, res,
    b, d,       \* the divisor shifted up, and its weight in the quotient
    weights     \* ghost: the weights d has had on its way up from 1

vars == <<pc, n, base, rem, res, b, d, weights>>

-----------------------------------------------------------------------------

Init ==
    /\ n \in Dividends /\ base \in Divisors
    /\ pc = "enter"
    /\ rem = n /\ res = 0 /\ b = base /\ d = 1
    /\ weights = <<1>>

\* do_div: a dividend of 32 bits is divided at once.
DivideShort ==
    /\ pc = "enter" /\ n \div Word = 0
    /\ pc' = "done"
    /\ rem' = n % base /\ res' = n \div base
    /\ UNCHANGED <<n, base, b, d, weights>>

\* __div64_32: what the divisor goes into the high word is taken off first.
Reduce ==
    LET high == n \div Word
        quot == high \div base
    IN  /\ pc = "enter" /\ high # 0
        /\ pc' = "up"
        /\ IF high >= base
           THEN res' = (quot * Word) % Long /\ rem' = n - ((quot * base) % Word) * Word
           ELSE res' = 0 /\ rem' = n
        /\ UNCHANGED <<n, base, b, d, weights>>

\* (signed long long)b > 0 && b < rem.  After Reduce, rem is below base * Word and b stops
\* there at the latest: it is never the sign that ends the loop.
ShiftUp ==
    /\ pc = "up"
    /\ IF b > 0 /\ b < Sign /\ b < rem
       THEN /\ b' = (b + b) % Long /\ d' = (d + d) % Long
            /\ weights' = Append(weights, d + d)
            /\ UNCHANGED pc
       ELSE pc' = "down" /\ UNCHANGED <<b, d, weights>>
    /\ UNCHANGED <<n, base, rem, res>>

\* mutant: the shifted divisor is subtracted without a test
ShiftDownUntested ==
    /\ pc = "down"
    /\ rem' = (rem - b) % Long /\ res' = (res + d) % Long
    /\ b' = b \div 2 /\ d' = d \div 2
    /\ weights' = SubSeq(weights, 1, Len(weights) - 1)
    /\ pc' = IF d' # 0 THEN "down" ELSE "done"
    /\ UNCHANGED <<n, base>>

ShiftDown ==
    /\ pc = "down"
    /\ IF rem >= b THEN rem' = rem - b /\ res' = (res + d) % Long ELSE UNCHANGED <<rem, res>>
    /\ b' = b \div 2 /\ d' = d \div 2
    /\ weights' = SubSeq(weights, 1, Len(weights) - 1)
    /\ pc' = IF d' # 0 THEN "down" ELSE "done"
    /\ UNCHANGED <<n, base>>

Next == DivideShort \/ Reduce \/ ShiftUp \/ ShiftDown

Spec == Init /\ [][Next]_vars

-----------------------------------------------------------------------------
(* Properties                                                              *)

\* What do_div promises (div64.h:5-12): quotient and remainder, for every dividend and
\* divisor, whatever their highest bits.
DivisionRight == pc = "done" => n = res * base + rem /\ rem < base

\* In both loops nothing is lost: what has been divided and what remains are the
\* dividend, the shifted divisor has exactly its weight, and on the way down it is
\* never less than half of what remains.
NothingLost ==
    pc \in {"up", "down"} =>
        /\ n = res * base + rem
        /\ b = base * d
        /\ pc = "down" => rem < 2 * b

\* The variables are of their types, and no subtraction goes below zero.
TypeOK ==
    /\ pc \in {"enter", "up", "down", "done"}
    /\ n \in Nat /\ n < Long /\ base \in Nat /\ base > 0 /\ base < Word
    /\ rem \in 0 .. n /\ res \in Nat /\ b \in Nat /\ d \in Nat

\* The weights double from 1 up to d.
Doubling ==
    /\ weights \in Seq(Nat)
    /\ pc \in {"up", "down", "enter"} => Len(weights) > 0 /\ d = weights[Len(weights)]
    /\ Len(weights) > 0 => weights[1] = 1
    /\ \A i \in 1 .. (Len(weights) - 1) : weights[i + 1] = 2 * weights[i]

\* The inductive invariant: NothingLost, and that halving d and b loses nothing.
IInv ==
    /\ TypeOK /\ Doubling /\ NothingLost /\ DivisionRight
    /\ pc \in {"enter", "up", "down"} => d > 0
    /\ pc = "enter" => b = base /\ d = 1
=============================================================================
