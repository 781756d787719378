------------------------------ MODULE FixedPoint ------------------------------
(***************************************************************************)
(* The fixed-point helpers of jderobot/lib/math/Utils.scala, at a          *)
(* parametric operand width, inside the registered test circuits of        *)
(* UtilsTest (result := RegNext(f(x, y))): x and y are held on the inputs, *)
(* one clock edge later the results are in the registers.  The functions   *)
(* are compared with what the comments refer to: rounding to the nearest,  *)
(* and the function of gemmlowp's fixedpoint.h, which the test circuit's   *)
(* results are compared with.                                              *)
(***************************************************************************)
EXTENDS Integers

CONSTANT Width      \* of an operand: a power of two, 32 in the tests

WidthAssumption == Width \in Nat /\ Width >= 2

VARIABLES
    x, y,           \* the inputs
    valid,          \* the results belong to the inputs
    rounded,        \* RoundingDivideByPOT(x, exp), for each exponent
    product         \* SaturatingRoundingDoublingHighMul(x, y)

vars == <<x, y, valid, rounded, product>>

MinOf(w) == -(2 ^ (w - 1))
MaxOf(w) == 2 ^ (w - 1) - 1
Word == MinOf(Width) .. MaxOf(Width)
Exponents == 0 .. Width - 1

\* The value of the w low bits of v, read as a two's complement number.
Truncated(v, w) == ((v - MinOf(w)) % (2 ^ w)) + MinOf(w)

\* Mutant: the threshold does not depend on the sign.
RoundingDivideByPOTSignless(v, exp) ==
    LET mask == 2 ^ exp - 1
        remainder == v % (2 ^ exp)
        threshold == mask \div 2
    IN  v \div (2 ^ exp) + (IF remainder > threshold THEN 1 ELSE 0)

\* v & mask is the residue modulo 2^exp, for negative v too, and the
\* arithmetic shift is the division that rounds towards minus infinity.
RoundingDivideByPOT(v, exp) ==
    LET mask == 2 ^ exp - 1
        remainder == v % (2 ^ exp)
        threshold == mask \div 2 + (IF v < 0 THEN 1 ELSE 0)
    IN  v \div (2 ^ exp) + (IF remainder > threshold THEN 1 ELSE 0)

WillOverflow(a, b) == a = b /\ a = MinOf(Width)

\* Mutant: the product of the two least operands is not saturated.
SaturatingRoundingDoublingHighMulWraps(a, b) ==
    Truncated(RoundingDivideByPOT(a * b, Width - 1), Width)

\* The double-width product is divided by 2^(Width - 1) and its lower half
\* kept.
SaturatingRoundingDoublingHighMul(a, b) ==
    IF WillOverflow(a, b) THEN MaxOf(Width)
    ELSE Truncated(RoundingDivideByPOT(a * b, Width - 1), Width)

Init ==
    /\ x \in Word /\ y \in Word
    /\ valid = FALSE
    /\ rounded = [e \in Exponents |-> 0]
    /\ product = 0

ClockEdge ==
    /\ rounded' = [e \in Exponents |-> RoundingDivideByPOT(x, e)]
    /\ product' = SaturatingRoundingDoublingHighMul(x, y)
    /\ valid' = TRUE
    /\ UNCHANGED <<x, y>>

Spec == Init /\ [][ClockEdge]_vars

-----------------------------------------------------------------------------
(* References. *)

Abs(v) == IF v < 0 THEN -v ELSE v

\* r is v / d rounded to the nearest integer.
IsNearest(r, v, d) == 2 * Abs(r * d - v) <= d

TieAwayFromZero(r, v, d) == 2 * Abs(r * d - v) = d => Abs(r * d) > Abs(v)

\* The division of C.
TowardsZero(v, d) == IF v >= 0 THEN v \div d ELSE -((-v) \div d)

\* SaturatingRoundingDoublingHighMul of gemmlowp.
GemmlowpHighMul(a, b) ==
    LET nudge == IF a * b >= 0 THEN 2 ^ (Width - 2) ELSE 1 - 2 ^ (Width - 2)
    IN  IF WillOverflow(a, b) THEN MaxOf(Width)
        ELSE TowardsZero(a * b + nudge, 2 ^ (Width - 1))

\* v is negative and half way between two multiples of 2^(Width - 1).
NegativeTie(v) == v < 0 /\ v % (2 ^ (Width - 1)) = 2 ^ (Width - 2)

-----------------------------------------------------------------------------

\* RoundingDivideByPOT is the "correctly-rounded-to-nearest division by a
\* power-of-two" of its comment, ties away from zero, for every operand and
\* exponent, the extreme ones included.
DivisionIsNearest ==
    valid => \A e \in Exponents :
                 IsNearest(rounded[e], x, 2 ^ e) /\ TieAwayFromZero(rounded[e], x, 2 ^ e)

\* SaturatingRoundingDoublingHighMul rounds the exact product to the nearest
\* fixed-point number, and the one product outside of the range of an operand
\* becomes the greatest number.
HighMulIsNearestInRange ==
    valid => IF x * y = 2 ^ (2 * Width - 2)
             THEN product = MaxOf(Width)
             ELSE product \in Word /\ IsNearest(product, x * y, 2 ^ (Width - 1))

\* It is gemmlowp's function but for the negative ties, which gemmlowp rounds
\* up and RoundingDivideByPOT, on which it is built, away from zero.
HighMulIsGemmlowpButForTies ==
    valid => product = GemmlowpHighMul(x, y) - (IF NegativeTie(x * y) THEN 1 ELSE 0)

\* The comment ("From gemmlowp fixedpoint.h") and UtilsTest, which compares the
\* results with gemmlowp's bit by bit, say that there is no exception.
HighMulIsGemmlowp == valid => product = GemmlowpHighMul(x, y)
=============================================================================
