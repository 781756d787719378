---------------------------- MODULE MacArithmetic ----------------------------
(***************************************************************************)
(* What the MAC pipeline computes (Mac8x9.scala, AdderTreex9.scala): nine  *)
(* products (made by logic or by the multipliers of the chip), four stages *)
(* of pairwise sums in which an odd element is passed on, and the          *)
(* accumulator; each stage with the width of its registers.  One step of   *)
(* the module is one stage of the pipeline, for a single command; how      *)
(* commands follow each other is module Mac8x9.                            *)
(***************************************************************************)
EXTENDS Integers, Sequences

CONSTANTS
    TapWidth,           \* of a pixel and of a weight: 8 in the code
    AccumulatorWidth,   \* 32 in the code
    Taps,               \* the pairs of a pixel and a weight that are tried
    Acc0                \* the accumulator inputs that are tried (0 in AcceleratorV1)

WidthsAssumption ==
    /\ TapWidth \in Nat \ {0}
    /\ AccumulatorWidth \in Nat /\ AccumulatorWidth > 2 * TapWidth + 4
    /\ \A tap \in Taps : \A i \in {1, 2} :
          tap[i] \in -(2 ^ (TapWidth - 1)) .. 2 ^ (TapWidth - 1) - 1

VARIABLES
    useHwMultiplier,    \* of the generics: Multiplier8x8x2 makes the products
    taps, acc0,     \* the command: nine pairs and the initial sum
    depth,          \* registers passed so far
    sums,           \* the payload of the register reached last
    acc             \* rsp.acc once depth = Stages

vars == <<useHwMultiplier, taps, acc0, depth, sums, acc>>

Stages == 5

\* The value of the w low bits of v, read as a two's complement number.
Truncated(v, w) == ((v + 2 ^ (w - 1)) % (2 ^ w)) - 2 ^ (w - 1)

\* A product needs twice the width of a tap, each adder stage one bit more.
StageWidth(d) == 2 * TapWidth + d - 1

\* Mutant: the DSP block in its default configuration, for unsigned operands.
HwProductUnsigned(a, b) ==
    Truncated((a % (2 ^ TapWidth)) * (b % (2 ^ TapWidth)), StageWidth(1))

\* SB_MAC16 in MODE_8x8 with signed operands: an operand is extended by its sign
\* to the width of the product (the bits of a two's complement number).
SignExtended(v) == v % (2 ^ StageWidth(1))

\* The lower half of the product of the extended operands, read as signed again.
HwProduct(a, b) == Truncated(SignExtended(a) * SignExtended(b), StageWidth(1))

\* Four blocks make two products each, the ninth is always made of logic.
Products ==
    [i \in 1 .. 9 |->
        IF useHwMultiplier /\ i # 9 THEN HwProduct(taps[i][1], taps[i][2])
        ELSE Truncated(taps[i][1] * taps[i][2], StageWidth(1))]

\* Mutant: the sums keep the width of their operands.
PairSumsNarrow(s, width) ==
    [i \in 1 .. (Len(s) + 1) \div 2 |->
        IF 2 * i <= Len(s) THEN Truncated(s[2 * i - 1] + s[2 * i], width - 1)
                           ELSE s[2 * i - 1]]

\* x.grouped(2).map(add)
PairSums(s, width) ==
    [i \in 1 .. (Len(s) + 1) \div 2 |->
        IF 2 * i <= Len(s) THEN Truncated(s[2 * i - 1] + s[2 * i], width)
                           ELSE s[2 * i - 1]]

Init ==
    /\ useHwMultiplier \in BOOLEAN
    /\ taps \in [1 .. 9 -> Taps]
    /\ acc0 \in Acc0
    /\ depth = 0
    /\ sums = <<>>
    /\ acc = 0

Multiply ==
    /\ depth = 0
    /\ depth' = 1
    /\ sums' = Products
    /\ UNCHANGED <<useHwMultiplier, taps, acc0, acc>>

\* The sums of one adder stage reach its register; behind the last one the
\* accumulator input is added.
Add ==
    /\ depth \in 1 .. Stages - 1
    /\ depth' = depth + 1
    /\ sums' = PairSums(sums, StageWidth(depth + 1))
    /\ acc' = IF depth' = Stages
              THEN Truncated(acc0 + sums'[1], AccumulatorWidth) ELSE acc
    /\ UNCHANGED <<useHwMultiplier, taps, acc0>>

Next == Multiply \/ Add

Spec == Init /\ [][Next]_vars

-----------------------------------------------------------------------------

\* What tap i contributes.
Tap(i) == taps[i][1] * taps[i][2]

DotProduct ==
    Tap(1) + Tap(2) + Tap(3) + Tap(4) + Tap(5) + Tap(6) + Tap(7) + Tap(8) + Tap(9)

\* The result is the sum of products, modulo the width of the accumulator
\* only: no stage is too narrow for its sums, and every element, the odd ones
\* included, reaches the end of the tree (nine values leave one).  The
\* multiplier blocks and logic agree.
ResultIsDotProduct ==
    depth = Stages =>
        Len(sums) = 1 /\ acc = Truncated(acc0 + DotProduct, AccumulatorWidth)
=============================================================================
