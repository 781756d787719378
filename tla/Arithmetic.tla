------------------------------ MODULE Arithmetic ------------------------------
(***************************************************************************)
(* The computations of the system, one at a time: a behaviour is the       *)
(* fixed-point functions of the hardware on one pair of operands, its MAC  *)
(* pipeline on one command, or one reference kernel of the firmware on     *)
(* tensors of the shapes it is called with.                                *)
(***************************************************************************)
EXTENDS Integers

CONSTANTS
    Width,                                              \* FixedPoint
    TapWidth, AccumulatorWidth,                         \* MacArithmetic
    Images, Filters, Strides, Dilations, SmallSum       \* ReferenceKernels

VARIABLES
    computation,
    x, y, valid, rounded, product,
    useHwMultiplier, taps, acc0, depth, sums, acc,
    task, output

\* Each tap takes one of the extreme products, so every register meets the
\* ends of its range, and the sum begins at the ends of the accumulator's.
LargestTap == 2 ^ (TapWidth - 1) - 1
ExtremeTaps == {<<-LargestTap - 1, -LargestTap - 1>>, <<-LargestTap - 1, LargestTap>>, <<1, -1>>}
LargestSum == 2 ^ (AccumulatorWidth - 1) - 1
ExtremeSums == {0, -LargestSum - 1, LargestSum}

\* Sizes that differ from one dimension to the next.
DistinctSizes == <<2, 3, 2, 3, 2>>

fixedPoint == INSTANCE FixedPoint
mac == INSTANCE MacArithmetic WITH Taps <- ExtremeTaps, Acc0 <- ExtremeSums
kernel == INSTANCE ReferenceKernels WITH FullShape <- DistinctSizes

ASSUME WidthAssumption == fixedPoint!WidthAssumption
ASSUME WidthsAssumption == mac!WidthsAssumption
ASSUME SizesAssumption == kernel!SizesAssumption

fixedPointVars == <<x, y, valid, rounded, product>>
macVars == <<useHwMultiplier, taps, acc0, depth, sums, acc>>
kernelVars == <<task, output>>
vars == <<computation, fixedPointVars, macVars, kernelVars>>

Off == "off"

FixedPointOff == x = Off /\ y = Off /\ valid = Off /\ rounded = Off /\ product = Off
MacOff ==
    /\ useHwMultiplier = Off /\ taps = Off /\ acc0 = Off
    /\ depth = Off /\ sums = Off /\ acc = Off
KernelOff == task = Off /\ output = Off

Init ==
    \/ computation = "fixed_point" /\ fixedPoint!Init /\ MacOff /\ KernelOff
    \/ computation = "mac" /\ FixedPointOff /\ mac!Init /\ KernelOff
    \/ computation = "kernel" /\ FixedPointOff /\ MacOff /\ kernel!Init

FixedPointNext ==
    /\ computation = "fixed_point" /\ fixedPoint!ClockEdge
    /\ UNCHANGED <<computation, macVars, kernelVars>>
MacNext ==
    /\ computation = "mac" /\ mac!Next
    /\ UNCHANGED <<computation, fixedPointVars, kernelVars>>
KernelNext ==
    /\ computation = "kernel" /\ kernel!Next
    /\ UNCHANGED <<computation, fixedPointVars, macVars>>

Next == FixedPointNext \/ MacNext \/ KernelNext

Spec == Init /\ [][Next]_vars

-----------------------------------------------------------------------------
(* What is checked of each.                                                *)

\* RoundingDivideByPOT rounds to the nearest, ties away from zero
\* (math/Utils.scala:8), and SaturatingRoundingDoublingHighMul rounds the exact
\* product to the nearest number of its range (math/Utils.scala:38), for every
\* pair of operands: like gemmlowp's function, except that of two nearest
\* numbers it takes the lower one if the product is negative.
FixedPointIsNearest ==
    computation = "fixed_point" =>
        /\ fixedPoint!DivisionIsNearest
        /\ fixedPoint!HighMulIsNearestInRange
        /\ fixedPoint!HighMulIsGemmlowpButForTies

\* The staged sums of Mac8x9 and AdderTreex9 are the dot product.
ResultIsDotProduct == computation = "mac" => mac!ResultIsDotProduct

\* Convolutions, transposed convolutions and fully connected layers add up
\* exactly the products their geometry gives them, pooling goes over what lies
\* under the window (reference/conv.h:25, reference/pooling.h:26).
LayersAreRight == computation = "kernel" => kernel!LayersAreRight

\* Elementwise kernels combine the operands broadcasting gives them, each with
\* its own parameters (reference/add.h:350).
ElementsAreRight == computation = "kernel" => kernel!ElementsAreRight

\* Kernels that move or reduce elements take them from where they belong
\* (reference/reduce.h:33, strided_slice_logic.h:75).
TensorsAreRight == computation = "kernel" => kernel!TensorsAreRight
=============================================================================
