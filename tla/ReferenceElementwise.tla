-------------------------- MODULE ReferenceElementwise --------------------------
(***************************************************************************)
(* The reference kernels that combine two tensors element by element       *)
(* (add.h, sub.h, mul.h, comparisons.h, maximum_minimum.h, prelu.h,        *)
(* binary_function.h of kernels/internal/reference/, and integer_ops/),    *)
(* with the three ways they broadcast.                                     *)
(*                                                                         *)
(* What a kernel computes is kept as the elements it takes: the result is, *)
(* for each round of its loops, the element that is written and the two    *)
(* operands, in the order the operation has them.  An operand says where   *)
(* it comes from and what is done to it before, and with the parameters of *)
(* which input.  The operation and the clamping are left out.              *)
(***************************************************************************)
EXTENDS ReferenceShapes

\* The element a pointer into an input is at.
Pointer(input, at) == [input |-> input, at |-> at]

Operand(ptr, how, params) == [input |-> ptr.input, at |-> ptr.at, how |-> how, params |-> params]

\* As it is; with the offset of the input; with its offset, the common left
\* shift, and its multiplier and shift; divided by a power of two.
Raw(ptr) == Operand(ptr, <<"raw">>, ptr.input)
Moved(ptr, params) == Operand(ptr, <<"moved">>, params)
Rescaled(ptr, params) == Operand(ptr, <<"rescaled">>, params)
Divided(ptr, bits) == Operand(ptr, <<"divided", bits>>, ptr.input)

Write(at, left, right) == [at |-> at, left |-> left, right |-> right]

Raws(i, ptr1, ptr2) == Write(i, Raw(ptr1), Raw(ptr2))
Moveds(i, ptr1, ptr2) == Write(i, Moved(ptr1, 1), Moved(ptr2, 2))
\* Mutant: only the first input is brought to the common scale.
RescaledsFirst(i, ptr1, ptr2) == Write(i, Rescaled(ptr1, 1), Raw(ptr2))

Rescaleds(i, ptr1, ptr2) == Write(i, Rescaled(ptr1, 1), Rescaled(ptr2, 2))

-----------------------------------------------------------------------------
(* The loops.                                                              *)

\* One loop over inputs of the same number of elements.
FlatLoop(p, Element(_, _, _)) ==
    [i \in Below(MatchingFlatSize(p.input1_shape)) |-> Element(i, Pointer(1, i), Pointer(2, i))]

\* Four nested loops over the output.
Broadcast4D(p, Element(_, _, _)) ==
    LET descs == NdArrayDescsForElementwiseBroadcast(4, p.input1_shape, p.input2_shape)
        extended_output_shape == ExtendedShape(4, p.output_shape)
    IN  [i \in LoopIndices(extended_output_shape) |->
            Element(Offset(extended_output_shape, i[1], i[2], i[3], i[4]),
                    Pointer(1, SubscriptToIndex(descs.desc0, i)),
                    Pointer(2, SubscriptToIndex(descs.desc1, i)))]

\* NDOpsHelper over the description of the output.
BroadcastND(n, p, Element(_, _, _)) ==
    LET descs == NdArrayDescsForElementwiseBroadcast(n, p.input1_shape, p.input2_shape)
        output_desc == CopyDimsToDesc(ExtendedShape(n, p.output_shape))
    IN  [i \in LoopIndices(output_desc.extents) |->
            Element(SubscriptToIndex(output_desc, i),
                    Pointer(1, SubscriptToIndex(descs.desc0, i)),
                    Pointer(2, SubscriptToIndex(descs.desc1, i)))]

-----------------------------------------------------------------------------
(* add.h                                                                   *)

AddT(p) == FlatLoop(p, Raws)
AddFloat(p) == FlatLoop(p, Raws)

\* The elements from two pointers on; the inputs have their own parameters,
\* unless the caller has exchanged them.
AddElementwise(size, params, ptr1, ptr2, output_ptr) ==
    [i \in Below(size) |->
        Write(output_ptr + i, Rescaled(Pointer(ptr1.input, ptr1.at + i), params[1]),
                              Rescaled(Pointer(ptr2.input, ptr2.at + i), params[2])) ]

AddScalarBroadcast(size, params, ptr1, ptr2, output_ptr) ==
    [i \in Below(size) |->
        Write(output_ptr + i, Rescaled(ptr1, params[1]),
                              Rescaled(Pointer(ptr2.input, ptr2.at + i), params[2]))]

AddUint8(p) ==
    AddElementwise(MatchingFlatSize(p.input1_shape), <<1, 2>>, Pointer(1, 0), Pointer(2, 0), 0)

AddGeneralParamScale(p) ==
    AddElementwise(MatchingFlatSize(p.input1_shape), <<1, 2>>, Pointer(1, 0), Pointer(2, 0), 0)

\* Powers of two as scales: one of the inputs is not shifted.
AddInt16(p) ==
    LET input1_shifted == p.input1_shift # 0
        input_right_shift == IF input1_shifted THEN -p.input1_shift ELSE -p.input2_shift
    IN  IF ~p.pot_scale THEN AddGeneralParamScale(p)
        ELSE FlatLoop(p, LAMBDA i, ptr1, ptr2 :
                 Write(i, Divided(IF input1_shifted THEN ptr1 ELSE ptr2, input_right_shift),
                          Divided(IF input1_shifted THEN ptr2 ELSE ptr1, 0)))

BroadcastAdd4DSlowFloat(p) == Broadcast4D(p, Raws)
BroadcastAdd4DSlowInt32(p) == Broadcast4D(p, Raws)
BroadcastAdd4DSlowT(p) == Broadcast4D(p, Rescaleds)

\* Mutant: the inputs are exchanged and their parameters are not.
FivefoldParamsUnswitched(first) == <<1, 2>>

FivefoldParams(first) == IF first = 1 THEN <<1, 2>> ELSE <<2, 1>>

\* y0, y2 and y4 are shared by the inputs, the second one is repeated over
\* y1 and the first one over y3.  The code moves pointers along: the first
\* input's for every section, the second input's back to where it was at
\* the beginning of a round of y1; here each pointer is what it has become.
FivefoldLoops(shape, first) ==
    LET params == FivefoldParams(first)
        y(k) == shape[k + 1]
        outer == Below(y(0)) \X Below(y(1)) \X Below(y(2))
        sections(o) == (o[1] * y(1) + o[2]) * y(2) + o[3]
        input1_data_ptr(o) == Pointer(first, sections(o) * y(4))
        input2_data_ptr(o, i3) == Pointer(3 - first, ((o[1] * y(2) + o[3]) * y(3) + i3) * y(4))
        output_data_ptr(o, i3) == (sections(o) * y(3) + i3) * y(4)
    IN  IF y(4) > 1
        THEN [l \in outer \X Below(y(3)) \X Below(y(4)) |->
                 AddElementwise(y(4), params, input1_data_ptr(l[1]), input2_data_ptr(l[1], l[2]),
                                output_data_ptr(l[1], l[2]))[l[3]]]
        ELSE [l \in outer \X Below(y(3)) |->
                 AddScalarBroadcast(y(3), params, input1_data_ptr(l[1]), input2_data_ptr(l[1], 0),
                                    output_data_ptr(l[1], 0))[l[2]]]

BroadcastAddFivefold(p) ==
    LET pattern == ProcessBroadcastShapes(p.input1_shape, p.input2_shape)
    IN  FivefoldLoops(pattern.shape, IF pattern.category = "kFirstInputBroadcastsFast" THEN 1 ELSE 2)

(* integer_ops/add.h: the loops with a function for the element.           *)

AddFunc(i, x, y) == Rescaleds(i, x, y)

ElementWiseInt8(p, binary_func(_, _, _)) == FlatLoop(p, binary_func)
AddElementwiseInt8(p) == ElementWiseInt8(p, AddFunc)
AddInt8(p) == AddElementwiseInt8(p)
BroadcastBinaryFunction4DSlowInt8(p, binary_func(_, _, _)) == Broadcast4D(p, binary_func)
BroadcastAdd4DSlowInt8(p) == BroadcastBinaryFunction4DSlowInt8(p, AddFunc)

-----------------------------------------------------------------------------
(* sub.h                                                                   *)

SubNonBroadcastFloat(p) == FlatLoop(p, Raws)
SubNonBroadcastInt32(p) == FlatLoop(p, Raws)
BroadcastSubSlowFloat(p) == BroadcastND(5, p, Raws)
BroadcastSubSlowUint8(p) == BroadcastND(5, p, Rescaleds)
BroadcastSubSlowInt32(p) == BroadcastND(5, p, Raws)
BroadcastSubSlowInt8(p) == BroadcastND(5, p, Rescaleds)
BroadcastSubSlowInt64(p) == BroadcastND(5, p, Raws)
BroadcastSubSlowT(p) == BroadcastND(5, p, Raws)

BroadcastSub16POTSlow(p) ==
    BroadcastND(5, p, LAMBDA i, ptr1, ptr2 :
        Write(i, Divided(ptr1, -p.input1_shift), Divided(ptr2, -p.input2_shift)))

SubElementwiseUint8(p) == FlatLoop(p, Rescaleds)
SubElementwiseInt8(p) == FlatLoop(p, Rescaleds)
SubUint8(p) == SubElementwiseUint8(p)
SubInt8(p) == SubElementwiseInt8(p)
SubT(p) == Broadcast4D(p, Raws)
SubWithActivation(p) == FlatLoop(p, Raws)

-----------------------------------------------------------------------------
(* mul.h and integer_ops/mul.h                                             *)

MulElementwise(p) == FlatLoop(p, Moveds)
MulT(p) == FlatLoop(p, Raws)
MulUint8(p) == MulElementwise(p)
BroadcastMul4DSlowUint8(p) == Broadcast4D(p, Moveds)
BroadcastMul4DSlowT(p) == Broadcast4D(p, Raws)

MulElementwiseInt(p) == FlatLoop(p, Moveds)
MulInt(p) == MulElementwiseInt(p)
MulInt16ToInt8(p) == FlatLoop(p, Raws)
BroadcastMul4DSlowInt(p) == Broadcast4D(p, Moveds)

-----------------------------------------------------------------------------
(* comparisons.h                                                           *)

ComparisonImpl(p) == FlatLoop(p, Raws)
Comparison(p) == ComparisonImpl(p)
ComparisonWithScaling(p) == FlatLoop(p, Rescaleds)

BroadcastComparison4DSlowImpl(p) == Broadcast4D(p, Raws)
BroadcastComparison4DSlow(p) == BroadcastComparison4DSlowImpl(p)
BroadcastComparison4DSlowWithScaling(p) == Broadcast4D(p, Rescaleds)

\* TFLITE_COMPARISON_OP makes these for each of the six comparisons.
Equal(p) == Comparison(p)
EqualNoScaling(p) == ComparisonImpl(p)
EqualWithScaling(p) == ComparisonWithScaling(p)
Broadcast4DSlowEqualNoScaling(p) == BroadcastComparison4DSlowImpl(p)
Broadcast4DSlowEqual(p) == BroadcastComparison4DSlow(p)
Broadcast4DSlowEqualWithScaling(p) == BroadcastComparison4DSlowWithScaling(p)

-----------------------------------------------------------------------------
(* binary_function.h, maximum_minimum.h and prelu.h                        *)

BroadcastBinaryFunction4DSlow(p) == Broadcast4D(p, Raws)
BinaryFunction(p) == FlatLoop(p, Raws)

MaximumMinimumBroadcastSlow(p) ==
    IF p.input1_shape = p.input2_shape THEN FlatLoop(p, Raws) ELSE BroadcastND(5, p, Raws)

\* The second input is alpha, which matters where the first is negative.
BroadcastPrelu4DSlow(p) == Broadcast4D(p, Moveds)
Prelu(p) == FlatLoop(p, Moveds)
=============================================================================
