---------------------------- MODULE ReferenceLayers ----------------------------
(***************************************************************************)
(* The reference kernels of the layers of a network: convolutions, fully   *)
(* connected layers and pooling (kernels/internal/reference/ and           *)
(* reference/integer_ops/ of TensorFlow Lite).                             *)
(*                                                                         *)
(* What a kernel computes is kept as the elements it takes: the result is, *)
(* for each round of its outer loops, the element that is written and      *)
(* what goes into it.  `products` are the pairs of elements its inner      *)
(* loops multiply and add up, `offsets` the zero points they are moved by  *)
(* before, `bias` the element of the bias that is added, `scale` the       *)
(* multiplier the sum is scaled with; `shifted` says whether the offset of *)
(* the output is added to that.  Every kernel clamps last, which is left   *)
(* out.  An index of loops is the tuple of their counters, outermost       *)
(* first.                                                                  *)
(***************************************************************************)
EXTENDS ReferenceShapes, FiniteSets

CONSTANT SmallSum   \* the greatest sum an average is kept for

BiasOf(p, channel) == IF p.has_bias THEN {channel} ELSE {}

\* Single floats need no scaling.
FloatResult(products, bias) ==
    [products |-> products, offsets |-> {}, bias |-> bias, scale |-> <<>>, shifted |-> FALSE]

ScaledResult(products, offsets, bias, scale, shifted) ==
    [products |-> products, offsets |-> offsets, bias |-> bias, scale |-> scale,
     shifted |-> shifted]

PerTensor == <<"output_multiplier">>
PerChannel(channel) == <<"output_multiplier", channel>>
Hybrid(channel, batch) == <<"per_channel_scale", channel, "scaling_factors", batch>>

-----------------------------------------------------------------------------
(* conv.h and integer_ops/conv.h.                                          *)

\* The products of output i = <<batch, out_y, out_x, out_channel>>: zero
\* padding by omitting the areas outside the image.
ConvProducts(p, i) ==
    LET in_y(f) == i[2] * p.stride_height - p.pad_height + p.dilation_height_factor * f[1]
        in_x(f) == i[3] * p.stride_width - p.pad_width + p.dilation_width_factor * f[2]
        is_point_inside_image(f) ==
            /\ in_x(f) >= 0 /\ in_x(f) < p.input_shape[3]
            /\ in_y(f) >= 0 /\ in_y(f) < p.input_shape[2]
        input_depth == MatchingDim(p.input_shape, 4, p.filter_shape, 4)
        filter == Below(p.filter_shape[2]) \X Below(p.filter_shape[3]) \X Below(input_depth)
    IN  [f \in {f \in filter : is_point_inside_image(f)} |->
            [input |-> Offset(p.input_shape, i[1], in_y(f), in_x(f), f[3]),
             filter |-> Offset(p.filter_shape, i[4], f[1], f[2], f[3])]]

ConvOutputs(p, Result(_)) ==
    LET batches == MatchingDim(p.input_shape, 1, p.output_shape, 1)
        output_depth == MatchingDim(p.filter_shape, 1, p.output_shape, 4)
    IN  [i \in Below(batches) \X Below(p.output_shape[2]) \X Below(p.output_shape[3])
                 \X Below(output_depth) |->
            [at |-> Offset(p.output_shape, i[1], i[2], i[3], i[4]), result |-> Result(i)]]

ConvFloat(p) ==
    ConvOutputs(p, LAMBDA i : FloatResult(ConvProducts(p, i), BiasOf(p, i[4])))

ConvUint8(p) ==
    ConvOutputs(p, LAMBDA i :
        ScaledResult(ConvProducts(p, i), {"input_offset", "filter_offset"},
                     BiasOf(p, i[4]), PerTensor, TRUE))

\* The zero point of the input is one of its batch; it is subtracted, where
\* the offsets of the other kernels are negative zero points.
HybridConvPerChannel(p) ==
    ConvOutputs(p, LAMBDA i :
        ScaledResult(ConvProducts(p, i), {<<"input_offset", i[1]>>},
                     BiasOf(p, i[4]), Hybrid(i[4], i[1]), FALSE))

ConvPerChannelInt8(p) ==
    ConvOutputs(p, LAMBDA i :
        ScaledResult(ConvProducts(p, i), {"input_offset"},
                     BiasOf(p, i[4]), PerChannel(i[4]), TRUE))

ConvPerChannelInt16(p) ==
    ConvOutputs(p, LAMBDA i :
        ScaledResult(ConvProducts(p, i), {}, BiasOf(p, i[4]), PerChannel(i[4]), FALSE))

-----------------------------------------------------------------------------
(* depthwiseconv_float.h, depthwiseconv_uint8.h, integer_ops/              *)
(* depthwise_conv.h: i = <<batch, out_y, out_x, in_channel, m>>.           *)

\* Mutant: the multiples of a channel are as far apart as the channels are many.
DepthwiseOutputChannelInterleaved(p, i) == i[4] + i[5] * p.input_shape[4]

DepthwiseOutputChannel(p, i) == i[5] + i[4] * p.depth_multiplier

DepthwiseProducts(p, i) ==
    LET in_y(f) == i[2] * p.stride_height - p.pad_height + p.dilation_height_factor * f[1]
        in_x(f) == i[3] * p.stride_width - p.pad_width + p.dilation_width_factor * f[2]
        is_point_inside_image(f) ==
            /\ in_x(f) >= 0 /\ in_x(f) < p.input_shape[3]
            /\ in_y(f) >= 0 /\ in_y(f) < p.input_shape[2]
        filter == Below(p.filter_shape[2]) \X Below(p.filter_shape[3])
    IN  [f \in {f \in filter : is_point_inside_image(f)} |->
            [input |-> Offset(p.input_shape, i[1], in_y(f), in_x(f), i[4]),
             filter |-> Offset(p.filter_shape, 0, f[1], f[2], DepthwiseOutputChannel(p, i))]]

DepthwiseOutputs(p, Result(_, _)) ==
    LET batches == MatchingDim(p.input_shape, 1, p.output_shape, 1)
    IN  [i \in Below(batches) \X Below(p.output_shape[2]) \X Below(p.output_shape[3])
                 \X Below(p.input_shape[4]) \X Below(p.depth_multiplier) |->
            LET oc == DepthwiseOutputChannel(p, i)
            IN  [at |-> Offset(p.output_shape, i[1], i[2], i[3], oc), result |-> Result(i, oc)]]

DepthwiseConvFloat(p) ==
    DepthwiseOutputs(p, LAMBDA i, oc : FloatResult(DepthwiseProducts(p, i), BiasOf(p, oc)))

DepthwiseConvUint8(p) ==
    DepthwiseOutputs(p, LAMBDA i, oc :
        ScaledResult(DepthwiseProducts(p, i), {"input_offset", "filter_offset"},
                     BiasOf(p, oc), PerTensor, TRUE))

\* DepthwiseConvBasicKernel::RunPerChannel
RunPerChannel(p) ==
    DepthwiseOutputs(p, LAMBDA i, oc :
        ScaledResult(DepthwiseProducts(p, i), {"input_offset"},
                     BiasOf(p, oc), PerChannel(oc), TRUE))

DepthwiseConvPerChannelInt8(p) ==
    DepthwiseOutputs(p, LAMBDA i, oc :
        ScaledResult(DepthwiseProducts(p, i), {"input_offset"},
                     BiasOf(p, oc), PerChannel(oc), TRUE))

DepthwiseConvPerChannelInt16(p) ==
    DepthwiseOutputs(p, LAMBDA i, oc :
        ScaledResult(DepthwiseProducts(p, i), {}, BiasOf(p, oc), PerChannel(oc), FALSE))

DepthwiseConvHybridPerChannel(p) ==
    DepthwiseOutputs(p, LAMBDA i, oc :
        ScaledResult(DepthwiseProducts(p, i), {<<"input_offset", i[1]>>},
                     BiasOf(p, oc), Hybrid(oc, i[1]), FALSE))

-----------------------------------------------------------------------------
(* transpose_conv.h and integer_ops/transpose_conv.h: each input is        *)
(* scattered over the outputs it influences, into zeroed sums; then the    *)
(* outputs are gone through once more.                                     *)

\* i = <<batch, in_y, in_x, in_channel, filter_y, filter_x, out_channel>>
ScatteredProducts(p) ==
    LET batches == MatchingDim(p.input_shape, 1, p.output_shape, 1)
        input_depth == MatchingDim(p.input_shape, 4, p.filter_shape, 4)
        output_depth == MatchingDim(p.filter_shape, 1, p.output_shape, 4)
        out_y(i) == i[2] * p.stride_height - p.pad_height + i[5]
        out_x(i) == i[3] * p.stride_width - p.pad_width + i[6]
        InBounds(i) == /\ out_x(i) >= 0 /\ out_x(i) < p.output_shape[3]
                       /\ out_y(i) >= 0 /\ out_y(i) < p.output_shape[2]
        loops == Below(batches) \X Below(p.input_shape[2]) \X Below(p.input_shape[3])
                   \X Below(input_depth) \X Below(p.filter_shape[2]) \X Below(p.filter_shape[3])
                   \X Below(output_depth)
    IN  [i \in {i \in loops : InBounds(i)} |->
            [at |-> Offset(p.output_shape, i[1], out_y(i), out_x(i), i[7]),
             input |-> Offset(p.input_shape, i[1], i[2], i[3], i[4]),
             filter |-> Offset(p.filter_shape, i[7], i[5], i[6], i[4])]]

TransposeOutputs(p, Result(_, _)) ==
    LET scattered == ScatteredProducts(p)
        Sum(at) == [i \in {i \in DOMAIN scattered : scattered[i].at = at} |->
                       [input |-> scattered[i].input, filter |-> scattered[i].filter]]
    IN  ConvOutputs(p, LAMBDA i :
            Result(i, Sum(Offset(p.output_shape, i[1], i[2], i[3], i[4]))))

TransposeConvFloat(p) ==
    TransposeOutputs(p, LAMBDA i, sum : FloatResult(sum, BiasOf(p, i[4])))

TransposeConvUint8(p) ==
    TransposeOutputs(p, LAMBDA i, sum :
        ScaledResult(sum, {"input_offset", "filter_offset"}, BiasOf(p, i[4]), PerTensor, TRUE))

TransposeConvInt8(p) ==
    TransposeOutputs(p, LAMBDA i, sum :
        ScaledResult(sum, {"input_offset"}, BiasOf(p, i[4]), PerChannel(i[4]), TRUE))

TransposeConvInt16(p) ==
    TransposeOutputs(p, LAMBDA i, sum :
        ScaledResult(sum, {}, BiasOf(p, i[4]), PerChannel(i[4]), FALSE))

-----------------------------------------------------------------------------
(* fully_connected.h and integer_ops/fully_connected.h: i = <<b, out_c>>.  *)

FullyConnectedProducts(accum_depth, i) ==
    [d \in Below(accum_depth) |->
        [input |-> i[1] * accum_depth + d, filter |-> i[2] * accum_depth + d]]

\* All sizes of the output but the last are batches.
FullyConnectedOutputs(p, Result(_, _)) ==
    LET batches == FlatSizeSkipDim(p.output_shape, Len(p.output_shape))
        filter_dim_count == Len(p.filter_shape)
        output_depth == MatchingDim(p.filter_shape, filter_dim_count - 1,
                                    p.output_shape, Len(p.output_shape))
        accum_depth == p.filter_shape[filter_dim_count]
    IN  [i \in Below(batches) \X Below(output_depth) |->
            [at |-> i[2] + output_depth * i[1],
             result |-> Result(i, FullyConnectedProducts(accum_depth, i))]]

\* The kernels of integers take outputs of two dimensions.
FullyConnectedOutputs2D(p, Result(_, _)) ==
    LET accum_depth == p.filter_shape[Len(p.filter_shape)]
    IN  [i \in Below(p.output_shape[1]) \X Below(p.output_shape[2]) |->
            [at |-> i[2] + p.output_shape[2] * i[1],
             result |-> Result(i, FullyConnectedProducts(accum_depth, i))]]

FullyConnectedFloat(p) ==
    FullyConnectedOutputs(p, LAMBDA i, sum : FloatResult(sum, BiasOf(p, i[2])))

FullyConnectedUint8(p) ==
    FullyConnectedOutputs(p, LAMBDA i, sum :
        ScaledResult(sum, {"input_offset", "filter_offset"}, BiasOf(p, i[2]), PerTensor, TRUE))

\* The sum begins with the bias, which has to be there.
FullyConnectedUint8ToInt16(p) ==
    FullyConnectedOutputs(p, LAMBDA i, sum :
        ScaledResult(sum, {"input_offset", "filter_offset"}, {i[2]}, PerTensor, TRUE))

FullyConnectedInt8(p) ==
    FullyConnectedOutputs2D(p, LAMBDA i, sum :
        ScaledResult(sum, {"input_offset", "filter_offset"}, BiasOf(p, i[2]), PerTensor, TRUE))

FullyConnectedInt16(p) ==
    FullyConnectedOutputs2D(p, LAMBDA i, sum :
        ScaledResult(sum, {"filter_offset"}, BiasOf(p, i[2]), PerTensor, FALSE))

\* The workspace: the input with its sign bits flipped, four batches woven
\* together in runs of 16.  Filled at a pointer that is only moved up.
ShuffledInput(p, batches, accum_depth) ==
    IF batches = 1 THEN [i \in Below(accum_depth) |-> i]
    ELSE [ptr \in Below(4 * accum_depth) |->
             LET c == 16 * (ptr \div 64)
                 b == (ptr % 64) \div 16
             IN  b * accum_depth + c + (ptr % 16)]

\* Four channels at a time; the shuffled weights are read at a pointer that
\* goes on over all of them.  Nothing is done for other numbers of batches.
ShuffledFullyConnected(p) ==
    LET batches == FlatSizeSkipDim(p.output_shape, Len(p.output_shape))
        weights_dim_count == Len(p.filter_shape)
        output_depth == MatchingDim(p.filter_shape, weights_dim_count - 1,
                                    p.output_shape, Len(p.output_shape))
        accum_depth == p.filter_shape[weights_dim_count]
        workspace == ShuffledInput(p, batches, accum_depth)
        Fours == {c \in Below(output_depth) : c % 4 = 0}
        Sixteens == {d \in Below(accum_depth) : d % 16 = 0}
        weights_ptr(c, d) == c * accum_depth + 4 * d
        Sum(c, i, b) ==
            [l \in Sixteens \X Below(16) |->
                [input |-> IF batches = 1 THEN workspace[l[1] + l[2]]
                           ELSE workspace[4 * l[1] + 16 * b + l[2]],
                 filter |-> weights_ptr(c, l[1]) + 16 * i + l[2]]]
    IN  [l \in IF batches \in {1, 4} THEN Fours \X Below(4) \X Below(batches) ELSE {} |->
            [at |-> l[3] * output_depth + l[1] + l[2],
             result |-> ScaledResult(Sum(l[1], l[2], l[3]), {"input_offset", "filter_offset"},
                                     {l[1] + l[2]}, PerTensor, FALSE)]]

-----------------------------------------------------------------------------
(* pooling.h and integer_ops/pooling.h: i = <<batch, out_y, out_x,         *)
(* channel>>; the window is cut off at the borders of the input.           *)

\* Mutant: the beginning of the window is not cut off.
WindowElementsUncut(p, i) ==
    LET in_x_origin == i[3] * p.stride_width - p.pad_width
        in_y_origin == i[2] * p.stride_height - p.pad_height
        filter_x_end == Smaller(p.filter_shape[3], p.input_shape[3] - in_x_origin)
        filter_y_end == Smaller(p.filter_shape[2], p.input_shape[2] - in_y_origin)
    IN  [f \in Below(filter_y_end) \X Below(filter_x_end) |->
            Offset(p.input_shape, i[1], in_y_origin + f[1], in_x_origin + f[2], i[4])]

WindowElements(p, i) ==
    LET in_x_origin == i[3] * p.stride_width - p.pad_width
        in_y_origin == i[2] * p.stride_height - p.pad_height
        filter_x_start == Larger(0, -in_x_origin)
        filter_x_end == Smaller(p.filter_shape[3], p.input_shape[3] - in_x_origin)
        filter_y_start == Larger(0, -in_y_origin)
        filter_y_end == Smaller(p.filter_shape[2], p.input_shape[2] - in_y_origin)
    IN  [f \in (filter_y_start .. filter_y_end - 1) \X (filter_x_start .. filter_x_end - 1) |->
            Offset(p.input_shape, i[1], in_y_origin + f[1], in_x_origin + f[2], i[4])]

PoolOutputs(p, Result(_)) ==
    LET batches == MatchingDim(p.input_shape, 1, p.output_shape, 1)
        depth == MatchingDim(p.input_shape, 4, p.output_shape, 4)
    IN  [i \in Below(batches) \X Below(p.output_shape[2]) \X Below(p.output_shape[3])
                 \X Below(depth) |->
            [at |-> Offset(p.output_shape, i[1], i[2], i[3], i[4]),
             result |-> Result(WindowElements(p, i))]]

\* filter_count is counted next to the sum.  An average is kept as what the
\* kernel makes of small sums; the averages of floats are exact.
AverageOf(window, sums, Average(_, _)) ==
    LET filter_count == Cardinality(DOMAIN window)
    IN  [window |-> window, averages |-> [acc \in sums |-> Average(acc, filter_count)]]

\* Begins with the least value of the type, which an empty window would keep.
MaximumOf(window) == [window |-> window, averages |-> <<>>]

\* Mutant: the same for sums of either sign.
RoundedAverageOneSided(acc, filter_count) == Quotient(acc + filter_count \div 2, filter_count)

RoundedUpAverage(acc, filter_count) == Quotient(acc + filter_count \div 2, filter_count)

RoundedAverage(acc, filter_count) ==
    IF acc > 0 THEN Quotient(acc + filter_count \div 2, filter_count)
    ELSE Quotient(acc - filter_count \div 2, filter_count)

AveragePoolFloat(p) == PoolOutputs(p, LAMBDA window : AverageOf(window, {}, RoundedAverage))

\* Sums of unsigned elements.
AveragePoolUint8(p) ==
    PoolOutputs(p, LAMBDA window : AverageOf(window, 0 .. SmallSum, RoundedUpAverage))

\* The root of the average of the squares.
L2Pool(p) == PoolOutputs(p, LAMBDA window : AverageOf(window, {}, RoundedAverage))

AveragePoolInt8(p) ==
    PoolOutputs(p, LAMBDA window : AverageOf(window, -SmallSum .. SmallSum, RoundedAverage))

AveragePoolInt16(p) ==
    PoolOutputs(p, LAMBDA window : AverageOf(window, -SmallSum .. SmallSum, RoundedAverage))

MaxPoolFloat(p) == PoolOutputs(p, MaximumOf)
MaxPoolUint8(p) == PoolOutputs(p, MaximumOf)
MaxPoolInt8(p) == PoolOutputs(p, MaximumOf)
MaxPoolInt16(p) == PoolOutputs(p, MaximumOf)
=============================================================================
