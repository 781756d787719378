---------------------------- MODULE ReferenceKernels ----------------------------
(***************************************************************************)
(* One call of a reference kernel: the shapes are chosen as the operators  *)
(* that call it would have prepared them, and the kernel's elements are    *)
(* worked out in one step.                                                 *)
(***************************************************************************)
EXTENDS ReferenceLayers, ReferenceElementwise, ReferenceTensors

CONSTANTS
    Images, Filters, Strides, Dilations,    \* the sizes of one dimension of a window
    FullShape                               \* the sizes tensors have where they are not 1

\* The dimensions that are not varied are of an image of 3 under a filter of 2.
SizesAssumption ==
    /\ Images \subseteq Nat \ {0} /\ 3 \in Images
    /\ Filters \subseteq Nat \ {0} /\ 2 \in Filters
    /\ Strides \subseteq Nat \ {0} /\ 1 \in Strides
    /\ Dilations \subseteq Nat \ {0} /\ 1 \in Dilations
    /\ SmallSum \in Nat

VARIABLES task, output

vars == <<task, output>>

\* A result, once there is one.
NotRun == <<>>
elements == output[1]

-----------------------------------------------------------------------------
(* The kernels.                                                            *)

ConvKernels == {"ConvFloat", "ConvUint8", "HybridConvPerChannel", "ConvPerChannelInt8",
                "ConvPerChannelInt16"}
DepthwiseKernels == {"DepthwiseConvFloat", "DepthwiseConvUint8", "RunPerChannel",
                     "DepthwiseConvPerChannelInt8", "DepthwiseConvPerChannelInt16",
                     "DepthwiseConvHybridPerChannel"}
TransposeKernels == {"TransposeConvFloat", "TransposeConvUint8", "TransposeConvInt8",
                     "TransposeConvInt16"}
AverageKernels == {"AveragePoolFloat", "AveragePoolUint8", "AveragePoolInt8",
                   "AveragePoolInt16", "L2Pool"}
MaximumKernels == {"MaxPoolFloat", "MaxPoolUint8", "MaxPoolInt8", "MaxPoolInt16"}
PoolKernels == AverageKernels \cup MaximumKernels
FullyConnectedKernels == {"FullyConnectedFloat", "FullyConnectedUint8",
                          "FullyConnectedUint8ToInt16", "FullyConnectedInt8",
                          "FullyConnectedInt16", "ShuffledFullyConnected"}

WindowKernels == ConvKernels \cup DepthwiseKernels \cup TransposeKernels \cup PoolKernels

Layer(kernel, p) ==
    CASE kernel = "ConvFloat" -> ConvFloat(p)
      [] kernel = "ConvUint8" -> ConvUint8(p)
      [] kernel = "HybridConvPerChannel" -> HybridConvPerChannel(p)
      [] kernel = "ConvPerChannelInt8" -> ConvPerChannelInt8(p)
      [] kernel = "ConvPerChannelInt16" -> ConvPerChannelInt16(p)
      [] kernel = "DepthwiseConvFloat" -> DepthwiseConvFloat(p)
      [] kernel = "DepthwiseConvUint8" -> DepthwiseConvUint8(p)
      [] kernel = "RunPerChannel" -> RunPerChannel(p)
      [] kernel = "DepthwiseConvPerChannelInt8" -> DepthwiseConvPerChannelInt8(p)
      [] kernel = "DepthwiseConvPerChannelInt16" -> DepthwiseConvPerChannelInt16(p)
      [] kernel = "DepthwiseConvHybridPerChannel" -> DepthwiseConvHybridPerChannel(p)
      [] kernel = "TransposeConvFloat" -> TransposeConvFloat(p)
      [] kernel = "TransposeConvUint8" -> TransposeConvUint8(p)
      [] kernel = "TransposeConvInt8" -> TransposeConvInt8(p)
      [] kernel = "TransposeConvInt16" -> TransposeConvInt16(p)
      [] kernel = "FullyConnectedFloat" -> FullyConnectedFloat(p)
      [] kernel = "FullyConnectedUint8" -> FullyConnectedUint8(p)
      [] kernel = "FullyConnectedUint8ToInt16" -> FullyConnectedUint8ToInt16(p)
      [] kernel = "FullyConnectedInt8" -> FullyConnectedInt8(p)
      [] kernel = "FullyConnectedInt16" -> FullyConnectedInt16(p)
      [] kernel = "ShuffledFullyConnected" -> ShuffledFullyConnected(p)
      [] kernel = "AveragePoolFloat" -> AveragePoolFloat(p)
      [] kernel = "AveragePoolUint8" -> AveragePoolUint8(p)
      [] kernel = "AveragePoolInt8" -> AveragePoolInt8(p)
      [] kernel = "AveragePoolInt16" -> AveragePoolInt16(p)
      [] kernel = "L2Pool" -> L2Pool(p)
      [] kernel = "MaxPoolFloat" -> MaxPoolFloat(p)
      [] kernel = "MaxPoolUint8" -> MaxPoolUint8(p)
      [] kernel = "MaxPoolInt8" -> MaxPoolInt8(p)
      [] kernel = "MaxPoolInt16" -> MaxPoolInt16(p)

\* By the loops they have: the operands match, or are broadcast over four
\* dimensions, five, or either after a look at the shapes.
FlatKernels == {"AddT", "AddFloat", "AddUint8", "AddInt16", "AddInt8", "SubNonBroadcastFloat",
                "SubNonBroadcastInt32", "SubUint8", "SubInt8", "SubWithActivation", "MulT",
                "MulUint8", "MulInt", "MulInt16ToInt8", "Equal", "EqualNoScaling",
                "EqualWithScaling", "BinaryFunction", "Prelu"}
Broadcast4DKernels ==
    {"BroadcastAdd4DSlowFloat", "BroadcastAdd4DSlowInt32", "BroadcastAdd4DSlowT",
     "BroadcastAdd4DSlowInt8", "SubT", "BroadcastMul4DSlowUint8", "BroadcastMul4DSlowT",
     "BroadcastMul4DSlowInt", "Broadcast4DSlowEqual", "Broadcast4DSlowEqualNoScaling",
     "Broadcast4DSlowEqualWithScaling", "BroadcastBinaryFunction4DSlow", "BroadcastPrelu4DSlow"}
Broadcast5DKernels ==
    {"BroadcastSubSlowFloat", "BroadcastSubSlowUint8", "BroadcastSubSlowInt32",
     "BroadcastSubSlowInt8", "BroadcastSubSlowInt64", "BroadcastSubSlowT",
     "BroadcastSub16POTSlow", "MaximumMinimumBroadcastSlow"}

ElementwiseKernels ==
    FlatKernels \cup Broadcast4DKernels \cup Broadcast5DKernels \cup {"BroadcastAddFivefold"}

Elementwise(kernel, p) ==
    CASE kernel = "AddT" -> AddT(p)
      [] kernel = "AddFloat" -> AddFloat(p)
      [] kernel = "AddUint8" -> AddUint8(p)
      [] kernel = "AddInt16" -> AddInt16(p)
      [] kernel = "AddInt8" -> AddInt8(p)
      [] kernel = "BroadcastAdd4DSlowFloat" -> BroadcastAdd4DSlowFloat(p)
      [] kernel = "BroadcastAdd4DSlowInt32" -> BroadcastAdd4DSlowInt32(p)
      [] kernel = "BroadcastAdd4DSlowT" -> BroadcastAdd4DSlowT(p)
      [] kernel = "BroadcastAdd4DSlowInt8" -> BroadcastAdd4DSlowInt8(p)
      [] kernel = "BroadcastAddFivefold" -> BroadcastAddFivefold(p)
      [] kernel = "SubNonBroadcastFloat" -> SubNonBroadcastFloat(p)
      [] kernel = "SubNonBroadcastInt32" -> SubNonBroadcastInt32(p)
      [] kernel = "BroadcastSubSlowFloat" -> BroadcastSubSlowFloat(p)
      [] kernel = "BroadcastSubSlowUint8" -> BroadcastSubSlowUint8(p)
      [] kernel = "BroadcastSubSlowInt32" -> BroadcastSubSlowInt32(p)
      [] kernel = "BroadcastSubSlowInt8" -> BroadcastSubSlowInt8(p)
      [] kernel = "BroadcastSubSlowInt64" -> BroadcastSubSlowInt64(p)
      [] kernel = "BroadcastSubSlowT" -> BroadcastSubSlowT(p)
      [] kernel = "BroadcastSub16POTSlow" -> BroadcastSub16POTSlow(p)
      [] kernel = "SubUint8" -> SubUint8(p)
      [] kernel = "SubInt8" -> SubInt8(p)
      [] kernel = "SubT" -> SubT(p)
      [] kernel = "SubWithActivation" -> SubWithActivation(p)
      [] kernel = "MulT" -> MulT(p)
      [] kernel = "MulUint8" -> MulUint8(p)
      [] kernel = "BroadcastMul4DSlowUint8" -> BroadcastMul4DSlowUint8(p)
      [] kernel = "BroadcastMul4DSlowT" -> BroadcastMul4DSlowT(p)
      [] kernel = "MulInt" -> MulInt(p)
      [] kernel = "MulInt16ToInt8" -> MulInt16ToInt8(p)
      [] kernel = "BroadcastMul4DSlowInt" -> BroadcastMul4DSlowInt(p)
      [] kernel = "Equal" -> Equal(p)
      [] kernel = "EqualNoScaling" -> EqualNoScaling(p)
      [] kernel = "EqualWithScaling" -> EqualWithScaling(p)
      [] kernel = "Broadcast4DSlowEqualNoScaling" -> Broadcast4DSlowEqualNoScaling(p)
      [] kernel = "Broadcast4DSlowEqual" -> Broadcast4DSlowEqual(p)
      [] kernel = "Broadcast4DSlowEqualWithScaling" -> Broadcast4DSlowEqualWithScaling(p)
      [] kernel = "BroadcastBinaryFunction4DSlow" -> BroadcastBinaryFunction4DSlow(p)
      [] kernel = "BinaryFunction" -> BinaryFunction(p)
      [] kernel = "MaximumMinimumBroadcastSlow" -> MaximumMinimumBroadcastSlow(p)
      [] kernel = "BroadcastPrelu4DSlow" -> BroadcastPrelu4DSlow(p)
      [] kernel = "Prelu" -> Prelu(p)

MoveKernels == {"Concatenation", "ConcatenationWithScaling", "PadImageStyle", "StridedSlice",
                "BatchToSpaceND", "SpaceToBatchND", "ResizeNearestNeighbor", "ArgMinMax"}
AxisKernels == {"ReduceGeneric", "Mean", "QuantizedMean", "QuantizedSum"}
Mean4DKernels == {"MeanFloat", "MeanUint8", "MeanInt"}
ReduceKernels == AxisKernels \cup Mean4DKernels

Tensor(kernel, p) ==
    CASE kernel = "Concatenation" -> Concatenation(p)
      [] kernel = "ConcatenationWithScaling" -> ConcatenationWithScaling(p)
      [] kernel = "PadImageStyle" -> PadImageStyle(p)
      [] kernel = "StridedSlice" -> StridedSlice(p)
      [] kernel = "BatchToSpaceND" -> BatchToSpaceND(p)
      [] kernel = "SpaceToBatchND" -> SpaceToBatchND(p)
      [] kernel = "ResizeNearestNeighbor" -> ResizeNearestNeighbor(p)
      [] kernel = "ArgMinMax" -> ArgMinMax(p)
      [] kernel = "ReduceGeneric" -> ReduceGeneric(p)
      [] kernel = "Mean" -> Mean(p)
      [] kernel = "QuantizedMean" -> QuantizedMeanOrSum(p, FALSE)
      [] kernel = "QuantizedSum" -> QuantizedMeanOrSum(p, TRUE)
      [] kernel = "MeanFloat" -> MeanFloat(p)
      [] kernel = "MeanUint8" -> MeanUint8(p)
      [] kernel = "MeanInt" -> MeanInt(p)

-----------------------------------------------------------------------------
(* The calls.                                                              *)

\* One dimension of a window over an image.
Dimensions ==
    {d \in {[image |-> image, filter |-> filter, stride |-> stride, dilation |-> dilation,
             padding |-> padding,
             out |-> ComputePaddingOf(padding, stride, dilation, image, filter).out,
             pad |-> ComputePaddingOf(padding, stride, dilation, image, filter).pad] :
                image \in Images, filter \in Filters, stride \in Strides,
                dilation \in Dilations, padding \in {"same", "valid"}} : d.out >= 1}

\* The other dimension while one is varied.
PlainDimension(padding) ==
    CHOOSE d \in Dimensions :
        d.image = 3 /\ d.filter = 2 /\ d.stride = 1 /\ d.dilation = 1 /\ d.padding = padding

Dilatable(kernel) == kernel \in ConvKernels \cup DepthwiseKernels

WindowTasks ==
    {[kernel |-> kernel, height |-> dims[1], width |-> dims[2], has_bias |-> has_bias] :
        dims \in {<<d, PlainDimension(d.padding)>> : d \in Dimensions}
                   \cup {<<PlainDimension(d.padding), d>> : d \in Dimensions},
        has_bias \in BOOLEAN, kernel \in WindowKernels}

\* A single batch without a bias, two with one.
WindowParams(t) ==
    LET batches == IF t.has_bias THEN 2 ELSE 1
        h == t.height
        w == t.width
        Image(depth) == <<batches, h.image, w.image, depth>>
        Out(depth) == <<batches, h.out, w.out, depth>>
        Filter(number, depth) == <<number, h.filter, w.filter, depth>>
        Given(input_shape, filter_shape, output_shape) ==
            [input_shape |-> input_shape, filter_shape |-> filter_shape,
             output_shape |-> output_shape, has_bias |-> t.has_bias,
             stride_height |-> h.stride, stride_width |-> w.stride,
             dilation_height_factor |-> h.dilation, dilation_width_factor |-> w.dilation,
             pad_height |-> h.pad, pad_width |-> w.pad, depth_multiplier |-> 2]
    IN  CASE t.kernel \in ConvKernels -> Given(Image(2), Filter(3, 2), Out(3))
          [] t.kernel \in DepthwiseKernels -> Given(Image(2), Filter(1, 4), Out(4))
          [] t.kernel \in TransposeKernels -> Given(Out(2), Filter(3, 2), Image(3))
          [] t.kernel \in PoolKernels -> Given(Image(2), Filter(1, 1), Out(2))

\* The kernels of integers take two dimensions, those that give 16 bits of
\* 8 need a bias.  The shuffled weights come in blocks of 4 channels and 16
\* depths.
FullyConnectedTasks ==
    {t \in {[kernel |-> kernel, output_shape |-> shape \o <<3>>, accum_depth |-> 2,
              has_bias |-> has_bias] :
                kernel \in FullyConnectedKernels \ {"ShuffledFullyConnected"},
                shape \in {<<1>>, <<2>>, <<2, 2>>}, has_bias \in BOOLEAN} :
        /\ t.kernel \in {"FullyConnectedInt8", "FullyConnectedInt16"} => Len(t.output_shape) = 2
        /\ t.kernel = "FullyConnectedUint8ToInt16" => t.has_bias}
      \cup
    {[kernel |-> "ShuffledFullyConnected", output_shape |-> <<batches, depth>>,
      accum_depth |-> accum_depth, has_bias |-> TRUE] :
        batches \in {1, 4}, depth \in {4, 8}, accum_depth \in {16, 32}}

FullyConnectedParams(t) ==
    [input_shape |-> <<FlatSizeSkipDim(t.output_shape, Len(t.output_shape)), t.accum_depth>>,
     filter_shape |-> <<t.output_shape[Len(t.output_shape)], t.accum_depth>>,
     output_shape |-> t.output_shape, has_bias |-> t.has_bias]

\* The shapes whose sizes are the innermost ones of FullShape, or 1.
Shapes(lengths) ==
    UNION {{[i \in 1 .. n |-> IF i \in ones THEN 1 ELSE FullShape[i + Len(FullShape) - n]] :
               ones \in SUBSET (1 .. n)} : n \in lengths}

BroadcastShape(shape1, shape2) ==
    LET n == Larger(Len(shape1), Len(shape2))
    IN  [i \in 1 .. n |-> Larger(ExtendedShape(n, shape1)[i], ExtendedShape(n, shape2)[i])]

ElementwiseTask(kernel, shape1, shape2, input1_shift, input2_shift, pot_scale) ==
    [kernel |-> kernel, input1_shape |-> shape1, input2_shape |-> shape2,
     output_shape |-> BroadcastShape(shape1, shape2),
     input1_shift |-> input1_shift, input2_shift |-> input2_shift, pot_scale |-> pot_scale]

ElementwiseTasks ==
    UNION {
        {ElementwiseTask(kernel, shape, shape, 0, 0, FALSE) :
            kernel \in FlatKernels, shape \in Shapes({0, 1, 4})},
        {ElementwiseTask("AddInt16", shape, shape, shifts[1], shifts[2], TRUE) :
            shape \in Shapes({4}), shifts \in {<<0, 0>>, <<-1, 0>>, <<0, -2>>}},
        {ElementwiseTask(kernel, shape1, shape2, -1, -2, FALSE) :
            kernel \in Broadcast4DKernels \cup Broadcast5DKernels,
            shape1 \in Shapes({1, 4}), shape2 \in Shapes({1, 4})},
        {t \in {ElementwiseTask("BroadcastAddFivefold", shape1, shape2, 0, 0, FALSE) :
                   shape1 \in Shapes({2, 5}), shape2 \in Shapes({2, 5})} :
            ProcessBroadcastShapes(t.input1_shape, t.input2_shape).category \in
                {"kFirstInputBroadcastsFast", "kSecondInputBroadcastsFast"}}}

\* Two or three inputs, one behind the other along the axis.
ConcatenationTasks ==
    LET Input(axis, size) == [i \in 1 .. 3 |-> IF i = axis + 1 THEN size ELSE FullShape[i]]
        Sum(sizes) == LET S[n \in 0 .. Len(sizes)] == IF n = 0 THEN 0 ELSE S[n - 1] + sizes[n]
                      IN  S[Len(sizes)]
    IN  {[kernel |-> kernel, axis |-> axis, output_shape |-> Input(axis, Sum(sizes)),
          input_shapes |-> [n \in DOMAIN sizes |-> Input(axis, sizes[n])]] :
            kernel \in {"Concatenation", "ConcatenationWithScaling"}, axis \in 0 .. 2,
            sizes \in {<<1, 2>>, <<2, 1>>, <<3>>, <<2, 1, 2>>}}

PadTasks ==
    (UNION {{[kernel |-> "PadImageStyle", input_shape |-> shape,
              output_shape |-> [i \in DOMAIN shape |-> shape[i] + left[i] + right[i]],
              left_padding |-> left, right_padding |-> right] :
                 left \in [DOMAIN shape -> 0 .. 1], right \in [DOMAIN shape -> {0, 2}]} :
         shape \in {<<2>>, <<2, 3>>, <<1, 2, 2>>}})
      \cup {[kernel |-> "PadImageStyle", input_shape |-> <<1, 2, 1, 2>>, output_shape |-> <<2, 3, 2, 3>>,
             left_padding |-> left, right_padding |-> [i \in 1 .. 4 |-> 1 - left[i]]] :
                left \in [1 .. 4 -> 0 .. 1]}

\* One axis is varied, over every kind of index; the other is gone over
\* whole.  An axis that is shrunk away has an index in it and goes forward.
StridedSliceTasks ==
    LET Slice(axis, start, stop, stride, masked) ==
            LET Of(value, other) == [i \in 1 .. 2 |-> IF i = axis THEN value ELSE other]
                Masked(mask) == (IF mask \in masked THEN {axis} ELSE {})
            IN  [kernel |-> "StridedSlice", input_shape |-> <<3, 3>>,
                 start |-> Of(start, 0), stop |-> Of(stop, 3), strides |-> Of(stride, 1),
                 begin_mask |-> Masked("begin"), end_mask |-> Masked("end"),
                 shrink_axis_mask |-> Masked("shrink"), axis |-> axis]
    IN  {Slice(axis, start, stop, stride, masked) :
            axis \in 1 .. 2, start \in -5 .. 5, stop \in -5 .. 5, stride \in {-2, -1, 1, 2},
            masked \in SUBSET {"begin", "end"}}
          \cup {Slice(axis, start, stop, 1, {"shrink"}) :
                   axis \in 1 .. 2, start \in -3 .. 2, stop \in {-1, 0, 1}}

\* An image, what is padded around it, and the blocks it is cut into; for a
\* batch to be put together, the same from its end.
SpaceTasks ==
    LET Axis == {[size |-> size, block |-> block, front |-> front, behind |-> behind] :
                    size \in 1 .. 3, block \in 1 .. 3, front \in 0 .. 1, behind \in 0 .. 2}
        Fitting == {a \in Axis : (a.size + a.front + a.behind) % a.block = 0}
        Rows(a) == (a.size + a.front + a.behind) \div a.block
        Plain == [size |-> 3, block |-> 2, front |-> 1, behind |-> 0]
        None == [size |-> 1, block |-> 1, front |-> 0, behind |-> 0]
        \* Three dimensions have no width.
        Shape(batches, height, width, dims) ==
            IF dims = 4 THEN <<batches, height, width, 2>> ELSE <<batches, height, 2>>
        Task(kernel, h, w, dims) ==
            LET image == Shape(2, h.size, w.size, dims)
                blocks == Shape(2 * h.block * w.block, Rows(h), Rows(w), dims)
            IN  [kernel |-> kernel,
                 input_shape |-> IF kernel = "SpaceToBatchND" THEN image ELSE blocks,
                 output_shape |-> IF kernel = "SpaceToBatchND" THEN blocks ELSE image,
                 block_shape |-> IF dims = 4 THEN <<h.block, w.block>> ELSE <<h.block>>,
                 begins |-> IF dims = 4 THEN <<h.front, w.front>> ELSE <<h.front>>]
    IN  {Task(kernel, a, Plain, 4) : kernel \in {"SpaceToBatchND", "BatchToSpaceND"}, a \in Fitting}
          \cup {Task(kernel, Plain, a, 4) : kernel \in {"SpaceToBatchND", "BatchToSpaceND"},
                                            a \in Fitting}
          \cup {Task(kernel, a, None, 3) : kernel \in {"SpaceToBatchND", "BatchToSpaceND"},
                                           a \in Fitting}

\* Sizes at which the scale is rounded so that the product of an index and it
\* falls short of a pixel that begins exactly there.
RoundedSizes == {41, 82, 83}

ResizeTasks ==
    {[kernel |-> "ResizeNearestNeighbor", input_shape |-> <<2, sizes[1], sizes[2], 2>>,
      output_shape |-> <<2, sizes[3], sizes[4], 2>>,
      align_corners |-> mode = "aligned", half_pixel_centers |-> mode = "half"] :
        sizes \in {<<s[1], 2, s[2], 3>> : s \in Images \X (1 .. 8)}
                    \cup {<<2, s[1], 3, s[2]>> : s \in Images \X (1 .. 8)}
                    \cup {<<2, 1, n, 1>> : n \in RoundedSizes}
                    \cup {<<1, 2, 1, n>> : n \in RoundedSizes},
        mode \in {"plain", "aligned", "half"}}

\* The shape with the dimensions from `gone` left out, or kept as 1.
Without(shape, gone, keep_dims) ==
    LET Kept[n \in 0 .. Len(shape)] ==
            IF n = 0 THEN <<>>
            ELSE IF n - 1 \notin gone THEN Append(Kept[n - 1], shape[n])
            ELSE IF keep_dims THEN Append(Kept[n - 1], 1) ELSE Kept[n - 1]
    IN  Kept[Len(shape)]

\* The axes a list of them means.
AxesMeant(shape, axis) ==
    {a \in Below(Len(shape)) : \E n \in DOMAIN axis : axis[n] \in {a, a - Len(shape)}}

ArgMinMaxTasks ==
    UNION {{[kernel |-> "ArgMinMax", input_shape |-> shape, axis |-> axis,
             output_shape |-> Without(shape, AxesMeant(shape, <<axis>>), FALSE)] :
                axis \in -Len(shape) .. Len(shape) - 1} : shape \in Shapes({1, 3})}

ReduceTasks ==
    (UNION {{[kernel |-> kernel, input_shape |-> shape, axis |-> axis,
              output_shape |-> Without(shape, AxesMeant(shape, axis), keep_dims)] :
                 kernel \in AxisKernels, keep_dims \in BOOLEAN,
                 axis \in UNION {[1 .. n -> -Len(shape) .. Len(shape)] : n \in 0 .. 2}} :
         shape \in Shapes({0, 2}) \cup {<<2, 3, 2>>}})
      \cup {[kernel |-> kernel, input_shape |-> shape, axis |-> <<1, 2>>,
             output_shape |-> <<shape[1], 1, 1, shape[4]>>] :
                kernel \in Mean4DKernels, shape \in Shapes({4})}

TensorTasks ==
    UNION {ConcatenationTasks, PadTasks, StridedSliceTasks, SpaceTasks, ResizeTasks,
           ArgMinMaxTasks, ReduceTasks}

Tasks ==
    {t \in WindowTasks : Dilatable(t.kernel) \/ (t.height.dilation = 1 /\ t.width.dilation = 1)}
      \cup FullyConnectedTasks \cup ElementwiseTasks \cup TensorTasks

Init == task \in Tasks /\ output = NotRun

Eval ==
    /\ output = NotRun
    /\ output' =
          <<CASE task.kernel \in WindowKernels -> Layer(task.kernel, WindowParams(task))
              [] task.kernel \in FullyConnectedKernels ->
                     Layer(task.kernel, FullyConnectedParams(task))
              [] task.kernel \in ElementwiseKernels -> Elementwise(task.kernel, task)
              [] task.kernel \in MoveKernels \cup ReduceKernels -> Tensor(task.kernel, task)>>
    /\ UNCHANGED task

Next == Eval

Spec == Init /\ [][Next]_vars

-----------------------------------------------------------------------------
(* What a layer has to be made of.                                         *)

\* Every element of the output is written, by one round of the loops.
WritesEachOnce(size) ==
    /\ Cardinality(DOMAIN elements) = size
    /\ {elements[i].at : i \in DOMAIN elements} = Below(size)

\* Where in one dimension a position o of the image an element of the filter
\* meets an element of what it goes over: <<element, element of the filter>>.
Meetings(d, o) ==
    {m \in Below(d.image) \X Below(d.filter) :
        m[1] + d.pad = o * d.stride + m[2] * d.dilation}

\* The same seen from the image.
TransposedMeetings(d, o) ==
    {m \in Below(d.out) \X Below(d.filter) : m[1] * d.stride + m[2] = o + d.pad}

\* The pairs of coordinates that belong to the output at o.
ExpectedProducts(o) ==
    LET p == WindowParams(task)
        rows == Meetings(task.height, o[2])
        columns == Meetings(task.width, o[3])
    IN  CASE task.kernel \in ConvKernels ->
                 {<<<<o[1], m[1][1], m[2][1], m[3]>>, <<o[4], m[1][2], m[2][2], m[3]>>>> :
                     m \in rows \X columns \X Below(p.input_shape[4])}
          [] task.kernel \in DepthwiseKernels ->
                 {<<<<o[1], m[1][1], m[2][1], o[4] \div p.depth_multiplier>>,
                    <<0, m[1][2], m[2][2], o[4]>>>> : m \in rows \X columns}
          [] task.kernel \in TransposeKernels ->
                 {<<<<o[1], m[1][1], m[2][1], m[3]>>, <<o[4], m[1][2], m[2][2], m[3]>>>> :
                     m \in TransposedMeetings(task.height, o[2])
                              \X TransposedMeetings(task.width, o[3])
                              \X Below(p.input_shape[4])}

\* The padding of one dimension: half of what is missing in front, where
\* every element is to be the first one of a stride; or none, and no window
\* more or less than fits.
PaddingIsBalanced(d) ==
    LET window == (d.filter - 1) * d.dilation + 1
        missing == (d.out - 1) * d.stride + window - d.image
    IN  IF d.padding = "same"
        THEN /\ d.out * d.stride >= d.image /\ (d.out - 1) * d.stride < d.image
             /\ IF missing <= 0 THEN d.pad = 0 ELSE missing - d.pad \in {d.pad, d.pad + 1}
        ELSE d.pad = 0 /\ missing <= 0 /\ missing > -d.stride

\* Which tensors of a kernel have a zero point, by the quantization the
\* kernel is for.
Uint8Kernels == {"ConvUint8", "DepthwiseConvUint8", "TransposeConvUint8", "FullyConnectedUint8",
                 "FullyConnectedUint8ToInt16", "ShuffledFullyConnected"}
Int8Kernels == {"ConvPerChannelInt8", "RunPerChannel", "DepthwiseConvPerChannelInt8",
                "TransposeConvInt8", "FullyConnectedInt8"}
HybridKernels == {"HybridConvPerChannel", "DepthwiseConvHybridPerChannel"}
PerChannelKernels == {"ConvPerChannelInt8", "ConvPerChannelInt16", "RunPerChannel",
                      "DepthwiseConvPerChannelInt8", "DepthwiseConvPerChannelInt16",
                      "TransposeConvInt8", "TransposeConvInt16"}

\* The parameters for channel c of batch b.
ParametersFit(result, b, c) ==
    /\ result.bias = IF task.has_bias THEN {c} ELSE {}
    /\ task.kernel \in Uint8Kernels => {"input_offset", "filter_offset"} \subseteq result.offsets
    /\ task.kernel \in Int8Kernels => "input_offset" \in result.offsets
    /\ task.kernel \in HybridKernels =>
           result.offsets = {<<"input_offset", b>>} /\ result.scale = Hybrid(c, b)
    /\ task.kernel \in PerChannelKernels => result.scale = PerChannel(c)
    /\ task.kernel \in Int8Kernels => result.shifted

WindowedIsRight ==
    LET p == WindowParams(task)
    IN  /\ WritesEachOnce(FlatSize(p.output_shape))
        /\ PaddingIsBalanced(task.height) /\ PaddingIsBalanced(task.width)
        /\ \A i \in DOMAIN elements :
               LET o == Coordinates(p.output_shape, elements[i].at)
                   products == elements[i].result.products
                   expected == ExpectedProducts(o)
               IN  /\ Cardinality(DOMAIN products) = Cardinality(expected)
                   /\ {<<Coordinates(p.input_shape, products[f].input),
                         Coordinates(p.filter_shape, products[f].filter)>> :
                            f \in DOMAIN products} = expected
                   /\ ParametersFit(elements[i].result, o[1], o[4])

FullyConnectedIsRight ==
    LET p == FullyConnectedParams(task)
        depth == p.filter_shape[1]
        \* Where the weight of channel c for element d is.
        Weight(c, d) ==
            IF task.kernel = "ShuffledFullyConnected"
            THEN ((c \div 4) * (task.accum_depth \div 16) + d \div 16) * 64
                    + (c % 4) * 16 + (d % 16)
            ELSE c * task.accum_depth + d
    IN  /\ WritesEachOnce(FlatSize(p.output_shape))
        /\ \A i \in DOMAIN elements :
               LET b == elements[i].at \div depth
                   c == elements[i].at % depth
                   products == elements[i].result.products
               IN  /\ Cardinality(DOMAIN products) = task.accum_depth
                   /\ {<<products[d].input, products[d].filter>> : d \in DOMAIN products}
                        = {<<b * task.accum_depth + d, Weight(c, d)>> : d \in Below(task.accum_depth)}
                   /\ ParametersFit(elements[i].result, b, c)

\* Nearest to acc / n, and halves away from zero.
IsNearest(average, acc, n) ==
    LET error == 2 * (acc - average * n)
    IN  /\ -n <= error /\ error <= n
        /\ error = n => acc < 0
        /\ error = -n => acc > 0

\* All elements of the image under the window, and some are.
PooledIsRight ==
    LET p == WindowParams(task)
    IN  /\ WritesEachOnce(FlatSize(p.output_shape))
        /\ \A i \in DOMAIN elements :
               LET o == Coordinates(p.output_shape, elements[i].at)
                   window == elements[i].result.window
                   averages == elements[i].result.averages
                   expected == {<<o[1], m[1][1], m[2][1], o[4]>> :
                                   m \in Meetings(task.height, o[2])
                                            \X Meetings(task.width, o[3])}
               IN  /\ expected # {}
                   /\ Cardinality(DOMAIN window) = Cardinality(expected)
                   /\ {Coordinates(p.input_shape, window[f]) : f \in DOMAIN window} = expected
                   /\ \A acc \in DOMAIN averages :
                          IsNearest(averages[acc], acc, Cardinality(expected))

\* A layer is made of the right elements: every output is written once, and is
\* the sum of exactly the products that its place in the image, the strides,
\* the dilation and the padding give it (those outside the image left out),
\* with the bias, the multiplier and the zero points of its channel and its
\* batch; the padding is balanced (kernels/padding.h:33); the shuffled weights
\* are read by their blocks (reference/fully_connected.h:164).  Pooling goes over
\* all elements of the image under the window, and some are (a maximum of none
\* would be the least number, an average a division by zero); integer averages
\* are the nearest (integer_ops/pooling.h:59).
LayersAreRight ==
    output # NotRun =>
        /\ task.kernel \in WindowKernels \ PoolKernels => WindowedIsRight
        /\ task.kernel \in FullyConnectedKernels => FullyConnectedIsRight
        /\ task.kernel \in PoolKernels => PooledIsRight

-----------------------------------------------------------------------------
(* Operands.                                                               *)

\* The order matters, except for sums.
Commutes(kernel) == kernel \in {"AddInt16", "BroadcastAddFivefold"}

\* The coordinates of an input that belong to those of the output: aligned
\* at the innermost dimension, and 0 where its size is 1.
BroadcastCoordinates(shape, o) ==
    [i \in DOMAIN shape |-> IF shape[i] = 1 THEN 0 ELSE o[i + Len(o) - Len(shape)]]

\* Quantized tensors are added, subtracted and compared on a common scale and
\* multiplied without their zero points; where scales are powers of two they
\* are shifted, and floats, integers and equal scales are taken as they are.
ScalingKernels ==
    {"AddUint8", "AddInt8", "BroadcastAdd4DSlowT", "BroadcastAdd4DSlowInt8", "BroadcastAddFivefold",
     "SubUint8", "SubInt8", "BroadcastSubSlowUint8", "BroadcastSubSlowInt8",
     "EqualWithScaling", "Broadcast4DSlowEqualWithScaling"}
ProductKernels == {"MulUint8", "BroadcastMul4DSlowUint8", "MulInt", "BroadcastMul4DSlowInt",
                   "Prelu", "BroadcastPrelu4DSlow"}

Treatment(shift) ==
    CASE task.kernel \in ScalingKernels -> <<"rescaled">>
      [] task.kernel \in ProductKernels -> <<"moved">>
      [] task.kernel = "AddInt16" ->
             IF task.pot_scale THEN <<"divided", -shift>> ELSE <<"rescaled">>
      [] task.kernel = "BroadcastSub16POTSlow" -> <<"divided", -shift>>
      [] OTHER -> <<"raw">>

OperandIsRight(operand, o) ==
    LET shape == IF operand.input = 1 THEN task.input1_shape ELSE task.input2_shape
        shift == IF operand.input = 1 THEN task.input1_shift ELSE task.input2_shift
    IN  /\ Coordinates(shape, operand.at) = BroadcastCoordinates(shape, o)
        /\ operand.at < FlatSize(shape)
        /\ operand.params = operand.input
        /\ operand.how = Treatment(shift)

\* An element is made of the two that broadcasting gives it, each brought to
\* the common scale with the parameters of its own tensor, also where the
\* kernel exchanges its inputs (reference/add.h:356) or takes the one to be
\* shifted first (reference/add.h:190), and each is written once.
ElementsAreRight ==
    output # NotRun /\ task.kernel \in ElementwiseKernels =>
        /\ WritesEachOnce(FlatSize(task.output_shape))
        /\ \A i \in DOMAIN elements :
               LET o == Coordinates(task.output_shape, elements[i].at)
                   element == elements[i]
               IN  /\ OperandIsRight(element.left, o) /\ OperandIsRight(element.right, o)
                   /\ {element.left.input, element.right.input} = {1, 2}
                   /\ Commutes(task.kernel) \/ element.left.input = 1

-----------------------------------------------------------------------------
(* Places.                                                                 *)

ConcatenatedIsRight ==
    LET axis == task.axis + 1
        Before(k) == LET B[n \in 0 .. k - 1] ==
                             IF n = 0 THEN 0 ELSE B[n - 1] + task.input_shapes[n][axis]
                     IN  B[k - 1]
    IN  \A i \in DOMAIN elements :
            LET o == Coordinates(task.output_shape, elements[i].at)
                from == elements[i].from
                c == Coordinates(task.input_shapes[from[1]], from[2])
            IN  c = [o EXCEPT ![axis] = @ - Before(from[1])]

PaddedIsRight ==
    \A i \in DOMAIN elements :
        LET o == Coordinates(task.output_shape, elements[i].at)
            c == [d \in DOMAIN o |-> o[d] - task.left_padding[d]]
        IN  IF \A d \in DOMAIN c : c[d] \in Below(task.input_shape[d])
            THEN elements[i].from # <<>> /\ Coordinates(task.input_shape, elements[i].from[2]) = c
            ELSE elements[i].from = <<>>

\* The indices of an axis start:stop:stride means: from the first one that is
\* there, for as long as they are there and before the stop.
FirstPicked(axis) ==
    LET size == task.input_shape[axis]
        Place(index) == IF index < 0 THEN index + size ELSE index
    IN  IF task.strides[axis] > 0
        THEN IF axis \in task.begin_mask THEN 0 ELSE Larger(Place(task.start[axis]), 0)
        ELSE IF axis \in task.begin_mask THEN size - 1
             ELSE Smaller(Place(task.start[axis]), size - 1)

Picked(axis) ==
    LET size == task.input_shape[axis]
        Place(index) == IF index < 0 THEN index + size ELSE index
        BeforeStop(index) ==
            \/ axis \in task.end_mask
            \/ IF task.strides[axis] > 0 THEN index < Place(task.stop[axis])
               ELSE index > Place(task.stop[axis])
    IN  IF axis \in task.shrink_axis_mask THEN {Place(task.start[axis])}
        ELSE {index \in {FirstPicked(axis) + k * task.strides[axis] : k \in 0 .. size} :
                 index \in Below(size) /\ BeforeStop(index)}

SlicedIsRight ==
    LET picked == [axis \in 1 .. 2 |-> Cardinality(Picked(axis))]
    IN  /\ WritesEachOnce(picked[1] * picked[2])
        /\ \A i \in DOMAIN elements :
               LET o == Coordinates(picked, elements[i].at)
                   c == Coordinates(task.input_shape, elements[i].from[2])
               IN  \A axis \in 1 .. 2 :
                      /\ c[axis] \in Picked(axis)
                      /\ c[axis] = FirstPicked(axis) + o[axis] * task.strides[axis]

\* Batches made of blocks, seen as what they are a transposition of: an array
\* of <<place in the block (2), batch, block (2), channel>>; the element of
\* the image, the padding not counted.
ImageOf(image, blocks, at) ==
    LET c == Coordinates(<<task.block_shape[1], BlockWidth(task), image[1], blocks[2], blocks[3],
                           image[4]>>, at)
    IN  <<c[3], c[4] * task.block_shape[1] + c[1] - task.begins[1],
          c[5] * BlockWidth(task) + c[2] - BeginLeft(task), c[6]>>

SpaceIsRight ==
    LET input == ExtendShapeBatchToSpace(task.input_shape)
        shape == ExtendShapeBatchToSpace(task.output_shape)
    IN  \A i \in DOMAIN elements :
            LET element == elements[i]
                c == ImageOf(input, shape, element.at)
            IN  IF task.kernel = "BatchToSpaceND"
                THEN Coordinates(shape, element.at) = ImageOf(shape, input, element.from[2])
                ELSE IF \A d \in 1 .. 4 : c[d] \in Below(input[d])
                THEN element.from # <<>> /\ Coordinates(input, element.from[2]) = c
                ELSE element.from = <<>>

\* c of `in` is the nearest to o of `out`: the pixel that contains its first
\* corner, that contains its centre, that is nearest between the corners.  On
\* the boundary of two pixels it is either: the product of the index and the
\* rounded scale may fall short of the boundary.
IsNeighbour(c, o, in, out) ==
    CASE task.align_corners ->
             LET error == 2 * (c * (out - 1) - o * (in - 1)) IN -(out - 1) <= error /\ error <= out - 1
      [] task.half_pixel_centers -> 2 * c * out <= (2 * o + 1) * in /\ (2 * o + 1) * in <= 2 * (c + 1) * out
      [] OTHER -> c * out <= o * in /\ o * in <= (c + 1) * out

ResizedIsRight ==
    \A i \in DOMAIN elements :
        LET o == Coordinates(task.output_shape, elements[i].at)
            c == Coordinates(task.input_shape, elements[i].from[2])
        IN  /\ c[1] = o[1] /\ c[4] = o[4]
            /\ \A d \in {2, 3} : IsNeighbour(c[d], o[d], task.input_shape[d], task.output_shape[d])

\* Every element is looked at once, as the index it has on the axis.
ComparedIsRight ==
    LET gone == AxesMeant(task.input_shape, <<task.axis>>)
    IN  /\ {elements[i].from[2] : i \in DOMAIN elements} = Below(FlatSize(task.input_shape))
        /\ Cardinality(DOMAIN elements) = FlatSize(task.input_shape)
        /\ \A i \in DOMAIN elements :
               LET c == Coordinates(task.input_shape, elements[i].from[2])
               IN  /\ Coordinates(task.output_shape, elements[i].at) = Without(c, gone, FALSE)
                   /\ \A a \in gone : c[a + 1] = i[3]

\* Every element goes into the output that has its other coordinates, and the
\* division and the zero points are for as many as go into one.  The output
\* is reset before, also when an axis is then refused.
ReducedIsRight ==
    LET gone == AxesMeant(task.input_shape, task.axis)
        size == FlatSize(task.input_shape)
        rounds == elements.rounds
        kept == Without(task.input_shape, gone, FALSE)
        together == size \div FlatSize(task.output_shape)
        Accepted == \/ task.input_shape = <<>>
                    \/ \A n \in DOMAIN task.axis :
                          task.axis[n] \in -Len(task.input_shape) .. Len(task.input_shape) - 1
        reset == IF task.kernel \in AxisKernels THEN Below(FlatSize(task.output_shape)) ELSE {}
    IN  /\ elements.reset = reset
        /\ ~Accepted => rounds = <<>>
        /\ Accepted =>
             /\ {rounds[i].from[2] : i \in DOMAIN rounds} = Below(size)
             /\ Cardinality(DOMAIN rounds) = size
             /\ \A i \in DOMAIN rounds :
                    LET c == Coordinates(task.input_shape, rounds[i].from[2])
                    IN  Coordinates(kept, rounds[i].at) = Without(c, gone, FALSE)
             /\ elements.divisor =
                    IF task.kernel \in {"ReduceGeneric", "QuantizedSum"} THEN 1 ELSE together
             /\ task.kernel \in {"QuantizedMean", "QuantizedSum", "MeanUint8", "MeanInt"} =>
                    elements.zero_points = together

\* Elements come from where they belong: the inputs of a concatenation follow
\* each other, padding is around the input, a slice has the indices of its
\* start, stop and stride, whichever end they count from
\* (strided_slice_logic.h:75), batches of blocks and images are made of each
\* other (batch_to_space_nd.h:70), the nearest pixels are taken
\* (resize_nearest_neighbor.h:27), and reductions take every element into the
\* output of its other coordinates, over axes that may be negative or named
\* twice, and divide by their number (reduce.h:58); every output is written
\* once.
TensorsAreRight ==
    output # NotRun =>
        /\ task.kernel \in MoveKernels \ {"StridedSlice", "ArgMinMax"} =>
               WritesEachOnce(FlatSize(task.output_shape))
        /\ task.kernel \in {"Concatenation", "ConcatenationWithScaling"} => ConcatenatedIsRight
        /\ task.kernel = "PadImageStyle" => PaddedIsRight
        /\ task.kernel = "StridedSlice" => SlicedIsRight
        /\ task.kernel \in {"BatchToSpaceND", "SpaceToBatchND"} => SpaceIsRight
        /\ task.kernel = "ResizeNearestNeighbor" => ResizedIsRight
        /\ task.kernel = "ArgMinMax" => ComparedIsRight
        /\ task.kernel \in ReduceKernels => ReducedIsRight
=============================================================================
