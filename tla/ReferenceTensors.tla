---------------------------- MODULE ReferenceTensors ----------------------------
(***************************************************************************)
(* The reference kernels that move elements of tensors to other places or  *)
(* reduce them along axes (concatenation.h, pad.h, strided_slice.h,        *)
(* batch_to_space_nd.h, space_to_batch_nd.h, resize_nearest_neighbor.h,    *)
(* arg_min_max.h, reduce.h and integer_ops/mean.h of                       *)
(* kernels/internal/reference/, strided_slice_logic.h).                    *)
(*                                                                         *)
(* The result of a kernel that moves elements says, for each round of its  *)
(* loops, the element that is written and where it is from: an input and   *)
(* an element of it, or nowhere for padding.  A copy of a block is a round *)
(* for each element.                                                       *)
(***************************************************************************)
EXTENDS ReferenceShapes, FiniteSets

Copied(at, input, source) == [at |-> at, from |-> <<input, source>>]
Padded(at) == [at |-> at, from |-> <<>>]

\* The product of the sizes of the dimensions from `first` to `last`.
SizeOf(shape, first, last) == FlatSize(SubSeq(shape, first, last))

-----------------------------------------------------------------------------
(* concatenation.h: p = [input_shapes, output_shape, axis].                *)

\* In every round all inputs are copied one behind the other; output_ptr is
\* where the copy of input i begins.
Concatenation(p) ==
    LET inputs_count == Len(p.input_shapes)
        outer_size == SizeOf(p.output_shape, 1, p.axis)
        base_inner_size == SizeOf(p.output_shape, p.axis + 2, Len(p.output_shape))
        copy_size(i) == p.input_shapes[i][p.axis + 1] * base_inner_size
        behind[i \in 0 .. inputs_count] == IF i = 0 THEN 0 ELSE behind[i - 1] + copy_size(i)
        output_ptr(k, i) == k * behind[inputs_count] + behind[i - 1]
    IN  [l \in UNION {Below(outer_size) \X {i} \X Below(copy_size(i)) : i \in 1 .. inputs_count} |->
            Copied(output_ptr(l[1], l[2]) + l[3], l[2], l[1] * copy_size(l[2]) + l[3])]

\* An input with other parameters than the output's is converted on the way.
ConcatenationWithScaling(p) == Concatenation(p)

-----------------------------------------------------------------------------
(* pad.h: p = [input_shape, output_shape, left_padding, right_padding].    *)

\* Both pointers only move up: the input's where it is read.
PadImpl(p) ==
    LET shape == ExtendedShape(4, p.output_shape)
        Copy(padding) == [i \in 1 .. 4 - Len(padding) |-> 0] \o padding
        left == Copy(p.left_padding)
        right == Copy(p.right_padding)
        Inside(n) ==
            LET o == Coordinates(shape, n)
            IN  \A i \in 1 .. 4 : o[i] >= left[i] /\ o[i] < shape[i] - right[i]
        in_ptr[n \in 0 .. FlatSize(shape)] ==
            IF n = 0 THEN 0 ELSE in_ptr[n - 1] + (IF Inside(n - 1) THEN 1 ELSE 0)
    IN  [n \in Below(FlatSize(shape)) |->
            IF Inside(n) THEN Copied(n, 1, in_ptr[n]) ELSE Padded(n)]

Pad(p) == PadImpl(p)
PadImageStyle(p) == Pad(p)

-----------------------------------------------------------------------------
(* strided_slice.h and strided_slice_logic.h: p = [input_shape, start,     *)
(* stop, strides, begin_mask, end_mask, shrink_axis_mask]; a mask is the   *)
(* set of the axes, counted from 1, whose bit is set.                      *)

Lowest == -2147483647 - 1
Highest == 2147483647

Clamp(v, lo, hi) == IF hi < v THEN hi ELSE IF v < lo THEN lo ELSE v

\* To dim_count dimensions: the new ones in front are gone over whole.
StridedSlicePadIndices(p, dim_count) ==
    LET pad_count == dim_count - Len(p.start)
        InFront(value) == [i \in 1 .. pad_count |-> value]
        Moved(mask) == {i + pad_count : i \in mask}
    IN  [input_shape |-> ExtendedShape(dim_count, p.input_shape),
         start |-> InFront(0) \o p.start, stop |-> InFront(1) \o p.stop,
         strides |-> InFront(1) \o p.strides,
         begin_mask |-> Moved(p.begin_mask) \cup 1 .. pad_count,
         end_mask |-> Moved(p.end_mask) \cup 1 .. pad_count,
         shrink_axis_mask |-> Moved(p.shrink_axis_mask)]

\* An index from the end is counted from the beginning, and brought to where
\* a walk in the direction of the stride may be.
Brought(index, stride, axis_size) ==
    LET counted == IF index < 0 THEN index + axis_size ELSE index
    IN  IF stride > 0 THEN Clamp(counted, 0, axis_size) ELSE Clamp(counted, -1, axis_size - 1)

StartForAxis(p, axis) ==
    LET forward == p.strides[axis] > 0
        start == IF axis \notin p.begin_mask THEN p.start[axis]
                 ELSE IF forward THEN Lowest ELSE Highest
    IN  Brought(start, p.strides[axis], p.input_shape[axis])

StopForAxis(p, axis, start_for_axis) ==
    LET forward == p.strides[axis] > 0
        stop == IF axis \notin p.end_mask THEN p.stop[axis]
                ELSE IF forward THEN Highest ELSE Lowest
    IN  IF axis \in p.shrink_axis_mask THEN start_for_axis + 1
        ELSE Brought(stop, p.strides[axis], p.input_shape[axis])

LoopCondition(index, stop, stride) == IF stride > 0 THEN index >= stop ELSE index <= stop

\* Five nested loops; each goes over offsets that are its indices times the
\* size of what is inside, which does not change when it ends.  The writer
\* goes on from element to element.
StridedSlice(p) ==
    LET padded == StridedSlicePadIndices(p, 5)
        start(axis) == StartForAxis(padded, axis)
        stop(axis) == StopForAxis(padded, axis, start(axis))
        index(axis, round) == start(axis) + round * padded.strides[axis]
        Rounds(axis) ==
            CHOOSE n \in 0 .. padded.input_shape[axis] :
                /\ LoopCondition(index(axis, n), stop(axis), padded.strides[axis])
                /\ \A m \in Below(n) :
                      ~LoopCondition(index(axis, m), stop(axis), padded.strides[axis])
        rounds == [axis \in 1 .. 5 |-> Rounds(axis)]
        offset(l) ==
            LET at[a \in 0 .. 5] ==
                    IF a = 0 THEN 0 ELSE at[a - 1] * padded.input_shape[a] + index(a, l[a])
            IN  at[5]
    IN  [n \in Below(FlatSize(rounds)) |-> Copied(n, 1, offset(Coordinates(rounds, n)))]

-----------------------------------------------------------------------------
(* batch_to_space_nd.h and space_to_batch_nd.h: p = [input_shape,          *)
(* output_shape, block_shape, begins]; `begins` is what is cropped or      *)
(* padded in front.                                                        *)

\* ExtendShapeBatchToSpace and ExtendShapeSpaceToBatch: NHC -> NH1C.
ExtendShapeBatchToSpace(shape) ==
    IF Len(shape) = 4 THEN shape ELSE <<shape[1], shape[2], 1, shape[3]>>

\* The second block size and begin, if there are any.
BlockWidth(p) == IF Len(p.input_shape) = 4 THEN p.block_shape[2] ELSE 1
BeginLeft(p) == IF Len(p.input_shape) = 4 THEN p.begins[2] ELSE 0

BatchToSpaceND(p) ==
    LET input == ExtendShapeBatchToSpace(p.input_shape)
        shape == ExtendShapeBatchToSpace(p.output_shape)
        out_batch(l) == l[1] % shape[1]
        spatial_offset(l) == l[1] \div shape[1]
        out_h(l) == l[2] * p.block_shape[1] + spatial_offset(l) \div BlockWidth(p) - p.begins[1]
        out_w(l) == l[3] * BlockWidth(p) + (spatial_offset(l) % BlockWidth(p)) - BeginLeft(p)
        Kept(l) == /\ out_h(l) >= 0 /\ out_h(l) < shape[2]
                   /\ out_w(l) >= 0 /\ out_w(l) < shape[3]
        loops == Below(input[1]) \X Below(input[2]) \X Below(input[3]) \X Below(input[4])
    IN  [l \in {l \in loops : Kept(l)} |->
            Copied(Offset(shape, out_batch(l), out_h(l), out_w(l), l[4]),
                   1, Offset(input, l[1], l[2], l[3], l[4]))]

\* Mutant: the places in a block are counted by columns.
ShiftsByColumns(place, block_height, block_width) ==
    [h |-> place % block_height, w |-> place \div block_height]

\* Where in its block the elements of a batch are from.
Shifts(place, block_height, block_width) ==
    [h |-> place \div block_width, w |-> place % block_width]

SpaceToBatchND(p) ==
    LET input == ExtendShapeBatchToSpace(p.input_shape)
        shape == ExtendShapeBatchToSpace(p.output_shape)
        input_batch(l) == l[1] % input[1]
        shift(l) == Shifts(l[1] \div input[1], p.block_shape[1], BlockWidth(p))
        in_h(l) == l[2] * p.block_shape[1] + shift(l).h - p.begins[1]
        in_w(l) == l[3] * BlockWidth(p) + shift(l).w - BeginLeft(p)
        IsPadding(l) == \/ in_h(l) < 0 \/ in_h(l) >= input[2]
                        \/ in_w(l) < 0 \/ in_w(l) >= input[3]
    IN  [l \in Below(shape[1]) \X Below(shape[2]) \X Below(shape[3]) \X Below(input[4]) |->
            LET at == Offset(shape, l[1], l[2], l[3], l[4])
            IN  IF IsPadding(l) THEN Padded(at)
                ELSE Copied(at, 1, Offset(input, input_batch(l), in_h(l), in_w(l), l[4]))]

-----------------------------------------------------------------------------
(* resize_nearest_neighbor.h: p = [input_shape, output_shape,              *)
(* align_corners, half_pixel_centers].                                     *)

\* In single precision: a number is mantissa / 2^exponent with 24 bits of
\* mantissa.  Rounded to the nearest, between two to the even one.
NearestEven(over, under) ==
    LET rest == over % under
        rounds_up == 2 * rest > under \/ (2 * rest = under /\ (over \div under) % 2 = 1)
    IN  over \div under + (IF rounds_up THEN 1 ELSE 0)

\* Of numbers below 2^7.
FloatQuotient(over, under) ==
    LET k == CHOOSE n \in 0 .. 14 : under * 2^7 <= over * 2^n /\ over * 2^n < under * 2^8
        first == over * 2^k
    IN  IF over = 0 THEN [mantissa |-> 0, exponent |-> 16]
        ELSE [mantissa |-> (first \div under) * 2^16 + NearestEven((first % under) * 2^16, under),
              exponent |-> 16 + k]

FloatProduct(number, x) ==
    LET exact == number * x.mantissa
        shift == CHOOSE s \in 0 .. 7 :
                    exact \div 2^s < 2^24 /\ (s = 0 \/ exact \div 2^(s - 1) >= 2^24)
    IN  [mantissa |-> NearestEven(exact, 2^shift), exponent |-> x.exponent - shift]

\* The offset makes the index an odd number of halves.
GetNearestNeighbor(input_value, input_size, output_size, align_corners, half_pixel_centers) ==
    LET scale == IF align_corners /\ output_size > 1
                 THEN FloatQuotient(input_size - 1, output_size - 1)
                 ELSE FloatQuotient(input_size, output_size)
        product == FloatProduct(IF half_pixel_centers THEN 2 * input_value + 1 ELSE input_value,
                                scale)
        exponent == product.exponent + (IF half_pixel_centers THEN 1 ELSE 0)
        floor == product.mantissa \div 2^exponent
        TfLiteRound == (product.mantissa \div 2^(exponent - 1) + 1) \div 2
        output_value == Smaller(IF align_corners THEN TfLiteRound ELSE floor, input_size - 1)
    IN  IF half_pixel_centers THEN Larger(0, output_value) ELSE output_value

ResizeNearestNeighbor(p) ==
    LET input == p.input_shape
        shape == p.output_shape
        col_offset == input[4]
        row_offset == input[3] * col_offset
        batch_offset == input[2] * row_offset
        in_y(y) == GetNearestNeighbor(y, input[2], shape[2], p.align_corners, p.half_pixel_centers)
        in_x(x) == GetNearestNeighbor(x, input[3], shape[3], p.align_corners, p.half_pixel_centers)
        output_ptr(l) == ((l[1] * shape[2] + l[2]) * shape[3] + l[3]) * input[4]
    IN  [l \in Below(input[1]) \X Below(shape[2]) \X Below(shape[3]) \X Below(input[4]) |->
            Copied(output_ptr(l) + l[4], 1,
                   l[1] * batch_offset + in_y(l[2]) * row_offset + in_x(l[3]) * col_offset + l[4])]

-----------------------------------------------------------------------------
(* arg_min_max.h: p = [input_shape, axis]; a round for every element that  *)
(* is compared, in the order of their indices.                             *)

ArgMinMax(p) ==
    LET axis == IF p.axis < 0 THEN p.axis + Len(p.input_shape) ELSE p.axis
        axis_size == p.input_shape[axis + 1]
        outer_size == SizeOf(p.input_shape, 1, axis)
        inner_size == SizeOf(p.input_shape, axis + 2, Len(p.input_shape))
    IN  [l \in Below(outer_size) \X Below(inner_size) \X Below(axis_size) |->
            Copied(l[1] * inner_size + l[2], 1, (l[1] * axis_size + l[3]) * inner_size + l[2])]

-----------------------------------------------------------------------------
(* reduce.h: p = [input_shape, output_shape, axis].  A round takes one     *)
(* element of the input into one of the output.                            *)

\* The axes without duplicates and from the beginning, or that one is none.
\* The axis of a scalar is not looked at.
ResolveAxis(num_dims, axis) ==
    LET current(n) == IF axis[n] < 0 THEN axis[n] + num_dims ELSE axis[n]
        is_dup(axes, a) == \E n \in DOMAIN axes : axes[n] = a
        Resolved[n \in 0 .. Len(axis)] ==
            IF n = 0 THEN <<>>
            ELSE IF is_dup(Resolved[n - 1], current(n)) THEN Resolved[n - 1]
            ELSE Append(Resolved[n - 1], current(n))
    IN  IF num_dims = 0 THEN [valid |-> TRUE, axes |-> <<>>]
        ELSE [valid |-> \A n \in DOMAIN axis : current(n) \in Below(num_dims),
              axes |-> Resolved[Len(axis)]]

\* The indices NextIndex leads to, from the first one on until it says so.
Iterated(dims) ==
    LET Visited[n \in 1 .. FlatSize(dims) + 1] ==
            IF n = 1 THEN <<[i \in DOMAIN dims |-> 0]>>
            ELSE LET before == Visited[n - 1]
                     next == NextIndex(dims, before[Len(before)])
                 IN  IF next.goes_on THEN Append(before, next.index) ELSE before
    IN  Visited[FlatSize(dims) + 1]

Reduce(dims, axes) ==
    LET iterated == Iterated(dims)
        axis == {axes[n] : n \in DOMAIN axes}
    IN  [n \in DOMAIN iterated |->
            Copied(ReducedOutputOffset(dims, iterated[n], axis), 1,
                   ReducedOutputOffset(dims, iterated[n], {}))]

ReduceSumImpl(dims, axes) == Reduce(dims, axes)

\* The elements of the output that are reset before the first round, what is
\* divided by, and how many zero points are taken from the sum before (0 where
\* there are none).
Reduced(reset, rounds, divisor, zero_points) ==
    [reset |-> reset, rounds |-> rounds, divisor |-> divisor, zero_points |-> zero_points]

InitTensorDataForReduce(dims) == Below(FlatSize(dims))

\* The axes are looked at when the output has been reset.
Refused(p) == Reduced(InitTensorDataForReduce(p.output_shape), <<>>, 0, 0)

NumElementsInAxis(dims, axes) ==
    FlatSize([n \in DOMAIN axes |-> dims[axes[n] + 1]])

\* ReduceGeneric: a maximum; an input without elements is left at once.
ReduceGeneric(p) ==
    LET resolved == ResolveAxis(Len(p.input_shape), p.axis)
        reset == InitTensorDataForReduce(p.output_shape)
    IN  IF \E n \in DOMAIN p.input_shape : p.input_shape[n] = 0 THEN Reduced({}, <<>>, 1, 0)
        ELSE IF ~resolved.valid THEN Refused(p)
        ELSE Reduced(reset, Reduce(p.input_shape, resolved.axes), 1, 0)

\* Mean in two stages.
Mean(p) ==
    LET resolved == ResolveAxis(Len(p.input_shape), p.axis)
    IN  IF ~resolved.valid THEN Refused(p)
        ELSE Reduced(InitTensorDataForReduce(p.output_shape),
                     ReduceSumImpl(p.input_shape, resolved.axes),
                     NumElementsInAxis(p.input_shape, resolved.axes), 0)

\* The bias of a mean has the zero point once, behind the division.
QuantizedMeanOrSum(p, compute_sum) ==
    LET resolved == ResolveAxis(Len(p.input_shape), p.axis)
        num_elements_in_axis == NumElementsInAxis(p.input_shape, resolved.axes)
    IN  IF ~resolved.valid THEN Refused(p)
        ELSE Reduced(InitTensorDataForReduce(p.output_shape),
                     ReduceSumImpl(p.input_shape, resolved.axes),
                     IF compute_sum THEN 1 ELSE num_elements_in_axis, num_elements_in_axis)

\* The loops of the kernels that reduce height and width.
Mean4D(p, zero_points(_)) ==
    LET input == ExtendedShape(4, p.input_shape)
        shape == ExtendedShape(4, p.output_shape)
    IN  Reduced({},
                [l \in Below(shape[1]) \X Below(shape[4]) \X Below(input[2]) \X Below(input[3]) |->
                    Copied(Offset(shape, l[1], 0, 0, l[2]), 1,
                           Offset(input, l[1], l[3], l[4], l[2]))],
                input[2] * input[3], zero_points(input[2] * input[3]))

MeanFloat(p) == Mean4D(p, LAMBDA n : 0)

\* One in the bias, behind the division.
MeanUint8(p) == Mean4D(p, LAMBDA n : n)

\* integer_ops/mean.h: one from each element.
MeanInt(p) == Mean4D(p, LAMBDA n : n)
=============================================================================
