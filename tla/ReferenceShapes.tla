---------------------------- MODULE ReferenceShapes ----------------------------
(***************************************************************************)
(* Shapes of tensors and the arithmetic of indices that the reference      *)
(* kernels of TensorFlow Lite share (kernels/internal/types.h and          *)
(* common.h, kernels/padding.h, reference/process_broadcast_shapes.h).     *)
(*                                                                         *)
(* A shape is the sequence of its sizes, outermost first: dimension i of   *)
(* the code is shape[i + 1].  Indices and offsets begin at 0.              *)
(***************************************************************************)
EXTENDS Integers, Sequences

Larger(a, b) == IF a >= b THEN a ELSE b
Smaller(a, b) == IF a <= b THEN a ELSE b

\* The division of the code goes towards zero.
Quotient(a, b) == IF a >= 0 THEN a \div b ELSE -((-a) \div b)

Below(n) == 0 .. n - 1

-----------------------------------------------------------------------------
(* types.h *)

FlatSize(shape) ==
    LET Size[n \in 0 .. Len(shape)] == IF n = 0 THEN 1 ELSE Size[n - 1] * shape[n]
    IN  Size[Len(shape)]

ExtendedShape(n, shape) == [i \in 1 .. n - Len(shape) |-> 1] \o shape

FlatSizeSkipDim(shape, skip_dim) == FlatSize([shape EXCEPT ![skip_dim] = 1])

\* Debug builds check that the two are the same.
MatchingDim(shape1, i1, shape2, i2) == Smaller(shape1[i1], shape2[i2])

\* Debug builds check that the tensors it is said of have the same shape.
MatchingFlatSize(shape) == FlatSize(shape)

Offset(shape, i0, i1, i2, i3) == ((i0 * shape[2] + i1) * shape[3] + i2) * shape[4] + i3

\* Where an element is.
Coordinates(shape, at) ==
    [i \in DOMAIN shape |-> (at \div FlatSize(SubSeq(shape, i + 1, Len(shape)))) % shape[i]]

\* The index behind this one: dimensions at their ends go back to 0 and
\* carry into the next one outside.
NextIndex(dims, current) ==
    LET AtEnd(i) == current[i] + 1 = dims[i]
        Carried(i) == \A j \in i + 1 .. Len(dims) : AtEnd(j)
    IN  [goes_on |-> \E i \in DOMAIN dims : ~AtEnd(i),
         index |-> [i \in DOMAIN dims |->
                       IF ~Carried(i) THEN current[i]
                       ELSE IF AtEnd(i) THEN 0 ELSE current[i] + 1]]

\* Mutant: the axes count as sizes all the same.
ReducedOutputOffsetOfWhole(dims, index, axis) ==
    LET offset[n \in 0 .. Len(dims)] ==
            IF n = 0 THEN 0
            ELSE IF n - 1 \in axis THEN offset[n - 1] * dims[n]
            ELSE offset[n - 1] * dims[n] + index[n]
    IN  offset[Len(dims)]

ReducedOutputOffset(dims, index, axis) ==
    LET offset[n \in 0 .. Len(dims)] ==
            IF n = 0 THEN 0
            ELSE IF n - 1 \in axis THEN offset[n - 1]
            ELSE offset[n - 1] * dims[n] + index[n]
    IN  offset[Len(dims)]

-----------------------------------------------------------------------------
(* common.h: broadcasting by strides of 0. *)

CopyDimsToDesc(shape) ==
    [extents |-> shape,
     strides |-> [i \in DOMAIN shape |-> FlatSize(SubSeq(shape, i + 1, Len(shape)))]]

\* Mutant: an input of size 1 is not held where it is.
NdArrayDescsForElementwiseBroadcastMoving(n, shape0, shape1) ==
    [desc0 |-> CopyDimsToDesc(ExtendedShape(n, shape0)),
     desc1 |-> CopyDimsToDesc(ExtendedShape(n, shape1))]

\* Sizes that differ have to be 1 in one of the inputs.
NdArrayDescsForElementwiseBroadcast(n, shape0, shape1) ==
    LET e0 == ExtendedShape(n, shape0)
        e1 == ExtendedShape(n, shape1)
        Desc(own, other, Gives(_)) ==
            [extents |-> [i \in 1 .. n |-> IF Gives(i) THEN other[i] ELSE own[i]],
             strides |-> [i \in 1 .. n |-> IF Gives(i) THEN 0
                                           ELSE CopyDimsToDesc(own).strides[i]]]
    IN  [desc0 |-> Desc(e0, e1, LAMBDA i : e0[i] # e1[i] /\ e0[i] = 1),
         desc1 |-> Desc(e1, e0, LAMBDA i : e0[i] # e1[i] /\ e0[i] # 1)]

SubscriptToIndex(desc, index) ==
    LET Sum[n \in 0 .. Len(index)] ==
            IF n = 0 THEN 0 ELSE Sum[n - 1] + index[n] * desc.strides[n]
    IN  Sum[Len(index)]

\* NDOpsHelper: the indices the nested loops go through.
LoopIndices(extents) ==
    {index \in [DOMAIN extents -> UNION {Below(extents[i]) : i \in DOMAIN extents}] :
        \A i \in DOMAIN extents : index[i] < extents[i]}

-----------------------------------------------------------------------------
(* process_broadcast_shapes.h *)

\* How far a walk inwards-out from dimension i goes on.
Behind(i, Goes(_)) ==
    LET stops == {k \in 0 .. i : k = 0 \/ ~Goes(k)}
    IN  CHOOSE k \in stops : \A l \in stops : l <= k

\* Five runs of dimensions, each as long as it may be: equal, broadcast
\* from a, equal, broadcast from b, equal.
FivefoldPattern(a, b) ==
    LET Equal(i) == a[i] = b[i]
        to4 == Behind(Len(a), Equal)
        to3 == Behind(to4, LAMBDA i : a[i] = 1)
        to2 == Behind(to3, Equal)
        to1 == Behind(to2, LAMBDA i : b[i] = 1)
        to0 == Behind(to1, Equal)
    IN  [rest |-> to0,
         shape |-> <<FlatSize(SubSeq(b, to0 + 1, to1)), FlatSize(SubSeq(a, to1 + 1, to2)),
                     FlatSize(SubSeq(a, to2 + 1, to3)), FlatSize(SubSeq(b, to3 + 1, to4)),
                     FlatSize(SubSeq(b, to4 + 1, Len(b)))>>]

ProcessBroadcastShapes(shape0, shape1) ==
    LET n == Larger(Len(shape0), Len(shape1))
        e0 == ExtendedShape(n, shape0)
        e1 == ExtendedShape(n, shape1)
        innermost == Behind(n, LAMBDA i : e0[i] = e1[i])
        first == e0[innermost] = 1
        pattern == IF first THEN FivefoldPattern(e0, e1) ELSE FivefoldPattern(e1, e0)
    IN  IF e0 = e1 THEN [category |-> "kNonBroadcast", shape |-> <<>>]
        ELSE IF ~first /\ e1[innermost] # 1
        THEN [category |-> "kGenericBroadcast", shape |-> <<>>]
        ELSE [category |-> CASE pattern.rest > 0 -> "kGenericBroadcast"
                             [] pattern.rest = 0 /\ first -> "kFirstInputBroadcastsFast"
                             [] OTHER -> "kSecondInputBroadcastsFast",
              shape |-> pattern.shape]

-----------------------------------------------------------------------------
(* padding.h *)

\* Mutant: all of the padding goes in front.
ComputePaddingWithOffsetInFront(stride, dilation_rate, in_size, filter_size, out_size) ==
    Larger((out_size - 1) * stride + (filter_size - 1) * dilation_rate + 1 - in_size, 0)

ComputePaddingWithOffset(stride, dilation_rate, in_size, filter_size, out_size) ==
    LET effective_filter_size == (filter_size - 1) * dilation_rate + 1
        total_padding == (out_size - 1) * stride + effective_filter_size - in_size
    IN  Larger(total_padding, 0) \div 2

ComputeOutSize(padding, image_size, filter_size, stride, dilation_rate) ==
    LET effective_filter_size == (filter_size - 1) * dilation_rate + 1
    IN  CASE padding = "same" -> Quotient(image_size + stride - 1, stride)
          [] padding = "valid" -> Quotient(image_size + stride - effective_filter_size, stride)

\* One dimension of ComputePaddingHeightWidth; the offset is not used by
\* the reference kernels.
ComputePaddingOf(padding, stride, dilation_rate, in_size, filter_size) ==
    LET out_size == ComputeOutSize(padding, in_size, filter_size, stride, dilation_rate)
    IN  [out |-> out_size,
         pad |-> ComputePaddingWithOffset(stride, dilation_rate, in_size, filter_size, out_size)]
=============================================================================
