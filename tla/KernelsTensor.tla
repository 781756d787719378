----------------------------- MODULE KernelsTensor -----------------------------
(***************************************************************************)
(* The kernels that move whole tensors around: selections, joins, splits,  *)
(* padding, slices, reductions, the circular buffer and the suppression of *)
(* detections (micro/kernels/*.cc).  x.in2 is the type of the input that   *)
(* says how: axis, paddings, block shape, or of the further values.        *)
(***************************************************************************)
EXTENDS Kernel

-----------------------------------------------------------------------------
(* arg_min_max.cc *)

ArgMinMaxHelper(t) == Views({<<"in", t>>, <<"in2", "int32">>, <<"out", "int32">>})

ArgMinMaxEval(x) ==
    Requires(x.in2 = "int32" /\ x.out = "int32" /\ x.in \in Bytes \cup {Float})
    \oplus ArgMinMaxHelper(x.in)

ArgMinEval(x) == ArgMinMaxEval(x)
ArgMaxEval(x) == ArgMinMaxEval(x)

Register_ARG_MAX(x) == Registration(NoInit, NoPrepare, ArgMaxEval(x))
Register_ARG_MIN(x) == Registration(NoInit, NoPrepare, ArgMinEval(x))

-----------------------------------------------------------------------------
(* concatenation.cc: only the first input's type is compared. *)

CalculatePositiveAxis == Params({"axis"})

ConcatenationScales ==
    {"input_scale", "input_zeropoint", "output_zeropoint", "output_scale"}

ConcatenationPrepare(x) ==
    Params({"activation"})
    \oplus Requires(x.fits /\ x.in \in Bytes \cup {Float, "int32", "int64"} /\ x.out = x.in)
    \oplus CalculatePositiveAxis
    \oplus Sets({"axis", "inputs_count"})
    \oplus When(x.in \in Bytes, Sets(ConcatenationScales))

GetAllInputTensorData(t) == Views({<<"in", t>>, <<"in2", t>>})

EvalUnquantized(t) ==
    GetAllInputTensorData(t)
    \oplus Reads({"axis", "inputs_count"}) \oplus Views({<<"out", t>>})

EvalQuantizedUInt8 ==
    GetAllInputTensorData("uint8")
    \oplus Reads({"axis", "inputs_count"} \cup ConcatenationScales)
    \oplus Views({<<"out", "uint8">>})

ConcatenationEval(x) ==
    CASE x.out \in {Float, "int32", "int8", "int64"} -> EvalUnquantized(x.out)
      [] x.out = "uint8" -> EvalQuantizedUInt8
      [] OTHER -> Refuses

Register_CONCATENATION(x) ==
    Registration(AllocatesOpData, ConcatenationPrepare(x), ConcatenationEval(x))

-----------------------------------------------------------------------------
(* pack.cc, unpack.cc, split.cc, split_v.cc *)

PackImpl(t) == Binary(t)

PackEval(x) ==
    Requires(x.out \in Bytes \cup {Float, "int32", "int64"})
    \oplus Params({"values_count", "axis"})
    \oplus PackImpl(x.out)

Register_PACK(x) == Registration(NoInit, NoPrepare, PackEval(x))

UnpackImpl(t) == Unary(t)

UnpackEval(x) ==
    Requires(x.in \in Bytes \cup {Float, "int32"})
    \oplus Params({"num", "axis"})
    \oplus UnpackImpl(x.in)

Register_UNPACK(x) == Registration(NoInit, NoPrepare, UnpackEval(x))

SplitImpl(t) == Unary(t)

SplitPrepare(x) == Requires(x.fits)

\* The axis is taken for int32, whatever its type.
SplitEval(x) ==
    Views({<<"in2", "int32">>})
    \oplus Requires(x.in \in Bytes \cup {Float, "int16", "int32"})
    \oplus SplitImpl(x.in)

Register_SPLIT(x) == Registration(NoInit, SplitPrepare(x), SplitEval(x))

SplitVPrepare(x) == Requires(x.fits)

SplitVImpl(t) == Unary(t)

SplitVEval(x) ==
    Views({<<"in2", "int32">>})
    \oplus Requires(x.in \in {Float, "int8", "int16", "int32"})
    \oplus SplitVImpl(x.in)

Register_SPLIT_V(x) == Registration(NoInit, SplitVPrepare(x), SplitVEval(x))

-----------------------------------------------------------------------------
(* pad.cc: x.bias is the third input, the value to pad with. *)

PadShape ==
    {"resizing_category", "left_padding_count", "right_padding_count",
     "left_padding", "right_padding"}

PadPrepare(x) ==
    Requires(x.fits /\ x.in = x.out)
    \oplus Views({<<"in2", "int32">>})
    \oplus Sets(PadShape)
    \oplus When(x.in \in Bytes, Sets({"output_zero_point"}))

\* It asks for the value if there are three inputs, also when the third is
\* left out; the zero point stands in for it if there are two.
PadEval(x) ==
    Requires(x.in \in Bytes \cup {Float, "int32"})
    \oplus Strays(x.bias = "omitted")
    \oplus When(x.bias = "none" /\ x.in \in Bytes, Reads({"output_zero_point"}))
    \oplus Reads(PadShape) \oplus Unary(x.in)

Register_PAD(x) == Registration(AllocatesOpData, PadPrepare(x), PadEval(x))
Register_PADV2(x) == Registration(AllocatesOpData, PadPrepare(x), PadEval(x))

-----------------------------------------------------------------------------
(* reshape.cc, resize_nearest_neighbor.cc, shape.cc *)

ReshapeOutput(x) == Requires(x.fits /\ x.in = x.out)

ReshapePrepare(x) == ReshapeOutput(x)

\* Bytes are copied: the types are not asked for.
ReshapeEval(x) == Views({<<"in", x.in>>, <<"out", x.out>>})

Register_RESHAPE(x) == Registration(NoInit, ReshapePrepare(x), ReshapeEval(x))

\* Like ZerosLikePrepare it changes a type that is forgotten.
ResizeNearestNeighborPrepare(x) == Requires(x.fits /\ x.in2 = "int32")

ResizeNearestNeighborEval(x) ==
    Params({"align_corners"})
    \oplus Requires(x.out \in Bytes \cup {Float})
    \oplus Views({<<"in", x.out>>, <<"in2", "int32">>, <<"out", x.out>>})

Register_RESIZE_NEAREST_NEIGHBOR(x) ==
    Registration(NoInit, ResizeNearestNeighborPrepare(x), ResizeNearestNeighborEval(x))

ExtractShape == Views({<<"out", "int32">>})

ShapePrepare(x) == Requires(x.fits)

ShapeEval(x) == Requires(x.out = "int32") \oplus ExtractShape

Register_SHAPE(x) == Registration(NoInit, ShapePrepare(x), ShapeEval(x))

-----------------------------------------------------------------------------
(* space_to_batch_nd.cc, batch_to_space_nd.cc *)

SpaceToBatchPrepare(x) ==
    Sets({"output_offset"}) \oplus Requires(x.fits /\ x.in = x.out)

SpaceToBatchEval(x) ==
    Requires(x.in \in {Float, "int8"})
    \oplus Reads({"output_offset"})
    \oplus Views({<<"in", x.in>>, <<"in2", "int32">>, <<"out", x.in>>})

Register_SPACE_TO_BATCH_ND(x) ==
    Registration(AllocatesOpData, SpaceToBatchPrepare(x), SpaceToBatchEval(x))

BatchToSpacePrepare(x) == Requires(x.fits /\ x.in = x.out)

BatchToSpaceEval(x) ==
    Requires(x.in \in {Float, "int8"})
    \oplus Views({<<"in", x.in>>, <<"in2", "int32">>, <<"out", x.in>>})

Register_BATCH_TO_SPACE_ND(x) ==
    Registration(NoInit, BatchToSpacePrepare(x), BatchToSpaceEval(x))

-----------------------------------------------------------------------------
(* strided_slice.cc: begin, end and strides are taken for int32. *)

StridedSliceParams ==
    {"start_indices_count", "stop_indices_count", "strides_count", "start_indices",
     "stop_indices", "strides", "begin_mask", "ellipsis_mask", "end_mask",
     "new_axis_mask", "shrink_axis_mask"}

BuildStridedSliceParams ==
    Views({<<"in2", "int32">>}) \oplus Params({"begin_mask", "end_mask", "shrink_axis_mask"})

CheckOutputSize(x) == BuildStridedSliceParams \oplus Requires(x.fits)

StridedSlicePrepare(x) ==
    Requires(x.fits) \oplus BuildStridedSliceParams \oplus Sets(StridedSliceParams)
    \oplus CheckOutputSize(x)

StridedSliceEval(x) ==
    Requires(x.out \in Bytes \cup {Float})
    \oplus Reads({"start_indices", "stop_indices", "strides", "begin_mask", "end_mask",
                  "shrink_axis_mask"})
    \oplus Unary(x.out)

Register_STRIDED_SLICE(x) ==
    Registration(AllocatesOpData, StridedSlicePrepare(x), StridedSliceEval(x))

-----------------------------------------------------------------------------
(* reduce.cc: what the branches read that depend on the axes, keep_dims and *)
(* the quantization counts as read.                                         *)

PrepareSimple(x) ==
    Requires(x.fits /\ x.in2 = "int32")
    \oplus When(x.in = "int8", Sets({"multiplier", "shift"}))

\* The result of the requests is not looked at.
PrepareMax(x) ==
    PrepareSimple(x)
    \oplus Sets({"input_scale", "output_scale", "num_output_elements", "temp_buffer_idx",
                 "resolved_axis_idx"})
    \oplus Requests(2)

MeanQuantization == {"input_zp", "input_scale", "output_zp", "output_scale"}

\* Mutant: the quantization of bytes is taken for that of int8 alone.
PrepareMeanOrSumInt8(x) ==
    When(x.in = "int8", Sets({"multiplier", "shift"}) \oplus Sets(MeanQuantization))
    \oplus When(x.in \in Bytes, Requests(1) \oplus Sets({"temp_buffer_idx"}))
    \oplus PrepareSimple(x)

PrepareMeanOrSum(x) ==
    When(x.in = "int8", Sets({"multiplier", "shift"}))
    \oplus When(x.in \in Bytes, Requests(1) \oplus Sets({"temp_buffer_idx"} \cup MeanQuantization))
    \oplus PrepareSimple(x)

ResolveAxis == Views({<<"in2", "int32">>})

\* The output's type is not compared with the input's.
EvalMean(x) ==
    ResolveAxis
    \oplus Requires(x.in \in Bytes \cup {Float})
    \oplus Params({"keep_dims"})
    \oplus When(x.in = "int8", Reads({"multiplier", "shift"}))
    \oplus When(x.in \in Bytes, Reads({"temp_buffer_idx"} \cup MeanQuantization))
    \oplus Unary(x.in)

EvalMax(x) ==
    Requires(x.in = x.out)
    \oplus Reads({"temp_buffer_idx", "resolved_axis_idx"})
    \oplus Requires(x.in \in {Float, "int8"})
    \oplus When(x.in = "int8", Reads(MeanQuantization) \oplus Requires(x.fits))
    \oplus Params({"keep_dims"})
    \oplus Views({<<"in", x.in>>, <<"in2", "int32">>, <<"out", x.in>>})

Register_MEAN(x) == Registration(AllocatesOpData, PrepareMeanOrSum(x), EvalMean(x))
Register_REDUCE_MAX(x) == Registration(AllocatesOpData, PrepareMax(x), EvalMax(x))

-----------------------------------------------------------------------------
(* circular_buffer.cc: x.flag says that this call ends a cycle. *)

CircularBufferPrepare(x) ==
    Requires(x.fits /\ x.in = x.out /\ x.in = "int8")
    \oplus Sets({"cycles_max", "cycles_until_run"})

EvalInt8 == Unary("int8")

\* Each call shifts the buffer; the ones before the last stop the inference.
CircularBufferEval(x) ==
    Requires(x.in = "int8") \oplus EvalInt8 \oplus Reads({"cycles_until_run"})
    \oplus (IF x.flag THEN Reads({"cycles_max"}) ELSE Aborts)

Register_CIRCULAR_BUFFER(x) ==
    Registration(AllocatesOpData, CircularBufferPrepare(x), CircularBufferEval(x))

-----------------------------------------------------------------------------
(* detection_postprocess.cc: in are the encoded boxes, in2 the predictions; *)
(* x.flag is the option use_regular_nms.                                    *)

DetectionInit ==
    AllocatesOpData
    \oplus Sets({"max_detections", "max_classes_per_detection", "detections_per_class",
                 "use_regular_non_max_suppression", "non_max_suppression_score_threshold",
                 "intersection_over_union_threshold", "num_classes", "scale_values"})

DetectionBuffers ==
    {"active_candidate_idx", "decoded_boxes_idx", "scores_idx", "score_buffer_idx",
     "keep_scores_idx", "scores_after_regular_non_max_suppression_idx",
     "sorted_values_idx", "keep_indices_idx", "sorted_indices_idx", "buffer_idx",
     "selected_idx"}

DetectionPrepare(x) ==
    Requires(x.fits)
    \oplus Reads({"num_classes", "max_detections"})
    \oplus Sets({"input_box_encodings", "input_class_predictions", "input_anchors"}
                \cup DetectionBuffers)
    \oplus Requests(11)

\* The anchors are taken for the type of the boxes.
DecodeCenterSizeBoxes(x) ==
    Reads({"scale_values"})
    \oplus Requires(x.in \in {"uint8", Float})
    \oplus When(x.in = "uint8", Reads({"input_box_encodings", "input_anchors"}))
    \oplus Reads({"decoded_boxes_idx"}) \oplus Views({<<"in", x.in>>})

NonMaxSuppressionSingleClassHelper ==
    Reads({"non_max_suppression_score_threshold", "intersection_over_union_threshold",
           "decoded_boxes_idx", "keep_indices_idx", "keep_scores_idx",
           "sorted_indices_idx", "active_candidate_idx"})

NonMaxSuppressionMultiClassRegularHelper ==
    Reads({"num_classes", "detections_per_class", "max_detections", "score_buffer_idx",
           "buffer_idx", "scores_after_regular_non_max_suppression_idx",
           "sorted_indices_idx", "sorted_values_idx", "selected_idx", "decoded_boxes_idx"})
    \oplus NonMaxSuppressionSingleClassHelper \oplus Views({<<"out", Float>>})

NonMaxSuppressionMultiClassFastHelper ==
    Reads({"num_classes", "max_classes_per_detection", "score_buffer_idx", "buffer_idx",
           "selected_idx", "max_detections", "decoded_boxes_idx"})
    \oplus NonMaxSuppressionSingleClassHelper \oplus Views({<<"out", Float>>})

DequantizeClassPredictions ==
    Reads({"input_class_predictions"}) \oplus Views({<<"in2", "uint8">>})

NonMaxSuppressionMultiClass(x) ==
    Reads({"num_classes"})
    \oplus Requires(x.in2 \in {"uint8", Float})
    \oplus (IF x.in2 = "uint8" THEN Reads({"scores_idx"}) \oplus DequantizeClassPredictions
            ELSE Views({<<"in2", Float>>}))
    \oplus Reads({"use_regular_non_max_suppression"})
    \oplus (IF x.flag THEN NonMaxSuppressionMultiClassRegularHelper
            ELSE NonMaxSuppressionMultiClassFastHelper)

DetectionEval(x) == DecodeCenterSizeBoxes(x) \oplus NonMaxSuppressionMultiClass(x)

Register_DETECTION_POSTPROCESS(x) ==
    Registration(DetectionInit, DetectionPrepare(x), DetectionEval(x))
=============================================================================
