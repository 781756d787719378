------------------------- MODULE FlatbufferConversions -------------------------
(***************************************************************************)
(* core/api/flatbuffer_conversions.cc: the functions that turn the options *)
(* of an operator in the model file into the C structure its kernel reads  *)
(* (c/builtin_op_data.h), and ParseOpDataTfLite, which chooses among them  *)
(* by the operator where memory is not static.                             *)
(*                                                                         *)
(* A parser is the structure it allocates, zeroed, the fields of it that   *)
(* it copies when the operator has options of its kind, and whether it     *)
(* refuses what it does not know.                                          *)
(***************************************************************************)
Copies(struct, fields) == [struct |-> struct, fields |-> fields, refuses |-> FALSE]
CopiesKnown(struct, fields) == [struct |-> struct, fields |-> fields, refuses |-> TRUE]

\* known: every value in the options is one the parser knows; LSTM wants
\* options, too.
Parses(parser, known) == parser.refuses => known

\* The parsers of the operators without options: they leave a null pointer.
NoParameters == Copies("none", {})

-----------------------------------------------------------------------------
(* The structures of c/builtin_op_data.h, without TfLite and Params in their   *)
(* names, and their fields.                                                    *)

PaddingToConcatenation ==
    [MirrorPadding |-> {"mode"},
     Conv |->
         {"padding", "stride_width", "stride_height", "activation",
          "dilation_width_factor", "dilation_height_factor"},
     Conv3D |->
         {"padding", "stride_width", "stride_height", "stride_depth",
          "dilation_width_factor", "dilation_height_factor", "dilation_depth_factor",
          "activation"},
     Pool |->
         {"padding", "stride_width", "stride_height", "filter_width", "filter_height",
          "activation", "computed"},
     DepthwiseConv |->
         {"padding", "stride_width", "stride_height", "depth_multiplier", "activation",
          "dilation_width_factor", "dilation_height_factor"},
     SVDF |-> {"rank", "activation", "asymmetric_quantize_inputs"},
     RNN |-> {"activation", "asymmetric_quantize_inputs"},
     SequenceRNN |-> {"time_major", "activation", "asymmetric_quantize_inputs"},
     BidirectionalSequenceRNN |->
         {"time_major", "activation", "merge_outputs", "asymmetric_quantize_inputs"},
     FullyConnected |->
         {"activation", "weights_format", "keep_num_dims", "asymmetric_quantize_inputs"},
     LSHProjection |-> {"type"}, Softmax |-> {"beta"},
     Concatenation |-> {"axis", "activation"}]
AddToCast ==
    [Add |-> {"activation", "pot_scale_int16"},
     BatchMatMul |-> {"adj_x", "adj_y", "asymmetric_quantize_inputs"},
     Mul |-> {"activation"}, Sub |-> {"activation", "pot_scale_int16"},
     Div |-> {"activation"}, L2Norm |-> {"activation"},
     LocalResponseNorm |-> {"radius", "bias", "alpha", "beta"},
     LSTM |->
         {"activation", "cell_clip", "proj_clip", "kernel_type",
          "asymmetric_quantize_inputs"},
     UnidirectionalSequenceLSTM |->
         {"activation", "cell_clip", "proj_clip", "time_major",
          "asymmetric_quantize_inputs"},
     BidirectionalSequenceLSTM |->
         {"activation", "cell_clip", "proj_clip", "merge_outputs", "time_major",
          "asymmetric_quantize_inputs"},
     ResizeBilinear |-> {"align_corners", "half_pixel_centers"},
     ResizeNearestNeighbor |-> {"align_corners", "half_pixel_centers"},
     Reshape |-> {"shape", "num_dimensions"},
     SkipGram |-> {"ngram_size", "max_skip_size", "include_all_ngrams"},
     SpaceToDepth |-> {"block_size"}, DepthToSpace |-> {"block_size"},
     Cast |-> {"in_data_type", "out_data_type"}]
CombinerToCallOnce ==
    [EmbeddingLookupSparse |-> {"combiner"}, Gather |-> {"axis"},
     Reducer |-> {"keep_dims"}, Split |-> {"num_splits"}, SplitV |-> {"num_splits"},
     Squeeze |-> {"squeeze_dims", "num_squeeze_dims"},
     StridedSlice |->
         {"begin_mask", "end_mask", "ellipsis_mask", "new_axis_mask", "shrink_axis_mask"},
     ArgMax |-> {"output_type"}, ArgMin |-> {"output_type"},
     TransposeConv |-> {"padding", "stride_width", "stride_height"},
     SparseToDense |-> {"validate_indices"}, Shape |-> {"out_type"},
     FakeQuant |-> {"min", "max", "num_bits", "narrow_range"},
     Pack |-> {"values_count", "axis"}, OneHot |-> {"axis"}, Unpack |-> {"num", "axis"},
     LeakyRelu |-> {"alpha"}, Unique |-> {"index_out_type"},
     ReverseSequence |-> {"seq_dim", "batch_dim"},
     If |-> {"then_subgraph_index", "else_subgraph_index"},
     While |-> {"cond_subgraph_index", "body_subgraph_index"},
     Cumsum |-> {"exclusive", "reverse"}, CallOnce |-> {"init_subgraph_index"}]

FieldsOf(struct) ==
    CASE struct \in DOMAIN PaddingToConcatenation -> PaddingToConcatenation[struct]
      [] struct \in DOMAIN AddToCast -> AddToCast[struct]
      [] struct \in DOMAIN CombinerToCallOnce -> CombinerToCallOnce[struct]

\* All fields but those a pooling kernel computes for itself are copied.
CopiesItsStructure(parser) ==
    parser # NoParameters => parser.fields = FieldsOf(parser.struct) \ {"computed"}

-----------------------------------------------------------------------------
(* The parsers that are functions of their own. *)

ParseAdd == Copies("Add", {"activation", "pot_scale_int16"})
ParseArgMax == CopiesKnown("ArgMax", {"output_type"})
ParseArgMin == CopiesKnown("ArgMin", {"output_type"})
ParseBatchMatMul == Copies("BatchMatMul", {"adj_x", "adj_y", "asymmetric_quantize_inputs"})
ParseCast == CopiesKnown("Cast", {"in_data_type", "out_data_type"})
ParseConcatenation == Copies("Concatenation", {"activation", "axis"})
ParseConv2D ==
    Copies("Conv",
        {"padding", "stride_width", "stride_height", "activation",
         "dilation_width_factor", "dilation_height_factor"})
ParseDepthToSpace == Copies("DepthToSpace", {"block_size"})
ParseDepthwiseConv2D ==
    Copies("DepthwiseConv",
        {"padding", "stride_width", "stride_height", "depth_multiplier", "activation",
         "dilation_width_factor", "dilation_height_factor"})
ParseDiv == Copies("Div", {"activation"})
ParseFullyConnected ==
    CopiesKnown("FullyConnected",
        {"activation", "keep_num_dims", "asymmetric_quantize_inputs", "weights_format"})
ParseGather == Copies("Gather", {"axis"})
ParseL2Normalization == Copies("L2Norm", {"activation"})
ParseLeakyRelu == Copies("LeakyRelu", {"alpha"})
ParseMul == Copies("Mul", {"activation"})
ParsePack == Copies("Pack", {"values_count", "axis"})
ParsePool ==
    Copies("Pool",
        {"padding", "stride_width", "stride_height", "filter_width", "filter_height",
         "activation"})
ParseReducer == Copies("Reducer", {"keep_dims"})
ParseReshape == CopiesKnown("Reshape", {"shape", "num_dimensions"})
ParseResizeBilinear == Copies("ResizeBilinear", {"align_corners", "half_pixel_centers"})
ParseResizeNearestNeighbor ==
    Copies("ResizeNearestNeighbor", {"align_corners", "half_pixel_centers"})
ParseShape == CopiesKnown("Shape", {"out_type"})
ParseSoftmax == Copies("Softmax", {"beta"})
ParseSpaceToDepth == Copies("SpaceToDepth", {"block_size"})
ParseSplit == Copies("Split", {"num_splits"})
ParseSplitV == Copies("SplitV", {"num_splits"})
ParseStridedSlice ==
    Copies("StridedSlice",
        {"begin_mask", "end_mask", "ellipsis_mask", "new_axis_mask", "shrink_axis_mask"})
ParseSub == Copies("Sub", {"activation", "pot_scale_int16"})
ParseSvdf == Copies("SVDF", {"rank", "activation", "asymmetric_quantize_inputs"})
ParseTransposeConv == Copies("TransposeConv", {"padding", "stride_width", "stride_height"})
ParseUnpack == Copies("Unpack", {"num", "axis"})

-----------------------------------------------------------------------------
(* The parsers that are cases of ParseOpDataTfLite. *)

LshProjection == Copies("LSHProjection", {"type"})
SequenceRnn == Copies("SequenceRNN", {"activation", "time_major", "asymmetric_quantize_inputs"})
BidirectionalSequenceRnn ==
    Copies("BidirectionalSequenceRNN",
        {"activation", "time_major", "merge_outputs", "asymmetric_quantize_inputs"})
Rnn == Copies("RNN", {"activation", "asymmetric_quantize_inputs"})
EmbeddingLookupSparse == Copies("EmbeddingLookupSparse", {"combiner"})
LocalResponseNormalization ==
    Copies("LocalResponseNorm", {"radius", "bias", "alpha", "beta"})
Lstm ==
    CopiesKnown("LSTM",
        {"activation", "cell_clip", "proj_clip", "kernel_type", "asymmetric_quantize_inputs"})
UnidirectionalSequenceLstm ==
    Copies("UnidirectionalSequenceLSTM",
        {"activation", "cell_clip", "proj_clip", "time_major", "asymmetric_quantize_inputs"})
BidirectionalSequenceLstm ==
    Copies("BidirectionalSequenceLSTM",
        {"activation", "cell_clip", "proj_clip", "merge_outputs", "time_major",
         "asymmetric_quantize_inputs"})
SkipGram == Copies("SkipGram", {"ngram_size", "max_skip_size", "include_all_ngrams"})
Squeeze == CopiesKnown("Squeeze", {"squeeze_dims", "num_squeeze_dims"})
SparseToDense == Copies("SparseToDense", {"validate_indices"})
FakeQuant == Copies("FakeQuant", {"min", "max", "num_bits", "narrow_range"})
OneHot == Copies("OneHot", {"axis"})
MirrorPad == Copies("MirrorPadding", {"mode"})
Unique == Copies("Unique", {"index_out_type"})
ReverseSequence == Copies("ReverseSequence", {"seq_dim", "batch_dim"})
IfThenElse == Copies("If", {"then_subgraph_index", "else_subgraph_index"})
While == Copies("While", {"cond_subgraph_index", "body_subgraph_index"})
CallOnce == Copies("CallOnce", {"init_subgraph_index"})
Cumsum == Copies("Cumsum", {"exclusive", "reverse"})
Conv3D ==
    Copies("Conv3D",
        {"padding", "activation", "stride_depth", "stride_height", "stride_width",
         "dilation_depth_factor", "dilation_height_factor", "dilation_width_factor"})

-----------------------------------------------------------------------------
(* ParseOpDataTfLite. *)

AbsToLeakyRelu ==
    [ADD |-> ParseAdd, ARG_MAX |-> ParseArgMax, ARG_MIN |-> ParseArgMin,
     AVERAGE_POOL_2D |-> ParsePool, BATCH_MATMUL |-> ParseBatchMatMul,
     CONCATENATION |-> ParseConcatenation, CONV_2D |-> ParseConv2D,
     DEPTH_TO_SPACE |-> ParseDepthToSpace, DEPTHWISE_CONV_2D |-> ParseDepthwiseConv2D,
     DIV |-> ParseDiv, FULLY_CONNECTED |-> ParseFullyConnected,
     L2_NORMALIZATION |-> ParseL2Normalization, L2_POOL_2D |-> ParsePool,
     LEAKY_RELU |-> ParseLeakyRelu]
LessToRelu6 ==
    [MAX_POOL_2D |-> ParsePool, MEAN |-> ParseReducer, MUL |-> ParseMul, PACK |-> ParsePack,
     REDUCE_ANY |-> ParseReducer, REDUCE_MAX |-> ParseReducer, REDUCE_MIN |-> ParseReducer,
     REDUCE_PROD |-> ParseReducer]
ReshapeToCast ==
    [RESHAPE |-> ParseReshape, RESIZE_BILINEAR |-> ParseResizeBilinear,
     RESIZE_NEAREST_NEIGHBOR |-> ParseResizeNearestNeighbor, SHAPE |-> ParseShape,
     SOFTMAX |-> ParseSoftmax, SPACE_TO_DEPTH |-> ParseSpaceToDepth, SPLIT |-> ParseSplit,
     SPLIT_V |-> ParseSplitV, STRIDED_SLICE |-> ParseStridedSlice, SUB |-> ParseSub,
     SUM |-> ParseReducer, SVDF |-> ParseSvdf, TRANSPOSE_CONV |-> ParseTransposeConv,
     UNPACK |-> ParseUnpack, CAST |-> ParseCast]
LshProjectionToConv3D ==
    [LSH_PROJECTION |-> LshProjection, UNIDIRECTIONAL_SEQUENCE_RNN |-> SequenceRnn,
     BIDIRECTIONAL_SEQUENCE_RNN |-> BidirectionalSequenceRnn, RNN |-> Rnn,
     EMBEDDING_LOOKUP_SPARSE |-> EmbeddingLookupSparse,
     LOCAL_RESPONSE_NORMALIZATION |-> LocalResponseNormalization, LSTM |-> Lstm,
     UNIDIRECTIONAL_SEQUENCE_LSTM |-> UnidirectionalSequenceLstm,
     BIDIRECTIONAL_SEQUENCE_LSTM |-> BidirectionalSequenceLstm, SKIP_GRAM |-> SkipGram,
     GATHER |-> ParseGather, SQUEEZE |-> Squeeze, SPARSE_TO_DENSE |-> SparseToDense,
     FAKE_QUANT |-> FakeQuant, ONE_HOT |-> OneHot, MIRROR_PAD |-> MirrorPad,
     UNIQUE |-> Unique, REVERSE_SEQUENCE |-> ReverseSequence, WHILE |-> While,
     CALL_ONCE |-> CallOnce, CUMSUM |-> Cumsum, CONV_3D |-> Conv3D]

\* The operators whose functions return at once, in the same three stretches.
WithoutOptionsToLeakyRelu ==
    {"ABS", "ADD_N", "BATCH_TO_SPACE_ND", "CEIL", "DEQUANTIZE", "ELU", "EXP", "EXPAND_DIMS",
     "FILL", "FLOOR", "FLOOR_DIV", "FLOOR_MOD", "GATHER_ND", "GREATER", "GREATER_EQUAL",
     "HARD_SWISH"}
WithoutOptionsToRelu6 ==
    {"LESS", "LESS_EQUAL", "LOG", "LOGICAL_AND", "LOGICAL_NOT", "LOGICAL_OR", "LOGISTIC",
     "MAXIMUM", "MINIMUM", "NEG", "NOT_EQUAL", "PAD", "PADV2", "POW", "PRELU", "QUANTIZE",
     "RELU", "RELU6"}
WithoutOptionsToCast ==
    {"ROUND", "RSQRT", "SIN", "SPACE_TO_BATCH_ND", "SQRT", "SQUARE", "TANH", "ZEROS_LIKE"}
\* The operators that are answered without a function.
WithoutStructure ==
    {"HASHTABLE_LOOKUP", "CALL", "CONCAT_EMBEDDINGS", "COS", "CUSTOM", "EMBEDDING_LOOKUP",
     "EQUAL", "LOG_SOFTMAX", "MATRIX_DIAG", "MATRIX_SET_DIAG", "RELU_N1_TO_1", "SELECT",
     "SELECT_V2", "SLICE", "TILE", "TOPK_V2", "TRANSPOSE", "RANGE", "SQUARED_DIFFERENCE",
     "REVERSE_V2", "WHERE", "RANK", "NON_MAX_SUPPRESSION_V4", "NON_MAX_SUPPRESSION_V5",
     "SCATTER_ND", "DENSIFY", "SEGMENT_SUM", "BROADCAST_TO", "RFFT2D", "IMAG", "REAL",
     "COMPLEX_ABS"}
WithoutOptions ==
    WithoutOptionsToLeakyRelu \cup WithoutOptionsToRelu6 \cup WithoutOptionsToCast
        \cup WithoutStructure

\* It returns an error for a delegate and for the placeholder of the enumeration.
ParsedByTfLite ==
    WithoutOptions \cup DOMAIN AbsToLeakyRelu \cup DOMAIN LessToRelu6
        \cup DOMAIN ReshapeToCast \cup DOMAIN LshProjectionToConv3D \cup {"IF"}
BuiltinOperators == ParsedByTfLite \cup {"DELEGATE", "PLACEHOLDER_FOR_GREATER_OP_CODES"}

ParseOpDataTfLite(op) ==
    CASE op \in WithoutOptions -> NoParameters
      [] op \in DOMAIN AbsToLeakyRelu -> AbsToLeakyRelu[op]
      [] op \in DOMAIN LessToRelu6 -> LessToRelu6[op]
      [] op \in DOMAIN ReshapeToCast -> ReshapeToCast[op]
      [] op \in DOMAIN LshProjectionToConv3D -> LshProjectionToConv3D[op]
      [] op = "IF" -> IfThenElse
=============================================================================
