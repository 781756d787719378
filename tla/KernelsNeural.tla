----------------------------- MODULE KernelsNeural -----------------------------
(***************************************************************************)
(* The kernels of the layers of a network and of their activations:        *)
(* convolutions, fully connected, SVDF, pooling, softmax, ReLU, logistic,  *)
(* tanh, hard swish, L2 normalization and PReLU (micro/kernels/*.cc).      *)
(* x.in2 is the type of the filter, the weights or the slopes.             *)
(***************************************************************************)
EXTENDS Kernel

ZeroPoints == {"input_zero_point", "filter_zero_point", "output_zero_point"}
Rescaling == {"output_multiplier", "output_shift"}
PerChannel == {"per_channel_output_multiplier", "per_channel_output_shift"}
ActivationRange == {"output_activation_min", "output_activation_max"}
Strides == {"stride_width", "stride_height"}
Dilations == {"dilation_width_factor", "dilation_height_factor"}

\* It sets the range of a fused activation for the types it knows.
CalculateActivationRangeQuantized(x, range) ==
    Requires(x.out \in Bytes \cup {"int16"}) \oplus Sets(range)

PopulateConvolutionQuantizationParams(x) ==
    Requires(x.fits)
    \oplus Sets(PerChannel)
    \oplus When(x.in = "uint8", Sets(Rescaling))
    \oplus When(x.in \in Bytes \cup {"int16"},
                CalculateActivationRangeQuantized(x, ActivationRange))

\* The third input, asked for if the node has three: the data of a missing
\* tensor is taken all the same.
Bias(x) == IF x.bias = "none" THEN Halts ELSE Strays(x.bias = "omitted")

-----------------------------------------------------------------------------
(* conv.cc *)

ConvCalculateOpData(x) ==
    Params({"padding"} \cup Strides \cup Dilations)
    \oplus Sets({"padding"})
    \oplus When(x.in # Float,
                Params({"activation"}) \oplus PopulateConvolutionQuantizationParams(x))

ConvPrepare(x) ==
    When(x.in = "int8", Requires(x.fits))
    \oplus ConvCalculateOpData(x)
    \oplus Sets(ZeroPoints)

ConvEvalQuantized(x) ==
    Params({"padding"} \cup Strides \cup Dilations)
    \oplus Reads({"padding"} \cup ZeroPoints \cup Rescaling \cup ActivationRange)
    \oplus Bias(x) \oplus Binary("uint8")

ConvEvalQuantizedPerChannel(x) ==
    Params(Strides \cup Dilations)
    \oplus Reads({"padding", "input_zero_point", "output_zero_point"}
                 \cup PerChannel \cup ActivationRange)
    \oplus Bias(x) \oplus Binary("int8")

ConvEvalFloat(x) ==
    Params({"activation", "padding"} \cup Strides \cup Dilations)
    \oplus Reads({"padding"})
    \oplus Bias(x) \oplus Binary(Float)

ConvEval(x) ==
    Requires(x.in = x.out /\ x.in = x.in2)
    \oplus CASE x.in = Float -> ConvEvalFloat(x)
             [] x.in = "int8" -> ConvEvalQuantizedPerChannel(x)
             [] x.in = "uint8" -> ConvEvalQuantized(x)
             [] OTHER -> Refuses

Register_CONV_2D(x) == Registration(AllocatesOpData, ConvPrepare(x), ConvEval(x))

-----------------------------------------------------------------------------
(* depthwise_conv.cc: nobody compares the types of its tensors. *)

DepthwiseConvCalculateOpData(x) ==
    Params({"padding"} \cup Strides)
    \oplus Sets({"padding"})
    \oplus When(x.in # Float,
                Params({"activation"}) \oplus PopulateConvolutionQuantizationParams(x))

DepthwiseConvPrepare(x) ==
    When(x.in = "int8", Requires(x.fits))
    \oplus DepthwiseConvCalculateOpData(x)
    \oplus Sets(ZeroPoints)

DepthwiseConvEvalFloat(x) ==
    Params({"activation", "depth_multiplier"} \cup Strides \cup Dilations)
    \oplus Reads({"padding"})
    \oplus Bias(x) \oplus Binary(Float)

\* The range is that of int8, whatever the activation.
DepthwiseConvEvalQuantizedPerChannel(x) ==
    Params({"depth_multiplier"} \cup Strides \cup Dilations)
    \oplus Reads({"padding", "input_zero_point", "output_zero_point"} \cup PerChannel)
    \oplus Bias(x) \oplus Binary("int8")

DepthwiseConvEvalQuantized(x) ==
    Params({"depth_multiplier"} \cup Strides \cup Dilations)
    \oplus Reads({"padding"} \cup ZeroPoints \cup Rescaling \cup ActivationRange)
    \oplus Bias(x) \oplus Binary("uint8")

DepthwiseConvEval(x) ==
    CASE x.in = Float -> DepthwiseConvEvalFloat(x)
      [] x.in = "int8" -> DepthwiseConvEvalQuantizedPerChannel(x)
      [] x.in = "uint8" -> DepthwiseConvEvalQuantized(x)
      [] OTHER -> Refuses

Register_DEPTHWISE_CONV_2D(x) ==
    Registration(AllocatesOpData, DepthwiseConvPrepare(x), DepthwiseConvEval(x))

-----------------------------------------------------------------------------
(* fully_connected.cc, fully_connected_common.cc *)

CalculateOpDataFullyConnected(x) ==
    When(x.in # Float,
         Requires(x.fits)
         \oplus Sets(Rescaling \cup ZeroPoints)
         \oplus CalculateActivationRangeQuantized(x, ActivationRange))

FullyConnectedPrepare(x) ==
    Requires(x.in = x.out /\ x.in = x.in2)
    \oplus Params({"activation"})
    \oplus CalculateOpDataFullyConnected(x)

FullyConnectedParamsQuantized == Reads(ZeroPoints \cup Rescaling \cup ActivationRange)

FullyConnectedParamsFloat == Params({"activation"})

\* The bias is asked for however many inputs there are.
FullyConnectedEval(x) ==
    Strays(x.bias # "given")
    \oplus CASE x.in = Float -> FullyConnectedParamsFloat \oplus Binary(Float)
             [] x.in \in Bytes -> FullyConnectedParamsQuantized \oplus Binary(x.in)
             [] OTHER -> Refuses

Register_FULLY_CONNECTED(x) ==
    Registration(AllocatesOpData, FullyConnectedPrepare(x), FullyConnectedEval(x))
-----------------------------------------------------------------------------
(* pooling.cc *)

Window == {"stride_width", "stride_height", "filter_width", "filter_height"}

PoolingCalculateOpData == Params({"padding"} \cup Window) \oplus Sets({"padding"})

\* It does not look at whether there is a range for the output's type.
PoolingPrepare(x) ==
    PoolingCalculateOpData
    \oplus When(x.in = Float,
                Params({"activation"})
                \oplus Sets({"activation_min_f32", "activation_max_f32"}))
    \oplus When(x.in \in Bytes,
                Params({"activation"})
                \oplus When(x.out \in Bytes \cup {"int16"},
                            Sets({"activation_min", "activation_max"})))

AverageEvalFloat ==
    Params(Window) \oplus Reads({"padding", "activation_min_f32", "activation_max_f32"})
    \oplus Unary(Float)

AverageEvalQuantized(x) ==
    Params(Window) \oplus Reads({"padding", "activation_min", "activation_max"})
    \oplus Unary(x.in)

AverageEval(x) ==
    CASE x.in = Float -> AverageEvalFloat
      [] x.in \in Bytes -> AverageEvalQuantized(x)
      [] OTHER -> Refuses

MaxEvalFloat ==
    Params(Window) \oplus Reads({"padding", "activation_min_f32", "activation_max_f32"})
    \oplus Unary(Float)

MaxEvalQuantized(x) ==
    Params(Window) \oplus Reads({"padding", "activation_min", "activation_max"})
    \oplus Unary(x.in)

MaxEval(x) ==
    CASE x.in = Float -> MaxEvalFloat
      [] x.in \in Bytes -> MaxEvalQuantized(x)
      [] OTHER -> Refuses

Register_AVERAGE_POOL_2D(x) ==
    Registration(AllocatesOpData, PoolingPrepare(x), AverageEval(x))
Register_MAX_POOL_2D(x) ==
    Registration(AllocatesOpData, PoolingPrepare(x), MaxEval(x))

-----------------------------------------------------------------------------
(* svdf.cc, svdf_common.cc: five inputs; the types of the time weights,    *)
(* the state and the bias are part of x.fits.                              *)

\* The scale of the bias is looked at also when there is none.
SvdfPrepareInteger(x) ==
    Requires(x.in2 = "int8" /\ x.fits /\ x.out = "int8")
    \oplus When(x.bias = "omitted", Halts)
    \oplus Sets({"effective_scale_1_a", "effective_scale_1_b", "effective_scale_2_a",
                 "effective_scale_2_b", "input_zero_point", "output_zero_point",
                 "scratch_tensor_index", "scratch_output_tensor_index"})
    \oplus Requests(2)

SvdfPrepareFloat(x) ==
    Requires(x.in2 = Float /\ x.fits /\ x.out = Float)
    \oplus Sets({"scratch_tensor_index"}) \oplus Requests(1)

SvdfPrepare(x) ==
    Params({"rank"})
    \oplus Requires(x.in \in {Float, "int8"} /\ x.fits /\ x.bias # "none")
    \oplus IF x.in = "int8" THEN SvdfPrepareInteger(x) ELSE SvdfPrepareFloat(x)

ApplyTimeWeightsBiasAndActivation == Params({"activation"})

EvalFloatSVDF ==
    Params({"rank"}) \oplus Reads({"scratch_tensor_index"})
    \oplus ApplyTimeWeightsBiasAndActivation \oplus Binary(Float)

EvalIntegerSvdfReference ==
    Params({"rank"})
    \oplus Reads({"effective_scale_1_a", "effective_scale_1_b", "effective_scale_2_a",
                  "effective_scale_2_b", "input_zero_point", "output_zero_point",
                  "scratch_tensor_index", "scratch_output_tensor_index"})
    \oplus Binary("int8")

SvdfEval(x) ==
    Strays(x.bias = "omitted")
    \oplus CASE x.in2 = Float -> EvalFloatSVDF
             [] x.in2 = "int8" -> EvalIntegerSvdfReference
             [] OTHER -> Refuses

Register_SVDF(x) == Registration(AllocatesOpData, SvdfPrepare(x), SvdfEval(x))

-----------------------------------------------------------------------------
(* softmax.cc, softmax_common.cc *)

CalculateSoftmaxParams(x) ==
    CASE x.in = "int16" ->
           Requires(x.fits) \oplus Params({"beta"})
           \oplus Sets({"input_multiplier", "input_left_shift"})
      [] x.in \in Bytes ->
           Requires(x.fits /\ (x.out = x.in \/ (x.in = "int8" /\ x.out = "int16")))
           \oplus Params({"beta"})
           \oplus Sets({"input_multiplier", "input_left_shift", "diff_min"})
      [] OTHER ->
           Requires(x.in = Float /\ x.out = Float)
           \oplus Params({"beta"}) \oplus Sets({"beta"})

SoftmaxPrepare(x) ==
    Requires(x.fits)
    \oplus When(x.in = "int16", Sets({"exp_lut", "one_over_one_plus_x_lut"}))
    \oplus Requires(IF x.out = "int16" THEN x.in \in Bytes \cup {"int16"} ELSE x.in = x.out)
    \oplus When(x.in = "int16", Sets({"zero_point", "scale"}))
    \oplus CalculateSoftmaxParams(x)

SoftmaxQuantized(x) ==
    CASE x.in = "int8" /\ x.out = "int16" ->
           Reads({"input_multiplier", "input_left_shift", "diff_min"})
           \oplus Views({<<"in", "int8">>, <<"out", "int16">>})
      [] x.in \in Bytes /\ ~(x.in = "int8" /\ x.out = "int16") ->
           Reads({"input_multiplier", "input_left_shift", "diff_min"}) \oplus Unary(x.in)
      [] OTHER ->
           Reads({"input_multiplier", "input_left_shift", "exp_lut",
                  "one_over_one_plus_x_lut"})
           \oplus Unary("int16")

SoftmaxEval(x) ==
    CASE x.in = Float -> Reads({"beta"}) \oplus Unary(Float)
      [] x.in \in Bytes \cup {"int16"} -> SoftmaxQuantized(x)
      [] OTHER -> Refuses

Register_SOFTMAX(x) == Registration(AllocatesOpData, SoftmaxPrepare(x), SoftmaxEval(x))

-----------------------------------------------------------------------------
(* activations.cc: nobody compares the type of the output. *)

CalculateReluOpData ==
    Sets({"output_multiplier", "output_shift", "quantized_activation_min",
          "quantized_activation_max", "input_offset", "output_offset"})

ReluPrepare(x) == When(x.in \in Bytes, CalculateReluOpData)

ReluFloat == Unary(Float)

ReluQuantized(t) ==
    Reads({"output_multiplier", "output_shift", "quantized_activation_min",
           "quantized_activation_max", "input_offset", "output_offset"})
    \oplus Unary(t)

ReluEval(x) ==
    CASE x.in = Float -> ReluFloat
      [] x.in \in Bytes -> ReluQuantized(x.in)
      [] OTHER -> Refuses

Register_RELU(x) == Registration(AllocatesOpData, ReluPrepare(x), ReluEval(x))

Relu6Prepare(x) ==
    When(x.in = "int8", Sets({"six_int8", "zero_int8"}))
    \oplus When(x.in = "uint8", Sets({"six_uint8", "zero_uint8"}))

Relu6Float == Unary(Float)

Relu6Quantized(lower, upper, t) == Reads({lower, upper}) \oplus Unary(t)

Relu6Eval(x) ==
    CASE x.in = Float -> Relu6Float
      [] x.in = "int8" -> Relu6Quantized("zero_int8", "six_int8", "int8")
      [] x.in = "uint8" -> Relu6Quantized("zero_uint8", "six_uint8", "uint8")
      [] OTHER -> Refuses

Register_RELU6(x) == Registration(AllocatesOpData, Relu6Prepare(x), Relu6Eval(x))

-----------------------------------------------------------------------------
(* logistic.cc, tanh.cc *)

Sigmoid == {"input_zero_point", "input_range_radius", "input_multiplier", "input_left_shift"}

LogisticCalculateArithmeticOpData(x) ==
    Requires(x.in = x.out)
    \oplus When(x.in = "int8", Requires(x.fits) \oplus Sets(Sigmoid))

LogisticPrepare(x) == LogisticCalculateArithmeticOpData(x)

LogisticEval(x) ==
    Requires(x.in \in {Float, "int8"} /\ x.out = x.in)
    \oplus When(x.in = "int8", Reads(Sigmoid))
    \oplus Unary(x.in)

Register_LOGISTIC(x) == Registration(AllocatesOpData, LogisticPrepare(x), LogisticEval(x))

TanhCalculateArithmeticOpData(x) ==
    Requires(x.fits /\ x.in = x.out)
    \oplus When(x.in \in Bytes, Sets(Sigmoid \ {"input_zero_point"}))

TanhPrepare(x) == Sets({"input_zero_point"}) \oplus TanhCalculateArithmeticOpData(x)

TanhEval(x) ==
    CASE x.in = Float -> Unary(Float)
      [] x.in = "int16" -> Reads({"input_left_shift"}) \oplus Unary("int16")
      [] x.in \in Bytes -> Reads(Sigmoid) \oplus Unary(x.in)
      [] OTHER -> Refuses

Register_TANH(x) == Registration(AllocatesOpData, TanhPrepare(x), TanhEval(x))

-----------------------------------------------------------------------------
(* hard_swish.cc, l2norm.cc, prelu.cc *)

HardSwishParams ==
    {"input_zero_point", "output_zero_point", "output_multiplier_exponent",
     "output_multiplier_fixedpoint_int16", "reluish_multiplier_exponent",
     "reluish_multiplier_fixedpoint_int16"}

HardSwishPrepare(x) ==
    Requires(x.fits) \oplus When(x.in \in Bytes, Sets(HardSwishParams))

HardSwishEval(x) ==
    CASE x.in = Float -> Unary(Float)
      [] x.in \in Bytes -> Reads(HardSwishParams) \oplus Unary(x.in)
      [] OTHER -> Refuses

Register_HARD_SWISH(x) == Registration(AllocatesOpData, HardSwishPrepare(x), HardSwishEval(x))

\* Mutant: the types are not compared.
L2NormPrepareAnyInput(x) ==
    Requires(x.fits /\ x.out \in Bytes \cup {Float})
    \oplus Sets({"input_zero_point"})
    \oplus Params({"activation"})

L2NormPrepare(x) ==
    Requires(x.fits /\ x.out \in Bytes \cup {Float} /\ x.in = x.out)
    \oplus Sets({"input_zero_point"})
    \oplus Params({"activation"})

L2NormEval(x) ==
    Requires(x.out \in Bytes \cup {Float})
    \oplus When(x.out \in Bytes, Reads({"input_zero_point"}))
    \oplus Unary(x.out)

Register_L2_NORMALIZATION(x) == Registration(AllocatesOpData, L2NormPrepare(x), L2NormEval(x))

PreluParams ==
    {"output_multiplier_1", "output_shift_1", "output_multiplier_2", "output_shift_2",
     "input_offset", "alpha_offset", "output_offset"}

\* The parameters go by the type of the output, the evaluation by the input's.
CalculatePreluParams(x) == When(x.out \in Bytes \cup {"int16"}, Sets(PreluParams))

PreluPrepare(x) == CalculatePreluParams(x)

BroadcastPrelu4DSlowFloat == Binary(Float)

PreluEval(x) ==
    CASE x.in = Float -> BroadcastPrelu4DSlowFloat
      [] x.in \in Bytes -> Reads(PreluParams) \oplus Binary(x.in)
      [] OTHER -> Refuses

Register_PRELU(x) == Registration(AllocatesOpData, PreluPrepare(x), PreluEval(x))
=============================================================================
