-------------------------- MODULE KernelsElementwise --------------------------
(***************************************************************************)
(* The kernels that go through their tensors element by element:           *)
(* arithmetic, comparisons, logic, rounding and the conversions between    *)
(* types (micro/kernels/*.cc).  x.in2 is the type of the second operand.   *)
(***************************************************************************)
EXTENDS Kernel

\* What is set for operands that are brought to one scale, input by input.
Rescales ==
    {"input1_shift", "input2_shift", "input1_multiplier", "input2_multiplier",
     "left_shift", "input1_offset", "input2_offset"}
OutputScale == {"output_multiplier", "output_shift", "output_offset"}
QuantizedRange == {"output_activation_min", "output_activation_max"}
FloatRange == {"output_activation_min_f32", "output_activation_max_f32"}

-----------------------------------------------------------------------------
(* add.cc, sub.cc: they go by the type of the output alone. *)

AddCalculateOpData(x) ==
    Sets({"requires_broadcast"})
    \oplus When(x.out \in Bytes,
                Params({"activation"}) \oplus Sets(Rescales \cup OutputScale \cup QuantizedRange))
    \oplus When(x.out = Float, Params({"activation"}) \oplus Sets(FloatRange))

AddPrepare(x) == AddCalculateOpData(x)

EvalAdd == Reads({"requires_broadcast"} \cup FloatRange) \oplus Binary(Float)

EvalAddQuantized(t) == Reads(Rescales \cup OutputScale \cup QuantizedRange) \oplus Binary(t)

AddEval(x) ==
    CASE x.out = Float -> EvalAdd
      [] x.out \in Bytes -> EvalAddQuantized(x.out)
      [] OTHER -> Refuses

Register_ADD(x) == Registration(AllocatesOpData, AddPrepare(x), AddEval(x))

SubCalculateOpData(x) ==
    Sets({"requires_broadcast"})
    \oplus When(x.out \in Bytes,
                Params({"activation"}) \oplus Sets(Rescales \cup OutputScale \cup QuantizedRange))

SubPrepare(x) == SubCalculateOpData(x)

EvalSub == Params({"activation"}) \oplus Reads({"requires_broadcast"}) \oplus Binary(Float)

EvalSubQuantized(t) == Reads(Rescales \cup OutputScale \cup QuantizedRange) \oplus Binary(t)

SubEval(x) ==
    CASE x.out = Float -> EvalSub
      [] x.out \in Bytes -> EvalSubQuantized(x.out)
      [] OTHER -> Refuses

Register_SUB(x) == Registration(AllocatesOpData, SubPrepare(x), SubEval(x))

-----------------------------------------------------------------------------
(* mul.cc: Prepare goes by the type of the output, Eval by the input's. *)

MulParams ==
    {"input1_zero_point", "input2_zero_point", "output_zero_point",
     "output_multiplier", "output_shift"}

MulCalculateOpData(x) ==
    Requires(x.fits /\ x.in = x.in2)
    \oplus Params({"activation"})
    \oplus Sets(IF x.out \in Bytes THEN QuantizedRange \cup MulParams ELSE FloatRange)

MulPrepare(x) == MulCalculateOpData(x)

\* The output is written if it has one of the two types.
MulEvalQuantized(x) ==
    Reads(QuantizedRange \cup {"output_activation_max_f32"} \cup MulParams)
    \oplus When(x.out \in Bytes, Binary(x.out))

MulEvalFloat == Reads(FloatRange) \oplus Binary(Float)

MulEval(x) ==
    CASE x.in \in Bytes -> MulEvalQuantized(x)
      [] x.in = Float -> MulEvalFloat
      [] OTHER -> Refuses

Register_MUL(x) == Registration(AllocatesOpData, MulPrepare(x), MulEval(x))

-----------------------------------------------------------------------------
(* maximum_minimum.cc *)

MaximumMinimumEval(x) ==
    Requires(x.out \in Bytes \cup {Float, "int32", "int64"}) \oplus Binary(x.out)

Register_MAXIMUM(x) == Registration(NoInit, NoPrepare, MaximumMinimumEval(x))
Register_MINIMUM(x) == Registration(NoInit, NoPrepare, MaximumMinimumEval(x))

-----------------------------------------------------------------------------
(* comparisons.cc: the result is taken for bool. *)

ComparisonsPrepare(x) == When(x.in \in Bytes, Sets(Rescales))

\* The numbers, or the bytes after rescaling.
Compares(x, types) ==
    Requires(x.in \in types)
    \oplus When(x.in \in Bytes, Reads(Rescales))
    \oplus Views({<<"in", x.in>>, <<"in2", x.in>>, <<"out", "bool">>})

EqualEval(x) == Compares(x, Bytes \cup {"bool", Float, "int32", "int64"})
NotEqualEval(x) == Compares(x, Bytes \cup {"bool", Float, "int32", "int64"})
GreaterEval(x) == Compares(x, Bytes \cup {Float, "int32", "int64"})
GreaterEqualEval(x) == Compares(x, Bytes \cup {Float, "int32", "int64"})
LessEval(x) == Compares(x, Bytes \cup {Float, "int32", "int64"})
LessEqualEval(x) == Compares(x, Bytes \cup {Float, "int32", "int64"})

Register_EQUAL(x) == Registration(AllocatesOpData, ComparisonsPrepare(x), EqualEval(x))
Register_NOT_EQUAL(x) == Registration(AllocatesOpData, ComparisonsPrepare(x), NotEqualEval(x))
Register_GREATER(x) == Registration(AllocatesOpData, ComparisonsPrepare(x), GreaterEval(x))
Register_GREATER_EQUAL(x) ==
    Registration(AllocatesOpData, ComparisonsPrepare(x), GreaterEqualEval(x))
Register_LESS(x) == Registration(AllocatesOpData, ComparisonsPrepare(x), LessEval(x))
Register_LESS_EQUAL(x) ==
    Registration(AllocatesOpData, ComparisonsPrepare(x), LessEqualEval(x))

-----------------------------------------------------------------------------
(* elementwise.cc: IsSupportedType in GenericPrepare is the name of the    *)
(* pointer type, not of the function: a conversion, never a null pointer.  *)

GenericPrepare(x) == Requires(x.fits /\ x.in = x.out)

EvalImpl(x, expected_type) == Requires(x.in = expected_type) \oplus Unary(expected_type)

EvalNumeric(x) == EvalImpl(x, Float)
EvalLogical(x) == EvalImpl(x, "bool")

AbsEval(x) == EvalNumeric(x)
SinEval(x) == EvalNumeric(x)
CosEval(x) == EvalNumeric(x)
LogEval(x) == EvalNumeric(x)
SqrtEval(x) == EvalNumeric(x)
RsqrtEval(x) == EvalNumeric(x)
SquareEval(x) == EvalNumeric(x)
LogicalNotEval(x) == EvalLogical(x)

Register_ABS(x) == Registration(NoInit, GenericPrepare(x), AbsEval(x))
Register_SIN(x) == Registration(NoInit, GenericPrepare(x), SinEval(x))
Register_COS(x) == Registration(NoInit, GenericPrepare(x), CosEval(x))
Register_LOG(x) == Registration(NoInit, GenericPrepare(x), LogEval(x))
Register_SQRT(x) == Registration(NoInit, GenericPrepare(x), SqrtEval(x))
Register_RSQRT(x) == Registration(NoInit, GenericPrepare(x), RsqrtEval(x))
Register_SQUARE(x) == Registration(NoInit, GenericPrepare(x), SquareEval(x))
Register_LOGICAL_NOT(x) == Registration(NoInit, GenericPrepare(x), LogicalNotEval(x))

-----------------------------------------------------------------------------
(* logical.cc: no type is looked at. *)

LogicalImpl == Binary("bool")
LogicalOrEval == LogicalImpl
LogicalAndEval == LogicalImpl

Register_LOGICAL_OR(x) == Registration(NoInit, NoPrepare, LogicalOrEval)
Register_LOGICAL_AND(x) == Registration(NoInit, NoPrepare, LogicalAndEval)

-----------------------------------------------------------------------------
(* ceil.cc, floor.cc, round.cc, neg.cc, exp.cc *)

CeilPrepare(x) == Requires(x.fits /\ x.in = Float /\ x.out = Float)
CeilEval == Unary(Float)
Register_CEIL(x) == Registration(NoInit, CeilPrepare(x), CeilEval)

FloorEval(x) == Requires(x.in = Float) \oplus Unary(Float)
Register_FLOOR(x) == Registration(NoInit, NoPrepare, FloorEval(x))

RoundPrepare(x) == Requires(x.fits /\ x.in = Float /\ x.out = Float)
RoundEval == Unary(Float)
Register_ROUND(x) == Registration(NoInit, RoundPrepare(x), RoundEval)

NegEval(x) == Requires(x.in = Float) \oplus Unary(Float)
Register_NEG(x) == Registration(NoInit, NoPrepare, NegEval(x))

ExpPrepare(x) == Requires(x.fits /\ x.in = Float /\ x.out = Float)
ExpEval(x) == Requires(x.in = Float) \oplus Unary(Float)
Register_EXP(x) == Registration(NoInit, ExpPrepare(x), ExpEval(x))

-----------------------------------------------------------------------------
(* cast.cc, quantize.cc, quantize_common.cc, dequantize.cc, zeros_like.cc *)

CastPrepare(x) == Requires(x.fits)

\* A type that is not supported is logged, and that is all.
copyToTensor(x) ==
    When(x.out \in {"int8", Float}, Views({<<"in", x.in>>, <<"out", x.out>>}))

CastEval(x) == When(x.in \in {"int8", Float}, copyToTensor(x))

Register_CAST(x) == Registration(NoInit, CastPrepare(x), CastEval(x))

Requantized ==
    {<<"int16", "int8">>, <<"int8", "int8">>, <<"int16", "int16">>, <<"int16", "int32">>}

QuantizePrepare(x) ==
    Requires(x.fits /\ x.in \in {Float, "int16", "int8"}
             /\ x.out \in Bytes \cup {"int16", "int32"})
    \oplus When(<<x.in, x.out>> \in Requantized,
                Sets({"requantize_output_multiplier", "requantize_output_shift"}))
    \oplus Sets({"quantization_params.zero_point", "quantization_params.scale",
                 "input_zero_point"})

EvalQuantizeReference(x) ==
    CASE x.in = Float /\ x.out \in Bytes \cup {"int16"} ->
           Reads({"quantization_params.zero_point", "quantization_params.scale"})
           \oplus Views({<<"in", Float>>, <<"out", x.out>>})
      [] \/ x.in = "int16" /\ x.out \in {"int8", "int16", "int32"}
         \/ x.in = "int8" /\ x.out = "int8" ->
           Reads({"requantize_output_multiplier", "requantize_output_shift",
                  "input_zero_point", "quantization_params.zero_point"})
           \oplus Views({<<"in", x.in>>, <<"out", x.out>>})
      [] OTHER -> Refuses

Register_QUANTIZE(x) ==
    Registration(AllocatesOpData, QuantizePrepare(x), EvalQuantizeReference(x))

DequantizePrepare(x) ==
    Requires(x.fits /\ x.in \in Bytes \cup {"int16"} /\ x.out \in {Float, "int32"})
    \oplus When(x.out = "int32", Sets({"output_multiplier", "output_shift"}))
    \oplus Sets({"quantization_params.zero_point", "quantization_params.scale",
                 "output_zero_point"})

DequantizeEval(x) ==
    CASE x.out = Float /\ x.in \in Bytes \cup {"int16"} ->
           Reads({"quantization_params.zero_point", "quantization_params.scale"})
           \oplus Views({<<"in", x.in>>, <<"out", Float>>})
      [] x.out = "int32" /\ x.in = "int8" ->
           Reads({"output_multiplier", "output_shift", "quantization_params.zero_point",
                  "output_zero_point"})
           \oplus Views({<<"in", "int8">>, <<"out", "int32">>})
      [] OTHER -> Refuses

Register_DEQUANTIZE(x) ==
    Registration(AllocatesOpData, DequantizePrepare(x), DequantizeEval(x))

\* It gives the output the type of the input, in the tensor that Prepare sees:
\* the one that Eval sees keeps its own.
ZerosLikePrepare(x) == Requires(x.fits)

resetZeros(t) == Views({<<"out", t>>})

ZerosLikeEval(x) ==
    Requires(x.in \in {"int64", "int32", Float}) \oplus resetZeros(x.in)

Register_ZEROS_LIKE(x) == Registration(NoInit, ZerosLikePrepare(x), ZerosLikeEval(x))
=============================================================================
