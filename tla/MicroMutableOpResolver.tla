------------------------ MODULE MicroMutableOpResolver ------------------------
(***************************************************************************)
(* The operators a program lists for its interpreter                       *)
(* (micro/micro_mutable_op_resolver.h), each with its registration and the *)
(* parser of its options.                                                  *)
(*                                                                         *)
(* A registration is the name of its operator, an error the resolver's     *)
(* status.  registrations_ and the two arrays about builtin operators      *)
(* have counters of their own: here, their lengths.                        *)
(***************************************************************************)
EXTENDS FlatbufferConversions
LOCAL INSTANCE Naturals
LOCAL INSTANCE Sequences

CONSTANT tOpCount    \* the room of the arrays

ASSUME tOpCountAssumption == tOpCount \in Nat

VARIABLES
    registrations_,
    builtin_codes_,
    builtin_parsers_,
    status               \* what the last AddBuiltin or AddCustom returned

resolver == <<registrations_, builtin_codes_, builtin_parsers_, status>>

-----------------------------------------------------------------------------
(* AddAbs to AddZerosLike: the parser each operator is added with.  The    *)
(* registration is the operator's own.                                     *)

AddAbsToExp(op) ==
    CASE op = "ADD" -> ParseAdd
      [] op = "ARG_MAX" -> ParseArgMax
      [] op = "ARG_MIN" -> ParseArgMin
      [] op = "AVERAGE_POOL_2D" -> ParsePool
      [] op = "CAST" -> ParseCast
      [] op = "CONCATENATION" -> ParseConcatenation
      [] op = "CONV_2D" -> ParseConv2D
      [] op = "DEPTHWISE_CONV_2D" -> ParseDepthwiseConv2D
      [] OTHER -> NoParameters

AddFloorToMean(op) ==
    CASE op = "FULLY_CONNECTED" -> ParseFullyConnected
      [] op = "L2_NORMALIZATION" -> ParseL2Normalization
      [] op = "MAX_POOL_2D" -> ParsePool
      [] op = "MEAN" -> ParseReducer
      [] OTHER -> NoParameters

AddMinimumToZerosLike(op) ==
    CASE op = "MUL" -> ParseMul
      [] op = "PACK" -> ParsePack
      [] op = "REDUCE_MAX" -> ParseReducer
      [] op = "RESHAPE" -> ParseReshape
      [] op = "RESIZE_NEAREST_NEIGHBOR" -> ParseResizeNearestNeighbor
      [] op = "SHAPE" -> ParseShape
      [] op = "SOFTMAX" -> ParseSoftmax
      [] op = "SPLIT" -> ParseSplit
      [] op = "SPLIT_V" -> ParseSplitV
      [] op = "STRIDED_SLICE" -> ParseStridedSlice
      [] op = "SUB" -> ParseSub
      [] op = "SVDF" -> ParseSvdf
      [] op = "UNPACK" -> ParseUnpack
      [] OTHER -> NoParameters

AbsToExp ==
    {"ABS", "ADD", "ARG_MAX", "ARG_MIN", "AVERAGE_POOL_2D", "BATCH_TO_SPACE_ND", "CAST",
     "CEIL", "CONCATENATION", "CONV_2D", "COS", "DEPTHWISE_CONV_2D", "DEQUANTIZE",
     "EQUAL", "EXP"}
FloorToMean ==
    {"FLOOR", "FULLY_CONNECTED", "GREATER", "GREATER_EQUAL", "HARD_SWISH",
     "L2_NORMALIZATION", "LESS", "LESS_EQUAL", "LOG", "LOGICAL_AND", "LOGICAL_NOT",
     "LOGICAL_OR", "LOGISTIC", "MAXIMUM", "MAX_POOL_2D", "MEAN"}
MinimumToZerosLike ==
    {"MINIMUM", "MUL", "NEG", "NOT_EQUAL", "PACK", "PAD", "PADV2", "PRELU", "QUANTIZE",
     "REDUCE_MAX", "RELU", "RELU6", "RESHAPE", "RESIZE_NEAREST_NEIGHBOR", "ROUND",
     "RSQRT", "SHAPE", "SIN", "SOFTMAX", "SPACE_TO_BATCH_ND", "SPLIT", "SPLIT_V", "SQRT",
     "SQUARE", "STRIDED_SLICE", "SUB", "SVDF", "TANH", "UNPACK", "ZEROS_LIKE"}

Builtins == AbsToExp \cup FloorToMean \cup MinimumToZerosLike
Customs == {"CIRCULAR_BUFFER", "TFLite_Detection_PostProcess"}

ParserAddedWith(op) ==
    CASE op \in AbsToExp -> AddAbsToExp(op)
      [] op \in FloorToMean -> AddFloorToMean(op)
      [] OTHER -> AddMinimumToZerosLike(op)

-----------------------------------------------------------------------------

InitResolver ==
    /\ registrations_ = <<>>
    /\ builtin_codes_ = <<>>
    /\ builtin_parsers_ = <<>>
    /\ status = "ok"

\* The places of an operator, of which the first counts.
PlacesOf(op) == {i \in DOMAIN registrations_ : registrations_[i].builtin_code = op}
CustomPlacesOf(name) ==
    {i \in PlacesOf("CUSTOM") : registrations_[i].custom_name = name}

First(S) == CHOOSE i \in S : \A j \in S : i <= j

\* FindOp of a code and of a name.
Knows(op) == op # "CUSTOM" /\ PlacesOf(op) # {}
KnowsCustom(name) == CustomPlacesOf(name) # {}

FindOp(op) == registrations_[First(PlacesOf(op))].registration
FindCustomOp(name) == registrations_[First(CustomPlacesOf(name))].registration

\* Mutant: the place among all registrations, custom operators included.
GetOpDataParserAtRegistration(op) ==
    LET i == First(PlacesOf(op))
    IN builtin_parsers_[IF i \in DOMAIN builtin_parsers_ THEN i ELSE Len(builtin_parsers_)]

HasParser(op) == \E i \in DOMAIN builtin_codes_ : builtin_codes_[i] = op
GetOpDataParser(op) ==
    builtin_parsers_[First({i \in DOMAIN builtin_codes_ : builtin_codes_[i] = op})]

\* Mutant: no limit.
NeverFull == FALSE

Full == Len(registrations_) >= tOpCount

Refused ==
    /\ status' = "error"
    /\ UNCHANGED <<registrations_, builtin_codes_, builtin_parsers_>>

AddBuiltin(op, registration, parser) ==
    IF op = "CUSTOM" \/ Knows(op) \/ Full THEN Refused
    ELSE /\ registrations_' = Append(registrations_,
                [builtin_code |-> op, custom_name |-> "", registration |-> registration])
         /\ builtin_codes_' = Append(builtin_codes_, op)
         /\ builtin_parsers_' = Append(builtin_parsers_, parser)
         /\ status' = "ok"

\* Mutant: a name may be added again.
AddCustomAgain(name, registration) ==
    IF Full THEN Refused
    ELSE /\ registrations_' = Append(registrations_,
                [builtin_code |-> "CUSTOM", custom_name |-> name, registration |-> registration])
         /\ status' = "ok"
         /\ UNCHANGED <<builtin_codes_, builtin_parsers_>>

AddCustom(name, registration) ==
    IF Full \/ KnowsCustom(name) THEN Refused
    ELSE /\ registrations_' = Append(registrations_,
                [builtin_code |-> "CUSTOM", custom_name |-> name, registration |-> registration])
         /\ status' = "ok"
         /\ UNCHANGED <<builtin_codes_, builtin_parsers_>>

\* AddAbs to AddZerosLike, AddCircularBuffer and AddDetectionPostprocess, of the
\* operator called op.
AddOp(op) ==
    \/ /\ op \in Builtins
       /\ AddBuiltin(op, op, ParserAddedWith(op))
    \/ /\ op \in Customs
       /\ AddCustom(op, op)

\* There is no registration in this build: nothing is added.
AddEthosU ==
    /\ status' = "ok"
    /\ UNCHANGED <<registrations_, builtin_codes_, builtin_parsers_>>
=============================================================================
