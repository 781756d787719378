----------------------------- MODULE MicroKernels -----------------------------
(***************************************************************************)
(* The life of one node of a model under TensorFlow Lite Micro, whatever   *)
(* its operator: the program adds operators to its resolver, the allocator *)
(* looks the node's operator up and parses its options, the interpreter    *)
(* calls Init, Prepare and, as often as the program likes, Invoke of the   *)
(* registration it was given.  The types of the node's tensors are what    *)
(* the model file says.                                                    *)
(***************************************************************************)
EXTENDS KernelsNeural, KernelsElementwise, KernelsTensor, MicroMutableOpResolver,
    Naturals, Sequences, FiniteSets

CONSTANT Companions    \* the operators the program adds besides the node's

ASSUME CompanionsAssumption == Companions \subseteq Builtins \cup Customs

VARIABLES
    op,           \* the operator of the node
    stage,        \* how far the node is
    registration, \* node_and_registration->registration
    parser,
    node,         \* as in Kernel
    builtin_data, \* the fields the parser has copied
    user_data,    \* the fields that Init and Prepare have set
    unset,        \* what the last function read before it was set
    result        \* what the last function of the registration did

kernel == <<registration, parser, node, builtin_data, user_data, unset, result>>
vars == <<resolver, op, stage, kernel>>

-----------------------------------------------------------------------------
(* micro_ops.h: the registrations by their names. *)

Register(name, x) ==
    CASE name = "ABS" -> Register_ABS(x)
      [] name = "ADD" -> Register_ADD(x)
      [] name = "ARG_MAX" -> Register_ARG_MAX(x)
      [] name = "ARG_MIN" -> Register_ARG_MIN(x)
      [] name = "AVERAGE_POOL_2D" -> Register_AVERAGE_POOL_2D(x)
      [] name = "BATCH_TO_SPACE_ND" -> Register_BATCH_TO_SPACE_ND(x)
      [] name = "CAST" -> Register_CAST(x)
      [] name = "CEIL" -> Register_CEIL(x)
      [] name = "CIRCULAR_BUFFER" -> Register_CIRCULAR_BUFFER(x)
      [] name = "CONCATENATION" -> Register_CONCATENATION(x)
      [] name = "CONV_2D" -> Register_CONV_2D(x)
      [] name = "COS" -> Register_COS(x)
      [] name = "DEPTHWISE_CONV_2D" -> Register_DEPTHWISE_CONV_2D(x)
      [] name = "DEQUANTIZE" -> Register_DEQUANTIZE(x)
      [] name = "EQUAL" -> Register_EQUAL(x)
      [] name = "EXP" -> Register_EXP(x)
      [] name = "FLOOR" -> Register_FLOOR(x)
      [] name = "FULLY_CONNECTED" -> Register_FULLY_CONNECTED(x)
      [] name = "GREATER" -> Register_GREATER(x)
      [] name = "GREATER_EQUAL" -> Register_GREATER_EQUAL(x)
      [] name = "HARD_SWISH" -> Register_HARD_SWISH(x)
      [] name = "L2_NORMALIZATION" -> Register_L2_NORMALIZATION(x)
      [] name = "LESS" -> Register_LESS(x)
      [] name = "LESS_EQUAL" -> Register_LESS_EQUAL(x)
      [] name = "LOG" -> Register_LOG(x)
      [] name = "LOGICAL_AND" -> Register_LOGICAL_AND(x)
      [] name = "LOGICAL_NOT" -> Register_LOGICAL_NOT(x)
      [] name = "LOGICAL_OR" -> Register_LOGICAL_OR(x)
      [] name = "LOGISTIC" -> Register_LOGISTIC(x)
      [] name = "MAXIMUM" -> Register_MAXIMUM(x)
      [] name = "MAX_POOL_2D" -> Register_MAX_POOL_2D(x)
      [] name = "MEAN" -> Register_MEAN(x)
      [] name = "MINIMUM" -> Register_MINIMUM(x)
      [] name = "MUL" -> Register_MUL(x)
      [] name = "NEG" -> Register_NEG(x)
      [] name = "NOT_EQUAL" -> Register_NOT_EQUAL(x)
      [] name = "PACK" -> Register_PACK(x)
      [] name = "PAD" -> Register_PAD(x)
      [] name = "PADV2" -> Register_PADV2(x)
      [] name = "PRELU" -> Register_PRELU(x)
      [] name = "QUANTIZE" -> Register_QUANTIZE(x)
      [] name = "REDUCE_MAX" -> Register_REDUCE_MAX(x)
      [] name = "RELU" -> Register_RELU(x)
      [] name = "RELU6" -> Register_RELU6(x)
      [] name = "RESHAPE" -> Register_RESHAPE(x)
      [] name = "RESIZE_NEAREST_NEIGHBOR" -> Register_RESIZE_NEAREST_NEIGHBOR(x)
      [] name = "ROUND" -> Register_ROUND(x)
      [] name = "RSQRT" -> Register_RSQRT(x)
      [] name = "SHAPE" -> Register_SHAPE(x)
      [] name = "SIN" -> Register_SIN(x)
      [] name = "SOFTMAX" -> Register_SOFTMAX(x)
      [] name = "SPACE_TO_BATCH_ND" -> Register_SPACE_TO_BATCH_ND(x)
      [] name = "SPLIT" -> Register_SPLIT(x)
      [] name = "SPLIT_V" -> Register_SPLIT_V(x)
      [] name = "SQRT" -> Register_SQRT(x)
      [] name = "SQUARE" -> Register_SQUARE(x)
      [] name = "STRIDED_SLICE" -> Register_STRIDED_SLICE(x)
      [] name = "SUB" -> Register_SUB(x)
      [] name = "SVDF" -> Register_SVDF(x)
      [] name = "TANH" -> Register_TANH(x)
      [] name = "UNPACK" -> Register_UNPACK(x)
      [] name = "ZEROS_LIKE" -> Register_ZEROS_LIKE(x)
      [] OTHER -> Register_DETECTION_POSTPROCESS(x)

-----------------------------------------------------------------------------
(* What a model file can say of a node, as far as its kernel asks. *)

TwoInputs ==
    {"ADD", "SUB", "MUL", "MAXIMUM", "MINIMUM", "EQUAL", "NOT_EQUAL", "GREATER",
     "GREATER_EQUAL", "LESS", "LESS_EQUAL", "LOGICAL_AND", "LOGICAL_OR", "PRELU",
     "CONV_2D", "DEPTHWISE_CONV_2D", "FULLY_CONNECTED", "SVDF", "ARG_MAX", "ARG_MIN",
     "CONCATENATION", "PACK", "SPLIT", "SPLIT_V", "PAD", "PADV2",
     "RESIZE_NEAREST_NEIGHBOR", "SPACE_TO_BATCH_ND", "BATCH_TO_SPACE_ND",
     "STRIDED_SLICE", "MEAN", "REDUCE_MAX", "TFLite_Detection_PostProcess"}
OptionalInput ==
    {"CONV_2D", "DEPTHWISE_CONV_2D", "FULLY_CONNECTED", "SVDF", "PAD", "PADV2"}

Nodes ==
    [in : Types, in2 : IF op \in TwoInputs THEN Types ELSE {Float}, out : Types,
     bias : IF op \in OptionalInput THEN {"given", "omitted", "none"} ELSE {"given"},
     fits : BOOLEAN,
     flag : IF op \in Customs THEN BOOLEAN ELSE {FALSE}]

NoNode == [in |-> Float, in2 |-> Float, out |-> Float, bias |-> "given", fits |-> TRUE,
           flag |-> FALSE]

-----------------------------------------------------------------------------

Init ==
    /\ InitResolver
    /\ op \in BuiltinOperators \cup Customs
    /\ stage = "building"
    /\ registration = "none" /\ parser = NoParameters
    /\ node = NoNode
    /\ builtin_data = {} /\ user_data = {} /\ unset = {}
    /\ result = Ok

\* The program builds its resolver.
Add ==
    /\ stage = "building"
    /\ (\E o \in Companions \cup {op} : AddOp(o)) \/ AddEthosU
    /\ UNCHANGED <<op, stage, kernel>>

\* GetRegistrationFromOpCode and GetOpDataParser, in the allocation of the node.
\* From here on the resolver stays as it is; the model keeps what was found.
Found ==
    IF op \in Customs
    THEN /\ registration' = FindCustomOp(op)
         /\ parser' = NoParameters
    ELSE /\ registration' = FindOp(op)
         /\ parser' = GetOpDataParser(op)

Lookup ==
    /\ stage = "building"
    /\ IF (op \in Customs /\ KnowsCustom(op)) \/ (Knows(op) /\ HasParser(op))
       THEN /\ stage' = "found"
            /\ Found
       ELSE /\ stage' = "failed"
            /\ UNCHANGED <<registration, parser>>
    /\ registrations_' = <<>> /\ builtin_codes_' = <<>> /\ builtin_parsers_' = <<>>
    /\ status' = "ok"
    /\ UNCHANGED <<op, node, builtin_data, user_data, unset, result>>

\* known: see Parses; it matters to a parser that refuses.
Parse ==
    /\ stage = "found"
    /\ node' \in Nodes
    /\ \E known \in IF parser.refuses THEN BOOLEAN ELSE {TRUE} :
         IF Parses(parser, known)
         THEN /\ stage' = "parsed"
              /\ builtin_data' = parser.fields
         ELSE /\ stage' = "failed"
              /\ UNCHANGED builtin_data
    /\ UNCHANGED <<resolver, op, registration, parser, user_data, unset, result>>

\* A function of the registration does what d says.
Runs(d) ==
    /\ result' = d
    /\ unset' = (d.reads \ user_data) \cup (d.params \ builtin_data)
    /\ user_data' = user_data \cup d.sets
    /\ UNCHANGED <<resolver, op, registration, parser, node, builtin_data>>

\* Initialize: Init returns what the node keeps as user_data.
Initialize ==
    /\ stage = "parsed"
    /\ stage' = "initialized"
    /\ Runs(Register(registration, node).init)

Prepare ==
    /\ stage = "initialized"
    /\ LET d == Register(registration, node).prepare
       IN /\ Runs(d)
          /\ stage' = IF d.status = "ok" THEN "prepared" ELSE "failed"

\* A kernel that asks for the end of this inference is called again by the next.
Invoke ==
    /\ stage \in {"prepared", "invoked"}
    /\ LET d == Register(registration, node).invoke
       IN /\ Runs(d)
          /\ stage' = IF d.status \in {"ok", "abort"} THEN "invoked" ELSE "failed"

Next == Add \/ Lookup \/ Parse \/ Initialize \/ Prepare \/ Invoke

Spec == Init /\ [][Next]_vars

-----------------------------------------------------------------------------
(* Properties. *)

\* A builtin operator that is found comes with its own registration and with the
\* parser that TensorFlow Lite chooses for it by its code
\* (flatbuffer_conversions.cc, line 135), whatever custom operators were added
\* before: the parsers are kept in arrays of their own.  And a parser copies every
\* field of the structure it allocates: what it forgets the kernel would read as 0.
FoundWithItsParser ==
    /\ \A o \in Builtins :
         Knows(o) => FindOp(o) = o /\ HasParser(o) /\ GetOpDataParser(o) = ParseOpDataTfLite(o)
    /\ \A o \in Customs : KnowsCustom(o) => FindCustomOp(o) = o
    /\ op \in ParsedByTfLite => CopiesItsStructure(ParseOpDataTfLite(op))

\* Only the first call for an operator is successful (the comment of AddCustom),
\* and none is in a full resolver: every place that is taken belongs to an operator
\* that can be found, so a repeated call never takes the place of another operator.
EveryPlaceIsFound ==
    /\ Len(registrations_) =
           Cardinality({o \in Builtins : Knows(o)}) + Cardinality({o \in Customs : KnowsCustom(o)})
    /\ Len(registrations_) <= tOpCount

\* Fields that no function of the kernel sets: the zero points of REDUCE_MAX
\* (reduce.cc, line 294), the shift of TANH for int16 (tanh.cc, 106), the float
\* bound of MUL (mul.cc, 96).
NeverSet ==
    CASE op = "REDUCE_MAX" -> {"input_zp", "output_zp"}
      [] op = "TANH" -> {"input_left_shift"}
      [] op = "MUL" -> {"output_activation_max_f32"}
      [] OTHER -> {}

\* What these prepare goes by the type of the output, and what they evaluate by
\* that of the input: nobody compares the two.
PreparedForTheOutput == {"MUL", "PRELU", "AVERAGE_POOL_2D", "MAX_POOL_2D"}

\* A function of a kernel reads no field of the options that the parser the
\* operator is registered with does not copy, and no field of the user data that
\* Init and Prepare have not set, whichever types they were given.
ReadsWereSet ==
    (op \in PreparedForTheOutput => node.in = node.out) => unset \subseteq NeverSet

\* The tensors whose type the kernel of an operator never looks at.
NotLookedAt ==
    [in |-> {"ADD", "SUB", "MUL", "MAXIMUM", "MINIMUM", "LOGICAL_AND", "LOGICAL_OR", "PACK",
             "RESIZE_NEAREST_NEIGHBOR", "STRIDED_SLICE"},
     in2 |-> {"ADD", "SUB", "MUL", "MAXIMUM", "MINIMUM", "LOGICAL_AND", "LOGICAL_OR", "PACK",
              "EQUAL", "NOT_EQUAL", "GREATER", "GREATER_EQUAL", "LESS", "LESS_EQUAL",
              "PRELU", "DEPTHWISE_CONV_2D", "CONCATENATION", "SPLIT", "SPLIT_V",
              "BATCH_TO_SPACE_ND", "SPACE_TO_BATCH_ND"},
     out |-> {"MUL", "LOGICAL_AND", "LOGICAL_OR", "EQUAL", "NOT_EQUAL", "GREATER",
              "GREATER_EQUAL", "LESS", "LESS_EQUAL", "PRELU", "DEPTHWISE_CONV_2D", "FLOOR",
              "NEG", "RELU", "RELU6", "HARD_SWISH", "AVERAGE_POOL_2D", "MAX_POOL_2D", "MEAN",
              "SPLIT", "SPLIT_V", "UNPACK", "ZEROS_LIKE", "TFLite_Detection_PostProcess"}]

\* An evaluation that returns kTfLiteOk has taken the data of each tensor for the
\* type the model gives it, by what Prepare and Eval have checked between them;
\* but for the tensors above, where a model with other types is run all the same.
TypesRespected ==
    stage = "invoked" /\ result.status = "ok" =>
        \A v \in result.views : v[2] = node[v[1]] \/ op \in NotLookedAt[v[1]]

\* "Execute the node (should read node->inputs and output to node->outputs).
\* Returns kTfLiteOk on success." (c/common.h, line 797): CAST and MUL return it
\* for types they do not know, with the output as it was.
OkMeansWritten ==
    stage = "invoked" /\ result.status = "ok" => \E v \in result.views : v[1] = "out"
=============================================================================
