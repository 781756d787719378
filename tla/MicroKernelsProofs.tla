-------------------------- MODULE MicroKernelsProofs --------------------------
(***************************************************************************)
(* What the resolver finds, for any room and any list of operators, and    *)
(* what a node of any operator reads and views in its life.                *)
(***************************************************************************)
EXTENDS MicroKernels, NumberLemmas

-----------------------------------------------------------------------------
(* The parsers of the resolver are those of ParseOpDataTfLite.             *)

OperatorsOfTables ==
    DOMAIN AbsToLeakyRelu \cup DOMAIN LessToRelu6 \cup DOMAIN ReshapeToCast
        \cup DOMAIN LshProjectionToConv3D \cup {"IF"}

\* No operator stands in two branches of ParseOpDataTfLite: one that has no
\* options is in no table.
LEMMA NoOptions ==
    ASSUME NEW o \in WithoutOptions
    PROVE  ParseOpDataTfLite(o) = NoParameters
  <1>1. \A s \in WithoutOptionsToLeakyRelu : s \notin OperatorsOfTables
    BY DEF OperatorsOfTables, WithoutOptionsToLeakyRelu, AbsToLeakyRelu, LessToRelu6,
           ReshapeToCast, LshProjectionToConv3D
  <1>2. \A s \in WithoutOptionsToRelu6 : s \notin OperatorsOfTables
    BY DEF OperatorsOfTables, WithoutOptionsToRelu6, AbsToLeakyRelu, LessToRelu6,
           ReshapeToCast, LshProjectionToConv3D
  <1>3. \A s \in WithoutOptionsToCast : s \notin OperatorsOfTables
    BY DEF OperatorsOfTables, WithoutOptionsToCast, AbsToLeakyRelu, LessToRelu6,
           ReshapeToCast, LshProjectionToConv3D
  <1>4. \A s \in WithoutStructure : s \notin OperatorsOfTables
    BY DEF OperatorsOfTables, WithoutStructure, AbsToLeakyRelu, LessToRelu6,
           ReshapeToCast, LshProjectionToConv3D
  <1> QED
    BY <1>1, <1>2, <1>3, <1>4 DEF WithoutOptions, OperatorsOfTables, ParseOpDataTfLite

\* Those of the resolver's operators that have options.
WithOptions ==
    {"ADD", "ARG_MAX", "ARG_MIN", "AVERAGE_POOL_2D", "CAST", "CONCATENATION", "CONV_2D",
     "DEPTHWISE_CONV_2D", "FULLY_CONNECTED", "L2_NORMALIZATION", "MAX_POOL_2D", "MEAN",
     "MUL", "PACK", "REDUCE_MAX", "RESHAPE", "RESIZE_NEAREST_NEIGHBOR", "SHAPE", "SOFTMAX",
     "SPLIT", "SPLIT_V", "STRIDED_SLICE", "SUB", "SVDF", "UNPACK"}

\* AddAbs to AddZerosLike name the parser that ParseOpDataTfLite chooses.
LEMMA AddedWithOwnParser ==
    ASSUME NEW o \in Builtins
    PROVE  ParserAddedWith(o) = ParseOpDataTfLite(o)
  <1>1. CASE o \in WithOptions
    <2>1. \A s \in WithOptions : s \notin WithoutOptions
      BY DEF WithOptions, WithoutOptions, WithoutOptionsToLeakyRelu, WithoutOptionsToRelu6,
             WithoutOptionsToCast, WithoutStructure
    <2>2. \A s \in WithOptions : ParserAddedWith(s) = ParseOpDataTfLite(s)
      BY <2>1 DEF WithOptions, AbsToExp, FloorToMean, MinimumToZerosLike, ParserAddedWith,
             AddAbsToExp, AddFloorToMean, AddMinimumToZerosLike, ParseOpDataTfLite,
             AbsToLeakyRelu, LessToRelu6, ReshapeToCast, LshProjectionToConv3D
    <2> QED BY <1>1, <2>2
  <1>2. CASE o \notin WithOptions
    <2>1. \A s \in Builtins \ WithOptions : s \in WithoutOptions
      BY DEF Builtins, WithOptions, AbsToExp, FloorToMean, MinimumToZerosLike, WithoutOptions,
             WithoutOptionsToLeakyRelu, WithoutOptionsToRelu6, WithoutOptionsToCast,
             WithoutStructure
    <2>2. \A s \in Builtins \ WithOptions : ParserAddedWith(s) = NoParameters
      BY DEF Builtins, WithOptions, AbsToExp, FloorToMean, MinimumToZerosLike,
             ParserAddedWith, AddAbsToExp, AddFloorToMean, AddMinimumToZerosLike
    <2> QED BY <1>2, <2>1, <2>2, NoOptions
  <1> QED BY <1>1, <1>2

\* Every parser that ParseOpDataTfLite chooses copies all fields of its structure
\* but those a kernel computes.
LEMMA ParsersCopyStructures ==
    ASSUME NEW o \in ParsedByTfLite
    PROVE  CopiesItsStructure(ParseOpDataTfLite(o))
  <1>1. \A s \in DOMAIN AbsToLeakyRelu : CopiesItsStructure(AbsToLeakyRelu[s])
    BY DEF AbsToLeakyRelu, CopiesItsStructure, FieldsOf, PaddingToConcatenation, AddToCast,
           CombinerToCallOnce, Copies, CopiesKnown, NoParameters, ParseAdd, ParseArgMax,
           ParseArgMin, ParsePool, ParseBatchMatMul, ParseConcatenation, ParseConv2D,
           ParseDepthToSpace, ParseDepthwiseConv2D, ParseDiv, ParseFullyConnected,
           ParseL2Normalization, ParseLeakyRelu
  <1>2. \A s \in DOMAIN LessToRelu6 : CopiesItsStructure(LessToRelu6[s])
    BY DEF LessToRelu6, CopiesItsStructure, FieldsOf, PaddingToConcatenation, AddToCast,
           CombinerToCallOnce, Copies, CopiesKnown, NoParameters, ParsePool, ParseReducer,
           ParseMul, ParsePack
  <1>3. \A s \in DOMAIN ReshapeToCast : CopiesItsStructure(ReshapeToCast[s])
    BY DEF ReshapeToCast, CopiesItsStructure, FieldsOf, PaddingToConcatenation, AddToCast,
           CombinerToCallOnce, Copies, CopiesKnown, NoParameters, ParseReshape,
           ParseResizeBilinear, ParseResizeNearestNeighbor, ParseShape, ParseSoftmax,
           ParseSpaceToDepth, ParseSplit, ParseSplitV, ParseStridedSlice, ParseSub,
           ParseReducer, ParseSvdf, ParseTransposeConv, ParseUnpack, ParseCast
  <1>4. \A s \in DOMAIN LshProjectionToConv3D : CopiesItsStructure(LshProjectionToConv3D[s])
    BY SMTT(20) DEF LshProjectionToConv3D, CopiesItsStructure, FieldsOf, PaddingToConcatenation,
           AddToCast, CombinerToCallOnce, Copies, CopiesKnown, NoParameters, LshProjection,
           SequenceRnn, BidirectionalSequenceRnn, Rnn, EmbeddingLookupSparse,
           LocalResponseNormalization, Lstm, UnidirectionalSequenceLstm,
           BidirectionalSequenceLstm, SkipGram, ParseGather, Squeeze, SparseToDense,
           FakeQuant, OneHot, MirrorPad, Unique, ReverseSequence, While, CallOnce, Cumsum,
           Conv3D
  <1>5. CopiesItsStructure(IfThenElse)
    BY DEF CopiesItsStructure, FieldsOf, PaddingToConcatenation, AddToCast,
           CombinerToCallOnce, Copies, NoParameters, IfThenElse
  <1>6. CopiesItsStructure(NoParameters)
    BY DEF CopiesItsStructure
  <1>7. \A s \in OperatorsOfTables : CopiesItsStructure(ParseOpDataTfLite(s))
    <2>1. \A s \in OperatorsOfTables : s \notin WithoutOptions
      BY DEF OperatorsOfTables, WithoutOptions, WithoutOptionsToLeakyRelu,
             WithoutOptionsToRelu6, WithoutOptionsToCast, WithoutStructure, AbsToLeakyRelu,
             LessToRelu6, ReshapeToCast, LshProjectionToConv3D
    <2>2. /\ \A s \in DOMAIN AbsToLeakyRelu :
               s \notin DOMAIN LessToRelu6 \cup DOMAIN ReshapeToCast
                            \cup DOMAIN LshProjectionToConv3D \cup {"IF"}
          /\ \A s \in DOMAIN LessToRelu6 :
               s \notin DOMAIN ReshapeToCast \cup DOMAIN LshProjectionToConv3D \cup {"IF"}
          /\ \A s \in DOMAIN ReshapeToCast : s \notin DOMAIN LshProjectionToConv3D \cup {"IF"}
          /\ "IF" \notin DOMAIN LshProjectionToConv3D
      BY DEF AbsToLeakyRelu, LessToRelu6, ReshapeToCast, LshProjectionToConv3D
    <2> QED
      BY <1>1, <1>2, <1>3, <1>4, <1>5, <2>1, <2>2 DEF OperatorsOfTables, ParseOpDataTfLite
  <1> QED
    BY <1>6, <1>7, NoOptions DEF ParsedByTfLite, OperatorsOfTables

-----------------------------------------------------------------------------
(* The resolver.  A registration is the name of its operator, so it is the *)
(* key of its place: no two places have the same.                          *)

Operators == Builtins \cup Customs

\* What AddBuiltin and AddCustom write.
Places ==
    [builtin_code : Builtins \cup {"CUSTOM"}, custom_name : Customs \cup {""},
     registration : Operators]

\* A place belongs to the operator whose registration it holds.
Belongs(place) ==
    \/ /\ place.builtin_code \in Builtins
       /\ place.registration = place.builtin_code
    \/ /\ place.builtin_code = "CUSTOM"
       /\ place.custom_name \in Customs
       /\ place.registration = place.custom_name

ResolverTypeOK ==
    /\ registrations_ \in Seq(Places)
    /\ builtin_codes_ \in Seq(Builtins)
    /\ builtin_parsers_ \in Seq({ParserAddedWith(o) : o \in Builtins})

\* Parsers and codes stand at the same index, each with its own.
ParsersInStep ==
    /\ Len(builtin_parsers_) = Len(builtin_codes_)
    /\ \A i \in 1 .. Len(builtin_codes_) :
           builtin_parsers_[i] = ParserAddedWith(builtin_codes_[i])

\* A builtin operator has a registration exactly if it has a parser.
SameBuiltins ==
    \A o \in Builtins :
        (\E i \in 1 .. Len(registrations_) : registrations_[i].builtin_code = o)
            <=> (\E i \in 1 .. Len(builtin_codes_) : builtin_codes_[i] = o)

OnePlaceEach ==
    \A i, j \in 1 .. Len(registrations_) :
        registrations_[i].registration = registrations_[j].registration => i = j

ResolverInv ==
    /\ ResolverTypeOK
    /\ Len(registrations_) <= tOpCount
    /\ \A i \in 1 .. Len(registrations_) : Belongs(registrations_[i])
    /\ OnePlaceEach
    /\ ParsersInStep
    /\ SameBuiltins

\* The names of builtin operators, of custom operators and of the code that
\* stands for the latter are different.
LEMMA OperatorNames ==
    /\ "CUSTOM" \notin Builtins /\ "CUSTOM" \notin Customs
    /\ \A o \in Customs : o \notin Builtins
  BY DEF Builtins, AbsToExp, FloorToMean, MinimumToZerosLike, Customs

\* An operator is found exactly if its registration has a place.
LEMMA KnownByRegistration ==
    ASSUME ResolverInv
    PROVE  /\ \A o \in Builtins :
                Knows(o) <=> \E i \in 1 .. Len(registrations_) :
                                 registrations_[i].registration = o
           /\ \A o \in Customs :
                KnowsCustom(o) <=> \E i \in 1 .. Len(registrations_) :
                                       registrations_[i].registration = o
  <1>1. DOMAIN registrations_ = 1 .. Len(registrations_)
    BY DEF ResolverInv, ResolverTypeOK
  <1>2. \A i \in DOMAIN registrations_ : Belongs(registrations_[i])
    BY <1>1 DEF ResolverInv
  <1>3. ASSUME NEW o \in Builtins
        PROVE  Knows(o) <=> \E i \in 1 .. Len(registrations_) :
                                registrations_[i].registration = o
    BY <1>1, <1>2, <1>3, OperatorNames DEF Knows, PlacesOf, Belongs
  <1>4. ASSUME NEW o \in Customs
        PROVE  KnowsCustom(o) <=> \E i \in 1 .. Len(registrations_) :
                                      registrations_[i].registration = o
    BY <1>1, <1>2, <1>4, OperatorNames DEF KnowsCustom, CustomPlacesOf, PlacesOf, Belongs
  <1> QED BY <1>3, <1>4

\* Adding a place for an operator that has none keeps what the places promise.
LEMMA PlaceAdded ==
    ASSUME ResolverInv, NEW place \in Places, Belongs(place),
           Len(registrations_) < tOpCount,
           \A i \in 1 .. Len(registrations_) :
               registrations_[i].registration # place.registration,
           registrations_' = Append(registrations_, place)
    PROVE  /\ registrations_' \in Seq(Places)
           /\ Len(registrations_') = Len(registrations_) + 1
           /\ \A i \in 1 .. Len(registrations_) : registrations_'[i] = registrations_[i]
           /\ registrations_'[Len(registrations_) + 1] = place
           /\ Len(registrations_') <= tOpCount
           /\ \A i \in 1 .. Len(registrations_') : Belongs(registrations_'[i])
           /\ OnePlaceEach'
  <1> DEFINE n == Len(registrations_)
  <1>1. registrations_ \in Seq(Places) /\ n \in Nat
    BY DEF ResolverInv, ResolverTypeOK
  <1>2. /\ registrations_' \in Seq(Places)
        /\ Len(registrations_') = n + 1
        /\ \A i \in 1 .. n : registrations_'[i] = registrations_[i]
        /\ registrations_'[n + 1] = place
    BY <1>1
  <1> HIDE DEF n
  <1>3. \A i \in 1 .. n + 1 : i = n + 1 \/ i \in 1 .. n
    BY <1>1
  <1>4. n + 1 <= tOpCount
    BY <1>1, tOpCountAssumption DEF n
  <1>5. \A i \in 1 .. n + 1 : Belongs(registrations_'[i])
    BY <1>2, <1>3 DEF ResolverInv, n
  <1>6. OnePlaceEach'
    <2> SUFFICES ASSUME NEW i \in 1 .. n + 1, NEW j \in 1 .. n + 1,
                        registrations_'[i].registration = registrations_'[j].registration
                 PROVE  i = j
      BY <1>2 DEF OnePlaceEach
    <2> QED
      BY <1>2, <1>3 DEF ResolverInv, OnePlaceEach, n
  <1> QED BY <1>2, <1>4, <1>5, <1>6 DEF n

\* Every call of an Add function keeps the invariant.
LEMMA AddKeepsResolver ==
    ASSUME ResolverInv, NEW o, AddOp(o) \/ AddEthosU
    PROVE  ResolverInv'
  <1>1. CASE UNCHANGED <<registrations_, builtin_codes_, builtin_parsers_>>
    BY <1>1 DEF ResolverInv, ResolverTypeOK, OnePlaceEach, ParsersInStep, SameBuiltins
  <1>2. CASE o \in Builtins /\ AddBuiltin(o, o, ParserAddedWith(o))
             /\ ~(o = "CUSTOM" \/ Knows(o) \/ Full)
    <2> DEFINE place == [builtin_code |-> o, custom_name |-> "", registration |-> o]
               n == Len(builtin_codes_)
    <2>1. /\ registrations_' = Append(registrations_, place)
          /\ builtin_codes_' = Append(builtin_codes_, o)
          /\ builtin_parsers_' = Append(builtin_parsers_, ParserAddedWith(o))
      BY <1>2 DEF AddBuiltin
    <2>2. place \in Places /\ Belongs(place) /\ place.registration = o
          /\ place.builtin_code = o
      BY <1>2 DEF Places, Belongs, Operators
    <2> HIDE DEF place
    <2>3. Len(registrations_) \in Nat /\ Len(registrations_) < tOpCount
      BY <1>2, tOpCountAssumption DEF Full, ResolverInv, ResolverTypeOK
    <2>4. \A i \in 1 .. Len(registrations_) : registrations_[i].registration # o
      BY <1>2, KnownByRegistration
    <2>5. /\ registrations_' \in Seq(Places)
          /\ Len(registrations_') = Len(registrations_) + 1
          /\ \A i \in 1 .. Len(registrations_) : registrations_'[i] = registrations_[i]
          /\ registrations_'[Len(registrations_) + 1] = place
          /\ Len(registrations_') <= tOpCount
          /\ \A i \in 1 .. Len(registrations_') : Belongs(registrations_'[i])
          /\ OnePlaceEach'
      BY <2>1, <2>2, <2>3, <2>4, PlaceAdded
    <2>6. /\ builtin_codes_ \in Seq(Builtins) /\ n \in Nat
          /\ builtin_parsers_ \in Seq({ParserAddedWith(s) : s \in Builtins})
          /\ Len(builtin_parsers_) = n
      BY DEF ResolverInv, ResolverTypeOK, ParsersInStep
    <2>7. /\ builtin_codes_' \in Seq(Builtins)
          /\ Len(builtin_codes_') = n + 1
          /\ \A i \in 1 .. n : builtin_codes_'[i] = builtin_codes_[i]
          /\ builtin_codes_'[n + 1] = o
      BY <1>2, <2>1, <2>6
    <2>8. /\ builtin_parsers_' \in Seq({ParserAddedWith(s) : s \in Builtins})
          /\ Len(builtin_parsers_') = n + 1
          /\ \A i \in 1 .. n : builtin_parsers_'[i] = builtin_parsers_[i]
          /\ builtin_parsers_'[n + 1] = ParserAddedWith(o)
      <3>1. ParserAddedWith(o) \in {ParserAddedWith(s) : s \in Builtins}
        BY <1>2
      <3> QED BY <2>1, <2>6, <3>1
    <2> HIDE DEF n
    <2>9. \A i \in 1 .. n + 1 : i = n + 1 \/ i \in 1 .. n
      BY <2>6
    <2>10. ParsersInStep'
      <3>1. \A i \in 1 .. n : builtin_parsers_[i] = ParserAddedWith(builtin_codes_[i])
        BY DEF ResolverInv, ParsersInStep, n
      <3>2. \A i \in 1 .. n + 1 : builtin_parsers_'[i] = ParserAddedWith(builtin_codes_'[i])
        BY <2>7, <2>8, <2>9, <3>1
      <3> QED BY <2>7, <2>8, <3>2 DEF ParsersInStep
    <2>11. SameBuiltins'
      <3> DEFINE m == Len(registrations_)
      <3> HIDE DEF m
      <3>1. \A s \in Builtins :
              (\E i \in 1 .. m : registrations_[i].builtin_code = s)
                  <=> (\E i \in 1 .. n : builtin_codes_[i] = s)
        BY DEF ResolverInv, SameBuiltins, n, m
      <3>2. ASSUME NEW s \in Builtins
            PROVE  (\E i \in 1 .. m + 1 : registrations_'[i].builtin_code = s)
                       <=> s = o \/ \E i \in 1 .. m : registrations_[i].builtin_code = s
        <4>1. m \in Nat /\ \A i \in 1 .. m + 1 : i = m + 1 \/ i \in 1 .. m
          BY <2>3 DEF m
        <4>2. m + 1 \in 1 .. m + 1 /\ \A i \in 1 .. m : i \in 1 .. m + 1
          BY <4>1
        <4>3. /\ \A i \in 1 .. m : registrations_'[i] = registrations_[i]
              /\ registrations_'[m + 1].builtin_code = o
          BY <2>2, <2>5 DEF m
        <4> QED BY <4>1, <4>2, <4>3
      <3>3. ASSUME NEW s \in Builtins
            PROVE  (\E i \in 1 .. n + 1 : builtin_codes_'[i] = s)
                       <=> s = o \/ \E i \in 1 .. n : builtin_codes_[i] = s
        <4>1. n + 1 \in 1 .. n + 1 /\ \A i \in 1 .. n : i \in 1 .. n + 1
          BY <2>6
        <4> QED BY <2>7, <2>9, <4>1
      <3> QED BY <2>5, <2>7, <3>1, <3>2, <3>3 DEF SameBuiltins, m
    <2> QED
      BY <2>5, <2>7, <2>8, <2>10, <2>11 DEF ResolverInv, ResolverTypeOK
  <1>3. CASE o \in Customs /\ AddCustom(o, o) /\ ~(Full \/ KnowsCustom(o))
    <2> DEFINE place == [builtin_code |-> "CUSTOM", custom_name |-> o, registration |-> o]
    <2>1. /\ registrations_' = Append(registrations_, place)
          /\ UNCHANGED <<builtin_codes_, builtin_parsers_>>
      BY <1>3 DEF AddCustom
    <2>2. place \in Places /\ Belongs(place) /\ place.registration = o
          /\ place.builtin_code = "CUSTOM"
      BY <1>3 DEF Places, Belongs, Operators
    <2> HIDE DEF place
    <2>3. Len(registrations_) \in Nat /\ Len(registrations_) < tOpCount
      BY <1>3, tOpCountAssumption DEF Full, ResolverInv, ResolverTypeOK
    <2>4. \A i \in 1 .. Len(registrations_) : registrations_[i].registration # o
      BY <1>3, KnownByRegistration
    <2>5. /\ registrations_' \in Seq(Places)
          /\ Len(registrations_') = Len(registrations_) + 1
          /\ \A i \in 1 .. Len(registrations_) : registrations_'[i] = registrations_[i]
          /\ registrations_'[Len(registrations_) + 1] = place
          /\ Len(registrations_') <= tOpCount
          /\ \A i \in 1 .. Len(registrations_') : Belongs(registrations_'[i])
          /\ OnePlaceEach'
      BY <2>1, <2>2, <2>3, <2>4, PlaceAdded
    <2>6. SameBuiltins'
      <3> DEFINE m == Len(registrations_)
      <3> HIDE DEF m
      <3>1. ASSUME NEW s \in Builtins
            PROVE  (\E i \in 1 .. m + 1 : registrations_'[i].builtin_code = s)
                       <=> \E i \in 1 .. m : registrations_[i].builtin_code = s
        <4>1. m \in Nat /\ \A i \in 1 .. m + 1 : i = m + 1 \/ i \in 1 .. m
          BY <2>3 DEF m
        <4>2. \A i \in 1 .. m : i \in 1 .. m + 1
          BY <4>1
        <4>3. /\ \A i \in 1 .. m : registrations_'[i] = registrations_[i]
              /\ registrations_'[m + 1].builtin_code = "CUSTOM"
          BY <2>2, <2>5 DEF m
        <4> QED BY <4>1, <4>2, <4>3, OperatorNames
      <3> QED BY <2>1, <2>5, <3>1 DEF ResolverInv, SameBuiltins, m
    <2> QED
      BY <2>1, <2>5, <2>6 DEF ResolverInv, ResolverTypeOK, ParsersInStep
  <1>4. \/ UNCHANGED <<registrations_, builtin_codes_, builtin_parsers_>>
        \/ /\ o \in Builtins /\ AddBuiltin(o, o, ParserAddedWith(o))
           /\ ~(o = "CUSTOM" \/ Knows(o) \/ Full)
        \/ /\ o \in Customs /\ AddCustom(o, o)
           /\ ~(Full \/ KnowsCustom(o))
    BY DEF AddOp, AddEthosU, AddBuiltin, AddCustom, Refused
  <1> QED BY <1>1, <1>2, <1>3, <1>4

\* The arrays of a resolver in which nothing was added yet.
LEMMA EmptyResolver ==
    ASSUME registrations_ = <<>>, builtin_codes_ = <<>>, builtin_parsers_ = <<>>
    PROVE  ResolverInv
  <1>1. Len(registrations_) = 0 /\ Len(builtin_codes_) = 0 /\ Len(builtin_parsers_) = 0
    OBVIOUS
  <1> QED
    BY <1>1, tOpCountAssumption DEF ResolverInv, ResolverTypeOK, OnePlaceEach, ParsersInStep,
       SameBuiltins

\* The same of the arrays after a step (the model forgets the resolver once the
\* node has its registration).
LEMMA ResolverEmptied ==
    ASSUME registrations_' = <<>>, builtin_codes_' = <<>>, builtin_parsers_' = <<>>
    PROVE  ResolverInv'
  <1>1. Len(registrations_') = 0 /\ Len(builtin_codes_') = 0 /\ Len(builtin_parsers_') = 0
    OBVIOUS
  <1> QED
    BY <1>1, tOpCountAssumption DEF ResolverInv, ResolverTypeOK, OnePlaceEach, ParsersInStep,
       SameBuiltins

-----------------------------------------------------------------------------
(* The descriptions of the kernels.                                        *)

\* A step that does nothing to the fields and the data, and how it ends.
Nothing(d, status_) ==
    /\ d.status = status_
    /\ \A f : f \notin d.params /\ f \notin d.sets /\ f \notin d.reads /\ f \notin d.views

\* The ends of a function, and the requests for scratch buffers.
LEMMA NothingHappens ==
    /\ Nothing(Ok, "ok") /\ Nothing(Refuses, "error") /\ Nothing(Halts, "halt")
    /\ Nothing(Aborts, "abort")
    /\ \A n : Nothing(Requests(n), "ok")
  BY DEF Ok, Refuses, Halts, Aborts, Requests, Nothing

\* An access before or behind an array, whenever it happens.
LEMMA EffectOfStrays ==
    ASSUME NEW condition
    PROVE  Nothing(Strays(condition), "ok")
  BY DEF Ok, Strays, Nothing

\* What the other steps add, field by field.
LEMMA EffectOfSteps ==
    \A F :
        /\ Params(F).status = "ok" /\ Sets(F).status = "ok"
        /\ Reads(F).status = "ok" /\ Views(F).status = "ok"
        /\ \A f :
             /\ f \in Params(F).params <=> f \in F
             /\ f \in Sets(F).sets <=> f \in F
             /\ f \in Reads(F).reads <=> f \in F
             /\ f \in Views(F).views <=> f \in F
             /\ f \notin Params(F).sets /\ f \notin Params(F).reads /\ f \notin Params(F).views
             /\ f \notin Sets(F).params /\ f \notin Sets(F).reads /\ f \notin Sets(F).views
             /\ f \notin Reads(F).params /\ f \notin Reads(F).sets /\ f \notin Reads(F).views
             /\ f \notin Views(F).params /\ f \notin Views(F).sets /\ f \notin Views(F).reads
  BY DEF Ok, Params, Sets, Reads, Views

\* Of two steps the second one happens if the first one ends well.
LEMMA EffectOfFollowing ==
    ASSUME NEW a, NEW b
    PROVE  /\ Followed(a, b).status = "ok" <=> a.status = "ok" /\ b.status = "ok"
           /\ \A f :
                /\ f \in Followed(a, b).params
                       <=> f \in a.params \/ (a.status = "ok" /\ f \in b.params)
                /\ f \in Followed(a, b).sets
                       <=> f \in a.sets \/ (a.status = "ok" /\ f \in b.sets)
                /\ f \in Followed(a, b).reads
                       <=> f \in a.reads \/ (a.status = "ok" /\ f \in b.reads)
                /\ f \in Followed(a, b).views
                       <=> f \in a.views \/ (a.status = "ok" /\ f \in b.views)
  BY DEF Followed

LEMMA EffectOfSum ==
    \A a, b :
        /\ (a \oplus b).status = "ok" <=> a.status = "ok" /\ b.status = "ok"
        /\ \A f :
             /\ f \in (a \oplus b).params
                    <=> f \in a.params \/ (a.status = "ok" /\ f \in b.params)
             /\ f \in (a \oplus b).sets <=> f \in a.sets \/ (a.status = "ok" /\ f \in b.sets)
             /\ f \in (a \oplus b).reads <=> f \in a.reads \/ (a.status = "ok" /\ f \in b.reads)
             /\ f \in (a \oplus b).views <=> f \in a.views \/ (a.status = "ok" /\ f \in b.views)
  BY EffectOfFollowing DEF \oplus

\* The options that the parser of an operator copies.
OptionsOf(o) == IF o \in Customs THEN {} ELSE ParserAddedWith(o).fields

\* Those of the operators whose kernels read any.
LEMMA OptionsOfOperators ==
    /\ OptionsOf("ADD") = ParseAdd.fields
    /\ OptionsOf("AVERAGE_POOL_2D") = ParsePool.fields
    /\ OptionsOf("CONCATENATION") = ParseConcatenation.fields
    /\ OptionsOf("CONV_2D") = ParseConv2D.fields
    /\ OptionsOf("DEPTHWISE_CONV_2D") = ParseDepthwiseConv2D.fields
    /\ OptionsOf("FULLY_CONNECTED") = ParseFullyConnected.fields
    /\ OptionsOf("L2_NORMALIZATION") = ParseL2Normalization.fields
    /\ OptionsOf("MAX_POOL_2D") = ParsePool.fields
    /\ OptionsOf("MEAN") = ParseReducer.fields
    /\ OptionsOf("MUL") = ParseMul.fields
    /\ OptionsOf("PACK") = ParsePack.fields
    /\ OptionsOf("REDUCE_MAX") = ParseReducer.fields
    /\ OptionsOf("RESIZE_NEAREST_NEIGHBOR") = ParseResizeNearestNeighbor.fields
    /\ OptionsOf("SOFTMAX") = ParseSoftmax.fields
    /\ OptionsOf("STRIDED_SLICE") = ParseStridedSlice.fields
    /\ OptionsOf("SUB") = ParseSub.fields
    /\ OptionsOf("SVDF") = ParseSvdf.fields
    /\ OptionsOf("UNPACK") = ParseUnpack.fields
  <1>1. /\ OptionsOf("ADD") = ParseAdd.fields
        /\ OptionsOf("AVERAGE_POOL_2D") = ParsePool.fields
        /\ OptionsOf("CONCATENATION") = ParseConcatenation.fields
        /\ OptionsOf("CONV_2D") = ParseConv2D.fields
        /\ OptionsOf("DEPTHWISE_CONV_2D") = ParseDepthwiseConv2D.fields
    BY DEF OptionsOf, Customs, AbsToExp, FloorToMean, MinimumToZerosLike, ParserAddedWith,
           AddAbsToExp
  <1>2. /\ OptionsOf("FULLY_CONNECTED") = ParseFullyConnected.fields
        /\ OptionsOf("L2_NORMALIZATION") = ParseL2Normalization.fields
        /\ OptionsOf("MAX_POOL_2D") = ParsePool.fields
        /\ OptionsOf("MEAN") = ParseReducer.fields
    BY DEF OptionsOf, Customs, AbsToExp, FloorToMean, MinimumToZerosLike, ParserAddedWith,
           AddFloorToMean
  <1>3. /\ OptionsOf("MUL") = ParseMul.fields
        /\ OptionsOf("PACK") = ParsePack.fields
        /\ OptionsOf("REDUCE_MAX") = ParseReducer.fields
        /\ OptionsOf("RESIZE_NEAREST_NEIGHBOR") = ParseResizeNearestNeighbor.fields
        /\ OptionsOf("SOFTMAX") = ParseSoftmax.fields
    BY DEF OptionsOf, Customs, AbsToExp, FloorToMean, MinimumToZerosLike, ParserAddedWith,
           AddMinimumToZerosLike
  <1>4. /\ OptionsOf("STRIDED_SLICE") = ParseStridedSlice.fields
        /\ OptionsOf("SUB") = ParseSub.fields
        /\ OptionsOf("SVDF") = ParseSvdf.fields
        /\ OptionsOf("UNPACK") = ParseUnpack.fields
    BY DEF OptionsOf, Customs, AbsToExp, FloorToMean, MinimumToZerosLike, ParserAddedWith,
           AddMinimumToZerosLike
  <1> QED BY ONLY <1>1, <1>2, <1>3, <1>4

\* What the functions of a registration promise each other about a node x of the
\* operator op: Init reads nothing; Prepare and Invoke read options that the parser
\* copies and fields that those before them have set; and an evaluation that ends
\* well has taken the data of each tensor for its type.
PrepareContract(r, x) ==
    (op \in PreparedForTheOutput => x.in = x.out) =>
        /\ \A f \in r.prepare.reads : f \in r.init.sets \/ f \in NeverSet
        /\ \A f \in r.prepare.params : f \in OptionsOf(op)

InvokeContract(r, x) ==
    (op \in PreparedForTheOutput => x.in = x.out) /\ r.prepare.status = "ok" =>
        /\ \A f \in r.invoke.reads :
               f \in r.init.sets \/ f \in r.prepare.sets \/ f \in NeverSet
        /\ \A f \in r.invoke.params : f \in OptionsOf(op)

ViewsContract(r, x) ==
    r.prepare.status = "ok" /\ r.invoke.status = "ok" =>
        \A v \in r.invoke.views : v[2] = x[v[1]] \/ op \in NotLookedAt[v[1]]

Contract(r, x) ==
    /\ r.init.reads \subseteq {} /\ r.init.params \subseteq {}
    /\ PrepareContract(r, x)
    /\ InvokeContract(r, x)
    /\ ViewsContract(r, x)

\* The kernels of KernelsNeural, operator by operator.
LEMMA LayersKeepContract ==
    ASSUME NEW x,
           op \in {"AVERAGE_POOL_2D", "CONV_2D", "DEPTHWISE_CONV_2D", "FULLY_CONNECTED",
                   "HARD_SWISH", "L2_NORMALIZATION", "LOGISTIC", "MAX_POOL_2D", "PRELU",
                   "RELU", "RELU6", "SOFTMAX", "SVDF", "TANH"}
    PROVE  Contract(Register(op, x), x)
  <1> USE EffectOfSteps, EffectOfSum, EffectOfStrays, NothingHappens DEF Nothing, Contract,
          PrepareContract, InvokeContract, ViewsContract, NeverSet, PreparedForTheOutput,
          NotLookedAt, Register, When, Requires, Registration, AllocatesOpData, NoInit,
          NoPrepare, Float, Bytes, Unary, Binary, Copies, CopiesKnown
  <1>1. CASE op = "AVERAGE_POOL_2D"
    BY <1>1, OptionsOfOperators, SMTT(20)
        DEF Register_AVERAGE_POOL_2D, PoolingPrepare, AverageEval,
           PoolingCalculateOpData, AverageEvalFloat, AverageEvalQuantized, Window, ParsePool
  <1>2. CASE op = "CONV_2D"
    <2> USE <1>2, OptionsOfOperators DEF Register_CONV_2D, ConvPrepare, ConvEval,
            ConvCalculateOpData, ZeroPoints, ConvEvalFloat, ConvEvalQuantizedPerChannel,
            ConvEvalQuantized, Strides, Dilations, PopulateConvolutionQuantizationParams,
            Bias, PerChannel, ActivationRange, Rescaling, CalculateActivationRangeQuantized,
            ParseConv2D
    <2>1. /\ Register(op, x).init.reads \subseteq {}
          /\ Register(op, x).init.params \subseteq {}
      OBVIOUS
    <2>2. PrepareContract(Register(op, x), x)
      OBVIOUS
    <2>3. InvokeContract(Register(op, x), x)
      <3>1. CASE x.in = "int8"
        BY <3>1
      <3>2. CASE x.in = "uint8"
        BY <3>2
      <3>3. CASE x.in = "float32"
        BY <3>3
      <3>4. CASE x.in \notin {"int8", "uint8", "float32"}
        BY <3>4
      <3> QED BY ONLY <3>1, <3>2, <3>3, <3>4
    <2>4. ViewsContract(Register(op, x), x)
      OBVIOUS
    <2> HIDE DEF PrepareContract, InvokeContract, ViewsContract, Register
    <2> QED BY ONLY <2>1, <2>2, <2>3, <2>4 DEF Contract
  <1>3. CASE op = "DEPTHWISE_CONV_2D"
    <2> USE <1>3, OptionsOfOperators DEF Register_DEPTHWISE_CONV_2D, DepthwiseConvPrepare,
            DepthwiseConvEval, DepthwiseConvCalculateOpData, ZeroPoints,
            DepthwiseConvEvalFloat, DepthwiseConvEvalQuantizedPerChannel,
            DepthwiseConvEvalQuantized, Strides, PopulateConvolutionQuantizationParams,
            Dilations, Bias, PerChannel, Rescaling, ActivationRange,
            CalculateActivationRangeQuantized, ParseDepthwiseConv2D
    <2>1. /\ Register(op, x).init.reads \subseteq {}
          /\ Register(op, x).init.params \subseteq {}
      OBVIOUS
    <2>2. PrepareContract(Register(op, x), x)
      OBVIOUS
    <2>3. InvokeContract(Register(op, x), x)
      <3>1. CASE x.in = "int8"
        BY <3>1
      <3>2. CASE x.in = "uint8"
        BY <3>2
      <3>3. CASE x.in = "float32"
        BY <3>3
      <3>4. CASE x.in \notin {"int8", "uint8", "float32"}
        BY <3>4
      <3> QED BY ONLY <3>1, <3>2, <3>3, <3>4
    <2>4. ViewsContract(Register(op, x), x)
      OBVIOUS
    <2> HIDE DEF PrepareContract, InvokeContract, ViewsContract, Register
    <2> QED BY ONLY <2>1, <2>2, <2>3, <2>4 DEF Contract
  <1>4. CASE op = "FULLY_CONNECTED"
    BY <1>4, OptionsOfOperators DEF Register_FULLY_CONNECTED, FullyConnectedPrepare,
           FullyConnectedEval, CalculateOpDataFullyConnected, FullyConnectedParamsFloat,
           FullyConnectedParamsQuantized, Rescaling, ZeroPoints,
           CalculateActivationRangeQuantized, ActivationRange, ParseFullyConnected
  <1>5. CASE op = "HARD_SWISH"
    BY <1>5 DEF Register_HARD_SWISH, HardSwishPrepare, HardSwishEval, HardSwishParams
  <1>6. CASE op = "L2_NORMALIZATION"
    BY <1>6, OptionsOfOperators DEF Register_L2_NORMALIZATION, L2NormPrepare, L2NormEval,
           ParseL2Normalization
  <1>7. CASE op = "LOGISTIC"
    BY <1>7 DEF Register_LOGISTIC, LogisticPrepare, LogisticEval,
           LogisticCalculateArithmeticOpData, Sigmoid
  <1>8. CASE op = "MAX_POOL_2D"
    BY <1>8, OptionsOfOperators, SMTT(20) DEF Register_MAX_POOL_2D, PoolingPrepare, MaxEval,
           PoolingCalculateOpData, MaxEvalFloat, MaxEvalQuantized, Window, ParsePool
  <1>9. CASE op = "PRELU"
    BY <1>9 DEF Register_PRELU, PreluPrepare, PreluEval, CalculatePreluParams,
           BroadcastPrelu4DSlowFloat, PreluParams
  <1>10. CASE op = "RELU"
    BY <1>10 DEF Register_RELU, ReluPrepare, ReluEval, CalculateReluOpData, ReluFloat,
           ReluQuantized
  <1>11. CASE op = "RELU6"
    BY <1>11 DEF Register_RELU6, Relu6Prepare, Relu6Eval, Relu6Float, Relu6Quantized
  <1>12. CASE op = "SOFTMAX"
    <2> USE <1>12, OptionsOfOperators DEF Register_SOFTMAX, SoftmaxPrepare, SoftmaxEval,
            CalculateSoftmaxParams, SoftmaxQuantized, ParseSoftmax
    <2>1. /\ Register(op, x).init.reads \subseteq {}
          /\ Register(op, x).init.params \subseteq {}
      OBVIOUS
    <2>2. PrepareContract(Register(op, x), x)
      OBVIOUS
    <2>3. InvokeContract(Register(op, x), x)
      OBVIOUS
    <2>4. ViewsContract(Register(op, x), x)
      OBVIOUS
    <2> HIDE DEF PrepareContract, InvokeContract, ViewsContract, Register
    <2> QED BY ONLY <2>1, <2>2, <2>3, <2>4 DEF Contract
  <1>13. CASE op = "SVDF"
    <2> USE <1>13, OptionsOfOperators DEF Register_SVDF, SvdfPrepare, SvdfEval,
            SvdfPrepareInteger, SvdfPrepareFloat, EvalFloatSVDF, EvalIntegerSvdfReference,
            ApplyTimeWeightsBiasAndActivation, ParseSvdf
    <2>1. /\ Register(op, x).init.reads \subseteq {}
          /\ Register(op, x).init.params \subseteq {}
      OBVIOUS
    <2>2. PrepareContract(Register(op, x), x)
      OBVIOUS
    <2>3. InvokeContract(Register(op, x), x)
      OBVIOUS
    <2>4. ViewsContract(Register(op, x), x)
      OBVIOUS
    <2> HIDE DEF PrepareContract, InvokeContract, ViewsContract, Register
    <2> QED BY ONLY <2>1, <2>2, <2>3, <2>4 DEF Contract
  <1>14. CASE op = "TANH"
    BY <1>14 DEF Register_TANH, TanhPrepare, TanhEval, TanhCalculateArithmeticOpData,
           Sigmoid
  <1> HIDE EffectOfSteps, EffectOfSum, EffectOfStrays, NothingHappens DEF Nothing, Contract,
          PrepareContract, InvokeContract, ViewsContract, Register
  <1> QED BY <1>1, <1>2, <1>3, <1>4, <1>5, <1>6, <1>7, <1>8, <1>9, <1>10, <1>11, <1>12,
             <1>13, <1>14

\* The kernels of KernelsElementwise.
LEMMA ElementwiseKeepContract ==
    ASSUME NEW x,
           op \in {"ABS", "ADD", "CAST", "CEIL", "COS", "DEQUANTIZE", "EQUAL", "EXP",
                   "FLOOR", "GREATER", "GREATER_EQUAL", "LESS", "LESS_EQUAL", "LOG",
                   "LOGICAL_AND", "LOGICAL_NOT", "LOGICAL_OR", "MAXIMUM", "MINIMUM", "MUL",
                   "NEG", "NOT_EQUAL", "QUANTIZE", "ROUND", "RSQRT", "SIN", "SQRT",
                   "SQUARE", "SUB", "ZEROS_LIKE"}
    PROVE  Contract(Register(op, x), x)
  <1> USE EffectOfSteps, EffectOfSum, EffectOfStrays, NothingHappens DEF Nothing, Contract,
          PrepareContract, InvokeContract, ViewsContract, NeverSet, PreparedForTheOutput,
          NotLookedAt, Register, When, Requires, Registration, AllocatesOpData, NoInit,
          NoPrepare, Float, Bytes, Unary, Binary, Copies, CopiesKnown
  <1>1. CASE op = "ABS"
    BY <1>1 DEF Register_ABS, GenericPrepare, AbsEval, EvalNumeric, EvalImpl
  <1>2. CASE op = "ADD"
    BY <1>2, OptionsOfOperators DEF Register_ADD, AddPrepare, AddEval, AddCalculateOpData,
           EvalAdd, EvalAddQuantized, Rescales, OutputScale, QuantizedRange, FloatRange,
           ParseAdd
  <1>3. CASE op = "CAST"
    BY <1>3 DEF Register_CAST, CastPrepare, CastEval, copyToTensor
  <1>4. CASE op = "CEIL"
    BY <1>4 DEF Register_CEIL, CeilPrepare, CeilEval
  <1>5. CASE op = "COS"
    BY <1>5 DEF Register_COS, GenericPrepare, CosEval, EvalNumeric, EvalImpl
  <1>6. CASE op = "DEQUANTIZE"
    BY <1>6 DEF Register_DEQUANTIZE, DequantizePrepare, DequantizeEval
  <1>7. CASE op = "EQUAL"
    BY <1>7 DEF Register_EQUAL, ComparisonsPrepare, EqualEval, Rescales, Compares
  <1>8. CASE op = "EXP"
    BY <1>8 DEF Register_EXP, ExpPrepare, ExpEval
  <1>9. CASE op = "FLOOR"
    BY <1>9 DEF Register_FLOOR, FloorEval
  <1>10. CASE op = "GREATER"
    BY <1>10 DEF Register_GREATER, ComparisonsPrepare, GreaterEval, Rescales, Compares
  <1>11. CASE op = "GREATER_EQUAL"
    BY <1>11 DEF Register_GREATER_EQUAL, ComparisonsPrepare, GreaterEqualEval, Rescales,
           Compares
  <1>12. CASE op = "LESS"
    BY <1>12 DEF Register_LESS, ComparisonsPrepare, LessEval, Rescales, Compares
  <1>13. CASE op = "LESS_EQUAL"
    BY <1>13 DEF Register_LESS_EQUAL, ComparisonsPrepare, LessEqualEval, Rescales, Compares
  <1>14. CASE op = "LOG"
    BY <1>14 DEF Register_LOG, GenericPrepare, LogEval, EvalNumeric, EvalImpl
  <1>15. CASE op = "LOGICAL_AND"
    BY <1>15 DEF Register_LOGICAL_AND, LogicalAndEval, LogicalImpl
  <1>16. CASE op = "LOGICAL_NOT"
    BY <1>16 DEF Register_LOGICAL_NOT, GenericPrepare, LogicalNotEval, EvalLogical, EvalImpl
  <1>17. CASE op = "LOGICAL_OR"
    BY <1>17 DEF Register_LOGICAL_OR, LogicalOrEval, LogicalImpl
  <1>18. CASE op = "MAXIMUM"
    BY <1>18 DEF Register_MAXIMUM, MaximumMinimumEval
  <1>19. CASE op = "MINIMUM"
    BY <1>19 DEF Register_MINIMUM, MaximumMinimumEval
  <1>20. CASE op = "MUL"
    BY <1>20, OptionsOfOperators DEF Register_MUL, MulPrepare, MulEval, MulCalculateOpData,
           MulEvalQuantized, MulEvalFloat, QuantizedRange, MulParams, FloatRange, ParseMul
  <1>21. CASE op = "NEG"
    BY <1>21 DEF Register_NEG, NegEval
  <1>22. CASE op = "NOT_EQUAL"
    BY <1>22 DEF Register_NOT_EQUAL, ComparisonsPrepare, NotEqualEval, Rescales, Compares
  <1>23. CASE op = "QUANTIZE"
    BY <1>23 DEF Register_QUANTIZE, QuantizePrepare, EvalQuantizeReference, Requantized
  <1>24. CASE op = "ROUND"
    BY <1>24 DEF Register_ROUND, RoundPrepare, RoundEval
  <1>25. CASE op = "RSQRT"
    BY <1>25 DEF Register_RSQRT, GenericPrepare, RsqrtEval, EvalNumeric, EvalImpl
  <1>26. CASE op = "SIN"
    BY <1>26 DEF Register_SIN, GenericPrepare, SinEval, EvalNumeric, EvalImpl
  <1>27. CASE op = "SQRT"
    BY <1>27 DEF Register_SQRT, GenericPrepare, SqrtEval, EvalNumeric, EvalImpl
  <1>28. CASE op = "SQUARE"
    BY <1>28 DEF Register_SQUARE, GenericPrepare, SquareEval, EvalNumeric, EvalImpl
  <1>29. CASE op = "SUB"
    BY <1>29, OptionsOfOperators DEF Register_SUB, SubPrepare, SubEval, SubCalculateOpData,
           EvalSub, EvalSubQuantized, Rescales, OutputScale, QuantizedRange, ParseSub
  <1>30. CASE op = "ZEROS_LIKE"
    BY <1>30 DEF Register_ZEROS_LIKE, ZerosLikePrepare, ZerosLikeEval, resetZeros
  <1> HIDE EffectOfSteps, EffectOfSum, EffectOfStrays, NothingHappens DEF Nothing, Contract,
          PrepareContract, InvokeContract, ViewsContract, Register
  <1> QED BY <1>1, <1>2, <1>3, <1>4, <1>5, <1>6, <1>7, <1>8, <1>9, <1>10, <1>11, <1>12,
             <1>13, <1>14, <1>15, <1>16, <1>17, <1>18, <1>19, <1>20, <1>21, <1>22, <1>23,
             <1>24, <1>25, <1>26, <1>27, <1>28, <1>29, <1>30

\* The postprocessing of detections: what its two ways of suppression read between
\* them, Init has taken from the options or Prepare has asked for.
LEMMA DetectionKeepsContract ==
    ASSUME NEW x, op = "TFLite_Detection_PostProcess"
    PROVE  Contract(Register(op, x), x)
  <1> USE EffectOfSteps, EffectOfSum, EffectOfStrays, NothingHappens DEF Nothing, When, Requires,
          AllocatesOpData, DecodeCenterSizeBoxes, NonMaxSuppressionMultiClass,
          DequantizeClassPredictions, NonMaxSuppressionMultiClassRegularHelper,
          NonMaxSuppressionMultiClassFastHelper, NonMaxSuppressionSingleClassHelper
  <1> DEFINE Given == DetectionInit.sets \cup DetectionPrepare(x).sets
  <1>1. DetectionPrepare(x).status = "ok" =>
            \A f \in {"max_detections", "max_classes_per_detection", "detections_per_class",
                      "use_regular_non_max_suppression", "non_max_suppression_score_threshold",
                      "intersection_over_union_threshold", "num_classes", "scale_values",
                      "input_box_encodings", "input_class_predictions", "input_anchors",
                      "active_candidate_idx", "decoded_boxes_idx", "scores_idx",
                      "score_buffer_idx", "keep_scores_idx",
                      "scores_after_regular_non_max_suppression_idx", "sorted_values_idx",
                      "keep_indices_idx", "sorted_indices_idx", "buffer_idx", "selected_idx"} :
                f \in Given
    BY DEF DetectionInit, DetectionPrepare, DetectionBuffers
  <1> HIDE DEF Given
  <1>2. DetectionPrepare(x).status = "ok" =>
            \A f \in DecodeCenterSizeBoxes(x).reads : f \in Given
    BY <1>1 DEF Float
  <1>3. DetectionPrepare(x).status = "ok" =>
            \A f \in NonMaxSuppressionMultiClass(x).reads : f \in Given
    BY <1>1 DEF Float
  <1>4. DetectionPrepare(x).status = "ok" =>
            \A f \in DetectionEval(x).reads :
                f \in DetectionInit.sets \/ f \in DetectionPrepare(x).sets
    BY <1>2, <1>3 DEF DetectionEval, Given
  <1>5. DetectionEval(x).params \subseteq {} /\ DetectionPrepare(x).params \subseteq {}
    BY DEF DetectionEval, DetectionPrepare, Float
  <1>6. /\ DetectionInit.reads \subseteq {} /\ DetectionInit.params \subseteq {}
        /\ \A f \in DetectionPrepare(x).reads : f \in DetectionInit.sets
    BY DEF DetectionInit, DetectionPrepare
  <1>7. DetectionEval(x).status = "ok" =>
            \A v \in DetectionEval(x).views :
                v[1] = "out" \/ v = <<"in", x.in>> \/ v = <<"in2", x.in2>>
    BY DEF DetectionEval, Float
  <1>8. Register(op, x) = Registration(DetectionInit, DetectionPrepare(x), DetectionEval(x))
    BY DEF Register, Register_DETECTION_POSTPROCESS
  <1> QED
    BY <1>4, <1>5, <1>6, <1>7, <1>8 DEF Contract, PrepareContract, InvokeContract,
           ViewsContract, NotLookedAt, Registration

\* The kernels of KernelsTensor.
LEMMA TensorsKeepContract ==
    ASSUME NEW x,
           op \in {"ARG_MAX", "ARG_MIN", "BATCH_TO_SPACE_ND", "CIRCULAR_BUFFER",
                   "CONCATENATION", "MEAN", "PACK", "PAD", "PADV2", "REDUCE_MAX", "RESHAPE",
                   "RESIZE_NEAREST_NEIGHBOR", "SHAPE", "SPACE_TO_BATCH_ND", "SPLIT",
                   "SPLIT_V", "STRIDED_SLICE", "UNPACK", "TFLite_Detection_PostProcess"}
    PROVE  Contract(Register(op, x), x)
  <1> USE EffectOfSteps, EffectOfSum, EffectOfStrays, NothingHappens DEF Nothing, Contract,
          PrepareContract, InvokeContract, ViewsContract, NeverSet, PreparedForTheOutput,
          NotLookedAt, Register, When, Requires, Registration, AllocatesOpData, NoInit,
          NoPrepare, Float, Bytes, Unary, Binary, Copies, CopiesKnown
  <1>1. CASE op = "ARG_MAX"
    BY <1>1 DEF Register_ARG_MAX, ArgMaxEval, ArgMinMaxEval, ArgMinMaxHelper
  <1>2. CASE op = "ARG_MIN"
    BY <1>2 DEF Register_ARG_MIN, ArgMinEval, ArgMinMaxEval, ArgMinMaxHelper
  <1>3. CASE op = "BATCH_TO_SPACE_ND"
    BY <1>3 DEF Register_BATCH_TO_SPACE_ND, BatchToSpacePrepare, BatchToSpaceEval
  <1>4. CASE op = "CIRCULAR_BUFFER"
    BY <1>4 DEF Register_CIRCULAR_BUFFER, CircularBufferPrepare, CircularBufferEval,
           EvalInt8
  <1>5. CASE op = "CONCATENATION"
    BY <1>5, OptionsOfOperators DEF Register_CONCATENATION, ConcatenationPrepare,
           ConcatenationEval, CalculatePositiveAxis, ConcatenationScales, EvalUnquantized,
           EvalQuantizedUInt8, GetAllInputTensorData, ParseConcatenation
  <1>6. CASE op = "MEAN"
    BY <1>6, OptionsOfOperators DEF Register_MEAN, PrepareMeanOrSum, EvalMean,
           MeanQuantization, PrepareSimple, ResolveAxis, ParseReducer
  <1>7. CASE op = "PACK"
    BY <1>7, OptionsOfOperators DEF Register_PACK, PackEval, PackImpl, ParsePack
  <1>8. CASE op = "PAD"
    BY <1>8 DEF Register_PAD, PadPrepare, PadEval, PadShape
  <1>9. CASE op = "PADV2"
    BY <1>9 DEF Register_PADV2, PadPrepare, PadEval, PadShape
  <1>10. CASE op = "REDUCE_MAX"
    BY <1>10, OptionsOfOperators DEF Register_REDUCE_MAX, PrepareMax, EvalMax,
           PrepareSimple, MeanQuantization, ParseReducer
  <1>11. CASE op = "RESHAPE"
    BY <1>11 DEF Register_RESHAPE, ReshapePrepare, ReshapeEval, ReshapeOutput
  <1>12. CASE op = "RESIZE_NEAREST_NEIGHBOR"
    BY <1>12, OptionsOfOperators DEF Register_RESIZE_NEAREST_NEIGHBOR,
           ResizeNearestNeighborPrepare, ResizeNearestNeighborEval,
           ParseResizeNearestNeighbor
  <1>13. CASE op = "SHAPE"
    BY <1>13 DEF Register_SHAPE, ShapePrepare, ShapeEval, ExtractShape
  <1>14. CASE op = "SPACE_TO_BATCH_ND"
    BY <1>14 DEF Register_SPACE_TO_BATCH_ND, SpaceToBatchPrepare, SpaceToBatchEval
  <1>15. CASE op = "SPLIT"
    BY <1>15 DEF Register_SPLIT, SplitPrepare, SplitEval, SplitImpl
  <1>16. CASE op = "SPLIT_V"
    BY <1>16 DEF Register_SPLIT_V, SplitVPrepare, SplitVEval, SplitVImpl
  <1>17. CASE op = "STRIDED_SLICE"
    BY <1>17, OptionsOfOperators DEF Register_STRIDED_SLICE, StridedSlicePrepare,
           StridedSliceEval, BuildStridedSliceParams, StridedSliceParams, CheckOutputSize,
           ParseStridedSlice
  <1>18. CASE op = "UNPACK"
    BY <1>18, OptionsOfOperators DEF Register_UNPACK, UnpackEval, UnpackImpl, ParseUnpack
  <1>19. CASE op = "TFLite_Detection_PostProcess"
    BY ONLY <1>19, DetectionKeepsContract
  <1> HIDE EffectOfSteps, EffectOfSum, EffectOfStrays, NothingHappens DEF Nothing, Contract,
          PrepareContract, InvokeContract, ViewsContract, Register
  <1> QED BY <1>1, <1>2, <1>3, <1>4, <1>5, <1>6, <1>7, <1>8, <1>9, <1>10, <1>11, <1>12,
             <1>13, <1>14, <1>15, <1>16, <1>17, <1>18, <1>19

\* Each operator a resolver knows.
LEMMA EveryOperatorKeepsContract ==
    ASSUME op \in Operators, NEW x
    PROVE  Contract(Register(op, x), x)
  <1> DEFINE layers ==
                 {"AVERAGE_POOL_2D", "CONV_2D", "DEPTHWISE_CONV_2D", "FULLY_CONNECTED",
                  "HARD_SWISH", "L2_NORMALIZATION", "LOGISTIC", "MAX_POOL_2D", "PRELU",
                  "RELU", "RELU6", "SOFTMAX", "SVDF", "TANH"}
             elements ==
                 {"ABS", "ADD", "CAST", "CEIL", "COS", "DEQUANTIZE", "EQUAL", "EXP",
                  "FLOOR", "GREATER", "GREATER_EQUAL", "LESS", "LESS_EQUAL", "LOG",
                  "LOGICAL_AND", "LOGICAL_NOT", "LOGICAL_OR", "MAXIMUM", "MINIMUM", "MUL", "NEG",
                  "NOT_EQUAL", "QUANTIZE", "ROUND", "RSQRT", "SIN", "SQRT", "SQUARE", "SUB",
                  "ZEROS_LIKE"}
             tensors ==
                 {"ARG_MAX", "ARG_MIN", "BATCH_TO_SPACE_ND", "CIRCULAR_BUFFER",
                  "CONCATENATION", "MEAN", "PACK", "PAD", "PADV2", "REDUCE_MAX", "RESHAPE",
                  "RESIZE_NEAREST_NEIGHBOR", "SHAPE", "SPACE_TO_BATCH_ND", "SPLIT",
                  "SPLIT_V", "STRIDED_SLICE", "UNPACK", "TFLite_Detection_PostProcess"}
  <1>1. op \in layers \/ op \in elements \/ op \in tensors
    BY DEF Operators, Builtins, AbsToExp, FloorToMean, MinimumToZerosLike, Customs
  <1>2. op \in layers => Contract(Register(op, x), x)
    BY ONLY LayersKeepContract
  <1>3. op \in elements => Contract(Register(op, x), x)
    BY ONLY ElementwiseKeepContract
  <1>4. op \in tensors => Contract(Register(op, x), x)
    BY ONLY TensorsKeepContract
  <1> QED BY ONLY <1>1, <1>2, <1>3, <1>4

-----------------------------------------------------------------------------
(* The node.                                                               *)

\* Which operator the node has, and what has been found for it.
FoundInv ==
    /\ op \in BuiltinOperators \cup Customs
    /\ stage \in {"building", "found", "parsed", "initialized", "prepared", "invoked", "failed"}
    /\ stage \in {"found", "parsed", "initialized", "prepared", "invoked"} =>
           op \in Operators /\ registration = op /\ parser.fields = OptionsOf(op)
    /\ stage \in {"parsed", "initialized", "prepared", "invoked"} => builtin_data = OptionsOf(op)

\* What the functions that have run left behind.
RunInv ==
    /\ stage \in {"building", "found", "parsed"} => user_data = {} /\ unset = {}
    /\ stage \in {"initialized", "prepared", "invoked"} =>
           \A f \in Register(op, node).init.sets : f \in user_data
    /\ stage \in {"prepared", "invoked"} =>
           /\ Register(op, node).prepare.status = "ok"
           /\ \A f \in Register(op, node).prepare.sets : f \in user_data
    /\ stage = "invoked" => result = Register(op, node).invoke

KernelsInv == ResolverInv /\ FoundInv /\ RunInv /\ ReadsWereSet

\* CHOOSE of the first place of a set gives one of it.
LEMMA FirstIsMember ==
    ASSUME NEW S, S # {}, S \subseteq Nat
    PROVE  First(S) \in S
  <1>1. \E i \in S : \A j \in S : i <= j
    BY Least
  <1> QED BY <1>1 DEF First

\* What FindOp, FindCustomOp and GetOpDataParser answer.
LEMMA FindsItsOwn ==
    ASSUME ResolverInv
    PROVE  /\ \A o \in Builtins :
                Knows(o) =>
                    /\ FindOp(o) = o
                    /\ HasParser(o)
                    /\ GetOpDataParser(o) = ParserAddedWith(o)
           /\ \A o \in Customs : KnowsCustom(o) => FindCustomOp(o) = o
  <1>1. /\ DOMAIN registrations_ = 1 .. Len(registrations_)
        /\ DOMAIN builtin_codes_ = 1 .. Len(builtin_codes_)
        /\ Len(registrations_) \in Nat /\ Len(builtin_codes_) \in Nat
    BY DEF ResolverInv, ResolverTypeOK
  <1>2. /\ DOMAIN registrations_ \subseteq Nat
        /\ DOMAIN builtin_codes_ \subseteq Nat
    BY <1>1
  <1>3. \A i \in DOMAIN registrations_ : Belongs(registrations_[i])
    BY <1>1 DEF ResolverInv
  <1>4. ASSUME NEW o \in Builtins, Knows(o)
        PROVE  FindOp(o) = o /\ HasParser(o) /\ GetOpDataParser(o) = ParserAddedWith(o)
    <2>1. First(PlacesOf(o)) \in PlacesOf(o)
      BY <1>2, <1>4, FirstIsMember DEF Knows, PlacesOf
    <2>2. FindOp(o) = o
      BY <1>3, <1>4, <2>1, OperatorNames DEF PlacesOf, Belongs, FindOp
    <2>3. HasParser(o)
      BY <1>1, <1>4 DEF HasParser, Knows, PlacesOf, ResolverInv, SameBuiltins
    <2> DEFINE codes == {i \in DOMAIN builtin_codes_ : builtin_codes_[i] = o}
    <2>4. codes # {} /\ codes \subseteq Nat
      BY <1>2, <2>3 DEF HasParser
    <2>5. First(codes) \in codes
      BY <2>4, FirstIsMember
    <2>6. \A i \in codes : builtin_parsers_[i] = ParserAddedWith(o)
      BY <1>1 DEF ResolverInv, ParsersInStep
    <2>7. GetOpDataParser(o) = builtin_parsers_[First(codes)]
      BY DEF GetOpDataParser
    <2> QED BY <2>2, <2>3, <2>5, <2>6, <2>7
  <1>5. ASSUME NEW o \in Customs, KnowsCustom(o)
        PROVE  FindCustomOp(o) = o
    <2>1. First(CustomPlacesOf(o)) \in CustomPlacesOf(o)
      BY <1>2, <1>5, FirstIsMember DEF KnowsCustom, CustomPlacesOf, PlacesOf
    <2> QED
      BY <1>3, <2>1, OperatorNames DEF CustomPlacesOf, PlacesOf, Belongs, FindCustomOp
  <1> QED BY <1>4, <1>5

\* What is known has been added: no other operator, and no custom one as builtin.
LEMMA KnownIsBuiltin ==
    ASSUME ResolverInv, NEW o, Knows(o)
    PROVE  o \in Builtins
  BY DEF Knows, PlacesOf, ResolverInv, ResolverTypeOK, Belongs

\* The initial states.
LEMMA InitKernels ==
    ASSUME Init
    PROVE  KernelsInv
  <1>1. ResolverInv
    BY EmptyResolver DEF Init, InitResolver
  <1>2. FoundInv /\ RunInv /\ ReadsWereSet
    BY DEF Init, FoundInv, RunInv, ReadsWereSet
  <1> QED BY <1>1, <1>2 DEF KernelsInv

\* The program adds an operator.
LEMMA AddStep ==
    ASSUME KernelsInv, Add
    PROVE  KernelsInv'
  <1>1. ResolverInv'
    <2>1. PICK o : AddOp(o) \/ AddEthosU
      BY DEF Add
    <2> QED BY <2>1, AddKeepsResolver DEF KernelsInv
  <1>2. FoundInv' /\ RunInv' /\ ReadsWereSet'
    BY DEF KernelsInv, FoundInv, RunInv, ReadsWereSet, NeverSet, Add, kernel
  <1> QED BY <1>1, <1>2 DEF KernelsInv

\* The allocator looks the operator up.
LEMMA LookupStep ==
    ASSUME KernelsInv, Lookup
    PROVE  KernelsInv'
  <1>1. ResolverInv'
    BY ResolverEmptied DEF Lookup
  <1>2. ResolverInv /\ FoundInv /\ RunInv /\ ReadsWereSet /\ stage = "building"
    BY DEF KernelsInv, Lookup
  <1>3. /\ UNCHANGED <<op, node, builtin_data, user_data, unset, result>>
        /\ stage' \in {"found", "failed"}
    BY DEF Lookup
  <1>4. stage' = "found" =>
            op \in Operators /\ registration' = op /\ parser'.fields = OptionsOf(op)
    <2> SUFFICES ASSUME stage' = "found"
                 PROVE  op \in Operators /\ registration' = op /\ parser'.fields = OptionsOf(op)
      OBVIOUS
    <2>1. Found /\ ((op \in Customs /\ KnowsCustom(op)) \/ (Knows(op) /\ HasParser(op)))
      BY DEF Lookup
    <2>2. CASE op \in Customs
      <3>1. KnowsCustom(op)
        BY <1>2, <2>1, <2>2, KnownIsBuiltin, OperatorNames
      <3>2. registration' = op /\ parser' = NoParameters
        BY <1>2, <2>1, <2>2, <3>1, FindsItsOwn DEF Found
      <3> QED BY <2>2, <3>2 DEF Operators, OptionsOf, NoParameters, Copies
    <2>3. CASE op \notin Customs
      <3>1. op \in Builtins /\ Knows(op)
        BY <1>2, <2>1, <2>3, KnownIsBuiltin
      <3>2. registration' = op /\ parser' = ParserAddedWith(op)
        BY <1>2, <2>1, <2>3, <3>1, FindsItsOwn DEF Found
      <3> QED BY <2>3, <3>1, <3>2 DEF Operators, OptionsOf
    <2> QED BY <2>2, <2>3
  <1>5. FoundInv' /\ RunInv' /\ ReadsWereSet'
    BY <1>2, <1>3, <1>4 DEF FoundInv, RunInv, ReadsWereSet, NeverSet
  <1> QED BY <1>1, <1>5 DEF KernelsInv

\* The resolver does not change any more.
LEMMA ResolverKept ==
    ASSUME ResolverInv, UNCHANGED resolver
    PROVE  ResolverInv'
  BY DEF resolver, ResolverInv, ResolverTypeOK, OnePlaceEach, ParsersInStep, SameBuiltins

\* The options are parsed, for whatever the model file says of the node.
LEMMA ParseStep ==
    ASSUME KernelsInv, Parse
    PROVE  KernelsInv'
  <1>1. ResolverInv'
    BY ResolverKept DEF Parse, KernelsInv
  <1>2. /\ stage = "found"
        /\ stage' = "failed" \/ (stage' = "parsed" /\ builtin_data' = parser.fields)
        /\ UNCHANGED <<op, registration, parser, user_data, unset>>
    BY DEF Parse
  <1>3. FoundInv' /\ RunInv' /\ ReadsWereSet'
    BY <1>2 DEF KernelsInv, FoundInv, RunInv, ReadsWereSet, NeverSet
  <1> QED BY <1>1, <1>3 DEF KernelsInv

\* A function of the registration keeps its contract: what it reads before it was
\* set is among the fields that no function sets.
LEMMA RunReads ==
    ASSUME NEW d, Runs(d),
           (op \in PreparedForTheOutput => node.in = node.out) =>
               /\ \A f \in d.reads : f \in user_data \/ f \in NeverSet
               /\ \A f \in d.params : f \in builtin_data
    PROVE  ReadsWereSet'
  BY DEF Runs, ReadsWereSet, NeverSet

\* Init.
LEMMA InitializeStep ==
    ASSUME KernelsInv, Initialize
    PROVE  KernelsInv'
  <1> DEFINE r == Register(registration, node)
  <1>1. ResolverInv'
    BY ResolverKept DEF Initialize, Runs, KernelsInv
  <1>2. stage = "parsed" /\ stage' = "initialized" /\ Runs(r.init)
    BY DEF Initialize
  <1>3. registration = op /\ op \in Operators
    BY <1>2 DEF KernelsInv, FoundInv
  <1>4. Contract(r, node)
    BY <1>3, EveryOperatorKeepsContract
  <1> HIDE DEF r
  <1>5. ReadsWereSet'
    BY <1>2, <1>4, RunReads DEF Contract, PrepareContract, InvokeContract
  <1>6. UNCHANGED <<op, registration, parser, node, builtin_data>>
        /\ user_data' = user_data \cup r.init.sets
    BY <1>2 DEF Runs
  <1>7. FoundInv'
    BY <1>2, <1>6 DEF KernelsInv, FoundInv
  <1>8. RunInv'
    BY <1>2, <1>3, <1>6 DEF RunInv, r
  <1> QED BY <1>1, <1>5, <1>7, <1>8 DEF KernelsInv

\* Prepare.
LEMMA PrepareStep ==
    ASSUME KernelsInv, Prepare
    PROVE  KernelsInv'
  <1> DEFINE r == Register(registration, node)
  <1>1. /\ stage = "initialized" /\ Runs(r.prepare)
        /\ stage' = IF r.prepare.status = "ok" THEN "prepared" ELSE "failed"
    BY DEF Prepare
  <1>2. registration = op /\ op \in Operators /\ builtin_data = OptionsOf(op)
    BY <1>1 DEF KernelsInv, FoundInv
  <1>3. Contract(r, node)
    BY <1>2, EveryOperatorKeepsContract
  <1>4. \A f \in r.init.sets : f \in user_data
    BY <1>1, <1>2 DEF KernelsInv, RunInv
  <1>5. ResolverInv'
    BY <1>1, ResolverKept DEF Runs, KernelsInv
  <1> HIDE DEF r
  <1>6. ReadsWereSet'
    BY <1>1, <1>2, <1>3, <1>4, RunReads DEF Contract, PrepareContract, InvokeContract
  <1>7. UNCHANGED <<op, registration, parser, node, builtin_data>>
        /\ user_data' = user_data \cup r.prepare.sets
    BY <1>1 DEF Runs
  <1>8. FoundInv'
    BY <1>1, <1>7 DEF KernelsInv, FoundInv
  <1>9. RunInv'
    BY <1>1, <1>2, <1>4, <1>7 DEF RunInv, r
  <1> QED BY <1>5, <1>6, <1>8, <1>9 DEF KernelsInv

\* Invoke, the first one and those after it.
LEMMA InvokeStep ==
    ASSUME KernelsInv, Invoke
    PROVE  KernelsInv'
  <1> DEFINE r == Register(registration, node)
  <1>1. /\ stage \in {"prepared", "invoked"} /\ Runs(r.invoke)
        /\ stage' = IF r.invoke.status \in {"ok", "abort"} THEN "invoked" ELSE "failed"
    BY DEF Invoke
  <1>2. registration = op /\ op \in Operators /\ builtin_data = OptionsOf(op)
    BY <1>1 DEF KernelsInv, FoundInv
  <1>3. Contract(r, node)
    BY <1>2, EveryOperatorKeepsContract
  <1>4. /\ \A f \in r.init.sets : f \in user_data
        /\ \A f \in r.prepare.sets : f \in user_data
        /\ r.prepare.status = "ok"
    BY <1>1, <1>2 DEF KernelsInv, RunInv
  <1>5. ResolverInv'
    BY <1>1, ResolverKept DEF Runs, KernelsInv
  <1> HIDE DEF r
  <1>6. ReadsWereSet'
    BY <1>1, <1>2, <1>3, <1>4, RunReads DEF Contract, PrepareContract, InvokeContract
  <1>7. UNCHANGED <<op, registration, parser, node, builtin_data>>
        /\ user_data' = user_data \cup r.invoke.sets /\ result' = r.invoke
    BY <1>1 DEF Runs
  <1>8. FoundInv'
    BY <1>1, <1>7 DEF KernelsInv, FoundInv
  <1>9. RunInv'
    BY <1>1, <1>2, <1>4, <1>7 DEF RunInv, r
  <1> QED BY <1>5, <1>6, <1>8, <1>9 DEF KernelsInv

\* The invariant holds in every reachable state, for any room in the resolver and
\* any operators that the program adds.
THEOREM KernelsInvariant == Spec => []KernelsInv
  <1>1. KernelsInv /\ [Next]_vars => KernelsInv'
    <2> SUFFICES ASSUME KernelsInv, [Next]_vars PROVE KernelsInv'
      OBVIOUS
    <2>1. CASE UNCHANGED vars
      BY <2>1, ResolverKept DEF vars, kernel, KernelsInv, FoundInv, RunInv, ReadsWereSet, NeverSet
    <2> QED
      BY <2>1, AddStep, LookupStep, ParseStep, InitializeStep, PrepareStep, InvokeStep DEF Next
  <1> QED BY <1>1, InitKernels, PTL DEF Spec

-----------------------------------------------------------------------------
(* What follows from it. *)

\* An operator that is found has its own registration and the parser that
\* ParseOpDataTfLite chooses for it, which copies all of its structure.
THEOREM FoundWithItsParserCorrect == Spec => []FoundWithItsParser
  <1>1. KernelsInv => FoundWithItsParser
    <2> SUFFICES ASSUME KernelsInv PROVE FoundWithItsParser
      OBVIOUS
    <2>1. ResolverInv
      BY DEF KernelsInv
    <2>2. \A o \in Builtins : ParserAddedWith(o) = ParseOpDataTfLite(o)
      BY AddedWithOwnParser
    <2> QED
      BY <2>1, <2>2, FindsItsOwn, ParsersCopyStructures DEF FoundWithItsParser
  <1> QED BY <1>1, KernelsInvariant, PTL

\* As many members as places that hold each of them exactly once.
LEMMA CountedByPlaces ==
    ASSUME NEW n \in Nat, NEW T, NEW f \in [1 .. n -> T],
           \A i, j \in 1 .. n : f[i] = f[j] => i = j,
           \A t \in T : \E i \in 1 .. n : f[i] = t
    PROVE  IsFiniteSet(T) /\ Cardinality(T) = n
  <1>1. f \in Injection(1 .. n, T)
    BY DEF Injection, IsInjective
  <1>2. f \in Surjection(1 .. n, T)
    BY DEF Surjection
  <1>3. ExistsBijection(1 .. n, T)
    BY <1>1, <1>2 DEF ExistsBijection, Bijection
  <1>4. IsFiniteSet(1 .. n) /\ Cardinality(1 .. n) = n
    BY FS_Interval
  <1> QED BY ONLY <1>3, <1>4, FS_Bijection, Zenon

\* Two sets without a common member have as many members as both together.
LEMMA CountOfTwo ==
    ASSUME NEW S, NEW T, IsFiniteSet(S), IsFiniteSet(T), S \cap T = {}
    PROVE  Cardinality(S \cup T) = Cardinality(S) + Cardinality(T)
  <1>1. Cardinality(S \cup T) = Cardinality(S) + Cardinality(T) - Cardinality(S \cap T)
    BY ONLY IsFiniteSet(S), IsFiniteSet(T), FS_Union, Zenon
  <1>2. Cardinality(S \cap T) = 0
    BY FS_EmptySet
  <1>3. Cardinality(S) \in Nat /\ Cardinality(T) \in Nat
    BY ONLY IsFiniteSet(S), IsFiniteSet(T), FS_CardinalityType, Zenon
  <1> QED BY ONLY <1>1, <1>2, <1>3

\* Every place is that of an operator that is found, and there are no more places
\* than room.
THEOREM EveryPlaceIsFoundCorrect == Spec => []EveryPlaceIsFound
  <1>1. KernelsInv => EveryPlaceIsFound
    <2> SUFFICES ASSUME ResolverInv PROVE EveryPlaceIsFound
      BY DEF KernelsInv
    <2> DEFINE n == Len(registrations_)
               known == {o \in Builtins : Knows(o)}
               knownCustom == {o \in Customs : KnowsCustom(o)}
               owner == [i \in 1 .. n |-> registrations_[i].registration]
    <2>1. n \in Nat /\ registrations_ \in Seq(Places) /\ n <= tOpCount
      BY DEF ResolverInv, ResolverTypeOK
    <2>2. \A i \in 1 .. n : owner[i] \in Operators
      <3>1. \A i \in 1 .. n : registrations_[i] \in Places
        BY <2>1
      <3>2. \A place \in Places : place.registration \in Operators
        BY DEF Places
      <3> QED BY <3>1, <3>2
    <2>3. owner \in [1 .. n -> known \cup knownCustom]
      BY <2>2, KnownByRegistration DEF Operators
    <2>4. \A i, j \in 1 .. n : owner[i] = owner[j] => i = j
      BY DEF ResolverInv, OnePlaceEach
    <2>5. \A o \in known \cup knownCustom : \E i \in 1 .. n : owner[i] = o
      BY KnownByRegistration
    <2>6. known \cap knownCustom = {}
      BY OperatorNames DEF known, knownCustom
    <2> HIDE DEF owner, known, knownCustom, n
    <2>7. /\ IsFiniteSet(known \cup knownCustom)
          /\ Cardinality(known \cup knownCustom) = n
      BY <2>1, <2>3, <2>4, <2>5, CountedByPlaces
    <2>8. IsFiniteSet(known) /\ IsFiniteSet(knownCustom)
      BY ONLY <2>7, FS_Subset, Zenon
    <2>9. Cardinality(known \cup knownCustom) = Cardinality(known) + Cardinality(knownCustom)
      BY <2>6, <2>8, CountOfTwo
    <2> QED BY <2>1, <2>7, <2>9 DEF EveryPlaceIsFound, known, knownCustom, n
  <1> QED BY <1>1, KernelsInvariant, PTL

\* No function of a kernel reads an option that its parser does not copy, nor a
\* field that Init and Prepare have not set.
THEOREM ReadsWereSetCorrect == Spec => []ReadsWereSet
  <1>1. KernelsInv => ReadsWereSet
    BY DEF KernelsInv
  <1> QED BY <1>1, KernelsInvariant, PTL

\* An evaluation that ends well has taken the data of each tensor for its type.
THEOREM TypesRespectedCorrect == Spec => []TypesRespected
  <1>1. KernelsInv => TypesRespected
    <2> SUFFICES ASSUME KernelsInv, stage = "invoked", result.status = "ok"
                 PROVE  \A v \in result.views : v[2] = node[v[1]] \/ op \in NotLookedAt[v[1]]
      BY DEF TypesRespected
    <2>1. op \in Operators /\ result = Register(op, node).invoke
          /\ Register(op, node).prepare.status = "ok"
      BY DEF KernelsInv, FoundInv, RunInv
    <2>2. Contract(Register(op, node), node)
      BY <2>1, EveryOperatorKeepsContract
    <2> QED BY <2>1, <2>2 DEF Contract, ViewsContract
  <1> QED BY <1>1, KernelsInvariant, PTL
=============================================================================
