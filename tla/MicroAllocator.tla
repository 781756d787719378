---------------------------- MODULE MicroAllocator ----------------------------
(***************************************************************************)
(* MicroAllocator of TensorFlow Lite Micro (micro/micro_allocator.cc): how *)
(* the arena is shared between the structures of a model, which stay, the  *)
(* scratch buffer requests, which live in the head while the model is      *)
(* being prepared, and the memory plan, which takes their place.           *)
(*                                                                         *)
(* Addresses and sizes are counted in words.  Tensors and operators are    *)
(* counted from 1; the first operator runs at time 0.                      *)
(***************************************************************************)
EXTENDS SimpleMemoryAllocator, GreedyLayout, FiniteSets, SequencesExt

CONSTANTS
    kBufferAlignment,         \* of tensor buffers and persistent buffers
    kStructAlignment,         \* alignof every structure below
    kMaxScratchBuffersPerOp,
    RequestSize,              \* sizeof(ScratchBufferRequest)
    HandleSize,               \* sizeof(ScratchBufferHandle)
    AllocationInfoSize,       \* sizeof(AllocationInfo)
    EvalTensorSize,           \* sizeof(TfLiteEvalTensor)
    NodeSize,                 \* sizeof(NodeAndRegistration)
    TensorSize,               \* sizeof(TfLiteTensor)
    QuantizationSize,         \* sizeof(TfLiteAffineQuantization)
    MicroAllocatorSize,       \* sizeof(MicroAllocator)
    PerBufferSize             \* GreedyMemoryPlanner::per_buffer_size()

ASSUME AllocatorAssumption ==
    /\ {kBufferAlignment, kStructAlignment} \subseteq Alignments
    /\ {kMaxScratchBuffersPerOp, RequestSize, HandleSize, AllocationInfoSize,
        EvalTensorSize, NodeSize} \subseteq Nat
    /\ {TensorSize, QuantizationSize, MicroAllocatorSize} \subseteq Sizes
\* A handle is one pointer of the several words of an allocation info, and
\* twelve requests of two words are larger than that.
ASSUME StructsAssumption ==
    /\ HandleSize <= AllocationInfoSize
    /\ AllocationInfoSize <= RequestSize * kMaxScratchBuffersPerOp

VARIABLES
    model_is_allocating,      \* model_is_allocating_
    requests,                 \* the scratch buffer requests in the head
    max_head_buffer_usage     \* max_head_buffer_usage_

allocator == <<model_is_allocating, requests, max_head_buffer_usage>>

kUnassignedScratchBufferRequestIndex == -1
kOptionalTensor == -1    \* an input the operator does without

Span(from, size) == [from |-> from, to |-> from + size]

-----------------------------------------------------------------------------
(* Scratch buffer requests. *)

\* Mutant: no room for the next operator.
RequestRoomNone(n) == RequestSize * n

\* What the head has to hold when n requests have been made.
RequestRoom(n) == RequestSize * (n + kMaxScratchBuffersPerOp)

RequestSpan(n) == Span(BufferHead + RequestSize * (n - 1), RequestSize)

TooManyRequests ==
    Cardinality({n \in DOMAIN requests :
        requests[n].node_idx = kUnassignedScratchBufferRequestIndex})
      >= kMaxScratchBuffersPerOp

\* The operator that asks is not part of the request: it is kept here to tell
\* who will use the buffer.
RequestScratchBufferInArena(bytes, op) ==
    requests' = Append(requests,
        [bytes |-> bytes, node_idx |-> kUnassignedScratchBufferRequestIndex, op |-> op])

\* FinishPrepareNodeAllocations, of its requests.
AssignRequests(node_id) ==
    requests' = [n \in DOMAIN requests |->
        IF requests[n].node_idx = kUnassignedScratchBufferRequestIndex
        THEN [requests[n] EXCEPT !.node_idx = node_id]
        ELSE requests[n]]

-----------------------------------------------------------------------------
(* The memory plan of model m: AllocationInfoBuilder, CreatePlan and       *)
(* CommitPlan.                                                             *)

LastTime(m) == Len(m.operators) - 1

UsedBy(m, t) == {n \in 0 .. LastTime(m) : t \in ToSet(m.operators[n + 1].inputs)}
MadeBy(m, t) == {n \in 0 .. LastTime(m) : t \in ToSet(m.operators[n + 1].outputs)}

MinOr(S, default) == IF S = {} THEN default ELSE CHOOSE x \in S : \A y \in S : x <= y
MaxOr(S, default) == IF S = {} THEN default ELSE CHOOSE x \in S : \A y \in S : y <= x

\* Mutant: an input of the model is only there from its first use.
FirstCreatedInputs(m, t) ==
    MinOr(MadeBy(m, t), IF t \in ToSet(m.inputs) THEN MinOr(UsedBy(m, t), 0) ELSE -1)

\* AddTensors: when a tensor is first and last in use, -1 for never.
FirstCreated(m, t) ==
    MinOr(MadeBy(m, t) \cup IF t \in ToSet(m.inputs) THEN {0} ELSE {}, -1)
LastUsed(m, t) ==
    MaxOr(UsedBy(m, t) \cup IF t \in ToSet(m.outputs) THEN {LastTime(m)} ELSE {}, -1)

\* Its data is not in the model file and it is not a variable.
NeedsAllocating(m, t) == ~m.tensors[t].has_data /\ ~m.tensors[t].is_variable

\* A tensor that is only read has a lifetime from the start; one that is
\* neither made nor read, or made and not read, is a broken model.
HasPartialLifetime(m, t) == LastUsed(m, t) = -1

PlannedTensors(m) ==
    LET among[n \in 0 .. Len(m.tensors)] ==
            IF n = 0 THEN <<>>
            ELSE IF NeedsAllocating(m, n) THEN Append(among[n - 1], n) ELSE among[n - 1]
    IN  among[Len(m.tensors)]

AlignedBytes(bytes) == AlignUp(bytes, kBufferAlignment)

\* CreatePlan: the tensors that need it, then the scratch buffers, each of
\* which is in use while its operator runs.
Requirements(m) ==
    [n \in DOMAIN PlannedTensors(m) |->
        LET t == PlannedTensors(m)[n] IN
        [size |-> AlignedBytes(m.tensors[t].bytes),
         first_time_used |-> FirstCreated(m, t),
         last_time_used |-> LastUsed(m, t),
         offline_offset |-> m.tensors[t].offline_offset]]
    \o [n \in DOMAIN requests |->
        [size |-> AlignedBytes(requests[n].bytes),
         first_time_used |-> requests[n].node_idx,
         last_time_used |-> requests[n].node_idx,
         offline_offset |-> kOnlinePlannedBuffer]]

\* One round of the planner.
Placed(req, list, id) ==
    LET offsets == Candidates(req, list) \cup {req[id].offline_offset}
        c == CHOOSE c \in offsets : CandidateOffset(req, list, id, c)
        p == CHOOSE p \in 1 .. Len(list) + 1 : InsertPosition(list, c, p)
    IN  InsertEntry(list, p, [offset |-> c, requirements_index |-> id])

Unplaced(req, list) == DOMAIN req \ {list[k].requirements_index : k \in DOMAIN list}

PlacedNext(req, list) ==
    CHOOSE id \in Unplaced(req, list) :
        \A j \in Unplaced(req, list) \ {id} : Before(req, id, j)

\* The list after as many rounds as there are requirements.
Plan(req) ==
    LET after[n \in 0 .. Len(req)] ==
            IF n = 0 THEN <<>>
            ELSE LET list == after[n - 1] IN Placed(req, list, PlacedNext(req, list))
    IN  after[Len(req)]

PlanSize(req, list) == MaxOr(Candidates(req, list), 0)

\* max_buffer_count_.
PlannerBufferCount(size) == size \div PerBufferSize

\* What is left is a size_t: less than nothing is nearly everything.
AvailableUnderflows ==
    AlignDown(tail, kBufferAlignment) < AlignUp(temp, kBufferAlignment)

-----------------------------------------------------------------------------
\* InitializeTfLiteTensorFromFlatbuffer: the structures of a TfLiteTensor.
TensorStructs(tensor) ==
    <<[kind |-> "tensor", bytes |-> TensorSize]>>
    \o IF tensor.channels = 0 THEN <<>>
       ELSE <<[kind |-> "quantization", bytes |-> QuantizationSize],
              [kind |-> "zero_point", bytes |-> tensor.channels + 1]>>
=============================================================================
