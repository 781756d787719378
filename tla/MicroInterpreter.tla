--------------------------- MODULE MicroInterpreter ---------------------------
(***************************************************************************)
(* MicroInterpreter of TensorFlow Lite Micro (micro/micro_interpreter.cc)  *)
(* on top of MicroAllocator: interpreters that share one allocator, each   *)
(* with its model, and the client that calls them, one call at a time.     *)
(*                                                                         *)
(* A call goes through the steps of the code: a step allocates at most     *)
(* once.  What the kernels of an operator do in Init and Prepare is part   *)
(* of the model: which memory they ask for, in which order.                *)
(***************************************************************************)
EXTENDS MicroAllocator

CONSTANTS
    Interpreters, Models,
    MaxAllocatingCalls   \* bound: calls of the client that allocate

TensorRecord ==
    [bytes : Nat, is_variable : BOOLEAN, has_data : BOOLEAN,
     offline_offset : Nat \cup {kOnlinePlannedBuffer}, channels : Nat]

\* What a kernel may ask for in Prepare.
PrepareRequest ==
    [kind : {"get_tensor"}, tensor : Nat] \cup [kind : {"persistent", "scratch"}, bytes : Nat]

OperatorRecord ==
    [registered : BOOLEAN, builtin_data : Nat, user_data : Nat,
     prepare : Seq(PrepareRequest), may_fail : BOOLEAN, eval_tensors : Nat,
     inputs : Seq(Nat \cup {kOptionalTensor}), outputs : Seq(Nat)]

\* Names of tensors are names of the model's tensors, and something is run.
IsModel(m) ==
    /\ m.tensors \in Seq(TensorRecord)
    /\ m.operators \in Seq(OperatorRecord) /\ m.operators # <<>>
    /\ m.inputs \in Seq(DOMAIN m.tensors) /\ m.outputs \in Seq(DOMAIN m.tensors)
    /\ \A op \in ToSet(m.operators) :
          /\ ToSet(op.inputs) \subseteq DOMAIN m.tensors \cup {kOptionalTensor}
          /\ ToSet(op.outputs) \subseteq DOMAIN m.tensors
          /\ \A r \in ToSet(op.prepare) : r.kind = "get_tensor" => r.tensor \in DOMAIN m.tensors

\* The sizes of what is allocated from the tail for a model.
OperatorSizes(op) ==
    {op.builtin_data, op.user_data}
    \cup {r.bytes : r \in {q \in ToSet(op.prepare) : q.kind = "persistent"}}

TensorSizes(t) == {t.bytes, t.channels + 1}

TailRequests(m) ==
    {EvalTensorSize * Len(m.tensors), NodeSize * Len(m.operators), Len(m.inputs), Len(m.outputs)}
    \cup {HandleSize * n : n \in 0 .. kMaxScratchBuffersPerOp * Len(m.operators)}
    \cup (UNION {OperatorSizes(op) : op \in ToSet(m.operators)})
    \cup (UNION {TensorSizes(t) : t \in ToSet(m.tensors)})

ASSUME ModelsAssumption == \A m \in Models : IsModel(m) /\ TailRequests(m) \subseteq Sizes

\* The operators are in the order of their execution: what one reads has been
\* put in or made before, what it writes is read later if at all, and the
\* model puts out what it has made.
InExecutionOrder(m) ==
    /\ \A n \in DOMAIN m.operators :
          /\ \A t \in ToSet(m.operators[n].inputs) \ {kOptionalTensor} :
                NeedsAllocating(m, t) =>
                    t \in ToSet(m.inputs) \/ \E k \in MadeBy(m, t) : k < n - 1
          /\ \A t \in ToSet(m.operators[n].outputs) :
                /\ ~m.tensors[t].has_data
                /\ LastUsed(m, t) = -1 \/ n - 1 <= LastUsed(m, t) \/ ~NeedsAllocating(m, t)
    /\ \A t \in ToSet(m.outputs) :
          NeedsAllocating(m, t) => t \in ToSet(m.inputs) \/ MadeBy(m, t) # {}

LivesMeet(m, t, u) ==
    FirstCreated(m, t) <= LastUsed(m, u) /\ FirstCreated(m, u) <= LastUsed(m, t)

\* What is placed offline is placed by somebody who knows the lifetimes.
OfflinePlanIsSafe(m) ==
    LET offline == {t \in DOMAIN m.tensors :
                       NeedsAllocating(m, t)
                       /\ m.tensors[t].offline_offset # kOnlinePlannedBuffer}
        Place(t) == Span(m.tensors[t].offline_offset, m.tensors[t].bytes)
    IN  \A t, u \in offline : t # u /\ LivesMeet(m, t, u) => Disjoint(Place(t), Place(u))

ASSUME LifetimesAssumption == \A m \in Models : InExecutionOrder(m) /\ OfflinePlanIsSafe(m)
\* 16 bytes, a multiple of every alignof.
ASSUME BufferAlignmentAssumption == kBufferAlignment % kStructAlignment = 0

Null == -1     \* no data yet
MmapRo == -2   \* data in the model file

VARIABLES
    model,                  \* model_
    call,                   \* the call in progress
    tensors_allocated,      \* tensors_allocated_
    initialization_status,  \* initialization_status_ is kTfLiteOk
    data,                   \* eval_tensors_[t].data
    user_data_null,         \* the operators whose Init got no memory
    handles,                \* scratch_buffer_handles_: are there any?
    scratch,                \* the scratch buffers the plan has handed out
    clobbered,              \* the tensors overwritten since they were written
    fresh,                  \* the interpreter whose inputs were set last
    served,                 \* the interpreter that was invoked last
    failed,                 \* AllocateTensors has returned an error
    ignored,                \* the head could not be adjusted in Prepare
    allocating_calls

interpreters == <<model, tensors_allocated, initialization_status, data,
                  user_data_null, handles, scratch>>
memory == <<clobbered, fresh, served>>
vars == <<arena, allocator, interpreters, call, memory, failed, ignored,
          allocating_calls>>

None == "none"

ASSUME NoneAssumption == None \notin Interpreters

Idle == [at |-> "idle"]
At(at) == call.at = at
Who == call.who
M == model[call.who]
Operator == M.operators[call.op]
Goto(at) == call' = [call EXCEPT !.at = at, !.op = 1, !.k = 1]

\* The program has hit a check that halts it or a null pointer, or it writes
\* over the structures the interpreters are made of: the model stops there.
Stopped == [at |-> "stopped"]
Stop == call' = Stopped /\ UNCHANGED <<allocator, interpreters, failed, ignored, memory>>

-----------------------------------------------------------------------------
(* Memory.  A tensor is clobbered when somebody else writes to its place.  *)

TensorSpan(i, t) == Span(data[i][t], model[i].tensors[t].bytes)

InMemory(i) == {t \in DOMAIN data[i] : data[i][t] >= 0}

HitIn(i, spans) ==
    {t \in InMemory(i) : \E s \in spans : s.from < s.to /\ ~Disjoint(s, TensorSpan(i, t))}

Hit(spans) == UNION {{i} \X HitIn(i, spans) : i \in Interpreters}

Writes(spans) ==
    /\ clobbered' = clobbered \cup Hit(spans)
    /\ UNCHANGED <<fresh, served>>

TailHitsTemps(size, alignment) ==
    TailFits(size, alignment) /\ TailResult(size, alignment) < temp

TempHitsTail(size, alignment) ==
    TempFits(size, alignment) /\ AlignUp(temp, alignment) + size > tail

NewSpans == (persistent' \ persistent) \cup (temps' \ temps)

\* Allocate and go on, or do without.  Whoever gets memory writes to it; a
\* persistent allocation may take the place of temporary structures that are
\* still in use, and temporary ones that of persistent ones.
FromTail(size, alignment, Ok, Fails) ==
    \/ AllocateFromTail(size, alignment) /\ Writes(NewSpans) /\ Ok
    \/ TailHitsTemps(size, alignment) /\ UNCHANGED arena /\ Stop
    \/ ~TailFits(size, alignment) /\ UNCHANGED arena /\ Fails

FromTemp(size, alignment, Ok, Fails) ==
    \/ /\ ~TempHitsTail(size, alignment)
       /\ AllocateTemp(size, alignment) /\ Writes(NewSpans) /\ Ok
    \/ TempHitsTail(size, alignment) /\ AllocateTemp(size, alignment) /\ Stop
    \/ ~TempFits(size, alignment) /\ UNCHANGED arena /\ Fails

SetHead(size, alignment, Ok, Fails) ==
    \/ SetHeadBufferSize(size, alignment) /\ UNCHANGED memory /\ Ok
    \/ ~HeadFits(size, alignment) /\ UNCHANGED arena /\ Fails

-----------------------------------------------------------------------------
(* Calls.                                                                  *)

Keep == UNCHANGED <<allocator, interpreters, failed, ignored>>

ReturnError ==
    /\ call' = Idle
    /\ failed' = (failed \/ call.at # "tensor")
    /\ UNCHANGED <<allocator, interpreters, memory, ignored>>

\* StartModelAllocation has failed.
ReturnStartError ==
    /\ call' = Idle
    /\ failed' = TRUE
    /\ initialization_status' = [initialization_status EXCEPT ![Who] = FALSE]
    /\ UNCHANGED <<allocator, model, tensors_allocated, data, user_data_null,
                   handles, scratch, memory, ignored>>

Init ==
    /\ Create(kStructAlignment)
    /\ model_is_allocating = FALSE /\ requests = <<>> /\ max_head_buffer_usage = 0
    /\ model \in [Interpreters -> Models]
    /\ call = [at |-> "create"]
    /\ tensors_allocated = [i \in Interpreters |-> FALSE]
    /\ initialization_status = [i \in Interpreters |-> TRUE]
    /\ data = [i \in Interpreters |-> <<>>]
    /\ user_data_null = [i \in Interpreters |-> {}]
    /\ handles = [i \in Interpreters |-> FALSE]
    /\ scratch = [i \in Interpreters |-> {}]
    /\ clobbered = {} /\ fresh = None /\ served = None
    /\ failed = FALSE /\ ignored = FALSE /\ allocating_calls = 0

\* MicroAllocator::Create; the interpreters are constructed on it.
CreateMicroAllocator ==
    /\ At("create")
    /\ FromTail(MicroAllocatorSize, kStructAlignment, call' = Idle /\ Keep, Stop)

\* The calls of the client.
AllocatingCall ==
    /\ allocating_calls < MaxAllocatingCalls
    /\ allocating_calls' = allocating_calls + 1

AllocateTensors(i) ==
    /\ At("idle") /\ AllocatingCall
    /\ call' = [at |-> "start", who |-> i, op |-> 1, k |-> 1, invoking |-> FALSE]
    /\ fresh' = None /\ served' = None
    /\ UNCHANGED <<arena, allocator, interpreters, clobbered, failed, ignored>>

\* An interpreter that failed to start is not invoked; one without tensors
\* allocates them first.
Invoke(i) ==
    /\ At("idle")
    /\ initialization_status[i]
    /\ IF tensors_allocated[i] THEN UNCHANGED allocating_calls ELSE AllocatingCall
    /\ call' = [at |-> IF tensors_allocated[i] THEN "invoke" ELSE "start",
                who |-> i, op |-> 1, k |-> 1, invoking |-> TRUE]
    /\ fresh' = IF fresh = i THEN i ELSE None
    /\ served' = None
    /\ UNCHANGED <<arena, allocator, interpreters, clobbered, failed, ignored>>

\* The client writes to what input() points to.
SetInputs(i) ==
    /\ At("idle") /\ tensors_allocated[i]
    /\ LET inputs == {<<i, t>> : t \in ToSet(model[i].inputs) \cap InMemory(i)}
       IN  clobbered' = (clobbered \cup Hit({TensorSpan(w[1], w[2]) : w \in inputs})) \ inputs
    /\ fresh' = i /\ served' = None
    /\ UNCHANGED <<arena, allocator, interpreters, call, failed, ignored, allocating_calls>>

\* tensor(): another TfLiteTensor for the same data.
Tensor(i) ==
    /\ At("idle") /\ tensors_allocated[i] /\ AllocatingCall
    /\ \E t \in DOMAIN model[i].tensors :
          call' = [at |-> "tensor", who |-> i, op |-> t, k |-> 1, invoking |-> FALSE]
    /\ UNCHANGED <<arena, memory>> /\ Keep

-----------------------------------------------------------------------------
(* AllocateTensors: StartModelAllocation. *)

Start ==
    /\ At("start")
    /\ IF model_is_allocating
       THEN UNCHANGED arena /\ ReturnStartError
       ELSE /\ model_is_allocating' = TRUE
            /\ requests' = <<>>
            /\ SetHead(RequestRoom(0), kStructAlignment,
                 /\ Goto("eval_tensors")
                 /\ UNCHANGED <<interpreters, failed, max_head_buffer_usage, ignored>>,
                 /\ call' = Idle /\ failed' = TRUE
                 /\ initialization_status' = [initialization_status EXCEPT ![Who] = FALSE]
                 /\ UNCHANGED <<model, tensors_allocated, data, user_data_null, handles,
                                scratch, memory, max_head_buffer_usage, ignored>>)

\* AllocateTfLiteEvalTensors.
AllocateEvalTensors ==
    /\ At("eval_tensors")
    /\ FromTail(EvalTensorSize * Len(M.tensors), kStructAlignment,
         /\ data' = [data EXCEPT ![Who] = [t \in DOMAIN M.tensors |->
                        IF M.tensors[t].has_data THEN MmapRo ELSE Null]]
         /\ Goto("nodes")
         /\ UNCHANGED <<allocator, model, tensors_allocated, initialization_status,
                        user_data_null, handles, scratch, failed, ignored>>,
         ReturnStartError)

AllocateNodeAndRegistrations ==
    /\ At("nodes")
    /\ FromTail(NodeSize * Len(M.operators), kStructAlignment,
                Goto("op_data") /\ Keep, ReturnStartError)

NextOperator(at, then) ==
    IF call.op < Len(M.operators)
    THEN call' = [call EXCEPT !.at = at, !.op = @ + 1, !.k = 1]
    ELSE Goto(then)

\* PrepareNodeAndRegistrationDataFromFlatbuffer: an operator is looked up and
\* its parser stores its parameters, which AllocatePOD constructs even in a
\* null pointer.
PrepareNodeData ==
    /\ At("op_data")
    /\ IF ~Operator.registered
       THEN UNCHANGED arena /\ ReturnStartError
       ELSE IF Operator.builtin_data = 0
       THEN UNCHANGED <<arena, memory>> /\ NextOperator("op_data", "init") /\ Keep
       ELSE FromTail(Operator.builtin_data, kStructAlignment,
                     NextOperator("op_data", "init") /\ Keep, Stop)

-----------------------------------------------------------------------------
(* AllocateTensors: the kernels. *)

\* Init: nobody looks at the result before Prepare does.
InitOperator ==
    /\ At("init")
    /\ NextOperator("init", "prepare")
    /\ LET NoMemory == user_data_null' =
                           [user_data_null EXCEPT ![Who] = @ \cup {call.op}]
           Memory == user_data_null' = [user_data_null EXCEPT ![Who] = @ \ {call.op}]
       IN  IF Operator.user_data = 0
           THEN Memory /\ UNCHANGED <<arena, memory>>
           ELSE FromTail(Operator.user_data, kBufferAlignment, Memory, NoMemory /\ UNCHANGED memory)
    /\ UNCHANGED <<allocator, model, tensors_allocated, initialization_status, data,
                   handles, scratch, failed, ignored>>

NextRequest == call' = [call EXCEPT !.k = @ + 1]

\* GetTensor asks for the structures of a tensor; the other requests are the
\* kernel's own.
RequestsOf(request) ==
    IF request.kind = "get_tensor" THEN TensorStructs(M.tensors[request.tensor])
    ELSE <<request>>

PrepareRequests ==
    FlattenSeq([n \in DOMAIN Operator.prepare |-> RequestsOf(Operator.prepare[n])])

HasUserData == call.op \notin user_data_null[Who]

\* A scratch buffer request that is written behind the head may destroy what
\* is there.
WriteRequest(bytes) ==
    LET span == RequestSpan(Len(requests) + 1) IN
    IF \E s \in persistent \cup temps : ~Disjoint(s, span)
    THEN Stop
    ELSE /\ RequestScratchBufferInArena(bytes, call.op)
         /\ NextRequest
         /\ Writes({span})
         /\ UNCHANGED <<interpreters, model_is_allocating, max_head_buffer_usage,
                        failed, ignored>>

\* A kernel that finds no user data halts.
NoUserData ==
    /\ At("prepare") /\ ~HasUserData
    /\ UNCHANGED arena /\ Stop

\* One request of a kernel's Prepare.  GetTensor halts without a place for the
\* tensor.
PrepareOperator ==
    /\ At("prepare") /\ HasUserData /\ call.k <= Len(PrepareRequests)
    /\ LET request == PrepareRequests[call.k] IN
       \/ /\ request.kind = "tensor"
          /\ FromTemp(request.bytes, kStructAlignment, NextRequest /\ Keep, Stop)
       \/ /\ request.kind \in {"quantization", "zero_point"}
          /\ FromTemp(request.bytes, kStructAlignment, NextRequest /\ Keep, ReturnError)
       \/ /\ request.kind = "persistent"
          /\ FromTail(request.bytes, kBufferAlignment, NextRequest /\ Keep, ReturnError)
       \/ /\ request.kind = "scratch"
          /\ UNCHANGED arena
          /\ IF TooManyRequests THEN ReturnError ELSE WriteRequest(request.bytes)

\* Prepare has made its requests: it finds the tensors acceptable or not.
FinishPrepare ==
    /\ At("prepare") /\ call.k > Len(PrepareRequests) /\ HasUserData
    /\ \/ /\ Operator.may_fail
          /\ UNCHANGED arena /\ ReturnError
       \/ /\ ResetTempAllocations
          /\ AssignRequests(call.op - 1)
          /\ call' = [call EXCEPT !.at = "adjust_head"]
          /\ UNCHANGED <<interpreters, model_is_allocating, max_head_buffer_usage,
                         memory, failed, ignored>>

\* The end of FinishPrepareNodeAllocations, whose status is ignored.
AdjustHead ==
    /\ At("adjust_head")
    /\ NextOperator("prepare", "handles")
    /\ SetHead(RequestRoom(Len(requests)), kStructAlignment,
               UNCHANGED ignored, ignored' = TRUE /\ UNCHANGED memory)
    /\ UNCHANGED <<allocator, interpreters, failed>>

-----------------------------------------------------------------------------
(* AllocateTensors: FinishModelAllocation. *)

\* AllocateScratchBufferHandles: nobody looks at the result.
AllocateScratchBufferHandles ==
    /\ At("handles")
    /\ Goto("info")
    /\ LET Are(b) == handles' = [handles EXCEPT ![Who] = b]
       IN  IF requests = <<>>
           THEN UNCHANGED <<handles, arena, memory>>
           ELSE FromTail(HandleSize * Len(requests), kStructAlignment,
                         Are(TRUE), Are(FALSE) /\ UNCHANGED memory)
    /\ UNCHANGED <<allocator, model, tensors_allocated, initialization_status, data,
                   user_data_null, scratch, failed, ignored>>

\* Mutant: no allocation info for the scratch buffers.
InfoBytesTensors == AllocationInfoSize * Len(M.tensors)

InfoBytes == AllocationInfoSize * (Len(M.tensors) + Len(requests))

\* CommitStaticMemoryPlan, up to the builder: the allocation info goes to the
\* temporary memory, over requests that reach beyond the head.
AllocateInfo ==
    /\ At("info")
    /\ IF AlignUp(temp, kStructAlignment) < BufferHead + RequestSize * Len(requests)
       THEN UNCHANGED arena /\ Stop
       ELSE FromTemp(InfoBytes, kStructAlignment, Goto("plan") /\ Keep, ReturnError)

\* The builder, and the planner on all the memory that is left: when that is
\* less than nothing its arrays are in the persistent structures.
CreatePlan ==
    /\ At("plan")
    /\ LET remaining == GetAvailableMemory(kBufferAlignment)
           count == Len(Requirements(M))
           invalid == \E t \in DOMAIN M.tensors :
                         NeedsAllocating(M, t) /\ HasPartialLifetime(M, t)
       IN  IF invalid THEN UNCHANGED arena /\ ReturnError
           ELSE IF AvailableUnderflows /\ count > 0 THEN UNCHANGED arena /\ Stop
           ELSE FromTemp(remaining, kBufferAlignment,
                  IF count <= PlannerBufferCount(remaining) THEN Goto("commit") /\ Keep
                  ELSE /\ call' = Idle /\ failed' = TRUE
                       /\ UNCHANGED <<allocator, interpreters, ignored>>,
                  ReturnError)

\* CommitPlan: the offsets become pointers.
CommitPlan ==
    /\ At("commit")
    /\ ResetTempAllocations
    /\ LET req == Requirements(M)
           list == Plan(req)
           size == PlanSize(req, list)
           available == SizeT(AlignDown(tail, kBufferAlignment) - AlignUp(head, kBufferAlignment))
           planned == PlannedTensors(M)
           Address(n) == BufferHead
                           + (CHOOSE e \in ToSet(list) : e.requirements_index = n).offset
       IN  IF size > available
           THEN ReturnError
           ELSE /\ data' = [data EXCEPT ![Who] = [t \in DOMAIN M.tensors |->
                       IF \E n \in DOMAIN planned : planned[n] = t
                       THEN Address(CHOOSE n \in DOMAIN planned : planned[n] = t)
                       ELSE @[t]]]
                /\ scratch' = [scratch EXCEPT ![Who] =
                       {[op |-> requests[n].op,
                         span |-> Span(Address(Len(planned) + n), requests[n].bytes)] :
                           n \in DOMAIN requests}]
                /\ max_head_buffer_usage' = IF size > max_head_buffer_usage THEN size
                                            ELSE max_head_buffer_usage
                /\ Goto("plan_head")
                /\ UNCHANGED <<model_is_allocating, requests, model, tensors_allocated,
                               initialization_status, user_data_null, handles, memory,
                               failed, ignored>>

\* Mutant: only for the plan of this model.
SetPlanHeadOfModel ==
    /\ At("plan_head")
    /\ SetHead(PlanSize(Requirements(M), Plan(Requirements(M))), kBufferAlignment,
               Goto("variables") /\ Keep, ReturnError)

\* The head is made large enough for every plan so far.
SetPlanHead ==
    /\ At("plan_head")
    /\ SetHead(max_head_buffer_usage, kBufferAlignment, Goto("variables") /\ Keep, ReturnError)

\* AllocateVariables, and the end of FinishModelAllocation.
AllocateVariables ==
    /\ At("variables")
    /\ IF call.op > Len(M.tensors)
       THEN /\ model_is_allocating' = FALSE
            /\ Goto("input_array")
            /\ UNCHANGED <<arena, requests, max_head_buffer_usage, interpreters, memory,
                           failed, ignored>>
       ELSE IF ~M.tensors[call.op].is_variable
       THEN call' = [call EXCEPT !.op = @ + 1] /\ UNCHANGED <<arena, memory>> /\ Keep
       ELSE FromTail(M.tensors[call.op].bytes, kBufferAlignment,
              /\ data' = [data EXCEPT ![Who][call.op] = tail']
              /\ call' = [call EXCEPT !.op = @ + 1]
              /\ UNCHANGED <<allocator, model, tensors_allocated, initialization_status,
                             user_data_null, handles, scratch, failed, ignored>>,
              ReturnError)

-----------------------------------------------------------------------------
(* AllocateTensors: the inputs and outputs of the interpreter. *)

AllocateTensorArray(at, tensors, then) ==
    /\ At(at)
    /\ FromTail(Len(tensors), kBufferAlignment, Goto(then) /\ Keep, ReturnError)

\* AllocatePersistentTfLiteTensor, of one tensor after the other: it halts
\* without a place for the tensor.
AllocateTensorStructs(at, tensors, Finished) ==
    LET structs == FlattenSeq([n \in DOMAIN tensors |-> TensorStructs(M.tensors[tensors[n]])])
    IN  /\ At(at)
        /\ IF call.k > Len(structs)
           THEN Finished /\ UNCHANGED <<arena, memory>> /\ Keep
           ELSE FromTail(structs[call.k].bytes, kStructAlignment, NextRequest /\ Keep,
                         IF structs[call.k].kind = "tensor" THEN Stop ELSE ReturnError)

AllocateInputs ==
    \/ AllocateTensorArray("input_array", M.inputs, "inputs")
    \/ AllocateTensorStructs("inputs", M.inputs, Goto("output_array"))

AllocateOutputs ==
    \/ AllocateTensorArray("output_array", M.outputs, "outputs")
    \/ AllocateTensorStructs("outputs", M.outputs, Goto("reset_variables"))

\* The rest of tensor(): null for an error.
AllocateTensor == AllocateTensorStructs("tensor", <<call.op>>, call' = Idle)

VariableTensors(i) == {t \in DOMAIN model[i].tensors : model[i].tensors[t].is_variable}

\* ResetVariableTensors, and the end of AllocateTensors.
ResetVariableTensors ==
    /\ At("reset_variables")
    /\ LET variables == {<<Who, t>> : t \in VariableTensors(Who)}
       IN  clobbered' = (clobbered \cup Hit({TensorSpan(w[1], w[2]) : w \in variables})) \ variables
    /\ tensors_allocated' = [tensors_allocated EXCEPT ![Who] = TRUE]
    /\ IF call.invoking THEN Goto("invoke") ELSE call' = Idle
    /\ UNCHANGED <<arena, allocator, model, initialization_status, data, user_data_null,
                   handles, scratch, fresh, served, failed, ignored>>

-----------------------------------------------------------------------------
(* Invoke. *)

Inputs(i, op) == ToSet(model[i].operators[op].inputs) \ {kOptionalTensor}
Outputs(i, op) == ToSet(model[i].operators[op].outputs)
ScratchOf(i, op) == {s.span : s \in {x \in scratch[i] : x.op = op}}

EvalTempsSpan == Span(AlignUp(temp, kStructAlignment), TensorSize * Operator.eval_tensors)

NoEvalTensors ==
    /\ Operator.eval_tensors > 0
    /\ ~TempFits(TensorSize * Operator.eval_tensors, kStructAlignment)

NoData ==
    \E t \in Inputs(Who, call.op) \cup Outputs(Who, call.op) : data[Who][t] = Null

\* A kernel gets its temporary tensors, uses its scratch buffers and writes
\* its outputs; the temporary memory is reset behind it.
InvokeOperator ==
    /\ At("invoke")
    /\ IF NoEvalTensors \/ NoData
       THEN UNCHANGED arena /\ Stop
       ELSE /\ ResetTempAllocations
            /\ LET outputs == {<<Who, t>> : t \in Outputs(Who, call.op)}
                   spans == {EvalTempsSpan} \cup ScratchOf(Who, call.op)
                              \cup {TensorSpan(w[1], w[2]) : w \in outputs}
               IN  clobbered' = (clobbered \cup Hit(spans)) \ outputs
            /\ IF call.op < Len(M.operators)
               THEN call' = [call EXCEPT !.op = @ + 1] /\ UNCHANGED <<fresh, served>>
               ELSE /\ call' = Idle
                    /\ fresh' = None
                    /\ served' = IF fresh = Who THEN Who ELSE None
            /\ Keep

-----------------------------------------------------------------------------
Done ==
    /\ call \in {Idle, Stopped}
    /\ call = Idle => allocating_calls = MaxAllocatingCalls
    /\ UNCHANGED vars

\* The steps of the call in progress.
Proceed ==
    \/ CreateMicroAllocator
    \/ Start \/ AllocateEvalTensors \/ AllocateNodeAndRegistrations \/ PrepareNodeData
    \/ InitOperator \/ NoUserData \/ PrepareOperator \/ FinishPrepare \/ AdjustHead
    \/ AllocateScratchBufferHandles \/ AllocateInfo \/ CreatePlan \/ CommitPlan
    \/ SetPlanHead \/ AllocateVariables \/ AllocateInputs \/ AllocateOutputs \/ AllocateTensor
    \/ ResetVariableTensors \/ InvokeOperator

Next ==
    \/ \E i \in Interpreters :
          AllocateTensors(i) \/ Invoke(i) \/ SetInputs(i) \/ Tensor(i)
    \/ Proceed /\ UNCHANGED allocating_calls
    \/ Done

Spec == Init /\ [][Next]_vars

-----------------------------------------------------------------------------
Pairwise(F, S) == \A x, y \in S : x # y => Disjoint(F[x], F[y])

\* What an operator has in its hands while it runs: tensors, its scratch
\* buffers and its temporary structures.
OperatorSpans(i, op) ==
    LET tensors == (Inputs(i, op) \cup Outputs(i, op)) \cap InMemory(i)
    IN  [w \in {<<"tensor", t>> : t \in tensors}
                 \cup {<<"scratch", s>> : s \in ScratchOf(i, op)} |->
            IF w[1] = "tensor" THEN TensorSpan(i, w[2]) ELSE w[2]]

\* Interpreters may share an arena one after the other: as long as every
\* AllocateTensors has succeeded,
\*  - an operator finds the inputs it needs as they were written, whatever was
\*    planned, prepared or run in between,
\*  - no two of its areas overlap (without room for its temporary tensors it
\*    halts),
\*  - what the model puts out, and its variables, are there for the client.
LiveDataIntact ==
    ~failed =>
    /\ (At("invoke") /\ fresh = Who) =>
          \A t \in Inputs(Who, call.op) : <<Who, t>> \notin clobbered
    /\ At("invoke") =>
          LET spans == OperatorSpans(Who, call.op)
          IN  /\ Pairwise(spans, DOMAIN spans)
              /\ ~NoEvalTensors =>
                    \A w \in DOMAIN spans : Disjoint(spans[w], EvalTempsSpan)
    /\ served # None =>
          \A t \in ToSet(model[served].outputs) : <<served, t>> \notin clobbered
    /\ \A i \in Interpreters : tensors_allocated[i] =>
          \A t \in VariableTensors(i) : <<i, t>> \notin clobbered

\* Between allocations, every plan there is lies inside the head section:
\* whatever is allocated next does not touch it.
PlanInsideHead ==
    (~failed /\ ~model_is_allocating) =>
        \A i \in Interpreters : tensors_allocated[i] =>
            \A t \in InMemory(i) \ VariableTensors(i) : TensorSpan(i, t).to <= head

\* AddTensors writes to info_[-1] for an input the operator does without.  It
\* gets away with it because the allocation info is put behind the head,
\* which has room for more requests than there are.
OptionalInputsHarmless ==
    (At("plan") /\ ~ignored) =>
        \A info \in temps :
            BufferHead + RequestSize * Len(requests) <= info.from - AllocationInfoSize

\* AllocateScratchBufferHandles does not look at what it has got, and the plan
\* is made and committed through the handles: they are there because without
\* room for them there is none for the allocation info, which is larger.
HandlesNotNull == (At("plan") /\ requests # <<>>) => handles[Who]

\* "Ensure that the head is re-adjusted to allow for another at-most
\* kMaxScratchBuffersPerOp scratch buffer requests in the next operator"
\* (micro_allocator.cc:739): whoever makes a request finds room for it.
RequestsFit ==
    (At("prepare") /\ call.k <= Len(PrepareRequests) /\ ~TooManyRequests) =>
        PrepareRequests[call.k].kind # "scratch" \/
            RequestSpan(Len(requests) + 1).to <= head

\* "Ensure tensors are allocated before the interpreter is invoked to avoid
\* difficult to debug segfaults." (micro_interpreter.cc:314).
InvokeAllocated == At("invoke") => ~NoData

-----------------------------------------------------------------------------
(* What is checked: two interpreters on one small arena.  Sizes are in     *)
(* words and keep the order of those of a 32-bit build.                    *)

MCBufferTails == 26 .. 50 \cup {60, 76, 92}
MCAlignments == {1, 2}
MCSizes == 0 .. 16

Planned(bytes) == [bytes |-> bytes, is_variable |-> FALSE, has_data |-> FALSE,
                   offline_offset |-> kOnlinePlannedBuffer, channels |-> 0]
Quantized(bytes) == [Planned(bytes) EXCEPT !.channels = 1]
Variable(bytes) == [Planned(bytes) EXCEPT !.is_variable = TRUE]
Weights(bytes) == [Planned(bytes) EXCEPT !.has_data = TRUE]
At0(bytes, offset) == [Planned(bytes) EXCEPT !.offline_offset = offset]

GetTensor(t) == [kind |-> "get_tensor", tensor |-> t]
Persistent(bytes) == [kind |-> "persistent", bytes |-> bytes]
Scratch(bytes) == [kind |-> "scratch", bytes |-> bytes]

Op(inputs, outputs, prepare) ==
    [registered |-> TRUE, builtin_data |-> 1, user_data |-> 0, prepare |-> prepare,
     may_fail |-> FALSE, eval_tensors |-> 0, inputs |-> inputs, outputs |-> outputs]

\* Two operators; an input of the model is only read by the second.
Chain ==
    [tensors |-> <<Planned(4), Planned(3), Planned(2), Weights(2), Planned(1)>>,
     operators |-> <<[Op(<<1, 4>>, <<2>>, <<Persistent(1), Scratch(2), Scratch(1)>>)
                        EXCEPT !.user_data = 1],
                     Op(<<2, 5>>, <<3>>, <<Scratch(2), Scratch(1)>>)>>,
     inputs |-> <<1, 5>>, outputs |-> <<3>>]

\* Nothing goes in, and as many scratch buffers as there may be.
Source ==
    [tensors |-> <<Planned(1)>>,
     operators |-> <<Op(<<>>, <<1>>, <<Scratch(1), Scratch(1), Scratch(2)>>)>>,
     inputs |-> <<>>, outputs |-> <<1>>]

\* An operator with a variable and without its optional input.
Recurrent ==
    [tensors |-> <<Quantized(1), Variable(2), Planned(2)>>,
     operators |-> <<[Op(<<1, 2, kOptionalTensor>>, <<3>>,
                         <<GetTensor(1), Persistent(1), GetTensor(3)>>)
                        EXCEPT !.may_fail = TRUE, !.eval_tensors = 1]>>,
     inputs |-> <<1>>, outputs |-> <<3>>]

\* Places chosen offline for two of three tensors.
Offline ==
    [tensors |-> <<At0(2, 2), Planned(2), At0(1, 0)>>,
     operators |-> <<[Op(<<1>>, <<2>>, <<>>) EXCEPT !.builtin_data = 0],
                     Op(<<2>>, <<3>>, <<Scratch(1)>>)>>,
     inputs |-> <<1>>, outputs |-> <<3>>]

\* An operator nobody has registered, or a tensor nobody uses.
Unknown == [Recurrent EXCEPT !.operators[1].registered = FALSE]
Unused == [Recurrent EXCEPT !.tensors = Append(@, Planned(1))]

MCModels == {Chain, Source, Recurrent, Offline, Unknown, Unused}
=============================================================================
