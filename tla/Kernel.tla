-------------------------------- MODULE Kernel --------------------------------
(***************************************************************************)
(* How the modules about the kernels of TensorFlow Lite Micro describe     *)
(* what a function of a kernel does with a node x:                         *)
(*   x.in, x.in2, x.out   types of its tensors, as they are in the model   *)
(*   x.bias               "given", "omitted" (its index is -1) or "none"   *)
(*                        (the node has an input less)                     *)
(*   x.fits               shapes and quantization pass the checks that are *)
(*                        not about types                                  *)
(*   x.flag               an option of the operator, where one matters     *)
(* A description says what matters to other functions: it is put together  *)
(* from the steps below, in the order of the code.                         *)
(***************************************************************************)
LOCAL INSTANCE Naturals

Float == "float32"
Types == {"float32", "int32", "uint8", "int64", "bool", "int16", "int8"}
Bytes == {"uint8", "int8"}

Ok ==
    [status |-> "ok",
     params |-> {},      \* fields of node->builtin_data that are read
     sets |-> {},        \* fields of node->user_data that are written
     reads |-> {},       \* fields of node->user_data that are read
     requests |-> 0,     \* scratch buffers asked for
     views |-> {},       \* <<tensor, type>>: data that is taken for this type
     strays |-> FALSE]   \* an element before or behind an array is read

Refuses == [Ok EXCEPT !.status = "error"]
Halts == [Ok EXCEPT !.status = "halt"]     \* TFLITE_ABORT, a null pointer
Aborts == [Ok EXCEPT !.status = "abort"]   \* kTfLiteAbort

\* a, and then b unless a was the end of it.
Followed(a, b) ==
    IF a.status # "ok" THEN a
    ELSE [status |-> b.status,
          params |-> a.params \cup b.params,
          sets |-> a.sets \cup b.sets, reads |-> a.reads \cup b.reads,
          requests |-> a.requests + b.requests, views |-> a.views \cup b.views,
          strays |-> a.strays \/ b.strays]
a \oplus b == Followed(a, b)

Requires(condition) == IF condition THEN Ok ELSE Refuses
When(condition, effect) == IF condition THEN effect ELSE Ok
Params(fields) == [Ok EXCEPT !.params = fields]
Sets(fields) == [Ok EXCEPT !.sets = fields]
Reads(fields) == [Ok EXCEPT !.reads = fields]
Requests(n) == [Ok EXCEPT !.requests = n]
Strays(condition) == [Ok EXCEPT !.strays = condition]

\* The data of one or two inputs and of the output, of one type.
Views(views) == [Ok EXCEPT !.views = views]
Unary(t) == Views({<<"in", t>>, <<"out", t>>})
Binary(t) == Views({<<"in", t>>, <<"in2", t>>, <<"out", t>>})

\* What the three functions of a registration do.  An Init allocates the user
\* data, and a few fill it in as well.
Registration(init, prepare, invoke) ==
    [init |-> init, prepare |-> prepare, invoke |-> invoke]
AllocatesOpData == Sets({"user_data"})
NoInit == Ok
NoPrepare == Ok
=============================================================================
