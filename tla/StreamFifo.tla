------------------------------ MODULE StreamFifo ------------------------------
(***************************************************************************)
(* The StreamFifo of the SpinalHDL library as AcceleratorV1.scala uses it  *)
(* (X and Z FIFO, depths 512 and 2048): external code, modelled by its     *)
(* contents and by the register that delays pop.valid.  The output port    *)
(* reads a synchronous memory, so a word pushed into an empty FIFO counts  *)
(* in occupancy one cycle before it can be popped.                         *)
(***************************************************************************)
EXTENDS Integers, Sequences

CONSTANTS
    Depth,      \* at least 2: with depth 1 the library builds another circuit
    Garbage     \* pop.payload while the memory holds nothing to pop

VARIABLES
    queue,      \* the words between popPtr and pushPtr
    drained     \* RegNext(popPtr.valueNext === pushPtr): after the last cycle's
                \* pop, and before its push, the FIFO was empty or full

Reset == queue = <<>> /\ drained = FALSE

Occupancy == Len(queue)
Availability == Depth - Len(queue)

PushReady == Len(queue) < Depth

PopValid == queue # <<>> /\ (drained => Len(queue) = Depth)
PopPayload == IF PopValid THEN Head(queue) ELSE Garbage

\* A push while the FIFO is full is dropped by the FIFO; flush discards the
\* contents and the push of the same cycle.
Clock(flush, pushValid, payload, popReady) ==
    LET rest == IF popReady /\ PopValid THEN Tail(queue) ELSE queue
    IN  /\ queue' = IF flush THEN <<>>
                    ELSE IF pushValid /\ PushReady THEN Append(rest, payload)
                    ELSE rest
        /\ drained' = (flush \/ Len(rest) \in {0, Depth})

-----------------------------------------------------------------------------
IsSequence(q) == \E S : q \in Seq(S)

TypeOK == IsSequence(queue) /\ Len(queue) <= Depth
=============================================================================
