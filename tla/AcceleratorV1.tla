----------------------------- MODULE AcceleratorV1 -----------------------------
(***************************************************************************)
(* The accelerator behind its bus (driveFrom of AcceleratorV1Ctlr and      *)
(* PipelinedMemoryAcceleratorV1Ctlr, AcceleratorV1.scala): the core, the X *)
(* and Z FIFOs and the configuration registers.                            *)
(*                                                                         *)
(* There is one action per bus command.  A command is accepted in the      *)
(* cycle in which it is offered (cmd.ready is constantly high) and the     *)
(* answer to a read is the value of that cycle, registered; so a step is   *)
(* one clock cycle and what a read returns is an operator of the state     *)
(* before it.                                                              *)
(***************************************************************************)
EXTENDS AcceleratorV1Ctlr, Sequences

CONSTANTS
    XFifoDepth, ZFifoDepth,     \* generics.xFifoDepth, generics.zFifoDepth
    Garbage

ASSUME FifoDepthAssumption ==
    /\ XFifoDepth \in Nat /\ XFifoDepth >= 2
    /\ ZFifoDepth \in Nat /\ ZFifoDepth >= 2

VARIABLES
    xQueue, xDrained,           \* XLogic.fifo
    zQueue, zDrained,           \* ZLogic.fifo
    rowBufferRowWidth, rowBufferInitialDelay, outChannelCount   \* configLogic

config == <<rowBufferRowWidth, rowBufferInitialDelay, outChannelCount>>
busRegs == <<xQueue, xDrained, zQueue, zDrained, config>>

xFifo == INSTANCE StreamFifo
            WITH Depth <- XFifoDepth, queue <- xQueue, drained <- xDrained
zFifo == INSTANCE StreamFifo
            WITH Depth <- ZFifoDepth, queue <- zQueue, drained <- zDrained

PowerUp ==
    /\ Reset
    /\ xFifo!Reset
    /\ zFifo!Reset
    /\ rowBufferRowWidth = 0
    /\ rowBufferInitialDelay = 0
    /\ outChannelCount = 1

\* Mutants: the fields of the status register belong to the other FIFO.
StatusAvailabilityOfZ == zFifo!Availability
StatusOccupancyOfX == xFifo!Occupancy

\* The two fields of the status register, as a read of it returns them.
StatusAvailability == xFifo!Availability
StatusOccupancy == zFifo!Occupancy

\* What a read of the Z register returns; the read also pops the FIFO.
ZRead == zFifo!PopPayload

NoWrite == [valid |-> FALSE]

\* Mutant: the X FIFO is not flushed by init.
CycleKeepsX(init, xWrite, word, yWrite, zRead) ==
    /\ xFifo!Clock(FALSE, xWrite, word, XReady)
    /\ zFifo!Clock(init, ZValid, ZPayload, zRead)
    /\ Clock(init, rowBufferRowWidth, rowBufferInitialDelay, outChannelCount,
             xFifo!PopValid, xFifo!PopPayload, yWrite, zFifo!PushReady)

\* Mutant: the MAC pipeline does not see that the Z FIFO is full.
CycleNoStall(init, xWrite, word, yWrite, zRead) ==
    /\ xFifo!Clock(init, xWrite, word, XReady)
    /\ zFifo!Clock(init, ZValid, ZPayload, zRead)
    /\ Clock(init, rowBufferRowWidth, rowBufferInitialDelay, outChannelCount,
             xFifo!PopValid, xFifo!PopPayload, yWrite, TRUE)

\* One cycle, with what the bus decoder makes of the command of the cycle.
Cycle(init, xWrite, word, yWrite, zRead) ==
    /\ xFifo!Clock(init, xWrite, word, XReady)
    /\ zFifo!Clock(init, ZValid, ZPayload, zRead)
    /\ Clock(init, rowBufferRowWidth, rowBufferInitialDelay, outChannelCount,
             xFifo!PopValid, xFifo!PopPayload, yWrite, zFifo!PushReady)

-----------------------------------------------------------------------------
(* The bus commands. *)

\* No command, a read of the status (0x00) or of the configuration, or a write
\* that selects nothing: none of them changes a register.
Idle ==
    /\ Cycle(FALSE, FALSE, Garbage, NoWrite, FALSE)
    /\ UNCHANGED config

\* 0x00, write with bit 31 set: init is high for this one cycle.
WriteInit ==
    /\ Cycle(TRUE, FALSE, Garbage, NoWrite, FALSE)
    /\ UNCHANGED config

\* 0x04: both fields are written by one word.
WriteRowBuffer(rowWidth, initialDelay) ==
    /\ Cycle(FALSE, FALSE, Garbage, NoWrite, FALSE)
    /\ rowBufferRowWidth' = rowWidth
    /\ rowBufferInitialDelay' = initialDelay
    /\ UNCHANGED outChannelCount

\* 0x08.
WriteChannels(count) ==
    /\ Cycle(FALSE, FALSE, Garbage, NoWrite, FALSE)
    /\ outChannelCount' = count
    /\ UNCHANGED <<rowBufferRowWidth, rowBufferInitialDelay>>

\* 0x100: the flow has no back-pressure, a word for a full FIFO is lost.
WriteX(word) ==
    /\ Cycle(FALSE, TRUE, word, NoWrite, FALSE)
    /\ UNCHANGED config

\* 0x104: pop.ready is high whether or not there is something to pop.
ReadZ ==
    /\ Cycle(FALSE, FALSE, Garbage, NoWrite, TRUE)
    /\ UNCHANGED config

\* 0x200 and above.
WriteY(address, data) ==
    /\ Cycle(FALSE, FALSE, Garbage, [valid |-> TRUE, address |-> address, data |-> data], FALSE)
    /\ UNCHANGED config
=============================================================================
