--------------------------- MODULE AcceleratorV1Ctlr ---------------------------
(***************************************************************************)
(* The accelerator core (class AcceleratorV1Ctlr of AcceleratorV1.scala):  *)
(* serialiser, window buffer, MAC pipeline, kernel memories and the state  *)
(* machine that runs one window through the kernels of all output          *)
(* channels.  The core is a synchronous composition: Clock is the          *)
(* conjunction of the clock edges of its parts.                            *)
(***************************************************************************)
EXTENDS Integers

CONSTANTS
    MaxRowWidth, Pixel, Blank,  \* of the window buffer
    Stages,                     \* of the MAC pipeline
    YMemDepth                   \* generics.yMemDepth, a power of two

ASSUME PipelineAssumption == Stages \in Nat \ {0}
ASSUME YMemDepthAssumption == YMemDepth \in Nat \ {0}

VARIABLES
    counter,                                    \* ser32to8
    delay, pendingRsp, readPtr, writeOffset,
    row0, row1, cache,                          \* windowBuffer3x3
    stage,                                      \* mac8x9
    yMem,               \* yMem[a][b]: word a of bank b, b in 0 .. 3
    yMemAddr,           \* the kernel that is applied next
    mac8x9PayloadReg,   \* the window the kernels are applied to
    state               \* of the state machine

ctlrRegs == <<counter, delay, pendingRsp, readPtr, writeOffset, row0, row1, cache,
              stage, yMem, yMemAddr, mac8x9PayloadReg, state>>

ser32to8 == INSTANCE Ser32to8
windowBuffer3x3 == INSTANCE WindowBuffer3x3

\* A command is a pair of a window and a kernel.
NoCommand == <<>>

mac8x9 == INSTANCE Mac8x9 WITH Bubble <- NoCommand

States == {"boot", "sInit", "sGetNext", "sLoop"}

Reset ==
    /\ ser32to8!Reset
    /\ windowBuffer3x3!Reset
    /\ mac8x9!Reset
    /\ yMem = [a \in 0 .. YMemDepth - 1 |-> [b \in 0 .. 3 |-> <<Blank, Blank>>]]
    /\ yMemAddr = 0
    /\ mac8x9PayloadReg = Blank
    /\ state = "boot"

-----------------------------------------------------------------------------
(* Combinational signals. *)

WindowInit == state = "sInit"
WindowReady == state = "sGetNext"
WindowFire == windowBuffer3x3!OutputFire(WindowReady)

PixelReady == windowBuffer3x3!InputReady(WindowReady)
PixelFire(xValid) == xValid /\ PixelReady
XReady == ser32to8!InputReady(PixelReady)

\* yReadData(71 downto 0): banks 0 and 1 and the low byte of bank 2.  A kernel
\* word is a pair of its low byte and the rest.
Kernel(a) == <<yMem[a][0], yMem[a][1], yMem[a][2][1]>>

CmdValid == state = "sLoop"
Cmd == IF CmdValid THEN <<mac8x9PayloadReg, Kernel(yMemAddr)>> ELSE NoCommand
CmdFire(zReady) == CmdValid /\ mac8x9!CmdReady(zReady)

ZValid == mac8x9!RspValid
ZPayload == mac8x9!RspPayload

\* The subtraction wraps and is truncated to the width of yMemAddr: a channel
\* count of 0 runs through the whole memory.
LastIteration(outChannelCount) == yMemAddr = (outChannelCount - 1) % YMemDepth

\* The always block of the state machine overrides the states' own gotos.
StateNext(init, outChannelCount, zReady) ==
    CASE init                            -> "sInit"
      [] ~init /\ state = "boot"           -> "sInit"
      [] ~init /\ state = "sInit"          -> "sGetNext"
      [] ~init /\ state = "sGetNext"       -> IF WindowFire THEN "sLoop" ELSE state
      [] ~init /\ state = "sLoop"          ->
             IF CmdFire(zReady) /\ LastIteration(outChannelCount)
             THEN "sGetNext" ELSE state

-----------------------------------------------------------------------------
(* One clock edge. *)

\* Mutant: a new window continues with the kernel the last one stopped at.
FsmNoRewind(init, outChannelCount, zReady) ==
    /\ state' = StateNext(init, outChannelCount, zReady)
    /\ yMemAddr' = IF CmdFire(zReady) THEN (yMemAddr + 1) % YMemDepth ELSE yMemAddr
    /\ mac8x9PayloadReg' = IF WindowFire THEN windowBuffer3x3!OutputPayload
                                         ELSE mac8x9PayloadReg

Fsm(init, outChannelCount, zReady) ==
    /\ state' = StateNext(init, outChannelCount, zReady)
    /\ yMemAddr' = IF state # "sLoop" /\ state' = "sLoop" THEN 0   \* onEntry
                   ELSE IF CmdFire(zReady) THEN (yMemAddr + 1) % YMemDepth
                   ELSE yMemAddr
    /\ mac8x9PayloadReg' = IF WindowFire THEN windowBuffer3x3!OutputPayload
                                         ELSE mac8x9PayloadReg

\* The write ports of the four banks; the two low bits of the address select
\* the bank.
YMemWrite(y) ==
    yMem' = IF y.valid THEN [yMem EXCEPT ![y.address \div 4][y.address % 4] = y.data]
                       ELSE yMem

Clock(init, rowWidth, initialDelay, outChannelCount, xValid, x, y, zReady) ==
    /\ ser32to8!Clock(xValid, PixelReady)
    /\ windowBuffer3x3!Clock(WindowInit, rowWidth, initialDelay,
                             xValid, ser32to8!OutputPayload(x), WindowReady)
    /\ mac8x9!Clock(Cmd, zReady)
    /\ Fsm(init, outChannelCount, zReady)
    /\ YMemWrite(y)
=============================================================================
