--------------------------- MODULE WindowBuffer3x3 ---------------------------
(***************************************************************************)
(* The 3x3 sliding-window buffer of the accelerator                        *)
(* (jderobot/lib/accelerator/WindowBuffer3x3.scala).  Pixels of an image   *)
(* enter one per cycle, row by row; two row memories and a 3x3 register    *)
(* cache turn them into the stream of 3x3 windows the MAC consumes.        *)
(*                                                                         *)
(* The module is the circuit and nothing else: VARIABLES are its registers *)
(* and memories, operators are its combinational signals, and Clock is one *)
(* rising clock edge, parameterised by the values on the input ports.      *)
(* Modules that instantiate it close the circuit.                          *)
(***************************************************************************)
EXTENDS Integers

CONSTANTS
    MaxRowWidth,    \* generics.maxRowWidth, a power of two in the code
    Pixel,          \* the values of a pixel
    Blank           \* what a register or a memory cell holds before a pixel
                    \* was ever shifted into it (zero, or undefined)

BufferAssumption == MaxRowWidth \in Nat \ {0} /\ Blank \notin Pixel

VARIABLES
    delay,          \* pixels still to be swallowed before windows come out
    pendingRsp,     \* output.valid
    readPtr,        \* rowShifter.readPtr
    writeOffset,    \* rowShifter.writeOffset
    row0, row1,     \* rowShifter.row0, rowShifter.row1
    cache           \* windowCache3x3: cache[r][c] is the register row<r>_<c>

regs == <<delay, pendingRsp, readPtr, writeOffset, row0, row1, cache>>

Slot  == 0 .. MaxRowWidth - 1
Cell  == Pixel \cup {Blank}
Taps  == 0 .. 2

TypeOK ==
    /\ delay \in Nat
    /\ pendingRsp \in BOOLEAN
    /\ readPtr \in Slot
    /\ writeOffset \in Nat
    /\ row0 \in [Slot -> Cell]
    /\ row1 \in [Slot -> Cell]
    /\ cache \in [Taps -> [Taps -> Cell]]

Reset ==
    /\ delay = 0
    /\ pendingRsp = FALSE
    /\ readPtr = 0
    /\ writeOffset = 0
    /\ row0 = [s \in Slot |-> Blank]
    /\ row1 = [s \in Slot |-> Blank]
    /\ cache = [r \in Taps |-> [c \in Taps |-> Blank]]

-----------------------------------------------------------------------------
(* Combinational signals. *)

\* The sum is truncated to the width of a row address.
writePtr == (readPtr + writeOffset) % MaxRowWidth

\* Mutant: no back-pressure from the window in hand.
InputReadyAlways(outputReady) == TRUE

InputReady(outputReady) == delay # 0 \/ outputReady

InputFire(inputValid, outputReady) == inputValid /\ InputReady(outputReady)

OutputFire(outputReady) == pendingRsp /\ outputReady

\* Vec(windowCache3x3.output.reverse): element 0 is the oldest pixel.
OutputPayload == [k \in 0 .. 8 |-> cache[(8 - k) \div 3][(8 - k) % 3]]

\* What enters the three rows of the cache: the pixel itself and the pixels
\* that lie one and two rows above it.
Front(pixel) == [r \in Taps |-> CASE r = 0 -> pixel
                                  [] r = 1 -> row0[readPtr]
                                  [] r = 2 -> row1[readPtr]]

-----------------------------------------------------------------------------
(* One clock edge.  fire abbreviates input.fire of the cycle. *)

\* Mutant: the second row is fed from the write position of the first.
RowShifterSamePtr(init, rowWidth, fire, pixel) ==
    /\ row0' = IF fire THEN [row0 EXCEPT ![writePtr] = pixel] ELSE row0
    /\ row1' = IF fire THEN [row1 EXCEPT ![writePtr] = row0[writePtr]] ELSE row1
    /\ readPtr' = IF init THEN 0
                 ELSE IF fire THEN (readPtr + 1) % MaxRowWidth ELSE readPtr
    /\ writeOffset' = IF init THEN rowWidth ELSE writeOffset

RowShifter(init, rowWidth, fire, pixel) ==
    /\ row0' = IF fire THEN [row0 EXCEPT ![writePtr] = pixel] ELSE row0
    /\ row1' = IF fire THEN [row1 EXCEPT ![writePtr] = row0[readPtr]] ELSE row1
    /\ readPtr' = IF init THEN 0
                 ELSE IF fire THEN (readPtr + 1) % MaxRowWidth ELSE readPtr
    /\ writeOffset' = IF init THEN rowWidth ELSE writeOffset

WindowCache(fire, pixel) ==
    cache' = IF fire
             THEN [r \in Taps |-> [c \in Taps |->
                     IF c = 0 THEN Front(pixel)[r] ELSE cache[r][c - 1]]]
             ELSE cache

\* Mutant: the delay counts cycles instead of accepted pixels.
DelayCounterFree(init, initialDelay, fire) ==
    delay' = IF init THEN initialDelay ELSE delay - (IF delay # 0 THEN 1 ELSE 0)

DelayCounter(init, initialDelay, fire) ==
    delay' = IF init THEN initialDelay
             ELSE delay - (IF fire /\ delay # 0 THEN 1 ELSE 0)

PendingRsp(fire, outputReady) ==
    pendingRsp' = \/ fire /\ delay = 0
                  \/ pendingRsp /\ ~OutputFire(outputReady)

Clock(init, rowWidth, initialDelay, inputValid, pixel, outputReady) ==
    LET fire == InputFire(inputValid, outputReady)
    IN  /\ RowShifter(init, rowWidth, fire, pixel)
        /\ WindowCache(fire, pixel)
        /\ DelayCounter(init, initialDelay, fire)
        /\ PendingRsp(fire, outputReady)
=============================================================================
