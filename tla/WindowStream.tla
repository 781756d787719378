----------------------------- MODULE WindowStream -----------------------------
(***************************************************************************)
(* The window buffer closed by its neighbours: a producer that offers      *)
(* pixels, a consumer that takes a window whenever it likes, and a         *)
(* controller that restarts the buffer with a new row width and delay at   *)
(* any time, except in a cycle in which a pixel is offered (AcceleratorV1  *)
(* checks that this never happens: NoPixelWhileInit).                      *)
(*                                                                         *)
(* History variables record what the properties talk about: the pixels     *)
(* accepted since the last restart and the windows handed out since then.  *)
(***************************************************************************)
EXTENDS WindowBuffer3x3, Sequences

CONSTANTS
    RowWidths,      \* the row widths the controller may program
    InitialDelays,  \* the delays it may program
    MaxRun          \* bound: pixels accepted between two restarts

ConfigAssumption ==
    /\ BufferAssumption
    /\ RowWidths \subseteq Nat /\ InitialDelays \subseteq Nat /\ MaxRun \in Nat

VARIABLES
    stream,         \* pixels accepted since the last restart, oldest first
    delay0,         \* the delay programmed by the last restart
    leftover,       \* 1 if a window was left in hand by the last restart
    delivered       \* windows handed out since the last restart

history == <<stream, delay0, leftover, delivered>>
vars == <<regs, history>>

Init ==
    /\ Reset
    /\ stream = <<>>
    /\ delay0 = 0
    /\ leftover = 0
    /\ delivered = 0

\* A Boolean signal counted.
Bit(signal) == IF signal THEN 1 ELSE 0

Accept(pixel, ready) ==
    /\ Len(stream) < MaxRun
    /\ InputFire(TRUE, ready)
    /\ Clock(FALSE, writeOffset, delay0, TRUE, pixel, ready)
    /\ stream' = Append(stream, pixel)
    /\ delivered' = delivered + Bit(OutputFire(ready))
    /\ UNCHANGED <<delay0, leftover>>

\* No pixel is offered, or it is offered and not accepted.
Wait(offered, ready) ==
    /\ ~InputFire(offered, ready)
    /\ \E pixel \in Pixel : Clock(FALSE, writeOffset, delay0, offered, pixel, ready)
    /\ delivered' = delivered + Bit(OutputFire(ready))
    /\ UNCHANGED <<stream, delay0, leftover>>

Restart(rowWidth, initialDelay, ready) ==
    /\ \E pixel \in Pixel : Clock(TRUE, rowWidth, initialDelay, FALSE, pixel, ready)
    /\ stream' = <<>>
    /\ delay0' = initialDelay
    /\ leftover' = Bit(pendingRsp')
    /\ delivered' = 0

Next ==
    \/ \E pixel \in Pixel, ready \in BOOLEAN : Accept(pixel, ready)
    \/ \E offered, ready \in BOOLEAN : Wait(offered, ready)
    \/ \E rowWidth \in RowWidths, initialDelay \in InitialDelays, ready \in BOOLEAN :
          Restart(rowWidth, initialDelay, ready)

Spec == Init /\ [][Next]_vars

-----------------------------------------------------------------------------
(* Correctness. *)

StreamTypeOK ==
    /\ TypeOK
    /\ stream \in Seq(Pixel)
    /\ Len(stream) <= MaxRun
    /\ delay0 \in Nat
    /\ leftover \in {0, 1}
    /\ delivered \in Nat

\* The distance between vertically adjacent pixels: the row memories have
\* MaxRowWidth cells, so a row width of 0 acts as MaxRowWidth and larger ones
\* wrap around.
RowWidth == IF writeOffset % MaxRowWidth = 0 THEN MaxRowWidth
                                              ELSE writeOffset % MaxRowWidth

\* The pixel r rows above and c columns left of the newest one.
Position(r, c) == Len(stream) - r * RowWidth - c

\* The window in hand was produced by the current run: it was not left over
\* from before the restart.
FreshWindow == pendingRsp /\ (leftover = 0 \/ Len(stream) > delay0)

\* Every window of the current run consists of the newest pixel, its two left
\* neighbours and the pixels one and two rows above these three, in the order
\* oldest first; positions that lie before the start of the run are excepted,
\* and there are none with a delay of at least two rows and two pixels ("2 rows
\* + 2 pixels" of the tests).  (rowShifter, windowCache3x3, the delay counter
\* and the reversed output vector.)
WindowIsNeighbourhood ==
    FreshWindow =>
        /\ \A r, c \in Taps :
              Position(r, c) >= 1 =>
                  OutputPayload[8 - (3 * r + c)] = stream[Position(r, c)]
        /\ delay0 >= 2 * RowWidth + 2 =>
              \A r, c \in Taps : Position(r, c) >= 1

\* Each pixel after the first delay0 yields exactly one window: none is lost
\* or duplicated however producer, consumer and delay counter interleave.
OneWindowPerPixel ==
    delivered + Bit(pendingRsp) =
        leftover + (IF Len(stream) > delay0 THEN Len(stream) - delay0 ELSE 0)

\* output is a Stream: a window that was offered and not taken stays offered,
\* with the same contents, until it is taken or the buffer is restarted.
\* (input.ready must keep pixels out as long as a window is in hand.)
HeldUntilTaken ==
    /\ pendingRsp /\ leftover = 0
    /\ delivered' = delivered
    /\ Len(stream') >= Len(stream)
    => pendingRsp' /\ OutputPayload' = OutputPayload

WindowHeld == [][HeldUntilTaken]_vars

-----------------------------------------------------------------------------
(* The inductive invariant behind WindowIsNeighbourhood: where the row       *)
(* memories and the cache keep which pixel of the run.                       *)

PtrInv == readPtr = Len(stream) % MaxRowWidth

DelayInv == delay = IF Len(stream) < delay0 THEN delay0 - Len(stream) ELSE 0

\* The last MaxRowWidth pixels are in row0 and, where they belong to the run,
\* the pixels above them in row1, each where its write pointer was.
Row0Inv ==
    \A j \in 1 .. Len(stream) :
        j > Len(stream) - MaxRowWidth =>
            row0[(j - 1 + writeOffset) % MaxRowWidth] = stream[j]

Row1Inv ==
    \A j \in 1 .. Len(stream) :
        j > Len(stream) - MaxRowWidth /\ j > RowWidth =>
            row1[(j - 1 + writeOffset) % MaxRowWidth] = stream[j - RowWidth]

CacheInv ==
    \A r, c \in Taps :
        Position(r, c) >= 1 => cache[r][c] = stream[Position(r, c)]

PendingInv == leftover = 0 /\ pendingRsp => Len(stream) > delay0

IInv ==
    /\ StreamTypeOK
    /\ PtrInv /\ DelayInv /\ Row0Inv /\ Row1Inv /\ CacheInv /\ PendingInv
    /\ OneWindowPerPixel
=============================================================================
