------------------------- MODULE AcceleratorV1Traffic -------------------------
(***************************************************************************)
(* The accelerator under arbitrary bus traffic: any command in any cycle,  *)
(* X written when it is full, Z read when it is empty, init and new        *)
(* settings in the middle of a run.  What the hardware guarantees whatever *)
(* software does with it.                                                  *)
(***************************************************************************)
EXTENDS AcceleratorV1

CONSTANTS
    RowWidths, InitialDelays, ChannelCounts,    \* written to the registers
    YAddresses, YCells                          \* written to the kernels

hardware == <<ctlrRegs, busRegs>>

XWords == [0 .. 3 -> Pixel]

\* The contents of pixels and kernels do not matter to the properties.
YWords == YCells \X YCells

Traffic ==
    \/ Idle
    \/ WriteInit
    \/ \E rowWidth \in RowWidths, initialDelay \in InitialDelays :
          WriteRowBuffer(rowWidth, initialDelay)
    \/ \E count \in ChannelCounts : WriteChannels(count)
    \/ \E word \in XWords : WriteX(word)
    \/ ReadZ
    \/ \E address \in YAddresses, data \in YWords : WriteY(address, data)

TrafficSpec == PowerUp /\ [][Traffic]_hardware

-----------------------------------------------------------------------------

\* The window buffer is never offered a pixel in the cycle in which it is
\* restarted, for no sequence of commands, init in consecutive cycles
\* included.  (WindowStream takes this for granted.)
NoPixelWhileInit == WindowInit => ~xFifo!PopValid

\* The serialiser is in the middle of a word only while that word is at the
\* head of the X FIFO: init, which discards the word, also brings the
\* serialiser back to the start of a word before the next one can arrive.
WordAligned == counter # 0 => xFifo!PopValid \/ WindowInit

\* z is a Stream: a result that meets a full Z FIFO waits at the end of the
\* MAC pipeline, unchanged, whatever moves up behind it and whatever init
\* resets around it.
ResultHeld ==
    [][ ZValid /\ ~zFifo!PushReady => ZValid' /\ ZPayload' = ZPayload ]_hardware
=============================================================================
