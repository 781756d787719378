------------------------------- MODULE Devices -------------------------------
(***************************************************************************)
(* The parts of the hardware, each in the environment its own module gives *)
(* it and sharing nothing but the clock: the FT245 controllers, the on-    *)
(* chip RAMs, the machine timer, the reset controller, and of the          *)
(* accelerator the window buffer and the MAC pipeline.  A behaviour is the *)
(* life of one of them; what the others hold then is of no interest.       *)
(***************************************************************************)
EXTENDS Integers

CONSTANTS
    DataWidth,                                          \* Ft245Sync
    Words, Base, Undefined, Addresses,                  \* OnChipRam
    WordWidth, Distances, MaxPause,                     \* MachineTimer
    CounterWidth,                                       \* ToteReset
    MaxRowWidth, Pixel, Blank,                          \* WindowStream
    RowWidths, InitialDelays, MaxRun,
    Stages, Bubble, MaxCommands                         \* MacStream

VARIABLES
    device,
    ctrl, rxf, txe, oe_reg, rd_reg, wr_reg, data, state, clash,
    mem, rspValid, rspData, mems, dataOut, rspPending, rspTarget, written, expected,
    counter, cmp, interrupt, target, missing, programmed, remaining, pause,
    reset, resetOut, resetBuffer, systemResetSet, systemBuffer, resetCounter,
    debugReset, systemReset, samples,
    delay, pendingRsp, readPtr, writeOffset, row0, row1, cache,
    stream, delay0, leftover, delivered,
    stage, accepted, returned

\* Of byte, half word and word stores.
StoreMasks == {[l \in 0 .. 3 |-> l \in stored] :
                  stored \in {{0}, {1}, {2}, {3}, {0, 1}, {2, 3}, {0, 1, 2, 3}}}

\* Bytes that differ in both nibbles and from lane to lane.
DistinctBytes == {[l \in 0 .. 3 |-> IF l \in some THEN <<"a", "b">> ELSE <<"c", "d">>] :
                     some \in {{}, {0, 2}, {2, 3}}}

ft245 == INSTANCE Ft245Sync
ram == INSTANCE OnChipRam WITH Masks <- StoreMasks, Data <- DistinctBytes
timer == INSTANCE MachineTimer
resetCtrl == INSTANCE ToteReset
window == INSTANCE WindowStream
mac == INSTANCE MacStream

ASSUME DataWidthAssumption == ft245!DataWidthAssumption
ASSUME MappingAssumption == ram!MappingAssumption
ASSUME HorizonAssumption == timer!HorizonAssumption
ASSUME CounterWidthAssumption == resetCtrl!CounterWidthAssumption
ASSUME ConfigAssumption == window!ConfigAssumption
ASSUME CommandAssumption == mac!CommandAssumption

Off == "off"

ft245Vars == <<ctrl, rxf, txe, oe_reg, rd_reg, wr_reg, data, state, clash>>
ramVars == <<mem, rspValid, rspData, mems, dataOut, rspPending, rspTarget, written, expected>>
timerVars == <<counter, cmp, interrupt, target, missing, programmed, remaining, pause>>
resetVars == <<reset, resetOut, resetBuffer, systemResetSet, systemBuffer, resetCounter,
               debugReset, systemReset, samples>>

windowVars == <<delay, pendingRsp, readPtr, writeOffset, row0, row1, cache,
                stream, delay0, leftover, delivered>>
macVars == <<stage, accepted, returned>>

vars == <<device, ft245Vars, ramVars, timerVars, resetVars, windowVars, macVars>>

-----------------------------------------------------------------------------

Ft245Off ==
    /\ ctrl = Off /\ rxf = FALSE /\ txe = FALSE /\ oe_reg = Off /\ rd_reg = Off
    /\ wr_reg = Off /\ data = Off /\ state = Off /\ clash = Off
RamOff ==
    /\ mem = Off /\ rspValid = Off /\ rspData = Off /\ mems = Off /\ dataOut = Off
    /\ rspPending = Off /\ rspTarget = Off /\ written = Off /\ expected = Off
TimerOff ==
    /\ counter = Off /\ cmp = Off /\ interrupt = Off /\ target = Off /\ missing = Off
    /\ programmed = Off /\ remaining = Off /\ pause = Off
ResetOff ==
    /\ reset = FALSE /\ resetOut = FALSE /\ resetBuffer = Off /\ systemResetSet = Off
    /\ systemBuffer = Off /\ resetCounter = Off /\ debugReset = Off
    /\ systemReset = FALSE /\ samples = Off
WindowOff ==
    /\ delay = Off /\ pendingRsp = FALSE /\ readPtr = Off /\ writeOffset = Off
    /\ row0 = Off /\ row1 = Off /\ cache = Off
    /\ stream = Off /\ delay0 = Off /\ leftover = Off /\ delivered = Off
MacOff == stage = Off /\ accepted = 0 /\ returned = 0

Init ==
    \/ /\ device = "ft245" /\ ft245!Init
       /\ RamOff /\ TimerOff /\ ResetOff /\ WindowOff /\ MacOff
    \/ /\ device = "ram" /\ ram!Init
       /\ Ft245Off /\ TimerOff /\ ResetOff /\ WindowOff /\ MacOff
    \/ /\ device = "timer" /\ timer!Init
       /\ Ft245Off /\ RamOff /\ ResetOff /\ WindowOff /\ MacOff
    \/ /\ device = "reset" /\ resetCtrl!Init
       /\ Ft245Off /\ RamOff /\ TimerOff /\ WindowOff /\ MacOff
    \/ /\ device = "window" /\ window!Init
       /\ Ft245Off /\ RamOff /\ TimerOff /\ ResetOff /\ MacOff
    \/ /\ device = "mac" /\ mac!StreamInit
       /\ Ft245Off /\ RamOff /\ TimerOff /\ ResetOff /\ WindowOff

Ft245Next ==
    device = "ft245" /\ ft245!Next
        /\ UNCHANGED <<device, ramVars, timerVars, resetVars, windowVars, macVars>>
RamNext ==
    device = "ram" /\ ram!Next
        /\ UNCHANGED <<device, ft245Vars, timerVars, resetVars, windowVars, macVars>>
TimerNext ==
    device = "timer" /\ timer!Next
        /\ UNCHANGED <<device, ft245Vars, ramVars, resetVars, windowVars, macVars>>
ResetNext ==
    device = "reset" /\ resetCtrl!Next
        /\ UNCHANGED <<device, ft245Vars, ramVars, timerVars, windowVars, macVars>>
WindowNext ==
    device = "window" /\ window!Next
        /\ UNCHANGED <<device, ft245Vars, ramVars, timerVars, resetVars, macVars>>
MacNext ==
    device = "mac" /\ mac!StreamNext
        /\ UNCHANGED <<device, ft245Vars, ramVars, timerVars, resetVars, windowVars>>

Next == Ft245Next \/ RamNext \/ TimerNext \/ ResetNext \/ WindowNext \/ MacNext

\* The clock runs and, as long as there are commands in the pipeline, the
\* consumer is ready again and again; see the modules of the three devices.
Fairness ==
    /\ WF_(ft245!regs)(Ft245Next)
    /\ WF_(resetCtrl!regs)(ResetNext)
    /\ WF_macVars(MacNext /\ mac!Drained)

Spec == Init /\ [][Next]_vars /\ Fairness

-----------------------------------------------------------------------------
(* What is checked of each.                                                *)

\* Chip and controller drive the FT245 data bus together only if a read and a
\* write were requested in the same idle cycle (Ft245Sync.scala:105).
SharedBus == device = "ft245" => ft245!SharedBus

\* A burst of the FT245 controller ends when the chip pauses (lines 121, 129).
BurstsEnd == device = "ft245" => ft245!BurstsEnd

\* Both RAMs answer exactly the reads, with the bytes written last (Bram.scala,
\* Spram.scala).
RamsAnswer == device = "ram" => ram!BramAnswers /\ ram!SpramAnswers

\* The timer's interrupt does not come before the deadline (MachineTimer.scala).
NoEarlyInterrupt == device = "timer" => timer!NoEarlyInterrupt

\* Nor is it lost behind it.
NoMissedInterrupt == [][device = "timer" => timer!InterruptStays]_vars

\* A domain leaves reset only after a whole run of the counter (Tote.scala:112),
\* and the debug domain enters it only because of the pin (line 126).
FullReset ==
    [][device = "reset" => resetCtrl!ReleasedInTime /\ resetCtrl!DebugResetByPin]_vars

\* With pin and debugger quiet the system comes out of reset for good.
SystemRuns == device = "reset" => resetCtrl!SystemRuns

\* Every window of the current run is the neighbourhood of its newest pixel
\* (rowShifter, windowCache3x3 and the delay counter of WindowBuffer3x3.scala).
WindowIsNeighbourhood == device = "window" => window!WindowIsNeighbourhood

\* Each pixel behind the delay yields one window (WindowBuffer3x3.scala:90).
OneWindowPerPixel == device = "window" => window!OneWindowPerPixel

\* A window that was offered stays offered, unchanged, until it is taken.
WindowHeld == [][device = "window" => window!HeldUntilTaken]_vars

\* The MAC pipeline neither loses nor duplicates a command (Mac8x9.scala).
InFlight == device = "mac" => mac!InFlight

\* Its results come out in the order of the commands.
InOrder == device = "mac" => mac!InOrder

\* It drains without being pushed.
Answered == device = "mac" => mac!Answered
=============================================================================
