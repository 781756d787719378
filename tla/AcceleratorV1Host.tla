--------------------------- MODULE AcceleratorV1Host ---------------------------
(***************************************************************************)
(* The accelerator driven by software through its bus, the way its         *)
(* registers are meant to be used: configure, load the kernels, init; then *)
(* write X only while the last status said there is room, read Z only      *)
(* while it said there are results, and (Drain) start the next run after   *)
(* the last result of this one.  The repository holds no such driver; this *)
(* is the protocol the status register offers.                             *)
(*                                                                         *)
(* The driver's own variables are its counters and the status it last saw. *)
(***************************************************************************)
EXTENDS AcceleratorV1, FiniteSets

CONSTANTS
    Geometries, MaxWords, MaxRuns,  \* as in Convolution
    Drain           \* whether a run is started only after the last result of
                    \* the one before it

ASSUME DrainAssumption == Drain \in BOOLEAN
ASSUME GeometryAssumption ==
    \A g \in Geometries : g.delay \in Nat /\ g.channels \in 1 .. YMemDepth

\* The rows of an image fit in the row memories, and no window comes out before
\* it is complete ("2 rows + 2 pixels", WindowBuffer3x3Test).
ASSUME RowsAssumption ==
    /\ MaxRowWidth \in Nat \ {0}
    /\ \A g \in Geometries : g.width \in 1 .. MaxRowWidth /\ g.delay >= 2 * g.width + 2

\* Whatever the driver sends is a pixel.
ASSUME PixelAssumption ==
    /\ MaxRuns \in Nat /\ MaxWords \in Nat \ {0}
    /\ (1 .. MaxRuns) \X (1 .. 4 * MaxWords) \subseteq Pixel
    /\ Blank \notin Pixel

VARIABLES
    run, geometry, words, received, last,   \* as in Convolution
    step,           \* position in the sequence of commands that starts a run
    credit,         \* words that fit in X by the last status
    ready           \* results in Z by the last status

driver == <<run, geometry, words, received, last, step, credit, ready>>
vars == <<ctlrRegs, busRegs, driver>>

promise == INSTANCE Convolution WITH None <- Blank

Init ==
    /\ PowerUp
    /\ promise!Init
    /\ step = 0
    /\ credit = 0
    /\ ready = 0

-----------------------------------------------------------------------------
(* Starting a run: step 1 follows the write of the row buffer registers, the *)
(* channel count is step 1's command, the kernel words the next ones, init   *)
(* the last one, and step = Running afterwards.                              *)

KernelSteps == 4 * geometry.channels
Running == step = 3 + KernelSteps

\* The first run may start at once, a later one when all results are there.
ConfigureRows ==
    /\ step = 0 \/ Running
    /\ Drain => received = promise!Due
    /\ run < MaxRuns
    /\ \E g \in Geometries :
          /\ geometry' = g
          /\ WriteRowBuffer(g.width, g.delay)
    /\ run' = run + 1
    /\ words' = 0
    /\ received' = 0
    /\ last' = Blank
    /\ step' = 1
    /\ UNCHANGED <<credit, ready>>

ConfigureChannels ==
    /\ step = 1
    /\ WriteChannels(geometry.channels)
    /\ step' = 2
    /\ UNCHANGED <<run, geometry, words, received, last, credit, ready>>

LoadKernel ==
    /\ step \in 2 .. 1 + KernelSteps
    /\ LET address == step - 2
       IN  WriteY(address, promise!KernelWord(address \div 4, address % 4))
    /\ step' = step + 1
    /\ UNCHANGED <<run, geometry, words, received, last, credit, ready>>

StartRun ==
    /\ step = 2 + KernelSteps
    /\ WriteInit
    /\ step' = step + 1
    /\ credit' = 0
    /\ ready' = 0
    /\ UNCHANGED <<run, geometry, words, received, last>>

-----------------------------------------------------------------------------
(* During a run. *)

\* The driver does something else for a cycle.
Pause == Idle /\ UNCHANGED driver

Poll ==
    /\ Running
    /\ Idle
    /\ credit' = StatusAvailability
    /\ ready' = StatusOccupancy
    /\ UNCHANGED <<run, geometry, words, received, last, step>>

SendWord ==
    /\ Running
    /\ credit > 0
    /\ words < MaxWords
    /\ WriteX(promise!Word(words + 1))
    /\ words' = words + 1
    /\ credit' = credit - 1
    /\ UNCHANGED <<run, geometry, received, last, step, ready>>

ReceiveResult ==
    /\ Running
    /\ ready > 0
    /\ ReadZ
    /\ received' = received + 1
    /\ last' = ZRead
    /\ ready' = ready - 1
    /\ UNCHANGED <<run, geometry, words, step, credit>>

Next ==
    \/ ConfigureRows \/ ConfigureChannels \/ LoadKernel \/ StartRun
    \/ Pause \/ Poll \/ SendWord \/ ReceiveResult

\* The driver polls again and again, and fetches what the status announced.
\* Every one of its steps is a clock cycle, so the hardware needs no fairness
\* of its own.
Fairness == WF_vars(Poll) /\ WF_vars(ReceiveResult)

Spec == Init /\ [][Next]_vars /\ Fairness

-----------------------------------------------------------------------------
(* Correctness. *)

TypeOK ==
    /\ ser32to8!TypeOK
    /\ state \in States
    /\ delay \in Nat /\ rowBufferInitialDelay \in Nat
    /\ pendingRsp \in BOOLEAN
    /\ stage = [i \in 1 .. Stages |-> stage[i]]
    /\ yMemAddr \in 0 .. YMemDepth - 1
    /\ Len(xQueue) <= XFifoDepth
    /\ Len(zQueue) <= ZFifoDepth
    /\ geometry \in Geometries
    /\ {words, received, credit, ready} \subseteq Nat

\* A driver that writes X only by the last status never loses a word.
WritesFit == credit <= XFifoDepth - Len(xQueue)

\* A driver that reads Z only by the last status always gets a result: each
\* one counted in the status can be popped, although the FIFO can be popped
\* only one cycle after it counts a word.
ReadsSucceed == ready > 0 => zFifo!PopValid /\ ready <= Len(zQueue)

\* A run is set up when init has gone through the state machine.
SetUp == Running /\ state \in {"sGetNext", "sLoop"}

Occupied == {i \in 1 .. Stages : stage[i] # NoCommand}

\* Pixels in the X FIFO, those of its head word that went on already excepted.
Waiting == 4 * Len(xQueue) - counter

\* Every result the driver is still to receive is somewhere in the machine,
\* exactly once: in the Z FIFO, in the MAC pipeline, in the rest of the loop
\* over the channels, in the window in hand or in pixels that wait.
NothingLost ==
    SetUp =>
        promise!Due = received + Len(zQueue) + Cardinality(Occupied)
            + (IF state = "sLoop" THEN geometry.channels - yMemAddr ELSE 0)
            + geometry.channels *
                ((IF pendingRsp THEN 1 ELSE 0)
                 + (IF Waiting > delay THEN Waiting - delay ELSE 0))

\* The accelerator implements the convolution, liveness included: what a
\* driver receives is the next result, and every result due is received.
Implements == promise!Spec

\* "with rowWith=4 and 3x3 windows we are expecting 4 (2 are invalid) + 2
\* results" after a pulse of init (AcceleratorV1CtlrTest): one result per
\* channel for each pixel after the delay, and none from before.  Neither the
\* window buffer nor the MAC pipeline is emptied by init, so a driver that
\* does not wait for the old results gets more.
OnlyResultsDue ==
    SetUp => received + Len(zQueue) + Cardinality(Occupied) <= promise!Due

-----------------------------------------------------------------------------
(* The inductive invariant behind WritesFit, ReadsSucceed and NothingLost.  *)

\* The serialiser is at the start of a word when there is no word, and X is
\* empty until the window buffer has been set up.
Aligned ==
    /\ counter \in 0 .. 3
    /\ state \in {"boot", "sInit"} => xQueue = <<>>
    /\ counter # 0 => xFifo!PopValid \/ WindowInit

\* The registers hold the geometry of the run before it starts.
Configured ==
    /\ step \in 0 .. 3 + KernelSteps
    /\ state = "boot" => step = 0
    /\ step >= 1 => rowBufferInitialDelay = geometry.delay
    /\ step >= 2 => outChannelCount = geometry.channels

\* Pixels of the run the window buffer has taken, and the windows it made of them.
Taken == promise!Pixels - Waiting
Made == IF Taken > geometry.delay THEN Taken - geometry.delay ELSE 0

\* No result is on its way, and the pixels that wait will make none.
Quiet ==
    /\ state # "sLoop" /\ zQueue = <<>> /\ Occupied = {} /\ ~pendingRsp
    /\ Waiting <= delay

\* The windows made so far are those that are in hand, in the loop, or have
\* become results.
Accounted ==
    /\ 0 <= Waiting /\ 0 <= Taken
    /\ delay = IF Taken < geometry.delay THEN geometry.delay - Taken ELSE 0
    /\ state = "sLoop" => yMemAddr < geometry.channels
    /\ geometry.channels * Made =
           received + Len(zQueue) + Cardinality(Occupied)
            + (IF state = "sLoop" THEN geometry.channels - yMemAddr ELSE 0)
            + (IF pendingRsp THEN geometry.channels ELSE 0)

\* A run that is not set up has not begun; between init and the end of its way
\* through the state machine there is nothing in X and the driver knows nothing.
Fresh == words = 0 /\ received = 0
Starting == xQueue = <<>> /\ credit = 0 /\ ready = 0

IInv ==
    /\ TypeOK /\ Aligned /\ WritesFit /\ ReadsSucceed /\ Configured
    /\ IF SetUp THEN Accounted ELSE Quiet /\ Fresh
    /\ Running /\ ~SetUp => Starting

-----------------------------------------------------------------------------
(* Values for model checking: two-row memories and geometries that use both *)
(* the whole row memory and less, one channel and the whole kernel memory.  *)

MCGeometries == { [width |-> 2, delay |-> 6, channels |-> 2],
                  [width |-> 1, delay |-> 5, channels |-> 1] }

\* Pixels are pairs of a run and a position.
MCPixel == (1 .. MaxRuns) \X (1 .. 4 * MaxWords)
=============================================================================
