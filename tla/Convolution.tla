------------------------------ MODULE Convolution ------------------------------
(***************************************************************************)
(* What the accelerator promises to a driver, with no clock, no FIFO and   *)
(* no pipeline: in each run the driver sends words of four pixels and      *)
(* receives, in order, one result per pixel after the delay and output     *)
(* channel, each made of the 3x3 neighbourhood of that pixel and of the    *)
(* kernel of that channel.  AcceleratorV1Host is shown to implement it.    *)
(*                                                                         *)
(* Pixel i of a run is <<run, i>> and the words of its kernels are         *)
(* KernelWord: values of different runs or positions are never equal, so   *)
(* the identity of a result tells where its operands came from.            *)
(***************************************************************************)
EXTENDS Integers

CONSTANTS
    Geometries,     \* the records [width, delay, channels] a driver may use
    MaxWords,       \* bound: words sent in a run
    MaxRuns,        \* bound: runs
    None            \* last before the first result of a run

VARIABLES
    run,            \* number of the run
    geometry,       \* of the run
    words,          \* words sent in the run
    received,       \* results received in the run
    last            \* the last one

vars == <<run, geometry, words, received, last>>

Pixels == 4 * words

\* The results the words sent so far give rise to.
Due == IF Pixels > geometry.delay
       THEN geometry.channels * (Pixels - geometry.delay) ELSE 0

Word(w) == [b \in 0 .. 3 |-> <<run, 4 * (w - 1) + b + 1>>]

\* Low byte and rest of the word for bank b of channel a.
KernelWord(a, b) == <<<<run, a, b, 0>>, <<run, a, b, 1>>>>

Kernel(a) == <<KernelWord(a, 0), KernelWord(a, 1), KernelWord(a, 2)[1]>>

\* The window whose newest pixel is the n-th of the run, oldest pixel first.
Window(n) == [k \in 0 .. 8 |->
                 <<run, n - ((8 - k) \div 3) * geometry.width - ((8 - k) % 3)>>]

\* The k-th result of the run.
Result(k) == <<Window(geometry.delay + 1 + (k - 1) \div geometry.channels),
               Kernel((k - 1) % geometry.channels)>>

Start(g) ==
    /\ run < MaxRuns
    /\ received = Due
    /\ run' = run + 1
    /\ geometry' = g
    /\ words' = 0
    /\ received' = 0
    /\ last' = None

Send ==
    /\ words < MaxWords
    /\ words' = words + 1
    /\ UNCHANGED <<run, geometry, received, last>>

Receive ==
    /\ received < Due
    /\ received' = received + 1
    /\ last' = Result(received + 1)
    /\ UNCHANGED <<run, geometry, words>>

Init ==
    /\ run = 0
    /\ geometry \in Geometries
    /\ words = 0
    /\ received = 0
    /\ last = None

Next == (\E g \in Geometries : Start(g)) \/ Send \/ Receive

Safety == Init /\ [][Next]_vars

Spec == Safety /\ WF_vars(Receive)
=============================================================================
