-------------------------- MODULE AcceleratorV1Proofs --------------------------
(***************************************************************************)
(* Proofs about the accelerator, under arbitrary traffic and under its     *)
(* driver, for every size of the FIFOs, the memories and the pipeline and  *)
(* for every geometry.                                                     *)
(***************************************************************************)
EXTENDS AcceleratorV1Host, AcceleratorV1Traffic, NumberLemmas, FiniteSetTheorems, TLAPS

-----------------------------------------------------------------------------
(* The FIFOs: what one clock edge does to the number of words and to       *)
(* pop.valid.                                                              *)

IsSequence(q) == \E S : q \in Seq(S)

\* What the operators of Sequences do to the length of a sequence.
LEMMA Counts ==
    ASSUME NEW q, IsSequence(q)
    PROVE  Len(q) \in Nat /\ (q = <<>> <=> Len(q) = 0)
  BY DEF IsSequence

LEMMA XCounts ==
    ASSUME NEW q, xFifo!IsSequence(q)
    PROVE  Len(q) \in Nat /\ (q = <<>> <=> Len(q) = 0)
  BY Counts DEF IsSequence, xFifo!IsSequence

LEMMA ZCounts ==
    ASSUME NEW q, zFifo!IsSequence(q)
    PROVE  Len(q) \in Nat /\ (q = <<>> <=> Len(q) = 0)
  BY Counts DEF IsSequence, zFifo!IsSequence

LEMMA TailCounts ==
    ASSUME NEW q, IsSequence(q), q # <<>>
    PROVE  IsSequence(Tail(q)) /\ Len(Tail(q)) = Len(q) - 1
  BY DEF IsSequence

LEMMA AppendCounts ==
    ASSUME NEW q, IsSequence(q), NEW payload
    PROVE  IsSequence(Append(q, payload)) /\ Len(Append(q, payload)) = Len(q) + 1
<1>1. PICK S : q \in Seq(S)
  BY DEF IsSequence
<1> DEFINE T == S \cup {payload}
<1>2. q \in Seq(T) /\ payload \in T
  BY <1>1
<1> HIDE DEF T
<1>3. Append(q, payload) \in Seq(T) /\ Len(Append(q, payload)) = Len(q) + 1
  BY <1>2
<1> QED
  BY <1>3 DEF IsSequence

\* The queue without the words that are popped, with the words that are pushed,
\* and behind an edge, which may be a flush.
Popped(q, pop) == IF pop = 1 THEN Tail(q) ELSE q

Moved(q, pop, push, payload) ==
    IF push = 1 THEN Append(Popped(q, pop), payload) ELSE Popped(q, pop)

Edged(q, pop, push, payload, flush) == IF flush THEN <<>> ELSE Moved(q, pop, push, payload)

\* What an edge makes of the queue q is r, with rest words left by the pop.
FifoMoved(depth, q, pop, push, flush, rest, r) ==
    /\ IsSequence(r) /\ Len(q) \in 0 .. depth /\ Len(r) \in 0 .. depth
    /\ flush => r = <<>>
    /\ ~flush =>
          /\ Len(r) = Len(q) - pop + push
          /\ Len(q) > pop => r # <<>> /\ (rest \in {0, depth} => Len(r) = depth)
          /\ q = <<>> => r = <<>> \/ (rest \in {0, depth} /\ Len(r) # depth)

\* An edge without a flush counts every word that enters or leaves; a word that
\* was in the FIFO and stayed can be popped in the next cycle, a first word not
\* before the cycle after it.
LEMMA FifoEdge ==
    ASSUME NEW depth \in Nat, depth >= 2, NEW q, IsSequence(q), Len(q) <= depth,
           NEW flush \in BOOLEAN, NEW payload,
           NEW pop \in {0, 1}, pop = 1 => q # <<>>,
           NEW push \in {0, 1}, push = 1 => Len(q) < depth
    PROVE  FifoMoved(depth, q, pop, push, flush, Len(Popped(q, pop)),
                     Edged(q, pop, push, payload, flush))
<1> DEFINE rest == Popped(q, pop)
           r == Edged(q, pop, push, payload, flush)
<1>0. /\ rest = IF pop = 1 THEN Tail(q) ELSE q
      /\ r = IF flush THEN <<>> ELSE IF push = 1 THEN Append(rest, payload) ELSE rest
  BY DEF Popped, Moved, Edged
<1> HIDE DEF rest, r
<1> SUFFICES FifoMoved(depth, q, pop, push, flush, Len(rest), r)
  BY DEF rest, r
<1>1. Len(q) \in 0 .. depth /\ (q = <<>> <=> Len(q) = 0)
  BY Counts
<1>2. IsSequence(rest) /\ Len(rest) = Len(q) - pop /\ Len(rest) \in Nat
  <2>1. CASE pop = 1
    <3>1. IsSequence(rest) /\ Len(rest) = Len(q) - 1
      BY <1>0, <2>1, TailCounts
    <3> QED
      BY <1>1, <2>1, <3>1
  <2>2. CASE pop = 0
    BY <1>0, <1>1, <2>2
  <2> QED
    BY <2>1, <2>2
<1>3. CASE flush
  <2>1. <<>> \in Seq({}) /\ Len(<<>>) = 0
    OBVIOUS
  <2>2. r = <<>>
    BY <1>0, <1>3
  <2>3. IsSequence(r) /\ Len(r) = 0
    BY <2>1, <2>2 DEF IsSequence
  <2> QED
    BY <1>1, <1>3, <2>2, <2>3 DEF FifoMoved
<1>4. CASE ~flush
  <2>1. IsSequence(r) /\ Len(r) = Len(rest) + push
    <3>1. CASE push = 1
      BY <1>0, <1>2, <1>4, <3>1, AppendCounts
    <3>2. CASE push = 0
      BY <1>0, <1>2, <1>4, <3>2
    <3> QED
      BY <3>1, <3>2
  <2>2. r = <<>> <=> Len(r) = 0
    BY <2>1, Counts
  <2> HIDE DEF IsSequence
  <2>3. Len(r) \in 0 .. depth /\ Len(r) = Len(q) - pop + push
    BY <1>1, <1>2, <2>1
  <2>4. Len(q) > pop => r # <<>> /\ (Len(rest) \in {0, depth} => Len(r) = depth)
    BY <1>1, <1>2, <2>1, <2>2, <2>3
  <2>5. q = <<>> => r = <<>> \/ (Len(rest) \in {0, depth} /\ Len(r) # depth)
    BY <1>1, <1>2, <2>1, <2>2, <2>3
  <2> QED
    BY <1>1, <1>4, <2>1, <2>3, <2>4, <2>5 DEF FifoMoved
<1> QED
  BY <1>3, <1>4

LEMMA XEdge ==
    ASSUME XFifoDepth \in Nat, XFifoDepth >= 2, xFifo!TypeOK, NEW flush \in BOOLEAN,
           NEW pushValid, NEW payload, NEW popReady,
           xFifo!Clock(flush, pushValid, payload, popReady),
           NEW pop \in {0, 1}, pop = 1 <=> popReady /\ xFifo!PopValid,
           NEW push \in {0, 1}, push = 1 <=> pushValid /\ xFifo!PushReady
    PROVE  /\ xFifo!TypeOK'
           /\ Len(xQueue) \in 0 .. XFifoDepth /\ Len(xQueue') \in 0 .. XFifoDepth
           /\ flush => xQueue' = <<>> /\ ~xFifo!PopValid'
           /\ ~flush =>
                  /\ Len(xQueue') = Len(xQueue) - pop + push
                  /\ Len(xQueue) > pop => xFifo!PopValid'
           /\ xQueue = <<>> => ~xFifo!PopValid'
<1> DEFINE rest == Len(Popped(xQueue, pop))
<1>1. xQueue' = Edged(xQueue, pop, push, payload, flush)
  BY DEF xFifo!Clock, Edged, Moved, Popped
<1>2. xDrained' <=> flush \/ rest \in {0, XFifoDepth}
  BY DEF xFifo!Clock, Popped
<1>3. IsSequence(xQueue) /\ Len(xQueue) <= XFifoDepth
  BY DEF xFifo!TypeOK, xFifo!IsSequence, IsSequence
<1>4. (pop = 1 => xQueue # <<>>) /\ (push = 1 => Len(xQueue) < XFifoDepth)
  BY DEF xFifo!PopValid, xFifo!PushReady
<1>5. FifoMoved(XFifoDepth, xQueue, pop, push, flush, rest,
                Edged(xQueue, pop, push, payload, flush))
  BY <1>3, <1>4, FifoEdge
<1> HIDE DEF rest
<1>6. FifoMoved(XFifoDepth, xQueue, pop, push, flush, rest, xQueue')
  BY <1>1, <1>5
<1>7. xFifo!TypeOK'
  BY <1>6 DEF FifoMoved, xFifo!TypeOK, xFifo!IsSequence, IsSequence
<1>8. /\ flush => ~xFifo!PopValid'
      /\ ~flush /\ Len(xQueue) > pop => xFifo!PopValid'
      /\ xQueue = <<>> => ~xFifo!PopValid'
  BY <1>2, <1>6 DEF FifoMoved, xFifo!PopValid
<1> QED
  BY <1>6, <1>7, <1>8 DEF FifoMoved

LEMMA ZEdge ==
    ASSUME ZFifoDepth \in Nat, ZFifoDepth >= 2, zFifo!TypeOK, NEW flush \in BOOLEAN,
           NEW pushValid, NEW payload, NEW popReady,
           zFifo!Clock(flush, pushValid, payload, popReady),
           NEW pop \in {0, 1}, pop = 1 <=> popReady /\ zFifo!PopValid,
           NEW push \in {0, 1}, push = 1 <=> pushValid /\ zFifo!PushReady
    PROVE  /\ zFifo!TypeOK'
           /\ Len(zQueue) \in 0 .. ZFifoDepth /\ Len(zQueue') \in 0 .. ZFifoDepth
           /\ flush => zQueue' = <<>> /\ ~zFifo!PopValid'
           /\ ~flush =>
                  /\ Len(zQueue') = Len(zQueue) - pop + push
                  /\ Len(zQueue) > pop => zFifo!PopValid'
           /\ zQueue = <<>> => ~zFifo!PopValid'
<1> DEFINE rest == Len(Popped(zQueue, pop))
<1>1. zQueue' = Edged(zQueue, pop, push, payload, flush)
  BY DEF zFifo!Clock, Edged, Moved, Popped
<1>2. zDrained' <=> flush \/ rest \in {0, ZFifoDepth}
  BY DEF zFifo!Clock, Popped
<1>3. IsSequence(zQueue) /\ Len(zQueue) <= ZFifoDepth
  BY DEF zFifo!TypeOK, zFifo!IsSequence, IsSequence
<1>4. (pop = 1 => zQueue # <<>>) /\ (push = 1 => Len(zQueue) < ZFifoDepth)
  BY DEF zFifo!PopValid, zFifo!PushReady
<1>5. FifoMoved(ZFifoDepth, zQueue, pop, push, flush, rest,
                Edged(zQueue, pop, push, payload, flush))
  BY <1>3, <1>4, FifoEdge
<1> HIDE DEF rest
<1>6. FifoMoved(ZFifoDepth, zQueue, pop, push, flush, rest, zQueue')
  BY <1>1, <1>5
<1>7. zFifo!TypeOK'
  BY <1>6 DEF FifoMoved, zFifo!TypeOK, zFifo!IsSequence, IsSequence
<1>8. /\ flush => ~zFifo!PopValid'
      /\ ~flush /\ Len(zQueue) > pop => zFifo!PopValid'
      /\ zQueue = <<>> => ~zFifo!PopValid'
  BY <1>2, <1>6 DEF FifoMoved, zFifo!PopValid
<1> QED
  BY <1>6, <1>7, <1>8 DEF FifoMoved

-----------------------------------------------------------------------------
(* Arbitrary traffic on the bus: every command is one Cycle of the hardware.   *)

\* A cycle in which a word has been popped leaves the serialiser at the start
\* of a word, and one in which none has leaves the word where it is.
TrafficInv ==
    /\ xFifo!TypeOK
    /\ counter \in 0 .. 3 /\ state \in States
    /\ state = "boot" => xQueue = <<>>
    /\ WindowInit => ~xFifo!PopValid
    /\ counter # 0 => xFifo!PopValid \/ WindowInit

\* Whatever the bus does, it is a cycle of the hardware.
LEMMA TrafficIsCycle ==
    ASSUME Traffic
    PROVE  \E init \in BOOLEAN, xWrite \in BOOLEAN, zRead \in BOOLEAN :
              \E word, yWrite : Cycle(init, xWrite, word, yWrite, zRead)
  BY DEF Traffic, Idle, WriteInit, WriteRowBuffer, WriteChannels, WriteX, ReadZ, WriteY

LEMMA TrafficInvInit == PowerUp => TrafficInv
<1> SUFFICES ASSUME PowerUp PROVE TrafficInv
  OBVIOUS
<1>1. xQueue = <<>> /\ counter = 0 /\ state = "boot"
  BY DEF PowerUp, xFifo!Reset, Reset, ser32to8!Reset
<1>2. <<>> \in Seq({}) /\ Len(<<>>) = 0
  OBVIOUS
<1> QED
  BY <1>1, <1>2, FifoDepthAssumption
     DEF TrafficInv, States, xFifo!TypeOK, xFifo!IsSequence, xFifo!PopValid, WindowInit

LEMMA TrafficInvCycle ==
    ASSUME TrafficInv, NEW init \in BOOLEAN, NEW xWrite \in BOOLEAN, NEW zRead \in BOOLEAN,
           NEW word, NEW yWrite, Cycle(init, xWrite, word, yWrite, zRead)
    PROVE  TrafficInv'
<1> DEFINE pop == IF XReady /\ xFifo!PopValid THEN 1 ELSE 0
           push == IF xWrite /\ xFifo!PushReady THEN 1 ELSE 0
<1>8. /\ pop \in {0, 1} /\ (pop = 1 <=> XReady /\ xFifo!PopValid)
      /\ push \in {0, 1} /\ (push = 1 <=> xWrite /\ xFifo!PushReady)
  OBVIOUS
<1> HIDE DEF pop, push
<1>1. /\ xFifo!TypeOK'
      /\ Len(xQueue) \in 0 .. XFifoDepth
      /\ init => xQueue' = <<>> /\ ~xFifo!PopValid'
      /\ ~init /\ Len(xQueue) > pop => xFifo!PopValid'
      /\ xQueue = <<>> => ~xFifo!PopValid'
  BY <1>8, FifoDepthAssumption, XEdge DEF TrafficInv, Cycle
<1>2. state' = StateNext(init, outChannelCount, zFifo!PushReady)
  BY DEF Cycle, Clock, Fsm
<1>3. state' \in States \ {"boot"} /\ (state' = "sInit" <=> init \/ state = "boot")
  BY <1>2 DEF TrafficInv, States, StateNext
<1>4. WindowInit' => ~xFifo!PopValid'
  BY <1>1, <1>3 DEF TrafficInv, WindowInit
<1>5. counter' = IF ~xFifo!PopValid THEN 0
                 ELSE IF PixelReady THEN (counter + 1) % 4 ELSE counter
  BY DEF Cycle, Clock, ser32to8!Clock
<1>6. counter' \in 0 .. 3
  BY <1>5 DEF TrafficInv
<1>7. ASSUME counter' # 0, ~WindowInit' PROVE xFifo!PopValid'
  <2>1. xFifo!PopValid /\ ~init
    BY <1>3, <1>5, <1>7 DEF WindowInit
  <2>2. ~XReady
    BY <1>5, <1>7, <2>1 DEF XReady, ser32to8!InputReady
  <2>3. pop = 0 /\ Len(xQueue) > 0
    BY <1>1, <1>8, <2>1, <2>2, XCounts DEF TrafficInv, xFifo!PopValid, xFifo!TypeOK
  <2> QED
    BY <1>1, <2>1, <2>3
<1> QED
  BY <1>1, <1>3, <1>4, <1>6, <1>7 DEF TrafficInv

\* The invariant is inductive.
LEMMA TrafficInvariant == TrafficSpec => []TrafficInv
<1>1. TrafficInv /\ [Traffic]_hardware => TrafficInv'
  <2>1. CASE Traffic
    BY <2>1, TrafficIsCycle, TrafficInvCycle
  <2>2. CASE UNCHANGED hardware
    BY <2>2 DEF hardware, ctlrRegs, busRegs, TrafficInv, xFifo!TypeOK, xFifo!PopValid, WindowInit
  <2> QED
    BY <2>1, <2>2
<1> QED
  BY <1>1, TrafficInvInit, PTL DEF TrafficSpec

\* A restart of the window buffer never meets a pixel, whatever the commands
\* before it were and whatever the sizes.
THEOREM NoPixelWhileInitCorrect == TrafficSpec => []NoPixelWhileInit
<1>1. TrafficInv => NoPixelWhileInit
  BY DEF TrafficInv, NoPixelWhileInit
<1> QED
  BY <1>1, TrafficInvariant, PTL

\* The serialiser never applies its position in one word to another.
THEOREM WordAlignedCorrect == TrafficSpec => []WordAligned
<1>1. TrafficInv => WordAligned
  BY DEF TrafficInv, WordAligned
<1> QED
  BY <1>1, TrafficInvariant, PTL

\* No result is dropped or changed for want of room behind the pipeline, for
\* every number of stages.
THEOREM ResultHeldCorrect == TrafficSpec => ResultHeld
<1>1. ASSUME Traffic, ZValid, ~zFifo!PushReady
      PROVE  ZValid' /\ ZPayload' = ZPayload
  <2>1. stage' = [i \in 1 .. Stages |->
                     IF mac8x9!Loads(i, zFifo!PushReady)
                     THEN IF i = 1 THEN Cmd ELSE stage[i - 1] ELSE stage[i]]
    BY <1>1, TrafficIsCycle DEF Cycle, Clock, mac8x9!Clock
  <2>2. ~mac8x9!Loads(Stages, zFifo!PushReady)
    BY <1>1, PipelineAssumption DEF mac8x9!Loads, ZValid, mac8x9!RspValid
  <2>3. stage'[Stages] = stage[Stages]
    BY <2>1, <2>2, PipelineAssumption
  <2> QED
    BY <1>1, <2>3 DEF ZValid, ZPayload, mac8x9!RspValid, mac8x9!RspPayload
<1>2. [Traffic]_hardware => [ZValid /\ ~zFifo!PushReady => ZValid' /\ ZPayload' = ZPayload]_hardware
  BY <1>1
<1> QED
  BY <1>2, PTL DEF TrafficSpec, ResultHeld

-----------------------------------------------------------------------------
(* The FIFOs, under any traffic. *)

FifosOK == xFifo!TypeOK /\ zFifo!TypeOK

\* Words that leave the X FIFO and results that enter the Z FIFO in a cycle
\* without init.
XPop == IF XReady /\ xFifo!PopValid THEN 1 ELSE 0
ZPush == IF ZValid /\ zFifo!PushReady THEN 1 ELSE 0

\* What a cycle of the hardware does to the FIFOs; push and pop are the words
\* that the bus writes and reads in it.
LEMMA CycleFifos ==
    ASSUME FifosOK, NEW init \in BOOLEAN, NEW xWrite \in BOOLEAN,
           NEW zRead \in BOOLEAN, NEW word, NEW yWrite,
           Cycle(init, xWrite, word, yWrite, zRead),
           NEW push \in {0, 1}, push = 1 <=> xWrite /\ xFifo!PushReady,
           NEW pop \in {0, 1}, pop = 1 <=> zRead /\ zFifo!PopValid
    PROVE  /\ FifosOK' /\ XPop \in {0, 1} /\ ZPush \in {0, 1}
           /\ Len(xQueue) \in Nat /\ Len(xQueue') \in Nat
           /\ Len(zQueue) \in Nat /\ Len(zQueue') \in Nat
           /\ Len(xQueue) <= XFifoDepth /\ Len(zQueue) <= ZFifoDepth
           /\ init => /\ xQueue' = <<>> /\ Len(xQueue') = 0 /\ ~xFifo!PopValid'
                      /\ zQueue' = <<>> /\ Len(zQueue') = 0
           /\ ~init =>
                 /\ Len(xQueue') = Len(xQueue) - XPop + push
                 /\ Len(zQueue') = Len(zQueue) - pop + ZPush
                 /\ Len(xQueue) > XPop => xFifo!PopValid'
                 /\ Len(zQueue) > pop => zFifo!PopValid'
           /\ xQueue = <<>> => ~xFifo!PopValid'
<1>1. /\ XFifoDepth \in Nat /\ XFifoDepth >= 2 /\ ZFifoDepth \in Nat /\ ZFifoDepth >= 2
      /\ xFifo!Clock(init, xWrite, word, XReady)
      /\ zFifo!Clock(init, ZValid, ZPayload, zRead)
      /\ xFifo!TypeOK /\ zFifo!TypeOK
  BY FifoDepthAssumption DEF Cycle, FifosOK
<1>2. /\ XPop \in {0, 1} /\ (XPop = 1 <=> XReady /\ xFifo!PopValid)
      /\ ZPush \in {0, 1} /\ (ZPush = 1 <=> ZValid /\ zFifo!PushReady)
  BY DEF XPop, ZPush
<1>3. /\ xFifo!TypeOK'
      /\ Len(xQueue) \in 0 .. XFifoDepth /\ Len(xQueue') \in 0 .. XFifoDepth
      /\ init => xQueue' = <<>> /\ ~xFifo!PopValid'
      /\ ~init => /\ Len(xQueue') = Len(xQueue) - XPop + push
                  /\ Len(xQueue) > XPop => xFifo!PopValid'
      /\ xQueue = <<>> => ~xFifo!PopValid'
  BY <1>1, <1>2, XEdge
<1>4. /\ zFifo!TypeOK'
      /\ Len(zQueue) \in 0 .. ZFifoDepth /\ Len(zQueue') \in 0 .. ZFifoDepth
      /\ init => zQueue' = <<>>
      /\ ~init => /\ Len(zQueue') = Len(zQueue) - pop + ZPush
                  /\ Len(zQueue) > pop => zFifo!PopValid'
  BY <1>1, <1>2, ZEdge
<1>5. (xQueue' = <<>> => Len(xQueue') = 0) /\ (zQueue' = <<>> => Len(zQueue') = 0)
  BY <1>3, <1>4, XCounts, ZCounts DEF xFifo!TypeOK, zFifo!TypeOK
<1>6. /\ Len(xQueue) \in Nat /\ Len(xQueue') \in Nat /\ Len(xQueue) <= XFifoDepth
      /\ Len(zQueue) \in Nat /\ Len(zQueue') \in Nat /\ Len(zQueue) <= ZFifoDepth
  BY <1>1, <1>3, <1>4
<1> QED
  BY <1>2, <1>3, <1>4, <1>5, <1>6 DEF FifosOK

-----------------------------------------------------------------------------
(* The driver's credit and its knowledge of results.                       *)

\* Both only fall behind what the FIFOs really offer.
StatusInv == FifosOK /\ credit \in Nat /\ ready \in Nat /\ WritesFit /\ ReadsSucceed

\* A cycle in which the driver's view stays as it is, or is brought up to date.
LEMMA QuietCycle ==
    ASSUME StatusInv, NEW yWrite, Cycle(FALSE, FALSE, Garbage, yWrite, FALSE),
           \/ credit' = credit /\ ready' = ready
           \/ credit' = StatusAvailability /\ ready' = StatusOccupancy
    PROVE  StatusInv'
<1>1. /\ FifosOK' /\ XPop \in {0, 1} /\ ZPush \in {0, 1}
      /\ Len(xQueue) \in Nat /\ Len(xQueue') \in Nat
      /\ Len(zQueue) \in Nat /\ Len(zQueue') \in Nat
      /\ Len(xQueue) <= XFifoDepth
      /\ Len(xQueue') = Len(xQueue) - XPop + 0
      /\ Len(zQueue') = Len(zQueue) - 0 + ZPush
      /\ Len(zQueue) > 0 => zFifo!PopValid'
  <2>1. /\ FifosOK /\ FALSE \in BOOLEAN /\ 0 \in {0, 1}
        /\ 0 = 1 <=> FALSE /\ xFifo!PushReady
        /\ 0 = 1 <=> FALSE /\ zFifo!PopValid
    BY DEF StatusInv
  <2> QED
    BY <2>1, CycleFifos
<1>2. \/ credit' = credit /\ ready' = ready
      \/ credit' = XFifoDepth - Len(xQueue) /\ ready' = Len(zQueue)
  BY DEF StatusAvailability, StatusOccupancy, xFifo!Availability, zFifo!Occupancy
<1>3. XFifoDepth \in Nat
  BY FifoDepthAssumption
<1>4. credit \in Nat /\ ready \in Nat /\ credit <= XFifoDepth - Len(xQueue)
      /\ (ready > 0 => ready <= Len(zQueue))
  BY DEF StatusInv, WritesFit, ReadsSucceed
<1>5. credit' \in Nat /\ ready' \in Nat
  BY <1>1, <1>2, <1>3, <1>4
<1>6. credit' <= XFifoDepth - Len(xQueue')
  BY <1>1, <1>2, <1>3, <1>4
<1>7. ready' > 0 => Len(zQueue) > 0 /\ ready' <= Len(zQueue')
  BY <1>1, <1>2, <1>4
<1> QED
  BY <1>1, <1>5, <1>6, <1>7 DEF StatusInv, WritesFit, ReadsSucceed

\* init empties both FIFOs and the driver forgets what it knew.
LEMMA StartCycle ==
    ASSUME StatusInv, StartRun
    PROVE  StatusInv'
<1>1. Cycle(TRUE, FALSE, Garbage, NoWrite, FALSE) /\ credit' = 0 /\ ready' = 0
  BY DEF StartRun, WriteInit
<1>2. FifosOK' /\ Len(xQueue') = 0
  <2>1. /\ FifosOK /\ TRUE \in BOOLEAN /\ FALSE \in BOOLEAN /\ 0 \in {0, 1}
        /\ 0 = 1 <=> FALSE /\ xFifo!PushReady
        /\ 0 = 1 <=> FALSE /\ zFifo!PopValid
    BY DEF StatusInv
  <2> QED
    BY <1>1, <2>1, CycleFifos
<1> QED
  BY <1>1, <1>2, FifoDepthAssumption DEF StatusInv, WritesFit, ReadsSucceed

\* A word that is covered by the credit finds room.
LEMMA SendCycle ==
    ASSUME StatusInv, SendWord
    PROVE  /\ StatusInv'
           /\ Len(xQueue') = Len(xQueue) - XPop + 1
           /\ Len(zQueue') = Len(zQueue) + ZPush
           /\ Len(xQueue') \in Nat /\ Len(zQueue') \in Nat
           /\ Len(xQueue) \in Nat /\ Len(zQueue) \in Nat
           /\ XPop \in {0, 1} /\ ZPush \in {0, 1}
           /\ Len(xQueue) > XPop => xFifo!PopValid'
           /\ xQueue = <<>> => ~xFifo!PopValid'
<1> DEFINE word == promise!Word(words + 1)
<1>1. /\ Cycle(FALSE, TRUE, word, NoWrite, FALSE)
      /\ credit > 0 /\ credit' = credit - 1 /\ ready' = ready
  BY DEF SendWord, WriteX
<1>2. /\ XFifoDepth \in Nat /\ credit \in Nat /\ ready \in Nat
      /\ credit <= XFifoDepth - Len(xQueue)
      /\ ready > 0 => ready <= Len(zQueue)
  BY FifoDepthAssumption DEF StatusInv, WritesFit, ReadsSucceed
<1>3. FifosOK /\ Len(xQueue) \in Nat
  BY XCounts DEF StatusInv, FifosOK, xFifo!TypeOK
<1>4. xFifo!PushReady
  BY <1>1, <1>2, <1>3 DEF xFifo!PushReady
<1>5. /\ TRUE \in BOOLEAN /\ FALSE \in BOOLEAN /\ 0 \in {0, 1} /\ 1 \in {0, 1}
      /\ 1 = 1 <=> TRUE /\ xFifo!PushReady
      /\ 0 = 1 <=> FALSE /\ zFifo!PopValid
  BY <1>4
<1> HIDE DEF word
<1>6. /\ FifosOK' /\ XPop \in {0, 1} /\ ZPush \in {0, 1}
      /\ Len(xQueue') \in Nat /\ Len(zQueue) \in Nat /\ Len(zQueue') \in Nat
      /\ Len(xQueue') = Len(xQueue) - XPop + 1
      /\ Len(zQueue') = Len(zQueue) - 0 + ZPush
      /\ Len(xQueue) > XPop => xFifo!PopValid'
      /\ Len(zQueue) > 0 => zFifo!PopValid'
      /\ xQueue = <<>> => ~xFifo!PopValid'
  BY <1>1, <1>3, <1>5, CycleFifos
<1>7. credit' \in Nat /\ ready' \in Nat /\ credit' <= XFifoDepth - Len(xQueue')
  BY <1>1, <1>2, <1>3, <1>6
<1>8. ready' > 0 => Len(zQueue) > 0 /\ ready' <= Len(zQueue')
  BY <1>1, <1>2, <1>6
<1>9. StatusInv'
  BY <1>6, <1>7, <1>8 DEF StatusInv, WritesFit, ReadsSucceed
<1>10. Len(zQueue') = Len(zQueue) + ZPush
  BY <1>6
<1> QED
  BY <1>3, <1>6, <1>9, <1>10

\* A result that the driver knows of can be popped.
LEMMA ReceiveCycle ==
    ASSUME StatusInv, ReceiveResult
    PROVE  /\ StatusInv'
           /\ Len(xQueue') = Len(xQueue) - XPop
           /\ Len(zQueue') = Len(zQueue) - 1 + ZPush
           /\ Len(xQueue') \in Nat /\ Len(zQueue') \in Nat
           /\ Len(xQueue) \in Nat /\ Len(zQueue) \in Nat
           /\ XPop \in {0, 1} /\ ZPush \in {0, 1}
           /\ Len(xQueue) > XPop => xFifo!PopValid'
           /\ xQueue = <<>> => ~xFifo!PopValid'
<1>1. /\ Cycle(FALSE, FALSE, Garbage, NoWrite, TRUE)
      /\ ready > 0 /\ ready' = ready - 1 /\ credit' = credit
  BY DEF ReceiveResult, ReadZ
<1>2. /\ XFifoDepth \in Nat /\ credit \in Nat /\ ready \in Nat
      /\ credit <= XFifoDepth - Len(xQueue)
      /\ ready <= Len(zQueue) /\ zFifo!PopValid
  BY <1>1, FifoDepthAssumption DEF StatusInv, WritesFit, ReadsSucceed
<1>3. /\ FifosOK /\ TRUE \in BOOLEAN /\ FALSE \in BOOLEAN /\ 0 \in {0, 1} /\ 1 \in {0, 1}
      /\ 0 = 1 <=> FALSE /\ xFifo!PushReady
      /\ 1 = 1 <=> TRUE /\ zFifo!PopValid
  BY <1>2 DEF StatusInv
<1>4. /\ FifosOK' /\ XPop \in {0, 1} /\ ZPush \in {0, 1}
      /\ Len(xQueue) \in Nat /\ Len(xQueue') \in Nat
      /\ Len(zQueue) \in Nat /\ Len(zQueue') \in Nat
      /\ Len(xQueue') = Len(xQueue) - XPop + 0
      /\ Len(zQueue') = Len(zQueue) - 1 + ZPush
      /\ Len(xQueue) > XPop => xFifo!PopValid'
      /\ Len(zQueue) > 1 => zFifo!PopValid'
      /\ xQueue = <<>> => ~xFifo!PopValid'
  BY <1>1, <1>3, CycleFifos
<1>5. credit' \in Nat /\ ready' \in Nat /\ credit' <= XFifoDepth - Len(xQueue')
  BY <1>1, <1>2, <1>4
<1>6. ready' > 0 => Len(zQueue) > 1 /\ ready' <= Len(zQueue')
  BY <1>1, <1>2, <1>4
<1>7. StatusInv'
  BY <1>4, <1>5, <1>6 DEF StatusInv, WritesFit, ReadsSucceed
<1>8. Len(xQueue') = Len(xQueue) - XPop
  BY <1>4
<1> QED
  BY <1>4, <1>7, <1>8

LEMMA InitStatus == Init => StatusInv
<1> SUFFICES ASSUME Init PROVE StatusInv
  OBVIOUS
<1>1. xQueue = <<>> /\ zQueue = <<>> /\ credit = 0 /\ ready = 0
  BY DEF Init, PowerUp, xFifo!Reset, zFifo!Reset
<1>2. <<>> \in Seq({}) /\ Len(<<>>) = 0
  OBVIOUS
<1>3. FifosOK
  BY <1>1, <1>2, FifoDepthAssumption
     DEF FifosOK, xFifo!TypeOK, zFifo!TypeOK, xFifo!IsSequence, zFifo!IsSequence
<1> QED
  BY <1>1, <1>2, <1>3, FifoDepthAssumption DEF StatusInv, WritesFit, ReadsSucceed

LEMMA NextStatus == StatusInv /\ [Next]_vars => StatusInv'
<1> SUFFICES ASSUME StatusInv, [Next]_vars PROVE StatusInv'
  OBVIOUS
<1>1. CASE ConfigureRows \/ ConfigureChannels \/ Pause \/ Poll
  BY <1>1, QuietCycle
     DEF ConfigureRows, WriteRowBuffer, ConfigureChannels, WriteChannels, Pause, Poll,
         Idle, driver
<1>2. CASE LoadKernel
  BY <1>2, QuietCycle DEF LoadKernel, WriteY
<1>3. CASE StartRun
  BY <1>3, StartCycle
<1>4. CASE SendWord
  BY <1>4, SendCycle
<1>5. CASE ReceiveResult
  BY <1>5, ReceiveCycle
<1>6. CASE UNCHANGED vars
  BY <1>6 DEF vars, busRegs, driver, StatusInv, FifosOK, WritesFit, ReadsSucceed,
     xFifo!TypeOK, zFifo!TypeOK, zFifo!PopValid
<1> QED
  BY <1>1, <1>2, <1>3, <1>4, <1>5, <1>6 DEF Next

LEMMA InductiveStatus == Spec => []StatusInv
  BY InitStatus, NextStatus, PTL DEF Spec

\* A driver that writes X only by the last status never loses a word, whether
\* or not it waits for the last results before a new run.
THEOREM WritesFitCorrect == Spec => []WritesFit
<1>1. StatusInv => WritesFit
  BY DEF StatusInv
<1> QED
  BY <1>1, InductiveStatus, PTL

\* A driver that reads Z only by the last status always gets a result.
THEOREM ReadsSucceedCorrect == Spec => []ReadsSucceed
<1>1. StatusInv => ReadsSucceed
  BY DEF StatusInv
<1> QED
  BY <1>1, InductiveStatus, PTL

-----------------------------------------------------------------------------
(* The number of commands in the MAC pipeline.                             *)

\* The commands in the registers from m on.
Behind(m) == {k \in m .. Stages : stage[k] # NoCommand}

LEMMA BehindFinite ==
    ASSUME NEW m \in 1 .. Stages
    PROVE  /\ IsFiniteSet(Behind(m)) /\ IsFiniteSet(Behind(m)')
           /\ Cardinality(Behind(m)) \in Nat /\ Cardinality(Behind(m)') \in Nat
<1>1. m \in Int /\ Stages \in Int /\ IsFiniteSet(m .. Stages)
  BY PipelineAssumption, FS_Interval
<1>2. Behind(m) \subseteq m .. Stages /\ Behind(m)' \subseteq m .. Stages
  BY DEF Behind
<1> QED
  BY <1>1, <1>2, FS_Subset, FS_CardinalityType

\* One clock edge adds to the registers from m on the command that comes in
\* there and removes the result that is got: register i takes over from O(i),
\* itself or the one before it, which pairs the other commands before the edge
\* with those after it.
LEMMA PipelineTail ==
    ASSUME NEW cmd, NEW r \in BOOLEAN, mac8x9!Clock(cmd, r), NEW m \in 1 .. Stages,
           NEW put \in {0, 1},
           put = 1 <=> /\ mac8x9!Loads(m, r)
                       /\ (IF m = 1 THEN cmd ELSE stage[m - 1]) # NoCommand,
           NEW got \in {0, 1}, got = 1 <=> stage[Stages] # NoCommand /\ r
    PROVE  Cardinality(Behind(m)') = Cardinality(Behind(m)) + put - got
<1> DEFINE Stage == 1 .. Stages
           L(i) == r \/ \E k \in i .. Stages : stage[k] = NoCommand
           O(i) == IF L(i) THEN i - 1 ELSE i
           A == {i \in Behind(m)' : O(i) # m - 1}
           B == IF got = 1 THEN Behind(m) \ {Stages} ELSE Behind(m)
           F == [i \in A |-> O(i)]
<1>1. /\ Stages \in Nat /\ Stages >= 1 /\ Stages \in Stage /\ 1 \in Stage /\ m \in Stage
      /\ m \in Int /\ 1 <= m /\ m <= Stages
  BY PipelineAssumption
<1>2. stage' = [i \in Stage |-> IF L(i) THEN IF i = 1 THEN cmd ELSE stage[i - 1]
                                        ELSE stage[i]]
  BY DEF mac8x9!Clock, mac8x9!Loads
<1>3. \A i \in Stage : stage'[i] = IF O(i) = 0 THEN cmd ELSE stage[O(i)]
  BY <1>1, <1>2
<1>4. \A i, j \in Stage : i <= j /\ L(j) => L(i)
  BY <1>1
<1>5. \A i \in Stage : L(i) /\ stage[i] # NoCommand =>
                          (i = Stages /\ r) \/ (i + 1 \in Stage /\ L(i + 1))
  BY <1>1
<1>6. \A i, j \in Stage : i < j => O(i) < O(j)
  BY <1>1, <1>4
<1>7. /\ Behind(m) = {i \in Stage : m <= i /\ stage[i] # NoCommand}
      /\ Behind(m)' = {i \in Stage : m <= i /\ stage'[i] # NoCommand}
  BY <1>1 DEF Behind
<1>8. mac8x9!Loads(m, r) <=> L(m)
  BY DEF mac8x9!Loads
<1> HIDE DEF L
<1>9. F \in Bijection(A, B)
  <2>1. \A i \in A : O(i) \in B
    <3> SUFFICES ASSUME NEW i \in A PROVE O(i) \in B
      OBVIOUS
    <3>0. i \in Stage /\ m <= i /\ O(i) # m - 1 /\ stage'[i] # NoCommand
      BY <1>7
    <3>1. O(i) \in Stage /\ m <= O(i) /\ stage[O(i)] # NoCommand
      BY <1>1, <1>3, <3>0
    <3>2. ASSUME got = 1 PROVE O(i) # Stages
      BY <1>1, <3>0, <3>1, <3>2 DEF L
    <3> QED
      BY <1>7, <3>1, <3>2
  <2>2. \A i, j \in A : O(i) = O(j) => i = j
    <3> SUFFICES ASSUME NEW i \in A, NEW j \in A, i # j PROVE O(i) # O(j)
      OBVIOUS
    <3>1. i \in Stage /\ j \in Stage /\ O(i) \in Int /\ O(j) \in Int
      BY <1>1, <1>7
    <3> QED
      BY <1>1, <1>6, <3>1
  <2>3. \A k \in B : \E i \in A : O(i) = k
    <3> SUFFICES ASSUME NEW k \in B PROVE \E i \in A : O(i) = k
      OBVIOUS
    <3>1. k \in Stage /\ m <= k /\ stage[k] # NoCommand /\ ~(k = Stages /\ r)
      BY <1>1, <1>7
    <3>2. PICK i \in Stage : O(i) = k /\ m <= i
      <4>1. CASE L(k)
        BY <1>1, <1>5, <3>1, <4>1
      <4>2. CASE ~L(k)
        BY <3>1, <4>2
      <4> QED
        BY <4>1, <4>2
    <3>3. O(i) # 0 /\ O(i) # m - 1
      BY <1>1, <3>1, <3>2
    <3> QED
      BY <1>1, <1>3, <1>7, <3>1, <3>2, <3>3
  <2> HIDE DEF O, A, B
  <2> QED
    BY <2>1, <2>2, <2>3 DEF Bijection, Injection, Surjection, IsInjective
<1>10. /\ put = 1 => Behind(m)' = A \cup {m} /\ m \notin A
       /\ put = 0 => Behind(m)' = A
  <2>1. \A i \in Stage : m <= i => (O(i) = m - 1 <=> i = m /\ L(m))
    BY <1>1
  <2>2. put = 1 <=> stage'[m] # NoCommand /\ L(m)
    BY <1>1, <1>2, <1>8
  <2>3. \A i \in Behind(m)' : i \notin A => i = m /\ put = 1
    BY <1>7, <2>1, <2>2
  <2>4. put = 1 => m \in Behind(m)' /\ m \notin A
    BY <1>1, <1>7, <2>1, <2>2
  <2>5. A \subseteq Behind(m)'
    OBVIOUS
  <2> QED
    BY <2>3, <2>4, <2>5
<1>11. /\ got = 1 => B = Behind(m) \ {Stages} /\ Stages \in Behind(m)
       /\ got = 0 => B = Behind(m)
  BY <1>1, <1>7
<1> HIDE DEF A, B, F
<1>12. /\ IsFiniteSet(Behind(m)) /\ IsFiniteSet(Behind(m)')
       /\ Cardinality(Behind(m)) \in Nat /\ Cardinality(Behind(m)') \in Nat
  BY BehindFinite
<1>13. IsFiniteSet(A) /\ IsFiniteSet(B)
  BY <1>10, <1>11, <1>12, FS_RemoveElement, FS_Subset DEF A, B
<1>14. Cardinality(B) = Cardinality(A)
  BY <1>9, <1>13, FS_Bijection DEF ExistsBijection
<1>15. Cardinality(Behind(m)') = Cardinality(A) + put
  BY <1>10, <1>13, FS_AddElement, FS_CardinalityType
<1>16. Cardinality(B) = Cardinality(Behind(m)) - got
  BY <1>11, <1>12, FS_RemoveElement, FS_CardinalityType
<1> QED
  BY <1>12, <1>14, <1>15, <1>16

LEMMA AllBehind == Occupied = Behind(1) /\ Occupied' = Behind(1)'
  BY DEF Occupied, Behind

\* One clock edge adds the command that is put in and removes the result that
\* is got.
LEMMA PipelineCount ==
    ASSUME NEW cmd, NEW r \in BOOLEAN, mac8x9!Clock(cmd, r),
           NEW put \in {0, 1}, put = 1 <=> cmd # NoCommand /\ mac8x9!CmdReady(r),
           NEW got \in {0, 1}, got = 1 <=> stage[Stages] # NoCommand /\ r
    PROVE  /\ stage' = [i \in 1 .. Stages |-> stage'[i]]
           /\ Cardinality(Occupied) \in Nat /\ Cardinality(Occupied') \in Nat
           /\ Cardinality(Occupied') = Cardinality(Occupied) + put - got
<1>1. 1 \in 1 .. Stages
  BY PipelineAssumption
<1>2. put = 1 <=> /\ mac8x9!Loads(1, r)
                  /\ (IF 1 = 1 THEN cmd ELSE stage[1 - 1]) # NoCommand
  BY DEF mac8x9!CmdReady
<1>3. Cardinality(Behind(1)') = Cardinality(Behind(1)) + put - got
  BY <1>1, <1>2, PipelineTail
<1>4. stage' = [i \in 1 .. Stages |-> stage'[i]]
  BY DEF mac8x9!Clock
<1> QED
  BY <1>1, <1>3, <1>4, AllBehind, BehindFinite

-----------------------------------------------------------------------------
(* One cycle without init, in the numbers the invariant relates.           *)

\* A pixel goes from the serialiser to the window buffer.
Fire == xFifo!PopValid /\ PixelReady

\* A pixel that goes on is one less that waits; a word written is four more.
LEMMA CycleWaiting ==
    ASSUME FifosOK, Aligned, state \in States, NEW xWrite \in BOOLEAN,
           NEW zRead \in BOOLEAN, NEW word, NEW yWrite,
           Cycle(FALSE, xWrite, word, yWrite, zRead),
           NEW push \in {0, 1}, push = 1 <=> xWrite /\ xFifo!PushReady,
           NEW pop \in {0, 1}, pop = 1 <=> zRead /\ zFifo!PopValid,
           state = "boot" => push = 0
    PROVE  /\ Aligned'
           /\ Waiting \in Int /\ Waiting' \in Int
           /\ state \in {"boot", "sInit"} => ~Fire /\ Waiting' = 4 * push
           /\ state \notin {"boot", "sInit"} =>
                  Waiting' = Waiting - (IF Fire THEN 1 ELSE 0) + 4 * push
           /\ Fire => Waiting > 0
           /\ Waiting >= 0 \/ state \in {"boot", "sInit"}
<1>1. FifosOK /\ FALSE \in BOOLEAN
  OBVIOUS
<1>2. /\ XPop \in {0, 1}
      /\ Len(xQueue) \in Nat /\ Len(xQueue') \in Nat
      /\ Len(xQueue') = Len(xQueue) - XPop + push
      /\ Len(xQueue) > XPop => xFifo!PopValid'
      /\ xQueue = <<>> => ~xFifo!PopValid'
  BY <1>1, CycleFifos
<1>3. (xQueue = <<>> <=> Len(xQueue) = 0) /\ (xFifo!PopValid => xQueue # <<>>)
  BY XCounts DEF FifosOK, xFifo!TypeOK, xFifo!PopValid
<1>4. (xQueue' = <<>> <=> Len(xQueue') = 0)
  <2>1. xFifo!TypeOK'
    BY <1>1, CycleFifos DEF FifosOK
  <2> QED
    BY <2>1, XCounts DEF xFifo!TypeOK
<1>5. counter' = IF ~xFifo!PopValid THEN 0
                 ELSE IF PixelReady THEN (counter + 1) % 4 ELSE counter
  BY DEF Cycle, Clock, ser32to8!Clock
<1>6. XPop = IF Fire /\ counter = 3 THEN 1 ELSE 0
  BY DEF XPop, XReady, ser32to8!InputReady, Fire
<1>7. counter \in 0 .. 3 /\ counter' \in 0 .. 3
  BY <1>5 DEF Aligned
<1>8. state' \in States \ {"boot"} /\ (state' = "sInit" <=> state = "boot")
  BY DEF Cycle, Clock, Fsm, StateNext, States
<1>9. state \in {"boot", "sInit"} => Len(xQueue) = 0 /\ ~xFifo!PopValid
  BY <1>3 DEF Aligned
<1>10. state \notin {"boot", "sInit"} => (counter # 0 => xFifo!PopValid)
  BY DEF Aligned, WindowInit
<1>11. Aligned'
  <2>1. state' \in {"boot", "sInit"} => xQueue' = <<>>
    BY <1>2, <1>4, <1>6, <1>8, <1>9 DEF Fire
  <2>2. ASSUME counter' # 0 PROVE xFifo!PopValid'
    <3>1. xFifo!PopValid /\ ~(Fire /\ counter = 3)
      BY <1>5, <1>7, <2>2 DEF Fire
    <3> QED
      BY <1>2, <1>3, <1>6, <3>1
  <2> QED
    BY <1>7, <2>1, <2>2 DEF Aligned
<1>12. Waiting \in Int /\ Waiting' \in Int
  BY <1>2, <1>7 DEF Waiting
<1>13. ASSUME state \in {"boot", "sInit"} PROVE ~Fire /\ Waiting' = 4 * push
  <2>1. ~Fire /\ counter' = 0 /\ Len(xQueue') = push
    BY <1>2, <1>5, <1>6, <1>9, <1>13 DEF Fire
  <2> QED
    BY <2>1 DEF Waiting
<1>14. ASSUME state \notin {"boot", "sInit"}
       PROVE  /\ Waiting' = Waiting - (IF Fire THEN 1 ELSE 0) + 4 * push
              /\ Waiting >= 0
  <2>1. CASE ~xFifo!PopValid
    <3>1. counter = 0 /\ counter' = 0 /\ XPop = 0 /\ ~Fire
      BY <1>5, <1>6, <1>10, <1>14, <2>1 DEF Fire
    <3> QED
      BY <1>2, <3>1 DEF Waiting
  <2>2. CASE xFifo!PopValid
    <3>1. Len(xQueue) >= 1
      BY <1>2, <1>3, <2>2
    <3>2. CASE Fire
      BY <1>2, <1>5, <1>6, <1>7, <2>2, <3>1, <3>2 DEF Waiting, Fire
    <3>3. CASE ~Fire
      BY <1>2, <1>5, <1>6, <1>7, <2>2, <3>1, <3>3 DEF Waiting, Fire
    <3> QED
      BY <3>2, <3>3
  <2> QED
    BY <2>1, <2>2
<1>15. Fire => Waiting > 0
  BY <1>2, <1>3, <1>7 DEF Fire, Waiting
<1> QED
  BY <1>11, <1>12, <1>13, <1>14, <1>15

\* The window buffer and the state machine.
LEMMA CycleMachine ==
    ASSUME TypeOK, NEW xWrite, NEW zRead, NEW word, NEW yWrite,
           Cycle(FALSE, xWrite, word, yWrite, zRead)
    PROVE  /\ delay' \in Nat /\ pendingRsp' \in BOOLEAN
           /\ delay' = IF WindowInit THEN rowBufferInitialDelay
                       ELSE IF Fire /\ delay # 0 THEN delay - 1 ELSE delay
           /\ pendingRsp' <=> \/ Fire /\ delay = 0
                              \/ pendingRsp /\ state # "sGetNext"
           /\ Fire /\ delay = 0 => state = "sGetNext"
           /\ state = "boot" => state' = "sInit"
           /\ state = "sInit" => state' = "sGetNext"
           /\ state = "sGetNext" =>
                  /\ state' = IF pendingRsp THEN "sLoop" ELSE "sGetNext"
                  /\ pendingRsp => yMemAddr' = 0
<1>1. /\ state' = StateNext(FALSE, outChannelCount, zFifo!PushReady)
      /\ yMemAddr' = IF state # "sLoop" /\ state' = "sLoop" THEN 0
                     ELSE IF CmdFire(zFifo!PushReady) THEN (yMemAddr + 1) % YMemDepth
                     ELSE yMemAddr
  BY DEF Cycle, Clock, Fsm
<1>2. Fire <=> windowBuffer3x3!InputFire(xFifo!PopValid, WindowReady)
  BY DEF Fire, PixelReady, windowBuffer3x3!InputFire
<1>3. /\ delay' = IF WindowInit THEN rowBufferInitialDelay
                  ELSE delay - (IF Fire /\ delay # 0 THEN 1 ELSE 0)
      /\ pendingRsp' = \/ Fire /\ delay = 0
                       \/ pendingRsp /\ ~windowBuffer3x3!OutputFire(WindowReady)
  BY <1>2 DEF Cycle, Clock, windowBuffer3x3!Clock, windowBuffer3x3!DelayCounter,
              windowBuffer3x3!PendingRsp
<1>4. windowBuffer3x3!OutputFire(WindowReady) <=> pendingRsp /\ state = "sGetNext"
  BY DEF windowBuffer3x3!OutputFire, WindowReady
<1>5. delay \in Nat /\ rowBufferInitialDelay \in Nat /\ state \in States
  BY DEF TypeOK
<1>6. /\ delay' \in Nat
      /\ delay' = IF WindowInit THEN rowBufferInitialDelay
                  ELSE IF Fire /\ delay # 0 THEN delay - 1 ELSE delay
  BY <1>3, <1>5
<1>7. pendingRsp' \in BOOLEAN /\ (pendingRsp' <=> \/ Fire /\ delay = 0
                                                  \/ pendingRsp /\ state # "sGetNext")
  BY <1>3, <1>4
<1>8. Fire /\ delay = 0 => state = "sGetNext"
  BY DEF Fire, PixelReady, windowBuffer3x3!InputReady, WindowReady
<1>9. /\ state = "boot" => state' = "sInit"
      /\ state = "sInit" => state' = "sGetNext"
      /\ state = "sGetNext" => state' = IF pendingRsp THEN "sLoop" ELSE "sGetNext"
  BY <1>1, <1>4 DEF StateNext, WindowFire
<1>10. state = "sGetNext" /\ pendingRsp => yMemAddr' = 0
  BY <1>1, <1>9
<1> QED
  BY <1>6, <1>7, <1>8, <1>9, <1>10

\* The loop over the channels and the pipeline: the loop puts in one command
\* for each step it takes, and what is got is pushed into the Z FIFO.
LEMMA CycleLoop ==
    ASSUME TypeOK, NEW xWrite, NEW zRead, NEW word, NEW yWrite,
           Cycle(FALSE, xWrite, word, yWrite, zRead)
    PROVE  \E put \in {0, 1} :
              /\ stage' = [i \in 1 .. Stages |-> stage'[i]]
              /\ yMemAddr' \in 0 .. YMemDepth - 1
              /\ Cardinality(Occupied) \in Nat /\ Cardinality(Occupied') \in Nat
              /\ Cardinality(Occupied') = Cardinality(Occupied) + put - ZPush
              /\ put = 1 => state = "sLoop"
              /\ state = "sLoop" =>
                    IF put = 1 /\ LastIteration(outChannelCount)
                    THEN state' = "sGetNext"
                    ELSE /\ state' = "sLoop"
                         /\ yMemAddr' = IF put = 1 THEN (yMemAddr + 1) % YMemDepth
                                                   ELSE yMemAddr
<1>1. /\ state' = StateNext(FALSE, outChannelCount, zFifo!PushReady)
      /\ yMemAddr' = IF state # "sLoop" /\ state' = "sLoop" THEN 0
                     ELSE IF CmdFire(zFifo!PushReady) THEN (yMemAddr + 1) % YMemDepth
                     ELSE yMemAddr
      /\ mac8x9!Clock(Cmd, zFifo!PushReady)
  BY DEF Cycle, Clock, Fsm
<1>2. PICK r \in BOOLEAN : r = zFifo!PushReady
  <2>1. zFifo!PushReady \in BOOLEAN
    BY DEF zFifo!PushReady
  <2> QED
    BY <2>1
<1>3. PICK put \in {0, 1} : put = 1 <=> CmdFire(r)
  <2>1. (IF CmdFire(r) THEN 1 ELSE 0) \in {0, 1}
    OBVIOUS
  <2> QED
    BY <2>1
<1>4. <<mac8x9PayloadReg, Kernel(yMemAddr)>> # NoCommand
  BY DEF NoCommand
<1>5. put = 1 <=> Cmd # NoCommand /\ mac8x9!CmdReady(r)
  BY <1>3, <1>4 DEF CmdFire, CmdValid, Cmd
<1>6. ZPush \in {0, 1} /\ (ZPush = 1 <=> stage[Stages] # NoCommand /\ r)
  BY <1>2 DEF ZPush, ZValid, mac8x9!RspValid
<1>7. mac8x9!Clock(Cmd, r)
  BY <1>1, <1>2
<1>8. /\ stage' = [i \in 1 .. Stages |-> stage'[i]]
      /\ Cardinality(Occupied) \in Nat /\ Cardinality(Occupied') \in Nat
      /\ Cardinality(Occupied') = Cardinality(Occupied) + put - ZPush
  BY <1>5, <1>6, <1>7, PipelineCount
<1>9. put = 1 => state = "sLoop"
  BY <1>3 DEF CmdFire, CmdValid
<1>10. /\ state' = StateNext(FALSE, outChannelCount, r)
       /\ yMemAddr' = IF state # "sLoop" /\ state' = "sLoop" THEN 0
                      ELSE IF put = 1 THEN (yMemAddr + 1) % YMemDepth ELSE yMemAddr
  BY <1>1, <1>2, <1>3
<1>11. state = "sLoop" => state' = IF put = 1 /\ LastIteration(outChannelCount)
                                   THEN "sGetNext" ELSE "sLoop"
  BY <1>3, <1>10 DEF StateNext
<1>12. yMemAddr' \in 0 .. YMemDepth - 1
  <2>1. yMemAddr \in 0 .. YMemDepth - 1 /\ YMemDepth \in Nat \ {0}
    BY YMemDepthAssumption DEF TypeOK
  <2>2. (yMemAddr + 1) % YMemDepth \in 0 .. YMemDepth - 1 /\ 0 \in 0 .. YMemDepth - 1
    BY <2>1
  <2> QED
    BY <1>10, <2>1, <2>2
<1> QED
  BY <1>8, <1>9, <1>10, <1>11, <1>12

-----------------------------------------------------------------------------
(* The invariant.                                                          *)

HostInv == FifosOK /\ IInv

\* The part of TypeOK that a cycle preserves by itself.
HwOK ==
    /\ counter \in 0 .. 3 /\ state \in States /\ delay \in Nat /\ pendingRsp \in BOOLEAN
    /\ stage = [i \in 1 .. Stages |-> stage[i]]
    /\ yMemAddr \in 0 .. YMemDepth - 1

LEMMA HostInvParts ==
    ASSUME HostInv
    PROVE  /\ FifosOK /\ StatusInv /\ TypeOK /\ HwOK /\ Aligned /\ Configured
           /\ SetUp => Accounted
           /\ ~SetUp => Quiet /\ Fresh
           /\ Running /\ ~SetUp => Starting
           /\ geometry \in Geometries /\ geometry.delay \in Nat
           /\ geometry.channels \in 1 .. YMemDepth /\ KernelSteps \in Nat
           /\ step \in Nat
<1>1. geometry \in Geometries
  BY DEF HostInv, IInv, TypeOK
<1>2. geometry.delay \in Nat /\ geometry.channels \in 1 .. YMemDepth
  BY <1>1, GeometryAssumption
<1>3. KernelSteps \in Nat
  BY <1>2, YMemDepthAssumption DEF KernelSteps
<1>4. step \in Nat
  BY <1>3 DEF HostInv, IInv, Configured
<1> QED
  BY <1>1, <1>2, <1>3, <1>4
     DEF HostInv, IInv, StatusInv, TypeOK, HwOK, ser32to8!TypeOK

LEMMA StagesFinite ==
    ASSUME NEW S \in SUBSET (1 .. Stages)
    PROVE  Cardinality(S) = 0 <=> S = {}
<1>1. IsFiniteSet(1 .. Stages)
  BY PipelineAssumption, FS_Interval
<1>2. IsFiniteSet(S)
  BY <1>1, FS_Subset
<1> QED
  BY <1>2, FS_EmptySet

LEMMA NoneInFlight ==
    /\ Cardinality(Occupied) = 0 <=> Occupied = {}
    /\ Cardinality(Occupied') = 0 <=> Occupied' = {}
<1>1. Occupied \in SUBSET (1 .. Stages) /\ Occupied' \in SUBSET (1 .. Stages)
  BY DEF Occupied
<1> QED
  BY <1>1, StagesFinite

\* A cycle without init keeps the registers in their ranges.
LEMMA HwCycle ==
    ASSUME TypeOK, NEW xWrite, NEW zRead, NEW word, NEW yWrite,
           Cycle(FALSE, xWrite, word, yWrite, zRead)
    PROVE  HwOK' /\ state' # "boot"
<1>1. /\ delay' \in Nat /\ pendingRsp' \in BOOLEAN
      /\ stage' = [i \in 1 .. Stages |-> stage'[i]]
      /\ yMemAddr' \in 0 .. YMemDepth - 1
  BY CycleMachine, CycleLoop
<1>2. state' \in States /\ state' # "boot"
  BY DEF TypeOK, Cycle, Clock, Fsm, StateNext, States
<1>3. counter' \in 0 .. 3
  BY DEF TypeOK, ser32to8!TypeOK, Cycle, Clock, ser32to8!Clock
<1> QED
  BY <1>1, <1>2, <1>3 DEF HwOK

\* Nothing comes of a cycle in which nothing was on its way and nothing is
\* written: at most, pixels that make no window go on.
LEMMA QuietStep ==
    ASSUME FifosOK, TypeOK, Aligned, Quiet, NEW yWrite,
           Cycle(FALSE, FALSE, Garbage, yWrite, FALSE)
    PROVE  Aligned' /\ Quiet' /\ HwOK' /\ state' # "boot"
<1>1. /\ FALSE \in BOOLEAN /\ 0 \in {0, 1} /\ state \in States
      /\ 0 = 1 <=> FALSE /\ xFifo!PushReady
      /\ 0 = 1 <=> FALSE /\ zFifo!PopValid
  BY DEF TypeOK
<1>2. /\ Aligned' /\ Waiting \in Int /\ Waiting' \in Int
      /\ state \in {"boot", "sInit"} => ~Fire /\ Waiting' = 4 * 0
      /\ state \notin {"boot", "sInit"} =>
             Waiting' = Waiting - (IF Fire THEN 1 ELSE 0) + 4 * 0
      /\ Fire => Waiting > 0
  BY <1>1, CycleWaiting
<1>3. /\ FifosOK' /\ Len(zQueue') \in Nat /\ Len(zQueue') = Len(zQueue) - 0 + ZPush
  BY <1>1, CycleFifos
<1>4. /\ state # "sLoop" /\ Len(zQueue) = 0 /\ Occupied = {} /\ ~pendingRsp
      /\ Waiting <= delay /\ delay \in Nat
  BY DEF Quiet, TypeOK
<1>5. ZPush = 0
  BY <1>4, PipelineAssumption DEF ZPush, ZValid, mac8x9!RspValid, Occupied
<1>6. zQueue' = <<>>
  BY <1>3, <1>4, <1>5, ZCounts DEF FifosOK, zFifo!TypeOK
<1>7. Occupied' = {}
  <2>1. PICK put \in {0, 1} :
           /\ Cardinality(Occupied') = Cardinality(Occupied) + put - ZPush
           /\ put = 1 => state = "sLoop"
    BY CycleLoop
  <2>2. Cardinality(Occupied) = 0
    BY <1>4, NoneInFlight
  <2>3. Cardinality(Occupied') = 0
    BY <1>4, <1>5, <2>1, <2>2
  <2> QED
    BY <2>3, NoneInFlight
<1>8. Fire => delay # 0
  BY <1>2, <1>4
<1>9. HwOK' /\ state' # "boot"
  BY HwCycle
<1>10. ~pendingRsp' /\ state' # "sLoop"
  BY <1>1, <1>4, <1>8, CycleMachine DEF States
<1>11. Waiting' <= delay'
  <2>1. /\ delay' \in Nat
        /\ delay' = IF WindowInit THEN rowBufferInitialDelay
                    ELSE IF Fire /\ delay # 0 THEN delay - 1 ELSE delay
    BY CycleMachine
  <2>2. CASE state \in {"boot", "sInit"}
    BY <1>2, <2>1, <2>2
  <2>3. CASE state \notin {"boot", "sInit"}
    BY <1>2, <1>4, <1>8, <2>1, <2>3 DEF WindowInit
  <2> QED
    BY <2>2, <2>3
<1> QED
  BY <1>2, <1>6, <1>7, <1>9, <1>10, <1>11 DEF Quiet

Loop == IF state = "sLoop" THEN geometry.channels - yMemAddr ELSE 0
Pending == IF pendingRsp THEN geometry.channels ELSE 0

\* A cycle of a run: a pixel the window buffer takes behind the delay makes one
\* window, and nothing else changes the sum of what its windows have become.
LEMMA AccountedStep ==
    ASSUME HostInv, SetUp, NEW xWrite \in BOOLEAN, NEW zRead \in BOOLEAN,
           NEW word, NEW yWrite,
           Cycle(FALSE, xWrite, word, yWrite, zRead),
           NEW push \in {0, 1}, push = 1 <=> xWrite /\ xFifo!PushReady,
           NEW pop \in {0, 1}, pop = 1 <=> zRead /\ zFifo!PopValid,
           words' = words + push, received' = received + pop,
           UNCHANGED <<geometry, step>>
    PROVE  Aligned' /\ SetUp' /\ Accounted' /\ HwOK' /\ state' # "boot"
<1> DEFINE C == geometry.channels
           D == geometry.delay
           fire == IF Fire THEN 1 ELSE 0
           new == IF Fire /\ delay = 0 THEN 1 ELSE 0
<1>1. /\ FifosOK /\ TypeOK /\ HwOK /\ Aligned /\ Accounted /\ Configured
      /\ D \in Nat /\ C \in 1 .. YMemDepth /\ YMemDepth \in Nat \ {0}
      /\ words \in Nat /\ received \in Nat /\ delay \in Nat
  BY HostInvParts, YMemDepthAssumption DEF TypeOK
<1>2. /\ state \in {"sGetNext", "sLoop"} /\ state \in States
      /\ state \notin {"boot", "sInit"} /\ FALSE \in BOOLEAN
      /\ Running /\ step >= 2
  BY HostInvParts DEF SetUp, States, Running
<1>3. /\ Aligned' /\ Waiting \in Int /\ Waiting' \in Int
      /\ Waiting' = Waiting - fire + 4 * push
      /\ Fire => Waiting > 0
  BY <1>1, <1>2, CycleWaiting
<1>4. /\ Len(zQueue) \in Nat /\ Len(zQueue') \in Nat /\ ZPush \in {0, 1}
      /\ Len(zQueue') = Len(zQueue) - pop + ZPush
  BY <1>1, <1>2, CycleFifos
<1>5. /\ delay' = IF Fire /\ delay # 0 THEN delay - 1 ELSE delay
      /\ pendingRsp' <=> \/ Fire /\ delay = 0
                         \/ pendingRsp /\ state # "sGetNext"
      /\ Fire /\ delay = 0 => state = "sGetNext"
      /\ state = "sGetNext" =>
             /\ state' = IF pendingRsp THEN "sLoop" ELSE "sGetNext"
             /\ pendingRsp => yMemAddr' = 0
  BY <1>1, <1>2, CycleMachine DEF WindowInit
<1>6. HwOK' /\ state' # "boot"
  BY <1>1, HwCycle
<1>7. outChannelCount = C /\ (C - 1) % YMemDepth = C - 1
  BY <1>1, <1>2 DEF Configured
<1>8. LastIteration(outChannelCount) <=> yMemAddr = C - 1
  BY <1>7 DEF LastIteration
<1>9. PICK put \in {0, 1} :
         /\ Cardinality(Occupied) \in Nat /\ Cardinality(Occupied') \in Nat
         /\ Cardinality(Occupied') = Cardinality(Occupied) + put - ZPush
         /\ put = 1 => state = "sLoop"
         /\ state = "sLoop" =>
               IF put = 1 /\ LastIteration(outChannelCount)
               THEN state' = "sGetNext"
               ELSE /\ state' = "sLoop"
                    /\ yMemAddr' = IF put = 1 THEN (yMemAddr + 1) % YMemDepth
                                              ELSE yMemAddr
  BY <1>1, CycleLoop
<1>10. SetUp'
  <2>1. state' \in {"sGetNext", "sLoop"}
    BY <1>2, <1>5, <1>9
  <2> QED
    BY <1>2, <2>1 DEF SetUp, Running, KernelSteps
<1>11. /\ Taken \in Int /\ Taken' = Taken + fire /\ 0 <= Taken /\ 0 <= Waiting
       /\ delay = IF Taken < D THEN D - Taken ELSE 0
       /\ geometry' = geometry
  BY <1>1, <1>3 DEF Taken, promise!Pixels, Accounted
<1>12. 0 <= Waiting' /\ 0 <= Taken'
  BY <1>3, <1>11
<1>13. delay' = IF Taken' < D THEN D - Taken' ELSE 0
  BY <1>1, <1>5, <1>11
<1>14. Made \in Nat /\ Made' = Made + new
  BY <1>1, <1>11 DEF Made
<1>15. yMemAddr \in Nat /\ (state = "sLoop" => yMemAddr < C)
  BY <1>1 DEF TypeOK, Accounted
<1>16. /\ state' = "sLoop" => yMemAddr' < C
       /\ Loop' + Pending' = Loop + Pending - put + (IF new = 1 THEN C ELSE 0)
  <2>1. CASE state = "sLoop"
    <3>1. new = 0 /\ Pending' = Pending /\ Pending \in Int
      BY <1>1, <1>5, <1>11, <2>1 DEF Pending
    <3>2. (state' = "sLoop" => yMemAddr' < C) /\ Loop' = Loop - put /\ Loop \in Int
      <4>1. CASE put = 1 /\ yMemAddr = C - 1
        BY <1>1, <1>8, <1>9, <1>11, <2>1, <4>1 DEF Loop
      <4>2. CASE put = 1 /\ yMemAddr # C - 1
        <5>1. (yMemAddr + 1) % YMemDepth = yMemAddr + 1 /\ yMemAddr + 1 < C
          BY <1>1, <1>15, <2>1, <4>2
        <5> QED
          BY <1>1, <1>8, <1>9, <1>11, <1>15, <2>1, <4>2, <5>1 DEF Loop
      <4>3. CASE put = 0
        BY <1>1, <1>9, <1>11, <1>15, <2>1, <4>3 DEF Loop
      <4> QED
        BY <4>1, <4>2, <4>3
    <3> QED
      BY <3>1, <3>2
  <2>2. CASE state = "sGetNext"
    <3>1. put = 0 /\ Loop = 0
      BY <1>9, <2>2 DEF Loop
    <3>2. Pending' = IF new = 1 THEN C ELSE 0
      BY <1>5, <1>11, <2>2 DEF Pending
    <3>3. CASE pendingRsp
      <4>1. Loop' = C /\ Pending = C /\ yMemAddr' = 0
        BY <1>1, <1>5, <1>11, <2>2, <3>3 DEF Loop, Pending
      <4> QED
        BY <1>1, <3>1, <3>2, <4>1
    <3>4. CASE ~pendingRsp
      <4>1. Loop' = 0 /\ Pending = 0 /\ state' # "sLoop"
        BY <1>5, <1>11, <2>2, <3>4 DEF Loop, Pending
      <4> QED
        BY <1>1, <3>1, <3>2, <4>1
    <3> QED
      BY <3>3, <3>4
  <2> QED
    BY <1>2, <2>1, <2>2
<1>17. C * Made' = C * Made + (IF new = 1 THEN C ELSE 0)
  <2>1. C \in Nat /\ new \in {0, 1}
    BY <1>1
  <2>2. CASE new = 1
    BY <1>14, <2>1, <2>2
  <2>3. CASE new = 0
    BY <1>14, <2>1, <2>3
  <2> QED
    BY <2>1, <2>2, <2>3
<1>18. received' + Len(zQueue') + Cardinality(Occupied')
          = received + Len(zQueue) + Cardinality(Occupied) + put
  BY <1>1, <1>4, <1>9
<1>19. C * Made = received + Len(zQueue) + Cardinality(Occupied) + Loop + Pending
  BY <1>1 DEF Accounted, Loop, Pending
<1>20. Loop \in Int /\ Pending \in Int /\ Loop' \in Int /\ Pending' \in Int
  BY <1>1, <1>6, <1>11, <1>15 DEF Loop, Pending, HwOK
<1>21. C * Made' = received' + Len(zQueue') + Cardinality(Occupied') + Loop' + Pending'
  <2> DEFINE inc == IF new = 1 THEN C ELSE 0
             sum == received + Len(zQueue) + Cardinality(Occupied)
             sum2 == received' + Len(zQueue') + Cardinality(Occupied')
             made == C * Made'
  <2>1. inc \in Int /\ sum \in Int /\ sum2 \in Int
    BY <1>1, <1>4, <1>9
  <2>2. made = sum + Loop + Pending + inc
    BY <1>17, <1>19
  <2>3. sum2 = sum + put
    BY <1>18
  <2>4. Loop' + Pending' = Loop + Pending - put + inc
    BY <1>16
  <2> HIDE DEF inc, sum, sum2, made
  <2>5. made = sum2 + (Loop' + Pending')
    <3>1. put \in Int
      OBVIOUS
    <3>2. made = (sum + put) + (Loop + Pending - put + inc)
      BY ONLY <1>20, <2>1, <2>2, <3>1
    <3> QED
      BY ONLY <2>3, <2>4, <3>2
  <2>6. made = sum2 + Loop' + Pending'
    BY <1>20, <2>1, <2>5
  <2> QED
    BY <2>6 DEF sum2, made
<1>22. Accounted'
  BY <1>11, <1>12, <1>13, <1>16, <1>21 DEF Accounted, Loop, Pending
<1> QED
  BY <1>3, <1>6, <1>10, <1>22

\* Windows that the pixels that wait will still make.
Coming == IF Waiting > delay THEN Waiting - delay ELSE 0

\* What is due is made of the windows made and those still to come.
LEMMA DueIsMadeAndComing ==
    ASSUME HostInv, SetUp
    PROVE  /\ Made \in Nat /\ Coming \in Nat /\ geometry.channels \in Nat \ {0}
           /\ promise!Due = geometry.channels * Made + geometry.channels * Coming
<1> DEFINE C == geometry.channels
           D == geometry.delay
<1>1. /\ Accounted /\ D \in Nat /\ C \in 1 .. YMemDepth /\ YMemDepth \in Nat
      /\ words \in Nat /\ counter \in 0 .. 3 /\ FifosOK /\ delay \in Nat
  BY HostInvParts, YMemDepthAssumption DEF TypeOK, Aligned
<1>2. Waiting \in Int
  BY <1>1, XCounts DEF Waiting, FifosOK, xFifo!TypeOK
<1>3. Taken \in Int /\ promise!Pixels \in Int /\ Taken = promise!Pixels - Waiting
  BY <1>1, <1>2 DEF Taken, promise!Pixels
<1>4. 0 <= Waiting /\ 0 <= Taken /\ delay = IF Taken < D THEN D - Taken ELSE 0
  BY <1>1 DEF Accounted
<1>5. Made \in Nat /\ Coming \in Nat /\ C \in Nat \ {0}
  BY <1>1, <1>2, <1>3, <1>4 DEF Made, Coming
<1>6. Made + Coming = IF promise!Pixels > D THEN promise!Pixels - D ELSE 0
  BY <1>1, <1>2, <1>3, <1>4 DEF Made, Coming
<1>7. promise!Due = C * (Made + Coming)
  <2>1. CASE promise!Pixels > D
    BY <1>6, <2>1 DEF promise!Due
  <2>2. CASE ~(promise!Pixels > D)
    <3>1. Made + Coming = 0 /\ promise!Due = 0
      BY <1>6, <2>2 DEF promise!Due
    <3> QED
      BY <1>5, <3>1
  <2> QED
    BY <2>1, <2>2
<1>8. C * (Made + Coming) = C * Made + C * Coming
  BY <1>5
<1> QED
  BY <1>5, <1>7, <1>8

\* What the driver has not received of the results due.
LEMMA Balance ==
    ASSUME HostInv, SetUp
    PROVE  /\ promise!Due = received + Len(zQueue) + Cardinality(Occupied) + Loop
                              + geometry.channels * ((IF pendingRsp THEN 1 ELSE 0) + Coming)
           /\ Len(zQueue) \in Nat /\ Cardinality(Occupied) \in Nat /\ Loop \in Nat
           /\ state = "sLoop" => Loop > 0
           /\ Coming \in Nat /\ geometry.channels \in Nat \ {0} /\ received \in Nat
<1> DEFINE C == geometry.channels
           one == IF pendingRsp THEN 1 ELSE 0
           sum == received + Len(zQueue) + Cardinality(Occupied) + Loop
<1>1. /\ Made \in Nat /\ Coming \in Nat /\ C \in Nat \ {0}
      /\ promise!Due = C * Made + C * Coming
  BY DueIsMadeAndComing
<1>2. Accounted /\ FifosOK /\ received \in Nat /\ yMemAddr \in Nat
  BY HostInvParts, YMemDepthAssumption DEF TypeOK
<1>3. Len(zQueue) \in Nat
  BY <1>2, ZCounts DEF FifosOK, zFifo!TypeOK
<1>4. Cardinality(Occupied) \in Nat
  <2>1. IsFiniteSet(1 .. Stages) /\ Occupied \in SUBSET (1 .. Stages)
    BY PipelineAssumption, FS_Interval DEF Occupied
  <2> QED
    BY <2>1, FS_Subset, FS_CardinalityType
<1>5. Loop \in Nat /\ (state = "sLoop" => Loop > 0)
  BY <1>1, <1>2 DEF Loop, Accounted
<1>6. C * Made = received + Len(zQueue) + Cardinality(Occupied) + Loop + Pending
  BY <1>2 DEF Accounted, Loop, Pending
<1>7. Pending = C * one
  BY <1>1 DEF Pending
<1>8. one \in Nat /\ C * (one + Coming) = C * one + C * Coming
  BY <1>1
<1>9. sum \in Nat /\ C * one \in Nat /\ C * Coming \in Nat
  BY <1>1, <1>2, <1>3, <1>4, <1>5
<1>10. promise!Due = (sum + C * one) + C * Coming
  BY <1>1, <1>6, <1>7
<1> HIDE DEF one, sum
<1>11. promise!Due = sum + C * (one + Coming)
  BY <1>8, <1>9, <1>10
<1> QED
  BY <1>1, <1>2, <1>3, <1>4, <1>5, <1>11 DEF one, sum

LEMMA NothingLostHolds == HostInv => NothingLost
<1> SUFFICES ASSUME HostInv, SetUp
             PROVE  promise!Due = received + Len(zQueue) + Cardinality(Occupied) + Loop
                       + geometry.channels * ((IF pendingRsp THEN 1 ELSE 0) + Coming)
  BY DEF NothingLost, Loop, Coming
<1> QED
  BY Balance

LEMMA NoProduct ==
    ASSUME NEW a \in Nat \ {0}, NEW b \in Nat
    PROVE  a * b \in Nat /\ (a * b = 0 => b = 0)
  OBVIOUS

\* When everything due has been received, nothing is left anywhere.
LEMMA DrainedIsQuiet ==
    ASSUME HostInv, SetUp, received = promise!Due
    PROVE  Quiet
<1> DEFINE C == geometry.channels
           one == IF pendingRsp THEN 1 ELSE 0
           rest == C * (one + Coming)
<1>1. /\ promise!Due = received + Len(zQueue) + Cardinality(Occupied) + Loop + rest
      /\ Len(zQueue) \in Nat /\ Cardinality(Occupied) \in Nat /\ Loop \in Nat
      /\ state = "sLoop" => Loop > 0
      /\ Coming \in Nat /\ C \in Nat \ {0} /\ received \in Nat
  BY Balance
<1>2. one \in Nat /\ rest \in Nat /\ (rest = 0 => one = 0 /\ Coming = 0)
  <2>1. one \in Nat /\ one + Coming \in Nat
    BY <1>1
  <2>2. rest \in Nat /\ (rest = 0 => one + Coming = 0)
    BY <1>1, <2>1, NoProduct
  <2> HIDE DEF one, rest
  <2> QED
    BY <1>1, <2>1, <2>2
<1> HIDE DEF one, rest
<1>3. /\ Len(zQueue) = 0 /\ Cardinality(Occupied) = 0 /\ Loop = 0
      /\ one = 0 /\ Coming = 0
  <2>1. received = received + Len(zQueue) + Cardinality(Occupied) + Loop + rest
    BY <1>1
  <2>2. rest = 0 /\ Len(zQueue) = 0 /\ Cardinality(Occupied) = 0 /\ Loop = 0
    BY <1>1, <1>2, <2>1
  <2> QED
    BY <1>2, <2>2
<1>4. zQueue = <<>>
  BY <1>3, HostInvParts, ZCounts DEF FifosOK, zFifo!TypeOK
<1>5. state # "sLoop" /\ Occupied = {} /\ ~pendingRsp
  BY <1>1, <1>3, NoneInFlight DEF one
<1>6. Waiting <= delay
  <2>1. /\ counter \in 0 .. 3 /\ FifosOK /\ delay \in Nat
    BY HostInvParts DEF TypeOK, Aligned
  <2>2. Waiting \in Int
    BY <2>1, XCounts DEF Waiting, FifosOK, xFifo!TypeOK
  <2> QED
    BY <1>3, <2>1, <2>2 DEF Coming
<1> QED
  BY <1>4, <1>5, <1>6 DEF Quiet

-----------------------------------------------------------------------------
(* The steps of the driver.                                                *)

\* The cycle in which the window buffer is set up: the run begins.
LEMMA FirstCycle ==
    ASSUME HostInv, Running, ~SetUp,
           Cycle(FALSE, FALSE, Garbage, NoWrite, FALSE),
           UNCHANGED <<geometry, step, words, received>>
    PROVE  Aligned' /\ SetUp' /\ Accounted' /\ HwOK' /\ state' # "boot"
<1>1. /\ FifosOK /\ TypeOK /\ Aligned /\ Quiet /\ Fresh /\ Starting /\ Configured
      /\ geometry.delay \in Nat /\ geometry.channels \in Nat /\ KernelSteps \in Nat
  BY HostInvParts, YMemDepthAssumption
<1>2. state = "sInit" /\ step >= 2
  <2>1. step # 0
    BY <1>1 DEF Running
  <2>2. state \in States /\ state # "boot"
    BY <1>1, <2>1 DEF TypeOK, Configured
  <2> QED
    BY <1>1, <2>2 DEF SetUp, States, Running
<1>3. Aligned' /\ Quiet' /\ HwOK' /\ state' # "boot"
  BY <1>1, QuietStep
<1>4. state' = "sGetNext" /\ delay' = rowBufferInitialDelay
  BY <1>1, <1>2, CycleMachine DEF WindowInit
<1>5. SetUp'
  BY <1>4 DEF SetUp, Running, KernelSteps
<1>6. Waiting' = 0
  <2>1. /\ FALSE \in BOOLEAN /\ 0 \in {0, 1}
        /\ 0 = 1 <=> FALSE /\ xFifo!PushReady
        /\ 0 = 1 <=> FALSE /\ zFifo!PopValid
    OBVIOUS
  <2>2. state \in {"boot", "sInit"} => ~Fire /\ Waiting' = 4 * 0
    BY <1>1, <1>2, <2>1, CycleWaiting DEF TypeOK
  <2> QED
    BY <1>2, <2>2
<1>7. Taken' = 0 /\ received' = 0 /\ geometry' = geometry
  BY <1>1, <1>6 DEF Taken, promise!Pixels, Fresh
<1>8. delay' = geometry.delay
  BY <1>1, <1>2, <1>4 DEF Configured
<1>9. Made' = 0 /\ delay' = IF Taken' < geometry.delay THEN geometry.delay - Taken' ELSE 0
  BY <1>1, <1>7, <1>8 DEF Made
<1>10. Len(zQueue') = 0 /\ Cardinality(Occupied') = 0 /\ state' # "sLoop" /\ ~pendingRsp'
  BY <1>3, NoneInFlight DEF Quiet
<1>11. geometry.channels * Made' = received' + Len(zQueue') + Cardinality(Occupied') + 0 + 0
  BY <1>1, <1>7, <1>9, <1>10
<1>12. Accounted'
  BY <1>6, <1>7, <1>9, <1>10, <1>11 DEF Accounted
<1> QED
  BY <1>3, <1>5, <1>12

\* The registers that do not belong to the cycle, put together again.
LEMMA Assemble ==
    ASSUME HostInv, StatusInv', HwOK', Aligned', Configured',
           rowBufferInitialDelay' \in Nat, geometry' \in Geometries,
           words' \in Nat, received' \in Nat,
           IF SetUp' THEN Accounted' ELSE Quiet' /\ Fresh' /\ (Running' => Starting')
    PROVE  HostInv'
<1>1. FifosOK' /\ credit' \in Nat /\ ready' \in Nat /\ WritesFit' /\ ReadsSucceed'
  BY DEF StatusInv
<1>2. Len(xQueue') <= XFifoDepth /\ Len(zQueue') <= ZFifoDepth
  BY <1>1 DEF FifosOK, xFifo!TypeOK, zFifo!TypeOK
<1>3. TypeOK'
  BY <1>1, <1>2 DEF TypeOK, HwOK, ser32to8!TypeOK
<1> QED
  BY <1>1, <1>3 DEF HostInv, IInv

LEMMA FireIsWaiting ==
    ASSUME FifosOK, counter \in 0 .. 3, Fire
    PROVE  Waiting > 0
<1>1. Len(xQueue) \in Nat /\ Len(xQueue) # 0
  BY XCounts DEF FifosOK, xFifo!TypeOK, Fire, xFifo!PopValid
<1> QED
  BY <1>1 DEF Waiting

\* init discards what is in the FIFOs; nothing else was on its way.
LEMMA StartHost ==
    ASSUME HostInv, StartRun
    PROVE  HostInv'
<1>1. /\ Cycle(TRUE, FALSE, Garbage, NoWrite, FALSE) /\ UNCHANGED config
      /\ step = 2 + KernelSteps /\ step' = step + 1 /\ credit' = 0 /\ ready' = 0
      /\ UNCHANGED <<run, geometry, words, received, last>>
  BY DEF StartRun, WriteInit
<1>2. ~Running /\ ~SetUp
  BY <1>1, HostInvParts DEF SetUp, Running
<1>3. /\ FifosOK /\ StatusInv /\ TypeOK /\ HwOK /\ Aligned /\ Configured /\ Quiet /\ Fresh
      /\ KernelSteps \in Nat
  BY <1>2, HostInvParts
<1>4. /\ xQueue' = <<>> /\ zQueue' = <<>> /\ Len(xQueue') = 0
  <2>1. /\ TRUE \in BOOLEAN /\ FALSE \in BOOLEAN /\ 0 \in {0, 1}
        /\ 0 = 1 <=> FALSE /\ xFifo!PushReady
        /\ 0 = 1 <=> FALSE /\ zFifo!PopValid
    OBVIOUS
  <2> QED
    BY <1>1, <1>3, <2>1, CycleFifos
<1>5. StatusInv'
  BY <1>3, StartCycle
<1>6. /\ state' = "sInit" /\ yMemAddr' = yMemAddr
      /\ counter' = IF ~xFifo!PopValid THEN 0
                    ELSE IF PixelReady THEN (counter + 1) % 4 ELSE counter
      /\ mac8x9!Clock(Cmd, zFifo!PushReady)
  BY <1>1, <1>3 DEF Cycle, Clock, Fsm, StateNext, CmdFire, CmdValid, ser32to8!Clock, Quiet
<1>7. counter' \in 0 .. 3
  BY <1>3, <1>6 DEF HwOK
<1>8. /\ delay' = IF WindowInit THEN rowBufferInitialDelay
                  ELSE delay - (IF Fire /\ delay # 0 THEN 1 ELSE 0)
      /\ pendingRsp' = \/ Fire /\ delay = 0
                       \/ pendingRsp /\ ~windowBuffer3x3!OutputFire(WindowReady)
  <2>1. Fire <=> windowBuffer3x3!InputFire(xFifo!PopValid, WindowReady)
    BY DEF Fire, PixelReady, windowBuffer3x3!InputFire
  <2> QED
    BY <1>1, <2>1 DEF Cycle, Clock, windowBuffer3x3!Clock, windowBuffer3x3!DelayCounter,
                      windowBuffer3x3!PendingRsp
<1>9. delay' \in Nat
  BY <1>3, <1>8 DEF TypeOK
<1>10. pendingRsp' = FALSE
  <2>1. Fire => delay # 0
    <3>1. Fire => Waiting > 0
      BY <1>3, FireIsWaiting DEF HwOK
    <3>2. Waiting <= delay /\ Waiting \in Int
      BY <1>3, XCounts DEF Quiet, Waiting, FifosOK, xFifo!TypeOK, HwOK
    <3> QED
      BY <3>1, <3>2
  <2> QED
    BY <1>3, <1>8, <2>1 DEF Quiet
<1>11. stage' = [i \in 1 .. Stages |-> stage'[i]] /\ Occupied' = {}
  <2>1. PICK r \in BOOLEAN : r = zFifo!PushReady
    <3>1. zFifo!PushReady \in BOOLEAN
      BY DEF zFifo!PushReady
    <3> QED
      BY <3>1
  <2>2. mac8x9!Clock(Cmd, r)
    BY <1>6, <2>1
  <2>3. Cmd = NoCommand /\ stage[Stages] = NoCommand
    BY <1>3, PipelineAssumption DEF Cmd, CmdValid, Quiet, Occupied
  <2>4. /\ 0 \in {0, 1}
        /\ 0 = 1 <=> Cmd # NoCommand /\ mac8x9!CmdReady(r)
        /\ 0 = 1 <=> stage[Stages] # NoCommand /\ r
    BY <2>3
  <2>5. /\ stage' = [i \in 1 .. Stages |-> stage'[i]]
        /\ Cardinality(Occupied) \in Nat
        /\ Cardinality(Occupied') = Cardinality(Occupied) + 0 - 0
    BY <2>2, <2>4, PipelineCount
  <2>6. Cardinality(Occupied) = 0
    BY <1>3, NoneInFlight DEF Quiet
  <2> QED
    BY <2>5, <2>6, NoneInFlight
<1>12. HwOK'
  BY <1>3, <1>6, <1>7, <1>9, <1>10, <1>11 DEF HwOK, States
<1>13. Aligned'
  BY <1>4, <1>6, <1>7 DEF Aligned, WindowInit
<1>14. Configured'
  BY <1>1, <1>3, <1>6 DEF Configured, KernelSteps, config
<1>15. Waiting' <= delay'
  <2>1. \A n \in {0}, c \in 0 .. 3, d \in Nat : 4 * n - c <= d
    OBVIOUS
  <2>2. Len(xQueue') \in {0} /\ counter' \in 0 .. 3 /\ delay' \in Nat
    BY <1>4, <1>7, <1>9
  <2>3. 4 * Len(xQueue') - counter' <= delay'
    BY <2>1, <2>2
  <2> QED
    BY <2>3 DEF Waiting
<1>16. ~SetUp' /\ Quiet' /\ Fresh' /\ Starting'
  BY <1>1, <1>3, <1>4, <1>6, <1>10, <1>11, <1>15 DEF SetUp, Quiet, Fresh, Starting
<1> QED
  BY <1>1, <1>3, <1>5, <1>12, <1>13, <1>14, <1>16, Assemble DEF TypeOK, Fresh, config

\* A cycle before the run is set up, or with nothing left of the last one.
LEMMA QuietHost ==
    ASSUME HostInv, StatusInv', Quiet, NEW yWrite,
           Cycle(FALSE, FALSE, Garbage, yWrite, FALSE),
           ~Running', Configured', Fresh',
           rowBufferInitialDelay' \in Nat, geometry' \in Geometries
    PROVE  HostInv'
<1>1. FifosOK /\ TypeOK /\ Aligned
  BY HostInvParts
<1>2. Aligned' /\ Quiet' /\ HwOK'
  BY <1>1, QuietStep
<1>3. ~SetUp' /\ words' \in Nat /\ received' \in Nat
  BY DEF SetUp, Fresh
<1> QED
  BY <1>2, <1>3, Assemble

\* The configuration stays as it is in a cycle that leaves the registers alone.
LEMMA SameConfiguration ==
    ASSUME HostInv, UNCHANGED <<config, geometry, step>>, state' # "boot"
    PROVE  /\ Configured' /\ rowBufferInitialDelay' \in Nat /\ geometry' \in Geometries
           /\ Running' <=> Running
<1>1. Configured /\ TypeOK
  BY HostInvParts
<1> QED
  BY <1>1 DEF Configured, TypeOK, KernelSteps, Running, config

\* A cycle of a run that is set up.
LEMMA RunHost ==
    ASSUME HostInv, StatusInv', SetUp, NEW xWrite \in BOOLEAN, NEW zRead \in BOOLEAN,
           NEW word, NEW yWrite,
           Cycle(FALSE, xWrite, word, yWrite, zRead),
           NEW push \in {0, 1}, push = 1 <=> xWrite /\ xFifo!PushReady,
           NEW pop \in {0, 1}, pop = 1 <=> zRead /\ zFifo!PopValid,
           words' = words + push, received' = received + pop,
           UNCHANGED <<config, geometry, step>>
    PROVE  HostInv'
<1>1. Aligned' /\ SetUp' /\ Accounted' /\ HwOK' /\ state' # "boot"
  BY AccountedStep
<1>2. /\ Configured' /\ rowBufferInitialDelay' \in Nat /\ geometry' \in Geometries
  BY <1>1, SameConfiguration
<1>3. words' \in Nat /\ received' \in Nat
  BY HostInvParts DEF TypeOK
<1> QED
  BY <1>1, <1>2, <1>3, Assemble

\* A cycle without a transfer on the bus.
LEMMA IdleHost ==
    ASSUME HostInv, StatusInv', Idle,
           UNCHANGED <<run, geometry, words, received, last, step>>
    PROVE  HostInv'
<1>1. Cycle(FALSE, FALSE, Garbage, NoWrite, FALSE) /\ UNCHANGED config
  BY DEF Idle
<1>2. CASE SetUp
  <2>1. /\ FALSE \in BOOLEAN /\ 0 \in {0, 1}
        /\ 0 = 1 <=> FALSE /\ xFifo!PushReady
        /\ 0 = 1 <=> FALSE /\ zFifo!PopValid
        /\ words' = words + 0 /\ received' = received + 0
    BY HostInvParts DEF TypeOK
  <2> QED
    BY <1>1, <1>2, <2>1, RunHost
<1>3. CASE Running /\ ~SetUp
  <2>1. Aligned' /\ SetUp' /\ Accounted' /\ HwOK' /\ state' # "boot"
    BY <1>1, <1>3, FirstCycle
  <2>2. Configured' /\ rowBufferInitialDelay' \in Nat /\ geometry' \in Geometries
    BY <1>1, <2>1, SameConfiguration
  <2>3. words' \in Nat /\ received' \in Nat
    BY HostInvParts DEF TypeOK
  <2> QED
    BY <2>1, <2>2, <2>3, Assemble
<1>4. CASE ~Running
  <2>1. FifosOK /\ TypeOK /\ Aligned /\ Quiet /\ Fresh
    BY <1>4, HostInvParts DEF SetUp
  <2>2. state' # "boot"
    BY <1>1, <2>1, QuietStep
  <2>3. /\ Configured' /\ rowBufferInitialDelay' \in Nat /\ geometry' \in Geometries
        /\ ~Running'
    BY <1>1, <1>4, <2>2, SameConfiguration
  <2>4. Fresh'
    BY <2>1 DEF Fresh
  <2> QED
    BY <1>1, <2>1, <2>3, <2>4, QuietHost
<1> QED
  BY <1>2, <1>3, <1>4 DEF SetUp

\* A word is written only in a run that is set up: before, there is no credit.
LEMMA SendHost ==
    ASSUME HostInv, StatusInv', SendWord
    PROVE  HostInv'
<1>1. /\ Running /\ credit > 0 /\ WriteX(promise!Word(words + 1))
      /\ words' = words + 1 /\ UNCHANGED <<run, geometry, received, last, step, ready>>
  BY DEF SendWord
<1>2. SetUp /\ StatusInv /\ received \in Nat
  BY <1>1, HostInvParts DEF Starting, TypeOK
<1>3. /\ Cycle(FALSE, TRUE, promise!Word(words + 1), NoWrite, FALSE) /\ UNCHANGED config
  BY <1>1 DEF WriteX
<1>4. xFifo!PushReady
  BY <1>1, <1>2, FifoDepthAssumption, XCounts
     DEF StatusInv, WritesFit, FifosOK, xFifo!TypeOK, xFifo!PushReady
<1>5. /\ TRUE \in BOOLEAN /\ FALSE \in BOOLEAN /\ 0 \in {0, 1} /\ 1 \in {0, 1}
      /\ 1 = 1 <=> TRUE /\ xFifo!PushReady
      /\ 0 = 1 <=> FALSE /\ zFifo!PopValid
      /\ received' = received + 0
  BY <1>1, <1>2, <1>4
<1> QED
  BY <1>1, <1>2, <1>3, <1>5, RunHost

\* A result is read only in a run that is set up, and it is there.
LEMMA ReceiveHost ==
    ASSUME HostInv, StatusInv', ReceiveResult
    PROVE  HostInv'
<1>1. /\ Running /\ ready > 0 /\ ReadZ
      /\ received' = received + 1 /\ UNCHANGED <<run, geometry, words, step, credit>>
  BY DEF ReceiveResult
<1>2. SetUp /\ StatusInv /\ words \in Nat
  BY <1>1, HostInvParts DEF Starting, TypeOK
<1>3. /\ Cycle(FALSE, FALSE, Garbage, NoWrite, TRUE) /\ UNCHANGED config
  BY <1>1 DEF ReadZ
<1>4. zFifo!PopValid
  BY <1>1, <1>2 DEF StatusInv, ReadsSucceed
<1>5. /\ TRUE \in BOOLEAN /\ FALSE \in BOOLEAN /\ 0 \in {0, 1} /\ 1 \in {0, 1}
      /\ 0 = 1 <=> FALSE /\ xFifo!PushReady
      /\ 1 = 1 <=> TRUE /\ zFifo!PopValid
      /\ words' = words + 0
  BY <1>1, <1>2, <1>4
<1> QED
  BY <1>1, <1>2, <1>3, <1>5, RunHost

\* A command that configures the accelerator or loads a kernel; Drain is what
\* makes the first of them wait for the results of the run before.
LEMMA CommandHost ==
    ASSUME HostInv, StatusInv', Drain = TRUE,
           ConfigureRows \/ ConfigureChannels \/ LoadKernel
    PROVE  HostInv'
<1>1. /\ FifosOK /\ TypeOK /\ Aligned /\ Configured /\ KernelSteps \in Nat /\ step \in Nat
      /\ Running <=> step = 3 + KernelSteps
  BY HostInvParts DEF Running
<1>2. CASE ConfigureRows
  <2>1. PICK g \in Geometries : geometry' = g /\ WriteRowBuffer(g.width, g.delay)
    BY <1>2 DEF ConfigureRows
  <2>2. /\ Cycle(FALSE, FALSE, Garbage, NoWrite, FALSE)
        /\ rowBufferInitialDelay' = g.delay /\ step' = 1 /\ Fresh'
    BY <1>2, <2>1 DEF ConfigureRows, WriteRowBuffer, Fresh
  <2>3. Quiet
    <3>1. received = promise!Due
      BY <1>2 DEF ConfigureRows
    <3> QED
      BY <3>1, HostInvParts, DrainedIsQuiet
  <2>4. state' # "boot"
    BY <1>1, <2>2, <2>3, QuietStep
  <2>5. /\ geometry'.delay \in Nat /\ geometry'.channels \in 1 .. YMemDepth
        /\ rowBufferInitialDelay' = geometry'.delay
    BY <2>1, <2>2, GeometryAssumption
  <2>6. KernelSteps' = 4 * geometry'.channels /\ geometry'.channels \in Nat
    BY <2>5, YMemDepthAssumption DEF KernelSteps
  <2>7. ~Running' /\ step' \in 0 .. 3 + KernelSteps'
    BY <2>2, <2>6 DEF Running
  <2>8. Configured'
    BY <2>2, <2>4, <2>5, <2>7 DEF Configured
  <2> QED
    BY <2>1, <2>2, <2>3, <2>5, <2>7, <2>8, QuietHost
<1>3. CASE ConfigureChannels
  <2>1. /\ Cycle(FALSE, FALSE, Garbage, NoWrite, FALSE)
        /\ outChannelCount' = geometry.channels /\ step = 1 /\ step' = 2
        /\ UNCHANGED <<rowBufferInitialDelay, geometry, words, received>>
    BY <1>3 DEF ConfigureChannels, WriteChannels
  <2>2. Quiet /\ Fresh
    BY <1>1, <2>1, HostInvParts DEF SetUp
  <2>3. state' # "boot"
    BY <1>1, <2>1, <2>2, QuietStep
  <2>4. KernelSteps' = KernelSteps /\ Fresh'
    BY <2>1, <2>2 DEF KernelSteps, Fresh
  <2>5. ~Running' /\ Configured'
    BY <1>1, <2>1, <2>3, <2>4 DEF Running, Configured
  <2> QED
    BY <1>1, <2>1, <2>2, <2>4, <2>5, QuietHost DEF TypeOK
<1>4. CASE LoadKernel
  <2>1. PICK write : Cycle(FALSE, FALSE, Garbage, write, FALSE)
    BY <1>4 DEF LoadKernel, WriteY
  <2>2. /\ step \in 2 .. 1 + KernelSteps /\ step' = step + 1
        /\ UNCHANGED <<rowBufferInitialDelay, outChannelCount, geometry, words, received>>
    BY <1>4 DEF LoadKernel, WriteY, config
  <2>3. Quiet /\ Fresh
    BY <1>1, <2>2, HostInvParts DEF SetUp
  <2>4. state' # "boot"
    BY <1>1, <2>1, <2>3, QuietStep
  <2>5. KernelSteps' = KernelSteps /\ Fresh'
    BY <2>2, <2>3 DEF KernelSteps, Fresh
  <2>6. ~Running' /\ Configured'
    BY <1>1, <2>2, <2>4, <2>5 DEF Running, Configured
  <2> QED
    BY <1>1, <2>1, <2>2, <2>3, <2>5, <2>6, QuietHost DEF TypeOK
<1> QED
  BY <1>2, <1>3, <1>4

LEMMA InitHost == Init => HostInv
<1> SUFFICES ASSUME Init PROVE HostInv
  OBVIOUS
<1>1. /\ xQueue = <<>> /\ zQueue = <<>> /\ credit = 0 /\ ready = 0 /\ step = 0
      /\ state = "boot" /\ counter = 0 /\ delay = 0 /\ pendingRsp = FALSE
      /\ stage = [i \in 1 .. Stages |-> NoCommand] /\ yMemAddr = 0
      /\ rowBufferInitialDelay = 0
      /\ geometry \in Geometries /\ words = 0 /\ received = 0
  BY DEF Init, PowerUp, Reset, xFifo!Reset, zFifo!Reset, promise!Init, ser32to8!Reset,
         windowBuffer3x3!Reset, mac8x9!Reset
<1>2. FifosOK /\ WritesFit /\ ReadsSucceed
  BY InitStatus DEF StatusInv
<1>3. Len(xQueue) <= XFifoDepth /\ Len(zQueue) <= ZFifoDepth /\ Len(xQueue) = 0
  BY <1>1, <1>2, XCounts DEF FifosOK, xFifo!TypeOK, zFifo!TypeOK
<1>4. TypeOK
  <2>1. stage = [i \in 1 .. Stages |-> stage[i]]
    BY <1>1
  <2>2. counter \in 0 .. 3 /\ yMemAddr \in 0 .. YMemDepth - 1
    BY <1>1, YMemDepthAssumption
  <2>3. {words, received, credit, ready} \subseteq Nat
    BY <1>1
  <2> QED
    BY <1>1, <1>3, <2>1, <2>2, <2>3 DEF TypeOK, ser32to8!TypeOK, States
<1>5. KernelSteps \in Nat
  BY <1>1, GeometryAssumption, YMemDepthAssumption DEF KernelSteps
<1>6. Aligned /\ Configured /\ ~Running
  BY <1>1, <1>5 DEF Aligned, Configured, Running
<1>7. Quiet /\ Fresh /\ ~SetUp
  BY <1>1, <1>3, <1>6 DEF Quiet, Occupied, Waiting, Fresh, SetUp
<1> QED
  BY <1>2, <1>4, <1>6, <1>7 DEF HostInv, IInv

LEMMA NextHost ==
    ASSUME Drain = TRUE
    PROVE  HostInv /\ [Next]_vars => HostInv'
<1> SUFFICES ASSUME HostInv, [Next]_vars PROVE HostInv'
  OBVIOUS
<1>1. StatusInv'
  BY HostInvParts, NextStatus
<1>2. CASE ConfigureRows \/ ConfigureChannels \/ LoadKernel
  BY <1>1, <1>2, CommandHost
<1>3. CASE StartRun
  BY <1>3, StartHost
<1>4. CASE Pause \/ Poll
  BY <1>1, <1>4, IdleHost DEF Pause, Poll, driver
<1>5. CASE SendWord
  BY <1>1, <1>5, SendHost
<1>6. CASE ReceiveResult
  BY <1>1, <1>6, ReceiveHost
<1>7. CASE UNCHANGED vars
  <2>1. /\ FifosOK /\ TypeOK /\ Aligned /\ WritesFit /\ ReadsSucceed /\ Configured
        /\ IF SetUp THEN Accounted ELSE Quiet /\ Fresh
        /\ Running /\ ~SetUp => Starting
    BY DEF HostInv, IInv
  <2> USE <1>7 DEF vars, ctlrRegs, busRegs, driver, config
  <2>2. FifosOK' /\ TypeOK' /\ WritesFit' /\ ReadsSucceed'
    BY <2>1 DEF FifosOK, xFifo!TypeOK, zFifo!TypeOK, TypeOK, ser32to8!TypeOK,
                WritesFit, ReadsSucceed, zFifo!PopValid
  <2>3. Aligned' /\ Configured'
    BY <2>1 DEF Aligned, xFifo!PopValid, WindowInit, Configured, KernelSteps
  <2>4. (SetUp' <=> SetUp) /\ (Running' <=> Running)
    BY DEF SetUp, Running, KernelSteps
  <2>5. Accounted' <=> Accounted
    BY DEF Accounted, Waiting, Taken, Made, Occupied, promise!Pixels
  <2>6. (Quiet' <=> Quiet) /\ (Fresh' <=> Fresh) /\ (Starting' <=> Starting)
    BY DEF Quiet, Waiting, Occupied, Fresh, Starting
  <2> QED
    BY <2>1, <2>2, <2>3, <2>4, <2>5, <2>6 DEF HostInv, IInv
<1> QED
  BY <1>2, <1>3, <1>4, <1>5, <1>6, <1>7 DEF Next

LEMMA InductiveHost == ASSUME Drain = TRUE PROVE Spec => []HostInv
  BY InitHost, NextHost, PTL DEF Spec

\* The registers, the FIFOs and the driver's counters stay in their ranges.
THEOREM TypeCorrect == ASSUME Drain = TRUE PROVE Spec => []TypeOK
<1>1. HostInv => TypeOK
  BY DEF HostInv, IInv
<1> QED
  BY <1>1, InductiveHost, PTL

\* A driver that starts a run only after the last result of the one before
\* loses no result and gets none twice: all that is due is received or in
\* exactly one place of the machine.
THEOREM NothingLostCorrect == ASSUME Drain = TRUE PROVE Spec => []NothingLost
  BY InductiveHost, NothingLostHolds, PTL

-----------------------------------------------------------------------------
(* The refinement: what the machine holds.                                 *)

\* The pixels of the run the window buffer has taken.
Stream == [i \in 1 .. Taken |-> <<run, i>>]

\* Windows of the run that have gone on to the loop over the channels.
Looped == Made - (IF pendingRsp THEN 1 ELSE 0)

buffer == INSTANCE WindowStreamProofs
            WITH stream <- Stream, delay0 <- geometry.delay, leftover <- 0, delivered <- Looped,
                 RowWidths <- {g.width : g \in Geometries},
                 InitialDelays <- {g.delay : g \in Geometries},
                 MaxRun <- 4 * MaxWords

\* Results that have left the pipeline.
Left == received + Len(zQueue)

\* What holds at any time: pixels are pixels, and the registers and kernels of
\* the run are what the driver has made them so far.
Loaded ==
    /\ run \in 0 .. MaxRuns /\ (step >= 1 => run >= 1)
    /\ words \in 0 .. MaxWords
    /\ rowBufferRowWidth \in Nat /\ (step >= 1 => rowBufferRowWidth = geometry.width)
    /\ \A j \in 1 .. Len(xQueue) : xQueue[j] \in [0 .. 3 -> Pixel]
    /\ windowBuffer3x3!TypeOK
    /\ yMem = [a \in 0 .. YMemDepth - 1 |-> [b \in 0 .. 3 |-> yMem[a][b]]]
    /\ step >= 2 => \A a \in 0 .. geometry.channels - 1, b \in 0 .. 3 :
                       4 * a + b < step - 2 => yMem[a][b] = promise!KernelWord(a, b)

XData == \A j \in 1 .. Len(xQueue) : xQueue[j] = promise!Word(words - Len(xQueue) + j)
WindowData == writeOffset = geometry.width /\ buffer!IInv
LoopData == state = "sLoop" => mac8x9PayloadReg = promise!Window(geometry.delay + Looped)
PipelineData ==
    \A i \in 1 .. Stages :
        stage[i] # NoCommand => stage[i] = promise!Result(Left + Cardinality(Behind(i)))
ZData == \A j \in 1 .. Len(zQueue) : zQueue[j] = promise!Result(received + j)

\* Where in the machine what part of the run is.
RunData == XData /\ WindowData /\ LoopData /\ PipelineData /\ ZData

DataInv == Loaded /\ (SetUp => RunData)

-----------------------------------------------------------------------------
(* What a cycle does to the contents of the FIFOs.                         *)

LEMMA QueueMoves ==
    ASSUME NEW q, IsSequence(q), NEW pop \in {0, 1}, pop = 1 => q # <<>>,
           NEW push \in {0, 1}, NEW payload
    PROVE  /\ Len(q) \in Nat
           /\ Len(Moved(q, pop, push, payload)) = Len(q) - pop + push
           /\ \A j \in 1 .. Len(q) - pop :
                 Moved(q, pop, push, payload)[j] = q[j + pop]
           /\ push = 1 =>
                 Moved(q, pop, push, payload)[Len(q) - pop + 1] = payload
<1> DEFINE rest == Popped(q, pop)
<1>1. PICK S : q \in Seq(S)
  BY DEF IsSequence
<1>2. /\ Len(q) \in Nat /\ Len(rest) = Len(q) - pop
      /\ rest \in Seq(S) /\ \A j \in 1 .. Len(rest) : rest[j] = q[j + pop]
  <2>1. CASE pop = 1
    <3>1. q # <<>> /\ rest = Tail(q)
      BY <2>1 DEF Popped
    <3> QED
      BY <1>1, <2>1, <3>1
  <2>2. CASE pop = 0
    BY <1>1, <2>2 DEF Popped
  <2> QED
    BY <2>1, <2>2
<1>3. Moved(q, pop, push, payload) = IF push = 1 THEN Append(rest, payload) ELSE rest
  BY DEF Moved
<1> HIDE DEF rest
<1>4. CASE push = 1
  <2> DEFINE T == S \cup {payload}
  <2>1. S \subseteq T /\ payload \in T
    OBVIOUS
  <2> HIDE DEF T
  <2>2. rest \in Seq(T)
    BY <1>2, <2>1
  <2>3. /\ Len(Append(rest, payload)) = Len(rest) + 1
        /\ \A j \in 1 .. Len(rest) : Append(rest, payload)[j] = rest[j]
        /\ Append(rest, payload)[Len(rest) + 1] = payload
    BY <2>1, <2>2
  <2> QED
    BY <1>2, <1>3, <1>4, <2>3
<1>5. CASE push = 0
  BY <1>2, <1>3, <1>5
<1> QED
  BY <1>4, <1>5

\* push times word is written, and pop results are read.
XMoved(push, word) ==
    /\ XPop \in {0, 1} /\ Len(xQueue) \in Nat
    /\ Len(xQueue') = Len(xQueue) - XPop + push
    /\ \A j \in 1 .. Len(xQueue) - XPop : xQueue'[j] = xQueue[j + XPop]
    /\ push = 1 => xQueue'[Len(xQueue) - XPop + 1] = word

ZMoved(pop) ==
    /\ ZPush \in {0, 1} /\ Len(zQueue) \in Nat
    /\ Len(zQueue') = Len(zQueue) - pop + ZPush
    /\ \A j \in 1 .. Len(zQueue) - pop : zQueue'[j] = zQueue[j + pop]
    /\ ZPush = 1 => /\ zQueue'[Len(zQueue) - pop + 1] = stage[Stages]
                    /\ stage[Stages] # NoCommand

LEMMA XMoves ==
    ASSUME FifosOK, NEW xWrite \in BOOLEAN, NEW zRead, NEW word, NEW yWrite,
           Cycle(FALSE, xWrite, word, yWrite, zRead),
           NEW push \in {0, 1}, push = 1 <=> xWrite /\ xFifo!PushReady
    PROVE  XMoved(push, word)
<1>1. XPop \in {0, 1} /\ (XPop = 1 <=> XReady /\ xFifo!PopValid)
  BY DEF XPop
<1>2. xQueue' = Moved(xQueue, XPop, push, word)
  BY <1>1 DEF Cycle, xFifo!Clock, Moved, Popped
<1>3. IsSequence(xQueue) /\ (XPop = 1 => xQueue # <<>>)
  BY <1>1 DEF FifosOK, xFifo!TypeOK, xFifo!IsSequence, IsSequence, xFifo!PopValid
<1> QED
  BY <1>1, <1>2, <1>3, QueueMoves DEF XMoved

LEMMA ZMoves ==
    ASSUME FifosOK, NEW xWrite, NEW zRead \in BOOLEAN, NEW word, NEW yWrite,
           Cycle(FALSE, xWrite, word, yWrite, zRead),
           NEW pop \in {0, 1}, pop = 1 <=> zRead /\ zFifo!PopValid
    PROVE  ZMoved(pop)
<1>1. /\ ZPush \in {0, 1} /\ (ZPush = 1 <=> ZValid /\ zFifo!PushReady)
      /\ ZValid <=> stage[Stages] # NoCommand
  BY DEF ZPush, ZValid, mac8x9!RspValid
<1>2. zQueue' = Moved(zQueue, pop, ZPush, stage[Stages])
  BY <1>1 DEF Cycle, zFifo!Clock, Moved, Popped, ZPayload, mac8x9!RspPayload
<1>3. IsSequence(zQueue) /\ (pop = 1 => zQueue # <<>>)
  BY DEF FifosOK, zFifo!TypeOK, zFifo!IsSequence, IsSequence, zFifo!PopValid
<1> QED
  BY <1>1, <1>2, <1>3, QueueMoves DEF ZMoved

-----------------------------------------------------------------------------
(* What holds at any time.                                                 *)

\* The pixel that the serialiser offers to the window buffer.
NextPixel == ser32to8!OutputPayload(xFifo!PopPayload)

LEMMA NextPixelIs ==
    ASSUME HostInv, Loaded, xFifo!PopValid
    PROVE  /\ NextPixel = xQueue[1][counter] /\ NextPixel \in Pixel
           /\ Len(xQueue) \in Nat \ {0} /\ counter \in 0 .. 3
<1>1. FifosOK /\ counter \in 0 .. 3
  BY HostInvParts DEF Aligned
<1>2. Len(xQueue) \in Nat \ {0} /\ IsSequence(xQueue) /\ xQueue # <<>>
  BY <1>1, XCounts
     DEF FifosOK, xFifo!TypeOK, xFifo!PopValid, xFifo!IsSequence, IsSequence
<1>3. Head(xQueue) = xQueue[1]
  BY <1>2 DEF IsSequence
<1>4. xQueue[1] \in [0 .. 3 -> Pixel]
  BY <1>2 DEF Loaded
<1> QED
  BY <1>1, <1>2, <1>3, <1>4 DEF NextPixel, ser32to8!OutputPayload, xFifo!PopPayload

\* The memories and registers of the window buffer hold pixels or nothing.
LEMMA CellsStep ==
    ASSUME HostInv, Loaded, NEW init, NEW xWrite, NEW word, NEW yWrite, NEW zRead,
           Cycle(init, xWrite, word, yWrite, zRead)
    PROVE  /\ windowBuffer3x3!TypeOK'
           /\ writeOffset' = IF WindowInit THEN rowBufferRowWidth ELSE writeOffset
<1> DEFINE fire == windowBuffer3x3!InputFire(xFifo!PopValid, WindowReady)
           Slot == windowBuffer3x3!Slot
           Cell == windowBuffer3x3!Cell
           Taps == windowBuffer3x3!Taps
           wp == windowBuffer3x3!writePtr
           pixel == NextPixel
           front == windowBuffer3x3!Front(pixel)
<1>1. /\ row0' = IF fire THEN [row0 EXCEPT ![wp] = pixel] ELSE row0
      /\ row1' = IF fire THEN [row1 EXCEPT ![wp] = row0[readPtr]] ELSE row1
      /\ readPtr' = IF WindowInit THEN 0
                    ELSE IF fire THEN (readPtr + 1) % MaxRowWidth ELSE readPtr
      /\ writeOffset' = IF WindowInit THEN rowBufferRowWidth ELSE writeOffset
      /\ cache' = IF fire THEN [r \in Taps |-> [c \in Taps |->
                                 IF c = 0 THEN front[r] ELSE cache[r][c - 1]]]
                          ELSE cache
      /\ delay' = IF WindowInit THEN rowBufferInitialDelay
                  ELSE delay - (IF fire /\ delay # 0 THEN 1 ELSE 0)
      /\ pendingRsp' \in BOOLEAN
  BY DEF Cycle, Clock, windowBuffer3x3!Clock, windowBuffer3x3!RowShifter,
         windowBuffer3x3!WindowCache, windowBuffer3x3!DelayCounter,
         windowBuffer3x3!PendingRsp, NextPixel
<1>2. /\ delay \in Nat /\ readPtr \in Slot /\ writeOffset \in Nat
      /\ row0 \in [Slot -> Cell] /\ row1 \in [Slot -> Cell]
      /\ cache \in [Taps -> [Taps -> Cell]]
      /\ rowBufferRowWidth \in Nat /\ rowBufferInitialDelay \in Nat
  BY HostInvParts DEF Loaded, windowBuffer3x3!TypeOK, TypeOK
<1>3. fire => pixel \in Cell
  BY NextPixelIs DEF windowBuffer3x3!InputFire, windowBuffer3x3!Cell
<1>4. MaxRowWidth \in Nat \ {0} /\ Slot = 0 .. MaxRowWidth - 1 /\ Taps = 0 .. 2
  BY RowsAssumption DEF windowBuffer3x3!Slot, windowBuffer3x3!Taps
<1>5. wp = (readPtr + writeOffset) % MaxRowWidth /\ wp \in Slot
  BY <1>2, <1>4 DEF windowBuffer3x3!writePtr
<1>6. fire => front \in [Taps -> Cell]
  BY <1>2, <1>3, <1>4 DEF windowBuffer3x3!Front
<1> HIDE DEF fire, Slot, Cell, wp, pixel, front
<1>7. delay' \in Nat /\ writeOffset' \in Nat
  BY <1>1, <1>2
<1>8. readPtr' \in Slot
  <2>1. (readPtr + 1) % MaxRowWidth \in Slot /\ 0 \in Slot
    BY <1>2, <1>4
  <2> QED
    BY <1>1, <1>2, <2>1
<1>9. row0' \in [Slot -> Cell] /\ row1' \in [Slot -> Cell]
  BY <1>1, <1>2, <1>3, <1>5
<1>10. cache' \in [Taps -> [Taps -> Cell]]
  <2>1. CASE fire
    <3>1. \A r \in Taps, c \in Taps : (IF c = 0 THEN front[r] ELSE cache[r][c - 1]) \in Cell
      BY <1>2, <1>4, <1>6, <2>1
    <3> QED
      BY <1>1, <2>1, <3>1
  <2>2. CASE ~fire
    BY <1>1, <1>2, <2>2
  <2> QED
    BY <2>1, <2>2
<1> QED
  BY <1>1, <1>7, <1>8, <1>9, <1>10 DEF windowBuffer3x3!TypeOK, Slot, Cell

\* Words stay words of pixels when one is taken and another written.
LEMMA WordsStep ==
    ASSUME HostInv, Loaded, NEW xWrite \in BOOLEAN, NEW word, NEW yWrite, NEW zRead,
           Cycle(FALSE, xWrite, word, yWrite, zRead),
           xWrite => word \in [0 .. 3 -> Pixel]
    PROVE  \A j \in 1 .. Len(xQueue') : xQueue'[j] \in [0 .. 3 -> Pixel]
<1>1. FifosOK
  BY HostInvParts
<1>2. PICK push \in {0, 1} : push = 1 <=> xWrite /\ xFifo!PushReady
  <2>1. (IF xWrite /\ xFifo!PushReady THEN 1 ELSE 0) \in {0, 1}
    OBVIOUS
  <2> QED
    BY <2>1
<1>3. XMoved(push, word)
  BY <1>1, <1>2, XMoves
<1> USE <1>3 DEF XMoved
<1>4. \A j \in 1 .. Len(xQueue) : xQueue[j] \in [0 .. 3 -> Pixel]
  BY DEF Loaded
<1> SUFFICES ASSUME NEW j \in 1 .. Len(xQueue') PROVE xQueue'[j] \in [0 .. 3 -> Pixel]
  OBVIOUS
<1>5. CASE j <= Len(xQueue) - XPop
  <2>1. j \in 1 .. Len(xQueue) - XPop /\ j + XPop \in 1 .. Len(xQueue)
    BY <1>3, <1>5
  <2> QED
    BY <1>3, <1>4, <2>1
<1>6. CASE ~(j <= Len(xQueue) - XPop)
  <2>1. push = 1 /\ j = Len(xQueue) - XPop + 1
    BY <1>3, <1>6
  <2> QED
    BY <1>2, <1>3, <2>1
<1> QED
  BY <1>5, <1>6

\* Every word the driver may send is made of pixels.
LEMMA WordIsPixels ==
    ASSUME Loaded, step >= 1, NEW w \in 1 .. MaxWords
    PROVE  promise!Word(w) \in [0 .. 3 -> Pixel]
<1>1. run \in 1 .. MaxRuns
  BY PixelAssumption DEF Loaded
<1>2. \A b \in 0 .. 3 : 4 * (w - 1) + b + 1 \in 1 .. 4 * MaxWords
  BY PixelAssumption
<1>3. \A b \in 0 .. 3 : <<run, 4 * (w - 1) + b + 1>> \in Pixel
  BY <1>1, <1>2, PixelAssumption
<1> QED
  BY <1>3 DEF promise!Word

\* The kernels the driver has loaded for the run.
KernelsLoaded ==
    step >= 2 => \A a \in 0 .. geometry.channels - 1, b \in 0 .. 3 :
                    4 * a + b < step - 2 => yMem[a][b] = promise!KernelWord(a, b)

\* The parts of Loaded that a cycle preserves whatever the command is.
MachineLoaded ==
    /\ \A j \in 1 .. Len(xQueue) : xQueue[j] \in [0 .. 3 -> Pixel]
    /\ windowBuffer3x3!TypeOK

LEMMA MachineLoadedStep ==
    ASSUME HostInv, Loaded, NEW xWrite \in BOOLEAN, NEW word, NEW yWrite, NEW zRead,
           Cycle(FALSE, xWrite, word, yWrite, zRead),
           xWrite => word \in [0 .. 3 -> Pixel]
    PROVE  MachineLoaded'
  BY WordsStep, CellsStep DEF MachineLoaded

LEMMA MachineLoadedInit ==
    ASSUME HostInv, Loaded, StartRun
    PROVE  MachineLoaded'
<1>1. Cycle(TRUE, FALSE, Garbage, NoWrite, FALSE)
  BY DEF StartRun, WriteInit
<1>2. windowBuffer3x3!TypeOK'
  BY <1>1, CellsStep
<1>3. Len(xQueue') = 0
  <2>1. /\ FifosOK /\ TRUE \in BOOLEAN /\ FALSE \in BOOLEAN /\ 0 \in {0, 1}
        /\ 0 = 1 <=> FALSE /\ xFifo!PushReady
        /\ 0 = 1 <=> FALSE /\ zFifo!PopValid
    BY HostInvParts
  <2> QED
    BY <1>1, <2>1, CycleFifos
<1> QED
  BY <1>2, <1>3 DEF MachineLoaded

LEMMA KernelsStay ==
    ASSUME NEW init, NEW xWrite, NEW word, NEW zRead,
           Cycle(init, xWrite, word, NoWrite, zRead)
    PROVE  yMem' = yMem
  BY DEF Cycle, Clock, YMemWrite, NoWrite

\* One word of a kernel.
LEMMA LoadKernelStep ==
    ASSUME HostInv, Loaded, LoadKernel
    PROVE  /\ yMem' = [a \in 0 .. YMemDepth - 1 |-> [b \in 0 .. 3 |-> yMem'[a][b]]]
           /\ KernelsLoaded'
<1> DEFINE address == step - 2
           at == address \div 4
           bank == address % 4
           data == promise!KernelWord(at, bank)
           write == [valid |-> TRUE, address |-> address, data |-> data]
<1>1. /\ step \in 2 .. 1 + KernelSteps /\ step' = step + 1
      /\ Cycle(FALSE, FALSE, Garbage, write, FALSE)
      /\ UNCHANGED <<run, geometry>>
  BY DEF LoadKernel, WriteY
<1>2. /\ KernelSteps = 4 * geometry.channels /\ geometry.channels \in 1 .. YMemDepth
      /\ YMemDepth \in Nat
  BY HostInvParts, YMemDepthAssumption DEF KernelSteps
<1>3. address \in 0 .. 4 * geometry.channels - 1 /\ address \in Nat
  BY <1>1, <1>2
<1>4. yMem' = [yMem EXCEPT ![at][bank] = data]
  <2>1. write.valid /\ write.address = address /\ write.data = data
    OBVIOUS
  <2>2. YMemWrite(write)
    BY <1>1 DEF Cycle, Clock
  <2> HIDE DEF write, address, data
  <2> QED
    BY <2>1, <2>2 DEF YMemWrite
<1>5. address = 4 * at + bank /\ at \in 0 .. geometry.channels - 1 /\ bank \in 0 .. 3
  BY <1>2, <1>3
<1>6. yMem = [a \in 0 .. YMemDepth - 1 |-> [b \in 0 .. 3 |-> yMem[a][b]]]
  BY DEF Loaded
<1> HIDE DEF at, bank, data
<1>7. \A a \in 0 .. YMemDepth - 1, b \in 0 .. 3 :
         yMem'[a][b] = IF a = at /\ b = bank THEN data ELSE yMem[a][b]
  BY <1>2, <1>4, <1>5, <1>6
<1>8. yMem' = [a \in 0 .. YMemDepth - 1 |-> [b \in 0 .. 3 |-> yMem'[a][b]]]
  <2> DEFINE row(a) == IF a = at THEN [yMem[a] EXCEPT ![bank] = data] ELSE yMem[a]
  <2>1. yMem' = [a \in 0 .. YMemDepth - 1 |-> row(a)]
    BY <1>2, <1>4, <1>5, <1>6
  <2>2. \A a \in 0 .. YMemDepth - 1 : row(a) = [b \in 0 .. 3 |-> row(a)[b]]
    BY <1>6
  <2> HIDE DEF row
  <2> QED
    BY <2>1, <2>2
<1>9. KernelsLoaded'
  <2> SUFFICES ASSUME NEW a \in 0 .. geometry.channels - 1, NEW b \in 0 .. 3,
                      4 * a + b < address + 1
               PROVE  yMem'[a][b] = promise!KernelWord(a, b)
    BY <1>1 DEF KernelsLoaded, promise!KernelWord
  <2>1. a \in 0 .. YMemDepth - 1
    BY <1>2
  <2>2. CASE a = at /\ b = bank
    BY <1>7, <2>1, <2>2 DEF data
  <2>3. CASE ~(a = at /\ b = bank)
    <3>1. 4 * a + b < step - 2
      BY <1>1, <1>3, <1>5, <2>3
    <3>2. yMem[a][b] = promise!KernelWord(a, b)
      BY <1>1, <3>1 DEF Loaded
    <3> QED
      BY <1>7, <2>1, <2>3, <3>2
  <2> QED
    BY <2>2, <2>3
<1> QED
  BY <1>8, <1>9

\* What is loaded stays, when the machine's part does.
LEMMA LoadedAgain ==
    ASSUME Loaded, MachineLoaded', yMem' = yMem,
           run' = run, geometry' = geometry, rowBufferRowWidth' = rowBufferRowWidth,
           words' \in 0 .. MaxWords,
           \/ step' = step
           \/ step' = step + 1 /\ step = 2 + 4 * geometry.channels,
           HostInv
    PROVE  Loaded'
<1>1. step \in Nat /\ geometry.channels \in Nat /\ YMemDepth \in Nat
  BY HostInvParts, YMemDepthAssumption
<1>2. step' >= 1 => step >= 1
  BY <1>1
<1>3. ASSUME step' >= 2, NEW a \in 0 .. geometry.channels - 1, NEW b \in 0 .. 3,
             4 * a + b < step' - 2
      PROVE  yMem[a][b] = promise!KernelWord(a, b)
  <2>1. step >= 2 /\ 4 * a + b < step - 2
    BY <1>1, <1>3
  <2> QED
    BY <2>1 DEF Loaded
<1>4. \A a, b : promise!KernelWord(a, b)' = promise!KernelWord(a, b)
  BY DEF promise!KernelWord
<1> QED
  BY <1>2, <1>3, <1>4 DEF Loaded, MachineLoaded

LEMMA LoadedStep ==
    ASSUME HostInv, Loaded, [Next]_vars
    PROVE  Loaded'
<1>1. /\ KernelSteps = 4 * geometry.channels /\ geometry.channels \in Nat /\ step \in Nat
      /\ FALSE \in BOOLEAN /\ TRUE \in BOOLEAN /\ MaxWords \in Nat /\ MaxRuns \in Nat
      /\ words \in 0 .. MaxWords /\ run \in 0 .. MaxRuns
  BY HostInvParts, YMemDepthAssumption, PixelAssumption DEF KernelSteps, Loaded
<1>2. CASE ConfigureRows
  <2>1. PICK g \in Geometries : geometry' = g /\ WriteRowBuffer(g.width, g.delay)
    BY <1>2 DEF ConfigureRows
  <2>2. g.width \in Nat
    BY RowsAssumption
  <2>3. /\ Cycle(FALSE, FALSE, Garbage, NoWrite, FALSE)
        /\ rowBufferRowWidth' = geometry'.width /\ geometry'.width \in Nat
        /\ run' = run + 1 /\ run < MaxRuns /\ words' = 0 /\ step' = 1
    BY <1>2, <2>2, <2>1 DEF ConfigureRows, WriteRowBuffer
  <2>4. MachineLoaded'
    BY <1>1, <2>3, MachineLoadedStep
  <2>5. yMem' = yMem
    BY <2>3, KernelsStay
  <2> QED
    BY <1>1, <2>3, <2>4, <2>5 DEF Loaded, MachineLoaded
<1>3. CASE ConfigureChannels
  <2>1. /\ Cycle(FALSE, FALSE, Garbage, NoWrite, FALSE)
        /\ step = 1 /\ step' = 2
        /\ UNCHANGED <<run, geometry, words, rowBufferRowWidth>>
    BY <1>3 DEF ConfigureChannels, WriteChannels
  <2>2. MachineLoaded'
    BY <1>1, <2>1, MachineLoadedStep
  <2>3. yMem' = yMem
    BY <2>1, KernelsStay
  <2>4. \A a \in Nat, b \in 0 .. 3 : ~(4 * a + b < step' - 2)
    BY <2>1
  <2> QED
    BY <1>1, <2>1, <2>2, <2>3, <2>4 DEF Loaded, MachineLoaded
<1>4. CASE LoadKernel
  <2>1. PICK write : Cycle(FALSE, FALSE, Garbage, write, FALSE)
    BY <1>4 DEF LoadKernel, WriteY
  <2>2. /\ step >= 2 /\ step' = step + 1
        /\ UNCHANGED <<run, geometry, words, rowBufferRowWidth>>
    BY <1>1, <1>4 DEF LoadKernel, WriteY, config
  <2>3. MachineLoaded'
    BY <1>1, <2>1, MachineLoadedStep
  <2>4. /\ yMem' = [a \in 0 .. YMemDepth - 1 |-> [b \in 0 .. 3 |-> yMem'[a][b]]]
        /\ KernelsLoaded'
    BY <1>4, LoadKernelStep
  <2>5. /\ run' \in 0 .. MaxRuns /\ run' >= 1 /\ words' \in 0 .. MaxWords
        /\ rowBufferRowWidth' \in Nat /\ rowBufferRowWidth' = geometry'.width
    BY <1>1, <2>2 DEF Loaded
  <2> QED
    BY <2>3, <2>4, <2>5 DEF Loaded, MachineLoaded, KernelsLoaded
<1>5. CASE StartRun
  <2>1. /\ Cycle(TRUE, FALSE, Garbage, NoWrite, FALSE)
        /\ step = 2 + KernelSteps /\ step' = step + 1
        /\ UNCHANGED <<run, geometry, words, rowBufferRowWidth>>
    BY <1>5 DEF StartRun, WriteInit, config
  <2>2. yMem' = yMem
    BY <2>1, KernelsStay
  <2> QED
    BY <1>1, <1>5, <2>1, <2>2, MachineLoadedInit, LoadedAgain
<1>6. CASE Pause \/ Poll
  <2>1. /\ Cycle(FALSE, FALSE, Garbage, NoWrite, FALSE)
        /\ UNCHANGED <<run, geometry, words, rowBufferRowWidth, step>>
    BY <1>6 DEF Pause, Poll, Idle, driver, config
  <2>2. yMem' = yMem /\ MachineLoaded'
    BY <1>1, <2>1, KernelsStay, MachineLoadedStep
  <2> QED
    BY <1>1, <2>1, <2>2, LoadedAgain
<1>7. CASE SendWord
  <2>1. /\ Running /\ words < MaxWords /\ words' = words + 1
        /\ Cycle(FALSE, TRUE, promise!Word(words + 1), NoWrite, FALSE)
        /\ UNCHANGED <<run, geometry, rowBufferRowWidth, step>>
    BY <1>7 DEF SendWord, WriteX, config
  <2>2. promise!Word(words + 1) \in [0 .. 3 -> Pixel]
    <3>1. step >= 1 /\ words + 1 \in 1 .. MaxWords
      BY <1>1, <2>1 DEF Running
    <3> QED
      BY <3>1, WordIsPixels
  <2>3. yMem' = yMem /\ MachineLoaded'
    BY <1>1, <2>1, <2>2, KernelsStay, MachineLoadedStep
  <2>4. words' \in 0 .. MaxWords
    BY <1>1, <2>1
  <2> QED
    BY <1>1, <2>1, <2>3, <2>4, LoadedAgain
<1>8. CASE ReceiveResult
  <2>1. /\ Cycle(FALSE, FALSE, Garbage, NoWrite, TRUE)
        /\ UNCHANGED <<run, geometry, words, rowBufferRowWidth, step>>
    BY <1>8 DEF ReceiveResult, ReadZ, config
  <2>2. yMem' = yMem /\ MachineLoaded'
    BY <1>1, <2>1, KernelsStay, MachineLoadedStep
  <2> QED
    BY <1>1, <2>1, <2>2, LoadedAgain
<1>9. CASE UNCHANGED vars
  <2> USE <1>9 DEF vars, ctlrRegs, busRegs, driver, config
  <2>1. MachineLoaded'
    BY DEF Loaded, MachineLoaded, windowBuffer3x3!TypeOK
  <2> QED
    BY <1>1, <2>1, LoadedAgain
<1> QED
  BY <1>2, <1>3, <1>4, <1>5, <1>6, <1>7, <1>8, <1>9 DEF Next

-----------------------------------------------------------------------------
(* A cycle of a run that is set up, in the numbers that tell results apart. *)

\* push words are written in the cycle, the next ones of the run, and pop
\* results are read.
RunCycle(xWrite, word, yWrite, zRead, push, pop) ==
    /\ Cycle(FALSE, xWrite, word, yWrite, zRead)
    /\ push \in {0, 1} /\ (push = 1 <=> xWrite /\ xFifo!PushReady)
    /\ pop \in {0, 1} /\ (pop = 1 <=> zRead /\ zFifo!PopValid)
    /\ words' = words + push /\ received' = received + pop
    /\ push = 1 => word = promise!Word(words + 1)
    /\ UNCHANGED <<run, geometry, step>>

\* The numbers of pixels and windows before and after a cycle.
Counted ==
    /\ Taken \in Nat /\ Taken' = Taken + (IF Fire THEN 1 ELSE 0)
    /\ Fire => Taken < 4 * words
    /\ Taken = 4 * (words - Len(xQueue)) + counter
    /\ Made = (IF Taken > geometry.delay THEN Taken - geometry.delay ELSE 0)
    /\ delay = (IF Taken < geometry.delay THEN geometry.delay - Taken ELSE 0)
    /\ Looped \in Nat
    /\ Looped' = Looped + (IF pendingRsp /\ state = "sGetNext" THEN 1 ELSE 0)
    /\ pendingRsp => Taken = geometry.delay + Looped + 1

LEMMA RunCounted ==
    ASSUME HostInv, SetUp, RunData, NEW xWrite \in BOOLEAN, NEW word, NEW yWrite,
           NEW zRead \in BOOLEAN, NEW push, NEW pop,
           RunCycle(xWrite, word, yWrite, zRead, push, pop)
    PROVE  Counted
<1> DEFINE D == geometry.delay
           fire == IF Fire THEN 1 ELSE 0
<1>1. /\ FifosOK /\ TypeOK /\ Aligned /\ Accounted /\ D \in Nat
      /\ words \in Nat /\ delay \in Nat /\ counter \in 0 .. 3 /\ pendingRsp \in BOOLEAN
  BY HostInvParts DEF TypeOK, Aligned
<1>2. /\ state \in {"sGetNext", "sLoop"} /\ state \in States
      /\ state \notin {"boot", "sInit"} /\ FALSE \in BOOLEAN
  BY DEF SetUp, States
<1>3. /\ Cycle(FALSE, xWrite, word, yWrite, zRead)
      /\ push \in {0, 1} /\ (push = 1 <=> xWrite /\ xFifo!PushReady)
      /\ pop \in {0, 1} /\ (pop = 1 <=> zRead /\ zFifo!PopValid)
      /\ words' = words + push /\ geometry' = geometry
  BY DEF RunCycle
<1>4. /\ Waiting \in Int /\ Waiting' \in Int
      /\ Waiting' = Waiting - fire + 4 * push
      /\ Fire => Waiting > 0
  BY <1>1, <1>2, <1>3, CycleWaiting
<1>5. /\ pendingRsp' <=> \/ Fire /\ delay = 0
                         \/ pendingRsp /\ state # "sGetNext"
      /\ Fire /\ delay = 0 => state = "sGetNext"
  BY <1>1, <1>3, CycleMachine
<1>6. /\ Taken \in Int /\ Taken' = Taken + fire /\ 0 <= Taken /\ 0 <= Waiting
      /\ delay = IF Taken < D THEN D - Taken ELSE 0
      /\ Taken = 4 * words - Waiting
  BY <1>1, <1>3, <1>4 DEF Taken, promise!Pixels, Accounted
<1>7. Len(xQueue) \in Nat /\ Waiting = 4 * Len(xQueue) - counter
  BY <1>1, XCounts DEF Waiting, FifosOK, xFifo!TypeOK
<1>8. /\ Made = IF Taken > D THEN Taken - D ELSE 0
      /\ Made' = IF Taken' > D THEN Taken' - D ELSE 0
  BY <1>3 DEF Made
<1>9. pendingRsp => Taken > D
  <2>1. Stream \in Seq(Pixel) /\ Len(Stream) = Taken
    <3>1. buffer!StreamTypeOK
      BY DEF RunData, WindowData, buffer!IInv
    <3> QED
      BY <1>6, <3>1 DEF Stream, buffer!StreamTypeOK
  <2>2. buffer!PendingInv
    BY DEF RunData, WindowData, buffer!IInv
  <2> QED
    BY <2>1, <2>2 DEF buffer!PendingInv
<1>10. /\ Looped = Made - (IF pendingRsp THEN 1 ELSE 0)
       /\ Looped' = Made' - (IF pendingRsp' THEN 1 ELSE 0)
  BY DEF Looped
<1>11. Taken = 4 * (words - Len(xQueue)) + counter /\ (Fire => Taken < 4 * words)
  BY <1>1, <1>4, <1>6, <1>7
<1>12. Looped \in Nat /\ (pendingRsp => Taken = D + Looped + 1)
  BY <1>1, <1>6, <1>8, <1>9, <1>10
<1>13. Looped' = Looped + (IF pendingRsp /\ state = "sGetNext" THEN 1 ELSE 0)
  BY <1>1, <1>5, <1>6, <1>8, <1>9, <1>10
<1> QED
  BY <1>6, <1>8, <1>11, <1>12, <1>13 DEF Counted

\* The pixel that the window buffer takes is the next one of the run.
LEMMA PixelsInOrder ==
    ASSUME HostInv, Loaded, SetUp, RunData, Counted, Fire
    PROVE  NextPixel = <<run, Taken + 1>> /\ NextPixel \in Pixel /\ Taken < 4 * MaxWords
<1>1. /\ NextPixel = xQueue[1][counter] /\ NextPixel \in Pixel
      /\ Len(xQueue) \in Nat \ {0} /\ counter \in 0 .. 3
  BY NextPixelIs DEF Fire
<1>2. xQueue[1] = promise!Word(words - Len(xQueue) + 1)
  BY <1>1 DEF RunData, XData
<1>3. words \in 0 .. MaxWords /\ MaxWords \in Nat
  BY PixelAssumption DEF Loaded
<1>4. xQueue[1][counter] = <<run, 4 * ((words - Len(xQueue) + 1) - 1) + counter + 1>>
  BY <1>1, <1>2 DEF promise!Word
<1>5. 4 * ((words - Len(xQueue) + 1) - 1) + counter + 1 = Taken + 1 /\ Taken < 4 * words
  BY <1>1, <1>3 DEF Counted
<1> QED
  BY <1>1, <1>3, <1>4, <1>5 DEF Counted

\* The cycle as the window buffer sees it; it is not initialised in a run.
LEMMA BufferClock ==
    ASSUME SetUp, Loaded, NEW xWrite, NEW word, NEW yWrite, NEW zRead,
           Cycle(FALSE, xWrite, word, yWrite, zRead),
           NEW offered \in BOOLEAN, NEW open \in BOOLEAN,
           offered = xFifo!PopValid, open = WindowReady,
           NEW pixel, Fire => pixel = NextPixel
    PROVE  /\ buffer!Clock(FALSE, writeOffset, geometry.delay, offered, pixel, open)
           /\ buffer!InputFire(offered, open) <=> Fire
<1> DEFINE fire == buffer!InputFire(offered, open)
<1>1. fire <=> Fire
  BY DEF buffer!InputFire, buffer!InputReady, Fire, PixelReady, windowBuffer3x3!InputReady
<1>2. fire <=> windowBuffer3x3!InputFire(xFifo!PopValid, WindowReady)
  BY DEF buffer!InputFire, buffer!InputReady, windowBuffer3x3!InputFire,
         windowBuffer3x3!InputReady
<1>3. ~WindowInit
  BY DEF SetUp, WindowInit
<1>4. windowBuffer3x3!Clock(WindowInit, rowBufferRowWidth, rowBufferInitialDelay,
                            xFifo!PopValid, NextPixel, WindowReady)
  BY DEF Cycle, Clock, NextPixel
<1> HIDE DEF fire
<1>5. /\ row0' = IF fire THEN [row0 EXCEPT ![buffer!writePtr] = NextPixel] ELSE row0
      /\ row1' = IF fire THEN [row1 EXCEPT ![buffer!writePtr] = row0[readPtr]] ELSE row1
      /\ readPtr' = IF fire THEN (readPtr + 1) % MaxRowWidth ELSE readPtr
      /\ writeOffset' = writeOffset
  BY <1>2, <1>3, <1>4 DEF windowBuffer3x3!Clock, windowBuffer3x3!RowShifter,
     windowBuffer3x3!writePtr, buffer!writePtr
<1>6. cache' = IF fire
               THEN [r \in buffer!Taps |-> [c \in buffer!Taps |->
                       IF c = 0 THEN buffer!Front(NextPixel)[r] ELSE cache[r][c - 1]]]
               ELSE cache
  BY <1>2, <1>4 DEF windowBuffer3x3!Clock, windowBuffer3x3!WindowCache,
     windowBuffer3x3!Front, buffer!Front, windowBuffer3x3!Taps, buffer!Taps
<1>7. /\ delay' = delay - (IF fire /\ delay # 0 THEN 1 ELSE 0)
      /\ pendingRsp' = \/ fire /\ delay = 0
                       \/ pendingRsp /\ ~buffer!OutputFire(open)
  BY <1>2, <1>3, <1>4 DEF windowBuffer3x3!Clock, windowBuffer3x3!DelayCounter,
     windowBuffer3x3!PendingRsp, windowBuffer3x3!OutputFire, buffer!OutputFire
<1>8. fire => pixel = NextPixel
  BY <1>1
<1>9. buffer!RowShifter(FALSE, writeOffset, fire, pixel)
  BY <1>5, <1>8 DEF buffer!RowShifter
<1>10. buffer!WindowCache(fire, pixel)
  BY <1>6, <1>8 DEF buffer!WindowCache
<1>11. buffer!DelayCounter(FALSE, geometry.delay, fire) /\ buffer!PendingRsp(fire, open)
  BY <1>7 DEF buffer!DelayCounter, buffer!PendingRsp
<1> QED
  BY <1>1, <1>9, <1>10, <1>11 DEF buffer!Clock, fire

\* What the proofs about the window buffer assume.
LEMMA BufferAssumptions ==
    buffer!ConfigAssumption /\ MaxRowWidth \in Nat \ {0} /\ 4 * MaxWords \in Nat
<1>1. \A g \in Geometries : g.width \in Nat /\ g.delay \in Nat
  BY RowsAssumption, GeometryAssumption
<1> QED
  BY <1>1, RowsAssumption, PixelAssumption
     DEF buffer!ConfigAssumption, buffer!BufferAssumption

\* The window buffer takes the next pixel of the run, or waits: its invariant
\* is the one that is proved for it alone.
LEMMA BufferStep ==
    ASSUME HostInv, Loaded, SetUp, RunData, Counted,
           NEW xWrite, NEW word, NEW yWrite, NEW zRead,
           Cycle(FALSE, xWrite, word, yWrite, zRead),
           run' = run, geometry' = geometry
    PROVE  WindowData'
<1> DEFINE pixel == <<run, Taken + 1>>
<1>1. writeOffset = geometry.width /\ buffer!IInv
  BY DEF RunData, WindowData
<1>2. PICK offered \in BOOLEAN : offered = xFifo!PopValid
  <2>1. xFifo!PopValid \in BOOLEAN
    BY DEF xFifo!PopValid
  <2> QED
    BY <2>1
<1>3. PICK open \in BOOLEAN : open = WindowReady
  <2>1. WindowReady \in BOOLEAN
    BY DEF WindowReady
  <2> QED
    BY <2>1
<1>4. Fire => NextPixel = pixel /\ pixel \in Pixel /\ Taken < 4 * MaxWords
  BY PixelsInOrder
<1>5. /\ Looped \in Nat /\ Taken \in Nat
      /\ Looped' = Looped + (IF pendingRsp /\ state = "sGetNext" THEN 1 ELSE 0)
      /\ Taken' = Taken + (IF Fire THEN 1 ELSE 0)
  BY DEF Counted
<1>6. Looped' = Looped + buffer!Bit(buffer!OutputFire(open))
  BY <1>3, <1>5 DEF buffer!Bit, buffer!OutputFire, WindowReady
<1>7. Len(Stream) = Taken
  BY <1>5 DEF Stream
<1>8. buffer!IInv'
  <2>1. CASE Fire
    <3>1. /\ buffer!Clock(FALSE, writeOffset, geometry.delay, offered, pixel, open)
          /\ buffer!InputFire(offered, open)
      BY <1>2, <1>3, <1>4, <2>1, BufferClock
    <3>2. Stream' = Append(Stream, pixel)
      <4>1. Taken' = Taken + 1
        BY <1>5, <2>1
      <4>2. Stream' = [i \in 1 .. Taken + 1 |-> <<run, i>>]
        BY <4>1 DEF Stream
      <4> QED
        BY <1>5, <4>2 DEF Stream
    <3>3. offered = TRUE
      BY <1>2, <2>1 DEF Fire
    <3>4. /\ buffer!Clock(FALSE, writeOffset, geometry.delay, TRUE, pixel, open)
          /\ buffer!InputFire(TRUE, open)
      BY <3>1, <3>3
    <3>5. pixel \in Pixel /\ Len(Stream) < 4 * MaxWords
      BY <1>4, <1>7, <2>1
    <3>6. UNCHANGED <<geometry.delay, 0>>
      OBVIOUS
    <3> HIDE DEF pixel
    <3>7. buffer!Accept(pixel, open)
      BY <1>6, <3>2, <3>4, <3>5, <3>6 DEF buffer!Accept
    <3> QED
      BY <1>1, <3>5, <3>7, BufferAssumptions, buffer!AcceptIInv
  <2>2. CASE ~Fire
    <3>1. PICK any \in Pixel : TRUE
      <4>1. run \in 1 .. MaxRuns /\ 1 \in 1 .. 4 * MaxWords
        <5>1. step >= 1
          BY HostInvParts DEF SetUp, Running
        <5> QED
          BY <5>1, PixelAssumption DEF Loaded
      <4>2. <<run, 1>> \in Pixel
        BY <4>1, PixelAssumption
      <4> QED
        BY <4>2
    <3>2. /\ buffer!Clock(FALSE, writeOffset, geometry.delay, offered, any, open)
          /\ ~buffer!InputFire(offered, open)
      BY <1>2, <1>3, <2>2, BufferClock
    <3>3. Stream' = Stream
      BY <1>5, <2>2 DEF Stream
    <3>4. UNCHANGED <<Stream, geometry.delay, 0>>
      BY <3>3
    <3>5. buffer!Wait(offered, open)
      BY <1>6, <3>1, <3>2, <3>4 DEF buffer!Wait
    <3> QED
      BY <1>1, <3>5, BufferAssumptions, buffer!WaitIInv
  <2> QED
    BY <2>1, <2>2
<1>9. writeOffset' = writeOffset
  <2>1. ~WindowInit
    BY DEF SetUp, WindowInit
  <2> QED
    BY <2>1, CellsStep
<1> QED
  BY <1>1, <1>8, <1>9 DEF WindowData

\* The promise speaks of the run and its geometry, and of nothing else.
PromiseStays ==
    /\ \A w : promise!Word(w)' = promise!Word(w)
    /\ \A n : promise!Window(n)' = promise!Window(n)
    /\ \A k : promise!Result(k)' = promise!Result(k)

LEMMA PromiseInRun ==
    ASSUME run' = run, geometry' = geometry
    PROVE  PromiseStays
<1>1. \A w : promise!Word(w)' = promise!Word(w)
  BY DEF promise!Word
<1>2. \A n : promise!Window(n)' = promise!Window(n)
  BY DEF promise!Window
<1>3. \A k : promise!Result(k)' = promise!Result(k)
  BY DEF promise!Result, promise!Window, promise!Kernel, promise!KernelWord
<1> QED
  BY <1>1, <1>2, <1>3 DEF PromiseStays

\* The words in the X FIFO are the last ones sent.
LEMMA XDataStep ==
    ASSUME HostInv, Loaded, RunData, NEW push \in {0, 1}, NEW word,
           XMoved(push, word), words' = words + push,
           push = 1 => word = promise!Word(words + 1), PromiseStays
    PROVE  XData'
<1>1. /\ XPop \in {0, 1} /\ Len(xQueue) \in Nat /\ words \in Nat
      /\ Len(xQueue') = Len(xQueue) - XPop + push
  BY HostInvParts DEF XMoved, TypeOK
<1>2. \A j \in 1 .. Len(xQueue) : xQueue[j] = promise!Word(words - Len(xQueue) + j)
  BY DEF RunData, XData
<1>3. ASSUME NEW j \in 1 .. Len(xQueue')
      PROVE  xQueue'[j] = promise!Word(words' - Len(xQueue') + j)
  <2>1. CASE j <= Len(xQueue) - XPop
    <3>1. /\ j \in 1 .. Len(xQueue) - XPop /\ j + XPop \in 1 .. Len(xQueue)
          /\ words' - Len(xQueue') + j = words - Len(xQueue) + (j + XPop)
      BY <1>1, <2>1
    <3> QED
      BY <1>2, <3>1 DEF XMoved
  <2>2. CASE ~(j <= Len(xQueue) - XPop)
    <3>1. /\ push = 1 /\ j = Len(xQueue) - XPop + 1
          /\ words' - Len(xQueue') + j = words + 1
      BY <1>1, <2>2
    <3> QED
      BY <3>1 DEF XMoved
  <2> QED
    BY <2>1, <2>2
<1> QED
  BY <1>3 DEF XData, PromiseStays

\* What leaves the pipeline is the next result of those in the Z FIFO.
LEMMA ZDataStep ==
    ASSUME HostInv, RunData, NEW pop \in {0, 1}, ZMoved(pop), received' = received + pop,
           PromiseStays
    PROVE  ZData' /\ Left' = Left + ZPush /\ Left \in Nat
<1>1. /\ ZPush \in {0, 1} /\ Len(zQueue) \in Nat /\ received \in Nat
      /\ Len(zQueue') = Len(zQueue) - pop + ZPush
  BY HostInvParts DEF ZMoved, TypeOK
<1>2. \A j \in 1 .. Len(zQueue) : zQueue[j] = promise!Result(received + j)
  BY DEF RunData, ZData
<1>3. ZPush = 1 => stage[Stages] = promise!Result(Left + 1)
  <2>1. Stages \in 1 .. Stages
    BY PipelineAssumption
  <2>2. ASSUME stage[Stages] # NoCommand PROVE Cardinality(Behind(Stages)) = 1
    <3>1. Behind(Stages) = {Stages}
      BY PipelineAssumption, <2>2 DEF Behind
    <3> QED
      BY <3>1, FS_Singleton
  <2> QED
    BY <2>1, <2>2 DEF ZMoved, RunData, PipelineData
<1>4. ASSUME NEW j \in 1 .. Len(zQueue')
      PROVE  zQueue'[j] = promise!Result(received' + j)
  <2>1. CASE j <= Len(zQueue) - pop
    <3>1. /\ j \in 1 .. Len(zQueue) - pop /\ j + pop \in 1 .. Len(zQueue)
          /\ received' + j = received + (j + pop)
      BY <1>1, <2>1
    <3> QED
      BY <1>2, <3>1 DEF ZMoved
  <2>2. CASE ~(j <= Len(zQueue) - pop)
    <3>1. /\ ZPush = 1 /\ j = Len(zQueue) - pop + 1
          /\ received' + j = Left + 1
      BY <1>1, <2>2 DEF Left
    <3> QED
      BY <1>3, <3>1 DEF ZMoved
  <2> QED
    BY <2>1, <2>2
<1>5. Left' = Left + ZPush /\ Left \in Nat
  BY <1>1 DEF Left
<1> QED
  BY <1>4, <1>5 DEF ZData, PromiseStays

\* The window that goes on to the loop is the one the promise names.
LEMMA WindowInHand ==
    ASSUME HostInv, SetUp, RunData, Counted, pendingRsp
    PROVE  windowBuffer3x3!OutputPayload = promise!Window(geometry.delay + Looped + 1)
<1> DEFINE W == geometry.width
           n == geometry.delay + Looped + 1
<1>1. geometry \in Geometries
  BY HostInvParts
<1>2. /\ W \in 1 .. MaxRowWidth /\ MaxRowWidth \in Nat \ {0}
      /\ geometry.delay \in Nat /\ geometry.delay >= 2 * W + 2
  BY <1>1, RowsAssumption, GeometryAssumption
<1>3. writeOffset = W /\ buffer!CacheInv
  BY DEF RunData, WindowData, buffer!IInv
<1>4. Taken = n /\ Looped \in Nat
  BY DEF Counted
<1>5. Len(Stream) = n /\ n \in Nat /\ n >= 2 * W + 3
  BY <1>2, <1>4 DEF Stream
<1>6. buffer!RowWidth = W
  <2>1. W % MaxRowWidth = IF W = MaxRowWidth THEN 0 ELSE W
    BY <1>2
  <2> QED
    BY <1>2, <1>3, <2>1 DEF buffer!RowWidth
<1> HIDE DEF W, n
<1>7. ASSUME NEW k \in 0 .. 8
      PROVE  cache[(8 - k) \div 3][(8 - k) % 3]
                = <<run, n - ((8 - k) \div 3) * W - ((8 - k) % 3)>>
  <2> DEFINE r == (8 - k) \div 3
             c == (8 - k) % 3
  <2>1. r \in 0 .. 2 /\ c \in 0 .. 2
    OBVIOUS
  <2> HIDE DEF r, c
  <2>2. n - r * W - c \in 1 .. n
    <3>1. r = 0 \/ r = 1 \/ r = 2
      BY <2>1
    <3> QED
      BY <1>2, <1>5, <2>1, <3>1
  <2>3. buffer!Position(r, c) = n - r * W - c
    BY <1>5, <1>6 DEF buffer!Position
  <2>4. cache[r][c] = Stream[n - r * W - c]
    BY <1>3, <2>1, <2>2, <2>3 DEF buffer!CacheInv, buffer!Taps
  <2>5. Stream[n - r * W - c] = <<run, n - r * W - c>>
    BY <1>4, <2>2 DEF Stream
  <2> QED
    BY <2>4, <2>5 DEF r, c
<1> QED
  BY <1>7 DEF windowBuffer3x3!OutputPayload, promise!Window, n, W

LEMMA LoopDataStep ==
    ASSUME HostInv, SetUp, RunData, Counted,
           NEW xWrite, NEW word, NEW yWrite, NEW zRead,
           Cycle(FALSE, xWrite, word, yWrite, zRead),
           geometry' = geometry, PromiseStays
    PROVE  LoopData'
<1>1. /\ state' = StateNext(FALSE, outChannelCount, zFifo!PushReady)
      /\ mac8x9PayloadReg' = IF WindowFire THEN windowBuffer3x3!OutputPayload
                                           ELSE mac8x9PayloadReg
  BY DEF Cycle, Clock, Fsm
<1>2. WindowFire <=> pendingRsp /\ state = "sGetNext"
  BY DEF WindowFire, windowBuffer3x3!OutputFire, WindowReady
<1>3. /\ Looped \in Nat /\ geometry.delay \in Nat
      /\ Looped' = Looped + (IF pendingRsp /\ state = "sGetNext" THEN 1 ELSE 0)
  BY HostInvParts DEF Counted
<1>4. CASE WindowFire
  <2>1. mac8x9PayloadReg' = promise!Window(geometry.delay + Looped + 1)
    BY <1>1, <1>2, <1>4, WindowInHand
  <2>2. geometry.delay + Looped + 1 = geometry.delay + Looped'
    BY <1>2, <1>3, <1>4
  <2> QED
    BY <2>1, <2>2 DEF LoopData, PromiseStays
<1>5. CASE ~WindowFire
  <2>1. mac8x9PayloadReg' = mac8x9PayloadReg /\ Looped' = Looped
    BY <1>1, <1>2, <1>3, <1>5
  <2>2. state' = "sLoop" => state = "sLoop"
    BY <1>1, <1>5 DEF StateNext, SetUp
  <2> QED
    BY <2>1, <2>2 DEF LoopData, RunData, PromiseStays
<1> QED
  BY <1>4, <1>5

\* The command that the loop offers is the result after those that are further
\* on: the windows before this one have become as many results as there are
\* channels, and so many commands of this window have gone ahead.
LEMMA CommandIs ==
    ASSUME HostInv, Loaded, SetUp, RunData, Counted, state = "sLoop"
    PROVE  Cmd = promise!Result(Left + Cardinality(Behind(1)) + 1)
<1> DEFINE C == geometry.channels
           D == geometry.delay
           k == Left + Cardinality(Behind(1)) + 1
<1>1. /\ Accounted /\ FifosOK /\ received \in Nat /\ yMemAddr \in Nat
      /\ C \in Nat \ {0} /\ D \in Nat /\ pendingRsp \in BOOLEAN
  BY HostInvParts, YMemDepthAssumption DEF TypeOK
<1>2. Len(zQueue) \in Nat /\ Cardinality(Behind(1)) \in Nat
  <2>1. 1 \in 1 .. Stages
    BY PipelineAssumption
  <2> QED
    BY <1>1, <2>1, ZCounts, BehindFinite DEF FifosOK, zFifo!TypeOK
<1>3. /\ yMemAddr < C
      /\ C * Made = received + Len(zQueue) + Cardinality(Behind(1)) + (C - yMemAddr) + Pending
  BY <1>1, AllBehind DEF Accounted, Pending
<1>4. Looped \in Nat /\ Made = Looped + (IF pendingRsp THEN 1 ELSE 0)
  <2>1. Made \in Nat
    BY DueIsMadeAndComing
  <2> QED
    BY <2>1 DEF Looped, Counted
<1>5. C * Made = C * Looped + Pending
  <2>1. (pendingRsp => Pending = C) /\ (~pendingRsp => Pending = 0)
    BY DEF Pending
  <2> HIDE DEF C
  <2>2. C * (Looped + 1) = C * Looped + C
    BY <1>1, <1>4
  <2>3. CASE pendingRsp
    <3>1. Made = Looped + 1 /\ Pending = C
      BY <1>4, <2>1, <2>3
    <3> QED
      BY <2>2, <3>1
  <2>4. CASE ~pendingRsp
    <3>1. Made = Looped /\ Pending = 0
      BY <1>4, <2>1, <2>4
    <3> QED
      BY <1>1, <1>4, <3>1
  <2> QED
    BY <2>3, <2>4
<1>6. C * Looped \in Nat /\ C * Looped = C * (Looped - 1) + C
  BY <1>1, <1>4
<1>7. k - 1 = C * (Looped - 1) + yMemAddr /\ k \in Nat
  <2> DEFINE total == C * Made
             product == C * Looped
             less == C * (Looped - 1)
             count == Cardinality(Behind(1))
  <2>1. Pending \in Nat
    BY <1>1 DEF Pending
  <2>2. less \in Int
    <3> HIDE DEF C
    <3> QED
      BY <1>1, <1>4
  <2>3. /\ total = received + Len(zQueue) + count + (C - yMemAddr) + Pending
        /\ total = product + Pending
        /\ product \in Nat /\ product = less + C
        /\ count \in Nat /\ Len(zQueue) \in Nat /\ received \in Nat
        /\ yMemAddr \in Nat /\ C \in Nat
    BY <1>1, <1>2, <1>3, <1>5, <1>6
  <2>4. k = received + Len(zQueue) + count + 1
    BY DEF Left
  <2> HIDE DEF total, product, less, count, C, k
  <2>5. k - 1 = less + yMemAddr /\ k \in Nat
    BY <2>1, <2>2, <2>3, <2>4
  <2> QED
    BY <2>5 DEF less
<1>8. (k - 1) \div C = Looped - 1 /\ (k - 1) % C = yMemAddr
  <2> DEFINE a == k - 1
             q == Looped - 1
  <2> HIDE DEF k, C
  <2>1. /\ yMemAddr \in 0 .. C - 1 /\ q \in Int /\ a \in Int
        /\ a = C * q + yMemAddr
    BY <1>1, <1>3, <1>4, <1>7
  <2> HIDE DEF a, q
  <2>2. a % C = yMemAddr
    BY <1>1, <2>1, ModUnique
  <2>3. a \div C \in Int /\ a = C * (a \div C) + yMemAddr
    BY <1>1, <2>1, <2>2, DivMod
  <2>4. \A x, y \in Int : C * x = C * y => x = y
    BY <1>1
  <2>5. C * (a \div C) \in Int /\ C * q \in Int
    BY <1>1, <2>1, <2>3
  <2>6. C * (a \div C) = C * q
    BY <1>1, <2>1, <2>3, <2>5
  <2> QED
    BY <2>1, <2>2, <2>3, <2>4, <2>6 DEF a, q
<1>9. \A b \in 0 .. 3 : yMem[yMemAddr][b] = promise!KernelWord(yMemAddr, b)
  <2>1. step = 3 + 4 * C
    BY DEF SetUp, Running, KernelSteps
  <2>2. yMemAddr \in 0 .. C - 1 /\ step >= 2
    BY <1>1, <1>3, <2>1
  <2>3. \A b \in 0 .. 3 : 4 * yMemAddr + b < step - 2
    BY <1>1, <1>3, <2>1
  <2> QED
    BY <2>2, <2>3 DEF Loaded
<1>10. Kernel(yMemAddr) = promise!Kernel(yMemAddr)
  <2>1. 0 \in 0 .. 3 /\ 1 \in 0 .. 3 /\ 2 \in 0 .. 3
    OBVIOUS
  <2> QED
    BY <1>9, <2>1 DEF Kernel, promise!Kernel
<1>11. mac8x9PayloadReg = promise!Window(D + Looped)
  BY DEF RunData, LoopData
<1>12. D + 1 + (Looped - 1) = D + Looped
  BY <1>1, <1>4
<1> HIDE DEF k
<1>13. promise!Result(k) = <<promise!Window(D + Looped), promise!Kernel(yMemAddr)>>
  BY <1>8, <1>12 DEF promise!Result
<1> QED
  BY <1>10, <1>11, <1>13 DEF Cmd, CmdValid, k

\* Every register that loads takes over the command before it, which is one
\* result further on.
LEMMA PipelineDataStep ==
    ASSUME HostInv, Loaded, SetUp, RunData, Counted,
           NEW xWrite, NEW word, NEW yWrite, NEW zRead,
           Cycle(FALSE, xWrite, word, yWrite, zRead),
           Left' = Left + ZPush, Left \in Nat, PromiseStays
    PROVE  PipelineData'
<1>1. PICK r \in BOOLEAN : r = zFifo!PushReady
  <2>1. zFifo!PushReady \in BOOLEAN
    BY DEF zFifo!PushReady
  <2> QED
    BY <2>1
<1>2. mac8x9!Clock(Cmd, r)
  BY <1>1 DEF Cycle, Clock
<1>3. ZPush \in {0, 1} /\ (ZPush = 1 <=> stage[Stages] # NoCommand /\ r)
  BY <1>1 DEF ZPush, ZValid, mac8x9!RspValid
<1>4. Stages \in Nat \ {0}
  BY PipelineAssumption
<1> SUFFICES ASSUME NEW i \in 1 .. Stages, stage'[i] # NoCommand
             PROVE  stage'[i] = promise!Result(Left' + Cardinality(Behind(i)'))
  BY DEF PipelineData, PromiseStays
<1> DEFINE before == IF i = 1 THEN Cmd ELSE stage[i - 1]
           loads == mac8x9!Loads(i, r)
           count == Left + Cardinality(Behind(i))
<1>5. stage'[i] = IF loads THEN before ELSE stage[i]
  BY <1>2 DEF mac8x9!Clock
<1>6. Cardinality(Behind(i)) \in Nat /\ Cardinality(Behind(i)') \in Nat
  BY BehindFinite
<1>7. PICK put \in {0, 1} : put = 1 <=> loads /\ before # NoCommand
  <2>1. (IF loads /\ before # NoCommand THEN 1 ELSE 0) \in {0, 1}
    OBVIOUS
  <2> QED
    BY <2>1
<1>8. Cardinality(Behind(i)') = Cardinality(Behind(i)) + put - ZPush
  BY <1>2, <1>3, <1>7, PipelineTail
<1>9. Left' + Cardinality(Behind(i)') = count + put
  BY <1>3, <1>6, <1>8
<1> HIDE DEF before, loads
<1>10. CASE ~loads
  <2>1. put = 0 /\ stage'[i] = stage[i]
    BY <1>5, <1>7, <1>10
  <2>2. stage[i] = promise!Result(count)
    BY <2>1 DEF RunData, PipelineData
  <2>3. count + put = count
    BY <1>6, <2>1
  <2> QED
    BY <1>9, <2>1, <2>2, <2>3
<1>11. CASE loads
  <2>1. put = 1 /\ stage'[i] = before /\ before # NoCommand
    BY <1>5, <1>7, <1>11
  <2>2. CASE i = 1
    <3>1. before = Cmd
      BY <2>2 DEF before
    <3>2. state = "sLoop"
      BY <2>1, <3>1 DEF Cmd, CmdValid
    <3>3. Cmd = promise!Result(count + 1)
      BY <2>2, <3>2, CommandIs
    <3> QED
      BY <1>9, <2>1, <3>1, <3>3
  <2>3. CASE i # 1
    <3>1. i - 1 \in 1 .. Stages /\ before = stage[i - 1]
      BY <1>4, <2>3 DEF before
    <3>2. Behind(i - 1) = Behind(i) \cup {i - 1} /\ i - 1 \notin Behind(i)
      BY <1>4, <2>1, <3>1 DEF Behind
    <3>3. Cardinality(Behind(i - 1)) = Cardinality(Behind(i)) + 1
      BY <3>2, BehindFinite, FS_AddElement
    <3>4. stage[i - 1] = promise!Result(Left + Cardinality(Behind(i - 1)))
      BY <2>1, <3>1 DEF RunData, PipelineData
    <3>5. Left + Cardinality(Behind(i - 1)) = count + 1
      BY <1>6, <3>3
    <3> QED
      BY <1>9, <2>1, <3>1, <3>4, <3>5
  <2> QED
    BY <2>2, <2>3
<1> QED
  BY <1>10, <1>11

\* A cycle of a run keeps its data where they belong.
LEMMA RunDataStep ==
    ASSUME HostInv, Loaded, SetUp, RunData, NEW xWrite \in BOOLEAN, NEW word, NEW yWrite,
           NEW zRead \in BOOLEAN, NEW push, NEW pop,
           RunCycle(xWrite, word, yWrite, zRead, push, pop)
    PROVE  RunData'
<1>1. /\ Cycle(FALSE, xWrite, word, yWrite, zRead)
      /\ push \in {0, 1} /\ (push = 1 <=> xWrite /\ xFifo!PushReady)
      /\ pop \in {0, 1} /\ (pop = 1 <=> zRead /\ zFifo!PopValid)
      /\ words' = words + push /\ received' = received + pop
      /\ push = 1 => word = promise!Word(words + 1)
      /\ run' = run /\ geometry' = geometry
  BY DEF RunCycle
<1>2. Counted
  BY RunCounted
<1>3. PromiseStays /\ FifosOK
  BY <1>1, PromiseInRun, HostInvParts
<1>4. XMoved(push, word) /\ ZMoved(pop)
  BY <1>1, <1>3, XMoves, ZMoves
<1>5. XData'
  BY <1>1, <1>3, <1>4, XDataStep
<1>6. ZData' /\ Left' = Left + ZPush /\ Left \in Nat
  BY <1>1, <1>3, <1>4, ZDataStep
<1>7. WindowData'
  BY <1>1, <1>2, BufferStep
<1>8. LoopData'
  BY <1>1, <1>2, <1>3, LoopDataStep
<1>9. PipelineData'
  BY <1>1, <1>2, <1>3, <1>6, PipelineDataStep
<1> QED
  BY <1>5, <1>6, <1>7, <1>8, <1>9 DEF RunData

\* The window buffer that has been set up holds nothing of the run.
LEMMA EmptyBuffer ==
    ASSUME HostInv', windowBuffer3x3!TypeOK', Taken' = 0, Looped' = 0, ~pendingRsp',
           readPtr' = 0, delay' = geometry.delay', geometry'.delay \in Nat
    PROVE  buffer!IInv'
<1>1. Stream' = <<>>
  BY DEF Stream
<1>2. Len(Stream') = 0 /\ Stream' \in Seq(Pixel)
  BY <1>1
<1>3. MaxRowWidth \in Nat \ {0} /\ 4 * MaxWords \in Nat
  BY BufferAssumptions
<1>4. buffer!TypeOK'
  BY DEF windowBuffer3x3!TypeOK, windowBuffer3x3!Slot, windowBuffer3x3!Cell,
         windowBuffer3x3!Taps, buffer!TypeOK, buffer!Slot, buffer!Cell, buffer!Taps
<1>5. buffer!StreamTypeOK'
  BY <1>2, <1>3, <1>4 DEF buffer!StreamTypeOK
<1>6. buffer!PtrInv'
  <2>1. 0 % MaxRowWidth = 0
    BY <1>3
  <2> QED
    BY <1>2, <2>1 DEF buffer!PtrInv
<1>7. buffer!DelayInv' /\ buffer!PendingInv'
  BY <1>2 DEF buffer!DelayInv, buffer!PendingInv
<1>8. buffer!Row0Inv' /\ buffer!Row1Inv'
  BY <1>2 DEF buffer!Row0Inv, buffer!Row1Inv
<1>9. buffer!CacheInv'
  <2> DEFINE W == buffer!RowWidth'
  <2>1. W \in Nat
    <3>1. writeOffset' \in Nat
      BY DEF windowBuffer3x3!TypeOK
    <3> DEFINE m == writeOffset' % MaxRowWidth
    <3>2. m \in 0 .. MaxRowWidth - 1
      <4>1. PICK w \in Nat : w = writeOffset'
        BY <3>1
      <4>2. w % MaxRowWidth \in 0 .. MaxRowWidth - 1
        BY <1>3, DivMod
      <4> QED
        BY <4>1, <4>2
    <3>3. W = IF m = 0 THEN MaxRowWidth ELSE m
      BY DEF buffer!RowWidth
    <3> HIDE DEF m, W
    <3> QED
      BY <1>3, <3>2, <3>3
  <2>2. ASSUME NEW r \in 0 .. 2, NEW c \in 0 .. 2
        PROVE  ~(0 - r * W - c >= 1)
    <3>1. r \in {0, 1, 2} /\ c \in Nat
      OBVIOUS
    <3> HIDE DEF W
    <3> QED
      BY <2>1, <3>1
  <2> QED
    BY <1>2, <2>2 DEF buffer!CacheInv, buffer!Position, buffer!Taps
<1>10. buffer!OneWindowPerPixel'
  BY <1>2 DEF buffer!OneWindowPerPixel, buffer!Bit
<1> QED
  BY <1>5, <1>6, <1>7, <1>8, <1>9, <1>10 DEF buffer!IInv

\* The cycle in which the window buffer is set up: nothing of the run is
\* anywhere yet.
LEMMA FirstData ==
    ASSUME HostInv, Loaded, HostInv', Loaded', Running, ~SetUp,
           Cycle(FALSE, FALSE, Garbage, NoWrite, FALSE),
           UNCHANGED <<run, geometry, step, words, received>>
    PROVE  RunData'
<1>1. /\ FifosOK /\ TypeOK /\ Aligned /\ Quiet /\ Fresh /\ Starting /\ Configured
      /\ geometry.delay \in Nat /\ geometry.channels \in Nat /\ KernelSteps \in Nat
  BY HostInvParts, YMemDepthAssumption
<1>2. state = "sInit" /\ step >= 2
  <2>1. step # 0
    BY <1>1 DEF Running
  <2>2. state \in States /\ state # "boot"
    BY <1>1, <2>1 DEF TypeOK, Configured
  <2> QED
    BY <1>1, <2>2 DEF SetUp, States, Running
<1>3. SetUp' /\ Accounted' /\ Quiet' /\ state' # "sLoop"
  BY <1>1, FirstCycle, QuietStep DEF Quiet
<1>4. delay' = geometry.delay
  <2>1. delay' = rowBufferInitialDelay
    BY <1>1, <1>2, CycleMachine DEF WindowInit
  <2> QED
    BY <1>1, <1>2, <2>1 DEF Configured
<1>5. /\ FALSE \in BOOLEAN /\ 0 \in {0, 1}
      /\ 0 = 1 <=> FALSE /\ xFifo!PushReady
      /\ 0 = 1 <=> FALSE /\ zFifo!PopValid
  OBVIOUS
<1>6. Waiting' = 0
  <2>1. state \in {"boot", "sInit"} => ~Fire /\ Waiting' = 4 * 0
    BY <1>1, <1>2, <1>5, CycleWaiting DEF TypeOK
  <2> QED
    BY <1>2, <2>1
<1>7. Taken' = 0 /\ Made' = 0
  BY <1>1, <1>6 DEF Taken, Made, promise!Pixels, Fresh
<1>8. ~pendingRsp' /\ zQueue' = <<>> /\ Occupied' = {}
  BY <1>3 DEF Quiet
<1>9. Looped' = 0
  <2> DEFINE pending == IF pendingRsp' THEN 1 ELSE 0
  <2>1. Looped' = Made' - pending
    BY DEF Looped
  <2>2. pending = 0
    BY <1>8
  <2> HIDE DEF pending
  <2> QED
    BY <1>7, <2>1, <2>2
<1>10. writeOffset' = geometry'.width /\ windowBuffer3x3!TypeOK'
  <2>1. step >= 1 /\ WindowInit
    BY <1>2, HostInvParts DEF WindowInit
  <2>2. rowBufferRowWidth = geometry.width
    BY <2>1 DEF Loaded
  <2> QED
    BY <2>1, <2>2, CellsStep
<1>11. readPtr' = 0
  BY <1>2 DEF Cycle, Clock, windowBuffer3x3!Clock, windowBuffer3x3!RowShifter, WindowInit
<1>12. WindowData'
  BY <1>1, <1>4, <1>7, <1>8, <1>9, <1>10, <1>11, EmptyBuffer DEF WindowData
<1>13. Len(xQueue') = 0
  <2>1. xQueue = <<>> /\ ~xFifo!PopValid
    BY <1>1 DEF Starting, xFifo!PopValid
  <2>2. XPop = 0 /\ Len(xQueue) = 0
    BY <2>1 DEF XPop
  <2>3. Len(xQueue') = Len(xQueue) - XPop + 0
    BY <1>1, <1>5, CycleFifos
  <2> QED
    BY <2>2, <2>3
<1>14. XData'
  BY <1>13 DEF XData
<1>15. LoopData'
  BY <1>3 DEF LoopData
<1>16. PipelineData'
  BY <1>8 DEF PipelineData, Occupied
<1>17. ZData'
  BY <1>8 DEF ZData
<1> QED
  BY <1>12, <1>14, <1>15, <1>16, <1>17 DEF RunData

-----------------------------------------------------------------------------
(* The refinement: where the data are is an invariant.                     *)

\* The commands that start a run come before it is set up.
LEMMA NotSetUpYet ==
    ASSUME HostInv, ConfigureRows \/ ConfigureChannels \/ LoadKernel \/ StartRun
    PROVE  ~SetUp'
<1>1. /\ step \in Nat /\ KernelSteps \in Nat
      /\ \A g \in Geometries : 4 * g.channels \in Nat
  BY HostInvParts, GeometryAssumption, YMemDepthAssumption
<1>2. CASE ConfigureRows
  <2>1. step' = 1 /\ geometry' \in Geometries
    BY <1>2 DEF ConfigureRows
  <2>2. step' # 3 + 4 * geometry'.channels
    BY <1>1, <2>1
  <2> QED
    BY <2>2 DEF SetUp, Running, KernelSteps
<1>3. CASE ConfigureChannels
  <2>1. step' = 2 /\ KernelSteps' = KernelSteps
    BY <1>3 DEF ConfigureChannels, KernelSteps
  <2> QED
    BY <1>1, <2>1 DEF SetUp, Running
<1>4. CASE LoadKernel
  <2>1. step \in 2 .. 1 + KernelSteps /\ step' = step + 1 /\ KernelSteps' = KernelSteps
    BY <1>4 DEF LoadKernel, KernelSteps
  <2> QED
    BY <1>1, <2>1 DEF SetUp, Running
<1>5. CASE StartRun
  <2>1. Cycle(TRUE, FALSE, Garbage, NoWrite, FALSE)
    BY <1>5 DEF StartRun, WriteInit
  <2>2. state' = "sInit"
    BY <2>1 DEF Cycle, Clock, Fsm, StateNext
  <2> QED
    BY <2>2 DEF SetUp
<1> QED
  BY <1>2, <1>3, <1>4, <1>5

\* Nothing moves when nothing happens.
LEMMA RunDataStays ==
    ASSUME HostInv, RunData, UNCHANGED vars
    PROVE  RunData'
<1> USE DEF vars, ctlrRegs, busRegs, driver, config
<1>1. PromiseStays
  BY PromiseInRun
<1>2. Taken' = Taken /\ Looped' = Looped /\ Left' = Left
  BY DEF Taken, Looped, Left, Waiting, Made, promise!Pixels
<1>3. Stream' = Stream
  BY <1>2 DEF Stream
<1>4. UNCHANGED buffer!vars
  BY <1>2, <1>3 DEF buffer!vars, buffer!regs, buffer!history
<1>5. WindowData'
  <2>1. buffer!IInv
    BY DEF RunData, WindowData
  <2>2. buffer!IInv'
    BY <1>4, <2>1, BufferAssumptions, buffer!StutterIInv
  <2> QED
    BY <2>2 DEF RunData, WindowData
<1>6. XData' /\ LoopData' /\ ZData'
  BY <1>1, <1>2 DEF RunData, XData, LoopData, ZData, PromiseStays
<1>7. PipelineData'
  <2>1. \A i : Behind(i)' = Behind(i)
    BY DEF Behind
  <2> QED
    BY <1>1, <1>2, <2>1 DEF RunData, PipelineData, PromiseStays
<1> QED
  BY <1>5, <1>6, <1>7 DEF RunData

LEMMA RunDataNext ==
    ASSUME HostInv, HostInv', DataInv, Loaded', SetUp', [Next]_vars
    PROVE  RunData'
<1>1. /\ FALSE \in BOOLEAN /\ TRUE \in BOOLEAN /\ 0 \in {0, 1} /\ 1 \in {0, 1}
      /\ StatusInv /\ words \in Nat /\ received \in Nat
      /\ Running /\ ~SetUp => Starting
      /\ Loaded /\ (SetUp => RunData)
  BY HostInvParts DEF TypeOK, DataInv
<1>2. ~(ConfigureRows \/ ConfigureChannels \/ LoadKernel \/ StartRun)
  BY NotSetUpYet
<1>3. CASE Pause \/ Poll
  <2>1. /\ Cycle(FALSE, FALSE, Garbage, NoWrite, FALSE)
        /\ UNCHANGED <<run, geometry, words, received, step>>
    BY <1>3 DEF Pause, Poll, Idle, driver
  <2>2. Running
    BY <2>1 DEF SetUp, Running, KernelSteps
  <2>3. CASE SetUp
    <3>1. /\ 0 = 1 <=> FALSE /\ xFifo!PushReady
          /\ 0 = 1 <=> FALSE /\ zFifo!PopValid
          /\ words' = words + 0 /\ received' = received + 0
          /\ 0 = 1 => Garbage = promise!Word(words + 1)
      BY <1>1, <2>1
    <3>2. RunCycle(FALSE, Garbage, NoWrite, FALSE, 0, 0)
      BY ONLY <1>1, <2>1, <3>1, Zenon DEF RunCycle
    <3> QED
      BY <1>1, <2>3, <3>2, RunDataStep
  <2>4. CASE ~SetUp
    BY <1>1, <2>1, <2>2, <2>4, FirstData
  <2> QED
    BY <2>3, <2>4
<1>4. CASE SendWord
  <2>1. /\ Running /\ credit > 0 /\ words' = words + 1
        /\ Cycle(FALSE, TRUE, promise!Word(words + 1), NoWrite, FALSE)
        /\ UNCHANGED <<run, geometry, received, step>>
    BY <1>4 DEF SendWord, WriteX
  <2>2. SetUp
    BY <1>1, <2>1 DEF Starting
  <2>3. xFifo!PushReady
    BY <1>1, <2>1, FifoDepthAssumption, XCounts
       DEF StatusInv, WritesFit, FifosOK, xFifo!TypeOK, xFifo!PushReady
  <2>4. /\ 1 = 1 <=> TRUE /\ xFifo!PushReady
        /\ 0 = 1 <=> FALSE /\ zFifo!PopValid
        /\ words' = words + 1 /\ received' = received + 0
    BY <1>1, <2>1, <2>3
  <2>5. RunCycle(TRUE, promise!Word(words + 1), NoWrite, FALSE, 1, 0)
    BY ONLY <1>1, <2>1, <2>4, Zenon DEF RunCycle
  <2> QED
    BY <1>1, <2>2, <2>5, RunDataStep
<1>5. CASE ReceiveResult
  <2>1. /\ Running /\ ready > 0 /\ received' = received + 1
        /\ Cycle(FALSE, FALSE, Garbage, NoWrite, TRUE)
        /\ UNCHANGED <<run, geometry, words, step>>
    BY <1>5 DEF ReceiveResult, ReadZ
  <2>2. SetUp
    BY <1>1, <2>1 DEF Starting
  <2>3. zFifo!PopValid
    BY <1>1, <2>1 DEF StatusInv, ReadsSucceed
  <2>4. /\ 0 = 1 <=> FALSE /\ xFifo!PushReady
        /\ 1 = 1 <=> TRUE /\ zFifo!PopValid
        /\ words' = words + 0 /\ received' = received + 1
        /\ 0 = 1 => Garbage = promise!Word(words + 1)
    BY <1>1, <2>1, <2>3
  <2>5. RunCycle(FALSE, Garbage, NoWrite, TRUE, 0, 1)
    BY ONLY <1>1, <2>1, <2>4, Zenon DEF RunCycle
  <2> QED
    BY <1>1, <2>2, <2>5, RunDataStep
<1>6. CASE UNCHANGED vars
  <2>1. SetUp
    BY <1>6 DEF vars, ctlrRegs, driver, SetUp, Running, KernelSteps
  <2> QED
    BY <1>1, <1>6, <2>1, RunDataStays
<1> QED
  BY <1>2, <1>3, <1>4, <1>5, <1>6 DEF Next

LEMMA NextData ==
    ASSUME Drain = TRUE
    PROVE  HostInv /\ DataInv /\ [Next]_vars => DataInv'
<1> SUFFICES ASSUME HostInv, DataInv, [Next]_vars PROVE DataInv'
  OBVIOUS
<1>1. HostInv'
  BY NextHost
<1>2. Loaded'
  BY LoadedStep DEF DataInv
<1> QED
  BY <1>1, <1>2, RunDataNext DEF DataInv

LEMMA InitData == Init => DataInv
<1> SUFFICES ASSUME Init PROVE DataInv
  OBVIOUS
<1>1. /\ windowBuffer3x3!Reset /\ xQueue = <<>> /\ rowBufferRowWidth = 0
      /\ yMem = [a \in 0 .. YMemDepth - 1 |-> [b \in 0 .. 3 |-> <<Blank, Blank>>]]
      /\ run = 0 /\ words = 0 /\ step = 0
  BY DEF Init, PowerUp, Reset, xFifo!Reset, promise!Init
<1>2. windowBuffer3x3!TypeOK
  <2>1. 0 \in windowBuffer3x3!Slot
    BY RowsAssumption DEF windowBuffer3x3!Slot
  <2> QED
    BY <1>1, <2>1 DEF windowBuffer3x3!TypeOK, windowBuffer3x3!Reset, windowBuffer3x3!Cell
<1>3. yMem = [a \in 0 .. YMemDepth - 1 |-> [b \in 0 .. 3 |-> yMem[a][b]]]
  BY <1>1
<1>4. Loaded
  BY <1>1, <1>2, <1>3, PixelAssumption DEF Loaded
<1>5. ~SetUp
  BY InitHost, <1>1, HostInvParts DEF SetUp, Running
<1> QED
  BY <1>4, <1>5 DEF DataInv

LEMMA InductiveData == ASSUME Drain = TRUE PROVE Spec => [](HostInv /\ DataInv)
<1>1. Init => HostInv /\ DataInv
  BY InitHost, InitData
<1>2. (HostInv /\ DataInv) /\ [Next]_vars => (HostInv /\ DataInv)'
  BY NextHost, NextData
<1> QED
  BY <1>1, <1>2, PTL DEF Spec

-----------------------------------------------------------------------------
(* The refinement: every step of the driver is one of the promise.         *)

\* What the driver receives is the next result, and it was due.
LEMMA ReceiveImplements ==
    ASSUME HostInv, DataInv, ReceiveResult
    PROVE  promise!Receive
<1>1. /\ Running /\ ready > 0 /\ received' = received + 1 /\ last' = ZRead
      /\ UNCHANGED <<run, geometry, words>>
  BY DEF ReceiveResult
<1>2. SetUp /\ StatusInv
  BY <1>1, HostInvParts DEF Starting
<1>3. /\ FifosOK /\ zQueue # <<>> /\ ZData
  BY <1>1, <1>2 DEF StatusInv, ReadsSucceed, zFifo!PopValid, DataInv, RunData
<1>4. Len(zQueue) \in Nat /\ Len(zQueue) # 0 /\ Head(zQueue) = zQueue[1]
  <2>1. PICK S : zQueue \in Seq(S)
    BY <1>3 DEF FifosOK, zFifo!TypeOK, zFifo!IsSequence
  <2> QED
    BY <1>3, <2>1
<1>5. last' = promise!Result(received + 1)
  <2>1. zFifo!PopValid
    BY <1>1, <1>2 DEF StatusInv, ReadsSucceed
  <2>2. last' = zQueue[1] /\ 1 \in 1 .. Len(zQueue)
    BY <1>1, <1>4, <2>1 DEF ZRead, zFifo!PopPayload
  <2> QED
    BY <1>3, <2>2 DEF ZData
<1>6. received < promise!Due
  <2> DEFINE one == IF pendingRsp THEN 1 ELSE 0
             rest == geometry.channels * (one + Coming)
  <2>1. /\ promise!Due = received + Len(zQueue) + Cardinality(Occupied) + Loop + rest
        /\ Cardinality(Occupied) \in Nat /\ Loop \in Nat /\ received \in Nat
        /\ Coming \in Nat /\ geometry.channels \in Nat \ {0}
    BY <1>2, Balance
  <2>2. one + Coming \in Nat
    BY <2>1
  <2>3. rest \in Nat
    BY <2>1, <2>2, NoProduct
  <2> HIDE DEF rest
  <2> QED
    BY <1>4, <2>1, <2>3
<1> QED
  BY <1>1, <1>5, <1>6 DEF promise!Receive

LEMMA StepImplements ==
    ASSUME Drain = TRUE, HostInv, DataInv, [Next]_vars
    PROVE  [promise!Next]_(promise!vars)
<1>1. CASE ConfigureRows
  <2>1. PICK g \in Geometries : geometry' = g
    BY <1>1 DEF ConfigureRows
  <2>2. promise!Start(g)
    BY <1>1, <2>1 DEF ConfigureRows, promise!Start
  <2> QED
    BY <2>2 DEF promise!Next
<1>2. CASE SendWord
  <2>1. promise!Send
    BY <1>2 DEF SendWord, promise!Send
  <2> QED
    BY <2>1 DEF promise!Next
<1>3. CASE ReceiveResult
  BY <1>3, ReceiveImplements DEF promise!Next
<1>4. CASE \/ ConfigureChannels \/ LoadKernel \/ StartRun \/ Pause \/ Poll
           \/ UNCHANGED vars
  <2>1. UNCHANGED <<run, geometry, words, received, last>>
    BY <1>4 DEF ConfigureChannels, LoadKernel, StartRun, Pause, Poll, vars, driver
  <2> QED
    BY <2>1 DEF promise!vars
<1> QED
  BY <1>1, <1>2, <1>3, <1>4 DEF Next

\* What a driver that drains each run receives is, in order, exactly what the
\* convolution promises: each result once, made of the neighbourhood of its
\* pixel and of the kernel of its channel, and none before it is due
\* (AcceleratorV1.scala).  That every result due arrives is liveness, which
\* TLC checks (Implements).
THEOREM StepsImplement == ASSUME Drain = TRUE PROVE Spec => promise!Safety
<1>1. Init => promise!Init
  BY DEF Init
<1>2. HostInv /\ DataInv /\ [Next]_vars => [promise!Next]_(promise!vars)
  BY StepImplements
<1> QED
  BY <1>1, <1>2, InductiveData, PTL DEF Spec, promise!Safety
=============================================================================
