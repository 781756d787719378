----------------------------- MODULE DevicesProofs -----------------------------
(***************************************************************************)
(* What the devices promise, for every width of a bus word, a counter or a *)
(* byte, for every size of the memories, for every deadline within the     *)
(* horizon of the timer and every number of stages of the pipeline.        *)
(***************************************************************************)
EXTENDS Devices, NumberLemmas

-----------------------------------------------------------------------------
(* The FT245 controllers.                                                  *)

\* Where the registers of the controllers stand in each state.  In particular a
\* drive of the bus that a write ends with in sIdle began with both requests.
BusInv ==
    /\ ctrl \in ft245!Controllers
    /\ rxf \in BOOLEAN /\ txe \in BOOLEAN
    /\ oe_reg \in BOOLEAN /\ wr_reg \in BOOLEAN /\ clash \in BOOLEAN
    /\ ctrl = "DummyWriter" => ~oe_reg
    /\ ctrl = "NullReaderDummyWriter" =>
          /\ state = "boot" => ~oe_reg
          /\ state \in {"boot", "sIdle", "sReadOE", "sRead"} => ~wr_reg
          /\ state \in {"sIdle", "sWrite"} => (oe_reg => clash)
          /\ state \in {"boot", "sIdle", "sReadOE", "sRead", "sWrite"}

LEMMA BusInvInit == ft245!Init => BusInv
  BY DEF ft245!Init, BusInv

LEMMA BusInvNext ==
    ASSUME BusInv, ft245!Next
    PROVE  BusInv'
  <1> USE DEF BusInv, ft245!Next
  <1>1. ctrl' = ctrl /\ rxf' \in BOOLEAN /\ txe' \in BOOLEAN
    OBVIOUS
  <1>2. CASE ft245!NullReader
    <2>1. /\ oe_reg' = rxf /\ wr_reg' = wr_reg /\ clash' = clash
          /\ ctrl = "NullReader"
      BY <1>2 DEF ft245!NullReader
    <2> QED BY <1>1, <2>1
  <1>3. CASE ft245!DummyWriter
    <2>1. /\ oe_reg' = oe_reg /\ wr_reg' = txe /\ clash' = clash
          /\ ctrl = "DummyWriter"
      BY <1>3 DEF ft245!DummyWriter
    <2> QED BY <1>1, <2>1
  <1> USE DEF ft245!In
  <1>4. CASE ft245!Boot
    BY <1>1, <1>4 DEF ft245!Boot
  <1>5. CASE ft245!SIdle
    <2>1. /\ ctrl = "NullReaderDummyWriter" /\ state = "sIdle"
          /\ oe_reg' = (oe_reg \/ rxf) /\ wr_reg' = (wr_reg \/ txe)
          /\ state' = IF txe THEN "sWrite" ELSE IF rxf THEN "sReadOE" ELSE state
          /\ clash' = (clash \/ (rxf /\ txe))
      BY <1>5 DEF ft245!SIdle
    <2>2. CASE txe
      BY <1>1, <2>1, <2>2
    <2>3. CASE ~txe /\ rxf
      BY <1>1, <2>1, <2>3
    <2>4. CASE ~txe /\ ~rxf
      BY <1>1, <2>1, <2>4
    <2> QED BY <2>2, <2>3, <2>4
  <1>6. CASE ft245!SReadOE
    BY <1>1, <1>6 DEF ft245!SReadOE
  <1>7. CASE ft245!SRead
    <2>1. /\ ctrl = "NullReaderDummyWriter" /\ state = "sRead"
          /\ wr_reg' = wr_reg /\ clash' = (clash /\ rxf)
          /\ rxf => oe_reg' = oe_reg /\ state' = state
          /\ ~rxf => oe_reg' = FALSE /\ state' = "sIdle"
      BY <1>7 DEF ft245!SRead
    <2>2. CASE rxf
      BY <1>1, <2>1, <2>2
    <2>3. CASE ~rxf
      BY <1>1, <2>1, <2>3
    <2> QED BY <2>2, <2>3
  <1>8. CASE ft245!SWrite
    <2>1. /\ ctrl = "NullReaderDummyWriter" /\ state = "sWrite"
          /\ oe_reg' = oe_reg /\ clash' = clash
          /\ txe => wr_reg' = wr_reg /\ state' = state
          /\ ~txe => wr_reg' = FALSE /\ state' = "sIdle"
      BY <1>8 DEF ft245!SWrite
    <2>2. CASE txe
      BY <1>1, <2>1, <2>2
    <2>3. CASE ~txe
      BY <1>1, <2>1, <2>3
    <2> QED BY <2>2, <2>3
  <1> QED BY <1>2, <1>3, <1>4, <1>5, <1>6, <1>7, <1>8 DEF ft245!Edge

\* Chip and controller never drive the bus together, unless a read and a write
\* were requested in the same idle cycle.
THEOREM SharedBusCorrect == Spec => []SharedBus
  <1> DEFINE I == device = "ft245" => BusInv
  <1>1. Init => I
    BY BusInvInit DEF Init
  <1>2. I /\ [Next]_vars => I'
    <2> SUFFICES ASSUME I, [Next]_vars, device' = "ft245" PROVE BusInv'
      OBVIOUS
    <2>1. CASE Ft245Next
      BY <2>1, BusInvNext DEF Ft245Next
    <2>2. CASE RamNext \/ TimerNext \/ ResetNext \/ WindowNext \/ MacNext
      BY <2>2 DEF RamNext, TimerNext, ResetNext, WindowNext, MacNext
    <2>3. CASE UNCHANGED vars
      BY <2>3 DEF vars, ft245Vars, BusInv
    <2> QED BY <2>1, <2>2, <2>3 DEF Next
  <1>3. I => SharedBus
    BY DEF BusInv, SharedBus, ft245!SharedBus, ft245!WriteEnable, ft245!Controllers
  <1> QED BY <1>1, <1>2, <1>3, PTL DEF Spec

-----------------------------------------------------------------------------
(* The reset controller.                                                   *)

\* The counter cannot be further than the cycles since the pin was last high, and
\* what the synchroniser came up with is gone before the counter is full.
ResetInv ==
    /\ resetCounter \in Nat
    /\ resetBuffer \in [{1, 2} -> BOOLEAN]
    /\ debugReset \in BOOLEAN
    /\ reset \in BOOLEAN
    /\ samples \in [1 .. resetCtrl!Horizon -> BOOLEAN]
    /\ samples[1] => resetBuffer[1]
    /\ samples[2] => resetBuffer[2]
    /\ resetBuffer[1] # samples[1] => resetCounter = 0
    /\ resetBuffer[2] # samples[2] => resetCounter <= 1
    /\ \A i \in 3 .. resetCtrl!Horizon : samples[i] => resetCounter <= i - 3
    /\ ~debugReset /\ resetCounter # resetCtrl!Full => samples[3]

LEMMA FullRange == resetCtrl!Full \in Nat /\ resetCtrl!Full >= 3
  <1>1. CounterWidth - 1 \in Nat /\ CounterWidth - 2 \in Nat
    BY CounterWidthAssumption DEF resetCtrl!CounterWidthAssumption
  <1>2. /\ 2 ^ (CounterWidth - 2) \in Nat \ {0}
        /\ 2 ^ ((CounterWidth - 2) + 1) = 2 ^ (CounterWidth - 2) + 2 ^ (CounterWidth - 2)
        /\ 2 ^ ((CounterWidth - 1) + 1) = 2 ^ (CounterWidth - 1) + 2 ^ (CounterWidth - 1)
    BY <1>1, PowerNext, PowerOfTwo
  <1>3. (CounterWidth - 2) + 1 = CounterWidth - 1 /\ (CounterWidth - 1) + 1 = CounterWidth
    BY CounterWidthAssumption DEF resetCtrl!CounterWidthAssumption
  <1>4. \A p, q, r \in Int : p \in Nat \ {0} /\ q = p + p /\ r = q + q => r - 1 \in Nat /\ r - 1 >= 3
    OBVIOUS
  <1>5. /\ 2 ^ (CounterWidth - 2) \in Int /\ 2 ^ (CounterWidth - 1) \in Int
        /\ 2 ^ CounterWidth \in Int
    BY <1>2, <1>3
  <1> QED BY <1>2, <1>3, <1>4, <1>5 DEF resetCtrl!Full

LEMMA ResetInvInit == resetCtrl!Init => ResetInv
  <1> SUFFICES ASSUME resetCtrl!Init PROVE ResetInv
    OBVIOUS
  <1>1. /\ resetCounter = 0 /\ resetBuffer \in [{1, 2} -> BOOLEAN]
        /\ debugReset \in BOOLEAN /\ reset \in BOOLEAN
        /\ samples = [i \in 1 .. resetCtrl!Horizon |-> i = 3]
    BY DEF resetCtrl!Init
  <1>2. /\ resetCtrl!Horizon \in Nat /\ 1 \in 1 .. resetCtrl!Horizon
        /\ 2 \in 1 .. resetCtrl!Horizon /\ 3 \in 1 .. resetCtrl!Horizon
    BY FullRange DEF resetCtrl!Horizon
  <1>3. samples \in [1 .. resetCtrl!Horizon -> BOOLEAN]
    BY <1>1
  <1>4. ~samples[1] /\ ~samples[2] /\ samples[3]
    <2>1. \A i \in 1 .. resetCtrl!Horizon : samples[i] <=> i = 3
      BY <1>1, Zenon
    <2> QED BY <1>2, <2>1
  <1>5. \A i \in 3 .. resetCtrl!Horizon : 0 <= i - 3
    BY <1>2
  <1> QED BY <1>1, <1>3, <1>4, <1>5 DEF ResetInv

\* One edge.
LEMMA ResetEdge ==
    ASSUME ResetInv, resetCtrl!Next
    PROVE  /\ ResetInv'
           /\ resetCtrl!ReleasedInTime
           /\ resetCtrl!DebugResetByPin
  <1> DEFINE F == resetCtrl!Full
             H == resetCtrl!Horizon
  <1>1. /\ F \in Nat /\ F >= 3 /\ H = F + 3
        /\ 1 \in 1 .. H /\ 2 \in 1 .. H /\ 3 \in 1 .. H /\ 4 \in 1 .. H
    BY FullRange DEF resetCtrl!Horizon
  <1>2. /\ samples' = [i \in 1 .. H |-> IF i = 1 THEN reset ELSE samples[i - 1]]
        /\ resetBuffer' = [i \in {1, 2} |-> IF i = 1 THEN reset ELSE resetBuffer[1]]
        /\ debugReset' = (resetCounter # F)
        /\ systemReset' = (resetCounter # F \/ systemBuffer[2])
        /\ reset' \in BOOLEAN
    BY DEF resetCtrl!Next, resetCtrl!Edge, resetCtrl!Synchronise, resetCtrl!Domains,
           resetCtrl!resetUnbuffered
  <1>3. /\ resetBuffer[2] => resetCounter' = 0
        /\ ~resetBuffer[2] /\ resetCounter # F => resetCounter' = resetCounter + 1
        /\ ~resetBuffer[2] /\ resetCounter = F => resetCounter' = resetCounter
    BY DEF resetCtrl!Next, resetCtrl!Edge, resetCtrl!Counter, resetCtrl!resetUnbuffered
  <1> HIDE DEF F, H
  <1>4. /\ resetCounter \in Nat /\ resetBuffer \in [{1, 2} -> BOOLEAN]
        /\ samples \in [1 .. H -> BOOLEAN] /\ reset \in BOOLEAN
        /\ samples[1] => resetBuffer[1]
        /\ samples[2] => resetBuffer[2]
        /\ resetBuffer[1] # samples[1] => resetCounter = 0
        /\ resetBuffer[2] # samples[2] => resetCounter <= 1
        /\ \A i \in 3 .. H : samples[i] => resetCounter <= i - 3
        /\ ~debugReset /\ resetCounter # F => samples[3]
    BY DEF ResetInv, F, H
  <1>5. /\ samples'[1] = reset /\ samples'[2] = samples[1] /\ samples'[3] = samples[2]
        /\ resetBuffer'[1] = reset /\ resetBuffer'[2] = resetBuffer[1]
        /\ \A i \in 4 .. H : samples'[i] = samples[i - 1] /\ i - 1 \in 3 .. H
    BY <1>1, <1>2
  <1>6. resetCounter' \in Nat /\ resetCounter' <= resetCounter + 1
    BY <1>3, <1>4
  <1>7. samples' \in [1 .. H -> BOOLEAN] /\ resetBuffer' \in [{1, 2} -> BOOLEAN]
    <2>1. \A i \in 1 .. H : (IF i = 1 THEN reset ELSE samples[i - 1]) \in BOOLEAN
      <3>1. \A i \in 1 .. H : i # 1 => i - 1 \in 1 .. H
        BY <1>1
      <3> QED BY <1>4, <3>1
    <2> QED BY <1>2, <1>4, <2>1
  <1>8. \A i \in 4 .. H : samples'[i] => resetCounter <= i - 4
    <2> SUFFICES ASSUME NEW i \in 4 .. H, samples'[i] PROVE resetCounter <= i - 4
      OBVIOUS
    <2>1. samples[i - 1] /\ i - 1 \in 3 .. H
      BY <1>5
    <2>2. resetCounter <= (i - 1) - 3
      BY <1>4, <2>1
    <2> QED BY <1>1, <1>4, <2>2
  <1>9. \A i \in 3 .. H : samples'[i] => resetCounter' <= i - 3
    <2> SUFFICES ASSUME NEW i \in 3 .. H, samples'[i] PROVE resetCounter' <= i - 3
      OBVIOUS
    <2>1. CASE i = 3
      BY <1>3, <1>4, <1>5, <2>1
    <2>2. CASE i # 3
      <3>1. i \in 4 .. H
        BY <1>1, <2>2
      <3>2. resetCounter <= i - 4
        BY <1>8, <3>1
      <3> QED BY <1>1, <1>4, <1>6, <3>2
    <2> QED BY <2>1, <2>2
  <1>10. resetBuffer'[1] = samples'[1]
    BY <1>5
  <1>11. resetBuffer'[2] # samples'[2] => resetCounter' <= 1
    BY <1>4, <1>5, <1>6
  <1>12. samples'[2] => resetBuffer'[2]
    BY <1>4, <1>5
  <1>13. ~debugReset' /\ resetCounter' # F => samples'[3]
    <2> SUFFICES ASSUME ~debugReset', resetCounter' # F PROVE samples'[3]
      OBVIOUS
    <2>1. resetCounter = F
      BY <1>2
    <2>2. resetBuffer[2]
      BY <1>3, <2>1
    <2>3. ~(resetCounter <= 1)
      BY <1>1, <2>1
    <2> QED BY <1>4, <1>5, <2>2, <2>3
  <1>14. ResetInv'
    <2>1. debugReset' \in BOOLEAN
      BY <1>2
    <2> QED BY <1>2, <1>6, <1>7, <1>9, <1>10, <1>11, <1>12, <1>13, <2>1 DEF ResetInv, F, H
  <1>15. resetCtrl!ReleasedInTime
    <2> SUFFICES ASSUME resetCtrl!Releases, NEW i \in 4 .. H, samples'[i] PROVE FALSE
      BY DEF resetCtrl!ReleasedInTime, H
    <2>1. resetCounter = F
      BY <1>2 DEF resetCtrl!Releases
    <2>2. resetCounter <= i - 4
      BY <1>8
    <2> QED BY <1>1, <2>1, <2>2
  <1>16. resetCtrl!DebugResetByPin
    <2> SUFFICES ASSUME ~debugReset, debugReset' PROVE samples'[4]
      BY DEF resetCtrl!DebugResetByPin
    <2>1. samples[3]
      BY <1>2, <1>4
    <2>2. 4 \in 4 .. H /\ 4 - 1 = 3
      BY <1>1
    <2>3. samples'[4] = samples[4 - 1]
      BY <1>5, <2>2
    <2> QED BY <2>1, <2>2, <2>3
  <1> QED BY <1>14, <1>15, <1>16

LEMMA ResetInvariant == Spec => [](device = "reset" => ResetInv)
  <1> DEFINE I == device = "reset" => ResetInv
  <1>1. Init => I
    BY ResetInvInit DEF Init
  <1>2. I /\ [Next]_vars => I'
    <2> SUFFICES ASSUME I, [Next]_vars, device' = "reset" PROVE ResetInv'
      OBVIOUS
    <2>1. CASE ResetNext
      BY <2>1, ResetEdge DEF ResetNext
    <2>2. CASE Ft245Next \/ RamNext \/ TimerNext \/ WindowNext \/ MacNext
      BY <2>2 DEF Ft245Next, RamNext, TimerNext, WindowNext, MacNext
    <2>3. CASE UNCHANGED vars
      BY <2>3 DEF vars, resetVars, ResetInv
    <2> QED BY <2>1, <2>2, <2>3 DEF Next
  <1> QED BY <1>1, <1>2, PTL DEF Spec

\* An edge of the reset controller, in the life of that device.
LEMMA ResetSteps ==
    ASSUME device = "reset" => ResetInv, Next, device = "reset"
    PROVE  resetCtrl!ReleasedInTime /\ resetCtrl!DebugResetByPin
  BY ResetEdge DEF Next, Ft245Next, RamNext, TimerNext, ResetNext, WindowNext, MacNext

\* A domain leaves reset only after the pin was low for a whole run of the
\* counter, and the debug domain goes into reset only because of the pin.
THEOREM FullResetCorrect == Spec => FullReset
  <1>1. (device = "reset" => ResetInv) /\ [Next]_vars
            => [device = "reset" => resetCtrl!ReleasedInTime /\ resetCtrl!DebugResetByPin]_vars
    BY ResetSteps
  <1> QED BY <1>1, ResetInvariant, PTL DEF Spec, FullReset

-----------------------------------------------------------------------------
(* The machine timer.                                                      *)

\* Half a turn of the counter.
Half == 2 ^ (2 * WordWidth - 1)

\* How far the counter is past the target, modulo its range.
Past == (counter - target) % timer!Modulus

\* While the deadline is ahead the counter is as far behind the target as there
\* are cycles left; after it, at most the pause of the driver past it, as long as
\* a half is missing, and afterwards the interrupt is there or about to be.
TimerInv ==
    /\ counter \in Int /\ cmp \in Int /\ target \in Int
    /\ interrupt \in BOOLEAN /\ programmed \in BOOLEAN
    /\ remaining \in 0 .. Half - 1
    /\ pause \in 0 .. MaxPause
    /\ missing \in {{}, {"low"}, {"high"}}
    /\ missing = {"low"} => cmp \div timer!Word = target \div timer!Word
    /\ missing = {"high"} => cmp % timer!Word = target % timer!Word
    /\ missing # {} =>
          /\ remaining > 0 => Past = timer!Modulus - remaining
          /\ remaining = 0 => Past <= pause
    /\ timer!Armed =>
          /\ cmp = target
          /\ remaining > 0 => Past = timer!Modulus - remaining /\ ~interrupt
          /\ remaining = 0 => interrupt \/ Past < Half

\* The range of the counter is twice the half of it.
LEMMA TimerRange ==
    /\ Half \in Nat \ {0} /\ timer!Modulus = Half + Half
    /\ timer!Modulus \in Nat \ {0} /\ timer!Modulus \div 2 = Half
    /\ timer!Word \in Nat \ {0}
    /\ MaxPause \in Nat /\ MaxPause + 2 < Half
    /\ \A d \in Distances : d \in 1 .. Half - 1
  <1>1. WordWidth \in Nat /\ 2 * WordWidth - 1 \in Nat /\ (2 * WordWidth - 1) + 1 = 2 * WordWidth
    BY HorizonAssumption DEF timer!HorizonAssumption
  <1>2. Half \in Nat \ {0} /\ timer!Word \in Nat \ {0}
    BY <1>1, PowerOfTwo DEF Half, timer!Word
  <1>3. timer!Modulus = Half + Half
    BY <1>1, PowerNext DEF Half, timer!Modulus
  <1>4. \A h \in Nat \ {0} : h + h \in Nat \ {0} /\ (h + h) \div 2 = h
    OBVIOUS
  <1> QED BY <1>2, <1>3, <1>4, HorizonAssumption DEF timer!HorizonAssumption, Half

LEMMA TimerInvInit == timer!Init => TimerInv
  <1> SUFFICES ASSUME timer!Init PROVE TimerInv
    OBVIOUS
  <1>1. /\ counter = 0 /\ interrupt = FALSE /\ target = 0 /\ missing = {}
        /\ programmed = FALSE /\ remaining = 0 /\ pause = 0
        /\ cmp \in 0 .. timer!Modulus - 1
    BY DEF timer!Init
  <1>2. cmp \in Int /\ 0 \in 0 .. Half - 1 /\ 0 \in 0 .. MaxPause
    BY <1>1, TimerRange
  <1>3. ~timer!Armed /\ missing \in {{}, {"low"}, {"high"}} /\ missing # {"low"} /\ missing # {"high"}
    BY <1>1 DEF timer!Armed
  <1>4. counter \in Int /\ target \in Int
    BY <1>1
  <1>5. interrupt \in BOOLEAN /\ programmed \in BOOLEAN
    BY <1>1
  <1> QED BY <1>1, <1>2, <1>3, <1>4, <1>5 DEF TimerInv

\* What every cycle does to the distance between the counter and a target that
\* stays.
LEMMA CycleOn ==
    ASSUME TimerInv, counter' = (counter + 1) % timer!Modulus, target' = target
    PROVE  /\ Past \in 0 .. timer!Modulus - 1
           /\ Past < timer!Modulus - 1 => Past' = Past + 1
           /\ Past = timer!Modulus - 1 => Past' = 0
           /\ counter' \in Int
  <1>1. counter \in Int /\ target \in Int
    BY DEF TimerInv
  <1>2. timer!Modulus \in Nat \ {0}
    BY TimerRange
  <1>3. counter + 1 \in Int
    BY <1>1
  <1>4. (counter + 1) % timer!Modulus \in Int
    BY <1>2, <1>3, DivMod
  <1>5. Past' = (((counter + 1) % timer!Modulus) - target) % timer!Modulus
    BY DEF Past, timer!Modulus
  <1> QED BY <1>1, <1>2, <1>4, <1>5, ModNext DEF Past

LEMMA TimerIdle ==
    ASSUME TimerInv, timer!Idle
    PROVE  TimerInv' /\ timer!InterruptStays
  <1> DEFINE M == timer!Modulus
  <1>1. /\ Half \in Nat \ {0} /\ M = Half + Half /\ MaxPause \in Nat /\ MaxPause + 2 < Half
    BY TimerRange
  <1>2. /\ counter' = (counter + 1) % M /\ interrupt' = (timer!Reached \/ interrupt)
        /\ cmp' = cmp /\ target' = target /\ missing' = missing /\ programmed' = programmed
        /\ remaining' = IF remaining > 0 THEN remaining - 1 ELSE 0
        /\ pause' = IF missing = {} THEN 0 ELSE pause + 1
        /\ missing # {} => pause < MaxPause
    BY DEF timer!Idle, timer!Cycle, timer!Interrupt, timer!Tick, timer!driver
  <1>3. /\ Past \in 0 .. M - 1
        /\ Past < M - 1 => Past' = Past + 1
        /\ Past = M - 1 => Past' = 0
        /\ counter' \in Int
    BY <1>2, CycleOn
  <1>4. M' = M /\ Half' = Half /\ timer!Word' = timer!Word
    BY DEF timer!Modulus, Half, timer!Word
  <1>5. cmp = target => (timer!Reached <=> Past < Half)
    BY TimerRange DEF timer!Reached, Past
  <1> HIDE DEF M
  <1>6. /\ remaining \in 0 .. Half - 1 /\ pause \in 0 .. MaxPause
        /\ missing # {} => /\ remaining > 0 => Past = M - remaining
                           /\ remaining = 0 => Past <= pause
        /\ timer!Armed => /\ cmp = target
                          /\ remaining > 0 => Past = M - remaining /\ ~interrupt
                          /\ remaining = 0 => interrupt \/ Past < Half
    BY DEF TimerInv, M
  <1>7. remaining' \in 0 .. Half - 1 /\ pause' \in 0 .. MaxPause
    BY <1>1, <1>2, <1>6
  <1>8. (timer!Armed)' <=> timer!Armed
    BY <1>2 DEF timer!Armed
  <1>9. ASSUME missing # {}
        PROVE  /\ remaining' > 0 => Past' = M - remaining'
               /\ remaining' = 0 => Past' <= pause'
    BY <1>1, <1>2, <1>3, <1>6, <1>9
  <1>10. ASSUME timer!Armed
         PROVE  /\ remaining' > 0 => Past' = M - remaining' /\ ~interrupt'
                /\ remaining' = 0 => interrupt' \/ Past' < Half
                /\ remaining = 0 => interrupt'
    <2>1. CASE remaining > 1
      <3>1. Past = M - remaining /\ ~interrupt /\ ~(Past < Half)
        BY <1>1, <1>6, <1>10, <2>1
      <3>2. ~interrupt'
        BY <1>2, <1>5, <1>6, <1>10, <3>1
      <3>3. remaining' = remaining - 1 /\ Past' = M - remaining'
        BY <1>1, <1>2, <1>3, <1>6, <2>1, <3>1
      <3> QED BY <1>6, <2>1, <3>2, <3>3
    <2>2. CASE remaining = 1
      <3>1. Past = M - 1 /\ remaining' = 0 /\ Past' = 0
        BY <1>1, <1>2, <1>3, <1>6, <1>10, <2>2
      <3> QED BY <1>1, <2>2, <3>1
    <2>3. CASE remaining = 0
      <3>1. interrupt'
        BY <1>2, <1>5, <1>6, <1>10, <2>3
      <3>2. remaining' = 0
        BY <1>2, <2>3
      <3> QED BY <3>1, <3>2
    <2> QED BY <1>6, <2>1, <2>2, <2>3
  <1>11. interrupt' \in BOOLEAN
    BY <1>2
  <1>12. timer!InterruptStays
    BY <1>10 DEF timer!InterruptStays
  <1>13. /\ counter' \in Int /\ cmp' \in Int /\ target' \in Int /\ programmed' \in BOOLEAN
         /\ missing' \in {{}, {"low"}, {"high"}}
         /\ missing' = {"low"} => cmp' \div timer!Word = target' \div timer!Word
         /\ missing' = {"high"} => cmp' % timer!Word = target' % timer!Word
    BY <1>2, <1>3 DEF TimerInv
  <1>14. TimerInv'
    BY <1>2, <1>4, <1>6, <1>7, <1>8, <1>9, <1>10, <1>11, <1>13 DEF TimerInv, M
  <1> QED BY <1>12, <1>14

LEMMA TimerBegin ==
    ASSUME TimerInv, NEW half \in {"low", "high"}, NEW distance \in Distances,
           timer!Begin(half, distance)
    PROVE  TimerInv' /\ timer!InterruptStays
  <1> DEFINE M == timer!Modulus
             W == timer!Word
             new == (counter + distance) % M
  <1>1. /\ Half \in Nat \ {0} /\ M = Half + Half /\ M \in Nat \ {0} /\ W \in Nat \ {0}
        /\ MaxPause \in Nat /\ distance \in 1 .. Half - 1
    BY TimerRange
  <1>2. /\ counter' = (counter + 1) % M /\ interrupt' = FALSE
        /\ target' = new /\ programmed' = programmed
        /\ cmp' = IF half = "low" THEN (cmp \div W) * W + (new % W)
                                  ELSE (new \div W) * W + (cmp % W)
        /\ missing' = {"low", "high"} \ {half}
        /\ remaining' = distance - 1 /\ pause' = 0
    BY DEF timer!Begin, timer!Cycle, timer!Interrupt, timer!Replaced
  <1>3. M' = M /\ Half' = Half /\ W' = W
    BY DEF timer!Modulus, Half, timer!Word
  <1>4. counter \in Int /\ cmp \in Int /\ programmed \in BOOLEAN
    BY DEF TimerInv
  <1>5. Past' = (((counter + 1) % M) - new) % M
    BY <1>2, <1>3 DEF Past
  <1> HIDE DEF M, W
  <1>6. counter + 1 \in Int /\ counter + distance \in Int
    BY <1>1, <1>4
  <1>7. counter' \in Int /\ new \in Int
    <2>1. (counter + 1) % M \in 0 .. M - 1
      BY <1>1, <1>6, DivMod
    <2>2. (counter + distance) % M \in 0 .. M - 1
      BY <1>1, <1>6, DivMod
    <2> QED BY <1>1, <1>2, <2>1, <2>2
  <1>8. /\ distance = 1 => Past' = 0
        /\ distance > 1 => Past' = M - (distance - 1)
    <2>1. distance \in 1 .. M
      BY <1>1
    <2> QED BY <1>1, <1>4, <1>5, <2>1, ModAhead
  <1> HIDE DEF new
  <1>9. /\ cmp' \in Int
        /\ half = "low" => cmp' % W = new % W /\ missing' = {"high"}
        /\ half = "high" => cmp' \div W = new \div W /\ missing' = {"low"}
    <2>1. CASE half = "low"
      <3>1. cmp' = (cmp \div W) * W + (new % W) /\ missing' = {"high"}
        BY <1>2, <2>1
      <3> QED BY <1>1, <1>4, <1>7, <2>1, <3>1, DivModParts
    <2>2. CASE half = "high"
      <3>1. cmp' = (new \div W) * W + (cmp % W) /\ missing' = {"low"}
        BY <1>2, <2>2
      <3> QED BY <1>1, <1>4, <1>7, <2>2, <3>1, DivModParts
    <2> QED BY <2>1, <2>2
  <1>10. /\ remaining' \in 0 .. Half - 1 /\ pause' \in 0 .. MaxPause
         /\ remaining' > 0 => Past' = M - remaining'
         /\ remaining' = 0 => Past' <= pause'
    BY <1>1, <1>2, <1>8
  <1>11. /\ missing' # {} /\ missing' \in {{}, {"low"}, {"high"}}
         /\ missing' = {"low"} => cmp' \div W = target' \div W
         /\ missing' = {"high"} => cmp' % W = target' % W
    BY <1>2, <1>9
  <1>12. ~(timer!Armed)' /\ timer!InterruptStays
    BY <1>11 DEF timer!Armed, timer!InterruptStays
  <1>13. target' \in Int /\ programmed' \in BOOLEAN /\ interrupt' \in BOOLEAN
    <2>1. target' \in Int
      BY <1>2, <1>7
    <2>2. programmed' \in BOOLEAN /\ interrupt' \in BOOLEAN
      BY <1>2, <1>4
    <2> QED BY <2>1, <2>2
  <1>14. TimerInv'
    BY <1>3, <1>7, <1>9, <1>10, <1>11, <1>12, <1>13 DEF TimerInv, M, W
  <1> QED BY <1>12, <1>14

LEMMA TimerFinish ==
    ASSUME TimerInv, timer!Finish
    PROVE  TimerInv' /\ timer!InterruptStays
  <1> DEFINE M == timer!Modulus
             W == timer!Word
  <1>1. /\ Half \in Nat \ {0} /\ M = Half + Half /\ W \in Nat \ {0}
        /\ MaxPause \in Nat /\ MaxPause + 2 < Half
    BY TimerRange
  <1>2. PICK half \in missing :
           cmp' = IF half = "low" THEN (cmp \div W) * W + (target % W)
                                  ELSE (target \div W) * W + (cmp % W)
    BY DEF timer!Finish, timer!Replaced
  <1>3. /\ counter' = (counter + 1) % M /\ interrupt' = FALSE
        /\ target' = target /\ missing' = {} /\ programmed' = TRUE
        /\ remaining' = IF remaining > 0 THEN remaining - 1 ELSE 0
        /\ pause' = 0
    BY DEF timer!Finish, timer!Cycle, timer!Interrupt, timer!Tick
  <1>4. /\ Past \in 0 .. M - 1
        /\ Past < M - 1 => Past' = Past + 1
        /\ Past = M - 1 => Past' = 0
        /\ counter' \in Int
    BY <1>3, CycleOn
  <1>5. M' = M /\ Half' = Half /\ W' = W
    BY DEF timer!Modulus, Half, timer!Word
  <1> HIDE DEF M, W
  <1>6. /\ cmp \in Int /\ target \in Int
        /\ missing \in {{"low"}, {"high"}}
        /\ missing = {"low"} => cmp \div W = target \div W
        /\ missing = {"high"} => cmp % W = target % W
        /\ remaining \in 0 .. Half - 1 /\ pause \in 0 .. MaxPause
        /\ remaining > 0 => Past = M - remaining
        /\ remaining = 0 => Past <= pause
    BY <1>2 DEF TimerInv, M, W
  <1>7. cmp' = target
    <2>1. (target \div W) * W + (target % W) = target
      BY <1>1, <1>6, DivModParts
    <2>2. CASE missing = {"low"}
      <3>1. half = "low" /\ cmp \div W = target \div W
        BY <1>6, <2>2
      <3> QED BY <1>2, <2>1, <3>1
    <2>3. CASE missing = {"high"}
      <3>1. half = "high" /\ cmp % W = target % W
        BY <1>6, <2>3
      <3> QED BY <1>2, <2>1, <3>1
    <2> QED BY <1>6, <2>2, <2>3
  <1>8. /\ remaining' \in 0 .. Half - 1 /\ pause' \in 0 .. MaxPause
        /\ remaining' > 0 => Past' = M - remaining'
        /\ remaining' = 0 => Past' < Half
    BY <1>1, <1>3, <1>4, <1>6
  <1>9. timer!InterruptStays
    BY <1>2 DEF timer!InterruptStays, timer!Armed
  <1>10. /\ interrupt' \in BOOLEAN /\ programmed' \in BOOLEAN /\ ~interrupt'
         /\ missing' \in {{}, {"low"}, {"high"}} /\ missing' # {"low"} /\ missing' # {"high"}
         /\ missing' = {} /\ target' = target /\ cmp' = target'
    BY <1>3, <1>7
  <1>11. target' \in Int /\ cmp' \in Int
    BY <1>3, <1>6, <1>7
  <1>12. TimerInv'
    BY <1>4, <1>5, <1>8, <1>10, <1>11 DEF TimerInv, M, W
  <1> QED BY <1>9, <1>12

\* One cycle.
LEMMA TimerStep ==
    ASSUME TimerInv, timer!Next
    PROVE  TimerInv' /\ timer!InterruptStays
  BY TimerIdle, TimerBegin, TimerFinish DEF timer!Next

LEMMA TimerInvariant == Spec => [](device = "timer" => TimerInv)
  <1> DEFINE I == device = "timer" => TimerInv
  <1>1. Init => I
    BY TimerInvInit DEF Init
  <1>2. I /\ [Next]_vars => I'
    <2> SUFFICES ASSUME I, [Next]_vars, device' = "timer" PROVE TimerInv'
      OBVIOUS
    <2>1. CASE TimerNext
      BY <2>1, TimerStep DEF TimerNext
    <2>2. CASE Ft245Next \/ RamNext \/ ResetNext \/ WindowNext \/ MacNext
      BY <2>2 DEF Ft245Next, RamNext, ResetNext, WindowNext, MacNext
    <2>3. CASE UNCHANGED vars
      BY <2>3 DEF vars, timerVars, TimerInv, Past, Half, timer!Armed, timer!Modulus, timer!Word
    <2> QED BY <2>1, <2>2, <2>3 DEF Next
  <1> QED BY <1>1, <1>2, PTL DEF Spec

\* The interrupt does not come before the deadline.
THEOREM NoEarlyInterruptCorrect == Spec => []NoEarlyInterrupt
  <1>1. TimerInv => timer!NoEarlyInterrupt
    <2> SUFFICES ASSUME TimerInv, timer!Armed, interrupt PROVE remaining = 0
      BY DEF timer!NoEarlyInterrupt
    <2>1. remaining \in 0 .. Half - 1 /\ ~(remaining > 0)
      BY DEF TimerInv
    <2> QED BY <2>1, TimerRange
  <1>2. (device = "timer" => TimerInv) => NoEarlyInterrupt
    BY <1>1 DEF NoEarlyInterrupt
  <1> QED BY <1>2, TimerInvariant, PTL

\* Nor is it lost behind it.
THEOREM NoMissedInterruptCorrect == Spec => NoMissedInterrupt
  <1>1. (device = "timer" => TimerInv) /\ [Next]_vars
            => [device = "timer" => timer!InterruptStays]_vars
    BY TimerStep DEF Next, Ft245Next, RamNext, TimerNext, ResetNext, WindowNext, MacNext
  <1> QED BY <1>1, TimerInvariant, PTL DEF Spec, NoMissedInterrupt
-----------------------------------------------------------------------------
(* The on-chip RAMs.                                                       *)

Bytes == 0 .. 4 * Words - 1
Word(a) == [l \in 0 .. 3 |-> written[4 * a + l]]
Nibbles(word, b) == [n \in 0 .. 3 |-> word[2 * b + (n \div 2)][1 + (n % 2)]]
IsByte(byte) == byte = <<byte[1], byte[2]>>

\* Both RAMs hold what was written last, each in its own arrangement.
HeldInv ==
    /\ DOMAIN written = Bytes
    /\ \A i \in Bytes : IsByte(written[i])
    /\ mem = [a \in 0 .. Words - 1 |-> Word(a)]
    /\ mems = [b \in {0, 1} |-> [a \in 0 .. Words - 1 |-> Nibbles(Word(a), b)]]

\* They show the word that was asked for, if one was.
ShownInv ==
    /\ rspValid \in BOOLEAN /\ (rspValid <=> expected # ram!NoRead)
    /\ rspPending \in BOOLEAN /\ rspTarget \in BOOLEAN
    /\ rspPending /\ rspTarget <=> expected # ram!NoRead
    /\ expected # ram!NoRead =>
          /\ expected = [l \in 0 .. 3 |-> expected[l]]
          /\ \A l \in 0 .. 3 : IsByte(expected[l])
          /\ rspData = expected
          /\ dataOut = [b \in {0, 1} |-> Nibbles(expected, b)]

RamInv == HeldInv /\ ShownInv

LEMMA HeldOn ==
    ASSUME HeldInv, UNCHANGED <<mem, mems, written>>
    PROVE  HeldInv'
  BY DEF HeldInv, Word, Nibbles, IsByte, Bytes

LEMMA ShownNothing ==
    ASSUME expected' = ram!NoRead, rspValid' = FALSE, rspPending' = FALSE,
           rspTarget' \in BOOLEAN
    PROVE  ShownInv'
  <1>1. ram!NoRead' = ram!NoRead
    BY DEF ram!NoRead, ram!NoByte
  <1> QED BY <1>1 DEF ShownInv

\* Commands are for the word the address lies in: what the bus keeps of the
\* address when it is mapped.
LEMMA AddressedWord ==
    ASSUME NEW address \in Addresses
    PROVE  /\ Words \in Nat \ {0}
           /\ (address - Base) \div 4 \in 0 .. Words - 1
           /\ (address \div 4) % Words = (address - Base) \div 4
  <1> DEFINE q == Base \div (4 * Words)
             a == (address - Base) \div 4
             r == (address - Base) % 4
  <1>1. /\ Words \in Nat \ {0} /\ Base \in Nat /\ Base % (4 * Words) = 0
        /\ address \in Base .. Base + 4 * Words - 1
    BY MappingAssumption DEF ram!MappingAssumption
  <1>2. 4 * Words \in Nat \ {0} /\ Base \in Int /\ address - Base \in Int
    BY <1>1
  <1>3. q \in Int /\ Base = (4 * Words) * q
    <2>1. q \in Int /\ Base = (4 * Words) * q + (Base % (4 * Words))
      BY <1>2, DivMod
    <2> QED BY <1>1, <1>2, <2>1
  <1>4. a \in Int /\ r \in 0 .. 3 /\ address - Base = 4 * a + r
    <2>1. 4 \in Nat \ {0}
      OBVIOUS
    <2>2. a \in Int /\ r \in 0 .. 4 - 1 /\ address - Base = 4 * a + r
      BY <1>2, <2>1, DivMod
    <2> QED BY <2>2
  <1> HIDE DEF q, a, r
  <1>5. a \in 0 .. Words - 1
    BY <1>1, <1>4
  <1>6. address = 4 * (Words * q + a) + r
    <2>1. (4 * Words) * q = 4 * (Words * q) /\ Words * q \in Int
      BY <1>1, <1>3
    <2> QED BY <1>1, <1>3, <1>4, <2>1
  <1>7. address \div 4 = Words * q + a
    <2>1. Words * q \in Int
      BY <1>1, <1>3
    <2> HIDE DEF q
    <2> DEFINE p == Words * q
    <2>2. p \in Int /\ address = 4 * (p + a) + r
      BY <1>6, <2>1
    <2> HIDE DEF p
    <2>3. address \div 4 = p + a
      BY <1>1, <1>4, <2>2
    <2> QED BY <2>3 DEF p
  <1>8. (address \div 4) % Words = a
    <2>1. Words * q + a \in Int
      BY <1>1, <1>3, <1>4
    <2> QED BY <1>1, <1>3, <1>5, <1>7, <2>1, ModUnique
  <1> QED BY <1>1, <1>5, <1>8 DEF a

LEMMA RamInvInit == ram!Init => RamInv
  <1> SUFFICES ASSUME ram!Init PROVE RamInv
    OBVIOUS
  <1>1. /\ written = [i \in Bytes |-> ram!NoByte]
        /\ mem = [a \in 0 .. Words - 1 |-> [l \in 0 .. 3 |-> ram!NoByte]]
        /\ mems = [b \in {0, 1} |-> [a \in 0 .. Words - 1 |-> [n \in 0 .. 3 |-> Undefined]]]
        /\ rspValid = FALSE /\ rspPending = FALSE /\ rspTarget = FALSE
        /\ expected = ram!NoRead
    BY DEF ram!Init, ram!bram!Reset, ram!spram!Reset, ram!bram!Lanes, ram!spram!Blocks,
           ram!spram!Nibbles, ram!spram!UndefinedWord, Bytes
  <1>2. /\ \A a \in 0 .. Words - 1 : \A l \in 0 .. 3 : 4 * a + l \in Bytes
        /\ \A b \in {0, 1} : \A n \in 0 .. 3 : /\ 2 * b + (n \div 2) \in 0 .. 3
                                              /\ 1 + (n % 2) \in {1, 2}
    BY MappingAssumption DEF ram!MappingAssumption, Bytes
  <1>3. /\ ram!NoByte = <<Undefined, Undefined>>
        /\ \A k \in {1, 2} : ram!NoByte[k] = Undefined
    BY DEF ram!NoByte
  <1>4. \A i \in Bytes : written[i] = ram!NoByte
    BY <1>1
  <1>5. \A a \in 0 .. Words - 1 : Word(a) = [l \in 0 .. 3 |-> ram!NoByte]
    BY <1>2, <1>4 DEF Word
  <1>6. \A b \in {0, 1} : Nibbles([l \in 0 .. 3 |-> ram!NoByte], b) = [n \in 0 .. 3 |-> Undefined]
    BY <1>2, <1>3 DEF Nibbles
  <1>7. mem = [a \in 0 .. Words - 1 |-> Word(a)]
    BY <1>1, <1>5
  <1>8. mems = [b \in {0, 1} |-> [a \in 0 .. Words - 1 |-> Nibbles(Word(a), b)]]
    BY <1>1, <1>5, <1>6
  <1>9. \A i \in Bytes : IsByte(written[i])
    BY <1>3, <1>4 DEF IsByte
  <1> QED BY <1>1, <1>7, <1>8, <1>9 DEF RamInv, HeldInv, ShownInv

\* A cycle without a command.
LEMMA RamIdle ==
    ASSUME RamInv, ram!Idle
    PROVE  RamInv'
  <1>1. /\ mem' = mem /\ rspValid' = FALSE /\ rspPending' = FALSE /\ rspTarget' = FALSE
        /\ mems' = [b \in {0, 1} |-> mems[b]]
        /\ expected' = ram!NoRead /\ written' = written
    BY DEF ram!Idle, ram!Cycle, ram!bram!Clock, ram!bram!Write, ram!spram!Clock,
           ram!spram!Block, ram!spram!RspPending, ram!spram!Blocks
  <1>2. mems' = mems
    BY <1>1 DEF RamInv, HeldInv
  <1> QED BY <1>1, <1>2, HeldOn, ShownNothing DEF RamInv

\* A read takes the word out of both RAMs.
LEMMA RamRead ==
    ASSUME RamInv, NEW address \in Addresses, ram!ReadWord(address)
    PROVE  RamInv'
  <1> DEFINE a == (address - Base) \div 4
  <1>1. a \in 0 .. Words - 1 /\ (address \div 4) % Words = a
    BY AddressedWord
  <1>2. /\ mem' = mem /\ rspData' = mem[(address \div 4) % Words]
        /\ rspValid' = TRUE /\ rspPending' = TRUE /\ rspTarget' = TRUE
        /\ mems' = [b \in {0, 1} |-> mems[b]]
        /\ dataOut' = [b \in {0, 1} |-> mems[b][(address \div 4) % Words]]
        /\ expected' = [l \in 0 .. 3 |-> written[4 * a + l]] /\ written' = written
    BY DEF ram!ReadWord, ram!Cycle, ram!bram!Clock, ram!bram!Write, ram!bram!Read,
           ram!bram!WordAddress, ram!spram!Clock, ram!spram!Block, ram!spram!RspPending,
           ram!spram!Blocks, ram!Offset, ram!Lanes
  <1> HIDE DEF a
  <1>3. mem' = mem /\ mems' = mems /\ rspData' = mem[a]
        /\ dataOut' = [b \in {0, 1} |-> mems[b][a]]
        /\ expected' = Word(a) /\ written' = written
    BY <1>1, <1>2 DEF RamInv, HeldInv, Word
  <1>4. rspData' = Word(a) /\ dataOut' = [b \in {0, 1} |-> Nibbles(Word(a), b)]
    BY <1>1, <1>3 DEF RamInv, HeldInv
  <1>5. \A l \in 0 .. 3 : Word(a)[l] = written[4 * a + l] /\ 4 * a + l \in Bytes
    BY <1>1, MappingAssumption DEF ram!MappingAssumption, Bytes, Word
  <1>6. /\ expected' = [l \in 0 .. 3 |-> expected'[l]]
        /\ \A l \in 0 .. 3 : IsByte(expected'[l])
    BY <1>3, <1>5 DEF RamInv, HeldInv, IsByte, Word
  <1>7. expected' # ram!NoRead'
    <2>1. 0 \in DOMAIN expected' /\ 0 \notin DOMAIN ram!NoRead'
      BY <1>6 DEF ram!NoRead
    <2> QED BY <2>1
  <1>8. dataOut' = [b \in {0, 1} |-> Nibbles(expected', b)]
    BY <1>3, <1>4
  <1>9. ShownInv'
    BY <1>2, <1>3, <1>4, <1>6, <1>7, <1>8 DEF ShownInv, Nibbles, IsByte
  <1> QED BY <1>3, <1>9, HeldOn DEF RamInv

\* A store changes the bytes of its mask, in the word it is for.
LEMMA StoredBytes ==
    ASSUME RamInv, NEW address \in Addresses, NEW bytes \in DistinctBytes,
           NEW mask \in StoreMasks, ram!WriteBytes(address, bytes, mask),
           NEW a \in 0 .. Words - 1, NEW l \in 0 .. 3
    PROVE  written'[4 * a + l] =
               IF a = (address - Base) \div 4 /\ mask[l] THEN bytes[l] ELSE written[4 * a + l]
  <1> DEFINE c == (address - Base) \div 4
             stored == {4 * c + k : k \in {m \in 0 .. 3 : mask[m]}}
  <1>1. c \in 0 .. Words - 1 /\ Words \in Nat \ {0}
    BY AddressedWord
  <1>2. written' = [i \in DOMAIN written |-> IF i \in stored THEN bytes[i % 4] ELSE written[i]]
    BY DEF ram!WriteBytes, ram!Offset, ram!Lanes
  <1> HIDE DEF c
  <1>3. 4 * a + l \in DOMAIN written
    BY <1>1 DEF RamInv, HeldInv, Bytes
  <1>4. 4 * a + l \in stored <=> a = c /\ mask[l]
    BY <1>1
  <1>5. (4 * a + l) % 4 = l
    BY <1>1
  <1> HIDE DEF stored
  <1> QED BY <1>2, <1>3, <1>4, <1>5 DEF c

\* Both RAMs take them.
LEMMA RamWrite ==
    ASSUME RamInv, NEW address \in Addresses, NEW bytes \in DistinctBytes,
           NEW mask \in StoreMasks, ram!WriteBytes(address, bytes, mask)
    PROVE  RamInv'
  <1> DEFINE c == (address - Base) \div 4
             word == [l \in 0 .. 3 |-> IF mask[l] THEN bytes[l] ELSE written[4 * c + l]]
  <1>1. /\ c \in 0 .. Words - 1 /\ (address \div 4) % Words = c
        /\ Words \in Nat \ {0}
    BY AddressedWord
  <1>2. /\ mem' = [mem EXCEPT ![c] = [l \in 0 .. 3 |-> IF mask[l] THEN bytes[l] ELSE mem[c][l]]]
        /\ rspValid' = FALSE /\ rspPending' = FALSE /\ rspTarget' = TRUE
        /\ mems' = [b \in {0, 1} |-> [mems[b] EXCEPT ![c] =
                      [n \in 0 .. 3 |-> IF mask[2 * b + (n \div 2)]
                                        THEN bytes[2 * b + (n \div 2)][1 + (n % 2)]
                                        ELSE mems[b][c][n]]]]
        /\ expected' = ram!NoRead
        /\ DOMAIN written' = DOMAIN written
    <2>1. /\ mem' = [mem EXCEPT ![c] = [l \in 0 .. 3 |-> IF mask[l] THEN bytes[l] ELSE mem[c][l]]]
          /\ rspValid' = FALSE
      BY <1>1 DEF ram!WriteBytes, ram!Cycle, ram!bram!Clock, ram!bram!Write, ram!bram!Read,
             ram!bram!WordAddress, ram!bram!Lanes
    <2>2. /\ rspPending' = FALSE /\ rspTarget' = TRUE
          /\ mems' = [b \in {0, 1} |-> [mems[b] EXCEPT ![c] =
                        [n \in 0 .. 3 |-> IF mask[2 * b + (n \div 2)]
                                          THEN bytes[2 * b + (n \div 2)][1 + (n % 2)]
                                          ELSE mems[b][c][n]]]]
      BY <1>1 DEF ram!WriteBytes, ram!Cycle, ram!spram!Clock, ram!spram!Block,
             ram!spram!RspPending, ram!spram!Blocks, ram!spram!MaskWrEn, ram!spram!DataIn,
             ram!spram!Nibbles
    <2>3. expected' = ram!NoRead /\ DOMAIN written' = DOMAIN written
      BY DEF ram!WriteBytes
    <2> QED BY <2>1, <2>2, <2>3
  <1>3. \A a \in 0 .. Words - 1 : \A l \in 0 .. 3 :
            written'[4 * a + l] = IF a = c /\ mask[l] THEN bytes[l] ELSE written[4 * a + l]
    BY StoredBytes
  <1> HIDE DEF c
  <1>4. \A l \in 0 .. 3 : IsByte(bytes[l])
    BY DEF DistinctBytes, IsByte
  <1>5. \A a \in 0 .. Words - 1 : Word(a)' = IF a = c THEN word ELSE Word(a)
    <2> SUFFICES ASSUME NEW a \in 0 .. Words - 1
                 PROVE  Word(a)' = IF a = c THEN word ELSE Word(a)
      OBVIOUS
    <2>1. Word(a)' = [l \in 0 .. 3 |-> written'[4 * a + l]]
      BY DEF Word
    <2>2. CASE a = c
      BY <1>3, <2>1, <2>2
    <2>3. CASE a # c
      BY <1>3, <2>1, <2>3 DEF Word
    <2> QED BY <2>2, <2>3
  <1>6. mem' = [a \in 0 .. Words - 1 |-> Word(a)']
    <2>1. mem[c] = Word(c) /\ \A l \in 0 .. 3 : Word(c)[l] = written[4 * c + l]
      BY <1>1 DEF RamInv, HeldInv, Word
    <2>2. [l \in 0 .. 3 |-> IF mask[l] THEN bytes[l] ELSE mem[c][l]] = word
      BY <2>1
    <2> HIDE DEF word
    <2> QED BY <1>1, <1>2, <1>5, <2>2 DEF RamInv, HeldInv
  <1>7. mems' = [b \in {0, 1} |-> [a \in 0 .. Words - 1 |-> Nibbles(Word(a)', b)]]
    <2> SUFFICES ASSUME NEW b \in {0, 1}
                 PROVE  mems'[b] = [a \in 0 .. Words - 1 |-> Nibbles(Word(a)', b)]
      BY <1>2
    <2>1. mems[b] = [a \in 0 .. Words - 1 |-> Nibbles(Word(a), b)]
      BY DEF RamInv, HeldInv
    <2>2. \A n \in 0 .. 3 : 2 * b + (n \div 2) \in 0 .. 3
      OBVIOUS
    <2>3. \A n \in 0 .. 3 : mems[b][c][n] = written[4 * c + (2 * b + (n \div 2))][1 + (n % 2)]
      BY <1>1, <2>1, <2>2 DEF Nibbles, Word
    <2>4. [n \in 0 .. 3 |-> IF mask[2 * b + (n \div 2)]
                            THEN bytes[2 * b + (n \div 2)][1 + (n % 2)]
                            ELSE mems[b][c][n]] = Nibbles(word, b)
      BY <2>2, <2>3 DEF Nibbles
    <2> HIDE DEF word
    <2>5. mems'[b] = [mems[b] EXCEPT ![c] = Nibbles(word, b)]
      BY <1>2, <2>4
    <2> QED BY <1>1, <1>5, <2>1, <2>5
  <1>8. \A i \in Bytes : IsByte(written'[i])
    <2> SUFFICES ASSUME NEW i \in Bytes PROVE IsByte(written'[i])
      OBVIOUS
    <2> DEFINE a == i \div 4
               l == i % 4
    <2>1. i \in Int /\ 4 \in Nat \ {0} /\ i \in 0 .. 4 * Words - 1
      BY <1>1 DEF Bytes
    <2>2. a \in Int /\ l \in 0 .. 4 - 1 /\ i = 4 * a + l
      BY <2>1, DivMod
    <2> HIDE DEF a, l
    <2>3. a \in 0 .. Words - 1 /\ l \in 0 .. 3
      BY <1>1, <2>1, <2>2
    <2>4. written'[i] = bytes[l] \/ written'[i] = written[i]
      BY <1>3, <2>2, <2>3
    <2> QED BY <1>4, <2>3, <2>4 DEF RamInv, HeldInv
  <1>9. HeldInv'
    <2>1. (\A i \in Bytes : IsByte(written[i]))' /\ DOMAIN written' = Bytes'
      BY <1>2, <1>8 DEF RamInv, HeldInv, Bytes, IsByte
    <2>2. mem' = [a \in 0 .. Words - 1 |-> Word(a)]'
      BY <1>6 DEF Word
    <2>3. mems' = [b \in {0, 1} |-> [a \in 0 .. Words - 1 |-> Nibbles(Word(a), b)]]'
      BY <1>7 DEF Word, Nibbles
    <2> QED BY <2>1, <2>2, <2>3 DEF HeldInv
  <1>10. ShownInv'
    BY <1>2, ShownNothing
  <1> QED BY <1>9, <1>10 DEF RamInv

LEMMA RamInvariant == Spec => [](device = "ram" => RamInv)
  <1> DEFINE I == device = "ram" => RamInv
  <1>1. Init => I
    BY RamInvInit DEF Init
  <1>2. I /\ [Next]_vars => I'
    <2> SUFFICES ASSUME I, [Next]_vars, device' = "ram" PROVE RamInv'
      OBVIOUS
    <2>1. CASE RamNext
      <3>1. device = "ram" /\ ram!Next
        BY <2>1 DEF RamNext
      <3> QED BY <3>1, RamIdle, RamRead, RamWrite DEF ram!Next
    <2>2. CASE Ft245Next \/ TimerNext \/ ResetNext \/ WindowNext \/ MacNext
      BY <2>2 DEF Ft245Next, TimerNext, ResetNext, WindowNext, MacNext
    <2>3. CASE UNCHANGED vars
      <3>1. UNCHANGED ramVars /\ device = "ram"
        BY <2>3 DEF vars
      <3>2. HeldInv'
        BY <3>1, HeldOn DEF ramVars, RamInv
      <3>3. ShownInv'
        BY <3>1 DEF ramVars, RamInv, ShownInv, Nibbles, IsByte, ram!NoRead, ram!NoByte
      <3> QED BY <3>2, <3>3 DEF RamInv
    <2> QED BY <2>1, <2>2, <2>3 DEF Next
  <1> QED BY <1>1, <1>2, PTL DEF Spec

\* Both RAMs answer exactly the reads, with the bytes written last.
THEOREM RamsAnswerCorrect == Spec => []RamsAnswer
  <1>1. ShownInv => ram!BramAnswers
    BY DEF ShownInv, ram!BramAnswers
  <1>2. ShownInv => ram!SpramAnswers
    <2> SUFFICES ASSUME ShownInv PROVE ram!SpramAnswers
      OBVIOUS
    <2>1. ram!spram!RspValid = (expected # ram!NoRead)
      BY DEF ShownInv, ram!spram!RspValid
    <2>2. ASSUME expected # ram!NoRead PROVE ram!spram!RspData = expected
      <3>1. /\ expected = [l \in 0 .. 3 |-> expected[l]]
            /\ \A l \in 0 .. 3 : IsByte(expected[l])
            /\ \A b \in {0, 1} : \A n \in 0 .. 3 :
                  dataOut[b][n] = expected[2 * b + (n \div 2)][1 + (n % 2)]
        BY <2>2 DEF ShownInv, Nibbles
      <3>2. \A l \in 0 .. 3 :
               LET n == 2 * (l % 2)
               IN  /\ l \div 2 \in {0, 1} /\ n \in 0 .. 3 /\ n + 1 \in 0 .. 3
                   /\ 2 * (l \div 2) + (n \div 2) = l /\ 2 * (l \div 2) + ((n + 1) \div 2) = l
                   /\ 1 + (n % 2) = 1 /\ 1 + ((n + 1) % 2) = 2
        OBVIOUS
      <3>3. \A l \in 0 .. 3 :
               LET n == 2 * (l % 2)
               IN  /\ dataOut[l \div 2][n] = expected[l][1]
                   /\ dataOut[l \div 2][n + 1] = expected[l][2]
        BY <3>1, <3>2
      <3>4. ram!spram!RspData = [l \in 0 .. 3 |-> <<expected[l][1], expected[l][2]>>]
        BY <3>3 DEF ram!spram!RspData
      <3> QED BY <3>1, <3>4 DEF IsByte
    <2> QED BY <2>1, <2>2 DEF ram!SpramAnswers
  <1>3. (device = "ram" => RamInv) => RamsAnswer
    BY <1>1, <1>2 DEF RamsAnswer, RamInv
  <1> QED BY <1>3, RamInvariant, PTL

-----------------------------------------------------------------------------
(* The commands in the MAC pipeline.  The argument follows one of them     *)
(* through a clock edge: register i takes over from Origin(i), itself or   *)
(* the one before it, and because a register that loads makes all          *)
(* registers before it load, origins increase strictly.  So order is kept, *)
(* and no register is copied twice or forgotten.                           *)

Stage == 1 .. Stages

LEMMA MacConfig == Stages \in Nat \ {0} /\ MaxCommands \in Nat /\ Bubble \notin Nat
  BY CommandAssumption DEF mac!CommandAssumption, mac!StagesAssumption

\* The register whose content register i holds after the edge; 0 is cmd.
Origin(i, rspReady) == IF mac!Loads(i, rspReady) THEN i - 1 ELSE i

\* The content of a register before the edge, cmd included.
Source(k, cmd) == IF k = 0 THEN cmd ELSE stage[k]

\* A register loads whenever one behind it does; the last one loads only if it
\* is empty or taken.
LEMMA LoadsDownward ==
    ASSUME NEW rspReady \in BOOLEAN, NEW i \in Stage, NEW j \in Stage,
           i <= j, mac!Loads(j, rspReady)
    PROVE  mac!Loads(i, rspReady)
  BY MacConfig DEF mac!Loads, Stage

\* A register that loads while the one behind it does not holds a bubble.
LEMMA LoadsIntoBubble ==
    ASSUME NEW rspReady \in BOOLEAN, NEW i \in Stage,
           mac!Loads(i, rspReady),
           i = Stages => ~rspReady,
           i < Stages => ~mac!Loads(i + 1, rspReady)
    PROVE  stage[i] = Bubble
<1>1. ~rspReady
  BY MacConfig DEF mac!Loads, Stage
<1>2. PICK k \in i .. Stages : stage[k] = Bubble
  BY <1>1 DEF mac!Loads
<1>3. CASE k = i
  BY <1>2, <1>3
<1>4. CASE k > i
  BY <1>2, <1>4, MacConfig DEF mac!Loads, Stage
<1> QED
  BY <1>2, <1>3, <1>4, MacConfig DEF Stage

\* What the edge does to each register.
LEMMA EdgeEffect ==
    ASSUME NEW rspReady \in BOOLEAN, NEW cmd, mac!TypeOK, mac!Clock(cmd, rspReady)
    PROVE  \A i \in Stage : stage'[i] = Source(Origin(i, rspReady), cmd)
  BY MacConfig DEF mac!Clock, Source, Origin, mac!TypeOK, Stage

\* Origins increase strictly.
LEMMA OriginIncreases ==
    ASSUME NEW rspReady \in BOOLEAN, NEW i \in Stage, NEW j \in Stage, i < j
    PROVE  Origin(i, rspReady) < Origin(j, rspReady)
<1>1. CASE mac!Loads(j, rspReady)
  BY <1>1, LoadsDownward, MacConfig DEF Origin, Stage
<1>2. CASE ~mac!Loads(j, rspReady)
  BY <1>2, MacConfig DEF Origin, Stage
<1> QED
  BY <1>1, <1>2

\* A command in register k is in some register after the edge, unless k is the
\* last one and the consumer takes it.
LEMMA CommandKept ==
    ASSUME NEW rspReady \in BOOLEAN, NEW k \in Stage,
           stage[k] # Bubble, ~(k = Stages /\ rspReady)
    PROVE  \E i \in Stage : Origin(i, rspReady) = k
<1>1. CASE ~mac!Loads(k, rspReady)
  BY <1>1 DEF Origin
<1>2. CASE mac!Loads(k, rspReady)
  <2>1. k < Stages /\ mac!Loads(k + 1, rspReady)
    BY <1>2, LoadsIntoBubble, MacConfig DEF Stage
  <2>2. k + 1 \in Stage /\ (k + 1) - 1 = k
    BY <2>1, MacConfig DEF Stage
  <2> QED
    BY <2>1, <2>2 DEF Origin
<1> QED
  BY <1>1, <1>2

\* The register the consumer takes from is the origin of none, and a command
\* that is not accepted either.
LEMMA CommandGone ==
    ASSUME NEW rspReady \in BOOLEAN, NEW i \in Stage
    PROVE  /\ rspReady => Origin(i, rspReady) # Stages
           /\ ~mac!CmdReady(rspReady) => Origin(i, rspReady) # 0
           /\ mac!CmdReady(rspReady) => Origin(1, rspReady) = 0
<1>1. rspReady => mac!Loads(i, rspReady)
  BY DEF mac!Loads
<1>2. mac!Loads(i, rspReady) => mac!CmdReady(rspReady)
  BY LoadsDownward, MacConfig DEF mac!CmdReady, Stage
<1> QED
  BY <1>1, <1>2, MacConfig DEF Origin, Stage, mac!CmdReady

-----------------------------------------------------------------------------
(* The inductive invariant. *)

\* The oldest command in flight, if there is one in the last register.
LEMMA LastIsOldest ==
    ASSUME mac!IInv, mac!RspValid
    PROVE  stage[Stages] = returned + 1 /\ returned < accepted
<1>1. stage[Stages] \in Nat /\ Stages \in Stage
  BY MacConfig DEF mac!IInv, mac!TypeOK, mac!RspValid, Stage
<1>2. stage[Stages] \in returned + 1 .. accepted
  BY <1>1, MacConfig DEF mac!IInv, mac!InFlight, mac!RspValid, Stage
<1>3. returned \in Nat /\ accepted \in Nat /\ returned + 1 \in returned + 1 .. accepted
  BY <1>1, <1>2 DEF mac!IInv, mac!TypeOK
<1>4. PICK i \in Stage : stage[i] = returned + 1
  BY <1>3 DEF mac!IInv, mac!InFlight, Stage
<1>5. stage[i] # Bubble /\ i \in 1 .. Stages /\ Stages \in 1 .. Stages
  BY <1>1, <1>3, <1>4, MacConfig DEF Stage
<1>6. i < Stages => stage[i] > stage[Stages]
  BY <1>1, <1>5 DEF mac!IInv, mac!Ordered, mac!RspValid
<1>7. i = Stages
  BY <1>1, <1>2, <1>3, <1>4, <1>5, <1>6, MacConfig DEF Stage
<1> QED
  BY <1>3, <1>4, <1>7

LEMMA MacInit == mac!StreamInit => mac!IInv
<1> SUFFICES ASSUME mac!StreamInit PROVE mac!IInv
  OBVIOUS
<1>1. mac!TypeOK /\ mac!Ordered
  BY DEF mac!StreamInit, mac!Reset, mac!TypeOK, mac!Ordered
<1>2. mac!InFlight
  BY MacConfig DEF mac!StreamInit, mac!Reset, mac!InFlight
<1>3. returned <= accepted
  BY DEF mac!StreamInit
<1> QED
  BY <1>1, <1>2, <1>3 DEF mac!IInv

\* A clock edge with command number accepted + 1 offered, or none.
LEMMA MacEdge ==
    ASSUME mac!IInv, NEW rspReady \in BOOLEAN, NEW cmd \in {accepted + 1, Bubble},
           mac!Clock(cmd, rspReady),
           accepted' = IF cmd # Bubble /\ mac!CmdReady(rspReady) THEN accepted + 1
                                                            ELSE accepted,
           returned' = returned + mac!Taken(rspReady)
    PROVE  mac!IInv'
<1> DEFINE O(i) == Origin(i, rspReady)
<1>1. /\ accepted \in Nat /\ returned \in Nat
      /\ stage \in [Stage -> Nat \cup {Bubble}] /\ Bubble \notin Nat
      /\ Stages \in Nat /\ Stages >= 1 /\ Stages \in Stage /\ 1 \in Stage
  BY MacConfig DEF mac!IInv, mac!TypeOK, Stage
<1>2. \A i \in Stage : stage'[i] = Source(O(i), cmd) /\ O(i) \in 0 .. Stages
  BY <1>1, EdgeEffect DEF mac!IInv, Origin, Stage
<1>3. \A k \in 0 .. Stages :
         Source(k, cmd) # Bubble =>
             /\ Source(k, cmd) \in returned + 1 .. accepted + 1
             /\ k = 0 => Source(k, cmd) = accepted + 1
             /\ k # 0 => Source(k, cmd) <= accepted
  BY <1>1 DEF Source, mac!IInv, mac!InFlight, Stage
<1>4. mac!RspValid => stage[Stages] = returned + 1 /\ returned < accepted
  BY LastIsOldest
<1>5. /\ returned' \in {returned, returned + 1} /\ accepted' \in {accepted, accepted + 1}
      /\ returned' = returned + 1 <=> mac!RspValid /\ rspReady
      /\ accepted' = accepted + 1 <=> cmd # Bubble /\ mac!CmdReady(rspReady)
  BY <1>1 DEF mac!Taken
<1>6. mac!TypeOK' /\ returned' <= accepted'
  <2>1. stage' \in [Stage -> Nat \cup {Bubble}]
    BY <1>1 DEF mac!Clock, Stage
  <2> QED
    BY <1>1, <1>4, <1>5, <2>1 DEF mac!IInv, mac!TypeOK, Stage
<1>7. mac!Ordered'
  <2> SUFFICES ASSUME NEW i \in Stage, NEW j \in Stage, i < j,
                      stage'[i] # Bubble, stage'[j] # Bubble
               PROVE  stage'[i] > stage'[j]
    BY DEF mac!Ordered, Stage
  <2>1. /\ O(i) < O(j) /\ O(i) \in 0 .. Stages /\ O(j) \in 0 .. Stages
        /\ stage'[i] = Source(O(i), cmd) /\ stage'[j] = Source(O(j), cmd)
    BY <1>2, OriginIncreases
  <2> HIDE DEF O
  <2>2. CASE O(i) = 0
    BY <1>1, <1>3, <2>1, <2>2
  <2>3. CASE O(i) # 0
    BY <1>1, <2>1, <2>3 DEF Source, mac!IInv, mac!Ordered
  <2> QED
    BY <2>2, <2>3
<1>8. ASSUME NEW i \in Stage, stage'[i] # Bubble
      PROVE  stage'[i] \in returned' + 1 .. accepted'
  <2>1. /\ O(i) \in 0 .. Stages /\ stage'[i] = Source(O(i), cmd)
        /\ rspReady => O(i) # Stages
        /\ O(i) = 0 => mac!CmdReady(rspReady)
    BY <1>2, CommandGone
  <2> HIDE DEF O
  <2>2. CASE O(i) = 0
    <3>1. stage'[i] = accepted + 1 /\ accepted' = accepted + 1
      BY <1>3, <1>5, <1>8, <2>1, <2>2 DEF Source
    <3> QED
      BY <1>1, <1>4, <1>5, <3>1 DEF mac!IInv
  <2>3. CASE O(i) # 0
    <3>1. stage'[i] = stage[O(i)] /\ stage'[i] \in returned + 1 .. accepted
      BY <1>1, <1>3, <1>8, <2>1, <2>3 DEF Source
    <3>2. CASE mac!RspValid /\ rspReady
      <4>1. O(i) < Stages /\ stage[Stages] # Bubble
        BY <1>1, <2>1, <3>2 DEF mac!RspValid
      <4>2. stage[O(i)] > stage[Stages]
        BY <1>1, <1>8, <2>1, <2>3, <3>1, <4>1 DEF mac!IInv, mac!Ordered
      <4> QED
        <5>1. stage[Stages] = returned + 1 /\ returned' = returned + 1
          BY <1>4, <1>5, <3>2
        <5> QED
          BY <1>1, <1>5, <3>1, <4>2, <5>1
    <3>3. CASE ~(mac!RspValid /\ rspReady)
      BY <1>1, <1>5, <3>1, <3>3
    <3> QED
      BY <3>2, <3>3
  <2> QED
    BY <2>2, <2>3
<1>9. ASSUME NEW n \in returned' + 1 .. accepted'
      PROVE  \E i \in Stage : stage'[i] = n
  <2>1. CASE n = accepted + 1
    <3>1. cmd = accepted + 1 /\ mac!CmdReady(rspReady)
      BY <1>1, <1>5, <1>9, <2>1
    <3>2. O(1) = 0
      BY <1>1, <3>1, CommandGone
    <3> QED
      BY <1>1, <1>2, <2>1, <3>1, <3>2 DEF Source
  <2>2. CASE n # accepted + 1
    <3>1. n \in returned + 1 .. accepted
      BY <1>1, <1>5, <1>9, <2>2
    <3>2. PICK k \in Stage : stage[k] = n
      BY <1>1, <3>1 DEF mac!IInv, mac!InFlight, Stage
    <3>3. stage[k] # Bubble
      BY <1>1, <3>1, <3>2
    <3>4. ~(k = Stages /\ rspReady)
      BY <1>1, <1>4, <1>5, <1>9, <3>2, <3>3 DEF mac!RspValid
    <3>5. PICK i \in Stage : O(i) = k
      BY <3>3, <3>4, CommandKept
    <3>6. stage'[i] = Source(k, cmd) /\ k # 0
      BY <1>2, <3>5 DEF Stage
    <3> QED
      BY <3>2, <3>6 DEF Source
  <2> QED
    BY <2>1, <2>2
<1>10. mac!InFlight'
  BY <1>1, <1>5, <1>8, <1>9 DEF mac!InFlight, Stage
<1> QED
  BY <1>6, <1>7, <1>10 DEF mac!IInv

LEMMA MacStep ==
    ASSUME mac!IInv, mac!StreamNext
    PROVE  mac!IInv'
<1>1. PICK rspReady \in BOOLEAN : mac!Offer(rspReady) \/ mac!NoOffer(rspReady)
  BY DEF mac!StreamNext
<1>2. CASE mac!Offer(rspReady)
  <2>1. accepted + 1 # Bubble
    BY MacConfig DEF mac!IInv, mac!TypeOK
  <2> QED
    BY <1>2, <2>1, MacEdge DEF mac!Offer
<1>3. CASE mac!NoOffer(rspReady)
  BY <1>3, MacEdge DEF mac!NoOffer
<1> QED
  BY <1>1, <1>2, <1>3

\* The invariant holds in every reachable state, for every number of stages.
LEMMA MacInvariant == Spec => [](device = "mac" => mac!IInv)
  <1> DEFINE I == device = "mac" => mac!IInv
  <1>1. Init => I
    BY MacInit DEF Init
  <1>2. I /\ [Next]_vars => I'
    <2> SUFFICES ASSUME I, [Next]_vars, device' = "mac" PROVE mac!IInv'
      OBVIOUS
    <2>1. CASE MacNext
      BY <2>1, MacStep DEF MacNext
    <2>2. CASE Ft245Next \/ RamNext \/ TimerNext \/ ResetNext \/ WindowNext
      BY <2>2 DEF Ft245Next, RamNext, TimerNext, ResetNext, WindowNext
    <2>3. CASE UNCHANGED vars
      BY <2>3 DEF vars, macVars, mac!IInv, mac!TypeOK, mac!Ordered, mac!InFlight
    <2> QED BY <2>1, <2>2, <2>3 DEF Next
  <1> QED BY <1>1, <1>2, PTL DEF Spec

\* No command is lost or overwritten: the registers hold exactly the commands
\* accepted and not yet returned.
THEOREM InFlightCorrect == Spec => []InFlight
  <1>1. (device = "mac" => mac!IInv) => InFlight
    BY DEF mac!IInv, InFlight
  <1> QED BY <1>1, MacInvariant, PTL

\* Results come out in the order of the commands, each exactly once.
THEOREM OrderCorrect == Spec => []InOrder
  <1>1. (device = "mac" => mac!IInv) => InOrder
    BY LastIsOldest DEF InOrder, mac!InOrder, mac!RspPayload
  <1> QED BY <1>1, MacInvariant, PTL

-----------------------------------------------------------------------------
(* The window buffer.  The invariant is the one of WindowStreamProofs, here  *)
(* as `streams', for the registers and history of Devices.                   *)

streams == INSTANCE WindowStreamProofs

LEMMA WindowConfig == streams!ConfigAssumption
  BY ConfigAssumption
     DEF window!ConfigAssumption, window!BufferAssumption,
         streams!ConfigAssumption, streams!BufferAssumption

\* The two instances are the same circuit in the same environment.
LEMMA SameWindowInit == window!Init => streams!Init
  BY DEF window!Init, window!Reset, window!Slot, window!Taps,
         streams!Init, streams!Reset, streams!Slot, streams!Taps

LEMMA SameClock ==
    ASSUME NEW init, NEW rowWidth, NEW initialDelay, NEW offered, NEW pixel, NEW ready
    PROVE  /\ window!Clock(init, rowWidth, initialDelay, offered, pixel, ready)
                <=> streams!Clock(init, rowWidth, initialDelay, offered, pixel, ready)
           /\ window!InputFire(offered, ready) <=> streams!InputFire(offered, ready)
           /\ window!OutputFire(ready) <=> streams!OutputFire(ready)
  BY DEF window!Clock, window!RowShifter, window!WindowCache, window!DelayCounter,
         window!PendingRsp, window!InputFire, window!InputReady, window!OutputFire,
         window!Front, window!writePtr, window!Taps,
         streams!Clock, streams!RowShifter, streams!WindowCache, streams!DelayCounter,
         streams!PendingRsp, streams!InputFire, streams!InputReady, streams!OutputFire,
         streams!Front, streams!writePtr, streams!Taps

LEMMA SameWindowNext == window!Next => streams!Next
  <1>1. ASSUME NEW pixel, NEW ready, window!Accept(pixel, ready)
        PROVE  streams!Accept(pixel, ready)
    BY <1>1, SameClock DEF window!Accept, window!Bit, streams!Accept, streams!Bit
  <1>2. ASSUME NEW offered, NEW ready, window!Wait(offered, ready)
        PROVE  streams!Wait(offered, ready)
    BY <1>2, SameClock DEF window!Wait, window!Bit, streams!Wait, streams!Bit
  <1>3. ASSUME NEW rowWidth, NEW initialDelay, NEW ready,
               window!Restart(rowWidth, initialDelay, ready)
        PROVE  streams!Restart(rowWidth, initialDelay, ready)
    BY <1>3, SameClock DEF window!Restart, window!Bit, streams!Restart, streams!Bit
  <1> QED BY <1>1, <1>2, <1>3 DEF window!Next, streams!Next

LEMMA WindowInvariant == Spec => [](device = "window" => streams!IInv)
  <1> DEFINE I == device = "window" => streams!IInv
  <1>1. Init => I
    BY SameWindowInit, WindowConfig, streams!InitIInv DEF Init
  <1>2. I /\ [Next]_vars => I'
    <2> SUFFICES ASSUME I, [Next]_vars, device' = "window" PROVE streams!IInv'
      OBVIOUS
    <2>1. CASE WindowNext
      BY <2>1, SameWindowNext, WindowConfig, streams!StepIInv DEF WindowNext
    <2>2. CASE Ft245Next \/ RamNext \/ TimerNext \/ ResetNext \/ MacNext
      BY <2>2 DEF Ft245Next, RamNext, TimerNext, ResetNext, MacNext
    <2>3. CASE UNCHANGED vars
      BY <2>3, WindowConfig, streams!StepIInv
         DEF vars, windowVars, streams!vars, streams!regs, streams!history
    <2> QED BY <2>1, <2>2, <2>3 DEF Next
  <1> QED BY <1>1, <1>2, PTL DEF Spec

\* For every memory size, row width and delay, each window of the current
\* image is the 3x3 neighbourhood of the newest pixel (WindowBuffer3x3.scala,
\* rowShifter and windowCache3x3).
THEOREM WindowCorrect == Spec => []WindowIsNeighbourhood
  <1>1. streams!WindowIsNeighbourhood => window!WindowIsNeighbourhood
    BY DEF window!WindowIsNeighbourhood, window!FreshWindow, window!OutputPayload,
           window!Position, window!RowWidth, window!Taps,
           streams!WindowIsNeighbourhood, streams!FreshWindow, streams!OutputPayload,
           streams!Position, streams!RowWidth, streams!Taps
  <1>2. (device = "window" => streams!IInv) => WindowIsNeighbourhood
    BY <1>1, WindowConfig, streams!IInvWindow DEF WindowIsNeighbourhood
  <1> QED BY <1>2, WindowInvariant, PTL

\* Every pixel after the delay yields exactly one window, under every
\* interleaving of producer, consumer and restarts.
THEOREM AccountingCorrect == Spec => []OneWindowPerPixel
  <1>1. (device = "window" => streams!IInv) => OneWindowPerPixel
    BY DEF OneWindowPerPixel, window!OneWindowPerPixel, window!Bit,
           streams!IInv, streams!OneWindowPerPixel, streams!Bit
  <1> QED BY <1>1, WindowInvariant, PTL

\* A window of the current image that is not taken keeps its contents.
THEOREM HeldCorrect == Spec => WindowHeld
  <1>1. (device = "window" => streams!IInv) /\ [Next]_vars
            => [device = "window" => window!HeldUntilTaken]_vars
    <2> SUFFICES ASSUME streams!IInv, Next, device = "window" PROVE window!HeldUntilTaken
      OBVIOUS
    <2>1. streams!Next
      BY SameWindowNext
         DEF Next, Ft245Next, RamNext, TimerNext, ResetNext, WindowNext, MacNext
    <2>2. streams!HeldUntilTaken
      BY <2>1, WindowConfig, streams!StepHeld
    <2> QED
      BY <2>2 DEF window!HeldUntilTaken, window!OutputPayload,
                  streams!HeldUntilTaken, streams!OutputPayload
  <1> QED BY <1>1, WindowInvariant, PTL DEF Spec, WindowHeld
=============================================================================
