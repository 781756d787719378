-------------------------- MODULE WindowStreamProofs --------------------------
(***************************************************************************)
(* Proofs about the window buffer, for every memory size, row width, delay *)
(* and length of the run.  The argument: IInv says in which cell of which  *)
(* memory each of the last pixels of the run sits.  Accepting pixel N + 1  *)
(* writes one cell of each row memory, at a distance that leaves the cells *)
(* of the last MaxRowWidth pixels alone (ModDistinct), and reads the cells *)
(* of the pixels one row back (RowBack).                                   *)
(***************************************************************************)
EXTENDS WindowStream, NumberLemmas

LEMMA Config ==
    ASSUME ConfigAssumption
    PROVE  /\ MaxRowWidth \in Nat \ {0} /\ Blank \notin Pixel
           /\ RowWidths \subseteq Nat /\ InitialDelays \subseteq Nat /\ MaxRun \in Nat
  BY DEF ConfigAssumption, BufferAssumption

-----------------------------------------------------------------------------
(* The row width as the circuit sees it. *)

\* The effective row width lies between 1 and MaxRowWidth and differs from
\* the programmed one by a multiple of the memory size.
LEMMA RowWidthRange ==
    ASSUME ConfigAssumption, TypeOK
    PROVE  /\ RowWidth \in 1 .. MaxRowWidth
           /\ \E k \in Int : writeOffset = RowWidth + MaxRowWidth * k
<1>1. MaxRowWidth \in Nat \ {0} /\ writeOffset \in Int
  BY Config DEF TypeOK
<1>2. /\ writeOffset \div MaxRowWidth \in Int
      /\ writeOffset % MaxRowWidth \in 0 .. MaxRowWidth - 1
      /\ writeOffset = MaxRowWidth * (writeOffset \div MaxRowWidth)
                         + (writeOffset % MaxRowWidth)
  BY <1>1, DivMod
<1> DEFINE quotient == writeOffset \div MaxRowWidth
           turns == IF writeOffset % MaxRowWidth = 0 THEN quotient - 1 ELSE quotient
<1>3. RowWidth \in 1 .. MaxRowWidth
  BY <1>1, <1>2 DEF RowWidth
<1>4. turns \in Int
  BY <1>2
<1>5. writeOffset = RowWidth + MaxRowWidth * turns
  <2>1. CASE writeOffset % MaxRowWidth = 0
    BY <1>1, <1>2, <2>1 DEF RowWidth
  <2>2. CASE writeOffset % MaxRowWidth # 0
    BY <1>1, <1>2, <2>2 DEF RowWidth
  <2> QED
    BY <2>1, <2>2
<1> HIDE DEF turns
<1> QED
  BY <1>3, <1>4, <1>5

\* The cell written one row ago is the cell the read pointer has reached.
LEMMA RowBack ==
    ASSUME ConfigAssumption, TypeOK, NEW n \in Int
    PROVE  ((n - RowWidth) + writeOffset) % MaxRowWidth = n % MaxRowWidth
<1>1. MaxRowWidth \in Nat \ {0} /\ RowWidth \in Int
  BY Config, RowWidthRange
<1>2. PICK k \in Int : writeOffset = RowWidth + MaxRowWidth * k
  BY RowWidthRange
<1>3. (n - RowWidth) + writeOffset = n + MaxRowWidth * k
  BY <1>1, <1>2
<1> QED
  BY <1>1, <1>3, ModAddMultiple

\* A window in hand is either handed over in this cycle or still in hand in
\* the next one.
LEMMA HandedOver ==
    ASSUME ConfigAssumption, NEW p \in BOOLEAN, NEW ready \in BOOLEAN
    PROVE  Bit(p /\ ready) + Bit(p /\ ~ready) = Bit(p)
<1>1. CASE p /\ ready
  BY <1>1 DEF Bit
<1>2. CASE p /\ ~ready
  BY <1>2 DEF Bit
<1>3. CASE ~p
  BY <1>3 DEF Bit
<1> QED
  BY <1>1, <1>2, <1>3

-----------------------------------------------------------------------------
(* The initial state. *)

\* The registers after reset satisfy the inductive invariant.
LEMMA InitIInv == ASSUME ConfigAssumption PROVE Init => IInv
<1> SUFFICES ASSUME Init PROVE IInv
  OBVIOUS
<1> USE DEF Init, Reset
<1>1. StreamTypeOK
  <2>1. /\ delay \in Nat /\ pendingRsp \in BOOLEAN /\ readPtr \in Slot /\ writeOffset \in Nat
    <3>1. 0 \in Slot
      BY Config DEF Slot
    <3> QED
      BY <3>1
  <2>2. /\ row0 \in [Slot -> Cell] /\ row1 \in [Slot -> Cell]
        /\ cache \in [Taps -> [Taps -> Cell]]
    BY DEF Cell
  <2>3. /\ stream \in Seq(Pixel) /\ Len(stream) <= MaxRun /\ delay0 \in Nat
        /\ leftover \in {0, 1} /\ delivered \in Nat
    <3>1. <<>> \in Seq(Pixel) /\ Len(<<>>) = 0
      OBVIOUS
    <3>2. 0 <= MaxRun
      BY Config
    <3> QED
      BY <3>1, <3>2
  <2> QED
    BY <2>1, <2>2, <2>3 DEF StreamTypeOK, TypeOK
<1>2. Len(stream) = 0
  OBVIOUS
<1>3. RowWidth \in Nat \ {0}
  BY <1>1, RowWidthRange, Config DEF StreamTypeOK
<1>4. PtrInv
  <2>1. 0 % MaxRowWidth = 0
    BY Config
  <2> QED
    BY <1>2, <2>1 DEF PtrInv
<1>5. DelayInv /\ PendingInv /\ OneWindowPerPixel
  BY <1>2 DEF DelayInv, PendingInv, OneWindowPerPixel, Bit
<1>6. Row0Inv /\ Row1Inv
  BY <1>2 DEF Row0Inv, Row1Inv
<1>7. CacheInv
  BY <1>2, <1>3 DEF CacheInv, Position, Taps
<1> QED
  BY <1>1, <1>4, <1>5, <1>6, <1>7 DEF IInv

-----------------------------------------------------------------------------
(* A pixel is accepted. *)

\* What an accepted pixel does to the registers, the combinational signals
\* resolved.
Accepted(pixel, ready) ==
    /\ delay # 0 \/ ready
    /\ Len(stream) < MaxRun
    /\ row0' = [row0 EXCEPT ![writePtr] = pixel]
    /\ row1' = [row1 EXCEPT ![writePtr] = row0[readPtr]]
    /\ readPtr' = (readPtr + 1) % MaxRowWidth
    /\ writeOffset' = writeOffset
    /\ cache' = [r \in Taps |-> [c \in Taps |->
                    IF c = 0 THEN Front(pixel)[r] ELSE cache[r][c - 1]]]
    /\ delay' = IF delay = 0 THEN 0 ELSE delay - 1
    /\ pendingRsp' = (delay = 0 \/ (pendingRsp /\ ~ready))
    /\ stream' = Append(stream, pixel)
    /\ delivered' = delivered + Bit(pendingRsp /\ ready)
    /\ delay0' = delay0 /\ leftover' = leftover

\* Accept has exactly this effect.
LEMMA AcceptEffect ==
    ASSUME ConfigAssumption, IInv, NEW pixel \in Pixel, NEW ready \in BOOLEAN, Accept(pixel, ready)
    PROVE  Accepted(pixel, ready)
<1>1. InputFire(TRUE, ready)
  BY DEF Accept
<1>2. Clock(FALSE, writeOffset, delay0, TRUE, pixel, ready)
  BY DEF Accept
<1>3. /\ RowShifter(FALSE, writeOffset, TRUE, pixel)
      /\ WindowCache(TRUE, pixel)
      /\ DelayCounter(FALSE, delay0, TRUE)
      /\ PendingRsp(TRUE, ready)
  <2>1. InputFire(TRUE, ready) = TRUE
    BY <1>1 DEF InputFire, InputReady
  <2> QED
    BY <1>2, <2>1 DEF Clock
<1>4. delay \in Nat /\ pendingRsp \in BOOLEAN
  BY DEF IInv, StreamTypeOK, TypeOK
<1>5. /\ row0' = [row0 EXCEPT ![writePtr] = pixel]
      /\ row1' = [row1 EXCEPT ![writePtr] = row0[readPtr]]
      /\ readPtr' = (readPtr + 1) % MaxRowWidth
      /\ writeOffset' = writeOffset
  BY <1>3 DEF RowShifter
<1>6. cache' = [r \in Taps |-> [c \in Taps |->
                   IF c = 0 THEN Front(pixel)[r] ELSE cache[r][c - 1]]]
  BY <1>3 DEF WindowCache
<1>7. delay' = IF delay = 0 THEN 0 ELSE delay - 1
  BY <1>3, <1>4 DEF DelayCounter
<1>8. pendingRsp' = (delay = 0 \/ (pendingRsp /\ ~ready))
  BY <1>3, <1>4 DEF PendingRsp, OutputFire
<1>9. /\ delay # 0 \/ ready
      /\ Len(stream) < MaxRun
      /\ stream' = Append(stream, pixel)
      /\ delivered' = delivered + Bit(pendingRsp /\ ready)
      /\ delay0' = delay0 /\ leftover' = leftover
  BY <1>1 DEF Accept, InputFire, InputReady, OutputFire
<1> QED
  BY <1>5, <1>6, <1>7, <1>8, <1>9 DEF Accepted

\* The stored pixels above the new one, as the read pointer finds them.
LEMMA PixelsAbove ==
    ASSUME ConfigAssumption, IInv
    PROVE  /\ Len(stream) + 1 - RowWidth >= 1 =>
                  row0[readPtr] = stream[Len(stream) + 1 - RowWidth]
           /\ Len(stream) + 1 - 2 * RowWidth >= 1 =>
                  row1[readPtr] = stream[Len(stream) + 1 - 2 * RowWidth]
<1> DEFINE n == Len(stream)
           j == n + 1 - RowWidth
<1>1. /\ n \in Nat
      /\ RowWidth \in 1 .. MaxRowWidth
      /\ MaxRowWidth \in Nat \ {0}
      /\ writeOffset \in Nat
  BY RowWidthRange, Config DEF IInv, StreamTypeOK, TypeOK
<1>2. readPtr = (j - 1 + writeOffset) % MaxRowWidth
  <2>1. ((n - RowWidth) + writeOffset) % MaxRowWidth = n % MaxRowWidth
    BY <1>1, RowBack DEF IInv, StreamTypeOK
  <2>2. j - 1 = n - RowWidth
    BY <1>1
  <2> QED
    BY <2>1, <2>2 DEF IInv, PtrInv
<1>3. j \in Int /\ j > n - MaxRowWidth /\ j <= n
  BY <1>1
<1> HIDE DEF n
<1>4. j >= 1 => row0[readPtr] = stream[j]
  BY <1>1, <1>2, <1>3 DEF IInv, Row0Inv, n
<1>5. j > RowWidth => row1[readPtr] = stream[j - RowWidth]
  <2>1. j > RowWidth => j \in 1 .. n
    BY <1>1, <1>3
  <2> QED
    BY <1>1, <1>2, <1>3, <2>1 DEF IInv, Row1Inv, n
<1>6. j - RowWidth = n + 1 - 2 * RowWidth
  BY <1>1
<1> QED
  BY <1>1, <1>4, <1>5, <1>6 DEF n

\* Accepting a pixel preserves the inductive invariant.
LEMMA AcceptIInv ==
    ASSUME ConfigAssumption, IInv, NEW pixel \in Pixel, NEW ready \in BOOLEAN, Accept(pixel, ready)
    PROVE  IInv'
<1> DEFINE n == Len(stream)
           W == RowWidth
           M == MaxRowWidth
           offset(j) == j - 1 + writeOffset
           at(j) == offset(j) % M
<1>1. Accepted(pixel, ready)
  BY AcceptEffect
<1>2. n \in Int /\ n >= 0 /\ writeOffset \in Int /\ W \in 1 .. M /\ M \in Nat \ {0}
  BY RowWidthRange, Config DEF IInv, StreamTypeOK, TypeOK
<1>3. /\ delay \in Nat /\ delay0 \in Nat /\ leftover \in {0, 1}
      /\ delivered \in Nat /\ pendingRsp \in BOOLEAN
  BY DEF IInv, StreamTypeOK, TypeOK
<1>4. /\ readPtr \in Slot /\ row0 \in [Slot -> Cell] /\ row1 \in [Slot -> Cell]
      /\ cache \in [Taps -> [Taps -> Cell]]
  BY DEF IInv, StreamTypeOK, TypeOK
<1>5. /\ readPtr = n % M
      /\ delay = IF n < delay0 THEN delay0 - n ELSE 0
      /\ delivered + Bit(pendingRsp) = leftover + (IF n > delay0 THEN n - delay0 ELSE 0)
      /\ leftover = 0 /\ pendingRsp => n > delay0
  BY DEF IInv, PtrInv, DelayInv, OneWindowPerPixel, PendingInv
<1>6. \A j \in 1 .. n : j > n - M => row0[at(j)] = stream[j]
  BY DEF IInv, Row0Inv
<1>7. \A j \in 1 .. n : j > n - M /\ j > W => row1[at(j)] = stream[j - W]
  BY DEF IInv, Row1Inv
<1>8. \A r, c \in Taps : n - r * W - c >= 1 => cache[r][c] = stream[n - r * W - c]
  BY DEF IInv, CacheInv, Position
<1>9. /\ n + 1 - W >= 1 => row0[readPtr] = stream[n + 1 - W]
      /\ n + 1 - 2 * W >= 1 => row1[readPtr] = stream[n + 1 - 2 * W]
  BY PixelsAbove
<1>10. /\ Len(stream') = n + 1
       /\ stream' \in Seq(Pixel)
       /\ stream'[n + 1] = pixel
       /\ \A j \in 1 .. n : stream'[j] = stream[j]
  BY <1>1 DEF Accepted, IInv, StreamTypeOK
<1>11. writeOffset' = writeOffset /\ RowWidth' = W
  BY <1>1 DEF Accepted, RowWidth
<1>12. n + 1 <= MaxRun
  BY <1>1, <1>2, Config DEF Accepted
<1>13. \A i \in Int : i % M \in Slot
  BY <1>2, DivMod DEF Slot
<1> HIDE DEF n, W, M
<1>14. writePtr = at(n + 1)
  <2>1. ((n % M) + writeOffset) % M = (n + writeOffset) % M
    BY <1>2, ModAdd
  <2>2. at(n + 1) = (n + writeOffset) % M
    BY <1>2
  <2>3. writePtr = ((n % M) + writeOffset) % M
    BY <1>5 DEF writePtr, M
  <2> QED
    BY <2>1, <2>2, <2>3
<1>15. at(n + 1) \in Slot
  BY <1>2, <1>13
<1>16. ASSUME NEW j \in 1 .. n, j > (n + 1) - M
       PROVE  at(j) \in Slot /\ at(j) # at(n + 1)
  <2>1. /\ offset(j) \in Int /\ offset(n + 1) \in Int
        /\ offset(j) < offset(n + 1) /\ offset(n + 1) - offset(j) < M
    BY <1>2, <1>16
  <2> HIDE DEF offset
  <2> QED
    BY <1>2, <1>13, <2>1, ModDistinct
<1>17. /\ row0' = [row0 EXCEPT ![at(n + 1)] = pixel]
       /\ row1' = [row1 EXCEPT ![at(n + 1)] = row0[readPtr]]
       /\ readPtr' = (readPtr + 1) % M
  BY <1>1, <1>14 DEF Accepted, M
<1>18. \A r, c \in Taps :
          cache'[r][c] = IF c = 0 THEN Front(pixel)[r] ELSE cache[r][c - 1]
  BY <1>1 DEF Accepted
<1>19. /\ delay' = IF delay = 0 THEN 0 ELSE delay - 1
       /\ pendingRsp' = (delay = 0 \/ (pendingRsp /\ ~ready))
       /\ delay # 0 \/ ready
       /\ delivered' = delivered + Bit(pendingRsp /\ ready)
       /\ delay0' = delay0 /\ leftover' = leftover
  BY <1>1 DEF Accepted
<1> HIDE DEF at, offset
<1>20. StreamTypeOK'
  <2>1. pixel \in Cell /\ row0[readPtr] \in Cell /\ row1[readPtr] \in Cell
    BY <1>4 DEF Cell
  <2>2. row0' \in [Slot -> Cell] /\ row1' \in [Slot -> Cell]
    BY <1>4, <1>17, <2>1
  <2>3. \A r \in Taps : Front(pixel)[r] \in Cell
    BY <2>1 DEF Front, Taps
  <2>4. cache' \in [Taps -> [Taps -> Cell]]
    <3>1. \A r, c \in Taps : c # 0 => c - 1 \in Taps
      BY DEF Taps
    <3>2. \A r, c \in Taps : cache[r][c] \in Cell
      BY <1>4
    <3> QED
      BY <1>1, <2>3, <3>1, <3>2 DEF Accepted
  <2>5. readPtr' \in Slot
    BY <1>4, <1>13, <1>17 DEF Slot
  <2>6. delay' \in Nat /\ pendingRsp' \in BOOLEAN
    BY <1>3, <1>19
  <2>7. delivered' \in Nat /\ delay0' \in Nat /\ leftover' \in {0, 1}
    BY <1>3, <1>19 DEF Bit
  <2>8. writeOffset' \in Nat
    BY <1>11 DEF IInv, StreamTypeOK, TypeOK
  <2> QED
    BY <1>10, <1>12, <2>2, <2>4, <2>5, <2>6, <2>7, <2>8 DEF StreamTypeOK, TypeOK
<1>21. PtrInv'
  <2>1. \A k \in Int : ((n % M) + k) % M = (n + k) % M
    BY <1>2, ModAdd
  <2> QED
    BY <1>5, <1>10, <1>17, <2>1 DEF PtrInv, M
<1>22. DelayInv' /\ PendingInv'
  BY <1>2, <1>3, <1>5, <1>10, <1>19 DEF DelayInv, PendingInv
<1>23. Row0Inv'
  <2> SUFFICES ASSUME NEW j \in 1 .. n + 1, j > (n + 1) - M
               PROVE  row0'[at(j)] = stream'[j]
    BY <1>10, <1>11 DEF Row0Inv, at, offset, M
  <2>1. CASE j = n + 1
    BY <1>4, <1>10, <1>15, <1>17, <2>1
  <2>2. CASE j # n + 1
    <3>1. j \in 1 .. n /\ j > n - M
      BY <1>2, <2>2
    <3>2. at(j) \in Slot /\ at(j) # at(n + 1)
      BY <1>16, <3>1
    <3>3. row0'[at(j)] = row0[at(j)]
      BY <1>4, <1>17, <3>2
    <3> QED
      BY <1>6, <1>10, <3>1, <3>3
  <2> QED
    BY <2>1, <2>2
<1>24. Row1Inv'
  <2> SUFFICES ASSUME NEW j \in 1 .. n + 1, j > (n + 1) - M, j > W
               PROVE  row1'[at(j)] = stream'[j - W]
    BY <1>10, <1>11 DEF Row1Inv, at, offset, M
  <2>1. j - W \in 1 .. n
    BY <1>2
  <2>2. CASE j = n + 1
    <3>1. row1'[at(j)] = row0[readPtr]
      BY <1>4, <1>15, <1>17, <2>2
    <3>2. n + 1 - W >= 1 /\ j - W = n + 1 - W
      BY <1>2, <2>1, <2>2
    <3> QED
      BY <1>9, <1>10, <2>1, <3>1, <3>2
  <2>3. CASE j # n + 1
    <3>1. j \in 1 .. n /\ j > n - M
      BY <1>2, <2>3
    <3>2. at(j) \in Slot /\ at(j) # at(n + 1)
      BY <1>16, <3>1
    <3>3. row1'[at(j)] = row1[at(j)]
      BY <1>4, <1>17, <3>2
    <3> QED
      BY <1>7, <1>10, <2>1, <3>1, <3>3
  <2> QED
    BY <2>2, <2>3
<1>25. CacheInv'
  <2> SUFFICES ASSUME NEW r \in Taps, NEW c \in Taps, (n + 1) - r * W - c >= 1
               PROVE  cache'[r][c] = stream'[(n + 1) - r * W - c]
    BY <1>10, <1>11 DEF CacheInv, Position
  <2>1. r \in {0, 1, 2} /\ c \in {0, 1, 2}
    BY DEF Taps
  <2>2. CASE c = 0
    <3>1. cache'[r][c] = Front(pixel)[r]
      BY <1>18, <2>2
    <3>2. CASE r = 0
      <4>1. cache'[r][c] = pixel
        BY <3>1, <3>2 DEF Front, Taps
      <4>2. (n + 1) - r * W - c = n + 1
        BY <1>2, <2>2, <3>2
      <4> QED
        BY <1>10, <4>1, <4>2
    <3>3. CASE r = 1
      <4>1. cache'[r][c] = row0[readPtr]
        BY <3>1, <3>3 DEF Front, Taps
      <4>2. /\ (n + 1) - r * W - c = n + 1 - W
            /\ n + 1 - W \in 1 .. n
        BY <1>2, <2>2, <3>3
      <4>3. row0[readPtr] = stream[n + 1 - W]
        BY <1>9, <4>2
      <4> QED
        BY <1>10, <4>1, <4>2, <4>3
    <3>4. CASE r = 2
      <4>1. cache'[r][c] = row1[readPtr]
        BY <3>1, <3>4 DEF Front, Taps
      <4>2. /\ (n + 1) - r * W - c = n + 1 - 2 * W
            /\ n + 1 - 2 * W \in 1 .. n
        BY <1>2, <2>2, <3>4
      <4>3. row1[readPtr] = stream[n + 1 - 2 * W]
        BY <1>9, <4>2
      <4> QED
        BY <1>10, <4>1, <4>2, <4>3
    <3> QED
      BY <2>1, <3>2, <3>3, <3>4
  <2>3. CASE c # 0
    <3>1. c - 1 \in Taps /\ cache'[r][c] = cache[r][c - 1]
      BY <1>18, <2>1, <2>3 DEF Taps
    <3>2. r * W \in Int /\ r * W >= 0
      BY <1>2, <2>1
    <3>3. /\ (n + 1) - r * W - c = n - r * W - (c - 1)
          /\ n - r * W - (c - 1) \in 1 .. n
      BY <1>2, <2>1, <2>3, <3>2
    <3>4. cache[r][c - 1] = stream[n - r * W - (c - 1)]
      BY <1>8, <3>1, <3>3
    <3> QED
      BY <1>10, <3>1, <3>3, <3>4
  <2> QED
    BY <2>2, <2>3
<1>26. OneWindowPerPixel'
  <2>1. CASE delay # 0
    <3>1. pendingRsp' = (pendingRsp /\ ~ready)
      BY <1>19, <2>1
    <3>2. Bit(pendingRsp /\ ready) + Bit(pendingRsp') = Bit(pendingRsp)
      <4>1. CASE pendingRsp /\ ready
        <5>1. ~pendingRsp'
          BY <3>1, <4>1
        <5> QED
          BY <4>1, <5>1 DEF Bit
      <4>2. CASE ~(pendingRsp /\ ready)
        <5>1. pendingRsp' <=> pendingRsp
          BY <3>1, <4>2
        <5>2. Bit(pendingRsp') = Bit(pendingRsp) /\ Bit(pendingRsp) \in Nat
          BY <5>1 DEF Bit
        <5>3. Bit(pendingRsp /\ ready) = 0
          BY <4>2 DEF Bit
        <5> QED
          BY <5>2, <5>3
      <4> QED
        BY <4>1, <4>2
    <3>3. n < delay0 /\ ~(n > delay0) /\ ~(n + 1 > delay0)
      BY <1>2, <1>3, <1>5, <2>1
    <3>4. delivered + Bit(pendingRsp) = leftover
      BY <1>3, <1>5, <3>3 DEF Bit
    <3>5. Bit(pendingRsp') \in Nat /\ Bit(pendingRsp /\ ready) \in Nat
      BY DEF Bit
    <3>6. delivered' + Bit(pendingRsp') = leftover'
      BY <1>3, <1>19, <3>2, <3>4, <3>5
    <3> QED
      BY <1>3, <1>10, <1>19, <3>3, <3>6 DEF OneWindowPerPixel
  <2>2. CASE delay = 0
    BY <1>2, <1>3, <1>5, <1>10, <1>19, <2>2 DEF OneWindowPerPixel, Bit
  <2> QED
    BY <2>1, <2>2
<1> QED
  BY <1>20, <1>21, <1>22, <1>23, <1>24, <1>25, <1>26 DEF IInv

-----------------------------------------------------------------------------
(* No pixel is accepted. *)

\* A cycle without a pixel can only hand over the window in hand.
Idled(ready) ==
    /\ row0' = row0 /\ row1' = row1 /\ cache' = cache
    /\ pendingRsp' = (pendingRsp /\ ~ready)

\* Waiting leaves everything else alone.
LEMMA WaitEffect ==
    ASSUME ConfigAssumption, IInv, NEW offered \in BOOLEAN, NEW ready \in BOOLEAN, Wait(offered, ready)
    PROVE  /\ Idled(ready)
           /\ readPtr' = readPtr /\ writeOffset' = writeOffset /\ delay' = delay
           /\ delivered' = delivered + Bit(pendingRsp /\ ready)
           /\ UNCHANGED <<stream, delay0, leftover>>
<1>1. PICK pixel \in Pixel : Clock(FALSE, writeOffset, delay0, offered, pixel, ready)
  BY DEF Wait
<1>2. InputFire(offered, ready) = FALSE
  BY DEF Wait, InputFire, InputReady
<1>3. /\ RowShifter(FALSE, writeOffset, FALSE, pixel)
      /\ WindowCache(FALSE, pixel)
      /\ DelayCounter(FALSE, delay0, FALSE)
      /\ PendingRsp(FALSE, ready)
  BY <1>1, <1>2 DEF Clock
<1>4. delay \in Nat /\ pendingRsp \in BOOLEAN
  BY DEF IInv, StreamTypeOK, TypeOK
<1>5. row0' = row0 /\ row1' = row1 /\ readPtr' = readPtr /\ writeOffset' = writeOffset
  BY <1>3 DEF RowShifter
<1>6. cache' = cache /\ delay' = delay
  BY <1>3, <1>4 DEF WindowCache, DelayCounter
<1>7. pendingRsp' = (pendingRsp /\ ~ready)
  BY <1>3, <1>4 DEF PendingRsp, OutputFire
<1> QED
  BY <1>5, <1>6, <1>7 DEF Wait, Idled, OutputFire

\* Waiting preserves the inductive invariant.
LEMMA WaitIInv ==
    ASSUME ConfigAssumption, IInv, NEW offered \in BOOLEAN, NEW ready \in BOOLEAN, Wait(offered, ready)
    PROVE  IInv'
<1>1. /\ row0' = row0 /\ row1' = row1 /\ cache' = cache
      /\ readPtr' = readPtr /\ writeOffset' = writeOffset /\ delay' = delay
      /\ stream' = stream /\ delay0' = delay0 /\ leftover' = leftover
  BY WaitEffect DEF Idled
<1>2. /\ pendingRsp' = (pendingRsp /\ ~ready)
      /\ delivered' = delivered + Bit(pendingRsp /\ ready)
  BY WaitEffect DEF Idled
<1>3. delivered \in Nat /\ pendingRsp \in BOOLEAN
  BY DEF IInv, StreamTypeOK, TypeOK
<1>4. Bit(pendingRsp /\ ready) + Bit(pendingRsp') = Bit(pendingRsp)
  BY <1>2, <1>3, HandedOver
<1>5. Bit(pendingRsp') \in Nat /\ Bit(pendingRsp /\ ready) \in Nat
  BY DEF Bit
<1>6. StreamTypeOK'
  BY <1>1, <1>2, <1>3, <1>5 DEF IInv, StreamTypeOK, TypeOK
<1>7. PtrInv' /\ DelayInv'
  BY <1>1 DEF IInv, PtrInv, DelayInv
<1>8. Row0Inv' /\ Row1Inv' /\ CacheInv'
  BY <1>1 DEF IInv, Row0Inv, Row1Inv, CacheInv, Position, RowWidth
<1>9. PendingInv'
  BY <1>1, <1>2 DEF IInv, PendingInv
<1>10. OneWindowPerPixel'
  <2>1. delivered' + Bit(pendingRsp') = delivered + Bit(pendingRsp)
    BY <1>2, <1>3, <1>4, <1>5
  <2> QED
    BY <1>1, <2>1 DEF IInv, OneWindowPerPixel
<1> QED
  BY <1>6, <1>7, <1>8, <1>9, <1>10 DEF IInv

-----------------------------------------------------------------------------
(* The buffer is restarted. *)

\* A restart empties the run; of the old one only a window in hand survives,
\* which is what leftover counts.
LEMMA RestartIInv ==
    ASSUME ConfigAssumption, IInv, NEW rowWidth \in RowWidths, NEW initialDelay \in InitialDelays,
           NEW ready \in BOOLEAN, Restart(rowWidth, initialDelay, ready)
    PROVE  IInv'
<1>1. PICK pixel \in Pixel : Clock(TRUE, rowWidth, initialDelay, FALSE, pixel, ready)
  BY DEF Restart
<1>2. InputFire(FALSE, ready) = FALSE
  BY DEF InputFire
<1>3. /\ RowShifter(TRUE, rowWidth, FALSE, pixel)
      /\ WindowCache(FALSE, pixel)
      /\ DelayCounter(TRUE, initialDelay, FALSE)
      /\ PendingRsp(FALSE, ready)
  BY <1>1, <1>2 DEF Clock
<1>4. /\ row0' = row0 /\ row1' = row1 /\ cache' = cache
      /\ readPtr' = 0 /\ writeOffset' = rowWidth /\ delay' = initialDelay
  BY <1>3 DEF RowShifter, WindowCache, DelayCounter
<1>5. pendingRsp' \in BOOLEAN
  BY <1>3 DEF PendingRsp
<1>6. /\ stream' = <<>> /\ delay0' = initialDelay
      /\ leftover' = Bit(pendingRsp') /\ delivered' = 0
  BY DEF Restart
<1>7. Len(stream') = 0
  BY <1>6
<1>8. rowWidth \in Nat /\ initialDelay \in Nat /\ MaxRun \in Nat
  BY Config
<1>9. MaxRowWidth \in Nat \ {0}
  BY Config
<1>10. TypeOK'
  BY <1>4, <1>5, <1>8, <1>9 DEF IInv, StreamTypeOK, TypeOK, Slot
<1>11. leftover' \in {0, 1} /\ (leftover' = 0 => ~(pendingRsp'))
  BY <1>5, <1>6 DEF Bit
<1>12. StreamTypeOK'
  BY <1>6, <1>7, <1>8, <1>10, <1>11 DEF StreamTypeOK
<1>13. PtrInv'
  <2>1. 0 % MaxRowWidth = 0
    BY <1>9
  <2> QED
    BY <1>4, <1>7, <2>1 DEF PtrInv
<1>14. DelayInv' /\ PendingInv'
  BY <1>4, <1>6, <1>7, <1>8, <1>11 DEF DelayInv, PendingInv
<1>15. Row0Inv' /\ Row1Inv'
  BY <1>7 DEF Row0Inv, Row1Inv
<1>16. CacheInv'
  <2>1. RowWidth' \in Nat \ {0}
    <3>1. RowWidth' = IF rowWidth % MaxRowWidth = 0 THEN MaxRowWidth
                                                    ELSE rowWidth % MaxRowWidth
      BY <1>4 DEF RowWidth
    <3>2. rowWidth % MaxRowWidth \in 0 .. MaxRowWidth - 1
      BY <1>8, <1>9, DivMod
    <3> QED
      BY <1>9, <3>1, <3>2
  <2>2. SUFFICES ASSUME NEW r \in Taps, NEW c \in Taps
                 PROVE  ~(0 - r * (RowWidth') - c >= 1)
    BY <1>7 DEF CacheInv, Position
  <2> DEFINE W == RowWidth'
  <2>3. W \in Nat \ {0} /\ r \in {0, 1, 2} /\ c \in Nat
    BY <2>1 DEF Taps
  <2> HIDE DEF W
  <2>4. ~(0 - r * W - c >= 1)
    BY <2>3
  <2> QED
    BY <2>4 DEF W
<1>17. OneWindowPerPixel'
  BY <1>5, <1>6, <1>7, <1>8 DEF OneWindowPerPixel, Bit
<1> QED
  BY <1>12, <1>13, <1>14, <1>15, <1>16, <1>17 DEF IInv

-----------------------------------------------------------------------------
(* The theorems: DevicesProofs lifts what follows from the invariant to the  *)
(* specification that is checked.                                            *)

\* A step that changes nothing preserves the inductive invariant.
LEMMA StutterIInv == IInv /\ UNCHANGED vars => IInv'
BY DEF IInv, vars, regs, history, StreamTypeOK, TypeOK, PtrInv, DelayInv, Row0Inv,
       Row1Inv, CacheInv, PendingInv, OneWindowPerPixel, RowWidth, Position

LEMMA StepIInv ==
    ASSUME ConfigAssumption, IInv, [Next]_vars
    PROVE  IInv'
<1>1. CASE \E pixel \in Pixel, ready \in BOOLEAN : Accept(pixel, ready)
  BY <1>1, AcceptIInv
<1>2. CASE \E offered, ready \in BOOLEAN : Wait(offered, ready)
  BY <1>2, WaitIInv
<1>3. CASE \E rowWidth \in RowWidths, initialDelay \in InitialDelays,
              ready \in BOOLEAN : Restart(rowWidth, initialDelay, ready)
  BY <1>3, RestartIInv
<1>4. CASE UNCHANGED vars
  BY <1>4, StutterIInv
<1> QED
  BY <1>1, <1>2, <1>3, <1>4 DEF Next

\* The inductive invariant of the window buffer holds in every reachable state.
THEOREM InductiveInvariant == ASSUME ConfigAssumption PROVE Spec => []IInv
<1>1. Init => IInv
  BY InitIInv
<1>2. IInv /\ [Next]_vars => IInv'
  BY StepIInv
<1> QED
  BY <1>1, <1>2, PTL DEF Spec

\* The registers, memories and counters of the buffer keep their types: in
\* particular delay never goes below zero and readPtr stays a row address.
THEOREM TypeCorrect == ASSUME ConfigAssumption PROVE Spec => []StreamTypeOK
<1>1. IInv => StreamTypeOK
  BY DEF IInv
<1> QED
  BY <1>1, InductiveInvariant, PTL

\* Where the invariant holds, the window in hand is the 3x3 neighbourhood of the
\* newest pixel.
LEMMA IInvWindow ==
    ASSUME ConfigAssumption, IInv
    PROVE  WindowIsNeighbourhood
<1> SUFFICES ASSUME FreshWindow
             PROVE  /\ \A r, c \in Taps :
                          Position(r, c) >= 1 =>
                            OutputPayload[8 - (3 * r + c)] = stream[Position(r, c)]
                    /\ delay0 >= 2 * RowWidth + 2 =>
                          \A r, c \in Taps : Position(r, c) >= 1
  BY DEF WindowIsNeighbourhood
<1>1. /\ Len(stream) \in Nat /\ delay0 \in Nat
      /\ RowWidth \in Nat \ {0}
  BY RowWidthRange, Config DEF IInv, StreamTypeOK, TypeOK
<1>2. ASSUME NEW r \in Taps, NEW c \in Taps
      PROVE  OutputPayload[8 - (3 * r + c)] = cache[r][c]
  <2>1. r \in {0, 1, 2} /\ c \in {0, 1, 2}
    BY DEF Taps
  <2>2. /\ 8 - (3 * r + c) \in 0 .. 8
        /\ (8 - (8 - (3 * r + c))) \div 3 = r
        /\ (8 - (8 - (3 * r + c))) % 3 = c
    BY <2>1
  <2> QED
    BY <2>2 DEF OutputPayload
<1>3. \A r, c \in Taps : Position(r, c) >= 1 => cache[r][c] = stream[Position(r, c)]
  BY DEF IInv, CacheInv
<1>4. Len(stream) > delay0
  BY DEF IInv, PendingInv, FreshWindow
<1>5. ASSUME delay0 >= 2 * RowWidth + 2, NEW r \in Taps, NEW c \in Taps
      PROVE  Position(r, c) >= 1
  <2>1. r \in {0, 1, 2} /\ c \in {0, 1, 2}
    BY DEF Taps
  <2> QED
    BY <1>1, <1>4, <1>5, <2>1 DEF Position
<1> QED
  BY <1>2, <1>3, <1>5

\* A window of the current image that is not taken keeps its contents: no
\* pixel is accepted while the consumer is not ready (input.ready).
LEMMA StepHeld ==
    ASSUME ConfigAssumption, IInv, [Next]_vars
    PROVE  HeldUntilTaken
<1> SUFFICES ASSUME pendingRsp, leftover = 0,
                    delivered' = delivered, Len(stream') >= Len(stream)
             PROVE  pendingRsp' /\ OutputPayload' = OutputPayload
  BY DEF HeldUntilTaken
<1>1. /\ Len(stream) \in Nat /\ delay0 \in Nat /\ delivered \in Nat
      /\ Len(stream) > delay0 /\ delay = 0
  BY DEF IInv, PendingInv, DelayInv, StreamTypeOK, TypeOK
<1>2. CASE \E pixel \in Pixel, ready \in BOOLEAN : Accept(pixel, ready)
  <2>1. PICK pixel \in Pixel, ready \in BOOLEAN : Accept(pixel, ready)
    BY <1>2
  <2>2. ready /\ delivered' = delivered + Bit(pendingRsp /\ ready)
    BY <1>1, <2>1, AcceptEffect DEF Accepted
  <2> QED
    BY <1>1, <2>2 DEF Bit
<1>3. CASE \E offered, ready \in BOOLEAN : Wait(offered, ready)
  <2>1. PICK offered \in BOOLEAN, ready \in BOOLEAN : Wait(offered, ready)
    BY <1>3
  <2>2. /\ cache' = cache /\ pendingRsp' = (pendingRsp /\ ~ready)
        /\ delivered' = delivered + Bit(pendingRsp /\ ready)
    BY <2>1, WaitEffect DEF Idled
  <2>3. ~ready
    BY <1>1, <2>2 DEF Bit
  <2> QED
    BY <2>2, <2>3 DEF OutputPayload
<1>4. CASE \E rowWidth \in RowWidths, initialDelay \in InitialDelays,
              ready \in BOOLEAN : Restart(rowWidth, initialDelay, ready)
  <2>1. Len(stream') = 0
    BY <1>4 DEF Restart
  <2> QED
    BY <1>1, <2>1
<1>5. CASE UNCHANGED vars
  BY <1>5 DEF vars, regs, OutputPayload
<1> QED
  BY <1>2, <1>3, <1>4, <1>5 DEF Next
=============================================================================
