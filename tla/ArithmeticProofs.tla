--------------------------- MODULE ArithmeticProofs ---------------------------
(***************************************************************************)
(* What the fixed-point helpers and the MAC pipeline compute, for every    *)
(* width of an operand, a tap and the accumulator and for every operand;   *)
(* and what the layers' reference kernels compute, for every size of image *)
(* and filter, every stride and every dilation.                            *)
(***************************************************************************)
EXTENDS Arithmetic, Sequences, NumberLemmas

-----------------------------------------------------------------------------
(* The fixed-point helpers.                                                *)

\* The division rounds to the nearest, for every number: not only for the
\* operands of the circuit but also for their products.
LEMMA RoundedIsNearest ==
    ASSUME NEW v \in Int, NEW e \in Nat
    PROVE  /\ fixedPoint!RoundingDivideByPOT(v, e) \in Int
           /\ fixedPoint!IsNearest(fixedPoint!RoundingDivideByPOT(v, e), v, 2 ^ e)
           /\ fixedPoint!TieAwayFromZero(fixedPoint!RoundingDivideByPOT(v, e), v, 2 ^ e)
  <1> DEFINE d == 2 ^ e
             q == v \div d
             s == v % d
             threshold == (d - 1) \div 2 + (IF v < 0 THEN 1 ELSE 0)
             r == q + (IF s > threshold THEN 1 ELSE 0)
  <1>1. d \in Nat \ {0}
    BY PowerOfTwo
  <1>2. d = 1 \/ \E h \in Nat \ {0} : d = h + h
    <2>1. CASE e = 0
      BY <2>1
    <2>2. CASE e # 0
      <3> DEFINE k == e - 1
      <3>1. k \in Nat /\ e = k + 1
        BY <2>2
      <3> HIDE DEF k
      <3>2. d = 2 ^ k + 2 ^ k /\ 2 ^ k \in Nat \ {0}
        BY <3>1, PowerNext, PowerOfTwo
      <3> QED BY <3>2
    <2> QED BY <2>1, <2>2
  <1> HIDE DEF d
  <1>3. q \in Int /\ s \in 0 .. d - 1 /\ v = d * q + s
    BY <1>1, DivMod
  <1> DEFINE p == d * q
  <1>4. p \in Int
    BY <1>1, <1>3
  <1>5. r \in Int /\ r * d = p + (IF s > threshold THEN d ELSE 0)
    <2>1. q * d = p /\ (q + 1) * d = p + d
      BY <1>1, <1>3
    <2> HIDE DEF q, s, p, threshold
    <2> QED BY <1>1, <1>3, <2>1
  <1>6. /\ v < 0 => p < 0
        /\ v >= 0 => p >= 0
    <2>1. q < 0 => d * q <= -d
      BY <1>1, <1>3
    <2>2. q >= 0 => d * q >= 0
      BY <1>1, <1>3
    <2> HIDE DEF q, s
    <2> QED BY <1>1, <1>3, <2>1, <2>2
  <1> HIDE DEF q, s, p
  <1>7. v = p + s /\ s \in 0 .. d - 1
    BY <1>3 DEF p
  <1>8. \/ d = 1 /\ threshold \in Nat
        \/ \E h \in Nat \ {0} : d = h + h /\ threshold = h - (IF v < 0 THEN 0 ELSE 1)
    BY <1>2
  <1> HIDE DEF threshold
  <1>9. fixedPoint!IsNearest(r, v, d) /\ fixedPoint!TieAwayFromZero(r, v, d)
    <2> HIDE DEF r
    <2>1. CASE d = 1 /\ threshold \in Nat
      BY <1>1, <1>4, <1>5, <1>7, <2>1
         DEF fixedPoint!IsNearest, fixedPoint!TieAwayFromZero, fixedPoint!Abs
    <2>2. ASSUME NEW h \in Nat \ {0}, d = h + h,
                 threshold = h - (IF v < 0 THEN 0 ELSE 1)
          PROVE  fixedPoint!IsNearest(r, v, d) /\ fixedPoint!TieAwayFromZero(r, v, d)
      BY <1>1, <1>4, <1>5, <1>6, <1>7, <2>2
         DEF fixedPoint!IsNearest, fixedPoint!TieAwayFromZero, fixedPoint!Abs
    <2> QED BY <1>8, <2>1, <2>2
  <1>10. fixedPoint!RoundingDivideByPOT(v, e) = r
    BY DEF fixedPoint!RoundingDivideByPOT, r, q, s, threshold, d
  <1> QED BY <1>5, <1>9, <1>10 DEF d

\* A number within the range of an operand is its own truncation.
LEMMA TruncatedOperand ==
    ASSUME NEW v \in fixedPoint!Word
    PROVE  fixedPoint!Truncated(v, Width) = v
  <1> DEFINE D == 2 ^ (Width - 1)
             M == 2 ^ Width
  <1>1. D \in Nat \ {0} /\ M = D + D
    <2>1. Width - 1 \in Nat /\ (Width - 1) + 1 = Width
      BY WidthAssumption DEF fixedPoint!WidthAssumption
    <2>2. 2 ^ ((Width - 1) + 1) = D + D
      BY <2>1, PowerNext
    <2> QED BY <2>1, <2>2, PowerOfTwo
  <1>2. v \in -D .. D - 1
    BY DEF fixedPoint!Word, fixedPoint!MinOf, fixedPoint!MaxOf
  <1>3. fixedPoint!Truncated(v, Width) = ((v - (-D)) % M) + (-D)
    BY DEF fixedPoint!Truncated, fixedPoint!MinOf
  <1> HIDE DEF D, M
  <1>4. (v - (-D)) % M = v + D
    <2>1. /\ v - (-D) = M * 0 + (v + D) /\ v + D \in 0 .. M - 1 /\ v - (-D) \in Int
          /\ M \in Nat \ {0} /\ 0 \in Int
      BY <1>1, <1>2
    <2> QED BY <2>1, ModUnique
  <1> QED BY <1>1, <1>2, <1>3, <1>4

\* Factors that are not negative and bounded have a bounded product.
LEMMA ProductBound ==
    ASSUME NEW m \in Nat, NEW n \in Nat, NEW p \in 0 .. m, NEW q \in 0 .. n
    PROVE  p * q \in 0 .. m * n
  <1>1. /\ p * q \in Int /\ m * q \in Int /\ m * n \in Int
        /\ (m - p) * q = m * q - p * q /\ m * (n - q) = m * n - m * q
    OBVIOUS
  <1>2. \A k, l \in Nat : k * l >= 0
    OBVIOUS
  <1>3. p \in Nat /\ q \in Nat /\ m - p \in Nat /\ n - q \in Nat
    OBVIOUS
  <1>4. p * q >= 0 /\ (m - p) * q >= 0 /\ m * (n - q) >= 0
    BY <1>2, <1>3
  <1> QED BY <1>1, <1>4

\* Of all products of operands only the one of the least operand with itself
\* is outside of the range.
LEMMA ProductRange ==
    ASSUME NEW D \in Nat \ {0}, NEW a \in -D .. D - 1, NEW b \in -D .. D - 1
    PROVE  /\ a * b \in Int
           /\ a = -D /\ b = -D => a * b = D * D
           /\ ~(a = -D /\ b = -D) => -(D * (D - 1)) <= a * b /\ a * b <= D * (D - 1)
  <1>1. /\ a * b \in Int /\ a * (-b) = -(a * b) /\ (-a) * b = -(a * b)
        /\ (-a) * (-b) = a * b /\ D * (D - 1) = (D - 1) * D
    OBVIOUS
  <1>2. D \in Nat /\ D - 1 \in Nat
    OBVIOUS
  <1>3. CASE a >= 0 /\ b >= 0
    <2>1. a \in 0 .. D /\ b \in 0 .. D - 1
      BY <1>3
    <2>2. a * b \in 0 .. D * (D - 1)
      BY <1>2, <2>1, ProductBound
    <2> QED BY <1>1, <1>3, <2>2
  <1>4. CASE a >= 0 /\ b < 0
    <2>1. a \in 0 .. D - 1 /\ -b \in 0 .. D
      BY <1>4
    <2>2. a * (-b) \in 0 .. (D - 1) * D
      BY <1>2, <2>1, ProductBound
    <2> QED BY <1>1, <1>4, <2>2
  <1>5. CASE a < 0 /\ b >= 0
    <2>1. -a \in 0 .. D /\ b \in 0 .. D - 1
      BY <1>5
    <2>2. (-a) * b \in 0 .. D * (D - 1)
      BY <1>2, <2>1, ProductBound
    <2> QED BY <1>1, <1>5, <2>2
  <1>6. CASE a < 0 /\ b < 0
    <2>1. CASE a = -D /\ b = -D
      BY <1>1, <2>1
    <2>2. CASE a # -D
      <3>1. -a \in 0 .. D - 1 /\ -b \in 0 .. D
        BY <1>6, <2>2
      <3>2. (-a) * (-b) \in 0 .. (D - 1) * D
        BY <1>2, <3>1, ProductBound
      <3> QED BY <1>1, <2>2, <3>2
    <2>3. CASE b # -D
      <3>1. -a \in 0 .. D /\ -b \in 0 .. D - 1
        BY <1>6, <2>3
      <3>2. (-a) * (-b) \in 0 .. D * (D - 1)
        BY <1>2, <3>1, ProductBound
      <3> QED BY <1>1, <2>3, <3>2
    <2> QED BY <2>1, <2>2, <2>3
  <1> QED BY <1>3, <1>4, <1>5, <1>6

\* The high half of a product: rounded, and in range but for the one product.
LEMMA HighMulIsNearest ==
    ASSUME NEW a \in fixedPoint!Word, NEW b \in fixedPoint!Word
    PROVE  LET high == fixedPoint!SaturatingRoundingDoublingHighMul(a, b)
           IN  /\ IF a * b = 2 ^ (2 * Width - 2) THEN high = fixedPoint!MaxOf(Width)
                  ELSE high \in fixedPoint!Word /\ fixedPoint!IsNearest(high, a * b, 2 ^ (Width - 1))
               /\ ~fixedPoint!WillOverflow(a, b) =>
                     high = fixedPoint!RoundingDivideByPOT(a * b, Width - 1)
  <1> DEFINE D == 2 ^ (Width - 1)
             r == fixedPoint!RoundingDivideByPOT(a * b, Width - 1)
  <1>1. Width \in Nat /\ Width - 1 \in Nat /\ Width - 1 >= 1 /\ 2 * Width - 2 = (Width - 1) + (Width - 1)
    BY WidthAssumption DEF fixedPoint!WidthAssumption
  <1>2. D \in Nat \ {0} /\ 2 ^ (2 * Width - 2) = D * D
    BY <1>1, PowerOfTwo, PowerSum
  <1>3. D >= 2
    <2> DEFINE j == Width - 2
    <2>1. j \in Nat /\ Width - 1 = j + 1
      BY <1>1
    <2> HIDE DEF j
    <2>2. D = 2 ^ j + 2 ^ j /\ 2 ^ j \in Nat \ {0}
      BY <2>1, PowerNext, PowerOfTwo
    <2> HIDE DEF D
    <2> QED BY <2>2
  <1>4. a \in -D .. D - 1 /\ b \in -D .. D - 1
    BY DEF fixedPoint!Word, fixedPoint!MinOf, fixedPoint!MaxOf
  <1>5. fixedPoint!WillOverflow(a, b) <=> a = -D /\ b = -D
    BY DEF fixedPoint!WillOverflow, fixedPoint!MinOf
  <1>6. fixedPoint!Word = -D .. D - 1
    BY DEF fixedPoint!Word, fixedPoint!MinOf, fixedPoint!MaxOf
  <1>7. a * b \in Int
    <2> HIDE DEF D
    <2> QED BY <1>2, <1>4
  <1>8. r \in Int /\ fixedPoint!IsNearest(r, a * b, D)
    BY <1>1, <1>7, RoundedIsNearest
  <1>9. CASE a = -D /\ b = -D
    <2>1. a * b = 2 ^ (2 * Width - 2)
      BY <1>2, <1>4, <1>9, ProductRange
    <2>2. fixedPoint!SaturatingRoundingDoublingHighMul(a, b) = fixedPoint!MaxOf(Width)
      BY <1>5, <1>9 DEF fixedPoint!SaturatingRoundingDoublingHighMul
    <2> QED BY <1>5, <1>9, <2>1, <2>2
  <1>10. CASE ~(a = -D /\ b = -D)
    <2>1. fixedPoint!SaturatingRoundingDoublingHighMul(a, b) = fixedPoint!Truncated(r, Width)
      BY <1>5, <1>10 DEF fixedPoint!SaturatingRoundingDoublingHighMul
    <2> HIDE DEF D, r
    <2> DEFINE v == a * b
    <2>2. v \in Int /\ -(D * (D - 1)) <= v /\ v <= D * (D - 1)
      BY <1>2, <1>4, <1>10, ProductRange
    <2>3. fixedPoint!IsNearest(r, v, D)
      BY <1>8
    <2> HIDE DEF v
    <2>4. D * (D - 1) = D * D - D /\ D * D \in Int /\ r * D \in Int
      BY <1>2, <1>8
    <2>5. 2 * (r * D - v) <= D /\ 2 * (v - r * D) <= D
      BY <1>2, <2>2, <2>3, <2>4 DEF fixedPoint!IsNearest, fixedPoint!Abs
    <2>6. r * D < D * D /\ -(D * D) < r * D
      <3> DEFINE R == r * D
                 S == D * D
      <3>1. R \in Int /\ S \in Int /\ -(S - D) <= v /\ v <= S - D
            /\ 2 * (R - v) <= D /\ 2 * (v - R) <= D
        BY <2>2, <2>4, <2>5
      <3> HIDE DEF R, S
      <3>2. R < S /\ -S < R
        BY <1>2, <2>2, <3>1
      <3> QED BY <3>2 DEF R, S
    <2>7. r < D /\ -D < r
      <3>1. r >= D => r * D >= D * D
        <4> SUFFICES ASSUME r >= D PROVE r * D >= D * D
          OBVIOUS
        <4>1. D \in Nat /\ r \in Nat /\ D \in 0 .. r /\ D \in 0 .. D
          BY <1>2, <1>8
        <4>2. D * D \in 0 .. r * D
          BY <4>1, ProductBound
        <4> QED BY <1>8, <4>2
      <3>2. r <= -D => (-r) * D >= D * D
        <4> SUFFICES ASSUME r <= -D PROVE (-r) * D >= D * D
          OBVIOUS
        <4>1. D \in Nat /\ -r \in Nat /\ D \in 0 .. (-r) /\ D \in 0 .. D
          BY <1>2, <1>8
        <4>2. D * D \in 0 .. (-r) * D
          BY <4>1, ProductBound
        <4> QED BY <1>8, <4>2
      <3>3. (-r) * D = -(r * D)
        BY <1>2, <1>8
      <3> QED BY <1>2, <1>8, <2>4, <2>6, <3>1, <3>2, <3>3
    <2>8. r \in fixedPoint!Word
      BY <1>2, <1>6, <1>8, <2>7
    <2>9. fixedPoint!Truncated(r, Width) = r
      BY <2>8, TruncatedOperand
    <2>10. a * b # 2 ^ (2 * Width - 2)
      <3>1. v # D * D
        <4> DEFINE S == D * D
        <4>1. S \in Int /\ v <= S - D
          BY <2>2, <2>4
        <4> HIDE DEF S
        <4>2. v # S
          BY <1>2, <2>2, <4>1
        <4> QED BY <4>2 DEF S
      <3> QED BY <1>2, <3>1 DEF v
    <2> QED BY <1>8, <2>1, <2>8, <2>9, <2>10 DEF D, r
  <1> QED BY <1>9, <1>10

\* Half way from one multiple to the next: below it, gemmlowp's division takes the
\* lower one, from it on the upper one, whatever the sign.
LEMMA NudgedDivision ==
    ASSUME NEW h \in Nat \ {0}, NEW D, D = h + h, NEW v \in Int
    PROVE  LET q == v \div D
               s == v % D
           IN  fixedPoint!TowardsZero(v + (IF v >= 0 THEN h ELSE 1 - h), D)
                   = q + (IF s >= h THEN 1 ELSE 0)
  <1> DEFINE q == v \div D
             s == v % D
  <1>1. D \in Nat \ {0} /\ q \in Int /\ s \in 0 .. D - 1 /\ v = D * q + s
    <2>1. D \in Nat \ {0}
      OBVIOUS
    <2> QED BY <2>1, DivMod
  <1> HIDE DEF q, s
  <1>2. \A k, w \in Int : \A t \in 0 .. D - 1 : w = D * k + t => w \div D = k
    BY <1>1, ModUnique
  <1>3. D * (q + 1) = D * q + D /\ D * (-q) = -(D * q) /\ D * (-q - 1) = -(D * q) - D
    BY <1>1
  <1> DEFINE p == D * q
  <1>4. p \in Int
    BY <1>1
  <1>5. CASE v >= 0
    <2>1. fixedPoint!TowardsZero(v + h, D) = (v + h) \div D
      BY <1>5 DEF fixedPoint!TowardsZero
    <2>2. CASE s >= h
      <3>1. v + h = D * (q + 1) + (s - h) /\ s - h \in 0 .. D - 1 /\ q + 1 \in Int
        <4> HIDE DEF p
        <4>1. v = p + s /\ D * (q + 1) = p + D
          BY <1>1, <1>3 DEF p
        <4> QED BY <1>1, <1>4, <2>2, <4>1
      <3> QED BY <1>2, <1>5, <2>1, <2>2, <3>1 DEF q, s
    <2>3. CASE s < h
      <3>1. v + h = D * q + (s + h) /\ s + h \in 0 .. D - 1
        BY <1>1, <2>3
      <3> QED BY <1>1, <1>2, <1>5, <2>1, <2>3, <3>1 DEF q, s
    <2> QED BY <1>1, <2>2, <2>3
  <1>6. CASE v < 0
    <2>1. fixedPoint!TowardsZero(v + (1 - h), D) = -((h - 1 - v) \div D)
      <3>1. ~(v + (1 - h) >= 0) /\ -(v + (1 - h)) = h - 1 - v
        BY <1>6
      <3> QED BY <3>1 DEF fixedPoint!TowardsZero
    <2>2. CASE s >= h
      <3>1. h - 1 - v = D * (-q - 1) + (D + h - 1 - s) /\ D + h - 1 - s \in 0 .. D - 1
        <4> HIDE DEF p
        <4>1. v = p + s /\ D * (-q - 1) = -p - D
          BY <1>1, <1>3 DEF p
        <4> QED BY <1>1, <1>4, <2>2, <4>1
      <3>2. (h - 1 - v) \div D = -q - 1
        BY <1>1, <1>2, <3>1
      <3> QED BY <1>1, <1>6, <2>1, <2>2, <3>2 DEF q, s
    <2>3. CASE s < h
      <3>1. h - 1 - v = D * (-q) + (h - 1 - s) /\ h - 1 - s \in 0 .. D - 1
        <4> HIDE DEF p
        <4>1. v = p + s /\ D * (-q) = -p
          BY <1>1, <1>3 DEF p
        <4> QED BY <1>1, <1>4, <2>3, <4>1
      <3>2. (h - 1 - v) \div D = -q
        BY <1>1, <1>2, <3>1
      <3> QED BY <1>1, <1>6, <2>1, <2>3, <3>2 DEF q, s
    <2> QED BY <1>1, <2>2, <2>3
  <1> QED BY <1>5, <1>6 DEF q, s

\* The high half of a product is gemmlowp's, one less on a negative tie.
LEMMA HighMulIsGemmlowps ==
    ASSUME NEW a \in fixedPoint!Word, NEW b \in fixedPoint!Word
    PROVE  fixedPoint!SaturatingRoundingDoublingHighMul(a, b)
             = fixedPoint!GemmlowpHighMul(a, b)
                 - (IF fixedPoint!NegativeTie(a * b) THEN 1 ELSE 0)
  <1> DEFINE h == 2 ^ (Width - 2)
             D == 2 ^ (Width - 1)
             v == a * b
             q == v \div D
             s == v % D
             r == fixedPoint!RoundingDivideByPOT(v, Width - 1)
  <1>1. h \in Nat \ {0} /\ D = h + h
    <2>1. Width - 2 \in Nat /\ (Width - 2) + 1 = Width - 1
      BY WidthAssumption DEF fixedPoint!WidthAssumption
    <2> QED BY <2>1, PowerOfTwo, PowerNext
  <1>2. a \in -D .. D - 1 /\ b \in -D .. D - 1 /\ fixedPoint!Word = -D .. D - 1
    BY DEF fixedPoint!Word, fixedPoint!MinOf, fixedPoint!MaxOf
  <1>3. fixedPoint!MaxOf(Width) = D - 1
    BY DEF fixedPoint!MaxOf
  <1>4. fixedPoint!WillOverflow(a, b) <=> a = -D /\ b = -D
    BY DEF fixedPoint!WillOverflow, fixedPoint!MinOf
  <1>5. r = q + (IF s > (D - 1) \div 2 + (IF v < 0 THEN 1 ELSE 0) THEN 1 ELSE 0)
    BY DEF fixedPoint!RoundingDivideByPOT
  <1>6. fixedPoint!NegativeTie(v) <=> v < 0 /\ s = h
    BY DEF fixedPoint!NegativeTie
  <1>7. fixedPoint!GemmlowpHighMul(a, b)
          = IF fixedPoint!WillOverflow(a, b) THEN fixedPoint!MaxOf(Width)
            ELSE fixedPoint!TowardsZero(v + (IF v >= 0 THEN h ELSE 1 - h), D)
    BY DEF fixedPoint!GemmlowpHighMul
  <1> HIDE DEF h, D
  <1>9. v \in Int
    BY <1>1, <1>2
  <1> HIDE DEF v, r
  <1>10. q \in Int /\ s \in 0 .. D - 1
    BY <1>1, <1>9, DivMod
  <1>11. fixedPoint!TowardsZero(v + (IF v >= 0 THEN h ELSE 1 - h), D)
           = q + (IF s >= h THEN 1 ELSE 0)
    BY <1>1, <1>9, NudgedDivision
  <1> HIDE DEF q, s
  <1>12. (D - 1) \div 2 = h - 1
    BY <1>1
  <1>13. r = (q + (IF s >= h THEN 1 ELSE 0)) - (IF v < 0 /\ s = h THEN 1 ELSE 0)
    BY <1>1, <1>5, <1>9, <1>10, <1>12
  <1>14. CASE a = -D /\ b = -D
    <2>1. ~(v < 0)
      BY <1>1, <1>2, <1>14, ProductRange DEF v
    <2>2. fixedPoint!SaturatingRoundingDoublingHighMul(a, b) = fixedPoint!MaxOf(Width)
      BY <1>4, <1>14 DEF fixedPoint!SaturatingRoundingDoublingHighMul
    <2> QED BY <1>1, <1>3, <1>4, <1>6, <1>7, <1>14, <2>1, <2>2 DEF v
  <1>15. CASE ~(a = -D /\ b = -D)
    <2>1. fixedPoint!SaturatingRoundingDoublingHighMul(a, b) = r
      BY <1>4, <1>15, HighMulIsNearest DEF v, r, D
    <2> QED BY <1>4, <1>6, <1>7, <1>11, <1>13, <1>15, <2>1 DEF v
  <1> QED BY <1>14, <1>15

\* The operands are held; once they are valid the results are theirs.
FixedPointInv ==
    /\ x \in fixedPoint!Word /\ y \in fixedPoint!Word
    /\ valid =>
          /\ rounded = [e \in fixedPoint!Exponents |-> fixedPoint!RoundingDivideByPOT(x, e)]
          /\ product = fixedPoint!SaturatingRoundingDoublingHighMul(x, y)

LEMMA FixedPointInvariant == Spec => [](computation = "fixed_point" => FixedPointInv)
  <1> DEFINE I == computation = "fixed_point" => FixedPointInv
  <1>1. Init => I
    BY DEF Init, fixedPoint!Init, FixedPointInv
  <1>2. I /\ [Next]_vars => I'
    <2> SUFFICES ASSUME I, [Next]_vars, computation' = "fixed_point" PROVE FixedPointInv'
      OBVIOUS
    <2>1. CASE FixedPointNext
      BY <2>1 DEF FixedPointNext, fixedPoint!ClockEdge, FixedPointInv
    <2>2. CASE MacNext \/ KernelNext
      BY <2>2 DEF MacNext, KernelNext
    <2>3. CASE UNCHANGED vars
      BY <2>3 DEF vars, fixedPointVars, FixedPointInv
    <2> QED BY <2>1, <2>2, <2>3 DEF Next
  <1> QED BY <1>1, <1>2, PTL DEF Spec

\* RoundingDivideByPOT and SaturatingRoundingDoublingHighMul round to the
\* nearest (math/Utils.scala:8, :38), for every pair of operands, and the second
\* differs from gemmlowp's function on negative ties only.
THEOREM FixedPointIsNearestCorrect == Spec => []FixedPointIsNearest
  <1>1. FixedPointInv => fixedPoint!DivisionIsNearest
    <2> SUFFICES ASSUME FixedPointInv, valid, NEW e \in fixedPoint!Exponents
                 PROVE  /\ fixedPoint!IsNearest(rounded[e], x, 2 ^ e)
                        /\ fixedPoint!TieAwayFromZero(rounded[e], x, 2 ^ e)
      BY DEF fixedPoint!DivisionIsNearest
    <2>1. rounded[e] = fixedPoint!RoundingDivideByPOT(x, e)
      BY DEF FixedPointInv
    <2>2. e \in Nat /\ x \in Int
      BY WidthAssumption DEF fixedPoint!WidthAssumption, fixedPoint!Exponents, FixedPointInv,
             fixedPoint!Word
    <2> QED BY <2>1, <2>2, RoundedIsNearest
  <1>2. FixedPointInv => fixedPoint!HighMulIsNearestInRange
    BY HighMulIsNearest DEF FixedPointInv, fixedPoint!HighMulIsNearestInRange
  <1>3. FixedPointInv => fixedPoint!HighMulIsGemmlowpButForTies
    BY HighMulIsGemmlowps DEF FixedPointInv, fixedPoint!HighMulIsGemmlowpButForTies
  <1>4. (computation = "fixed_point" => FixedPointInv) => FixedPointIsNearest
    BY <1>1, <1>2, <1>3 DEF FixedPointIsNearest
  <1> QED BY <1>4, FixedPointInvariant, PTL

-----------------------------------------------------------------------------
(* The MAC pipeline.                                                       *)

TapRange == -(2 ^ (TapWidth - 1)) .. 2 ^ (TapWidth - 1) - 1

\* The pipeline with every tap and every initial sum.
everyMac == INSTANCE MacArithmetic WITH Taps <- TapRange \X TapRange, Acc0 <- Int

\* The largest product, of the two least taps.
Largest == 2 ^ (2 * TapWidth - 2)

\* The registers of the stages are wide enough: each for twice the sums of the
\* stage before it.
LEMMA StageRanges ==
    /\ TapWidth \in Nat \ {0}
    /\ 2 ^ (TapWidth - 1) \in Nat \ {0}
    /\ Largest \in Nat \ {0} /\ Largest = 2 ^ (TapWidth - 1) * 2 ^ (TapWidth - 1)
    /\ \A d \in 1 .. 5 : mac!StageWidth(d) \in Nat \ {0}
    /\ 2 ^ (mac!StageWidth(1) - 1) = 2 * Largest
    /\ 2 ^ (mac!StageWidth(2) - 1) = 4 * Largest
    /\ 2 ^ (mac!StageWidth(3) - 1) = 8 * Largest
    /\ 2 ^ (mac!StageWidth(4) - 1) = 16 * Largest
    /\ 2 ^ (mac!StageWidth(5) - 1) = 32 * Largest
  <1> DEFINE t == 2 * TapWidth - 2
  <1>1. /\ TapWidth \in Nat \ {0} /\ TapWidth - 1 \in Nat /\ t \in Nat
        /\ t = (TapWidth - 1) + (TapWidth - 1)
        /\ \A d \in 1 .. 5 : mac!StageWidth(d) - 1 = t + d /\ mac!StageWidth(d) \in Nat \ {0}
    BY WidthsAssumption DEF mac!WidthsAssumption, mac!StageWidth
  <1>2. 2 ^ (TapWidth - 1) \in Nat \ {0} /\ Largest = 2 ^ (TapWidth - 1) * 2 ^ (TapWidth - 1)
    BY <1>1, PowerOfTwo, PowerSum DEF Largest
  <1>3. Largest = 2 ^ t /\ Largest \in Nat \ {0}
    BY <1>1, PowerOfTwo DEF Largest
  <1> HIDE DEF t, Largest
  <1>4. 2 ^ 1 = 2 /\ 2 ^ 2 = 4 /\ 2 ^ 3 = 8 /\ 2 ^ 4 = 16 /\ 2 ^ 5 = 32
    OBVIOUS
  <1>5. \A d \in 1 .. 5 : 2 ^ (mac!StageWidth(d) - 1) = Largest * 2 ^ d
    <2> SUFFICES ASSUME NEW d \in 1 .. 5
                 PROVE  2 ^ (mac!StageWidth(d) - 1) = Largest * 2 ^ d
      OBVIOUS
    <2>1. d \in Nat
      OBVIOUS
    <2>2. 2 ^ (t + d) = 2 ^ t * 2 ^ d
      BY <1>1, <2>1, PowerSum
    <2> QED BY <1>1, <1>3, <2>2
  <1>6. \A n \in Nat : Largest * n = n * Largest
    BY <1>3
  <1> QED BY <1>1, <1>2, <1>3, <1>4, <1>5, <1>6

\* A register keeps what is in its range.
LEMMA TruncatedInRange ==
    ASSUME NEW w \in Nat \ {0}, NEW v \in Int, -(2 ^ (w - 1)) <= v, v < 2 ^ (w - 1)
    PROVE  mac!Truncated(v, w) = v
  <1> DEFINE H == 2 ^ (w - 1)
             N == 2 ^ w
  <1>1. H \in Nat \ {0} /\ N = H + H
    <2>1. w - 1 \in Nat /\ (w - 1) + 1 = w
      OBVIOUS
    <2>2. 2 ^ ((w - 1) + 1) = H + H
      BY <2>1, PowerNext
    <2> QED BY <2>1, <2>2, PowerOfTwo
  <1>2. mac!Truncated(v, w) = ((v + H) % N) - H
    BY DEF mac!Truncated
  <1>3. -H <= v /\ v < H
    OBVIOUS
  <1> HIDE DEF H, N
  <1>4. (v + H) % N = v + H
    <2>1. /\ v + H = N * 0 + (v + H) /\ v + H \in 0 .. N - 1 /\ v + H \in Int
          /\ N \in Nat \ {0} /\ 0 \in Int
      BY <1>1, <1>3
    <2> QED BY <2>1, ModUnique
  <1> QED BY <1>1, <1>2, <1>4

\* Whoever makes a product, it is exact.
LEMMA ProductExact ==
    ASSUME NEW a \in TapRange, NEW b \in TapRange
    PROVE  /\ a * b \in Int /\ -Largest <= a * b /\ a * b <= Largest
           /\ mac!Truncated(a * b, mac!StageWidth(1)) = a * b
           /\ mac!HwProduct(a, b) = a * b
  <1> DEFINE L == 2 ^ (TapWidth - 1)
             w == mac!StageWidth(1)
             N == 2 ^ w
             H == 2 ^ (w - 1)
  <1>1. /\ L \in Nat \ {0} /\ Largest \in Nat \ {0} /\ Largest = L * L
        /\ w \in Nat \ {0} /\ H = 2 * Largest
    BY StageRanges
  <1>2. N \in Nat \ {0}
    BY <1>1, PowerOfTwo
  <1>3. a \in -L .. L - 1 /\ b \in -L .. L - 1
    BY DEF TapRange
  <1>4. mac!HwProduct(a, b) = mac!Truncated((a % N) * (b % N), w)
    BY DEF mac!HwProduct, mac!SignExtended
  <1>5. /\ mac!Truncated((a % N) * (b % N), w) = (((a % N) * (b % N) + H) % N) - H
        /\ mac!Truncated(a * b, w) = ((a * b + H) % N) - H
    BY DEF mac!Truncated
  <1>6. H \in Int
    BY <1>1
  <1> HIDE DEF L, N, H
  <1>7. a \in Int /\ b \in Int /\ a * b \in Int
    BY <1>1, <1>3
  <1>8. -Largest <= a * b /\ a * b <= Largest
    <2>1. -(L * (L - 1)) >= -(L * L) /\ L * (L - 1) <= L * L
      BY <1>1
    <2>2. L * L \in Int /\ L * (L - 1) \in Int
      BY <1>1
    <2>3. a = -L /\ b = -L => a * b = L * L
      BY <1>1, <1>3, ProductRange
    <2>4. ~(a = -L /\ b = -L) => -(L * (L - 1)) <= a * b /\ a * b <= L * (L - 1)
      BY <1>1, <1>3, ProductRange
    <2> QED BY <1>1, <1>7, <2>1, <2>2, <2>3, <2>4
  <1>9. mac!Truncated(a * b, w) = a * b
    <2>1. -H <= a * b /\ a * b < H
      BY <1>1, <1>7, <1>8
    <2> QED BY <1>1, <1>7, <2>1, TruncatedInRange DEF H
  <1>10. ((a % N) * (b % N) + H) % N = (a * b + H) % N
    <2> DEFINE p == a \div N
               q == b \div N
               r == a % N
               s == b % N
               k == r * q + s * p + N * (p * q)
    <2>1. /\ p \in Int /\ r \in 0 .. N - 1 /\ a = N * p + r
          /\ q \in Int /\ s \in 0 .. N - 1 /\ b = N * q + s
      BY <1>2, <1>7, DivMod
    <2> HIDE DEF p, q, r, s
    <2>2. r \in Int /\ s \in Int /\ p * q \in Int /\ r * q \in Int /\ s * p \in Int
      BY <1>2, <2>1
    <2>3. a * b = N * (N * (p * q)) + N * (r * q) + N * (s * p) + r * s
      BY <1>2, <2>1, <2>2
    <2>4. k \in Int /\ N * k = N * (N * (p * q)) + N * (r * q) + N * (s * p)
      BY <1>2, <2>2
    <2> HIDE DEF k
    <2>5. a * b + H = (r * s + H) + N * k /\ r * s + H \in Int
      BY <1>2, <1>6, <2>2, <2>3, <2>4
    <2>6. ((r * s + H) + N * k) % N = (r * s + H) % N
      BY <1>2, <2>4, <2>5, ModAddMultiple
    <2> QED BY <2>5, <2>6 DEF r, s
  <1> QED BY <1>4, <1>5, <1>7, <1>8, <1>9, <1>10

LEMMA Elements ==
    ASSUME NEW n \in Nat, NEW s \in [1 .. n -> Int]
    PROVE  Len(s) = n
  <1>1. s \in Seq(Int) /\ DOMAIN s = 1 .. n
    OBVIOUS
  <1>2. Len(s) \in Nat /\ 1 .. Len(s) = 1 .. n
    BY <1>1
  <1> QED BY <1>2

\* An adder stage adds its pairs exactly and passes on an odd element.
LEMMA PairsAdded ==
    ASSUME NEW n \in 1 .. 9, NEW s \in [1 .. n -> Int], NEW c \in Nat,
           \A i \in 1 .. n : -c <= s[i] /\ s[i] <= c,
           NEW w \in Nat \ {0}, 2 * c < 2 ^ (w - 1)
    PROVE  /\ mac!PairSums(s, w) \in [1 .. ((n + 1) \div 2) -> Int]
           /\ \A i \in 1 .. ((n + 1) \div 2) :
                 /\ mac!PairSums(s, w)[i] = IF 2 * i <= n THEN s[2 * i - 1] + s[2 * i]
                                                          ELSE s[2 * i - 1]
                 /\ -(2 * c) <= mac!PairSums(s, w)[i] /\ mac!PairSums(s, w)[i] <= 2 * c
  <1> DEFINE m == (n + 1) \div 2
             Sum(i) == s[2 * i - 1] + s[2 * i]
  <1>1. Len(s) = n
    BY Elements
  <1>2. m \in Nat /\ \A i \in 1 .. m : 2 * i - 1 \in 1 .. n /\ (2 * i <= n => 2 * i \in 1 .. n)
    OBVIOUS
  <1>3. ASSUME NEW i \in 1 .. m, 2 * i <= n
        PROVE  /\ Sum(i) \in Int /\ -(2 * c) <= Sum(i) /\ Sum(i) <= 2 * c
               /\ mac!Truncated(Sum(i), w) = Sum(i)
    <2>1. /\ s[2 * i - 1] \in Int /\ -c <= s[2 * i - 1] /\ s[2 * i - 1] <= c
          /\ s[2 * i] \in Int /\ -c <= s[2 * i] /\ s[2 * i] <= c
      BY <1>2, <1>3
    <2>2. Sum(i) \in Int /\ -(2 * c) <= Sum(i) /\ Sum(i) <= 2 * c
      BY <2>1
    <2> HIDE DEF Sum
    <2>3. 2 ^ (w - 1) \in Nat
      <3>1. w - 1 \in Nat
        OBVIOUS
      <3> QED BY <3>1, PowerOfTwo
    <2>4. -(2 ^ (w - 1)) <= Sum(i) /\ Sum(i) < 2 ^ (w - 1)
      BY <2>2, <2>3
    <2> QED BY <2>2, <2>4, TruncatedInRange
  <1>4. mac!PairSums(s, w) =
            [i \in 1 .. m |-> IF 2 * i <= n THEN mac!Truncated(Sum(i), w) ELSE s[2 * i - 1]]
    BY <1>1 DEF mac!PairSums
  <1>5. ASSUME NEW i \in 1 .. m
        PROVE  /\ mac!PairSums(s, w)[i] = IF 2 * i <= n THEN Sum(i) ELSE s[2 * i - 1]
               /\ mac!PairSums(s, w)[i] \in Int
               /\ -(2 * c) <= mac!PairSums(s, w)[i] /\ mac!PairSums(s, w)[i] <= 2 * c
    <2>1. CASE 2 * i <= n
      BY <1>3, <1>4, <2>1
    <2>2. CASE ~(2 * i <= n)
      <3>1. /\ mac!PairSums(s, w)[i] = s[2 * i - 1]
            /\ s[2 * i - 1] \in Int /\ -c <= s[2 * i - 1] /\ s[2 * i - 1] <= c
        BY <1>2, <1>4, <2>2
      <3> QED BY <2>2, <3>1
    <2> QED BY <2>1, <2>2
  <1>6. mac!PairSums(s, w) \in [1 .. m -> Int]
    BY <1>4, <1>5
  <1> QED BY <1>5, <1>6

\* What the registers of each stage hold: the sums of two, four and eight
\* products, and the ninth product, passed on from stage to stage.
StageInv(n, c) ==
    /\ sums \in [1 .. n -> Int]
    /\ \A i \in 1 .. n : -c <= sums[i] /\ sums[i] <= c

Four == mac!Tap(1) + mac!Tap(2) + mac!Tap(3) + mac!Tap(4)
FourMore == mac!Tap(5) + mac!Tap(6) + mac!Tap(7) + mac!Tap(8)

MacInv ==
    /\ depth \in 0 .. 5
    /\ taps \in [1 .. 9 -> TapRange \X TapRange]
    /\ depth = 1 =>
          /\ StageInv(9, Largest)
          /\ \A i \in 1 .. 9 : sums[i] = mac!Tap(i)
    /\ depth = 2 =>
          /\ StageInv(5, 2 * Largest)
          /\ \A i \in 1 .. 4 : sums[i] = mac!Tap(2 * i - 1) + mac!Tap(2 * i)
          /\ sums[5] = mac!Tap(9)
    /\ depth = 3 =>
          /\ StageInv(3, 4 * Largest)
          /\ sums[1] = Four /\ sums[2] = FourMore /\ sums[3] = mac!Tap(9)
    /\ depth = 4 =>
          /\ StageInv(2, 8 * Largest)
          /\ sums[1] = Four + FourMore /\ sums[2] = mac!Tap(9)
    /\ depth = 5 =>
          /\ StageInv(1, 16 * Largest)
          /\ sums[1] = mac!DotProduct
          /\ acc = mac!Truncated(acc0 + mac!DotProduct, AccumulatorWidth)

LEMMA TapTypes ==
    ASSUME taps \in [1 .. 9 -> TapRange \X TapRange], NEW i \in 1 .. 9
    PROVE  /\ mac!Tap(i) \in Int /\ -Largest <= mac!Tap(i) /\ mac!Tap(i) <= Largest
           /\ mac!Products[i] = mac!Tap(i)
  <1>1. taps[i][1] \in TapRange /\ taps[i][2] \in TapRange
    OBVIOUS
  <1> QED BY <1>1, ProductExact DEF mac!Products, mac!Tap

LEMMA MacMultiply ==
    ASSUME MacInv, mac!Multiply
    PROVE  MacInv'
  <1>1. /\ depth' = 1 /\ sums' = mac!Products /\ taps' = taps
        /\ taps \in [1 .. 9 -> TapRange \X TapRange]
    BY DEF MacInv, mac!Multiply
  <1>2. \A i \in 1 .. 9 : /\ mac!Tap(i) \in Int /\ -Largest <= mac!Tap(i) /\ mac!Tap(i) <= Largest
                          /\ mac!Products[i] = mac!Tap(i)
    BY <1>1, TapTypes
  <1>3. mac!Products \in [1 .. 9 -> Int]
    BY <1>2 DEF mac!Products
  <1>4. TapRange' = TapRange /\ Largest' = Largest /\ \A i \in 1 .. 9 : mac!Tap(i)' = mac!Tap(i)
    BY <1>1 DEF TapRange, Largest, mac!Tap
  <1> QED BY <1>1, <1>2, <1>3, <1>4 DEF MacInv, StageInv

LEMMA MacAdd ==
    ASSUME MacInv, mac!Add
    PROVE  MacInv'
  <1>1. /\ depth \in 1 .. 4 /\ depth' = depth + 1
        /\ sums' = mac!PairSums(sums, mac!StageWidth(depth + 1))
        /\ taps' = taps /\ acc0' = acc0
        /\ taps \in [1 .. 9 -> TapRange \X TapRange]
        /\ depth' = 5 => acc' = mac!Truncated(acc0 + sums'[1], AccumulatorWidth)
    BY DEF MacInv, mac!Add, mac!Stages
  <1>2. /\ TapRange' = TapRange /\ Largest' = Largest
        /\ \A i \in 1 .. 9 : mac!Tap(i)' = mac!Tap(i)
        /\ Four' = Four /\ FourMore' = FourMore /\ mac!DotProduct' = mac!DotProduct
    BY <1>1 DEF TapRange, Largest, Four, FourMore, mac!DotProduct, mac!Tap
  <1>3. /\ mac!Tap(1) \in Int /\ mac!Tap(2) \in Int /\ mac!Tap(3) \in Int
        /\ mac!Tap(4) \in Int /\ mac!Tap(5) \in Int /\ mac!Tap(6) \in Int
        /\ mac!Tap(7) \in Int /\ mac!Tap(8) \in Int /\ mac!Tap(9) \in Int
    BY <1>1, TapTypes
  <1>4. /\ Largest \in Nat \ {0}
        /\ mac!StageWidth(2) \in Nat \ {0} /\ mac!StageWidth(3) \in Nat \ {0}
        /\ mac!StageWidth(4) \in Nat \ {0} /\ mac!StageWidth(5) \in Nat \ {0}
        /\ 2 ^ (mac!StageWidth(2) - 1) = 4 * Largest
        /\ 2 ^ (mac!StageWidth(3) - 1) = 8 * Largest
        /\ 2 ^ (mac!StageWidth(4) - 1) = 16 * Largest
        /\ 2 ^ (mac!StageWidth(5) - 1) = 32 * Largest
    BY StageRanges
  <1>5. ASSUME NEW n \in 1 .. 9, NEW c \in Nat, StageInv(n, c), NEW w \in Nat \ {0},
               2 * c < 2 ^ (w - 1), sums' = mac!PairSums(sums, w)
        PROVE  /\ StageInv((n + 1) \div 2, 2 * c)'
               /\ \A i \in 1 .. ((n + 1) \div 2) :
                     sums'[i] = IF 2 * i <= n THEN sums[2 * i - 1] + sums[2 * i] ELSE sums[2 * i - 1]
    <2>1. sums \in [1 .. n -> Int] /\ \A i \in 1 .. n : -c <= sums[i] /\ sums[i] <= c
      BY <1>5 DEF StageInv
    <2> DEFINE added == mac!PairSums(sums, w)
    <2>2. /\ added \in [1 .. ((n + 1) \div 2) -> Int]
          /\ \A i \in 1 .. ((n + 1) \div 2) :
                /\ added[i] = IF 2 * i <= n THEN sums[2 * i - 1] + sums[2 * i] ELSE sums[2 * i - 1]
                /\ -(2 * c) <= added[i] /\ added[i] <= 2 * c
      BY <1>5, <2>1, PairsAdded
    <2>3. sums' = added
      BY <1>5
    <2> HIDE DEF added
    <2> QED BY <2>2, <2>3 DEF StageInv
  <1>6. CASE depth = 1
    <2>1. /\ StageInv(9, Largest) /\ \A i \in 1 .. 9 : sums[i] = mac!Tap(i)
          /\ sums' = mac!PairSums(sums, mac!StageWidth(2)) /\ depth' = 2
      BY <1>1, <1>6 DEF MacInv
    <2>2. 9 \in 1 .. 9 /\ Largest \in Nat /\ 2 * Largest < 2 ^ (mac!StageWidth(2) - 1)
          /\ (9 + 1) \div 2 = 5
      BY <1>4
    <2>3. /\ StageInv(5, 2 * Largest)'
          /\ \A i \in 1 .. 5 :
                sums'[i] = IF 2 * i <= 9 THEN sums[2 * i - 1] + sums[2 * i] ELSE sums[2 * i - 1]
      BY <1>4, <1>5, <2>1, <2>2
    <2>4. /\ \A i \in 1 .. 4 : sums'[i] = mac!Tap(2 * i - 1) + mac!Tap(2 * i)
          /\ sums'[5] = mac!Tap(9)
      BY <2>1, <2>3
    <2> QED BY <1>1, <1>2, <2>1, <2>3, <2>4 DEF MacInv
  <1>7. CASE depth = 2
    <2>1. /\ StageInv(5, 2 * Largest)
          /\ \A i \in 1 .. 4 : sums[i] = mac!Tap(2 * i - 1) + mac!Tap(2 * i)
          /\ sums[5] = mac!Tap(9)
          /\ sums' = mac!PairSums(sums, mac!StageWidth(3)) /\ depth' = 3
      BY <1>1, <1>7 DEF MacInv
    <2>2. 5 \in 1 .. 9 /\ 2 * Largest \in Nat
          /\ 2 * (2 * Largest) < 2 ^ (mac!StageWidth(3) - 1)
          /\ (5 + 1) \div 2 = 3 /\ 2 * (2 * Largest) = 4 * Largest
      BY <1>4
    <2>3. /\ StageInv(3, 4 * Largest)'
          /\ \A i \in 1 .. 3 :
                sums'[i] = IF 2 * i <= 5 THEN sums[2 * i - 1] + sums[2 * i] ELSE sums[2 * i - 1]
      BY <1>4, <1>5, <2>1, <2>2
    <2>4. /\ sums[1] = mac!Tap(1) + mac!Tap(2) /\ sums[2] = mac!Tap(3) + mac!Tap(4)
          /\ sums[3] = mac!Tap(5) + mac!Tap(6) /\ sums[4] = mac!Tap(7) + mac!Tap(8)
      BY <2>1
    <2>5. sums'[1] = sums[1] + sums[2] /\ sums'[2] = sums[3] + sums[4] /\ sums'[3] = sums[5]
      BY <2>3
    <2>6. sums'[1] = Four /\ sums'[2] = FourMore /\ sums'[3] = mac!Tap(9)
      BY <1>3, <2>1, <2>4, <2>5 DEF Four, FourMore
    <2> QED BY <1>1, <1>2, <2>1, <2>3, <2>6 DEF MacInv
  <1>8. CASE depth = 3
    <2>1. /\ StageInv(3, 4 * Largest)
          /\ sums[1] = Four /\ sums[2] = FourMore /\ sums[3] = mac!Tap(9)
          /\ sums' = mac!PairSums(sums, mac!StageWidth(4)) /\ depth' = 4
      BY <1>1, <1>8 DEF MacInv
    <2>2. 3 \in 1 .. 9 /\ 4 * Largest \in Nat
          /\ 2 * (4 * Largest) < 2 ^ (mac!StageWidth(4) - 1)
          /\ (3 + 1) \div 2 = 2 /\ 2 * (4 * Largest) = 8 * Largest
      BY <1>4
    <2>3. /\ StageInv(2, 8 * Largest)'
          /\ \A i \in 1 .. 2 :
                sums'[i] = IF 2 * i <= 3 THEN sums[2 * i - 1] + sums[2 * i] ELSE sums[2 * i - 1]
      BY <1>4, <1>5, <2>1, <2>2
    <2>4. sums'[1] = Four + FourMore /\ sums'[2] = mac!Tap(9)
      BY <2>1, <2>3
    <2> QED BY <1>1, <1>2, <2>1, <2>3, <2>4 DEF MacInv
  <1>9. CASE depth = 4
    <2>1. /\ StageInv(2, 8 * Largest)
          /\ sums[1] = Four + FourMore /\ sums[2] = mac!Tap(9)
          /\ sums' = mac!PairSums(sums, mac!StageWidth(5)) /\ depth' = 5
      BY <1>1, <1>9 DEF MacInv
    <2>2. 2 \in 1 .. 9 /\ 8 * Largest \in Nat
          /\ 2 * (8 * Largest) < 2 ^ (mac!StageWidth(5) - 1)
          /\ (2 + 1) \div 2 = 1 /\ 2 * (8 * Largest) = 16 * Largest
      BY <1>4
    <2>3. /\ StageInv(1, 16 * Largest)'
          /\ \A i \in 1 .. 1 :
                sums'[i] = IF 2 * i <= 2 THEN sums[2 * i - 1] + sums[2 * i] ELSE sums[2 * i - 1]
      BY <1>4, <1>5, <2>1, <2>2
    <2>4. sums'[1] = (Four + FourMore) + mac!Tap(9)
      BY <2>1, <2>3
    <2>5. sums'[1] = mac!DotProduct
      BY <1>3, <2>4 DEF Four, FourMore, mac!DotProduct
    <2>6. acc' = mac!Truncated(acc0' + mac!DotProduct', AccumulatorWidth)
      BY <1>1, <1>2, <2>1, <2>5
    <2>7. /\ depth' \in 0 .. 5 /\ taps' \in [1 .. 9 -> TapRange' \X TapRange']
          /\ sums'[1] = mac!DotProduct'
      BY <1>1, <1>2, <2>1, <2>5
    <2>8. acc' = mac!Truncated(acc0 + mac!DotProduct, AccumulatorWidth)'
      BY <2>6 DEF mac!Truncated
    <2> QED BY <1>2, <2>1, <2>3, <2>7, <2>8 DEF MacInv
  <1> QED BY <1>1, <1>6, <1>7, <1>8, <1>9

LEMMA MacStep ==
    ASSUME MacInv, mac!Next
    PROVE  MacInv'
  BY MacMultiply, MacAdd DEF mac!Next

LEMMA MacOn ==
    ASSUME MacInv, UNCHANGED macVars
    PROVE  MacInv'
  BY DEF MacInv, macVars, StageInv, TapRange, Largest, Four, FourMore, mac!DotProduct, mac!Tap,
         mac!Truncated

LEMMA MacResult == MacInv => mac!ResultIsDotProduct
  <1> SUFFICES ASSUME MacInv, depth = 5
               PROVE  /\ Len(sums) = 1
                      /\ acc = mac!Truncated(acc0 + mac!DotProduct, AccumulatorWidth)
    BY DEF mac!ResultIsDotProduct, mac!Stages
  <1>1. /\ sums \in [1 .. 1 -> Int]
        /\ acc = mac!Truncated(acc0 + mac!DotProduct, AccumulatorWidth)
    BY DEF MacInv, StageInv
  <1>2. Len(sums) = 1
    <2>1. 1 \in Nat
      OBVIOUS
    <2> QED BY <1>1, <2>1, Elements
  <1> QED BY <1>1, <1>2

\* The extreme taps the runs try are taps.
LEMMA ExtremeTapsAreTaps == ExtremeTaps \subseteq TapRange \X TapRange
  <1> SUFFICES ASSUME NEW tap \in ExtremeTaps PROVE tap \in TapRange \X TapRange
    OBVIOUS
  <1>1. tap[1] \in TapRange /\ tap[2] \in TapRange
    BY WidthsAssumption DEF mac!WidthsAssumption, TapRange
  <1>2. tap = <<tap[1], tap[2]>>
    BY DEF ExtremeTaps
  <1> QED BY <1>1, <1>2

\* The staged sums are the dot product of the nine taps, modulo the width of
\* the accumulator only, for every tap and initial sum (Mac8x9.scala).
THEOREM EveryResultIsDotProduct == everyMac!Spec => []everyMac!ResultIsDotProduct
  <1>1. everyMac!Init => MacInv
    BY DEF everyMac!Init, MacInv
  <1>2. ASSUME MacInv, [everyMac!Next]_everyMac!vars PROVE MacInv'
    <2>1. everyMac!Next => mac!Next
      BY DEF everyMac!Next, mac!Next, everyMac!Multiply, mac!Multiply, everyMac!Add, mac!Add,
             everyMac!Products, mac!Products, everyMac!HwProduct, mac!HwProduct,
             everyMac!Truncated, mac!Truncated, everyMac!SignExtended, mac!SignExtended,
             everyMac!StageWidth, mac!StageWidth, everyMac!PairSums, mac!PairSums,
             everyMac!Stages, mac!Stages
    <2>2. UNCHANGED everyMac!vars => UNCHANGED macVars
      BY DEF everyMac!vars, macVars
    <2> QED BY <1>2, <2>1, <2>2, MacStep, MacOn
  <1>3. MacInv => everyMac!ResultIsDotProduct
    BY MacResult DEF everyMac!ResultIsDotProduct, mac!ResultIsDotProduct, everyMac!Stages,
       mac!Stages, everyMac!Truncated, mac!Truncated, everyMac!DotProduct, mac!DotProduct,
       everyMac!Tap, mac!Tap
  <1> QED BY <1>1, <1>2, <1>3, PTL DEF everyMac!Spec

\* The same of the circuit among the other computations.
THEOREM ResultIsDotProductCorrect == Spec => []ResultIsDotProduct
  <1> DEFINE I == computation = "mac" => MacInv
  <1>1. Init => I
    BY ExtremeTapsAreTaps DEF Init, mac!Init, MacInv
  <1>2. I /\ [Next]_vars => I'
    <2> SUFFICES ASSUME I, [Next]_vars, computation' = "mac" PROVE MacInv'
      OBVIOUS
    <2>1. CASE MacNext
      BY <2>1, MacStep DEF MacNext
    <2>2. CASE FixedPointNext \/ KernelNext
      BY <2>2 DEF FixedPointNext, KernelNext
    <2>3. CASE UNCHANGED vars
      BY <2>3, MacOn DEF vars
    <2> QED BY <2>1, <2>2, <2>3 DEF Next
  <1>3. I => ResultIsDotProduct
    BY MacResult DEF ResultIsDotProduct
  <1> QED BY <1>1, <1>2, <1>3, PTL DEF Spec

-----------------------------------------------------------------------------
(* Numbers of two digits, and the sizes of tensors of four dimensions.     *)

\* A number is its quotient and its remainder.
LEMMA TwoDigits ==
    ASSUME NEW b \in Nat \ {0}, NEW u \in Nat, NEW v \in 0 .. b - 1
    PROVE  /\ u * b + v \in Nat
           /\ (u * b + v) \div b = u
           /\ (u * b + v) % b = v
  <1> DEFINE n == u * b + v
             q == n \div b
  <1>1. n \in Nat /\ n = b * u + v
    BY SMT
  <1>2. n % b = v
    BY <1>1, ModUnique
  <1>3. q \in Int /\ n = b * q + v
    BY <1>1, <1>2, DivMod
  <1> HIDE DEF n, q
  <1>4. b * u = b * q
    <2> DEFINE U == b * u
               Q == b * q
    <2>1. U \in Int /\ Q \in Int
      BY <1>3
    <2>2. n = U + v /\ n = Q + v
      BY <1>1, <1>3
    <2> HIDE DEF U, Q
    <2>3. U = Q
      BY <2>1, <2>2
    <2> QED BY <2>3 DEF U, Q
  <1>5. u = q
    BY <1>3, <1>4, SMT
  <1> QED BY <1>1, <1>2, <1>5 DEF n, q

\* Two digits make a number below the product of their bounds.
LEMMA TwoDigitsBelow ==
    ASSUME NEW a \in Nat \ {0}, NEW b \in Nat \ {0}, NEW u \in 0 .. a - 1, NEW v \in 0 .. b - 1
    PROVE  u * b + v \in 0 .. a * b - 1
  <1>1. (a - 1) * b = a * b - b /\ u * b <= (a - 1) * b /\ u * b \in Nat /\ a * b \in Nat
    BY SMT
  <1> DEFINE U == u * b
             A == a * b
             C == (a - 1) * b
  <1>2. U \in Nat /\ A \in Nat /\ C = A - b /\ U <= C
    BY <1>1
  <1> HIDE DEF U, A, C
  <1>3. U + v \in 0 .. A - 1
    BY <1>2
  <1> QED BY <1>3 DEF U, A

\* The digits of a number below a product.
LEMMA DigitsOf ==
    ASSUME NEW a \in Nat \ {0}, NEW b \in Nat \ {0}, NEW n \in Nat, n < a * b
    PROVE  /\ n \div b \in 0 .. a - 1
           /\ n % b \in 0 .. b - 1
           /\ (n \div b) * b + (n % b) = n
  <1> DEFINE q == n \div b
             r == n % b
             A == a * b
  <1>1. A \in Nat
    BY SMT
  <1>2. n \in Int /\ n >= 0 /\ n < A
    BY <1>1
  <1>3. q \in Int /\ r \in 0 .. b - 1 /\ n = b * q + r
    BY <1>2, DivMod
  <1>4. q >= 0
    <2> SUFFICES ASSUME q <= -1 PROVE FALSE
      BY <1>3
    <2> HIDE DEF q, r, A
    <2>1. b * q <= -b
      BY <1>3, SMT
    <2> DEFINE Q == b * q
    <2>2. Q \in Int /\ Q <= -b /\ n = Q + r
      BY <1>3, <2>1
    <2> HIDE DEF Q
    <2> QED BY <1>2, <1>3, <2>2
  <1>5. q < a
    <2> SUFFICES ASSUME q >= a PROVE FALSE
      BY <1>3
    <2> HIDE DEF q, r
    <2>1. b * q >= A
      BY <1>3, SMT
    <2> DEFINE Q == b * q
    <2>2. Q \in Int /\ Q >= A /\ n = Q + r
      BY <1>3, <2>1
    <2> HIDE DEF Q, A
    <2> QED BY <1>1, <1>2, <1>3, <2>2
  <1>6. q * b = b * q
    BY <1>3
  <1> HIDE DEF q, r, A
  <1>7. q \in 0 .. a - 1 /\ r \in 0 .. b - 1 /\ q * b + r = n
    BY <1>3, <1>4, <1>5, <1>6
  <1> QED BY <1>7 DEF q, r

\* Dividing twice is dividing by the product.
LEMMA DividedTwice ==
    ASSUME NEW n \in Nat, NEW b \in Nat \ {0}, NEW c \in Nat \ {0}
    PROVE  (n \div b) \div c = n \div (c * b)
  <1> DEFINE q == n \div b
             r == n % b
             s == q \div c
             t == q % c
  <1>1. q \in Int /\ r \in 0 .. b - 1 /\ n = b * q + r
    BY DivMod
  <1>2. q \in Nat
    <2> SUFFICES ASSUME q <= -1 PROVE FALSE
      BY <1>1
    <2> HIDE DEF q, r
    <2>1. b * q <= -b
      BY <1>1, SMT
    <2> DEFINE Q == b * q
    <2>2. Q \in Int /\ Q <= -b /\ n = Q + r
      BY <1>1, <2>1
    <2> HIDE DEF Q
    <2> QED BY <1>1, <2>2
  <1>3. s \in Int /\ t \in 0 .. c - 1 /\ q = c * s + t
    BY <1>2, DivMod
  <1>4. s \in Nat
    <2> SUFFICES ASSUME s <= -1 PROVE FALSE
      BY <1>3
    <2> HIDE DEF q, s, t
    <2>1. c * s <= -c
      BY <1>3, SMT
    <2> DEFINE S == c * s
    <2>2. S \in Int /\ S <= -c /\ q = S + t
      BY <1>3, <2>1
    <2> HIDE DEF S
    <2> QED BY <1>2, <1>3, <2>2
  <1>5. c * b \in Nat \ {0} /\ t * b + r \in 0 .. c * b - 1
    BY <1>1, <1>3, TwoDigitsBelow, SMT
  <1>6. n = s * (c * b) + (t * b + r)
    <2> HIDE DEF q, r, s, t
    <2>1. b * q = s * (c * b) + t * b
      BY <1>3, SMT
    <2>2. s * (c * b) \in Int /\ t * b \in Int
      BY <1>3, <1>5
    <2> QED BY <1>1, <2>1, <2>2
  <1> HIDE DEF s, t, r
  <1>7. n \div (c * b) = s
    <2> DEFINE m == c * b
               v == t * b + r
    <2>1. m \in Nat \ {0} /\ v \in 0 .. m - 1 /\ n = s * m + v
      BY <1>5, <1>6
    <2> HIDE DEF m, v
    <2>2. n \div m = s
      BY <1>4, <2>1, TwoDigits
    <2> QED BY <2>2 DEF m
  <1> QED BY <1>7 DEF s

\* The number of elements, dimension by dimension.
LEMMA SizeOf ==
    ASSUME NEW shape, Len(shape) \in Nat, \A k \in 1 .. Len(shape) : shape[k] \in Nat
    PROVE  \E size :
               /\ kernel!FlatSize(shape) = size[Len(shape)]
               /\ size[0] = 1
               /\ \A k \in 1 .. Len(shape) : size[k] = size[k - 1] * shape[k]
  <1> DEFINE n == Len(shape)
             Is(f) == f = [k \in 0 .. n |-> IF k = 0 THEN 1 ELSE f[k - 1] * shape[k]]
             step == [k \in 1 .. n |-> [s \in Nat |-> s * shape[k]]]
  <1>0. n \in Nat /\ 0 \in Int /\ n \in Int /\ 0 <= n /\ \A k \in 1 .. n : shape[k] \in Nat
    OBVIOUS
  <1>1. PICK f : IsRecursive(f, 0, n, 1, step)
    <2> HIDE DEF n, step
    <2> QED BY <1>0, Recursion
  <1>2. f = [k \in 0 .. n |-> IF k = 0 THEN 1 ELSE step[k][f[k - 1]]]
    BY <1>1 DEF IsRecursive
  <1> HIDE DEF n
  <1>3. \A k \in 1 .. n : \A s \in Nat : step[k][s] = s * shape[k]
    OBVIOUS
  <1> HIDE DEF step
  <1>4. 0 .. n \subseteq {k \in 0 .. n : f[k] \in Nat}
    <2> DEFINE P == {k \in 0 .. n : f[k] \in Nat}
    <2>1. 0 \in P
      BY <1>0, <1>2
    <2>2. ASSUME NEW k \in 0 + 1 .. n, k - 1 \in P PROVE k \in P
      <3>1. k \in 1 .. n /\ k \in 0 .. n /\ k # 0 /\ f[k - 1] \in Nat
        BY <1>0, <2>2
      <3>2. f[k] = f[k - 1] * shape[k] /\ shape[k] \in Nat
        BY <1>0, <1>2, <1>3, <3>1
      <3>3. f[k] \in Nat
        BY <3>1, <3>2, SMT
      <3> QED BY <3>1, <3>3
    <2> HIDE DEF P
    <2>3. 0 .. n \subseteq P
      BY <1>0, <2>1, <2>2, InductionTo
    <2> QED BY <2>3 DEF P
  <1>5. Is(f)
    <2>1. \A k \in 1 .. n : step[k][f[k - 1]] = f[k - 1] * shape[k]
      <3> TAKE k \in 1 .. n
      <3>1. k - 1 \in 0 .. n
        BY <1>0
      <3> QED BY <1>3, <1>4, <3>1
    <2> QED BY <1>0, <1>2, <2>1
  <1> DEFINE size == CHOOSE g : Is(g)
  <1>6. Is(size)
    <2> HIDE DEF Is
    <2> QED BY <1>5
  <1>7. kernel!FlatSize(shape) = size[n]
    BY DEF kernel!FlatSize, n
  <1> HIDE DEF size
  <1>8. size[0] = 1 /\ \A k \in 1 .. n : size[k] = size[k - 1] * shape[k]
    BY <1>0, <1>6
  <1> QED BY <1>7, <1>8 DEF n

\* A scalar has one element.
LEMMA SizeOfScalar == kernel!FlatSize(<<>>) = 1
  <1> DEFINE shape == <<>>
  <1>1. /\ Len(shape) = 0 /\ Len(shape) \in Nat
        /\ \A k \in 1 .. Len(shape) : shape[k] \in Nat
    OBVIOUS
  <1> HIDE DEF shape
  <1>2. PICK size : kernel!FlatSize(shape) = size[Len(shape)] /\ size[0] = 1
    BY <1>1, SizeOf
  <1>3. kernel!FlatSize(shape) = 1
    BY <1>1, <1>2
  <1> QED BY <1>3 DEF shape

\* The sizes of shapes of one to four dimensions are the products of them.
LEMMA SizeOfOne ==
    ASSUME NEW d \in Nat \ {0}
    PROVE  kernel!FlatSize(<<d>>) = d
  <1> DEFINE shape == <<d>>
  <1>1. /\ Len(shape) = 1 /\ Len(shape) \in Nat
        /\ \A k \in 1 .. Len(shape) : shape[k] \in Nat
    OBVIOUS
  <1>2. shape[1] = d
    OBVIOUS
  <1> HIDE DEF shape
  <1>3. PICK size : /\ kernel!FlatSize(shape) = size[Len(shape)]
                    /\ size[0] = 1
                    /\ \A k \in 1 .. Len(shape) : size[k] = size[k - 1] * shape[k]
    BY <1>1, SizeOf
  <1>4. size[1] = 1 * d
    BY <1>1, <1>2, <1>3
  <1>6. kernel!FlatSize(shape) = d
    BY <1>1, <1>3, <1>4
  <1> QED BY <1>6 DEF shape

LEMMA SizeOfTwo ==
    ASSUME NEW c \in Nat \ {0}, NEW d \in Nat \ {0}
    PROVE  kernel!FlatSize(<<c, d>>) = c * d
  <1> DEFINE shape == <<c, d>>
  <1>1. /\ Len(shape) = 2 /\ Len(shape) \in Nat
        /\ \A k \in 1 .. Len(shape) : shape[k] \in Nat
    OBVIOUS
  <1>2. shape[1] = c /\ shape[2] = d
    OBVIOUS
  <1> HIDE DEF shape
  <1>3. PICK size : /\ kernel!FlatSize(shape) = size[Len(shape)]
                    /\ size[0] = 1
                    /\ \A k \in 1 .. Len(shape) : size[k] = size[k - 1] * shape[k]
    BY <1>1, SizeOf
  <1>4. size[1] = 1 * c /\ size[2] = size[1] * d
    BY <1>1, <1>2, <1>3
  <1>6. kernel!FlatSize(shape) = c * d
    BY <1>1, <1>3, <1>4
  <1> QED BY <1>6 DEF shape

LEMMA SizeOfThree ==
    ASSUME NEW b \in Nat \ {0}, NEW c \in Nat \ {0}, NEW d \in Nat \ {0}
    PROVE  kernel!FlatSize(<<b, c, d>>) = b * (c * d)
  <1> DEFINE shape == <<b, c, d>>
  <1>1. /\ Len(shape) = 3 /\ Len(shape) \in Nat
        /\ \A k \in 1 .. Len(shape) : shape[k] \in Nat
    OBVIOUS
  <1>2. shape[1] = b /\ shape[2] = c /\ shape[3] = d
    OBVIOUS
  <1> HIDE DEF shape
  <1>3. PICK size : /\ kernel!FlatSize(shape) = size[Len(shape)]
                    /\ size[0] = 1
                    /\ \A k \in 1 .. Len(shape) : size[k] = size[k - 1] * shape[k]
    BY <1>1, SizeOf
  <1>4. size[1] = 1 * b /\ size[2] = size[1] * c /\ size[3] = size[2] * d
    BY <1>1, <1>2, <1>3
  <1>5. (b * c) * d = b * (c * d)
    BY SMT
  <1>6. kernel!FlatSize(shape) = b * (c * d)
    BY <1>1, <1>3, <1>4, <1>5
  <1> QED BY <1>6 DEF shape

LEMMA SizeOfFour ==
    ASSUME NEW a \in Nat \ {0}, NEW b \in Nat \ {0}, NEW c \in Nat \ {0},
           NEW d \in Nat \ {0}
    PROVE  kernel!FlatSize(<<a, b, c, d>>) = a * (b * (c * d))
  <1> DEFINE shape == <<a, b, c, d>>
  <1>1. /\ Len(shape) = 4 /\ Len(shape) \in Nat
        /\ \A k \in 1 .. Len(shape) : shape[k] \in Nat
    OBVIOUS
  <1>2. shape[1] = a /\ shape[2] = b /\ shape[3] = c /\ shape[4] = d
    OBVIOUS
  <1> HIDE DEF shape
  <1>3. PICK size : /\ kernel!FlatSize(shape) = size[Len(shape)]
                    /\ size[0] = 1
                    /\ \A k \in 1 .. Len(shape) : size[k] = size[k - 1] * shape[k]
    BY <1>1, SizeOf
  <1>4. size[1] = 1 * a /\ size[2] = size[1] * b /\ size[3] = size[2] * c
        /\ size[4] = size[3] * d
    BY <1>1, <1>2, <1>3
  <1>5. ((a * b) * c) * d = a * (b * (c * d))
    BY SMT
  <1>6. kernel!FlatSize(shape) = a * (b * (c * d))
    BY <1>1, <1>3, <1>4, <1>5
  <1> QED BY <1>6 DEF shape

\* The dimensions behind each of four.
LEMMA Tails ==
    ASSUME NEW a, NEW b, NEW c, NEW d
    PROVE  /\ SubSeq(<<a, b, c, d>>, 2, 4) = <<b, c, d>>
           /\ SubSeq(<<a, b, c, d>>, 3, 4) = <<c, d>>
           /\ SubSeq(<<a, b, c, d>>, 4, 4) = <<d>>
           /\ SubSeq(<<a, b, c, d>>, 5, 4) = <<>>
  <1>1. SubSeq(<<a, b, c, d>>, 2, 4) = <<b, c, d>>
    <2>1. SubSeq(<<a, b, c, d>>, 2, 4) = [i \in 1 .. 3 |-> <<a, b, c, d>>[i + 1]]
      OBVIOUS
    <2>2. [i \in 1 .. 3 |-> <<a, b, c, d>>[i + 1]] = <<b, c, d>>
      OBVIOUS
    <2> QED BY <2>1, <2>2
  <1>2. SubSeq(<<a, b, c, d>>, 3, 4) = <<c, d>>
    <2>1. SubSeq(<<a, b, c, d>>, 3, 4) = [i \in 1 .. 2 |-> <<a, b, c, d>>[i + 2]]
      OBVIOUS
    <2>2. [i \in 1 .. 2 |-> <<a, b, c, d>>[i + 2]] = <<c, d>>
      OBVIOUS
    <2> QED BY <2>1, <2>2
  <1>3. SubSeq(<<a, b, c, d>>, 4, 4) = <<d>>
    <2>1. SubSeq(<<a, b, c, d>>, 4, 4) = [i \in 1 .. 1 |-> <<a, b, c, d>>[i + 3]]
      OBVIOUS
    <2>2. [i \in 1 .. 1 |-> <<a, b, c, d>>[i + 3]] = <<d>>
      OBVIOUS
    <2> QED BY <2>1, <2>2
  <1>4. SubSeq(<<a, b, c, d>>, 5, 4) = <<>>
    OBVIOUS
  <1> QED BY <1>1, <1>2, <1>3, <1>4

\* An element of four coordinates is where its offset says.
LEMMA CoordinatesOfOffset ==
    ASSUME NEW a \in Nat \ {0}, NEW b \in Nat \ {0}, NEW c \in Nat \ {0}, NEW d \in Nat \ {0},
           NEW i \in 0 .. a - 1, NEW j \in 0 .. b - 1, NEW k \in 0 .. c - 1, NEW l \in 0 .. d - 1
    PROVE  /\ kernel!Offset(<<a, b, c, d>>, i, j, k, l) \in 0 .. a * (b * (c * d)) - 1
           /\ kernel!Coordinates(<<a, b, c, d>>, kernel!Offset(<<a, b, c, d>>, i, j, k, l)) =
                  <<i, j, k, l>>
  <1>0. a \in Nat \ {0} /\ b \in Nat \ {0} /\ c \in Nat \ {0} /\ d \in Nat \ {0}
    OBVIOUS
  <1> DEFINE u == i * b + j
             v == u * c + k
             n == v * d + l
  <1>1. kernel!Offset(<<a, b, c, d>>, i, j, k, l) = n
    BY DEF kernel!Offset
  <1>2. u \in 0 .. a * b - 1 /\ u \in Nat /\ u \div b = i /\ u % b = j
    BY TwoDigits, TwoDigitsBelow
  <1> HIDE DEF u
  <1>3. a * b \in Nat \ {0} /\ (a * b) * c \in Nat \ {0} /\ c * d \in Nat \ {0}
    BY SMT
  <1>4. v \in 0 .. (a * b) * c - 1 /\ v \in Nat /\ v \div c = u /\ v % c = k
    BY <1>2, <1>3, TwoDigits, TwoDigitsBelow
  <1> HIDE DEF v
  <1>5. n \in 0 .. ((a * b) * c) * d - 1 /\ n \in Nat /\ n \div d = v /\ n % d = l
    BY <1>3, <1>4, TwoDigits, TwoDigitsBelow
  <1> HIDE DEF n
  <1>6. ((a * b) * c) * d = a * (b * (c * d))
    BY SMT
  <1>7. n \div (c * d) = u
    BY <1>4, <1>5, DividedTwice
  <1>8. n \div (b * (c * d)) = i
    BY <1>2, <1>3, <1>5, <1>7, DividedTwice
  <1>9. i % a = i
    OBVIOUS
  <1>10. n \div 1 = n
    BY <1>5
  <1>11. /\ kernel!FlatSize(<<b, c, d>>) = b * (c * d)
         /\ kernel!FlatSize(<<c, d>>) = c * d
         /\ kernel!FlatSize(<<d>>) = d
         /\ kernel!FlatSize(<<>>) = 1
    BY SizeOfThree, SizeOfTwo, SizeOfOne, SizeOfScalar
  <1>12. kernel!Coordinates(<<a, b, c, d>>, n) = <<i, j, k, l>>
    <2> DEFINE shape == <<a, b, c, d>>
               f == [m \in 1 .. 4 |->
                        (n \div kernel!FlatSize(SubSeq(shape, m + 1, 4))) % shape[m]]
    <2>1. kernel!Coordinates(shape, n) = f
      BY DEF kernel!Coordinates
    <2>2. f = <<f[1], f[2], f[3], f[4]>>
      OBVIOUS
    <2>3. shape[1] = a /\ shape[2] = b /\ shape[3] = c /\ shape[4] = d
      OBVIOUS
    <2>4. /\ SubSeq(shape, 2, 4) = <<b, c, d>>
          /\ SubSeq(shape, 3, 4) = <<c, d>>
          /\ SubSeq(shape, 4, 4) = <<d>>
          /\ SubSeq(shape, 5, 4) = <<>>
      BY Tails
    <2> HIDE DEF shape
    <2>5. /\ f[1] = (n \div kernel!FlatSize(SubSeq(shape, 2, 4))) % a
          /\ f[2] = (n \div kernel!FlatSize(SubSeq(shape, 3, 4))) % b
          /\ f[3] = (n \div kernel!FlatSize(SubSeq(shape, 4, 4))) % c
          /\ f[4] = (n \div kernel!FlatSize(SubSeq(shape, 5, 4))) % d
      BY <2>3
    <2> HIDE DEF f
    <2>6. f[1] = i /\ f[2] = j /\ f[3] = k /\ f[4] = l
      BY <1>2, <1>4, <1>5, <1>7, <1>8, <1>9, <1>10, <1>11, <2>4, <2>5
    <2>7. kernel!Coordinates(shape, n) = <<i, j, k, l>>
      BY <2>1, <2>2, <2>6
    <2> QED BY <2>7 DEF shape
  <1> QED BY <1>1, <1>5, <1>6, <1>12

\* A shape of four dimensions.
FourDimensional(shape) ==
    /\ shape = <<shape[1], shape[2], shape[3], shape[4]>>
    /\ shape[1] \in Nat \ {0} /\ shape[2] \in Nat \ {0}
    /\ shape[3] \in Nat \ {0} /\ shape[4] \in Nat \ {0}

\* Offsets and coordinates in a shape of four dimensions are one to one.
LEMMA PlacesOfFour ==
    ASSUME NEW shape, FourDimensional(shape)
    PROVE  /\ kernel!FlatSize(shape) \in Nat
           /\ \A i \in 0 .. shape[1] - 1, j \in 0 .. shape[2] - 1, k \in 0 .. shape[3] - 1,
                l \in 0 .. shape[4] - 1 :
                /\ kernel!Offset(shape, i, j, k, l) \in 0 .. kernel!FlatSize(shape) - 1
                /\ kernel!Coordinates(shape, kernel!Offset(shape, i, j, k, l)) = <<i, j, k, l>>
           /\ \A n \in 0 .. kernel!FlatSize(shape) - 1 :
                \E i \in 0 .. shape[1] - 1, j \in 0 .. shape[2] - 1, k \in 0 .. shape[3] - 1,
                   l \in 0 .. shape[4] - 1 : kernel!Offset(shape, i, j, k, l) = n
  <1> DEFINE a == shape[1]
             b == shape[2]
             c == shape[3]
             d == shape[4]
  <1>0. /\ a \in Nat \ {0} /\ b \in Nat \ {0} /\ c \in Nat \ {0} /\ d \in Nat \ {0}
        /\ shape = <<a, b, c, d>>
    BY DEF FourDimensional
  <1> HIDE DEF a, b, c, d
  <1>1. kernel!FlatSize(shape) = a * (b * (c * d))
    BY <1>0, SizeOfFour
  <1>2. a * (b * (c * d)) \in Nat
    BY <1>0, SMT
  <1>3. \A i \in 0 .. a - 1, j \in 0 .. b - 1, k \in 0 .. c - 1, l \in 0 .. d - 1 :
           /\ kernel!Offset(shape, i, j, k, l) \in 0 .. kernel!FlatSize(shape) - 1
           /\ kernel!Coordinates(shape, kernel!Offset(shape, i, j, k, l)) = <<i, j, k, l>>
    BY <1>0, <1>1, CoordinatesOfOffset
  <1>4. \A n \in 0 .. kernel!FlatSize(shape) - 1 :
           \E i \in 0 .. a - 1, j \in 0 .. b - 1, k \in 0 .. c - 1, l \in 0 .. d - 1 :
              kernel!Offset(shape, i, j, k, l) = n
    <2> TAKE n \in 0 .. kernel!FlatSize(shape) - 1
    <2> DEFINE B == a * b
               C == B * c
               v == n \div d
               l == n % d
               u == v \div c
               k == v % c
               i == u \div b
               j == u % b
    <2>1. B \in Nat \ {0} /\ C \in Nat \ {0} /\ C * d = a * (b * (c * d)) /\ C * d \in Nat
      BY <1>0, SMT
    <2>2. B = a * b /\ C = B * c
      OBVIOUS
    <2> HIDE DEF B, C
    <2>3. n \in Nat /\ n < C * d
      BY <1>1, <2>1
    <2>4. v \in 0 .. C - 1 /\ l \in 0 .. d - 1 /\ v * d + l = n
      BY <2>1, <2>3, DigitsOf, <1>0
    <2> HIDE DEF v, l
    <2>5. v \in Nat /\ v < B * c
      BY <2>1, <2>2, <2>4
    <2>6. u \in 0 .. B - 1 /\ k \in 0 .. c - 1 /\ u * c + k = v
      BY <2>1, <2>5, DigitsOf, <1>0
    <2> HIDE DEF u, k
    <2>7. u \in Nat /\ u < a * b
      BY <2>1, <2>2, <2>6
    <2>8. i \in 0 .. a - 1 /\ j \in 0 .. b - 1 /\ i * b + j = u
      BY <2>7, DigitsOf, <1>0
    <2> HIDE DEF i, j
    <2>9. kernel!Offset(shape, i, j, k, l) = n
      BY <1>0, <2>4, <2>6, <2>8 DEF kernel!Offset
    <2> QED BY <2>4, <2>6, <2>8, <2>9
  <1>5. kernel!FlatSize(shape) \in Nat
    BY <1>1, <1>2
  <1> QED BY <1>3, <1>4, <1>5 DEF a, b, c, d

-----------------------------------------------------------------------------
(* Counting.                                                               *)

\* The count of the model is that of the library.
LEMMA SameCardinality == \A S : kernel!Cardinality(S) = Cardinality(S)
  BY DEF kernel!Cardinality, Cardinality

\* What takes each element of T once is as much as T.
LEMMA OneToOne ==
    ASSUME NEW S, NEW T, IsFiniteSet(S), NEW f \in [S -> T],
           \A s \in S, t \in S : f[s] = f[t] => s = t,
           \A t \in T : \E s \in S : f[s] = t
    PROVE  /\ IsFiniteSet(T)
           /\ kernel!Cardinality(S) = kernel!Cardinality(T)
           /\ {f[s] : s \in S} = T
  <1> DEFINE g == [s \in S |-> f[s]]
  <1>1. g \in Injection(S, T)
    BY DEF Injection, IsInjective
  <1>2. g \in Surjection(S, T)
    BY DEF Surjection
  <1>3. ExistsBijection(S, T)
    BY <1>1, <1>2 DEF Bijection, ExistsBijection
  <1>4. IsFiniteSet(T) /\ Cardinality(S) = Cardinality(T)
    BY <1>3, FS_Bijection
  <1> QED BY <1>4, SameCardinality

\* As long as what is taken is finite.
LEMMA OneToOneBelow ==
    ASSUME NEW S, NEW T, IsFiniteSet(T), NEW f \in [S -> T],
           \A s \in S, t \in S : f[s] = f[t] => s = t,
           \A t \in T : \E s \in S : f[s] = t
    PROVE  /\ IsFiniteSet(S)
           /\ kernel!Cardinality(S) = kernel!Cardinality(T)
           /\ {f[s] : s \in S} = T
  <1> DEFINE h == [t \in T |-> CHOOSE s \in S : f[s] = t]
  <1>1. \A t \in T : h[t] \in S /\ f[h[t]] = t
    OBVIOUS
  <1>2. h \in [T -> S]
    BY <1>1
  <1>3. \A s \in S : h[f[s]] = s
    BY <1>1
  <1> HIDE DEF h
  <1>4. h \in Injection(T, S)
    BY <1>1, <1>2 DEF Injection, IsInjective
  <1>5. h \in Surjection(T, S)
    BY <1>2, <1>3 DEF Surjection
  <1>6. ExistsBijection(T, S)
    BY <1>4, <1>5 DEF Bijection, ExistsBijection
  <1>7. IsFiniteSet(S) /\ Cardinality(S) = Cardinality(T)
    BY <1>6, FS_Bijection
  <1> QED BY <1>7, SameCardinality

\* Each of the numbers below `size` is the place of one element.
LEMMA WrittenOnce ==
    ASSUME NEW S, NEW size \in Nat, S = DOMAIN kernel!elements,
           \A i \in S : kernel!elements[i].at \in 0 .. size - 1,
           \A i \in S, j \in S : kernel!elements[i].at = kernel!elements[j].at => i = j,
           \A n \in 0 .. size - 1 : \E i \in S : kernel!elements[i].at = n
    PROVE  kernel!WritesEachOnce(size)
  <1> DEFINE T == 0 .. size - 1
             f == [i \in S |-> kernel!elements[i].at]
  <1>1. IsFiniteSet(T) /\ Cardinality(T) = size
    BY FS_Interval
  <1>2. /\ f \in [S -> T]
        /\ \A i \in S, j \in S : f[i] = f[j] => i = j
        /\ \A n \in T : \E i \in S : f[i] = n
    OBVIOUS
  <1>3. {f[i] : i \in S} = {kernel!elements[i].at : i \in S}
    OBVIOUS
  <1> HIDE DEF f, T
  <1>4. kernel!Cardinality(S) = kernel!Cardinality(T) /\ {f[i] : i \in S} = T
    BY ONLY <1>1, <1>2, OneToOneBelow
  <1>5. kernel!Cardinality(S) = size /\ {kernel!elements[i].at : i \in S} = 0 .. size - 1
    BY <1>1, <1>3, <1>4, SameCardinality DEF T
  <1> QED BY <1>5 DEF kernel!WritesEachOnce, kernel!Below

-----------------------------------------------------------------------------
(* Windows over one dimension.                                             *)

\* What the dimensions of a window are like.
Proper(d) ==
    /\ d.image \in Nat \ {0} /\ d.filter \in Nat \ {0}
    /\ d.stride \in Nat \ {0} /\ d.dilation \in Nat \ {0}
    /\ d.out \in Nat \ {0} /\ d.pad \in Nat

\* The size of the output, and with it the padding, is right: enough windows to
\* take every element as the first of a stride, or as many as fit.
LEMMA PaddingComputed ==
    ASSUME NEW d, d.image \in Nat \ {0}, d.filter \in Nat \ {0}, d.stride \in Nat \ {0},
           d.dilation \in Nat \ {0}, d.padding \in {"same", "valid"},
           LET computed == kernel!ComputePaddingOf(d.padding, d.stride, d.dilation, d.image,
                                                   d.filter)
           IN  d.out = computed.out /\ d.pad = computed.pad,
           d.out >= 1
    PROVE  Proper(d) /\ kernel!PaddingIsBalanced(d)
  <1> DEFINE s == d.stride
             n == d.image
             e == (d.filter - 1) * d.dilation + 1
             q == d.out
             m == (q - 1) * s + e - n
  <1>1. s \in Nat \ {0} /\ n \in Nat \ {0} /\ e \in Nat \ {0}
    <2>1. (d.filter - 1) * d.dilation \in Nat
      BY SMT
    <2> QED BY <2>1
  <1>2. /\ q = IF d.padding = "same" THEN kernel!Quotient(n + s - 1, s)
                                     ELSE kernel!Quotient(n + s - e, s)
        /\ d.pad = kernel!Larger(m, 0) \div 2
    BY DEF kernel!ComputePaddingOf, kernel!ComputeOutSize, kernel!ComputePaddingWithOffset
  <1> HIDE DEF e
  <1>3. \E r \in 0 .. s - 1 :
           /\ q \in Int
           /\ s * q + r = IF d.padding = "same" THEN n + s - 1 ELSE n + s - e
    <2> DEFINE k == IF d.padding = "same" THEN n + s - 1 ELSE n + s - e
    <2>1. k \in Int /\ q = kernel!Quotient(k, s)
      BY <1>1, <1>2
    <2> HIDE DEF k, s
    <2>2. CASE k >= 0
      <3>1. q = k \div s
        BY <2>1, <2>2 DEF kernel!Quotient
      <3>2. q \in Int /\ k % s \in 0 .. s - 1 /\ s * q + (k % s) = k
        BY <1>1, <2>1, <3>1, DivMod
      <3> QED BY <3>2 DEF k
    <2>3. CASE k < 0
      <3>1. q = -((-k) \div s) /\ -k \in Nat
        BY <2>1, <2>3 DEF kernel!Quotient
      <3>2. (-k) \div s \in Nat
        BY <1>1, <3>1
      <3> QED BY <3>1, <3>2
    <2> QED BY <2>1, <2>2, <2>3
  <1>4. PICK r \in 0 .. s - 1 :
           /\ q \in Int
           /\ s * q + r = IF d.padding = "same" THEN n + s - 1 ELSE n + s - e
    BY <1>3
  <1> DEFINE p == s * q
  <1>5. p \in Int /\ q * s = p /\ (q - 1) * s = p - s
    BY <1>1, <1>4, SMT
  <1>6. m = p - s + e - n
    BY <1>5
  <1>7. p + r = IF d.padding = "same" THEN n + s - 1 ELSE n + s - e
    BY <1>4
  <1> HIDE DEF p, m
  <1>8. m \in Int /\ d.pad \in Nat /\ (m <= 0 => d.pad = 0)
        /\ (m > 0 => m - d.pad \in {d.pad, d.pad + 1})
    BY <1>1, <1>2, <1>5, <1>6 DEF kernel!Larger
  <1>9. Proper(d)
    BY <1>1, <1>4, <1>8 DEF Proper
  <1>10. /\ d.padding = "same" => p >= n /\ p - s < n
         /\ d.padding = "valid" => m = -r
    <2> HIDE DEF s, n
    <2>1. CASE d.padding = "same"
      BY <1>1, <1>5, <1>7, <2>1
    <2>2. CASE d.padding = "valid"
      BY <1>1, <1>5, <1>6, <1>7, <2>2
    <2> QED BY <2>1, <2>2
  <1>11. kernel!PaddingIsBalanced(d) =
            IF d.padding = "same"
            THEN /\ p >= n /\ p - s < n
                 /\ IF m <= 0 THEN d.pad = 0 ELSE m - d.pad \in {d.pad, d.pad + 1}
            ELSE d.pad = 0 /\ m <= 0 /\ m > -s
    BY <1>5 DEF kernel!PaddingIsBalanced, m, e
  <1>12. kernel!PaddingIsBalanced(d)
    <2> HIDE DEF s, n
    <2>1. CASE d.padding = "same"
      BY <1>8, <1>10, <1>11, <2>1
    <2>2. CASE d.padding = "valid"
      <3>1. m = -r
        BY <1>10, <2>2
      <3>2. m <= 0 /\ m > -s
        BY <1>1, <3>1
      <3> QED BY <1>8, <1>11, <2>2, <3>2
    <2> QED BY <2>1, <2>2
  <1> QED BY <1>9, <1>12

\* Every dimension the layers are called with is proper, its padding balanced.
LEMMA DimensionsAreProper ==
    ASSUME NEW d \in kernel!Dimensions
    PROVE  Proper(d) /\ kernel!PaddingIsBalanced(d)
  <1>1. PICK image \in Images, filter \in Filters, stride_ \in Strides, dilation \in Dilations,
             padding \in {"same", "valid"} :
           d = [image |-> image, filter |-> filter, stride |-> stride_, dilation |-> dilation,
                padding |-> padding,
                out |-> kernel!ComputePaddingOf(padding, stride_, dilation, image, filter).out,
                pad |-> kernel!ComputePaddingOf(padding, stride_, dilation, image, filter).pad]
    BY DEF kernel!Dimensions
  <1>2. d.out >= 1
    BY DEF kernel!Dimensions
  <1>3. /\ d.image \in Nat \ {0} /\ d.filter \in Nat \ {0} /\ d.stride \in Nat \ {0}
        /\ d.dilation \in Nat \ {0} /\ d.padding \in {"same", "valid"}
    BY <1>1, SizesAssumption DEF kernel!SizesAssumption
  <1>4. LET computed == kernel!ComputePaddingOf(d.padding, d.stride, d.dilation, d.image,
                                                   d.filter)
        IN  d.out = computed.out /\ d.pad = computed.pad
    BY <1>1
  <1> QED BY <1>2, <1>3, <1>4, PaddingComputed

\* Where element f of the filter of the window for o lies in the image.
Under(d, o, f) == o * d.stride - d.pad + d.dilation * f

\* The elements of the filter that are inside the image meet what is under them.
LEMMA MeetingsUnder ==
    ASSUME NEW d, Proper(d), NEW o \in 0 .. d.out - 1
    PROVE  /\ \A f \in 0 .. d.filter - 1 :
                 Under(d, o, f) \in 0 .. d.image - 1 =>
                    <<Under(d, o, f), f>> \in kernel!Meetings(d, o)
           /\ \A m \in kernel!Meetings(d, o) :
                 /\ m[2] \in 0 .. d.filter - 1
                 /\ Under(d, o, m[2]) \in 0 .. d.image - 1
                 /\ m[1] = Under(d, o, m[2])
                 /\ m = <<m[1], m[2]>>
  <1> DEFINE S == o * d.stride
             D(f) == d.dilation * f
  <1>1. S \in Int /\ \A f \in Int : D(f) \in Int
    BY SMT DEF Proper
  <1>2. \A f : f * d.dilation = D(f) \/ f \notin Int
    BY SMT DEF Proper
  <1>3. \A f : Under(d, o, f) = S - d.pad + D(f)
    BY DEF Under
  <1>4. \A m : m \in kernel!Meetings(d, o) <=>
                   /\ m \in (0 .. d.image - 1) \X (0 .. d.filter - 1)
                   /\ m[1] + d.pad = S + m[2] * d.dilation
    BY DEF kernel!Meetings, kernel!Below
  <1> HIDE DEF S, D
  <1>5. \A m : m \in kernel!Meetings(d, o) <=>
                   /\ m \in (0 .. d.image - 1) \X (0 .. d.filter - 1)
                   /\ m[1] = Under(d, o, m[2])
    <2> TAKE m
    <2>1. CASE m \in (0 .. d.image - 1) \X (0 .. d.filter - 1)
      <3>1. m[1] \in Int /\ m[2] \in Int
        BY <2>1 DEF Proper
      <3>2. m[2] * d.dilation = D(m[2]) /\ D(m[2]) \in Int
        BY <1>1, <1>2, <3>1
      <3>3. m[1] + d.pad = S + D(m[2]) <=> m[1] = S - d.pad + D(m[2])
        BY <1>1, <3>1, <3>2 DEF Proper
      <3> QED BY <1>3, <1>4, <2>1, <3>2, <3>3
    <2> QED BY <1>4, <2>1
  <1> QED BY <1>5

\* Finite sets that the loops go over.
LEMMA FiniteRange ==
    ASSUME NEW lowest \in Int, NEW highest \in Int
    PROVE  IsFiniteSet(lowest .. highest)
  BY FS_Interval

LEMMA FiniteTriples ==
    ASSUME NEW A, NEW B, NEW C, IsFiniteSet(A), IsFiniteSet(B), IsFiniteSet(C)
    PROVE  IsFiniteSet(A \X B \X C)
  <1> DEFINE S == A \X B \X C
             T == (A \X B) \X C
             f == [t \in S |-> <<<<t[1], t[2]>>, t[3]>>]
  <1>1. IsFiniteSet(A \X B)
    BY FS_Product
  <1>2. IsFiniteSet(T)
    BY <1>1, FS_Product
  <1>3. \A t \in S : f[t] \in T
    OBVIOUS
  <1>4. \A t \in S, u \in S : f[t] = f[u] => t = u
    OBVIOUS
  <1>5. f \in Injection(S, T)
    BY <1>3, <1>4 DEF Injection, IsInjective
  <1> HIDE DEF S, T, f
  <1>6. IsFiniteSet(S)
    BY <1>2, <1>5, FS_Injection
  <1> QED BY <1>6 DEF S

-----------------------------------------------------------------------------
(* Convolutions.                                                           *)

\* What all kernels with a window are given.
Strided(p, h, w) ==
    /\ p.has_bias = task.has_bias /\ p.depth_multiplier = 2
    /\ p.stride_height = h.stride /\ p.stride_width = w.stride
    /\ p.dilation_height_factor = h.dilation /\ p.dilation_width_factor = w.dilation
    /\ p.pad_height = h.pad /\ p.pad_width = w.pad

\* The products are the expected ones, each once.
Matched(p, products, expected) ==
    /\ kernel!Cardinality(DOMAIN products) = kernel!Cardinality(expected)
    /\ {<<kernel!Coordinates(p.input_shape, products[f].input),
          kernel!Coordinates(p.filter_shape, products[f].filter)>> :
             f \in DOMAIN products} = expected

\* The products of output i: each element of the filter with the one under it.
LEMMA ConvolutionProducts ==
    ASSUME NEW p, NEW h, NEW w, Proper(h), Proper(w),
           NEW batches \in Nat \ {0}, NEW channels \in Nat \ {0}, NEW number \in Nat \ {0},
           p.input_shape = <<batches, h.image, w.image, channels>>,
           p.filter_shape = <<number, h.filter, w.filter, channels>>,
           Strided(p, h, w),
           NEW i \in (0 .. batches - 1) \X (0 .. h.out - 1) \X (0 .. w.out - 1)
                         \X (0 .. number - 1),
           NEW products, products = kernel!ConvProducts(p, i),
           NEW expected,
           expected = {<<<<i[1], m[1][1], m[2][1], m[3]>>, <<i[4], m[1][2], m[2][2], m[3]>>>> :
                          m \in kernel!Meetings(h, i[2]) \X kernel!Meetings(w, i[3])
                                   \X (0 .. channels - 1)}
    PROVE  Matched(p, products, expected)
  <1> DEFINE filter == (0 .. h.filter - 1) \X (0 .. w.filter - 1) \X (0 .. channels - 1)
             Inside(f) == /\ Under(h, i[2], f[1]) \in 0 .. h.image - 1
                          /\ Under(w, i[3], f[2]) \in 0 .. w.image - 1
             S == {f \in filter : Inside(f)}
             pairs == [f \in DOMAIN products |->
                          <<kernel!Coordinates(p.input_shape, products[f].input),
                            kernel!Coordinates(p.filter_shape, products[f].filter)>>]
  <1>1. /\ i[1] \in 0 .. batches - 1 /\ i[2] \in 0 .. h.out - 1
        /\ i[3] \in 0 .. w.out - 1 /\ i[4] \in 0 .. number - 1
    OBVIOUS
  <1>2. /\ h.image \in Nat \ {0} /\ w.image \in Nat \ {0}
        /\ h.filter \in Nat \ {0} /\ w.filter \in Nat \ {0}
    BY DEF Proper
  <1>3. /\ \A f \in 0 .. h.filter - 1 : Under(h, i[2], f) \in Int
        /\ \A f \in 0 .. w.filter - 1 : Under(w, i[3], f) \in Int
    <2>1. \A f \in 0 .. h.filter - 1 : Under(h, i[2], f) \in Int
      BY <1>1, SMT DEF Under, Proper
    <2>2. \A f \in 0 .. w.filter - 1 : Under(w, i[3], f) \in Int
      BY <1>1, SMT DEF Under, Proper
    <2> QED BY <2>1, <2>2
  <1>4. products =
            [f \in S |->
                [input |-> kernel!Offset(p.input_shape, i[1], Under(h, i[2], f[1]),
                                         Under(w, i[3], f[2]), f[3]),
                 filter |-> kernel!Offset(p.filter_shape, i[4], f[1], f[2], f[3])]]
    <2>1. kernel!MatchingDim(p.input_shape, 4, p.filter_shape, 4) = channels
      BY DEF kernel!MatchingDim, kernel!Smaller
    <2>2. p.filter_shape[2] = h.filter /\ p.filter_shape[3] = w.filter
          /\ p.input_shape[2] = h.image /\ p.input_shape[3] = w.image
      OBVIOUS
    <2>3. \A f : /\ i[2] * p.stride_height - p.pad_height + p.dilation_height_factor * f[1]
                        = Under(h, i[2], f[1])
                 /\ i[3] * p.stride_width - p.pad_width + p.dilation_width_factor * f[2]
                        = Under(w, i[3], f[2])
      BY DEF Under, Strided
    <2>4. \A f \in filter :
             Inside(f) <=> /\ Under(w, i[3], f[2]) >= 0 /\ Under(w, i[3], f[2]) < p.input_shape[3]
                           /\ Under(h, i[2], f[1]) >= 0 /\ Under(h, i[2], f[1]) < p.input_shape[2]
      BY <1>2, <1>3, <2>2
    <2> QED BY <2>1, <2>2, <2>3, <2>4 DEF kernel!ConvProducts, kernel!Below
  <1>5. DOMAIN products = S
    BY <1>4
  <1>6. \A f \in S : /\ f = <<f[1], f[2], f[3]>>
                     /\ f[1] \in 0 .. h.filter - 1 /\ Under(h, i[2], f[1]) \in 0 .. h.image - 1
                     /\ f[2] \in 0 .. w.filter - 1 /\ Under(w, i[3], f[2]) \in 0 .. w.image - 1
                     /\ f[3] \in 0 .. channels - 1
    OBVIOUS
  <1>7. \A f : (/\ f = <<f[1], f[2], f[3]>>
                /\ f[1] \in 0 .. h.filter - 1 /\ Under(h, i[2], f[1]) \in 0 .. h.image - 1
                /\ f[2] \in 0 .. w.filter - 1 /\ Under(w, i[3], f[2]) \in 0 .. w.image - 1
                /\ f[3] \in 0 .. channels - 1) => f \in S
    OBVIOUS
  <1>8. \A f \in S : /\ products[f].input = kernel!Offset(p.input_shape, i[1], Under(h, i[2], f[1]),
                                                         Under(w, i[3], f[2]), f[3])
                     /\ products[f].filter = kernel!Offset(p.filter_shape, i[4], f[1], f[2], f[3])
    BY <1>4
  <1>9. IsFiniteSet(S)
    <2>1. IsFiniteSet(filter)
      <3>1. /\ IsFiniteSet(0 .. h.filter - 1) /\ IsFiniteSet(0 .. w.filter - 1)
            /\ IsFiniteSet(0 .. channels - 1)
        <4>1. h.filter - 1 \in Int /\ w.filter - 1 \in Int /\ channels - 1 \in Int
          BY <1>2
        <4> QED BY ONLY <4>1, FiniteRange
      <3> QED BY <3>1, FiniteTriples
    <2>2. S \subseteq filter
      OBVIOUS
    <2> HIDE DEF S, filter
    <2> QED BY <2>1, <2>2, FS_Subset
  <1> HIDE DEF S, filter, Inside
  <1>10. /\ \A a \in 0 .. batches - 1, y_ \in 0 .. h.image - 1, x_ \in 0 .. w.image - 1,
              c \in 0 .. channels - 1 :
                kernel!Coordinates(p.input_shape, kernel!Offset(p.input_shape, a, y_, x_, c)) =
                    <<a, y_, x_, c>>
         /\ \A a \in 0 .. number - 1, y_ \in 0 .. h.filter - 1, x_ \in 0 .. w.filter - 1,
              c \in 0 .. channels - 1 :
                kernel!Coordinates(p.filter_shape, kernel!Offset(p.filter_shape, a, y_, x_, c)) =
                    <<a, y_, x_, c>>
    <2>1. /\ p.input_shape[1] = batches /\ p.input_shape[2] = h.image
          /\ p.input_shape[3] = w.image /\ p.input_shape[4] = channels
          /\ p.filter_shape[1] = number /\ p.filter_shape[2] = h.filter
          /\ p.filter_shape[3] = w.filter /\ p.filter_shape[4] = channels
      OBVIOUS
    <2>2. FourDimensional(p.input_shape) /\ FourDimensional(p.filter_shape)
      BY <1>2 DEF FourDimensional
    <2>3. \A a \in 0 .. batches - 1, y_ \in 0 .. h.image - 1, x_ \in 0 .. w.image - 1,
             c \in 0 .. channels - 1 :
             kernel!Coordinates(p.input_shape, kernel!Offset(p.input_shape, a, y_, x_, c)) =
                 <<a, y_, x_, c>>
      <3> DEFINE shape == p.input_shape
      <3>1. FourDimensional(shape)
        BY <2>2
      <3> HIDE DEF shape
      <3>2. \A a \in 0 .. shape[1] - 1, y_ \in 0 .. shape[2] - 1, x_ \in 0 .. shape[3] - 1,
               c \in 0 .. shape[4] - 1 :
               kernel!Coordinates(shape, kernel!Offset(shape, a, y_, x_, c)) = <<a, y_, x_, c>>
        BY ONLY <3>1, PlacesOfFour
      <3> QED BY ONLY <3>2, <2>1 DEF shape
    <2>4. \A a \in 0 .. number - 1, y_ \in 0 .. h.filter - 1, x_ \in 0 .. w.filter - 1,
             c \in 0 .. channels - 1 :
             kernel!Coordinates(p.filter_shape, kernel!Offset(p.filter_shape, a, y_, x_, c)) =
                 <<a, y_, x_, c>>
      <3> DEFINE shape == p.filter_shape
      <3>1. FourDimensional(shape)
        BY <2>2
      <3> HIDE DEF shape
      <3>2. \A a \in 0 .. shape[1] - 1, y_ \in 0 .. shape[2] - 1, x_ \in 0 .. shape[3] - 1,
               c \in 0 .. shape[4] - 1 :
               kernel!Coordinates(shape, kernel!Offset(shape, a, y_, x_, c)) = <<a, y_, x_, c>>
        BY ONLY <3>1, PlacesOfFour
      <3> QED BY ONLY <3>2, <2>1 DEF shape
    <2> QED BY ONLY <2>3, <2>4
  <1>11. \A f \in S :
            pairs[f] = <<<<i[1], Under(h, i[2], f[1]), Under(w, i[3], f[2]), f[3]>>,
                         <<i[4], f[1], f[2], f[3]>>>>
    BY ONLY <1>1, <1>5, <1>6, <1>8, <1>10
  <1>12. {pairs[f] : f \in S} =
            {<<kernel!Coordinates(p.input_shape, products[f].input),
               kernel!Coordinates(p.filter_shape, products[f].filter)>> : f \in DOMAIN products}
    BY <1>5
  <1> HIDE DEF pairs
  <1>13. \A f \in S, g \in S : pairs[f] = pairs[g] => f = g
    BY ONLY <1>6, <1>11
  <1>14. \A f \in S : pairs[f] \in expected
    <2> TAKE f \in S
    <2> DEFINE m == <<<<Under(h, i[2], f[1]), f[1]>>, <<Under(w, i[3], f[2]), f[2]>>, f[3]>>
    <2>1. m \in kernel!Meetings(h, i[2]) \X kernel!Meetings(w, i[3]) \X (0 .. channels - 1)
      BY <1>1, <1>6, MeetingsUnder
    <2>2. pairs[f] = <<<<i[1], m[1][1], m[2][1], m[3]>>, <<i[4], m[1][2], m[2][2], m[3]>>>>
      BY <1>11
    <2> HIDE DEF m
    <2> QED BY <2>1, <2>2
  <1>15. \A e \in expected : \E f \in S : pairs[f] = e
    <2> TAKE e \in expected
    <2>1. PICK m \in kernel!Meetings(h, i[2]) \X kernel!Meetings(w, i[3]) \X (0 .. channels - 1) :
             e = <<<<i[1], m[1][1], m[2][1], m[3]>>, <<i[4], m[1][2], m[2][2], m[3]>>>>
      OBVIOUS
    <2> DEFINE f == <<m[1][2], m[2][2], m[3]>>
    <2>2. /\ m[1] \in kernel!Meetings(h, i[2]) /\ m[2] \in kernel!Meetings(w, i[3])
          /\ m[3] \in 0 .. channels - 1
      OBVIOUS
    <2>3. /\ m[1][2] \in 0 .. h.filter - 1 /\ m[1][1] = Under(h, i[2], m[1][2])
          /\ m[1][1] \in 0 .. h.image - 1
          /\ m[2][2] \in 0 .. w.filter - 1 /\ m[2][1] = Under(w, i[3], m[2][2])
          /\ m[2][1] \in 0 .. w.image - 1
      BY <1>1, <2>2, MeetingsUnder
    <2>4. f[1] = m[1][2] /\ f[2] = m[2][2] /\ f[3] = m[3] /\ f = <<f[1], f[2], f[3]>>
      OBVIOUS
    <2> HIDE DEF f
    <2>5. f \in S
      BY ONLY <1>7, <2>2, <2>3, <2>4
    <2>6. pairs[f] = e
      BY ONLY <1>11, <2>1, <2>3, <2>4, <2>5
    <2> QED BY <2>5, <2>6
  <1>16. kernel!Cardinality(S) = kernel!Cardinality(expected) /\ {pairs[f] : f \in S} = expected
    <2>1. pairs \in [S -> expected]
      BY <1>14, <1>5 DEF pairs
    <2>2. kernel!Cardinality(S) = kernel!Cardinality(expected)
      BY ONLY <1>9, <1>13, <2>1, <1>15, OneToOne
    <2>3. {pairs[f] : f \in S} = expected
      BY ONLY <1>9, <1>13, <2>1, <1>15, OneToOne
    <2> QED BY ONLY <2>2, <2>3
  <1> QED BY <1>5, <1>12, <1>16 DEF Matched

\* Loops over the four dimensions of the output write every element once.
LEMMA OutputsWritten ==
    ASSUME NEW shape, FourDimensional(shape), NEW S,
           S = (0 .. shape[1] - 1) \X (0 .. shape[2] - 1) \X (0 .. shape[3] - 1)
                  \X (0 .. shape[4] - 1),
           DOMAIN kernel!elements = S,
           \A i \in S : kernel!elements[i].at = kernel!Offset(shape, i[1], i[2], i[3], i[4])
    PROVE  /\ kernel!WritesEachOnce(kernel!FlatSize(shape))
           /\ \A i \in S : kernel!Coordinates(shape, kernel!elements[i].at) =
                               <<i[1], i[2], i[3], i[4]>>
  <1> DEFINE size == kernel!FlatSize(shape)
             Offs(i, j, k, l) == kernel!Offset(shape, i, j, k, l)
             Coords(n) == kernel!Coordinates(shape, n)
             At(i) == kernel!elements[i].at
  <1>1. /\ size \in Nat
        /\ \A i \in 0 .. shape[1] - 1, j \in 0 .. shape[2] - 1, k \in 0 .. shape[3] - 1,
             l \in 0 .. shape[4] - 1 : /\ Offs(i, j, k, l) \in 0 .. size - 1
                                       /\ Coords(Offs(i, j, k, l)) = <<i, j, k, l>>
        /\ \A n \in 0 .. size - 1 :
             \E i \in 0 .. shape[1] - 1, j \in 0 .. shape[2] - 1, k \in 0 .. shape[3] - 1,
                l \in 0 .. shape[4] - 1 : Offs(i, j, k, l) = n
    <2>1. size \in Nat
      BY PlacesOfFour
    <2>2. \A i \in 0 .. shape[1] - 1, j \in 0 .. shape[2] - 1, k \in 0 .. shape[3] - 1,
            l \in 0 .. shape[4] - 1 : /\ Offs(i, j, k, l) \in 0 .. size - 1
                                      /\ Coords(Offs(i, j, k, l)) = <<i, j, k, l>>
      BY PlacesOfFour
    <2>3. \A n \in 0 .. size - 1 :
             \E i \in 0 .. shape[1] - 1, j \in 0 .. shape[2] - 1, k \in 0 .. shape[3] - 1,
                l \in 0 .. shape[4] - 1 : Offs(i, j, k, l) = n
      BY PlacesOfFour
    <2> QED BY <2>1, <2>2, <2>3
  <1>2. \A i \in S : At(i) = Offs(i[1], i[2], i[3], i[4])
    OBVIOUS
  <1>3. /\ \A i \in S : /\ i = <<i[1], i[2], i[3], i[4]>>
                        /\ i[1] \in 0 .. shape[1] - 1 /\ i[2] \in 0 .. shape[2] - 1
                        /\ i[3] \in 0 .. shape[3] - 1 /\ i[4] \in 0 .. shape[4] - 1
        /\ \A i \in 0 .. shape[1] - 1, j \in 0 .. shape[2] - 1, k \in 0 .. shape[3] - 1,
             l \in 0 .. shape[4] - 1 : <<i, j, k, l>> \in S
    OBVIOUS
  <1> HIDE DEF size, Offs, Coords
  <1>4. \A i \in S : At(i) \in 0 .. size - 1 /\ Coords(At(i)) = i
    BY ONLY <1>1, <1>2, <1>3
  <1>5. \A n \in 0 .. size - 1 : \E i \in S : At(i) = n
    <2> TAKE n \in 0 .. size - 1
    <2>1. PICK i \in 0 .. shape[1] - 1, j \in 0 .. shape[2] - 1, k \in 0 .. shape[3] - 1,
               l \in 0 .. shape[4] - 1 : Offs(i, j, k, l) = n
      BY ONLY <1>1
    <2> DEFINE e == <<i, j, k, l>>
    <2>2. e \in S /\ e[1] = i /\ e[2] = j /\ e[3] = k /\ e[4] = l
      BY <1>3
    <2> HIDE DEF e
    <2> QED BY ONLY <1>2, <2>1, <2>2
  <1>6. \A i \in S, j \in S : At(i) = At(j) => i = j
    BY ONLY <1>4
  <1>7. kernel!WritesEachOnce(size)
    BY <1>1, <1>4, <1>5, <1>6, WrittenOnce
  <1>8. \A i \in S : Coords(At(i)) = <<i[1], i[2], i[3], i[4]>>
    BY ONLY <1>3, <1>4
  <1> QED BY <1>7, <1>8 DEF size, Coords

\* What a kernel makes of its products for channel c of batch b.
OffsetsFor(k, b) ==
    IF k \in kernel!Uint8Kernels THEN {"input_offset", "filter_offset"}
    ELSE IF k \in kernel!Int8Kernels THEN {"input_offset"}
    ELSE IF k \in kernel!HybridKernels THEN {<<"input_offset", b>>} ELSE {}
ScaleFor(k, b, c) ==
    IF k \in kernel!HybridKernels THEN kernel!Hybrid(c, b)
    ELSE IF k \in kernel!PerChannelKernels THEN kernel!PerChannel(c)
    ELSE IF k \in kernel!Uint8Kernels THEN kernel!PerTensor ELSE <<>>
ShiftedFor(k) == IF k \in kernel!Int8Kernels \cup kernel!Uint8Kernels THEN TRUE ELSE FALSE
ResultFor(k, products, b, c) ==
    kernel!ScaledResult(products, OffsetsFor(k, b), IF task.has_bias THEN {c} ELSE {},
                        ScaleFor(k, b, c), ShiftedFor(k))

\* A result that is made so has the parameters of its channel and its batch.
LEMMA ResultFits ==
    ASSUME NEW products, NEW b, NEW c, NEW r, r = ResultFor(task.kernel, products, b, c)
    PROVE  r.products = products /\ kernel!ParametersFit(r, b, c)
  <1> DEFINE offsets == OffsetsFor(task.kernel, b)
             bias == IF task.has_bias THEN {c} ELSE {}
             scale == ScaleFor(task.kernel, b, c)
             shifted == ShiftedFor(task.kernel)
  <1>1. r = [products |-> products, offsets |-> offsets, bias |-> bias, scale |-> scale,
             shifted |-> shifted]
    BY DEF ResultFor, kernel!ScaledResult
  <1> HIDE DEF offsets, bias, scale, shifted
  <1>2. /\ r.products = products /\ r.offsets = offsets /\ r.bias = bias /\ r.scale = scale
        /\ r.shifted = shifted
    BY <1>1
  <1> HIDE DEF offsets, bias, scale, shifted
  <1>3. r.bias = IF task.has_bias THEN {c} ELSE {}
    BY <1>2 DEF bias
  <1>4. /\ task.kernel \in kernel!Uint8Kernels =>
               {"input_offset", "filter_offset"} \subseteq r.offsets
        /\ task.kernel \in kernel!Int8Kernels => "input_offset" \in r.offsets
        /\ task.kernel \in kernel!HybridKernels => r.offsets = {<<"input_offset", b>>}
    BY <1>2 DEF offsets, OffsetsFor, kernel!Uint8Kernels, kernel!Int8Kernels, kernel!HybridKernels
  <1>5. /\ task.kernel \in kernel!HybridKernels => r.scale = kernel!Hybrid(c, b)
        /\ task.kernel \in kernel!PerChannelKernels => r.scale = kernel!PerChannel(c)
    BY <1>2 DEF scale, ScaleFor, kernel!HybridKernels, kernel!PerChannelKernels
  <1>6. task.kernel \in kernel!Int8Kernels => r.shifted
    BY <1>2 DEF shifted, ShiftedFor
  <1> QED BY <1>2, <1>3, <1>4, <1>5, <1>6 DEF kernel!ParametersFit

\* The results of the kernels, by what they are quantised to.
FloatFor(p, products, b, c) == kernel!FloatResult(products, kernel!BiasOf(p, c))
Uint8For(p, products, b, c) ==
    kernel!ScaledResult(products, {"input_offset", "filter_offset"}, kernel!BiasOf(p, c),
                        kernel!PerTensor, TRUE)
Int8For(p, products, b, c) ==
    kernel!ScaledResult(products, {"input_offset"}, kernel!BiasOf(p, c), kernel!PerChannel(c), TRUE)
Int16For(p, products, b, c) ==
    kernel!ScaledResult(products, {}, kernel!BiasOf(p, c), kernel!PerChannel(c), FALSE)
HybridFor(p, products, b, c) ==
    kernel!ScaledResult(products, {<<"input_offset", b>>}, kernel!BiasOf(p, c),
                        kernel!Hybrid(c, b), FALSE)

LEMMA ResultsFor ==
    ASSUME NEW p, p.has_bias = task.has_bias, NEW k, NEW products, NEW b, NEW c
    PROVE  /\ k \in {"ConvFloat", "DepthwiseConvFloat", "TransposeConvFloat"} =>
                 ResultFor(k, products, b, c) = FloatFor(p, products, b, c)
           /\ k \in {"ConvUint8", "DepthwiseConvUint8", "TransposeConvUint8"} =>
                 ResultFor(k, products, b, c) = Uint8For(p, products, b, c)
           /\ k \in {"ConvPerChannelInt8", "RunPerChannel", "DepthwiseConvPerChannelInt8",
                      "TransposeConvInt8"} =>
                 ResultFor(k, products, b, c) = Int8For(p, products, b, c)
           /\ k \in {"ConvPerChannelInt16", "DepthwiseConvPerChannelInt16",
                      "TransposeConvInt16"} =>
                 ResultFor(k, products, b, c) = Int16For(p, products, b, c)
           /\ k \in {"HybridConvPerChannel", "DepthwiseConvHybridPerChannel"} =>
                 ResultFor(k, products, b, c) = HybridFor(p, products, b, c)
  <1>0. ResultFor(k, products, b, c) =
           kernel!ScaledResult(products, OffsetsFor(k, b), kernel!BiasOf(p, c), ScaleFor(k, b, c),
                               ShiftedFor(k))
    BY DEF ResultFor, kernel!BiasOf
  <1> USE DEF OffsetsFor, ScaleFor, ShiftedFor, kernel!Uint8Kernels, kernel!Int8Kernels,
              kernel!HybridKernels, kernel!PerChannelKernels
  <1>1. ASSUME k \in {"ConvFloat", "DepthwiseConvFloat", "TransposeConvFloat"}
        PROVE  ResultFor(k, products, b, c) = FloatFor(p, products, b, c)
    <2>1. OffsetsFor(k, b) = {} /\ ScaleFor(k, b, c) = <<>> /\ ShiftedFor(k) = FALSE
      BY <1>1
    <2> QED BY ONLY <1>0, <2>1 DEF FloatFor, kernel!FloatResult, kernel!ScaledResult
  <1>2. ASSUME k \in {"ConvUint8", "DepthwiseConvUint8", "TransposeConvUint8"}
        PROVE  ResultFor(k, products, b, c) = Uint8For(p, products, b, c)
    <2>1. /\ OffsetsFor(k, b) = {"input_offset", "filter_offset"}
          /\ ScaleFor(k, b, c) = kernel!PerTensor
          /\ ShiftedFor(k) = TRUE
      BY <1>2
    <2> QED BY ONLY <1>0, <2>1 DEF Uint8For
  <1>3. ASSUME k \in {"ConvPerChannelInt8", "RunPerChannel", "DepthwiseConvPerChannelInt8",
                    "TransposeConvInt8"}
        PROVE  ResultFor(k, products, b, c) = Int8For(p, products, b, c)
    <2>1. OffsetsFor(k, b) = {"input_offset"} /\ ScaleFor(k, b, c) = kernel!PerChannel(c)
          /\ ShiftedFor(k) = TRUE
      BY <1>3
    <2> QED BY ONLY <1>0, <2>1 DEF Int8For
  <1>4. ASSUME k \in {"ConvPerChannelInt16", "DepthwiseConvPerChannelInt16", "TransposeConvInt16"}
        PROVE  ResultFor(k, products, b, c) = Int16For(p, products, b, c)
    <2>1. OffsetsFor(k, b) = {} /\ ScaleFor(k, b, c) = kernel!PerChannel(c) /\ ShiftedFor(k) = FALSE
      BY <1>4
    <2> QED BY ONLY <1>0, <2>1 DEF Int16For
  <1>5. ASSUME k \in {"HybridConvPerChannel", "DepthwiseConvHybridPerChannel"}
        PROVE  ResultFor(k, products, b, c) = HybridFor(p, products, b, c)
    <2>1. OffsetsFor(k, b) = {<<"input_offset", b>>} /\ ScaleFor(k, b, c) = kernel!Hybrid(c, b)
          /\ ShiftedFor(k) = FALSE
      BY <1>5
    <2> QED BY ONLY <1>0, <2>1 DEF HybridFor
  <1> QED BY <1>1, <1>2, <1>3, <1>4, <1>5

\* Every convolution goes over the output, and makes so each element of it.
LEMMA ConvolutionsComputed ==
    ASSUME NEW p, p.has_bias = task.has_bias, task.kernel \in kernel!ConvKernels,
           NEW loops,
           loops = kernel!Below(kernel!MatchingDim(p.input_shape, 1, p.output_shape, 1))
                      \X kernel!Below(p.output_shape[2]) \X kernel!Below(p.output_shape[3])
                      \X kernel!Below(kernel!MatchingDim(p.filter_shape, 1, p.output_shape, 4)),
           NEW E, E = kernel!Layer(task.kernel, p)
    PROVE  /\ DOMAIN E = loops
           /\ \A i \in loops :
                 /\ E[i].at = kernel!Offset(p.output_shape, i[1], i[2], i[3], i[4])
                 /\ E[i].result = ResultFor(task.kernel, kernel!ConvProducts(p, i), i[1], i[4])
  <1> DEFINE At(i) == kernel!Offset(p.output_shape, i[1], i[2], i[3], i[4])
             Sum(i) == kernel!ConvProducts(p, i)
  <1> SUFFICES /\ DOMAIN E = loops
               /\ \A i \in loops : /\ E[i].at = At(i)
                                   /\ E[i].result = ResultFor(task.kernel, Sum(i), i[1], i[4])
    OBVIOUS
  <1>1. CASE task.kernel = "ConvFloat"
    <2> DEFINE Result(i) == FloatFor(p, Sum(i), i[1], i[4])
    <2>1. \A i : ResultFor(task.kernel, Sum(i), i[1], i[4]) = Result(i)
      <3> HIDE DEF Sum
      <3> QED BY <1>1, ResultsFor
    <2>2. E = kernel!ConvFloat(p)
      BY <1>1 DEF kernel!Layer
    <2>3. E = [i \in loops |-> [at |-> At(i), result |-> Result(i)]]
      BY <2>2 DEF kernel!ConvFloat, kernel!ConvOutputs, FloatFor
    <2> HIDE DEF Sum, At, Result
    <2> QED BY ONLY <2>1, <2>3
  <1>2. CASE task.kernel = "ConvUint8"
    <2> DEFINE Result(i) == Uint8For(p, Sum(i), i[1], i[4])
    <2>1. \A i : ResultFor(task.kernel, Sum(i), i[1], i[4]) = Result(i)
      <3> HIDE DEF Sum
      <3> QED BY <1>2, ResultsFor
    <2>2. E = kernel!ConvUint8(p)
      BY <1>2 DEF kernel!Layer
    <2>3. E = [i \in loops |-> [at |-> At(i), result |-> Result(i)]]
      BY <2>2 DEF kernel!ConvUint8, kernel!ConvOutputs, Uint8For
    <2> HIDE DEF Sum, At, Result
    <2> QED BY ONLY <2>1, <2>3
  <1>3. CASE task.kernel = "HybridConvPerChannel"
    <2> DEFINE Result(i) == HybridFor(p, Sum(i), i[1], i[4])
    <2>1. \A i : ResultFor(task.kernel, Sum(i), i[1], i[4]) = Result(i)
      <3> HIDE DEF Sum
      <3> QED BY <1>3, ResultsFor
    <2>2. E = kernel!HybridConvPerChannel(p)
      BY <1>3 DEF kernel!Layer
    <2>3. E = [i \in loops |-> [at |-> At(i), result |-> Result(i)]]
      BY <2>2 DEF kernel!HybridConvPerChannel, kernel!ConvOutputs, HybridFor
    <2> HIDE DEF Sum, At, Result
    <2> QED BY ONLY <2>1, <2>3
  <1>4. CASE task.kernel = "ConvPerChannelInt8"
    <2> DEFINE Result(i) == Int8For(p, Sum(i), i[1], i[4])
    <2>1. \A i : ResultFor(task.kernel, Sum(i), i[1], i[4]) = Result(i)
      <3> HIDE DEF Sum
      <3> QED BY <1>4, ResultsFor
    <2>2. E = kernel!ConvPerChannelInt8(p)
      BY <1>4 DEF kernel!Layer
    <2>3. E = [i \in loops |-> [at |-> At(i), result |-> Result(i)]]
      BY <2>2 DEF kernel!ConvPerChannelInt8, kernel!ConvOutputs, Int8For
    <2> HIDE DEF Sum, At, Result
    <2> QED BY ONLY <2>1, <2>3
  <1>5. CASE task.kernel = "ConvPerChannelInt16"
    <2> DEFINE Result(i) == Int16For(p, Sum(i), i[1], i[4])
    <2>1. \A i : ResultFor(task.kernel, Sum(i), i[1], i[4]) = Result(i)
      <3> HIDE DEF Sum
      <3> QED BY <1>5, ResultsFor
    <2>2. E = kernel!ConvPerChannelInt16(p)
      BY <1>5 DEF kernel!Layer
    <2>3. E = [i \in loops |-> [at |-> At(i), result |-> Result(i)]]
      BY <2>2 DEF kernel!ConvPerChannelInt16, kernel!ConvOutputs, Int16For
    <2> HIDE DEF Sum, At, Result
    <2> QED BY ONLY <2>1, <2>3
  <1> QED BY <1>1, <1>2, <1>3, <1>4, <1>5 DEF kernel!ConvKernels

-----------------------------------------------------------------------------
(* The calls of the layers.                                                *)

\* What is among the dimensions.
LEMMA DimensionsHave ==
    ASSUME NEW d \in kernel!Dimensions
    PROVE  d.padding \in {"same", "valid"}
  BY DEF kernel!Dimensions

\* The dimension that is not varied is one of them.
LEMMA PlainDimensionIs ==
    ASSUME NEW padding \in {"same", "valid"}
    PROVE  kernel!PlainDimension(padding) \in kernel!Dimensions
  <1> DEFINE computed == kernel!ComputePaddingOf(padding, 1, 1, 3, 2)
             d == [image |-> 3, filter |-> 2, stride |-> 1, dilation |-> 1, padding |-> padding,
                   out |-> computed.out, pad |-> computed.pad]
  <1>1. computed.out >= 1
    <2>1. computed.out = kernel!ComputeOutSize(padding, 3, 2, 1, 1)
      BY DEF kernel!ComputePaddingOf
    <2>2. kernel!ComputeOutSize(padding, 3, 2, 1, 1) >= 1
      BY DEF kernel!ComputeOutSize, kernel!Quotient
    <2> QED BY <2>1, <2>2
  <1>2. 3 \in Images /\ 2 \in Filters /\ 1 \in Strides /\ 1 \in Dilations
    BY SizesAssumption DEF kernel!SizesAssumption
  <1> HIDE DEF computed
  <1>3. d.out >= 1
    BY <1>1
  <1>4. d \in kernel!Dimensions
    BY <1>2, <1>3 DEF kernel!Dimensions, computed
  <1>5. d.image = 3 /\ d.filter = 2 /\ d.stride = 1 /\ d.dilation = 1 /\ d.padding = padding
    OBVIOUS
  <1> HIDE DEF d
  <1> QED BY <1>4, <1>5 DEF kernel!PlainDimension

\* The tasks of layers with a window have two dimensions.
LEMMA WindowTasksAre ==
    ASSUME NEW t \in kernel!WindowTasks
    PROVE  /\ t.height \in kernel!Dimensions /\ t.width \in kernel!Dimensions
           /\ t.has_bias \in BOOLEAN /\ t.kernel \in kernel!WindowKernels
  <1>1. PICK dims \in {<<d, kernel!PlainDimension(d.padding)>> : d \in kernel!Dimensions}
                        \cup {<<kernel!PlainDimension(d.padding), d>> : d \in kernel!Dimensions},
             has_bias \in BOOLEAN, k \in kernel!WindowKernels :
           t = [kernel |-> k, height |-> dims[1], width |-> dims[2], has_bias |-> has_bias]
    BY DEF kernel!WindowTasks
  <1>2. PICK d \in kernel!Dimensions :
           \/ dims = <<d, kernel!PlainDimension(d.padding)>>
           \/ dims = <<kernel!PlainDimension(d.padding), d>>
    OBVIOUS
  <1>3. kernel!PlainDimension(d.padding) \in kernel!Dimensions
    BY DimensionsHave, PlainDimensionIs
  <1>4. dims[1] \in kernel!Dimensions /\ dims[2] \in kernel!Dimensions
    BY <1>2, <1>3
  <1> QED BY <1>1, <1>4

\* The batches of a task.
Batches == IF task.has_bias THEN 2 ELSE 1

\* The shapes a layer with a window is called with.
LEMMA WindowParamsAre ==
    ASSUME NEW h, h = task.height, NEW w, w = task.width, NEW p, p = kernel!WindowParams(task)
    PROVE  /\ task.kernel \in kernel!ConvKernels =>
                 /\ p.input_shape = <<Batches, h.image, w.image, 2>>
                 /\ p.filter_shape = <<3, h.filter, w.filter, 2>>
                 /\ p.output_shape = <<Batches, h.out, w.out, 3>> /\ Strided(p, h, w)
           /\ task.kernel \in kernel!DepthwiseKernels =>
                 /\ p.input_shape = <<Batches, h.image, w.image, 2>>
                 /\ p.filter_shape = <<1, h.filter, w.filter, 4>>
                 /\ p.output_shape = <<Batches, h.out, w.out, 4>> /\ Strided(p, h, w)
           /\ task.kernel \in kernel!TransposeKernels =>
                 /\ p.input_shape = <<Batches, h.out, w.out, 2>>
                 /\ p.filter_shape = <<3, h.filter, w.filter, 2>>
                 /\ p.output_shape = <<Batches, h.image, w.image, 3>> /\ Strided(p, h, w)
           /\ task.kernel \in kernel!PoolKernels =>
                 /\ p.input_shape = <<Batches, h.image, w.image, 2>>
                 /\ p.filter_shape = <<1, h.filter, w.filter, 1>>
                 /\ p.output_shape = <<Batches, h.out, w.out, 2>> /\ Strided(p, h, w)
  <1> DEFINE Given(input_shape, filter_shape, output_shape) ==
                 [input_shape |-> input_shape, filter_shape |-> filter_shape,
                  output_shape |-> output_shape, has_bias |-> task.has_bias,
                  stride_height |-> h.stride, stride_width |-> w.stride,
                  dilation_height_factor |-> h.dilation, dilation_width_factor |-> w.dilation,
                  pad_height |-> h.pad, pad_width |-> w.pad, depth_multiplier |-> 2]
  <1>1. CASE task.kernel \in kernel!ConvKernels
    <2>1. task.kernel \notin kernel!DepthwiseKernels \cup kernel!TransposeKernels
                                 \cup kernel!PoolKernels
      BY <1>1 DEF kernel!ConvKernels, kernel!DepthwiseKernels, kernel!TransposeKernels,
         kernel!PoolKernels, kernel!AverageKernels, kernel!MaximumKernels
    <2>2. p = Given(<<Batches, h.image, w.image, 2>>, <<3, h.filter, w.filter, 2>>,
                    <<Batches, h.out, w.out, 3>>)
      BY <1>1, <2>1 DEF kernel!WindowParams, Batches
    <2> QED BY <1>1, <2>1, <2>2 DEF Strided
  <1>2. CASE task.kernel \in kernel!DepthwiseKernels
    <2>1. task.kernel \notin kernel!ConvKernels \cup kernel!TransposeKernels
                                 \cup kernel!PoolKernels
      BY <1>2 DEF kernel!ConvKernels, kernel!DepthwiseKernels, kernel!TransposeKernels,
         kernel!PoolKernels, kernel!AverageKernels, kernel!MaximumKernels
    <2>2. p = Given(<<Batches, h.image, w.image, 2>>, <<1, h.filter, w.filter, 4>>,
                    <<Batches, h.out, w.out, 4>>)
      BY <1>2, <2>1 DEF kernel!WindowParams, Batches
    <2> QED BY <1>2, <2>1, <2>2 DEF Strided
  <1>3. CASE task.kernel \in kernel!TransposeKernels
    <2>1. task.kernel \notin kernel!ConvKernels \cup kernel!DepthwiseKernels
                                 \cup kernel!PoolKernels
      BY <1>3 DEF kernel!ConvKernels, kernel!DepthwiseKernels, kernel!TransposeKernels,
         kernel!PoolKernels, kernel!AverageKernels, kernel!MaximumKernels
    <2>2. p = Given(<<Batches, h.out, w.out, 2>>, <<3, h.filter, w.filter, 2>>,
                    <<Batches, h.image, w.image, 3>>)
      BY <1>3, <2>1 DEF kernel!WindowParams, Batches
    <2> QED BY <1>3, <2>1, <2>2 DEF Strided
  <1>4. CASE task.kernel \in kernel!PoolKernels
    <2>1. task.kernel \notin kernel!ConvKernels \cup kernel!DepthwiseKernels
                                 \cup kernel!TransposeKernels
      BY <1>4 DEF kernel!ConvKernels, kernel!DepthwiseKernels, kernel!TransposeKernels,
         kernel!PoolKernels, kernel!AverageKernels, kernel!MaximumKernels
    <2>2. p = Given(<<Batches, h.image, w.image, 2>>, <<1, h.filter, w.filter, 1>>,
                    <<Batches, h.out, w.out, 2>>)
      BY <1>4, <2>1 DEF kernel!WindowParams, Batches
    <2> QED BY <1>4, <2>1, <2>2 DEF Strided
  <1> QED BY <1>1, <1>2, <1>3, <1>4

\* The products expected, by the kind of convolution.
LEMMA ExpectedProductsAre ==
    ASSUME NEW h, h = task.height, NEW w, w = task.width, NEW p, p = kernel!WindowParams(task),
           NEW o
    PROVE  /\ task.kernel \in kernel!ConvKernels =>
                 kernel!ExpectedProducts(o) =
                     {<<<<o[1], m[1][1], m[2][1], m[3]>>, <<o[4], m[1][2], m[2][2], m[3]>>>> :
                         m \in kernel!Meetings(h, o[2]) \X kernel!Meetings(w, o[3])
                                  \X kernel!Below(p.input_shape[4])}
           /\ task.kernel \in kernel!DepthwiseKernels =>
                 kernel!ExpectedProducts(o) =
                     {<<<<o[1], m[1][1], m[2][1], o[4] \div p.depth_multiplier>>,
                        <<0, m[1][2], m[2][2], o[4]>>>> :
                         m \in kernel!Meetings(h, o[2]) \X kernel!Meetings(w, o[3])}
           /\ task.kernel \in kernel!TransposeKernels =>
                 kernel!ExpectedProducts(o) =
                     {<<<<o[1], m[1][1], m[2][1], m[3]>>, <<o[4], m[1][2], m[2][2], m[3]>>>> :
                         m \in kernel!TransposedMeetings(h, o[2])
                                  \X kernel!TransposedMeetings(w, o[3])
                                  \X kernel!Below(p.input_shape[4])}
  <1>1. CASE task.kernel \in kernel!ConvKernels
    <2>1. task.kernel \notin kernel!DepthwiseKernels \cup kernel!TransposeKernels
      BY <1>1 DEF kernel!ConvKernels, kernel!DepthwiseKernels, kernel!TransposeKernels
    <2> QED BY <1>1, <2>1 DEF kernel!ExpectedProducts
  <1>2. CASE task.kernel \in kernel!DepthwiseKernels
    <2>1. task.kernel \notin kernel!ConvKernels \cup kernel!TransposeKernels
      BY <1>2 DEF kernel!ConvKernels, kernel!DepthwiseKernels, kernel!TransposeKernels
    <2> QED BY <1>2, <2>1 DEF kernel!ExpectedProducts
  <1>3. CASE task.kernel \in kernel!TransposeKernels
    <2>1. task.kernel \notin kernel!ConvKernels \cup kernel!DepthwiseKernels
      BY <1>3 DEF kernel!ConvKernels, kernel!DepthwiseKernels, kernel!TransposeKernels
    <2> QED BY <1>3, <2>1 DEF kernel!ExpectedProducts
  <1> QED BY <1>1, <1>2, <1>3

\* What WindowedIsRight asks for one round of the loops.
RoundIsRight(p, i, r) ==
    /\ Matched(p, r.products, kernel!ExpectedProducts(i))
    /\ kernel!ParametersFit(r, i[1], i[4])

\* A layer is right when every round of its loops is.
LEMMA RoundsMakeWindowed ==
    ASSUME NEW p, p = kernel!WindowParams(task),
           kernel!WritesEachOnce(kernel!FlatSize(p.output_shape)),
           kernel!PaddingIsBalanced(task.height), kernel!PaddingIsBalanced(task.width),
           \A i \in DOMAIN kernel!elements :
              RoundIsRight(p, kernel!Coordinates(p.output_shape, kernel!elements[i].at),
                           kernel!elements[i].result)
    PROVE  kernel!WindowedIsRight
  BY DEF kernel!WindowedIsRight, RoundIsRight, Matched

\* Convolutions are made of the right elements.
LEMMA ConvolutionsAreRight ==
    ASSUME task.kernel \in kernel!ConvKernels,
           task.height \in kernel!Dimensions, task.width \in kernel!Dimensions,
           kernel!elements = kernel!Layer(task.kernel, kernel!WindowParams(task))
    PROVE  kernel!WindowedIsRight
  <1> DEFINE p == kernel!WindowParams(task)
             h == task.height
             w == task.width
             out == p.output_shape
             E == kernel!elements
             loops == (0 .. Batches - 1) \X (0 .. h.out - 1) \X (0 .. w.out - 1) \X (0 .. 3 - 1)
  <1>1. /\ p.input_shape = <<Batches, h.image, w.image, 2>>
        /\ p.filter_shape = <<3, h.filter, w.filter, 2>>
        /\ out = <<Batches, h.out, w.out, 3>> /\ Strided(p, h, w)
    BY WindowParamsAre
  <1>2. /\ Proper(h) /\ kernel!PaddingIsBalanced(h)
        /\ Proper(w) /\ kernel!PaddingIsBalanced(w)
    BY DimensionsAreProper
  <1>3. p.has_bias = task.has_bias /\ Batches \in Nat \ {0}
    BY <1>1 DEF Strided, Batches
  <1>p. p = kernel!WindowParams(task)
    OBVIOUS
  <1> HIDE DEF p, h, w
  <1>4. loops = kernel!Below(kernel!MatchingDim(p.input_shape, 1, p.output_shape, 1))
                   \X kernel!Below(p.output_shape[2]) \X kernel!Below(p.output_shape[3])
                   \X kernel!Below(kernel!MatchingDim(p.filter_shape, 1, p.output_shape, 4))
    BY <1>1, <1>3 DEF kernel!MatchingDim, kernel!Smaller, kernel!Below
  <1>5. E = kernel!Layer(task.kernel, p)
    BY <1>p
  <1>6. FourDimensional(out) /\ loops = (0 .. out[1] - 1) \X (0 .. out[2] - 1) \X (0 .. out[3] - 1)
                                \X (0 .. out[4] - 1)
    BY <1>1, <1>2, <1>3 DEF FourDimensional, Proper
  <1>l. \A i \in loops : i = <<i[1], i[2], i[3], i[4]>>
    OBVIOUS
  <1> HIDE DEF loops, E
  <1>7. /\ DOMAIN E = loops
        /\ \A i \in loops :
              /\ E[i].at = kernel!Offset(p.output_shape, i[1], i[2], i[3], i[4])
              /\ E[i].result = ResultFor(task.kernel, kernel!ConvProducts(p, i), i[1], i[4])
    <2>1. task.kernel \in kernel!ConvKernels
      OBVIOUS
    <2>2. DOMAIN E = loops
      BY ONLY <1>3, <1>4, <1>5, <2>1, ConvolutionsComputed
    <2>3. \A i \in loops :
              /\ E[i].at = kernel!Offset(p.output_shape, i[1], i[2], i[3], i[4])
              /\ E[i].result = ResultFor(task.kernel, kernel!ConvProducts(p, i), i[1], i[4])
      BY ONLY <1>3, <1>4, <1>5, <2>1, ConvolutionsComputed
    <2> QED BY ONLY <2>2, <2>3
  <1>8. /\ kernel!WritesEachOnce(kernel!FlatSize(out))
        /\ \A i \in loops : kernel!Coordinates(out, E[i].at) = <<i[1], i[2], i[3], i[4]>>
    BY <1>6, <1>7, OutputsWritten DEF E
  <1>9. ASSUME NEW i \in loops PROVE RoundIsRight(p, i, E[i].result)
    <2> DEFINE products == kernel!ConvProducts(p, i)
    <2>1. E[i].result.products = products /\ kernel!ParametersFit(E[i].result, i[1], i[4])
      BY <1>7, ResultFits
    <2> DEFINE expected == kernel!ExpectedProducts(i)
    <2>2. expected =
             {<<<<i[1], m[1][1], m[2][1], m[3]>>, <<i[4], m[1][2], m[2][2], m[3]>>>> :
                 m \in kernel!Meetings(h, i[2]) \X kernel!Meetings(w, i[3]) \X (0 .. 2 - 1)}
      BY <1>1, <1>p, ExpectedProductsAre DEF h, w, kernel!Below
    <2>3. Matched(p, products, expected)
      <3>1. i \in (0 .. Batches - 1) \X (0 .. h.out - 1) \X (0 .. w.out - 1) \X (0 .. 3 - 1)
        BY DEF loops
      <3>2. products = kernel!ConvProducts(p, i)
        OBVIOUS
      <3>3. 2 \in Nat \ {0} /\ 3 \in Nat \ {0}
        OBVIOUS
      <3> HIDE DEF products, expected
      <3> QED BY ONLY <1>1, <1>2, <1>3, <2>2, <3>1, <3>2, <3>3, ConvolutionProducts
    <2> QED BY <2>1, <2>3 DEF RoundIsRight
  <1> QED BY <1>2, <1>7, <1>8, <1>9, <1>l, <1>p, RoundsMakeWindowed DEF E, h, w

-----------------------------------------------------------------------------
(* Depthwise convolutions.                                                 *)

\* Every depthwise convolution goes over its inputs' channels and their multiples.
LEMMA DepthwiseComputed ==
    ASSUME NEW p, p.has_bias = task.has_bias, task.kernel \in kernel!DepthwiseKernels,
           NEW loops,
           loops = kernel!Below(kernel!MatchingDim(p.input_shape, 1, p.output_shape, 1))
                      \X kernel!Below(p.output_shape[2]) \X kernel!Below(p.output_shape[3])
                      \X kernel!Below(p.input_shape[4]) \X kernel!Below(p.depth_multiplier),
           NEW E, E = kernel!Layer(task.kernel, p)
    PROVE  /\ DOMAIN E = loops
           /\ \A i \in loops :
                 /\ E[i].at = kernel!Offset(p.output_shape, i[1], i[2], i[3],
                                            kernel!DepthwiseOutputChannel(p, i))
                 /\ E[i].result = ResultFor(task.kernel, kernel!DepthwiseProducts(p, i), i[1],
                                            kernel!DepthwiseOutputChannel(p, i))
  <1> DEFINE Channel(i) == kernel!DepthwiseOutputChannel(p, i)
             At(i) == kernel!Offset(p.output_shape, i[1], i[2], i[3], Channel(i))
             Sum(i) == kernel!DepthwiseProducts(p, i)
  <1> SUFFICES /\ DOMAIN E = loops
               /\ \A i \in loops :
                     /\ E[i].at = At(i)
                     /\ E[i].result = ResultFor(task.kernel, Sum(i), i[1], Channel(i))
    OBVIOUS
  <1>1. CASE task.kernel = "DepthwiseConvFloat"
    <2> DEFINE Result(i) == FloatFor(p, Sum(i), i[1], Channel(i))
    <2>1. \A i : ResultFor(task.kernel, Sum(i), i[1], Channel(i)) = Result(i)
      <3> HIDE DEF Sum, Channel
      <3> QED BY <1>1, ResultsFor
    <2>2. E = kernel!DepthwiseConvFloat(p)
      BY <1>1 DEF kernel!Layer
    <2>3. E = [i \in loops |-> [at |-> At(i), result |-> Result(i)]]
      BY <2>2 DEF kernel!DepthwiseConvFloat, kernel!DepthwiseOutputs, FloatFor
    <2> HIDE DEF Sum, Channel, At, Result
    <2> QED BY ONLY <2>1, <2>3
  <1>2. CASE task.kernel = "DepthwiseConvUint8"
    <2> DEFINE Result(i) == Uint8For(p, Sum(i), i[1], Channel(i))
    <2>1. \A i : ResultFor(task.kernel, Sum(i), i[1], Channel(i)) = Result(i)
      <3> HIDE DEF Sum, Channel
      <3> QED BY <1>2, ResultsFor
    <2>2. E = kernel!DepthwiseConvUint8(p)
      BY <1>2 DEF kernel!Layer
    <2>3. E = [i \in loops |-> [at |-> At(i), result |-> Result(i)]]
      BY <2>2 DEF kernel!DepthwiseConvUint8, kernel!DepthwiseOutputs, Uint8For
    <2> HIDE DEF Sum, Channel, At, Result
    <2> QED BY ONLY <2>1, <2>3
  <1>3. CASE task.kernel = "RunPerChannel"
    <2> DEFINE Result(i) == Int8For(p, Sum(i), i[1], Channel(i))
    <2>1. \A i : ResultFor(task.kernel, Sum(i), i[1], Channel(i)) = Result(i)
      <3> HIDE DEF Sum, Channel
      <3> QED BY <1>3, ResultsFor
    <2>2. E = kernel!RunPerChannel(p)
      BY <1>3 DEF kernel!Layer
    <2>3. E = [i \in loops |-> [at |-> At(i), result |-> Result(i)]]
      BY <2>2 DEF kernel!RunPerChannel, kernel!DepthwiseOutputs, Int8For
    <2> HIDE DEF Sum, Channel, At, Result
    <2> QED BY ONLY <2>1, <2>3
  <1>4. CASE task.kernel = "DepthwiseConvPerChannelInt8"
    <2> DEFINE Result(i) == Int8For(p, Sum(i), i[1], Channel(i))
    <2>1. \A i : ResultFor(task.kernel, Sum(i), i[1], Channel(i)) = Result(i)
      <3> HIDE DEF Sum, Channel
      <3> QED BY <1>4, ResultsFor
    <2>2. E = kernel!DepthwiseConvPerChannelInt8(p)
      BY <1>4 DEF kernel!Layer
    <2>3. E = [i \in loops |-> [at |-> At(i), result |-> Result(i)]]
      BY <2>2 DEF kernel!DepthwiseConvPerChannelInt8, kernel!DepthwiseOutputs, Int8For
    <2> HIDE DEF Sum, Channel, At, Result
    <2> QED BY ONLY <2>1, <2>3
  <1>5. CASE task.kernel = "DepthwiseConvPerChannelInt16"
    <2> DEFINE Result(i) == Int16For(p, Sum(i), i[1], Channel(i))
    <2>1. \A i : ResultFor(task.kernel, Sum(i), i[1], Channel(i)) = Result(i)
      <3> HIDE DEF Sum, Channel
      <3> QED BY <1>5, ResultsFor
    <2>2. E = kernel!DepthwiseConvPerChannelInt16(p)
      BY <1>5 DEF kernel!Layer
    <2>3. E = [i \in loops |-> [at |-> At(i), result |-> Result(i)]]
      BY <2>2 DEF kernel!DepthwiseConvPerChannelInt16, kernel!DepthwiseOutputs, Int16For
    <2> HIDE DEF Sum, Channel, At, Result
    <2> QED BY ONLY <2>1, <2>3
  <1>6. CASE task.kernel = "DepthwiseConvHybridPerChannel"
    <2> DEFINE Result(i) == HybridFor(p, Sum(i), i[1], Channel(i))
    <2>1. \A i : ResultFor(task.kernel, Sum(i), i[1], Channel(i)) = Result(i)
      <3> HIDE DEF Sum, Channel
      <3> QED BY <1>6, ResultsFor
    <2>2. E = kernel!DepthwiseConvHybridPerChannel(p)
      BY <1>6 DEF kernel!Layer
    <2>3. E = [i \in loops |-> [at |-> At(i), result |-> Result(i)]]
      BY <2>2 DEF kernel!DepthwiseConvHybridPerChannel, kernel!DepthwiseOutputs, HybridFor
    <2> HIDE DEF Sum, Channel, At, Result
    <2> QED BY ONLY <2>1, <2>3
  <1> QED BY <1>1, <1>2, <1>3, <1>4, <1>5, <1>6 DEF kernel!DepthwiseKernels

\* A depthwise convolution multiplies what lies under its window.
LEMMA DepthwiseProductsMatch ==
    ASSUME NEW p, NEW h, NEW w, Proper(h), Proper(w),
           NEW batches \in Nat \ {0}, NEW channels \in Nat \ {0}, NEW number \in Nat \ {0},
           p.input_shape = <<batches, h.image, w.image, channels>>,
           p.filter_shape = <<1, h.filter, w.filter, number>>,
           Strided(p, h, w),
           NEW i, i[1] \in 0 .. batches - 1, i[2] \in 0 .. h.out - 1, i[3] \in 0 .. w.out - 1,
           i[4] \in 0 .. channels - 1,
           NEW oc \in 0 .. number - 1, oc = kernel!DepthwiseOutputChannel(p, i),
           NEW products, products = kernel!DepthwiseProducts(p, i),
           NEW expected,
           expected = {<<<<i[1], m[1][1], m[2][1], i[4]>>, <<0, m[1][2], m[2][2], oc>>>> :
                          m \in kernel!Meetings(h, i[2]) \X kernel!Meetings(w, i[3])}
    PROVE  Matched(p, products, expected)
  <1> DEFINE filter == (0 .. h.filter - 1) \X (0 .. w.filter - 1)
             Inside(f) == /\ Under(h, i[2], f[1]) \in 0 .. h.image - 1
                          /\ Under(w, i[3], f[2]) \in 0 .. w.image - 1
             S == {f \in filter : Inside(f)}
             pairs == [f \in DOMAIN products |->
                          <<kernel!Coordinates(p.input_shape, products[f].input),
                            kernel!Coordinates(p.filter_shape, products[f].filter)>>]
  <1>1. /\ i[1] \in 0 .. batches - 1 /\ i[2] \in 0 .. h.out - 1
        /\ i[3] \in 0 .. w.out - 1 /\ i[4] \in 0 .. channels - 1
    OBVIOUS
  <1>2. /\ h.image \in Nat \ {0} /\ w.image \in Nat \ {0}
        /\ h.filter \in Nat \ {0} /\ w.filter \in Nat \ {0}
    BY DEF Proper
  <1>3. /\ \A f \in 0 .. h.filter - 1 : Under(h, i[2], f) \in Int
        /\ \A f \in 0 .. w.filter - 1 : Under(w, i[3], f) \in Int
    <2>1. \A f \in 0 .. h.filter - 1 : Under(h, i[2], f) \in Int
      BY <1>1, SMT DEF Under, Proper
    <2>2. \A f \in 0 .. w.filter - 1 : Under(w, i[3], f) \in Int
      BY <1>1, SMT DEF Under, Proper
    <2> QED BY <2>1, <2>2
  <1>4. products =
            [f \in S |->
                [input |-> kernel!Offset(p.input_shape, i[1], Under(h, i[2], f[1]),
                                         Under(w, i[3], f[2]), i[4]),
                 filter |-> kernel!Offset(p.filter_shape, 0, f[1], f[2], oc)]]
    <2>1. kernel!DepthwiseOutputChannel(p, i) = oc
      OBVIOUS
    <2>2. p.filter_shape[2] = h.filter /\ p.filter_shape[3] = w.filter
          /\ p.input_shape[2] = h.image /\ p.input_shape[3] = w.image
      OBVIOUS
    <2>3. \A f : /\ i[2] * p.stride_height - p.pad_height + p.dilation_height_factor * f[1]
                        = Under(h, i[2], f[1])
                 /\ i[3] * p.stride_width - p.pad_width + p.dilation_width_factor * f[2]
                        = Under(w, i[3], f[2])
      BY DEF Under, Strided
    <2>4. \A f \in filter :
             Inside(f) <=> /\ Under(w, i[3], f[2]) >= 0 /\ Under(w, i[3], f[2]) < p.input_shape[3]
                           /\ Under(h, i[2], f[1]) >= 0 /\ Under(h, i[2], f[1]) < p.input_shape[2]
      BY <1>2, <1>3, <2>2
    <2> QED BY <2>1, <2>2, <2>3, <2>4 DEF kernel!DepthwiseProducts, kernel!Below
  <1>5. DOMAIN products = S
    BY <1>4
  <1>6. \A f \in S : /\ f = <<f[1], f[2]>>
                     /\ f[1] \in 0 .. h.filter - 1 /\ Under(h, i[2], f[1]) \in 0 .. h.image - 1
                     /\ f[2] \in 0 .. w.filter - 1 /\ Under(w, i[3], f[2]) \in 0 .. w.image - 1
    OBVIOUS
  <1>7. \A f : (/\ f = <<f[1], f[2]>>
                /\ f[1] \in 0 .. h.filter - 1 /\ Under(h, i[2], f[1]) \in 0 .. h.image - 1
                /\ f[2] \in 0 .. w.filter - 1 /\ Under(w, i[3], f[2]) \in 0 .. w.image - 1)
              => f \in S
    OBVIOUS
  <1>8. \A f \in S : /\ products[f].input = kernel!Offset(p.input_shape, i[1], Under(h, i[2], f[1]),
                                                         Under(w, i[3], f[2]), i[4])
                     /\ products[f].filter = kernel!Offset(p.filter_shape, 0, f[1], f[2], oc)
    BY <1>4
  <1>9. IsFiniteSet(S)
    <2>1. IsFiniteSet(filter)
      <3>1. /\ IsFiniteSet(0 .. h.filter - 1) /\ IsFiniteSet(0 .. w.filter - 1)
        <4>1. h.filter - 1 \in Int /\ w.filter - 1 \in Int
          BY <1>2
        <4> QED BY ONLY <4>1, FiniteRange
      <3> QED BY <3>1, FS_Product
    <2>2. S \subseteq filter
      OBVIOUS
    <2> HIDE DEF S, filter
    <2> QED BY <2>1, <2>2, FS_Subset
  <1> HIDE DEF S, filter, Inside
  <1>10. /\ \A a \in 0 .. batches - 1, y_ \in 0 .. h.image - 1, x_ \in 0 .. w.image - 1,
              c \in 0 .. channels - 1 :
                kernel!Coordinates(p.input_shape, kernel!Offset(p.input_shape, a, y_, x_, c)) =
                    <<a, y_, x_, c>>
         /\ \A a \in 0 .. 1 - 1, y_ \in 0 .. h.filter - 1, x_ \in 0 .. w.filter - 1,
              c \in 0 .. number - 1 :
                kernel!Coordinates(p.filter_shape, kernel!Offset(p.filter_shape, a, y_, x_, c)) =
                    <<a, y_, x_, c>>
    <2>1. /\ p.input_shape[1] = batches /\ p.input_shape[2] = h.image
          /\ p.input_shape[3] = w.image /\ p.input_shape[4] = channels
          /\ p.filter_shape[1] = 1 /\ p.filter_shape[2] = h.filter
          /\ p.filter_shape[3] = w.filter /\ p.filter_shape[4] = number
      OBVIOUS
    <2>2. FourDimensional(p.input_shape) /\ FourDimensional(p.filter_shape)
      BY <1>2 DEF FourDimensional
    <2>3. \A a \in 0 .. batches - 1, y_ \in 0 .. h.image - 1, x_ \in 0 .. w.image - 1,
             c \in 0 .. channels - 1 :
             kernel!Coordinates(p.input_shape, kernel!Offset(p.input_shape, a, y_, x_, c)) =
                 <<a, y_, x_, c>>
      <3> DEFINE shape == p.input_shape
      <3>1. FourDimensional(shape)
        BY <2>2
      <3> HIDE DEF shape
      <3>2. \A a \in 0 .. shape[1] - 1, y_ \in 0 .. shape[2] - 1, x_ \in 0 .. shape[3] - 1,
               c \in 0 .. shape[4] - 1 :
               kernel!Coordinates(shape, kernel!Offset(shape, a, y_, x_, c)) = <<a, y_, x_, c>>
        BY ONLY <3>1, PlacesOfFour
      <3> QED BY ONLY <3>2, <2>1 DEF shape
    <2>4. \A a \in 0 .. 1 - 1, y_ \in 0 .. h.filter - 1, x_ \in 0 .. w.filter - 1,
             c \in 0 .. number - 1 :
             kernel!Coordinates(p.filter_shape, kernel!Offset(p.filter_shape, a, y_, x_, c)) =
                 <<a, y_, x_, c>>
      <3> DEFINE shape == p.filter_shape
      <3>1. FourDimensional(shape)
        BY <2>2
      <3> HIDE DEF shape
      <3>2. \A a \in 0 .. shape[1] - 1, y_ \in 0 .. shape[2] - 1, x_ \in 0 .. shape[3] - 1,
               c \in 0 .. shape[4] - 1 :
               kernel!Coordinates(shape, kernel!Offset(shape, a, y_, x_, c)) = <<a, y_, x_, c>>
        BY ONLY <3>1, PlacesOfFour
      <3> QED BY ONLY <3>2, <2>1 DEF shape
    <2> QED BY ONLY <2>3, <2>4
  <1>11. \A f \in S :
            pairs[f] = <<<<i[1], Under(h, i[2], f[1]), Under(w, i[3], f[2]), i[4]>>,
                         <<0, f[1], f[2], oc>>>>
    <2>1. oc \in 0 .. number - 1 /\ 0 \in 0 .. 1 - 1
      OBVIOUS
    <2> QED BY ONLY <1>1, <1>5, <1>6, <1>8, <1>10, <2>1
  <1>12. {pairs[f] : f \in S} =
            {<<kernel!Coordinates(p.input_shape, products[f].input),
               kernel!Coordinates(p.filter_shape, products[f].filter)>> : f \in DOMAIN products}
    BY <1>5
  <1> HIDE DEF pairs
  <1>13. \A f \in S, g \in S : pairs[f] = pairs[g] => f = g
    BY ONLY <1>6, <1>11
  <1>14. \A f \in S : pairs[f] \in expected
    <2> TAKE f \in S
    <2> DEFINE m == <<<<Under(h, i[2], f[1]), f[1]>>, <<Under(w, i[3], f[2]), f[2]>>>>
    <2>1. m \in kernel!Meetings(h, i[2]) \X kernel!Meetings(w, i[3])
      BY <1>1, <1>6, MeetingsUnder
    <2>2. pairs[f] = <<<<i[1], m[1][1], m[2][1], i[4]>>, <<0, m[1][2], m[2][2], oc>>>>
      BY <1>11
    <2> HIDE DEF m
    <2> QED BY <2>1, <2>2
  <1>15. \A e \in expected : \E f \in S : pairs[f] = e
    <2> TAKE e \in expected
    <2>1. PICK m \in kernel!Meetings(h, i[2]) \X kernel!Meetings(w, i[3]) :
             e = <<<<i[1], m[1][1], m[2][1], i[4]>>, <<0, m[1][2], m[2][2], oc>>>>
      OBVIOUS
    <2> DEFINE f == <<m[1][2], m[2][2]>>
    <2>2. m[1] \in kernel!Meetings(h, i[2]) /\ m[2] \in kernel!Meetings(w, i[3])
      OBVIOUS
    <2>3. /\ m[1][2] \in 0 .. h.filter - 1 /\ m[1][1] = Under(h, i[2], m[1][2])
          /\ m[1][1] \in 0 .. h.image - 1
          /\ m[2][2] \in 0 .. w.filter - 1 /\ m[2][1] = Under(w, i[3], m[2][2])
          /\ m[2][1] \in 0 .. w.image - 1
      BY <1>1, <2>2, MeetingsUnder
    <2>4. f[1] = m[1][2] /\ f[2] = m[2][2] /\ f = <<f[1], f[2]>>
      OBVIOUS
    <2> HIDE DEF f
    <2>5. f \in S
      BY ONLY <1>7, <2>2, <2>3, <2>4
    <2>6. pairs[f] = e
      BY ONLY <1>11, <2>1, <2>3, <2>4, <2>5
    <2> QED BY <2>5, <2>6
  <1>16. kernel!Cardinality(S) = kernel!Cardinality(expected) /\ {pairs[f] : f \in S} = expected
    <2>1. pairs \in [S -> expected]
      BY <1>14, <1>5 DEF pairs
    <2>2. kernel!Cardinality(S) = kernel!Cardinality(expected)
      BY ONLY <1>9, <1>13, <2>1, <1>15, OneToOne
    <2>3. {pairs[f] : f \in S} = expected
      BY ONLY <1>9, <1>13, <2>1, <1>15, OneToOne
    <2> QED BY ONLY <2>2, <2>3
  <1> QED BY <1>5, <1>12, <1>16 DEF Matched

\* The same of loops S that have one round for each element: round i that for g[i].
Placed(g, S, shape) ==
    LET Q == (0 .. shape[1] - 1) \X (0 .. shape[2] - 1) \X (0 .. shape[3] - 1)
                \X (0 .. shape[4] - 1)
    IN  /\ g \in [S -> Q]
        /\ \A i \in S, j \in S : g[i] = g[j] => i = j
        /\ \A q \in Q : \E i \in S : g[i] = q
        /\ DOMAIN kernel!elements = S
        /\ \A i \in S : kernel!elements[i].at =
                            kernel!Offset(shape, g[i][1], g[i][2], g[i][3], g[i][4])

\* Elements placed one to one are written once each, and are where they are placed.
LEMMA OutputsWrittenBy ==
    ASSUME NEW shape, FourDimensional(shape), NEW S, NEW g, Placed(g, S, shape)
    PROVE  /\ kernel!WritesEachOnce(kernel!FlatSize(shape))
           /\ \A i \in S : kernel!Coordinates(shape, kernel!elements[i].at) = g[i]
  <1> DEFINE size == kernel!FlatSize(shape)
             Offs(i, j, k, l) == kernel!Offset(shape, i, j, k, l)
             Coords(n) == kernel!Coordinates(shape, n)
             At(i) == kernel!elements[i].at
             Q == (0 .. shape[1] - 1) \X (0 .. shape[2] - 1) \X (0 .. shape[3] - 1)
                     \X (0 .. shape[4] - 1)
  <1>0. /\ g \in [S -> Q]
        /\ \A i \in S, j \in S : g[i] = g[j] => i = j
        /\ \A q \in Q : \E i \in S : g[i] = q
        /\ DOMAIN kernel!elements = S
        /\ \A i \in S : At(i) = Offs(g[i][1], g[i][2], g[i][3], g[i][4])
    BY DEF Placed
  <1>1. /\ size \in Nat
        /\ \A i \in 0 .. shape[1] - 1, j \in 0 .. shape[2] - 1, k \in 0 .. shape[3] - 1,
             l \in 0 .. shape[4] - 1 : /\ Offs(i, j, k, l) \in 0 .. size - 1
                                       /\ Coords(Offs(i, j, k, l)) = <<i, j, k, l>>
        /\ \A n \in 0 .. size - 1 :
             \E i \in 0 .. shape[1] - 1, j \in 0 .. shape[2] - 1, k \in 0 .. shape[3] - 1,
                l \in 0 .. shape[4] - 1 : Offs(i, j, k, l) = n
    <2>1. size \in Nat
      BY PlacesOfFour
    <2>2. \A i \in 0 .. shape[1] - 1, j \in 0 .. shape[2] - 1, k \in 0 .. shape[3] - 1,
            l \in 0 .. shape[4] - 1 : /\ Offs(i, j, k, l) \in 0 .. size - 1
                                      /\ Coords(Offs(i, j, k, l)) = <<i, j, k, l>>
      BY PlacesOfFour
    <2>3. \A n \in 0 .. size - 1 :
             \E i \in 0 .. shape[1] - 1, j \in 0 .. shape[2] - 1, k \in 0 .. shape[3] - 1,
                l \in 0 .. shape[4] - 1 : Offs(i, j, k, l) = n
      BY PlacesOfFour
    <2> QED BY <2>1, <2>2, <2>3
  <1>3. /\ \A q \in Q : /\ q = <<q[1], q[2], q[3], q[4]>>
                        /\ q[1] \in 0 .. shape[1] - 1 /\ q[2] \in 0 .. shape[2] - 1
                        /\ q[3] \in 0 .. shape[3] - 1 /\ q[4] \in 0 .. shape[4] - 1
        /\ \A i \in 0 .. shape[1] - 1, j \in 0 .. shape[2] - 1, k \in 0 .. shape[3] - 1,
             l \in 0 .. shape[4] - 1 : <<i, j, k, l>> \in Q
    OBVIOUS
  <1> HIDE DEF size, Offs, Coords, At, Q
  <1>4. \A i \in S : At(i) \in 0 .. size - 1 /\ Coords(At(i)) = g[i]
    <2> TAKE i \in S
    <2> DEFINE q == g[i]
    <2>1. q \in Q /\ At(i) = Offs(q[1], q[2], q[3], q[4])
      BY <1>0
    <2> HIDE DEF q
    <2>2. /\ q = <<q[1], q[2], q[3], q[4]>>
          /\ q[1] \in 0 .. shape[1] - 1 /\ q[2] \in 0 .. shape[2] - 1
          /\ q[3] \in 0 .. shape[3] - 1 /\ q[4] \in 0 .. shape[4] - 1
      BY ONLY <1>3, <2>1
    <2>3. At(i) \in 0 .. size - 1
      BY ONLY <1>1, <2>1, <2>2
    <2>4. Coords(At(i)) = q
      BY ONLY <1>1, <2>1, <2>2
    <2> QED BY <2>3, <2>4 DEF q
  <1>5. \A n \in 0 .. size - 1 : \E i \in S : At(i) = n
    <2> TAKE n \in 0 .. size - 1
    <2>1. PICK i \in 0 .. shape[1] - 1, j \in 0 .. shape[2] - 1, k \in 0 .. shape[3] - 1,
               l \in 0 .. shape[4] - 1 : Offs(i, j, k, l) = n
      BY ONLY <1>1
    <2> DEFINE e == <<i, j, k, l>>
    <2>2. e \in Q /\ e[1] = i /\ e[2] = j /\ e[3] = k /\ e[4] = l
      BY <1>3
    <2> HIDE DEF e
    <2>3. PICK t \in S : g[t] = e
      BY <1>0, <2>2
    <2> QED BY ONLY <1>0, <2>1, <2>2, <2>3
  <1>6. \A i \in S, j \in S : At(i) = At(j) => i = j
    BY <1>0, <1>4
  <1>7. kernel!WritesEachOnce(size)
    BY <1>0, <1>1, <1>4, <1>5, <1>6, WrittenOnce DEF At
  <1> QED BY <1>4, <1>7 DEF size, Coords, At

\* Depthwise convolutions are made of the right elements.
LEMMA DepthwiseAreRight ==
    ASSUME task.kernel \in kernel!DepthwiseKernels,
           task.height \in kernel!Dimensions, task.width \in kernel!Dimensions,
           kernel!elements = kernel!Layer(task.kernel, kernel!WindowParams(task))
    PROVE  kernel!WindowedIsRight
  <1> DEFINE p == kernel!WindowParams(task)
             h == task.height
             w == task.width
             out == p.output_shape
             E == kernel!elements
             loops == (0 .. Batches - 1) \X (0 .. h.out - 1) \X (0 .. w.out - 1) \X (0 .. 2 - 1)
                         \X (0 .. 2 - 1)
             Q == (0 .. out[1] - 1) \X (0 .. out[2] - 1) \X (0 .. out[3] - 1) \X (0 .. out[4] - 1)
             oc(i) == kernel!DepthwiseOutputChannel(p, i)
             g == [i \in loops |-> <<i[1], i[2], i[3], oc(i)>>]
  <1>1. /\ p.input_shape = <<Batches, h.image, w.image, 2>>
        /\ p.filter_shape = <<1, h.filter, w.filter, 4>>
        /\ out = <<Batches, h.out, w.out, 4>> /\ Strided(p, h, w)
    BY WindowParamsAre
  <1>2. /\ Proper(h) /\ kernel!PaddingIsBalanced(h)
        /\ Proper(w) /\ kernel!PaddingIsBalanced(w)
    BY DimensionsAreProper
  <1>3. p.has_bias = task.has_bias /\ Batches \in Nat \ {0} /\ p.depth_multiplier = 2
    BY <1>1 DEF Strided, Batches
  <1>p. p = kernel!WindowParams(task)
    OBVIOUS
  <1> HIDE DEF p, h, w
  <1>4. loops = kernel!Below(kernel!MatchingDim(p.input_shape, 1, p.output_shape, 1))
                   \X kernel!Below(p.output_shape[2]) \X kernel!Below(p.output_shape[3])
                   \X kernel!Below(p.input_shape[4]) \X kernel!Below(p.depth_multiplier)
    BY <1>1, <1>3 DEF kernel!MatchingDim, kernel!Smaller, kernel!Below
  <1>5. E = kernel!Layer(task.kernel, p)
    BY <1>p
  <1>6. FourDimensional(out)
    BY <1>1, <1>2, <1>3 DEF FourDimensional, Proper
  <1>l. /\ \A i \in loops : /\ i = <<i[1], i[2], i[3], i[4], i[5]>>
                            /\ i[1] \in 0 .. Batches - 1 /\ i[2] \in 0 .. h.out - 1
                            /\ i[3] \in 0 .. w.out - 1 /\ i[4] \in 0 .. 2 - 1 /\ i[5] \in 0 .. 2 - 1
        /\ \A a \in 0 .. Batches - 1, b \in 0 .. h.out - 1, c \in 0 .. w.out - 1,
             d \in 0 .. 2 - 1, e \in 0 .. 2 - 1 : <<a, b, c, d, e>> \in loops
    OBVIOUS
  <1>q. /\ \A q \in Q : /\ q = <<q[1], q[2], q[3], q[4]>>
                        /\ q[1] \in 0 .. Batches - 1 /\ q[2] \in 0 .. h.out - 1
                        /\ q[3] \in 0 .. w.out - 1 /\ q[4] \in 0 .. 4 - 1
        /\ \A a \in 0 .. Batches - 1, b \in 0 .. h.out - 1, c \in 0 .. w.out - 1,
             d \in 0 .. 4 - 1 : <<a, b, c, d>> \in Q
    BY <1>1
  <1> HIDE DEF loops, E
  <1>o. \A i : oc(i) = i[5] + i[4] * 2
    BY <1>3 DEF kernel!DepthwiseOutputChannel
  <1>7. /\ DOMAIN E = loops
        /\ \A i \in loops :
              /\ E[i].at = kernel!Offset(out, i[1], i[2], i[3], oc(i))
              /\ E[i].result =
                     ResultFor(task.kernel, kernel!DepthwiseProducts(p, i), i[1], oc(i))
    <2>1. task.kernel \in kernel!DepthwiseKernels
      OBVIOUS
    <2>2. DOMAIN E = loops
      BY ONLY <1>3, <1>4, <1>5, <2>1, DepthwiseComputed
    <2>3. \A i \in loops :
              /\ E[i].at = kernel!Offset(p.output_shape, i[1], i[2], i[3], oc(i))
              /\ E[i].result =
                     ResultFor(task.kernel, kernel!DepthwiseProducts(p, i), i[1], oc(i))
      BY ONLY <1>3, <1>4, <1>5, <2>1, DepthwiseComputed
    <2> QED BY ONLY <2>2, <2>3
  <1>g. /\ DOMAIN g = loops
        /\ \A i \in loops : g[i] = <<i[1], i[2], i[3], oc(i)>>
    OBVIOUS
  <1> HIDE DEF g, Q, oc
  <1>8. /\ g \in [loops -> Q]
        /\ \A i \in loops, j \in loops : g[i] = g[j] => i = j
        /\ \A q \in Q : \E i \in loops : g[i] = q
    <2>1. \A i \in loops : g[i] \in Q /\ oc(i) \in 0 .. 4 - 1 /\ oc(i) \div 2 = i[4]
      <3> TAKE i \in loops
      <3>1. oc(i) \in 0 .. 4 - 1 /\ oc(i) \div 2 = i[4]
        BY <1>l, <1>o
      <3>2. /\ i[1] \in 0 .. Batches - 1 /\ i[2] \in 0 .. h.out - 1
            /\ i[3] \in 0 .. w.out - 1
        BY <1>l
      <3>3. <<i[1], i[2], i[3], oc(i)>> \in Q
        BY ONLY <1>q, <3>1, <3>2
      <3> QED BY <1>g, <3>1, <3>3
    <2>2. g \in [loops -> Q]
      BY <1>g, <2>1 DEF g
    <2>3. \A i \in loops, j \in loops : g[i] = g[j] => i = j
      <3> SUFFICES ASSUME NEW i \in loops, NEW j \in loops, g[i] = g[j] PROVE i = j
        OBVIOUS
      <3>1. i[1] = j[1] /\ i[2] = j[2] /\ i[3] = j[3] /\ oc(i) = oc(j)
        BY <1>g
      <3>2. i[4] = j[4] /\ i[5] = j[5]
        BY <1>l, <1>o, <3>1
      <3> QED BY <1>l, <3>1, <3>2
    <2>4. \A q \in Q : \E i \in loops : g[i] = q
      <3> TAKE q \in Q
      <3> DEFINE i == <<q[1], q[2], q[3], q[4] \div 2, q[4] % 2>>
      <3>1. q[4] \div 2 \in 0 .. 2 - 1 /\ q[4] % 2 \in 0 .. 2 - 1
            /\ (q[4] % 2) + (q[4] \div 2) * 2 = q[4]
        BY <1>q
      <3>2. i \in loops /\ i[1] = q[1] /\ i[2] = q[2] /\ i[3] = q[3]
            /\ i[4] = q[4] \div 2 /\ i[5] = q[4] % 2
        BY <1>l, <1>q, <3>1
      <3> HIDE DEF i
      <3>3. oc(i) = q[4]
        BY <1>o, <3>1, <3>2
      <3> QED BY <1>g, <1>q, <3>2, <3>3
    <2> QED BY <2>2, <2>3, <2>4
  <1>9. /\ kernel!WritesEachOnce(kernel!FlatSize(out))
        /\ \A i \in loops : kernel!Coordinates(out, E[i].at) = g[i]
    <2>1. Q = (0 .. out[1] - 1) \X (0 .. out[2] - 1) \X (0 .. out[3] - 1) \X (0 .. out[4] - 1)
      BY DEF Q
    <2>2. \A i \in loops : E[i].at = kernel!Offset(out, g[i][1], g[i][2], g[i][3], g[i][4])
      BY <1>7, <1>g
    <2>3. Placed(g, loops, out)
      BY <1>7, <1>8, <2>1, <2>2 DEF Placed, E
    <2> HIDE DEF out
    <2> QED BY <1>6, <2>3, OutputsWrittenBy DEF E
  <1>10. ASSUME NEW i \in loops PROVE RoundIsRight(p, g[i], E[i].result)
    <2> DEFINE products == kernel!DepthwiseProducts(p, i)
               o == g[i]
               expected == kernel!ExpectedProducts(o)
               c == oc(i)
    <2>1. E[i].result.products = products /\ kernel!ParametersFit(E[i].result, i[1], c)
      BY <1>7, ResultFits
    <2>2. o[1] = i[1] /\ o[2] = i[2] /\ o[3] = i[3] /\ o[4] = c
      BY <1>g
    <2>3. c \in 0 .. 4 - 1 /\ c \div 2 = i[4]
      BY <1>l, <1>o
    <2>4. expected = {<<<<i[1], m[1][1], m[2][1], i[4]>>, <<0, m[1][2], m[2][2], c>>>> :
                         m \in kernel!Meetings(h, i[2]) \X kernel!Meetings(w, i[3])}
      BY <1>1, <1>3, <1>p, <2>2, <2>3, ExpectedProductsAre DEF h, w
    <2>5. c = kernel!DepthwiseOutputChannel(p, i) /\ products = kernel!DepthwiseProducts(p, i)
      BY DEF oc
    <2>6. 2 \in Nat \ {0} /\ 4 \in Nat \ {0}
      OBVIOUS
    <2>7. /\ i[1] \in 0 .. Batches - 1 /\ i[2] \in 0 .. h.out - 1
          /\ i[3] \in 0 .. w.out - 1 /\ i[4] \in 0 .. 2 - 1
      BY <1>l
    <2> HIDE DEF products, expected, o, c
    <2>8. Matched(p, products, expected)
      BY ONLY <1>1, <1>2, <1>3, <2>3, <2>4, <2>5, <2>6, <2>7, DepthwiseProductsMatch
    <2> QED BY <2>1, <2>2, <2>8 DEF RoundIsRight, o, c, expected
  <1> QED BY <1>2, <1>7, <1>9, <1>10, <1>p, RoundsMakeWindowed DEF E, h, w

-----------------------------------------------------------------------------
(* Transposed convolutions.                                                *)

\* What is scattered over the output at `at`.
ScatteredSum(p, at) ==
    LET scattered == kernel!ScatteredProducts(p)
    IN  [i \in {i \in DOMAIN scattered : scattered[i].at = at} |->
            [input |-> scattered[i].input, filter |-> scattered[i].filter]]

\* Every transposed convolution goes over the output after scattering.
LEMMA TransposedComputed ==
    ASSUME NEW p, p.has_bias = task.has_bias, task.kernel \in kernel!TransposeKernels,
           NEW loops,
           loops = kernel!Below(kernel!MatchingDim(p.input_shape, 1, p.output_shape, 1))
                      \X kernel!Below(p.output_shape[2]) \X kernel!Below(p.output_shape[3])
                      \X kernel!Below(kernel!MatchingDim(p.filter_shape, 1, p.output_shape, 4)),
           NEW E, E = kernel!Layer(task.kernel, p)
    PROVE  /\ DOMAIN E = loops
           /\ \A i \in loops :
                 /\ E[i].at = kernel!Offset(p.output_shape, i[1], i[2], i[3], i[4])
                 /\ E[i].result =
                        ResultFor(task.kernel,
                                  ScatteredSum(p, kernel!Offset(p.output_shape, i[1], i[2], i[3],
                                                                i[4])),
                                  i[1], i[4])
  <1> DEFINE At(i) == kernel!Offset(p.output_shape, i[1], i[2], i[3], i[4])
             Sum(i) == ScatteredSum(p, At(i))
  <1> SUFFICES /\ DOMAIN E = loops
               /\ \A i \in loops : /\ E[i].at = At(i)
                                   /\ E[i].result = ResultFor(task.kernel, Sum(i), i[1], i[4])
    OBVIOUS
  <1>1. CASE task.kernel = "TransposeConvFloat"
    <2> DEFINE Result(i) == FloatFor(p, Sum(i), i[1], i[4])
    <2>1. \A i : ResultFor(task.kernel, Sum(i), i[1], i[4]) = Result(i)
      <3> HIDE DEF Sum
      <3> QED BY <1>1, ResultsFor
    <2>2. E = kernel!TransposeConvFloat(p)
      BY <1>1 DEF kernel!Layer
    <2>3. E = [i \in loops |-> [at |-> At(i), result |-> Result(i)]]
      BY <2>2 DEF kernel!TransposeConvFloat, kernel!TransposeOutputs, kernel!ConvOutputs,
         ScatteredSum, FloatFor
    <2> HIDE DEF Sum, At, Result
    <2> QED BY ONLY <2>1, <2>3
  <1>2. CASE task.kernel = "TransposeConvUint8"
    <2> DEFINE Result(i) == Uint8For(p, Sum(i), i[1], i[4])
    <2>1. \A i : ResultFor(task.kernel, Sum(i), i[1], i[4]) = Result(i)
      <3> HIDE DEF Sum
      <3> QED BY <1>2, ResultsFor
    <2>2. E = kernel!TransposeConvUint8(p)
      BY <1>2 DEF kernel!Layer
    <2>3. E = [i \in loops |-> [at |-> At(i), result |-> Result(i)]]
      BY <2>2 DEF kernel!TransposeConvUint8, kernel!TransposeOutputs, kernel!ConvOutputs,
         ScatteredSum, Uint8For
    <2> HIDE DEF Sum, At, Result
    <2> QED BY ONLY <2>1, <2>3
  <1>3. CASE task.kernel = "TransposeConvInt8"
    <2> DEFINE Result(i) == Int8For(p, Sum(i), i[1], i[4])
    <2>1. \A i : ResultFor(task.kernel, Sum(i), i[1], i[4]) = Result(i)
      <3> HIDE DEF Sum
      <3> QED BY <1>3, ResultsFor
    <2>2. E = kernel!TransposeConvInt8(p)
      BY <1>3 DEF kernel!Layer
    <2>3. E = [i \in loops |-> [at |-> At(i), result |-> Result(i)]]
      BY <2>2 DEF kernel!TransposeConvInt8, kernel!TransposeOutputs, kernel!ConvOutputs,
         ScatteredSum, Int8For
    <2> HIDE DEF Sum, At, Result
    <2> QED BY ONLY <2>1, <2>3
  <1>4. CASE task.kernel = "TransposeConvInt16"
    <2> DEFINE Result(i) == Int16For(p, Sum(i), i[1], i[4])
    <2>1. \A i : ResultFor(task.kernel, Sum(i), i[1], i[4]) = Result(i)
      <3> HIDE DEF Sum
      <3> QED BY <1>4, ResultsFor
    <2>2. E = kernel!TransposeConvInt16(p)
      BY <1>4 DEF kernel!Layer
    <2>3. E = [i \in loops |-> [at |-> At(i), result |-> Result(i)]]
      BY <2>2 DEF kernel!TransposeConvInt16, kernel!TransposeOutputs, kernel!ConvOutputs,
         ScatteredSum, Int16For
    <2> HIDE DEF Sum, At, Result
    <2> QED BY ONLY <2>1, <2>3
  <1> QED BY <1>1, <1>2, <1>3, <1>4 DEF kernel!TransposeKernels

\* What the elements of the input that reach o meet of the filter.
LEMMA MeetingsScattered ==
    ASSUME NEW d, Proper(d), NEW o \in 0 .. d.image - 1
    PROVE  /\ \A u \in 0 .. d.out - 1, f \in 0 .. d.filter - 1 :
                 u * d.stride - d.pad + f = o => <<u, f>> \in kernel!TransposedMeetings(d, o)
           /\ \A m \in kernel!TransposedMeetings(d, o) :
                 /\ m[1] \in 0 .. d.out - 1 /\ m[2] \in 0 .. d.filter - 1
                 /\ m[1] * d.stride - d.pad + m[2] = o
                 /\ m = <<m[1], m[2]>>
           /\ IsFiniteSet(kernel!TransposedMeetings(d, o))
           /\ \A u \in 0 .. d.out - 1, f \in 0 .. d.filter - 1 : u * d.stride - d.pad + f \in Int
  <1> DEFINE S(u) == u * d.stride
             T == kernel!TransposedMeetings(d, o)
  <1>1. \A u \in 0 .. d.out - 1 : S(u) \in Int
    BY SMT DEF Proper
  <1>2. \A m : m \in T <=> /\ m \in (0 .. d.out - 1) \X (0 .. d.filter - 1)
                           /\ S(m[1]) + m[2] = o + d.pad
    BY DEF kernel!TransposedMeetings, kernel!Below
  <1>3. IsFiniteSet(T)
    <2>1. d.out - 1 \in Int /\ d.filter - 1 \in Int
      BY DEF Proper
    <2>2. IsFiniteSet(0 .. d.out - 1) /\ IsFiniteSet(0 .. d.filter - 1)
      BY ONLY <2>1, FiniteRange
    <2>3. IsFiniteSet((0 .. d.out - 1) \X (0 .. d.filter - 1))
      BY <2>2, FS_Product
    <2>4. T \subseteq (0 .. d.out - 1) \X (0 .. d.filter - 1)
      BY <1>2
    <2> HIDE DEF T
    <2> QED BY <2>3, <2>4, FS_Subset
  <1>4. \A u \in 0 .. d.out - 1, f \in 0 .. d.filter - 1 :
           S(u) - d.pad + f = o <=> S(u) + f = o + d.pad
    BY <1>1 DEF Proper
  <1>5. \A u \in 0 .. d.out - 1, f \in 0 .. d.filter - 1 : S(u) - d.pad + f \in Int
    BY <1>1 DEF Proper
  <1> HIDE DEF T
  <1>6. \A u \in 0 .. d.out - 1, f \in 0 .. d.filter - 1 : S(u) - d.pad + f = o => <<u, f>> \in T
    BY <1>2, <1>4
  <1>7. \A m \in T : /\ m[1] \in 0 .. d.out - 1 /\ m[2] \in 0 .. d.filter - 1
                     /\ S(m[1]) - d.pad + m[2] = o
                     /\ m = <<m[1], m[2]>>
    <2> TAKE m \in T
    <2>1. m \in (0 .. d.out - 1) \X (0 .. d.filter - 1) /\ S(m[1]) + m[2] = o + d.pad
      BY <1>2
    <2>2. m[1] \in 0 .. d.out - 1 /\ m[2] \in 0 .. d.filter - 1 /\ m = <<m[1], m[2]>>
      BY <2>1
    <2> HIDE DEF S
    <2> QED BY <1>4, <2>1, <2>2
  <1> QED BY <1>3, <1>5, <1>6, <1>7 DEF T

\* The shapes of a transposed convolution, and the products expected of it.
Transposes(p, h, w, batches, channels, number) ==
    /\ p.input_shape = <<batches, h.out, w.out, channels>>
    /\ p.filter_shape = <<number, h.filter, w.filter, channels>>
    /\ p.output_shape = <<batches, h.image, w.image, number>>
    /\ Strided(p, h, w)
\* The products expected of a transposed convolution.
TransposedExpected(h, w, o, channels) ==
    {<<<<o[1], m[1][1], m[2][1], m[3]>>, <<o[4], m[1][2], m[2][2], m[3]>>>> :
        m \in kernel!TransposedMeetings(h, o[2]) \X kernel!TransposedMeetings(w, o[3])
                 \X (0 .. channels - 1)}

\* An output is influenced by the inputs, and by the elements of the filter,
\* that meet there.
LEMMA TransposedProductsMatch ==
    ASSUME NEW p, NEW h, NEW w, Proper(h), Proper(w),
           NEW batches \in Nat \ {0}, NEW channels \in Nat \ {0}, NEW number \in Nat \ {0},
           Transposes(p, h, w, batches, channels, number),
           NEW o, o[1] \in 0 .. batches - 1, o[2] \in 0 .. h.image - 1,
           o[3] \in 0 .. w.image - 1, o[4] \in 0 .. number - 1,
           NEW products,
           products = ScatteredSum(p, kernel!Offset(p.output_shape, o[1], o[2], o[3], o[4])),
           NEW expected, expected = TransposedExpected(h, w, o, channels)
    PROVE  Matched(p, products, expected)
  <1> /\ p.input_shape = <<batches, h.out, w.out, channels>>
      /\ p.filter_shape = <<number, h.filter, w.filter, channels>>
      /\ p.output_shape = <<batches, h.image, w.image, number>>
      /\ Strided(p, h, w)
    BY DEF Transposes
  <1> expected = {<<<<o[1], m[1][1], m[2][1], m[3]>>, <<o[4], m[1][2], m[2][2], m[3]>>>> :
                     m \in kernel!TransposedMeetings(h, o[2])
                              \X kernel!TransposedMeetings(w, o[3]) \X (0 .. channels - 1)}
    BY DEF TransposedExpected
  <1> DEFINE M == kernel!TransposedMeetings(h, o[2])
             N == kernel!TransposedMeetings(w, o[3])
             Y(i) == i[2] * h.stride - h.pad + i[5]
             X(i) == i[3] * w.stride - w.pad + i[6]
             In(a, b, c, d) == kernel!Offset(p.input_shape, a, b, c, d)
             Fi(a, b, c, d) == kernel!Offset(p.filter_shape, a, b, c, d)
             Out(a, b, c, d) == kernel!Offset(p.output_shape, a, b, c, d)
             loops == (0 .. batches - 1) \X (0 .. h.out - 1) \X (0 .. w.out - 1)
                         \X (0 .. channels - 1) \X (0 .. h.filter - 1) \X (0 .. w.filter - 1)
                         \X (0 .. number - 1)
             D == {i \in loops : Y(i) \in 0 .. h.image - 1 /\ X(i) \in 0 .. w.image - 1}
             scattered == [i \in D |-> [at |-> Out(i[1], Y(i), X(i), i[7]),
                                        input |-> In(i[1], i[2], i[3], i[4]),
                                        filter |-> Fi(i[7], i[5], i[6], i[4])]]
             S == {i \in D : Out(i[1], Y(i), X(i), i[7]) = Out(o[1], o[2], o[3], o[4])}
             pairs == [i \in DOMAIN products |->
                          <<kernel!Coordinates(p.input_shape, products[i].input),
                            kernel!Coordinates(p.filter_shape, products[i].filter)>>]
  <1>1. /\ o[1] \in 0 .. batches - 1 /\ o[2] \in 0 .. h.image - 1
        /\ o[3] \in 0 .. w.image - 1 /\ o[4] \in 0 .. number - 1
    OBVIOUS
  <1>2. /\ h.image \in Nat \ {0} /\ w.image \in Nat \ {0} /\ h.out \in Nat \ {0}
        /\ w.out \in Nat \ {0} /\ h.filter \in Nat \ {0} /\ w.filter \in Nat \ {0}
    BY DEF Proper
  <1>3. /\ \A i \in loops :
              /\ i = <<i[1], i[2], i[3], i[4], i[5], i[6], i[7]>>
              /\ i[1] \in 0 .. batches - 1 /\ i[2] \in 0 .. h.out - 1 /\ i[3] \in 0 .. w.out - 1
              /\ i[4] \in 0 .. channels - 1 /\ i[5] \in 0 .. h.filter - 1
              /\ i[6] \in 0 .. w.filter - 1 /\ i[7] \in 0 .. number - 1
        /\ \A a \in 0 .. batches - 1, b \in 0 .. h.out - 1, c \in 0 .. w.out - 1,
             d \in 0 .. channels - 1, e \in 0 .. h.filter - 1, f \in 0 .. w.filter - 1,
             g \in 0 .. number - 1 : <<a, b, c, d, e, f, g>> \in loops
    OBVIOUS
  <1> HIDE DEF loops
  <1>4. \A i \in loops : Y(i) \in Int /\ X(i) \in Int
    <2> TAKE i \in loops
    <2>1. Y(i) \in Int
      BY <1>1, <1>3, MeetingsScattered
    <2>2. X(i) \in Int
      BY <1>1, <1>3, MeetingsScattered
    <2> QED BY <2>1, <2>2
  <1>5. kernel!ScatteredProducts(p) = scattered
    <2>1. /\ kernel!MatchingDim(p.input_shape, 1, p.output_shape, 1) = batches
          /\ kernel!MatchingDim(p.input_shape, 4, p.filter_shape, 4) = channels
          /\ kernel!MatchingDim(p.filter_shape, 1, p.output_shape, 4) = number
      BY DEF kernel!MatchingDim, kernel!Smaller
    <2>2. /\ p.input_shape[2] = h.out /\ p.input_shape[3] = w.out
          /\ p.filter_shape[2] = h.filter /\ p.filter_shape[3] = w.filter
          /\ p.output_shape[2] = h.image /\ p.output_shape[3] = w.image
      OBVIOUS
    <2>3. \A i : /\ i[2] * p.stride_height - p.pad_height + i[5] = Y(i)
                 /\ i[3] * p.stride_width - p.pad_width + i[6] = X(i)
      BY DEF Strided
    <2>4. \A i \in loops :
             (X(i) >= 0 /\ X(i) < p.output_shape[3] /\ Y(i) >= 0 /\ Y(i) < p.output_shape[2])
                <=> (Y(i) \in 0 .. h.image - 1 /\ X(i) \in 0 .. w.image - 1)
      BY <1>2, <1>4, <2>2
    <2> HIDE DEF Y, X
    <2>5. loops = kernel!Below(batches) \X kernel!Below(p.input_shape[2])
                     \X kernel!Below(p.input_shape[3]) \X kernel!Below(channels)
                     \X kernel!Below(p.filter_shape[2]) \X kernel!Below(p.filter_shape[3])
                     \X kernel!Below(number)
      BY <2>2 DEF loops, kernel!Below
    <2>6. D = {i \in loops : /\ X(i) >= 0 /\ X(i) < p.output_shape[3]
                             /\ Y(i) >= 0 /\ Y(i) < p.output_shape[2]}
      BY <2>4
    <2> QED BY ONLY <2>1, <2>3, <2>5, <2>6 DEF kernel!ScatteredProducts, scattered, In, Fi, Out
  <1> HIDE DEF Y, X, In, Fi, Out
  <1>6. products = [i \in S |-> [input |-> In(i[1], i[2], i[3], i[4]),
                                 filter |-> Fi(i[7], i[5], i[6], i[4])]]
    <2>1. /\ DOMAIN scattered = D
          /\ \A i \in D : /\ scattered[i].at = Out(i[1], Y(i), X(i), i[7])
                          /\ scattered[i].input = In(i[1], i[2], i[3], i[4])
                          /\ scattered[i].filter = Fi(i[7], i[5], i[6], i[4])
      OBVIOUS
    <2>2. products =
             [i \in {i \in DOMAIN scattered : scattered[i].at = Out(o[1], o[2], o[3], o[4])} |->
                 [input |-> scattered[i].input, filter |-> scattered[i].filter]]
      BY <1>5 DEF ScatteredSum, Out
    <2> HIDE DEF scattered, D
    <2>3. {i \in DOMAIN scattered : scattered[i].at = Out(o[1], o[2], o[3], o[4])} = S
      BY <2>1
    <2> HIDE DEF S
    <2>4. \A i \in S : i \in D
      BY DEF S
    <2> QED BY <2>1, <2>2, <2>3, <2>4
  <1>7. /\ \A a \in 0 .. batches - 1, b \in 0 .. h.out - 1, c \in 0 .. w.out - 1,
             d \in 0 .. channels - 1 :
             kernel!Coordinates(p.input_shape, In(a, b, c, d)) = <<a, b, c, d>>
        /\ \A a \in 0 .. number - 1, b \in 0 .. h.filter - 1, c \in 0 .. w.filter - 1,
             d \in 0 .. channels - 1 :
             kernel!Coordinates(p.filter_shape, Fi(a, b, c, d)) = <<a, b, c, d>>
        /\ \A a \in 0 .. batches - 1, b \in 0 .. h.image - 1, c \in 0 .. w.image - 1,
             d \in 0 .. number - 1 :
             kernel!Coordinates(p.output_shape, Out(a, b, c, d)) = <<a, b, c, d>>
    <2>1. \A a \in 0 .. batches - 1, b \in 0 .. h.out - 1, c \in 0 .. w.out - 1,
             d \in 0 .. channels - 1 :
             kernel!Coordinates(p.input_shape, In(a, b, c, d)) = <<a, b, c, d>>
      <3> DEFINE shape == p.input_shape
      <3>1. FourDimensional(shape) /\ shape[1] = batches /\ shape[2] = h.out /\ shape[3] = w.out
            /\ shape[4] = channels
        BY <1>2 DEF FourDimensional
      <3> HIDE DEF shape
      <3>2. \A a \in 0 .. shape[1] - 1, b \in 0 .. shape[2] - 1, c \in 0 .. shape[3] - 1,
               d \in 0 .. shape[4] - 1 :
               kernel!Coordinates(shape, kernel!Offset(shape, a, b, c, d)) = <<a, b, c, d>>
        <4>1. FourDimensional(shape)
          BY ONLY <3>1
        <4> QED BY ONLY <4>1, PlacesOfFour
      <3> QED BY ONLY <3>1, <3>2 DEF shape, In
    <2>2. \A a \in 0 .. number - 1, b \in 0 .. h.filter - 1, c \in 0 .. w.filter - 1,
             d \in 0 .. channels - 1 :
             kernel!Coordinates(p.filter_shape, Fi(a, b, c, d)) = <<a, b, c, d>>
      <3> DEFINE shape == p.filter_shape
      <3>1. FourDimensional(shape) /\ shape[1] = number /\ shape[2] = h.filter /\ shape[3] = w.filter
            /\ shape[4] = channels
        BY <1>2 DEF FourDimensional
      <3> HIDE DEF shape
      <3>2. \A a \in 0 .. shape[1] - 1, b \in 0 .. shape[2] - 1, c \in 0 .. shape[3] - 1,
               d \in 0 .. shape[4] - 1 :
               kernel!Coordinates(shape, kernel!Offset(shape, a, b, c, d)) = <<a, b, c, d>>
        <4>1. FourDimensional(shape)
          BY ONLY <3>1
        <4> QED BY ONLY <4>1, PlacesOfFour
      <3> QED BY ONLY <3>1, <3>2 DEF shape, Fi
    <2>3. \A a \in 0 .. batches - 1, b \in 0 .. h.image - 1, c \in 0 .. w.image - 1,
             d \in 0 .. number - 1 :
             kernel!Coordinates(p.output_shape, Out(a, b, c, d)) = <<a, b, c, d>>
      <3> DEFINE shape == p.output_shape
      <3>1. FourDimensional(shape) /\ shape[1] = batches /\ shape[2] = h.image /\ shape[3] = w.image
            /\ shape[4] = number
        BY <1>2 DEF FourDimensional
      <3> HIDE DEF shape
      <3>2. \A a \in 0 .. shape[1] - 1, b \in 0 .. shape[2] - 1, c \in 0 .. shape[3] - 1,
               d \in 0 .. shape[4] - 1 :
               kernel!Coordinates(shape, kernel!Offset(shape, a, b, c, d)) = <<a, b, c, d>>
        <4>1. FourDimensional(shape)
          BY ONLY <3>1
        <4> QED BY ONLY <4>1, PlacesOfFour
      <3> QED BY ONLY <3>1, <3>2 DEF shape, Out
    <2> QED BY ONLY <2>1, <2>2, <2>3
  <1>8. \A i \in S : /\ i \in loops
                     /\ i[1] = o[1] /\ i[7] = o[4]
                     /\ <<i[2], i[5]>> \in M /\ <<i[3], i[6]>> \in N
    <2> TAKE i \in S
    <2>1. /\ i \in loops /\ Y(i) \in 0 .. h.image - 1 /\ X(i) \in 0 .. w.image - 1
          /\ Out(i[1], Y(i), X(i), i[7]) = Out(o[1], o[2], o[3], o[4])
      OBVIOUS
    <2>2. /\ i[1] \in 0 .. batches - 1 /\ i[7] \in 0 .. number - 1
          /\ i[2] \in 0 .. h.out - 1 /\ i[3] \in 0 .. w.out - 1
          /\ i[5] \in 0 .. h.filter - 1 /\ i[6] \in 0 .. w.filter - 1
      BY ONLY <1>3, <2>1
    <2>3. <<i[1], Y(i), X(i), i[7]>> = <<o[1], o[2], o[3], o[4]>>
      BY ONLY <1>1, <1>7, <2>1, <2>2
    <2>4. i[1] = o[1] /\ Y(i) = o[2] /\ X(i) = o[3] /\ i[7] = o[4]
      BY <2>3
    <2>5. <<i[2], i[5]>> \in M
      BY <1>1, <2>2, <2>4, MeetingsScattered DEF Y
    <2>6. <<i[3], i[6]>> \in N
      BY <1>1, <2>2, <2>4, MeetingsScattered DEF X
    <2> QED BY <2>1, <2>4, <2>5, <2>6
  <1>9. /\ \A m \in M : /\ m[1] \in 0 .. h.out - 1 /\ m[2] \in 0 .. h.filter - 1
                        /\ m[1] * h.stride - h.pad + m[2] = o[2] /\ m = <<m[1], m[2]>>
        /\ \A m \in N : /\ m[1] \in 0 .. w.out - 1 /\ m[2] \in 0 .. w.filter - 1
                        /\ m[1] * w.stride - w.pad + m[2] = o[3] /\ m = <<m[1], m[2]>>
        /\ IsFiniteSet(M) /\ IsFiniteSet(N)
    <2>1. \A m \in M : /\ m[1] \in 0 .. h.out - 1 /\ m[2] \in 0 .. h.filter - 1
                       /\ m[1] * h.stride - h.pad + m[2] = o[2] /\ m = <<m[1], m[2]>>
      BY <1>1, MeetingsScattered
    <2>2. \A m \in N : /\ m[1] \in 0 .. w.out - 1 /\ m[2] \in 0 .. w.filter - 1
                       /\ m[1] * w.stride - w.pad + m[2] = o[3] /\ m = <<m[1], m[2]>>
      BY <1>1, MeetingsScattered
    <2>3. IsFiniteSet(M) /\ IsFiniteSet(N)
      BY <1>1, MeetingsScattered
    <2> QED BY <2>1, <2>2, <2>3
  <1> HIDE DEF M, N
  <1>10. \A m \in M, n \in N, c \in 0 .. channels - 1 :
            <<o[1], m[1], n[1], c, m[2], n[2], o[4]>> \in S
    <2> TAKE m \in M, n \in N, c \in 0 .. channels - 1
    <2> DEFINE i == <<o[1], m[1], n[1], c, m[2], n[2], o[4]>>
    <2>1. i \in loops
      BY <1>1, <1>3, <1>9
    <2>2. i[1] = o[1] /\ i[2] = m[1] /\ i[3] = n[1] /\ i[5] = m[2] /\ i[6] = n[2] /\ i[7] = o[4]
      OBVIOUS
    <2> HIDE DEF i
    <2>3. Y(i) = o[2] /\ X(i) = o[3]
      BY <1>9, <2>2 DEF Y, X
    <2>4. i \in S
      BY <1>1, <2>1, <2>2, <2>3
    <2> QED BY <2>4 DEF i
  <1>11. DOMAIN products = S
         /\ \A i \in S : /\ products[i].input = In(i[1], i[2], i[3], i[4])
                         /\ products[i].filter = Fi(i[7], i[5], i[6], i[4])
    <2> HIDE DEF S
    <2> QED BY ONLY <1>6
  <1>12. \A i \in S : pairs[i] = <<<<i[1], i[2], i[3], i[4]>>, <<i[7], i[5], i[6], i[4]>>>>
    <2> TAKE i \in S
    <2>1. /\ i[1] \in 0 .. batches - 1 /\ i[2] \in 0 .. h.out - 1 /\ i[3] \in 0 .. w.out - 1
          /\ i[4] \in 0 .. channels - 1 /\ i[5] \in 0 .. h.filter - 1
          /\ i[6] \in 0 .. w.filter - 1 /\ i[7] \in 0 .. number - 1
      BY ONLY <1>3, <1>8
    <2>2. /\ kernel!Coordinates(p.input_shape, In(i[1], i[2], i[3], i[4])) =
                 <<i[1], i[2], i[3], i[4]>>
          /\ kernel!Coordinates(p.filter_shape, Fi(i[7], i[5], i[6], i[4])) =
                 <<i[7], i[5], i[6], i[4]>>
      BY ONLY <1>7, <2>1
    <2> QED BY <1>11, <2>2
  <1>13. {pairs[i] : i \in S} =
            {<<kernel!Coordinates(p.input_shape, products[f].input),
               kernel!Coordinates(p.filter_shape, products[f].filter)>> : f \in DOMAIN products}
    BY <1>11
  <1> HIDE DEF S, D, scattered
  <1>14. /\ DOMAIN pairs = S
         /\ pairs = [i \in S |-> pairs[i]]
    BY <1>11
  <1> HIDE DEF pairs
  <1>15. \A i \in S, j \in S : pairs[i] = pairs[j] => i = j
    <2> SUFFICES ASSUME NEW i \in S, NEW j \in S, pairs[i] = pairs[j] PROVE i = j
      OBVIOUS
    <2>1. <<<<i[1], i[2], i[3], i[4]>>, <<i[7], i[5], i[6], i[4]>>>> =
             <<<<j[1], j[2], j[3], j[4]>>, <<j[7], j[5], j[6], j[4]>>>>
      BY <1>12
    <2>2. /\ i[1] = j[1] /\ i[2] = j[2] /\ i[3] = j[3] /\ i[4] = j[4]
          /\ i[5] = j[5] /\ i[6] = j[6] /\ i[7] = j[7]
      BY ONLY <2>1
    <2>3. /\ i = <<i[1], i[2], i[3], i[4], i[5], i[6], i[7]>>
          /\ j = <<j[1], j[2], j[3], j[4], j[5], j[6], j[7]>>
      BY ONLY <1>3, <1>8
    <2> QED BY ONLY <2>2, <2>3
  <1> DEFINE T == M \X N \X (0 .. channels - 1)
             e(m) == <<<<o[1], m[1][1], m[2][1], m[3]>>, <<o[4], m[1][2], m[2][2], m[3]>>>>
             fe == [m \in T |-> e(m)]
  <1>16. expected = {e(m) : m \in T}
    BY DEF M, N
  <1>17. \A m \in T : m[1] \in M /\ m[2] \in N /\ m[3] \in 0 .. channels - 1
                      /\ m = <<m[1], m[2], m[3]>>
    OBVIOUS
  <1>18. IsFiniteSet(T)
    <2>1. channels - 1 \in Int
      OBVIOUS
    <2>2. IsFiniteSet(0 .. channels - 1)
      BY ONLY <2>1, FiniteRange
    <2> QED BY <1>9, <2>2, FiniteTriples
  <1>19. IsFiniteSet(expected)
    <2>1. \A m \in T, n \in T : e(m) = e(n) => m = n
      BY <1>9, <1>17
    <2> HIDE DEF T, e
    <2>2. fe \in [T -> expected]
      BY <1>16
    <2>3. \A m \in T, n \in T : fe[m] = fe[n] => m = n
      BY <2>1
    <2>4. \A x_ \in expected : \E m \in T : fe[m] = x_
      BY <1>16
    <2> HIDE DEF fe
    <2> QED BY ONLY <1>18, <2>2, <2>3, <2>4, OneToOne
  <1>20. \A i \in S : pairs[i] \in expected
    <2> TAKE i \in S
    <2> DEFINE m == <<<<i[2], i[5]>>, <<i[3], i[6]>>, i[4]>>
    <2>1. m \in T /\ m[1][1] = i[2] /\ m[1][2] = i[5] /\ m[2][1] = i[3] /\ m[2][2] = i[6]
          /\ m[3] = i[4]
      BY <1>3, <1>8
    <2> HIDE DEF m
    <2>2. pairs[i] = e(m)
      BY <1>8, <1>12, <2>1
    <2> HIDE DEF T, e
    <2> QED BY <1>16, <2>1, <2>2
  <1>21. \A x_ \in expected : \E i \in S : pairs[i] = x_
    <2> TAKE x_ \in expected
    <2>1. PICK m \in T : x_ = e(m)
      BY <1>16
    <2> DEFINE i == <<o[1], m[1][1], m[2][1], m[3], m[1][2], m[2][2], o[4]>>
    <2>2. i \in S
      BY <1>10, <1>17
    <2>3. /\ i[1] = o[1] /\ i[2] = m[1][1] /\ i[3] = m[2][1] /\ i[4] = m[3]
          /\ i[5] = m[1][2] /\ i[6] = m[2][2] /\ i[7] = o[4]
      OBVIOUS
    <2> HIDE DEF i
    <2>4. pairs[i] = e(m)
      BY <1>12, <2>2, <2>3
    <2> QED BY <2>1, <2>2, <2>4
  <1>22. kernel!Cardinality(S) = kernel!Cardinality(expected) /\ {pairs[f] : f \in S} = expected
    <2>1. pairs \in [S -> expected]
      BY ONLY <1>14, <1>20
    <2>2. kernel!Cardinality(S) = kernel!Cardinality(expected)
      BY ONLY <1>19, <1>15, <2>1, <1>21, OneToOneBelow
    <2>3. {pairs[f] : f \in S} = expected
      BY ONLY <1>19, <1>15, <2>1, <1>21, OneToOneBelow
    <2> QED BY ONLY <2>2, <2>3
  <1> QED BY <1>11, <1>13, <1>22 DEF Matched

\* Transposed convolutions are made of the right elements.
LEMMA TransposedAreRight ==
    ASSUME task.kernel \in kernel!TransposeKernels,
           task.height \in kernel!Dimensions, task.width \in kernel!Dimensions,
           kernel!elements = kernel!Layer(task.kernel, kernel!WindowParams(task))
    PROVE  kernel!WindowedIsRight
  <1> DEFINE p == kernel!WindowParams(task)
             h == task.height
             w == task.width
             out == p.output_shape
             E == kernel!elements
             sum(i) == ScatteredSum(p, kernel!Offset(p.output_shape, i[1], i[2], i[3], i[4]))
             loops == (0 .. Batches - 1) \X (0 .. h.image - 1) \X (0 .. w.image - 1)
                         \X (0 .. 3 - 1)
  <1>1. /\ p.input_shape = <<Batches, h.out, w.out, 2>>
        /\ p.filter_shape = <<3, h.filter, w.filter, 2>>
        /\ out = <<Batches, h.image, w.image, 3>> /\ Strided(p, h, w)
    BY WindowParamsAre
  <1>2. /\ Proper(h) /\ kernel!PaddingIsBalanced(h)
        /\ Proper(w) /\ kernel!PaddingIsBalanced(w)
    BY DimensionsAreProper
  <1>3. p.has_bias = task.has_bias /\ Batches \in Nat \ {0}
    BY <1>1 DEF Strided, Batches
  <1>p. p = kernel!WindowParams(task)
    OBVIOUS
  <1> HIDE DEF p, h, w
  <1>4. loops = kernel!Below(kernel!MatchingDim(p.input_shape, 1, p.output_shape, 1))
                   \X kernel!Below(p.output_shape[2]) \X kernel!Below(p.output_shape[3])
                   \X kernel!Below(kernel!MatchingDim(p.filter_shape, 1, p.output_shape, 4))
    BY <1>1, <1>3 DEF kernel!MatchingDim, kernel!Smaller, kernel!Below
  <1>5. E = kernel!Layer(task.kernel, p)
    BY <1>p
  <1>6. FourDimensional(out) /\ loops = (0 .. out[1] - 1) \X (0 .. out[2] - 1) \X (0 .. out[3] - 1)
                                \X (0 .. out[4] - 1)
    BY <1>1, <1>2, <1>3 DEF FourDimensional, Proper
  <1>l. \A i \in loops : i = <<i[1], i[2], i[3], i[4]>>
    OBVIOUS
  <1> HIDE DEF loops, E
  <1>7. /\ DOMAIN E = loops
        /\ \A i \in loops :
              /\ E[i].at = kernel!Offset(p.output_shape, i[1], i[2], i[3], i[4])
              /\ E[i].result = ResultFor(task.kernel, sum(i), i[1], i[4])
    <2>1. task.kernel \in kernel!TransposeKernels
      OBVIOUS
    <2>2. DOMAIN E = loops
      BY ONLY <1>3, <1>4, <1>5, <2>1, TransposedComputed
    <2>3. \A i \in loops :
              /\ E[i].at = kernel!Offset(p.output_shape, i[1], i[2], i[3], i[4])
              /\ E[i].result = ResultFor(task.kernel, sum(i), i[1], i[4])
      BY ONLY <1>3, <1>4, <1>5, <2>1, TransposedComputed
    <2> QED BY ONLY <2>2, <2>3
  <1>8. /\ kernel!WritesEachOnce(kernel!FlatSize(out))
        /\ \A i \in loops : kernel!Coordinates(out, E[i].at) = <<i[1], i[2], i[3], i[4]>>
    BY <1>6, <1>7, OutputsWritten DEF E
  <1>9. ASSUME NEW i \in loops PROVE RoundIsRight(p, i, E[i].result)
    <2> DEFINE products == sum(i)
    <2>1. E[i].result.products = products /\ kernel!ParametersFit(E[i].result, i[1], i[4])
      BY <1>7, ResultFits
    <2> DEFINE expected == kernel!ExpectedProducts(i)
    <2>2. expected =
             {<<<<i[1], m[1][1], m[2][1], m[3]>>, <<i[4], m[1][2], m[2][2], m[3]>>>> :
                 m \in kernel!TransposedMeetings(h, i[2]) \X kernel!TransposedMeetings(w, i[3])
                          \X (0 .. 2 - 1)}
      <3>1. task.kernel \in kernel!TransposeKernels
        OBVIOUS
      <3>2. p.input_shape[4] = 2 /\ kernel!Below(2) = 0 .. 2 - 1
        BY ONLY <1>1 DEF kernel!Below
      <3>3. h = task.height /\ w = task.width
        BY DEF h, w
      <3>4. expected =
               {<<<<i[1], m[1][1], m[2][1], m[3]>>, <<i[4], m[1][2], m[2][2], m[3]>>>> :
                   m \in kernel!TransposedMeetings(h, i[2]) \X kernel!TransposedMeetings(w, i[3])
                            \X kernel!Below(p.input_shape[4])}
        BY ONLY <1>p, <3>1, <3>3, ExpectedProductsAre
      <3> HIDE DEF expected
      <3> QED BY ONLY <3>2, <3>4
    <2>3. Matched(p, products, expected)
      <3>1. /\ i[1] \in 0 .. Batches - 1 /\ i[2] \in 0 .. h.image - 1
            /\ i[3] \in 0 .. w.image - 1 /\ i[4] \in 0 .. 3 - 1
        BY DEF loops
      <3>2. products = ScatteredSum(p, kernel!Offset(p.output_shape, i[1], i[2], i[3], i[4]))
        OBVIOUS
      <3>3. 2 \in Nat \ {0} /\ 3 \in Nat \ {0} /\ Batches \in Nat \ {0}
        BY <1>3
      <3>4. Transposes(p, h, w, Batches, 2, 3)
        BY ONLY <1>1 DEF Transposes
      <3>5. expected = TransposedExpected(h, w, i, 2)
        BY ONLY <2>2 DEF TransposedExpected
      <3>6. Proper(h) /\ Proper(w)
        BY ONLY <1>2
      <3> HIDE DEF products, expected, sum, out
      <3> QED BY ONLY <3>1, <3>2, <3>3, <3>4, <3>5, <3>6, TransposedProductsMatch
    <2> QED BY <2>1, <2>3 DEF RoundIsRight
  <1> QED BY <1>2, <1>7, <1>8, <1>9, <1>l, <1>p, RoundsMakeWindowed DEF E, h, w

-----------------------------------------------------------------------------
(* Pooling.                                                                *)

\* Where the window for output o begins.
Begins(d, o) == o * d.stride - d.pad

\* Cutting the window off at the borders leaves what lies inside the image,
\* and that is not nothing.
LEMMA WindowInside ==
    ASSUME NEW d, Proper(d), d.dilation = 1, kernel!PaddingIsBalanced(d), NEW o \in 0 .. d.out - 1
    PROVE  /\ Begins(d, o) \in Int
           /\ \A f : f \in kernel!Larger(0, -Begins(d, o))
                              .. kernel!Smaller(d.filter, d.image - Begins(d, o)) - 1
                        <=> f \in 0 .. d.filter - 1 /\ Under(d, o, f) \in 0 .. d.image - 1
           /\ \A f \in 0 .. d.filter - 1 : Under(d, o, f) = Begins(d, o) + f
           /\ \E f \in 0 .. d.filter - 1 : Under(d, o, f) \in 0 .. d.image - 1
  <1> DEFINE S == o * d.stride
             L == (d.out - 1) * d.stride
             b == Begins(d, o)
             n == d.image
             k == d.filter
             m == L + k - n
  <1>1. /\ n \in Nat \ {0} /\ k \in Nat \ {0} /\ d.stride \in Nat \ {0} /\ d.out \in Nat \ {0}
        /\ d.pad \in Nat
    BY DEF Proper
  <1>2. S \in Nat /\ L \in Nat /\ S <= L
    BY <1>1, SMT
  <1>3. b = S - d.pad
    BY DEF Begins
  <1>4. /\ d.padding = "same" =>
               /\ L < n
               /\ IF m <= 0 THEN d.pad = 0 ELSE m - d.pad \in {d.pad, d.pad + 1}
        /\ d.padding # "same" => d.pad = 0 /\ m <= 0
    <2>1. (k - 1) * d.dilation + 1 = k
      BY <1>1
    <2>2. (d.out - 1) * d.stride + ((k - 1) * d.dilation + 1) - n = m
      BY <2>1
    <2> QED BY <2>2 DEF kernel!PaddingIsBalanced
  <1>5. \A f \in 0 .. k - 1 : Under(d, o, f) = b + f
    BY <1>1, <1>2 DEF Under, Begins
  <1> HIDE DEF S, L, b, n, k
  <1>6. b \in Int
    BY <1>1, <1>2, <1>3
  <1>7. \A f : f \in kernel!Larger(0, -b) .. kernel!Smaller(k, n - b) - 1
                   <=> f \in 0 .. k - 1 /\ b + f \in 0 .. n - 1
    BY <1>1, <1>6 DEF kernel!Larger, kernel!Smaller
  <1>8. \E f \in 0 .. k - 1 : b + f \in 0 .. n - 1
    <2>1. m = L + k - n
      OBVIOUS
    <2> HIDE DEF m
    <2>2. CASE b >= 0
      <3>1. b < n
        BY <1>1, <1>2, <1>3, <1>4, <2>1
      <3>2. 0 \in 0 .. k - 1 /\ b + 0 \in 0 .. n - 1
        BY <1>1, <1>6, <2>2, <3>1
      <3> QED BY <3>2
    <2>3. CASE b < 0
      <3>1. d.pad <= k - 1
        BY <1>1, <1>2, <1>4, <2>1
      <3>2. -b \in 0 .. k - 1 /\ b + (-b) \in 0 .. n - 1
        BY <1>1, <1>2, <1>3, <1>6, <2>3, <3>1
      <3> QED BY <3>2
    <2> QED BY <1>6, <2>2, <2>3
  <1>9. \A f \in 0 .. k - 1 : Under(d, o, f) \in 0 .. n - 1 <=> b + f \in 0 .. n - 1
    BY ONLY <1>5
  <1>10. \A f : f \in kernel!Larger(0, -b) .. kernel!Smaller(k, n - b) - 1
                    <=> f \in 0 .. k - 1 /\ Under(d, o, f) \in 0 .. n - 1
    BY ONLY <1>7, <1>9
  <1>11. \E f \in 0 .. k - 1 : Under(d, o, f) \in 0 .. n - 1
    BY ONLY <1>8, <1>9
  <1> QED BY <1>5, <1>6, <1>10, <1>11 DEF b, n, k

\* The window goes over the expected elements, each once, and some are.
Covered(p, window, expected) ==
    /\ expected # {}
    /\ kernel!Cardinality(expected) \in Nat \ {0}
    /\ kernel!Cardinality(DOMAIN window) = kernel!Cardinality(expected)
    /\ {kernel!Coordinates(p.input_shape, window[f]) : f \in DOMAIN window} = expected

\* The shapes pooling is given, and the elements it should go over.
Pools(p, h, w, batches, channels) ==
    /\ p.input_shape = <<batches, h.image, w.image, channels>>
    /\ p.filter_shape[2] = h.filter /\ p.filter_shape[3] = w.filter
    /\ Strided(p, h, w)
\* The elements expected under a window.
PoolExpected(h, w, i) ==
    {<<i[1], m[1][1], m[2][1], i[4]>> :
        m \in kernel!Meetings(h, i[2]) \X kernel!Meetings(w, i[3])}

\* The loops over a window go over all that is inside the image, and some is.
LEMMA WindowCovered ==
    ASSUME NEW p, NEW h, NEW w, Proper(h), Proper(w), h.dilation = 1, w.dilation = 1,
           kernel!PaddingIsBalanced(h), kernel!PaddingIsBalanced(w),
           NEW batches \in Nat \ {0}, NEW channels \in Nat \ {0}, Pools(p, h, w, batches, channels),
           NEW i, i[1] \in 0 .. batches - 1, i[2] \in 0 .. h.out - 1, i[3] \in 0 .. w.out - 1,
           i[4] \in 0 .. channels - 1,
           NEW window, window = kernel!WindowElements(p, i),
           NEW expected, expected = PoolExpected(h, w, i)
    PROVE  Covered(p, window, expected)
  <1> DEFINE R == kernel!Larger(0, -Begins(h, i[2]))
                     .. kernel!Smaller(h.filter, h.image - Begins(h, i[2])) - 1
             C == kernel!Larger(0, -Begins(w, i[3]))
                     .. kernel!Smaller(w.filter, w.image - Begins(w, i[3])) - 1
             S == R \X C
             places == [f \in DOMAIN window |-> kernel!Coordinates(p.input_shape, window[f])]
  <1>1. /\ i[1] \in 0 .. batches - 1 /\ i[2] \in 0 .. h.out - 1
        /\ i[3] \in 0 .. w.out - 1 /\ i[4] \in 0 .. channels - 1
    OBVIOUS
  <1>2. /\ h.image \in Nat \ {0} /\ w.image \in Nat \ {0}
        /\ h.filter \in Nat \ {0} /\ w.filter \in Nat \ {0}
    BY DEF Proper
  <1>3. /\ p.input_shape = <<batches, h.image, w.image, channels>>
        /\ p.filter_shape[2] = h.filter /\ p.filter_shape[3] = w.filter
        /\ Strided(p, h, w)
    BY DEF Pools
  <1>4. /\ \A f : f \in R <=> f \in 0 .. h.filter - 1 /\ Under(h, i[2], f) \in 0 .. h.image - 1
        /\ \A f \in 0 .. h.filter - 1 : Under(h, i[2], f) = Begins(h, i[2]) + f
        /\ \E f \in 0 .. h.filter - 1 : Under(h, i[2], f) \in 0 .. h.image - 1
        /\ Begins(h, i[2]) \in Int
    BY <1>1, WindowInside
  <1>5. /\ \A f : f \in C <=> f \in 0 .. w.filter - 1 /\ Under(w, i[3], f) \in 0 .. w.image - 1
        /\ \A f \in 0 .. w.filter - 1 : Under(w, i[3], f) = Begins(w, i[3]) + f
        /\ \E f \in 0 .. w.filter - 1 : Under(w, i[3], f) \in 0 .. w.image - 1
        /\ Begins(w, i[3]) \in Int
    BY <1>1, WindowInside
  <1>6. window = [f \in S |-> kernel!Offset(p.input_shape, i[1], Begins(h, i[2]) + f[1],
                                            Begins(w, i[3]) + f[2], i[4])]
    <2>1. /\ p.filter_shape[2] = h.filter /\ p.filter_shape[3] = w.filter
          /\ p.input_shape[2] = h.image /\ p.input_shape[3] = w.image
      BY <1>3
    <2>2. /\ i[2] * p.stride_height - p.pad_height = Begins(h, i[2])
          /\ i[3] * p.stride_width - p.pad_width = Begins(w, i[3])
      BY <1>3 DEF Begins, Strided
    <2>3. window = kernel!WindowElements(p, i)
      OBVIOUS
    <2> QED BY ONLY <2>1, <2>2, <2>3 DEF kernel!WindowElements, S, R, C
  <1> HIDE DEF R, C
  <1>7. DOMAIN window = S
    BY <1>6
  <1>8. \A f : f \in S <=> /\ f = <<f[1], f[2]>>
                           /\ f[1] \in 0 .. h.filter - 1
                           /\ Under(h, i[2], f[1]) \in 0 .. h.image - 1
                           /\ f[2] \in 0 .. w.filter - 1
                           /\ Under(w, i[3], f[2]) \in 0 .. w.image - 1
    <2>1. \A f : f \in S <=> f = <<f[1], f[2]>> /\ f[1] \in R /\ f[2] \in C
      OBVIOUS
    <2> HIDE DEF S
    <2> QED BY ONLY <1>4, <1>5, <2>1
  <1>9. \A f \in S : window[f] = kernel!Offset(p.input_shape, i[1], Under(h, i[2], f[1]),
                                               Under(w, i[3], f[2]), i[4])
    <2> TAKE f \in S
    <2>1. window[f] = kernel!Offset(p.input_shape, i[1], Begins(h, i[2]) + f[1],
                                    Begins(w, i[3]) + f[2], i[4])
      BY <1>6
    <2>2. /\ Under(h, i[2], f[1]) = Begins(h, i[2]) + f[1]
          /\ Under(w, i[3], f[2]) = Begins(w, i[3]) + f[2]
      BY <1>4, <1>5, <1>8
    <2> QED BY ONLY <2>1, <2>2
  <1>10. IsFiniteSet(S)
    <2>1. IsFiniteSet(R)
      <3>1. IsFiniteSet(0 .. h.filter - 1)
        <4>1. h.filter - 1 \in Int /\ 0 \in Int
          BY <1>2
        <4> QED BY ONLY <4>1, FiniteRange
      <3>2. R \subseteq 0 .. h.filter - 1
        BY <1>4
      <3> QED BY ONLY <3>1, <3>2, FS_Subset
    <2>2. IsFiniteSet(C)
      <3>1. IsFiniteSet(0 .. w.filter - 1)
        <4>1. w.filter - 1 \in Int /\ 0 \in Int
          BY <1>2
        <4> QED BY ONLY <4>1, FiniteRange
      <3>2. C \subseteq 0 .. w.filter - 1
        BY <1>5
      <3> QED BY ONLY <3>1, <3>2, FS_Subset
    <2> QED BY <2>1, <2>2, FS_Product
  <1>11. S # {}
    <2>1. PICK f \in R, g \in C : TRUE
      BY <1>4, <1>5
    <2>2. <<f, g>> \in S
      OBVIOUS
    <2> QED BY <2>2
  <1> HIDE DEF S
  <1>12. \A a \in 0 .. batches - 1, y_ \in 0 .. h.image - 1, x_ \in 0 .. w.image - 1,
            c \in 0 .. channels - 1 :
            kernel!Coordinates(p.input_shape, kernel!Offset(p.input_shape, a, y_, x_, c)) =
                <<a, y_, x_, c>>
    <2>1. /\ p.input_shape[1] = batches /\ p.input_shape[2] = h.image
          /\ p.input_shape[3] = w.image /\ p.input_shape[4] = channels
      BY <1>3
    <2>2. FourDimensional(p.input_shape)
      BY <1>2, <1>3 DEF FourDimensional
    <2> DEFINE shape == p.input_shape
    <2>3. FourDimensional(shape)
      BY <2>2
    <2> HIDE DEF shape
    <2>4. \A a \in 0 .. shape[1] - 1, y_ \in 0 .. shape[2] - 1, x_ \in 0 .. shape[3] - 1,
             c \in 0 .. shape[4] - 1 :
             kernel!Coordinates(shape, kernel!Offset(shape, a, y_, x_, c)) = <<a, y_, x_, c>>
      BY ONLY <2>3, PlacesOfFour
    <2> QED BY ONLY <2>4, <2>1 DEF shape
  <1>13. \A f \in S : places[f] = <<i[1], Under(h, i[2], f[1]), Under(w, i[3], f[2]), i[4]>>
    BY ONLY <1>1, <1>7, <1>8, <1>9, <1>12
  <1>14. {places[f] : f \in S} =
            {kernel!Coordinates(p.input_shape, window[f]) : f \in DOMAIN window}
    BY <1>7
  <1> HIDE DEF places
  <1>15. \A f \in S, g \in S : places[f] = places[g] => f = g
    <2> TAKE f \in S, g \in S
    <2> HAVE places[f] = places[g]
    <2>1. Under(h, i[2], f[1]) = Under(h, i[2], g[1]) /\ Under(w, i[3], f[2]) = Under(w, i[3], g[2])
      BY <1>13
    <2>2. /\ f = <<f[1], f[2]>> /\ g = <<g[1], g[2]>>
          /\ f[1] \in 0 .. h.filter - 1 /\ g[1] \in 0 .. h.filter - 1
          /\ f[2] \in 0 .. w.filter - 1 /\ g[2] \in 0 .. w.filter - 1
      BY ONLY <1>8
    <2>3. /\ Begins(h, i[2]) + f[1] = Begins(h, i[2]) + g[1]
          /\ Begins(w, i[3]) + f[2] = Begins(w, i[3]) + g[2]
      BY ONLY <1>4, <1>5, <2>1, <2>2
    <2>4. f[1] = g[1]
      BY ONLY <1>4, <2>2, <2>3
    <2>5. f[2] = g[2]
      BY ONLY <1>5, <2>2, <2>3
    <2> QED BY ONLY <2>2, <2>4, <2>5
  <1>16. \A f \in S : places[f] \in expected
    <2> TAKE f \in S
    <2> DEFINE m == <<<<Under(h, i[2], f[1]), f[1]>>, <<Under(w, i[3], f[2]), f[2]>>>>
    <2>1. m \in kernel!Meetings(h, i[2]) \X kernel!Meetings(w, i[3])
      BY <1>1, <1>8, MeetingsUnder
    <2>2. places[f] = <<i[1], m[1][1], m[2][1], i[4]>>
      BY <1>13
    <2> HIDE DEF m
    <2> QED BY <2>1, <2>2 DEF PoolExpected
  <1>17. \A e \in expected : \E f \in S : places[f] = e
    <2> TAKE e \in expected
    <2>1. PICK m \in kernel!Meetings(h, i[2]) \X kernel!Meetings(w, i[3]) :
             e = <<i[1], m[1][1], m[2][1], i[4]>>
      BY DEF PoolExpected
    <2> DEFINE f == <<m[1][2], m[2][2]>>
    <2>2. m[1] \in kernel!Meetings(h, i[2]) /\ m[2] \in kernel!Meetings(w, i[3])
      OBVIOUS
    <2>3. /\ m[1][2] \in 0 .. h.filter - 1 /\ m[1][1] = Under(h, i[2], m[1][2])
          /\ m[1][1] \in 0 .. h.image - 1
          /\ m[2][2] \in 0 .. w.filter - 1 /\ m[2][1] = Under(w, i[3], m[2][2])
          /\ m[2][1] \in 0 .. w.image - 1
      BY <1>1, <2>2, MeetingsUnder
    <2>4. f[1] = m[1][2] /\ f[2] = m[2][2] /\ f = <<f[1], f[2]>>
      OBVIOUS
    <2> HIDE DEF f
    <2>5. f \in S
      BY ONLY <1>8, <2>2, <2>3, <2>4
    <2>6. places[f] = e
      BY ONLY <1>13, <2>1, <2>3, <2>4, <2>5
    <2> QED BY <2>5, <2>6
  <1>18. /\ kernel!Cardinality(S) = kernel!Cardinality(expected)
         /\ {places[f] : f \in S} = expected /\ IsFiniteSet(expected)
    <2>1. places \in [S -> expected]
      BY <1>16, <1>7 DEF places
    <2>2. kernel!Cardinality(S) = kernel!Cardinality(expected)
      BY ONLY <1>10, <1>15, <2>1, <1>17, OneToOne
    <2>3. {places[f] : f \in S} = expected
      BY ONLY <1>10, <1>15, <2>1, <1>17, OneToOne
    <2>4. IsFiniteSet(expected)
      BY ONLY <1>10, <1>15, <2>1, <1>17, OneToOne
    <2> QED BY ONLY <2>2, <2>3, <2>4
  <1>19. expected # {}
    BY ONLY <1>11, <1>16
  <1>20. kernel!Cardinality(expected) \in Nat \ {0}
    <2>1. Cardinality(expected) \in Nat /\ Cardinality(expected) # 0
      BY <1>18, <1>19, FS_CardinalityType, FS_EmptySet
    <2> QED BY <2>1, SameCardinality
  <1> QED BY <1>7, <1>14, <1>18, <1>19, <1>20 DEF Covered

\* Adding half of the divisor, with the sign of the sum, before the division
\* rounds to the nearest, halves away from zero.
LEMMA AverageIsNearest ==
    ASSUME NEW acc_ \in Int, NEW n \in Nat \ {0}
    PROVE  /\ kernel!IsNearest(kernel!RoundedAverage(acc_, n), acc_, n)
           /\ acc_ >= 0 => kernel!IsNearest(kernel!RoundedUpAverage(acc_, n), acc_, n)
  <1> DEFINE half == n \div 2
             r == n % 2
  <1>1. half \in Int /\ r \in 0 .. 1 /\ n = 2 * half + r
    BY DivMod
  <1> HIDE DEF half, r
  <1>2. half \in Nat /\ half < n
    BY <1>1
  <1>3. ASSUME NEW k \in Nat
        PROVE  \E q \in Int, s \in 0 .. n - 1 :
                  kernel!Quotient(k, n) = q /\ k = n * q + s /\ n * q \in Int /\ q * n = n * q
    <2> DEFINE q == k \div n
               s == k % n
    <2>1. q \in Int /\ s \in 0 .. n - 1 /\ k = n * q + s
      BY DivMod
    <2>2. kernel!Quotient(k, n) = q
      BY DEF kernel!Quotient
    <2> HIDE DEF q, s
    <2>3. n * q \in Int /\ q * n = n * q
      BY <2>1, SMT
    <2> QED BY <2>1, <2>2, <2>3
  <1>4. ASSUME acc_ >= 0
        PROVE  kernel!IsNearest(kernel!RoundedUpAverage(acc_, n), acc_, n)
    <2>1. acc_ + half \in Nat
      BY <1>2, <1>4
    <2>2. PICK q \in Int, s \in 0 .. n - 1 :
             /\ kernel!Quotient(acc_ + half, n) = q /\ acc_ + half = n * q + s
             /\ n * q \in Int /\ q * n = n * q
      BY <1>3, <2>1
    <2> DEFINE P == n * q
    <2>3. P \in Int /\ acc_ + half = P + s /\ q * n = P
      BY <2>2
    <2> HIDE DEF P
    <2> DEFINE error == 2 * (acc_ - q * n)
    <2>4. error = 2 * (s - half)
      BY <1>2, <2>3
    <2>5. -n <= error /\ error < n
      BY <1>1, <1>2, <2>4
    <2>6. error = -n => acc_ > 0
      <3> SUFFICES ASSUME error = -n, acc_ = 0 PROVE FALSE
        BY <1>4
      <3>1. s = 0 /\ r = 0
        BY <1>1, <1>2, <2>4
      <3>2. half = P /\ half > 0
        BY <1>1, <1>2, <2>3, <3>1
      <3>3. q > 0
        <4> SUFFICES ASSUME q <= 0 PROVE FALSE
          BY <2>2
        <4>1. n * q <= 0
          BY <2>2, SMT
        <4> QED BY <3>2, <4>1 DEF P
      <3>4. n * q >= n
        BY <2>2, <3>3, SMT
      <3> QED BY <1>2, <3>2, <3>4 DEF P
    <2>7. kernel!RoundedUpAverage(acc_, n) = q
      BY <2>2 DEF kernel!RoundedUpAverage, half
    <2> QED BY <2>5, <2>6, <2>7 DEF kernel!IsNearest
  <1>5. ASSUME acc_ <= 0
        PROVE  kernel!IsNearest(kernel!RoundedAverage(acc_, n), acc_, n)
    <2>1. kernel!RoundedAverage(acc_, n) = kernel!Quotient(acc_ - half, n)
      BY <1>5 DEF kernel!RoundedAverage, half
    <2>2. half - acc_ \in Nat
      BY <1>2, <1>5
    <2>3. PICK q \in Int, s \in 0 .. n - 1 :
             /\ kernel!Quotient(half - acc_, n) = q /\ half - acc_ = n * q + s
             /\ n * q \in Int /\ q * n = n * q
      BY <1>3, <2>2
    <2>4. kernel!Quotient(acc_ - half, n) = -q
      <3>1. CASE acc_ - half >= 0
        <4>1. acc_ - half = 0 /\ half - acc_ = 0
          BY <1>2, <1>5, <3>1
        <4>2. kernel!Quotient(0, n) = q /\ kernel!Quotient(0, n) = 0
          BY <2>3, <4>1 DEF kernel!Quotient
        <4> QED BY <4>1, <4>2
      <3>2. CASE acc_ - half < 0
        <4>1. -(acc_ - half) = half - acc_
          BY <1>2
        <4>2. kernel!Quotient(acc_ - half, n) = -((half - acc_) \div n)
          BY <3>2, <4>1, <1>2 DEF kernel!Quotient
        <4>3. kernel!Quotient(half - acc_, n) = (half - acc_) \div n
          BY <2>2 DEF kernel!Quotient
        <4> QED BY <2>3, <4>2, <4>3
      <3> QED BY <1>2, <3>1, <3>2
    <2> DEFINE P == n * q
    <2>5. P \in Int /\ half - acc_ = P + s /\ (-q) * n = -P
      BY <2>3, SMT
    <2> HIDE DEF P
    <2> DEFINE error == 2 * (acc_ - (-q) * n)
    <2>6. error = 2 * (half - s)
      BY <1>2, <2>5
    <2>7. -n < error /\ error <= n
      BY <1>1, <1>2, <2>6
    <2>8. error = n => acc_ < 0
      <3> SUFFICES ASSUME error = n, acc_ = 0 PROVE FALSE
        BY <1>5
      <3>1. s = 0 /\ r = 0
        BY <1>1, <1>2, <2>6
      <3>2. half = P /\ half > 0
        BY <1>1, <1>2, <2>5, <3>1
      <3>3. q > 0
        <4> SUFFICES ASSUME q <= 0 PROVE FALSE
          BY <2>3
        <4>1. n * q <= 0
          BY <2>3, SMT
        <4> QED BY <3>2, <4>1 DEF P
      <3>4. n * q >= n
        BY <2>3, <3>3, SMT
      <3> QED BY <1>2, <3>2, <3>4 DEF P
    <2> HIDE DEF half
    <2>9. kernel!RoundedAverage(acc_, n) = -q
      BY <2>1, <2>4
    <2> QED BY <2>7, <2>8, <2>9 DEF kernel!IsNearest
  <1>6. acc_ > 0 => kernel!RoundedAverage(acc_, n) = kernel!RoundedUpAverage(acc_, n)
    BY DEF kernel!RoundedAverage, kernel!RoundedUpAverage
  <1> QED BY <1>4, <1>5, <1>6

\* What pooling makes of a window.
Pooled(window, r) ==
    /\ r.window = window
    /\ kernel!Cardinality(DOMAIN window) \in Nat \ {0} =>
           \A acc_ \in DOMAIN r.averages :
              kernel!IsNearest(r.averages[acc_], acc_, kernel!Cardinality(DOMAIN window))

\* The averages over a window, of sums of either sign and of unsigned ones.
Averaged(window, sums_) ==
    [window |-> window,
     averages |-> [acc_ \in sums_ |->
                      kernel!RoundedAverage(acc_, kernel!Cardinality(DOMAIN window))]]
AveragedUp(window, sums_) ==
    [window |-> window,
     averages |-> [acc_ \in sums_ |->
                      kernel!RoundedUpAverage(acc_, kernel!Cardinality(DOMAIN window))]]

\* Both kinds of averages are right.
LEMMA AveragePools ==
    ASSUME NEW window, NEW S
    PROVE  /\ S \subseteq Int => Pooled(window, Averaged(window, S))
           /\ S \subseteq Nat => Pooled(window, AveragedUp(window, S))
  <1> DEFINE n == kernel!Cardinality(DOMAIN window)
  <1>1. ASSUME S \subseteq Int, n \in Nat \ {0}, NEW acc_ \in S
        PROVE  kernel!IsNearest(kernel!RoundedAverage(acc_, n), acc_, n)
    <2> HIDE DEF n
    <2>1. acc_ \in Int
      BY <1>1
    <2> QED BY ONLY <1>1, <2>1, AverageIsNearest
  <1>2. ASSUME S \subseteq Nat, n \in Nat \ {0}, NEW acc_ \in S
        PROVE  kernel!IsNearest(kernel!RoundedUpAverage(acc_, n), acc_, n)
    <2> HIDE DEF n
    <2>1. acc_ \in Int /\ acc_ >= 0
      BY <1>2
    <2> QED BY ONLY <1>2, <2>1, AverageIsNearest
  <1> QED BY <1>1, <1>2 DEF Pooled, Averaged, AveragedUp

\* So are maxima, that average nothing.
LEMMA MaximumPools ==
    ASSUME NEW window
    PROVE  Pooled(window, kernel!MaximumOf(window))
  <1>1. DOMAIN <<>> = {}
    OBVIOUS
  <1> QED BY <1>1 DEF Pooled, kernel!MaximumOf

\* Every pooling goes over the output, and pools the window of each element.
LEMMA PoolsComputed ==
    ASSUME NEW p, task.kernel \in kernel!PoolKernels,
           NEW loops,
           loops = kernel!Below(kernel!MatchingDim(p.input_shape, 1, p.output_shape, 1))
                      \X kernel!Below(p.output_shape[2]) \X kernel!Below(p.output_shape[3])
                      \X kernel!Below(kernel!MatchingDim(p.input_shape, 4, p.output_shape, 4)),
           NEW E, E = kernel!Layer(task.kernel, p)
    PROVE  /\ DOMAIN E = loops
           /\ \A i \in loops : /\ E[i].at = kernel!Offset(p.output_shape, i[1], i[2], i[3], i[4])
                               /\ Pooled(kernel!WindowElements(p, i), E[i].result)
  <1> DEFINE At(i) == kernel!Offset(p.output_shape, i[1], i[2], i[3], i[4])
             Window(i) == kernel!WindowElements(p, i)
  <1> SUFFICES /\ DOMAIN E = loops
               /\ \A i \in loops : E[i].at = At(i) /\ Pooled(Window(i), E[i].result)
    OBVIOUS
  <1>0. SmallSum \in Nat
    BY SizesAssumption DEF kernel!SizesAssumption
  <1>1. CASE task.kernel = "AveragePoolFloat"
    <2> DEFINE S == {}
               Result(i) == Averaged(Window(i), S)
    <2>1. \A i : Pooled(Window(i), Result(i))
      <3>1. S \subseteq Int
        BY <1>0
      <3> HIDE DEF S, Window
      <3> QED BY ONLY <3>1, AveragePools DEF Result
    <2>2. E = kernel!AveragePoolFloat(p)
      BY <1>1 DEF kernel!Layer
    <2>3. E = [i \in loops |-> [at |-> At(i), result |-> Result(i)]]
      BY <2>2 DEF kernel!AveragePoolFloat, kernel!PoolOutputs, kernel!AverageOf, Averaged
    <2> HIDE DEF At, Window, Result
    <2> QED BY ONLY <2>1, <2>3
  <1>2. CASE task.kernel = "AveragePoolUint8"
    <2> DEFINE S == 0 .. SmallSum
               Result(i) == AveragedUp(Window(i), S)
    <2>1. \A i : Pooled(Window(i), Result(i))
      <3>1. S \subseteq Nat
        BY <1>0
      <3> HIDE DEF S, Window
      <3> QED BY ONLY <3>1, AveragePools DEF Result
    <2>2. E = kernel!AveragePoolUint8(p)
      BY <1>2 DEF kernel!Layer
    <2>3. E = [i \in loops |-> [at |-> At(i), result |-> Result(i)]]
      BY <2>2 DEF kernel!AveragePoolUint8, kernel!PoolOutputs, kernel!AverageOf, AveragedUp
    <2> HIDE DEF At, Window, Result
    <2> QED BY ONLY <2>1, <2>3
  <1>3. CASE task.kernel = "AveragePoolInt8"
    <2> DEFINE S == -SmallSum .. SmallSum
               Result(i) == Averaged(Window(i), S)
    <2>1. \A i : Pooled(Window(i), Result(i))
      <3>1. S \subseteq Int
        BY <1>0
      <3> HIDE DEF S, Window
      <3> QED BY ONLY <3>1, AveragePools DEF Result
    <2>2. E = kernel!AveragePoolInt8(p)
      BY <1>3 DEF kernel!Layer
    <2>3. E = [i \in loops |-> [at |-> At(i), result |-> Result(i)]]
      BY <2>2 DEF kernel!AveragePoolInt8, kernel!PoolOutputs, kernel!AverageOf, Averaged
    <2> HIDE DEF At, Window, Result
    <2> QED BY ONLY <2>1, <2>3
  <1>4. CASE task.kernel = "AveragePoolInt16"
    <2> DEFINE S == -SmallSum .. SmallSum
               Result(i) == Averaged(Window(i), S)
    <2>1. \A i : Pooled(Window(i), Result(i))
      <3>1. S \subseteq Int
        BY <1>0
      <3> HIDE DEF S, Window
      <3> QED BY ONLY <3>1, AveragePools DEF Result
    <2>2. E = kernel!AveragePoolInt16(p)
      BY <1>4 DEF kernel!Layer
    <2>3. E = [i \in loops |-> [at |-> At(i), result |-> Result(i)]]
      BY <2>2 DEF kernel!AveragePoolInt16, kernel!PoolOutputs, kernel!AverageOf, Averaged
    <2> HIDE DEF At, Window, Result
    <2> QED BY ONLY <2>1, <2>3
  <1>5. CASE task.kernel = "L2Pool"
    <2> DEFINE S == {}
               Result(i) == Averaged(Window(i), S)
    <2>1. \A i : Pooled(Window(i), Result(i))
      <3>1. S \subseteq Int
        BY <1>0
      <3> HIDE DEF S, Window
      <3> QED BY ONLY <3>1, AveragePools DEF Result
    <2>2. E = kernel!L2Pool(p)
      BY <1>5 DEF kernel!Layer
    <2>3. E = [i \in loops |-> [at |-> At(i), result |-> Result(i)]]
      BY <2>2 DEF kernel!L2Pool, kernel!PoolOutputs, kernel!AverageOf, Averaged
    <2> HIDE DEF At, Window, Result
    <2> QED BY ONLY <2>1, <2>3
  <1>6. CASE task.kernel = "MaxPoolFloat"
    <2> DEFINE Result(i) == kernel!MaximumOf(Window(i))
    <2>1. \A i : Pooled(Window(i), Result(i))
      BY MaximumPools
    <2>2. E = kernel!MaxPoolFloat(p)
      BY <1>6 DEF kernel!Layer
    <2>3. E = [i \in loops |-> [at |-> At(i), result |-> Result(i)]]
      BY <2>2 DEF kernel!MaxPoolFloat, kernel!PoolOutputs
    <2> HIDE DEF At, Window, Result
    <2> QED BY ONLY <2>1, <2>3
  <1>7. CASE task.kernel = "MaxPoolUint8"
    <2> DEFINE Result(i) == kernel!MaximumOf(Window(i))
    <2>1. \A i : Pooled(Window(i), Result(i))
      BY MaximumPools
    <2>2. E = kernel!MaxPoolUint8(p)
      BY <1>7 DEF kernel!Layer
    <2>3. E = [i \in loops |-> [at |-> At(i), result |-> Result(i)]]
      BY <2>2 DEF kernel!MaxPoolUint8, kernel!PoolOutputs
    <2> HIDE DEF At, Window, Result
    <2> QED BY ONLY <2>1, <2>3
  <1>8. CASE task.kernel = "MaxPoolInt8"
    <2> DEFINE Result(i) == kernel!MaximumOf(Window(i))
    <2>1. \A i : Pooled(Window(i), Result(i))
      BY MaximumPools
    <2>2. E = kernel!MaxPoolInt8(p)
      BY <1>8 DEF kernel!Layer
    <2>3. E = [i \in loops |-> [at |-> At(i), result |-> Result(i)]]
      BY <2>2 DEF kernel!MaxPoolInt8, kernel!PoolOutputs
    <2> HIDE DEF At, Window, Result
    <2> QED BY ONLY <2>1, <2>3
  <1>9. CASE task.kernel = "MaxPoolInt16"
    <2> DEFINE Result(i) == kernel!MaximumOf(Window(i))
    <2>1. \A i : Pooled(Window(i), Result(i))
      BY MaximumPools
    <2>2. E = kernel!MaxPoolInt16(p)
      BY <1>9 DEF kernel!Layer
    <2>3. E = [i \in loops |-> [at |-> At(i), result |-> Result(i)]]
      BY <2>2 DEF kernel!MaxPoolInt16, kernel!PoolOutputs
    <2> HIDE DEF At, Window, Result
    <2> QED BY ONLY <2>1, <2>3
  <1> QED BY <1>1, <1>2, <1>3, <1>4, <1>5, <1>6, <1>7, <1>8, <1>9
         DEF kernel!PoolKernels, kernel!AverageKernels, kernel!MaximumKernels

\* What PooledIsRight asks for one round of the loops.
PoolRoundIsRight(p, i, r) ==
    \E expected : /\ expected = PoolExpected(task.height, task.width, i)
                  /\ Covered(p, r.window, expected)
                  /\ \A acc_ \in DOMAIN r.averages :
                        kernel!IsNearest(r.averages[acc_], acc_, kernel!Cardinality(expected))

\* A pooling is right when every round of its loops is.
LEMMA RoundsMakePooled ==
    ASSUME NEW p, p = kernel!WindowParams(task),
           kernel!WritesEachOnce(kernel!FlatSize(p.output_shape)),
           \A i \in DOMAIN kernel!elements :
              PoolRoundIsRight(p, kernel!Coordinates(p.output_shape, kernel!elements[i].at),
                               kernel!elements[i].result)
    PROVE  kernel!PooledIsRight
  <1> DEFINE Right(o, r) ==
                 LET expected == {<<o[1], m[1][1], m[2][1], o[4]>> :
                                     m \in kernel!Meetings(task.height, o[2])
                                              \X kernel!Meetings(task.width, o[3])}
                 IN  /\ expected # {}
                     /\ kernel!Cardinality(DOMAIN r.window) = kernel!Cardinality(expected)
                     /\ {kernel!Coordinates(p.input_shape, r.window[f]) : f \in DOMAIN r.window}
                            = expected
                     /\ \A acc_ \in DOMAIN r.averages :
                           kernel!IsNearest(r.averages[acc_], acc_, kernel!Cardinality(expected))
  <1>1. ASSUME NEW o, NEW r, PoolRoundIsRight(p, o, r) PROVE Right(o, r)
    <2> DEFINE expected == {<<o[1], m[1][1], m[2][1], o[4]>> :
                               m \in kernel!Meetings(task.height, o[2])
                                        \X kernel!Meetings(task.width, o[3])}
    <2>1. expected = PoolExpected(task.height, task.width, o)
      BY DEF PoolExpected
    <2> HIDE DEF expected
    <2>2. /\ Covered(p, r.window, expected)
          /\ \A acc_ \in DOMAIN r.averages :
                kernel!IsNearest(r.averages[acc_], acc_, kernel!Cardinality(expected))
      BY <1>1, <2>1 DEF PoolRoundIsRight
    <2> QED BY <2>2 DEF Covered, expected
  <1>2. kernel!PooledIsRight <=>
           /\ kernel!WritesEachOnce(kernel!FlatSize(p.output_shape))
           /\ \A i \in DOMAIN kernel!elements :
                 Right(kernel!Coordinates(p.output_shape, kernel!elements[i].at),
                       kernel!elements[i].result)
    BY DEF kernel!PooledIsRight
  <1> HIDE DEF Right
  <1> QED BY <1>1, <1>2

\* Pooling goes over the right elements.
LEMMA PoolsAreRight ==
    ASSUME task.kernel \in kernel!PoolKernels,
           task.height \in kernel!Dimensions, task.width \in kernel!Dimensions,
           task.height.dilation = 1, task.width.dilation = 1,
           kernel!elements = kernel!Layer(task.kernel, kernel!WindowParams(task))
    PROVE  kernel!PooledIsRight
  <1> DEFINE p == kernel!WindowParams(task)
             h == task.height
             w == task.width
             out == p.output_shape
             E == kernel!elements
             loops == (0 .. Batches - 1) \X (0 .. h.out - 1) \X (0 .. w.out - 1) \X (0 .. 2 - 1)
  <1>1. /\ p.input_shape = <<Batches, h.image, w.image, 2>>
        /\ p.filter_shape = <<1, h.filter, w.filter, 1>>
        /\ out = <<Batches, h.out, w.out, 2>> /\ Strided(p, h, w)
    BY WindowParamsAre
  <1>2. /\ Proper(h) /\ kernel!PaddingIsBalanced(h)
        /\ Proper(w) /\ kernel!PaddingIsBalanced(w)
    BY DimensionsAreProper
  <1>3. Batches \in Nat \ {0} /\ 2 \in Nat \ {0}
    BY DEF Batches
  <1>p. p = kernel!WindowParams(task) /\ h = task.height /\ w = task.width
    OBVIOUS
  <1>d. h.dilation = 1 /\ w.dilation = 1
    OBVIOUS
  <1> HIDE DEF p, h, w
  <1>4. loops = kernel!Below(kernel!MatchingDim(p.input_shape, 1, p.output_shape, 1))
                   \X kernel!Below(p.output_shape[2]) \X kernel!Below(p.output_shape[3])
                   \X kernel!Below(kernel!MatchingDim(p.input_shape, 4, p.output_shape, 4))
    BY <1>1, <1>3 DEF kernel!MatchingDim, kernel!Smaller, kernel!Below
  <1>5. E = kernel!Layer(task.kernel, p)
    BY <1>p
  <1>6. FourDimensional(out) /\ loops = (0 .. out[1] - 1) \X (0 .. out[2] - 1) \X (0 .. out[3] - 1)
                                \X (0 .. out[4] - 1)
    BY <1>1, <1>2, <1>3 DEF FourDimensional, Proper
  <1>l. \A i \in loops : /\ i = <<i[1], i[2], i[3], i[4]>>
                         /\ i[1] \in 0 .. Batches - 1 /\ i[2] \in 0 .. h.out - 1
                         /\ i[3] \in 0 .. w.out - 1 /\ i[4] \in 0 .. 2 - 1
    OBVIOUS
  <1> HIDE DEF loops, E
  <1>7. /\ DOMAIN E = loops
        /\ \A i \in loops :
              /\ E[i].at = kernel!Offset(p.output_shape, i[1], i[2], i[3], i[4])
              /\ Pooled(kernel!WindowElements(p, i), E[i].result)
    <2>1. task.kernel \in kernel!PoolKernels
      OBVIOUS
    <2>2. DOMAIN E = loops
      BY ONLY <1>4, <1>5, <2>1, PoolsComputed
    <2>3. \A i \in loops : /\ E[i].at = kernel!Offset(p.output_shape, i[1], i[2], i[3], i[4])
                           /\ Pooled(kernel!WindowElements(p, i), E[i].result)
      BY ONLY <1>4, <1>5, <2>1, PoolsComputed
    <2> QED BY ONLY <2>2, <2>3
  <1>8. /\ kernel!WritesEachOnce(kernel!FlatSize(out))
        /\ \A i \in loops : kernel!Coordinates(out, E[i].at) = <<i[1], i[2], i[3], i[4]>>
    BY <1>6, <1>7, OutputsWritten DEF E
  <1>9. ASSUME NEW i \in loops PROVE PoolRoundIsRight(p, i, E[i].result)
    <2> DEFINE window == kernel!WindowElements(p, i)
               expected == PoolExpected(h, w, i)
               r == E[i].result
    <2>1. Pooled(window, r)
      BY <1>7
    <2>2. window = kernel!WindowElements(p, i) /\ expected = PoolExpected(h, w, i)
      OBVIOUS
    <2>3. Pools(p, h, w, Batches, 2)
      BY ONLY <1>1 DEF Pools
    <2>4. /\ i[1] \in 0 .. Batches - 1 /\ i[2] \in 0 .. h.out - 1
          /\ i[3] \in 0 .. w.out - 1 /\ i[4] \in 0 .. 2 - 1
      BY <1>l
    <2> HIDE DEF window, expected, r
    <2>5. Covered(p, window, expected)
      BY ONLY <1>2, <1>3, <1>d, <2>2, <2>3, <2>4, WindowCovered
    <2>6. /\ r.window = window
          /\ \A acc_ \in DOMAIN r.averages :
                kernel!IsNearest(r.averages[acc_], acc_, kernel!Cardinality(expected))
      BY ONLY <2>1, <2>5 DEF Pooled, Covered
    <2>7. PoolRoundIsRight(p, i, r)
      BY ONLY <1>p, <2>2, <2>5, <2>6 DEF PoolRoundIsRight
    <2> QED BY <2>7 DEF r
  <1>10. \A i \in DOMAIN kernel!elements :
            PoolRoundIsRight(p, kernel!Coordinates(p.output_shape, kernel!elements[i].at),
                             kernel!elements[i].result)
    <2> TAKE i \in DOMAIN kernel!elements
    <2>1. i \in loops /\ E = kernel!elements
      BY <1>7 DEF E
    <2>2. kernel!Coordinates(out, E[i].at) = i
      BY <1>8, <1>l, <2>1
    <2> QED BY <1>9, <2>1, <2>2
  <1>11. kernel!WritesEachOnce(kernel!FlatSize(p.output_shape))
    BY <1>8
  <1> QED BY ONLY <1>10, <1>11, <1>p, RoundsMakePooled

-----------------------------------------------------------------------------
(* Fully connected layers.                                                 *)

\* The tasks of fully connected layers.
LEMMA FullyConnectedTasksAre ==
    ASSUME NEW t \in kernel!FullyConnectedTasks
    PROVE  \/ /\ t.kernel \in kernel!FullyConnectedKernels \ {"ShuffledFullyConnected"}
              /\ t.output_shape \in {<<1, 3>>, <<2, 3>>, <<2, 2, 3>>} /\ t.accum_depth = 2
              /\ t.kernel \in {"FullyConnectedInt8", "FullyConnectedInt16"} =>
                     Len(t.output_shape) = 2
              /\ t.kernel = "FullyConnectedUint8ToInt16" => t.has_bias
           \/ /\ t.kernel = "ShuffledFullyConnected" /\ t.has_bias
              /\ t.accum_depth \in {16, 32}
              /\ \E batches \in {1, 4}, channels \in {4, 8} : t.output_shape = <<batches, channels>>
  <1> DEFINE plain == {[kernel |-> k, output_shape |-> shape \o <<3>>, accum_depth |-> 2,
                        has_bias |-> has_bias] :
                           k \in kernel!FullyConnectedKernels \ {"ShuffledFullyConnected"},
                           shape \in {<<1>>, <<2>>, <<2, 2>>}, has_bias \in BOOLEAN}
             shuffled == {[kernel |-> "ShuffledFullyConnected",
                           output_shape |-> <<batches, channels>>,
                           accum_depth |-> accum_depth, has_bias |-> TRUE] :
                              batches \in {1, 4}, channels \in {4, 8}, accum_depth \in {16, 32}}
  <1>1. \/ /\ t \in plain
           /\ t.kernel \in {"FullyConnectedInt8", "FullyConnectedInt16"} => Len(t.output_shape) = 2
           /\ t.kernel = "FullyConnectedUint8ToInt16" => t.has_bias
        \/ t \in shuffled
    BY DEF kernel!FullyConnectedTasks
  <1>2. ASSUME t \in plain
        PROVE  /\ t.kernel \in kernel!FullyConnectedKernels \ {"ShuffledFullyConnected"}
               /\ t.output_shape \in {<<1, 3>>, <<2, 3>>, <<2, 2, 3>>} /\ t.accum_depth = 2
    <2>1. PICK k \in kernel!FullyConnectedKernels \ {"ShuffledFullyConnected"},
               shape \in {<<1>>, <<2>>, <<2, 2>>}, has_bias \in BOOLEAN :
             t = [kernel |-> k, output_shape |-> shape \o <<3>>, accum_depth |-> 2,
                  has_bias |-> has_bias]
      BY <1>2
    <2>2. <<1>> \o <<3>> = <<1, 3>> /\ <<2>> \o <<3>> = <<2, 3>> /\ <<2, 2>> \o <<3>> = <<2, 2, 3>>
      <3>1. <<1>> \o <<3>> = <<1, 3>>
        <4>1. <<1>> \o <<3>> = [i \in 1 .. 2 |-> IF i <= 1 THEN <<1>>[i] ELSE <<3>>[i - 1]]
          OBVIOUS
        <4>2. [i \in 1 .. 2 |-> IF i <= 1 THEN <<1>>[i] ELSE <<3>>[i - 1]] = <<1, 3>>
          OBVIOUS
        <4> QED BY ONLY <4>1, <4>2
      <3>2. <<2>> \o <<3>> = <<2, 3>>
        <4>1. <<2>> \o <<3>> = [i \in 1 .. 2 |-> IF i <= 1 THEN <<2>>[i] ELSE <<3>>[i - 1]]
          OBVIOUS
        <4>2. [i \in 1 .. 2 |-> IF i <= 1 THEN <<2>>[i] ELSE <<3>>[i - 1]] = <<2, 3>>
          OBVIOUS
        <4> QED BY ONLY <4>1, <4>2
      <3>3. <<2, 2>> \o <<3>> = <<2, 2, 3>>
        <4>1. <<2, 2>> \o <<3>> = [i \in 1 .. 3 |-> IF i <= 2 THEN <<2, 2>>[i] ELSE <<3>>[i - 2]]
          OBVIOUS
        <4>2. [i \in 1 .. 3 |-> IF i <= 2 THEN <<2, 2>>[i] ELSE <<3>>[i - 2]] = <<2, 2, 3>>
          OBVIOUS
        <4> QED BY ONLY <4>1, <4>2
      <3> QED BY ONLY <3>1, <3>2, <3>3
    <2>3. shape \o <<3>> \in {<<1, 3>>, <<2, 3>>, <<2, 2, 3>>}
      BY <2>2
    <2> QED BY <2>1, <2>3
  <1>3. ASSUME t \in shuffled
        PROVE  /\ t.kernel = "ShuffledFullyConnected" /\ t.has_bias
               /\ t.accum_depth \in {16, 32}
               /\ \E batches \in {1, 4}, channels \in {4, 8} :
                     t.output_shape = <<batches, channels>>
    <2>1. PICK batches \in {1, 4}, channels \in {4, 8}, accum_depth \in {16, 32} :
             t = [kernel |-> "ShuffledFullyConnected", output_shape |-> <<batches, channels>>,
                  accum_depth |-> accum_depth, has_bias |-> TRUE]
      BY <1>3
    <2> QED BY <2>1
  <1> HIDE DEF plain, shuffled
  <1> QED BY <1>1, <1>2, <1>3

\* What a layer of `channels` channels for `batches` batches is given: all sizes
\* of the output but the last are batches.
Connects(p, batches, channels, depth_) ==
    /\ p.filter_shape = <<channels, depth_>>
    /\ p.output_shape[Len(p.output_shape)] = channels
    /\ p.has_bias = task.has_bias
    /\ kernel!FlatSizeSkipDim(p.output_shape, Len(p.output_shape)) = batches
    /\ kernel!FlatSize(p.output_shape) = batches * channels
    /\ Len(p.output_shape) = 2 => p.output_shape[1] = batches /\ p.output_shape[2] = channels

\* The batches of a shape are its size without its last dimension.
LEMMA SkippedSizes ==
    /\ \A a \in Nat \ {0}, b \in Nat \ {0} : kernel!FlatSizeSkipDim(<<a, b>>, 2) = a
    /\ kernel!FlatSizeSkipDim(<<2, 2, 3>>, 3) = 4
  <1>1. \A a \in Nat \ {0}, b \in Nat \ {0} : kernel!FlatSizeSkipDim(<<a, b>>, 2) = a
    <2> TAKE a \in Nat \ {0}, b \in Nat \ {0}
    <2>1. [<<a, b>> EXCEPT ![2] = 1] = <<a, 1>>
      OBVIOUS
    <2>2. kernel!FlatSize(<<a, 1>>) = a * 1
      BY SizeOfTwo
    <2> QED BY <2>1, <2>2 DEF kernel!FlatSizeSkipDim
  <1>2. kernel!FlatSizeSkipDim(<<2, 2, 3>>, 3) = 4
    <2>1. [<<2, 2, 3>> EXCEPT ![3] = 1] = <<2, 2, 1>>
      OBVIOUS
    <2>2. kernel!FlatSize(<<2, 2, 1>>) = 2 * (2 * 1)
      BY SizeOfThree
    <2> QED BY <2>1, <2>2 DEF kernel!FlatSizeSkipDim
  <1> QED BY <1>1, <1>2

\* The shapes a fully connected layer is called with.
LEMMA FullyConnectedParamsAre ==
    ASSUME NEW p, p = kernel!FullyConnectedParams(task)
    PROVE  /\ task.output_shape \in {<<1, 3>>, <<2, 3>>, <<2, 2, 3>>} =>
                 \E batches \in {1, 2, 4} : Connects(p, batches, 3, task.accum_depth)
           /\ \A batches \in Nat \ {0}, channels \in Nat \ {0} :
                 task.output_shape = <<batches, channels>> =>
                     Connects(p, batches, channels, task.accum_depth)
  <1>1. /\ p.output_shape = task.output_shape /\ p.has_bias = task.has_bias
        /\ p.filter_shape = <<task.output_shape[Len(task.output_shape)], task.accum_depth>>
    BY DEF kernel!FullyConnectedParams
  <1>2. ASSUME NEW batches \in Nat \ {0}, NEW channels \in Nat \ {0},
               task.output_shape = <<batches, channels>>
        PROVE  Connects(p, batches, channels, task.accum_depth)
    <2>1. /\ Len(<<batches, channels>>) = 2 /\ <<batches, channels>>[1] = batches
          /\ <<batches, channels>>[2] = channels
      OBVIOUS
    <2>2. /\ kernel!FlatSize(<<batches, channels>>) = batches * channels
          /\ kernel!FlatSizeSkipDim(<<batches, channels>>, 2) = batches
      BY SizeOfTwo, SkippedSizes
    <2> QED BY ONLY <1>1, <1>2, <2>1, <2>2 DEF Connects
  <1>3. ASSUME task.output_shape = <<2, 2, 3>>
        PROVE  Connects(p, 4, 3, task.accum_depth)
    <2>1. Len(<<2, 2, 3>>) = 3 /\ <<2, 2, 3>>[3] = 3
      OBVIOUS
    <2>2. /\ kernel!FlatSize(<<2, 2, 3>>) = 2 * (2 * 3)
          /\ kernel!FlatSizeSkipDim(<<2, 2, 3>>, 3) = 4
      BY SizeOfThree, SkippedSizes
    <2> QED BY ONLY <1>1, <1>3, <2>1, <2>2 DEF Connects
  <1> QED BY <1>2, <1>3

\* Where the weight of channel c for element d is, and what
\* FullyConnectedIsRight asks for one round of the loops.
WeightAt(c, d) ==
    IF task.kernel = "ShuffledFullyConnected"
    THEN ((c \div 4) * (task.accum_depth \div 16) + d \div 16) * 64 + (c % 4) * 16 + (d % 16)
    ELSE c * task.accum_depth + d
Connected(products, b, c) ==
    /\ kernel!Cardinality(DOMAIN products) = task.accum_depth
    /\ {<<products[d].input, products[d].filter>> : d \in DOMAIN products}
          = {<<b * task.accum_depth + d, WeightAt(c, d)>> : d \in kernel!Below(task.accum_depth)}
ConnectedRight(r, b, c) == Connected(r.products, b, c) /\ kernel!ParametersFit(r, b, c)

\* A layer is right when every round of its loops is.
LEMMA RoundsMakeConnected ==
    ASSUME NEW p, p = kernel!FullyConnectedParams(task), NEW channels,
           channels = p.filter_shape[1],
           kernel!WritesEachOnce(kernel!FlatSize(p.output_shape)),
           \A i \in DOMAIN kernel!elements :
              ConnectedRight(kernel!elements[i].result, kernel!elements[i].at \div channels,
                             kernel!elements[i].at % channels)
    PROVE  kernel!FullyConnectedIsRight
  <1>1. kernel!FullyConnectedIsRight <=>
           /\ kernel!WritesEachOnce(kernel!FlatSize(p.output_shape))
           /\ \A i \in DOMAIN kernel!elements :
                 ConnectedRight(kernel!elements[i].result, kernel!elements[i].at \div channels,
                                kernel!elements[i].at % channels)
    BY DEF kernel!FullyConnectedIsRight, ConnectedRight, Connected, WeightAt
  <1> QED BY <1>1

\* Elements that are one behind the other, channel by channel, batch by batch.
Rows(S, b, c, batches, channels) ==
    /\ DOMAIN kernel!elements = S
    /\ \A i \in S : /\ b[i] \in 0 .. batches - 1 /\ c[i] \in 0 .. channels - 1
                    /\ kernel!elements[i].at = b[i] * channels + c[i]
    /\ \A i \in S, j \in S : b[i] = b[j] /\ c[i] = c[j] => i = j
    /\ \A u \in 0 .. batches - 1, v \in 0 .. channels - 1 : \E i \in S : b[i] = u /\ c[i] = v

\* Such elements are written once each, and are where their row and channel say.
LEMMA RowsWritten ==
    ASSUME NEW batches \in Nat \ {0}, NEW channels \in Nat \ {0}, NEW S,
           NEW b, NEW c, Rows(S, b, c, batches, channels)
    PROVE  /\ kernel!WritesEachOnce(batches * channels)
           /\ \A i \in S : /\ kernel!elements[i].at \div channels = b[i]
                           /\ kernel!elements[i].at % channels = c[i]
  <1> /\ DOMAIN kernel!elements = S
      /\ \A i \in S : /\ b[i] \in 0 .. batches - 1 /\ c[i] \in 0 .. channels - 1
                      /\ kernel!elements[i].at = b[i] * channels + c[i]
      /\ \A i \in S, j \in S : b[i] = b[j] /\ c[i] = c[j] => i = j
      /\ \A u \in 0 .. batches - 1, v \in 0 .. channels - 1 : \E i \in S : b[i] = u /\ c[i] = v
    BY DEF Rows
  <1> DEFINE size == batches * channels
             At(i) == kernel!elements[i].at
  <1>0. batches \in Nat \ {0} /\ channels \in Nat \ {0}
    OBVIOUS
  <1>1. size \in Nat
    BY <1>0, SMT
  <1>2. \A i \in S : At(i) \div channels = b[i] /\ At(i) % channels = c[i]
    <2> TAKE i \in S
    <2> DEFINE u == b[i]
               v == c[i]
    <2>1. u \in Nat /\ v \in 0 .. channels - 1 /\ At(i) = u * channels + v
      OBVIOUS
    <2> HIDE DEF u, v, At
    <2>2. At(i) \div channels = u /\ At(i) % channels = v
      BY ONLY <1>0, <2>1, TwoDigits
    <2> QED BY <2>2 DEF u, v
  <1>3. \A i \in S : At(i) \in 0 .. size - 1
    <2> TAKE i \in S
    <2> DEFINE u == b[i]
               v == c[i]
    <2>1. u \in 0 .. batches - 1 /\ v \in 0 .. channels - 1 /\ At(i) = u * channels + v
      OBVIOUS
    <2> HIDE DEF u, v, At
    <2>2. At(i) \in 0 .. batches * channels - 1
      BY ONLY <1>0, <2>1, TwoDigitsBelow
    <2> QED BY <2>2
  <1>4. \A n \in 0 .. size - 1 : \E i \in S : At(i) = n
    <2> TAKE n \in 0 .. size - 1
    <2> DEFINE u == n \div channels
               v == n % channels
    <2>1. n \in Nat /\ n < size
      BY <1>1
    <2>2. u \in 0 .. batches - 1 /\ v \in 0 .. channels - 1 /\ u * channels + v = n
      BY ONLY <1>0, <2>1, DigitsOf DEF u, v, size
    <2> HIDE DEF u, v
    <2>3. PICK i \in S : b[i] = u /\ c[i] = v
      BY <2>2
    <2>4. At(i) = n
      BY <2>2, <2>3
    <2> QED BY <2>4
  <1>5. \A i \in S, j \in S : At(i) = At(j) => i = j
    <2> HIDE DEF At
    <2> QED BY <1>2
  <1> HIDE DEF size
  <1>6. kernel!WritesEachOnce(size)
    BY <1>1, <1>3, <1>4, <1>5, WrittenOnce
  <1> QED BY <1>2, <1>6 DEF size

\* The products of the layers that are not shuffled are those expected.
LEMMA PlainProducts ==
    ASSUME NEW i, NEW products,
           task.accum_depth \in Nat \ {0}, task.kernel # "ShuffledFullyConnected",
           products = kernel!FullyConnectedProducts(task.accum_depth, i)
    PROVE  Connected(products, i[1], i[2])
  <1> DEFINE n == task.accum_depth
  <1>1. n \in Nat \ {0}
    OBVIOUS
  <1>2. products = [d \in 0 .. n - 1 |-> [input |-> i[1] * n + d, filter |-> i[2] * n + d]]
    BY DEF kernel!FullyConnectedProducts, kernel!Below
  <1>3. \A d : WeightAt(i[2], d) = i[2] * n + d
    BY DEF WeightAt
  <1> HIDE DEF n
  <1>4. Cardinality(0 .. n - 1) = n
    BY <1>1, FS_Interval
  <1>5. kernel!Cardinality(DOMAIN products) = n
    BY <1>2, <1>4, SameCardinality
  <1>6. {<<products[d].input, products[d].filter>> : d \in DOMAIN products}
           = {<<i[1] * n + d, i[2] * n + d>> : d \in 0 .. n - 1}
    BY <1>2
  <1>7. {<<products[d].input, products[d].filter>> : d \in DOMAIN products}
           = {<<i[1] * n + d, WeightAt(i[2], d)>> : d \in kernel!Below(n)}
    BY <1>3, <1>6 DEF kernel!Below
  <1> QED BY <1>5, <1>7 DEF n, Connected

\* What each of the other kernels makes of its products for output i.
ComputedRows(E, batches, channels, accum_depth) ==
    /\ DOMAIN E = kernel!Below(batches) \X kernel!Below(channels)
    /\ \A i \in kernel!Below(batches) \X kernel!Below(channels) :
          /\ E[i].at = i[2] + channels * i[1]
          /\ E[i].result.products = kernel!FullyConnectedProducts(accum_depth, i)
          /\ kernel!ParametersFit(E[i].result, i[1], i[2])

\* The result of a fully connected kernel for channel c of batch b.
BiasedFor(products, c) ==
    kernel!ScaledResult(products, {"input_offset", "filter_offset"}, {c}, kernel!PerTensor, TRUE)
FilterFor(p, products, c) ==
    kernel!ScaledResult(products, {"filter_offset"}, kernel!BiasOf(p, c), kernel!PerTensor, FALSE)

Fits(r, products, b, c) == r.products = products /\ kernel!ParametersFit(r, b, c)

\* They have the parameters of their channel.
LEMMA ConnectedFit ==
    ASSUME NEW p, p.has_bias = task.has_bias, NEW products, NEW b, NEW c
    PROVE  /\ task.kernel = "FullyConnectedFloat" =>
                 Fits(FloatFor(p, products, b, c), products, b, c)
           /\ task.kernel \in {"FullyConnectedUint8", "FullyConnectedInt8"} =>
                 Fits(Uint8For(p, products, b, c), products, b, c)
           /\ task.kernel = "FullyConnectedUint8ToInt16" /\ task.has_bias =>
                 Fits(BiasedFor(products, c), products, b, c)
           /\ task.kernel = "FullyConnectedInt16" =>
                 Fits(FilterFor(p, products, c), products, b, c)
  <1>1. kernel!BiasOf(p, c) = IF task.has_bias THEN {c} ELSE {}
    BY DEF kernel!BiasOf
  <1>2. ASSUME task.kernel \in {"FullyConnectedFloat", "FullyConnectedUint8",
                                "FullyConnectedUint8ToInt16", "FullyConnectedInt8",
                                "FullyConnectedInt16"}
        PROVE  /\ task.kernel \notin kernel!HybridKernels
               /\ task.kernel \notin kernel!PerChannelKernels
               /\ task.kernel \in kernel!Int8Kernels => task.kernel = "FullyConnectedInt8"
               /\ task.kernel \in kernel!Uint8Kernels =>
                      task.kernel \in {"FullyConnectedUint8", "FullyConnectedUint8ToInt16"}
    BY <1>2 DEF kernel!HybridKernels, kernel!PerChannelKernels, kernel!Int8Kernels,
       kernel!Uint8Kernels
  <1>3. ASSUME task.kernel = "FullyConnectedFloat"
        PROVE  Fits(FloatFor(p, products, b, c), products, b, c)
    <2> DEFINE r == FloatFor(p, products, b, c)
    <2>1. r.products = products /\ r.bias = kernel!BiasOf(p, c)
          /\ r.offsets = {} /\ r.shifted = FALSE
      BY ONLY DEF FloatFor, kernel!FloatResult, kernel!ScaledResult
    <2>2. r.bias = IF task.has_bias THEN {c} ELSE {}
      BY <1>1, <1>3, <2>1
    <2> HIDE DEF r
    <2>3. kernel!ParametersFit(r, b, c)
      BY ONLY <1>2, <1>3, <2>1, <2>2 DEF kernel!ParametersFit
    <2> QED BY <2>1, <2>3 DEF Fits, r
  <1>4. ASSUME task.kernel \in {"FullyConnectedUint8", "FullyConnectedInt8"}
        PROVE  Fits(Uint8For(p, products, b, c), products, b, c)
    <2> DEFINE r == Uint8For(p, products, b, c)
    <2>1. r.products = products /\ r.bias = kernel!BiasOf(p, c)
          /\ r.offsets = {"input_offset", "filter_offset"} /\ r.shifted = TRUE
      BY ONLY DEF Uint8For, kernel!ScaledResult
    <2>2. r.bias = IF task.has_bias THEN {c} ELSE {}
      BY <1>1, <1>4, <2>1
    <2> HIDE DEF r
    <2>3. kernel!ParametersFit(r, b, c)
      BY ONLY <1>2, <1>4, <2>1, <2>2 DEF kernel!ParametersFit
    <2> QED BY <2>1, <2>3 DEF Fits, r
  <1>5. ASSUME task.kernel = "FullyConnectedUint8ToInt16", task.has_bias
        PROVE  Fits(BiasedFor(products, c), products, b, c)
    <2> DEFINE r == BiasedFor(products, c)
    <2>1. r.products = products /\ r.bias = {c}
          /\ r.offsets = {"input_offset", "filter_offset"} /\ r.shifted = TRUE
      BY ONLY DEF BiasedFor, kernel!ScaledResult
    <2>2. r.bias = IF task.has_bias THEN {c} ELSE {}
      BY <1>1, <1>5, <2>1
    <2> HIDE DEF r
    <2>3. kernel!ParametersFit(r, b, c)
      BY ONLY <1>2, <1>5, <2>1, <2>2 DEF kernel!ParametersFit
    <2> QED BY <2>1, <2>3 DEF Fits, r
  <1>6. ASSUME task.kernel = "FullyConnectedInt16"
        PROVE  Fits(FilterFor(p, products, c), products, b, c)
    <2> DEFINE r == FilterFor(p, products, c)
    <2>1. r.products = products /\ r.bias = kernel!BiasOf(p, c)
          /\ r.offsets = {"filter_offset"} /\ r.shifted = FALSE
      BY ONLY DEF FilterFor, kernel!ScaledResult
    <2>2. r.bias = IF task.has_bias THEN {c} ELSE {}
      BY <1>1, <1>6, <2>1
    <2> HIDE DEF r
    <2>3. kernel!ParametersFit(r, b, c)
      BY ONLY <1>2, <1>6, <2>1, <2>2 DEF kernel!ParametersFit
    <2> QED BY <2>1, <2>3 DEF Fits, r
  <1> QED BY <1>3, <1>4, <1>5, <1>6

\* Every such layer goes over batches and channels.
LEMMA FullyConnectedComputed ==
    ASSUME NEW p, NEW batches \in Nat \ {0}, NEW channels \in Nat \ {0}, NEW accum_depth,
           Connects(p, batches, channels, accum_depth),
           task.kernel \in kernel!FullyConnectedKernels \ {"ShuffledFullyConnected"},
           task.kernel \in {"FullyConnectedInt8", "FullyConnectedInt16"} =>
               Len(p.output_shape) = 2,
           task.kernel = "FullyConnectedUint8ToInt16" => task.has_bias,
           NEW E, E = kernel!Layer(task.kernel, p)
    PROVE  ComputedRows(E, batches, channels, accum_depth)
  <1> DEFINE Sum(i) == kernel!FullyConnectedProducts(accum_depth, i)
             loops == kernel!Below(batches) \X kernel!Below(channels)
  <1>a. /\ p.filter_shape = <<channels, accum_depth>>
        /\ p.output_shape[Len(p.output_shape)] = channels
        /\ p.has_bias = task.has_bias
        /\ kernel!FlatSizeSkipDim(p.output_shape, Len(p.output_shape)) = batches
        /\ Len(p.output_shape) = 2 => p.output_shape[1] = batches /\ p.output_shape[2] = channels
    BY DEF Connects
  <1>b. Len(p.filter_shape) = 2 /\ p.filter_shape[1] = channels /\ p.filter_shape[2] = accum_depth
    BY <1>a
  <1>c. kernel!MatchingDim(p.filter_shape, 2 - 1, p.output_shape, Len(p.output_shape)) = channels
    BY <1>a, <1>b DEF kernel!MatchingDim, kernel!Smaller
  <1> SUFFICES /\ DOMAIN E = loops
               /\ \A i \in loops : /\ E[i].at = i[2] + channels * i[1]
                                   /\ Fits(E[i].result, Sum(i), i[1], i[2])
    BY DEF ComputedRows, Fits
  <1>1. CASE task.kernel = "FullyConnectedFloat"
    <2> DEFINE B == kernel!FlatSizeSkipDim(p.output_shape, Len(p.output_shape))
               D == kernel!MatchingDim(p.filter_shape, Len(p.filter_shape) - 1, p.output_shape,
                                       Len(p.output_shape))
               S(i) == kernel!FullyConnectedProducts(p.filter_shape[Len(p.filter_shape)], i)
    <2>1. E = kernel!FullyConnectedFloat(p)
      BY <1>1 DEF kernel!Layer
    <2>2. E = [i \in kernel!Below(B) \X kernel!Below(D) |->
                  [at |-> i[2] + D * i[1], result |-> FloatFor(p, S(i), i[1], i[2])]]
      BY <2>1 DEF kernel!FullyConnectedFloat, kernel!FullyConnectedOutputs, FloatFor
    <2>3. B = batches /\ D = channels /\ \A i : S(i) = Sum(i)
      BY <1>a, <1>b, <1>c, <1>1
    <2> HIDE DEF B, D, S, Sum
    <2>4. \A i : Fits(FloatFor(p, Sum(i), i[1], i[2]), Sum(i), i[1], i[2])
      BY <1>a, <1>1, ConnectedFit
    <2> QED BY ONLY <2>2, <2>3, <2>4
  <1>2. CASE task.kernel = "FullyConnectedUint8"
    <2> DEFINE B == kernel!FlatSizeSkipDim(p.output_shape, Len(p.output_shape))
               D == kernel!MatchingDim(p.filter_shape, Len(p.filter_shape) - 1, p.output_shape,
                                       Len(p.output_shape))
               S(i) == kernel!FullyConnectedProducts(p.filter_shape[Len(p.filter_shape)], i)
    <2>1. E = kernel!FullyConnectedUint8(p)
      BY <1>2 DEF kernel!Layer
    <2>2. E = [i \in kernel!Below(B) \X kernel!Below(D) |->
                  [at |-> i[2] + D * i[1], result |-> Uint8For(p, S(i), i[1], i[2])]]
      BY <2>1 DEF kernel!FullyConnectedUint8, kernel!FullyConnectedOutputs, Uint8For
    <2>3. B = batches /\ D = channels /\ \A i : S(i) = Sum(i)
      BY <1>a, <1>b, <1>c, <1>2
    <2> HIDE DEF B, D, S, Sum
    <2>4. \A i : Fits(Uint8For(p, Sum(i), i[1], i[2]), Sum(i), i[1], i[2])
      BY <1>a, <1>2, ConnectedFit
    <2> QED BY ONLY <2>2, <2>3, <2>4
  <1>3. CASE task.kernel = "FullyConnectedUint8ToInt16"
    <2> DEFINE B == kernel!FlatSizeSkipDim(p.output_shape, Len(p.output_shape))
               D == kernel!MatchingDim(p.filter_shape, Len(p.filter_shape) - 1, p.output_shape,
                                       Len(p.output_shape))
               S(i) == kernel!FullyConnectedProducts(p.filter_shape[Len(p.filter_shape)], i)
    <2>1. E = kernel!FullyConnectedUint8ToInt16(p)
      BY <1>3 DEF kernel!Layer
    <2>2. E = [i \in kernel!Below(B) \X kernel!Below(D) |->
                  [at |-> i[2] + D * i[1], result |-> BiasedFor(S(i), i[2])]]
      BY <2>1 DEF kernel!FullyConnectedUint8ToInt16, kernel!FullyConnectedOutputs, BiasedFor
    <2>3. B = batches /\ D = channels /\ \A i : S(i) = Sum(i)
      BY <1>a, <1>b, <1>c, <1>3
    <2> HIDE DEF B, D, S, Sum
    <2>4. \A i : Fits(BiasedFor(Sum(i), i[2]), Sum(i), i[1], i[2])
      BY <1>a, <1>3, ConnectedFit
    <2> QED BY ONLY <2>2, <2>3, <2>4
  <1>4. CASE task.kernel = "FullyConnectedInt8"
    <2> DEFINE B == p.output_shape[1]
               D == p.output_shape[2]
               S(i) == kernel!FullyConnectedProducts(p.filter_shape[Len(p.filter_shape)], i)
    <2>1. E = kernel!FullyConnectedInt8(p)
      BY <1>4 DEF kernel!Layer
    <2>2. E = [i \in kernel!Below(B) \X kernel!Below(D) |->
                  [at |-> i[2] + D * i[1], result |-> Uint8For(p, S(i), i[1], i[2])]]
      BY <2>1 DEF kernel!FullyConnectedInt8, kernel!FullyConnectedOutputs2D, Uint8For
    <2>3. B = batches /\ D = channels /\ \A i : S(i) = Sum(i)
      BY <1>a, <1>b, <1>c, <1>4
    <2> HIDE DEF B, D, S, Sum
    <2>4. \A i : Fits(Uint8For(p, Sum(i), i[1], i[2]), Sum(i), i[1], i[2])
      BY <1>a, <1>4, ConnectedFit
    <2> QED BY ONLY <2>2, <2>3, <2>4
  <1>5. CASE task.kernel = "FullyConnectedInt16"
    <2> DEFINE B == p.output_shape[1]
               D == p.output_shape[2]
               S(i) == kernel!FullyConnectedProducts(p.filter_shape[Len(p.filter_shape)], i)
    <2>1. E = kernel!FullyConnectedInt16(p)
      BY <1>5 DEF kernel!Layer
    <2>2. E = [i \in kernel!Below(B) \X kernel!Below(D) |->
                  [at |-> i[2] + D * i[1], result |-> FilterFor(p, S(i), i[2])]]
      BY <2>1 DEF kernel!FullyConnectedInt16, kernel!FullyConnectedOutputs2D, FilterFor
    <2>3. B = batches /\ D = channels /\ \A i : S(i) = Sum(i)
      BY <1>a, <1>b, <1>c, <1>5
    <2> HIDE DEF B, D, S, Sum
    <2>4. \A i : Fits(FilterFor(p, Sum(i), i[2]), Sum(i), i[1], i[2])
      BY <1>a, <1>5, ConnectedFit
    <2> QED BY ONLY <2>2, <2>3, <2>4
  <1> QED BY <1>1, <1>2, <1>3, <1>4, <1>5 DEF kernel!FullyConnectedKernels

\* Fully connected layers that are not shuffled are made of the right elements.
LEMMA PlainLayersAreRight ==
    ASSUME task \in kernel!FullyConnectedTasks, task.kernel # "ShuffledFullyConnected",
           kernel!elements = kernel!Layer(task.kernel, kernel!FullyConnectedParams(task))
    PROVE  kernel!FullyConnectedIsRight
  <1> DEFINE p == kernel!FullyConnectedParams(task)
             E == kernel!elements
  <1>1. /\ task.kernel \in kernel!FullyConnectedKernels \ {"ShuffledFullyConnected"}
        /\ task.output_shape \in {<<1, 3>>, <<2, 3>>, <<2, 2, 3>>} /\ task.accum_depth = 2
        /\ task.kernel \in {"FullyConnectedInt8", "FullyConnectedInt16"} =>
               Len(task.output_shape) = 2
        /\ task.kernel = "FullyConnectedUint8ToInt16" => task.has_bias
    BY FullyConnectedTasksAre
  <1>p. /\ p = kernel!FullyConnectedParams(task) /\ E = kernel!Layer(task.kernel, p)
        /\ E = kernel!elements /\ p.output_shape = task.output_shape
    BY DEF kernel!FullyConnectedParams
  <1> HIDE DEF p, E
  <1>2. PICK batches \in {1, 2, 4} : Connects(p, batches, 3, task.accum_depth)
    BY ONLY <1>1, <1>p, FullyConnectedParamsAre
  <1> DEFINE loops == kernel!Below(batches) \X kernel!Below(3)
             b == [i \in loops |-> i[1]]
             c == [i \in loops |-> i[2]]
  <1>3. batches \in Nat \ {0} /\ 3 \in Nat \ {0} /\ task.accum_depth \in Nat \ {0}
    BY <1>1
  <1>4. \A i \in loops : /\ i = <<i[1], i[2]>> /\ i[1] \in 0 .. batches - 1
                         /\ i[2] \in 0 .. 3 - 1
    BY DEF kernel!Below
  <1>5. /\ DOMAIN E = loops
        /\ \A i \in loops :
              /\ E[i].at = i[2] + 3 * i[1]
              /\ E[i].result.products = kernel!FullyConnectedProducts(task.accum_depth, i)
              /\ kernel!ParametersFit(E[i].result, i[1], i[2])
    <2>1. task.kernel \in {"FullyConnectedInt8", "FullyConnectedInt16"} => Len(p.output_shape) = 2
      BY <1>1, <1>p
    <2>2. ComputedRows(E, batches, 3, task.accum_depth)
      BY ONLY <1>1, <1>2, <1>3, <1>p, <2>1, FullyConnectedComputed
    <2> QED BY ONLY <2>2 DEF ComputedRows, loops
  <1>6. /\ kernel!WritesEachOnce(batches * 3)
        /\ \A i \in loops : /\ kernel!elements[i].at \div 3 = b[i]
                            /\ kernel!elements[i].at % 3 = c[i]
    <2>1. DOMAIN kernel!elements = loops /\ DOMAIN b = loops /\ DOMAIN c = loops
      BY <1>5, <1>p
    <2>2. \A i \in loops : /\ b[i] \in 0 .. batches - 1 /\ c[i] \in 0 .. 3 - 1
                           /\ kernel!elements[i].at = b[i] * 3 + c[i]
      BY <1>4, <1>5, <1>p
    <2>3. \A i \in loops, j \in loops : b[i] = b[j] /\ c[i] = c[j] => i = j
      BY <1>4
    <2>4. \A u \in 0 .. batches - 1, v \in 0 .. 3 - 1 : \E i \in loops : b[i] = u /\ c[i] = v
      <3> TAKE u \in 0 .. batches - 1, v \in 0 .. 3 - 1
      <3>1. <<u, v>> \in loops
        BY DEF kernel!Below
      <3>2. b[<<u, v>>] = u /\ c[<<u, v>>] = v
        BY <3>1
      <3> QED BY <3>1, <3>2
    <2> HIDE DEF loops, b, c
    <2>5. Rows(loops, b, c, batches, 3)
      BY ONLY <2>1, <2>2, <2>3, <2>4 DEF Rows
    <2>6. kernel!WritesEachOnce(batches * 3)
      BY ONLY <1>3, <2>5, RowsWritten
    <2>7. \A i \in loops : /\ kernel!elements[i].at \div 3 = b[i]
                           /\ kernel!elements[i].at % 3 = c[i]
      BY ONLY <1>3, <2>5, RowsWritten
    <2> QED BY ONLY <2>6, <2>7
  <1>7. ASSUME NEW i \in loops PROVE ConnectedRight(E[i].result, i[1], i[2])
    <2> DEFINE products == E[i].result.products
    <2>1. /\ products = kernel!FullyConnectedProducts(task.accum_depth, i)
          /\ task.kernel # "ShuffledFullyConnected"
      BY <1>5
    <2> HIDE DEF products, loops
    <2>2. Connected(products, i[1], i[2])
      BY ONLY <1>3, <2>1, PlainProducts
    <2>3. kernel!ParametersFit(E[i].result, i[1], i[2])
      BY <1>5
    <2> QED BY ONLY <2>2, <2>3 DEF ConnectedRight, products
  <1>8. p.filter_shape[1] = 3 /\ kernel!FlatSize(p.output_shape) = batches * 3
    BY ONLY <1>2 DEF Connects
  <1>9. \A i \in DOMAIN kernel!elements :
           ConnectedRight(kernel!elements[i].result, kernel!elements[i].at \div 3,
                          kernel!elements[i].at % 3)
    <2> TAKE i \in DOMAIN kernel!elements
    <2>1. i \in loops
      BY <1>5, <1>p
    <2>2. b[i] = i[1] /\ c[i] = i[2]
      BY <2>1
    <2> HIDE DEF loops, b, c
    <2> QED BY ONLY <1>6, <1>7, <1>p, <2>1, <2>2
  <1>10. kernel!WritesEachOnce(kernel!FlatSize(p.output_shape))
    BY ONLY <1>6, <1>8
  <1> QED BY ONLY <1>8, <1>9, <1>10, <1>p, RoundsMakeConnected

\* The shuffled weights: four channels at a time, 16 elements of each.
Sixteens(n) == {d \in kernel!Below(n) : d % 16 = 0}
ShuffledSum(p, batches, n, c, i, b) ==
    [l \in Sixteens(n) \X kernel!Below(16) |->
        [input |-> IF batches = 1 THEN kernel!ShuffledInput(p, batches, n)[l[1] + l[2]]
                   ELSE kernel!ShuffledInput(p, batches, n)[4 * l[1] + 16 * b + l[2]],
         filter |-> (c * n + 4 * l[1]) + 16 * i + l[2]]]

\* Where an element of the input is after it is woven together.
LEMMA ShuffledInputIs ==
    ASSUME NEW p, NEW n \in {16, 32}, NEW b \in 0 .. 3, NEW l1 \in {0, 16}, l1 < n,
           NEW l2 \in 0 .. 15
    PROVE  /\ b = 0 => kernel!ShuffledInput(p, 1, n)[l1 + l2] = b * n + (l1 + l2)
           /\ kernel!ShuffledInput(p, 4, n)[4 * l1 + 16 * b + l2] = b * n + (l1 + l2)
  <1>1. ASSUME b = 0
        PROVE  kernel!ShuffledInput(p, 1, n)[l1 + l2] = b * n + (l1 + l2)
    <2>1. kernel!ShuffledInput(p, 1, n) = [k \in 0 .. n - 1 |-> k]
      BY DEF kernel!ShuffledInput, kernel!Below
    <2>2. l1 + l2 \in 0 .. n - 1 /\ b * n + (l1 + l2) = l1 + l2
      BY <1>1
    <2> QED BY <2>1, <2>2
  <1>2. kernel!ShuffledInput(p, 4, n)[4 * l1 + 16 * b + l2] = b * n + (l1 + l2)
    <2> DEFINE at == 4 * l1 + 16 * b + l2
    <2>1. kernel!ShuffledInput(p, 4, n) =
             [ptr \in 0 .. 4 * n - 1 |->
                 ((ptr % 64) \div 16) * n + 16 * (ptr \div 64) + (ptr % 16)]
      BY DEF kernel!ShuffledInput, kernel!Below
    <2>2. at \in 0 .. 4 * n - 1
      OBVIOUS
    <2>3. at \div 64 = l1 \div 16 /\ (at % 64) \div 16 = b /\ at % 16 = l2
          /\ 16 * (l1 \div 16) = l1
      <3>1. CASE l1 = 0
        BY <3>1
      <3>2. CASE l1 = 16
        BY <3>2
      <3> QED BY <3>1, <3>2
    <2> HIDE DEF at
    <2>4. kernel!ShuffledInput(p, 4, n)[at] =
             ((at % 64) \div 16) * n + 16 * (at \div 64) + (at % 16)
      BY <2>1, <2>2
    <2>5. kernel!ShuffledInput(p, 4, n)[at] = b * n + l1 + l2
      BY ONLY <2>3, <2>4
    <2>6. b * n + l1 + l2 = b * n + (l1 + l2)
      <3>1. b * n \in Int
        OBVIOUS
      <3> QED BY <3>1
    <2> QED BY <2>5, <2>6 DEF at
  <1> QED BY <1>1, <1>2

\* The weight read is the one of the channel and the element.
LEMMA ShuffledWeightIs ==
    ASSUME NEW n \in {16, 32}, NEW c \in {0, 4}, NEW i \in 0 .. 3,
           NEW l1 \in {0, 16}, l1 < n, NEW l2 \in 0 .. 15,
           task.kernel = "ShuffledFullyConnected", task.accum_depth = n
    PROVE  (c * n + 4 * l1) + 16 * i + l2 = WeightAt(c + i, l1 + l2)
  <1>1. WeightAt(c + i, l1 + l2) =
           (((c + i) \div 4) * (n \div 16) + (l1 + l2) \div 16) * 64 + ((c + i) % 4) * 16
              + ((l1 + l2) % 16)
    BY DEF WeightAt
  <1>2. (c + i) % 4 = i /\ (c + i) \div 4 = c \div 4
    OBVIOUS
  <1>3. (l1 + l2) % 16 = l2 /\ (l1 + l2) \div 16 = l1 \div 16
    OBVIOUS
  <1>4. ((c \div 4) * (n \div 16) + l1 \div 16) * 64 = c * n + 4 * l1
    <2>1. CASE n = 16
      BY <2>1
    <2>2. CASE n = 32
      BY <2>2
    <2> QED BY <2>1, <2>2
  <1> QED BY <1>1, <1>2, <1>3, <1>4

\* The products of the shuffled layer are those expected.
LEMMA ShuffledProductsMatch ==
    ASSUME NEW p, NEW batches \in {1, 4}, NEW n \in {16, 32}, NEW c \in {0, 4}, NEW i \in 0 .. 3,
           NEW b \in 0 .. batches - 1,
           task.kernel = "ShuffledFullyConnected", task.accum_depth = n,
           NEW products, products = ShuffledSum(p, batches, n, c, i, b)
    PROVE  Connected(products, b, c + i)
  <1> DEFINE L == Sixteens(n) \X (0 .. 15)
             T == 0 .. n - 1
             g == [l \in L |-> l[1] + l[2]]
  <1>1. Sixteens(n) = {d \in {0, 16} : d < n}
    BY DEF Sixteens, kernel!Below
  <1>2. \A l \in L : /\ l = <<l[1], l[2]>> /\ l[1] \in {0, 16} /\ l[1] < n /\ l[2] \in 0 .. 15
    BY <1>1
  <1>3. \A l1 \in {0, 16}, l2 \in 0 .. 15 : l1 < n => <<l1, l2>> \in L
    BY <1>1
  <1>4. DOMAIN products = L
    BY DEF ShuffledSum, kernel!Below
  <1> HIDE DEF L
  <1>5. \A l \in L : /\ products[l].input = b * n + (l[1] + l[2])
                     /\ products[l].filter = WeightAt(c + i, l[1] + l[2])
    <2> TAKE l \in L
    <2>1. /\ products[l].input =
                IF batches = 1 THEN kernel!ShuffledInput(p, batches, n)[l[1] + l[2]]
                ELSE kernel!ShuffledInput(p, batches, n)[4 * l[1] + 16 * b + l[2]]
          /\ products[l].filter = (c * n + 4 * l[1]) + 16 * i + l[2]
      BY <1>4 DEF ShuffledSum
    <2> DEFINE l1 == l[1]
               l2 == l[2]
    <2>2. l1 \in {0, 16} /\ l1 < n /\ l2 \in 0 .. 15
      BY <1>2
    <2> HIDE DEF l1, l2
    <2>3. (c * n + 4 * l1) + 16 * i + l2 = WeightAt(c + i, l1 + l2)
      BY <2>2, ShuffledWeightIs
    <2>4. /\ batches = 1 =>
                kernel!ShuffledInput(p, batches, n)[l1 + l2] = b * n + (l1 + l2)
          /\ batches # 1 =>
                kernel!ShuffledInput(p, batches, n)[4 * l1 + 16 * b + l2] = b * n + (l1 + l2)
      <3>1. b \in 0 .. 3 /\ (batches = 1 => b = 0) /\ (batches # 1 => batches = 4)
        OBVIOUS
      <3> QED BY <2>2, <3>1, ShuffledInputIs
    <2> QED BY ONLY <2>1, <2>3, <2>4 DEF l1, l2
  <1>6. \A l \in L : g[l] = l[1] + l[2] /\ g[l] \in T
    BY <1>2
  <1>7. \A l \in L, m \in L : g[l] = g[m] => l = m
    <2> TAKE l \in L, m \in L
    <2> HAVE g[l] = g[m]
    <2>1. l[1] + l[2] = m[1] + m[2]
      BY <1>6
    <2>2. l[1] = m[1] /\ l[2] = m[2]
      BY <1>2, <2>1
    <2> QED BY <1>2, <2>2
  <1>8. \A d \in T : \E l \in L : g[l] = d
    <2> TAKE d \in T
    <2> DEFINE l1 == 16 * (d \div 16)
               l2 == d % 16
    <2>1. l1 \in {0, 16} /\ l1 < n /\ l2 \in 0 .. 15 /\ l1 + l2 = d
      OBVIOUS
    <2> HIDE DEF l1, l2
    <2>2. <<l1, l2>> \in L
      BY <1>3, <2>1
    <2>3. g[<<l1, l2>>] = d
      BY <1>6, <2>1, <2>2
    <2> QED BY <2>2, <2>3
  <1>9. IsFiniteSet(T) /\ Cardinality(T) = n
    <2>1. n \in Nat \ {0}
      OBVIOUS
    <2>2. IsFiniteSet(0 .. n - 1) /\ Cardinality(0 .. n - 1) = n
      BY ONLY <2>1, FS_Interval
    <2> QED BY <2>2
  <1>10. g \in [L -> T]
    BY <1>6
  <1> HIDE DEF g, T
  <1>11. kernel!Cardinality(L) = kernel!Cardinality(T)
    BY ONLY <1>7, <1>8, <1>9, <1>10, OneToOneBelow
  <1>12. kernel!Cardinality(DOMAIN products) = task.accum_depth
    BY <1>4, <1>9, <1>11, SameCardinality
  <1>13. {<<products[l].input, products[l].filter>> : l \in DOMAIN products}
            = {<<b * n + d, WeightAt(c + i, d)>> : d \in T}
    <2> DEFINE pair(d) == <<b * n + d, WeightAt(c + i, d)>>
    <2>1. \A l \in L : <<products[l].input, products[l].filter>> = pair(g[l])
      BY <1>5, <1>6
    <2> HIDE DEF pair
    <2>2. {<<products[l].input, products[l].filter>> : l \in L} = {pair(d) : d \in T}
      BY ONLY <1>6, <1>8, <2>1
    <2> QED BY <1>4, <2>2 DEF pair
  <1> QED BY <1>12, <1>13 DEF Connected, T, kernel!Below

\* The rounds of its loops, and what they write.
ShuffledRounds(batches, channels) ==
    {c \in kernel!Below(channels) : c % 4 = 0} \X kernel!Below(4) \X kernel!Below(batches)

ShuffledWritten(E, p, batches, channels, n) ==
    /\ DOMAIN E = ShuffledRounds(batches, channels)
    /\ \A l \in ShuffledRounds(batches, channels) :
          /\ E[l].at = l[3] * channels + l[1] + l[2]
          /\ E[l].result =
                 kernel!ScaledResult(ShuffledSum(p, batches, n, l[1], l[2], l[3]),
                                     {"input_offset", "filter_offset"}, {l[1] + l[2]},
                                     kernel!PerTensor, FALSE)

\* The shuffled layer goes over blocks of channels, and batches.
LEMMA ShuffledComputed ==
    ASSUME NEW p, NEW batches, NEW channels, NEW n,
           batches \in {1, 4}, channels \in {4, 8},
           Connects(p, batches, channels, n),
           NEW E, E = kernel!ShuffledFullyConnected(p)
    PROVE  ShuffledWritten(E, p, batches, channels, n)
  <1> DEFINE loops == ShuffledRounds(batches, channels)
  <1>1. /\ p.filter_shape = <<channels, n>>
        /\ p.output_shape[Len(p.output_shape)] = channels
        /\ kernel!FlatSizeSkipDim(p.output_shape, Len(p.output_shape)) = batches
    BY DEF Connects
  <1>2. Len(p.filter_shape) = 2 /\ p.filter_shape[1] = channels /\ p.filter_shape[2] = n
    BY <1>1
  <1> DEFINE B == kernel!FlatSizeSkipDim(p.output_shape, Len(p.output_shape))
             D == kernel!MatchingDim(p.filter_shape, Len(p.filter_shape) - 1, p.output_shape,
                                     Len(p.output_shape))
             N == p.filter_shape[Len(p.filter_shape)]
             Sum(c, i, b) ==
                 [l \in {d \in kernel!Below(N) : d % 16 = 0} \X kernel!Below(16) |->
                     [input |-> IF B = 1 THEN kernel!ShuffledInput(p, B, N)[l[1] + l[2]]
                                ELSE kernel!ShuffledInput(p, B, N)[4 * l[1] + 16 * b + l[2]],
                      filter |-> (c * N + 4 * l[1]) + 16 * i + l[2]]]
             rounds == IF B \in {1, 4}
                       THEN {c \in kernel!Below(D) : c % 4 = 0} \X kernel!Below(4)
                               \X kernel!Below(B)
                       ELSE {}
             Result(l) == kernel!ScaledResult(Sum(l[1], l[2], l[3]),
                                              {"input_offset", "filter_offset"}, {l[1] + l[2]},
                                              kernel!PerTensor, FALSE)
  <1>3. E = [l \in rounds |-> [at |-> l[3] * D + l[1] + l[2], result |-> Result(l)]]
    BY DEF kernel!ShuffledFullyConnected
  <1>4. B = batches /\ N = n /\ D = channels
    BY <1>1, <1>2 DEF kernel!MatchingDim, kernel!Smaller
  <1>5. \A c, i, b : Sum(c, i, b) = ShuffledSum(p, batches, n, c, i, b)
    <2> HIDE DEF B, N
    <2> QED BY ONLY <1>4 DEF ShuffledSum, Sixteens, Sum
  <1>6. rounds = loops
    <2> HIDE DEF B, D
    <2> QED BY <1>4 DEF ShuffledRounds
  <1> HIDE DEF rounds, Result
  <1>7. /\ DOMAIN E = loops
        /\ \A l \in loops : E[l].at = l[3] * D + l[1] + l[2] /\ E[l].result = Result(l)
    BY ONLY <1>3, <1>6
  <1>8. \A l \in loops : E[l].at = l[3] * channels + l[1] + l[2]
    <2> HIDE DEF D
    <2> QED BY ONLY <1>4, <1>7
  <1>9. \A l : Result(l) = kernel!ScaledResult(ShuffledSum(p, batches, n, l[1], l[2], l[3]),
                                               {"input_offset", "filter_offset"}, {l[1] + l[2]},
                                               kernel!PerTensor, FALSE)
    <2> HIDE DEF Sum
    <2> QED BY ONLY <1>5 DEF Result
  <1> HIDE DEF Sum
  <1>10. ShuffledWritten(E, p, batches, channels, n)
    <2>1. loops = ShuffledRounds(batches, channels)
      OBVIOUS
    <2> HIDE DEF loops
    <2> QED BY ONLY <1>7, <1>8, <1>9, <2>1 DEF ShuffledWritten
  <1> QED BY <1>10

\* The shuffled layer is made of the right elements.
LEMMA ShuffledLayersAreRight ==
    ASSUME task \in kernel!FullyConnectedTasks, task.kernel = "ShuffledFullyConnected",
           kernel!elements = kernel!Layer(task.kernel, kernel!FullyConnectedParams(task))
    PROVE  kernel!FullyConnectedIsRight
  <1> DEFINE p == kernel!FullyConnectedParams(task)
             E == kernel!elements
             n == task.accum_depth
  <1>1. /\ task.has_bias /\ n \in {16, 32}
        /\ \E batches \in {1, 4}, channels \in {4, 8} : task.output_shape = <<batches, channels>>
    BY FullyConnectedTasksAre
  <1>p. /\ p = kernel!FullyConnectedParams(task) /\ E = kernel!elements
        /\ E = kernel!ShuffledFullyConnected(p) /\ n = task.accum_depth
    BY DEF kernel!Layer
  <1> HIDE DEF p, E, n
  <1>2. PICK batches \in {1, 4}, channels \in {4, 8} : task.output_shape = <<batches, channels>>
    BY <1>1
  <1>3. batches \in Nat \ {0} /\ channels \in Nat \ {0}
    OBVIOUS
  <1>4. Connects(p, batches, channels, n)
    BY ONLY <1>2, <1>3, <1>p, FullyConnectedParamsAre
  <1> DEFINE loops == ShuffledRounds(batches, channels)
             b == [l \in loops |-> l[3]]
             c == [l \in loops |-> l[1] + l[2]]
             sum(l) == ShuffledSum(p, batches, n, l[1], l[2], l[3])
  <1>5. /\ DOMAIN E = loops
        /\ \A l \in loops :
              /\ E[l].at = l[3] * channels + l[1] + l[2]
              /\ E[l].result = kernel!ScaledResult(sum(l), {"input_offset", "filter_offset"},
                                                   {l[1] + l[2]}, kernel!PerTensor, FALSE)
    <2>1. batches \in {1, 4} /\ channels \in {4, 8} /\ loops = ShuffledRounds(batches, channels)
      OBVIOUS
    <2>2. \A l : sum(l) = ShuffledSum(p, batches, n, l[1], l[2], l[3])
      OBVIOUS
    <2> HIDE DEF loops, sum
    <2>3. ShuffledWritten(E, p, batches, channels, n)
      BY ONLY <1>4, <1>p, <2>1, ShuffledComputed
    <2>4. /\ DOMAIN E = loops
          /\ \A l \in loops :
                /\ E[l].at = l[3] * channels + l[1] + l[2]
                /\ E[l].result =
                       kernel!ScaledResult(ShuffledSum(p, batches, n, l[1], l[2], l[3]),
                                           {"input_offset", "filter_offset"}, {l[1] + l[2]},
                                           kernel!PerTensor, FALSE)
      BY ONLY <2>1, <2>3 DEF ShuffledWritten
    <2> QED BY ONLY <2>2, <2>4
  <1>6. \A l \in loops : /\ l = <<l[1], l[2], l[3]>> /\ l[1] \in {0, 4} /\ l[1] < channels
                         /\ l[2] \in 0 .. 3 /\ l[3] \in 0 .. batches - 1
    BY DEF ShuffledRounds, kernel!Below
  <1>7. \A u \in {0, 4}, v \in 0 .. 3, w \in 0 .. batches - 1 :
           u < channels => <<u, v, w>> \in loops
    BY DEF ShuffledRounds, kernel!Below
  <1> HIDE DEF loops, sum
  <1>8. /\ kernel!WritesEachOnce(batches * channels)
        /\ \A l \in loops : /\ kernel!elements[l].at \div channels = b[l]
                            /\ kernel!elements[l].at % channels = c[l]
    <2>1. DOMAIN kernel!elements = loops
      BY <1>5, <1>p
    <2>2. \A l \in loops : /\ b[l] \in 0 .. batches - 1 /\ c[l] \in 0 .. channels - 1
                           /\ kernel!elements[l].at = b[l] * channels + c[l]
      <3> TAKE l \in loops
      <3>1. b[l] \in 0 .. batches - 1 /\ c[l] \in 0 .. channels - 1
        BY <1>6
      <3>2. b[l] * channels + c[l] = l[3] * channels + l[1] + l[2]
        <4>1. b[l] = l[3] /\ c[l] = l[1] + l[2] /\ l[3] * channels \in Int /\ l[1] \in Int
              /\ l[2] \in Int
          BY <1>6
        <4> HIDE DEF b, c
        <4> QED BY ONLY <4>1
      <3> QED BY <1>5, <1>p, <3>1, <3>2
    <2>3. \A l \in loops, m \in loops : b[l] = b[m] /\ c[l] = c[m] => l = m
      <3> TAKE l \in loops, m \in loops
      <3> HAVE b[l] = b[m] /\ c[l] = c[m]
      <3>1. l[3] = m[3] /\ l[1] + l[2] = m[1] + m[2]
        OBVIOUS
      <3>2. l[1] = m[1] /\ l[2] = m[2]
        BY <1>6, <3>1
      <3> QED BY <1>6, <3>1, <3>2
    <2>4. \A u \in 0 .. batches - 1, v \in 0 .. channels - 1 : \E l \in loops : b[l] = u /\ c[l] = v
      <3> TAKE u \in 0 .. batches - 1, v \in 0 .. channels - 1
      <3> DEFINE l1 == 4 * (v \div 4)
                 l2 == v % 4
      <3>1. l1 \in {0, 4} /\ l1 < channels /\ l2 \in 0 .. 3 /\ l1 + l2 = v
        OBVIOUS
      <3> HIDE DEF l1, l2
      <3>2. <<l1, l2, u>> \in loops
        BY <1>7, <3>1
      <3>3. b[<<l1, l2, u>>] = u /\ c[<<l1, l2, u>>] = v
        BY <3>1, <3>2
      <3> QED BY <3>2, <3>3
    <2> HIDE DEF b, c
    <2>5. Rows(loops, b, c, batches, channels)
      BY ONLY <2>1, <2>2, <2>3, <2>4 DEF Rows
    <2>6. kernel!WritesEachOnce(batches * channels)
      BY ONLY <1>3, <2>5, RowsWritten
    <2>7. \A l \in loops : /\ kernel!elements[l].at \div channels = b[l]
                           /\ kernel!elements[l].at % channels = c[l]
      BY ONLY <1>3, <2>5, RowsWritten
    <2> QED BY ONLY <2>6, <2>7
  <1>9. ASSUME NEW l \in loops PROVE ConnectedRight(E[l].result, l[3], l[1] + l[2])
    <2> DEFINE r == E[l].result
               s == sum(l)
    <2>1. r = kernel!ScaledResult(s, {"input_offset", "filter_offset"}, {l[1] + l[2]},
                                  kernel!PerTensor, FALSE)
      BY <1>5
    <2>2. s = ShuffledSum(p, batches, n, l[1], l[2], l[3])
      BY DEF sum
    <2> HIDE DEF r, s
    <2>3. /\ r.products = s /\ r.offsets = {"input_offset", "filter_offset"}
          /\ r.bias = {l[1] + l[2]}
      BY ONLY <2>1 DEF kernel!ScaledResult
    <2>4. Connected(s, l[3], l[1] + l[2])
      <3>1. l[1] \in {0, 4} /\ l[2] \in 0 .. 3 /\ l[3] \in 0 .. batches - 1
        BY <1>6
      <3>2. task.kernel = "ShuffledFullyConnected" /\ batches \in {1, 4}
        OBVIOUS
      <3> QED BY ONLY <1>1, <1>p, <2>2, <3>1, <3>2, ShuffledProductsMatch
    <2>5. kernel!ParametersFit(r, l[3], l[1] + l[2])
      <3>1. /\ task.kernel \notin kernel!HybridKernels
            /\ task.kernel \notin kernel!PerChannelKernels
            /\ task.kernel \notin kernel!Int8Kernels
        BY DEF kernel!HybridKernels, kernel!PerChannelKernels, kernel!Int8Kernels
      <3> QED BY ONLY <1>1, <2>3, <3>1 DEF kernel!ParametersFit
    <2> QED BY <2>3, <2>4, <2>5 DEF ConnectedRight, r
  <1>10. p.filter_shape[1] = channels /\ kernel!FlatSize(p.output_shape) = batches * channels
    BY ONLY <1>4 DEF Connects
  <1>11. \A l \in DOMAIN kernel!elements :
            ConnectedRight(kernel!elements[l].result, kernel!elements[l].at \div channels,
                           kernel!elements[l].at % channels)
    <2> TAKE l \in DOMAIN kernel!elements
    <2>1. l \in loops
      BY <1>5, <1>p
    <2>2. b[l] = l[3] /\ c[l] = l[1] + l[2]
      BY <2>1
    <2> HIDE DEF b, c
    <2> QED BY ONLY <1>8, <1>9, <1>p, <2>1, <2>2
  <1>12. kernel!WritesEachOnce(kernel!FlatSize(p.output_shape))
    BY ONLY <1>8, <1>10
  <1> QED BY ONLY <1>10, <1>11, <1>12, <1>p, RoundsMakeConnected

\* A kernel is of one kind.
LEMMA KindsDiffer ==
    ASSUME NEW k, k \in kernel!WindowKernels \/ k \in kernel!FullyConnectedKernels
    PROVE  /\ k \in kernel!WindowKernels => k \notin kernel!FullyConnectedKernels
           /\ k \in kernel!FullyConnectedKernels => k \notin kernel!WindowKernels
           /\ k \notin kernel!ElementwiseKernels
           /\ k \notin kernel!MoveKernels \cup kernel!ReduceKernels
  <1> USE DEF kernel!WindowKernels, kernel!ConvKernels, kernel!DepthwiseKernels,
              kernel!TransposeKernels, kernel!PoolKernels, kernel!AverageKernels,
              kernel!MaximumKernels, kernel!FullyConnectedKernels
  <1>1. k \in kernel!WindowKernels => k \notin kernel!FullyConnectedKernels
    OBVIOUS
  <1>2. k \notin kernel!FlatKernels
    BY DEF kernel!FlatKernels
  <1>3. k \notin kernel!Broadcast4DKernels
    BY DEF kernel!Broadcast4DKernels
  <1>4. k \notin kernel!Broadcast5DKernels /\ k # "BroadcastAddFivefold"
    BY DEF kernel!Broadcast5DKernels
  <1>5. k \notin kernel!MoveKernels
    BY DEF kernel!MoveKernels
  <1>6. k \notin kernel!ReduceKernels
    BY DEF kernel!ReduceKernels, kernel!AxisKernels, kernel!Mean4DKernels
  <1>7. k \notin kernel!ElementwiseKernels
    BY ONLY <1>2, <1>3, <1>4 DEF kernel!ElementwiseKernels
  <1> QED BY ONLY <1>1, <1>5, <1>6, <1>7

\* Tasks of operands are of elementwise kernels.
LEMMA ElementwiseTasksAre ==
    ASSUME NEW t \in kernel!ElementwiseTasks
    PROVE  t.kernel \in kernel!ElementwiseKernels
  <1> DEFINE F(k, shape) == kernel!ElementwiseTask(k, shape, shape, 0, 0, FALSE)
             G(shape, shifts) ==
                kernel!ElementwiseTask("AddInt16", shape, shape, shifts[1], shifts[2], TRUE)
             H(k, shape1, shape2) == kernel!ElementwiseTask(k, shape1, shape2, -1, -2, FALSE)
             I(shape1, shape2) ==
                kernel!ElementwiseTask("BroadcastAddFivefold", shape1, shape2, 0, 0, FALSE)
             Flat == {F(k, shape) : k \in kernel!FlatKernels, shape \in kernel!Shapes({0, 1, 4})}
             Shifted == {G(shape, shifts) : shape \in kernel!Shapes({4}),
                                            shifts \in {<<0, 0>>, <<-1, 0>>, <<0, -2>>}}
             Broadcast == {H(k, shape1, shape2) :
                              k \in kernel!Broadcast4DKernels \cup kernel!Broadcast5DKernels,
                              shape1 \in kernel!Shapes({1, 4}), shape2 \in kernel!Shapes({1, 4})}
             Fivefold == {u \in {I(shape1, shape2) : shape1 \in kernel!Shapes({2, 5}),
                                                     shape2 \in kernel!Shapes({2, 5})} :
                             kernel!ProcessBroadcastShapes(u.input1_shape, u.input2_shape).category
                                \in {"kFirstInputBroadcastsFast", "kSecondInputBroadcastsFast"}}
  <1>1. /\ \A k, shape : F(k, shape).kernel = k
        /\ \A shape, shifts : G(shape, shifts).kernel = "AddInt16"
        /\ \A k, shape1, shape2 : H(k, shape1, shape2).kernel = k
        /\ \A shape1, shape2 : I(shape1, shape2).kernel = "BroadcastAddFivefold"
    BY DEF kernel!ElementwiseTask
  <1>2. kernel!ElementwiseTasks = UNION {Flat, Shifted, Broadcast, Fivefold}
    BY DEF kernel!ElementwiseTasks
  <1> HIDE DEF F, G, H, I
  <1>3. ASSUME t \in Flat PROVE t.kernel \in kernel!FlatKernels
    BY ONLY <1>1, <1>3
  <1>4. ASSUME t \in Shifted PROVE t.kernel = "AddInt16"
    BY ONLY <1>1, <1>4
  <1>5. ASSUME t \in Broadcast
        PROVE  t.kernel \in kernel!Broadcast4DKernels \cup kernel!Broadcast5DKernels
    BY ONLY <1>1, <1>5
  <1>6. ASSUME t \in Fivefold PROVE t.kernel = "BroadcastAddFivefold"
    BY ONLY <1>1, <1>6
  <1> HIDE DEF Flat, Shifted, Broadcast, Fivefold
  <1>7. t \in Flat \/ t \in Shifted \/ t \in Broadcast \/ t \in Fivefold
    BY <1>2
  <1>8. "AddInt16" \in kernel!FlatKernels
    BY DEF kernel!FlatKernels
  <1> QED BY <1>3, <1>4, <1>5, <1>6, <1>7, <1>8 DEF kernel!ElementwiseKernels

\* Tasks of tensors are of kernels that move or reduce.
LEMMA TensorTasksAre ==
    ASSUME NEW t \in kernel!TensorTasks
    PROVE  t.kernel \in kernel!MoveKernels \cup kernel!ReduceKernels
  <1>1. CASE t \in kernel!ConcatenationTasks
    BY <1>1 DEF kernel!ConcatenationTasks, kernel!MoveKernels
  <1>2. CASE t \in kernel!PadTasks
    <2> DEFINE Inside ==
                  UNION {{[kernel |-> "PadImageStyle", input_shape |-> shape,
                           output_shape |-> [i \in DOMAIN shape |-> shape[i] + left[i] + right[i]],
                           left_padding |-> left, right_padding |-> right] :
                             left \in [DOMAIN shape -> 0 .. 1],
                             right \in [DOMAIN shape -> {0, 2}]} :
                         shape \in {<<2>>, <<2, 3>>, <<1, 2, 2>>}}
               Around == {[kernel |-> "PadImageStyle", input_shape |-> <<1, 2, 1, 2>>,
                           output_shape |-> <<2, 3, 2, 3>>, left_padding |-> left,
                           right_padding |-> [i \in 1 .. 4 |-> 1 - left[i]]] :
                              left \in [1 .. 4 -> 0 .. 1]}
    <2>1. kernel!PadTasks = Inside \cup Around
      BY DEF kernel!PadTasks
    <2>2. ASSUME t \in Inside PROVE t.kernel = "PadImageStyle"
      BY <2>2
    <2>3. ASSUME t \in Around PROVE t.kernel = "PadImageStyle"
      BY <2>3
    <2> HIDE DEF Inside, Around
    <2>4. t.kernel = "PadImageStyle"
      BY ONLY <1>2, <2>1, <2>2, <2>3
    <2> QED BY <2>4 DEF kernel!MoveKernels
  <1>3. CASE t \in kernel!StridedSliceTasks
    <2> DEFINE Of(axis, value, other) == [i \in 1 .. 2 |-> IF i = axis THEN value ELSE other]
               Masked(axis, mask, masked) == (IF mask \in masked THEN {axis} ELSE {})
               Slice(axis, start, stop, stride, masked) ==
                  [kernel |-> "StridedSlice", input_shape |-> <<3, 3>>,
                   start |-> Of(axis, start, 0), stop |-> Of(axis, stop, 3),
                   strides |-> Of(axis, stride, 1),
                   begin_mask |-> Masked(axis, "begin", masked),
                   end_mask |-> Masked(axis, "end", masked),
                   shrink_axis_mask |-> Masked(axis, "shrink", masked), axis |-> axis]
               Whole == {Slice(axis, start, stop, stride, masked) :
                            axis \in 1 .. 2, start \in -5 .. 5, stop \in -5 .. 5,
                            stride \in {-2, -1, 1, 2}, masked \in SUBSET {"begin", "end"}}
               Shrunk == {Slice(axis, start, stop, 1, {"shrink"}) :
                             axis \in 1 .. 2, start \in -3 .. 2, stop \in {-1, 0, 1}}
    <2>1. kernel!StridedSliceTasks = Whole \cup Shrunk
      BY DEF kernel!StridedSliceTasks
    <2>2. \A axis, start, stop, stride, masked :
             Slice(axis, start, stop, stride, masked).kernel = "StridedSlice"
      OBVIOUS
    <2> HIDE DEF Slice
    <2>3. ASSUME t \in Whole PROVE t.kernel = "StridedSlice"
      <3>1. PICK axis \in 1 .. 2, start \in -5 .. 5, stop \in -5 .. 5,
                 stride \in {-2, -1, 1, 2}, masked \in SUBSET {"begin", "end"} :
                   t = Slice(axis, start, stop, stride, masked)
        BY <2>3
      <3> QED BY ONLY <2>2, <3>1
    <2>4. t \in Shrunk => t.kernel = "StridedSlice"
      BY ONLY <2>2 DEF Shrunk
    <2> HIDE DEF Whole, Shrunk
    <2>5. t.kernel = "StridedSlice"
      BY ONLY <1>3, <2>1, <2>3, <2>4
    <2> QED BY <2>5 DEF kernel!MoveKernels
  <1>4. CASE t \in kernel!SpaceTasks
    BY <1>4 DEF kernel!SpaceTasks, kernel!MoveKernels
  <1>5. CASE t \in kernel!ResizeTasks
    BY <1>5 DEF kernel!ResizeTasks, kernel!MoveKernels
  <1>6. CASE t \in kernel!ArgMinMaxTasks
    <2> DEFINE Left(shape, axis) ==
                  kernel!Without(shape, kernel!AxesMeant(shape, <<axis>>), FALSE)
               Compared(shape) ==
                  {[kernel |-> "ArgMinMax", input_shape |-> shape, axis |-> axis,
                    output_shape |-> Left(shape, axis)] :
                          axis \in -Len(shape) .. Len(shape) - 1}
    <2>1. kernel!ArgMinMaxTasks = UNION {Compared(shape) : shape \in kernel!Shapes({1, 3})}
      BY DEF kernel!ArgMinMaxTasks
    <2>2. ASSUME NEW shape, t \in Compared(shape) PROVE t.kernel = "ArgMinMax"
      <3> HIDE DEF Left
      <3> QED BY <2>2
    <2> HIDE DEF Compared
    <2>3. t.kernel = "ArgMinMax"
      BY ONLY <1>6, <2>1, <2>2
    <2> QED BY <2>3 DEF kernel!MoveKernels
  <1>7. CASE t \in kernel!ReduceTasks
    <2> DEFINE Reduced ==
                  UNION {{[kernel |-> k, input_shape |-> shape, axis |-> axis,
                           output_shape |->
                              kernel!Without(shape, kernel!AxesMeant(shape, axis), keep_dims)] :
                             k \in kernel!AxisKernels, keep_dims \in BOOLEAN,
                             axis \in UNION {[1 .. n -> -Len(shape) .. Len(shape)] :
                                               n \in 0 .. 2}} :
                         shape \in kernel!Shapes({0, 2}) \cup {<<2, 3, 2>>}}
               Means == {[kernel |-> k, input_shape |-> shape, axis |-> <<1, 2>>,
                          output_shape |-> <<shape[1], 1, 1, shape[4]>>] :
                             k \in kernel!Mean4DKernels, shape \in kernel!Shapes({4})}
    <2>1. kernel!ReduceTasks = Reduced \cup Means
      BY DEF kernel!ReduceTasks
    <2>2. ASSUME t \in Reduced PROVE t.kernel \in kernel!AxisKernels
      BY <2>2
    <2>3. ASSUME t \in Means PROVE t.kernel \in kernel!Mean4DKernels
      BY <2>3
    <2> HIDE DEF Reduced, Means
    <2>4. t.kernel \in kernel!AxisKernels \cup kernel!Mean4DKernels
      BY ONLY <1>7, <2>1, <2>2, <2>3
    <2> QED BY ONLY <2>4 DEF kernel!ReduceKernels
  <1> QED BY <1>1, <1>2, <1>3, <1>4, <1>5, <1>6, <1>7 DEF kernel!TensorTasks

\* A layer's tensors are what the tasks of its kind give it.
LEMMA LayersHaveTheirTasks ==
    ASSUME NEW t \in kernel!Tasks
    PROVE  /\ t.kernel \in kernel!WindowKernels =>
                 /\ t \in kernel!WindowTasks
                 /\ kernel!Dilatable(t.kernel) \/ (t.height.dilation = 1 /\ t.width.dilation = 1)
           /\ t.kernel \in kernel!FullyConnectedKernels => t \in kernel!FullyConnectedTasks
  <1>1. CASE /\ t \in kernel!WindowTasks
             /\ kernel!Dilatable(t.kernel) \/ (t.height.dilation = 1 /\ t.width.dilation = 1)
    <2>1. t.kernel \notin kernel!FullyConnectedKernels
      <3>1. t.kernel \in kernel!WindowKernels
        BY ONLY <1>1, WindowTasksAre
      <3> QED BY ONLY <3>1, KindsDiffer
    <2> QED BY <1>1, <2>1
  <1>2. CASE t \in kernel!FullyConnectedTasks
    <2>1. t.kernel \in kernel!FullyConnectedKernels
      BY <1>2, FullyConnectedTasksAre DEF kernel!FullyConnectedKernels
    <2>2. t.kernel \notin kernel!WindowKernels
      BY ONLY <2>1, KindsDiffer
    <2> QED BY <1>2, <2>2
  <1>3. CASE t \in kernel!ElementwiseTasks
    <2>1. t.kernel \in kernel!ElementwiseKernels
      BY <1>3, ElementwiseTasksAre
    <2> QED BY ONLY <2>1, KindsDiffer
  <1>4. CASE t \in kernel!TensorTasks
    <2>1. t.kernel \in kernel!MoveKernels \cup kernel!ReduceKernels
      BY <1>4, TensorTasksAre
    <2> QED BY ONLY <2>1, KindsDiffer
  <1> QED BY <1>1, <1>2, <1>3, <1>4 DEF kernel!Tasks

\* What is computed of a task of a layer is what the layer's kernel writes.
LayerInv ==
    /\ task \in kernel!Tasks
    /\ output # kernel!NotRun =>
          /\ task.kernel \in kernel!WindowKernels =>
                kernel!elements = kernel!Layer(task.kernel, kernel!WindowParams(task))
          /\ task.kernel \in kernel!FullyConnectedKernels =>
                kernel!elements = kernel!Layer(task.kernel, kernel!FullyConnectedParams(task))

\* A kernel writes what is expected of its task.
LEMMA LayersComputed ==
    ASSUME LayerInv, kernel!Next
    PROVE  LayerInv'
  <1>1. task' = task
    BY DEF kernel!Next, kernel!Eval
  <1>2. ASSUME task.kernel \in kernel!WindowKernels
        PROVE  kernel!elements' = kernel!Layer(task.kernel, kernel!WindowParams(task))
    <2>1. /\ task.kernel \notin kernel!FullyConnectedKernels
          /\ task.kernel \notin kernel!ElementwiseKernels
          /\ task.kernel \notin kernel!MoveKernels \cup kernel!ReduceKernels
      BY ONLY <1>2, KindsDiffer
    <2> QED BY <1>2, <2>1 DEF kernel!Next, kernel!Eval, kernel!elements
  <1>3. ASSUME task.kernel \in kernel!FullyConnectedKernels
        PROVE  kernel!elements' = kernel!Layer(task.kernel, kernel!FullyConnectedParams(task))
    <2>1. /\ task.kernel \notin kernel!WindowKernels
          /\ task.kernel \notin kernel!ElementwiseKernels
          /\ task.kernel \notin kernel!MoveKernels \cup kernel!ReduceKernels
      BY ONLY <1>3, KindsDiffer
    <2> QED BY <1>3, <2>1 DEF kernel!Next, kernel!Eval, kernel!elements
  <1> QED BY <1>1, <1>2, <1>3 DEF LayerInv

\* Whatever a kernel writes of a task is right.
LEMMA LayerInvIsRight ==
    ASSUME LayerInv
    PROVE  kernel!LayersAreRight
  <1> SUFFICES ASSUME output # kernel!NotRun
               PROVE  /\ task.kernel \in kernel!WindowKernels \ kernel!PoolKernels =>
                            kernel!WindowedIsRight
                      /\ task.kernel \in kernel!FullyConnectedKernels =>
                            kernel!FullyConnectedIsRight
                      /\ task.kernel \in kernel!PoolKernels => kernel!PooledIsRight
    BY DEF kernel!LayersAreRight
  <1>1. task \in kernel!Tasks
    BY DEF LayerInv
  <1>2. ASSUME task.kernel \in kernel!WindowKernels
        PROVE  /\ task.height \in kernel!Dimensions /\ task.width \in kernel!Dimensions
               /\ kernel!Dilatable(task.kernel)
                     \/ (task.height.dilation = 1 /\ task.width.dilation = 1)
               /\ kernel!elements = kernel!Layer(task.kernel, kernel!WindowParams(task))
    <2>1. task \in kernel!WindowTasks
      BY <1>1, <1>2, LayersHaveTheirTasks
    <2>2. task.height \in kernel!Dimensions /\ task.width \in kernel!Dimensions
      BY <2>1, WindowTasksAre
    <2>3. kernel!Dilatable(task.kernel) \/ (task.height.dilation = 1 /\ task.width.dilation = 1)
      BY <1>1, <1>2, LayersHaveTheirTasks
    <2> QED BY <1>2, <2>2, <2>3 DEF LayerInv
  <1>3. ASSUME task.kernel \in kernel!WindowKernels \ kernel!PoolKernels
        PROVE  kernel!WindowedIsRight
    <2>1. CASE task.kernel \in kernel!ConvKernels
      BY <1>2, <1>3, <2>1, ConvolutionsAreRight
    <2>2. CASE task.kernel \in kernel!DepthwiseKernels
      BY <1>2, <1>3, <2>2, DepthwiseAreRight
    <2>3. CASE task.kernel \in kernel!TransposeKernels
      BY <1>2, <1>3, <2>3, TransposedAreRight
    <2> QED BY <1>3, <2>1, <2>2, <2>3 DEF kernel!WindowKernels
  <1>4. ASSUME task.kernel \in kernel!PoolKernels
        PROVE  kernel!PooledIsRight
    <2>1. task.kernel \in kernel!WindowKernels
      BY <1>4 DEF kernel!WindowKernels
    <2>2. ~kernel!Dilatable(task.kernel)
      BY <1>4 DEF kernel!Dilatable, kernel!ConvKernels, kernel!DepthwiseKernels,
         kernel!PoolKernels, kernel!AverageKernels, kernel!MaximumKernels
    <2> QED BY <1>2, <1>4, <2>1, <2>2, PoolsAreRight
  <1>5. ASSUME task.kernel \in kernel!FullyConnectedKernels
        PROVE  kernel!FullyConnectedIsRight
    <2>1. task \in kernel!FullyConnectedTasks
      BY <1>1, <1>5, LayersHaveTheirTasks
    <2>2. kernel!elements = kernel!Layer(task.kernel, kernel!FullyConnectedParams(task))
      BY <1>5 DEF LayerInv
    <2> QED BY ONLY <2>1, <2>2, PlainLayersAreRight, ShuffledLayersAreRight
  <1> QED BY <1>3, <1>4, <1>5

\* Every layer of the firmware is made of the right elements (see
\* kernel!LayersAreRight): for images, filters, strides and dilations of any
\* sizes, among the other computations.
THEOREM LayersAreRightCorrect == Spec => []LayersAreRight
  <1> DEFINE I == computation = "kernel" => LayerInv
  <1>1. Init => I
    BY DEF Init, kernel!Init, LayerInv
  <1>2. I /\ [Next]_vars => I'
    <2> SUFFICES ASSUME I, [Next]_vars, computation' = "kernel" PROVE LayerInv'
      OBVIOUS
    <2>1. CASE KernelNext
      BY <2>1, LayersComputed DEF KernelNext
    <2>2. CASE FixedPointNext \/ MacNext
      BY <2>2 DEF FixedPointNext, MacNext
    <2>3. CASE UNCHANGED vars
      BY <2>3 DEF vars, kernelVars, LayerInv, kernel!elements
    <2> QED BY <2>1, <2>2, <2>3 DEF Next
  <1>3. I => LayersAreRight
    BY LayerInvIsRight DEF LayersAreRight
  <1> QED BY <1>1, <1>2, <1>3, PTL DEF Spec

=============================================================================
