----------------------- MODULE ConfidenceEngineProofs -----------------------
(***************************************************************************)
(* Proofs about ConfidenceEngine: a detection whose mask is missing, or    *)
(* does not overlap its box, scores below human_review, whatever the       *)
(* detector, CLIP and SAM 2 say of it.                                     *)
(***************************************************************************)
EXTENDS ConfidenceEngine, TLAPS

-----------------------------------------------------------------------------
(* Arithmetic that the SMT solver does not find by itself.                 *)

LEMMA ScoreBounds ==
    /\ \A x \in Score : x \in Nat /\ x <= 10000
    /\ \A x \in Nat : x <= 10000 => x \in Score
  BY SMT DEF Score, Unit

LEMMA SquareNonNegative ==
    ASSUME NEW x \in Int
    PROVE  x * x >= 0
  OBVIOUS

LEMMA ProductMonotonic ==
    ASSUME NEW a \in Nat, NEW b \in Nat, NEW c \in Nat, NEW d \in Nat, a <= c, b <= d
    PROVE  a * b <= c * d
<1>1. a * b <= c * b
  <2>1. (c - a) * b >= 0
    OBVIOUS
  <2> QED
    BY <2>1
<1>2. c * b <= c * d
  <2>1. c * (d - b) >= 0
    OBVIOUS
  <2> QED
    BY <2>1
<1> QED
  BY <1>1, <1>2

-----------------------------------------------------------------------------
(* Of three signals and a zero: the spread, and the weighted sum.          *)
Spread3(d, c, q) == 4 * (d * d + c * c + q * q) - (d + c + q) * (d + c + q)
Weighted(d, c, q) == 65 * d + 55 * c + 45 * q

(* The spread grows with the square of the weighted sum: Cauchy-Schwarz,   *)
(* as a sum of three squares.                                              *)
LEMMA SpreadBound ==
    ASSUME NEW d \in Nat, NEW c \in Nat, NEW q \in Nat
    PROVE  /\ Spread3(d, c, q) \in Int
           /\ 9125 * Spread3(d, c, q) >= Weighted(d, c, q) * Weighted(d, c, q)
<1> DEFINE V == Spread3(d, c, q)
           M == Weighted(d, c, q) * Weighted(d, c, q)
           A == (22 * d - 23 * c) * (22 * d - 23 * c)
           B == (21 * d - 23 * q) * (21 * d - 23 * q)
           C == (21 * c - 22 * q) * (21 * c - 22 * q)
<1>1. 10626 * (9125 * V - M) = 266700 * A + 265100 * B + 266800 * C
  BY SMT DEF Spread3, Weighted
<1>2. A >= 0 /\ B >= 0 /\ C >= 0
  <2>1. 22 * d - 23 * c \in Int /\ 21 * d - 23 * q \in Int /\ 21 * c - 22 * q \in Int
    OBVIOUS
  <2> QED
    BY <2>1, SquareNonNegative, SMT
<1>3. V \in Int /\ M \in Int /\ A \in Int /\ B \in Int /\ C \in Int
  BY SMT DEF Spread3, Weighted
<1> HIDE DEF V, M, A, B, C
<1>4. 9125 * V >= M
  BY <1>1, <1>2, <1>3, SMT
<1> QED
  BY <1>3, <1>4 DEF V, M

Spread4(d, c, q, b) ==
    4 * (d * d + c * c + q * q + b * b) - (d + c + q + b) * (d + c + q + b)

(* The spread is never more than that of two ones and two zeros.           *)
LEMMA SpreadRange ==
    ASSUME NEW d \in Nat, NEW c \in Nat, NEW q \in Nat, NEW b \in Nat,
           d <= 10000, c <= 10000, q <= 10000, b <= 10000
    PROVE  Spread4(d, c, q, b) \in Nat /\ Spread4(d, c, q, b) <= 400000000
<1> DEFINE S == d + c + q + b
           V == Spread4(d, c, q, b)
           T == S * S
           R == (S - 20000) * (S - 20000)
           D == d * d
           C == c * c
           Q == q * q
           B == b * b
<1>1. V >= 0
  <2> DEFINE E1 == (d - c) * (d - c)
             E2 == (d - q) * (d - q)
             E3 == (d - b) * (d - b)
             E4 == (c - q) * (c - q)
             E5 == (c - b) * (c - b)
             E6 == (q - b) * (q - b)
  <2>1. E1 >= 0 /\ E2 >= 0 /\ E3 >= 0 /\ E4 >= 0 /\ E5 >= 0 /\ E6 >= 0
    <3>1. /\ d - c \in Int /\ d - q \in Int /\ d - b \in Int
          /\ c - q \in Int /\ c - b \in Int /\ q - b \in Int
      OBVIOUS
    <3> QED
      BY <3>1, SquareNonNegative, SMT
  <2>2. V = E1 + E2 + E3 + E4 + E5 + E6
    BY SMT DEF Spread4
  <2>3. E1 \in Int /\ E2 \in Int /\ E3 \in Int /\ E4 \in Int /\ E5 \in Int /\ E6 \in Int
    BY SMT
  <2> HIDE DEF V, E1, E2, E3, E4, E5, E6
  <2> QED
    BY <2>1, <2>2, <2>3, SMT
<1>2. D \in Nat /\ D <= 10000 * d
  BY ProductMonotonic, SMT
<1>3. C \in Nat /\ C <= 10000 * c
  BY ProductMonotonic, SMT
<1>4. Q \in Nat /\ Q <= 10000 * q
  BY ProductMonotonic, SMT
<1>5. B \in Nat /\ B <= 10000 * b
  BY ProductMonotonic, SMT
<1>6. S \in Nat /\ T \in Int /\ R \in Int /\ S = d + c + q + b
  BY SMT
<1>7. R >= 0
  <2>1. S - 20000 \in Int
    BY SMT
  <2> HIDE DEF S
  <2> QED
    BY <2>1, SquareNonNegative, SMT
<1>8. R = T - 40000 * S + 400000000
  BY SMT
<1>9. V = 4 * (D + C + Q + B) - T /\ V \in Int
  BY SMT DEF Spread4
<1> HIDE DEF V, T, R, D, C, Q, B, S
<1>10. V <= 400000000
  BY <1>2, <1>3, <1>4, <1>5, <1>6, <1>7, <1>8, <1>9, SMT
<1>11. V \in Nat
  BY <1>1, <1>9, SMT
<1> QED
  BY <1>10, <1>11 DEF V

(* The terms of the series stay between 0 and 1 where it is used.          *)
LEMMA SeriesTerm ==
    ASSUME NEW x \in Nat, NEW t \in Nat, x <= 7500, t <= 10000
    PROVE  /\ x * t \in Nat
           /\ 10000 - (x * t) \div 10000 \in Nat
           /\ 10000 - (x * t) \div 20000 \in Nat
           /\ 10000 - (x * t) \div 30000 \in Nat
           /\ 10000 - (x * t) \div 40000 \in Nat
           /\ 10000 - (x * t) \div 50000 \in Nat
           /\ 10000 - (x * t) \div 60000 \in Nat
<1> DEFINE P == x * t
<1>1. P \in Nat /\ P <= 75000000
  BY ProductMonotonic, SMT
<1> HIDE DEF P
<1>2. /\ 10000 - P \div 10000 \in Nat
      /\ 10000 - P \div 20000 \in Nat
      /\ 10000 - P \div 50000 \in Nat
      /\ 10000 - P \div 60000 \in Nat
      /\ 10000 - P \div 30000 \in Nat
      /\ 10000 - P \div 40000 \in Nat
  BY <1>1, SMT
<1> QED
  BY <1>1, <1>2 DEF P

LEMMA QuotientNat ==
    ASSUME NEW P \in Nat
    PROVE  /\ P \div 10000 \in Nat /\ P \div 20000 \in Nat
           /\ P \div 30000 \in Nat /\ P \div 40000 \in Nat
           /\ P \div 50000 \in Nat /\ P \div 60000 \in Nat
  BY SMT

(* The penalty decreases: from any a below x it is bounded by the first    *)
(* two terms of the series at a.                                           *)
LEMMA ExpMinusBound ==
    ASSUME NEW x \in Nat, x <= 7500, NEW a \in Nat, NEW m \in Nat,
           a <= x, 20000 * m <= a * (20000 - a)
    PROVE  ExpMinus(x) \in Nat /\ ExpMinus(x) <= 10000 - m
<1> DEFINE t7 == 10000 - x \div 7
           t6 == 10000 - (x * t7) \div 60000
           t5 == 10000 - (x * t6) \div 50000
           t4 == 10000 - (x * t5) \div 40000
           t3 == 10000 - (x * t4) \div 30000
           t2 == 10000 - (x * t3) \div 20000
           t1 == 10000 - (x * t2) \div 10000
<1>0. ExpMinus(x) = t1
  BY SMT DEF ExpMinus, Unit
<1>1. t5 \in Nat /\ t5 <= 10000
  <2>1. t7 \in Nat /\ t7 <= 10000
    BY SMT
  <2> HIDE DEF t7
  <2>2. t6 \in Nat /\ t6 <= 10000
    BY <2>1, SeriesTerm, QuotientNat, SMT
  <2> HIDE DEF t6
  <2> QED
    BY <2>2, SeriesTerm, QuotientNat, SMT
<1> HIDE DEF t5
<1>2. t4 \in Nat /\ t4 <= 10000
  BY <1>1, SeriesTerm, QuotientNat, SMT
<1> HIDE DEF t4
<1>3. t3 \in Nat /\ t3 <= 10000
  BY <1>2, SeriesTerm, QuotientNat, SMT
<1> HIDE DEF t3
<1>4. t2 \in Nat /\ t2 <= 10000
  BY <1>3, SeriesTerm, QuotientNat, SMT
<1>5. 2 * t2 >= 20000 - x
  <2> DEFINE P == x * t3
  <2>1. P \in Nat /\ P <= x * 10000
    BY <1>3, ProductMonotonic, SMT
  <2>2. t2 = 10000 - P \div 20000
    OBVIOUS
  <2> HIDE DEF P, t2
  <2> QED
    BY <2>1, <2>2, SMT
<1> HIDE DEF t2
<1> DEFINE P == x * t2
           X == x * (20000 - x)
           A == a * (20000 - a)
<1>6. 20000 * m <= 2 * P
  <2>1. X - A = (x - a) * (20000 - x - a)
    BY SMT
  <2>2. (x - a) * (20000 - x - a) >= 0
    <3>1. x - a \in Nat /\ 20000 - x - a \in Nat
      BY SMT
    <3> QED
      BY <3>1, SMT
  <2>3. X <= x * (2 * t2)
    <3>1. 20000 - x \in Nat /\ 2 * t2 \in Nat
      BY <1>4, SMT
    <3> QED
      BY <3>1, <1>5, ProductMonotonic, SMT
  <2>4. x * (2 * t2) = 2 * P
    BY <1>4, SMT
  <2>5. X \in Int /\ A \in Int /\ P \in Int /\ 20000 * m <= A
    BY <1>4, SMT
  <2> HIDE DEF X, A, P
  <2> QED
    BY <2>1, <2>2, <2>3, <2>4, <2>5, SMT
<1>7. P \in Nat /\ t1 \in Nat /\ t1 = 10000 - P \div 10000
  BY <1>4, SeriesTerm, SMT
<1> HIDE DEF P, t1
<1>8. t1 <= 10000 - m
  BY <1>6, <1>7, SMT
<1> QED
  BY <1>0, <1>7, <1>8

-----------------------------------------------------------------------------
(* The signals of a detection, and the penalty, a factor between 0 and 1.  *)
Signal == [detection : Score, clip : Score, quality : Score, consistency : Score]

LEMMA SignalBounds ==
    ASSUME NEW s \in Signal
    PROVE  /\ s.detection \in Nat /\ s.detection <= 10000
           /\ s.clip \in Nat /\ s.clip <= 10000
           /\ s.quality \in Nat /\ s.quality <= 10000
           /\ s.consistency \in Nat /\ s.consistency <= 10000
<1>1. /\ s.detection \in Score /\ s.clip \in Score
      /\ s.quality \in Score /\ s.consistency \in Score
  BY DEF Signal
<1> QED
  BY <1>1, ScoreBounds

LEMMA PenaltyArgument ==
    ASSUME NEW s \in Signal
    PROVE  /\ Spread(s) = Spread4(s.detection, s.clip, s.quality, s.consistency)
           /\ Spread(s) \in Nat
           /\ (3 * Spread(s)) \div 160000 \in Nat
           /\ (3 * Spread(s)) \div 160000 <= 7500
           /\ EntropyPenalty(s) = ExpMinus((3 * Spread(s)) \div 160000)
<1> DEFINE d == s.detection
           c == s.clip
           q == s.quality
           b == s.consistency
<1>1. /\ d \in Nat /\ c \in Nat /\ q \in Nat /\ b \in Nat
      /\ d <= 10000 /\ c <= 10000 /\ q <= 10000 /\ b <= 10000
  BY SignalBounds
<1>2. Spread(s) = Spread4(d, c, q, b)
  <2>1. Least(d, Unit) = d /\ Least(c, Unit) = c /\ Least(q, Unit) = q /\ Least(b, Unit) = b
    BY <1>1, SMT DEF Least, Unit
  <2> QED
    BY <2>1 DEF Spread, Spread4
<1>3. Spread(s) \in Nat /\ Spread(s) <= 400000000
  <2> HIDE DEF d, c, q, b
  <2> QED
    BY <1>1, <1>2, SpreadRange, SMT
<1>4. EntropyPenalty(s) = ExpMinus((3 * Spread(s)) \div 160000)
  <2>1. 16 * Unit = 160000
    BY SMT DEF Unit
  <2> QED
    BY <2>1 DEF EntropyPenalty
<1> DEFINE V == Spread(s)
<1>5. (3 * V) \div 160000 \in Nat /\ (3 * V) \div 160000 <= 7500
  <2> HIDE DEF V
  <2>1. V \in Nat /\ V <= 400000000
    BY <1>3 DEF V
  <2> QED
    BY <2>1, SMT
<1> QED
  BY <1>2, <1>3, <1>4, <1>5

LEMMA PenaltyRange ==
    ASSUME NEW s \in Signal
    PROVE  EntropyPenalty(s) \in Nat /\ EntropyPenalty(s) <= 10000
<1> DEFINE x == (3 * Spread(s)) \div 160000
<1>1. x \in Nat /\ x <= 7500 /\ EntropyPenalty(s) = ExpMinus(x)
  BY PenaltyArgument
<1> HIDE DEF x
<1>2. 0 <= x /\ 20000 * 0 <= 0 * (20000 - 0)
  BY <1>1, SMT
<1>3. ExpMinus(x) \in Nat /\ ExpMinus(x) <= 10000 - 0
  BY <1>1, <1>2, ExpMinusBound
<1> QED
  BY <1>1, <1>3

LEMMA BaseWeights ==
    ASSUME NEW s
    PROVE  Base(s) =
            (65 * s.detection + 55 * s.clip + 45 * s.quality + 35 * s.consistency) \div 200
<1>1. /\ Weights.detection = 30 /\ Weights.clip = 25 /\ Weights.quality = 20
      /\ Weights.consistency = 15 /\ Weights.agreement = 10
  BY DEF Weights
<1>2. /\ 2 * 30 + 10 \div 2 = 65 /\ 2 * 25 + 10 \div 2 = 55
      /\ 2 * 20 + 10 \div 2 = 45 /\ 2 * 15 + 10 \div 2 = 35
  BY SMT
<1> QED
  BY <1>1, <1>2, Zenon DEF Base

LEMMA BaseRange ==
    ASSUME NEW s \in Signal
    PROVE  /\ Base(s) \in Nat /\ Base(s) <= 10000
           /\ s.consistency = 0 => Base(s) <= 8250
<1> DEFINE d == s.detection
           c == s.clip
           q == s.quality
           b == s.consistency
<1>1. /\ d \in Nat /\ c \in Nat /\ q \in Nat /\ b \in Nat
      /\ d <= 10000 /\ c <= 10000 /\ q <= 10000 /\ b <= 10000
  BY SignalBounds
<1>2. Base(s) = (65 * d + 55 * c + 45 * q + 35 * b) \div 200
  BY BaseWeights
<1> HIDE DEF d, c, q, b
<1>3. /\ Base(s) \in Nat /\ Base(s) <= 10000
      /\ b = 0 => Base(s) <= 8250
  BY <1>1, <1>2, SMT
<1> QED
  BY <1>3 DEF b

Step(b, e, a, m) ==
    /\ {b, e, a, m} \subseteq Nat /\ m <= 10000
    /\ 36500 * a <= 3 * (b * b)
    /\ 20000 * m <= a * (20000 - a)
    /\ e * (10000 - m) < 49990000

(* One interval of the weighted sum: where it reaches b, the spread makes  *)
(* the argument of the penalty at least a, and the score stays low up to   *)
(* the sum e.                                                              *)
LEMMA Interval ==
    ASSUME NEW s \in Signal, s.consistency = 0,
           NEW b, NEW e, NEW a, NEW m, Step(b, e, a, m),
           b <= Base(s), Base(s) <= e
    PROVE  Base(s) * EntropyPenalty(s) < 49990000
<1> DEFINE d == s.detection
           c == s.clip
           q == s.quality
           L == Weighted(d, c, q)
           V == Spread3(d, c, q)
           M == L * L
           P == b * b
           x == (3 * Spread(s)) \div 160000
           base == Base(s)
           penalty == EntropyPenalty(s)
<1>0. /\ b \in Nat /\ e \in Nat /\ a \in Nat /\ m \in Nat /\ m <= 10000
      /\ 36500 * a <= 3 * P
      /\ 20000 * m <= a * (20000 - a)
      /\ e * (10000 - m) < 49990000
  BY DEF Step
<1>1. d \in Nat /\ c \in Nat /\ q \in Nat
  BY SignalBounds
<1>2. Spread(s) = V /\ x \in Nat /\ x <= 7500 /\ penalty = ExpMinus(x)
  <2>1. Spread(s) = Spread4(d, c, q, 0)
    BY PenaltyArgument
  <2>2. Spread4(d, c, q, 0) = Spread3(d, c, q)
    <3> HIDE DEF d, c, q
    <3> QED
      BY <1>1, SMT DEF Spread4, Spread3
  <2> QED
    BY <2>1, <2>2, PenaltyArgument
<1>3. V \in Int /\ M \in Int /\ L \in Nat /\ 9125 * V >= M
  <2> HIDE DEF d, c, q
  <2>1. L \in Nat /\ M \in Int
    BY <1>1, SMT DEF Weighted
  <2> QED
    BY <1>1, <2>1, SpreadBound
<1>4. 40000 * P <= M /\ P \in Nat
  <2>1. base = L \div 200
    <3>1. base = (65 * d + 55 * c + 45 * q + 35 * 0) \div 200
      BY BaseWeights
    <3> HIDE DEF d, c, q
    <3>2. 65 * d + 55 * c + 45 * q + 35 * 0 = L
      BY <1>1, SMT DEF Weighted
    <3> QED
      BY <3>1, <3>2
  <2>2. 200 * b <= L
    <3> HIDE DEF L, base
    <3>1. b <= base
      BY DEF base
    <3> QED
      BY <3>1, <2>1, <1>0, <1>3, SMT
  <2> HIDE DEF L
  <2>3. (200 * b) * (200 * b) <= L * L
    <3>1. 200 * b \in Nat
      BY <1>0, SMT
    <3> QED
      BY <3>1, <2>2, <1>3, ProductMonotonic
  <2>4. (200 * b) * (200 * b) = 40000 * P /\ P \in Nat
    BY <1>0, SMT
  <2> QED
    BY <2>3, <2>4
<1>5. a <= x
  <2>1. 36500 * a <= 3 * P /\ x = (3 * V) \div 160000
    BY <1>0, <1>2
  <2> HIDE DEF P, M, V, L, x
  <2>2. 160000 * a <= 3 * V
    BY <2>1, <1>0, <1>3, <1>4, SMT
  <2> QED
    BY <2>1, <2>2, <1>0, <1>2, <1>3, SMT
<1>6. penalty \in Nat /\ penalty <= 10000 - m
  <2> HIDE DEF x, penalty
  <2> QED
    BY <1>0, <1>2, <1>5, ExpMinusBound
<1>7. base \in Nat /\ base <= e
  BY BaseRange
<1> HIDE DEF base, penalty
<1>8. base * penalty <= e * (10000 - m)
  <2>1. 10000 - m \in Nat
    BY <1>0, SMT
  <2> QED
    BY <2>1, <1>0, <1>6, <1>7, ProductMonotonic
<1>9. base * penalty < 49990000
  <2>1. base * penalty \in Int /\ e * (10000 - m) \in Int
    BY <1>0, <1>6, <1>7, SMT
  <2> QED
    BY <2>1, <1>0, <1>8, SMT
<1> QED
  BY <1>9 DEF base, penalty

(* Without consistency, the weighted sum and the penalty pull against each *)
(* other: the product stays below one half.                                *)
LEMMA ProductBound ==
    ASSUME NEW s \in Signal, s.consistency = 0
    PROVE  Base(s) * EntropyPenalty(s) < 49990000
<1>1. Base(s) \in Nat /\ Base(s) <= 8250
  BY BaseRange
<1>2. CASE 0 <= Base(s) /\ Base(s) <= 4998
  <2>1. Step(0, 4998, 0, 0)
    BY SMT DEF Step
  <2> QED
    BY <1>2, <2>1, Interval
<1>3. CASE 4998 <= Base(s) /\ Base(s) <= 6127
  <2>1. Step(4998, 6127, 2053, 1842)
    BY SMT DEF Step
  <2> QED
    BY <1>3, <2>1, Interval
<1>4. CASE 6127 <= Base(s) /\ Base(s) <= 6763
  <2>1. Step(6127, 6763, 3085, 2609)
    BY SMT DEF Step
  <2> QED
    BY <1>4, <2>1, Interval
<1>5. CASE 6763 <= Base(s) /\ Base(s) <= 7194
  <2>1. Step(6763, 7194, 3759, 3052)
    BY SMT DEF Step
  <2> QED
    BY <1>5, <2>1, Interval
<1>6. CASE 7194 <= Base(s) /\ Base(s) <= 7515
  <2>1. Step(7194, 7515, 4253, 3348)
    BY SMT DEF Step
  <2> QED
    BY <1>6, <2>1, Interval
<1>7. CASE 7515 <= Base(s) /\ Base(s) <= 7767
  <2>1. Step(7515, 7767, 4641, 3564)
    BY SMT DEF Step
  <2> QED
    BY <1>7, <2>1, Interval
<1>8. CASE 7767 <= Base(s) /\ Base(s) <= 7970
  <2>1. Step(7767, 7970, 4958, 3728)
    BY SMT DEF Step
  <2> QED
    BY <1>8, <2>1, Interval
<1>9. CASE 7970 <= Base(s) /\ Base(s) <= 8137
  <2>1. Step(7970, 8137, 5220, 3857)
    BY SMT DEF Step
  <2> QED
    BY <1>9, <2>1, Interval
<1>10. CASE 8137 <= Base(s) /\ Base(s) <= 8250
  <2>1. Step(8137, 8250, 5441, 3960)
    BY SMT DEF Step
  <2> QED
    BY <1>10, <2>1, Interval
<1> QED
  BY <1>1, <1>2, <1>3, <1>4, <1>5, <1>6, <1>7, <1>8, <1>9, <1>10, SMT


-----------------------------------------------------------------------------
(* Boxes: an intersection is no larger than either box, so an IoU is a     *)
(* score.                                                                  *)

Span(from, to) == Greatest(0, to - from)

LEMMA AreaSpans ==
    ASSUME NEW b \in Box
    PROVE  /\ b.x1 \in Int /\ b.y1 \in Int /\ b.x2 \in Int /\ b.y2 \in Int
           /\ Area(b) = Span(b.x1, b.x2) * Span(b.y1, b.y2)
           /\ Span(b.x1, b.x2) \in Nat /\ Span(b.y1, b.y2) \in Nat
           /\ Area(b) \in Nat
<1>1. b.x1 \in Int /\ b.y1 \in Int /\ b.x2 \in Int /\ b.y2 \in Int
  BY DEF Box
<1>2. \A from, to \in Int : Span(from, to) \in Nat
  BY SMT DEF Span, Greatest
<1>3. Area(b) = Span(b.x1, b.x2) * Span(b.y1, b.y2)
  BY DEF Area, Span
<1>4. \A k, l \in Nat : k * l \in Nat
  BY SMT
<1> QED
  BY <1>1, <1>2, <1>3, <1>4

LEMMA IntersectionBox ==
    ASSUME NEW a \in Box, NEW b \in Box
    PROVE  Intersection(a, b) \in Box
<1>1. \A k, l \in Int : Greatest(k, l) \in Int /\ Least(k, l) \in Int
  BY DEF Greatest, Least
<1> QED
  BY <1>1, AreaSpans DEF Intersection, Box

LEMMA SpanShrinks ==
    ASSUME NEW f \in Int, NEW g \in Int, NEW t \in Int, NEW u \in Int
    PROVE  /\ Span(Greatest(f, g), Least(t, u)) <= Span(f, t)
           /\ Span(Greatest(f, g), Least(t, u)) <= Span(g, u)
  BY SMT DEF Span, Greatest, Least

LEMMA OverlapSmaller ==
    ASSUME NEW a \in Box, NEW b \in Box
    PROVE  /\ Area(Intersection(a, b)) <= Area(a)
           /\ Area(Intersection(a, b)) <= Area(b)
<1> DEFINE i == Intersection(a, b)
<1>1. i \in Box
  BY IntersectionBox
<1>2. /\ i.x1 = Greatest(a.x1, b.x1) /\ i.y1 = Greatest(a.y1, b.y1)
      /\ i.x2 = Least(a.x2, b.x2) /\ i.y2 = Least(a.y2, b.y2)
  BY DEF Intersection
<1>3. /\ Span(i.x1, i.x2) <= Span(a.x1, a.x2) /\ Span(i.y1, i.y2) <= Span(a.y1, a.y2)
      /\ Span(i.x1, i.x2) <= Span(b.x1, b.x2) /\ Span(i.y1, i.y2) <= Span(b.y1, b.y2)
  BY <1>2, AreaSpans, SpanShrinks
<1> HIDE DEF i
<1>4. Area(i) <= Area(a)
  BY <1>1, <1>3, AreaSpans, ProductMonotonic
<1>5. Area(i) <= Area(b)
  BY <1>1, <1>3, AreaSpans, ProductMonotonic
<1> QED
  BY <1>4, <1>5 DEF i

LEMMA QuotientBound ==
    ASSUME NEW k \in Nat, NEW l \in Nat, l > 0, k <= l
    PROVE  (k * 10000) \div l \in Nat /\ (k * 10000) \div l <= 10000
  BY SMT

LEMMA IoURange ==
    ASSUME NEW a \in Box, NEW b \in Box
    PROVE  IoU(a, b) \in Score
<1> DEFINE inter == Area(Intersection(a, b))
           union == Area(a) + Area(b) - inter
<1>1. inter \in Nat /\ union \in Nat /\ inter <= union
  <2>1. inter \in Nat /\ Area(a) \in Nat /\ Area(b) \in Nat
    BY IntersectionBox, AreaSpans
  <2>2. inter <= Area(a) /\ inter <= Area(b)
    BY OverlapSmaller
  <2> QED
    BY <2>1, <2>2, SMT
<1>2. IoU(a, b) = IF union > 0 THEN (inter * 10000) \div union ELSE 0
  BY DEF IoU, Unit
<1> HIDE DEF inter, union
<1>3. IoU(a, b) \in Nat /\ IoU(a, b) <= 10000
  BY <1>1, <1>2, QuotientBound
<1> QED
  BY <1>3, ScoreBounds

-----------------------------------------------------------------------------
(* Detections.                                                             *)

LEMMA ConsistencyRange ==
    ASSUME NEW det \in Detection
    PROVE  MaskBoxIoU(det) \in Score
<1>1. 0 \in Score
  BY DEF Score, Unit
<1>2. CASE det.mask = NoMask
  BY <1>1, <1>2 DEF MaskBoxIoU
<1>3. CASE det.mask # NoMask
  <2>1. det.box \in Box
    BY DEF Detection
  <2>2. det.mask \in Box
    BY <1>3 DEF Detection, Mask
  <2>3. MaskBox(det.mask) \in Box
    <3>1. \A n \in Int : Px * n \in Int
      BY SMT DEF Px
    <3> QED
      BY <2>2, <3>1, AreaSpans DEF MaskBox, Box
  <2> QED
    BY <1>3, <2>1, <2>3, IoURange DEF MaskBoxIoU
<1> QED
  BY <1>2, <1>3

LEMMA SignalsTyped ==
    ASSUME NEW det \in Detection
    PROVE  Signals(det) \in Signal
<1>1. Unit \div 2 \in Score
  <2>1. Unit \div 2 \in Nat /\ Unit \div 2 <= 10000
    BY SMT DEF Unit
  <2> QED
    BY <2>1, ScoreBounds
<1>2. /\ det.score \in Score
      /\ det.clip \in Score \cup {NoScore}
      /\ det.quality \in Score \cup {NoScore}
  BY DEF Detection
<1> QED
  BY <1>1, <1>2, ConsistencyRange DEF Signals, Signal

(* A score is between 0 and 1, so the clip at 1 never cuts.                *)
LEMMA ScoreRange ==
    ASSUME NEW det \in Detection
    PROVE  ScoreDetection(det) \in Nat /\ ScoreDetection(det) <= 10000
<1> DEFINE s == Signals(det)
           P == Base(s) * EntropyPenalty(s)
<1>1. P \in Nat /\ P <= 100000000
  <2> DEFINE base == Base(s)
             penalty == EntropyPenalty(s)
  <2>1. base \in Nat /\ penalty \in Nat /\ base <= 10000 /\ penalty <= 10000
    BY SignalsTyped, BaseRange, PenaltyRange
  <2> HIDE DEF base, penalty
  <2>2. base * penalty \in Nat /\ base * penalty <= 100000000
    BY <2>1, ProductMonotonic, SMT
  <2> QED
    BY <2>2 DEF base, penalty
<1>2. ScoreDetection(det) = Least(10000, (P + 5000) \div 10000)
  BY DEF ScoreDetection, Unit
<1> HIDE DEF P
<1>3. (P + 5000) \div 10000 \in Nat /\ (P + 5000) \div 10000 <= 10000
  BY <1>1, SMT
<1> QED
  BY <1>2, <1>3, SMT DEF Least

(* A detection without a mask, or with one elsewhere, scores below         *)
(* human_review, however sure the three models are of it: the penalty of   *)
(* _entropy_penalty, not the weights, keeps it there (engine.py:56-97).    *)
THEOREM MasklessBelowReview ==
    ASSUME NEW det \in Detection, MaskBoxIoU(det) = 0
    PROVE  ScoreDetection(det) < HumanReview
<1> DEFINE s == Signals(det)
           P == Base(s) * EntropyPenalty(s)
<1>1. P < 49990000
  <2>1. s \in Signal
    BY SignalsTyped
  <2>2. s.consistency = 0
    BY DEF Signals
  <2> HIDE DEF s
  <2> QED
    BY <2>1, <2>2, ProductBound
<1>2. P \in Nat
  <2> DEFINE base == Base(s)
             penalty == EntropyPenalty(s)
  <2>1. base \in Nat /\ penalty \in Nat
    BY SignalsTyped, BaseRange, PenaltyRange
  <2> HIDE DEF base, penalty
  <2>2. base * penalty \in Nat
    BY <2>1, SMT
  <2> QED
    BY <2>2 DEF base, penalty
<1>3. ScoreDetection(det) = Least(10000, (P + 5000) \div 10000)
  BY DEF ScoreDetection, Unit
<1> HIDE DEF P
<1>4. (P + 5000) \div 10000 \in Nat /\ (P + 5000) \div 10000 < 5000
  BY <1>1, <1>2, SMT
<1> QED
  BY <1>3, <1>4, SMT DEF Least, HumanReview

=============================================================================
