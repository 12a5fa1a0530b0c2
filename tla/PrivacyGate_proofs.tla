-------------------------- MODULE PrivacyGate_proofs --------------------------
(***************************************************************************)
(* Proofs about the privacy gate: for any grid, sizes and orientations of  *)
(* the images, any reports of the recognizer, any texts, and any budget.   *)
(***************************************************************************)
EXTENDS PrivacyGate, FiniteSetTheorems, WellFoundedInduction, TLAPS

-----------------------------------------------------------------------------
(* Arithmetic of a grid                                                    *)

LEMMA Smallest ==
    ASSUME NEW S, S \subseteq Nat, S # {}
    PROVE  \E i \in S : \A j \in S : i <= j
  <1>1. PICK i \in S : \A j \in S : ~ (<<j, i>> \in OpToRel(<, Nat))
    BY NatLessThanWellFounded, WFMin, Zenon
  <1>2. \A j \in S : ~ (j < i)
    BY <1>1 DEF OpToRel
  <1> QED BY <1>2

LEMMA Monotone == ASSUME NEW a \in Int, NEW b \in Int, NEW n \in Nat, a <= b PROVE a * n <= b * n
  OBVIOUS

LEMMA QuotientFacts ==
    ASSUME NEW n \in Int
    PROVE  /\ n \div Grid \in Int
           /\ Grid * (n \div Grid) <= n /\ n < Grid * (n \div Grid) + Grid
  BY GridAssumption

(* What lies right of an edge rounded down, and left of one rounded up.    *)
LEMMA FloorFacts ==
    ASSUME NEW n \in Int, NEW p \in Int
    PROVE  Floor(n) \in Int /\ (Floor(n) <= p <=> n < (p + 1) * Grid)
  <1> DEFINE q == n \div Grid
  <1>1. q \in Int /\ q * Grid <= n /\ n < (q + 1) * Grid
    <2>1. q \in Int /\ Grid * q <= n /\ n < Grid * q + Grid
      BY QuotientFacts
    <2> HIDE DEF q
    <2> QED BY <2>1, GridAssumption
  <1> HIDE DEF q
  <1>2. CASE q <= p
    <2>1. (q + 1) * Grid <= (p + 1) * Grid
      BY <1>1, <1>2, Monotone, GridAssumption
    <2>2. (q + 1) * Grid \in Int /\ (p + 1) * Grid \in Int
      BY <1>1, GridAssumption
    <2> QED BY <1>1, <1>2, <2>1, <2>2 DEF Floor, q
  <1>3. CASE q > p
    <2>1. (p + 1) * Grid <= q * Grid
      BY <1>1, <1>3, Monotone, GridAssumption
    <2>2. q * Grid \in Int /\ (p + 1) * Grid \in Int
      BY <1>1, GridAssumption
    <2> QED BY <1>1, <1>3, <2>1, <2>2 DEF Floor, q
  <1> QED BY <1>1, <1>2, <1>3

LEMMA CeilFacts ==
    ASSUME NEW n \in Int, NEW p \in Int
    PROVE  Ceil(n) \in Int /\ (p < Ceil(n) <=> p * Grid < n)
  <1>1. Ceil(n) = Floor(n + Grid - 1) /\ n + Grid - 1 \in Int
    BY GridAssumption DEF Ceil, Floor
  <1>2. Ceil(n) \in Int /\ (Ceil(n) <= p <=> n + Grid - 1 < (p + 1) * Grid)
    BY <1>1, FloorFacts
  <1>3. (p + 1) * Grid = p * Grid + Grid /\ p * Grid \in Int
    BY GridAssumption
  <1> QED BY <1>2, <1>3, GridAssumption

-----------------------------------------------------------------------------
(* Arithmetic of f32                                                       *)

(* How far the rounded result lies from the exact one, and that it never   *)
(* passes 1.0.                                                             *)
LEMMA RoundFacts ==
    ASSUME NEW n \in Nat, n < 2 * Grid * Significand
    PROVE  /\ Round(n) \in Nat
           /\ (Round(n) - n) * Significand <= n /\ (n - Round(n)) * Significand <= n
           /\ n <= Grid => Round(n) <= Grid
  <1> DEFINE u == Spacing(n)
             q == n \div u
             rest == n % u
             able == {v \in Spacings : Holds(v, n)}
  <1>1. u \in Spacings /\ Holds(u, n) /\ \A v \in Spacings : Holds(v, n) => u <= v
    <2>1. able \subseteq Nat /\ able # {}
      <3>1. PICK v \in Spacings : v >= 2 * Grid
        BY GridAssumption
      <3>2. 2 * Grid * Significand <= v * Significand
        BY <3>1, Monotone, GridAssumption
      <3>3. n < v * Significand
        BY <3>1, <3>2, GridAssumption
      <3> QED BY <3>3, GridAssumption DEF Holds
    <2>2. \E v \in able : \A w \in able : v <= w
      BY <2>1, Smallest
    <2> QED BY <2>2 DEF Spacing
  <1>2. u \in Nat \ {0} /\ (u = 1 \/ u * Significand <= 2 * n)
    <2>1. CASE u # 1
      <3>1. PICK v \in Spacings : u = 2 * v
        BY <1>1, <2>1, GridAssumption
      <3>2. u \in Nat \ {0} /\ v \in Nat \ {0} /\ v < u
        BY <1>1, <3>1, GridAssumption
      <3>3. ~ (n < v * Significand)
        BY <1>1, <3>2 DEF Holds
      <3> HIDE DEF u
      <3>4. u * Significand = 2 * (v * Significand)
        BY <3>1, <3>2, GridAssumption
      <3> QED BY <3>2, <3>3, <3>4, GridAssumption
    <2> QED BY <2>1, <1>1, GridAssumption
  <1>3. Round(n) = IF 2 * rest > u \/ (2 * rest = u /\ q % 2 = 1) THEN (q + 1) * u ELSE q * u
    BY DEF Round
  <1>4. u <= Grid => Grid % u = 0
    BY <1>1, GridAssumption
  <1> HIDE DEF u
  <1>5. q \in Nat /\ rest \in 0 .. u - 1 /\ n = u * q + rest
    BY <1>2
  <1> HIDE DEF q, rest
  <1>6. u * q \in Nat /\ (q + 1) * u = u * q + u /\ q * u = u * q
    BY <1>2, <1>5
  <1>7. n <= Grid => \E k \in Nat : Grid = u * k
    <2> SUFFICES ASSUME n <= Grid PROVE \E k \in Nat : Grid = u * k
      OBVIOUS
    <2>1. u <= Grid
      <3>1. u * 2 <= u * Significand
        BY <1>2, GridAssumption
      <3> QED BY <1>2, <3>1, GridAssumption
    <2>2. Grid = u * (Grid \div u) /\ Grid \div u \in Nat
      BY <1>2, <1>4, <2>1, GridAssumption
    <2> QED BY <2>2
  <1>8. CASE 2 * rest > u \/ (2 * rest = u /\ q % 2 = 1)
    <2>1. Round(n) = u * q + u
      BY <1>3, <1>6, <1>8
    <2>2. u # 1 /\ rest > 0 /\ 2 * (u - rest) <= u
      BY <1>2, <1>5, <1>8
    <2>3. (2 * (u - rest)) * Significand <= u * Significand
      BY <1>2, <1>5, <2>2, Monotone, GridAssumption
    <2>4. (2 * (u - rest)) * Significand = 2 * ((u - rest) * Significand)
          /\ (u - rest) * Significand \in Int /\ u * Significand \in Int
      BY <1>2, <1>5, GridAssumption
    <2>5. (u - rest) * Significand <= n
      BY <1>2, <2>2, <2>3, <2>4
    <2>6. Round(n) - n = u - rest /\ n - Round(n) <= 0
      BY <1>2, <1>5, <1>6, <2>1
    <2>7. (n - Round(n)) * Significand <= 0 * Significand
      BY <1>2, <1>5, <1>6, <2>1, <2>6, Monotone, GridAssumption
    <2>8. n <= Grid => Round(n) <= Grid
      <3> SUFFICES ASSUME n <= Grid PROVE Round(n) <= Grid
        OBVIOUS
      <3>1. PICK k \in Nat : Grid = u * k
        BY <1>7
      <3>2. q + 1 <= k
        <4> SUFFICES ASSUME k <= q PROVE FALSE
          BY <1>5
        <4>1. k * u <= q * u
          BY <1>2, <1>5, Monotone
        <4>2. k * u = u * k
          BY <1>2
        <4> QED BY <1>5, <1>6, <2>2, <3>1, <4>1, <4>2
      <3>3. (q + 1) * u <= k * u
        BY <1>2, <1>5, <3>2, Monotone
      <3>4. k * u = u * k
        BY <1>2
      <3> QED BY <1>6, <2>1, <3>1, <3>3, <3>4
    <2>9. Round(n) \in Nat
      BY <1>2, <1>6, <2>1
    <2>10. (Round(n) - n) * Significand <= n
      BY <2>5, <2>6
    <2>11. (n - Round(n)) * Significand <= n
      <3>1. (n - Round(n)) * Significand \in Int /\ 0 * Significand = 0
        BY <2>9, GridAssumption
      <3> QED BY <2>7, <3>1
    <2> QED BY <2>8, <2>9, <2>10, <2>11
  <1>9. CASE ~ (2 * rest > u \/ (2 * rest = u /\ q % 2 = 1))
    <2>1. Round(n) = u * q
      BY <1>3, <1>6, <1>9
    <2>2. 2 * rest <= u
      BY <1>2, <1>5, <1>9
    <2>3. rest * Significand <= n
      <3>1. CASE u = 1
        BY <1>5, <3>1, GridAssumption
      <3>2. CASE u # 1
        <4>1. (2 * rest) * Significand <= u * Significand
          BY <1>2, <1>5, <2>2, Monotone, GridAssumption
        <4>2. (2 * rest) * Significand = 2 * (rest * Significand)
              /\ rest * Significand \in Int /\ u * Significand \in Int
          BY <1>2, <1>5, GridAssumption
        <4> QED BY <1>2, <3>2, <4>1, <4>2
      <3> QED BY <3>1, <3>2
    <2>4. n - Round(n) = rest /\ Round(n) - n <= 0
      BY <1>5, <1>6, <2>1
    <2>5. (Round(n) - n) * Significand <= 0 * Significand
      BY <1>6, <2>1, <2>4, Monotone, GridAssumption
    <2> QED BY <1>5, <1>6, <2>1, <2>3, <2>4, <2>5, GridAssumption
  <1> QED BY <1>8, <1>9

(* The most that one rounded sum within the unit square is off.            *)
Slip == (2 * Grid) \div Significand

LEMMA SlipFacts ==
    /\ Slip \in Nat /\ Slip * Significand <= 2 * Grid
    /\ \A e \in Int : e * Significand <= 2 * Grid => e <= Slip
  <1>1. Slip \in Nat /\ Significand * Slip <= 2 * Grid /\ 2 * Grid < Significand * Slip + Significand
    BY GridAssumption DEF Slip
  <1>2. Significand * Slip = Slip * Significand /\ Slip * Significand \in Int
        /\ (Slip + 1) * Significand = Slip * Significand + Significand
    BY <1>1, GridAssumption
  <1>3. ASSUME NEW e \in Int, e * Significand <= 2 * Grid PROVE e <= Slip
    <2> SUFFICES ASSUME Slip + 1 <= e PROVE FALSE
      BY <1>1
    <2>1. (Slip + 1) * Significand <= e * Significand
      BY <1>1, Monotone, GridAssumption
    <2>2. e * Significand \in Int /\ 2 * Grid \in Int
      BY GridAssumption
    <2> QED BY <1>1, <1>2, <1>3, <2>1, <2>2, GridAssumption
  <1> QED BY <1>1, <1>2, <1>3

(* m stands for the exact v, k slips away at most.                         *)
Stands(m, v, k) == m - v <= k * Slip /\ v - m <= k * Slip

LEMMA RoundSlips ==
    ASSUME NEW n \in 0 .. 2 * Grid
    PROVE  Round(n) \in Nat /\ Stands(Round(n), n, 1) /\ (n <= Grid => Round(n) <= Grid)
  <1>1. n \in Nat /\ n < 2 * Grid * Significand
    <2>1. 2 * (2 * Grid) <= Significand * (2 * Grid)
      BY GridAssumption
    <2>2. Significand * (2 * Grid) = 2 * Grid * Significand /\ 2 * Grid * Significand \in Int
      BY GridAssumption
    <2> QED BY <2>1, <2>2, GridAssumption
  <1>2. /\ Round(n) \in Nat
        /\ (Round(n) - n) * Significand <= n /\ (n - Round(n)) * Significand <= n
        /\ n <= Grid => Round(n) <= Grid
    BY <1>1, RoundFacts
  <1>3. /\ Round(n) - n \in Int /\ n - Round(n) \in Int
        /\ (Round(n) - n) * Significand <= 2 * Grid /\ (n - Round(n)) * Significand <= 2 * Grid
    BY <1>1, <1>2, GridAssumption
  <1>4. Round(n) - n <= Slip /\ n - Round(n) <= Slip
    BY <1>3, SlipFacts
  <1> QED BY <1>2, <1>4, SlipFacts DEF Stands

LEMMA PlusFacts ==
    ASSUME NEW a \in 0..Grid, NEW b \in 0..Grid, Plus(a, b) <= Grid
    PROVE  Plus(a, b) \in 0..Grid /\ Stands(Plus(a, b), a + b, 1)
  <1>1. a + b \in 0 .. 2 * Grid
    BY GridAssumption
  <1> QED BY <1>1, RoundSlips DEF Plus

LEMMA OneMinusFacts ==
    ASSUME NEW a \in 0..Grid, NEW v \in Int, NEW k \in Nat, Stands(a, v, k)
    PROVE  OneMinus(a) \in 0..Grid /\ Stands(OneMinus(a), Grid - v, k + 1)
  <1>1. Grid - a \in 0 .. 2 * Grid /\ Grid - a <= Grid
    BY GridAssumption
  <1>2. OneMinus(a) \in 0..Grid /\ Stands(OneMinus(a), Grid - a, 1)
    BY <1>1, RoundSlips DEF OneMinus
  <1>3. (k + 1) * Slip = k * Slip + Slip /\ k * Slip \in Int /\ 1 * Slip = Slip
    BY SlipFacts
  <1> QED BY <1>2, <1>3, SlipFacts, GridAssumption DEF Stands

(* Three slips and the rounding of a product come to less than a pixel.    *)
LEMMA EdgeFacts ==
    ASSUME NEW m \in 0..Grid, NEW v \in Int, Stands(m, v, 3),
           NEW side \in Nat \ {0}, 8 * side <= Significand
    PROVE  /\ Scaled(m, side) \in Nat
           /\ Scaled(m, side) - v * side < Grid /\ v * side - Scaled(m, side) < Grid
  <1> DEFINE n == m * side
             g == Grid * side
  <1>0. m \in Nat /\ Grid \in Nat /\ Significand \in Nat /\ Grid > 0
    BY GridAssumption
  <1>1. 4 * (Slip * side) <= Grid /\ Slip * side \in Nat
    <2>1. (8 * side) * Slip <= Significand * Slip
      BY SlipFacts, Monotone, GridAssumption
    <2>2. (8 * side) * Slip = 8 * (Slip * side) /\ Significand * Slip = Slip * Significand
          /\ Slip * side \in Nat
      BY SlipFacts, <1>0
    <2> QED BY <1>0, <2>1, <2>2, SlipFacts
  <1>2. m * side - v * side <= 3 * (Slip * side) /\ v * side - m * side <= 3 * (Slip * side)
    <2>1. (m - v) * side <= (3 * Slip) * side /\ (v - m) * side <= (3 * Slip) * side
      BY <1>0, SlipFacts, Monotone DEF Stands
    <2>2. /\ (m - v) * side = m * side - v * side /\ (v - m) * side = v * side - m * side
          /\ (3 * Slip) * side = 3 * (Slip * side)
      BY <1>0, SlipFacts
    <2> QED BY <2>1, <2>2
  <1>3. n \in Nat /\ g \in Nat /\ n <= g /\ 8 * g <= Grid * Significand
        /\ Grid * Significand \in Nat
    <2>1. m * side <= Grid * side
      BY <1>0, Monotone
    <2>2. (8 * side) * Grid <= Significand * Grid
      BY <1>0, Monotone
    <2>3. (8 * side) * Grid = 8 * g /\ Significand * Grid = Grid * Significand
      BY <1>0
    <2> QED BY <1>0, <2>1, <2>2, <2>3
  <1> HIDE DEF n, g
  <1>4. n < 2 * Grid * Significand
    <2>1. 2 * Grid * Significand = 2 * (Grid * Significand) /\ Grid * Significand > 0
      BY <1>0, GridAssumption
    <2> QED BY <1>3, <2>1
  <1>5. /\ Round(n) \in Nat
        /\ (Round(n) - n) * Significand <= n /\ (n - Round(n)) * Significand <= n
    BY <1>3, <1>4, RoundFacts
  <1>6. ASSUME NEW e \in Int, e * Significand <= n PROVE 8 * e <= Grid
    <2> SUFFICES ASSUME Grid + 1 <= 8 * e PROVE FALSE
      BY <1>0
    <2>1. (Grid + 1) * Significand <= (8 * e) * Significand
      BY <1>0, Monotone
    <2>2. /\ (Grid + 1) * Significand = Grid * Significand + Significand
          /\ (8 * e) * Significand = 8 * (e * Significand) /\ e * Significand \in Int
      BY <1>0
    <2> QED BY <1>3, <1>6, <2>1, <2>2, GridAssumption
  <1>7. 8 * (Round(n) - n) <= Grid /\ 8 * (n - Round(n)) <= Grid
    BY <1>3, <1>5, <1>6
  <1>8. Scaled(m, side) = Round(n) /\ n = m * side /\ v * side \in Int
    BY DEF Scaled, n
  <1> QED BY <1>0, <1>1, <1>2, <1>3, <1>5, <1>7, <1>8

-----------------------------------------------------------------------------
(* The geometry                                                            *)

(* Of two numbers that stand for the ends of an interval, the lesser and   *)
(* the greater one do, even if rounding has swapped them.                  *)
LEMMA Extremes ==
    ASSUME NEW a \in 0..Grid, NEW b \in 0..Grid, NEW l \in Int, NEW h \in Int, l <= h,
           NEW k \in Nat, Stands(a, l, k), Stands(b, h, k)
    PROVE  /\ Min({a, b}) \in 0..Grid /\ Max({a, b}) \in 0..Grid
           /\ Stands(Min({a, b}), l, k) /\ Stands(Max({a, b}), h, k)
  <1> DEFINE bound == k * Slip
  <1>1. bound \in Int
    BY SlipFacts
  <1>2. a - l <= bound /\ l - a <= bound /\ b - h <= bound /\ h - b <= bound
    BY DEF Stands
  <1> HIDE DEF bound
  <1>3. CASE a <= b
    <2>1. Min({a, b}) = a /\ Max({a, b}) = b
      BY <1>3, GridAssumption DEF Min, Max
    <2> QED BY <2>1
  <1>4. CASE ~ (a <= b)
    <2>1. Min({a, b}) = b /\ Max({a, b}) = a
      BY <1>4, GridAssumption DEF Min, Max
    <2>2. b - l <= bound /\ l - b <= bound /\ a - h <= bound /\ h - a <= bound
      BY <1>1, <1>2, <1>4, GridAssumption
    <2> QED BY <2>1, <2>2 DEF Stands, bound
  <1> QED BY <1>3, <1>4

(* A number stands for itself, and the more slips the better.              *)
LEMMA StandsFacts ==
    ASSUME NEW m \in Int, NEW v \in Int
    PROVE  /\ Stands(m, m, 0)
           /\ Stands(m, v, 0) => Stands(m, v, 1)
           /\ Stands(m, v, 1) => Stands(m, v, 2)
           /\ Stands(m, v, 2) => Stands(m, v, 3)
  BY SlipFacts DEF Stands

LEMMA BoundsFacts ==
    ASSUME NEW r \in NormalizedRect, NEW o \in Orientation
    PROVE  LET b == Bounds(r, o)
           IN  /\ b.left \in Int /\ b.right \in Int /\ b.top \in Int /\ b.bottom \in Int
               /\ b.left <= b.right /\ b.top <= b.bottom
  <1>1. /\ r.x \in Nat /\ r.y \in Nat /\ r.w \in Nat /\ r.h \in Nat /\ Grid \in Nat
    BY GridAssumption DEF NormalizedRect, F32
  <1>2. CASE o = "up"
    BY <1>1, <1>2 DEF Bounds
  <1>3. CASE o = "down"
    BY <1>1, <1>3 DEF Bounds
  <1>4. CASE o = "left"
    BY <1>1, <1>4 DEF Bounds
  <1>5. CASE o = "right"
    BY <1>1, <1>5 DEF Bounds
  <1> QED BY <1>2, <1>3, <1>4, <1>5 DEF Orientation

(* The extreme corners stand for the bounds of the region.                 *)
LEMMA CornersFacts ==
    ASSUME NEW r \in NormalizedRect, NEW o \in Orientation
    PROVE  LET b == Bounds(r, o)
               xs == {c[1] : c \in Corners(r, o)}
               ys == {c[2] : c \in Corners(r, o)}
           IN  /\ Min(xs) \in 0..Grid /\ Stands(Min(xs), b.left, 3)
               /\ Max(xs) \in 0..Grid /\ Stands(Max(xs), b.right, 3)
               /\ OneMinus(Max(ys)) \in 0..Grid /\ Stands(OneMinus(Max(ys)), b.top, 3)
               /\ OneMinus(Min(ys)) \in 0..Grid /\ Stands(OneMinus(Min(ys)), b.bottom, 3)
  <1> DEFINE xs == {c[1] : c \in Corners(r, o)}
             ys == {c[2] : c \in Corners(r, o)}
             s == Bounds(r, o)
             X(x, y) == TransformPoint(x, y, o)[1]
             Y(x, y) == TransformPoint(x, y, o)[2]
             far == Plus(r.x, r.w)
             high == Plus(r.y, r.h)
             Found == /\ Min(xs) \in 0..Grid /\ Stands(Min(xs), s.left, 3)
                      /\ Max(xs) \in 0..Grid /\ Stands(Max(xs), s.right, 3)
                      /\ OneMinus(Max(ys)) \in 0..Grid /\ Stands(OneMinus(Max(ys)), s.top, 3)
                      /\ OneMinus(Min(ys)) \in 0..Grid /\ Stands(OneMinus(Min(ys)), s.bottom, 3)
  <1>1. /\ r.x \in 0..Grid /\ r.y \in 0..Grid /\ r.w \in 0..Grid /\ r.h \in 0..Grid /\ Grid \in Nat
        /\ far <= Grid /\ high <= Grid
    BY GridAssumption DEF NormalizedRect, F32
  <1>2. Corners(r, o) = {TransformPoint(r.x, r.y, o), TransformPoint(far, r.y, o),
                         TransformPoint(r.x, high, o), TransformPoint(far, high, o)}
    BY DEF Corners
  <1>3. /\ xs = {X(r.x, r.y), X(far, r.y), X(r.x, high), X(far, high)}
        /\ ys = {Y(r.x, r.y), Y(far, r.y), Y(r.x, high), Y(far, high)}
    BY <1>2
  <1>4. /\ far \in 0..Grid /\ Stands(far, r.x + r.w, 1) /\ high \in 0..Grid /\ Stands(high, r.y + r.h, 1)
        /\ Stands(r.x, r.x, 0) /\ Stands(r.y, r.y, 0) /\ Stands(r.x, r.x, 1) /\ Stands(r.y, r.y, 1)
    BY <1>1, PlusFacts, StandsFacts
  <1>5. /\ OneMinus(far) \in 0..Grid /\ Stands(OneMinus(far), Grid - (r.x + r.w), 2)
        /\ OneMinus(high) \in 0..Grid /\ Stands(OneMinus(high), Grid - (r.y + r.h), 2)
        /\ OneMinus(r.x) \in 0..Grid /\ Stands(OneMinus(r.x), Grid - r.x, 2)
        /\ OneMinus(r.y) \in 0..Grid /\ Stands(OneMinus(r.y), Grid - r.y, 2)
    <2>1. \A m \in 0..Grid, v \in Int :
            Stands(m, v, 1) => OneMinus(m) \in 0..Grid /\ Stands(OneMinus(m), Grid - v, 2)
      BY OneMinusFacts
    <2> HIDE DEF far, high
    <2> QED BY <1>1, <1>4, <2>1
  <1>6. /\ Stands(far, r.x + r.w, 2) /\ Stands(high, r.y + r.h, 2)
        /\ Stands(r.x, r.x, 2) /\ Stands(r.y, r.y, 2)
    <2> HIDE DEF far, high
    <2> QED BY <1>1, <1>4, StandsFacts
  (* Two coordinates on either axis, measured from the lower left corner,  *)
  (* are all that is left to find in each orientation.                     *)
  <1>7. ASSUME NEW a \in 0..Grid, NEW b \in 0..Grid, NEW c \in 0..Grid, NEW d \in 0..Grid,
               xs = {a, b}, ys = {c, d}, Stands(a, s.left, 2), Stands(b, s.right, 2),
               Stands(c, Grid - s.bottom, 2), Stands(d, Grid - s.top, 2)
        PROVE  Found
    <2>1. /\ s.left \in Int /\ s.right \in Int /\ s.top \in Int /\ s.bottom \in Int
          /\ s.left <= s.right /\ s.top <= s.bottom
      BY BoundsFacts
    <2> HIDE DEF xs, ys, s, X, Y, far, high
    <2>2. /\ Min(xs) \in 0..Grid /\ Max(xs) \in 0..Grid
          /\ Stands(Min(xs), s.left, 2) /\ Stands(Max(xs), s.right, 2)
      BY <1>7, <2>1, Extremes
    <2>3. /\ Min(ys) \in 0..Grid /\ Max(ys) \in 0..Grid
          /\ Stands(Min(ys), Grid - s.bottom, 2) /\ Stands(Max(ys), Grid - s.top, 2)
      <3>1. /\ Grid - s.bottom \in Int /\ Grid - s.top \in Int
            /\ Grid - s.bottom <= Grid - s.top
        BY <1>1, <2>1
      <3> QED BY <1>7, <3>1, Extremes
    <2>4. \A m \in 0..Grid, v \in Int :
            Stands(m, v, 2) => OneMinus(m) \in 0..Grid /\ Stands(OneMinus(m), Grid - v, 3)
      BY OneMinusFacts
    <2>5. Grid - (Grid - s.top) = s.top /\ Grid - (Grid - s.bottom) = s.bottom
          /\ Grid - s.bottom \in Int /\ Grid - s.top \in Int
      BY <1>1, <2>1
    <2>6. \A m \in 0..Grid, v \in Int : Stands(m, v, 2) => Stands(m, v, 3)
      BY StandsFacts
    <2>7. /\ OneMinus(Max(ys)) \in 0..Grid /\ Stands(OneMinus(Max(ys)), s.top, 3)
          /\ OneMinus(Min(ys)) \in 0..Grid /\ Stands(OneMinus(Min(ys)), s.bottom, 3)
      BY <2>3, <2>4, <2>5
    <2> QED BY <2>1, <2>2, <2>6, <2>7
  <1>8. ASSUME o = "up" PROVE Found
    <2>1. \A x, y : X(x, y) = x /\ Y(x, y) = y
      BY <1>8 DEF TransformPoint
    <2>2. xs = {r.x, far} /\ ys = {r.y, high}
      <3> HIDE DEF xs, ys, X, Y, far, high
      <3> QED BY <1>3, <2>1
    <2>3. /\ s.left = r.x /\ s.right = r.x + r.w
          /\ Grid - s.bottom = r.y /\ Grid - s.top = r.y + r.h
      BY <1>1, <1>8 DEF Bounds
    <2> HIDE DEF xs, ys, s, X, Y, far, high, Found
    <2>4. /\ r.x \in 0..Grid /\ far \in 0..Grid /\ r.y \in 0..Grid /\ high \in 0..Grid
          /\ Stands(r.x, s.left, 2) /\ Stands(far, s.right, 2)
          /\ Stands(r.y, Grid - s.bottom, 2) /\ Stands(high, Grid - s.top, 2)
      BY <1>1, <1>4, <1>6, <2>3
    <2> QED BY <1>7, <2>2, <2>4
  <1>9. ASSUME o = "down" PROVE Found
    <2>1. \A x, y : X(x, y) = OneMinus(x) /\ Y(x, y) = OneMinus(y)
      BY <1>9 DEF TransformPoint
    <2>2. xs = {OneMinus(far), OneMinus(r.x)} /\ ys = {OneMinus(high), OneMinus(r.y)}
      <3> HIDE DEF xs, ys, X, Y, far, high
      <3> QED BY <1>3, <2>1
    <2>3. /\ s.left = Grid - (r.x + r.w) /\ s.right = Grid - r.x
          /\ Grid - s.bottom = Grid - (r.y + r.h) /\ Grid - s.top = Grid - r.y
      BY <1>1, <1>9 DEF Bounds
    <2> HIDE DEF xs, ys, s, X, Y, far, high, Found
    <2>4. /\ OneMinus(far) \in 0..Grid /\ OneMinus(r.x) \in 0..Grid /\ OneMinus(high) \in 0..Grid /\ OneMinus(r.y) \in 0..Grid
          /\ Stands(OneMinus(far), s.left, 2) /\ Stands(OneMinus(r.x), s.right, 2)
          /\ Stands(OneMinus(high), Grid - s.bottom, 2) /\ Stands(OneMinus(r.y), Grid - s.top, 2)
      BY <1>5, <2>3
    <2> QED BY <1>7, <2>2, <2>4
  <1>10. ASSUME o = "left" PROVE Found
    <2>1. \A x, y : X(x, y) = y /\ Y(x, y) = OneMinus(x)
      BY <1>10 DEF TransformPoint
    <2>2. xs = {r.y, high} /\ ys = {OneMinus(far), OneMinus(r.x)}
      <3> HIDE DEF xs, ys, X, Y, far, high
      <3> QED BY <1>3, <2>1
    <2>3. /\ s.left = r.y /\ s.right = r.y + r.h
          /\ Grid - s.bottom = Grid - (r.x + r.w) /\ Grid - s.top = Grid - r.x
      BY <1>1, <1>10 DEF Bounds
    <2> HIDE DEF xs, ys, s, X, Y, far, high, Found
    <2>4. /\ r.y \in 0..Grid /\ high \in 0..Grid /\ OneMinus(far) \in 0..Grid /\ OneMinus(r.x) \in 0..Grid
          /\ Stands(r.y, s.left, 2) /\ Stands(high, s.right, 2)
          /\ Stands(OneMinus(far), Grid - s.bottom, 2) /\ Stands(OneMinus(r.x), Grid - s.top, 2)
      BY <1>1, <1>4, <1>5, <1>6, <2>3
    <2> QED BY <1>7, <2>2, <2>4
  <1>11. ASSUME o = "right" PROVE Found
    <2>1. \A x, y : X(x, y) = OneMinus(y) /\ Y(x, y) = x
      BY <1>11 DEF TransformPoint
    <2>2. xs = {OneMinus(high), OneMinus(r.y)} /\ ys = {r.x, far}
      <3> HIDE DEF xs, ys, X, Y, far, high
      <3> QED BY <1>3, <2>1
    <2>3. /\ s.left = Grid - (r.y + r.h) /\ s.right = Grid - r.y
          /\ Grid - s.bottom = r.x /\ Grid - s.top = r.x + r.w
      BY <1>1, <1>11 DEF Bounds
    <2> HIDE DEF xs, ys, s, X, Y, far, high, Found
    <2>4. /\ OneMinus(high) \in 0..Grid /\ OneMinus(r.y) \in 0..Grid /\ r.x \in 0..Grid /\ far \in 0..Grid
          /\ Stands(OneMinus(high), s.left, 2) /\ Stands(OneMinus(r.y), s.right, 2)
          /\ Stands(r.x, Grid - s.bottom, 2) /\ Stands(far, Grid - s.top, 2)
      BY <1>1, <1>4, <1>5, <1>6, <2>3
    <2> QED BY <1>7, <2>2, <2>4
  <1>12. Found
    <2> HIDE DEF Found
    <2> QED BY <1>8, <1>9, <1>10, <1>11 DEF Orientation
  <1> QED BY <1>12

LEMMA FrameFacts ==
    ASSUME NEW size \in [w : Nat \ {0}, h : Nat \ {0}], NEW o
    PROVE  /\ Frame(size, o).w \in Nat \ {0} /\ Frame(size, o).h \in Nat \ {0}
           /\ 8 * size.w <= Significand /\ 8 * size.h <= Significand =>
                8 * Frame(size, o).w <= Significand /\ 8 * Frame(size, o).h <= Significand
  BY DEF Frame

PixelRect == [x : Nat, y : Nat, w : Nat, h : Nat]

(* One side of a mapped region, from the edges low and high.               *)
Begins(low, side) == Clamped(Floor(low), side)
Extends(low, high, side) == Monus(Clamped(Ceil(high), side), Begins(low, side))

LEMMA SideFacts ==
    ASSUME NEW low \in Nat, NEW high \in Nat, NEW side \in Nat
    PROVE  Begins(low, side) \in Nat /\ Extends(low, high, side) \in Nat
  <1>1. Floor(low) \in Int /\ (Floor(low) <= -1 <=> low < (-1 + 1) * Grid)
    BY FloorFacts
  <1>2. (-1 + 1) * Grid = 0
    BY GridAssumption
  <1>3. Floor(low) \in Nat /\ Ceil(high) \in Int
    BY <1>1, <1>2, CeilFacts
  <1> QED BY <1>3 DEF Begins, Extends, Clamped, Monus

(* Where the masker begins and ends on a side. *)
DilatedFrom(x) == IF x = 0 THEN 0 ELSE x - 1
DilatedTo(x, w, limit) == IF x + w + 1 > limit THEN limit ELSE x + w + 1

(* The edges stand for the lines, and the side lies within the image. *)
Fits(low, high, side, from, to, limit) ==
  /\ low - from * side < Grid /\ from * side - low < Grid
  /\ high - to * side < Grid /\ to * side - high < Grid
  /\ Extends(low, high, side) > 0 /\ Begins(low, side) + Extends(low, high, side) <= limit

(* Masked with a pixel more on either side, it covers every pixel between  *)
(* the lines that its edges stand for, and none that is three away.        *)
LEMMA SideIsCovered ==
    ASSUME NEW low \in Nat, NEW high \in Nat, NEW side \in Nat \ {0},
           NEW from \in Int, NEW to \in Int,
           NEW limit \in Nat, Fits(low, high, side, from, to, limit), NEW p \in Int
    PROVE  LET left == DilatedFrom(Begins(low, side))
               right == DilatedTo(Begins(low, side), Extends(low, high, side), limit)
           IN  /\ p \in 0 .. limit - 1 /\ p \in 0 .. side - 1 /\ Within(p, 0, from, to, side) =>
                    left <= p /\ p < right
               /\ left <= p /\ p < right => Within(p, 2, from, to, side)
  <1> DEFINE f == Floor(low)
             c == Ceil(high)
             x == Begins(low, side)
             w == Extends(low, high, side)
             left == DilatedFrom(x)
             right == DilatedTo(x, w, limit)
  <1>1. /\ f \in Int /\ c \in Int /\ Grid \in Nat /\ Grid > 0
        /\ from * side \in Int /\ to * side \in Int
    BY FloorFacts, CeilFacts, GridAssumption
  <1>2. /\ \A i \in Int : f <= i <=> low < (i + 1) * Grid
        /\ \A i \in Int : i < c <=> i * Grid < high
    <2>1. \A n \in Int, i \in Int : Floor(n) <= i <=> n < (i + 1) * Grid
      BY FloorFacts
    <2>2. \A n \in Int, i \in Int : i < Ceil(n) <=> i * Grid < n
      BY CeilFacts
    <2> QED BY <2>1, <2>2
  <1>3. x \in Nat /\ w \in Nat
    BY SideFacts
  <1>4. /\ x = Clamped(f, side) /\ w = Monus(Clamped(c, side), x)
        /\ w > 0 /\ x + w <= limit
        /\ low - from * side < Grid /\ from * side - low < Grid
        /\ high - to * side < Grid /\ to * side - high < Grid
    BY DEF Begins, Extends, Fits
  <1> HIDE DEF f, c, x, w
  <1> USE DEF DilatedFrom, DilatedTo
  <1>5. x = f /\ x + w = (IF c > side THEN side ELSE c)
    BY <1>1, <1>3, <1>4 DEF Clamped, Monus
  <1>6. \A i \in Int : (i + 1) * Grid = i * Grid + Grid /\ i * Grid \in Int
    BY <1>1
  <1>7. ASSUME p \in 0 .. limit - 1, p \in 0 .. side - 1, Within(p, 0, from, to, side)
        PROVE  left <= p /\ p < right
    <2>1. p * Grid < to * side /\ from * side < (p + 1) * Grid
      BY <1>7 DEF Within
    <2>2. f <= p + 1
      <3>1. low < (p + 1 + 1) * Grid
        BY <1>1, <1>4, <1>6, <2>1
      <3> QED BY <1>2, <3>1
    <2>3. p - 1 < c
      <3>1. (p - 1 + 1) * Grid = (p - 1) * Grid + Grid /\ (p - 1) * Grid \in Int
        BY <1>6
      <3>2. (p - 1) * Grid < high
        BY <1>1, <1>4, <2>1, <3>1
      <3> QED BY <1>2, <3>2
    <2> QED BY <1>1, <1>3, <1>4, <1>5, <1>7, <2>2, <2>3
  <1>8. ASSUME left <= p, p < right PROVE Within(p, 2, from, to, side)
    <2>1. f - 1 <= p /\ p <= c
      BY <1>1, <1>3, <1>5, <1>8
    <2>2. from * side < (p + 2 + 1) * Grid
      <3>1. low < (p + 1 + 1) * Grid
        BY <1>1, <1>2, <2>1
      <3>2. (p + 2 + 1) * Grid = (p + 1 + 1) * Grid + Grid /\ (p + 1 + 1) * Grid \in Int
        BY <1>1
      <3> QED BY <1>1, <1>4, <1>6, <3>1, <3>2
    <2>3. (p - 2) * Grid < to * side
      <3>1. (p - 1) * Grid < high
        <4>1. p - 1 < c /\ p - 1 \in Int
          BY <1>1, <2>1
        <4> QED BY <1>2, <4>1
      <3>2. (p - 1) * Grid = (p - 2) * Grid + Grid /\ (p - 2) * Grid \in Int
        BY <1>1
      <3> QED BY <1>1, <1>4, <3>1, <3>2
    <2> QED BY <2>2, <2>3 DEF Within
  <1> QED BY <1>7, <1>8 DEF x, w

(* What a region is mapped to: edges that stand for its bounds.            *)
LEMMA MapFacts ==
    ASSUME NEW r \in NormalizedRect, NEW o \in Orientation,
           NEW size \in [w : Nat \ {0}, h : Nat \ {0}],
           8 * size.w <= Significand, 8 * size.h <= Significand
    PROVE  LET f == Frame(size, o)
               b == Bounds(r, o)
           IN  \E west \in Nat, east \in Nat, north \in Nat, south \in Nat :
                 /\ MapNormalizedRect(r, size, o) =
                      [x |-> Begins(west, f.w), y |-> Begins(north, f.h),
                       w |-> Extends(west, east, f.w), h |-> Extends(north, south, f.h)]
                 /\ west - b.left * f.w < Grid /\ b.left * f.w - west < Grid
                 /\ east - b.right * f.w < Grid /\ b.right * f.w - east < Grid
                 /\ north - b.top * f.h < Grid /\ b.top * f.h - north < Grid
                 /\ south - b.bottom * f.h < Grid /\ b.bottom * f.h - south < Grid
  <1> DEFINE f == Frame(size, o)
             b == Bounds(r, o)
             xs == {c[1] : c \in Corners(r, o)}
             ys == {c[2] : c \in Corners(r, o)}
             west == Scaled(Min(xs), f.w)
             east == Scaled(Max(xs), f.w)
             north == Scaled(OneMinus(Max(ys)), f.h)
             south == Scaled(OneMinus(Min(ys)), f.h)
  <1>1. MapNormalizedRect(r, size, o) =
          [x |-> Begins(west, f.w), y |-> Begins(north, f.h),
           w |-> Extends(west, east, f.w), h |-> Extends(north, south, f.h)]
    BY DEF MapNormalizedRect, Begins, Extends
  <1>2. /\ f.w \in Nat \ {0} /\ f.h \in Nat \ {0}
        /\ 8 * f.w <= Significand /\ 8 * f.h <= Significand
    BY FrameFacts
  <1>3. b.left \in Int /\ b.right \in Int /\ b.top \in Int /\ b.bottom \in Int
    BY BoundsFacts
  <1>4. /\ Min(xs) \in 0..Grid /\ Stands(Min(xs), b.left, 3)
        /\ Max(xs) \in 0..Grid /\ Stands(Max(xs), b.right, 3)
        /\ OneMinus(Max(ys)) \in 0..Grid /\ Stands(OneMinus(Max(ys)), b.top, 3)
        /\ OneMinus(Min(ys)) \in 0..Grid /\ Stands(OneMinus(Min(ys)), b.bottom, 3)
    BY CornersFacts
  <1> HIDE DEF f, b, xs, ys
  <1>5. west \in Nat /\ west - b.left * f.w < Grid /\ b.left * f.w - west < Grid
    BY <1>2, <1>3, <1>4, EdgeFacts
  <1>6. east \in Nat /\ east - b.right * f.w < Grid /\ b.right * f.w - east < Grid
    BY <1>2, <1>3, <1>4, EdgeFacts
  <1>7. north \in Nat /\ north - b.top * f.h < Grid /\ b.top * f.h - north < Grid
    BY <1>2, <1>3, <1>4, EdgeFacts
  <1>8. south \in Nat /\ south - b.bottom * f.h < Grid /\ b.bottom * f.h - south < Grid
    BY <1>2, <1>3, <1>4, EdgeFacts
  <1> HIDE DEF west, east, north, south
  <1>9. \E i \in Nat, j \in Nat, k \in Nat, l \in Nat :
          /\ MapNormalizedRect(r, size, o) =
               [x |-> Begins(i, f.w), y |-> Begins(k, f.h),
                w |-> Extends(i, j, f.w), h |-> Extends(k, l, f.h)]
          /\ i - b.left * f.w < Grid /\ b.left * f.w - i < Grid
          /\ j - b.right * f.w < Grid /\ b.right * f.w - j < Grid
          /\ k - b.top * f.h < Grid /\ b.top * f.h - k < Grid
          /\ l - b.bottom * f.h < Grid /\ b.bottom * f.h - l < Grid
    BY <1>1, <1>5, <1>6, <1>7, <1>8
  <1> QED BY <1>9 DEF f, b

LEMMA MappedRect ==
    ASSUME NEW r \in NormalizedRect, NEW o \in Orientation,
           NEW size \in [w : Nat \ {0}, h : Nat \ {0}],
           8 * size.w <= Significand, 8 * size.h <= Significand
    PROVE  MapNormalizedRect(r, size, o) \in PixelRect
  <1> DEFINE f == Frame(size, o)
  <1>1. PICK west \in Nat, east \in Nat, north \in Nat, south \in Nat :
          MapNormalizedRect(r, size, o) =
            [x |-> Begins(west, f.w), y |-> Begins(north, f.h),
             w |-> Extends(west, east, f.w), h |-> Extends(north, south, f.h)]
    BY MapFacts
  <1>2. f.w \in Nat /\ f.h \in Nat
    BY FrameFacts
  <1> HIDE DEF f
  <1>3. /\ Begins(west, f.w) \in Nat /\ Extends(west, east, f.w) \in Nat
        /\ Begins(north, f.h) \in Nat /\ Extends(north, south, f.h) \in Nat
    BY <1>2, SideFacts
  <1> QED BY <1>1, <1>3 DEF PixelRect

LEMMA PixelFacts ==
    ASSUME NEW r
    PROVE  \A p : p \in Pixels(r) <=> /\ p = <<p[1], p[2]>>
                                      /\ p[1] \in r.x .. r.x + r.w - 1
                                      /\ p[2] \in r.y .. r.y + r.h - 1
  BY DEF Pixels

(* The masker's rectangle holds the one the verifier looks at.             *)
LEMMA DilationCovers ==
    ASSUME NEW r \in PixelRect, NEW size \in [w : Nat \ {0}, h : Nat \ {0}], ValidRect(r, size)
    PROVE  Pixels(r) \subseteq Pixels(DilatedRect(r, size))
  <1> DEFINE d == DilatedRect(r, size)
  <1>1. /\ r.x \in Nat /\ r.y \in Nat /\ r.w \in Nat /\ r.h \in Nat
        /\ size.w \in Nat /\ size.h \in Nat
        /\ r.x + r.w <= size.w /\ r.y + r.h <= size.h
    BY DEF PixelRect, ValidRect
  <1>2. /\ d.x \in Int /\ d.w \in Int /\ d.x <= r.x /\ r.x + r.w <= d.x + d.w
        /\ d.y \in Int /\ d.h \in Int /\ d.y <= r.y /\ r.y + r.h <= d.y + d.h
    BY <1>1 DEF DilatedRect
  <1> HIDE DEF d
  <1>3. ASSUME NEW p \in Pixels(r) PROVE p \in Pixels(d)
    <2>1. /\ p = <<p[1], p[2]>> /\ p[1] \in r.x .. r.x + r.w - 1
          /\ p[2] \in r.y .. r.y + r.h - 1
      BY PixelFacts
    <2>2. p[1] \in d.x .. d.x + d.w - 1
      BY <1>1, <1>2, <2>1
    <2>3. p[2] \in d.y .. d.y + d.h - 1
      BY <1>1, <1>2, <2>1
    <2> QED BY <2>1, <2>2, <2>3, PixelFacts
  <1> QED BY <1>3 DEF d

(* Two regions that share a pixel overlap; and where a masked one overlaps *)
(* another, it shares a pixel of it or, of one without extent, the place.  *)
LEMMA SharingOverlaps ==
    ASSUME NEW a \in PixelRect, NEW b \in PixelRect, Pixels(a) \cap Pixels(b) # {}
    PROVE  RectanglesOverlap(a, b)
  <1> PICK p \in Pixels(a) : p \in Pixels(b)
    OBVIOUS
  <1>1. /\ p[1] \in a.x .. a.x + a.w - 1 /\ p[2] \in a.y .. a.y + a.h - 1
        /\ p[1] \in b.x .. b.x + b.w - 1 /\ p[2] \in b.y .. b.y + b.h - 1
    BY PixelFacts
  <1> QED BY <1>1 DEF RectanglesOverlap, PixelRect

LEMMA OverlapsShare ==
    ASSUME NEW a \in PixelRect, NEW b \in PixelRect, a.w > 0, a.h > 0, RectanglesOverlap(a, b)
    PROVE  Pixels(a) \cap Ground(b) # {}
  <1> DEFINE g == [b EXCEPT !.w = IF @ = 0 THEN 1 ELSE @, !.h = IF @ = 0 THEN 1 ELSE @]
             u == IF a.x < b.x THEN b.x ELSE a.x
             v == IF a.y < b.y THEN b.y ELSE a.y
  <1>1. /\ a.x \in Nat /\ a.y \in Nat /\ a.w \in Nat /\ a.h \in Nat
        /\ b.x \in Nat /\ b.y \in Nat /\ b.w \in Nat /\ b.h \in Nat
        /\ a.x < b.x + b.w /\ b.x < a.x + a.w /\ a.y < b.y + b.h /\ b.y < a.y + a.h
    BY DEF PixelRect, RectanglesOverlap
  <1>2. /\ g.x = b.x /\ g.y = b.y
        /\ g.w = IF b.w = 0 THEN 1 ELSE b.w
        /\ g.h = IF b.h = 0 THEN 1 ELSE b.h
    BY DEF PixelRect
  <1> HIDE DEF g
  <1>3. /\ u \in a.x .. a.x + a.w - 1 /\ v \in a.y .. a.y + a.h - 1
        /\ u \in g.x .. g.x + g.w - 1 /\ v \in g.y .. g.y + g.h - 1
    BY <1>1, <1>2
  <1>4. <<u, v>> \in Pixels(a) /\ <<u, v>> \in Pixels(g)
    BY <1>3 DEF Pixels
  <1>5. Ground(b) = Pixels(g)
    BY DEF Ground, g
  <1> QED BY <1>4, <1>5

-----------------------------------------------------------------------------
(* What the gate knows at each stage                                       *)

Recognized(recognition) == recognition \in Recognition \cup {NoRecognition}

(* The capture is masked where the first pass found something, and the     *)
(* proof is bound to the result.                                           *)
IsMasked ==
  /\ Mappable(first)
  /\ \A d \in Range(Detections(first)) : ValidRect(d.rect, input.size)
  /\ masked = MaskImage(Original, Detections(first))
  /\ coverage = CoverageProof(masked, Detections(first))

(* The second pass found nothing of it, or there is no image to look at.   *)
IsCleared ==
  /\ ~ first.partial /\ ~ again.partial
  /\ input.allowed => input.recognizer
  /\ input.recognizer => IsMasked /\ Mappable(again) /\ Residual(coverage, Detections(again)) = {}
  /\ ~ input.recognizer => masked = NoImage /\ coverage = NoCoverage

GateInv ==
  /\ input \in Inputs /\ elapsed \in Nat
  /\ stage \in {"recognize", "mask", "rerun", "masked", "sanitize", "finish", "done"}
  /\ Recognized(first) /\ Recognized(again)
  /\ stage # "done" => result.how = "none"
  /\ stage \in {"mask", "sanitize", "finish"} => elapsed <= Budget
  /\ stage \in {"recognize", "mask"} =>
       masked = NoImage /\ coverage = NoCoverage /\ again = NoRecognition
  /\ stage \in {"mask", "rerun"} =>
       input.recognizer /\ ~ first.partial /\ again = NoRecognition
  /\ stage = "rerun" => IsMasked
  /\ stage \in {"masked", "sanitize", "finish"} => IsCleared
  /\ Emitted => /\ IsCleared /\ elapsed <= Budget
                /\ result.coverage = coverage
                /\ result.image = IF input.allowed THEN masked ELSE NoImage
  /\ result.how = "coverage" => result.at = "rerun" /\ Recovered # {}

(* Each finding that could be placed has a rectangle of pixels.            *)
LEMMA DetectionFacts ==
    ASSUME input \in Inputs, NEW recognition, Recognized(recognition), Located(recognition)
    PROVE  \A d \in Range(Detections(recognition)) : d.rect \in PixelRect
  <1>1. /\ input.orientation \in Orientation /\ input.size \in [w : Nat \ {0}, h : Nat \ {0}]
        /\ 8 * input.size.w <= Significand /\ 8 * input.size.h <= Significand
    BY GateAssumption
  <1>2. ASSUME NEW i \in DOMAIN recognition.regions
        PROVE  recognition.regions[i].rect \in NormalizedRect
    <2>1. recognition.regions[i].rect # NoRect
      BY DEF Located, Range
    <2>2. recognition \in Recognition
      BY DEF Recognized, NoRecognition
    <2>3. recognition.regions \in Reports
      BY <2>2 DEF Recognition
    <2> QED BY <2>1, <2>3, GateAssumption
  <1>3. ASSUME NEW i \in DOMAIN Detections(recognition)
        PROVE  Detections(recognition)[i].rect \in PixelRect
    <2>1. /\ i \in DOMAIN recognition.regions
          /\ Detections(recognition)[i].rect =
               MapNormalizedRect(recognition.regions[i].rect, input.size, input.orientation)
      BY DEF Detections
    <2> QED BY <1>1, <1>2, <2>1, MappedRect
  <1> QED BY <1>3 DEF Range

(* The masked image is the capture's, black wherever something was found.  *)
LEMMA MaskedFacts ==
    ASSUME input \in Inputs, Recognized(first), Mappable(first),
           \A d \in Range(Detections(first)) : ValidRect(d.rect, input.size),
           NEW image, image = MaskImage(Original, Detections(first))
    PROVE  /\ image.of = "capture" /\ image.size = input.size
           /\ \A d \in Range(Detections(first)) : Pixels(d.rect) \subseteq image.black
           /\ image.black = UNION {Pixels(DilatedRect(d.rect, input.size)) : d \in Range(Detections(first))}
           /\ image # NoImage
           /\ Verifies(CoverageProof(image, Detections(first)), image, Detections(first))
  <1> DEFINE found == Range(Detections(first))
             Dilated(d) == Pixels(DilatedRect(d.rect, input.size))
             black == UNION {Dilated(d) : d \in found}
  <1>1. input.size \in [w : Nat \ {0}, h : Nat \ {0}]
    BY GateAssumption
  <1>2. Original = [of |-> "capture", size |-> input.size, black |-> {}]
    BY DEF Original
  <1>3. image = [of |-> "capture", size |-> input.size, black |-> {} \cup black]
    <2>1. Original.size = input.size
      BY <1>2
    <2>2. image = [Original EXCEPT !.black = @ \cup UNION
                     {Pixels(DilatedRect(d.rect, Original.size)) : d \in found}]
      BY DEF MaskImage
    <2>3. image = [Original EXCEPT !.black = @ \cup black]
      BY <2>1, <2>2
    <2> HIDE DEF black
    <2> QED BY <1>2, <2>3
  <1>4. \A d \in found : d.rect \in PixelRect
    BY DetectionFacts DEF Mappable
  <1>5. ASSUME NEW d \in found PROVE Pixels(d.rect) \subseteq Dilated(d)
    BY <1>1, <1>4, DilationCovers
  <1>6. ASSUME NEW d \in found PROVE Dilated(d) \subseteq Int \X Int
    <2>1. \A p \in Dilated(d) : p = <<p[1], p[2]>> /\ p[1] \in Int /\ p[2] \in Int
      BY PixelFacts
    <2> HIDE DEF Dilated
    <2> QED BY <2>1
  <1> HIDE DEF found, Dilated
  <1>7. \A d \in found : Pixels(d.rect) \subseteq black
    BY <1>5
  <1>8. black \subseteq Int \X Int
    BY <1>6
  <1> HIDE DEF black
  <1>9. /\ image.of = "capture" /\ image.size = input.size /\ image.black = black
    BY <1>3
  <1>10. image # NoImage
    <2>1. image \in [of : {"capture"}, size : [w : Nat, h : Nat], black : SUBSET (Int \X Int)]
      BY <1>1, <1>3, <1>8
    <2> QED BY <2>1, GateAssumption
  <1>11. Verifies(CoverageProof(image, Detections(first)), image, Detections(first))
    BY <1>7, <1>9 DEF Verifies, CoverageProof, found
  <1> QED BY <1>7, <1>9, <1>10, <1>11 DEF found, black, Dilated

-----------------------------------------------------------------------------
(* The steps of the gate                                                   *)

LEMMA ExcludedFacts ==
    ASSUME NEW reason, Excluded(reason)
    PROVE  /\ stage' = "done" /\ result'.how = reason /\ result'.at = stage
  BY DEF Excluded, NoResult

LEMMA ClockFacts ==
    ASSUME elapsed \in Nat, TimePasses PROVE elapsed' \in Nat
  BY DEF TimePasses

(* An exclusion before the second pass is none for the coverage.           *)
LEMMA ExclusionLemma ==
    ASSUME GateInv, UNCHANGED input, elapsed' \in Nat,
           Recognized(first'), Recognized(again'),
           NEW reason, reason \notin {"payload", "coverage"}, Excluded(reason)
    PROVE  GateInv'
  <1>1. stage' = "done" /\ result'.how = reason
    BY ExcludedFacts
  <1> QED BY <1>1 DEF GateInv, Emitted

LEMMA RecognizeLemma == ASSUME GateInv, Recognize PROVE GateInv'
  <1>1. /\ stage = "recognize" /\ Configured /\ elapsed' \in Nat
        /\ first' \in Recognition /\ UNCHANGED <<input, again, masked, coverage>>
    BY ClockFacts DEF Recognize, GateInv
  <1>2. CASE Excluded("timeout") \/ Excluded("partial")
    BY <1>1, <1>2, ExclusionLemma DEF Recognized, GateInv
  <1>3. CASE ~ first'.partial /\ InTime /\ input.recognizer /\ Passes("mask")
    <2>1. stage' = "mask" /\ UNCHANGED result /\ elapsed' <= Budget
      BY <1>3 DEF Passes, InTime
    <2> QED BY <1>1, <1>3, <2>1 DEF GateInv, Recognized, Emitted
  <1>4. CASE ~ first'.partial /\ ~ input.recognizer /\ Passes("masked")
    <2>1. stage' = "masked" /\ UNCHANGED result
      BY <1>4 DEF Passes
    <2>2. masked' = NoImage /\ coverage' = NoCoverage /\ again' = NoRecognition
      BY <1>1 DEF GateInv
    <2>3. IsCleared'
      BY <1>1, <1>4, <2>2 DEF IsCleared, Configured, NoRecognition
    <2> QED BY <1>1, <1>4, <2>1, <2>2, <2>3 DEF GateInv, Recognized, Emitted
  <1> QED BY <1>2, <1>3, <1>4 DEF Recognize

LEMMA MaskLemma == ASSUME GateInv, Mask PROVE GateInv'
  <1>1. /\ stage = "mask" /\ elapsed' \in Nat /\ UNCHANGED <<input, first, again, context>>
        /\ input \in Inputs /\ Recognized(first)
    BY ClockFacts DEF Mask, GateInv
  <1>2. CASE Excluded("masking")
    BY <1>1, <1>2, ExclusionLemma DEF GateInv
  <1>3. CASE /\ Mappable(first)
             /\ \A d \in Range(Detections(first)) : ValidRect(d.rect, input.size)
    <2> DEFINE found == Detections(first)
               image == MaskImage(Original, found)
    <2>1. Verifies(CoverageProof(image, found), image, found)
      BY <1>1, <1>3, MaskedFacts
    <2> HIDE DEF image
    <2>2. masked' = image /\ coverage' = CoverageProof(image, found) /\ Passes("rerun")
      BY <1>3, <2>1, Zenon DEF Mask, image
    <2>3. stage' = "rerun" /\ UNCHANGED result
      BY <2>2 DEF Passes
    <2>4. Mappable(first)' /\ Detections(first)' = found /\ Original' = Original
      BY <1>1, <1>3 DEF Mappable, Located, Detections, Original
    <2>5. IsMasked'
      BY <1>1, <1>3, <2>2, <2>4 DEF IsMasked, image
    <2> QED BY <1>1, <2>3, <2>5 DEF GateInv, Emitted
  <1> QED BY <1>2, <1>3 DEF Mask

(* IsMasked looks only at what the later stages leave alone.               *)
LEMMA MaskedStays ==
    ASSUME IsMasked, UNCHANGED <<input, first, masked, coverage>> PROVE IsMasked'
  BY DEF IsMasked, Mappable, Located, Detections, Original

LEMMA ClearedStays ==
    ASSUME IsCleared, UNCHANGED <<input, first, again, masked, coverage>> PROVE IsCleared'
  BY MaskedStays DEF IsCleared, Mappable, Located, Detections

(* What overlaps a masked region is found on it.                           *)
LEMMA ResidualFacts ==
    ASSUME input \in Inputs, Recognized(first), IsMasked,
           Recognized(again), Mappable(again), Residual(coverage, Detections(again)) # {}
    PROVE  Recovered # {}
  <1>1. PICK i \in DOMAIN Detections(again) :
               \E e \in Range(Detections(first)) :
                  /\ e.kind = Detections(again)[i].kind
                  /\ RectanglesOverlap(e.rect, Detections(again)[i].rect)
    BY DEF Residual, IsMasked, CoverageProof
  <1>2. PICK e \in Range(Detections(first)) :
               /\ e.kind = Detections(again)[i].kind
               /\ RectanglesOverlap(e.rect, Detections(again)[i].rect)
    BY <1>1
  <1> DEFINE d == Detections(again)[i]
  <1>3. d \in Range(Detections(again))
    BY DEF Range
  <1>4. e.rect \in PixelRect /\ d.rect \in PixelRect
    BY <1>3, DetectionFacts DEF IsMasked, Mappable
  <1>5. e.rect.w > 0 /\ e.rect.h > 0
    BY DEF IsMasked, ValidRect
  <1>6. Pixels(e.rect) \cap Ground(d.rect) # {}
    BY <1>2, <1>4, <1>5, OverlapsShare
  <1> QED BY <1>2, <1>3, <1>6 DEF Recovered

LEMMA RerunLemma == ASSUME GateInv, Rerun PROVE GateInv'
  <1>1. /\ stage = "rerun" /\ elapsed' \in Nat /\ again' \in Recognition
        /\ UNCHANGED <<input, first, masked, coverage, context>>
        /\ input.recognizer /\ ~ first.partial /\ IsMasked
    BY ClockFacts DEF Rerun, GateInv
  <1>2. IsMasked' /\ Recognized(again')
    BY <1>1, MaskedStays DEF Recognized
  <1>3. CASE Excluded("masking")
    BY <1>1, <1>2, <1>3, ExclusionLemma DEF GateInv
  <1>4. CASE /\ Mappable(again') /\ Residual(coverage, Detections(again')) # {}
             /\ Excluded("coverage")
    <2>1. stage' = "done" /\ result'.how = "coverage" /\ result'.at = "rerun"
      BY <1>1, <1>4, ExcludedFacts
    <2>2. Residual(coverage, Detections(again))' # {} /\ Mappable(again)'
      BY <1>1, <1>4 DEF Detections, Mappable, Located
    <2>3. Recovered' # {}
      <3>1. (input \in Inputs /\ Recognized(first) /\ IsMasked
             /\ Recognized(again) /\ Mappable(again) /\ Residual(coverage, Detections(again)) # {}
               => Recovered # {})'
        BY ResidualFacts, PTL
      <3> QED BY <1>1, <1>2, <2>2, <3>1 DEF GateInv, Recognized
    <2> QED BY <1>1, <1>2, <2>1, <2>3 DEF GateInv, Emitted
  <1>5. CASE /\ Mappable(again') /\ Residual(coverage, Detections(again')) = {}
             /\ Passes("masked")
    <2>1. stage' = "masked" /\ UNCHANGED result
      BY <1>5 DEF Passes
    <2>2. Residual(coverage, Detections(again))' = {} /\ Mappable(again)'
      BY <1>1, <1>5 DEF Detections, Mappable, Located
    <2>3. IsCleared'
      BY <1>1, <1>2, <2>2 DEF IsCleared, Mappable
    <2> QED BY <1>1, <1>2, <2>1, <2>3 DEF GateInv, Emitted
  <1> QED BY <1>3, <1>4, <1>5 DEF Rerun

LEMMA LateLemma ==
    ASSUME GateInv, RecognizeErr \/ Misconfigured \/ CheckMasking \/ Sanitize PROVE GateInv'
  <1>1. CASE RecognizeErr \/ Misconfigured
    <2>1. /\ elapsed' \in Nat
          /\ Excluded("masking") \/ Excluded("recognition")
          /\ UNCHANGED <<input, first, again>>
      BY <1>1, ClockFacts DEF RecognizeErr, Misconfigured, GateInv
    <2> QED BY <2>1, ExclusionLemma DEF GateInv
  <1>2. CASE CheckMasking \/ Sanitize
    <2>1. /\ elapsed' \in Nat /\ stage \in {"masked", "sanitize"} /\ IsCleared
          /\ UNCHANGED <<input, first, again, masked, coverage>>
      BY <1>2, ClockFacts DEF CheckMasking, Sanitize, GateInv
    <2>2. \/ Excluded("timeout") \/ Excluded("sanitization")
          \/ (Passes("sanitize") \/ Passes("finish")) /\ elapsed' <= Budget
      BY <1>2 DEF CheckMasking, Sanitize, InTime
    <2>3. CASE Excluded("timeout") \/ Excluded("sanitization")
      BY <2>1, <2>3, ExclusionLemma DEF GateInv
    <2>4. CASE (Passes("sanitize") \/ Passes("finish")) /\ elapsed' <= Budget
      <3>1. stage' \in {"sanitize", "finish"} /\ UNCHANGED result
        BY <2>4 DEF Passes
      <3>2. IsCleared'
        BY <2>1, ClearedStays
      <3> QED BY <2>1, <2>4, <3>1, <3>2 DEF GateInv, Emitted
    <2> QED BY <2>2, <2>3, <2>4
  <1> QED BY <1>1, <1>2

LEMMA FinishLemma == ASSUME GateInv, Finish PROVE GateInv'
  <1>1. /\ elapsed' \in Nat /\ IsCleared /\ stage = "finish"
        /\ UNCHANGED <<input, first, again, masked, coverage>>
    BY ClockFacts DEF Finish, GateInv
  <1>2. CASE Excluded("timeout")
    BY <1>1, <1>2, ExclusionLemma DEF GateInv
  <1>3. CASE /\ InTime /\ stage' = "done"
             /\ result' = Payload(IF input.allowed THEN masked ELSE NoImage)
    <2>1. /\ result'.how = "payload" /\ result'.coverage = coverage
          /\ result'.image = IF input.allowed THEN masked ELSE NoImage
      BY <1>3 DEF Payload
    <2>2. IsCleared' /\ elapsed' <= Budget
      BY <1>1, <1>3, ClearedStays DEF InTime
    <2> QED BY <1>1, <1>3, <2>1, <2>2 DEF GateInv
  <1> QED BY <1>2, <1>3 DEF Finish

LEMMA UntouchedLemma == ASSUME GateInv, UNCHANGED vars PROVE GateInv'
  <1>1. UNCHANGED <<input, stage, elapsed, first, again, masked, coverage, result>>
    BY DEF vars
  <1>2. IsMasked => IsMasked'
    BY <1>1, MaskedStays
  <1>3. IsCleared => IsCleared'
    BY <1>1, ClearedStays
  <1>4. Recovered' = Recovered
    BY <1>1 DEF Recovered, Detections
  <1> QED BY <1>1, <1>2, <1>3, <1>4 DEF GateInv, Emitted, Recognized

LEMMA GateInvariant == Spec => []GateInv
  <1>1. Init => GateInv
    BY DEF Init, GateInv, Recognized, NoResult, Emitted
  <1>2. GateInv /\ [Next]_vars => GateInv'
    BY RecognizeLemma, MaskLemma, RerunLemma, LateLemma, FinishLemma, UntouchedLemma DEF Next
  <1> QED BY <1>1, <1>2, PTL DEF Spec

-----------------------------------------------------------------------------
(* Numbers: induction, as a fact about a set of them.                      *)

LEMMA SetInduction ==
    ASSUME NEW S, 0 \in S, \A n \in Nat : n \in S => n + 1 \in S
    PROVE  Nat \subseteq S
  <1> DEFINE T == Nat \ S
  <1>1. SUFFICES ASSUME T # {} PROVE FALSE
    OBVIOUS
  <1>2. PICK i \in T : \A j \in T : i <= j
    BY <1>1, Smallest
  <1>3. i # 0 /\ i - 1 \in Nat /\ i - 1 \notin T
    BY <1>2
  <1> QED BY <1>3

-----------------------------------------------------------------------------
(* The positions of the tokens of a text                                   *)

(* The starts of the first n tokens, as TokenStart adds them up.           *)
Starts(text, n, start) ==
  /\ start \in [1..n -> Nat]
  /\ start = [j \in 1..n |-> IF j = 1 THEN 1 ELSE start[j - 1] + text[j - 1].len + 1]

LEMMA LengthFacts ==
    ASSUME NEW text \in Seq(Token)
    PROVE  /\ Len(text) \in Nat /\ DOMAIN text = 1..Len(text)
           /\ \A i \in DOMAIN text : /\ text[i] \in Token
                                     /\ text[i].len \in Nat /\ text[i].len >= 1
                                     /\ text[i].mark \in Nat /\ text[i].mark <= text[i].len
  <1>1. Len(text) \in Nat /\ DOMAIN text = 1..Len(text) /\ \A i \in DOMAIN text : text[i] \in Token
    OBVIOUS
  <1>2. \A t \in Token : t.len \in Nat /\ t.len >= 1 /\ t.mark \in Nat /\ t.mark <= t.len
    BY DEF Token
  <1> QED BY <1>1, <1>2

LEMMA StartsExist ==
    ASSUME NEW text \in Seq(Token)
    PROVE  \E start : Starts(text, Len(text), start)
  <1> DEFINE S == {n \in Nat : n <= Len(text) => \E start : Starts(text, n, start)}
  <1>0. 0 \in S
    <2> DEFINE none == [j \in 1..0 |-> 1]
    <2>1. none \in [1..0 -> Nat] /\ none = [j \in 1..0 |-> IF j = 1 THEN 1 ELSE none[j - 1] + text[j - 1].len + 1]
      OBVIOUS
    <2>2. Starts(text, 0, none)
      BY <2>1 DEF Starts
    <2> QED BY <2>2
  <1>1. ASSUME NEW n \in Nat, n \in S, n + 1 <= Len(text)
        PROVE  \E start : Starts(text, n + 1, start)
    <2>1. PICK start : Starts(text, n, start)
      BY <1>1, LengthFacts
    <2> DEFINE m == n + 1
               next == [j \in 1..m |-> IF j = 1 THEN 1 ELSE start[j - 1] + text[j - 1].len + 1]
    <2>2. ASSUME NEW j \in 1..m, j # 1
          PROVE  j - 1 \in 1..n /\ start[j - 1] \in Nat /\ text[j - 1].len \in Nat /\ start[j - 1] = next[j - 1]
      <3>1. j - 1 \in 1..n /\ j - 1 \in DOMAIN text
        BY <2>2, <1>1, LengthFacts
      <3>2. start[j - 1] \in Nat /\ text[j - 1].len \in Nat
        BY <3>1, <2>1, LengthFacts DEF Starts
      <3>3. start[j - 1] = IF j - 1 = 1 THEN 1 ELSE start[j - 1 - 1] + text[j - 1 - 1].len + 1
        BY <3>1, <2>1 DEF Starts
      <3>4. j - 1 \in 1..m
        BY <3>1
      <3>5. next[j - 1] = IF j - 1 = 1 THEN 1 ELSE start[j - 1 - 1] + text[j - 1 - 1].len + 1
        BY <3>4
      <3> HIDE DEF next
      <3>6. start[j - 1] = next[j - 1]
        BY <3>3, <3>5, Zenon
      <3> QED BY <3>1, <3>2, <3>6
    <2>3. next \in [1..m -> Nat]
      <3>1. \A j \in 1..m : j # 1 => start[j - 1] \in Nat /\ text[j - 1].len \in Nat
        BY <2>2
      <3> HIDE DEF m
      <3> QED BY <3>1
    <2>4. next = [j \in 1..m |-> IF j = 1 THEN 1 ELSE next[j - 1] + text[j - 1].len + 1]
      BY <2>2
    <2>5. Starts(text, m, next)
      BY <2>3, <2>4 DEF Starts
    <2> QED BY <2>5
  <1>2. Nat \subseteq S
    <2>1. \A n \in Nat : n \in S => n + 1 \in S
      BY <1>1, LengthFacts
    <2> HIDE DEF S
    <2> QED BY <1>0, <2>1, SetInduction
  <1> QED BY <1>2, LengthFacts

LEMMA StartFacts ==
    ASSUME NEW text \in Seq(Token), NEW i \in DOMAIN text
    PROVE  /\ TokenStart(text, i) \in Nat
           /\ i = 1 => TokenStart(text, i) = 1
           /\ i # 1 => /\ i - 1 \in DOMAIN text
                       /\ TokenStart(text, i) = TokenEnd(text, i - 1) + 1
  <1> DEFINE start == CHOOSE start : start = [j \in DOMAIN text |-> IF j = 1 THEN 1 ELSE start[j - 1] + text[j - 1].len + 1]
             S == {n \in Nat : n + 1 \in DOMAIN text => start[n + 1] \in Nat}
  <1>1. start = [j \in DOMAIN text |-> IF j = 1 THEN 1 ELSE start[j - 1] + text[j - 1].len + 1]
    <2>1. PICK f : Starts(text, Len(text), f)
      BY StartsExist
    <2>2. f = [j \in DOMAIN text |-> IF j = 1 THEN 1 ELSE f[j - 1] + text[j - 1].len + 1]
      BY <2>1, LengthFacts, Zenon DEF Starts
    <2> QED BY <2>2, Zenon
  <1>2. \A j \in DOMAIN text : TokenStart(text, j) = start[j]
    BY DEF TokenStart
  <1> HIDE DEF start
  <1>3. ASSUME NEW j \in DOMAIN text
        PROVE  start[j] = IF j = 1 THEN 1 ELSE start[j - 1] + text[j - 1].len + 1
    BY <1>1
  <1>4. Nat \subseteq S
    <2>0. 0 \in S
      <3>1. 1 \in DOMAIN text => start[1] = 1
        BY <1>3
      <3> QED BY <3>1
    <2>1. ASSUME NEW n \in Nat, n \in S, n + 1 + 1 \in DOMAIN text
          PROVE  start[n + 1 + 1] \in Nat
      <3>1. n + 1 \in DOMAIN text /\ n + 1 + 1 # 1 /\ n + 1 + 1 - 1 = n + 1
        BY <2>1, LengthFacts
      <3>2. start[n + 1 + 1] = start[n + 1] + text[n + 1].len + 1
        <4> DEFINE j == n + 1 + 1
        <4>1. j \in DOMAIN text /\ j # 1 /\ j - 1 = n + 1
          BY <2>1, <3>1
        <4> HIDE DEF j
        <4>2. start[j] = start[n + 1] + text[n + 1].len + 1
          BY <4>1, <1>3
        <4> QED BY <4>2 DEF j
      <3>3. start[n + 1] \in Nat
        BY <2>1, <3>1
      <3>4. text[n + 1].len \in Nat
        BY <3>1, LengthFacts
      <3> QED BY <3>2, <3>3, <3>4
    <2>2. \A n \in Nat : n \in S => n + 1 \in S
      BY <2>1
    <2> HIDE DEF S
    <2> QED BY <2>0, <2>2, SetInduction
  <1>5. i - 1 \in Nat /\ i - 1 + 1 = i /\ (i # 1 => i - 1 \in DOMAIN text)
    BY LengthFacts
  <1>6. start[i] \in Nat
    BY <1>4, <1>5
  <1> QED BY <1>2, <1>3, <1>5, <1>6 DEF TokenEnd

(* A token ends behind its start, and before the next one starts.          *)
LEMMA PositionFacts ==
    ASSUME NEW text \in Seq(Token), NEW i \in DOMAIN text
    PROVE  /\ TokenStart(text, i) \in Nat /\ TokenStart(text, i) >= 1
           /\ TokenEnd(text, i) \in Nat /\ TokenEnd(text, i) > TokenStart(text, i)
           /\ TokenEnd(text, i) = TokenStart(text, i) + text[i].len
           /\ \A j \in DOMAIN text : i < j => TokenEnd(text, i) < TokenStart(text, j)
  <1>1. \A j \in DOMAIN text : /\ TokenStart(text, j) \in Nat
                               /\ TokenEnd(text, j) = TokenStart(text, j) + text[j].len
                               /\ TokenEnd(text, j) \in Nat /\ TokenEnd(text, j) > TokenStart(text, j)
    BY StartFacts, LengthFacts DEF TokenEnd
  <1>2. TokenStart(text, i) >= 1
    <2>1. CASE i = 1
      BY <2>1, StartFacts
    <2>2. CASE i # 1
      BY <2>2, StartFacts, <1>1
    <2> QED BY <2>1, <2>2
  <1>. DOMAIN text = 1..Len(text) /\ Len(text) \in Nat /\ i \in Int
    BY LengthFacts
  <1> DEFINE S == {n \in Nat : i + 1 + n \in DOMAIN text => TokenEnd(text, i) < TokenStart(text, i + 1 + n)}
  <1>3. ASSUME NEW j \in DOMAIN text, j + 1 \in DOMAIN text
        PROVE  TokenStart(text, j + 1) = TokenEnd(text, j) + 1
    <2>1. j \in Nat /\ j + 1 # 1 /\ j + 1 - 1 = j
      BY LengthFacts
    <2> QED BY <2>1, <1>3, StartFacts
  <1>4. Nat \subseteq S
    <2>0. 0 \in S
      BY <1>1, <1>3, LengthFacts
    <2>1. ASSUME NEW n \in Nat, i + 1 + (n + 1) \in DOMAIN text,
                 i + 1 + n \in DOMAIN text => TokenEnd(text, i) < TokenStart(text, i + 1 + n)
          PROVE  TokenEnd(text, i) < TokenStart(text, i + 1 + (n + 1))
      <3> DEFINE j == i + 1 + n
      <3>1. j \in DOMAIN text /\ j \in Int /\ i \in Int /\ j + 1 = i + 1 + (n + 1)
        BY <2>1
      <3>2. TokenEnd(text, i) < TokenStart(text, j)
        BY <2>1, <3>1
      <3> HIDE DEF j
      <3>3. TokenStart(text, j + 1) = TokenEnd(text, j) + 1
        BY <2>1, <3>1, <1>3
      <3>4. TokenEnd(text, i) < TokenStart(text, j + 1)
        <4>1. TokenStart(text, j) \in Nat /\ TokenEnd(text, j) \in Nat /\ TokenEnd(text, j) > TokenStart(text, j)
          BY <3>1, <1>1
        <4>2. TokenEnd(text, i) \in Nat
          BY <1>1
        <4> QED BY <3>2, <3>3, <4>1, <4>2
      <3> QED BY <3>1, <3>4
    <2>2. \A n \in Nat : n \in S => n + 1 \in S
      BY <2>1
    <2> HIDE DEF S
    <2> QED BY <2>0, <2>2, SetInduction
  <1>5. ASSUME NEW j \in DOMAIN text, i < j
        PROVE  TokenEnd(text, i) < TokenStart(text, j)
    <2>1. j - i - 1 \in Nat /\ i + 1 + (j - i - 1) = j
      BY <1>5, LengthFacts
    <2> QED BY <2>1, <1>4
  <1> QED BY <1>1, <1>2, <1>5

-----------------------------------------------------------------------------
(* The findings of a text                                                  *)

FindingType == [class : Range(Class), start : Nat, end : Nat]

LEMMA RankFacts ==
    ASSUME NEW c \in Range(Class)
    PROVE  Rank(c) \in 1..8 /\ Class[Rank(c)] = c
  <1>1. DOMAIN Class = 1..8
    BY DEF Class
  <1>2. \E i \in DOMAIN Class : Class[i] = c
    BY DEF Range
  <1>3. Rank(c) \in DOMAIN Class /\ Class[Rank(c)] = c
    BY <1>2, Zenon DEF Rank
  <1> QED BY <1>1, <1>3

LEMMA OrderFacts ==
    ASSUME NEW f \in FindingType, NEW g \in FindingType, NEW h \in FindingType
    PROVE  /\ f = g \/ FindingOrder(f, g) \/ FindingOrder(g, f)
           /\ FindingOrder(f, g) /\ FindingOrder(g, h) => FindingOrder(f, h)
  <1>1. ASSUME NEW e \in FindingType
        PROVE  /\ e = [class |-> e.class, start |-> e.start, end |-> e.end]
               /\ e.start \in Nat /\ e.end \in Nat /\ e.class \in Range(Class)
    BY DEF FindingType
  <1>2. ASSUME NEW e \in FindingType
        PROVE  Rank(e.class) \in Int /\ Class[Rank(e.class)] = e.class
    BY <1>1, RankFacts
  <1>3. f.start = g.start /\ f.end = g.end /\ Rank(f.class) = Rank(g.class) => f = g
    <2>1. Rank(f.class) = Rank(g.class) => f.class = g.class
      BY <1>2, Zenon
    <2>2. f = [class |-> f.class, start |-> f.start, end |-> f.end]
      BY <1>1
    <2>3. g = [class |-> g.class, start |-> g.start, end |-> g.end]
      BY <1>1
    <2> QED BY <2>1, <2>2, <2>3, Zenon
  <1>4. /\ f.start \in Nat /\ f.end \in Nat /\ Rank(f.class) \in Int
        /\ g.start \in Nat /\ g.end \in Nat /\ Rank(g.class) \in Int
        /\ h.start \in Nat /\ h.end \in Nat /\ Rank(h.class) \in Int
    BY <1>1, <1>2
  <1> QED BY <1>3, <1>4 DEF FindingOrder

(* A finding begins in a token and ends with it, or with a later token     *)
(* that is the suffix of an address.                                       *)
Covers(text, f, i, j) ==
  /\ i \in DOMAIN text /\ j \in DOMAIN text /\ i <= j
  /\ TokenStart(text, i) <= f.start /\ f.start < TokenEnd(text, i) /\ f.end = TokenEnd(text, j)
  /\ i = j \/ Has(text, j, "suffix")

LEMMA ClassesOfTokens ==
    ASSUME NEW t \in Token
    PROVE  WholeClasses(t) \subseteq Range(Class) /\ t.assigned \in Range(Class)
  <1>1. t.shapes \subseteq Shape /\ t.assigned \in {"credential", "apikey"}
    BY DEF Token
  <1>2. Range(Class) = {"email", "phone", "credential", "apikey", "card", "national", "address", "entropy"}
    <2>1. DOMAIN Class = 1..8
      BY DEF Class
    <2>2. /\ Class[1] = "email" /\ Class[2] = "phone" /\ Class[3] = "credential" /\ Class[4] = "apikey"
          /\ Class[5] = "card" /\ Class[6] = "national" /\ Class[7] = "address" /\ Class[8] = "entropy"
      BY DEF Class
    <2>3. \A i \in 1..8 : i = 1 \/ i = 2 \/ i = 3 \/ i = 4 \/ i = 5 \/ i = 6 \/ i = 7 \/ i = 8
      OBVIOUS
    <2> QED BY <2>1, <2>2, <2>3 DEF Range
  <1> QED BY <1>1, <1>2 DEF WholeClasses, Shape

LEMMA DetectFacts ==
    ASSUME NEW text \in Seq(Token), NEW f \in DetectFindings(text)
    PROVE  f \in FindingType /\ \E i, j \in DOMAIN text : Covers(text, f, i, j)
  <1>1. CASE f \in AddressFindings(text)
    <2>1. PICK p \in (DOMAIN text) \X {1, 2} :
            /\ Has(text, p[1], "digits") /\ Has(text, p[1] + p[2], "suffix")
            /\ f = Finding("address", TokenStart(text, p[1]), TokenEnd(text, p[1] + p[2]))
      BY <1>1, Zenon DEF AddressFindings
    <2> DEFINE i == p[1]
               j == p[1] + p[2]
    <2>2. i \in DOMAIN text /\ j \in DOMAIN text /\ i <= j /\ Has(text, j, "suffix")
      BY <2>1, LengthFacts DEF Has
    <2>3. f = [class |-> "address", start |-> TokenStart(text, i), end |-> TokenEnd(text, j)]
      BY <2>1, Zenon DEF Finding
    <2> HIDE DEF i, j
    <2>4. "address" \in Range(Class)
      BY DEF Range, Class
    <2>5. TokenStart(text, i) \in Nat /\ TokenEnd(text, i) > TokenStart(text, i)
      BY <2>2, PositionFacts
    <2>6. TokenEnd(text, j) \in Nat
      BY <2>2, PositionFacts
    <2>7. TokenEnd(text, i) \in Nat
      BY <2>2, PositionFacts
    <2>8. Covers(text, f, i, j)
      BY <2>2, <2>3, <2>5, <2>6, <2>7 DEF Covers
    <2>9. f \in FindingType
      BY <2>3, <2>4, <2>5, <2>6 DEF FindingType
    <2> QED BY <2>2, <2>8, <2>9
  <1>2. ASSUME NEW i \in DOMAIN text, f \in TokenFindings(text, i)
        PROVE  f \in FindingType /\ Covers(text, f, i, i)
    <2>1. text[i] \in Token /\ text[i].mark \in Nat
      BY LengthFacts
    <2>2. /\ TokenStart(text, i) \in Nat /\ TokenEnd(text, i) \in Nat
          /\ TokenEnd(text, i) > TokenStart(text, i)
          /\ TokenEnd(text, i) = TokenStart(text, i) + text[i].len
      BY PositionFacts
    <2>3. WholeClasses(text[i]) \subseteq Range(Class) /\ text[i].assigned \in Range(Class)
      BY <2>1, ClassesOfTokens
    <2>4. i <= i /\ text[i].len \in Nat
      BY LengthFacts
    <2>5. CASE f \in {Finding(c, TokenStart(text, i), TokenEnd(text, i)) : c \in WholeClasses(text[i])}
      <3>1. PICK c \in WholeClasses(text[i]) : f = [class |-> c, start |-> TokenStart(text, i), end |-> TokenEnd(text, i)]
        BY <2>5, Zenon DEF Finding
      <3>2. f.start = TokenStart(text, i) /\ f.end = TokenEnd(text, i)
        BY <3>1
      <3>3. f \in FindingType
        BY <3>1, <2>2, <2>3 DEF FindingType
      <3> QED BY <3>2, <3>3, <2>2, <2>4 DEF Covers
    <2>6. CASE text[i].mark < text[i].len
               /\ f = Finding(text[i].assigned, TokenStart(text, i) + text[i].mark, TokenEnd(text, i))
      <3> DEFINE at == TokenStart(text, i) + text[i].mark
      <3>1. at \in Nat /\ at >= TokenStart(text, i) /\ at < TokenEnd(text, i)
        BY <2>1, <2>2, <2>4, <2>6
      <3>2. f = [class |-> text[i].assigned, start |-> at, end |-> TokenEnd(text, i)]
        BY <2>6, Zenon DEF Finding
      <3> HIDE DEF at
      <3>3. f \in FindingType
        BY <3>1, <3>2, <2>2, <2>3 DEF FindingType
      <3> QED BY <3>1, <3>2, <3>3, <2>2, <2>4 DEF Covers
    <2> QED BY <1>2, <2>5, <2>6, Zenon DEF TokenFindings
  <1> QED BY <1>1, <1>2, Zenon DEF DetectFindings

LEMMA FoundIsFinite ==
    ASSUME NEW text \in Seq(Token)
    PROVE  IsFiniteSet(DetectFindings(text))
  <1> DEFINE n == IF text = <<>> THEN 0 ELSE TokenEnd(text, Len(text))
             P == Range(Class) \X ((0..n) \X (0..n))
             key == [f \in DetectFindings(text) |-> <<f.class, <<f.start, f.end>>>>]
  <1>1. n \in Nat
    <2>1. text # <<>> => Len(text) \in DOMAIN text
      BY LengthFacts
    <2> QED BY <2>1, PositionFacts
  <1>2. ASSUME NEW f \in DetectFindings(text)
        PROVE  /\ f.class \in Range(Class) /\ f.start \in 0..n /\ f.end \in 0..n
               /\ f = [class |-> f.class, start |-> f.start, end |-> f.end]
    <2>1. f \in FindingType
      BY DetectFacts
    <2>2. PICK i \in DOMAIN text, j \in DOMAIN text : Covers(text, f, i, j)
      BY DetectFacts
    <2>3. Len(text) \in DOMAIN text /\ j <= Len(text) /\ text # <<>> /\ j \in Int /\ Len(text) \in Int /\ i \in Int
      BY LengthFacts
    <2>4. TokenEnd(text, j) <= TokenEnd(text, Len(text))
      <3>1. CASE j = Len(text)
        BY <3>1, <2>3, PositionFacts
      <3>2. CASE j < Len(text)
        <4>1. TokenEnd(text, j) < TokenStart(text, Len(text)) /\ TokenEnd(text, j) \in Nat
          BY <3>2, <2>3, PositionFacts
        <4>2. TokenStart(text, Len(text)) < TokenEnd(text, Len(text)) /\ TokenStart(text, Len(text)) \in Nat
              /\ TokenEnd(text, Len(text)) \in Nat
          BY <2>3, PositionFacts
        <4> QED BY <4>1, <4>2
      <3> QED BY <3>1, <3>2, <2>3
    <2>5. TokenEnd(text, i) <= TokenEnd(text, j) /\ TokenEnd(text, i) \in Nat
      <3>1. CASE i = j
        BY <3>1, PositionFacts
      <3>2. CASE i < j
        <4>1. TokenEnd(text, i) < TokenStart(text, j) /\ TokenEnd(text, i) \in Nat
          BY <3>2, PositionFacts
        <4>2. TokenStart(text, j) < TokenEnd(text, j) /\ TokenStart(text, j) \in Nat /\ TokenEnd(text, j) \in Nat
          BY PositionFacts
        <4> QED BY <4>1, <4>2
      <3> QED BY <3>1, <3>2, <2>2, <2>3 DEF Covers
    <2>6. n = TokenEnd(text, Len(text))
      BY <2>3
    <2>7. f.start \in Nat /\ f.end \in Nat /\ f.class \in Range(Class)
          /\ f = [class |-> f.class, start |-> f.start, end |-> f.end]
      BY <2>1 DEF FindingType
    <2>8. f.start < TokenEnd(text, i) /\ f.end = TokenEnd(text, j)
      BY <2>2 DEF Covers
    <2> HIDE DEF n
    <2>9. TokenEnd(text, j) \in Nat /\ TokenEnd(text, i) \in Nat
      BY PositionFacts
    <2> QED BY <1>1, <2>4, <2>5, <2>6, <2>7, <2>8, <2>9
  <1> HIDE DEF n
  <1>3. IsFiniteSet(P)
    <2>1. IsFiniteSet(0..n)
      BY <1>1, FS_Interval
    <2>2. IsFiniteSet((0..n) \X (0..n))
      BY <2>1, FS_Product
    <2>3. IsFiniteSet(Range(Class))
      <3>1. DOMAIN Class = 1..8
        BY DEF Class
      <3>2. IsFiniteSet(DOMAIN Class)
        <4>1. DOMAIN Class \in SUBSET Nat /\ 8 \in Nat /\ \A i \in DOMAIN Class : i <= 8
          BY <3>1
        <4> QED BY <4>1, FS_BoundedSetOfNaturals
      <3> DEFINE at == [i \in DOMAIN Class |-> Class[i]]
      <3>3. at \in Surjection(DOMAIN Class, Range(Class))
        BY DEF Surjection, Range
      <3> HIDE DEF at
      <3> QED BY <3>2, <3>3, FS_Surjection
    <2> QED BY <2>2, <2>3, FS_Product
  <1>4. key \in Injection(DetectFindings(text), P)
    <2>1. key \in [DetectFindings(text) -> P]
      BY <1>2
    <2>2. \A f, g \in DetectFindings(text) : key[f] = key[g] => f = g
      BY <1>2
    <2> QED BY <2>1, <2>2 DEF Injection, IsInjective
  <1> HIDE DEF P, key
  <1> QED BY <1>3, <1>4, FS_Injection

LEMMA LatestFacts ==
    ASSUME NEW F, F \subseteq FindingType, IsFiniteSet(F), F # {}
    PROVE  Latest(F) \in F /\ \A g \in F \ {Latest(F)} : FindingOrder(g, Latest(F))
  <1> DEFINE HasLatest(T) == \E f \in T : \A g \in T \ {f} : FindingOrder(g, f)
             S == {n \in Nat : \A T \in SUBSET F : Cardinality(T) = n /\ T # {} => HasLatest(T)}
  <1>1. ASSUME NEW T \in SUBSET F
        PROVE  IsFiniteSet(T) /\ Cardinality(T) \in Nat
    <2>1. IsFiniteSet(T)
      BY FS_Subset
    <2> QED BY <2>1, FS_CardinalityType
  <1>2. 0 \in S
    BY <1>1, FS_EmptySet
  <1>3. ASSUME NEW n \in Nat, \A T \in SUBSET F : Cardinality(T) = n /\ T # {} => HasLatest(T),
               NEW T \in SUBSET F, Cardinality(T) = n + 1, T # {}
        PROVE  HasLatest(T)
    <2>1. PICK x \in T : TRUE
      BY <1>3
    <2> DEFINE U == T \ {x}
    <2>2. U \in SUBSET F /\ Cardinality(U) = n
      <3>1. IsFiniteSet(T)
        BY <1>1
      <3>2. Cardinality(U) = Cardinality(T) - 1
        BY <3>1, FS_RemoveElement
      <3> QED BY <3>2, <1>3
    <2>3. CASE U = {}
      BY <2>3
    <2>4. CASE U # {}
      <3>1. HasLatest(U)
        BY <1>3, <2>2, <2>4
      <3>2. PICK f \in U : \A g \in U \ {f} : FindingOrder(g, f)
        BY <3>1
      <3>3. FindingOrder(x, f) \/ FindingOrder(f, x)
        BY <3>2, OrderFacts
      <3>4. CASE FindingOrder(x, f)
        BY <3>2, <3>4
      <3>5. CASE FindingOrder(f, x)
        <4>1. \A g \in T \ {x} : FindingOrder(g, x)
          BY <3>2, <3>5, OrderFacts
        <4> QED BY <4>1
      <3> QED BY <3>3, <3>4, <3>5
    <2> QED BY <2>3, <2>4
  <1>4. Nat \subseteq S
    <2>1. \A n \in Nat : n \in S => n + 1 \in S
      BY <1>3
    <2> HIDE DEF S
    <2> QED BY <1>2, <2>1, SetInduction
  <1>5. HasLatest(F)
    <2>1. Cardinality(F) \in Nat
      BY FS_CardinalityType
    <2> QED BY <2>1, <1>4
  <1> QED BY <1>5, Zenon DEF Latest

-----------------------------------------------------------------------------
(* The walk over the findings in their order                               *)

StartOfWalk == [cursor |-> 1, placed |-> <<>>, kept |-> {}]
Walk(walk, T) ==
  walk = [s \in T |-> IF s = {} THEN StartOfWalk ELSE Replace(Latest(s), walk[s \ {Latest(s)}])]

(* The recursion that the fold stands for has a solution: it is extended   *)
(* from the sets of n findings to those of n + 1.                          *)
LEMMA WalkExists ==
    ASSUME NEW F, F \subseteq FindingType, IsFiniteSet(F)
    PROVE  \E walk : Walk(walk, SUBSET F)
  <1> DEFINE UpTo(n) == {s \in SUBSET F : Cardinality(s) <= n}
             S == {n \in Nat : \E walk : Walk(walk, UpTo(n))}
  <1>1. ASSUME NEW s \in SUBSET F
        PROVE  /\ IsFiniteSet(s) /\ Cardinality(s) \in Nat /\ Cardinality(s) <= Cardinality(F)
               /\ Cardinality(s) = 0 <=> s = {}
               /\ s # {} => /\ Latest(s) \in s /\ s \ {Latest(s)} \in SUBSET F
                            /\ Cardinality(s \ {Latest(s)}) = Cardinality(s) - 1
    <2>1. IsFiniteSet(s) /\ Cardinality(s) <= Cardinality(F)
      BY FS_Subset
    <2>2. Cardinality(s) \in Nat
      BY <2>1, FS_CardinalityType
    <2>3. Cardinality(s) = 0 <=> s = {}
      BY <2>1, FS_EmptySet
    <2>4. s # {} => Latest(s) \in s
      BY <2>1, LatestFacts
    <2>5. s # {} => Cardinality(s \ {Latest(s)}) = Cardinality(s) - 1
      BY <2>1, <2>4, FS_RemoveElement
    <2> QED BY <2>1, <2>2, <2>3, <2>4, <2>5
  <1>2. 0 \in S
    <2> DEFINE none == [s \in UpTo(0) |-> StartOfWalk]
    <2>1. ASSUME NEW s \in UpTo(0)
          PROVE  s = {}
      <3>1. Cardinality(s) \in Nat /\ Cardinality(s) <= 0 /\ (Cardinality(s) = 0 <=> s = {})
        BY <1>1
      <3> QED BY <3>1
    <2> HIDE DEF UpTo
    <2>2. none = [s \in UpTo(0) |-> IF s = {} THEN StartOfWalk ELSE Replace(Latest(s), none[s \ {Latest(s)}])]
      BY <2>1
    <2> HIDE DEF none
    <2>3. Walk(none, UpTo(0))
      BY <2>2, Zenon DEF Walk
    <2> QED BY <2>3
  <1>3. ASSUME NEW n \in Nat, NEW walk, Walk(walk, UpTo(n))
        PROVE  \E next : Walk(next, UpTo(n + 1))
    <2> DEFINE next == [s \in UpTo(n + 1) |-> IF s = {} THEN StartOfWalk ELSE Replace(Latest(s), walk[s \ {Latest(s)}])]
    <2>1. ASSUME NEW s \in UpTo(n + 1), s # {}
          PROVE  walk[s \ {Latest(s)}] = next[s \ {Latest(s)}]
      <3> DEFINE u == s \ {Latest(s)}
      <3>1. u \in UpTo(n) /\ u \in UpTo(n + 1)
        BY <2>1, <1>1
      <3> HIDE DEF UpTo, u
      <3>2. walk[u] = IF u = {} THEN StartOfWalk ELSE Replace(Latest(u), walk[u \ {Latest(u)}])
        BY <3>1, <1>3 DEF Walk
      <3>3. next[u] = IF u = {} THEN StartOfWalk ELSE Replace(Latest(u), walk[u \ {Latest(u)}])
        BY <3>1
      <3> QED BY <3>2, <3>3, Zenon DEF u
    <2> HIDE DEF UpTo
    <2>2. next = [s \in UpTo(n + 1) |-> IF s = {} THEN StartOfWalk ELSE Replace(Latest(s), next[s \ {Latest(s)}])]
      BY <2>1
    <2> HIDE DEF next
    <2> QED BY <2>2 DEF Walk
  <1>4. Nat \subseteq S
    <2>1. ASSUME NEW n \in Nat, n \in S
          PROVE  n + 1 \in S
      <3> HIDE DEF UpTo
      <3>1. PICK walk : Walk(walk, UpTo(n))
        BY <2>1
      <3>2. \E next : Walk(next, UpTo(n + 1))
        BY <3>1, <1>3, Zenon
      <3> QED BY <3>2
    <2> HIDE DEF S
    <2> QED BY <1>2, <2>1, SetInduction
  <1>5. Cardinality(F) \in Nat /\ UpTo(Cardinality(F)) = SUBSET F
    BY <1>1
  <1> HIDE DEF UpTo
  <1> QED BY <1>4, <1>5

(* What is kept of the text has no character of the findings walked past.  *)
Cleared(w, g) == w.kept \cap (g.start .. g.end - 1) = {}
WalkInv(s, w) ==
  /\ w.cursor \in Nat \ {0} /\ w.kept \subseteq 1 .. w.cursor - 1
  /\ w.cursor = 1 \/ \E g \in s : w.cursor = g.end /\ Cleared(w, g)
  /\ \A f \in s : \E g \in s : /\ g = f \/ FindingOrder(g, f)
                               /\ f.start < g.end /\ g.end <= w.cursor /\ Cleared(w, g)

Extended(F) == \A f \in F : f \in FindingType /\ f.start >= 1 /\ f.start < f.end

LEMMA ReplaceKeepsWalkInv ==
    ASSUME NEW s, NEW f \in s, Extended(s), \A g \in s \ {f} : FindingOrder(g, f),
           NEW w, WalkInv(s \ {f}, w)
    PROVE  WalkInv(s, Replace(f, w))
  <1>1. /\ \A g \in s : g.start \in Nat /\ g.end \in Nat /\ g.start >= 1 /\ g.start < g.end
        /\ w.cursor \in Nat /\ w.cursor >= 1 /\ w.kept \subseteq 1 .. w.cursor - 1
    BY DEF Extended, FindingType, WalkInv
  <1>2. CASE f.start < w.cursor
    <2>1. Replace(f, w) = w
      BY <1>2 DEF Replace
    <2>2. PICK g \in s \ {f} : w.cursor = g.end /\ Cleared(w, g)
      BY <1>1, <1>2 DEF WalkInv
    <2>3. FindingOrder(g, f) /\ f.start < g.end /\ g.end <= w.cursor
      BY <2>2, <1>1, <1>2
    <2>4. ASSUME NEW h \in s
          PROVE  \E k \in s : /\ k = h \/ FindingOrder(k, h)
                              /\ h.start < k.end /\ k.end <= w.cursor /\ Cleared(w, k)
      <3>1. CASE h = f
        BY <3>1, <2>2, <2>3
      <3>2. CASE h # f
        BY <3>2 DEF WalkInv
      <3> QED BY <3>1, <3>2
    <2>5. w.cursor = 1 \/ \E h \in s : w.cursor = h.end /\ Cleared(w, h)
      BY <2>2
    <2> QED BY <2>1, <2>4, <2>5, <1>1 DEF WalkInv
  <1>3. CASE ~ (f.start < w.cursor)
    <2> DEFINE v == Replace(f, w)
    <2>1. v.cursor = f.end /\ v.kept = w.kept \cup (w.cursor .. f.start - 1)
      BY <1>3 DEF Replace
    <2>2. w.cursor <= f.start /\ f.start < f.end /\ f.start \in Nat /\ f.end \in Nat
      BY <1>1, <1>3
    <2> HIDE DEF v
    <2>3. v.cursor \in Nat \ {0} /\ v.kept \subseteq 1 .. v.cursor - 1
      BY <2>1, <2>2, <1>1
    <2>4. Cleared(v, f)
      BY <2>1, <2>2, <1>1 DEF Cleared
    <2>5. ASSUME NEW h \in s
          PROVE  \E k \in s : /\ k = h \/ FindingOrder(k, h)
                              /\ h.start < k.end /\ k.end <= v.cursor /\ Cleared(v, k)
      <3>1. CASE h = f
        BY <3>1, <2>1, <2>2, <2>4
      <3>2. CASE h # f
        <4>1. PICK k \in s \ {f} : /\ k = h \/ FindingOrder(k, h)
                                   /\ h.start < k.end /\ k.end <= w.cursor /\ Cleared(w, k)
          BY <3>2 DEF WalkInv
        <4>2. k.end <= v.cursor /\ k.end \in Nat /\ k.start \in Nat
          BY <4>1, <2>1, <2>2, <1>1
        <4>3. Cleared(v, k)
          BY <4>1, <4>2, <2>1, <2>2, <1>1 DEF Cleared
        <4> QED BY <4>1, <4>2, <4>3
      <3> QED BY <3>1, <3>2
    <2>6. \E h \in s : v.cursor = h.end /\ Cleared(v, h)
      BY <2>1, <2>4
    <2> QED BY <2>3, <2>5, <2>6 DEF WalkInv, v
  <1> QED BY <1>2, <1>3

LEMMA WalkFacts ==
    ASSUME NEW F, IsFiniteSet(F), Extended(F), NEW walk, Walk(walk, SUBSET F)
    PROVE  WalkInv(F, walk[F])
  <1> DEFINE S == {n \in Nat : \A s \in SUBSET F : Cardinality(s) = n => WalkInv(s, walk[s])}
  <1>1. F \subseteq FindingType
    BY DEF Extended
  <1>2. ASSUME NEW s \in SUBSET F
        PROVE  IsFiniteSet(s) /\ walk[s] = IF s = {} THEN StartOfWalk ELSE Replace(Latest(s), walk[s \ {Latest(s)}])
    <2>1. IsFiniteSet(s)
      BY FS_Subset
    <2> QED BY <2>1 DEF Walk
  <1>3. WalkInv({}, walk[{}])
    <2>1. walk[{}] = StartOfWalk
      BY <1>2
    <2>2. StartOfWalk.cursor = 1 /\ StartOfWalk.kept = {}
      BY DEF StartOfWalk
    <2> QED BY <2>1, <2>2 DEF WalkInv
  <1>4. 0 \in S
    <2>1. \A s \in SUBSET F : Cardinality(s) = 0 => s = {}
      BY <1>2, FS_EmptySet
    <2> QED BY <2>1, <1>3
  <1>5. ASSUME NEW n \in Nat, \A s \in SUBSET F : Cardinality(s) = n => WalkInv(s, walk[s]),
               NEW s \in SUBSET F, Cardinality(s) = n + 1
        PROVE  WalkInv(s, walk[s])
    <2>1. IsFiniteSet(s) /\ s # {}
      <3>1. IsFiniteSet(s)
        BY <1>2
      <3>2. s = {} => Cardinality(s) = 0
        BY <3>1, FS_EmptySet
      <3>3. Cardinality(s) # 0
        BY <1>5
      <3> QED BY <3>1, <3>2, <3>3
    <2> DEFINE f == Latest(s)
    <2>2. f \in s /\ \A g \in s \ {f} : FindingOrder(g, f)
      BY <2>1, <1>1, LatestFacts
    <2>3. walk[s] = Replace(f, walk[s \ {f}])
      BY <2>1, <1>2
    <2> HIDE DEF f
    <2>4. Cardinality(s \ {f}) = n
      <3>1. Cardinality(s \ {f}) = Cardinality(s) - 1
        BY <2>1, <2>2, FS_RemoveElement
      <3> QED BY <3>1, <1>5
    <2>5. WalkInv(s \ {f}, walk[s \ {f}])
      BY <1>5, <2>4
    <2>6. Extended(s)
      BY DEF Extended
    <2> QED BY <2>2, <2>3, <2>5, <2>6, ReplaceKeepsWalkInv
  <1>6. Nat \subseteq S
    <2>1. \A n \in Nat : n \in S => n + 1 \in S
      BY <1>5
    <2> HIDE DEF S
    <2> QED BY <1>4, <2>1, SetInduction
  <1>7. Cardinality(F) \in Nat
    BY FS_CardinalityType
  <1> QED BY <1>6, <1>7

(* Every finding is covered by one at or before it in their order, of      *)
(* which nothing is kept.                                                  *)
LEMMA Covered ==
    ASSUME NEW text \in Seq(Token), NEW f \in DetectFindings(text)
    PROVE  \E g \in DetectFindings(text) :
             /\ g = f \/ FindingOrder(g, f)
             /\ f.start < g.end
             /\ Cleared(ReplaceFindings(text, DetectFindings(text)), g)
  <1> DEFINE F == DetectFindings(text)
             walk == CHOOSE walk : Walk(walk, SUBSET F)
  <1>1. IsFiniteSet(F) /\ F \subseteq FindingType
    BY FoundIsFinite, DetectFacts
  <1>2. Extended(F)
    <2>1. ASSUME NEW g \in F
          PROVE  g \in FindingType /\ g.start >= 1 /\ g.start < g.end
      <3>1. g \in FindingType
        BY DetectFacts
      <3>2. PICK i \in DOMAIN text, j \in DOMAIN text : Covers(text, g, i, j)
        BY DetectFacts
      <3>3. g.start \in Nat /\ g.end \in Nat
        BY <3>1 DEF FindingType
      <3>4. /\ TokenStart(text, i) \in Nat /\ TokenStart(text, i) >= 1 /\ TokenEnd(text, i) \in Nat
            /\ i < j => TokenEnd(text, i) < TokenStart(text, j)
        BY PositionFacts
      <3>5. TokenStart(text, j) \in Nat /\ TokenEnd(text, j) > TokenStart(text, j) /\ TokenEnd(text, j) \in Nat
        BY PositionFacts
      <3>6. i <= j /\ i \in Int /\ j \in Int
        BY <3>2, LengthFacts DEF Covers
      <3>7. TokenStart(text, i) <= g.start /\ g.start < TokenEnd(text, i) /\ g.end = TokenEnd(text, j)
        BY <3>2 DEF Covers
      <3>8. i = j \/ i < j
        BY <3>6
      <3>9. CASE i = j
        BY <3>1, <3>3, <3>4, <3>5, <3>7, <3>9
      <3>10. CASE i < j
        BY <3>1, <3>3, <3>4, <3>5, <3>7, <3>10
      <3> QED BY <3>8, <3>9, <3>10
    <2> QED BY <2>1 DEF Extended
  <1>3. Walk(walk, SUBSET F)
    BY <1>1, WalkExists
  <1>4. ReplaceFindings(text, F).kept = walk[F].kept \cup (walk[F].cursor .. TextEnd(text) - 1)
    BY DEF ReplaceFindings, MapThenFoldSet, Walk, StartOfWalk
  <1> HIDE DEF F, walk
  <1>5. WalkInv(F, walk[F])
    BY <1>1, <1>2, <1>3, WalkFacts
  <1>6. PICK g \in F : /\ g = f \/ FindingOrder(g, f)
                       /\ f.start < g.end /\ g.end <= walk[F].cursor /\ Cleared(walk[F], g)
    BY <1>5 DEF WalkInv, F
  <1>7. Cleared(ReplaceFindings(text, F), g)
    <2>1. g.start \in Nat /\ g.end \in Nat /\ walk[F].cursor \in Nat
      BY <1>5, <1>2 DEF WalkInv, Extended, FindingType
    <2>2. TextEnd(text) \in Int
      <3>1. text # <<>> => Len(text) \in DOMAIN text
        BY LengthFacts
      <3> QED BY <3>1, PositionFacts DEF TextEnd
    <2> QED BY <2>1, <2>2, <1>4, <1>6 DEF Cleared
  <1> QED BY <1>6, <1>7 DEF F

-----------------------------------------------------------------------------
(* The sanitized fields                                                    *)

(* A covering finding ends at or behind the token in which the covered one *)
(* begins.                                                                 *)
LEMMA CoveringEnd ==
    ASSUME NEW text \in Seq(Token), NEW i \in DOMAIN text, NEW f, f.start \in Nat, TokenStart(text, i) <= f.start,
           NEW g \in DetectFindings(text), f.start < g.end
    PROVE  /\ g.start \in Nat /\ g.end \in Nat
           /\ \E h, j \in DOMAIN text : /\ i <= j /\ g.end = TokenEnd(text, j) /\ TokenEnd(text, i) <= g.end
                                        /\ TokenStart(text, h) <= g.start /\ h <= j
                                        /\ g.start < TokenEnd(text, h)
                                        /\ h = j \/ Has(text, j, "suffix")
  <1>1. g.start \in Nat /\ g.end \in Nat
    BY DetectFacts DEF FindingType
  <1>2. PICK h \in DOMAIN text, j \in DOMAIN text : Covers(text, g, h, j)
    BY DetectFacts
  <1>3. i \in Int /\ j \in Int
    BY LengthFacts
  <1>4. /\ TokenEnd(text, j) \in Nat
        /\ j < i => TokenEnd(text, j) < TokenStart(text, i)
    BY PositionFacts
  <1>5. /\ TokenStart(text, i) \in Nat /\ TokenEnd(text, i) \in Nat
        /\ i < j => TokenEnd(text, i) < TokenStart(text, j)
    BY PositionFacts
  <1>6. TokenStart(text, j) \in Nat /\ TokenStart(text, j) < TokenEnd(text, j)
    BY PositionFacts
  <1>7. g.end = TokenEnd(text, j)
    BY <1>2 DEF Covers
  <1>8. i <= j
    BY <1>1, <1>3, <1>4, <1>5, <1>7
  <1>9. TokenEnd(text, i) <= g.end
    <2>1. CASE i = j
      BY <2>1, <1>5, <1>7
    <2>2. CASE i < j
      BY <2>2, <1>4, <1>5, <1>6, <1>7
    <2> QED BY <2>1, <2>2, <1>3, <1>8
  <1> QED BY <1>1, <1>2, <1>7, <1>8, <1>9 DEF Covers

(* From the start of a finding to the end of the token in which it begins, *)
(* nothing is kept.                                                        *)
LEMMA NothingKept ==
    ASSUME NEW text \in Seq(Token), NEW i \in DOMAIN text, NEW f \in DetectFindings(text),
           TokenStart(text, i) <= f.start
    PROVE  ReplaceFindings(text, DetectFindings(text)).kept \cap (f.start .. TokenEnd(text, i) - 1) = {}
  <1> DEFINE kept == ReplaceFindings(text, DetectFindings(text)).kept
  <1>1. PICK g \in DetectFindings(text) :
          /\ g = f \/ FindingOrder(g, f)
          /\ f.start < g.end /\ Cleared(ReplaceFindings(text, DetectFindings(text)), g)
    BY Covered
  <1>2. f.start \in Nat
    BY DetectFacts DEF FindingType
  <1>3. g.start \in Nat /\ g.end \in Nat /\ TokenEnd(text, i) <= g.end
    BY <1>1, <1>2, CoveringEnd
  <1>4. g.start <= f.start
    BY <1>1, <1>2, <1>3 DEF FindingOrder
  <1>5. kept \cap (g.start .. g.end - 1) = {}
    BY <1>1 DEF Cleared
  <1>6. TokenEnd(text, i) \in Nat
    BY PositionFacts
  <1> HIDE DEF kept
  <1>7. (f.start .. TokenEnd(text, i) - 1) \subseteq (g.start .. g.end - 1)
    BY <1>2, <1>3, <1>4, <1>6
  <1> QED BY <1>5, <1>7 DEF kept

(* Of a street's number and the word behind it nothing is kept when the    *)
(* suffix follows: no finding ends with the number.                        *)
LEMMA AddressReplaced ==
    ASSUME NEW text \in Seq(Token), NEW i \in DOMAIN text, NEW k \in {1, 2},
           Has(text, i, "digits"), Has(text, i + k, "suffix")
    PROVE  /\ i + 1 \in DOMAIN text
           /\ LET last == IF k = 1 THEN i ELSE i + 1
              IN ReplaceFindings(text, DetectFindings(text)).kept
                   \cap (TokenStart(text, i) .. TokenEnd(text, last) - 1) = {}
  <1> DEFINE kept == ReplaceFindings(text, DetectFindings(text)).kept
             f == Finding("address", TokenStart(text, i), TokenEnd(text, i + k))
  <1>1. i + 1 \in DOMAIN text /\ i + k \in DOMAIN text /\ i \in Int
    BY LengthFacts DEF Has
  <1>2. f \in DetectFindings(text)
    <2> DEFINE p == <<i, k>>
    <2>1. p \in (DOMAIN text) \X {1, 2} /\ p[1] = i /\ p[2] = k
      OBVIOUS
    <2> HIDE DEF p
    <2>2. f \in AddressFindings(text)
      BY <2>1 DEF AddressFindings
    <2> QED BY <2>2 DEF DetectFindings
  <1>3. f.start = TokenStart(text, i) /\ f.end = TokenEnd(text, i + k)
    BY DEF Finding
  <1> HIDE DEF f
  <1>4. /\ TokenStart(text, i) \in Nat /\ TokenEnd(text, i) \in Nat /\ TokenStart(text, i) < TokenEnd(text, i)
        /\ \A j \in DOMAIN text : i < j => TokenEnd(text, i) < TokenStart(text, j)
    BY PositionFacts
  <1>5. /\ TokenStart(text, i + 1) \in Nat /\ TokenEnd(text, i + 1) \in Nat
        /\ \A j \in DOMAIN text : i + 1 < j => TokenEnd(text, i + 1) < TokenStart(text, j)
    BY <1>1, PositionFacts
  <1>6. PICK g \in DetectFindings(text) :
          /\ g = f \/ FindingOrder(g, f)
          /\ f.start < g.end /\ Cleared(ReplaceFindings(text, DetectFindings(text)), g)
    BY <1>2, Covered
  <1>7. PICK h \in DOMAIN text, j \in DOMAIN text :
          /\ i <= j /\ g.end = TokenEnd(text, j)
          /\ TokenStart(text, h) <= g.start /\ h <= j
          /\ g.start < TokenEnd(text, h)
          /\ h = j \/ Has(text, j, "suffix")
    BY <1>3, <1>4, <1>6, CoveringEnd
  <1>8. g.start \in Nat /\ g.end \in Nat
    BY <1>6, DetectFacts DEF FindingType
  <1>9. g.start <= f.start
    BY <1>3, <1>4, <1>6, <1>8 DEF FindingOrder
  <1>10. i # j
    <2>1. SUFFICES ASSUME i = j PROVE FALSE
      OBVIOUS
    <2>2. ~ Has(text, i, "suffix")
      <3>1. text[i] \in Token
        BY LengthFacts
      <3>2. ~ {"digits", "suffix"} \subseteq text[i].shapes
        BY <3>1 DEF Token
      <3> QED BY <3>2 DEF Has
    <2>3. h = i
      BY <1>7, <2>1, <2>2
    <2>4. g.start = TokenStart(text, i) /\ g.end = TokenEnd(text, i)
      BY <2>1, <2>3, <1>3, <1>4, <1>7, <1>8, <1>9
    <2>5. TokenEnd(text, i) < TokenEnd(text, i + k)
      <3>1. TokenEnd(text, i) < TokenStart(text, i + k)
        BY <1>1, <1>4
      <3>2. TokenStart(text, i + k) < TokenEnd(text, i + k) /\ TokenStart(text, i + k) \in Nat
            /\ TokenEnd(text, i + k) \in Nat
        BY <1>1, PositionFacts
      <3> QED BY <3>1, <3>2, <1>4
    <2>6. TokenEnd(text, i + k) \in Nat
      BY <1>1, PositionFacts
    <2>7. ~ FindingOrder(g, f) /\ g # f
      BY <2>4, <2>5, <2>6, <1>3, <1>4 DEF FindingOrder
    <2> QED BY <2>7, <1>6
  <1>11. j \in Int /\ i + 1 <= j
    <2>1. j \in Int
      BY LengthFacts
    <2> QED BY <2>1, <1>1, <1>7, <1>10
  <1>12. TokenEnd(text, i + 1) <= g.end
    <2>1. CASE j = i + 1
      BY <2>1, <1>5, <1>7
    <2>2. CASE i + 1 < j
      <3>1. TokenStart(text, j) \in Nat /\ TokenEnd(text, j) \in Nat /\ TokenStart(text, j) < TokenEnd(text, j)
        BY PositionFacts
      <3>2. TokenEnd(text, i + 1) < TokenStart(text, j)
        BY <2>2, <1>5
      <3> QED BY <3>1, <3>2, <1>5, <1>7
    <2> QED BY <2>1, <2>2, <1>1, <1>11
  <1>13. TokenEnd(text, i) <= g.end
    <2>1. TokenEnd(text, i) < TokenStart(text, i + 1)
      BY <1>1, <1>4
    <2>2. TokenStart(text, i + 1) < TokenEnd(text, i + 1)
      BY <1>1, PositionFacts
    <2> QED BY <2>1, <2>2, <1>4, <1>5, <1>8, <1>12
  <1>14. kept \cap (g.start .. g.end - 1) = {}
    BY <1>6 DEF Cleared
  <1> HIDE DEF kept
  <1>15. ASSUME NEW n \in Nat, n <= g.end
         PROVE  kept \cap (TokenStart(text, i) .. n - 1) = {}
    <2>1. (TokenStart(text, i) .. n - 1) \subseteq (g.start .. g.end - 1)
      BY <1>3, <1>4, <1>8, <1>9, <1>15
    <2> QED BY <2>1, <1>14
  <1>16. /\ kept \cap (TokenStart(text, i) .. TokenEnd(text, i) - 1) = {}
         /\ kept \cap (TokenStart(text, i) .. TokenEnd(text, i + 1) - 1) = {}
    BY <1>4, <1>5, <1>12, <1>13, <1>15
  <1> QED BY <1>1, <1>16, Zenon DEF kept

(* What SecretsAreReplaced says of one field                               *)
Clean(v) ==
  \A i \in DOMAIN v.text :
    LET span == TokenStart(v.text, i) .. TokenEnd(v.text, i) - 1
        t == v.text[i]
    IN /\ WholeClasses(t) # {} => span \cap v.kept = {}
       /\ \A c \in v.kept \cap span : c < TokenStart(v.text, i) + t.mark
       /\ Has(v.text, i, "digits") =>
            /\ Has(v.text, i + 1, "suffix") => span \cap v.kept = {}
            /\ Has(v.text, i + 2, "suffix") =>
                 v.kept \cap (TokenStart(v.text, i) .. TokenEnd(v.text, i + 1) - 1) = {}

LEMMA ReplacedIsClean ==
    ASSUME NEW v, v.text \in Seq(Token),
           v.kept = ReplaceFindings(v.text, DetectFindings(v.text)).kept
    PROVE  Clean(v)
  <1> DEFINE text == v.text
             kept == ReplaceFindings(text, DetectFindings(text)).kept
  <1>0. text \in Seq(Token) /\ v.kept = kept
    OBVIOUS
  <1> HIDE DEF text
  <1>1. SUFFICES ASSUME NEW i \in DOMAIN text
                 PROVE  LET span == TokenStart(text, i) .. TokenEnd(text, i) - 1
                            t == text[i]
                        IN /\ WholeClasses(t) # {} => span \cap kept = {}
                           /\ \A c \in kept \cap span : c < TokenStart(text, i) + t.mark
                           /\ Has(text, i, "digits") =>
                                /\ Has(text, i + 1, "suffix") => span \cap kept = {}
                                /\ Has(text, i + 2, "suffix") =>
                                     kept \cap (TokenStart(text, i) .. TokenEnd(text, i + 1) - 1) = {}
    BY <1>0, Zenon DEF Clean, text
  <1> DEFINE span == TokenStart(text, i) .. TokenEnd(text, i) - 1
             t == text[i]
  <1>2. /\ TokenStart(text, i) \in Nat /\ TokenEnd(text, i) \in Nat
        /\ TokenEnd(text, i) = TokenStart(text, i) + t.len
        /\ t.mark \in Nat /\ t.mark <= t.len /\ t.len \in Nat
    BY <1>0, PositionFacts, LengthFacts
  <1>3. ASSUME WholeClasses(t) # {}
        PROVE  span \cap kept = {}
    <2>1. PICK c \in WholeClasses(t) : TRUE
      BY <1>3
    <2> DEFINE f == Finding(c, TokenStart(text, i), TokenEnd(text, i))
    <2>2. f \in DetectFindings(text)
      BY <2>1, <1>1 DEF DetectFindings, TokenFindings
    <2>3. f.start = TokenStart(text, i)
      BY DEF Finding
    <2> HIDE DEF f
    <2>4. TokenStart(text, i) <= f.start
      BY <2>3, <1>2
    <2>5. kept \cap (f.start .. TokenEnd(text, i) - 1) = {}
      BY <1>0, <1>1, <2>2, <2>4, NothingKept
    <2> QED BY <2>3, <2>5
  <1>4. ASSUME NEW c \in kept \cap span
        PROVE  c < TokenStart(text, i) + t.mark
    <2>1. CASE t.mark < t.len
      <3> DEFINE f == Finding(t.assigned, TokenStart(text, i) + t.mark, TokenEnd(text, i))
      <3>1. f \in DetectFindings(text)
        <4>1. f \in TokenFindings(text, i)
          BY <2>1, Zenon DEF TokenFindings
        <4> QED BY <4>1, <1>1, Zenon DEF DetectFindings
      <3>2. f.start = TokenStart(text, i) + t.mark
        BY DEF Finding
      <3> HIDE DEF f
      <3>3. TokenStart(text, i) <= f.start
        BY <3>2, <1>2
      <3>4. kept \cap (f.start .. TokenEnd(text, i) - 1) = {}
        BY <1>0, <1>1, <3>1, <3>3, NothingKept
      <3> HIDE DEF kept, t
      <3> QED BY <3>2, <3>4, <1>2, <1>4
    <2>2. CASE ~ (t.mark < t.len)
      <3> HIDE DEF kept, t
      <3> QED BY <2>2, <1>2, <1>4
    <2> QED BY <2>1, <2>2
  <1>5. ASSUME Has(text, i, "digits"), Has(text, i + 1, "suffix")
        PROVE  span \cap kept = {}
    <2> DEFINE k == 1
    <2>1. k \in {1, 2} /\ Has(text, i + k, "suffix")
      BY <1>5
    <2>2. k = 1
      OBVIOUS
    <2> HIDE DEF k
    <2> QED BY <1>0, <1>1, <1>5, <2>1, <2>2, AddressReplaced
  <1>6. ASSUME Has(text, i, "digits"), Has(text, i + 2, "suffix")
        PROVE  kept \cap (TokenStart(text, i) .. TokenEnd(text, i + 1) - 1) = {}
    <2> DEFINE k == 2
    <2>1. k \in {1, 2} /\ Has(text, i + k, "suffix")
      BY <1>6
    <2>2. k # 1
      OBVIOUS
    <2> HIDE DEF k
    <2> QED BY <1>0, <1>1, <1>6, <2>1, <2>2, AddressReplaced
  <1> HIDE DEF span, t, kept
  <1>7. QED BY <1>3, <1>4, <1>5, <1>6, Zenon DEF span, t

LEMMA HostFacts ==
    ASSUME NEW t \in Token
    PROVE  Host(t) \in Token /\ Host(t).len = 1 /\ Host(t).mark = 1 /\ Host(t).shapes = {}
  <1> DEFINE R == [len : Nat \ {0}, shapes : SUBSET Shape, mark : Nat, assigned : {"credential", "apikey"},
                   url : {"no", "good", "bad"}, secrets : SUBSET {"userinfo", "query"}, control : BOOLEAN]
  <1>1. t \in R
    BY DEF Token
  <1>2. Host(t).len = 1 /\ Host(t).mark = 1 /\ Host(t).shapes = {}
    BY <1>1 DEF Host
  <1>3. Host(t) \in R
    <2>1. [t EXCEPT !.len = 1] \in R
      BY <1>1
    <2>2. [[t EXCEPT !.len = 1] EXCEPT !.mark = 1] \in R
      BY <2>1
    <2>3. [[[t EXCEPT !.len = 1] EXCEPT !.mark = 1] EXCEPT !.shapes = {}] \in R
      BY <2>2
    <2> QED BY <1>1, <2>3 DEF Host
  <1>4. Host(t).mark <= Host(t).len /\ ~ {"digits", "suffix"} \subseteq Host(t).shapes
    BY <1>2
  <1> QED BY <1>2, <1>3, <1>4 DEF Token

LEMMA SanitizedText ==
    ASSUME NEW text \in Seq(Token)
    PROVE  Clean(SanitizeText(text))
  <1> DEFINE plain == NormalizeUrls(text)
  <1>1. plain \in Seq(Token)
    <2>1. DOMAIN plain = 1..Len(text) /\ Len(text) \in Nat
      BY LengthFacts DEF NormalizeUrls
    <2>2. ASSUME NEW i \in DOMAIN text
          PROVE  plain[i] \in Token
      BY LengthFacts, HostFacts DEF NormalizeUrls
    <2>3. plain \in [1..Len(text) -> Token]
      BY <2>1, <2>2, LengthFacts DEF NormalizeUrls
    <2> QED BY <2>1, <2>3
  <1>2. \A error : Clean(Rejected(error))
    BY DEF Clean, Rejected
  <1>3. \/ \E error : SanitizeText(text) = Rejected(error)
        \/ /\ SanitizeText(text).text = plain
           /\ SanitizeText(text).kept = ReplaceFindings(plain, DetectFindings(plain)).kept
    BY DEF SanitizeText
  <1> HIDE DEF plain
  <1> QED BY <1>1, <1>2, <1>3, ReplacedIsClean

LEMMA SanitizedUrl ==
    ASSUME NEW text \in Seq(Token)
    PROVE  Clean(SanitizeUrl(text))
  <1>1. \A error : Clean(Rejected(error))
    BY DEF Clean, Rejected
  <1>2. ASSUME text # <<>>, NEW v, v.text = <<Host(text[1])>>, v.kept = {1}
        PROVE  Clean(v)
    <2> DEFINE only == <<Host(text[1])>>
    <2>1. 1 \in DOMAIN text
      BY <1>2, LengthFacts
    <2>2. Host(text[1]) \in Token /\ Host(text[1]).mark = 1 /\ Host(text[1]).len = 1 /\ Host(text[1]).shapes = {}
      BY <2>1, HostFacts, LengthFacts
    <2>3. only \in Seq(Token) /\ DOMAIN only = {1} /\ only[1] = Host(text[1])
      BY <2>2
    <2> HIDE DEF only
    <2>4. TokenStart(only, 1) = 1 /\ TokenEnd(only, 1) = 2
      BY <2>2, <2>3, StartFacts DEF TokenEnd
    <2>5. \A i \in DOMAIN only : i = 1
      BY <2>3
    <2>6. WholeClasses(only[1]) = {} /\ ~ Has(only, 1, "digits")
      BY <2>2, <2>3 DEF WholeClasses, Has
    <2>7. v.text = only
      BY <1>2 DEF only
    <2>8. Clean(v)
      BY <1>2, <2>2, <2>3, <2>4, <2>5, <2>6, <2>7 DEF Clean
    <2> QED BY <2>8
  <1>3. \/ \E error : SanitizeUrl(text) = Rejected(error)
        \/ /\ text # <<>>
           /\ SanitizeUrl(text).text = <<Host(text[1])>> /\ SanitizeUrl(text).kept = {1}
    BY DEF SanitizeUrl
  <1> QED BY <1>1, <1>2, <1>3

(* The sanitized fields are those of the input, or not there yet.          *)
ContextInv == input \in Inputs /\ context \in {<<>>, SanitizeContext(input.context)}

LEMMA ContextInvariant == Spec => []ContextInv
  <1>1. Init => ContextInv
    BY DEF Init, ContextInv
  <1>2. ContextInv /\ [Next]_vars => ContextInv'
    <2> SUFFICES ASSUME ContextInv, [Next]_vars PROVE ContextInv'
      OBVIOUS
    <2>1. CASE Sanitize
      BY <2>1 DEF Sanitize, ContextInv
    <2>2. CASE ~ Sanitize
      <3>1. UNCHANGED <<input, context>>
        BY <2>2 DEF Next, vars, Misconfigured, RecognizeErr, Recognize, Mask, Rerun, CheckMasking, Finish
      <3> QED BY <3>1 DEF ContextInv
    <2> QED BY <2>1, <2>2
  <1> QED BY <1>1, <1>2, PTL DEF Spec

-----------------------------------------------------------------------------
(* Theorems                                                                *)

(* Nothing leaves the gate past the deadline or on an incomplete           *)
(* recognition (PrivacyGate::prepare).                                     *)
THEOREM GateFailsClosed == Spec => []FailsClosed
  <1>1. GateInv => FailsClosed
    BY DEF GateInv, FailsClosed, IsCleared, IsMasked, Mappable
  <1> QED BY <1>1, GateInvariant, PTL

(* A payload's image is the capture's with every reported pixel black, and *)
(* nothing was found in it again (mask.rs, coverage.rs).                   *)
THEOREM CoverageIsExactAlways == Spec => []CoverageIsExact
  <1>1. GateInv => CoverageIsExact
    <2> SUFFICES ASSUME GateInv PROVE CoverageIsExact
      OBVIOUS
    <2>1. ASSUME IsMasked
          PROVE  /\ masked.of = "capture" /\ masked.size = input.size /\ masked # NoImage
                 /\ \A d \in Range(Detections(first)) : Pixels(d.rect) \subseteq masked.black
                 /\ coverage.hash = masked /\ coverage # NoCoverage
      <3>1. /\ masked.of = "capture" /\ masked.size = input.size /\ masked # NoImage
            /\ \A d \in Range(Detections(first)) : Pixels(d.rect) \subseteq masked.black
        BY <2>1, MaskedFacts DEF IsMasked, GateInv
      <3>2. coverage.hash = masked /\ NoCoverage.hash = NoImage
        BY <2>1 DEF IsMasked, CoverageProof, NoCoverage
      <3> QED BY <3>1, <3>2
    <2>2. ASSUME Emitted, input.recognizer PROVE Residue = {}
      <3>1. IsMasked /\ Mappable(again) /\ Residual(coverage, Detections(again)) = {}
        BY <2>2 DEF GateInv, IsCleared
      <3>2. ASSUME NEW d \in Range(Detections(first)), NEW e \in Range(Detections(again)),
                   d.kind = e.kind, Pixels(d.rect) \cap Pixels(e.rect) # {}
            PROVE  FALSE
        <4>1. d.rect \in PixelRect /\ e.rect \in PixelRect
          BY <3>1, DetectionFacts DEF GateInv, IsMasked, Mappable
        <4>2. RectanglesOverlap(d.rect, e.rect)
          BY <3>2, <4>1, SharingOverlaps
        <4>3. PICK i \in DOMAIN Detections(again) : Detections(again)[i] = e
          BY DEF Range
        <4>4. d \in Range(coverage.entries)
          BY <3>1 DEF IsMasked, CoverageProof
        <4>5. i \in Residual(coverage, Detections(again))
          BY <3>2, <4>2, <4>3, <4>4 DEF Residual
        <4> QED BY <3>1, <4>5
      <3> QED BY <3>2 DEF Residue
    <2>3. input.allowed \in BOOLEAN /\ input.recognizer \in BOOLEAN
      BY GateAssumption DEF GateInv
    <2>4. Emitted => /\ (result.image # NoImage) <=> input.allowed
                     /\ (result.coverage # NoCoverage) <=> input.recognizer
      BY <2>1, <2>3 DEF GateInv, IsCleared
    <2>5. ASSUME Emitted, result.image # NoImage
          PROVE  /\ result.image.of = "capture" /\ result.image.size = input.size
                 /\ \A d \in Range(Detections(first)) : Pixels(d.rect) \subseteq result.image.black
                 /\ result.coverage.hash = result.image /\ again.of = "this"
                 /\ Residue = {}
      BY <2>1, <2>2, <2>4, <2>5 DEF GateInv, IsCleared, Mappable
    <2>6. result.how = "coverage" => result.at = "rerun" /\ Recovered # {}
      BY DEF GateInv
    <2> QED BY <2>4, <2>5, <2>6 DEF CoverageIsExact
  <1> QED BY <1>1, GateInvariant, PTL

(* The masked rectangle of a region holds every pixel of the image that it *)
(* touches and none three away.                                            *)
LEMMA RegionIsCovered ==
    ASSUME input \in Inputs, NEW r \in NormalizedRect, NEW mapped,
           mapped = MapNormalizedRect(r, input.size, input.orientation),
           ValidRect(mapped, input.size)
    PROVE  /\ \A p \in Frameful(input.size) \cap Frameful(Frame(input.size, input.orientation)) :
                Near(p, 0, r) => p \in Pixels(DilatedRect(mapped, input.size))
           /\ \A p \in Pixels(DilatedRect(mapped, input.size)) : Near(p, 2, r)
  <1> DEFINE size == input.size
             f == Frame(size, input.orientation)
             b == Bounds(r, input.orientation)
             d == DilatedRect(mapped, size)
  <1>1. /\ input.orientation \in Orientation /\ size \in [w : Nat \ {0}, h : Nat \ {0}]
        /\ 8 * size.w <= Significand /\ 8 * size.h <= Significand
    BY GateAssumption
  <1>2. PICK west \in Nat, east \in Nat, north \in Nat, south \in Nat :
          /\ mapped = [x |-> Begins(west, f.w), y |-> Begins(north, f.h),
                       w |-> Extends(west, east, f.w), h |-> Extends(north, south, f.h)]
          /\ west - b.left * f.w < Grid /\ b.left * f.w - west < Grid
          /\ east - b.right * f.w < Grid /\ b.right * f.w - east < Grid
          /\ north - b.top * f.h < Grid /\ b.top * f.h - north < Grid
          /\ south - b.bottom * f.h < Grid /\ b.bottom * f.h - south < Grid
    BY <1>1, MapFacts
  <1>3. /\ b.left \in Int /\ b.right \in Int /\ b.top \in Int /\ b.bottom \in Int
        /\ f.w \in Nat \ {0} /\ f.h \in Nat \ {0} /\ size.w \in Nat /\ size.h \in Nat
    BY <1>1, BoundsFacts, FrameFacts
  <1>4. /\ mapped.w > 0 /\ mapped.h > 0
        /\ mapped.x + mapped.w <= size.w /\ mapped.y + mapped.h <= size.h
    BY DEF ValidRect
  <1>5. /\ d.x = DilatedFrom(mapped.x) /\ d.w = DilatedTo(mapped.x, mapped.w, size.w) - d.x
        /\ d.y = DilatedFrom(mapped.y) /\ d.h = DilatedTo(mapped.y, mapped.h, size.h) - d.y
    BY DEF DilatedRect, DilatedFrom, DilatedTo
  <1>6. \A p, n : Near(p, n, r) <=> /\ Within(p[1], n, b.left, b.right, f.w)
                                    /\ Within(p[2], n, b.top, b.bottom, f.h)
    BY DEF Near
  <1>7. /\ mapped.x = Begins(west, f.w) /\ mapped.w = Extends(west, east, f.w)
        /\ mapped.y = Begins(north, f.h) /\ mapped.h = Extends(north, south, f.h)
    BY <1>2
  <1>8. mapped.x \in Nat /\ mapped.w \in Nat /\ mapped.y \in Nat /\ mapped.h \in Nat
    <2> HIDE DEF d, f, b, size
    <2>1. /\ Begins(west, f.w) \in Nat /\ Extends(west, east, f.w) \in Nat
          /\ Begins(north, f.h) \in Nat /\ Extends(north, south, f.h) \in Nat
      BY <1>3, SideFacts
    <2> QED BY <1>7, <2>1
  <1> HIDE DEF d, f, b, size
  <1>9. ASSUME NEW p \in Int
        PROVE  /\ p \in 0 .. size.w - 1 /\ p \in 0 .. f.w - 1 /\ Within(p, 0, b.left, b.right, f.w) =>
                    p \in d.x .. d.x + d.w - 1
               /\ p \in d.x .. d.x + d.w - 1 => Within(p, 2, b.left, b.right, f.w)
    <2> DEFINE left == DilatedFrom(mapped.x)
               right == DilatedTo(mapped.x, mapped.w, size.w)
    <2>1. /\ p \in 0 .. size.w - 1 /\ p \in 0 .. f.w - 1 /\ Within(p, 0, b.left, b.right, f.w) =>
               left <= p /\ p < right
          /\ left <= p /\ p < right => Within(p, 2, b.left, b.right, f.w)
      <3>1. /\ west \in Nat /\ east \in Nat /\ f.w \in Nat \ {0} /\ size.w \in Nat
            /\ b.left \in Int /\ b.right \in Int
            /\ west - b.left * f.w < Grid /\ b.left * f.w - west < Grid
            /\ east - b.right * f.w < Grid /\ b.right * f.w - east < Grid
            /\ mapped.x = Begins(west, f.w) /\ mapped.w = Extends(west, east, f.w)
            /\ mapped.w > 0 /\ mapped.x + mapped.w <= size.w
        BY <1>2, <1>3, <1>4, <1>7
      <3>2. Fits(west, east, f.w, b.left, b.right, size.w)
        BY <3>1 DEF Fits
      <3>3. /\ p \in 0 .. size.w - 1 /\ p \in 0 .. f.w - 1 /\ Within(p, 0, b.left, b.right, f.w) =>
                 /\ DilatedFrom(Begins(west, f.w)) <= p
                 /\ p < DilatedTo(Begins(west, f.w), Extends(west, east, f.w), size.w)
            /\ /\ DilatedFrom(Begins(west, f.w)) <= p
               /\ p < DilatedTo(Begins(west, f.w), Extends(west, east, f.w), size.w)
               => Within(p, 2, b.left, b.right, f.w)
        <4> HIDE DEF left, right
        <4>1. /\ west \in Nat /\ east \in Nat /\ f.w \in Nat \ {0} /\ size.w \in Nat
              /\ b.left \in Int /\ b.right \in Int
          BY <3>1
        <4> QED BY <3>2, <4>1, SideIsCovered
      <3> QED BY <3>1, <3>3
    <2>2. d.x = left /\ d.w = right - left /\ left \in Int /\ right \in Int
      BY <1>3, <1>5, <1>8 DEF DilatedFrom, DilatedTo
    <2> HIDE DEF left, right
    <2> QED BY <2>1, <2>2
  <1>10. ASSUME NEW p \in Int
         PROVE  /\ p \in 0 .. size.h - 1 /\ p \in 0 .. f.h - 1 /\ Within(p, 0, b.top, b.bottom, f.h) =>
                     p \in d.y .. d.y + d.h - 1
                /\ p \in d.y .. d.y + d.h - 1 => Within(p, 2, b.top, b.bottom, f.h)
    <2> DEFINE top == DilatedFrom(mapped.y)
               bottom == DilatedTo(mapped.y, mapped.h, size.h)
    <2>1. /\ p \in 0 .. size.h - 1 /\ p \in 0 .. f.h - 1 /\ Within(p, 0, b.top, b.bottom, f.h) =>
               top <= p /\ p < bottom
          /\ top <= p /\ p < bottom => Within(p, 2, b.top, b.bottom, f.h)
      <3>1. /\ north \in Nat /\ south \in Nat /\ f.h \in Nat \ {0} /\ size.h \in Nat
            /\ b.top \in Int /\ b.bottom \in Int
            /\ north - b.top * f.h < Grid /\ b.top * f.h - north < Grid
            /\ south - b.bottom * f.h < Grid /\ b.bottom * f.h - south < Grid
            /\ mapped.y = Begins(north, f.h) /\ mapped.h = Extends(north, south, f.h)
            /\ mapped.h > 0 /\ mapped.y + mapped.h <= size.h
        BY <1>2, <1>3, <1>4, <1>7
      <3>2. Fits(north, south, f.h, b.top, b.bottom, size.h)
        BY <3>1 DEF Fits
      <3>3. /\ p \in 0 .. size.h - 1 /\ p \in 0 .. f.h - 1 /\ Within(p, 0, b.top, b.bottom, f.h) =>
                 /\ DilatedFrom(Begins(north, f.h)) <= p
                 /\ p < DilatedTo(Begins(north, f.h), Extends(north, south, f.h), size.h)
            /\ /\ DilatedFrom(Begins(north, f.h)) <= p
               /\ p < DilatedTo(Begins(north, f.h), Extends(north, south, f.h), size.h)
               => Within(p, 2, b.top, b.bottom, f.h)
        <4> HIDE DEF top, bottom
        <4>1. /\ north \in Nat /\ south \in Nat /\ f.h \in Nat \ {0} /\ size.h \in Nat
              /\ b.top \in Int /\ b.bottom \in Int
          BY <3>1
        <4> QED BY <3>2, <4>1, SideIsCovered
      <3> QED BY <3>1, <3>3
    <2>2. d.y = top /\ d.h = bottom - top /\ top \in Int /\ bottom \in Int
      BY <1>3, <1>5, <1>8 DEF DilatedFrom, DilatedTo
    <2> HIDE DEF top, bottom
    <2> QED BY <2>1, <2>2
  <1>11. ASSUME NEW p \in Frameful(size) \cap Frameful(f), Near(p, 0, r) PROVE p \in Pixels(d)
    <2>1. /\ p = <<p[1], p[2]>> /\ p[1] \in 0 .. size.w - 1 /\ p[1] \in 0 .. f.w - 1
          /\ p[2] \in 0 .. size.h - 1 /\ p[2] \in 0 .. f.h - 1
      BY DEF Frameful
    <2>2. p[1] \in Int /\ p[2] \in Int
      BY <2>1
    <2> QED BY <1>6, <1>9, <1>10, <1>11, <2>1, <2>2, PixelFacts
  <1>12. ASSUME NEW p \in Pixels(d) PROVE Near(p, 2, r)
    <2>1. p[1] \in d.x .. d.x + d.w - 1 /\ p[2] \in d.y .. d.y + d.h - 1
      BY PixelFacts
    <2>2. p[1] \in Int /\ p[2] \in Int
      BY <2>1
    <2> QED BY <1>6, <1>9, <1>10, <2>1, <2>2
  <1> QED BY <1>11, <1>12 DEF d, f, size

(* Every pixel a reported region touches is black in an image that is      *)
(* sent, although f32 arithmetic may move an edge of it by almost a pixel, *)
(* and the mask ends two pixels further (map_normalized_rect,              *)
(* dilated_rect): for any floats with more than one step, and sides that   *)
(* they count eight times over, up to 2^21 pixels for an f32.              *)
THEOREM RegionsAreBlackAlways == Spec => []RegionsAreBlack
  <1>1. GateInv => RegionsAreBlack
    <2> SUFFICES ASSUME GateInv, Emitted, result.image # NoImage
                 PROVE  LET shown == Frameful(input.size) \cap Frameful(Frame(input.size, input.orientation))
                            regions == {g.rect : g \in Range(first.regions)}
                        IN /\ \A r \in regions :
                                r.w > 0 /\ r.h > 0 => {p \in shown : Near(p, 0, r)} \subseteq result.image.black
                           /\ \A p \in result.image.black : \E r \in regions : Near(p, 2, r)
      BY DEF RegionsAreBlack
    <2> DEFINE shown == Frameful(input.size) \cap Frameful(Frame(input.size, input.orientation))
               regions == {g.rect : g \in Range(first.regions)}
               Mapped(r) == MapNormalizedRect(r, input.size, input.orientation)
    <2>1. input \in Inputs /\ input.allowed /\ IsMasked /\ result.image = masked /\ Recognized(first)
      BY DEF GateInv, IsCleared
    <2>2. masked.black = UNION {Pixels(DilatedRect(d.rect, input.size)) : d \in Range(Detections(first))}
      BY <2>1, MaskedFacts DEF IsMasked
    <2>3. \A i \in DOMAIN first.regions :
            /\ first.regions[i].rect \in regions
            /\ i \in DOMAIN Detections(first)
            /\ Detections(first)[i].rect = Mapped(first.regions[i].rect)
      BY DEF Detections, Range
    <2>4. DOMAIN Detections(first) = DOMAIN first.regions
      BY DEF Detections
    <2>5. ASSUME NEW i \in DOMAIN first.regions
          PROVE  /\ first.regions[i].rect \in NormalizedRect
                 /\ ValidRect(Mapped(first.regions[i].rect), input.size)
                 /\ Detections(first)[i] \in Range(Detections(first))
      <3>1. first.regions[i].rect # NoRect /\ Detections(first)[i] \in Range(Detections(first))
        BY <2>1, <2>3 DEF IsMasked, Mappable, Located, Range
      <3>2. first \in Recognition
        BY <2>1 DEF Recognized, NoRecognition
      <3>3. first.regions[i].rect \in NormalizedRect
        BY <3>1, <3>2, GateAssumption DEF Recognition
      <3>4. ValidRect(Detections(first)[i].rect, input.size)
        BY <2>1, <3>1 DEF IsMasked
      <3> QED BY <2>3, <3>1, <3>3, <3>4
    <2>6. ASSUME NEW r \in regions, NEW p \in shown, Near(p, 0, r) PROVE p \in result.image.black
      <3>1. PICK i \in DOMAIN first.regions : r = first.regions[i].rect
        BY DEF Range
      <3>2. p \in Pixels(DilatedRect(Mapped(r), input.size))
        BY <2>1, <2>5, <2>6, <3>1, RegionIsCovered
      <3> QED BY <2>1, <2>2, <2>3, <2>5, <3>1, <3>2
    <2>7. ASSUME NEW p \in result.image.black PROVE \E r \in regions : Near(p, 2, r)
      <3>1. PICK d \in Range(Detections(first)) : p \in Pixels(DilatedRect(d.rect, input.size))
        BY <2>1, <2>2
      <3>2. PICK i \in DOMAIN first.regions : d = Detections(first)[i]
        BY <2>4 DEF Range
      <3>3. Near(p, 2, first.regions[i].rect)
        BY <2>1, <2>3, <2>5, <3>1, <3>2, RegionIsCovered
      <3> QED BY <2>3, <3>3
    <2> QED BY <2>6, <2>7
  <1> QED BY <1>1, GateInvariant, PTL

(* Whatever the findings of a text and however they overlap, nothing of a  *)
(* token that looks sensitive, of an assigned value or of an address stays *)
(* in a sanitized field (sanitize_text_field, detect_findings).            *)
THEOREM SecretsAreReplacedAlways == Spec => []SecretsAreReplaced
  <1>1. ContextInv => SecretsAreReplaced
    <2> SUFFICES ASSUME ContextInv, NEW v \in Range(context) PROVE Clean(v)
      BY Zenon DEF SecretsAreReplaced, Clean
    <2>1. CASE context = <<>>
      BY <2>1 DEF Range
    <2>2. CASE context = SanitizeContext(input.context)
      <3>1. PICK f \in Range(input.context) : v = SanitizeField(f)
        BY <2>2 DEF Range, SanitizeContext
      <3>2. f.text \in Seq(Token)
        BY <3>1, GateAssumption DEF ContextInv
      <3>3. v = SanitizeUrl(f.text) \/ v = SanitizeText(f.text)
        BY <3>1 DEF SanitizeField
      <3> QED BY <3>2, <3>3, SanitizedText, SanitizedUrl
    <2> QED BY <2>1, <2>2 DEF ContextInv
  <1> QED BY <1>1, ContextInvariant, PTL

=============================================================================
