--------------------------- MODULE CustomerProofs ---------------------------
(***************************************************************************)
(* Proofs about what is kept of a customer, and reported: the health       *)
(* score, the expansion signal, exit surveys, contracts, features, the     *)
(* reports on segments and attribution.  Each has an inductive invariant   *)
(* and a theorem of its own, which speaks of the component alone; the      *)
(* theorems at the end carry them over to the module in which the          *)
(* components stand together.                                              *)
(***************************************************************************)
EXTENDS MCRecords, TLAPS, FiniteSetTheorems, WellFoundedInduction

(***************************************************************************)
(* The arithmetic of the score                                             *)
(***************************************************************************)
HealthInputs == [risk : Int, slope : Int, failures : Int, sentiment : Int, idle : Int]
WeightSettings == [Components -> Nat]

OnScale(n) == n \in Int /\ 0 <= n /\ n <= 10000

LEMMA ScaleIs ==
  ASSUME NEW n, OnScale(n)
  PROVE  n \in 0 .. 10000
  <1>1. n \in Int /\ 0 <= n /\ n <= 10000
    BY DEF OnScale
  <1>2. QED
    BY <1>1

LEMMA CappedBounds ==
  ASSUME NEW n \in Int
  PROVE  OnScale(Capped(n)) /\ (OnScale(n) => Capped(n) = n)
  BY DEF Capped, OnScale

LEMMA CappedMonotone ==
  ASSUME NEW m \in Int, NEW n \in Int, m <= n
  PROVE  Capped(m) <= Capped(n)
  BY DEF Capped

\* A quotient rounded to the nearest is at most half a divisor away.
LEMMA NearestBounds ==
  ASSUME NEW n \in Int, NEW d \in Int, d > 0
  PROVE  /\ Nearest(n, d) \in Int
         /\ (2 * d) * Nearest(n, d) <= 2 * n + d
         /\ 2 * n + d < (2 * d) * Nearest(n, d) + 2 * d
  <1> DEFINE b == 2 * d
             a == 2 * n + d
  <1>1. a \in Int /\ b \in Int /\ b > 0
    OBVIOUS
  <1>2. Nearest(n, d) = a \div b
    BY DEF Nearest
  <1> HIDE DEF a, b
  <1>3. a \div b \in Int /\ b * (a \div b) <= a /\ a < b * (a \div b) + b
    BY <1>1
  <1>4. QED
    BY <1>2, <1>3 DEF a, b

\* A quotient is at least what a multiple below says, and at most what one above says.
LEMMA QuotientAtLeast ==
  ASSUME NEW q \in Int, NEW k \in Int, NEW b \in Int, b > 0, b * k < b * q + b
  PROVE  k <= q
  OBVIOUS

LEMMA NearestBetween ==
  ASSUME NEW n \in Int, NEW d \in Int, d > 0, NEW lo \in Int, lo * d <= n
  PROVE  lo <= Nearest(n, d)
  <1> DEFINE q == Nearest(n, d)
  <1>1. q \in Int /\ 2 * n + d < (2 * d) * q + 2 * d
    BY NearestBounds
  <1> HIDE DEF q
  <1>2. (2 * d) * lo <= 2 * n
    OBVIOUS
  <1>3. (2 * d) * lo < (2 * d) * q + 2 * d
    BY <1>1, <1>2
  <1>4. QED
    BY <1>1, <1>3, QuotientAtLeast DEF q

LEMMA NearestAtMost ==
  ASSUME NEW n \in Int, NEW d \in Int, d > 0, NEW hi \in Int, n <= hi * d
  PROVE  Nearest(n, d) <= hi
  <1> DEFINE q == Nearest(n, d)
  <1>1. q \in Int /\ (2 * d) * q <= 2 * n + d
    BY NearestBounds
  <1> HIDE DEF q
  <1>2. 2 * n <= (2 * d) * hi
    OBVIOUS
  <1>3. (2 * d) * q < (2 * d) * hi + 2 * d
    BY <1>1, <1>2
  <1>4. QED
    BY <1>1, <1>3, QuotientAtLeast DEF q

LEMMA NearestMonotone ==
  ASSUME NEW m \in Int, NEW n \in Int, m <= n, NEW d \in Int, d > 0
  PROVE  Nearest(m, d) <= Nearest(n, d)
  <1> DEFINE p == Nearest(m, d)
             q == Nearest(n, d)
  <1>1. p \in Int /\ (2 * d) * p <= 2 * m + d
    BY NearestBounds
  <1>2. q \in Int /\ 2 * n + d < (2 * d) * q + 2 * d
    BY NearestBounds
  <1> HIDE DEF p, q
  <1>3. (2 * d) * p < (2 * d) * q + 2 * d
    BY <1>1, <1>2
  <1>4. QED
    BY <1>1, <1>2, <1>3, QuotientAtLeast DEF p, q

---------------------------------------------------------------------------
LEMMA SumType ==
  ASSUME NEW f \in [Components -> Int]
  PROVE  SumOver(f) \in Int
  BY DEF Components, SumOver

LEMMA SumMonotone ==
  ASSUME NEW f \in [Components -> Int], NEW g \in [Components -> Int],
         \A c \in Components : f[c] <= g[c]
  PROVE  SumOver(f) <= SumOver(g)
  BY DEF Components, SumOver

\* A sum of multiples is a multiple of the sum.
LEMMA SumTimes ==
  ASSUME NEW f \in [Components -> Int], NEW k \in Int
  PROVE  SumOver([c \in Components |-> k * f[c]]) = k * SumOver(f)
  BY DEF Components, SumOver

LEMMA SumNatural ==
  ASSUME NEW w \in WeightSettings
  PROVE  SumOver(w) \in Nat /\ (SumOver(w) > 0 => \E c \in Components : w[c] > 0)
  BY DEF Components, SumOver, WeightSettings

LEMMA ScoresType ==
  ASSUME NEW f \in HealthInputs
  PROVE  /\ ComponentScores(f) \in [Components -> Nat]
         /\ \A c \in Components : OnScale(ComponentScores(f)[c])
         /\ ComponentScores(f).churn = Capped(100 * (100 - f.risk))
         /\ ComponentScores(f).usage_trend = Capped(5000 + 50 * f.slope)
         /\ ComponentScores(f).payment_health = Capped(10000 - 2500 * f.failures)
         /\ ComponentScores(f).support_sentiment = Capped(5000 + 50 * f.sentiment)
         /\ ComponentScores(f).engagement_recency = Capped(10000 - 200 * f.idle)
  <1> DEFINE a == Capped(100 * (100 - f.risk))
             b == Capped(5000 + 50 * f.slope)
             c == Capped(10000 - 2500 * f.failures)
             d == Capped(5000 + 50 * f.sentiment)
             e == Capped(10000 - 200 * f.idle)
             cs == [churn |-> a, usage_trend |-> b, payment_health |-> c, support_sentiment |-> d,
                    engagement_recency |-> e]
  <1>1. /\ f.risk \in Int /\ f.slope \in Int /\ f.failures \in Int /\ f.sentiment \in Int /\ f.idle \in Int
    BY DEF HealthInputs
  <1>2. OnScale(a) /\ OnScale(b) /\ OnScale(c) /\ OnScale(d) /\ OnScale(e)
    <2>1. /\ 100 * (100 - f.risk) \in Int /\ 5000 + 50 * f.slope \in Int /\ 10000 - 2500 * f.failures \in Int
          /\ 5000 + 50 * f.sentiment \in Int /\ 10000 - 200 * f.idle \in Int
      BY <1>1
    <2>2. \A n \in Int : OnScale(Capped(n))
      BY CappedBounds
    <2>3. QED
      BY <2>1, <2>2
  <1>3. ComponentScores(f) = cs
    BY DEF ComponentScores
  <1>4. /\ cs.churn = a /\ cs.usage_trend = b /\ cs.payment_health = c /\ cs.support_sentiment = d
        /\ cs.engagement_recency = e
    OBVIOUS
  <1> HIDE DEF a, b, c, d, e
  <1>5. /\ a \in Nat /\ b \in Nat /\ c \in Nat /\ d \in Nat /\ e \in Nat
    BY <1>2 DEF OnScale
  <1>6. cs \in [Components -> Nat]
    BY <1>5 DEF Components
  <1>7. \A k \in Components : OnScale(cs[k])
    BY <1>2, <1>4 DEF Components
  <1> HIDE DEF cs
  <1>8. QED
    BY <1>3, <1>4, <1>6, <1>7 DEF a, b, c, d, e

LEMMA WeightedType ==
  ASSUME NEW f \in HealthInputs, NEW w \in WeightSettings
  PROVE  /\ Weighted(f, w) \in [Components -> Nat]
         /\ \A c \in Components : Weighted(f, w)[c] = ComponentScores(f)[c] * w[c]
         /\ SumOver(Weighted(f, w)) \in Nat
  <1>1. \A c \in Components : ComponentScores(f)[c] \in Nat /\ w[c] \in Nat
    BY ScoresType DEF WeightSettings
  <1>2. ASSUME NEW c \in Components PROVE ComponentScores(f)[c] * w[c] \in Nat
    <2>1. \A a, b \in Nat : a * b \in Nat
      OBVIOUS
    <2>2. QED
      BY <1>1, <2>1
  <1>3. Weighted(f, w) = [c \in Components |-> ComponentScores(f)[c] * w[c]]
    BY DEF Weighted
  <1>4. Weighted(f, w) \in [Components -> Nat]
    BY <1>2, <1>3
  <1>5. QED
    BY <1>3, <1>4, SumNatural DEF WeightSettings

\* A component in each respect is monotone in the input, and the score in its components.
LEMMA BetterScores ==
  ASSUME NEW f \in HealthInputs, NEW g \in HealthInputs, NEW w \in WeightSettings, Whole \in Nat \ {0},
         f.risk <= g.risk, f.slope >= g.slope, f.failures <= g.failures,
         f.sentiment >= g.sentiment, f.idle <= g.idle
  PROVE  Composite(f, w) >= Composite(g, w)
  <1>1. ASSUME NEW c \in Components PROVE ComponentScores(g)[c] <= ComponentScores(f)[c]
    <2>1. /\ f.risk \in Int /\ f.slope \in Int /\ f.failures \in Int /\ f.sentiment \in Int /\ f.idle \in Int
          /\ g.risk \in Int /\ g.slope \in Int /\ g.failures \in Int /\ g.sentiment \in Int /\ g.idle \in Int
      BY DEF HealthInputs
    <2>2. \A m, n \in Int : m <= n => Capped(m) <= Capped(n)
      BY CappedMonotone
    <2>3. Capped(100 * (100 - g.risk)) <= Capped(100 * (100 - f.risk))
      BY <2>1, <2>2
    <2>4. Capped(5000 + 50 * g.slope) <= Capped(5000 + 50 * f.slope)
      BY <2>1, <2>2
    <2>5. Capped(10000 - 2500 * g.failures) <= Capped(10000 - 2500 * f.failures)
      BY <2>1, <2>2
    <2>6. Capped(5000 + 50 * g.sentiment) <= Capped(5000 + 50 * f.sentiment)
      BY <2>1, <2>2
    <2>7. Capped(10000 - 200 * g.idle) <= Capped(10000 - 200 * f.idle)
      BY <2>1, <2>2
    <2>8. c \in {"churn", "usage_trend", "payment_health", "support_sentiment", "engagement_recency"}
      BY DEF Components
    <2>9. QED
      BY <2>3, <2>4, <2>5, <2>6, <2>7, <2>8, ScoresType
  <1>2. ASSUME NEW c \in Components
        PROVE  Weighted(g, w)[c] <= Weighted(f, w)[c]
    <2>1. ComponentScores(g)[c] \in Int /\ ComponentScores(f)[c] \in Int /\ w[c] \in Nat
      BY ScoresType DEF WeightSettings
    <2>2. \A a, b \in Int, n \in Nat : a <= b => a * n <= b * n
      OBVIOUS
    <2>3. ComponentScores(g)[c] * w[c] <= ComponentScores(f)[c] * w[c]
      BY <1>1, <2>1, <2>2
    <2>4. QED
      BY <2>3, WeightedType
  <1>3. SumOver(Weighted(g, w)) <= SumOver(Weighted(f, w))
    BY <1>2, WeightedType, SumMonotone
  <1>4. SumOver(Weighted(g, w)) \in Int /\ SumOver(Weighted(f, w)) \in Int /\ Whole \in Int /\ Whole > 0
    BY WeightedType
  <1>5. Nearest(SumOver(Weighted(g, w)), Whole) <= Nearest(SumOver(Weighted(f, w)), Whole)
    BY <1>3, <1>4, NearestMonotone
  <1>6. /\ Nearest(SumOver(Weighted(g, w)), Whole) \in Int
        /\ Nearest(SumOver(Weighted(f, w)), Whole) \in Int
    BY <1>4, NearestBounds
  <1>7. \A m, n \in Int : m <= n => Capped(m) <= Capped(n)
    BY CappedMonotone
  <1>8. Composite(g, w) <= Composite(f, w)
    BY <1>5, <1>6, <1>7 DEF Composite
  <1>9. Composite(g, w) \in Int /\ Composite(f, w) \in Int
    BY <1>6, CappedBounds DEF Composite, OnScale
  <1>10. QED
    BY <1>8, <1>9

\* A score is on the scale.
LEMMA CompositeType ==
  ASSUME NEW f \in HealthInputs, NEW w \in WeightSettings, Whole \in Nat \ {0}
  PROVE  OnScale(Composite(f, w))
  <1>1. Nearest(SumOver(Weighted(f, w)), Whole) \in Int
    BY WeightedType, NearestBounds
  <1>2. QED
    BY <1>1, CappedBounds DEF Composite

\* What a weighted sum is at least, if each component that counts is at least that; and at most.
LEMMA WeightedAtLeast ==
  ASSUME NEW f \in HealthInputs, NEW w \in WeightSettings, NEW lo \in Nat,
         \A c \in Components : w[c] > 0 => lo <= ComponentScores(f)[c]
  PROVE  lo * SumOver(w) <= SumOver(Weighted(f, w))
  <1> DEFINE g == [c \in Components |-> lo * w[c]]
  <1>1. ASSUME NEW c \in Components PROVE lo * w[c] \in Int /\ lo * w[c] <= Weighted(f, w)[c]
    <2>1. ComponentScores(f)[c] \in Nat /\ w[c] \in Nat
      BY ScoresType DEF WeightSettings
    <2>2. \A a, b, n \in Nat : (n > 0 => a <= b) => a * n \in Int /\ a * n <= b * n
      OBVIOUS
    <2>3. w[c] > 0 => lo <= ComponentScores(f)[c]
      OBVIOUS
    <2>4. lo * w[c] \in Int /\ lo * w[c] <= ComponentScores(f)[c] * w[c]
      BY <2>1, <2>2, <2>3
    <2>5. QED
      BY <2>4, WeightedType
  <1>2. g \in [Components -> Int] /\ \A c \in Components : g[c] <= Weighted(f, w)[c]
    BY <1>1
  <1>3. Weighted(f, w) \in [Components -> Int] /\ w \in [Components -> Int]
    BY WeightedType DEF WeightSettings
  <1>4. SumOver(g) = lo * SumOver(w)
    BY <1>3, SumTimes
  <1> HIDE DEF g
  <1>5. QED
    BY <1>2, <1>3, <1>4, SumMonotone

LEMMA WeightedAtMost ==
  ASSUME NEW f \in HealthInputs, NEW w \in WeightSettings, NEW hi \in Nat,
         \A c \in Components : w[c] > 0 => ComponentScores(f)[c] <= hi
  PROVE  SumOver(Weighted(f, w)) <= hi * SumOver(w)
  <1> DEFINE g == [c \in Components |-> hi * w[c]]
  <1>1. ASSUME NEW c \in Components PROVE hi * w[c] \in Int /\ Weighted(f, w)[c] <= hi * w[c]
    <2>1. ComponentScores(f)[c] \in Nat /\ w[c] \in Nat
      BY ScoresType DEF WeightSettings
    <2>2. \A a, b, n \in Nat : (n > 0 => b <= a) => a * n \in Int /\ b * n <= a * n
      OBVIOUS
    <2>3. w[c] > 0 => ComponentScores(f)[c] <= hi
      OBVIOUS
    <2>4. hi * w[c] \in Int /\ ComponentScores(f)[c] * w[c] <= hi * w[c]
      BY <2>1, <2>2, <2>3
    <2>5. QED
      BY <2>4, WeightedType
  <1>2. g \in [Components -> Int] /\ \A c \in Components : Weighted(f, w)[c] <= g[c]
    BY <1>1
  <1>3. Weighted(f, w) \in [Components -> Int] /\ w \in [Components -> Int]
    BY WeightedType DEF WeightSettings
  <1>4. SumOver(g) = hi * SumOver(w)
    BY <1>3, SumTimes
  <1> HIDE DEF g
  <1>5. QED
    BY <1>2, <1>3, <1>4, SumMonotone

\* A set that has a least and a greatest number has them with one number more.
Bounded(S) == S # {} => \E m, n \in S : \A k \in S : m <= k /\ k <= n

LEMMA OneMoreBounded ==
  ASSUME NEW S \in SUBSET Nat, Bounded(S), NEW T \in SUBSET Nat, NEW e \in Nat, T \subseteq {e}
  PROVE  S \union T \in SUBSET Nat /\ Bounded(S \union T)
  <1>1. CASE T = {}
    BY <1>1 DEF Bounded
  <1>2. CASE S = {} /\ T = {e}
    BY <1>2 DEF Bounded
  <1>3. CASE S # {} /\ T = {e}
    <2>1. PICK m \in S, n \in S : \A k \in S : m <= k /\ k <= n
      BY <1>3 DEF Bounded
    <2>2. PICK i \in S \union {e} : i \in Nat /\ i <= m /\ i <= e
      BY <2>1
    <2>3. PICK j \in S \union {e} : j \in Nat /\ n <= j /\ e <= j
      BY <2>1
    <2>4. m \in Nat /\ n \in Nat
      BY <2>1
    <2>5. ASSUME NEW k \in S PROVE i <= k /\ k <= j
      BY <2>1, <2>2, <2>3, <2>4
    <2>6. QED
      BY <1>3, <2>2, <2>3, <2>5 DEF Bounded
  <1>4. QED
    BY <1>1, <1>2, <1>3

LEMMA LeastAndGreatest ==
  ASSUME NEW S \in SUBSET Nat, S # {}, Bounded(S)
  PROVE  Min(S) \in S /\ Max(S) \in S /\ \A n \in S : Min(S) <= n /\ Max(S) >= n
  <1>1. (\E m \in S : \A n \in S : m <= n) /\ (\E m \in S : \A n \in S : m >= n)
    BY DEF Bounded
  <1>2. QED
    BY <1>1 DEF Min, Max

\* What a function takes on some of the components: five numbers at most.
LEMMA FiveBounded ==
  ASSUME NEW f \in [Components -> Nat], NEW C \in SUBSET Components
  PROVE  Bounded({f[c] : c \in C})
  <1> DEFINE V(c) == IF c \in C THEN {f[c]} ELSE {}
  <1>1. \A c \in Components : V(c) \in SUBSET Nat /\ f[c] \in Nat /\ V(c) \subseteq {f[c]}
    OBVIOUS
  <1>2. /\ "churn" \in Components /\ "usage_trend" \in Components /\ "payment_health" \in Components
        /\ "support_sentiment" \in Components /\ "engagement_recency" \in Components
    BY DEF Components
  <1>3. {f[c] : c \in C} = ((((({} \union V("churn")) \union V("usage_trend")) \union V("payment_health"))
                              \union V("support_sentiment")) \union V("engagement_recency"))
    BY DEF Components
  <1>4. {} \in SUBSET Nat /\ Bounded({})
    BY DEF Bounded
  <1> HIDE DEF V
  <1>5. ({} \union V("churn")) \in SUBSET Nat /\ Bounded({} \union V("churn"))
    BY <1>1, <1>2, <1>4, OneMoreBounded
  <1> DEFINE S1 == {} \union V("churn")
             S2 == S1 \union V("usage_trend")
             S3 == S2 \union V("payment_health")
             S4 == S3 \union V("support_sentiment")
  <1>6. S1 \in SUBSET Nat /\ Bounded(S1)
    BY <1>5
  <1> HIDE DEF S1
  <1>7. S2 \in SUBSET Nat /\ Bounded(S2)
    BY <1>1, <1>2, <1>6, OneMoreBounded
  <1> HIDE DEF S2
  <1>8. S3 \in SUBSET Nat /\ Bounded(S3)
    BY <1>1, <1>2, <1>7, OneMoreBounded
  <1> HIDE DEF S3
  <1>9. S4 \in SUBSET Nat /\ Bounded(S4)
    BY <1>1, <1>2, <1>8, OneMoreBounded
  <1> HIDE DEF S4
  <1>10. Bounded(S4 \union V("engagement_recency"))
    BY <1>1, <1>2, <1>9, OneMoreBounded
  <1>11. QED
    BY <1>3, <1>10 DEF S4, S3, S2, S1

\* A sum that is slightly off moves a weighted sum by at most one whole.
LEMMA SlightlyOff ==
  ASSUME NEW W \in Int, W > 0, NEW k \in Nat, k <= 10000, NEW t \in Int,
         9999 * W <= 10000 * t, 10000 * t <= 10001 * W
  PROVE  (k - 1) * W <= k * t /\ k * t <= (k + 1) * W
  <1> DEFINE d == 10000 * (t - W)
  <1>1. d \in Int /\ - W <= d /\ d <= W
    OBVIOUS
  <1>2. k * d <= k * W /\ - (k * W) <= k * d
    BY <1>1
  <1>3. k * W <= 10000 * W
    OBVIOUS
  <1>4. k * d = 10000 * (k * t) - 10000 * (k * W)
    OBVIOUS
  <1>5. k * t \in Int /\ k * W \in Int /\ k * d \in Int
    BY <1>1
  <1> HIDE DEF d
  <1>6. k * t - k * W <= W /\ - W <= k * t - k * W
    BY <1>2, <1>3, <1>4, <1>5
  <1>7. (k - 1) * W = k * W - W /\ (k + 1) * W = k * W + W
    OBVIOUS
  <1>8. QED
    BY <1>5, <1>6, <1>7

LEMMA AddsUpMeans ==
  ASSUME NEW w \in WeightSettings, Whole \in Nat \ {0}, Nearly(SumOver(w))
  PROVE  /\ SumOver(w) \in Nat /\ SumOver(w) > 0 /\ Whole \in Int /\ Whole > 0
         /\ 9999 * Whole <= 10000 * SumOver(w) /\ 10000 * SumOver(w) <= 10001 * Whole
  <1>1. SumOver(w) \in Nat
    BY SumNatural
  <1>2. QED
    BY <1>1 DEF Nearly

\* By weights that add up the average is a hundredth above the scale at most.
LEMMA ScoreNearlyUncapped ==
  ASSUME NEW f \in HealthInputs, NEW w \in WeightSettings, Whole \in Nat \ {0}, Nearly(SumOver(w))
  PROVE  LET q == Nearest(SumOver(Weighted(f, w)), Whole)
         IN /\ q \in Nat /\ Composite(f, w) \in Int
            /\ Composite(f, w) <= q /\ q <= Composite(f, w) + 1
  <1> DEFINE N == SumOver(Weighted(f, w))
             q == Nearest(N, Whole)
             top == 10000
             t == SumOver(w)
  <1>1. \A c \in Components : ComponentScores(f)[c] \in Nat /\ ComponentScores(f)[c] <= top
    BY ScoresType DEF OnScale
  <1>2. top \in Nat /\ top <= 10000
    OBVIOUS
  <1>3. N \in Int /\ N \in Nat
    BY WeightedType
  <1>4. /\ t \in Nat /\ Whole \in Int /\ Whole > 0
        /\ 9999 * Whole <= 10000 * t /\ 10000 * t <= 10001 * Whole
    BY AddsUpMeans
  <1>5. Composite(f, w) = Capped(q)
    BY DEF Composite
  <1> HIDE DEF top
  <1>6. N <= top * t
    BY <1>1, <1>2, WeightedAtMost
  <1> HIDE DEF N, t
  <1>7. top * t <= (top + 1) * Whole
    BY <1>2, <1>4, SlightlyOff
  <1>8. N <= (top + 1) * Whole
    <2>1. top * t \in Int /\ (top + 1) * Whole \in Int
      BY <1>2, <1>4
    <2>2. QED
      BY <1>3, <1>6, <1>7, <2>1
  <1>9. q \in Int
    BY <1>3, <1>4, NearestBounds
  <1>10. 0 * Whole <= N
    BY <1>3, <1>4
  <1>11. 0 <= q
    BY <1>3, <1>4, <1>10, NearestBetween
  <1>12. q <= top + 1
    BY <1>2, <1>3, <1>4, <1>8, NearestAtMost
  <1> HIDE DEF q
  <1>13. Capped(q) \in Int /\ Capped(q) <= q /\ q <= Capped(q) + 1
    BY <1>9, <1>11, <1>12 DEF Capped, top
  <1>14. QED
    BY <1>5, <1>9, <1>11, <1>13 DEF q, N

\* The score lies between the components that count, give or take a hundredth.
LEMMA ScoreBetween ==
  ASSUME NEW f \in HealthInputs, NEW w \in WeightSettings, Whole \in Nat \ {0}, Nearly(SumOver(w))
  PROVE  LET counting == {ComponentScores(f)[c] : c \in {c \in Components : w[c] > 0}}
         IN Composite(f, w) \in Min(counting) - 1 .. Max(counting) + 1
  <1> DEFINE counting == {ComponentScores(f)[c] : c \in {c \in Components : w[c] > 0}}
             N == SumOver(Weighted(f, w))
             lo == Min(counting)
             hi == Max(counting)
             t == SumOver(w)
  <1>1. \A c \in Components : ComponentScores(f)[c] \in Nat /\ OnScale(ComponentScores(f)[c])
    BY ScoresType
  <1>2. counting # {}
    <2>1. SumOver(w) > 0
      BY AddsUpMeans
    <2>2. PICK c \in Components : w[c] > 0
      BY <2>1, SumNatural
    <2>3. ComponentScores(f)[c] \in counting
      BY <2>2
    <2>4. QED
      BY <2>3
  <1>3. counting \in SUBSET Nat /\ \A n \in counting : OnScale(n)
    BY <1>1
  <1>4. \A c \in Components : w[c] > 0 => ComponentScores(f)[c] \in counting
    OBVIOUS
  <1> HIDE DEF counting
  <1>5. Bounded(counting)
    <2> DEFINE C == {c \in Components : w[c] > 0}
               g == ComponentScores(f)
    <2>1. C \in SUBSET Components /\ g \in [Components -> Nat]
      BY ScoresType
    <2>2. counting = {g[c] : c \in C}
      BY DEF counting
    <2> HIDE DEF C, g
    <2>3. QED
      BY <2>1, <2>2, FiveBounded
  <1>6. /\ lo \in counting /\ hi \in counting
        /\ \A n \in counting : lo <= n /\ hi >= n
    BY <1>2, <1>3, <1>5, LeastAndGreatest
  <1>7. lo \in Nat /\ hi \in Nat /\ OnScale(lo) /\ OnScale(hi)
    BY <1>3, <1>6
  <1> HIDE DEF lo, hi
  <1>8. lo * t <= N
    <2>1. \A c \in Components : w[c] > 0 => lo <= ComponentScores(f)[c]
      BY <1>4, <1>6
    <2>2. QED
      BY <1>7, <2>1, WeightedAtLeast
  <1>9. N <= hi * t
    <2>1. \A c \in Components : w[c] > 0 => ComponentScores(f)[c] <= hi
      BY <1>1, <1>4, <1>6, <1>7
    <2>2. QED
      BY <1>7, <2>1, WeightedAtMost
  <1>10. N \in Nat
    BY WeightedType
  <1>11. /\ t \in Nat /\ Whole \in Int /\ Whole > 0
         /\ 9999 * Whole <= 10000 * t /\ 10000 * t <= 10001 * Whole
    BY AddsUpMeans
  <1> DEFINE q == Nearest(N, Whole)
  <1> HIDE DEF N, t
  <1>12. q \in Int /\ lo - 1 <= q /\ q <= hi + 1
    <2>1. N \in Int /\ Whole \in Int /\ Whole > 0 /\ lo - 1 \in Int /\ hi + 1 \in Int
      BY <1>7, <1>10, <1>11
    <2>2. q \in Int
      BY <2>1, NearestBounds
    <2>3. lo <= 10000 /\ hi <= 10000
      BY <1>7 DEF OnScale
    <2>4. (lo - 1) * Whole <= lo * t /\ hi * t <= (hi + 1) * Whole
      BY <1>7, <1>11, <2>3, SlightlyOff
    <2>5. lo * t \in Int /\ hi * t \in Int /\ (lo - 1) * Whole \in Int /\ (hi + 1) * Whole \in Int
      BY <1>7, <1>11
    <2>6. (lo - 1) * Whole <= N /\ N <= (hi + 1) * Whole
      BY <1>8, <1>9, <2>1, <2>4, <2>5
    <2>7. lo - 1 <= q
      BY <2>1, <2>6, NearestBetween
    <2>8. q <= hi + 1
      BY <2>1, <2>6, NearestAtMost
    <2>9. QED
      BY <2>2, <2>7, <2>8
  <1>13. Composite(f, w) = Capped(q)
    BY DEF Composite, N
  <1> HIDE DEF q
  <1>14. Capped(q) \in lo - 1 .. hi + 1
    BY <1>7, <1>12 DEF Capped, OnScale
  <1>15. QED
    BY <1>13, <1>14 DEF lo, hi, counting

\* How far what the components contribute is from the score: each is rounded once.
LEMMA FiveRoundings ==
  ASSUME NEW W \in Int, W > 0, NEW g \in [Components -> Nat], NEW p \in [Components -> Int],
         \A c \in Components : /\ (2 * W) * p[c] <= 2 * g[c] + W
                               /\ 2 * g[c] + W < (2 * W) * p[c] + 2 * W,
         NEW q \in Int, (2 * W) * q <= 2 * SumOver(g) + W, 2 * SumOver(g) + W < (2 * W) * q + 2 * W
  PROVE  2 * (SumOver(p) - q) <= 6 /\ -6 <= 2 * (SumOver(p) - q)
  <1> DEFINE P == SumOver(p)
             G == SumOver(g)
  <1>1. /\ "churn" \in Components /\ "usage_trend" \in Components /\ "payment_health" \in Components
        /\ "support_sentiment" \in Components /\ "engagement_recency" \in Components
    BY DEF Components
  <1>2. /\ P = p.churn + p.usage_trend + p.payment_health + p.support_sentiment + p.engagement_recency
        /\ G = g.churn + g.usage_trend + g.payment_health + g.support_sentiment + g.engagement_recency
        /\ p.churn \in Int /\ p.usage_trend \in Int /\ p.payment_health \in Int
        /\ p.support_sentiment \in Int /\ p.engagement_recency \in Int
        /\ g.churn \in Int /\ g.usage_trend \in Int /\ g.payment_health \in Int
        /\ g.support_sentiment \in Int /\ g.engagement_recency \in Int
    BY <1>1 DEF SumOver
  <1>3. /\ (2 * W) * p.churn <= 2 * g.churn + W /\ 2 * g.churn < (2 * W) * p.churn + W
        /\ (2 * W) * p.usage_trend <= 2 * g.usage_trend + W
        /\ 2 * g.usage_trend < (2 * W) * p.usage_trend + W
        /\ (2 * W) * p.payment_health <= 2 * g.payment_health + W
        /\ 2 * g.payment_health < (2 * W) * p.payment_health + W
        /\ (2 * W) * p.support_sentiment <= 2 * g.support_sentiment + W
        /\ 2 * g.support_sentiment < (2 * W) * p.support_sentiment + W
        /\ (2 * W) * p.engagement_recency <= 2 * g.engagement_recency + W
        /\ 2 * g.engagement_recency < (2 * W) * p.engagement_recency + W
    BY <1>1, <1>2
  <1>4. P \in Int /\ G \in Int
    BY <1>2
  <1>5. (2 * W) * P <= 2 * G + 5 * W /\ 2 * G < (2 * W) * P + 5 * W
    BY <1>2, <1>3
  <1>6. (2 * W) * q <= 2 * G + W /\ 2 * G + W < (2 * W) * q + 2 * W
    OBVIOUS
  <1> HIDE DEF P, G
  <1>7. (2 * W) * P - (2 * W) * q <= 6 * W /\ (2 * W) * q - (2 * W) * P <= 6 * W
    BY <1>4, <1>5, <1>6
  <1>8. W * (2 * (P - q)) <= W * 6 /\ W * (2 * (q - P)) <= W * 6
    BY <1>4, <1>7
  <1>9. \A a, b \in Int : W * a <= W * b => a <= b
    OBVIOUS
  <1>10. 2 * (P - q) <= 6 /\ 2 * (q - P) <= 6
    BY <1>4, <1>8, <1>9
  <1>11. QED
    BY <1>4, <1>10 DEF P

LEMMA ComponentsCount == Cardinality(Components) = 5
  <1> DEFINE A == {"churn"}
             B == A \union {"usage_trend"}
             C == B \union {"payment_health"}
             D == C \union {"support_sentiment"}
  <1>1. IsFiniteSet(A) /\ Cardinality(A) = 1
    BY FS_Singleton
  <1>2. "usage_trend" \notin A
    OBVIOUS
  <1>3. "payment_health" \notin B
    OBVIOUS
  <1>4. "support_sentiment" \notin C
    OBVIOUS
  <1>5. "engagement_recency" \notin D
    OBVIOUS
  <1>6. Components = D \union {"engagement_recency"}
    BY DEF Components
  <1> HIDE DEF A
  <1>7. IsFiniteSet(B) /\ Cardinality(B) = 2
    BY <1>1, <1>2, FS_AddElement
  <1> HIDE DEF B
  <1>8. IsFiniteSet(C) /\ Cardinality(C) = 3
    BY <1>7, <1>3, FS_AddElement
  <1> HIDE DEF C
  <1>9. IsFiniteSet(D) /\ Cardinality(D) = 4
    BY <1>8, <1>4, FS_AddElement
  <1> HIDE DEF D
  <1>10. QED
    BY <1>9, <1>5, <1>6, FS_AddElement

\* What the components contribute adds up to the score, within the rounding of each and a hundredth.
LEMMA PartsAddUp ==
  ASSUME NEW f \in HealthInputs, NEW w \in WeightSettings, Whole \in Nat \ {0}, Nearly(SumOver(w))
  PROVE  2 * (SumOver(Contributions(f, w)) - Composite(f, w))
           \in - (Cardinality(Components) + 1) .. Cardinality(Components) + 3
  <1> DEFINE g == Weighted(f, w)
             q == Nearest(SumOver(g), Whole)
             p == Contributions(f, w)
  <1>1. Whole \in Int /\ Whole > 0 /\ g \in [Components -> Nat] /\ SumOver(g) \in Int
    BY WeightedType
  <1>2. p = [c \in Components |-> Nearest(g[c], Whole)]
    BY DEF Contributions
  <1>3. Composite(f, w) \in Int /\ Composite(f, w) <= q /\ q <= Composite(f, w) + 1
    BY ScoreNearlyUncapped
  <1> HIDE DEF g
  <1>4. q \in Int /\ (2 * Whole) * q <= 2 * SumOver(g) + Whole
        /\ 2 * SumOver(g) + Whole < (2 * Whole) * q + 2 * Whole
    BY <1>1, NearestBounds
  <1>5. ASSUME NEW c \in Components
        PROVE  /\ p[c] \in Int /\ (2 * Whole) * p[c] <= 2 * g[c] + Whole
               /\ 2 * g[c] + Whole < (2 * Whole) * p[c] + 2 * Whole
    <2>1. g[c] \in Int /\ p[c] = Nearest(g[c], Whole)
      BY <1>1, <1>2
    <2>2. QED
      BY <1>1, <2>1, NearestBounds
  <1>6. p \in [Components -> Int]
    BY <1>2, <1>5
  <1> HIDE DEF p, q
  <1>7. 2 * (SumOver(p) - q) <= 6 /\ -6 <= 2 * (SumOver(p) - q)
    BY <1>1, <1>4, <1>5, <1>6, FiveRoundings
  <1>8. SumOver(p) \in Int
    BY <1>6, SumType
  <1>9. 2 * (SumOver(p) - Composite(f, w)) \in -6 .. 8
    <2> DEFINE P == SumOver(p)
               score == Composite(f, w)
    <2>1. /\ P \in Int /\ q \in Int /\ score \in Int /\ score <= q /\ q <= score + 1
          /\ 2 * (P - q) <= 6 /\ -6 <= 2 * (P - q)
      BY <1>3, <1>4, <1>7, <1>8
    <2> HIDE DEF P, score
    <2>2. P - q \in Int /\ P - q <= 3 /\ -3 <= P - q
      BY <2>1
    <2>3. P - score \in Int /\ P - score <= 4 /\ -3 <= P - score
      BY <2>1, <2>2
    <2>4. 2 * (P - score) \in -6 .. 8
      BY <2>3
    <2>5. QED
      BY <2>4 DEF P, score
  <1>10. - (Cardinality(Components) + 1) = -6 /\ Cardinality(Components) + 3 = 8
    BY ComponentsCount
  <1>11. QED
    BY <1>9, <1>10 DEF p

---------------------------------------------------------------------------
(***************************************************************************)
(* The health score                                                        *)
(***************************************************************************)
SeenConditions == Conditions \union {Unforeseen(f) : f \in Conditions}
StoredWeights == {{}} \union {{w} : w \in WeightSettings}
HealthRows == [at : Nat, of : SeenConditions, by : WeightSettings]
SetterStates ==
  [pc : {"new", "failed", "done"}] \union [pc : {"save"}, asked : WeightSettings, was : StoredWeights]
ViewStates ==
  [pc : {"new"}] \union [pc : {"weigh"}, risk : Int]
  \union [pc : {"compute"}, risk : Int, by : WeightSettings]
  \union [pc : {"done"}, of : HealthInputs, by : WeightSettings, at : Nat, newest : SUBSET HealthRows]
ScorerStates ==
  [pc : {"idle"}] \union [pc : {"weigh"}, of : SeenConditions]
  \union [pc : {"commit"}, of : SeenConditions, by : WeightSettings]

HealthTypeInv ==
  /\ weights \in StoredWeights /\ condition \in Conditions
  /\ night \in 0 .. LastNight
  /\ records \subseteq HealthRows /\ \A h \in records : h.at \in 1 .. night
  /\ setter \in [WeightPuts -> SetterStates] /\ view \in [Views -> ViewStates]
  /\ scorer \in ScorerStates /\ (scorer.pc # "idle" => night >= 1)

\* Unless requests met, one at a time is setting weights that add up, and knows the weights.
SetInv ==
  \/ mixed
  \/ /\ weights = lastSet /\ \A w \in weights : Nearly(SumOver(w))
     /\ \A r \in WeightPuts : setter[r].pc = "save" => setter[r].was = weights
     /\ \A r, q \in WeightPuts : setter[r].pc = "save" /\ setter[q].pc = "save" => r = q
AskedInv == \A r \in WeightPuts : setter[r].pc = "save" => Nearly(SumOver(setter[r].asked))

HealthInv == HealthTypeInv /\ SetInv /\ AskedInv /\ NewestShown

LEMMA ConditionsType ==
  ASSUME HealthAssumption
  PROVE  /\ Conditions \subseteq HealthInputs /\ SeenConditions \subseteq HealthInputs
         /\ \A f \in HealthInputs, p \in Int : [f EXCEPT !.risk = p] \in HealthInputs
  <1>1. Conditions \subseteq HealthInputs
    BY DEF HealthAssumption, HealthInputs
  <1>2. \A f \in HealthInputs, p \in Int : [f EXCEPT !.risk = p] \in HealthInputs
    BY DEF HealthInputs
  <1>3. \A f \in Conditions : Unforeseen(f) \in HealthInputs
    BY <1>1, <1>2 DEF Unforeseen
  <1>4. QED
    BY <1>1, <1>2, <1>3 DEF SeenConditions

LEMMA InForceType ==
  ASSUME HealthAssumption, HealthTypeInv
  PROVE  InForce \in WeightSettings
  <1>1. CASE weights = {}
    BY <1>1 DEF InForce, HealthAssumption, WeightSettings
  <1>2. CASE weights # {}
    <2>1. PICK w \in WeightSettings : weights = {w}
      BY <1>2 DEF HealthTypeInv, StoredWeights
    <2>2. QED
      BY <2>1 DEF InForce
  <1>3. QED
    BY <1>1, <1>2

LEMMA HealthInitially == HealthAssumption /\ HealthInit => HealthInv
  <1> SUFFICES ASSUME HealthAssumption, HealthInit PROVE HealthInv
    OBVIOUS
  <1>1. HealthTypeInv
    BY DEF HealthAssumption, HealthInit, HealthTypeInv, StoredWeights, SetterStates, ViewStates, ScorerStates
  <1>2. SetInv /\ AskedInv /\ NewestShown
    BY DEF HealthInit, SetInv, AskedInv, NewestShown
  <1>3. QED
    BY <1>1, <1>2 DEF HealthInv

LEMMA HealthLoadWeights ==
  ASSUME HealthAssumption, HealthInv, NEW r \in WeightPuts, LoadWeights(r)
  PROVE  HealthInv'
  <1>1. PICK w \in WeightPayloads :
          setter' = [setter EXCEPT ![r] =
            IF Accepted(w) THEN [pc |-> "save", asked |-> w, was |-> weights] ELSE [pc |-> "failed"]]
    BY DEF LoadWeights
  <1>2. /\ mixed' = (mixed \/ \E q \in WeightPuts : setter[q].pc = "save") /\ setter[r].pc = "new"
        /\ UNCHANGED <<weights, condition, night, records, view, scorer, lastSet>>
    BY DEF LoadWeights
  <1>3. w \in WeightSettings /\ weights \in StoredWeights
    BY DEF HealthAssumption, WeightSettings, HealthInv, HealthTypeInv
  <1>4. /\ setter' \in [WeightPuts -> SetterStates]
        /\ \A q \in WeightPuts \ {r} : setter'[q] = setter[q]
        /\ setter'[r].pc = "save" => setter'[r].asked = w /\ setter'[r].was = weights /\ Accepted(w)
    BY <1>1, <1>3 DEF HealthInv, HealthTypeInv, SetterStates
  <1>5. HealthTypeInv'
    BY <1>2, <1>4 DEF HealthInv, HealthTypeInv
  <1>6. SetInv'
    BY <1>2, <1>4 DEF HealthInv, SetInv
  <1>7. AskedInv'
    <2>1. Accepted(w) => Nearly(SumOver(w))
      <3>1. SumOver(w) \in Nat
        BY <1>3, SumNatural
      <3>2. QED
        BY <3>1 DEF HealthAssumption, Accepted, Nearly
    <2>2. QED
      BY <1>2, <1>4, <2>1 DEF HealthInv, AskedInv
  <1>8. NewestShown'
    BY <1>2 DEF HealthInv, NewestShown
  <1>9. QED
    BY <1>5, <1>6, <1>7, <1>8 DEF HealthInv

LEMMA HealthSaveWeights ==
  ASSUME HealthAssumption, HealthInv, NEW r \in WeightPuts, SaveWeights(r)
  PROVE  HealthInv'
  <1> DEFINE was == setter[r].was
             given == setter[r].asked
  <1>1. /\ setter[r].pc = "save"
        /\ UNCHANGED <<condition, night, records, view, scorer, mixed>>
    BY DEF SaveWeights
  <1>2. given \in WeightSettings /\ was \in StoredWeights /\ weights \in StoredWeights
    BY <1>1 DEF HealthInv, HealthTypeInv, SetterStates
  <1>3. Nearly(SumOver(given))
    BY <1>1 DEF HealthInv, AskedInv
  <1>4. NewestShown'
    BY <1>1 DEF HealthInv, NewestShown
  <1>5. CASE was = {} /\ weights # {}
    <2>1. setter' = [setter EXCEPT ![r] = [pc |-> "failed"]] /\ UNCHANGED <<weights, lastSet>>
      BY <1>5 DEF SaveWeights
    <2>2. /\ setter' \in [WeightPuts -> SetterStates] /\ setter'[r].pc = "failed"
          /\ \A q \in WeightPuts \ {r} : setter'[q] = setter[q]
      BY <2>1 DEF HealthInv, HealthTypeInv, SetterStates
    <2>3. HealthTypeInv'
      BY <1>1, <2>1, <2>2 DEF HealthInv, HealthTypeInv
    <2>4. SetInv' /\ AskedInv'
      BY <1>1, <2>1, <2>2 DEF HealthInv, SetInv, AskedInv
    <2>5. QED
      BY <1>4, <2>3, <2>4 DEF HealthInv
  <1>6. CASE ~ (was = {} /\ weights # {})
    <2>1. /\ weights' = IF was = {} THEN {given}
                        ELSE {Reweighted(row, CHOOSE w \in was : TRUE, given) : row \in weights}
          /\ lastSet' = {given}
          /\ setter' = [setter EXCEPT ![r] = [pc |-> "done"]]
      BY <1>6 DEF SaveWeights
    <2>2. /\ setter' \in [WeightPuts -> SetterStates] /\ setter'[r].pc = "done"
          /\ \A q \in WeightPuts \ {r} : setter'[q] = setter[q]
      BY <2>1 DEF HealthInv, HealthTypeInv, SetterStates
    <2> HIDE DEF was, given
    <2>3. weights' \in StoredWeights /\ (was = weights => weights' = {given})
      <3>1. CASE was = {}
        BY <1>2, <2>1, <3>1 DEF StoredWeights
      <3>2. CASE was # {}
        <4>1. PICK w \in WeightSettings : was = {w}
          BY <1>2, <3>2 DEF StoredWeights
        <4>2. weights' = {Reweighted(row, w, given) : row \in weights}
          BY <2>1, <4>1
        <4>3. ASSUME NEW row \in WeightSettings PROVE Reweighted(row, w, given) \in WeightSettings
          BY <1>2 DEF Reweighted, WeightSettings
        <4>4. Reweighted(w, w, given) = given
          BY <1>2 DEF Reweighted, WeightSettings
        <4>5. weights = {} \/ \E row \in WeightSettings : weights = {row}
          BY <1>2 DEF StoredWeights
        <4>6. CASE weights = {}
          BY <4>1, <4>2, <4>6 DEF StoredWeights
        <4>7. CASE \E row \in WeightSettings : weights = {row}
          <5>1. PICK row \in WeightSettings : weights = {row}
            BY <4>7
          <5>2. weights' = {Reweighted(row, w, given)}
            BY <4>2, <5>1
          <5>3. QED
            BY <4>1, <4>3, <4>4, <5>1, <5>2 DEF StoredWeights
        <4>8. QED
          BY <4>5, <4>6, <4>7
      <3>3. QED
        BY <3>1, <3>2
    <2>4. HealthTypeInv'
      BY <1>1, <2>2, <2>3 DEF HealthInv, HealthTypeInv
    <2>5. SetInv'
      <3>1. CASE mixed
        BY <1>1, <3>1 DEF SetInv
      <3>2. CASE ~ mixed
        <4>1. /\ was = weights
              /\ \A q \in WeightPuts : setter[q].pc = "save" => q = r
          BY <1>1, <3>2 DEF HealthInv, SetInv, was
        <4>2. weights' = lastSet' /\ \A w \in weights' : Nearly(SumOver(w))
          BY <1>3, <2>1, <2>3, <4>1
        <4>3. \A q \in WeightPuts : setter'[q].pc # "save"
          BY <2>2, <4>1
        <4>4. QED
          BY <4>2, <4>3 DEF SetInv
      <3>3. QED
        BY <3>1, <3>2
    <2>6. AskedInv'
      BY <2>2 DEF HealthInv, AskedInv
    <2>7. QED
      BY <1>4, <2>4, <2>5, <2>6 DEF HealthInv
  <1>7. QED
    BY <1>5, <1>6

LEMMA HealthScorer ==
  ASSUME HealthAssumption, HealthInv, StartScoring \/ WeighScoring \/ CommitScoring
  PROVE  HealthInv'
  <1>1. UNCHANGED <<weights, condition, setter, view, lastSet, mixed>>
    BY DEF StartScoring, WeighScoring, CommitScoring
  <1>2. night \in Nat /\ night \in 0 .. LastNight /\ LastNight \in Nat
    BY DEF HealthAssumption, HealthInv, HealthTypeInv
  <1>3. HealthTypeInv'
    <2>1. CASE StartScoring
      <3>1. /\ night < LastNight /\ night' = night + 1 /\ records' = records
            /\ \E f \in {condition, Unforeseen(condition)} : scorer' = [pc |-> "weigh", of |-> f]
        BY <2>1 DEF StartScoring
      <3>2. scorer' \in ScorerStates
        BY <3>1 DEF HealthInv, HealthTypeInv, SeenConditions, ScorerStates
      <3>3. night' \in 0 .. LastNight /\ night' >= 1 /\ \A n \in 1 .. night : n \in 1 .. night'
        BY <1>2, <3>1
      <3>4. QED
        BY <1>1, <3>1, <3>2, <3>3 DEF HealthInv, HealthTypeInv
    <2>2. CASE WeighScoring
      <3>1. /\ scorer.pc = "weigh" /\ UNCHANGED <<night, records>>
            /\ scorer' = [pc |-> "commit", of |-> scorer.of, by |-> InForce]
        BY <2>2 DEF WeighScoring
      <3>2. InForce \in WeightSettings
        BY InForceType DEF HealthInv
      <3>3. scorer' \in ScorerStates
        BY <3>1, <3>2 DEF HealthInv, HealthTypeInv, ScorerStates
      <3>4. QED
        BY <1>1, <3>1, <3>3 DEF HealthInv, HealthTypeInv
    <2>3. CASE CommitScoring
      <3>1. /\ scorer.pc = "commit" /\ UNCHANGED night /\ scorer' = [pc |-> "idle"]
            /\ records' = records \union {[at |-> night, of |-> scorer.of, by |-> scorer.by]}
        BY <2>3 DEF CommitScoring
      <3>2. scorer.of \in SeenConditions /\ scorer.by \in WeightSettings /\ night >= 1
        BY <3>1 DEF HealthInv, HealthTypeInv, ScorerStates
      <3>3. [at |-> night, of |-> scorer.of, by |-> scorer.by] \in HealthRows /\ night \in 1 .. night
        BY <1>2, <3>2 DEF HealthRows
      <3>4. scorer' \in ScorerStates /\ scorer'.pc = "idle"
        BY <3>1 DEF ScorerStates
      <3>5. QED
        BY <1>1, <3>1, <3>3, <3>4 DEF HealthInv, HealthTypeInv
    <2>4. QED
      BY <2>1, <2>2, <2>3
  <1>4. SetInv' /\ AskedInv' /\ NewestShown'
    BY <1>1 DEF HealthInv, SetInv, AskedInv, NewestShown
  <1>5. QED
    BY <1>3, <1>4 DEF HealthInv

\* A view that moves on is of its type, and shows the newest record if it is done.
LEMMA HealthViewMoves ==
  ASSUME HealthInv, NEW v \in Views, NEW after \in ViewStates, view' = [view EXCEPT ![v] = after],
         after.pc = "done" => \A h \in after.newest : h.at <= after.at,
         UNCHANGED <<weights, condition, night, records, setter, scorer, lastSet, mixed>>
  PROVE  HealthInv'
  <1>1. view' \in [Views -> ViewStates] /\ view'[v] = after /\ \A u \in Views \ {v} : view'[u] = view[u]
    BY DEF HealthInv, HealthTypeInv
  <1>2. HealthTypeInv'
    BY <1>1 DEF HealthInv, HealthTypeInv
  <1>3. SetInv' /\ AskedInv'
    BY DEF HealthInv, SetInv, AskedInv
  <1>4. NewestShown'
    BY <1>1 DEF HealthInv, NewestShown
  <1>5. QED
    BY <1>2, <1>3, <1>4 DEF HealthInv

LEMMA HealthView ==
  ASSUME HealthAssumption, HealthInv, NEW v \in Views, BeginView(v) \/ WeighView(v) \/ ComputeView(v)
  PROVE  HealthInv'
  <1>1. UNCHANGED <<weights, condition, night, records, setter, scorer, lastSet, mixed>>
    BY DEF BeginView, WeighView, ComputeView
  <1>2. \E after \in ViewStates :
          /\ view' = [view EXCEPT ![v] = after]
          /\ after.pc = "done" => \A h \in after.newest : h.at <= after.at
    <2>1. CASE BeginView(v)
      <3>1. CASE \E h \in records :
                   /\ LatestRecord(h)
                   /\ view' = [view EXCEPT ![v] =
                        [pc |-> "done", of |-> h.of, by |-> h.by, at |-> h.at, newest |-> records]]
        <4>1. PICK h \in records :
                   /\ LatestRecord(h)
                   /\ view' = [view EXCEPT ![v] =
                        [pc |-> "done", of |-> h.of, by |-> h.by, at |-> h.at, newest |-> records]]
          BY <3>1
        <4>2. /\ h.of \in HealthInputs /\ h.by \in WeightSettings /\ h.at \in Nat
              /\ records \in SUBSET HealthRows
          BY ConditionsType DEF HealthInv, HealthTypeInv, HealthRows
        <4>3. \A g \in records : g.at <= h.at
          BY <4>1, <4>2 DEF LatestRecord, HealthRows
        <4>4. [pc |-> "done", of |-> h.of, by |-> h.by, at |-> h.at, newest |-> records] \in ViewStates
          BY <4>2 DEF ViewStates
        <4>5. QED
          BY <4>1, <4>3, <4>4
      <3>2. CASE \E p \in {0, condition.risk} :
                   view' = [view EXCEPT ![v] = [pc |-> "weigh", risk |-> OrTenPercent(p)]]
        <4>1. PICK p \in {0, condition.risk} :
                   view' = [view EXCEPT ![v] = [pc |-> "weigh", risk |-> OrTenPercent(p)]]
          BY <3>2
        <4>2. condition.risk \in Int
          BY ConditionsType DEF HealthInv, HealthTypeInv, HealthInputs
        <4>3. [pc |-> "weigh", risk |-> OrTenPercent(p)] \in ViewStates
          BY <4>2 DEF OrTenPercent, ViewStates
        <4>4. QED
          BY <4>1, <4>3
      <3>3. QED
        BY <2>1, <3>1, <3>2 DEF BeginView
    <2>2. CASE WeighView(v)
      <3>1. view[v].pc = "weigh"
            /\ view' = [view EXCEPT ![v] = [pc |-> "compute", risk |-> view[v].risk, by |-> InForce]]
        BY <2>2 DEF WeighView
      <3>2. view[v].risk \in Int /\ InForce \in WeightSettings
        BY <3>1, InForceType DEF HealthInv, HealthTypeInv, ViewStates
      <3>3. [pc |-> "compute", risk |-> view[v].risk, by |-> InForce] \in ViewStates
        BY <3>2 DEF ViewStates
      <3>4. QED
        BY <3>1, <3>3
    <2>3. CASE ComputeView(v)
      <3> DEFINE after == [pc |-> "done", of |-> [condition EXCEPT !.risk = view[v].risk],
                           by |-> view[v].by, at |-> 0, newest |-> {}]
      <3>1. view[v].pc = "compute" /\ view' = [view EXCEPT ![v] = after]
        BY <2>3 DEF ComputeView
      <3>2. view[v].risk \in Int /\ view[v].by \in WeightSettings
        BY <3>1 DEF HealthInv, HealthTypeInv, ViewStates
      <3>3. [condition EXCEPT !.risk = view[v].risk] \in HealthInputs
        BY <3>2, ConditionsType DEF HealthInv, HealthTypeInv
      <3>4. after \in ViewStates
        BY <3>2, <3>3 DEF ViewStates
      <3>5. QED
        BY <3>1, <3>4
    <2>4. QED
      BY <2>1, <2>2, <2>3
  <1>3. QED
    BY <1>1, <1>2, HealthViewMoves

LEMMA HealthRest ==
  ASSUME HealthInv, ConditionChanges \/ UNCHANGED healthVars
  PROVE  HealthInv'
  <1>1. /\ UNCHANGED <<weights, night, records, setter, view, scorer, lastSet, mixed>>
        /\ condition' \in Conditions
    BY DEF ConditionChanges, healthVars, HealthInv, HealthTypeInv
  <1>2. QED
    BY <1>1 DEF HealthInv, HealthTypeInv, SetInv, AskedInv, NewestShown

LEMMA HealthStep == HealthInv /\ [HealthNext]_healthVars => HealthInv'
  BY HealthAssumption, HealthLoadWeights, HealthSaveWeights, HealthScorer, HealthView, HealthRest
     DEF HealthNext

LEMMA HealthMeans == HealthInv => HealthSound
  <1> SUFFICES ASSUME HealthInv PROVE HealthSound
    OBVIOUS
  <1> USE HealthAssumption
  <1>1. Whole \in Nat \ {0}
    BY DEF HealthAssumption
  <1>2. HealthTypeOK
    <2>1. Cardinality(weights) <= 1 /\ weights \subseteq WeightSettings
      <3>1. CASE weights = {}
        BY <3>1, FS_EmptySet
      <3>2. CASE weights # {}
        <4>1. PICK w \in WeightSettings : weights = {w}
          BY <3>2 DEF HealthInv, HealthTypeInv, StoredWeights
        <4>2. Cardinality({w}) = 1
          BY FS_Singleton
        <4>3. QED
          BY <4>1, <4>2
      <3>3. QED
        BY <3>1, <3>2
    <2>2. \A r \in WeightPuts : setter[r].pc \in {"new", "save", "done", "failed"}
      BY DEF HealthInv, HealthTypeInv, SetterStates
    <2>3. \A v \in Views : view[v].pc \in {"new", "weigh", "compute", "done"}
      BY DEF HealthInv, HealthTypeInv, ViewStates
    <2>4. \A h \in records : h.at \in 1 .. night /\ h.of \in SeenConditions
      BY DEF HealthInv, HealthTypeInv, HealthRows
    <2>5. QED
      BY <2>1, <2>2, <2>3, <2>4 DEF HealthInv, HealthTypeInv, HealthTypeOK, WeightSettings, SeenConditions
  <1>3. LastSettingStands
    BY DEF HealthInv, SetInv, LastSettingStands
  <1>4. ASSUME NEW h \in Scored PROVE h.of \in HealthInputs /\ h.by \in WeightSettings
    BY ConditionsType DEF Scored, HealthInv, HealthTypeInv, HealthRows, ViewStates
  <1>5. ScoreExplained
    BY <1>1, <1>4, ScoreBetween, PartsAddUp DEF ScoreExplained
  <1>6. BetterIsHealthier
    <2>1. ASSUME NEW h \in Scored,
                 NEW n \in Range(ComponentScores(h.of)) \union {Composite(h.of, h.by)}
          PROVE  n \in 0 .. 10000
      <3>1. h.of \in HealthInputs /\ h.by \in WeightSettings
        BY <1>4
      <3>2. CASE n = Composite(h.of, h.by)
        <4>1. OnScale(Composite(h.of, h.by))
          BY <1>1, <3>1, CompositeType
        <4>2. OnScale(n)
          BY <3>2, <4>1
        <4>3. QED
          BY <4>2, ScaleIs
      <3>3. CASE n \in Range(ComponentScores(h.of))
        <4>1. PICK c \in Components : n = ComponentScores(h.of)[c]
          BY <3>1, <3>3, ScoresType DEF Range
        <4>2. OnScale(n)
          BY <3>1, <4>1, ScoresType
        <4>3. QED
          BY <4>2, ScaleIs
      <3>4. QED
        BY <3>2, <3>3
    <2>2. ASSUME NEW f \in Conditions, NEW g \in Conditions,
                 f.risk <= g.risk, f.slope >= g.slope, f.failures <= g.failures,
                 f.sentiment >= g.sentiment, f.idle <= g.idle
          PROVE  Composite(f, InForce) >= Composite(g, InForce)
      <3>1. f \in HealthInputs /\ g \in HealthInputs /\ InForce \in WeightSettings
        BY ConditionsType, InForceType DEF HealthInv
      <3>2. QED
        BY <1>1, <2>2, <3>1, BetterScores
    <2>3. QED
      BY <2>1, <2>2 DEF BetterIsHealthier
  <1>7. QED
    BY <1>2, <1>3, <1>5, <1>6 DEF HealthSound, HealthInv

\* Health scores go by weights that were set, are on the scale, better for customers who are
\* better off, explained by their parts, and the newest is shown (health.py, ml/health.py).
THEOREM HealthIsSound == HealthInit /\ [][HealthNext]_healthVars => []HealthSound
  BY HealthAssumption, HealthInitially, HealthStep, HealthMeans, PTL

(***************************************************************************)
(* The expansion signal                                                    *)
(***************************************************************************)
Percents == 0 .. 100
SignalPairs == [p : Percents \union {Unpredicted}, at : Nat]
SignalAnswers ==
  [p : Percents, type : {"seat_expansion", "tier_upgrade", "addon", "cross_sell"}, failed : BOOLEAN]
WriterStates ==
  [pc : {"new"}] \union [pc : {"load"}, at : Nat] \union [pc : {"predict"}, at : Nat, was : SignalPairs]
  \union [pc : {"save"}, at : Nat, was : SignalPairs, of : Traits, answer : SignalAnswers]
  \union [pc : {"done"}, at : Nat, of : Traits, answer : SignalAnswers]

ExpansionTypeInv ==
  /\ stored \in SignalPairs /\ stamps \in Nat /\ stored.at <= stamps
  /\ writer \in [Writers -> WriterStates] /\ contended \in BOOLEAN
  /\ \A w \in Writers : writer[w].pc # "new" => writer[w].at <= stamps

UnderWayWriter(w) == writer[w].pc \in {"load", "predict", "save"}

\* A writer that was never at work with another has the last time stamp, which is not stored
\* yet, and the row as it is.
LoneWriterInv ==
  ~ contended =>
    /\ \A v, w \in Writers : UnderWayWriter(v) /\ UnderWayWriter(w) => v = w
    /\ \A w \in Writers : UnderWayWriter(w) => writer[w].at = stamps /\ stored.at < stamps
    /\ \A w \in Writers : writer[w].pc \in {"predict", "save"} => writer[w].was = stored

ExpansionInv == ExpansionTypeInv /\ LoneWriterInv /\ PairComputed /\ SeatsSuggested

\* The part of PairComputed that speaks of each writer, and the part that speaks of them all.
LEMMA PairsOfWriters ==
  ASSUME ExpansionTypeInv, ~ contended
  PROVE  PairComputed <=>
           /\ \A w \in Writers : writer[w].pc = "done" =>
                /\ writer[w].at <= stored.at
                /\ writer[w].at = stored.at => writer[w].answer.p = stored.p
           /\ (\E w \in Writers : writer[w].pc = "done") <=> stored.at # 0
  BY DEF PairComputed

LEMMA ExpansionInitially == ExpansionInit => ExpansionInv
  <1> SUFFICES ASSUME ExpansionInit PROVE ExpansionInv
    OBVIOUS
  <1>1. ExpansionTypeInv
    <2> DEFINE s == [pc |-> "new"]
    <2>1. s \in WriterStates /\ s.pc = "new"
      BY DEF WriterStates
    <2>2. writer = [w \in Writers |-> s]
      BY DEF ExpansionInit
    <2>3. writer \in [Writers -> WriterStates] /\ \A w \in Writers : writer[w].pc = "new"
      BY <2>1, <2>2
    <2>4. stored \in SignalPairs /\ stored.at = 0 /\ stamps = 0 /\ contended = FALSE
      BY DEF ExpansionInit, SignalPairs
    <2> HIDE DEF s
    <2>5. stamps \in Nat /\ stored.at <= stamps /\ contended \in BOOLEAN
      <3>1. 0 \in Nat /\ 0 <= 0
        OBVIOUS
      <3>2. QED
        BY <2>4, <3>1
    <2>6. QED
      BY <2>3, <2>4, <2>5 DEF ExpansionTypeInv
  <1>2. \A w \in Writers : writer[w].pc = "new"
    BY DEF ExpansionInit
  <1>3. stored.at = 0 /\ contended = FALSE
    BY DEF ExpansionInit
  <1>4. PairComputed
    BY <1>1, <1>2, <1>3, PairsOfWriters
  <1>5. LoneWriterInv
    BY <1>2 DEF LoneWriterInv, UnderWayWriter
  <1>6. SeatsSuggested
    BY <1>2 DEF SeatsSuggested, Writers
  <1>7. QED
    BY <1>1, <1>4, <1>5, <1>6 DEF ExpansionInv

LEMMA PercentsAre ==
  ASSUME NEW n \in Int, 5 <= n, n <= 95
  PROVE  n \in 5 .. 95 /\ n \in Percents
  BY DEF Percents

LEMMA ClampedBounds ==
  ASSUME NEW n \in Int
  PROVE  Clamped(n) \in 5 .. 95 /\ Clamped(n) \in Percents
  <1>1. Clamped(n) \in Int /\ 5 <= Clamped(n) /\ Clamped(n) <= 95
    BY DEF Clamped
  <1>2. QED
    BY <1>1, PercentsAre

\* What a writer answers is a percentage and a suggestion, which are as they should be.
LEMMA AnswersSound ==
  ASSUME ExpansionAssumption, NEW w \in Writers, NEW f \in Traits, NEW a \in Answers(w, f)
  PROVE  /\ a \in SignalAnswers
         /\ a.type = "seat_expansion" <=> f.seats > 0
         /\ w \in SignalAsks /\ a.failed => a.p \in 5 .. 95
         /\ a.type = "tier_upgrade" /\ f.premium => a.failed \/ w \notin SignalAsks
  <1>1. f.seats \in Int /\ f.slope \in Int /\ f.used \in Int /\ f.premium \in BOOLEAN
    BY DEF ExpansionAssumption
  <1>2. /\ Upsell(f) \in {"seat_expansion", "tier_upgrade", "addon", "cross_sell"}
        /\ Upsell(f) = "seat_expansion" <=> f.seats > 0
        /\ Upsell(f) = "tier_upgrade" => ~ f.premium
    BY <1>1 DEF Upsell
  <1>3. /\ UpsellWithoutModel(f) \in {"seat_expansion", "tier_upgrade"}
        /\ UpsellWithoutModel(f) = "seat_expansion" <=> f.seats > 0
    BY <1>1 DEF UpsellWithoutModel
  <1>4. Estimate(f) \in 5 .. 95 /\ Estimate(f) \in Percents
    <2>1. 20 + 20 * f.seats + (30 * f.slope) \div 100 \in Int
      BY <1>1
    <2>2. QED
      BY <2>1, ClampedBounds DEF Estimate
  <1>5. 10 \in Percents /\ Predictions \subseteq Percents
    BY DEF Percents, ExpansionAssumption
  <1>6. CASE \E p \in Predictions : a = [p |-> p, type |-> Upsell(f), failed |-> FALSE]
    BY <1>2, <1>5, <1>6 DEF SignalAnswers
  <1>7. CASE w \in SignalAsks /\ a = [p |-> Estimate(f), type |-> UpsellWithoutModel(f), failed |-> TRUE]
    BY <1>3, <1>4, <1>7 DEF SignalAnswers
  <1>8. CASE w \notin SignalAsks /\ a = [p |-> 10, type |-> Upsell(f), failed |-> TRUE]
    BY <1>2, <1>5, <1>8 DEF SignalAnswers
  <1>9. QED
    BY <1>6, <1>7, <1>8 DEF Answers

LEMMA ExpansionBegin ==
  ASSUME ExpansionInv, NEW w \in Writers, BeginSignal(w)
  PROVE  ExpansionInv'
  <1> DEFINE s == IF w \in SignalAsks THEN [pc |-> "predict", at |-> stamps + 1, was |-> stored]
                  ELSE [pc |-> "load", at |-> stamps + 1]
  <1>1. /\ stored \in SignalPairs /\ stored.at \in Nat /\ stamps \in Nat /\ stored.at <= stamps
        /\ writer \in [Writers -> WriterStates]
    BY DEF ExpansionInv, ExpansionTypeInv, SignalPairs
  <1>2. /\ s \in WriterStates /\ s.pc \in {"predict", "load"} /\ s.at = stamps + 1
        /\ s.pc = "predict" => s.was = stored
    BY <1>1 DEF WriterStates
  <1>3. /\ writer[w].pc = "new" /\ stamps' = stamps + 1 /\ writer' = [writer EXCEPT ![w] = s]
        /\ stored' = stored
        /\ contended' = (contended \/ \E v \in Writers : writer[v].pc \notin {"new", "done"})
    BY DEF BeginSignal
  <1> HIDE DEF s
  <1>4. /\ writer' \in [Writers -> WriterStates] /\ writer'[w] = s
        /\ \A v \in Writers \ {w} : writer'[v] = writer[v]
    BY <1>1, <1>2, <1>3
  <1>5. \A v \in Writers : writer[v].pc # "new" => writer[v].at \in Nat /\ writer[v].at <= stamps
    BY <1>1 DEF ExpansionInv, ExpansionTypeInv, WriterStates
  <1>6. ExpansionTypeInv'
    BY <1>1, <1>2, <1>3, <1>4, <1>5 DEF ExpansionInv, ExpansionTypeInv
  <1>7. ASSUME ~ contended'
        PROVE  ~ contended /\ \A v \in Writers : ~ UnderWayWriter(v)
    BY <1>3, <1>7 DEF UnderWayWriter
  <1>8. LoneWriterInv'
    <2> SUFFICES ASSUME ~ contended' PROVE LoneWriterInv'
      BY DEF LoneWriterInv
    <2>1. \A v \in Writers : writer'[v].pc \in {"load", "predict", "save"} => v = w
      BY <1>4, <1>7 DEF UnderWayWriter
    <2>2. writer'[w].at = stamps' /\ stored'.at < stamps'
      BY <1>1, <1>2, <1>3, <1>4
    <2>3. writer'[w].pc \in {"predict", "save"} => writer'[w].was = stored'
      BY <1>2, <1>3, <1>4
    <2>4. QED
      BY <2>1, <2>2, <2>3 DEF LoneWriterInv, UnderWayWriter
  <1>9. PairComputed'
    <2> SUFFICES ASSUME ~ contended' PROVE PairComputed'
      BY DEF PairComputed
    <2>1. \A v \in Writers : writer'[v].pc = "done" <=> writer[v].pc = "done"
      BY <1>2, <1>3, <1>4
    <2>2. \A v \in Writers : writer[v].pc = "done" => writer'[v] = writer[v]
      BY <1>3, <1>4
    <2>3. QED
      BY <1>3, <1>7, <2>1, <2>2 DEF ExpansionInv, PairComputed
  <1>10. SeatsSuggested'
    BY <1>2, <1>4 DEF ExpansionInv, SeatsSuggested, Writers
  <1>11. QED
    BY <1>6, <1>8, <1>9, <1>10 DEF ExpansionInv

\* A writer goes on, and stores nothing.
LEMMA WriterGoesOn ==
  ASSUME ExpansionInv, NEW w \in Writers, NEW s \in WriterStates,
         UnderWayWriter(w), s.pc \in {"new", "predict", "save"},
         s.pc # "new" => s.at = writer[w].at,
         s.pc # "new" /\ ~ contended => s.was = stored,
         s.pc = "save" /\ w \in SignalAsks =>
           /\ s.answer.type = "seat_expansion" <=> s.of.seats > 0
           /\ s.answer.failed => s.answer.p \in 5 .. 95
           /\ s.answer.type = "tier_upgrade" /\ s.of.premium => s.answer.failed,
         writer' = [writer EXCEPT ![w] = s], UNCHANGED <<stored, stamps, contended>>
  PROVE  ExpansionInv'
  <1>1. writer \in [Writers -> WriterStates]
    BY DEF ExpansionInv, ExpansionTypeInv
  <1>2. /\ writer' \in [Writers -> WriterStates] /\ writer'[w] = s
        /\ \A v \in Writers \ {w} : writer'[v] = writer[v]
    BY <1>1
  <1>3. writer[w].pc \notin {"new", "done"}
    BY DEF UnderWayWriter
  <1>4. ExpansionTypeInv'
    BY <1>2, <1>3 DEF ExpansionInv, ExpansionTypeInv
  <1>5. LoneWriterInv'
    BY <1>2, <1>3 DEF ExpansionInv, LoneWriterInv, UnderWayWriter
  <1>6. PairComputed'
    <2>1. \A v \in Writers : writer'[v].pc = "done" <=> writer[v].pc = "done"
      BY <1>2, <1>3
    <2>2. \A v \in Writers : writer[v].pc = "done" => writer'[v] = writer[v]
      BY <1>2, <1>3
    <2>3. QED
      BY <2>1, <2>2 DEF ExpansionInv, PairComputed
  <1>7. SeatsSuggested'
    BY <1>2 DEF ExpansionInv, SeatsSuggested, Writers
  <1>8. QED
    BY <1>4, <1>5, <1>6, <1>7 DEF ExpansionInv

LEMMA ExpansionLoads ==
  ASSUME ExpansionInv, NEW w \in Writers, LoadForNight(w)
  PROVE  ExpansionInv'
  <1> DEFINE s == [pc |-> "predict", at |-> writer[w].at, was |-> stored]
  <1>1. writer[w] \in WriterStates /\ stored \in SignalPairs /\ writer[w].pc = "load"
    BY DEF ExpansionInv, ExpansionTypeInv, LoadForNight
  <1>2. s \in WriterStates
    BY <1>1 DEF WriterStates
  <1>3. writer' = [writer EXCEPT ![w] = s] /\ UNCHANGED <<stored, stamps, contended>>
    BY DEF LoadForNight
  <1>4. s.pc = "predict" /\ s.at = writer[w].at /\ s.was = stored
    OBVIOUS
  <1> HIDE DEF s
  <1>5. QED
    BY <1>1, <1>2, <1>3, <1>4, WriterGoesOn DEF UnderWayWriter

LEMMA ExpansionForesees ==
  ASSUME ExpansionAssumption, ExpansionInv, NEW w \in Writers, Foresee(w)
  PROVE  ExpansionInv'
  <1>1. PICK f \in Traits : \E a \in Answers(w, f) :
          writer' = [writer EXCEPT ![w] = [pc |-> "save", at |-> @.at, was |-> @.was, of |-> f, answer |-> a]]
    BY DEF Foresee
  <1>2. PICK a \in Answers(w, f) :
          writer' = [writer EXCEPT ![w] = [pc |-> "save", at |-> @.at, was |-> @.was, of |-> f, answer |-> a]]
    BY <1>1
  <1> DEFINE s == [pc |-> "save", at |-> writer[w].at, was |-> writer[w].was, of |-> f, answer |-> a]
  <1>3. writer[w] \in WriterStates /\ writer[w].pc = "predict"
    BY DEF ExpansionInv, ExpansionTypeInv, Foresee
  <1>4. /\ a \in SignalAnswers
        /\ a.type = "seat_expansion" <=> f.seats > 0
        /\ w \in SignalAsks /\ a.failed => a.p \in 5 .. 95
        /\ a.type = "tier_upgrade" /\ f.premium => a.failed \/ w \notin SignalAsks
    BY AnswersSound
  <1>5. s \in WriterStates
    BY <1>3, <1>4 DEF WriterStates
  <1>6. writer' = [writer EXCEPT ![w] = s] /\ UNCHANGED <<stored, stamps, contended>>
    BY <1>2 DEF Foresee
  <1>7. /\ s.pc = "save" /\ s.at = writer[w].at /\ s.was = writer[w].was
        /\ s.of = f /\ s.answer = a
    OBVIOUS
  <1> HIDE DEF s
  <1>8. ~ contended => s.was = stored
    BY <1>3, <1>7 DEF ExpansionInv, LoneWriterInv
  <1>9. QED
    BY <1>3, <1>4, <1>5, <1>6, <1>7, <1>8, WriterGoesOn DEF UnderWayWriter

LEMMA ExpansionKilled ==
  ASSUME ExpansionInv, NEW w \in Writers, KillNight(w)
  PROVE  ExpansionInv'
  <1> DEFINE s == [pc |-> "new"]
  <1>1. s \in WriterStates /\ s.pc = "new"
    BY DEF WriterStates
  <1>2. writer' = [writer EXCEPT ![w] = s] /\ UNCHANGED <<stored, stamps, contended>> /\ UnderWayWriter(w)
    BY DEF KillNight, UnderWayWriter
  <1> HIDE DEF s
  <1>3. QED
    BY <1>1, <1>2, WriterGoesOn

LEMMA ExpansionSaves ==
  ASSUME ExpansionInv, NEW w \in Writers, SaveSignal(w)
  PROVE  ExpansionInv'
  <1> DEFINE s == [pc |-> "done", at |-> writer[w].at, of |-> writer[w].of, answer |-> writer[w].answer]
             q == IF writer[w].answer.p = writer[w].was.p THEN stored.p ELSE writer[w].answer.p
  <1>1. /\ writer[w] \in WriterStates /\ writer[w].pc = "save" /\ stored \in SignalPairs
        /\ writer \in [Writers -> WriterStates] /\ writer[w].at <= stamps /\ stamps \in Nat
    BY DEF ExpansionInv, ExpansionTypeInv, SaveSignal
  <1>2. /\ writer[w].at \in Nat /\ writer[w].of \in Traits /\ writer[w].answer \in SignalAnswers
        /\ writer[w].answer.p \in Percents /\ stored.p \in Percents \union {Unpredicted} /\ stored.at \in Nat
    BY <1>1 DEF WriterStates, SignalAnswers, SignalPairs
  <1>3. /\ s \in WriterStates /\ s.pc = "done" /\ s.at = writer[w].at
        /\ s.of = writer[w].of /\ s.answer = writer[w].answer
    BY <1>2 DEF WriterStates
  <1>4. /\ writer' = [writer EXCEPT ![w] = s] /\ UNCHANGED <<stamps, contended>>
        /\ stored' = [p |-> q, at |-> writer[w].at]
    BY DEF SaveSignal, WrittenBy
  <1>5. q \in Percents \union {Unpredicted}
    BY <1>2
  <1>6. ~ contended => q = writer[w].answer.p
    BY <1>1 DEF ExpansionInv, LoneWriterInv
  <1> HIDE DEF s, q
  <1>7. /\ stored' \in SignalPairs /\ stored'.at = writer[w].at /\ stored'.p = q
    BY <1>2, <1>4, <1>5 DEF SignalPairs
  <1>8. /\ writer' \in [Writers -> WriterStates] /\ writer'[w] = s
        /\ \A v \in Writers \ {w} : writer'[v] = writer[v]
    BY <1>1, <1>3, <1>4
  <1>9. ExpansionTypeInv'
    BY <1>1, <1>3, <1>4, <1>7, <1>8 DEF ExpansionInv, ExpansionTypeInv
  <1>10. ASSUME ~ contended
         PROVE  /\ \A v \in Writers \ {w} : ~ UnderWayWriter(v)
                /\ writer[w].at = stamps /\ stored.at < stamps
    BY <1>1, <1>10 DEF ExpansionInv, LoneWriterInv, UnderWayWriter
  <1>11. LoneWriterInv'
    <2> SUFFICES ASSUME ~ contended' PROVE LoneWriterInv'
      BY DEF LoneWriterInv
    <2>1. \A v \in Writers : writer'[v].pc \notin {"load", "predict", "save"}
      BY <1>3, <1>4, <1>8, <1>10 DEF UnderWayWriter
    <2>2. QED
      BY <2>1 DEF LoneWriterInv, UnderWayWriter
  <1>12. PairComputed'
    <2> SUFFICES ASSUME ~ contended' PROVE PairComputed'
      BY DEF PairComputed
    <2>1. ~ contended
      BY <1>4
    <2>2. \A v \in Writers : writer[v].pc = "done" => writer[v].at \in Nat /\ writer[v].at <= stored.at
      <3>1. \A v \in Writers : writer[v].pc = "done" => writer[v].at \in Nat
        BY <1>1 DEF WriterStates
      <3>2. QED
        BY <2>1, <3>1 DEF ExpansionInv, PairComputed
    <2>3. ASSUME NEW v \in Writers, writer'[v].pc = "done", v # w
          PROVE  writer'[v].at \in Nat /\ writer'[v].at < stored'.at
      BY <1>2, <1>7, <1>8, <1>10, <2>1, <2>2, <2>3
    <2>4. writer'[w].at = stored'.at /\ writer'[w].answer.p = stored'.p
      BY <1>3, <1>6, <1>7, <1>8, <2>1
    <2>5. stored'.at # 0 /\ stored'.at \in Nat /\ writer'[w].pc = "done"
      BY <1>1, <1>2, <1>3, <1>7, <1>8, <1>10, <2>1
    <2>6. \A v \in Writers : writer'[v].pc = "done" =>
             /\ writer'[v].at <= stored'.at
             /\ writer'[v].at = stored'.at => writer'[v].answer.p = stored'.p
      BY <2>3, <2>4, <2>5
    <2>7. QED
      BY <2>5, <2>6 DEF PairComputed
  <1>13. SeatsSuggested'
    <2>1. writer[w].pc = "save"
      BY <1>1
    <2>2. QED
      BY <1>3, <1>8, <2>1 DEF ExpansionInv, SeatsSuggested, Writers
  <1>14. QED
    BY <1>9, <1>11, <1>12, <1>13 DEF ExpansionInv

LEMMA ExpansionStep == ExpansionInv /\ [ExpansionNext]_expansionVars => ExpansionInv'
  <1>1. ExpansionInv /\ UNCHANGED expansionVars => ExpansionInv'
    BY DEF expansionVars, ExpansionInv, ExpansionTypeInv, LoneWriterInv, UnderWayWriter, PairComputed,
           SeatsSuggested
  <1>2. QED
    BY <1>1, ExpansionAssumption, ExpansionBegin, ExpansionLoads, ExpansionForesees, ExpansionSaves,
       ExpansionKilled DEF ExpansionNext

LEMMA ExpansionMeans == ExpansionInv => ExpansionSound
  <1> SUFFICES ASSUME ExpansionInv PROVE ExpansionSound
    OBVIOUS
  <1>1. stored.p \in 0 .. 100 \union {Unpredicted} /\ stored.at \in 0 .. stamps
    BY DEF ExpansionInv, ExpansionTypeInv, SignalPairs, Percents
  <1>2. \A w \in Writers : writer[w].pc \in {"new", "load", "predict", "save", "done"}
    BY DEF ExpansionInv, ExpansionTypeInv, WriterStates
  <1>3. QED
    BY <1>1, <1>2 DEF ExpansionInv, ExpansionSound, ExpansionTypeOK

\* The stored expansion signal is the newest one computed, probability and time together, unless
\* two writers met, and what it suggests goes by the seats (health.py:177-221, worker.py:40-120).
THEOREM ExpansionIsSound == ExpansionInit /\ [][ExpansionNext]_expansionVars => []ExpansionSound
  BY ExpansionInitially, ExpansionStep, ExpansionMeans, PTL

---------------------------------------------------------------------------
(***************************************************************************)
(* Exit surveys                                                            *)
(***************************************************************************)
SurveyRows == [by : Submissions, who : Surveyed, reason : Reasons]
SuggestedReasons == {"price", "usability"}
Judgements == [survey : SurveyRows, suggested : SuggestedReasons]
SubmitStates ==
  [pc : {"new"}]
  \union [pc : {"write"}, who : Surveyed, reason : Reasons, was : Reasons \union {NoReason}]
  \union [pc : {"done", "failed"}]
ReportStates ==
  [pc : {"new", "judge", "done"}, of : SUBSET SurveyRows, left : SUBSET SurveyRows,
   judged : SUBSET Judgements, since : Nat]

SurveyTypeInv ==
  /\ surveys \in SUBSET SurveyRows /\ IsFiniteSet(surveys)
  /\ stated \in [Leavers -> Reasons \union {NoReason}] /\ lastReason \in [Leavers -> Reasons \union {NoReason}]
  /\ portrait \in [Leavers -> {{}} \union {{f} : f \in Portraits}]
  /\ submit \in [Submissions -> SubmitStates]
  /\ validation \in [Validations -> ReportStates]
  /\ rivals \subseteq Surveyed /\ portrayed \in Nat

Submitting(r, c) == submit[r].pc = "write" /\ submit[r].who = c

\* What a submission loaded was given by a survey or by none; of a customer for whom two never
\* met, one submission is under way, and what it loaded still stands.
SubmittingInv ==
  /\ \A r \in Submissions : submit[r].pc = "write" /\ submit[r].was # NoReason =>
       \E s \in surveys : s.who = submit[r].who
  /\ \A c \in Leavers \ rivals :
       /\ \A r, q \in Submissions : Submitting(r, c) /\ Submitting(q, c) => r = q
       /\ \A r \in Submissions : Submitting(r, c) => submit[r].was = stated[c]

StatedOf(c) ==
  {s.reason : s \in {s \in surveys : s.who = c}}
  \union IF \E s \in surveys : s.who = c THEN {} ELSE {NoReason}

\* A report has judged, once each, the surveys that are not left; by the features as they are,
\* if none were stored since it began.
ReportInv(w) ==
  /\ IsFiniteSet(w.of) /\ w.left \subseteq w.of
  /\ w.pc = "new" => w.left = {} /\ w.of = {} /\ w.judged = {}
  /\ w.pc = "done" => w.left = {}
  /\ {d.survey : d \in w.judged} = w.of \ w.left
  /\ \A d, e \in w.judged : d.survey = e.survey => d = e
  /\ w.pc = "judge" => /\ w.since <= portrayed
                       /\ w.since = portrayed => \A d \in w.judged : d.suggested = SuggestedFor(d.survey.who)
  /\ w.pc = "done" =>
       \A d, e \in w.judged : d.survey.who = e.survey.who => d.suggested = e.suggested \/ w.since > 0

SurveyInv ==
  /\ SurveyTypeInv /\ SubmittingInv /\ ReasonIsStated
  /\ \A v \in Validations : ReportInv(validation[v])

LEMMA SuggestedType ==
  ASSUME SurveyAssumption, SurveyTypeInv, NEW c
  PROVE  SuggestedFor(c) \in SuggestedReasons
  <1>1. CASE c \notin Leavers \/ portrait[c] = {}
    BY <1>1 DEF SuggestedFor, SuggestedReasons
  <1>2. CASE c \in Leavers /\ portrait[c] # {}
    <2>1. PICK f \in Portraits : portrait[c] = {f}
      BY <1>2 DEF SurveyTypeInv
    <2>2. SuggestedFor(c) = Suggested(f)
      BY <1>2, <2>1 DEF SuggestedFor
    <2>3. f.tickets = 0 /\ ~ (0 > 2)
      BY DEF SurveyAssumption
    <2>4. QED
      BY <2>2, <2>3 DEF Suggested, SuggestedReasons
  <1>3. QED
    BY <1>1, <1>2

LEMMA SurveyInitially == SurveyInit => SurveyInv
  <1> SUFFICES ASSUME SurveyInit PROVE SurveyInv
    OBVIOUS
  <1>1. /\ surveys = {} /\ rivals = {} /\ portrayed = 0 /\ lastReason = stated
        /\ stated = [c \in Leavers |-> NoReason] /\ portrait = [c \in Leavers |-> {}]
        /\ \A r \in Submissions : submit[r].pc = "new"
    BY DEF SurveyInit
  <1>2. submit \in [Submissions -> SubmitStates]
    BY DEF SurveyInit, SubmitStates
  <1> DEFINE w == [pc |-> "new", of |-> {}, left |-> {}, judged |-> {}, since |-> 0]
  <1>3. w \in ReportStates /\ validation = [v \in Validations |-> w]
    BY DEF SurveyInit, ReportStates
  <1>4. ReportInv(w)
    BY FS_EmptySet DEF ReportInv
  <1> HIDE DEF w
  <1>5. SurveyTypeInv
    BY <1>1, <1>2, <1>3, FS_EmptySet DEF SurveyTypeInv
  <1>6. SubmittingInv /\ ReasonIsStated
    BY <1>1 DEF SubmittingInv, ReasonIsStated, Submitting
  <1>7. QED
    BY <1>3, <1>4, <1>5, <1>6 DEF SurveyInv

\* Reports stay as they were while no features are stored.
LEMMA ReportsRest ==
  ASSUME SurveyInv, UNCHANGED <<validation, portrait, portrayed>>
  PROVE  \A v \in Validations : ReportInv(validation[v])'
  <1> SUFFICES ASSUME NEW v \in Validations PROVE ReportInv(validation[v])'
    OBVIOUS
  <1>1. ReportInv(validation[v]) /\ validation'[v] = validation[v]
    BY DEF SurveyInv
  <1>2. QED
    BY <1>1 DEF ReportInv, SuggestedFor

LEMMA SurveyLoads ==
  ASSUME SurveyAssumption, SurveyInv, NEW r \in Submissions, LoadLeaver(r)
  PROVE  SurveyInv'
  <1>1. PICK c \in Surveyed, reason \in Reasons :
          /\ submit' = [submit EXCEPT ![r] =
               [pc |-> "write", who |-> c, reason |-> reason, was |-> IF c \in Leavers THEN stated[c] ELSE NoReason]]
          /\ rivals' = rivals \union {d \in {c} : \E q \in Submissions : submit[q].pc = "write" /\ submit[q].who = c}
    BY DEF LoadLeaver
  <1>2. /\ submit[r].pc = "new"
        /\ UNCHANGED <<surveys, stated, portrait, validation, lastReason, portrayed>>
    BY DEF LoadLeaver
  <1> DEFINE statedThen == IF c \in Leavers THEN stated[c] ELSE NoReason
             s == [pc |-> "write", who |-> c, reason |-> reason, was |-> statedThen]
  <1>3. /\ s \in SubmitStates /\ s.pc = "write" /\ s.who = c
        /\ (c \in Leavers => s.was = stated[c]) /\ (c \notin Leavers => s.was = NoReason)
    BY DEF SurveyInv, SurveyTypeInv, SubmitStates
  <1>4. submit' = [submit EXCEPT ![r] = s]
    BY <1>1
  <1> HIDE DEF s
  <1>5. /\ submit' \in [Submissions -> SubmitStates] /\ submit'[r] = s
        /\ \A q \in Submissions \ {r} : submit'[q] = submit[q]
    BY <1>3, <1>4 DEF SurveyInv, SurveyTypeInv
  <1>6. SurveyTypeInv'
    BY <1>1, <1>2, <1>5 DEF SurveyInv, SurveyTypeInv
  <1>7. c \notin rivals' => \A q \in Submissions : ~ Submitting(q, c)
    BY <1>1 DEF Submitting
  <1>8. SubmittingInv'
    <2>1. c \in Leavers /\ stated[c] # NoReason => \E t \in surveys : t.who = c
      BY DEF SurveyInv, ReasonIsStated, SurveyTypeInv
    <2>2. \A q \in Submissions : submit'[q].pc = "write" /\ submit'[q].was # NoReason =>
            \E t \in surveys' : t.who = submit'[q].who
      BY <1>2, <1>3, <1>5, <2>1 DEF SurveyInv, SubmittingInv
    <2>3. ASSUME NEW d \in Leavers \ rivals', NEW q \in Submissions, Submitting(q, d)'
          PROVE  /\ submit'[q].was = stated'[d]
                 /\ d = c => q = r
                 /\ d # c => q # r /\ Submitting(q, d)
      <3>1. d \in Leavers \ rivals
        BY <1>1
      <3>2. CASE q = r
        BY <1>2, <1>3, <1>5, <2>3, <3>2 DEF Submitting
      <3>3. CASE q # r
        <4>1. Submitting(q, d)
          BY <1>5, <2>3, <3>3 DEF Submitting
        <4>2. d # c
          BY <1>7, <4>1
        <4>3. QED
          BY <1>2, <1>5, <3>1, <3>3, <4>1, <4>2 DEF SurveyInv, SubmittingInv
      <3>4. QED
        BY <3>2, <3>3
    <2>4. ASSUME NEW d \in Leavers \ rivals', NEW q \in Submissions, NEW p \in Submissions,
                 Submitting(q, d)', Submitting(p, d)'
          PROVE  p = q
      BY <1>1, <2>3, <2>4 DEF SurveyInv, SubmittingInv
    <2>5. QED
      BY <2>2, <2>3, <2>4 DEF SubmittingInv
  <1>9. ReasonIsStated'
    BY <1>1, <1>2 DEF SurveyInv, ReasonIsStated
  <1>10. \A v \in Validations : ReportInv(validation[v])'
    BY <1>2, ReportsRest
  <1>11. QED
    BY <1>6, <1>8, <1>9, <1>10 DEF SurveyInv

LEMMA SurveyRefused ==
  ASSUME SurveyAssumption, SurveyInv, NEW r \in Submissions, LoadNobody(r)
  PROVE  SurveyInv'
  <1>1. /\ submit' = [submit EXCEPT ![r] = [pc |-> "failed"]]
        /\ UNCHANGED <<surveys, stated, portrait, validation, lastReason, rivals, portrayed>>
    BY DEF LoadNobody
  <1>2. /\ submit' \in [Submissions -> SubmitStates] /\ submit'[r].pc = "failed"
        /\ \A q \in Submissions \ {r} : submit'[q] = submit[q]
    BY <1>1 DEF SurveyInv, SurveyTypeInv, SubmitStates
  <1>3. SurveyTypeInv' /\ ReasonIsStated'
    BY <1>1, <1>2 DEF SurveyInv, SurveyTypeInv, ReasonIsStated
  <1>4. SubmittingInv'
    <2>1. \A q \in Submissions, d \in Leavers : Submitting(q, d)' => Submitting(q, d) /\ submit'[q] = submit[q]
      BY <1>2 DEF Submitting
    <2>2. \A q \in Submissions : submit'[q].pc = "write" => submit'[q] = submit[q]
      BY <1>2
    <2>3. QED
      BY <1>1, <2>1, <2>2 DEF SurveyInv, SubmittingInv
  <1>5. \A v \in Validations : ReportInv(validation[v])'
    BY <1>1, ReportsRest
  <1>6. QED
    BY <1>3, <1>4, <1>5 DEF SurveyInv

LEMMA SurveySubmits ==
  ASSUME SurveyAssumption, SurveyInv, NEW r \in Submissions, SubmitSurvey(r)
  PROVE  SurveyInv'
  <1> DEFINE c == submit[r].who
             reason == submit[r].reason
             row == [by |-> r, who |-> c, reason |-> reason]
             kept == Restated(stated[c], submit[r].was, reason)
  <1>1. /\ submit[r].pc = "write" /\ c \in Surveyed /\ reason \in Reasons
        /\ submit[r].was \in Reasons \union {NoReason} /\ reason # NoReason
    BY DEF SubmitSurvey, SurveyInv, SurveyTypeInv, SubmitStates, SurveyAssumption
  <1>2. /\ surveys' = surveys \union {row}
        /\ stated' = [d \in Leavers |-> IF d = c THEN kept ELSE stated[d]]
        /\ lastReason' = [d \in Leavers |-> IF d = c THEN reason ELSE lastReason[d]]
        /\ submit' = [submit EXCEPT ![r] = [pc |-> "done"]]
        /\ UNCHANGED <<portrait, validation, rivals, portrayed>>
    BY DEF SubmitSurvey
  <1>3. row \in SurveyRows /\ row.who = c /\ row.reason = reason
    BY <1>1 DEF SurveyRows
  <1>4. kept = reason \/ (kept = stated[c] /\ reason = submit[r].was)
    BY DEF Restated
  <1>5. Submitting(r, c)
    BY <1>1 DEF Submitting
  <1> HIDE DEF c, reason, row, kept
  <1>6. /\ submit' \in [Submissions -> SubmitStates] /\ submit'[r].pc = "done"
        /\ \A q \in Submissions \ {r} : submit'[q] = submit[q]
    BY <1>2 DEF SurveyInv, SurveyTypeInv, SubmitStates
  <1>7. /\ stated \in [Leavers -> Reasons \union {NoReason}]
        /\ lastReason \in [Leavers -> Reasons \union {NoReason}]
        /\ c \in Leavers => stated'[c] = kept /\ lastReason'[c] = reason
        /\ \A d \in Leavers \ {c} : stated'[d] = stated[d] /\ lastReason'[d] = lastReason[d]
    BY <1>2 DEF SurveyInv, SurveyTypeInv
  <1>8. c \in Leavers => stated[c] \in Reasons \union {NoReason}
    BY <1>7
  <1>9. SurveyTypeInv'
    <2>1. c \in Leavers => kept \in Reasons \union {NoReason}
      BY <1>1, <1>4, <1>8
    <2>2. stated' \in [Leavers -> Reasons \union {NoReason}] /\ lastReason' \in [Leavers -> Reasons \union {NoReason}]
      BY <1>1, <1>2, <1>7, <2>1
    <2>3. IsFiniteSet(surveys') /\ surveys' \in SUBSET SurveyRows
      BY <1>2, <1>3, FS_AddElement DEF SurveyInv, SurveyTypeInv
    <2>4. QED
      BY <1>2, <1>6, <2>2, <2>3 DEF SurveyInv, SurveyTypeInv
  <1>10. SubmittingInv'
    <2>1. \A q \in Submissions, d \in Leavers : Submitting(q, d)' => Submitting(q, d) /\ q # r
      BY <1>6 DEF Submitting
    <2>2. \A q \in Submissions : submit'[q].pc = "write" /\ submit'[q].was # NoReason =>
            \E t \in surveys' : t.who = submit'[q].who
      BY <1>2, <1>6 DEF SurveyInv, SubmittingInv
    <2>3. ASSUME NEW d \in Leavers \ rivals', NEW q \in Submissions, Submitting(q, d)'
          PROVE  submit'[q].was = stated'[d]
      <3>1. d \in Leavers \ rivals /\ Submitting(q, d) /\ q # r
        BY <1>2, <2>1, <2>3
      <3>2. d # c
        BY <1>5, <3>1 DEF SurveyInv, SubmittingInv
      <3>3. QED
        BY <1>6, <1>7, <3>1, <3>2 DEF SurveyInv, SubmittingInv
    <2>4. ASSUME NEW d \in Leavers \ rivals', NEW q \in Submissions, NEW p \in Submissions,
                 Submitting(q, d)', Submitting(p, d)'
          PROVE  p = q
      BY <1>2, <2>1, <2>4 DEF SurveyInv, SubmittingInv
    <2>5. QED
      BY <2>2, <2>3, <2>4 DEF SubmittingInv
  <1>11. ASSUME NEW d \in Leavers
         PROVE  /\ \/ \E s \in surveys' : s.who = d /\ s.reason = stated'[d]
                   \/ (~ \E s \in surveys' : s.who = d) /\ stated'[d] = NoReason
                /\ stated'[d] = lastReason'[d] \/ d \in rivals'
    <2>1. /\ \/ \E s \in surveys : s.who = d /\ s.reason = stated[d]
             \/ (~ \E s \in surveys : s.who = d) /\ stated[d] = NoReason
          /\ stated[d] = lastReason[d] \/ d \in rivals
      BY DEF SurveyInv, ReasonIsStated
    <2>2. CASE d # c
      BY <1>2, <1>3, <1>7, <2>1, <2>2
    <2>3. CASE d = c
      <3>1. \E s \in surveys' : s.who = d /\ s.reason = stated'[d]
        <4>1. CASE kept = reason
          BY <1>2, <1>3, <1>7, <2>3, <4>1
        <4>2. CASE kept = stated[c] /\ reason = submit[r].was
          <5>1. \E t \in surveys : t.who = c
            BY <1>1, <4>2 DEF SurveyInv, SubmittingInv, c
          <5>2. QED
            BY <1>2, <1>7, <2>1, <2>3, <4>2, <5>1
        <4>3. QED
          BY <1>4, <4>1, <4>2
      <3>2. d \notin rivals => stated'[d] = lastReason'[d]
        <4>1. d \notin rivals => submit[r].was = stated[c]
          BY <1>1, <1>5, <2>3 DEF SurveyInv, SubmittingInv
        <4>2. QED
          BY <1>4, <1>7, <2>3, <4>1
      <3>3. QED
        BY <1>2, <3>1, <3>2
    <2>4. QED
      BY <2>2, <2>3
  <1>12. ReasonIsStated'
    <2>1. ASSUME NEW d \in Leavers
          PROVE  stated'[d] \in {s.reason : s \in {s \in surveys' : s.who = d}}
                   \union IF \E s \in surveys' : s.who = d THEN {} ELSE {NoReason}
      BY <1>11
    <2>2. QED
      BY <1>11, <2>1 DEF ReasonIsStated
  <1>13. \A v \in Validations : ReportInv(validation[v])'
    BY <1>2, ReportsRest
  <1>14. QED
    BY <1>9, <1>10, <1>12, <1>13 DEF SurveyInv

LEMMA SurveyPortrait ==
  ASSUME SurveyAssumption, SurveyInv, NEW c \in Leavers, StorePortrait(c)
  PROVE  SurveyInv'
  <1>1. /\ portrayed' = portrayed + 1 /\ portrayed \in Nat
        /\ UNCHANGED <<surveys, stated, submit, validation, lastReason, rivals>>
        /\ \E f \in Portraits : portrait' = [portrait EXCEPT ![c] = {f}]
    BY DEF StorePortrait, SurveyInv, SurveyTypeInv
  <1>2. SurveyTypeInv' /\ SubmittingInv' /\ ReasonIsStated'
    BY <1>1 DEF SurveyInv, SurveyTypeInv, SubmittingInv, ReasonIsStated, Submitting
  <1>3. ASSUME NEW v \in Validations
        PROVE  ReportInv(validation[v])'
    <2>1. ReportInv(validation[v]) /\ validation[v].since \in Nat /\ validation'[v] = validation[v]
      BY <1>1 DEF SurveyInv, SurveyTypeInv, ReportStates
    <2>2. validation[v].since <= portrayed => validation[v].since <= portrayed' /\ validation[v].since # portrayed'
      BY <1>1, <2>1
    <2>3. QED
      BY <2>1, <2>2 DEF ReportInv
  <1>4. QED
    BY <1>2, <1>3 DEF SurveyInv

LEMMA SurveyLists ==
  ASSUME SurveyAssumption, SurveyInv, NEW v \in Validations, ListSurveys(v)
  PROVE  SurveyInv'
  <1> DEFINE w == [pc |-> IF surveys = {} THEN "done" ELSE "judge", of |-> surveys, left |-> surveys,
                   judged |-> {}, since |-> portrayed]
  <1>1. /\ validation' = [validation EXCEPT ![v] = w]
        /\ UNCHANGED <<surveys, stated, portrait, submit, lastReason, rivals, portrayed>>
    BY DEF ListSurveys
  <1>2. w \in ReportStates
    BY DEF SurveyInv, SurveyTypeInv, ReportStates
  <1>3. ReportInv(w)
    BY DEF ReportInv, SurveyInv, SurveyTypeInv
  <1> HIDE DEF w
  <1>4. /\ validation' \in [Validations -> ReportStates]
        /\ \A u \in Validations : validation'[u] = w \/ validation'[u] = validation[u]
    BY <1>1, <1>2 DEF SurveyInv, SurveyTypeInv
  <1>5. SurveyTypeInv' /\ SubmittingInv' /\ ReasonIsStated'
    BY <1>1, <1>4 DEF SurveyInv, SurveyTypeInv, SubmittingInv, ReasonIsStated, Submitting
  <1>6. \A u \in Validations : ReportInv(validation'[u])
    BY <1>3, <1>4 DEF SurveyInv
  <1>7. ASSUME NEW u \in Validations PROVE ReportInv(validation[u])'
    <2>1. ReportInv(validation'[u])
      BY <1>6
    <2>2. PICK n : n = validation'[u]
      OBVIOUS
    <2>3. (\A d \in n.judged : d.suggested = SuggestedFor(d.survey.who))
            => \A d \in n.judged : d.suggested = SuggestedFor(d.survey.who)'
      BY <1>1 DEF SuggestedFor
    <2>4. QED
      BY <1>1, <2>1, <2>2, <2>3 DEF ReportInv
  <1>8. QED
    BY <1>5, <1>7 DEF SurveyInv

LEMMA FurtherSound ==
  ASSUME SurveyAssumption, SurveyInv, NEW w \in ReportStates, ReportInv(w), NEW s \in w.left, w.pc = "judge"
  PROVE  Further(w, s) \in ReportStates /\ ReportInv(Further(w, s))
  <1> DEFINE j == [survey |-> s, suggested |-> SuggestedFor(s.who)]
             u == Further(w, s)
             last == w.left = {s}
  <1>1. w.of \in SUBSET SurveyRows /\ w.left \in SUBSET SurveyRows /\ w.judged \in SUBSET Judgements /\ w.since \in Nat
    BY DEF ReportStates
  <1>2. s \in SurveyRows
    BY <1>1
  <1>3. j \in Judgements /\ j.survey = s /\ j.suggested = SuggestedFor(s.who)
    BY <1>2, SuggestedType DEF SurveyInv, Judgements
  <1>4. /\ u.pc = IF last THEN "done" ELSE "judge"
        /\ u.of = w.of /\ u.left = w.left \ {s} /\ u.judged = w.judged \union {j}
        /\ u.since = IF last THEN portrayed - w.since ELSE w.since
    BY DEF Further, Judged
  <1>5. portrayed \in Nat /\ w.since <= portrayed /\ portrayed - w.since \in Nat
    BY <1>1 DEF ReportInv, SurveyInv, SurveyTypeInv
  <1>6. u \in ReportStates
    <2>1. u = [pc |-> u.pc, of |-> u.of, left |-> u.left, judged |-> u.judged, since |-> u.since]
      BY DEF Further
    <2>2. u.pc \in {"new", "judge", "done"} /\ u.of \in SUBSET SurveyRows /\ u.left \in SUBSET SurveyRows
      BY <1>1, <1>4
    <2>3. u.judged \in SUBSET Judgements /\ u.since \in Nat
      BY <1>1, <1>3, <1>4, <1>5
    <2> HIDE DEF u
    <2>4. QED
      BY <2>1, <2>2, <2>3 DEF ReportStates
  <1> HIDE DEF u, j
  <1>7. s \notin {d.survey : d \in w.judged} /\ s \in w.of
    BY DEF ReportInv
  <1>8. {d.survey : d \in u.judged} = u.of \ u.left
    <2>1. {d.survey : d \in w.judged \union {j}} = {d.survey : d \in w.judged} \union {s}
      BY <1>3
    <2>2. QED
      BY <1>4, <1>7, <2>1 DEF ReportInv
  <1>9. \A d, e \in u.judged : d.survey = e.survey => d = e
    BY <1>3, <1>4, <1>7 DEF ReportInv
  <1>10. w.since = portrayed => \A d \in u.judged : d.suggested = SuggestedFor(d.survey.who)
    BY <1>3, <1>4 DEF ReportInv
  <1>11. last /\ w.since # portrayed => portrayed - w.since > 0
    BY <1>1, <1>5
  <1>12. last => u.left = {}
    BY <1>4
  <1>13. u.pc = "done" =>
           \A d, e \in u.judged : d.survey.who = e.survey.who => d.suggested = e.suggested \/ u.since > 0
    BY <1>4, <1>10, <1>11
  <1>14. u.pc = "judge" => u.since = w.since
    BY <1>4
  <1>15. /\ IsFiniteSet(u.of) /\ u.left \subseteq u.of /\ (u.pc = "done" => u.left = {}) /\ u.pc # "new"
    BY <1>4, <1>12 DEF ReportInv
  <1>16. ReportInv(u)
    BY <1>5, <1>8, <1>9, <1>10, <1>13, <1>14, <1>15 DEF ReportInv
  <1>17. QED
    BY <1>6, <1>16 DEF u

LEMMA SurveyJudges ==
  ASSUME SurveyAssumption, SurveyInv, NEW v \in Validations, NEW s \in validation[v].left, JudgeSurvey(v, s)
  PROVE  SurveyInv'
  <1>1. /\ validation[v].pc = "judge" /\ validation[v] \in ReportStates /\ ReportInv(validation[v])
        /\ validation' = [validation EXCEPT ![v] = Further(validation[v], s)]
        /\ UNCHANGED <<surveys, stated, portrait, submit, lastReason, rivals, portrayed>>
    BY DEF JudgeSurvey, SurveyInv, SurveyTypeInv
  <1>2. PICK w : w = Further(validation[v], s)
    OBVIOUS
  <1>3. w \in ReportStates /\ ReportInv(w)
    BY <1>1, <1>2, FurtherSound
  <1>4. /\ validation' \in [Validations -> ReportStates]
        /\ \A u \in Validations : validation'[u] = w \/ validation'[u] = validation[u]
    BY <1>1, <1>2, <1>3 DEF SurveyInv, SurveyTypeInv
  <1>5. SurveyTypeInv' /\ SubmittingInv' /\ ReasonIsStated'
    BY <1>1, <1>4 DEF SurveyInv, SurveyTypeInv, SubmittingInv, ReasonIsStated, Submitting
  <1>6. \A u \in Validations : ReportInv(validation'[u])
    BY <1>3, <1>4 DEF SurveyInv
  <1>7. ASSUME NEW u \in Validations PROVE ReportInv(validation[u])'
    <2>1. ReportInv(validation'[u])
      BY <1>6
    <2>2. PICK n : n = validation'[u]
      OBVIOUS
    <2>3. (\A d \in n.judged : d.suggested = SuggestedFor(d.survey.who))
            => \A d \in n.judged : d.suggested = SuggestedFor(d.survey.who)'
      BY <1>1 DEF SuggestedFor
    <2>4. QED
      BY <1>1, <2>1, <2>2, <2>3 DEF ReportInv
  <1>8. QED
    BY <1>5, <1>7 DEF SurveyInv

LEMMA SurveyStep == SurveyAssumption /\ SurveyInv /\ [SurveyNext]_surveyVars => SurveyInv'
  <1>1. SurveyInv /\ UNCHANGED surveyVars => SurveyInv'
    <2> SUFFICES ASSUME SurveyInv, UNCHANGED surveyVars PROVE SurveyInv'
      OBVIOUS
    <2>1. UNCHANGED <<surveys, stated, portrait, submit, validation, lastReason, rivals, portrayed>>
      BY DEF surveyVars
    <2>2. SurveyTypeInv' /\ SubmittingInv' /\ ReasonIsStated'
      BY <2>1 DEF SurveyInv, SurveyTypeInv, SubmittingInv, ReasonIsStated, Submitting
    <2>3. QED
      BY <2>1, <2>2, ReportsRest DEF SurveyInv
  <1>2. QED
    BY <1>1, SurveyLoads, SurveyRefused, SurveySubmits, SurveyPortrait, SurveyLists, SurveyJudges DEF SurveyNext

LEMMA SurveyMeans == SurveyAssumption /\ SurveyInv => SurveysSound
  <1> SUFFICES ASSUME SurveyAssumption, SurveyInv PROVE SurveysSound
    OBVIOUS
  <1>1. SurveyTypeOK
    <2>1. ASSUME NEW c \in Leavers
          PROVE  portrait[c] \subseteq Portraits /\ Cardinality(portrait[c]) <= 1
      <3>1. CASE portrait[c] = {}
        BY <3>1, FS_EmptySet
      <3>2. CASE portrait[c] # {}
        <4>1. PICK f \in Portraits : portrait[c] = {f}
          BY <3>2 DEF SurveyInv, SurveyTypeInv
        <4>2. Cardinality({f}) = 1
          BY FS_Singleton
        <4>3. QED
          BY <4>1, <4>2
      <3>3. QED
        BY <3>1, <3>2
    <2>2. \A r \in Submissions : submit[r].pc \in {"new", "write", "done", "failed"}
      BY DEF SurveyInv, SurveyTypeInv, SubmitStates
    <2>3. \A v \in Validations : validation[v].pc \in {"new", "judge", "done"}
      BY DEF SurveyInv, SurveyTypeInv, ReportStates
    <2>4. \A s \in surveys : s.by \in Submissions /\ s.who \in Surveyed /\ s.reason \in Reasons
      BY DEF SurveyInv, SurveyTypeInv, SurveyRows
    <2>5. QED
      BY <2>1, <2>2, <2>3, <2>4 DEF SurveyInv, SurveyTypeInv, SurveyTypeOK
  <1>2. ReportWhole
    <2> SUFFICES ASSUME NEW v \in Validations, validation[v].pc = "done"
                 PROVE  /\ {d.survey : d \in validation[v].judged} = validation[v].of
                        /\ Cardinality(validation[v].judged) = Cardinality(validation[v].of)
                        /\ \A d, e \in validation[v].judged :
                             d.survey.who = e.survey.who => d.suggested = e.suggested \/ validation[v].since > 0
                        /\ {d.survey.reason : d \in Agreeing(v)} \subseteq {"price", "usability"}
      BY DEF ReportWhole
    <2> DEFINE J == validation[v].judged
               S == validation[v].of
    <2>1. /\ IsFiniteSet(S) /\ J \subseteq Judgements
          /\ {d.survey : d \in J} = S /\ \A d, e \in J : d.survey = e.survey => d = e
          /\ \A d, e \in J : d.survey.who = e.survey.who => d.suggested = e.suggested \/ validation[v].since > 0
      <3>1. validation[v] \in ReportStates /\ ReportInv(validation[v])
        BY DEF SurveyInv, SurveyTypeInv
      <3>2. QED
        BY <3>1 DEF ReportInv, ReportStates
    <2>2. {d.survey.reason : d \in Agreeing(v)} \subseteq {"price", "usability"}
      BY <2>1 DEF Agreeing, Judgements, SuggestedReasons
    <2> HIDE DEF J, S
    <2>3. Cardinality(J) = Cardinality(S)
      <3> DEFINE f == [d \in J |-> d.survey]
      <3>1. f \in Injection(J, S)
        BY <2>1 DEF Injection, IsInjective
      <3>2. f \in Surjection(J, S)
        BY <2>1 DEF Surjection
      <3>3. QED
        BY <2>1, <3>1, <3>2, FS_Injection
    <2>4. QED
      BY <2>1, <2>2, <2>3 DEF J, S
  <1>3. QED
    BY <1>1, <1>2 DEF SurveysSound, SurveyInv

\* A customer's stated reason is one that a survey gave, and the last one's, unless two were
\* submitted at once; a report judges every survey once (surveys/engine.py, attribution.py:141-216).
THEOREM SurveysAreSound == SurveyInit /\ [][SurveyNext]_surveyVars => []SurveysSound
  BY SurveyAssumption, SurveyInitially, SurveyStep, SurveyMeans, PTL

---------------------------------------------------------------------------
(***************************************************************************)
(* Contracts and renewals                                                  *)
(***************************************************************************)
ContractRows == [by : Upserts, client : Clients, day : RenewalDays, amount : Nat]
ContractTerms == [day : RenewalDays, amount : Nat]
UpsertStates ==
  [pc : {"new"}]
  \union [pc : {"write"}, client : Clients, day : RenewalDays, amount : Amounts \union {NoAmount},
          was : {{}} \union {{k} : k \in ContractRows}]
  \union [pc : {"done"}]

TermsOf(k) == [day |-> k.day, amount |-> k.amount]
OwnContracts(c) == {k \in contracts : k.client = c}
SavingFor(u, c) == upsert[u].pc = "write" /\ upsert[u].client = c

RenewalTypeInv ==
  /\ contracts \subseteq ContractRows
  /\ risk \in [Clients -> Risks]
  /\ upsert \in [Upserts -> UpsertStates]
  /\ wanted \in [Clients -> {{}} \union {{t} : t \in ContractTerms}]
  /\ twins \subseteq Clients

\* A request inserts one row; a row that one has loaded is there, of the customer it is about.
RowsInv ==
  /\ \A k, l \in contracts : k.by = l.by => k = l
  /\ \A k \in contracts : upsert[k.by].pc = "done"
  /\ \A u \in Upserts : upsert[u].pc = "write" =>
       \A w \in upsert[u].was : /\ w.client = upsert[u].client
                                /\ \E k \in contracts : k.by = w.by /\ k.client = w.client

\* Of a customer for whom two never met there is one contract, with the terms of the last
\* request, and one request under way, which has loaded that contract.
OneContract(c) ==
  /\ \A k, l \in contracts : k.client = c /\ l.client = c => k = l
  /\ wanted[c] = {TermsOf(k) : k \in OwnContracts(c)}
  /\ \A u, q \in Upserts : SavingFor(u, c) /\ SavingFor(q, c) => u = q
  /\ \A u \in Upserts : SavingFor(u, c) => upsert[u].was = OwnContracts(c)

ListInv(w) ==
  /\ w.pc \in {"new", "join", "done"} /\ w.window \subseteq ContractRows
  /\ \A k \in w.left : k \in w.window /\ Due(k)
  /\ w.pc = "done" => w.left = {}
  /\ {i.contract : i \in w.items} = {k \in w.window : Due(k)} \ w.left
  /\ \A i, j \in w.items : i.contract = j.contract => i = j
  /\ \A k, l \in w.window : k.client = l.client => k = l \/ k.client \in twins
  /\ \A i \in w.items : i.risk \in Nat /\ i.urgency = Urgency(i.contract, i.risk)

RenewalInv ==
  /\ RenewalTypeInv /\ RowsInv /\ (\A c \in Clients \ twins : OneContract(c))
  /\ list = [v \in Lists |-> list[v]] /\ \A v \in Lists : ListInv(list[v])

LEMMA RenewalTypes ==
  ASSUME RenewalAssumption, NEW k \in ContractRows
  PROVE  k.day \in Int /\ k.amount \in Nat /\ k.client \in Clients /\ k.by \in Upserts
  BY DEF RenewalAssumption, ContractRows

LEMMA RenewalInitially == RenewalAssumption /\ RenewalInit => RenewalInv
  <1> SUFFICES ASSUME RenewalAssumption, RenewalInit PROVE RenewalInv
    OBVIOUS
  <1>1. /\ contracts = {} /\ twins = {} /\ wanted = [c \in Clients |-> {}] /\ risk \in [Clients -> Risks]
        /\ list = [v \in Lists |-> [pc |-> "new", left |-> {}, items |-> {}, window |-> {}]]
        /\ \A u \in Upserts : upsert[u].pc = "new"
    BY DEF RenewalInit
  <1>2. upsert \in [Upserts -> UpsertStates]
    BY DEF RenewalInit, UpsertStates
  <1>3. RenewalTypeInv
    BY <1>1, <1>2 DEF RenewalTypeInv
  <1>4. RowsInv
    BY <1>1 DEF RowsInv
  <1>5. \A c \in Clients : OneContract(c)
    BY <1>1 DEF OneContract, OwnContracts, SavingFor
  <1>6. \A v \in Lists : ListInv(list[v])
    BY <1>1 DEF ListInv
  <1>7. QED
    BY <1>1, <1>3, <1>4, <1>5, <1>6 DEF RenewalInv

LEMMA ListsRest ==
  ASSUME RenewalInv, UNCHANGED list, twins \subseteq twins'
  PROVE  list' = [v \in Lists |-> list'[v]] /\ \A v \in Lists : ListInv(list[v])'
  <1>1. list' = [v \in Lists |-> list'[v]]
    BY DEF RenewalInv
  <1>2. ASSUME NEW v \in Lists PROVE ListInv(list[v])'
    <2>1. ListInv(list[v]) /\ list'[v] = list[v]
      BY DEF RenewalInv
    <2>2. QED
      BY <2>1 DEF ListInv
  <1>3. QED
    BY <1>1, <1>2

LEMMA RenewalFinds ==
  ASSUME RenewalAssumption, RenewalInv, NEW u \in Upserts, FindContract(u)
  PROVE  RenewalInv'
  <1>1. PICK c \in Clients, on \in RenewalDays, amount \in Amounts \union {NoAmount} :
          /\ \E was \in IF ContractOf(c, on) = {} THEN {{}} ELSE {{k} : k \in ContractOf(c, on)} :
               upsert' = [upsert EXCEPT ![u] =
                 [pc |-> "write", client |-> c, day |-> on, amount |-> amount, was |-> was]]
          /\ twins' = twins \union (IF Saving(c) = {} THEN {} ELSE {c})
    BY DEF FindContract
  <1>2. PICK was \in IF OwnContracts(c) = {} THEN {{}} ELSE {{k} : k \in OwnContracts(c)} :
          upsert' = [upsert EXCEPT ![u] =
            [pc |-> "write", client |-> c, day |-> on, amount |-> amount, was |-> was]]
    BY <1>1 DEF ContractOf, OwnContracts
  <1>3. upsert[u].pc = "new" /\ UNCHANGED <<contracts, risk, list, wanted, riskChanges>>
    BY DEF FindContract
  <1> DEFINE s == [pc |-> "write", client |-> c, day |-> on, amount |-> amount, was |-> was]
  <1>4. was \in {{}} \union {{k} : k \in ContractRows} /\ was \subseteq OwnContracts(c)
    <2>1. CASE OwnContracts(c) = {}
      BY <1>2, <2>1
    <2>2. CASE OwnContracts(c) # {}
      <3>1. PICK k \in OwnContracts(c) : was = {k}
        BY <1>2, <2>2
      <3>2. k \in ContractRows
        BY DEF OwnContracts, RenewalInv, RenewalTypeInv
      <3>3. QED
        BY <3>1, <3>2
    <2>3. QED
      BY <2>1, <2>2
  <1>5. s \in UpsertStates /\ s.pc = "write" /\ s.client = c /\ s.was = was
    BY <1>4 DEF UpsertStates
  <1>6. upsert' = [upsert EXCEPT ![u] = s]
    BY <1>2
  <1> HIDE DEF s
  <1>7. /\ upsert' \in [Upserts -> UpsertStates] /\ upsert'[u] = s
        /\ \A q \in Upserts \ {u} : upsert'[q] = upsert[q]
    BY <1>5, <1>6 DEF RenewalInv, RenewalTypeInv
  <1>8. twins \subseteq twins' /\ twins' \subseteq Clients
    BY <1>1 DEF RenewalInv, RenewalTypeInv
  <1>9. RenewalTypeInv'
    BY <1>3, <1>7, <1>8 DEF RenewalInv, RenewalTypeInv
  <1>10. RowsInv'
    <2>1. \A k \in contracts : k.by \in Upserts /\ k.by # u
      BY <1>3 DEF RenewalInv, RenewalTypeInv, RowsInv, ContractRows
    <2>2. \A w \in s.was : w.client = s.client /\ w \in contracts
      BY <1>4, <1>5 DEF OwnContracts
    <2>3. \A q \in Upserts : upsert'[q].pc = "write" =>
            \A w \in upsert'[q].was : /\ w.client = upsert'[q].client
                                      /\ \E k \in contracts : k.by = w.by /\ k.client = w.client
      BY <1>7, <2>2 DEF RenewalInv, RowsInv
    <2>4. QED
      BY <1>3, <1>7, <2>1, <2>3 DEF RenewalInv, RowsInv
  <1>11. ASSUME NEW d \in Clients \ twins' PROVE OneContract(d)'
    <2>1. d \in Clients \ twins /\ OneContract(d)
      BY <1>8 DEF RenewalInv
    <2>2. /\ \A k, l \in contracts : k.client = d /\ l.client = d => k = l
          /\ wanted[d] = {TermsOf(k) : k \in OwnContracts(d)}
          /\ \A q, p \in Upserts : SavingFor(q, d) /\ SavingFor(p, d) => q = p
          /\ \A q \in Upserts : SavingFor(q, d) => upsert[q].was = OwnContracts(d)
      BY <2>1 DEF OneContract
    <2>3. OwnContracts(d)' = OwnContracts(d)
      BY <1>3 DEF OwnContracts
    <2>4. \A q \in Upserts \ {u} : SavingFor(q, d)' <=> SavingFor(q, d)
      BY <1>7 DEF SavingFor
    <2>5. CASE d # c
      <3>1. ~ SavingFor(u, d)'
        BY <1>5, <1>7, <2>5 DEF SavingFor
      <3>2. QED
        BY <1>3, <1>7, <2>2, <2>3, <2>4, <3>1 DEF OneContract, SavingFor, TermsOf
    <2>6. CASE d = c
      <3>1. \A q \in Upserts : ~ SavingFor(q, c)
        BY <1>1, <2>6 DEF Saving, SavingFor
      <3>2. was = OwnContracts(c)
        <4>1. CASE OwnContracts(c) = {}
          BY <1>2, <4>1
        <4>2. CASE OwnContracts(c) # {}
          <5>1. PICK k \in OwnContracts(c) : was = {k}
            BY <1>2, <4>2
          <5>2. \A l \in OwnContracts(c) : l = k
            BY <2>2, <2>6 DEF OwnContracts
          <5>3. QED
            BY <5>1, <5>2
        <4>3. QED
          BY <4>1, <4>2
      <3>3. \A q \in Upserts : SavingFor(q, d)' => q = u
        BY <2>4, <2>6, <3>1
      <3>4. upsert'[u].was = OwnContracts(d)'
        BY <1>5, <1>7, <2>3, <2>6, <3>2
      <3>5. QED
        BY <1>3, <2>2, <2>3, <3>3, <3>4 DEF OneContract, TermsOf
    <2>7. QED
      BY <2>5, <2>6
  <1>12. list' = [v \in Lists |-> list'[v]] /\ \A v \in Lists : ListInv(list[v])'
    BY <1>3, <1>8, ListsRest
  <1>13. QED
    BY <1>9, <1>10, <1>11, <1>12 DEF RenewalInv

---------------------------------------------------------------------------
\* A row that is amended keeps its number and its customer.
LEMMA AmendedIs ==
  ASSUME RenewalAssumption, NEW k \in ContractRows, NEW w \in ContractRows, NEW u \in Upserts,
         upsert[u].day \in RenewalDays, upsert[u].amount \in Amounts \union {NoAmount}
  PROVE  /\ Amended(k, w, u) \in ContractRows
         /\ Amended(k, w, u).by = k.by /\ Amended(k, w, u).client = k.client
         /\ k = w => /\ Amended(k, w, u).day = upsert[u].day
                     /\ Amended(k, w, u).amount = IF upsert[u].amount = NoAmount THEN w.amount ELSE upsert[u].amount
  <1> DEFINE on == IF upsert[u].day = w.day THEN k.day ELSE upsert[u].day
             sum == IF Agreed(upsert[u].amount, w.amount) = w.amount THEN k.amount
                       ELSE Agreed(upsert[u].amount, w.amount)
  <1>1. Agreed(upsert[u].amount, w.amount) \in Nat
    BY RenewalTypes DEF Agreed, RenewalAssumption
  <1>2. on \in RenewalDays /\ sum \in Nat
    BY <1>1 DEF ContractRows
  <1>3. k = [by |-> k.by, client |-> k.client, day |-> k.day, amount |-> k.amount]
    BY DEF ContractRows
  <1>4. Amended(k, w, u) = [by |-> k.by, client |-> k.client, day |-> on, amount |-> sum]
    BY DEF Amended
  <1>5. k = w => /\ on = upsert[u].day
                 /\ sum = IF upsert[u].amount = NoAmount THEN w.amount ELSE upsert[u].amount
    BY DEF Agreed
  <1> HIDE DEF on, sum
  <1>6. QED
    BY <1>2, <1>4, <1>5, RenewalTypes DEF ContractRows

LEMMA RenewalSaves ==
  ASSUME RenewalAssumption, RenewalInv, NEW u \in Upserts, SaveContract(u)
  PROVE  RenewalInv'
  <1>0. PICK c : c = upsert[u].client
    OBVIOUS
  <1> DEFINE W == upsert[u].was
             old == IF wanted[c] = {} THEN 0 ELSE (CHOOSE t \in wanted[c] : TRUE).amount
             terms == [day |-> upsert[u].day,
                       amount |-> IF upsert[u].amount = NoAmount THEN old ELSE upsert[u].amount]
             row == [by |-> u, client |-> c, day |-> upsert[u].day, amount |-> OrZero(upsert[u].amount)]
  <1>1. /\ upsert[u].pc = "write" /\ c = upsert[u].client /\ c \in Clients /\ upsert[u].day \in RenewalDays
        /\ upsert[u].amount \in Amounts \union {NoAmount} /\ Amounts \subseteq Nat
        /\ W \in {{}} \union {{k} : k \in ContractRows}
    BY <1>0 DEF SaveContract, RenewalInv, RenewalTypeInv, UpsertStates, RenewalAssumption
  <1>2. /\ upsert' = [upsert EXCEPT ![u] = [pc |-> "done"]]
        /\ UNCHANGED <<risk, list, twins, riskChanges>>
        /\ wanted' = [wanted EXCEPT ![c] = {terms}]
        /\ W = {} => contracts' = contracts \union {row}
        /\ W # {} => contracts' = {IF \E w \in W : w.by = k.by
                                   THEN Amended(k, CHOOSE w \in W : TRUE, u) ELSE k : k \in contracts}
    BY <1>1 DEF SaveContract, Terms
  <1>3. old \in Nat /\ wanted[c] \in {{}} \union {{t} : t \in ContractTerms}
    <2>1. wanted[c] \in {{}} \union {{t} : t \in ContractTerms}
      BY <1>1 DEF RenewalInv, RenewalTypeInv
    <2>2. CASE wanted[c] = {}
      BY <2>1, <2>2
    <2>3. CASE wanted[c] # {}
      <3>1. PICK t \in ContractTerms : wanted[c] = {t}
        BY <2>1, <2>3
      <3>2. QED
        BY <2>1, <3>1 DEF ContractTerms
    <2>4. QED
      BY <2>2, <2>3
  <1>4. terms \in ContractTerms
    BY <1>1, <1>3 DEF ContractTerms
  <1>5. row \in ContractRows /\ row.by = u /\ row.client = c
    BY <1>1 DEF ContractRows, OrZero
  <1>6. /\ upsert' \in [Upserts -> UpsertStates] /\ upsert'[u].pc = "done"
        /\ \A q \in Upserts \ {u} : upsert'[q] = upsert[q]
    BY <1>2 DEF RenewalInv, RenewalTypeInv, UpsertStates
  <1>7. wanted' \in [Clients -> {{}} \union {{t} : t \in ContractTerms}] /\ wanted'[c] = {terms}
        /\ \A d \in Clients \ {c} : wanted'[d] = wanted[d]
    BY <1>1, <1>2, <1>4 DEF RenewalInv, RenewalTypeInv
  <1>8. \A k \in contracts : k \in ContractRows /\ k.by \in Upserts /\ k.by # u
    BY <1>1 DEF RenewalInv, RenewalTypeInv, RowsInv, ContractRows
  <1>9. \A q \in Upserts, d \in Clients : SavingFor(q, d)' <=> SavingFor(q, d) /\ q # u
    BY <1>6 DEF SavingFor
  <1>10. SavingFor(u, c)
    BY <1>1 DEF SavingFor
  <1>11. W \subseteq ContractRows
         /\ \A w \in W : w.client = c /\ \E k \in contracts : k.by = w.by /\ k.client = c
    BY <1>1 DEF RenewalInv, RowsInv
  <1>12. c \notin twins => /\ W = OwnContracts(c) /\ wanted[c] = {TermsOf(k) : k \in OwnContracts(c)}
                           /\ \A q \in Upserts : SavingFor(q, c) => q = u
    BY <1>1, <1>10 DEF RenewalInv, OneContract
  <1>13. /\ contracts' \subseteq ContractRows
         /\ \A k, l \in contracts' : k.by = l.by => k = l
         /\ \A k \in contracts' : upsert'[k.by].pc = "done"
         /\ \A k \in contracts : \E l \in contracts' : l.by = k.by /\ l.client = k.client
         /\ \A d \in Clients \ {c} : OwnContracts(d)' = OwnContracts(d)
         /\ c \notin twins => \E k \in ContractRows : OwnContracts(c)' = {k} /\ TermsOf(k) = terms
    <2>1. CASE W = {}
      <3>1. contracts' = contracts \union {row}
        BY <1>2, <2>1
      <3>2. \A k, l \in contracts' : k.by = l.by => k = l
        BY <1>5, <1>8, <3>1 DEF RenewalInv, RowsInv
      <3>3. \A k \in contracts' : upsert'[k.by].pc = "done"
        BY <1>5, <1>6, <1>8, <3>1 DEF RenewalInv, RowsInv
      <3>4. \A d \in Clients \ {c} : OwnContracts(d)' = OwnContracts(d)
        BY <1>5, <3>1 DEF OwnContracts
      <3>5. ASSUME c \notin twins PROVE OwnContracts(c)' = {row} /\ TermsOf(row) = terms
        <4>1. OwnContracts(c) = {} /\ wanted[c] = {}
          BY <1>12, <2>1, <3>5
        <4>2. OwnContracts(c)' = {row}
          BY <1>5, <3>1, <4>1 DEF OwnContracts
        <4>3. TermsOf(row) = terms
          BY <4>1 DEF TermsOf, OrZero
        <4>4. QED
          BY <4>2, <4>3
      <3> HIDE DEF row, terms, W
      <3>6. QED
        BY <1>5, <1>8, <3>1, <3>2, <3>3, <3>4, <3>5
    <2>2. CASE W # {}
      <3>1. PICK w \in ContractRows : W = {w}
        BY <1>1, <2>2
      <3> DEFINE g == [k \in contracts |-> IF w.by = k.by THEN Amended(k, w, u) ELSE k]
      <3>2. contracts' = {g[k] : k \in contracts}
        BY <1>2, <3>1
      <3>3. ASSUME NEW k \in contracts
            PROVE  /\ g[k] \in ContractRows /\ g[k].by = k.by /\ g[k].client = k.client
                   /\ w.by # k.by => g[k] = k
        <4>1. CASE w.by = k.by
          BY <1>1, <1>8, <4>1, AmendedIs
        <4>2. CASE w.by # k.by
          BY <1>8, <4>2
        <4>3. QED
          BY <4>1, <4>2
      <3>4. ASSUME w \in contracts
            PROVE  /\ g[w].day = upsert[u].day
                   /\ g[w].amount = IF upsert[u].amount = NoAmount THEN w.amount ELSE upsert[u].amount
        BY <1>1, <3>4, AmendedIs
      <3>5. w.client = c /\ \E k \in contracts : k.by = w.by /\ k.client = c
        BY <1>11, <3>1
      <3> HIDE DEF g
      <3>6. \A k, l \in contracts' : k.by = l.by => k = l
        BY <3>2, <3>3 DEF RenewalInv, RowsInv
      <3>7. \A k \in contracts' : upsert'[k.by].pc = "done"
        BY <1>6, <1>8, <3>2, <3>3 DEF RenewalInv, RowsInv
      <3>8. \A k \in contracts : \E l \in contracts' : l.by = k.by /\ l.client = k.client
        BY <3>2, <3>3
      <3>9. ASSUME NEW d \in Clients \ {c} PROVE OwnContracts(d)' = OwnContracts(d)
        <4>1. \A k \in contracts : k.by = w.by => k.client = c
          BY <3>5 DEF RenewalInv, RowsInv
        <4>2. \A k \in contracts : k.client = d => g[k] = k
          BY <3>3, <4>1
        <4>3. \A l \in contracts' : l.client = d => l \in contracts
          BY <3>2, <3>3, <4>2
        <4>4. \A k \in contracts : k.client = d => k \in contracts'
          BY <3>2, <4>2
        <4>5. QED
          BY <4>3, <4>4 DEF OwnContracts
      <3>10. ASSUME c \notin twins PROVE \E k \in ContractRows : OwnContracts(c)' = {k} /\ TermsOf(k) = terms
        <4>1. OwnContracts(c) = {w} /\ wanted[c] = {TermsOf(w)}
          BY <1>12, <3>1, <3>10
        <4>2. w \in contracts /\ w.client = c /\ \A k \in contracts : k.client = c => k = w
          BY <4>1 DEF OwnContracts
        <4>3. OwnContracts(c)' = {g[w]}
          <5>1. g[w] \in contracts' /\ g[w].client = c
            BY <3>2, <3>3, <4>2
          <5>2. \A l \in contracts' : l.client = c => l = g[w]
            BY <3>2, <3>3, <4>2
          <5>3. QED
            BY <5>1, <5>2 DEF OwnContracts
        <4>4. old = w.amount
          <5>1. wanted[c] # {} /\ (CHOOSE t \in wanted[c] : TRUE) = TermsOf(w)
            BY <4>1
          <5>2. TermsOf(w).amount = w.amount
            BY DEF TermsOf
          <5>3. QED
            BY <5>1, <5>2
        <4>5. TermsOf(g[w]) = terms
          BY <3>4, <4>2, <4>4 DEF TermsOf
        <4>6. g[w] \in ContractRows
          BY <3>3, <4>2
        <4>7. QED
          BY <4>3, <4>5, <4>6
      <3>11. contracts' \subseteq ContractRows
        BY <3>2, <3>3
      <3>12. QED
        BY <3>6, <3>7, <3>8, <3>9, <3>10, <3>11
    <2>3. QED
      BY <2>1, <2>2
  <1> HIDE DEF W, old, terms, row
  <1>14. RenewalTypeInv'
    BY <1>2, <1>6, <1>7, <1>13 DEF RenewalInv, RenewalTypeInv
  <1>15. RowsInv'
    <2>1. \A q \in Upserts : upsert'[q].pc = "write" =>
            \A w \in upsert'[q].was : /\ w.client = upsert'[q].client
                                      /\ \E k \in contracts' : k.by = w.by /\ k.client = w.client
      <3> SUFFICES ASSUME NEW q \in Upserts, upsert'[q].pc = "write", NEW w \in upsert'[q].was
                   PROVE  /\ w.client = upsert'[q].client
                          /\ \E k \in contracts' : k.by = w.by /\ k.client = w.client
        OBVIOUS
      <3>1. q # u /\ upsert'[q] = upsert[q]
        BY <1>6
      <3>2. w.client = upsert[q].client /\ \E k \in contracts : k.by = w.by /\ k.client = w.client
        BY <3>1 DEF RenewalInv, RowsInv
      <3>3. PICK k \in contracts : k.by = w.by /\ k.client = w.client
        BY <3>2
      <3>4. PICK l \in contracts' : l.by = k.by /\ l.client = k.client
        BY <1>13
      <3>5. QED
        BY <3>1, <3>2, <3>3, <3>4
    <2>2. QED
      BY <1>13, <2>1 DEF RowsInv
  <1>16. ASSUME NEW d \in Clients \ twins' PROVE OneContract(d)'
    <2>1. d \in Clients \ twins
      BY <1>2
    <2>2. CASE d # c
      <3>1. /\ \A k, l \in contracts : k.client = d /\ l.client = d => k = l
            /\ wanted[d] = {TermsOf(k) : k \in OwnContracts(d)}
            /\ \A q, p \in Upserts : SavingFor(q, d) /\ SavingFor(p, d) => q = p
            /\ \A q \in Upserts : SavingFor(q, d) => upsert[q].was = OwnContracts(d)
        BY <2>1 DEF RenewalInv, OneContract
      <3>2. OwnContracts(d)' = OwnContracts(d) /\ wanted'[d] = wanted[d]
        BY <1>7, <1>13, <2>2
      <3>3. \A k, l \in contracts' : k.client = d /\ l.client = d => k = l
        BY <3>1, <3>2 DEF OwnContracts
      <3>4. \A q \in Upserts : SavingFor(q, d)' => SavingFor(q, d) /\ upsert'[q] = upsert[q]
        BY <1>6, <1>9
      <3>5. wanted'[d] = {TermsOf(k) : k \in OwnContracts(d)'}
        BY <3>1, <3>2
      <3>6. \A q, p \in Upserts : SavingFor(q, d)' /\ SavingFor(p, d)' => q = p
        BY <3>1, <3>4
      <3>7. \A q \in Upserts : SavingFor(q, d)' => upsert'[q].was = OwnContracts(d)'
        BY <3>1, <3>2, <3>4
      <3>8. QED
        BY <3>3, <3>5, <3>6, <3>7 DEF OneContract, TermsOf
    <2>3. CASE d = c
      <3>1. PICK k \in ContractRows : OwnContracts(c)' = {k} /\ TermsOf(k) = terms
        BY <1>13, <2>1, <2>3
      <3>2. \A q \in Upserts : ~ SavingFor(q, c)'
        BY <1>9, <1>12, <2>1, <2>3
      <3>3. wanted'[c] = {TermsOf(l) : l \in OwnContracts(c)'}
        BY <1>7, <3>1
      <3>4. \A l, m \in contracts' : l.client = c /\ m.client = c => l = m
        BY <3>1 DEF OwnContracts
      <3>5. QED
        BY <2>3, <3>2, <3>3, <3>4 DEF OneContract, TermsOf
    <2>4. QED
      BY <2>2, <2>3
  <1>17. list' = [v \in Lists |-> list'[v]] /\ \A v \in Lists : ListInv(list[v])'
    BY <1>2, ListsRest
  <1>18. QED
    BY <1>14, <1>15, <1>16, <1>17 DEF RenewalInv

LEMMA RenewalLists ==
  ASSUME RenewalAssumption, RenewalInv, NEW v \in Lists, ListContracts(v)
  PROVE  RenewalInv'
  <1> DEFINE due == {k \in contracts : Due(k)}
             w == [pc |-> IF due = {} THEN "done" ELSE "join", left |-> due, items |-> {}, window |-> contracts]
  <1>1. list' = [list EXCEPT ![v] = w] /\ UNCHANGED <<contracts, risk, upsert, wanted, twins, riskChanges>>
    BY DEF ListContracts
  <1>2. \A k, l \in contracts : k.client = l.client => k = l \/ k.client \in twins
    BY RenewalTypes DEF RenewalInv, RenewalTypeInv, OneContract
  <1>3. ListInv(w)
    BY <1>2 DEF ListInv, RenewalInv, RenewalTypeInv
  <1> HIDE DEF w, due
  <1>4. list' = [u \in Lists |-> list'[u]] /\ \A u \in Lists : ListInv(list'[u])
    BY <1>1, <1>3 DEF RenewalInv
  <1>5. RenewalTypeInv' /\ RowsInv' /\ \A c \in Clients \ twins' : OneContract(c)'
    BY <1>1 DEF RenewalInv, RenewalTypeInv, RowsInv, OneContract, OwnContracts, SavingFor
  <1>6. QED
    BY <1>1, <1>4, <1>5 DEF RenewalInv, ListInv

LEMMA RenewalJoins ==
  ASSUME RenewalAssumption, RenewalInv, NEW v \in Lists, NEW k \in list[v].left, JoinCustomer(v, k)
  PROVE  RenewalInv'
  <1> DEFINE w == list[v]
             i == Item(k, risk[k.client])
             s == [pc |-> IF w.left = {k} THEN "done" ELSE "join", left |-> w.left \ {k},
                   items |-> w.items \union {i}, window |-> w.window]
  <1>1. /\ w.pc = "join" /\ ListInv(w) /\ list' = [list EXCEPT ![v] = s]
        /\ UNCHANGED <<contracts, risk, upsert, wanted, twins, riskChanges>>
    BY DEF JoinCustomer, RenewalInv
  <1>2. k \in w.window /\ Due(k) /\ k \in ContractRows
    BY <1>1 DEF ListInv
  <1>3. i.contract = k /\ i.risk \in Nat /\ i.urgency = Urgency(i.contract, i.risk)
    <2>1. risk[k.client] \in Nat
      BY <1>2, RenewalTypes DEF RenewalInv, RenewalTypeInv, RenewalAssumption
    <2>2. QED
      BY <2>1 DEF Item
  <1>4. /\ s.pc = IF w.left = {k} THEN "done" ELSE "join"
        /\ s.left = w.left \ {k} /\ s.items = w.items \union {i} /\ s.window = w.window
    OBVIOUS
  <1> HIDE DEF s, i
  <1>5. k \notin {j.contract : j \in w.items}
    BY <1>1 DEF ListInv
  <1>6. {j.contract : j \in s.items} = {l \in s.window : Due(l)} \ s.left
    <2>1. {j.contract : j \in s.items} = {j.contract : j \in w.items} \union {k}
      BY <1>3, <1>4
    <2>2. {j.contract : j \in w.items} = {l \in w.window : Due(l)} \ w.left
      BY <1>1 DEF ListInv
    <2>3. QED
      BY <1>2, <1>4, <2>1, <2>2
  <1>7. \A j, m \in s.items : j.contract = m.contract => j = m
    BY <1>1, <1>3, <1>4, <1>5 DEF ListInv
  <1>8. /\ s.pc \in {"new", "join", "done"} /\ (s.pc = "done" => s.left = {})
        /\ \A l \in s.left : l \in s.window /\ Due(l)
    BY <1>1, <1>4 DEF ListInv
  <1>9. \A j \in s.items : j.risk \in Nat /\ j.urgency = Urgency(j.contract, j.risk)
    BY <1>1, <1>3, <1>4 DEF ListInv
  <1>10. ListInv(s)
    BY <1>1, <1>4, <1>6, <1>7, <1>8, <1>9 DEF ListInv
  <1>11. list' = [u \in Lists |-> list'[u]] /\ \A u \in Lists : ListInv(list'[u])
    BY <1>1, <1>10 DEF RenewalInv
  <1>12. RenewalTypeInv' /\ RowsInv' /\ \A c \in Clients \ twins' : OneContract(c)'
    BY <1>1 DEF RenewalInv, RenewalTypeInv, RowsInv, OneContract, OwnContracts, SavingFor
  <1>13. QED
    BY <1>1, <1>11, <1>12 DEF RenewalInv, ListInv

LEMMA RenewalScores ==
  ASSUME RenewalAssumption, RenewalInv, NEW c \in Clients, ScoreRisk(c)
  PROVE  RenewalInv'
  <1>1. risk' \in [Clients -> Risks] /\ UNCHANGED <<contracts, upsert, list, wanted, twins>>
    BY DEF ScoreRisk, RenewalInv, RenewalTypeInv
  <1>2. RenewalTypeInv' /\ RowsInv' /\ \A d \in Clients \ twins' : OneContract(d)'
    BY <1>1 DEF RenewalInv, RenewalTypeInv, RowsInv, OneContract, OwnContracts, SavingFor
  <1>3. QED
    BY <1>1, <1>2, ListsRest DEF RenewalInv

LEMMA RenewalStep == RenewalAssumption /\ RenewalInv /\ [RenewalNext]_renewalVars => RenewalInv'
  <1>1. RenewalInv /\ UNCHANGED renewalVars => RenewalInv'
    <2> SUFFICES ASSUME RenewalInv, UNCHANGED renewalVars PROVE RenewalInv'
      OBVIOUS
    <2>1. UNCHANGED <<contracts, risk, upsert, list, wanted, twins>>
      BY DEF renewalVars
    <2>2. RenewalTypeInv' /\ RowsInv' /\ \A d \in Clients \ twins' : OneContract(d)'
      BY <2>1 DEF RenewalInv, RenewalTypeInv, RowsInv, OneContract, OwnContracts, SavingFor
    <2>3. QED
      BY <2>1, <2>2, ListsRest DEF RenewalInv
  <1>2. QED
    BY <1>1, RenewalFinds, RenewalSaves, RenewalLists, RenewalJoins, RenewalScores DEF RenewalNext

---------------------------------------------------------------------------
LEMMA PartsGrow ==
  ASSUME NEW m \in Int, NEW n \in Int, m >= n, NEW b \in Int, b > 0
  PROVE  m \div b >= n \div b
  <1> DEFINE p == m \div b
             q == n \div b
  <1>1. p \in Int /\ m < b * p + b
    OBVIOUS
  <1>2. q \in Int /\ b * q <= n
    OBVIOUS
  <1> HIDE DEF p, q
  <1>3. b * q < b * p + b
    BY <1>1, <1>2
  <1>4. b * q < b * (p + 1)
    BY <1>1, <1>2, <1>3
  <1>5. q < p + 1
    BY <1>1, <1>2, <1>4
  <1>6. QED
    BY <1>1, <1>2, <1>5 DEF p, q

LEMMA ProductsGrow ==
  ASSUME NEW p \in Nat, NEW q \in Nat, NEW m \in Nat, NEW n \in Nat, p >= q, m >= n
  PROVE  p * m >= q * n
  <1>1. p * m >= q * m
    OBVIOUS
  <1>2. q * m >= q * n
    OBVIOUS
  <1>3. p * m \in Nat /\ q * m \in Nat /\ q * n \in Nat
    OBVIOUS
  <1>4. QED
    BY <1>1, <1>2, <1>3

LEMMA UrgencyGrows ==
  ASSUME RenewalAssumption, NEW p \in Nat, NEW q \in Nat, NEW k \in ContractRows, NEW l \in ContractRows,
         Due(k), Due(l),
         \/ p >= q /\ DaysUntil(k) <= DaysUntil(l)
         \/ p >= 2 * q
  PROVE  Urgency(k, p) >= Urgency(l, q)
  <1> DEFINE W == RenewalWindow
             m == 2 * RenewalWindow - DaysUntil(k)
             n == 2 * RenewalWindow - DaysUntil(l)
  <1>1. W \in Nat /\ W > 0
    BY DEF RenewalAssumption
  <1>2. /\ DaysUntil(k) \in Nat /\ DaysUntil(k) <= W /\ DaysUntil(l) \in Nat /\ DaysUntil(l) <= W
    BY <1>1, RenewalTypes DEF DaysUntil, Due
  <1>3. m \in Nat /\ n \in Nat /\ m >= W /\ n <= 2 * W
    BY <1>1, <1>2
  <1>4. p >= q /\ DaysUntil(k) <= DaysUntil(l) => m >= n
    BY <1>1, <1>2
  <1>5. Urgency(k, p) = (p * m * 100) \div W /\ Urgency(l, q) = (q * n * 100) \div W
    BY DEF Urgency
  <1> HIDE DEF m, n, W
  <1>6. p * m >= q * n
    <2>1. CASE p >= q /\ DaysUntil(k) <= DaysUntil(l)
      BY <1>3, <1>4, <2>1, ProductsGrow
    <2>2. CASE p >= 2 * q
      <3>1. p * m >= (2 * q) * W
        BY <1>1, <1>3, <2>2, ProductsGrow
      <3>2. q * (2 * W) >= q * n
        BY <1>1, <1>3, ProductsGrow
      <3>3. (2 * q) * W = q * (2 * W)
        BY <1>1
      <3>4. p * m \in Int /\ q * n \in Int /\ q * (2 * W) \in Int
        BY <1>1, <1>3
      <3>5. QED
        BY <3>1, <3>2, <3>3, <3>4
    <2>3. QED
      BY <2>1, <2>2
  <1>7. p * m \in Int /\ q * n \in Int
    BY <1>3
  <1>8. p * m * 100 >= q * n * 100 /\ p * m * 100 \in Int /\ q * n * 100 \in Int
    BY <1>6, <1>7
  <1>9. QED
    BY <1>1, <1>5, <1>8, PartsGrow

LEMMA RenewalMeans == RenewalAssumption /\ RenewalInv => RenewalsSound
  <1> SUFFICES ASSUME RenewalAssumption, RenewalInv PROVE RenewalsSound
    OBVIOUS
  <1>1. RenewalTypeOK
    <2>1. \A u \in Upserts : upsert[u].pc \in {"new", "write", "done"}
      BY DEF RenewalInv, RenewalTypeInv, UpsertStates
    <2>2. \A v \in Lists : list[v].pc \in {"new", "join", "done"}
      BY DEF RenewalInv, ListInv
    <2>3. \A k \in contracts : k.by \in Upserts /\ k.client \in Clients /\ k.day \in RenewalDays /\ k.amount \in Nat
      BY DEF RenewalInv, RenewalTypeInv, ContractRows
    <2>4. QED
      BY <2>1, <2>2, <2>3 DEF RenewalInv, RenewalTypeInv, RenewalTypeOK
  <1>2. LastTermsStand
    <2> SUFFICES ASSUME NEW c \in Clients \ twins
                 PROVE  /\ Cardinality(OwnContracts(c)) <= 1
                        /\ {TermsOf(k) : k \in OwnContracts(c)} = wanted[c]
      BY DEF LastTermsStand, OwnContracts, TermsOf
    <2>1. OneContract(c)
      BY DEF RenewalInv
    <2>2. CASE OwnContracts(c) = {}
      <3>1. Cardinality(OwnContracts(c)) = 0
        BY <2>2, FS_EmptySet
      <3>2. QED
        BY <2>1, <3>1 DEF OneContract
    <2>3. CASE OwnContracts(c) # {}
      <3>1. PICK k \in OwnContracts(c) : TRUE
        BY <2>3
      <3>2. OwnContracts(c) = {k}
        BY <2>1 DEF OneContract, OwnContracts
      <3>3. Cardinality(OwnContracts(c)) = 1
        BY <3>2, FS_Singleton
      <3>4. QED
        BY <2>1, <3>3 DEF OneContract
    <2>4. QED
      BY <2>2, <2>3
  <1>3. ListComplete
    <2> SUFFICES ASSUME NEW v \in Lists, list[v].pc = "done"
                 PROVE  /\ {i.contract : i \in list[v].items} = {k \in list[v].window : k.day \in -1 .. RenewalWindow}
                        /\ \A i, j \in list[v].items :
                             i.contract.client = j.contract.client => i = j \/ i.contract.client \in twins
      BY DEF ListComplete
    <2>1. ListInv(list[v])
      BY DEF RenewalInv
    <2>2. \A k \in list[v].window : Due(k) <=> k.day \in -1 .. RenewalWindow
      <3>1. \A k \in list[v].window : k.day \in Int
        BY <2>1, RenewalTypes DEF ListInv
      <3>2. QED
        BY <3>1 DEF Due, RenewalAssumption
    <2>3. {i.contract : i \in list[v].items} = {k \in list[v].window : Due(k)}
      BY <2>1 DEF ListInv
    <2>4. \A i \in list[v].items : i.contract \in list[v].window
      BY <2>3
    <2>5. QED
      BY <2>1, <2>2, <2>3, <2>4 DEF ListInv
  <1>4. UrgencySensible
    <2> SUFFICES ASSUME NEW v \in Lists, NEW i \in list[v].items, NEW j \in list[v].items
                 PROVE  /\ (DaysUntil(i.contract) = DaysUntil(j.contract) /\ i.risk >= j.risk => i.urgency >= j.urgency)
                        /\ (i.risk = j.risk /\ i.contract.day <= j.contract.day => i.urgency >= j.urgency)
                        /\ i.risk >= 2 * j.risk => i.urgency >= j.urgency
      BY DEF UrgencySensible
    <2> DEFINE k == i.contract
               l == j.contract
    <2>1. ListInv(list[v])
      BY DEF RenewalInv
    <2>2. \A m \in list[v].items : m.contract \in ContractRows /\ Due(m.contract)
      <3>1. {m.contract : m \in list[v].items} \subseteq {m \in list[v].window : Due(m)}
        BY <2>1 DEF ListInv
      <3>2. \A m \in list[v].items : m.contract \in {n \in list[v].window : Due(n)}
        BY <3>1
      <3>3. QED
        BY <2>1, <3>2 DEF ListInv
    <2>3. /\ i.risk \in Nat /\ j.risk \in Nat
          /\ i.urgency = Urgency(k, i.risk) /\ j.urgency = Urgency(l, j.risk)
      BY <2>1 DEF ListInv
    <2>4. k \in ContractRows /\ l \in ContractRows /\ Due(k) /\ Due(l) /\ k.day \in Int /\ l.day \in Int
      BY <2>2, RenewalTypes
    <2>5. k.day <= l.day => DaysUntil(k) <= DaysUntil(l)
      BY <2>4 DEF DaysUntil
    <2>6. DaysUntil(k) = DaysUntil(l) => DaysUntil(k) <= DaysUntil(l)
      BY <2>4 DEF DaysUntil
    <2> HIDE DEF k, l
    <2>7. i.risk >= j.risk /\ DaysUntil(k) <= DaysUntil(l) => Urgency(k, i.risk) >= Urgency(l, j.risk)
      BY <2>3, <2>4, UrgencyGrows
    <2>8. i.risk >= 2 * j.risk => Urgency(k, i.risk) >= Urgency(l, j.risk)
      BY <2>3, <2>4, UrgencyGrows
    <2>9. QED
      BY <2>3, <2>5, <2>6, <2>7, <2>8 DEF k, l
  <1>5. QED
    BY <1>1, <1>2, <1>3, <1>4 DEF RenewalsSound

\* A customer has one contract, with the terms of the last request, unless two met; a list of
\* renewals is complete, and its order is explained by risk and date (renewals.py).
THEOREM RenewalsAreSound == RenewalInit /\ [][RenewalNext]_renewalVars => []RenewalsSound
  BY RenewalAssumption, RenewalInitially, RenewalStep, RenewalMeans, PTL

---------------------------------------------------------------------------
(***************************************************************************)
(* Features and training                                                   *)
(***************************************************************************)

\* Of numbers that are bounded one is the greatest.
LEMMA GreatestOfBounded ==
  ASSUME NEW S \in SUBSET Nat, S # {}, NEW b \in Nat, \A n \in S : n <= b
  PROVE  \E m \in S : \A n \in S : n <= m
  <1> DEFINE T == {k \in Nat : \E n \in S : k = b - n}
  <1>1. T # {}
    <2>1. PICK n \in S : TRUE
      OBVIOUS
    <2>2. b - n \in Nat
      BY <2>1
    <2>3. QED
      BY <2>1, <2>2
  <1>2. PICK k \in T : \A j \in T : <<j, k>> \notin OpToRel(<, Nat)
    BY <1>1, NatLessThanWellFounded, WFMin
  <1>3. \A j \in T : ~ (j < k)
    BY <1>2 DEF OpToRel
  <1>4. PICK m \in S : k = b - m
    OBVIOUS
  <1>5. ASSUME NEW n \in S PROVE n <= m
    <2>1. b - n \in T
      BY <1>5
    <2>2. ~ (b - n < k)
      BY <1>3, <2>1
    <2>3. QED
      BY <1>4, <2>2
  <1>6. QED
    BY <1>4, <1>5

LEMMA LeastOfNumbers ==
  ASSUME NEW S \in SUBSET Nat, S # {}
  PROVE  \E m \in S : \A n \in S : m <= n
  <1>1. PICK m \in S : \A n \in S : <<n, m>> \notin OpToRel(<, Nat)
    BY NatLessThanWellFounded, WFMin
  <1>2. \A n \in S : ~ (n < m)
    BY <1>1 DEF OpToRel
  <1>3. QED
    BY <1>2

ArrivedEvents == [n : Nat, kind : EventKinds, at : Int]

\* Events within a look back, numbered up to b.
Windowed(S, d, b) ==
  /\ S \subseteq ArrivedEvents /\ d \in Int /\ b \in Nat
  /\ \A e \in S : d - 3 <= e.at /\ e.at <= d /\ e.n <= b

LEMMA EventTypes ==
  ASSUME FeatureAssumption, NEW e \in ArrivedEvents
  PROVE  e.at \in Int /\ e.n \in Nat /\ e.kind \in EventKinds /\ e.kind.seats \in Nat
  BY DEF FeatureAssumption, ArrivedEvents

LEMMA LatestExists ==
  ASSUME FeatureAssumption, NEW S, NEW d, NEW b, Windowed(S, d, b), S # {}
  PROVE  \E e \in S : \A f \in S : f.at <= e.at
  <1>1. \A e \in S : e.at \in Int /\ d \in Int /\ d - 3 <= e.at /\ e.at <= d
    BY EventTypes DEF Windowed
  <1>2. \A e \in S : e.at = d \/ e.at = d - 1 \/ e.at = d - 2 \/ e.at = d - 3
    BY <1>1
  <1>3. CASE \E e \in S : e.at = d
    BY <1>1, <1>3
  <1>4. CASE (\E e \in S : e.at = d - 1) /\ \A f \in S : f.at # d
    BY <1>1, <1>2, <1>4
  <1>5. CASE (\E e \in S : e.at = d - 2) /\ \A f \in S : f.at # d /\ f.at # d - 1
    BY <1>1, <1>2, <1>5
  <1>6. CASE \A f \in S : f.at # d /\ f.at # d - 1 /\ f.at # d - 2
    BY <1>1, <1>2, <1>6
  <1>7. QED
    BY <1>2, <1>3, <1>4, <1>5, <1>6

LEMMA EarliestExists ==
  ASSUME FeatureAssumption, NEW S, NEW d, NEW b, Windowed(S, d, b), S # {}
  PROVE  \E e \in S : \A f \in S : f.at >= e.at
  <1>1. \A e \in S : e.at \in Int /\ d \in Int /\ d - 3 <= e.at /\ e.at <= d
    BY EventTypes DEF Windowed
  <1>2. \A e \in S : e.at = d \/ e.at = d - 1 \/ e.at = d - 2 \/ e.at = d - 3
    BY <1>1
  <1>3. CASE \E e \in S : e.at = d - 3
    BY <1>1, <1>3
  <1>4. CASE (\E e \in S : e.at = d - 2) /\ \A f \in S : f.at # d - 3
    BY <1>1, <1>2, <1>4
  <1>5. CASE (\E e \in S : e.at = d - 1) /\ \A f \in S : f.at # d - 3 /\ f.at # d - 2
    BY <1>1, <1>2, <1>5
  <1>6. CASE \A f \in S : f.at # d - 3 /\ f.at # d - 2 /\ f.at # d - 1
    BY <1>1, <1>2, <1>6
  <1>7. QED
    BY <1>2, <1>3, <1>4, <1>5, <1>6

\* The last of some events, and the first, as they occurred, and as they arrived within an instant.
LastOf(S, e) == \A f \in S : f.at < e.at \/ (f.at = e.at /\ f.n <= e.n)
FirstOf(S, e) == \A f \in S : f.at > e.at \/ (f.at = e.at /\ f.n >= e.n)

LEMMA LastExists ==
  ASSUME FeatureAssumption, NEW S, NEW d, NEW b, Windowed(S, d, b), S # {}
  PROVE  \E e \in S : LastOf(S, e)
  <1>1. PICK m \in S : \A f \in S : f.at <= m.at
    BY LatestExists
  <1>2. \A f \in S : f.at \in Int /\ f.n \in Nat /\ f.n <= b /\ b \in Nat
    BY EventTypes DEF Windowed
  <1> DEFINE N == {e.n : e \in {e \in S : e.at = m.at}}
  <1>3. N \in SUBSET Nat /\ N # {} /\ \A n \in N : n <= b
    BY <1>2
  <1>4. PICK k \in N : \A n \in N : n <= k
    BY <1>2, <1>3, GreatestOfBounded
  <1>5. PICK e \in S : e.at = m.at /\ e.n = k
    OBVIOUS
  <1>6. ASSUME NEW f \in S PROVE f.at < e.at \/ (f.at = e.at /\ f.n <= e.n)
    <2>1. CASE f.at = m.at
      BY <1>4, <1>5, <2>1
    <2>2. CASE f.at # m.at
      BY <1>1, <1>2, <1>5, <2>2
    <2>3. QED
      BY <2>1, <2>2
  <1>7. QED
    BY <1>6 DEF LastOf

LEMMA FirstExists ==
  ASSUME FeatureAssumption, NEW S, NEW d, NEW b, Windowed(S, d, b), S # {}
  PROVE  \E e \in S : FirstOf(S, e)
  <1>1. PICK m \in S : \A f \in S : f.at >= m.at
    BY EarliestExists
  <1>2. \A f \in S : f.at \in Int /\ f.n \in Nat /\ f.n <= b /\ b \in Nat
    BY EventTypes DEF Windowed
  <1> DEFINE N == {e.n : e \in {e \in S : e.at = m.at}}
  <1>3. N \in SUBSET Nat /\ N # {}
    BY <1>2
  <1>4. PICK k \in N : \A n \in N : k <= n
    BY <1>3, LeastOfNumbers
  <1>5. PICK e \in S : e.at = m.at /\ e.n = k
    OBVIOUS
  <1>6. ASSUME NEW f \in S PROVE f.at > e.at \/ (f.at = e.at /\ f.n >= e.n)
    <2>1. CASE f.at = m.at
      <3>1. f.n \in N
        BY <2>1
      <3>2. QED
        BY <1>2, <1>4, <1>5, <2>1, <3>1
    <2>2. CASE f.at # m.at
      BY <1>1, <1>2, <1>5, <2>2
    <2>3. QED
      BY <2>1, <2>2
  <1>7. QED
    BY <1>6 DEF FirstOf

\* What a row of features says of the events that made it.
SensibleFeatures(f, es, d) ==
  LET used == Within(es, d)
      updates == OfType(used, "subscription_updated")
  IN /\ f.silent \in 0 .. LookBack
     /\ f.slope # 0 => f.views > 0
     /\ f.slope < 0 => \E e \in OfType(used, "page_view") : e.at < d - RecentPart
     /\ f.seats # 0 => \E e, g \in updates : e.at <= g.at /\ f.seats = g.kind.seats - e.kind.seats

LEMMA SeatsSensible ==
  ASSUME FeatureAssumption, NEW S, NEW d, NEW b, Windowed(S, d, b), SeatTrend(S) # 0
  PROVE  \E e, g \in OfType(S, "subscription_updated") : e.at <= g.at /\ SeatTrend(S) = g.kind.seats - e.kind.seats
  <1> DEFINE U == OfType(S, "subscription_updated")
             g == CHOOSE e \in U : LastOf(U, e)
             e == CHOOSE f \in U : FirstOf(U, f)
  <1>1. U # {}
    BY DEF SeatTrend
  <1>2. Windowed(U, d, b)
    BY DEF Windowed, OfType
  <1> HIDE DEF U
  <1>3. g \in U /\ LastOf(U, g)
    BY <1>1, <1>2, LastExists
  <1>4. e \in U /\ FirstOf(U, e)
    BY <1>1, <1>2, FirstExists
  <1>5. SeatTrend(S) = g.kind.seats - e.kind.seats
    BY <1>1 DEF SeatTrend, LastOf, FirstOf, U
  <1> HIDE DEF g, e
  <1>6. /\ g.at \in Int /\ e.at \in Int /\ g.kind.seats \in Nat /\ e.kind.seats \in Nat
    BY <1>2, <1>3, <1>4, EventTypes DEF Windowed
  <1>7. e.at <= g.at
    BY <1>3, <1>4, <1>6 DEF LastOf
  <1>8. QED
    BY <1>3, <1>4, <1>5, <1>7 DEF U

LEMMA FeaturesAreSensible ==
  ASSUME FeatureAssumption, NEW es \in SUBSET ArrivedEvents, NEW d \in Int, IsFiniteSet(es),
         NEW b \in Nat, \A e \in es : e.n <= b
  PROVE  SensibleFeatures(EventFeatures(es, d), es, d)
  <1> DEFINE S == Within(es, d)
             V == OfType(S, "page_view")
             past == {e \in V : e.at < d - RecentPart}
  <1>1. /\ EventFeatures(es, d).views = Cardinality(V) /\ EventFeatures(es, d).seats = SeatTrend(S)
        /\ EventFeatures(es, d).slope = UsageSlope(S, d) /\ EventFeatures(es, d).silent = PeriodsSilent(S, d)
    BY DEF EventFeatures
  <1>2. Windowed(S, d, b)
    <2>1. S \subseteq es /\ \A e \in S : e.at >= d - 3 /\ e.at <= d
      BY DEF Within, LookBack
    <2>2. \A e \in S : e.at \in Int
      BY <2>1, EventTypes
    <2> HIDE DEF S
    <2>3. QED
      BY <2>1, <2>2 DEF Windowed
  <1>3. PeriodsSilent(S, d) \in 0 .. LookBack
    <2>1. CASE S = {}
      BY <2>1 DEF PeriodsSilent, LookBack
    <2>2. CASE S # {}
      <3> DEFINE m == CHOOSE e \in S : \A f \in S : f.at <= e.at
      <3>1. m \in S
        BY <1>2, <2>2, LatestExists
      <3>2. m.at \in Int /\ d - 3 <= m.at /\ m.at <= d
        BY <1>2, <3>1, EventTypes DEF Windowed
      <3>3. PeriodsSilent(S, d) = d - m.at
        BY <2>2 DEF PeriodsSilent
      <3> HIDE DEF m
      <3>4. QED
        BY <3>2, <3>3 DEF LookBack
    <2>3. QED
      BY <2>1, <2>2
  <1>4. /\ UsageSlope(S, d) # 0 => Cardinality(V) > 0
        /\ UsageSlope(S, d) < 0 => \E e \in V : e.at < d - RecentPart
    <2>1. UsageSlope(S, d) = IF past = {} THEN 0 ELSE 2 * Cardinality(V \ past) - Cardinality(past)
      BY DEF UsageSlope
    <2>2. IsFiniteSet(V)
      BY FS_Subset DEF OfType, Within
    <2>3. V # {} => Cardinality(V) \in Nat /\ Cardinality(V) # 0
      BY <2>2, FS_CardinalityType, FS_EmptySet
    <2>4. past # {} => V # {}
      OBVIOUS
    <2>5. ~ (0 < 0)
      OBVIOUS
    <2>6. UsageSlope(S, d) < 0 => past # {}
      BY <2>1, <2>5
    <2>7. UsageSlope(S, d) # 0 => past # {}
      BY <2>1
    <2>8. QED
      BY <2>3, <2>4, <2>6, <2>7
  <1>5. SeatTrend(S) # 0 =>
          \E e, g \in OfType(S, "subscription_updated") :
            e.at <= g.at /\ SeatTrend(S) = g.kind.seats - e.kind.seats
    BY <1>2, SeatsSensible
  <1>6. QED
    BY <1>1, <1>3, <1>4, <1>5 DEF SensibleFeatures

---------------------------------------------------------------------------
(* What deliveries told of a customer's row.                               *)
RowColumns == {"mrr", "plan"}
Says(kind, v) == IF v = "mrr" THEN kind.mrr ELSE kind.plan
Column(row, v) == IF v = "mrr" THEN row.mrr ELSE row.plan

Delivered == [event : ArrivedEvents, k : Nat]

\* The delivery that named v last, up to the k-th.
LastNamed(ds, k, v, d) ==
  /\ d \in ds /\ d.k <= k /\ Says(d.event.kind, v) # {}
  /\ \A g \in ds : g.k <= k /\ Says(g.event.kind, v) # {} => g.k <= d.k

\* After the k-th delivery v is m.
Said(ds, k, v, m) ==
  \/ (\A g \in ds : Says(g.event.kind, v) # {} => ~ (g.k <= k)) /\ m = Column(AtFirst, v)
  \/ \E d \in ds : LastNamed(ds, k, v, d) /\ m \in Says(d.event.kind, v)

Numbered(ds, c) ==
  /\ ds \in SUBSET Delivered /\ c \in Nat
  /\ \A d \in ds : d.k <= c
  /\ \A d, g \in ds : d.k = g.k => d = g

LEMMA SaysOne ==
  ASSUME FeatureAssumption, NEW kind \in EventKinds, NEW v, NEW m \in Says(kind, v), NEW n \in Says(kind, v)
  PROVE  m = n
  BY DEF FeatureAssumption, Says

LEMMA DeliveredTypes ==
  ASSUME NEW ds, NEW c, Numbered(ds, c), NEW d \in ds
  PROVE  /\ d.k \in Nat /\ d.k <= c /\ c \in Nat /\ d.event \in ArrivedEvents /\ d.event.kind \in EventKinds
         /\ d.event.at \in Int /\ d.event.n \in Nat
  BY DEF Numbered, Delivered, ArrivedEvents

\* A delivery says nothing of what was so before it.
LEMMA SaidStays ==
  ASSUME NEW ds, NEW c, Numbered(ds, c), NEW q, q.k = c + 1, NEW k \in Nat, k <= c, NEW v, NEW m, Said(ds, k, v, m)
  PROVE  Said(ds \union {q}, k, v, m)
  <1>1. ~ (q.k <= k) /\ c \in Nat
    BY DEF Numbered
  <1>2. CASE (\A g \in ds : Says(g.event.kind, v) # {} => ~ (g.k <= k)) /\ m = Column(AtFirst, v)
    BY <1>1, <1>2 DEF Said
  <1>3. CASE \E d \in ds : LastNamed(ds, k, v, d) /\ m \in Says(d.event.kind, v)
    <2>1. PICK d \in ds : LastNamed(ds, k, v, d) /\ m \in Says(d.event.kind, v)
      BY <1>3
    <2>2. LastNamed(ds \union {q}, k, v, d)
      BY <1>1, <2>1 DEF LastNamed
    <2>3. QED
      BY <2>1, <2>2 DEF Said
  <1>4. QED
    BY <1>2, <1>3 DEF Said

LEMMA SaidNext ==
  ASSUME NEW ds, NEW c, Numbered(ds, c), NEW q, q.k = c + 1, NEW v, NEW m, Said(ds, c, v, m), NEW n,
         Says(q.event.kind, v) = {} => n = m, Says(q.event.kind, v) # {} => n \in Says(q.event.kind, v)
  PROVE  Said(ds \union {q}, c + 1, v, n)
  <1>1. c \in Nat /\ c <= c + 1 /\ q.k <= c + 1 /\ \A d \in ds : d.k \in Nat /\ d.k <= c /\ d.k <= c + 1
    <2>1. c \in Nat
      BY DEF Numbered
    <2>2. \A d \in ds : d.k \in Nat /\ d.k <= c
      BY DeliveredTypes
    <2>3. QED
      BY <2>1, <2>2
  <1>2. CASE Says(q.event.kind, v) # {}
    <2>1. LastNamed(ds \union {q}, c + 1, v, q)
      BY <1>1, <1>2 DEF LastNamed
    <2>2. QED
      BY <1>2, <2>1 DEF Said
  <1>3. CASE Says(q.event.kind, v) = {}
    <2>1. CASE (\A g \in ds : Says(g.event.kind, v) # {} => ~ (g.k <= c)) /\ m = Column(AtFirst, v)
      BY <1>1, <1>3, <2>1 DEF Said
    <2>2. CASE \E d \in ds : LastNamed(ds, c, v, d) /\ m \in Says(d.event.kind, v)
      <3>1. PICK d \in ds : LastNamed(ds, c, v, d) /\ m \in Says(d.event.kind, v)
        BY <2>2
      <3>2. LastNamed(ds \union {q}, c + 1, v, d)
        BY <1>1, <1>3, <3>1 DEF LastNamed
      <3>3. QED
        BY <1>3, <3>1, <3>2 DEF Said
    <2>3. QED
      BY <2>1, <2>2 DEF Said
  <1>4. QED
    BY <1>2, <1>3

\* What is said later is another thing only if a delivery in between said so.
LEMMA SaidAnew ==
  ASSUME FeatureAssumption, NEW ds, NEW c, Numbered(ds, c), NEW j \in Nat, NEW k \in Nat, j <= k, NEW v,
         NEW m, NEW n, Said(ds, j, v, m), Said(ds, k, v, n), m # n
  PROVE  \E d \in ds : d.k > j /\ Says(d.event.kind, v) # {}
  <1> SUFFICES ASSUME \A d \in ds : Says(d.event.kind, v) # {} => ~ (d.k > j) PROVE FALSE
    OBVIOUS
  <1>1. \A d \in ds : d.k \in Nat
    BY DeliveredTypes
  <1>2. ASSUME NEW d \in ds, Says(d.event.kind, v) # {} PROVE d.k <= j /\ d.k <= k
    <2>1. d.k \in Nat /\ ~ (d.k > j)
      BY <1>1, <1>2
    <2>2. QED
      BY <2>1
  <1>3. CASE \A d \in ds : Says(d.event.kind, v) = {}
    BY <1>3 DEF Said, LastNamed
  <1>4. CASE \E d \in ds : Says(d.event.kind, v) # {}
    <2>1. PICK d \in ds : LastNamed(ds, j, v, d) /\ m \in Says(d.event.kind, v)
      BY <1>2, <1>4 DEF Said
    <2>2. PICK g \in ds : LastNamed(ds, k, v, g) /\ n \in Says(g.event.kind, v)
      BY <1>2, <1>4 DEF Said
    <2>3. d.k <= g.k /\ g.k <= d.k
      BY <1>2, <2>1, <2>2 DEF LastNamed
    <2>4. d = g
      BY <1>1, <2>3 DEF Numbered
    <2>5. d.event.kind \in EventKinds
      BY DeliveredTypes
    <2>6. QED
      BY <2>1, <2>2, <2>4, <2>5, SaysOne
  <1>5. QED
    BY <1>3, <1>4

\* Deliveries up to the k-th that name v.
Naming(ds, k, v) == {d \in ds : d.k <= k /\ Says(d.event.kind, v) # {}}

\* The last word of the date on v is m, or there is none and v is what it was at first; and none is
\* anything else.
WordIs(T, asOf, v, m) ==
  /\ \/ LastWord(T, asOf) = {} /\ m = Column(AtFirst, v)
     \/ \E d \in LastWord(T, asOf) : m \in Says(d.event.kind, v)
  /\ \A d \in LastWord(T, asOf) : \A other \in Says(d.event.kind, v) : other = m

\* If what named v came in time, v is what the last event of the date says.
LEMMA SaidOfDate ==
  ASSUME FeatureAssumption, NEW ds, NEW c, Numbered(ds, c), NEW k \in Nat, NEW v, NEW m, NEW asOf \in Int,
         \A d, g \in ds : d.event.n = g.event.n => d.event = g.event,
         Said(ds, k, v, m), InTime(Naming(ds, k, v), asOf)
  PROVE  WordIs(Naming(ds, k, v), asOf, v, m)
  <1> DEFINE T == Naming(ds, k, v)
  <1>1. CASE (\A g \in ds : Says(g.event.kind, v) # {} => ~ (g.k <= k)) /\ m = Column(AtFirst, v)
    <2>1. T = {}
      BY <1>1 DEF Naming
    <2>2. LastWord(T, asOf) = {}
      BY <2>1 DEF LastWord
    <2>3. QED
      BY <1>1, <2>2 DEF WordIs
  <1>2. CASE \E d \in ds : LastNamed(ds, k, v, d) /\ m \in Says(d.event.kind, v)
    <2>1. PICK d \in ds : LastNamed(ds, k, v, d) /\ m \in Says(d.event.kind, v)
      BY <1>2
    <2>2. d \in T /\ \A g \in T : g \in ds /\ g.k <= d.k
      BY <2>1 DEF LastNamed, Naming
    <2>3. d.event.at <= asOf /\ \A g \in T : LaterOrSame(d.event, g.event)
      BY <2>2 DEF InTime
    <2>4. d \in LastWord(T, asOf)
      BY <2>2, <2>3 DEF LastWord
    <2>5. ASSUME NEW e \in LastWord(T, asOf), NEW other \in Says(e.event.kind, v) PROVE other = m
      <3>1. e \in T /\ LaterOrSame(e.event, d.event) /\ LaterOrSame(d.event, e.event)
        BY <2>2, <2>3, <2>5 DEF LastWord
      <3>2. /\ d.event.at \in Int /\ e.event.at \in Int /\ d.event.n \in Nat /\ e.event.n \in Nat
            /\ d.event.kind \in EventKinds
        BY <2>2, <3>1, DeliveredTypes DEF FeatureAssumption
      <3>3. d.event.n = e.event.n
        BY <3>1, <3>2 DEF LaterOrSame
      <3>4. d.event = e.event
        BY <2>2, <3>1, <3>3
      <3>5. QED
        BY <2>1, <2>5, <3>2, <3>4, SaysOne
    <2>6. QED
      BY <2>1, <2>4, <2>5 DEF WordIs
  <1>3. QED
    BY <1>1, <1>2 DEF Said

---------------------------------------------------------------------------
\* What a row held after k deliveries.
RowAfter(row, k) == \A v \in RowColumns : Said(deliveries, k, v, Column(row, v))

TrainingInv(w) ==
  /\ w.pc \in {"new", "read", "save", "label", "done"}
  /\ w.pc = "read" => w = [pc |-> w.pc, asOf |-> w.asOf, row |-> w.row, told |-> w.told] /\ RowAfter(w.row, w.told)
  /\ w.pc \in {"save", "label"} =>
       w = [pc |-> w.pc, asOf |-> w.asOf, told |-> w.told, known |-> w.known, features |-> w.features]
  /\ w.pc # "new" => /\ w.asOf \in Int /\ w.asOf < period
                     /\ w.told \in Nat /\ w.told <= Cardinality(deliveries)
  /\ w.pc \in {"save", "label", "done"} =>
       /\ w.known \subseteq events
       /\ \E row : RowAfter(row, w.told) /\ w.features = Features(w.known, row, w.asOf)
  /\ w.pc = "done" => /\ w.heard \subseteq events /\ w.by \in Int /\ w.asOf + ChurnAhead <= w.by
                      /\ w.churned = (Ahead(w.heard, "subscription_canceled", w.asOf, ChurnAhead) # {})

FeatureTypeInv ==
  /\ period \in Nat /\ 1 <= period /\ period <= LastPeriod
  /\ events \in SUBSET ArrivedEvents /\ IsFiniteSet(events)
  /\ \A e \in events : 1 <= e.n /\ e.n <= Cardinality(events)
  /\ \A e, f \in events : e.n = f.n => e = f
  /\ IsFiniteSet(rows)
  /\ \A r \in rows : /\ r.by \in Trainings /\ r.asOf \in Int /\ r.asOf < period
                     /\ r.stored \in Nat /\ r.stored <= Cardinality(rows)
  /\ training = [t \in Trainings |-> training[t]] /\ abreast \in BOOLEAN

\* The row is as the deliveries made it.
DeliveredInv ==
  /\ IsFiniteSet(deliveries) /\ Numbered(deliveries, Cardinality(deliveries))
  /\ \A d \in deliveries : d.event \in events /\ 1 <= d.k
  /\ account.mrr = AtFirst.mrr \/ \E k \in EventKinds : account.mrr \in k.mrr
  /\ account.plan = AtFirst.plan \/ \E k \in EventKinds : account.plan \in k.plan
  /\ RowAfter(account, Cardinality(deliveries))

\* A run that was never under way with another has no older date than the rows.
LoneRunInv ==
  ~ abreast =>
    /\ \A t, u \in Trainings : training[t].pc \in Taking /\ training[u].pc \in Taking => t = u
    /\ \A t \in Trainings : training[t].pc \in Taking => \A r \in rows : r.asOf <= training[t].asOf

FeatureInv ==
  /\ FeatureTypeInv /\ DeliveredInv
  /\ (\A t \in Trainings : TrainingInv(training[t])) /\ LoneRunInv /\ NewestAgree

LEMMA FeatureInitially == FeatureAssumption /\ FeatureInit => FeatureInv
  <1> SUFFICES ASSUME FeatureAssumption, FeatureInit PROVE FeatureInv
    OBVIOUS
  <1>1. /\ period = 1 /\ events = {} /\ rows = {} /\ deliveries = {} /\ abreast = FALSE
        /\ account = AtFirst /\ training = [t \in Trainings |-> [pc |-> "new"]]
    BY DEF FeatureInit
  <1>2. LastPeriod \in Nat /\ 1 <= LastPeriod /\ 1 \in Nat /\ 1 <= 1
    BY DEF FeatureAssumption
  <1>3. FeatureTypeInv
    BY <1>1, <1>2, FS_EmptySet DEF FeatureTypeInv
  <1>4. \A t \in Trainings : TrainingInv(training[t])
    BY <1>1 DEF TrainingInv
  <1>5. IsFiniteSet(deliveries) /\ Cardinality(deliveries) = 0
    BY <1>1, FS_EmptySet
  <1>6. DeliveredInv
    <2>1. Numbered(deliveries, Cardinality(deliveries))
      BY <1>1, <1>5 DEF Numbered
    <2>2. RowAfter(account, Cardinality(deliveries))
      BY <1>1 DEF RowAfter, Said
    <2>3. QED
      BY <1>1, <1>5, <2>1, <2>2 DEF DeliveredInv
  <1>7. QED
    BY <1>1, <1>3, <1>4, <1>6 DEF FeatureInv, LoneRunInv, NewestAgree, Taking

\* Runs keep what they know when time passes and events arrive.
LEMMA TrainingsKept ==
  ASSUME FeatureInv, period' \in Nat, period <= period', events \subseteq events', UNCHANGED training,
         Cardinality(deliveries)' \in Nat, Cardinality(deliveries) <= Cardinality(deliveries)',
         \A row : \A k \in Nat : k <= Cardinality(deliveries) /\ RowAfter(row, k) => RowAfter(row, k)'
  PROVE  \A t \in Trainings : TrainingInv(training[t])'
  <1> SUFFICES ASSUME NEW t \in Trainings PROVE TrainingInv(training[t])'
    OBVIOUS
  <1>1. TrainingInv(training[t]) /\ training'[t] = training[t]
    BY DEF FeatureInv
  <1>2. training[t].asOf \in Int /\ training[t].asOf < period => training[t].asOf < period'
    BY DEF FeatureInv, FeatureTypeInv
  <1>3. Cardinality(deliveries) \in Nat
    BY DEF FeatureInv, DeliveredInv, Numbered
  <1>4. training[t].told \in Nat /\ training[t].told <= Cardinality(deliveries) => training[t].told <= Cardinality(deliveries)'
    BY <1>3
  <1>5. training[t].pc = "read" => RowAfter(training[t].row, training[t].told)'
    BY <1>1 DEF TrainingInv
  <1>6. training[t].pc \in {"save", "label", "done"} =>
          \E row : RowAfter(row, training[t].told)' /\ training[t].features = Features(training[t].known, row, training[t].asOf)
    BY <1>1 DEF TrainingInv
  <1>7. QED
    BY <1>1, <1>2, <1>4, <1>5, <1>6 DEF TrainingInv

\* When no delivery is processed the row is as it was.
LEMMA DeliveriesRest ==
  ASSUME FeatureInv, UNCHANGED <<account, deliveries>>, events \subseteq events'
  PROVE  /\ DeliveredInv' /\ Cardinality(deliveries)' \in Nat /\ Cardinality(deliveries) <= Cardinality(deliveries)'
         /\ \A row : \A k \in Nat : RowAfter(row, k) => RowAfter(row, k)'
  <1>1. Cardinality(deliveries) \in Nat /\ Cardinality(deliveries)' = Cardinality(deliveries)
    BY DEF FeatureInv, DeliveredInv, Numbered
  <1>2. \A row : \A k \in Nat : RowAfter(row, k) => RowAfter(row, k)'
    BY DEF RowAfter
  <1>3. RowAfter(account, Cardinality(deliveries))'
    BY <1>1, <1>2 DEF FeatureInv, DeliveredInv, RowAfter
  <1>4. DeliveredInv'
    BY <1>1, <1>3 DEF FeatureInv, DeliveredInv
  <1>5. QED
    BY <1>1, <1>2, <1>4

\* The row takes what is delivered, and what it held before is on record.
LEMMA DeliveryTold ==
  ASSUME FeatureAssumption, FeatureInv, NEW e \in ArrivedEvents, Deliver(e), e \in events', events \subseteq events'
  PROVE  /\ DeliveredInv' /\ Cardinality(deliveries)' \in Nat /\ Cardinality(deliveries) <= Cardinality(deliveries)'
         /\ \A row : \A k \in Nat : k <= Cardinality(deliveries) /\ RowAfter(row, k) => RowAfter(row, k)'
  <1> DEFINE c == Cardinality(deliveries)
             q == [event |-> e, k |-> c + 1]
  <1>1. account' = Told(account, e.kind) /\ deliveries' = deliveries \union {q}
    BY DEF Deliver
  <1>2. Numbered(deliveries, c) /\ c \in Nat /\ IsFiniteSet(deliveries)
    BY DEF FeatureInv, DeliveredInv, Numbered
  <1>3. q \in Delivered /\ q.event = e /\ q.k = c + 1
    BY <1>2 DEF Delivered
  <1> HIDE DEF q
  <1>4. \A d \in deliveries : d.k \in Nat /\ d.k <= c
    BY <1>2, DeliveredTypes
  <1>5. q \notin deliveries
    BY <1>2, <1>3, <1>4
  <1>6. IsFiniteSet(deliveries') /\ Cardinality(deliveries)' = c + 1
    BY <1>1, <1>2, <1>5, FS_AddElement
  <1> HIDE DEF c
  <1>7. Numbered(deliveries', c + 1)
    <2>1. deliveries' \in SUBSET Delivered
      BY <1>1, <1>2, <1>3 DEF Numbered
    <2>2. \A d \in deliveries' : d.k <= c + 1
      BY <1>1, <1>2, <1>3, <1>4
    <2>3. \A d, g \in deliveries' : d.k = g.k => d = g
      BY <1>1, <1>2, <1>3, <1>4 DEF Numbered
    <2>4. QED
      BY <1>2, <2>1, <2>2, <2>3 DEF Numbered
  <1>8. ASSUME NEW row, NEW k \in Nat, k <= c, RowAfter(row, k) PROVE RowAfter(row, k)'
    <2>1. ASSUME NEW v \in RowColumns PROVE Said(deliveries \union {q}, k, v, Column(row, v))
      BY <1>2, <1>3, <1>8, SaidStays DEF RowAfter
    <2>2. QED
      BY <1>1, <2>1 DEF RowAfter
  <1>9. e.kind \in EventKinds
    BY EventTypes
  <1>10. /\ e.kind.mrr = {} => account'.mrr = account.mrr
         /\ e.kind.mrr # {} => account'.mrr \in e.kind.mrr
         /\ e.kind.plan = {} => account'.plan = account.plan
         /\ e.kind.plan # {} => account'.plan \in e.kind.plan
    BY <1>1 DEF Told
  <1>11. /\ account'.mrr = AtFirst.mrr \/ \E kind \in EventKinds : account'.mrr \in kind.mrr
         /\ account'.plan = AtFirst.plan \/ \E kind \in EventKinds : account'.plan \in kind.plan
    BY <1>9, <1>10 DEF FeatureInv, DeliveredInv
  <1>12. ASSUME NEW v \in RowColumns PROVE Said(deliveries \union {q}, c + 1, v, Column(account', v))
    <2>1. Said(deliveries, c, v, Column(account, v))
      BY <1>12 DEF FeatureInv, DeliveredInv, RowAfter, c
    <2>2. /\ Says(q.event.kind, v) = {} => Column(account', v) = Column(account, v)
          /\ Says(q.event.kind, v) # {} => Column(account', v) \in Says(q.event.kind, v)
      BY <1>3, <1>10 DEF Says, Column
    <2>3. QED
      BY <1>2, <1>3, <2>1, <2>2, SaidNext
  <1>13. RowAfter(account, Cardinality(deliveries))'
    BY <1>1, <1>6, <1>12 DEF RowAfter
  <1>14. \A d \in deliveries' : d.event \in events' /\ 1 <= d.k
    BY <1>1, <1>2, <1>3 DEF FeatureInv, DeliveredInv
  <1>15. DeliveredInv'
    BY <1>6, <1>7, <1>11, <1>13, <1>14 DEF DeliveredInv
  <1>16. QED
    BY <1>2, <1>6, <1>8, <1>15 DEF c

LEMMA FeatureArrives ==
  ASSUME FeatureAssumption, FeatureInv, EventArrives
  PROVE  FeatureInv'
  <1>0. PICK o \in Occurrences :
          LET f == [n |-> Cardinality(events) + 1, kind |-> o.kind, at |-> o.at]
          IN events' = events \union {f} /\ Deliver(f)
    BY DEF EventArrives
  <1>o. o.kind \in EventKinds /\ o.at \in Int
    BY DEF FeatureAssumption
  <1> DEFINE e == [n |-> Cardinality(events) + 1, kind |-> o.kind, at |-> o.at]
             c == Cardinality(events)
  <1>1. events' = events \union {e} /\ Deliver(e)
    BY <1>0
  <1>2. UNCHANGED <<period, rows, training, abreast>> /\ Deliver(e)
    BY <1>1 DEF Deliver
  <1>3. IsFiniteSet(events) /\ c \in Nat
    BY FS_CardinalityType DEF FeatureInv, FeatureTypeInv
  <1>4. e \in ArrivedEvents /\ e.n = c + 1
    BY <1>o, <1>3 DEF ArrivedEvents
  <1>5. \A f \in events : f.n \in Nat /\ 1 <= f.n /\ f.n <= c
    BY DEF FeatureInv, FeatureTypeInv, ArrivedEvents
  <1>6. e \notin events
    BY <1>3, <1>4, <1>5
  <1>7. events' = events \union {e}
    BY <1>1
  <1> HIDE DEF e, c
  <1>8. IsFiniteSet(events') /\ Cardinality(events') = c + 1
    BY <1>3, <1>6, <1>7, FS_AddElement DEF c
  <1>9. events' \in SUBSET ArrivedEvents /\ \A f \in events' : 1 <= f.n /\ f.n <= Cardinality(events')
    BY <1>3, <1>4, <1>5, <1>7, <1>8 DEF FeatureInv, FeatureTypeInv
  <1>10. \A f, g \in events' : f.n = g.n => f = g
    BY <1>3, <1>4, <1>5, <1>7 DEF FeatureInv, FeatureTypeInv
  <1>11. FeatureTypeInv'
    BY <1>2, <1>8, <1>9, <1>10 DEF FeatureInv, FeatureTypeInv
  <1>12. period' \in Nat /\ period <= period' /\ events \subseteq events' /\ e \in events'
    BY <1>2, <1>7 DEF FeatureInv, FeatureTypeInv
  <1>13. /\ DeliveredInv' /\ Cardinality(deliveries)' \in Nat /\ Cardinality(deliveries) <= Cardinality(deliveries)'
         /\ \A row : \A k \in Nat : k <= Cardinality(deliveries) /\ RowAfter(row, k) => RowAfter(row, k)'
    BY <1>2, <1>4, <1>12, DeliveryTold
  <1>14. \A t \in Trainings : TrainingInv(training[t])'
    BY <1>2, <1>12, <1>13, TrainingsKept
  <1>15. LoneRunInv' /\ NewestAgree'
    BY <1>2 DEF FeatureInv, LoneRunInv, NewestAgree
  <1>16. QED
    BY <1>11, <1>13, <1>14, <1>15 DEF FeatureInv

LEMMA FeatureRepeats ==
  ASSUME FeatureAssumption, FeatureInv, EventRepeats
  PROVE  FeatureInv'
  <1>1. PICK e \in events : Deliver(e) /\ UNCHANGED events
    BY DEF EventRepeats
  <1>2. UNCHANGED <<period, events, rows, training, abreast>>
    BY <1>1 DEF Deliver
  <1>3. FeatureTypeInv' /\ LoneRunInv' /\ NewestAgree'
    BY <1>2 DEF FeatureInv, FeatureTypeInv, LoneRunInv, NewestAgree
  <1>4. period' \in Nat /\ period <= period' /\ events \subseteq events' /\ e \in ArrivedEvents /\ e \in events'
    BY <1>2 DEF FeatureInv, FeatureTypeInv
  <1>5. /\ DeliveredInv' /\ Cardinality(deliveries)' \in Nat /\ Cardinality(deliveries) <= Cardinality(deliveries)'
        /\ \A row : \A k \in Nat : k <= Cardinality(deliveries) /\ RowAfter(row, k) => RowAfter(row, k)'
    BY <1>1, <1>4, DeliveryTold
  <1>6. \A t \in Trainings : TrainingInv(training[t])'
    BY <1>2, <1>4, <1>5, TrainingsKept
  <1>7. QED
    BY <1>3, <1>5, <1>6 DEF FeatureInv

LEMMA FeaturePeriod ==
  ASSUME FeatureAssumption, FeatureInv, PeriodPasses
  PROVE  FeatureInv'
  <1>1. /\ period' = period + 1 /\ period < LastPeriod /\ period \in Nat /\ LastPeriod \in Nat
        /\ UNCHANGED <<events, account, rows, training, deliveries, abreast>>
    BY DEF PeriodPasses, FeatureInv, FeatureTypeInv, FeatureAssumption
  <1>2. period' \in Nat /\ period <= period' /\ events \subseteq events' /\ 1 <= period' /\ period' <= LastPeriod
    BY <1>1
  <1>3. \A n \in Int : n < period => n < period'
    BY <1>1
  <1>4. FeatureTypeInv'
    BY <1>1, <1>2, <1>3 DEF FeatureInv, FeatureTypeInv
  <1>5. /\ DeliveredInv' /\ Cardinality(deliveries)' \in Nat /\ Cardinality(deliveries) <= Cardinality(deliveries)'
        /\ \A row : \A k \in Nat : RowAfter(row, k) => RowAfter(row, k)'
    BY <1>1, <1>2, DeliveriesRest
  <1>6. \A t \in Trainings : TrainingInv(training[t])'
    BY <1>1, <1>2, <1>5, TrainingsKept
  <1>7. LoneRunInv' /\ NewestAgree'
    BY <1>1 DEF FeatureInv, LoneRunInv, NewestAgree
  <1>8. QED
    BY <1>4, <1>5, <1>6, <1>7 DEF FeatureInv

\* A step of one run: what it leaves of the others.
LEMMA TrainingSteps ==
  ASSUME FeatureInv, NEW t \in Trainings, NEW w, training' = [training EXCEPT ![t] = w], TrainingInv(w),
         UNCHANGED <<period, events, account, deliveries>>
  PROVE  /\ training' = [u \in Trainings |-> training'[u]] /\ training'[t] = w
         /\ \A u \in Trainings \ {t} : training'[u] = training[u]
         /\ \A u \in Trainings : TrainingInv(training[u])'
         /\ DeliveredInv'
  <1>1. /\ training' = [u \in Trainings |-> training'[u]] /\ training'[t] = w
        /\ \A u \in Trainings \ {t} : training'[u] = training[u]
    BY DEF FeatureInv, FeatureTypeInv
  <1>2. \A u \in Trainings : TrainingInv(training'[u])
    BY <1>1 DEF FeatureInv
  <1>3. DeliveredInv'
    BY DeliveriesRest
  <1>4. \A row : \A k : RowAfter(row, k)' <=> RowAfter(row, k)
    BY DEF RowAfter
  <1>5. \A u \in Trainings : TrainingInv(training[u])'
    BY <1>2, <1>4 DEF TrainingInv
  <1>6. QED
    BY <1>1, <1>3, <1>5

LEMMA FeatureBegins ==
  ASSUME FeatureAssumption, FeatureInv, NEW t \in Trainings, BeginTraining(t)
  PROVE  FeatureInv'
  <1> DEFINE d == period - TrainedBack
             w == [pc |-> "read", asOf |-> d, row |-> account, told |-> Cardinality(deliveries)]
  <1>1. /\ training[t].pc = "new" /\ training' = [training EXCEPT ![t] = w]
        /\ abreast' = (abreast \/ \E u \in Trainings : training[u].pc \in Taking)
        /\ UNCHANGED <<period, events, account, rows, deliveries>>
    BY DEF BeginTraining
  <1>2. d \in Int /\ d = period - 1 /\ d < period /\ period \in Nat
    BY DEF TrainedBack, FeatureInv, FeatureTypeInv
  <1>3. /\ w.pc = "read" /\ w.asOf = d /\ w.row = account /\ w.told = Cardinality(deliveries)
        /\ w = [pc |-> w.pc, asOf |-> w.asOf, row |-> w.row, told |-> w.told]
    OBVIOUS
  <1> HIDE DEF w
  <1>4. TrainingInv(w)
    <2>1. RowAfter(account, Cardinality(deliveries)) /\ Cardinality(deliveries) \in Nat
      BY DEF FeatureInv, DeliveredInv, Numbered
    <2>2. Cardinality(deliveries) <= Cardinality(deliveries)
      BY <2>1
    <2>3. QED
      BY <1>2, <1>3, <2>1, <2>2 DEF TrainingInv
  <1>5. /\ training' = [u \in Trainings |-> training'[u]] /\ training'[t] = w
        /\ \A u \in Trainings \ {t} : training'[u] = training[u]
        /\ \A u \in Trainings : TrainingInv(training[u])'
        /\ DeliveredInv'
    BY <1>1, <1>4, TrainingSteps
  <1>6. FeatureTypeInv'
    BY <1>1, <1>5 DEF FeatureInv, FeatureTypeInv
  <1>7. \A r \in rows : r.asOf <= d
    BY <1>2 DEF FeatureInv, FeatureTypeInv
  <1>8. LoneRunInv' /\ NewestAgree'
    BY <1>1, <1>3, <1>5, <1>7 DEF FeatureInv, LoneRunInv, NewestAgree, Taking
  <1>9. QED
    BY <1>5, <1>6, <1>8 DEF FeatureInv

LEMMA FeatureExtracts ==
  ASSUME FeatureAssumption, FeatureInv, NEW t \in Trainings, ExtractFeatures(t)
  PROVE  FeatureInv'
  <1> DEFINE r == training[t]
             w == [pc |-> "save", asOf |-> r.asOf, told |-> r.told, known |-> events,
                   features |-> Features(events, r.row, r.asOf)]
  <1>1. /\ r.pc = "read" /\ TrainingInv(r) /\ training' = [training EXCEPT ![t] = w]
        /\ UNCHANGED <<period, events, account, rows, deliveries, abreast>>
    BY DEF ExtractFeatures, FeatureInv
  <1>2. /\ w.pc = "save" /\ w.asOf = r.asOf /\ w.told = r.told /\ w.known = events
        /\ w.features = Features(events, r.row, r.asOf)
        /\ w = [pc |-> w.pc, asOf |-> w.asOf, told |-> w.told, known |-> w.known, features |-> w.features]
    OBVIOUS
  <1> HIDE DEF w
  <1>3. TrainingInv(w)
    <2>1. \E row : RowAfter(row, w.told) /\ w.features = Features(w.known, row, w.asOf)
      BY <1>1, <1>2 DEF TrainingInv
    <2>2. QED
      BY <1>1, <1>2, <2>1 DEF TrainingInv
  <1>4. /\ training' = [u \in Trainings |-> training'[u]] /\ training'[t] = w
        /\ \A u \in Trainings \ {t} : training'[u] = training[u]
        /\ \A u \in Trainings : TrainingInv(training[u])'
        /\ DeliveredInv'
    BY <1>1, <1>3, TrainingSteps
  <1>5. FeatureTypeInv'
    BY <1>1, <1>4 DEF FeatureInv, FeatureTypeInv
  <1>6. LoneRunInv' /\ NewestAgree'
    BY <1>1, <1>2, <1>4 DEF FeatureInv, LoneRunInv, NewestAgree, Taking
  <1>7. QED
    BY <1>4, <1>5, <1>6 DEF FeatureInv

LEMMA FeatureSaves ==
  ASSUME FeatureAssumption, FeatureInv, NEW t \in Trainings, SaveFeatures(t)
  PROVE  FeatureInv'
  <1> DEFINE w == [pc |-> "label", asOf |-> training[t].asOf, told |-> training[t].told,
                   known |-> training[t].known, features |-> training[t].features]
             c == Cardinality(rows)
             q == [by |-> t, asOf |-> training[t].asOf, features |-> training[t].features, stored |-> c + 1]
  <1>1. training[t].pc = "save" /\ TrainingInv(training[t])
    BY DEF SaveFeatures, FeatureInv
  <1>2. training[t] = [pc |-> "save", asOf |-> training[t].asOf, told |-> training[t].told,
                       known |-> training[t].known, features |-> training[t].features]
    BY <1>1 DEF TrainingInv
  <1>3. [training[t] EXCEPT !.pc = "label"] = w
    BY <1>2
  <1>4. /\ training' = [training EXCEPT ![t] = w] /\ rows' = rows \union {q}
        /\ UNCHANGED <<period, events, account, deliveries, abreast>>
    BY <1>3 DEF SaveFeatures
  <1>5. /\ w.pc = "label" /\ w.asOf = training[t].asOf /\ w.told = training[t].told
        /\ w.features = training[t].features /\ w.known = training[t].known
        /\ w = [pc |-> w.pc, asOf |-> w.asOf, told |-> w.told, known |-> w.known, features |-> w.features]
        /\ q.by = t /\ q.asOf = training[t].asOf /\ q.stored = c + 1
    OBVIOUS
  <1> HIDE DEF w, q
  <1>6. TrainingInv(w)
    BY <1>1, <1>5 DEF TrainingInv
  <1>7. IsFiniteSet(rows) /\ c \in Nat
    BY FS_CardinalityType DEF FeatureInv, FeatureTypeInv
  <1>8. \A r \in rows : r.stored \in Nat /\ r.stored <= c
    BY DEF FeatureInv, FeatureTypeInv
  <1>9. q \notin rows
    BY <1>5, <1>7, <1>8
  <1> HIDE DEF c
  <1>10. IsFiniteSet(rows') /\ Cardinality(rows') = c + 1
    BY <1>4, <1>7, <1>9, FS_AddElement DEF c
  <1>11. /\ training' = [u \in Trainings |-> training'[u]] /\ training'[t] = w
         /\ \A u \in Trainings \ {t} : training'[u] = training[u]
         /\ \A u \in Trainings : TrainingInv(training[u])'
         /\ DeliveredInv'
    BY <1>4, <1>6, TrainingSteps
  <1>12. q.asOf \in Int /\ q.asOf < period
    BY <1>1, <1>5 DEF TrainingInv
  <1>13. \A r \in rows' : /\ r.by \in Trainings /\ r.asOf \in Int /\ r.asOf < period'
                          /\ r.stored \in Nat /\ r.stored <= Cardinality(rows')
    BY <1>4, <1>5, <1>7, <1>8, <1>10, <1>12 DEF FeatureInv, FeatureTypeInv
  <1>14. FeatureTypeInv'
    BY <1>4, <1>10, <1>11, <1>13 DEF FeatureInv, FeatureTypeInv
  <1>15. ASSUME ~ abreast
         PROVE  /\ \A u \in Trainings : training[u].pc \in Taking => u = t
                /\ \A r \in rows : r.asOf <= q.asOf
    BY <1>1, <1>5, <1>15 DEF FeatureInv, LoneRunInv, Taking
  <1>16. LoneRunInv'
    <2> SUFFICES ASSUME ~ abreast' PROVE LoneRunInv'
      BY DEF LoneRunInv
    <2>1. \A u \in Trainings : training'[u].pc \notin Taking
      BY <1>4, <1>5, <1>11, <1>15 DEF Taking
    <2>2. QED
      BY <2>1 DEF LoneRunInv
  <1>17. NewestAgree'
    <2> SUFFICES ASSUME ~ abreast', NEW r \in rows', NEW p \in rows', r.stored > p.stored
                 PROVE  r.asOf >= p.asOf
      BY DEF NewestAgree
    <2>1. CASE r \in rows /\ p \in rows
      BY <1>4, <2>1 DEF FeatureInv, NewestAgree
    <2>2. CASE r = q /\ p \in rows
      BY <1>4, <1>12, <1>13, <1>15, <2>2
    <2>3. CASE r \in rows /\ p = q
      BY <1>5, <1>7, <1>8, <2>3
    <2>4. CASE r = q /\ p = q
      BY <1>12, <2>4
    <2>5. QED
      BY <1>4, <2>1, <2>2, <2>3, <2>4
  <1>18. QED
    BY <1>11, <1>14, <1>16, <1>17 DEF FeatureInv

LEMMA FeatureLabels ==
  ASSUME FeatureAssumption, FeatureInv, NEW t \in Trainings, LabelFeatures(t)
  PROVE  FeatureInv'
  <1> DEFINE r == training[t]
             churn == Ahead(events, "subscription_canceled", r.asOf, ChurnAhead)
             growth == Ahead(events, "seats_added", r.asOf, ExpansionAhead)
             w == [pc |-> "done", asOf |-> r.asOf, told |-> r.told, features |-> r.features, known |-> r.known,
                   churned |-> churn # {}, heard |-> events, by |-> period,
                   expanded |-> growth # {} \/ r.features.event.seats > 0 \/ r.features.event.slope > 12]
  <1>1. /\ r.pc = "label" /\ TrainingInv(r) /\ period \in Nat
        /\ training' = [training EXCEPT ![t] = w] /\ UNCHANGED <<period, events, account, rows, deliveries, abreast>>
    BY DEF LabelFeatures, FeatureInv, FeatureTypeInv
  <1>2. /\ w.pc = "done" /\ w.asOf = r.asOf /\ w.told = r.told /\ w.features = r.features /\ w.known = r.known
        /\ w.churned = (churn # {}) /\ w.heard = events /\ w.by = period
    OBVIOUS
  <1>3. r.asOf + 1 <= period
    BY <1>1 DEF TrainingInv
  <1> HIDE DEF w
  <1>4. TrainingInv(w)
    BY <1>1, <1>2, <1>3 DEF TrainingInv, ChurnAhead
  <1>5. /\ training' = [u \in Trainings |-> training'[u]] /\ training'[t] = w
        /\ \A u \in Trainings \ {t} : training'[u] = training[u]
        /\ \A u \in Trainings : TrainingInv(training[u])'
        /\ DeliveredInv'
    BY <1>1, <1>4, TrainingSteps
  <1>6. FeatureTypeInv'
    BY <1>1, <1>5 DEF FeatureInv, FeatureTypeInv
  <1>7. LoneRunInv' /\ NewestAgree'
    BY <1>1, <1>2, <1>5 DEF FeatureInv, LoneRunInv, NewestAgree, Taking
  <1>8. QED
    BY <1>5, <1>6, <1>7 DEF FeatureInv

LEMMA FeatureStep == FeatureAssumption /\ FeatureInv /\ [FeatureNext]_featureVars => FeatureInv'
  <1>1. FeatureInv /\ UNCHANGED featureVars => FeatureInv'
    <2> SUFFICES ASSUME FeatureInv, UNCHANGED featureVars PROVE FeatureInv'
      OBVIOUS
    <2>1. UNCHANGED <<period, events, account, rows, training, deliveries, abreast>>
      BY DEF featureVars
    <2>2. FeatureTypeInv' /\ LoneRunInv' /\ NewestAgree' /\ period' \in Nat /\ period <= period' /\ events \subseteq events'
      BY <2>1 DEF FeatureInv, FeatureTypeInv, LoneRunInv, NewestAgree
    <2>3. /\ DeliveredInv' /\ Cardinality(deliveries)' \in Nat /\ Cardinality(deliveries) <= Cardinality(deliveries)'
          /\ \A row : \A k \in Nat : RowAfter(row, k) => RowAfter(row, k)'
      BY <2>1, <2>2, DeliveriesRest
    <2>4. QED
      BY <2>1, <2>2, <2>3, TrainingsKept DEF FeatureInv
  <1>2. QED
    BY <1>1, FeatureArrives, FeatureRepeats, FeaturePeriod, FeatureBegins, FeatureExtracts, FeatureSaves, FeatureLabels
       DEF FeatureNext

LEMMA FeatureMeans == FeatureAssumption /\ FeatureInv => FeaturesSound
  <1> SUFFICES ASSUME FeatureAssumption, FeatureInv PROVE FeaturesSound
    OBVIOUS
  <1>1. FeatureTypeOK
    <2>1. Cardinality(events) \in Nat /\ \A e \in events : e.n \in Nat
      BY FS_CardinalityType DEF FeatureInv, FeatureTypeInv, ArrivedEvents
    <2>2. \A e \in events : e.kind \in EventKinds /\ e.at \in Int /\ e.n \in 1 .. Cardinality(events)
      BY <2>1 DEF FeatureInv, FeatureTypeInv, ArrivedEvents
    <2>3. period \in 1 .. LastPeriod
      BY DEF FeatureInv, FeatureTypeInv, FeatureAssumption
    <2>4. \A d \in deliveries : d.event \in events /\ d.k \in 1 .. Cardinality(deliveries)
      BY DeliveredTypes DEF FeatureInv, DeliveredInv
    <2>5. QED
      BY <2>2, <2>3, <2>4 DEF FeatureInv, FeatureTypeInv, DeliveredInv, FeatureTypeOK, TrainingInv
  <1>2. ASSUME NEW t \in Trained
        PROVE  /\ training[t].pc = "done" /\ TrainingInv(training[t])
               /\ training[t].known \subseteq events /\ training[t].heard \subseteq events
               /\ training[t].asOf \in Int /\ training[t].told \in Nat
               /\ \E row : /\ RowAfter(row, training[t].told)
                           /\ training[t].features = Features(training[t].known, row, training[t].asOf)
    BY DEF Trained, FeatureInv, TrainingInv
  <1>3. AsOfStands
    <2> SUFFICES ASSUME NEW t \in Trained
                 PROVE  LET r == training[t]
                            now_ == Features(events, account, r.asOf)
                            since == {d.event.kind : d \in {d \in deliveries : d.k > r.told}}
                        IN /\ now_.event # r.features.event => Within(events \ r.known, r.asOf) # {}
                           /\ now_.base.mrr # r.features.base.mrr => \E kind \in since : kind.mrr # {}
                           /\ now_.base.premium # r.features.base.premium => \E kind \in since : kind.plan # {}
                           /\ now_.base.age = r.features.base.age
      BY DEF AsOfStands
    <2> DEFINE r == training[t]
               now_ == Features(events, account, r.asOf)
               c == Cardinality(deliveries)
    <2>1. PICK row : RowAfter(row, r.told) /\ r.features = Features(r.known, row, r.asOf)
      BY <1>2
    <2>2. /\ r.features.base.mrr = row.mrr /\ r.features.base.premium = (row.plan = "premium")
          /\ now_.base.mrr = account.mrr /\ now_.base.premium = (account.plan = "premium")
          /\ now_.base.age = r.features.base.age
          /\ now_.event = EventFeatures(events, r.asOf) /\ r.features.event = EventFeatures(r.known, r.asOf)
      BY <2>1 DEF Features, BaseFeatures
    <2>3. ASSUME Within(events \ r.known, r.asOf) = {} PROVE now_.event = r.features.event
      <3>1. Within(events, r.asOf) = Within(r.known, r.asOf)
        BY <1>2, <2>3 DEF Within
      <3>2. QED
        BY <2>2, <3>1 DEF EventFeatures
    <2>4. /\ Numbered(deliveries, c) /\ c \in Nat /\ r.told \in Nat /\ r.told <= c
          /\ RowAfter(account, c)
      BY <1>2 DEF FeatureInv, DeliveredInv, Numbered, TrainingInv
    <2> HIDE DEF now_, r, c
    <2>5. ASSUME NEW v \in RowColumns, Column(account, v) # Column(row, v)
          PROVE  \E d \in deliveries : d.k > r.told /\ Says(d.event.kind, v) # {}
      <3>1. Said(deliveries, r.told, v, Column(row, v)) /\ Said(deliveries, c, v, Column(account, v))
        BY <2>1, <2>4, <2>5 DEF RowAfter
      <3>2. QED
        BY <2>4, <2>5, <3>1, SaidAnew
    <2>6. account.mrr # row.mrr => \E d \in deliveries : d.k > r.told /\ d.event.kind.mrr # {}
      BY <2>5 DEF RowColumns, Column, Says
    <2>7. account.plan # row.plan => \E d \in deliveries : d.k > r.told /\ d.event.kind.plan # {}
      BY <2>5 DEF RowColumns, Column, Says
    <2>8. /\ now_.base.mrr # r.features.base.mrr =>
               \E kind \in {d.event.kind : d \in {d \in deliveries : d.k > r.told}} : kind.mrr # {}
          /\ now_.base.premium # r.features.base.premium =>
               \E kind \in {d.event.kind : d \in {d \in deliveries : d.k > r.told}} : kind.plan # {}
      BY <2>2, <2>6, <2>7
    <2>9. QED
      BY <2>2, <2>3, <2>8 DEF now_, r
  <1>4. AccountOfDate
    <2> SUFFICES ASSUME NEW t \in Trained
                 PROVE  LET r == training[t]
                            priced == {d \in deliveries : d.k <= r.told /\ d.event.kind.mrr # {}}
                            planned == {d \in deliveries : d.k <= r.told /\ d.event.kind.plan # {}}
                        IN /\ InTime(priced, r.asOf) =>
                                \/ LastWord(priced, r.asOf) = {} /\ r.features.base.mrr = AtFirst.mrr
                                \/ \E d \in LastWord(priced, r.asOf) : r.features.base.mrr \in d.event.kind.mrr
                           /\ InTime(planned, r.asOf) =>
                                (r.features.base.premium <=>
                                   \E d \in LastWord(planned, r.asOf) : "premium" \in d.event.kind.plan)
      BY DEF AccountOfDate
    <2> DEFINE r == training[t]
               priced == {d \in deliveries : d.k <= r.told /\ d.event.kind.mrr # {}}
               planned == {d \in deliveries : d.k <= r.told /\ d.event.kind.plan # {}}
               c == Cardinality(deliveries)
    <2>1. PICK row : RowAfter(row, r.told) /\ r.features = Features(r.known, row, r.asOf)
      BY <1>2
    <2>2. r.features.base.mrr = row.mrr /\ r.features.base.premium = (row.plan = "premium")
      BY <2>1 DEF Features, BaseFeatures
    <2>3. Numbered(deliveries, c) /\ r.told \in Nat /\ r.asOf \in Int
      BY <1>2 DEF FeatureInv, DeliveredInv
    <2>4. \A d, g \in deliveries : d.event.n = g.event.n => d.event = g.event
      BY DEF FeatureInv, DeliveredInv, FeatureTypeInv
    <2>5. priced = Naming(deliveries, r.told, "mrr") /\ planned = Naming(deliveries, r.told, "plan")
      BY DEF Naming, Says
    <2>6. Said(deliveries, r.told, "mrr", row.mrr) /\ Said(deliveries, r.told, "plan", row.plan)
      BY <2>1 DEF RowAfter, RowColumns, Column
    <2> HIDE DEF r, priced, planned, c
    <2>7. InTime(priced, r.asOf) => WordIs(priced, r.asOf, "mrr", row.mrr)
      BY <2>3, <2>4, <2>5, <2>6, SaidOfDate
    <2>8. InTime(planned, r.asOf) => WordIs(planned, r.asOf, "plan", row.plan)
      BY <2>3, <2>4, <2>5, <2>6, SaidOfDate
    <2>9. InTime(priced, r.asOf) =>
            \/ LastWord(priced, r.asOf) = {} /\ r.features.base.mrr = AtFirst.mrr
            \/ \E d \in LastWord(priced, r.asOf) : r.features.base.mrr \in d.event.kind.mrr
      BY <2>2, <2>7 DEF WordIs, Column, Says
    <2>10. InTime(planned, r.asOf) =>
             (row.plan = "premium" <=> \E d \in LastWord(planned, r.asOf) : "premium" \in d.event.kind.plan)
      BY <2>8 DEF WordIs, Column, Says, AtFirst
    <2>11. QED
      BY <2>2, <2>9, <2>10 DEF r, priced, planned
  <1>5. ChurnSettled
    <2> SUFFICES ASSUME NEW t \in Trained
                 PROVE  LET r == training[t]
                            now_ == Ahead(events, "subscription_canceled", r.asOf, ChurnAhead)
                        IN /\ now_ \cap Within(events, r.asOf) = {}
                           /\ r.asOf + ChurnAhead <= r.by
                           /\ r.churned = (now_ # {}) \/ now_ \ r.heard # {}
      BY DEF ChurnSettled
    <2> DEFINE r == training[t]
               A == Ahead(events, "subscription_canceled", r.asOf, ChurnAhead)
               H == Ahead(r.heard, "subscription_canceled", r.asOf, ChurnAhead)
    <2>1. /\ r.heard \subseteq events /\ r.asOf \in Int /\ r.asOf + ChurnAhead <= r.by
          /\ r.churned = (H # {})
      BY <1>2 DEF TrainingInv
    <2>2. A \cap Within(events, r.asOf) = {}
      <3>1. \A e \in events : e.at \in Int
        BY EventTypes DEF FeatureInv, FeatureTypeInv
      <3>2. \A e \in A : e \in events /\ e.at > r.asOf
        BY DEF Ahead, OfType
      <3>3. \A e \in Within(events, r.asOf) : e.at <= r.asOf
        BY DEF Within
      <3> HIDE DEF A, r
      <3>4. QED
        BY <2>1, <3>1, <3>2, <3>3
    <2>3. H \subseteq A /\ (A \ r.heard = {} => A \subseteq H)
      BY <2>1 DEF Ahead, OfType
    <2> HIDE DEF A, H
    <2>4. r.churned = (A # {}) \/ A \ r.heard # {}
      BY <2>1, <2>3
    <2>5. QED
      BY <2>1, <2>2, <2>4 DEF A
  <1>6. FeaturesSensible
    <2> SUFFICES ASSUME NEW t \in Trained
                 PROVE  SensibleFeatures(training[t].features.event, training[t].known, training[t].asOf)
      BY DEF FeaturesSensible, SensibleFeatures
    <2>1. IsFiniteSet(events) /\ Cardinality(events) \in Nat /\ events \in SUBSET ArrivedEvents
      BY FS_CardinalityType DEF FeatureInv, FeatureTypeInv
    <2>2. IsFiniteSet(training[t].known) /\ training[t].known \in SUBSET ArrivedEvents
      BY <1>2, <2>1, FS_Subset
    <2>3. \A e \in training[t].known : e.n <= Cardinality(events)
      BY <1>2 DEF FeatureInv, FeatureTypeInv
    <2>4. training[t].features.event = EventFeatures(training[t].known, training[t].asOf)
      <3>1. PICK row : training[t].features = Features(training[t].known, row, training[t].asOf)
        BY <1>2
      <3>2. QED
        BY <3>1 DEF Features
    <2>5. QED
      BY <1>2, <2>1, <2>2, <2>3, <2>4, FeaturesAreSensible
  <1>7. QED
    BY <1>1, <1>3, <1>4, <1>5, <1>6 DEF FeaturesSound, FeatureInv

\* What events told features as of a date stands, whatever arrives later of later days; `mrr' and plan
\* are of the last delivery, and of the date if deliveries came in time; a churn label is of days that
\* are over; and features speak of the events that made them (ml/features.py, ml/train.py).
THEOREM FeaturesAreSound == FeatureInit /\ [][FeatureNext]_featureVars => []FeaturesSound
  BY FeatureAssumption, FeatureInitially, FeatureStep, FeatureMeans, PTL

---------------------------------------------------------------------------
(***************************************************************************)
(* Sums over finite sets                                                   *)
(***************************************************************************)

\* What holds of a set if it holds of the set without any one of its elements holds of every
\* subset of a finite set.
LEMMA OneByOne ==
  ASSUME NEW S, IsFiniteSet(S), NEW Good,
         \A s \in SUBSET S : (\A e \in s : s \ {e} \in Good) => s \in Good
  PROVE  \A s \in SUBSET S : s \in Good
  <1> DEFINE N == {n \in Nat : \E s \in SUBSET S : s \notin Good /\ Cardinality(s) = n}
  <1>1. SUFFICES ASSUME NEW s \in SUBSET S, s \notin Good
                 PROVE  FALSE
    OBVIOUS
  <1>2. \A t \in SUBSET S : IsFiniteSet(t) /\ Cardinality(t) \in Nat
    BY FS_Subset, FS_CardinalityType
  <1>3. N # {}
    BY <1>1, <1>2
  <1>4. PICK m \in N : \A n \in N : m <= n
    <2> HIDE DEF N
    <2>1. N \in SUBSET Nat
      BY DEF N
    <2>2. QED
      BY <1>3, <2>1, LeastOfNumbers
  <1>5. PICK t \in SUBSET S : t \notin Good /\ Cardinality(t) = m
    OBVIOUS
  <1>6. ASSUME NEW e \in t PROVE t \ {e} \in Good
    <2>1. Cardinality(t \ {e}) = m - 1 /\ t \ {e} \in SUBSET S
      BY <1>2, <1>5, <1>6, FS_RemoveElement
    <2>2. m - 1 \in Nat
      BY <1>2, <2>1
    <2>3. CASE t \ {e} \notin Good
      <3>1. m - 1 \in N
        BY <2>1, <2>2, <2>3
      <3>2. m <= m - 1
        BY <1>4, <3>1
      <3>3. QED
        BY <3>2, <2>2
    <2>4. QED
      BY <2>3
  <1>7. QED
    BY <1>5, <1>6

AnyOf(s) == CHOOSE e \in s : TRUE

IsSum(h, f, S) ==
  h = [s \in SUBSET S |-> IF s = {} THEN 0 ELSE f[AnyOf(s)] + h[s \ {AnyOf(s)}]]

Total(f, S) == (CHOOSE h : IsSum(h, f, S))[S]

LEMMA AnyIsIn ==
  ASSUME NEW s, s # {}
  PROVE  AnyOf(s) \in s
  BY DEF AnyOf

LEMMA SumUnfolds ==
  ASSUME NEW S, NEW f, NEW h, IsSum(h, f, S), NEW s \in SUBSET S
  PROVE  h[s] = IF s = {} THEN 0 ELSE f[AnyOf(s)] + h[s \ {AnyOf(s)}]
  BY DEF IsSum

LEMMA SumExists ==
  ASSUME NEW S, IsFiniteSet(S), NEW f
  PROVE  \E h : IsSum(h, f, S)
  <1> DEFINE Up(n) == {s \in SUBSET S : Cardinality(s) <= n}
             Fits(h, n) == h = [s \in Up(n) |-> IF s = {} THEN 0 ELSE f[AnyOf(s)] + h[s \ {AnyOf(s)}]]
             N == {n \in Nat : ~ \E h : Fits(h, n)}
  <1>1. \A s \in SUBSET S : IsFiniteSet(s) /\ Cardinality(s) \in Nat
    BY FS_Subset, FS_CardinalityType
  <1>2. \A s \in SUBSET S : s # {} =>
          AnyOf(s) \in s /\ s \ {AnyOf(s)} \in SUBSET S /\ Cardinality(s \ {AnyOf(s)}) = Cardinality(s) - 1
    BY <1>1, AnyIsIn, FS_RemoveElement
  <1>3. \A s \in SUBSET S : Cardinality(s) = 0 <=> s = {}
    BY <1>1, FS_EmptySet
  <1>4. \E h : Fits(h, 0)
    <2>1. \A s \in Up(0) : s = {}
      BY <1>1, <1>3
    <2>2. Fits([s \in Up(0) |-> 0], 0)
      BY <2>1
    <2>3. QED
      BY <2>2
  <1>5. ASSUME NEW n \in Nat, NEW h, Fits(h, n)
        PROVE  \E g : Fits(g, n + 1)
    <2> DEFINE g == [s \in Up(n + 1) |-> IF Cardinality(s) <= n THEN h[s] ELSE f[AnyOf(s)] + h[s \ {AnyOf(s)}]]
    <2>1. ASSUME NEW s \in Up(n + 1)
          PROVE  g[s] = IF s = {} THEN 0 ELSE f[AnyOf(s)] + g[s \ {AnyOf(s)}]
      <3>1. s \in SUBSET S /\ Cardinality(s) \in Nat /\ Cardinality(s) <= n + 1
        BY <1>1, <2>1
      <3>2. CASE s = {}
        <4>1. Cardinality(s) = 0
          BY <1>3, <3>1, <3>2
        <4>2. s \in Up(n)
          BY <3>1, <4>1
        <4>3. h[s] = 0
          BY <1>5, <3>2, <4>2
        <4>4. QED
          BY <3>2, <4>1, <4>3
      <3>3. CASE s # {}
        <4> DEFINE r == s \ {AnyOf(s)}
        <4>1. r \in SUBSET S /\ Cardinality(r) = Cardinality(s) - 1
          BY <1>2, <3>1, <3>3
        <4>2. Cardinality(r) <= n
          BY <3>1, <4>1
        <4>3. r \in Up(n + 1) /\ Cardinality(r) \in Nat
          BY <1>1, <4>1, <4>2
        <4>4. g[r] = h[r]
          BY <4>2, <4>3
        <4>5. CASE Cardinality(s) <= n
          <5>1. s \in Up(n)
            BY <3>1, <4>5
          <5>2. h[s] = f[AnyOf(s)] + h[r]
            BY <1>5, <3>3, <5>1
          <5>3. QED
            BY <3>3, <4>4, <4>5, <5>2
        <4>6. CASE ~ (Cardinality(s) <= n)
          BY <3>3, <4>4, <4>6
        <4>7. QED
          BY <4>5, <4>6
      <3>4. QED
        BY <3>2, <3>3
    <2>2. g = [s \in Up(n + 1) |-> g[s]]
      OBVIOUS
    <2> HIDE DEF g
    <2>3. Fits(g, n + 1)
      BY <2>1, <2>2
    <2>4. QED
      BY <2>3
  <1>6. N = {}
    <2>1. SUFFICES ASSUME N # {} PROVE FALSE
      OBVIOUS
    <2>2. PICK m \in N : \A n \in N : m <= n
      <3> HIDE DEF N
      <3>1. N \in SUBSET Nat
        BY DEF N
      <3>2. QED
        BY <2>1, <3>1, LeastOfNumbers
    <2> HIDE DEF Fits
    <2>3. m # 0
      BY <1>4
    <2>4. m - 1 \in Nat /\ m - 1 \notin N
      BY <2>2, <2>3
    <2>5. \E h : Fits(h, m - 1)
      BY <2>4
    <2>6. \E g : Fits(g, (m - 1) + 1)
      BY <1>5, <2>4, <2>5
    <2>7. QED
      BY <2>6
  <1>7. PICK h : Fits(h, Cardinality(S))
    BY <1>1, <1>6
  <1>8. Up(Cardinality(S)) = SUBSET S
    <2>1. \A s \in SUBSET S : Cardinality(s) <= Cardinality(S)
      BY FS_Subset
    <2>2. QED
      BY <2>1
  <1>9. QED
    BY <1>7, <1>8 DEF IsSum

LEMMA TotalIs ==
  ASSUME NEW S, IsFiniteSet(S), NEW f
  PROVE  \E h : IsSum(h, f, S) /\ Total(f, S) = h[S]
  BY SumExists DEF Total

\* A part of one sum is the sum over the part.
LEMMA SumsAgree ==
  ASSUME NEW S, IsFiniteSet(S), NEW f, NEW h, IsSum(h, f, S),
         NEW R \in SUBSET S, NEW g, IsSum(g, f, R)
  PROVE  \A s \in SUBSET R : h[s] = g[s]
  <1> DEFINE Good == {s \in SUBSET R : h[s] = g[s]}
  <1>1. IsFiniteSet(R)
    BY FS_Subset
  <1>2. ASSUME NEW s \in SUBSET R, \A e \in s : s \ {e} \in Good
        PROVE  h[s] = g[s]
    <2>1. CASE s = {}
      <3>1. h[s] = 0 /\ g[s] = 0
        BY <2>1, SumUnfolds, s \in SUBSET S
      <3>2. QED
        BY <3>1
    <2>2. CASE s # {}
      <3>1. h[s] = f[AnyOf(s)] + h[s \ {AnyOf(s)}]
        <4>1. s \in SUBSET S
          OBVIOUS
        <4>2. QED
          BY <2>2, <4>1, SumUnfolds
      <3>0. g[s] = f[AnyOf(s)] + g[s \ {AnyOf(s)}]
        BY <2>2 DEF IsSum
      <3>2. h[s \ {AnyOf(s)}] = g[s \ {AnyOf(s)}]
        BY <1>2, <2>2, AnyIsIn
      <3>3. QED
        BY <3>0, <3>1, <3>2
    <2>3. QED
      BY <2>1, <2>2
  <1>3. \A s \in SUBSET R : s \in Good
    <2>1. \A s \in SUBSET R : (\A e \in s : s \ {e} \in Good) => s \in Good
      BY <1>2
    <2> HIDE DEF Good
    <2>2. QED
      BY <1>1, <2>1, OneByOne
  <1>4. QED
    BY <1>3

Summable(f, S) == IsFiniteSet(S) /\ \A e \in S : f[e] \in Int

LEMMA SumIsWhole ==
  ASSUME NEW S, NEW f, Summable(f, S), NEW h, IsSum(h, f, S)
  PROVE  \A s \in SUBSET S : h[s] \in Int
  <1> DEFINE Good == {s \in SUBSET S : h[s] \in Int}
  <1>1. ASSUME NEW s \in SUBSET S, \A e \in s : s \ {e} \in Good
        PROVE  h[s] \in Int
    <2>1. CASE s = {}
      BY <2>1, SumUnfolds
    <2>2. CASE s # {}
      <3>1. h[s] = f[AnyOf(s)] + h[s \ {AnyOf(s)}]
        BY <2>2, SumUnfolds
      <3>2. h[s \ {AnyOf(s)}] \in Int /\ f[AnyOf(s)] \in Int
        BY <1>1, <2>2, AnyIsIn DEF Summable
      <3>3. QED
        BY <3>1, <3>2
    <2>3. QED
      BY <2>1, <2>2
  <1>2. \A s \in SUBSET S : (\A e \in s : s \ {e} \in Good) => s \in Good
    BY <1>1
  <1>3. IsFiniteSet(S)
    BY DEF Summable
  <1> HIDE DEF Good
  <1>4. \A s \in SUBSET S : s \in Good
    BY <1>2, <1>3, OneByOne
  <1>5. QED
    BY <1>4 DEF Good

\* The order in which elements are taken does not matter.
LEMMA SumTakes ==
  ASSUME NEW S, NEW f, Summable(f, S), NEW h, IsSum(h, f, S)
  PROVE  \A s \in SUBSET S : \A e \in s : h[s] = f[e] + h[s \ {e}]
  <1> DEFINE Good == {s \in SUBSET S : \A e \in s : h[s] = f[e] + h[s \ {e}]}
  <1>1. ASSUME NEW s \in SUBSET S, \A e \in s : s \ {e} \in Good, NEW e \in s
        PROVE  h[s] = f[e] + h[s \ {e}]
    <2> DEFINE a == AnyOf(s)
    <2>1. a \in s /\ h[s] = f[a] + h[s \ {a}]
      BY AnyIsIn, SumUnfolds
    <2>2. CASE e = a
      BY <2>1, <2>2
    <2>3. CASE e # a
      <3>1. h[s \ {a}] = f[e] + h[(s \ {a}) \ {e}]
        BY <1>1, <2>1, <2>3
      <3>2. h[s \ {e}] = f[a] + h[(s \ {e}) \ {a}]
        BY <1>1, <2>1, <2>3
      <3>3. (s \ {e}) \ {a} = (s \ {a}) \ {e}
        OBVIOUS
      <3>4. h[(s \ {a}) \ {e}] \in Int /\ f[a] \in Int /\ f[e] \in Int
        BY <2>1, SumIsWhole, (s \ {a}) \ {e} \in SUBSET S DEF Summable
      <3>5. h[s \ {e}] = f[a] + h[(s \ {a}) \ {e}]
        BY <3>2, <3>3
      <3> HIDE DEF a
      <3>6. \A i, j, k \in Int : i + (j + k) = j + (i + k)
        OBVIOUS
      <3>7. f[a] + (f[e] + h[(s \ {a}) \ {e}]) = f[e] + (f[a] + h[(s \ {a}) \ {e}])
        BY <3>4, <3>6
      <3>8. h[s] = f[a] + h[s \ {a}]
        BY <2>1
      <3>9. QED
        BY <3>1, <3>5, <3>7, <3>8
    <2>4. QED
      BY <2>2, <2>3
  <1>2. \A s \in SUBSET S : (\A e \in s : s \ {e} \in Good) => s \in Good
    BY <1>1
  <1>3. IsFiniteSet(S)
    BY DEF Summable
  <1> HIDE DEF Good
  <1>4. \A s \in SUBSET S : s \in Good
    BY <1>2, <1>3, OneByOne
  <1>5. QED
    BY <1>4 DEF Good

\* What holds of the empty set, and of a set with one more element if of the set without, holds
\* of a finite set.
LEMMA OneMoreEach ==
  ASSUME NEW S, IsFiniteSet(S), NEW Good, {} \in Good,
         \A s \in SUBSET S : \A e \in S \ s : s \in Good => s \union {e} \in Good
  PROVE  S \in Good
  <1>1. ASSUME NEW s \in SUBSET S, \A e \in s : s \ {e} \in Good
        PROVE  s \in Good
    <2>1. CASE s = {}
      BY <2>1
    <2>2. CASE s # {}
      <3>1. PICK e \in s : TRUE
        BY <2>2
      <3>2. s \ {e} \in Good /\ s \ {e} \in SUBSET S /\ e \in S \ (s \ {e})
        BY <1>1, <3>1
      <3>3. (s \ {e}) \union {e} \in Good
        BY <3>2
      <3>4. (s \ {e}) \union {e} = s
        BY <3>1
      <3>5. QED
        BY <3>3, <3>4
    <2>3. QED
      BY <2>1, <2>2
  <1>2. \A s \in SUBSET S : s \in Good
    BY <1>1, OneByOne
  <1>3. QED
    BY <1>2

LEMMA SummableParts ==
  ASSUME NEW S, NEW f, Summable(f, S), NEW R \in SUBSET S
  PROVE  Summable(f, R)
  BY FS_Subset DEF Summable

LEMMA TotalOfNone ==
  ASSUME NEW f
  PROVE  Total(f, {}) = 0
  <1>1. IsFiniteSet({})
    BY FS_EmptySet
  <1>2. PICK h : IsSum(h, f, {}) /\ Total(f, {}) = h[{}]
    BY <1>1, TotalIs
  <1>3. QED
    BY <1>2 DEF IsSum

LEMMA TotalType ==
  ASSUME NEW S, NEW f, Summable(f, S)
  PROVE  Total(f, S) \in Int
  <1>1. PICK h : IsSum(h, f, S) /\ Total(f, S) = h[S]
    BY TotalIs DEF Summable
  <1>2. h[S] \in Int
    BY <1>1, SumIsWhole
  <1>3. QED
    BY <1>1, <1>2

LEMMA TotalAdds ==
  ASSUME NEW S, NEW f, NEW e, e \notin S, Summable(f, S \union {e})
  PROVE  Total(f, S \union {e}) = f[e] + Total(f, S)
  <1> DEFINE B == S \union {e}
  <1>1. Summable(f, S) /\ S \in SUBSET B
    BY SummableParts
  <1>2. PICK h : IsSum(h, f, B) /\ Total(f, B) = h[B]
    BY TotalIs DEF Summable
  <1>3. PICK g : IsSum(g, f, S) /\ Total(f, S) = g[S]
    BY <1>1, TotalIs DEF Summable
  <1>4. h[B] = f[e] + h[B \ {e}]
    <2>1. B \in SUBSET B /\ e \in B /\ Summable(f, B)
      OBVIOUS
    <2> HIDE DEF B
    <2>2. QED
      BY <1>2, <2>1, SumTakes
  <1>5. B \ {e} = S
    OBVIOUS
  <1>6. h[S] = g[S]
    BY <1>1, <1>2, <1>3, SumsAgree DEF Summable
  <1>7. QED
    BY <1>2, <1>3, <1>4, <1>5, <1>6

LEMMA TotalOfOne ==
  ASSUME NEW f, NEW e, f[e] \in Int
  PROVE  Total(f, {e}) = f[e]
  <1>1. Summable(f, {} \union {e})
    BY FS_Singleton DEF Summable
  <1>2. Total(f, {} \union {e}) = f[e] + Total(f, {})
    BY <1>1, TotalAdds
  <1>3. QED
    BY <1>2, TotalOfNone

LEMMA TotalSame ==
  ASSUME NEW S, NEW f, NEW g, Summable(f, S), \A e \in S : f[e] = g[e]
  PROVE  Total(f, S) = Total(g, S)
  <1> DEFINE Good == {s \in SUBSET S : Total(f, s) = Total(g, s)}
  <1>1. {} \in Good
    BY TotalOfNone
  <1>2. ASSUME NEW s \in SUBSET S, NEW e \in S \ s, s \in Good
        PROVE  s \union {e} \in Good
    <2>1. Summable(f, s \union {e}) /\ Summable(g, s \union {e})
      BY SummableParts, s \union {e} \in SUBSET S DEF Summable
    <2>2. Total(f, s \union {e}) = f[e] + Total(f, s) /\ Total(g, s \union {e}) = g[e] + Total(g, s)
      BY <2>1, TotalAdds
    <2>3. QED
      BY <1>2, <2>2
  <1> HIDE DEF Good
  <1>3. S \in Good
    BY <1>1, <1>2, OneMoreEach DEF Summable
  <1>4. QED
    BY <1>3 DEF Good

LEMMA TotalOfBoth ==
  ASSUME NEW R, NEW S, NEW f, Summable(f, R \union S), R \cap S = {}
  PROVE  Total(f, R \union S) = Total(f, R) + Total(f, S)
  <1> DEFINE Good == {s \in SUBSET S : Total(f, R \union s) = Total(f, R) + Total(f, s)}
  <1>1. {} \in Good
    <2>1. R \union {} = R /\ Summable(f, R)
      BY SummableParts
    <2>2. Total(f, R) \in Int
      BY <2>1, TotalType
    <2>3. QED
      BY <2>1, <2>2, TotalOfNone
  <1>2. ASSUME NEW s \in SUBSET S, NEW e \in S \ s, s \in Good
        PROVE  s \union {e} \in Good
    <2>1. Summable(f, s \union {e}) /\ Summable(f, (R \union s) \union {e}) /\ Summable(f, s) /\ Summable(f, R)
      BY SummableParts
    <2>2. Total(f, s \union {e}) = f[e] + Total(f, s)
      BY <2>1, TotalAdds
    <2>3. e \notin R \union s
      OBVIOUS
    <2>4. Total(f, (R \union s) \union {e}) = f[e] + Total(f, R \union s)
      BY <2>1, <2>3, TotalAdds
    <2>5. R \union (s \union {e}) = (R \union s) \union {e}
      OBVIOUS
    <2>6. f[e] \in Int /\ Total(f, s) \in Int /\ Total(f, R) \in Int
      BY <2>1, TotalType DEF Summable
    <2>7. Total(f, R \union s) = Total(f, R) + Total(f, s)
      BY <1>2
    <2>8. Total(f, R \union (s \union {e})) = Total(f, R) + Total(f, s \union {e})
      <3>1. \A i, j, k \in Int : i + (j + k) = j + (i + k)
        OBVIOUS
      <3>2. f[e] + (Total(f, R) + Total(f, s)) = Total(f, R) + (f[e] + Total(f, s))
        BY <2>6, <3>1
      <3>3. QED
        BY <2>2, <2>4, <2>5, <2>7, <3>2
    <2>9. QED
      BY <2>8
  <1> HIDE DEF Good
  <1>3. IsFiniteSet(S)
    BY FS_Subset DEF Summable
  <1>4. S \in Good
    BY <1>1, <1>2, <1>3, OneMoreEach
  <1>5. QED
    BY <1>4 DEF Good

Slices(slice, R, S) ==
  /\ \A r \in R : slice[r] \in SUBSET S
  /\ \A r, q \in R : r # q => slice[r] \cap slice[q] = {}
  /\ \A e \in S : \E r \in R : e \in slice[r]

SumsUp(w, R, f, slice) == \A r \in R : w[r] = Total(f, slice[r])

\* The sum over a set is the sum of the sums over its parts.
LEMMA TotalByParts ==
  ASSUME NEW S, NEW f, Summable(f, S), NEW R, IsFiniteSet(R), NEW w, NEW slice,
         Slices(slice, R, S), SumsUp(w, R, f, slice)
  PROVE  Summable(w, R) /\ Total(w, R) = Total(f, S)
  <1> DEFINE Join(T) == UNION {slice[r] : r \in T}
             Good == {T \in SUBSET R : Total(w, T) = Total(f, Join(T))}
  <1>0. /\ \A r \in R : slice[r] \in SUBSET S /\ w[r] = Total(f, slice[r])
        /\ \A r, q \in R : r # q => slice[r] \cap slice[q] = {}
        /\ \A e \in S : \E r \in R : e \in slice[r]
    BY DEF Slices, SumsUp
  <1>1. Summable(w, R)
    <2>1. \A r \in R : w[r] \in Int
      BY <1>0, SummableParts, TotalType
    <2>2. QED
      BY <2>1 DEF Summable
  <1>2. {} \in Good
    <2>1. Join({}) = {}
      OBVIOUS
    <2>2. QED
      BY <2>1, TotalOfNone
  <1>3. ASSUME NEW T \in SUBSET R, NEW r \in R \ T, T \in Good
        PROVE  T \union {r} \in Good
    <2>1. Total(w, T \union {r}) = w[r] + Total(w, T)
      <3>1. T \union {r} \in SUBSET R /\ r \notin T
        OBVIOUS
      <3>2. Summable(w, T \union {r})
        BY <1>1, <3>1, SummableParts
      <3>3. QED
        BY <3>1, <3>2, TotalAdds
    <2>2. Join(T \union {r}) = Join(T) \union slice[r]
      OBVIOUS
    <2>3. Join(T) \union slice[r] \in SUBSET S /\ Join(T) \cap slice[r] = {}
      BY <1>0
    <2>4. Summable(f, Join(T) \union slice[r])
      BY <2>3, SummableParts
    <2> DEFINE J == Join(T)
    <2>5. J \in SUBSET S /\ slice[r] \in SUBSET S
      BY <1>0, <2>3
    <2>6. Total(w, T) = Total(f, J) /\ w[r] = Total(f, slice[r])
      BY <1>0, <1>3
    <2> HIDE DEF J
    <2>7. Total(f, J \union slice[r]) = Total(f, J) + Total(f, slice[r])
      BY <2>3, <2>4, TotalOfBoth DEF J
    <2>8. Total(f, J) \in Int /\ Total(f, slice[r]) \in Int
      BY <2>5, SummableParts, TotalType
    <2>9. \A i, j \in Int : i + j = j + i
      OBVIOUS
    <2>10. Total(w, T \union {r}) = Total(f, J \union slice[r])
      BY <2>1, <2>6, <2>7, <2>8, <2>9
    <2>11. J \union slice[r] = Join(T \union {r})
      BY <2>2 DEF J
    <2>12. QED
      BY <2>10, <2>11
  <1> HIDE DEF Good
  <1>4. R \in Good
    BY <1>2, <1>3, OneMoreEach
  <1>5. Join(R) = S
    BY <1>0
  <1>6. QED
    BY <1>1, <1>4, <1>5 DEF Good

LEMMA TotalOfOnes ==
  ASSUME NEW S, IsFiniteSet(S), NEW f, \A e \in S : f[e] = 1
  PROVE  Summable(f, S) /\ Total(f, S) = Cardinality(S)
  <1> DEFINE Good == {s \in SUBSET S : Total(f, s) = Cardinality(s)}
  <1>1. Summable(f, S)
    BY DEF Summable
  <1>2. {} \in Good
    BY TotalOfNone, FS_EmptySet
  <1>3. ASSUME NEW s \in SUBSET S, NEW e \in S \ s, s \in Good
        PROVE  s \union {e} \in Good
    <2>1. Total(f, s \union {e}) = 1 + Total(f, s)
      <3>1. s \union {e} \in SUBSET S /\ e \notin s /\ f[e] = 1
        OBVIOUS
      <3>2. Summable(f, s \union {e})
        BY <1>1, <3>1, SummableParts
      <3>3. QED
        BY <3>1, <3>2, TotalAdds
    <2>2. IsFiniteSet(s) /\ Cardinality(s) \in Nat
      BY FS_Subset, FS_CardinalityType
    <2>3. Cardinality(s \union {e}) = Cardinality(s) + 1
      BY <2>2, FS_AddElement
    <2>4. QED
      BY <1>3, <2>1, <2>2, <2>3
  <1> HIDE DEF Good
  <1>4. S \in Good
    BY <1>2, <1>3, OneMoreEach
  <1>5. QED
    BY <1>1, <1>4 DEF Good

---------------------------------------------------------------------------
(***************************************************************************)
(* Reports on segments                                                     *)
(***************************************************************************)
SegmentInv ==
  /\ DOMAIN book \subseteq Persons /\ IsFiniteSet(DOMAIN book)
  /\ \A c \in DOMAIN book :
       /\ book[c].plan \in Plans /\ book[c].p \in Chances \union {NoChance}
       /\ book[c].tier = IF book[c].p = NoChance THEN "none" ELSE RiskTier(book[c].p)

LEMMA SegmentInitially == SegmentInit => SegmentInv
  <1>1. SegmentInit => DOMAIN book = {}
    BY DEF SegmentInit
  <1>2. QED
    BY <1>1, FS_EmptySet DEF SegmentInv

LEMMA SegmentSees ==
  ASSUME SegmentInv, NEW c \in Persons, PersonSeen(c), NoChance \notin Chances
  PROVE  SegmentInv'
  <1>1. PICK plan \in Plans :
          book' = [d \in DOMAIN book \union {c} |->
                     IF d = c THEN [plan |-> plan, p |-> NoChance, tier |-> "none"] ELSE book[d]]
    BY DEF PersonSeen
  <1>2. DOMAIN book' = DOMAIN book \union {c}
    BY <1>1
  <1>3. IsFiniteSet(DOMAIN book')
    BY <1>2, FS_AddElement DEF SegmentInv
  <1>4. \A d \in DOMAIN book' :
          book'[d] = IF d = c THEN [plan |-> plan, p |-> NoChance, tier |-> "none"] ELSE book[d]
    BY <1>1, <1>2
  <1>5. ASSUME NEW d \in DOMAIN book'
        PROVE  /\ book'[d].plan \in Plans /\ book'[d].p \in Chances \union {NoChance}
               /\ book'[d].tier = IF book'[d].p = NoChance THEN "none" ELSE RiskTier(book'[d].p)
    <2>1. CASE d = c
      BY <1>4, <2>1
    <2>2. CASE d # c
      BY <1>2, <1>4, <2>2 DEF SegmentInv
    <2>3. QED
      BY <2>1, <2>2
  <1>6. QED
    BY <1>2, <1>3, <1>5 DEF SegmentInv, RiskTier

LEMMA SegmentScores ==
  ASSUME SegmentInv, NEW c \in Persons, ScorePerson(c), NoChance \notin Chances
  PROVE  SegmentInv'
  <1>1. c \in DOMAIN book
    BY DEF ScorePerson
  <1>2. PICK p \in Chances : book' = [book EXCEPT ![c] = [plan |-> book[c].plan, p |-> p, tier |-> RiskTier(p)]]
    BY DEF ScorePerson
  <1>3. DOMAIN book' = DOMAIN book
    BY <1>2
  <1>4. \A d \in DOMAIN book :
          book'[d] = IF d = c THEN [plan |-> book[c].plan, p |-> p, tier |-> RiskTier(p)] ELSE book[d]
    BY <1>2
  <1>5. ASSUME NEW d \in DOMAIN book'
        PROVE  /\ book'[d].plan \in Plans /\ book'[d].p \in Chances \union {NoChance}
               /\ book'[d].tier = IF book'[d].p = NoChance THEN "none" ELSE RiskTier(book'[d].p)
    <2>1. CASE d = c
      BY <1>1, <1>4, <2>1 DEF SegmentInv
    <2>2. CASE d # c
      BY <1>3, <1>4, <2>2 DEF SegmentInv
    <2>3. QED
      BY <2>1, <2>2
  <1>6. QED
    BY <1>3, <1>5 DEF SegmentInv, RiskTier

LEMMA SegmentStep == SegmentAssumption /\ SegmentInv /\ [SegmentNext]_segmentVars => SegmentInv'
  <1>1. SegmentInv /\ UNCHANGED segmentVars => SegmentInv'
    BY DEF SegmentInv, segmentVars, RiskTier
  <1>2. QED
    BY <1>1, SegmentSees, SegmentScores DEF SegmentNext, SegmentAssumption

---------------------------------------------------------------------------
\* The sums of the reports.
LEMMA LossIsTotal ==
  ASSUME NEW S, IsFiniteSet(S)
  PROVE  MapThenSumSet(Loss, S) = Total([e \in S |-> Loss(e)], S)
  <1> DEFINE f == [e \in S |-> Loss(e)]
             Fits(h) == h = [s \in SUBSET S |-> IF s = {} THEN 0
                               ELSE Loss(CHOOSE e \in s : TRUE) + h[s \ {CHOOSE e \in s : TRUE}]]
             it == CHOOSE h : Fits(h)
  <1>1. MapThenSumSet(Loss, S) = it[S]
    BY DEF MapThenSumSet, MapThenFoldSet
  <1>2. PICK h : IsSum(h, f, S) /\ Total(f, S) = h[S]
    BY TotalIs
  <1>3. \A s \in SUBSET S : s # {} => f[AnyOf(s)] = Loss(CHOOSE e \in s : TRUE)
    BY AnyIsIn DEF AnyOf
  <1>4. \A g : Fits(g) <=> IsSum(g, f, S)
    <2> HIDE DEF f
    <2>1. SUFFICES ASSUME NEW g PROVE Fits(g) <=> IsSum(g, f, S)
      OBVIOUS
    <2>2. [s \in SUBSET S |-> IF s = {} THEN 0 ELSE Loss(CHOOSE e \in s : TRUE) + g[s \ {CHOOSE e \in s : TRUE}]]
          = [s \in SUBSET S |-> IF s = {} THEN 0 ELSE f[AnyOf(s)] + g[s \ {AnyOf(s)}]]
      BY <1>3 DEF AnyOf
    <2>3. QED
      BY <2>2 DEF IsSum
  <1> HIDE DEF f, Fits
  <1>5. Fits(it)
    BY <1>2, <1>4
  <1>6. IsSum(it, f, S)
    BY <1>4, <1>5
  <1>7. it[S] = h[S]
    BY <1>2, <1>6, SumsAgree
  <1>8. QED
    BY <1>1, <1>2, <1>7 DEF f

LEMMA ChanceIsTotal ==
  ASSUME NEW S, IsFiniteSet(S)
  PROVE  MapThenSumSet(Chance, S) = Total([e \in S |-> Chance(e)], S)
  <1> DEFINE f == [e \in S |-> Chance(e)]
             Fits(h) == h = [s \in SUBSET S |-> IF s = {} THEN 0
                               ELSE Chance(CHOOSE e \in s : TRUE) + h[s \ {CHOOSE e \in s : TRUE}]]
             it == CHOOSE h : Fits(h)
  <1>1. MapThenSumSet(Chance, S) = it[S]
    BY DEF MapThenSumSet, MapThenFoldSet
  <1>2. PICK h : IsSum(h, f, S) /\ Total(f, S) = h[S]
    BY TotalIs
  <1>3. \A s \in SUBSET S : s # {} => f[AnyOf(s)] = Chance(CHOOSE e \in s : TRUE)
    BY AnyIsIn DEF AnyOf
  <1>4. \A g : Fits(g) <=> IsSum(g, f, S)
    <2> HIDE DEF f
    <2>1. SUFFICES ASSUME NEW g PROVE Fits(g) <=> IsSum(g, f, S)
      OBVIOUS
    <2>2. [s \in SUBSET S |-> IF s = {} THEN 0 ELSE Chance(CHOOSE e \in s : TRUE) + g[s \ {CHOOSE e \in s : TRUE}]]
          = [s \in SUBSET S |-> IF s = {} THEN 0 ELSE f[AnyOf(s)] + g[s \ {AnyOf(s)}]]
      BY <1>3 DEF AnyOf
    <2>3. QED
      BY <2>2 DEF IsSum
  <1> HIDE DEF f, Fits
  <1>5. Fits(it)
    BY <1>2, <1>4
  <1>6. IsSum(it, f, S)
    BY <1>4, <1>5
  <1>7. it[S] = h[S]
    BY <1>2, <1>6, SumsAgree
  <1>8. QED
    BY <1>1, <1>2, <1>7 DEF f

LEMMA CountIsTotal ==
  ASSUME NEW S, IsFiniteSet(S)
  PROVE  MapThenSumSet(CountOf, S) = Total([e \in S |-> CountOf(e)], S)
  <1> DEFINE f == [e \in S |-> CountOf(e)]
             Fits(h) == h = [s \in SUBSET S |-> IF s = {} THEN 0
                               ELSE CountOf(CHOOSE e \in s : TRUE) + h[s \ {CHOOSE e \in s : TRUE}]]
             it == CHOOSE h : Fits(h)
  <1>1. MapThenSumSet(CountOf, S) = it[S]
    BY DEF MapThenSumSet, MapThenFoldSet
  <1>2. PICK h : IsSum(h, f, S) /\ Total(f, S) = h[S]
    BY TotalIs
  <1>3. \A s \in SUBSET S : s # {} => f[AnyOf(s)] = CountOf(CHOOSE e \in s : TRUE)
    BY AnyIsIn DEF AnyOf
  <1>4. \A g : Fits(g) <=> IsSum(g, f, S)
    <2> HIDE DEF f
    <2>1. SUFFICES ASSUME NEW g PROVE Fits(g) <=> IsSum(g, f, S)
      OBVIOUS
    <2>2. [s \in SUBSET S |-> IF s = {} THEN 0 ELSE CountOf(CHOOSE e \in s : TRUE) + g[s \ {CHOOSE e \in s : TRUE}]]
          = [s \in SUBSET S |-> IF s = {} THEN 0 ELSE f[AnyOf(s)] + g[s \ {AnyOf(s)}]]
      BY <1>3 DEF AnyOf
    <2>3. QED
      BY <2>2 DEF IsSum
  <1> HIDE DEF f, Fits
  <1>5. Fits(it)
    BY <1>2, <1>4
  <1>6. IsSum(it, f, S)
    BY <1>4, <1>5
  <1>7. it[S] = h[S]
    BY <1>2, <1>6, SumsAgree
  <1>8. QED
    BY <1>1, <1>2, <1>7 DEF f

LEMMA AtRiskIsTotal ==
  ASSUME NEW S, IsFiniteSet(S)
  PROVE  MapThenSumSet(AtRiskOf, S) = Total([e \in S |-> AtRiskOf(e)], S)
  <1> DEFINE f == [e \in S |-> AtRiskOf(e)]
             Fits(h) == h = [s \in SUBSET S |-> IF s = {} THEN 0
                               ELSE AtRiskOf(CHOOSE e \in s : TRUE) + h[s \ {CHOOSE e \in s : TRUE}]]
             it == CHOOSE h : Fits(h)
  <1>1. MapThenSumSet(AtRiskOf, S) = it[S]
    BY DEF MapThenSumSet, MapThenFoldSet
  <1>2. PICK h : IsSum(h, f, S) /\ Total(f, S) = h[S]
    BY TotalIs
  <1>3. \A s \in SUBSET S : s # {} => f[AnyOf(s)] = AtRiskOf(CHOOSE e \in s : TRUE)
    BY AnyIsIn DEF AnyOf
  <1>4. \A g : Fits(g) <=> IsSum(g, f, S)
    <2> HIDE DEF f
    <2>1. SUFFICES ASSUME NEW g PROVE Fits(g) <=> IsSum(g, f, S)
      OBVIOUS
    <2>2. [s \in SUBSET S |-> IF s = {} THEN 0 ELSE AtRiskOf(CHOOSE e \in s : TRUE) + g[s \ {CHOOSE e \in s : TRUE}]]
          = [s \in SUBSET S |-> IF s = {} THEN 0 ELSE f[AnyOf(s)] + g[s \ {AnyOf(s)}]]
      BY <1>3 DEF AnyOf
    <2>3. QED
      BY <2>2 DEF IsSum
  <1> HIDE DEF f, Fits
  <1>5. Fits(it)
    BY <1>2, <1>4
  <1>6. IsSum(it, f, S)
    BY <1>4, <1>5
  <1>7. it[S] = h[S]
    BY <1>2, <1>6, SumsAgree
  <1>8. QED
    BY <1>1, <1>2, <1>7 DEF f

---------------------------------------------------------------------------
\* An image of a finite set is finite.
LEMMA ImageIsFinite ==
  ASSUME NEW f, IsFiniteSet(DOMAIN f)
  PROVE  IsFiniteSet({f[e] : e \in DOMAIN f})
  <1> DEFINE T == {f[e] : e \in DOMAIN f}
             g == [e \in DOMAIN f |-> f[e]]
  <1>1. g \in Surjection(DOMAIN f, T)
    BY DEF Surjection
  <1>2. QED
    BY <1>1, FS_Surjection

Groups(C, O, k) ==
  /\ \A r, q \in C : r.name = q.name => r = q
  /\ \A c \in O : \E r \in C : r.name = k[c]

GroupSums(w, C, f, O, k) == \A r \in C : w[r] = Total(f, {c \in O : k[c] = r.name})

\* Groups that are named for what their members have in common: what is said of each adds up.
LEMMA GroupsAddUp ==
  ASSUME NEW O, NEW k, NEW C, IsFiniteSet(C), NEW f, Summable(f, O), NEW w,
         Groups(C, O, k), GroupSums(w, C, f, O, k)
  PROVE  Total(w, C) = Total(f, O)
  <1> DEFINE slice == [r \in C |-> {c \in O : k[c] = r.name}]
  <1>1. Slices(slice, C, O)
    BY DEF Slices, Groups
  <1>2. SumsUp(w, C, f, slice)
    BY DEF SumsUp, GroupSums
  <1> HIDE DEF slice
  <1>3. QED
    BY <1>1, <1>2, TotalByParts

LEMMA OwnFinite ==
  ASSUME SegmentInv, NEW h
  PROVE  Own(h) \subseteq DOMAIN book /\ IsFiniteSet(Own(h))
  BY FS_Subset DEF SegmentInv, Own

LEMMA LossType ==
  ASSUME SegmentAssumption, SegmentInv, NEW c \in DOMAIN book
  PROVE  Chance(c) \in 0 .. 100 /\ Loss(c) \in Int
  <1>1. Chance(c) \in 0 .. 100
    <2>1. book[c].p \in Chances \/ book[c].p = NoChance
      BY DEF SegmentInv
    <2>2. Chances \subseteq 0 .. 100
      BY DEF SegmentAssumption
    <2>3. CASE book[c].p = NoChance
      <3>1. Chance(c) = 0
        BY <2>3 DEF Chance
      <3>2. QED
        BY <3>1
    <2>4. CASE book[c].p # NoChance
      <3>1. Chance(c) = book[c].p
        BY <2>4 DEF Chance
      <3>2. QED
        BY <2>1, <2>2, <2>4, <3>1
    <2>5. QED
      BY <2>3, <2>4
  <1>2. Mrr[c] \in Nat
    BY DEF SegmentAssumption, SegmentInv
  <1>3. QED
    BY <1>1, <1>2 DEF Loss

LEMMA LossSummable ==
  ASSUME SegmentAssumption, SegmentInv, NEW S \in SUBSET DOMAIN book
  PROVE  Summable([c \in S |-> Loss(c)], S)
  <1>1. IsFiniteSet(S)
    BY FS_Subset DEF SegmentInv
  <1>2. \A c \in S : [d \in S |-> Loss(d)][c] \in Int
    BY LossType
  <1>3. QED
    BY <1>1, <1>2 DEF Summable

\* The loss of a part, as a part of the loss.
LEMMA LossOfPart ==
  ASSUME SegmentAssumption, SegmentInv, NEW S \in SUBSET DOMAIN book, NEW R \in SUBSET S
  PROVE  MapThenSumSet(Loss, R) = Total([c \in S |-> Loss(c)], R)
  <1> DEFINE f == [c \in S |-> Loss(c)]
             g == [c \in R |-> Loss(c)]
  <1>1. IsFiniteSet(R) /\ Summable(g, R)
    BY LossSummable DEF Summable
  <1>2. MapThenSumSet(Loss, R) = Total(g, R)
    BY <1>1, LossIsTotal
  <1>3. \A c \in R : g[c] = f[c]
    OBVIOUS
  <1> HIDE DEF f, g
  <1>4. Total(g, R) = Total(f, R)
    BY <1>1, <1>3, TotalSame
  <1>5. QED
    BY <1>2, <1>4 DEF f

CohortNamed(h, v) ==
  LET group == {c \in Own(h) : CohortOf(c) = v}
  IN [name |-> v, count |-> Cardinality(group), high |-> Cardinality({c \in group : HighRisk(c)}),
      atRisk |-> MapThenSumSet(Loss, group)]

PlanNamed(h, v) ==
  LET group == {c \in Own(h) : PlanOf(c) = v}
  IN [name |-> v, count |-> Cardinality(group), atRisk |-> MapThenSumSet(Loss, group)]

LEMMA GroupsAreNamed ==
  ASSUME NEW h, NEW v
  PROVE  CohortNamed(h, v).name = v /\ PlanNamed(h, v).name = v
  BY DEF CohortNamed, PlanNamed

LEMMA CohortsAre ==
  ASSUME NEW h
  PROVE  /\ Cohorts(h) = {CohortNamed(h, CohortOf(c)) : c \in Own(h)}
         /\ ByPlan(h) = {PlanNamed(h, PlanOf(c)) : c \in Own(h)}
  <1>1. Cohorts(h) = {CohortNamed(h, v) : v \in {CohortOf(c) : c \in Own(h)}}
    BY DEF Cohorts, CohortNamed
  <1>2. ByPlan(h) = {PlanNamed(h, v) : v \in {PlanOf(c) : c \in Own(h)} \ {"none"}}
    BY DEF ByPlan, PlanNamed
  <1>3. \A c \in Own(h) : PlanOf(c) # "none"
    BY DEF PlanOf
  <1>4. QED
    BY <1>1, <1>2, <1>3

LEMMA CohortsAddUp ==
  ASSUME SegmentAssumption, SegmentInv, NEW h
  PROVE  /\ MapThenSumSet(CountOf, Cohorts(h)) = Cardinality(Own(h))
         /\ MapThenSumSet(AtRiskOf, Cohorts(h)) = ExpectedLoss(h)
  <1> DEFINE O == Own(h)
             C == Cohorts(h)
             k == [c \in O |-> CohortOf(c)]
             f == [c \in O |-> Loss(c)]
             one == [c \in O |-> 1]
             v == [r \in C |-> CountOf(r)]
             w == [r \in C |-> AtRiskOf(r)]
             made == [c \in O |-> CohortNamed(h, CohortOf(c))]
  <1>1. O \in SUBSET DOMAIN book /\ IsFiniteSet(O)
    BY OwnFinite
  <1>2. C = {made[c] : c \in DOMAIN made}
    BY CohortsAre
  <1>3. IsFiniteSet(C)
    <2> HIDE DEF C
    <2>1. IsFiniteSet(DOMAIN made)
      BY <1>1
    <2> HIDE DEF made
    <2>2. QED
      BY <1>2, <2>1, ImageIsFinite
  <1>4. ASSUME NEW r \in C
        PROVE  /\ r = CohortNamed(h, r.name)
               /\ CountOf(r) = Cardinality({c \in O : k[c] = r.name})
               /\ AtRiskOf(r) = MapThenSumSet(Loss, {c \in O : k[c] = r.name})
    <2>1. PICK c \in O : r = CohortNamed(h, CohortOf(c))
      BY CohortsAre
    <2>2. r.name = CohortOf(c)
      BY <2>1, GroupsAreNamed
    <2>3. r = CohortNamed(h, r.name)
      BY <2>1, <2>2
    <2> DEFINE group == {e \in Own(h) : CohortOf(e) = r.name}
    <2>4. CountOf(r) = Cardinality(group) /\ AtRiskOf(r) = MapThenSumSet(Loss, group)
      <3> HIDE DEF O, C, k, f, w, made
      <3>1. ASSUME NEW u, r = CohortNamed(h, u), NEW S, S = {e \in Own(h) : CohortOf(e) = u}
            PROVE  CountOf(r) = Cardinality(S) /\ AtRiskOf(r) = MapThenSumSet(Loss, S)
        <4>1. r.count = Cardinality({e \in Own(h) : CohortOf(e) = u})
          BY <3>1 DEF CohortNamed
        <4>2. r.atRisk = MapThenSumSet(Loss, {e \in Own(h) : CohortOf(e) = u})
          BY <3>1 DEF CohortNamed
        <4>3. QED
          BY <3>1, <4>1, <4>2 DEF CountOf, AtRiskOf
      <3>2. QED
        BY <2>3, <3>1
    <2>5. {e \in O : k[e] = r.name} = group
      OBVIOUS
    <2> HIDE DEF O, C, k, group
    <2>6. QED
      BY <2>3, <2>4, <2>5
  <1>5. \A r, q \in C : r.name = q.name => r = q
    BY <1>4
  <1>6. \A c \in O : \E r \in C : r.name = k[c]
    <2>1. SUFFICES ASSUME NEW c \in O PROVE \E r \in C : r.name = k[c]
      OBVIOUS
    <2>2. CohortNamed(h, CohortOf(c)) \in C
      BY CohortsAre
    <2>3. CohortNamed(h, CohortOf(c)).name = k[c]
      BY GroupsAreNamed
    <2>4. QED
      BY <2>2, <2>3
  <1>7. Summable(one, O) /\ \A R \in SUBSET O : Total(one, R) = Cardinality(R)
    <2>1. \A R \in SUBSET O : IsFiniteSet(R) /\ \A c \in R : one[c] = 1
      BY <1>1, FS_Subset
    <2> HIDE DEF O, one
    <2>2. QED
      BY <2>1, TotalOfOnes
  <1>8. Summable(f, O) /\ \A R \in SUBSET O : MapThenSumSet(Loss, R) = Total(f, R)
    BY <1>1, LossSummable, LossOfPart
  <1>9. MapThenSumSet(CountOf, C) = Total(v, C) /\ MapThenSumSet(AtRiskOf, C) = Total(w, C)
    BY <1>3, CountIsTotal, AtRiskIsTotal
  <1>10. \A r \in C : v[r] = Cardinality({c \in O : k[c] = r.name})
    BY <1>4
  <1>11. \A r \in C : w[r] = MapThenSumSet(Loss, {c \in O : k[c] = r.name})
    BY <1>4
  <1>12. ExpectedLoss(h) = MapThenSumSet(Loss, O)
    BY DEF ExpectedLoss
  <1> HIDE DEF O, C, k, f, one, v, w, made
  <1>13. Groups(C, O, k) /\ GroupSums(v, C, one, O, k) /\ GroupSums(w, C, f, O, k)
    <2>1. \A r \in C : {c \in O : k[c] = r.name} \in SUBSET O
      OBVIOUS
    <2>2. QED
      BY <1>5, <1>6, <1>7, <1>8, <1>10, <1>11, <2>1 DEF Groups, GroupSums
  <1>14. Total(v, C) = Total(one, O)
    BY <1>3, <1>7, <1>13, GroupsAddUp
  <1>15. Total(w, C) = Total(f, O)
    BY <1>3, <1>8, <1>13, GroupsAddUp
  <1>16. QED
    BY <1>7, <1>8, <1>9, <1>12, <1>14, <1>15 DEF O, C

LEMMA PlansAddUp ==
  ASSUME SegmentAssumption, SegmentInv, NEW h
  PROVE  MapThenSumSet(AtRiskOf, ByPlan(h)) = ExpectedLoss(h)
  <1> DEFINE O == Own(h)
             C == ByPlan(h)
             k == [c \in O |-> PlanOf(c)]
             f == [c \in O |-> Loss(c)]
             w == [r \in C |-> AtRiskOf(r)]
             made == [c \in O |-> PlanNamed(h, PlanOf(c))]
  <1>1. O \in SUBSET DOMAIN book /\ IsFiniteSet(O)
    BY OwnFinite
  <1>2. C = {made[c] : c \in DOMAIN made}
    BY CohortsAre
  <1>3. IsFiniteSet(C)
    <2> HIDE DEF C
    <2>1. IsFiniteSet(DOMAIN made)
      BY <1>1
    <2> HIDE DEF made
    <2>2. QED
      BY <1>2, <2>1, ImageIsFinite
  <1>4. ASSUME NEW r \in C
        PROVE  /\ r = PlanNamed(h, r.name)
               /\ AtRiskOf(r) = MapThenSumSet(Loss, {c \in O : k[c] = r.name})
    <2>1. PICK c \in O : r = PlanNamed(h, PlanOf(c))
      BY CohortsAre
    <2>2. r.name = PlanOf(c)
      BY <2>1, GroupsAreNamed
    <2>3. r = PlanNamed(h, r.name)
      BY <2>1, <2>2
    <2> DEFINE group == {e \in Own(h) : PlanOf(e) = r.name}
    <2>4. AtRiskOf(r) = MapThenSumSet(Loss, group)
      <3> HIDE DEF O, C, k, f, w, made
      <3>1. ASSUME NEW u, r = PlanNamed(h, u), NEW S, S = {e \in Own(h) : PlanOf(e) = u}
            PROVE  AtRiskOf(r) = MapThenSumSet(Loss, S)
        <4>1. r.atRisk = MapThenSumSet(Loss, {e \in Own(h) : PlanOf(e) = u})
          BY <3>1 DEF PlanNamed
        <4>2. QED
          BY <3>1, <4>1 DEF AtRiskOf
      <3>2. QED
        BY <2>3, <3>1
    <2>5. {e \in O : k[e] = r.name} = group
      OBVIOUS
    <2> HIDE DEF O, C, k, group
    <2>6. QED
      BY <2>3, <2>4, <2>5
  <1>5. \A r, q \in C : r.name = q.name => r = q
    BY <1>4
  <1>6. \A c \in O : \E r \in C : r.name = k[c]
    <2>1. SUFFICES ASSUME NEW c \in O PROVE \E r \in C : r.name = k[c]
      OBVIOUS
    <2>2. PlanNamed(h, PlanOf(c)) \in C
      BY CohortsAre
    <2>3. PlanNamed(h, PlanOf(c)).name = k[c]
      BY GroupsAreNamed
    <2>4. QED
      BY <2>2, <2>3
  <1>7. Summable(f, O) /\ \A R \in SUBSET O : MapThenSumSet(Loss, R) = Total(f, R)
    BY <1>1, LossSummable, LossOfPart
  <1>8. MapThenSumSet(AtRiskOf, C) = Total(w, C)
    BY <1>3, AtRiskIsTotal
  <1>9. \A r \in C : w[r] = MapThenSumSet(Loss, {c \in O : k[c] = r.name})
    BY <1>4
  <1>10. ExpectedLoss(h) = MapThenSumSet(Loss, O)
    BY DEF ExpectedLoss
  <1> HIDE DEF O, C, k, f, w, made
  <1>11. Groups(C, O, k) /\ GroupSums(w, C, f, O, k)
    <2>1. \A r \in C : {c \in O : k[c] = r.name} \in SUBSET O
      OBVIOUS
    <2>2. QED
      BY <1>5, <1>6, <1>7, <1>9, <2>1 DEF Groups, GroupSums
  <1>12. Total(w, C) = Total(f, O)
    BY <1>3, <1>7, <1>11, GroupsAddUp
  <1>13. QED
    BY <1>7, <1>8, <1>10, <1>12 DEF O, C

LEMMA CountOfBoth ==
  ASSUME NEW S, NEW T, IsFiniteSet(S), IsFiniteSet(T), S \cap T = {}
  PROVE  /\ Cardinality(S) \in Nat /\ Cardinality(T) \in Nat
         /\ IsFiniteSet(S \union T) /\ Cardinality(S \union T) = Cardinality(S) + Cardinality(T)
  <1>1. Cardinality(S \cap T) = 0
    BY FS_EmptySet
  <1>2. /\ IsFiniteSet(S \union T)
        /\ Cardinality(S \union T) = Cardinality(S) + Cardinality(T) - Cardinality(S \cap T)
    BY FS_Union
  <1>3. Cardinality(S) \in Nat /\ Cardinality(T) \in Nat
    BY FS_CardinalityType
  <1>4. QED
    BY <1>1, <1>2, <1>3

LEMMA PlanCounts ==
  ASSUME SegmentInv, NEW h, NEW g \in Cohorts(h), NEW s \in ByPlan(h), g.name = s.name
  PROVE  s.count - g.count = IF g.name = "standard" THEN Cardinality(Planless(h))
                             ELSE IF g.name = "Standard" THEN - Cardinality(Planless(h)) ELSE 0
  <1> DEFINE named == {c \in Own(h) : book[c].plan = g.name}
             none == Planless(h)
  <1>1. PICK c \in Own(h) : g = CohortNamed(h, CohortOf(c))
    BY CohortsAre
  <1>2. PICK d \in Own(h) : s = PlanNamed(h, PlanOf(d))
    BY CohortsAre
  <1>3. g.count = Cardinality({e \in Own(h) : CohortOf(e) = g.name})
    BY <1>1 DEF CohortNamed
  <1>4. s.count = Cardinality({e \in Own(h) : PlanOf(e) = g.name})
    BY <1>2 DEF PlanNamed
  <1>5. g.name # "none"
    <2>1. g.name = PlanOf(d)
      BY <1>2 DEF PlanNamed
    <2>2. QED
      BY <2>1 DEF PlanOf
  <1>6. IsFiniteSet(named) /\ IsFiniteSet(none) /\ named \cap none = {}
    BY <1>5, OwnFinite, FS_Subset DEF Planless
  <1> HIDE DEF none
  <1>7. /\ Cardinality(named) \in Nat /\ Cardinality(none) \in Nat
        /\ Cardinality(named \union none) = Cardinality(named) + Cardinality(none)
    <2> HIDE DEF named
    <2>1. QED
      BY <1>6, CountOfBoth
  <1>8. CASE g.name = "standard"
    <2>1. {e \in Own(h) : CohortOf(e) = g.name} = named
      BY <1>8 DEF CohortOf
    <2>2. {e \in Own(h) : PlanOf(e) = g.name} = named \union none
      BY <1>8 DEF PlanOf, Planless, none
    <2>3. QED
      <3>1. s.count - g.count = Cardinality(named \union none) - Cardinality(named)
        BY <1>3, <1>4, <2>1, <2>2
      <3> HIDE DEF named
      <3>2. QED
        BY <1>7, <1>8, <3>1 DEF none
  <1>9. CASE g.name = "Standard"
    <2>1. {e \in Own(h) : CohortOf(e) = g.name} = named \union none
      BY <1>9 DEF CohortOf, Planless, none
    <2>2. {e \in Own(h) : PlanOf(e) = g.name} = named
      BY <1>9 DEF PlanOf
    <2>3. QED
      <3>1. s.count - g.count = Cardinality(named) - Cardinality(named \union none)
        BY <1>3, <1>4, <2>1, <2>2
      <3> HIDE DEF named
      <3>2. QED
        BY <1>7, <1>9, <3>1 DEF none
  <1>10. CASE g.name \notin {"standard", "Standard"}
    <2>1. {e \in Own(h) : CohortOf(e) = g.name} = named
      BY <1>5, <1>10 DEF CohortOf
    <2>2. {e \in Own(h) : PlanOf(e) = g.name} = named
      BY <1>5, <1>10 DEF PlanOf
    <2>3. QED
      <3>1. s.count - g.count = Cardinality(named) - Cardinality(named)
        BY <1>3, <1>4, <2>1, <2>2
      <3> HIDE DEF named
      <3>2. QED
        BY <1>7, <1>10, <3>1
  <1>11. QED
    BY <1>8, <1>9, <1>10

---------------------------------------------------------------------------
LEMMA TierFitsChance ==
  ASSUME SegmentAssumption, SegmentInv, NEW c \in DOMAIN book
  PROVE  /\ CountsAsChurned(c) <=> Chance(c) >= 50
         /\ HighRisk(c) <=> CountsAsChurned(c)
  <1>1. Chance(c) \in 0 .. 100
    BY LossType
  <1>2. CASE book[c].p = NoChance
    <2>1. book[c].tier = "none" /\ Chance(c) = 0
      BY <1>2 DEF SegmentInv, Chance
    <2>2. QED
      BY <2>1 DEF CountsAsChurned, HighRisk
  <1>3. CASE book[c].p # NoChance
    <2>1. book[c].tier = RiskTier(Chance(c))
      BY <1>3 DEF SegmentInv, Chance
    <2>2. QED
      BY <1>1, <2>1 DEF CountsAsChurned, HighRisk, RiskTier
  <1>4. QED
    BY <1>2, <1>3

Churned(S) == {c \in S : CountsAsChurned(c)}

\* A segment of customers who are all close to certainty is calibrated.
LEMMA CertainCalibrated ==
  ASSUME SegmentAssumption, SegmentInv, NEW T \in SUBSET DOMAIN book,
         \A c \in T : Chance(c) \notin 16 .. 84
  PROVE  /\ MapThenSumSet(Chance, T) - 100 * Cardinality(Churned(T)) <= 15 * Cardinality(T)
         /\ MapThenSumSet(Chance, T) - 100 * Cardinality(Churned(T)) >= - 15 * Cardinality(T)
         /\ Cardinality(T) \in Nat /\ MapThenSumSet(Chance, T) \in Int /\ Cardinality(Churned(T)) \in Nat
  <1> DEFINE f == [c \in T |-> Chance(c)]
             Good == {s \in SUBSET T : /\ Total(f, s) - 100 * Cardinality(Churned(s)) <= 15 * Cardinality(s)
                                       /\ Total(f, s) - 100 * Cardinality(Churned(s)) >= - 15 * Cardinality(s)}
  <1>1. IsFiniteSet(T)
    BY FS_Subset DEF SegmentInv
  <1>2. \A s \in SUBSET T : /\ IsFiniteSet(s) /\ Cardinality(s) \in Nat
                             /\ IsFiniteSet(Churned(s)) /\ Cardinality(Churned(s)) \in Nat
    BY <1>1, FS_Subset, FS_CardinalityType DEF Churned
  <1>3. \A c \in T : f[c] = Chance(c) /\ Chance(c) \in 0 .. 100
    BY LossType
  <1>4. Summable(f, T)
    <2> HIDE DEF f
    <2>1. QED
      BY <1>1, <1>3 DEF Summable
  <1>5. MapThenSumSet(Chance, T) = Total(f, T)
    BY <1>1, ChanceIsTotal
  <1> HIDE DEF f
  <1>6. {} \in Good
    <2>1. Churned({}) = {}
      BY DEF Churned
    <2>2. QED
      BY <2>1, TotalOfNone, FS_EmptySet
  <1>7. ASSUME NEW s \in SUBSET T, NEW e \in T \ s, s \in Good
        PROVE  s \union {e} \in Good
    <2>1. s \union {e} \in SUBSET T /\ e \notin s
      OBVIOUS
    <2>2. Total(f, s \union {e}) = Chance(e) + Total(f, s)
      <3>1. Summable(f, s \union {e})
        BY <1>4, <2>1, SummableParts
      <3>2. Total(f, s \union {e}) = f[e] + Total(f, s)
        BY <2>1, <3>1, TotalAdds
      <3>3. QED
        BY <1>3, <3>2
    <2>3. Cardinality(s \union {e}) = Cardinality(s) + 1
      BY <1>2, FS_AddElement
    <2>4. Total(f, s) \in Int
      BY <1>4, SummableParts, TotalType
    <2>5. Chance(e) \in 0 .. 100 /\ Chance(e) \notin 16 .. 84
      BY <1>3
    <2>6. CASE CountsAsChurned(e)
      <3>1. Churned(s \union {e}) = Churned(s) \union {e} /\ e \notin Churned(s)
        BY <2>6 DEF Churned
      <3>2. Cardinality(Churned(s \union {e})) = Cardinality(Churned(s)) + 1
        BY <1>2, <3>1, FS_AddElement
      <3>3. Chance(e) >= 85 /\ Chance(e) <= 100
        BY <2>5, <2>6, TierFitsChance
      <3>4. QED
        BY <1>2, <1>7, <2>1, <2>2, <2>3, <2>4, <2>5, <3>2, <3>3
    <2>7. CASE ~ CountsAsChurned(e)
      <3>1. Churned(s \union {e}) = Churned(s)
        BY <2>7 DEF Churned
      <3>2. Chance(e) >= 0 /\ Chance(e) <= 15
        BY <2>5, <2>7, TierFitsChance
      <3>3. QED
        BY <1>2, <1>7, <2>1, <2>2, <2>3, <2>4, <2>5, <3>1, <3>2
    <2>8. QED
      BY <2>6, <2>7
  <1> HIDE DEF Good
  <1>8. T \in Good
    BY <1>1, <1>6, <1>7, OneMoreEach
  <1>9. Total(f, T) \in Int
    BY <1>4, TotalType
  <1>10. QED
    BY <1>2, <1>5, <1>8, <1>9 DEF Good

LEMMA RiskIsOne ==
  ASSUME SegmentAssumption, SegmentInv
  PROVE  RiskMeansOneThing
  <1>1. \A c \in DOMAIN book : HighRisk(c) <=> CountsAsChurned(c)
    BY TierFitsChance
  <1>2. ASSUME NEW h \in Homes, NEW group \in Segments(h)
        PROVE  /\ Flagged(Calibration(group)) => \E c \in group : Chance(c) \in 16 .. 84
               /\ Cardinality(group) = 1 /\ (\E c \in group : Chance(c) \in 16 .. 84)
                    => Flagged(Calibration(group))
    <2>1. group \in SUBSET DOMAIN book
      BY DEF Segments, Own
    <2>2. IsFiniteSet(group)
      BY <2>1, FS_Subset DEF SegmentInv
    <2>3. Flagged(Calibration(group)) <=>
            \/ MapThenSumSet(Chance, group) - 100 * Cardinality(Churned(group)) > 15 * Cardinality(group)
            \/ MapThenSumSet(Chance, group) - 100 * Cardinality(Churned(group)) < - 15 * Cardinality(group)
      BY DEF Flagged, Calibration, Churned
    <2>4. ASSUME \A c \in group : Chance(c) \notin 16 .. 84
          PROVE  ~ Flagged(Calibration(group))
      <3>1. /\ MapThenSumSet(Chance, group) - 100 * Cardinality(Churned(group)) <= 15 * Cardinality(group)
            /\ MapThenSumSet(Chance, group) - 100 * Cardinality(Churned(group)) >= - 15 * Cardinality(group)
            /\ Cardinality(group) \in Nat /\ MapThenSumSet(Chance, group) \in Int
            /\ Cardinality(Churned(group)) \in Nat
        BY <2>1, <2>4, CertainCalibrated
      <3>2. QED
        BY <2>3, <3>1
    <2>5. ASSUME Cardinality(group) = 1, NEW c \in group, Chance(c) \in 16 .. 84
          PROVE  Flagged(Calibration(group))
      <3> DEFINE f == [e \in group |-> Chance(e)]
      <3>1. group = {c}
        BY <2>2, <2>5, FS_Singleton
      <3>2. MapThenSumSet(Chance, group) = Total(f, group)
        BY <2>2, ChanceIsTotal
      <3>3. f[c] = Chance(c) /\ Chance(c) \in Int
        BY <2>1, LossType
      <3> HIDE DEF f
      <3>4. MapThenSumSet(Chance, group) = Chance(c)
        BY <3>1, <3>2, <3>3, TotalOfOne
      <3>5. CASE CountsAsChurned(c)
        <4>1. Churned(group) = {c}
          BY <3>1, <3>5 DEF Churned
        <4>2. Cardinality(Churned(group)) = 1
          BY <4>1, FS_Singleton
        <4>3. QED
          BY <2>3, <2>5, <3>4, <4>2
      <3>6. CASE ~ CountsAsChurned(c)
        <4>1. Churned(group) = {}
          BY <3>1, <3>6 DEF Churned
        <4>2. Cardinality(Churned(group)) = 0
          BY <4>1, FS_EmptySet
        <4>3. QED
          BY <2>3, <2>5, <3>4, <4>2
      <3>7. QED
        BY <3>5, <3>6
    <2>6. QED
      BY <2>4, <2>5
  <1>3. QED
    BY <1>1, <1>2 DEF RiskMeansOneThing

---------------------------------------------------------------------------
Below(H, rate, r) == {h \in H : rate[h] < r}

UpTo(H, rate, r) == {h \in H : rate[h] <= r}

IsRanked(i, H, rate, r) == Cardinality(Below(H, rate, r)) < i /\ i <= Cardinality(UpTo(H, rate, r))

\* Of finitely many numbers one is the i-th as they are sorted.
LEMMA RankExists ==
  ASSUME NEW H, IsFiniteSet(H), NEW rate, \A h \in H : rate[h] \in Nat,
         NEW i \in Nat, 1 <= i, i <= Cardinality(H)
  PROVE  \E g \in H : IsRanked(i, H, rate, rate[g])
  <1> DEFINE Top(r) == {h \in H : rate[h] <= r}
             N == {r \in Nat : i <= Cardinality(Top(r))}
             Good == {s \in SUBSET H : \E b \in Nat : \A h \in s : rate[h] <= b}
  <1>1. {} \in Good
    OBVIOUS
  <1>2. ASSUME NEW s \in SUBSET H, NEW e \in H \ s, s \in Good
        PROVE  s \union {e} \in Good
    <2>1. PICK b \in Nat : \A h \in s : rate[h] <= b
      BY <1>2
    <2>2. b + rate[e] \in Nat /\ \A h \in s \union {e} : rate[h] <= b + rate[e]
      BY <2>1
    <2>3. QED
      BY <2>2
  <1>3. H \in Good
    <2> HIDE DEF Good
    <2>1. QED
      BY <1>1, <1>2, OneMoreEach
  <1>4. PICK b \in Nat : \A h \in H : rate[h] <= b
    BY <1>3
  <1>5. N # {}
    <2>1. Top(b) = H
      BY <1>4
    <2>2. QED
      BY <2>1
  <1>6. PICK m \in N : \A r \in N : m <= r
    <2> HIDE DEF N
    <2>1. N \in SUBSET Nat
      BY DEF N
    <2>2. QED
      BY <1>5, <2>1, LeastOfNumbers
  <1>7. \A r \in Nat : IsFiniteSet(Top(r)) /\ Cardinality(Top(r)) \in Nat
    BY FS_Subset, FS_CardinalityType
  <1>8. Cardinality({h \in H : rate[h] < m}) < i
    <2>1. CASE m = 0
      <3>1. {h \in H : rate[h] < m} = {}
        BY <2>1
      <3>2. QED
        BY <3>1, FS_EmptySet
    <2>2. CASE m # 0
      <3>1. m - 1 \in Nat /\ ~ (m <= m - 1)
        BY <2>2
      <3>2. m - 1 \notin N
        BY <1>6, <3>1
      <3>3. ~ (i <= Cardinality(Top(m - 1)))
        BY <3>1, <3>2
      <3>4. {h \in H : rate[h] < m} = Top(m - 1)
        BY <3>1
      <3>5. Cardinality(Top(m - 1)) \in Nat
        BY <1>7, <3>1
      <3> DEFINE count == Cardinality(Top(m - 1))
      <3>6. Cardinality({h \in H : rate[h] < m}) = count
        BY <3>4
      <3>7. count \in Nat /\ ~ (i <= count)
        BY <3>3, <3>5
      <3> HIDE DEF count, Top, N
      <3>8. count < i
        BY <3>7
      <3>9. QED
        BY <3>6, <3>8
    <2>3. QED
      BY <2>1, <2>2
  <1>9. i <= Cardinality(Top(m))
    OBVIOUS
  <1>10. \E g \in H : rate[g] = m
    <2>1. SUFFICES ASSUME \A g \in H : rate[g] # m PROVE FALSE
      OBVIOUS
    <2>2. Top(m) = {h \in H : rate[h] < m}
      BY <2>1
    <2>3. Cardinality(Top(m)) \in Nat
      BY <1>7
    <2> HIDE DEF Top
    <2>4. QED
      BY <1>8, <1>9, <2>2, <2>3
  <1>11. QED
    BY <1>8, <1>9, <1>10 DEF IsRanked, Below, UpTo

---------------------------------------------------------------------------
\* The tenants that are compared are finitely many, and each has a rate.
LEMMA RatesAreNumbers ==
  ASSUME SegmentInv
  PROVE  /\ IsFiniteSet(PooledHomes) /\ Cardinality(PooledHomes) \in Nat
         /\ \A g \in PooledHomes : RateOf(g) \in Nat
  <1>1. IsFiniteSet(Pool)
    <2>1. Pool \subseteq DOMAIN book
      BY DEF Pool
    <2>2. QED
      BY <2>1, FS_Subset DEF SegmentInv
  <1>2. IsFiniteSet(PooledHomes)
    <2> DEFINE f == [c \in Pool |-> HomeOf[c]]
    <2>1. PooledHomes = {f[c] : c \in DOMAIN f}
      BY DEF PooledHomes
    <2>2. IsFiniteSet(DOMAIN f)
      BY <1>1
    <2> HIDE DEF f
    <2>3. QED
      BY <2>1, <2>2, ImageIsFinite
  <1>3. ASSUME NEW g \in PooledHomes
        PROVE  RateOf(g) \in Nat
    <2> DEFINE own == {c \in Pool : HomeOf[c] = g}
               d == Cardinality(own)
               k == Cardinality({c \in own : HighRisk(c)})
    <2>1. IsFiniteSet(own) /\ IsFiniteSet({c \in own : HighRisk(c)})
      BY <1>1, FS_Subset
    <2>2. own # {}
      BY DEF PooledHomes
    <2>3. d \in Nat /\ d # 0 /\ k \in Nat
      BY <2>1, <2>2, FS_CardinalityType, FS_EmptySet
    <2>4. RateOf(g) = (2 * 10000 * k + d) \div (2 * d)
      BY DEF RateOf
    <2> HIDE DEF d, k
    <2>5. 2 * 10000 * k + d \in Nat /\ 2 * d \in Nat \ {0}
      BY <2>3
    <2>6. \A i \in Nat, j \in Nat \ {0} : i \div j \in Nat
      OBVIOUS
    <2>7. QED
      BY <2>4, <2>5, <2>6
  <1>4. QED
    BY <1>2, <1>3, FS_CardinalityType

\* The n-th rate is one of the rates, with fewer than n below it and n up to it.
LEMMA RateHasRank ==
  ASSUME SegmentInv, NEW i \in Nat, 1 <= i, i <= Cardinality(PooledHomes)
  PROVE  /\ Rate(i) \in {RateOf(g) : g \in PooledHomes} /\ Rate(i) \in Nat
         /\ Cardinality({g \in PooledHomes : RateOf(g) < Rate(i)}) < i
         /\ i <= Cardinality({g \in PooledHomes : RateOf(g) <= Rate(i)})
  <1> DEFINE rate == [g \in PooledHomes |-> RateOf(g)]
             Ranked(r) == /\ Cardinality({g \in PooledHomes : RateOf(g) < r}) < i
                          /\ i <= Cardinality({g \in PooledHomes : RateOf(g) <= r})
  <1>1. \A g \in PooledHomes : rate[g] = RateOf(g) /\ rate[g] \in Nat
    BY RatesAreNumbers
  <1>2. \A r : /\ {g \in PooledHomes : rate[g] < r} = {g \in PooledHomes : RateOf(g) < r}
               /\ {g \in PooledHomes : rate[g] <= r} = {g \in PooledHomes : RateOf(g) <= r}
    BY <1>1
  <1> HIDE DEF rate
  <1>3. IsFiniteSet(PooledHomes)
    BY RatesAreNumbers
  <1>4. PICK t \in PooledHomes : IsRanked(i, PooledHomes, rate, rate[t])
    <2>1. \A g \in PooledHomes : rate[g] \in Nat
      BY <1>1
    <2>2. QED
      BY <1>3, <2>1, RankExists
  <1>5. Ranked(RateOf(t))
    <2>1. rate[t] = RateOf(t)
      BY <1>1
    <2>2. /\ Cardinality({g \in PooledHomes : rate[g] < RateOf(t)}) < i
          /\ i <= Cardinality({g \in PooledHomes : rate[g] <= RateOf(t)})
      BY <1>4, <2>1 DEF IsRanked, Below, UpTo
    <2>3. /\ {g \in PooledHomes : rate[g] < RateOf(t)} = {g \in PooledHomes : RateOf(g) < RateOf(t)}
          /\ {g \in PooledHomes : rate[g] <= RateOf(t)} = {g \in PooledHomes : RateOf(g) <= RateOf(t)}
      BY <1>2
    <2>4. QED
      BY <2>2, <2>3
  <1>6. \E r \in {RateOf(g) : g \in PooledHomes} : Ranked(r)
    BY <1>5
  <1>7. Rate(i) = CHOOSE r \in {RateOf(g) : g \in PooledHomes} : Ranked(r)
    BY DEF Rate
  <1> HIDE DEF Ranked
  <1>8. Rate(i) \in {RateOf(g) : g \in PooledHomes} /\ Ranked(Rate(i))
    BY <1>6, <1>7
  <1>9. QED
    BY <1>8, RatesAreNumbers DEF Ranked

LEMMA RatesRise ==
  ASSUME SegmentInv, NEW i \in Nat, NEW j \in Nat, 1 <= i, i <= j, j <= Cardinality(PooledHomes)
  PROVE  Rate(i) <= Rate(j)
  <1> DEFINE below == {g \in PooledHomes : RateOf(g) < Rate(i)}
             upTo == {g \in PooledHomes : RateOf(g) <= Rate(j)}
  <1>1. /\ Rate(i) \in Nat /\ Rate(j) \in Nat
        /\ Cardinality(below) < i /\ j <= Cardinality(upTo)
    <2>1. i <= Cardinality(PooledHomes) /\ 1 <= j
      BY RatesAreNumbers
    <2>2. QED
      BY <2>1, RateHasRank
  <1>2. SUFFICES ASSUME Rate(j) < Rate(i) PROVE FALSE
    BY <1>1
  <1>3. upTo \subseteq below
    BY <1>1, <1>2, RatesAreNumbers
  <1>4. IsFiniteSet(below) /\ IsFiniteSet(upTo)
    BY RatesAreNumbers, FS_Subset
  <1> HIDE DEF below, upTo
  <1>5. Cardinality(upTo) <= Cardinality(below) /\ Cardinality(upTo) \in Nat /\ Cardinality(below) \in Nat
    BY <1>3, <1>4, FS_Subset, FS_CardinalityType
  <1>6. QED
    BY <1>1, <1>5

LEMMA BenchmarkIs ==
  ASSUME SegmentAssumption, SegmentInv
  PROVE  BenchmarkSound
  <1> SUFFICES ASSUME NEW h \in Homes, MayBenchmark(h)
               PROVE  LET rates == {RateOf(g) : g \in Members \intersect {HomeOf[c] : c \in DOMAIN book}}
                          shown == Benchmark
                      IN /\ shown.p25 <= shown.median /\ shown.median <= shown.p75
                         /\ {shown.p25, shown.p75} \subseteq rates
    BY DEF BenchmarkSound
  <1> DEFINE n == Cardinality(PooledHomes)
             low == Rate((n * 1) \div 4 + 1)
             high == Rate((n * 3) \div 4 + 1)
             mid == IF n % 2 = 1 THEN Rate(n \div 2 + 1) ELSE (Rate(n \div 2) + Rate(n \div 2 + 1)) \div 2
  <1>1. Benchmark = [p25 |-> low, p75 |-> high, median |-> mid]
    BY DEF Benchmark, OrderStatistic
  <1>2. n \in Nat /\ n >= TenantsNeeded /\ 1 <= n
    BY RatesAreNumbers DEF MayBenchmark, PooledHomes, SegmentAssumption
  <1>3. PooledHomes = Members \intersect {HomeOf[c] : c \in DOMAIN book}
    BY DEF PooledHomes, Pool
  <1>4. \A i, j \in Nat : 1 <= i /\ i <= j /\ j <= n => Rate(i) <= Rate(j)
    BY RatesRise
  <1>5. \A i \in Nat : 1 <= i /\ i <= n => Rate(i) \in {RateOf(g) : g \in PooledHomes} /\ Rate(i) \in Nat
    BY RateHasRank
  <1> HIDE DEF n
  <1>6. /\ (n * 1) \div 4 + 1 \in Nat /\ 1 <= (n * 1) \div 4 + 1 /\ (n * 1) \div 4 + 1 <= n
        /\ (n * 3) \div 4 + 1 \in Nat /\ 1 <= (n * 3) \div 4 + 1 /\ (n * 3) \div 4 + 1 <= n
    BY <1>2
  <1>7. low \in Nat /\ high \in Nat /\ {low, high} \subseteq {RateOf(g) : g \in PooledHomes}
    BY <1>5, <1>6
  <1>8. CASE n % 2 = 1
    <2> DEFINE m == n \div 2 + 1
    <2>1. m \in Nat /\ 1 <= m /\ m <= n /\ (n * 1) \div 4 + 1 <= m /\ m <= (n * 3) \div 4 + 1
      BY <1>2, <1>8
    <2>2. low <= Rate(m) /\ Rate(m) <= high
      BY <1>4, <1>6, <2>1
    <2>3. QED
      <3>1. mid = Rate(m)
        BY <1>8
      <3>2. low <= mid /\ mid <= high
        BY <2>2, <3>1
      <3> HIDE DEF low, high, mid
      <3>3. QED
        BY <1>1, <1>3, <1>7, <3>2
  <1>9. CASE n % 2 # 1
    <2> DEFINE m == n \div 2
    <2>1. /\ m \in Nat /\ 1 <= m /\ m <= n /\ m + 1 <= n
          /\ (n * 1) \div 4 + 1 <= m /\ m + 1 <= (n * 3) \div 4 + 1
      BY <1>2, <1>9
    <2>2. low <= Rate(m) /\ Rate(m) <= Rate(m + 1) /\ Rate(m + 1) <= high
      BY <1>4, <1>6, <2>1
    <2>3. Rate(m) \in Nat /\ Rate(m + 1) \in Nat
      BY <1>5, <2>1
    <2>4. mid = (Rate(m) + Rate(m + 1)) \div 2
      BY <1>9
    <2>5. \A i, j, k, l \in Nat : i <= j /\ j <= k /\ k <= l => i <= (j + k) \div 2 /\ (j + k) \div 2 <= l
      OBVIOUS
    <2>6. low <= mid /\ mid <= high
      BY <1>7, <2>2, <2>3, <2>4, <2>5
    <2> HIDE DEF low, high, mid
    <2>7. QED
      BY <1>1, <1>3, <1>7, <2>6
  <1>10. QED
    BY <1>8, <1>9

LEMMA SegmentMeans == SegmentAssumption /\ SegmentInv => SegmentsSound
  <1> SUFFICES ASSUME SegmentAssumption, SegmentInv
               PROVE  SegmentsSound
    OBVIOUS
  <1>1. SegmentTypeOK
    BY DEF SegmentTypeOK, SegmentInv, RiskTier
  <1>2. CohortsAgree
    BY CohortsAddUp, PlansAddUp, PlanCounts DEF CohortsAgree
  <1>3. QED
    BY <1>1, <1>2, RiskIsOne, BenchmarkIs DEF SegmentsSound

\* Cohorts cover every customer once and their losses add up to the revenue at risk, a segment is
\* flagged for nobody whose risk is certain, and the quartiles of the benchmark are rates of members
\* around its median (cohorts.py:29-78, revenue_at_risk.py:35-61, fairness.py, benchmarks.py:38-108).
THEOREM SegmentsAreSound == SegmentInit /\ [][SegmentNext]_segmentVars => []SegmentsSound
  BY SegmentAssumption, SegmentInitially, SegmentStep, SegmentMeans, PTL

---------------------------------------------------------------------------
(***************************************************************************)
(* Attribution                                                             *)
(***************************************************************************)
TouchRows(w) == [n : Nat, who : Touched, channel : Channels, sent : 0 .. w, outcome : {"pending", "retained", "churned"}]

JudgedFairly(t) ==
  /\ t.outcome # "pending" => t.sent + JudgedAfter <= week
  /\ t.outcome = "retained" => ~ Lost30(t)
  /\ t.outcome = "churned" => Lost30(t)

AttributionInv ==
  /\ week \in 0 .. LastWeek /\ cancels \subseteq [who : Touched, at : 0 .. week]
  /\ IsFiniteSet(touches) /\ touches \subseteq TouchRows(week)
  /\ \A t \in touches : JudgedFairly(t)

LEMMA WeeksAre ==
  ASSUME NEW n \in 0 .. week, week \in 0 .. LastWeek, AttributionAssumption
  PROVE  n \in Nat /\ n <= week /\ week \in Nat /\ week <= LastWeek /\ LastWeek \in Nat
  BY DEF AttributionAssumption

LEMMA AttributionInitially == AttributionAssumption /\ AttributionInit => AttributionInv
  BY FS_EmptySet DEF AttributionAssumption, AttributionInit, AttributionInv

LEMMA AttributionTouches ==
  ASSUME AttributionAssumption, AttributionInv, Touch
  PROVE  AttributionInv'
  <1>1. PICK c \in Touched, ch \in Channels :
          touches' = touches \union
            {[n |-> Cardinality(touches) + 1, who |-> c, channel |-> ch, sent |-> week, outcome |-> "pending"]}
    BY DEF Touch
  <1>2. week' = week /\ cancels' = cancels
    BY DEF Touch
  <1> DEFINE new == [n |-> Cardinality(touches) + 1, who |-> c, channel |-> ch, sent |-> week, outcome |-> "pending"]
  <1>3. week \in 0 .. week
    BY DEF AttributionInv
  <1>4. new \in TouchRows(week)
    <2>1. Cardinality(touches) + 1 \in Nat
      BY FS_CardinalityType DEF AttributionInv
    <2>2. QED
      BY <1>3, <2>1 DEF TouchRows
  <1>5. new.outcome = "pending"
    OBVIOUS
  <1> HIDE DEF new
  <1>6. IsFiniteSet(touches') /\ touches' \subseteq TouchRows(week)
    BY <1>1, <1>4, FS_AddElement DEF AttributionInv, new
  <1>7. \A t \in touches' : JudgedFairly(t)'
    BY <1>1, <1>2, <1>5 DEF AttributionInv, JudgedFairly, Lost30, new
  <1>8. QED
    BY <1>2, <1>6, <1>7 DEF AttributionInv

LEMMA AttributionCancels ==
  ASSUME AttributionAssumption, AttributionInv, NEW c \in Touched, Cancel(c)
  PROVE  AttributionInv'
  <1>1. cancels = {} /\ cancels' = {[who |-> c, at |-> week]} /\ week' = week /\ touches' = touches
    BY DEF Cancel
  <1>2. cancels' \subseteq [who : Touched, at : 0 .. week]
    BY <1>1 DEF AttributionInv
  <1>3. ASSUME NEW t \in touches PROVE JudgedFairly(t)'
    <2>1. t.sent \in 0 .. week /\ JudgedFairly(t)
      BY DEF AttributionInv, TouchRows
    <2>2. ~ Lost30(t)
      BY <1>1 DEF Lost30
    <2>3. t.outcome # "churned"
      BY <2>1, <2>2 DEF JudgedFairly
    <2>4. t.outcome # "pending" => t.sent + JudgedAfter <= week
      BY <2>1 DEF JudgedFairly
    <2>5. t.sent + JudgedAfter <= week => ~ (week <= t.sent + CountsFor)
      BY <2>1 DEF JudgedAfter, CountsFor, AttributionInv
    <2>6. QED
      BY <1>1, <2>3, <2>4, <2>5 DEF JudgedFairly, Lost30
  <1>4. QED
    BY <1>1, <1>2, <1>3 DEF AttributionInv

LEMMA AttributionJudges ==
  ASSUME AttributionAssumption, AttributionInv, JudgeAll
  PROVE  AttributionInv'
  <1> DEFINE verdict(t) == IF t.outcome = "pending" /\ t.sent + JudgedAfter <= week
                           THEN [t EXCEPT !.outcome = IF Lost30(t) THEN "churned" ELSE "retained"] ELSE t
  <1>1. touches' = {verdict(t) : t \in touches} /\ week' = week /\ cancels' = cancels
    BY DEF JudgeAll
  <1>2. IsFiniteSet({verdict(t) : t \in touches})
    <2> DEFINE f == [t \in touches |-> verdict(t)]
    <2>1. {verdict(t) : t \in touches} = {f[t] : t \in DOMAIN f}
      OBVIOUS
    <2>2. IsFiniteSet(DOMAIN f)
      BY DEF AttributionInv
    <2> HIDE DEF f
    <2>3. QED
      BY <2>1, <2>2, ImageIsFinite
  <1>3. ASSUME NEW t \in touches
        PROVE  verdict(t) \in TouchRows(week) /\ JudgedFairly(verdict(t))
    <2>1. t \in TouchRows(week) /\ JudgedFairly(t)
      BY DEF AttributionInv
    <2>2. CASE t.outcome = "pending" /\ t.sent + JudgedAfter <= week
      <3>1. verdict(t) = [n |-> t.n, who |-> t.who, channel |-> t.channel, sent |-> t.sent,
                          outcome |-> IF Lost30(t) THEN "churned" ELSE "retained"]
        BY <2>1, <2>2 DEF TouchRows
      <3> HIDE DEF verdict
      <3>2. /\ verdict(t).who = t.who /\ verdict(t).sent = t.sent
            /\ verdict(t).outcome = IF Lost30(t) THEN "churned" ELSE "retained"
        BY <3>1
      <3>3. verdict(t) \in TouchRows(week)
        BY <2>1, <3>1 DEF TouchRows
      <3>4. Lost30(verdict(t)) <=> Lost30(t)
        BY <3>2 DEF Lost30
      <3>5. QED
        BY <2>2, <3>2, <3>3, <3>4 DEF JudgedFairly
    <2>3. CASE ~ (t.outcome = "pending" /\ t.sent + JudgedAfter <= week)
      <3>1. verdict(t) = t
        BY <2>3
      <3> HIDE DEF verdict
      <3>2. QED
        BY <2>1, <3>1
    <2>4. QED
      BY <2>2, <2>3
  <1> HIDE DEF verdict
  <1>4. \A t \in touches' : t \in TouchRows(week) /\ JudgedFairly(t)'
    <2>1. \A t : JudgedFairly(t)' <=> JudgedFairly(t)
      BY <1>1 DEF JudgedFairly, Lost30
    <2>2. QED
      BY <1>1, <1>3, <2>1
  <1>5. QED
    BY <1>1, <1>2, <1>4 DEF AttributionInv

LEMMA AttributionWaits ==
  ASSUME AttributionAssumption, AttributionInv, WeekPasses
  PROVE  AttributionInv'
  <1>1. PICK g \in Gaps : week + g <= LastWeek /\ week' = week + g
    BY DEF WeekPasses
  <1>2. touches' = touches /\ cancels' = cancels
    BY DEF WeekPasses
  <1>3. g \in Nat /\ week \in Nat /\ LastWeek \in Nat
    BY DEF AttributionAssumption, AttributionInv
  <1>4. week' \in 0 .. LastWeek /\ 0 .. week \subseteq 0 .. week'
    BY <1>1, <1>3
  <1>5. touches \subseteq TouchRows(week') /\ cancels \subseteq [who : Touched, at : 0 .. week']
    BY <1>4 DEF AttributionInv, TouchRows
  <1>6. ASSUME NEW t \in touches PROVE JudgedFairly(t)'
    <2>1. t.sent \in 0 .. week /\ JudgedFairly(t)
      BY DEF AttributionInv, TouchRows
    <2>2. t.sent + JudgedAfter <= week => t.sent + JudgedAfter <= week'
      BY <1>1, <1>3, <2>1 DEF JudgedAfter
    <2>3. QED
      BY <1>2, <2>1, <2>2 DEF JudgedFairly, Lost30
  <1>7. QED
    BY <1>2, <1>4, <1>5, <1>6 DEF AttributionInv

LEMMA AttributionStep == AttributionAssumption /\ AttributionInv /\ [AttributionNext]_attributionVars => AttributionInv'
  <1>1. AttributionInv /\ UNCHANGED attributionVars => AttributionInv'
    BY DEF AttributionInv, attributionVars, JudgedFairly, Lost30
  <1>2. QED
    BY <1>1, AttributionTouches, AttributionCancels, AttributionJudges, AttributionWaits DEF AttributionNext

LEMMA BothReportsAgree ==
  ASSUME AttributionAssumption, AttributionInv
  PROVE  ReportsAgree
  <1>1. \A t \in touches : /\ t.channel \in Channels /\ t.sent \in 0 .. week /\ JudgedFairly(t)
                           /\ t.outcome \in {"pending", "retained", "churned"}
    BY DEF AttributionInv, TouchRows
  <1>2. \A k \in cancels : k.at \in 0 .. week
    BY DEF AttributionInv
  <1>3. \A a, b \in 0 .. week : b - a \in 0 .. CountsFor <=> b >= a /\ b <= a + CountsFor
    BY DEF CountsFor, AttributionInv
  <1>4. \A t \in touches : Lost30(t) <=> \E k \in cancels : k.who = t.who /\ k.at - t.sent \in 0 .. CountsFor
    BY <1>1, <1>2, <1>3 DEF Lost30
  <1>5. Retained = UNION {Successes(ch) : ch \in Channels}
    BY <1>1 DEF Retained, Successes, Evaluated
  <1>6. \A t \in Retained : t \in touches /\ ~ Lost30(t)
    BY <1>1 DEF Retained, JudgedFairly
  <1>7. \A ch \in Channels : \A t \in Evaluated(ch) \ Successes(ch) : t \in touches /\ Lost30(t)
    BY <1>1 DEF Successes, Evaluated, JudgedFairly
  <1>8. QED
    BY <1>4, <1>5, <1>6, <1>7 DEF ReportsAgree

---------------------------------------------------------------------------
\* Powers of two, as far as the weights need them.
LEMMA PowerIs ==
  ASSUME AttributionAssumption
  PROVE  Power = [n \in 0 .. LastWeek |-> IF n = 0 THEN 1 ELSE 2 * Power[n - 1]]
  <1> DEFINE Fits(h, m) == h = [n \in 0 .. m |-> IF n = 0 THEN 1 ELSE 2 * h[n - 1]]
             N == {m \in Nat : ~ \E h : Fits(h, m)}
  <1>1. \E h : Fits(h, 0)
    <2> DEFINE h == [n \in 0 .. 0 |-> 1]
    <2>1. h = [n \in 0 .. 0 |-> IF n = 0 THEN 1 ELSE 2 * h[n - 1]]
      OBVIOUS
    <2> HIDE DEF h
    <2>2. QED
      BY <2>1
  <1>2. ASSUME NEW m \in Nat, NEW h, Fits(h, m)
        PROVE  \E g : Fits(g, m + 1)
    <2> DEFINE g == [n \in 0 .. m + 1 |-> IF n <= m THEN h[n] ELSE 2 * h[m]]
    <2>1. ASSUME NEW n \in 0 .. m + 1
          PROVE  g[n] = IF n = 0 THEN 1 ELSE 2 * g[n - 1]
      <3>1. CASE n = 0
        <4>1. h[0] = 1
          BY <1>2
        <4>2. QED
          BY <3>1, <4>1
      <3>2. CASE n # 0 /\ n <= m
        <4>1. n \in 0 .. m /\ n - 1 \in 0 .. m + 1 /\ n - 1 <= m
          BY <3>2
        <4>2. h[n] = 2 * h[n - 1]
          BY <1>2, <3>2, <4>1
        <4>3. QED
          BY <3>2, <4>1, <4>2
      <3>3. CASE n = m + 1
        <4>1. n - 1 = m /\ m \in 0 .. m + 1 /\ ~ (n <= m) /\ n # 0
          BY <3>3
        <4>2. g[n] = 2 * h[m] /\ g[n - 1] = h[m]
          BY <4>1
        <4>3. QED
          BY <4>1, <4>2
      <3>4. QED
        BY <3>1, <3>2, <3>3
    <2>2. g = [n \in 0 .. m + 1 |-> g[n]]
      OBVIOUS
    <2> HIDE DEF g
    <2>3. Fits(g, m + 1)
      BY <2>1, <2>2
    <2>4. QED
      BY <2>3
  <1> HIDE DEF Fits
  <1>3. N = {}
    <2>1. SUFFICES ASSUME N # {} PROVE FALSE
      OBVIOUS
    <2>2. PICK m \in N : \A n \in N : m <= n
      <3> HIDE DEF N
      <3>1. N \in SUBSET Nat
        BY DEF N
      <3>2. QED
        BY <2>1, <3>1, LeastOfNumbers
    <2>3. m # 0
      BY <1>1
    <2>4. m - 1 \in Nat /\ m - 1 \notin N
      BY <2>2, <2>3
    <2>5. \E h : Fits(h, m - 1)
      BY <2>4
    <2>6. \E g : Fits(g, (m - 1) + 1)
      BY <1>2, <2>4, <2>5
    <2>7. QED
      BY <2>6
  <1>4. \E h : Fits(h, LastWeek)
    BY <1>3 DEF AttributionAssumption
  <1>5. Fits(CHOOSE h : Fits(h, LastWeek), LastWeek)
    BY <1>4
  <1>6. Power = CHOOSE h : Fits(h, LastWeek)
    BY DEF Power, Fits
  <1>7. Fits(Power, LastWeek)
    BY <1>5, <1>6
  <1>8. QED
    BY <1>7 DEF Fits

LEMMA PowerDoubles ==
  ASSUME AttributionAssumption, NEW n \in Nat, n < LastWeek
  PROVE  Power[0] = 1 /\ Power[n + 1] = 2 * Power[n]
  <1>1. LastWeek \in Nat
    BY DEF AttributionAssumption
  <1>2. 0 \in 0 .. LastWeek /\ n + 1 \in 0 .. LastWeek /\ n + 1 # 0 /\ (n + 1) - 1 = n
    BY <1>1
  <1>3. \A k \in 0 .. LastWeek : Power[k] = IF k = 0 THEN 1 ELSE 2 * Power[k - 1]
    <2> DEFINE e(k) == IF k = 0 THEN 1 ELSE 2 * Power[k - 1]
    <2>1. Power = [k \in 0 .. LastWeek |-> e(k)]
      BY PowerIs
    <2>2. \A k \in 0 .. LastWeek : [j \in 0 .. LastWeek |-> e(j)][k] = e(k)
      OBVIOUS
    <2> HIDE DEF e
    <2>3. \A k \in 0 .. LastWeek : Power[k] = e(k)
      BY <2>1, <2>2
    <2>4. QED
      BY <2>3 DEF e
  <1>4. QED
    BY <1>2, <1>3

LEMMA PowerOfNone ==
  ASSUME AttributionAssumption
  PROVE  Power[0] = 1
  <1>1. 0 \in 0 .. LastWeek
    BY DEF AttributionAssumption
  <1> DEFINE e(k) == IF k = 0 THEN 1 ELSE 2 * Power[k - 1]
  <1>2. Power = [k \in 0 .. LastWeek |-> e(k)]
    BY PowerIs
  <1>3. [k \in 0 .. LastWeek |-> e(k)][0] = e(0)
    BY <1>1
  <1>4. e(0) = 1
    OBVIOUS
  <1> HIDE DEF e
  <1>5. QED
    BY <1>2, <1>3, <1>4

LEMMA PowerPositive ==
  ASSUME AttributionAssumption, NEW n \in Nat, n <= LastWeek
  PROVE  Power[n] \in Nat /\ Power[n] > 0
  <1> DEFINE N == {m \in Nat : m <= LastWeek /\ ~ (Power[m] \in Nat /\ Power[m] > 0)}
  <1>1. SUFFICES ASSUME N # {} PROVE FALSE
    OBVIOUS
  <1>2. PICK m \in N : \A k \in N : m <= k
    <2> HIDE DEF N
    <2>1. N \in SUBSET Nat
      BY DEF N
    <2>2. QED
      BY <1>1, <2>1, LeastOfNumbers
  <1>3. m # 0
    BY PowerOfNone
  <1>4. LastWeek \in Nat
    BY DEF AttributionAssumption
  <1>5. m - 1 \in Nat /\ m - 1 < LastWeek /\ m - 1 \notin N
    BY <1>2, <1>3, <1>4
  <1>6. Power[m - 1] \in Nat /\ Power[m - 1] > 0
    BY <1>4, <1>5
  <1>7. Power[(m - 1) + 1] = 2 * Power[m - 1]
    BY <1>5, PowerDoubles
  <1>8. (m - 1) + 1 = m
    OBVIOUS
  <1>9. QED
    BY <1>6, <1>7, <1>8

LEMMA PowerRises ==
  ASSUME AttributionAssumption, NEW m \in Nat, NEW n \in Nat, m <= n, n <= LastWeek
  PROVE  Power[m] <= Power[n]
  <1> DEFINE N == {k \in Nat : m <= k /\ k <= LastWeek /\ ~ (Power[m] <= Power[k])}
  <1>0. LastWeek \in Nat
    BY DEF AttributionAssumption
  <1>1. SUFFICES ASSUME N # {} PROVE FALSE
    OBVIOUS
  <1>2. PICK k \in N : \A j \in N : k <= j
    <2> HIDE DEF N
    <2>1. N \in SUBSET Nat
      BY DEF N
    <2>2. QED
      BY <1>1, <2>1, LeastOfNumbers
  <1>3. Power[m] \in Nat
    <2>1. m <= LastWeek
      BY <1>0
    <2>2. QED
      BY <2>1, PowerPositive
  <1>4. k # m
    BY <1>3
  <1>5. k - 1 \in Nat /\ m <= k - 1 /\ k - 1 < LastWeek /\ k - 1 \notin N
    BY <1>0, <1>2, <1>4
  <1>6. Power[m] <= Power[k - 1]
    BY <1>0, <1>5
  <1>7. Power[(k - 1) + 1] = 2 * Power[k - 1] /\ (k - 1) + 1 = k
    BY <1>5, PowerDoubles
  <1>8. Power[k - 1] \in Nat
    <2>1. k - 1 <= LastWeek
      BY <1>0, <1>5
    <2>2. QED
      BY <1>5, <2>1, PowerPositive
  <1>9. QED
    BY <1>3, <1>6, <1>7, <1>8

LEMMA PowerOfEight ==
  ASSUME AttributionAssumption, NEW m \in Nat, m + 8 <= LastWeek
  PROVE  Power[m + 8] = 256 * Power[m]
  <1>1. LastWeek \in Nat
    BY DEF AttributionAssumption
  <1>2. \A k \in Nat : k < LastWeek => Power[k + 1] = 2 * Power[k] /\ Power[k] \in Nat
    BY <1>1, PowerDoubles, PowerPositive
  <1>3. Power[m + 1] = 2 * Power[m] /\ Power[m] \in Nat
    BY <1>1, <1>2
  <1>4. Power[m + 2] = 2 * Power[m + 1]
    BY <1>1, <1>2, m + 1 \in Nat, (m + 1) + 1 = m + 2
  <1>5. Power[m + 3] = 2 * Power[m + 2]
    BY <1>1, <1>2, m + 2 \in Nat, (m + 2) + 1 = m + 3
  <1>6. Power[m + 4] = 2 * Power[m + 3]
    BY <1>1, <1>2, m + 3 \in Nat, (m + 3) + 1 = m + 4
  <1>7. Power[m + 5] = 2 * Power[m + 4]
    BY <1>1, <1>2, m + 4 \in Nat, (m + 4) + 1 = m + 5
  <1>8. Power[m + 6] = 2 * Power[m + 5]
    BY <1>1, <1>2, m + 5 \in Nat, (m + 5) + 1 = m + 6
  <1>9. Power[m + 7] = 2 * Power[m + 6]
    BY <1>1, <1>2, m + 6 \in Nat, (m + 6) + 1 = m + 7
  <1>10. Power[m + 8] = 2 * Power[m + 7]
    BY <1>1, <1>2, m + 7 \in Nat, (m + 7) + 1 = m + 8
  <1>11. QED
    BY <1>3, <1>4, <1>5, <1>6, <1>7, <1>8, <1>9, <1>10

---------------------------------------------------------------------------
\* The shares of an account.
LEMMA WeightIsTotal ==
  ASSUME NEW S, IsFiniteSet(S)
  PROVE  MapThenSumSet(Weight, S) = Total([e \in S |-> Weight(e)], S)
  <1> DEFINE f == [e \in S |-> Weight(e)]
             Fits(h) == h = [s \in SUBSET S |-> IF s = {} THEN 0
                               ELSE Weight(CHOOSE e \in s : TRUE) + h[s \ {CHOOSE e \in s : TRUE}]]
             it == CHOOSE h : Fits(h)
  <1>1. MapThenSumSet(Weight, S) = it[S]
    BY DEF MapThenSumSet, MapThenFoldSet
  <1>2. PICK h : IsSum(h, f, S) /\ Total(f, S) = h[S]
    BY TotalIs
  <1>3. \A s \in SUBSET S : s # {} => f[AnyOf(s)] = Weight(CHOOSE e \in s : TRUE)
    BY AnyIsIn DEF AnyOf
  <1>4. \A g : Fits(g) <=> IsSum(g, f, S)
    <2> HIDE DEF f
    <2>1. SUFFICES ASSUME NEW g PROVE Fits(g) <=> IsSum(g, f, S)
      OBVIOUS
    <2>2. [s \in SUBSET S |-> IF s = {} THEN 0 ELSE Weight(CHOOSE e \in s : TRUE) + g[s \ {CHOOSE e \in s : TRUE}]]
          = [s \in SUBSET S |-> IF s = {} THEN 0 ELSE f[AnyOf(s)] + g[s \ {AnyOf(s)}]]
      BY <1>3 DEF AnyOf
    <2>3. QED
      BY <2>2 DEF IsSum
  <1> HIDE DEF f, Fits
  <1>5. Fits(it)
    BY <1>2, <1>4
  <1>6. IsSum(it, f, S)
    BY <1>4, <1>5
  <1>7. it[S] = h[S]
    BY <1>2, <1>6, SumsAgree
  <1>8. QED
    BY <1>1, <1>2, <1>7 DEF f

LEMMA CreditIsTotal ==
  ASSUME NEW S, IsFiniteSet(S)
  PROVE  MapThenSumSet(Credit, S) = Total([e \in S |-> Credit(e)], S)
  <1> DEFINE f == [e \in S |-> Credit(e)]
             Fits(h) == h = [s \in SUBSET S |-> IF s = {} THEN 0
                               ELSE Credit(CHOOSE e \in s : TRUE) + h[s \ {CHOOSE e \in s : TRUE}]]
             it == CHOOSE h : Fits(h)
  <1>1. MapThenSumSet(Credit, S) = it[S]
    BY DEF MapThenSumSet, MapThenFoldSet
  <1>2. PICK h : IsSum(h, f, S) /\ Total(f, S) = h[S]
    BY TotalIs
  <1>3. \A s \in SUBSET S : s # {} => f[AnyOf(s)] = Credit(CHOOSE e \in s : TRUE)
    BY AnyIsIn DEF AnyOf
  <1>4. \A g : Fits(g) <=> IsSum(g, f, S)
    <2> HIDE DEF f
    <2>1. SUFFICES ASSUME NEW g PROVE Fits(g) <=> IsSum(g, f, S)
      OBVIOUS
    <2>2. [s \in SUBSET S |-> IF s = {} THEN 0 ELSE Credit(CHOOSE e \in s : TRUE) + g[s \ {CHOOSE e \in s : TRUE}]]
          = [s \in SUBSET S |-> IF s = {} THEN 0 ELSE f[AnyOf(s)] + g[s \ {AnyOf(s)}]]
      BY <1>3 DEF AnyOf
    <2>3. QED
      BY <2>2 DEF IsSum
  <1> HIDE DEF f, Fits
  <1>5. Fits(it)
    BY <1>2, <1>4
  <1>6. IsSum(it, f, S)
    BY <1>4, <1>5
  <1>7. it[S] = h[S]
    BY <1>2, <1>6, SumsAgree
  <1>8. QED
    BY <1>1, <1>2, <1>7 DEF f

LEMMA ContributionIsTotal ==
  ASSUME NEW S, IsFiniteSet(S)
  PROVE  MapThenSumSet(Contribution100, S) = Total([e \in S |-> Contribution100(e)], S)
  <1> DEFINE f == [e \in S |-> Contribution100(e)]
             Fits(h) == h = [s \in SUBSET S |-> IF s = {} THEN 0
                               ELSE Contribution100(CHOOSE e \in s : TRUE) + h[s \ {CHOOSE e \in s : TRUE}]]
             it == CHOOSE h : Fits(h)
  <1>1. MapThenSumSet(Contribution100, S) = it[S]
    BY DEF MapThenSumSet, MapThenFoldSet
  <1>2. PICK h : IsSum(h, f, S) /\ Total(f, S) = h[S]
    BY TotalIs
  <1>3. \A s \in SUBSET S : s # {} => f[AnyOf(s)] = Contribution100(CHOOSE e \in s : TRUE)
    BY AnyIsIn DEF AnyOf
  <1>4. \A g : Fits(g) <=> IsSum(g, f, S)
    <2> HIDE DEF f
    <2>1. SUFFICES ASSUME NEW g PROVE Fits(g) <=> IsSum(g, f, S)
      OBVIOUS
    <2>2. [s \in SUBSET S |-> IF s = {} THEN 0 ELSE Contribution100(CHOOSE e \in s : TRUE) + g[s \ {CHOOSE e \in s : TRUE}]]
          = [s \in SUBSET S |-> IF s = {} THEN 0 ELSE f[AnyOf(s)] + g[s \ {AnyOf(s)}]]
      BY <1>3 DEF AnyOf
    <2>3. QED
      BY <2>2 DEF IsSum
  <1> HIDE DEF f, Fits
  <1>5. Fits(it)
    BY <1>2, <1>4
  <1>6. IsSum(it, f, S)
    BY <1>4, <1>5
  <1>7. it[S] = h[S]
    BY <1>2, <1>6, SumsAgree
  <1>8. QED
    BY <1>1, <1>2, <1>7 DEF f


LEMMA TouchTypes ==
  ASSUME AttributionAssumption, AttributionInv, NEW t \in touches
  PROVE  t.sent \in Nat /\ t.sent <= LastWeek /\ t.channel \in Channels
  BY DEF AttributionAssumption, AttributionInv, TouchRows

LEMMA TouchesFinite ==
  ASSUME AttributionInv, NEW c
  PROVE  /\ IsFiniteSet(Retained) /\ Retained \subseteq touches
         /\ TouchesOf(c) \subseteq Retained /\ IsFiniteSet(TouchesOf(c))
  <1>1. Retained \subseteq touches /\ TouchesOf(c) \subseteq Retained
    BY DEF Retained, TouchesOf
  <1>2. IsFiniteSet(Retained)
    BY <1>1, FS_Subset DEF AttributionInv
  <1>3. QED
    BY <1>1, <1>2, FS_Subset

LastSentTo(c) == Max({u.sent : u \in TouchesOf(c)})

\* The last touch of an account is one of its touches.
LEMMA LastTouch ==
  ASSUME AttributionAssumption, AttributionInv, NEW c, NEW t \in TouchesOf(c)
  PROVE  /\ LastSentTo(c) \in Nat /\ LastSentTo(c) <= LastWeek
         /\ t.sent \in Nat /\ t.sent <= LastSentTo(c) /\ HalfLives(t) = LastSentTo(c) - t.sent
  <1> DEFINE S == {u.sent : u \in TouchesOf(c)}
  <1>1. \A u \in TouchesOf(c) : u.sent \in Nat /\ u.sent <= LastWeek
    BY TouchTypes, TouchesFinite
  <1>2. S \in SUBSET Nat /\ t.sent \in S /\ \A n \in S : n <= LastWeek
    BY <1>1
  <1>3. t.who = c
    BY DEF TouchesOf
  <1>4. HalfLives(t) = LastSentTo(c) - t.sent
    BY <1>3 DEF HalfLives, LastSentTo
  <1>5. LastSentTo(c) = Max(S)
    BY DEF LastSentTo
  <1>6. LastWeek \in Nat
    BY DEF AttributionAssumption
  <1> HIDE DEF S
  <1>7. \E m \in S : \A n \in S : n <= m
    <2>1. S # {}
      BY <1>2
    <2>2. QED
      BY <1>2, <1>6, <2>1, GreatestOfBounded
  <1>8. \E m \in S : \A n \in S : m >= n
    BY <1>2, <1>7
  <1>9. Max(S) \in S /\ \A n \in S : Max(S) >= n
    BY <1>8 DEF Max
  <1>10. QED
    BY <1>1, <1>2, <1>4, <1>5, <1>9

LEMMA WeightPositive ==
  ASSUME AttributionAssumption, AttributionInv, NEW c, NEW t \in TouchesOf(c)
  PROVE  /\ Weight(t) = Power[LastWeek - LastSentTo(c) + t.sent]
         /\ LastWeek - LastSentTo(c) + t.sent \in Nat /\ LastWeek - LastSentTo(c) + t.sent <= LastWeek
         /\ Weight(t) \in Nat /\ Weight(t) > 0
  <1>1. LastWeek \in Nat
    BY DEF AttributionAssumption
  <1>2. /\ LastSentTo(c) \in Nat /\ LastSentTo(c) <= LastWeek
        /\ t.sent \in Nat /\ t.sent <= LastSentTo(c) /\ HalfLives(t) = LastSentTo(c) - t.sent
    BY LastTouch
  <1>3. LastWeek - HalfLives(t) = LastWeek - LastSentTo(c) + t.sent
    BY <1>1, <1>2
  <1>4. LastWeek - LastSentTo(c) + t.sent \in Nat /\ LastWeek - LastSentTo(c) + t.sent <= LastWeek
    BY <1>1, <1>2
  <1>5. Weight(t) = Power[LastWeek - LastSentTo(c) + t.sent]
    BY <1>3 DEF Weight
  <1>6. QED
    BY <1>4, <1>5, PowerPositive

\* A sum of positive terms over a set that has any is positive.
LEMMA TotalPositive ==
  ASSUME NEW S, IsFiniteSet(S), NEW f, \A e \in S : f[e] \in Nat /\ f[e] > 0
  PROVE  Summable(f, S) /\ Total(f, S) \in Nat /\ (S # {} => Total(f, S) > 0)
  <1> DEFINE Good == {s \in SUBSET S : Total(f, s) \in Nat /\ (s # {} => Total(f, s) > 0)}
  <1>1. Summable(f, S)
    BY DEF Summable
  <1>2. {} \in Good
    BY TotalOfNone
  <1>3. ASSUME NEW s \in SUBSET S, NEW e \in S \ s, s \in Good
        PROVE  s \union {e} \in Good
    <2>1. s \union {e} \in SUBSET S /\ e \notin s
      OBVIOUS
    <2>2. Summable(f, s \union {e})
      BY <1>1, <2>1, SummableParts
    <2>3. Total(f, s \union {e}) = f[e] + Total(f, s)
      BY <2>1, <2>2, TotalAdds
    <2>4. QED
      BY <1>3, <2>1, <2>3
  <1> HIDE DEF Good
  <1>4. S \in Good
    BY <1>2, <1>3, OneMoreEach
  <1>5. QED
    BY <1>1, <1>4 DEF Good

WeightOf(c) == MapThenSumSet(Weight, TouchesOf(c))

LEMMA WeightOfAccount ==
  ASSUME AttributionAssumption, AttributionInv, NEW c, TouchesOf(c) # {}
  PROVE  WeightOf(c) \in Nat /\ WeightOf(c) > 0
  <1> DEFINE f == [t \in TouchesOf(c) |-> Weight(t)]
  <1>1. IsFiniteSet(TouchesOf(c))
    BY TouchesFinite
  <1>2. WeightOf(c) = Total(f, TouchesOf(c))
    BY <1>1, WeightIsTotal DEF WeightOf
  <1>3. \A t \in TouchesOf(c) : f[t] \in Nat /\ f[t] > 0
    BY WeightPositive
  <1> HIDE DEF f
  <1>4. QED
    BY <1>1, <1>2, <1>3, TotalPositive

LEMMA FractionIs ==
  ASSUME AttributionAssumption, AttributionInv, NEW c, NEW t \in TouchesOf(c)
  PROVE  /\ Fraction(t) = Nearest(10000 * Weight(t), WeightOf(c))
         /\ Fraction(t) \in Int
         /\ (2 * WeightOf(c)) * Fraction(t) <= 20000 * Weight(t) + WeightOf(c)
         /\ 20000 * Weight(t) + WeightOf(c) < (2 * WeightOf(c)) * Fraction(t) + 2 * WeightOf(c)
  <1>1. t.who = c
    BY DEF TouchesOf
  <1>2. Fraction(t) = Nearest(10000 * Weight(t), WeightOf(c))
    BY <1>1 DEF Fraction, NearestPart, Nearest, WeightOf
  <1>3. WeightOf(c) \in Nat /\ WeightOf(c) > 0 /\ Weight(t) \in Nat
    BY WeightOfAccount, WeightPositive
  <1> DEFINE d == WeightOf(c)
             n == 10000 * Weight(t)
             q == Nearest(n, d)
  <1>4. n \in Int /\ d \in Int /\ d > 0
    BY <1>3
  <1>5. 2 * n = 20000 * Weight(t)
    BY <1>3
  <1>6. q \in Int /\ (2 * d) * q <= 2 * n + d /\ 2 * n + d < (2 * d) * q + 2 * d
    <2> HIDE DEF n, d
    <2>1. QED
      BY <1>4, NearestBounds
  <1>7. QED
    BY <1>2, <1>5, <1>6

LEMMA LaterOnesCountMore ==
  ASSUME AttributionAssumption, AttributionInv
  PROVE  LaterCountsMore
  <1> SUFFICES ASSUME NEW c \in RetainedAccounts, NEW t \in TouchesOf(c), NEW u \in TouchesOf(c)
               PROVE  /\ t.sent >= u.sent => Fraction(t) >= Fraction(u)
                      /\ t.sent >= u.sent + 8 => Fraction(t) >= 256 * Fraction(u) - 128 - 1
    BY DEF LaterCountsMore
  <1> DEFINE d == WeightOf(c)
             a == LastWeek - LastSentTo(c) + t.sent
             b == LastWeek - LastSentTo(c) + u.sent
  <1>1. d \in Nat /\ d > 0
    BY WeightOfAccount
  <1>2. /\ Weight(t) = Power[a] /\ a \in Nat /\ a <= LastWeek /\ Weight(t) \in Nat
        /\ Weight(u) = Power[b] /\ b \in Nat /\ b <= LastWeek /\ Weight(u) \in Nat
    BY WeightPositive
  <1>3. LastSentTo(c) \in Nat /\ LastWeek \in Nat /\ t.sent \in Nat /\ u.sent \in Nat
    BY LastTouch DEF AttributionAssumption
  <1>4. /\ Fraction(t) = Nearest(10000 * Weight(t), d) /\ Fraction(t) \in Int
        /\ 20000 * Weight(t) + d < (2 * d) * Fraction(t) + 2 * d
        /\ Fraction(u) = Nearest(10000 * Weight(u), d) /\ Fraction(u) \in Int
        /\ (2 * d) * Fraction(u) <= 20000 * Weight(u) + d
    BY FractionIs
  <1> HIDE DEF d
  <1>5. ASSUME t.sent >= u.sent PROVE Fraction(t) >= Fraction(u)
    <2>1. b <= a
      BY <1>3, <1>5
    <2>2. Weight(u) <= Weight(t)
      <3> HIDE DEF a, b
      <3>1. QED
        BY <1>2, <2>1, PowerRises
    <2>3. Nearest(10000 * Weight(u), d) <= Nearest(10000 * Weight(t), d)
      BY <1>1, <1>2, <2>2, NearestMonotone
    <2>4. QED
      BY <1>4, <2>3
  <1>6. ASSUME t.sent >= u.sent + 8 PROVE Fraction(t) >= 256 * Fraction(u) - 128 - 1
    <2>1. b + 8 <= a /\ b + 8 \in Nat
      BY <1>2, <1>3, <1>6
    <2>2. Power[b + 8] <= Power[a] /\ Power[b + 8] = 256 * Power[b]
      <3> HIDE DEF a, b
      <3>1. b + 8 <= LastWeek
        BY <1>2, <1>3, <2>1
      <3>2. Power[b + 8] = 256 * Power[b]
        BY <1>2, <3>1, PowerOfEight
      <3>3. Power[b + 8] <= Power[a]
        BY <1>2, <2>1, PowerRises
      <3>4. QED
        BY <3>2, <3>3
    <2>3. 256 * Weight(u) <= Weight(t)
      BY <1>2, <2>2
    <2> DEFINE F == Fraction(t)
               G == Fraction(u)
               w == Weight(t)
               v == Weight(u)
    <2>4. /\ F \in Int /\ G \in Int /\ w \in Int /\ v \in Int /\ d \in Int /\ d > 0
          /\ 20000 * w + d < (2 * d) * F + 2 * d /\ (2 * d) * G <= 20000 * v + d /\ 256 * v <= w
      BY <1>1, <1>2, <1>4, <2>3
    <2> HIDE DEF F, G, w, v
    <2>5. 256 * ((2 * d) * G) <= 20000 * w + 256 * d
      <3> DEFINE x1 == (2 * d) * G
      <3>1. x1 \in Int /\ x1 <= 20000 * v + d
        BY <2>4
      <3> HIDE DEF x1
      <3>2. 256 * x1 <= 20000 * w + 256 * d
        BY <2>4, <3>1
      <3>3. QED
        BY <3>2 DEF x1
    <2>6. (2 * d) * (256 * G - 129) = 256 * ((2 * d) * G) - 258 * d
      BY <2>4
    <2>7. (2 * d) * (256 * G - 129) < (2 * d) * F + 2 * d
      <3> DEFINE x1 == (2 * d) * F
                 x2 == 256 * ((2 * d) * G)
      <3>1. x1 \in Int /\ x2 \in Int /\ 20000 * w + d < x1 + 2 * d /\ x2 <= 20000 * w + 256 * d
        BY <2>4, <2>5
      <3> HIDE DEF x1, x2
      <3>2. x2 - 258 * d < x1 + 2 * d
        BY <2>4, <3>1
      <3>3. QED
        BY <2>6, <3>2 DEF x1, x2
    <2>8. 256 * G - 129 <= F
      BY <2>4, <2>7, QuotientAtLeast
    <2>9. QED
      BY <2>4, <2>8 DEF F, G
  <1>7. QED
    BY <1>5, <1>6

CreditOf(c) == MapThenSumSet(Credit, TouchesOf(c))

\* What an account's touches are credited with is a whole account, but for two roundings of each.
LEMMA CreditIs ==
  ASSUME AttributionAssumption, AttributionInv, NEW c, c \notin SingleTouch, NEW t \in TouchesOf(c)
  PROVE  /\ Credit(t) \in Int
         /\ WeightOf(c) * (200 * Credit(t)) <= 20000 * Weight(t) + 101 * WeightOf(c)
         /\ WeightOf(c) * (200 * Credit(t)) >= 20000 * Weight(t) - 101 * WeightOf(c)
  <1> DEFINE d == WeightOf(c)
             F == Fraction(t)
             q == Nearest(F, 100)
             w == Weight(t)
  <1>1. t.who = c
    BY DEF TouchesOf
  <1>2. Credit(t) = q
    BY <1>1 DEF Credit, NearestPart, Nearest
  <1>3. /\ F \in Int /\ d \in Nat /\ d > 0 /\ w \in Nat
        /\ (2 * d) * F <= 20000 * w + d /\ 20000 * w + d < (2 * d) * F + 2 * d
    BY FractionIs, WeightOfAccount, WeightPositive
  <1> HIDE DEF d, F, w
  <1>4. q \in Int /\ 200 * q <= 2 * F + 100 /\ 2 * F + 100 < 200 * q + 200
    BY <1>3, NearestBounds
  <1> HIDE DEF q
  <1>5. d * (200 * q) <= d * (2 * F + 100) /\ d * (2 * F + 100) <= d * (200 * q + 200)
    <2>1. \A i \in Nat, j, k \in Int : j <= k => i * j <= i * k
      OBVIOUS
    <2>2. 200 * q \in Int /\ 2 * F + 100 \in Int /\ 200 * q + 200 \in Int /\ 2 * F + 100 <= 200 * q + 200
      BY <1>3, <1>4
    <2>3. QED
      BY <1>3, <1>4, <2>1, <2>2
  <1>6. d * (2 * F + 100) = (2 * d) * F + 100 * d /\ d * (200 * q + 200) = d * (200 * q) + 200 * d
    BY <1>3, <1>4
  <1> DEFINE x1 == (2 * d) * F
             x2 == d * (200 * q)
  <1>7. x1 \in Int /\ x2 \in Int
    BY <1>3, <1>4
  <1>8. x2 <= x1 + 100 * d /\ x1 + 100 * d <= x2 + 200 * d /\ x1 <= 20000 * w + d /\ 20000 * w + d < x1 + 2 * d
    BY <1>3, <1>5, <1>6
  <1>9. x2 <= 20000 * w + 101 * d /\ x2 >= 20000 * w - 101 * d
    <2> HIDE DEF x1, x2
    <2>1. QED
      BY <1>3, <1>7, <1>8
  <1>10. QED
    BY <1>2, <1>4, <1>9 DEF d, w

LEMMA CreditIsWhole ==
  ASSUME AttributionAssumption, AttributionInv, NEW t \in Retained
  PROVE  Credit(t) \in Int
  <1>1. t \in TouchesOf(t.who)
    BY DEF TouchesOf
  <1>2. CASE t.who \in SingleTouch
    BY <1>2 DEF Credit
  <1>3. CASE t.who \notin SingleTouch
    BY <1>1, <1>3, CreditIs
  <1>4. QED
    BY <1>2, <1>3

Balanced(total, accounts, repeated) ==
  200 * total <= 20000 * accounts + 101 * repeated /\ 200 * total >= 20000 * accounts - 101 * repeated

Near(d, credit, w, n) == d * (200 * credit) <= 20000 * w + d * (101 * n) /\ d * (200 * credit) >= 20000 * w - d * (101 * n)

LEMMA NearerByOne ==
  ASSUME NEW d \in Int, NEW credit \in Int, NEW w \in Int, NEW n \in Int, Near(d, credit, w, n),
         NEW more \in Int, NEW v \in Int, Near(d, more, v, 1)
  PROVE  Near(d, more + credit, v + w, n + 1)
  <1> DEFINE C == d * (200 * credit)
             M == d * (200 * more)
             N == d * (101 * n)
             one == d * (101 * 1)
  <1>1. C \in Int /\ M \in Int /\ N \in Int /\ one \in Int
    OBVIOUS
  <1>2. d * (200 * (more + credit)) = M + C /\ d * (101 * (n + 1)) = N + one
    OBVIOUS
  <1>3. C <= 20000 * w + N /\ C >= 20000 * w - N /\ M <= 20000 * v + one /\ M >= 20000 * v - one
    BY DEF Near
  <1>4. M + C <= 20000 * (v + w) + (N + one) /\ M + C >= 20000 * (v + w) - (N + one)
    <2> HIDE DEF C, M, N, one
    <2>1. QED
      BY <1>1, <1>3
  <1>5. QED
    BY <1>2, <1>4 DEF Near

LEMMA NearDivided ==
  ASSUME NEW d \in Int, d > 0, NEW credit \in Int, NEW n \in Int, Near(d, credit, d, n)
  PROVE  Balanced(credit, 1, n)
  <1>1. d * (200 * credit) <= d * (20000 + 101 * n)
    <2>1. d * (20000 + 101 * n) = 20000 * d + d * (101 * n)
      OBVIOUS
    <2>2. QED
      BY <2>1 DEF Near
  <1>2. d * (20000 - 101 * n) <= d * (200 * credit)
    <2>1. d * (20000 - 101 * n) = 20000 * d - d * (101 * n)
      OBVIOUS
    <2>2. QED
      BY <2>1 DEF Near
  <1>3. \A j, k \in Int : d * j <= d * k => j <= k
    <2>1. ASSUME NEW j \in Int, NEW k \in Int, d * j <= d * k PROVE j <= k
      <3>1. d * j < d * k + d
        BY <2>1
      <3>2. QED
        BY <3>1, QuotientAtLeast
    <2>2. QED
      BY <2>1
  <1>4. 200 * credit \in Int /\ 20000 + 101 * n \in Int /\ 20000 - 101 * n \in Int
    OBVIOUS
  <1>5. QED
    BY <1>1, <1>2, <1>3, <1>4 DEF Balanced

LEMMA AccountShares ==
  ASSUME AttributionAssumption, AttributionInv, NEW c, c \notin SingleTouch, TouchesOf(c) # {}
  PROVE  /\ CreditOf(c) \in Int
         /\ 200 * CreditOf(c) <= 20000 + 101 * Cardinality(TouchesOf(c))
         /\ 200 * CreditOf(c) >= 20000 - 101 * Cardinality(TouchesOf(c))
  <1> DEFINE T == TouchesOf(c)
             d == WeightOf(c)
             f == [t \in T |-> Credit(t)]
             w == [t \in T |-> Weight(t)]
             Good == {s \in SUBSET T : Near(d, Total(f, s), Total(w, s), Cardinality(s))}
  <1>1. IsFiniteSet(T) /\ T \subseteq Retained
    BY TouchesFinite
  <1>2. CreditOf(c) = Total(f, T) /\ d = Total(w, T)
    BY <1>1, CreditIsTotal, WeightIsTotal DEF CreditOf, WeightOf
  <1>3. d \in Int /\ d > 0
    BY WeightOfAccount
  <1>4. \A t \in T : f[t] = Credit(t) /\ w[t] = Weight(t) /\ f[t] \in Int /\ w[t] \in Int
    BY CreditIs, WeightPositive
  <1>5. \A t \in T : Near(d, f[t], w[t], 1)
    <2>1. ASSUME NEW t \in T PROVE Near(d, f[t], w[t], 1)
      <3>1. d * (200 * Credit(t)) <= 20000 * Weight(t) + 101 * d /\ d * (200 * Credit(t)) >= 20000 * Weight(t) - 101 * d
        BY CreditIs
      <3> HIDE DEF d
      <3>2. d * (101 * 1) = 101 * d
        BY <1>3
      <3>3. QED
        BY <1>4, <3>1, <3>2 DEF Near
    <2>2. QED
      BY <2>1
  <1> HIDE DEF T, d, f, w
  <1>6. Summable(f, T) /\ Summable(w, T)
    BY <1>1, <1>4 DEF Summable
  <1>7. {} \in Good
    <2>1. Total(f, {}) = 0 /\ Total(w, {}) = 0 /\ Cardinality({}) = 0
      BY TotalOfNone, FS_EmptySet
    <2>2. Near(d, 0, 0, 0)
      BY <1>3 DEF Near
    <2>3. QED
      BY <2>1, <2>2
  <1>8. ASSUME NEW s \in SUBSET T, NEW e \in T \ s, s \in Good
        PROVE  s \union {e} \in Good
    <2>1. s \union {e} \in SUBSET T /\ e \notin s /\ s \in SUBSET T
      OBVIOUS
    <2>2. /\ Summable(f, s \union {e}) /\ Summable(w, s \union {e}) /\ Summable(f, s) /\ Summable(w, s)
      BY <1>6, <2>1, SummableParts
    <2>3. /\ Total(f, s \union {e}) = f[e] + Total(f, s)
          /\ Total(w, s \union {e}) = w[e] + Total(w, s)
      BY <2>1, <2>2, TotalAdds
    <2>4. Total(f, s) \in Int /\ Total(w, s) \in Int
      BY <2>2, TotalType
    <2>5. IsFiniteSet(s) /\ Cardinality(s) \in Int /\ Cardinality(s \union {e}) = Cardinality(s) + 1
      BY <1>1, <2>1, FS_Subset, FS_CardinalityType, FS_AddElement
    <2>6. Near(d, f[e] + Total(f, s), w[e] + Total(w, s), Cardinality(s) + 1)
      <3>1. Near(d, Total(f, s), Total(w, s), Cardinality(s))
        BY <1>8
      <3>2. Near(d, f[e], w[e], 1) /\ f[e] \in Int /\ w[e] \in Int
        BY <1>4, <1>5
      <3>3. QED
        BY <1>3, <2>4, <2>5, <3>1, <3>2, NearerByOne
    <2>7. QED
      BY <2>1, <2>3, <2>5, <2>6
  <1> HIDE DEF Good
  <1>9. T \in Good
    BY <1>1, <1>7, <1>8, OneMoreEach
  <1>10. Near(d, Total(f, T), d, Cardinality(T))
    BY <1>2, <1>9 DEF Good
  <1>11. Total(f, T) \in Int /\ Cardinality(T) \in Int
    BY <1>1, <1>6, TotalType, FS_CardinalityType
  <1>12. 200 * Total(f, T) <= 20000 + 101 * Cardinality(T) /\ 200 * Total(f, T) >= 20000 - 101 * Cardinality(T)
    <2> DEFINE credit == Total(f, T)
               count == Cardinality(T)
    <2>1. credit \in Int /\ count \in Int /\ Near(d, credit, d, count)
      BY <1>10, <1>11
    <2> HIDE DEF credit, count
    <2>2. Balanced(credit, 1, count)
      BY <1>3, <2>1, NearDivided
    <2>3. QED
      BY <2>1, <2>2 DEF credit, count, Balanced
  <1>13. QED
    BY <1>2, <1>11, <1>12 DEF T

LEMMA SingleShare ==
  ASSUME AttributionAssumption, AttributionInv, NEW c \in SingleTouch
  PROVE  CreditOf(c) = 100
  <1> DEFINE f == [t \in TouchesOf(c) |-> Credit(t)]
  <1>1. IsFiniteSet(TouchesOf(c)) /\ Cardinality(TouchesOf(c)) = 1
    BY TouchesFinite DEF SingleTouch
  <1>2. PICK t : TouchesOf(c) = {t}
    BY <1>1, FS_Singleton
  <1>3. CreditOf(c) = Total(f, TouchesOf(c))
    BY <1>1, CreditIsTotal DEF CreditOf
  <1>4. f[t] = 100
    BY <1>2 DEF Credit, TouchesOf
  <1> HIDE DEF f
  <1>5. QED
    BY <1>2, <1>3, <1>4, TotalOfOne

---------------------------------------------------------------------------
Of(s) == {t \in Retained : t.who \in s}

RepeatedOf(s) == {t \in Retained : t.who \in s /\ t.who \notin SingleTouch}

LEMMA AccountsFinite ==
  ASSUME AttributionInv
  PROVE  IsFiniteSet(RetainedAccounts)
  <1> DEFINE f == [t \in Retained |-> t.who]
  <1>1. RetainedAccounts = {f[t] : t \in DOMAIN f}
    BY DEF RetainedAccounts
  <1>2. IsFiniteSet(DOMAIN f)
    BY TouchesFinite
  <1> HIDE DEF f
  <1>3. QED
    BY <1>1, <1>2, ImageIsFinite

LEMMA AccountsBalance ==
  ASSUME AttributionAssumption, AttributionInv
  PROVE  LET f == [t \in Retained |-> Credit(t)]
         IN  /\ Summable(f, Retained)
             /\ Balanced(Total(f, Retained), Cardinality(RetainedAccounts),
                         Cardinality({t \in Retained : t.who \notin SingleTouch}))
  <1> DEFINE A == RetainedAccounts
             f == [t \in Retained |-> Credit(t)]
             Good == {s \in SUBSET A : Balanced(Total(f, Of(s)), Cardinality(s), Cardinality(RepeatedOf(s)))}
  <1>1. IsFiniteSet(A) /\ IsFiniteSet(Retained)
    BY AccountsFinite, TouchesFinite
  <1>2. \A t \in Retained : f[t] = Credit(t) /\ f[t] \in Int
    BY CreditIsWhole
  <1>3. \A c : /\ TouchesOf(c) \in SUBSET Retained /\ IsFiniteSet(TouchesOf(c))
               /\ CreditOf(c) = Total(f, TouchesOf(c))
    <2>1. SUFFICES ASSUME NEW c
                   PROVE  /\ TouchesOf(c) \in SUBSET Retained /\ IsFiniteSet(TouchesOf(c))
                          /\ CreditOf(c) = Total(f, TouchesOf(c))
      OBVIOUS
    <2> DEFINE g == [t \in TouchesOf(c) |-> Credit(t)]
    <2>2. TouchesOf(c) \in SUBSET Retained /\ IsFiniteSet(TouchesOf(c))
      BY TouchesFinite
    <2>3. CreditOf(c) = Total(g, TouchesOf(c))
      BY <2>2, CreditIsTotal DEF CreditOf
    <2>4. \A t \in TouchesOf(c) : g[t] = f[t] /\ g[t] \in Int
      BY <1>2, <2>2
    <2>5. Summable(g, TouchesOf(c))
      <3> HIDE DEF g
      <3>1. QED
        BY <2>2, <2>4 DEF Summable
    <2> HIDE DEF g, f
    <2>6. Total(g, TouchesOf(c)) = Total(f, TouchesOf(c))
      BY <2>4, <2>5, TotalSame
    <2>7. QED
      BY <2>2, <2>3, <2>6
  <1> HIDE DEF f
  <1>4. Summable(f, Retained)
    BY <1>1, <1>2 DEF Summable
  <1>5. {} \in Good
    <2>1. Of({}) = {} /\ RepeatedOf({}) = {}
      BY DEF Of, RepeatedOf
    <2>2. Total(f, Of({})) = 0 /\ Cardinality({}) = 0 /\ Cardinality(RepeatedOf({})) = 0
      BY <2>1, TotalOfNone, FS_EmptySet
    <2>3. QED
      BY <2>2 DEF Balanced
  <1>6. ASSUME NEW s \in SUBSET A, NEW c \in A \ s, s \in Good
        PROVE  s \union {c} \in Good
    <2> DEFINE T == TouchesOf(c)
    <2>1. /\ Of(s \union {c}) = Of(s) \union T /\ Of(s) \cap T = {} /\ Of(s) \union T \in SUBSET Retained
          /\ Of(s) \in SUBSET Retained /\ T # {}
      BY <1>6 DEF Of, TouchesOf, RetainedAccounts
    <2>2. Summable(f, Of(s) \union T) /\ Summable(f, Of(s)) /\ Summable(f, T)
      BY <1>3, <1>4, <2>1, SummableParts
    <2>3. Total(f, Of(s \union {c})) = Total(f, Of(s)) + CreditOf(c)
      <3>1. Total(f, Of(s) \union T) = Total(f, Of(s)) + Total(f, T)
        BY <2>1, <2>2, TotalOfBoth
      <3>2. QED
        BY <1>3, <2>1, <3>1
    <2>4. Total(f, Of(s)) \in Int /\ CreditOf(c) \in Int
      <3>1. Total(f, Of(s)) \in Int /\ Total(f, T) \in Int
        BY <2>2, TotalType
      <3>2. QED
        BY <1>3, <3>1
    <2>5. IsFiniteSet(s) /\ Cardinality(s) \in Nat /\ Cardinality(s \union {c}) = Cardinality(s) + 1
      BY <1>1, <1>6, FS_Subset, FS_CardinalityType, FS_AddElement
    <2>6. IsFiniteSet(RepeatedOf(s)) /\ Cardinality(RepeatedOf(s)) \in Nat
      <3>1. RepeatedOf(s) \subseteq Retained
        BY DEF RepeatedOf
      <3>2. QED
        BY <1>1, <3>1, FS_Subset, FS_CardinalityType
    <2>7. Balanced(Total(f, Of(s)), Cardinality(s), Cardinality(RepeatedOf(s)))
      BY <1>6
    <2>8. CASE c \in SingleTouch
      <3>1. RepeatedOf(s \union {c}) = RepeatedOf(s)
        BY <2>8 DEF RepeatedOf
      <3>2. CreditOf(c) = 100
        BY <2>8, SingleShare
      <3>3. Balanced(Total(f, Of(s \union {c})), Cardinality(s \union {c}), Cardinality(RepeatedOf(s \union {c})))
        BY <2>3, <2>4, <2>5, <2>6, <2>7, <3>1, <3>2 DEF Balanced
      <3>4. QED
        BY <3>3
    <2>9. CASE c \notin SingleTouch
      <3>1. RepeatedOf(s \union {c}) = RepeatedOf(s) \union T /\ RepeatedOf(s) \cap T = {}
        BY <1>6, <2>9 DEF RepeatedOf, TouchesOf
      <3>2. /\ Cardinality(RepeatedOf(s \union {c})) = Cardinality(RepeatedOf(s)) + Cardinality(T)
            /\ Cardinality(T) \in Nat
        BY <1>3, <2>6, <3>1, CountOfBoth
      <3>3. 200 * CreditOf(c) <= 20000 + 101 * Cardinality(T) /\ 200 * CreditOf(c) >= 20000 - 101 * Cardinality(T)
        BY <2>1, <2>9, AccountShares
      <3> HIDE DEF T
      <3>4. Balanced(Total(f, Of(s \union {c})), Cardinality(s \union {c}), Cardinality(RepeatedOf(s \union {c})))
        BY <2>3, <2>4, <2>5, <2>6, <2>7, <3>2, <3>3 DEF Balanced
      <3>5. QED
        BY <3>4
    <2>10. QED
      BY <2>8, <2>9
  <1> HIDE DEF Good
  <1>7. A \in Good
    BY <1>1, <1>5, <1>6, OneMoreEach
  <1>8. Of(A) = Retained /\ RepeatedOf(A) = {t \in Retained : t.who \notin SingleTouch}
    BY DEF Of, RepeatedOf, RetainedAccounts
  <1>9. QED
    BY <1>4, <1>7, <1>8 DEF Good, f

LEMMA ContributionsAddUp ==
  ASSUME AttributionAssumption, AttributionInv
  PROVE  MapThenSumSet(Contribution100, Channels) = Total([t \in Retained |-> Credit(t)], Retained)
  <1> DEFINE f == [t \in Retained |-> Credit(t)]
             w == [ch \in Channels |-> Contribution100(ch)]
             slice == [ch \in Channels |-> {t \in Retained : t.channel = ch}]
  <1>1. IsFiniteSet(Channels) /\ IsFiniteSet(Retained)
    BY TouchesFinite DEF AttributionAssumption
  <1>2. MapThenSumSet(Contribution100, Channels) = Total(w, Channels)
    BY <1>1, ContributionIsTotal
  <1>3. Summable(f, Retained)
    <2>1. \A t \in Retained : f[t] \in Int
      BY CreditIsWhole
    <2> HIDE DEF f
    <2>2. QED
      BY <1>1, <2>1 DEF Summable
  <1>4. Slices(slice, Channels, Retained)
    <2>1. \A t \in Retained : t.channel \in Channels
      BY TouchTypes, TouchesFinite
    <2>2. QED
      BY <2>1 DEF Slices
  <1>5. ASSUME NEW ch \in Channels
        PROVE  w[ch] = Total(f, slice[ch])
    <2> DEFINE part1 == {t \in Retained : t.channel = ch}
               g == [t \in part1 |-> Credit(t)]
    <2>1. IsFiniteSet(part1) /\ part1 \in SUBSET Retained
      BY <1>1, FS_Subset
    <2>2. Contribution100(ch) = Total(g, part1)
      BY <2>1, CreditIsTotal DEF Contribution100
    <2>3. \A t \in part1 : g[t] = f[t]
      OBVIOUS
    <2>4. slice[ch] = part1 /\ w[ch] = Contribution100(ch)
      OBVIOUS
    <2> HIDE DEF slice, w, f, g, part1
    <2>5. Total(f, part1) = Total(g, part1)
      <3>1. Summable(f, part1)
        BY <1>3, <2>1, SummableParts
      <3>2. QED
        BY <2>3, <3>1, TotalSame
    <2>6. QED
      BY <2>2, <2>4, <2>5
  <1>6. SumsUp(w, Channels, f, slice)
    <2> HIDE DEF w, f, slice
    <2>1. QED
      BY <1>5 DEF SumsUp
  <1> HIDE DEF w, f, slice
  <1>7. Total(w, Channels) = Total(f, Retained)
    BY <1>1, <1>3, <1>4, <1>6, TotalByParts
  <1>8. QED
    BY <1>2, <1>7 DEF f

LEMMA SharesBalance ==
  ASSUME AttributionAssumption, AttributionInv
  PROVE  SharesAddUp
  <1> DEFINE f == [t \in Retained |-> Credit(t)]
             total == Total(f, Retained)
             accounts == Cardinality(RetainedAccounts)
             repeated == Cardinality({t \in Retained : t.who \notin SingleTouch})
  <1>1. Summable(f, Retained) /\ Balanced(total, accounts, repeated)
    BY AccountsBalance
  <1>2. MapThenSumSet(Contribution100, Channels) = total
    BY ContributionsAddUp
  <1> HIDE DEF f
  <1>3. total \in Int
    BY <1>1, TotalType
  <1>4. accounts \in Nat /\ repeated \in Nat
    <2>1. IsFiniteSet({t \in Retained : t.who \notin SingleTouch})
      BY TouchesFinite, FS_Subset
    <2>2. QED
      BY <2>1, AccountsFinite, FS_CardinalityType
  <1> HIDE DEF total, accounts, repeated
  <1>5. AbsDifference(total, 100 * accounts) * 200 <= 101 * repeated
    BY <1>1, <1>3, <1>4 DEF AbsDifference, Balanced
  <1>6. QED
    BY <1>2, <1>5 DEF SharesAddUp, accounts, repeated

LEMMA AttributionMeans == AttributionAssumption /\ AttributionInv => AttributionSound
  <1> SUFFICES ASSUME AttributionAssumption, AttributionInv
               PROVE  AttributionSound
    OBVIOUS
  <1>1. AttributionTypeOK
    BY DEF AttributionTypeOK, AttributionInv, TouchRows
  <1>2. QED
    BY <1>1, SharesBalance, LaterOnesCountMore, BothReportsAgree DEF AttributionSound

\* The channels' contributions add up to the retained accounts but for two roundings of each touch
\* of an account that was touched repeatedly, later touches have the greater share, and both reports
\* count the same successes, each of whom stayed (attribution.py:35-139, analytics.py:26-83).
THEOREM AttributionIsSound == AttributionInit /\ [][AttributionNext]_attributionVars => []AttributionSound
  BY AttributionAssumption, AttributionInitially, AttributionStep, AttributionMeans, PTL

---------------------------------------------------------------------------
(* The components side by side: in a step of one the others rest.          *)

LEMMA OnlyItsPart ==
  ASSUME [Next]_recordVars
  PROVE  /\ part' = part
         /\ part = "health" => [HealthNext]_healthVars
         /\ part = "expansion" => [ExpansionNext]_expansionVars
         /\ part = "survey" => [SurveyNext]_surveyVars
         /\ part = "renewal" => [RenewalNext]_renewalVars
         /\ part = "feature" => [FeatureNext]_featureVars
         /\ part = "segment" => [SegmentNext]_segmentVars
         /\ part = "attribution" => [AttributionNext]_attributionVars
  <1>1. CASE UNCHANGED recordVars
    BY <1>1 DEF recordVars
  <1>2. CASE Next
    BY <1>2 DEF Next, Others
  <1>3. QED
    BY <1>1, <1>2

\* The same of the health score and of the expansion signal, side by side with the rest
\* (health.py, ml/health.py, expansion.py, worker.py:40-120).
THEOREM CustomerHealthStaysSound == Spec => []CustomerHealthSound
  <1> DEFINE Inv == /\ part = "health" => HealthInv
                    /\ part = "expansion" => ExpansionInv
  <1>1. Init => Inv
    BY HealthAssumption, HealthInitially, ExpansionInitially DEF Init
  <1>2. Inv /\ [Next]_recordVars => Inv'
    BY OnlyItsPart, HealthStep, ExpansionStep
  <1>3. Inv => CustomerHealthSound
    BY HealthMeans, ExpansionMeans DEF CustomerHealthSound
  <1>4. QED
    BY <1>1, <1>2, <1>3, PTL DEF Spec

\* The same of exit surveys, contracts and features, side by side with the rest
\* (surveys/engine.py:48-84, renewals.py:12-142, features.py:20-130, train.py:30-130).
THEOREM CustomerFilesStaySound == Spec => []CustomerFilesSound
  <1> DEFINE Inv == /\ part = "survey" => SurveyInv
                    /\ part = "renewal" => RenewalInv
                    /\ part = "feature" => FeatureInv
  <1>1. Init => Inv
    BY RenewalAssumption, FeatureAssumption, SurveyInitially, RenewalInitially, FeatureInitially DEF Init
  <1>2. Inv /\ [Next]_recordVars => Inv'
    BY SurveyAssumption, RenewalAssumption, FeatureAssumption, OnlyItsPart, SurveyStep, RenewalStep, FeatureStep
  <1>3. Inv => CustomerFilesSound
    BY SurveyAssumption, RenewalAssumption, FeatureAssumption, SurveyMeans, RenewalMeans, FeatureMeans
       DEF CustomerFilesSound
  <1>4. QED
    BY <1>1, <1>2, <1>3, PTL DEF Spec

\* The same of the reports, side by side with the rest (cohorts.py:29-78, revenue_at_risk.py:35-61,
\* fairness.py:21-111, benchmarks.py:38-108, attribution.py:35-139, analytics.py:26-83).
THEOREM ReportingStaysSound == Spec => []ReportingSound
  <1> DEFINE Inv == /\ part = "segment" => SegmentInv
                    /\ part = "attribution" => AttributionInv
  <1>1. Init => Inv
    BY AttributionAssumption, SegmentInitially, AttributionInitially DEF Init
  <1>2. Inv /\ [Next]_recordVars => Inv'
    BY SegmentAssumption, AttributionAssumption, OnlyItsPart, SegmentStep, AttributionStep
  <1>3. Inv => ReportingSound
    BY SegmentAssumption, AttributionAssumption, SegmentMeans, AttributionMeans DEF ReportingSound
  <1>4. QED
    BY <1>1, <1>2, <1>3, PTL DEF Spec
=============================================================================
