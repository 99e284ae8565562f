--------------------------- MODULE SegmentReports ---------------------------
(***************************************************************************)
(* The reports that slice one book of customers, each on its own: cohorts  *)
(* (core/analytics/cohorts.py), revenue at risk (revenue_at_risk.py:19-    *)
(* 129), fairness (core/ml/fairness.py) and the benchmark over the tenants *)
(* that opted in (core/analytics/benchmarks.py).  Customers are seen and   *)
(* scored meanwhile.                                                       *)
(*                                                                         *)
(* Probabilities are percents, money is in hundredths of a unit, and rates *)
(* are hundredths of a percent.                                            *)
(***************************************************************************)
EXTENDS Integers, FiniteSets, FiniteSetsExt

CONSTANTS
  Persons,      \* customers
  HomeOf,       \* the tenant of each
  Mrr,          \* what each pays by the month
  Plans,        \* plans that events name, "none" when they name none
  Chances,      \* probabilities that scoring may write
  NoChance,     \* a customer who was never scored
  Members,      \* tenants that opted in to the benchmark
  TenantsNeeded, PersonsNeeded  \* the least a benchmark may be drawn from

ASSUME SegmentAssumption ==
  /\ Mrr \in [Persons -> Nat] /\ Chances \subseteq 0 .. 100 /\ NoChance \notin Chances
  /\ TenantsNeeded \in Nat \ {0} /\ PersonsNeeded \in Nat \ {0}

Homes == {HomeOf[c] : c \in Persons}

VARIABLE book  \* customers rows: plan, churn_probability, churn_risk_tier

segmentVars == <<book>>

SegmentTypeOK ==
  \A c \in DOMAIN book : /\ c \in Persons /\ book[c].plan \in Plans
                         /\ book[c].p \in Chances \union {NoChance}
                         /\ book[c].tier \in {"none", "low", "medium", "high", "critical"}

SegmentInit == book = <<>>

---------------------------------------------------------------------------
(* Fault: fifty percent is a medium risk.                                  *)
RiskTierAbove(p) == IF p < 20 THEN "low" ELSE IF p <= 50 THEN "medium" ELSE IF p < 80 THEN "high" ELSE "critical"

RiskTier(p) == IF p < 20 THEN "low" ELSE IF p < 50 THEN "medium" ELSE IF p < 80 THEN "high" ELSE "critical"

PersonSeen(c) ==
  /\ c \notin DOMAIN book
  /\ \E plan \in Plans :
       book' = [d \in DOMAIN book \union {c} |->
                  IF d = c THEN [plan |-> plan, p |-> NoChance, tier |-> "none"] ELSE book[d]]

ScorePerson(c) ==
  /\ c \in DOMAIN book
  /\ \E p \in Chances : book' = [book EXCEPT ![c] = [plan |-> book[c].plan, p |-> p, tier |-> RiskTier(p)]]

Own(h) == {c \in DOMAIN book : HomeOf[c] = h}

Chance(c) == IF book[c].p = NoChance THEN 0 ELSE book[c].p

---------------------------------------------------------------------------
(* Cohorts by plan. *)

CohortOf(c) == IF book[c].plan = "none" THEN "Standard" ELSE book[c].plan

(* Fault: only the critical are at high risk.                              *)
CriticalOnly(c) == book[c].tier = "critical"

HighRisk(c) == Chance(c) >= 50 \/ book[c].tier = "critical"

Loss(c) == Mrr[c] * Chance(c)

Cohorts(h) ==
  {LET group == {c \in Own(h) : CohortOf(c) = v}
   IN [name |-> v, count |-> Cardinality(group), high |-> Cardinality({c \in group : HighRisk(c)}),
       atRisk |-> MapThenSumSet(Loss, group)] : v \in {CohortOf(c) : c \in Own(h)}}

---------------------------------------------------------------------------
(* Revenue at risk over thirty days, by plan. *)

(* Fault: who has no plan is in no segment.                                *)
PlanIfAny(c) == book[c].plan

PlanOf(c) == IF book[c].plan = "none" THEN "standard" ELSE book[c].plan

ByPlan(h) ==
  {LET group == {c \in Own(h) : PlanOf(c) = v}
   IN [name |-> v, count |-> Cardinality(group), atRisk |-> MapThenSumSet(Loss, group)] :
     v \in {PlanOf(c) : c \in Own(h)} \ {"none"}}

ExpectedLoss(h) == MapThenSumSet(Loss, Own(h))

---------------------------------------------------------------------------
(* Fairness: what was predicted, against the tiers.                        *)

CountsAsChurned(c) == book[c].tier \in {"critical", "high"}

Calibration(group) ==
  [count |-> Cardinality(group), predicted |-> MapThenSumSet(Chance, group),
   actual |-> Cardinality({c \in group : CountsAsChurned(c)})]

Flagged(s) == LET off == s.predicted - 100 * s.actual IN off > 15 * s.count \/ off < -15 * s.count

Segments(h) == {{c \in Own(h) : PlanOf(c) = v} : v \in {PlanOf(c) : c \in Own(h)}}

SegmentNext == \E c \in Persons : PersonSeen(c) \/ ScorePerson(c)

---------------------------------------------------------------------------
(* The benchmark. *)

(* Fault: everybody's customers are taken.                                 *)
Everybody == DOMAIN book

Pool == {c \in DOMAIN book : HomeOf[c] \in Members}

MayBenchmark(h) ==
  /\ h \in Members
  /\ Cardinality({HomeOf[c] : c \in Pool}) >= TenantsNeeded /\ Cardinality(Pool) >= PersonsNeeded

RateOf(h) ==
  LET own == {c \in Pool : HomeOf[c] = h}
      d == Cardinality(own)
  IN (2 * 10000 * Cardinality({c \in own : HighRisk(c)}) + d) \div (2 * d)

PooledHomes == {HomeOf[c] : c \in Pool}

(* The n-th of the rates as they are sorted, one for each tenant.          *)
Rate(n) ==
  CHOOSE r \in {RateOf(h) : h \in PooledHomes} :
    /\ Cardinality({h \in PooledHomes : RateOf(h) < r}) < n
    /\ n <= Cardinality({h \in PooledHomes : RateOf(h) <= r})

(* Fault: the rates are taken to fall.                                     *)
OrderStatisticFalling(n, quarters) == Rate((n * (4 - quarters)) \div 4 + 1)

OrderStatistic(n, quarters) == Rate((n * quarters) \div 4 + 1)

Benchmark ==
  LET n == Cardinality(PooledHomes)
  IN [p25 |-> OrderStatistic(n, 1), p75 |-> OrderStatistic(n, 3),
      median |-> IF n % 2 = 1 THEN Rate(n \div 2 + 1)
                 ELSE (Rate(n \div 2) + Rate(n \div 2 + 1)) \div 2]

---------------------------------------------------------------------------
CountOf(g) == g.count

AtRiskOf(g) == g.atRisk

Planless(h) == {c \in Own(h) : book[c].plan = "none"}

(* Two reports that name a plan count the same customers, but for those    *)
(* without a plan, whom one has in "Standard" and the other in "standard"; *)
(* the cohorts cover all customers of the tenant, and their losses add up  *)
(* to the revenue at risk of thirty days                                   *)
(* (cohorts.py:29-78, revenue_at_risk.py:35-61).                           *)
CohortsAgree ==
  \A h \in Homes :
    /\ MapThenSumSet(CountOf, Cohorts(h)) = Cardinality(Own(h))
    /\ MapThenSumSet(AtRiskOf, Cohorts(h)) = ExpectedLoss(h)
    /\ MapThenSumSet(AtRiskOf, ByPlan(h)) = ExpectedLoss(h)
    /\ \A g \in Cohorts(h), s \in ByPlan(h) :
         g.name = s.name =>
           s.count - g.count = IF g.name = "standard" THEN Cardinality(Planless(h))
                               ELSE IF g.name = "Standard" THEN - Cardinality(Planless(h)) ELSE 0

(* Whom a cohort counts at high risk, fairness counts as churned, as the   *)
(* tier is made from the probability; so a segment is flagged only for     *)
(* having a customer whose probability is far from certainty, and a        *)
(* segment of one exactly then (cohorts.py:60, fairness.py:71-81,          *)
(* predict.py:24-32).                                                      *)
RiskMeansOneThing ==
  /\ \A c \in DOMAIN book : HighRisk(c) <=> CountsAsChurned(c)
  /\ \A h \in Homes : \A group \in Segments(h) :
       LET unsure == {c \in group : Chance(c) \in 16 .. 84}
       IN /\ Flagged(Calibration(group)) => unsure # {}
          /\ Cardinality(group) = 1 /\ unsure # {} => Flagged(Calibration(group))

(* A benchmark that is given has quartiles that are rates of tenants who   *)
(* opted in, and that embrace the median, however few or many there are    *)
(* (benchmarks.py:61-78, 93-108).                                          *)
BenchmarkSound ==
  \A h \in Homes : MayBenchmark(h) =>
    LET rates == {RateOf(g) : g \in Members \intersect {HomeOf[c] : c \in DOMAIN book}}
        shown == Benchmark
    IN /\ shown.p25 <= shown.median /\ shown.median <= shown.p75
       /\ {shown.p25, shown.p75} \subseteq rates

(* The reports on segments as a whole (cohorts.py, revenue_at_risk.py,     *)
(* fairness.py, benchmarks.py).                                            *)
SegmentsSound == SegmentTypeOK /\ CohortsAgree /\ RiskMeansOneThing /\ BenchmarkSound
=============================================================================
