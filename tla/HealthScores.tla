---------------------------- MODULE HealthScores ----------------------------
(***************************************************************************)
(* The health score of one customer (core/ml/health.py, routers/health.py, *)
(* worker.py:53-116): five component scores, weighted as the tenant has    *)
(* set; the request that sets the weights; the nightly record; the page    *)
(* that shows the latest record, or computes a score when there is none.   *)
(*                                                                         *)
(* Scores are hundredths of a point, inputs are percents, counts and days, *)
(* and weights are parts of Whole.                                         *)
(***************************************************************************)
EXTENDS Integers, FiniteSets, Functions, FiniteSetsExt

CONSTANTS
  Whole,           \* what the weights of a setting should add up to: 1.0
  Tolerance,       \* how far off the sum may be: 1e-4
  DefaultWeights,  \* without a setting: 0.35, 0.25, 0.20, 0.0, 0.20
  WeightPayloads,  \* weights that requests carry, of good and bad sums
  Conditions,      \* what the customer's features may be
  WeightPuts,      \* requests that set the weights
  Views,           \* requests for the score
  LastNight,       \* bound: nights
  MaxConditions    \* bound: changes of the features

Components == {"churn", "usage_trend", "payment_health", "support_sentiment", "engagement_recency"}

SumOver(f) == f.churn + f.usage_trend + f.payment_health + f.support_sentiment + f.engagement_recency

(* A sum that is that of a setting to a ten-thousandth.                    *)
Nearly(sum) == 10000 * sum \in 9999 * Whole .. 10001 * Whole

ASSUME HealthAssumption ==
  /\ Whole \in Nat \ {0} /\ Tolerance \in 0 .. Whole /\ Nearly(Whole + Tolerance) /\ LastNight \in Nat
  /\ Conditions \subseteq [risk : Int, slope : Int, failures : Int, sentiment : Int, idle : Int]
  /\ WeightPayloads \subseteq [Components -> Nat]
  /\ DefaultWeights \in [Components -> Nat] /\ SumOver(DefaultWeights) = Whole

VARIABLES
  weights,    \* the health_score_configs row, {} when absent
  condition,  \* the customer's features now
  night,      \* nights that have begun
  records,    \* committed health_scores rows
  setter, view, scorer,  \* the requests, and the nightly job
  (* history, guards nothing but the bounds *)
  lastSet,    \* the payload of the last setting that was committed
  mixed,      \* whether two requests were setting the weights at once
  conditions

healthVars == <<weights, condition, night, records, setter, view, scorer, lastSet, mixed, conditions>>

(* A customer whose churn the model fails to predict counts as ten percent.*)
Unforeseen(f) == [f EXCEPT !.risk = 10]

HealthTypeOK ==
  /\ Cardinality(weights) <= 1 /\ weights \subseteq [Components -> Nat]
  /\ condition \in Conditions /\ night \in 0 .. LastNight
  /\ \A h \in records : h.at \in 1 .. night /\ h.of \in Conditions \union {Unforeseen(f) : f \in Conditions}
  /\ \A r \in WeightPuts : setter[r].pc \in {"new", "save", "done", "failed"}
  /\ \A v \in Views : view[v].pc \in {"new", "weigh", "compute", "done"}

HealthInit ==
  /\ weights = {} /\ condition \in Conditions /\ night = 0 /\ records = {}
  /\ setter = [r \in WeightPuts |-> [pc |-> "new"]] /\ view = [v \in Views |-> [pc |-> "new"]]
  /\ scorer = [pc |-> "idle"] /\ lastSet = {} /\ mixed = FALSE /\ conditions = 0

---------------------------------------------------------------------------
(* The arithmetic. *)

(* Fault: a component may fall below zero.                                 *)
CappedAbove(n) == IF n > 10000 THEN 10000 ELSE n

Capped(n) == IF n > 10000 THEN 10000 ELSE IF n < 0 THEN 0 ELSE n

(* Fault: the slope is taken as a decline.                                 *)
ComponentScoresDeclining(f) ==
  [churn |-> Capped(100 * (100 - f.risk)), usage_trend |-> Capped(5000 - 50 * f.slope),
   payment_health |-> Capped(10000 - 2500 * f.failures),
   support_sentiment |-> Capped(5000 + 50 * f.sentiment),
   engagement_recency |-> Capped(10000 - 200 * f.idle)]

ComponentScores(f) ==
  [churn |-> Capped(100 * (100 - f.risk)), usage_trend |-> Capped(5000 + 50 * f.slope),
   payment_health |-> Capped(10000 - 2500 * f.failures),
   support_sentiment |-> Capped(5000 + 50 * f.sentiment),
   engagement_recency |-> Capped(10000 - 200 * f.idle)]

Nearest(n, d) == (2 * n + d) \div (2 * d)

Weighted(f, w) ==
  LET scores == ComponentScores(f) IN [c \in Components |-> scores[c] * w[c]]

Composite(f, w) == Capped(Nearest(SumOver(Weighted(f, w)), Whole))

Contributions(f, w) ==
  LET weighted == Weighted(f, w) IN [c \in Components |-> Nearest(weighted[c], Whole)]

---------------------------------------------------------------------------
(* Setting the weights. *)

(* Fault: only too great a sum is refused.                                 *)
AcceptedBelow(w) == SumOver(w) <= Whole + Tolerance

Accepted(w) == SumOver(w) \in Whole - Tolerance .. Whole + Tolerance

LoadWeights(r) ==
  /\ setter[r].pc = "new"
  /\ \E w \in WeightPayloads :
       setter' = [setter EXCEPT ![r] =
         IF Accepted(w) THEN [pc |-> "save", asked |-> w, was |-> weights] ELSE [pc |-> "failed"]]
  /\ mixed' = (mixed \/ \E q \in WeightPuts : setter[q].pc = "save")
  /\ UNCHANGED <<weights, condition, night, records, view, scorer, lastSet, conditions>>

(* Fault: the last of the weights is forgotten.                            *)
ReweightedButOne(row, was, asked) ==
  [c \in Components |-> IF c = "engagement_recency" \/ asked[c] = was[c] THEN row[c] ELSE asked[c]]

(* A flush writes the columns that differ from the row as loaded.          *)
Reweighted(row, was, asked) == [c \in Components |-> IF asked[c] = was[c] THEN row[c] ELSE asked[c]]

(* A second first setting runs into the table's constraint.                *)
SaveWeights(r) ==
  /\ setter[r].pc = "save"
  /\ LET was == setter[r].was
         asked == setter[r].asked
     IN IF was = {} /\ weights # {}
        THEN setter' = [setter EXCEPT ![r] = [pc |-> "failed"]] /\ UNCHANGED <<weights, lastSet>>
        ELSE /\ weights' = IF was = {} THEN {asked}
                           ELSE {Reweighted(row, CHOOSE w \in was : TRUE, asked) : row \in weights}
             /\ lastSet' = {asked}
             /\ setter' = [setter EXCEPT ![r] = [pc |-> "done"]]
  /\ UNCHANGED <<condition, night, records, view, scorer, mixed, conditions>>

InForce == IF weights = {} THEN DefaultWeights ELSE CHOOSE w \in weights : TRUE

---------------------------------------------------------------------------
(* The nightly record: the features are read, then the weights, and all    *)
(* rows of the tenant are committed at the end.                            *)

StartScoring ==
  /\ scorer.pc = "idle" /\ night < LastNight /\ night' = night + 1
  /\ \E f \in {condition, Unforeseen(condition)} : scorer' = [pc |-> "weigh", of |-> f]
  /\ UNCHANGED <<weights, condition, records, setter, view, lastSet, mixed, conditions>>

WeighScoring ==
  /\ scorer.pc = "weigh"
  /\ scorer' = [pc |-> "commit", of |-> scorer.of, by |-> InForce]
  /\ UNCHANGED <<weights, condition, night, records, setter, view, lastSet, mixed, conditions>>

CommitScoring ==
  /\ scorer.pc = "commit"
  /\ records' = records \union {[at |-> night, of |-> scorer.of, by |-> scorer.by]}
  /\ scorer' = [pc |-> "idle"]
  /\ UNCHANGED <<weights, condition, night, setter, view, lastSet, mixed, conditions>>

ConditionChanges ==
  /\ conditions < MaxConditions /\ conditions' = conditions + 1
  /\ \E f \in Conditions \ {condition} : condition' = f
  /\ UNCHANGED <<weights, night, records, setter, view, scorer, lastSet, mixed>>

---------------------------------------------------------------------------
(* The page. *)

(* Fault: the oldest record is taken.                                      *)
OldestRecord(h) == \A g \in records : h.at <= g.at

LatestRecord(h) == \A g \in records : h.at >= g.at

(* A stored probability of zero, and none, are taken for ten percent.      *)
OrTenPercent(p) == IF p = 0 THEN 10 ELSE p

BeginView(v) ==
  /\ view[v].pc = "new"
  /\ \/ \E h \in records : LatestRecord(h)
          /\ view' = [view EXCEPT ![v] = [pc |-> "done", of |-> h.of, by |-> h.by, at |-> h.at, newest |-> records]]
     \/ \E p \in {0, condition.risk} : records = {}
          /\ view' = [view EXCEPT ![v] = [pc |-> "weigh", risk |-> OrTenPercent(p)]]
  /\ UNCHANGED <<weights, condition, night, records, setter, scorer, lastSet, mixed, conditions>>

WeighView(v) ==
  /\ view[v].pc = "weigh"
  /\ view' = [view EXCEPT ![v] = [pc |-> "compute", risk |-> @.risk, by |-> InForce]]
  /\ UNCHANGED <<weights, condition, night, records, setter, scorer, lastSet, mixed, conditions>>

ComputeView(v) ==
  /\ view[v].pc = "compute"
  /\ view' = [view EXCEPT ![v] = [pc |-> "done", of |-> [condition EXCEPT !.risk = view[v].risk],
                                  by |-> view[v].by, at |-> 0, newest |-> {}]]
  /\ UNCHANGED <<weights, condition, night, records, setter, scorer, lastSet, mixed, conditions>>

HealthNext ==
  \/ \E r \in WeightPuts : LoadWeights(r) \/ SaveWeights(r)
  \/ StartScoring \/ WeighScoring \/ CommitScoring \/ ConditionChanges
  \/ \E v \in Views : BeginView(v) \/ WeighView(v) \/ ComputeView(v)

---------------------------------------------------------------------------
(* What a record or a page says of the customer.                           *)
Scored == records \union {view[v] : v \in {v \in Views : view[v].pc = "done"}}

(* The weights in force are those of the last setting, and add up, unless  *)
(* two requests were setting them at once: each then writes the columns it *)
(* changed, and the mixture need not (health.py:85-112).                   *)
LastSettingStands == mixed \/ (weights = lastSet /\ \A w \in weights : Nearly(SumOver(w)))

(* A score lies between the least and the greatest of the components that  *)
(* count, give or take the hundredth of a point that a sum slightly off    *)
(* may cost, and its contributions add up to it within that hundredth and  *)
(* the rounding of each, unless its weights are such a mixture             *)
(* (ml/health.py:46-54).                                                   *)
ScoreExplained ==
  \A h \in Scored : Nearly(SumOver(h.by)) =>
    LET score == Composite(h.of, h.by)
        scores == ComponentScores(h.of)
        counting == {scores[c] : c \in {c \in Components : h.by[c] > 0}}
        parts == SumOver(Contributions(h.of, h.by))
    IN /\ score \in Min(counting) - 1 .. Max(counting) + 1
       /\ 2 * (parts - score) \in - (Cardinality(Components) + 1) .. Cardinality(Components) + 3

(* Components and score are on the scale of 0 to 100, whatever the inputs  *)
(* and the weights, and a customer who is no worse off in any respect has  *)
(* no lower score (ml/health.py:25-54).                                    *)
BetterIsHealthier ==
  /\ \A h \in Scored : \A n \in Range(ComponentScores(h.of)) \union {Composite(h.of, h.by)} : n \in 0 .. 10000
  /\ \A f, g \in Conditions :
       (/\ f.risk <= g.risk /\ f.slope >= g.slope /\ f.failures <= g.failures
        /\ f.sentiment >= g.sentiment /\ f.idle <= g.idle)
       => Composite(f, InForce) >= Composite(g, InForce)

(* The page shows the newest record there was when it looked, and computes *)
(* a score only when there was none (health.py:131-146).                   *)
NewestShown ==
  \A v \in Views : view[v].pc = "done" => \A h \in view[v].newest : h.at <= view[v].at

(* Health scores as a whole: by weights that were set, on the scale, and   *)
(* explained by their parts (health.py, ml/health.py).                     *)
HealthSound ==
  HealthTypeOK /\ LastSettingStands /\ ScoreExplained /\ BetterIsHealthier /\ NewestShown
=============================================================================
