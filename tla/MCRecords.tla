----------------------------- MODULE MCRecords -----------------------------
(* The components that share no state, for TLC: `part' is chosen at the    *)
(* start and says which of them moves.  As none reads what another writes, *)
(* every behaviour of each is seen.                                        *)
EXTENDS RevenueAlert, CrmSync, Champions, SignInLimits, RefreshTokens, ApiKeys, Recommendations,
        CustomIntegrations, BuiltInSources, Renewals, HealthScores, ExpansionSignal, ExitSurveys, FeatureStore, Attribution, SegmentReports, TLC

CONSTANTS x, y, r1, r2, r3, p1, p2, q1, q2, s1, s2

VARIABLE part

Thresholds == {[threshold |-> 0, enabled |-> TRUE], [threshold |-> 6, enabled |-> FALSE]}

BilledBy == [c \in {x, y} |-> IF c = x THEN 3 ELSE 1]
RenewalDates == {-1, 0, 2, 3}

WeightsOf(c, u, p, s, r) ==
  [churn |-> c, usage_trend |-> u, payment_health |-> p, support_sentiment |-> s, engagement_recency |-> r]
UsualWeights == WeightsOf(3500, 2500, 2000, 0, 2000)
AskedWeights ==
  {WeightsOf(5001, 5000, 0, 0, 0), WeightsOf(0, 0, 3333, 3333, 3333), WeightsOf(3500, 2500, 2000, 498, 1500)}
GoodCondition == [risk |-> 33, slope |-> 120, failures |-> 0, sentiment |-> 60, idle |-> 0]
CustomerConditions ==
  {GoodCondition,
   [risk |-> 33, slope |-> 7, failures |-> 1, sentiment |-> -13, idle |-> 11],
   [risk |-> 90, slope |-> -200, failures |-> 5, sentiment |-> -100, idle |-> 90]}

CustomerTraits ==
  {[seats |-> 0, slope |-> -90, used |-> 9, premium |-> TRUE],
   [seats |-> 4, slope |-> 20, used |-> 0, premium |-> FALSE]}

StoredPortraits == {[failed |-> 1, silent |-> 20, tickets |-> 0], [failed |-> 0, silent |-> 0, tickets |-> 0]}

KindOf(type, seats, mrr, plan) == [type |-> type, seats |-> seats, mrr |-> mrr, plan |-> plan]
AView == KindOf("page_view", 0, {}, {})
OneSeat == KindOf("subscription_updated", 1, {}, {"basic"})
TwoSeats == KindOf("subscription_updated", 2, {5}, {"premium"})
ACancellation == KindOf("subscription_canceled", 0, {0}, {})
ArrivingKinds == {AView, OneSeat, TwoSeats, ACancellation}
OccurringEvents ==
  {[kind |-> k, at |-> -3] : k \in {AView, OneSeat}} \union {[kind |-> TwoSeats, at |-> 0]}
  \union {[kind |-> ACancellation, at |-> 1]}

WeekGaps == {4}

People == {"ann", "bob", "cid", "dan"}
HomeAssigned == [c \in People |-> IF c \in {"ann", "bob"} THEN "one" ELSE IF c = "cid" THEN "two" ELSE "three"]
MonthlyPay == [c \in People |-> IF c = "ann" THEN 0 ELSE IF c = "bob" THEN 7 ELSE 3]

Parts == {"alert", "crm", "champion", "limit", "token", "key", "recommendation", "integration", "source", "renewal", "health", "expansion", "survey", "feature", "attribution", "segment"}

Init ==
  /\ part \in Parts
  /\ AlertInit /\ CrmInit /\ ChampionInit /\ LimitInit /\ TokenInit /\ ApiKeyInit /\ RecommendInit
  /\ IntegrationInit
  /\ SourceInit
  /\ RenewalInit
  /\ HealthInit
  /\ ExpansionInit
  /\ SurveyInit
  /\ FeatureInit
  /\ AttributionInit
  /\ SegmentInit
  /\ exposure = 1 /\ config = {} /\ tier = x /\ condition = GoodCondition
  /\ \A c \in contacts : c.email = s1
  /\ part = "source" \/ shipped = FALSE
  /\ part = "renewal" \/ risk = [c \in Clients |-> 20]

Others(p) ==
  /\ part = p /\ UNCHANGED part
  /\ p # "alert" => UNCHANGED alertVars
  /\ p # "crm" => UNCHANGED crmVars
  /\ p # "champion" => UNCHANGED championVars
  /\ p # "limit" => UNCHANGED limitVars
  /\ p # "token" => UNCHANGED tokenVars
  /\ p # "key" => UNCHANGED keyVars
  /\ p # "recommendation" => UNCHANGED recommendVars
  /\ p # "integration" => UNCHANGED integrationVars
  /\ p # "source" => UNCHANGED sourceVars
  /\ p # "renewal" => UNCHANGED renewalVars
  /\ p # "health" => UNCHANGED healthVars
  /\ p # "expansion" => UNCHANGED expansionVars
  /\ p # "survey" => UNCHANGED surveyVars
  /\ p # "feature" => UNCHANGED featureVars
  /\ p # "attribution" => UNCHANGED attributionVars
  /\ p # "segment" => UNCHANGED segmentVars

recordVars ==
  <<part, alertVars, crmVars, championVars, limitVars, tokenVars, keyVars, recommendVars,
    integrationVars, sourceVars, renewalVars, healthVars, expansionVars, surveyVars, featureVars,
    attributionVars, segmentVars>>

Next ==
  \/ Others("alert") /\ AlertNext
  \/ Others("crm") /\ CrmNext
  \/ Others("champion") /\ ChampionNext
  \/ Others("limit") /\ LimitNext
  \/ Others("token") /\ TokenNext
  \/ Others("key") /\ KeyNext
  \/ Others("recommendation") /\ RecommendNext
  \/ Others("integration") /\ IntegrationNext
  \/ Others("source") /\ SourceNext
  \/ Others("renewal") /\ RenewalNext
  \/ Others("health") /\ HealthNext
  \/ Others("expansion") /\ ExpansionNext
  \/ Others("survey") /\ SurveyNext
  \/ Others("feature") /\ FeatureNext
  \/ Others("attribution") /\ AttributionNext
  \/ Others("segment") /\ SegmentNext

Spec == Init /\ [][Next]_recordVars

(* What is checked of each part (the definitions, and what each conjunct   *)
(* says of the code, are in its module), in the states in which it moves.  *)

(* Revenue-at-risk snapshots, alerts and the alert settings, typed.        *)
RevenueSound == part = "alert" => AlertsSound

(* Customer pushes to the CRM and their logs, typed.                       *)
CrmSound == part = "crm" => SyncsSound

(* Champion checks and contacts, typed.                                    *)
ContactsSound == part = "champion" => ChampionsSound

(* Sign-in limits, refresh tokens and API keys, typed.                     *)
AccessSound ==
  /\ part = "limit" => LimitsHold
  /\ part = "token" => TokensSound
  /\ part = "key" => KeysSound

(* Recommended interventions and their cache, typed.                       *)
RecommendationsSound == part = "recommendation" => AdviceSound

(* Custom integrations and the built-in sources, typed.                    *)
IntegrationsSound ==
  /\ part = "integration" => CustomSound
  /\ part = "source" => SourcesSound

(* The health score, its weights, and the expansion signal, typed.         *)
CustomerHealthSound ==
  /\ part = "health" => HealthSound
  /\ part = "expansion" => ExpansionSound

(* Exit surveys, contracts and renewals, and features, typed.              *)
CustomerFilesSound ==
  /\ part = "survey" => SurveysSound
  /\ part = "renewal" => RenewalsSound
  /\ part = "feature" => FeaturesSound

(* Reports on segments, and credit for retained accounts, typed.           *)
ReportingSound ==
  /\ part = "segment" => SegmentsSound
  /\ part = "attribution" => AttributionSound

(* In each component p1 and p2 play one role, and none is singled out. *)
Symmetry == Permutations({p1, p2})
=============================================================================
