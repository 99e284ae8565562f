---------------------------- MODULE Attribution ----------------------------
(***************************************************************************)
(* What the interventions of a tenant are credited with: the report that   *)
(* shares each retained account out over its touches, later ones counting  *)
(* more (core/analytics/attribution.py:35-139), and the report that counts *)
(* successes (routers/analytics.py:26-83).  Each is one statement over the *)
(* interventions; the nightly job judges those that were sent long enough  *)
(* ago by the cancellations since (core/analytics/outcomes.py).            *)
(*                                                                         *)
(* The unit of time is a half-life of seven days.  Fractions are parts of  *)
(* 10000, contributions of a channel parts of 100.                         *)
(***************************************************************************)
EXTENDS Integers, FiniteSets, FiniteSetsExt

CONSTANTS
  Touched,    \* customers
  Channels,
  Gaps,       \* half-lives that may pass at once
  MaxTouches, \* bound: interventions
  LastWeek    \* bound: half-lives

(* Thirty days, in whole half-lives: when judged, and how long a cancellation counts. *)
JudgedAfter == 5
CountsFor == 4

ASSUME AttributionAssumption == IsFiniteSet(Channels) /\ Gaps \subseteq Nat \ {0} /\ LastWeek \in Nat

VARIABLES
  week,    \* now
  touches, \* interventions that were sent, numbered
  cancels  \* cancellations

attributionVars == <<week, touches, cancels>>

AttributionTypeOK ==
  /\ week \in 0 .. LastWeek /\ cancels \subseteq [who : Touched, at : 0 .. week]
  /\ \A t \in touches : /\ t.who \in Touched /\ t.channel \in Channels /\ t.sent \in 0 .. week
                        /\ t.outcome \in {"pending", "retained", "churned"}

AttributionInit == week = 0 /\ touches = {} /\ cancels = {}

Touch ==
  /\ Cardinality(touches) < MaxTouches
  /\ \E c \in Touched, ch \in Channels :
       touches' = touches \union
         {[n |-> Cardinality(touches) + 1, who |-> c, channel |-> ch, sent |-> week, outcome |-> "pending"]}
  /\ UNCHANGED <<week, cancels>>

Cancel(c) ==
  /\ cancels = {} /\ cancels' = {[who |-> c, at |-> week]}
  /\ UNCHANGED <<week, touches>>

(* Fault: whatever came before the touch counts too.                       *)
LostEver(t) == \E k \in cancels : k.who = t.who /\ k.at <= t.sent + CountsFor

Lost30(t) == \E k \in cancels : k.who = t.who /\ k.at >= t.sent /\ k.at <= t.sent + CountsFor

JudgeAll ==
  /\ touches' = {IF t.outcome = "pending" /\ t.sent + JudgedAfter <= week
                 THEN [t EXCEPT !.outcome = IF Lost30(t) THEN "churned" ELSE "retained"] ELSE t : t \in touches}
  /\ UNCHANGED <<week, cancels>>

WeekPasses ==
  /\ \E g \in Gaps : week + g <= LastWeek /\ week' = week + g
  /\ UNCHANGED <<touches, cancels>>

AttributionNext == Touch \/ (\E c \in Touched : Cancel(c)) \/ JudgeAll \/ WeekPasses

---------------------------------------------------------------------------
(* The attribution report. *)

Retained == {t \in touches : t.outcome = "retained"}

TouchesOf(c) == {t \in Retained : t.who = c}

RetainedAccounts == {t.who : t \in Retained}

SingleTouch == {c \in RetainedAccounts : Cardinality(TouchesOf(c)) = 1}

(* Fault: counted from the first touch.                                    *)
HalfLivesFromFirst(t) == t.sent - Min({u.sent : u \in TouchesOf(t.who)})

(* How long before the last touch of the account.                          *)
HalfLives(t) == Max({u.sent : u \in TouchesOf(t.who)}) - t.sent

Power[n \in 0 .. LastWeek] == IF n = 0 THEN 1 ELSE 2 * Power[n - 1]

(* Two to the minus HalfLives, times what makes all of them whole.         *)
Weight(t) == Power[LastWeek - HalfLives(t)]

NearestPart(n, d) == (2 * n + d) \div (2 * d)

(* Fault: the weights are not divided by their sum.                        *)
FractionOfLast(t) == NearestPart(10000 * Weight(t), Power[LastWeek])

Fraction(t) == NearestPart(10000 * Weight(t), MapThenSumSet(Weight, TouchesOf(t.who)))

(* Each addition to a channel is rounded, so a touch adds its hundredths.  *)
Credit(t) == IF t.who \in SingleTouch THEN 100 ELSE NearestPart(Fraction(t), 100)

Contribution100(ch) == MapThenSumSet(Credit, {t \in Retained : t.channel = ch})

---------------------------------------------------------------------------
(* The performance report: how many of the judged were retained.           *)

(* Fault: what is pending counts as a failure.                             *)
EvaluatedOrPending(ch) == {t \in touches : t.channel = ch}

Evaluated(ch) == {t \in touches : t.channel = ch /\ t.outcome \in {"retained", "churned"}}

Successes(ch) == {t \in Evaluated(ch) : t.outcome = "retained"}

---------------------------------------------------------------------------
AbsDifference(a, b) == IF a > b THEN a - b ELSE b - a

(* The contributions of the channels add up to the number of retained      *)
(* accounts, within the two roundings of each touch of an account that was *)
(* touched repeatedly, half a hundredth and a hundredth of that            *)
(* (attribution.py:69, 103-127).                                           *)
SharesAddUp ==
  AbsDifference(MapThenSumSet(Contribution100, Channels), 100 * Cardinality(RetainedAccounts)) * 200
    <= 101 * Cardinality({t \in Retained : t.who \notin SingleTouch})

(* Of two touches of an account the later one has no smaller share, and    *)
(* all but at most a rounding away when it is much later                   *)
(* (attribution.py:60-69).                                                 *)
LaterCountsMore ==
  \A c \in RetainedAccounts : \A t, u \in TouchesOf(c) :
    /\ t.sent >= u.sent => Fraction(t) >= Fraction(u)
    /\ t.sent >= u.sent + 8 => Fraction(t) >= 256 * Fraction(u) - 128 - 1

(* The two reports speak of the same successes: the touches that are       *)
(* credited are those that are counted, each is of a customer who stayed   *)
(* for the time that counts, and what is counted against a channel was     *)
(* lost in that time (attribution.py:82-95, analytics.py:37-66).           *)
ReportsAgree ==
  /\ Retained = UNION {Successes(ch) : ch \in Channels}
  /\ \A t \in Retained : ~ \E k \in cancels : k.who = t.who /\ k.at - t.sent \in 0 .. CountsFor
  /\ \A ch \in Channels : \A t \in Evaluated(ch) \ Successes(ch) :
       \E k \in cancels : k.who = t.who /\ k.at - t.sent \in 0 .. CountsFor

(* Attribution as a whole (attribution.py, analytics.py:26-83).            *)
AttributionSound == AttributionTypeOK /\ SharesAddUp /\ LaterCountsMore /\ ReportsAgree
=============================================================================
