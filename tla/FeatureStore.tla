---------------------------- MODULE FeatureStore ----------------------------
(***************************************************************************)
(* The features of one customer as of a date (core/ml/features.py), and    *)
(* the training runs that store and label them (core/ml/train.py:30-81,    *)
(* 127-130).  Events may be delivered long after they occurred, and more   *)
(* than once.  What they count for goes by when they occurred; the `mrr'   *)
(* and the plan, which features take from the customer's row, go by what   *)
(* was delivered last (worker.py:163-171).                                 *)
(*                                                                         *)
(* The unit of time is thirty days: features look back three, training     *)
(* goes back one, and a churn is looked for in the one that follows.  The  *)
(* customer's row was made at 0: a customer whose row was made after the   *)
(* date has no features as of it.                                          *)
(***************************************************************************)
EXTENDS Integers, FiniteSets

CONSTANTS
  EventKinds, \* event types with their properties: the seats that a subscription update names, and
              \* `mrr' and `plan', sets that are empty where the event names none
  Trainings,  \* training runs
  Occurrences, \* what may occur and when: records of a kind and a date
  LastPeriod, \* bound: the last period
  MaxEvents,  \* bound: events
  MaxRepeats  \* bound: deliveries of an event that is stored

LookBack == 3
RecentPart == 1
TrainedBack == 1
ChurnAhead == 1
ExpansionAhead == 3
Created == 0

ASSUME FeatureAssumption ==
  /\ LastPeriod \in Nat \ {0} /\ Occurrences \subseteq [kind : EventKinds, at : Int]
  /\ \A k \in EventKinds :
       /\ k.type \in STRING /\ k.seats \in Nat /\ k.mrr \subseteq Nat /\ k.plan \subseteq STRING
       /\ \A m, n \in k.mrr : m = n
       /\ \A m, n \in k.plan : m = n

VARIABLES
  period,  \* now
  events,  \* customer_events rows, numbered as they arrive
  account, \* `mrr' and `plan' of the customers row
  rows,    \* committed churn_features rows
  training, \* the runs
  (* history, guards nothing but the bounds *)
  deliveries, \* of events, first and repeated ones, numbered as they were processed
  abreast  \* whether two runs were under way at once

featureVars == <<period, events, account, rows, training, deliveries, abreast>>

(* What the row says before any of the events.                             *)
AtFirst == [mrr |-> 1, plan |-> "none"]

FeatureTypeOK ==
  /\ period \in 1 .. LastPeriod
  /\ \A e \in events : e.kind \in EventKinds /\ e.at \in Int /\ e.n \in 1 .. Cardinality(events)
  /\ account.mrr = AtFirst.mrr \/ \E k \in EventKinds : account.mrr \in k.mrr
  /\ account.plan = AtFirst.plan \/ \E k \in EventKinds : account.plan \in k.plan
  /\ \A d \in deliveries : d.event \in events /\ d.k \in 1 .. Cardinality(deliveries)
  /\ \A r \in rows : r.by \in Trainings /\ r.asOf < period
  /\ \A t \in Trainings : training[t].pc \in {"new", "read", "save", "label", "done"}

FeatureInit ==
  /\ period = 1 /\ events = {} /\ rows = {} /\ deliveries = {} /\ abreast = FALSE
  /\ account = AtFirst
  /\ training = [t \in Trainings |-> [pc |-> "new"]]

---------------------------------------------------------------------------
(* The extraction. *)

(* Fault: nothing keeps later events out.                                  *)
WithinSoFar(evs, asOf) == {e \in evs : e.at >= asOf - LookBack}

Within(evs, asOf) == {e \in evs : e.at >= asOf - LookBack /\ e.at <= asOf}

OfType(evs, type) == {e \in evs : e.kind.type = type}

(* Fault: the seats of the updates in the order in which they arrived.     *)
SeatTrendAsArrived(evs) ==
  LET updates == OfType(evs, "subscription_updated")
  IN IF updates = {} THEN 0
     ELSE (CHOOSE e \in updates : \A f \in updates : f.n <= e.n).kind.seats
          - (CHOOSE e \in updates : \A f \in updates : f.n >= e.n).kind.seats

(* From the first to the last update, as they occurred.  (Of two at one    *)
(* instant the code may take either.)                                      *)
SeatTrend(evs) ==
  LET updates == OfType(evs, "subscription_updated")
  IN IF updates = {} THEN 0
     ELSE (CHOOSE e \in updates : \A f \in updates : f.at < e.at \/ (f.at = e.at /\ f.n <= e.n)).kind.seats
          - (CHOOSE e \in updates : \A f \in updates : f.at > e.at \/ (f.at = e.at /\ f.n >= e.n)).kind.seats

(* Views per two periods: the last period's, against the two before it.    *)
UsageSlope(evs, asOf) ==
  LET views == OfType(evs, "page_view")
      past == {e \in views : e.at < asOf - RecentPart}
  IN IF past = {} THEN 0 ELSE 2 * Cardinality(views \ past) - Cardinality(past)

PeriodsSilent(evs, asOf) ==
  IF evs = {} THEN LookBack
  ELSE asOf - (CHOOSE e \in evs : \A f \in evs : f.at <= e.at).at

BaseFeatures(row, asOf) == [mrr |-> row.mrr, premium |-> row.plan = "premium", age |-> asOf - Created]

EventFeatures(evs, asOf) ==
  LET seen == Within(evs, asOf)
  IN [views |-> Cardinality(OfType(seen, "page_view")),
      used |-> Cardinality(OfType(seen, "feature_used")),
      failures |-> Cardinality(OfType(seen, "invoice.failed")),
      tickets |-> Cardinality(OfType(seen, "ticket_created")),
      seats |-> SeatTrend(seen), slope |-> UsageSlope(seen, asOf),
      silent |-> PeriodsSilent(seen, asOf)]

Features(evs, row, asOf) == [base |-> BaseFeatures(row, asOf), event |-> EventFeatures(evs, asOf)]

---------------------------------------------------------------------------
(* Fault: an event that names no plan takes it away.                       *)
ToldAsItIs(row, kind) ==
  [mrr |-> IF kind.mrr = {} THEN row.mrr ELSE CHOOSE m \in kind.mrr : TRUE,
   plan |-> IF kind.plan = {} THEN "none" ELSE CHOOSE p \in kind.plan : TRUE]

(* The row takes what an event names, however old the event is.            *)
Told(row, kind) ==
  [mrr |-> IF kind.mrr = {} THEN row.mrr ELSE CHOOSE m \in kind.mrr : TRUE,
   plan |-> IF kind.plan = {} THEN row.plan ELSE CHOOSE p \in kind.plan : TRUE]

Deliver(e) ==
  /\ account' = Told(account, e.kind)
  /\ deliveries' = deliveries \union {[event |-> e, k |-> Cardinality(deliveries) + 1]}
  /\ UNCHANGED <<period, rows, training, abreast>>

EventArrives ==
  /\ Cardinality(events) < MaxEvents
  /\ \E o \in {o \in Occurrences : o.at <= period} :
       LET e == [n |-> Cardinality(events) + 1, kind |-> o.kind, at |-> o.at]
       IN events' = events \union {e} /\ Deliver(e)

(* An event that is stored already is not stored again.                    *)
EventRepeats ==
  /\ Cardinality(deliveries) < Cardinality(events) + MaxRepeats
  /\ \E e \in events : Deliver(e)
  /\ UNCHANGED events

PeriodPasses ==
  /\ period < LastPeriod /\ period' = period + 1
  /\ UNCHANGED <<events, account, rows, training, deliveries, abreast>>

Taking == {"read", "save"}

(* A run takes the features as of a period ago: first the customer's row,  *)
(* as it is today, and then the events.                                    *)
BeginTraining(t) ==
  /\ training[t].pc = "new"
  /\ training' = [training EXCEPT ![t] =
       [pc |-> "read", asOf |-> period - TrainedBack, row |-> account, told |-> Cardinality(deliveries)]]
  /\ abreast' = (abreast \/ \E u \in Trainings : training[u].pc \in Taking)
  /\ UNCHANGED <<period, events, account, rows, deliveries>>

ExtractFeatures(t) ==
  /\ training[t].pc = "read"
  /\ LET r == training[t]
     IN training' = [training EXCEPT ![t] =
          [pc |-> "save", asOf |-> r.asOf, told |-> r.told, known |-> events,
           features |-> Features(events, r.row, r.asOf)]]
  /\ UNCHANGED <<period, events, account, rows, deliveries, abreast>>

(* Its row is of a moment of its own, so it is new.                        *)
SaveFeatures(t) ==
  /\ training[t].pc = "save"
  /\ rows' = rows \union {[by |-> t, asOf |-> training[t].asOf, features |-> training[t].features,
                           stored |-> Cardinality(rows) + 1]}
  /\ training' = [training EXCEPT ![t].pc = "label"]
  /\ UNCHANGED <<period, events, account, deliveries, abreast>>

(* Fault: a cancellation on the day itself counts as to come.              *)
AheadFromToday(evs, type, asOf, ahead) == {e \in OfType(evs, type) : e.at >= asOf /\ e.at <= asOf + ahead}

Ahead(evs, type, asOf, ahead) == {e \in OfType(evs, type) : e.at > asOf /\ e.at <= asOf + ahead}

(* A slope of 0.2 views a day is twelve per two periods.                   *)
LabelFeatures(t) ==
  /\ training[t].pc = "label"
  /\ LET r == training[t]
         churn == Ahead(events, "subscription_canceled", r.asOf, ChurnAhead)
         growth == Ahead(events, "seats_added", r.asOf, ExpansionAhead)
     IN training' = [training EXCEPT ![t] =
          [pc |-> "done", asOf |-> r.asOf, told |-> r.told, features |-> r.features, known |-> r.known,
           churned |-> churn # {}, heard |-> events, by |-> period,
           expanded |-> growth # {} \/ r.features.event.seats > 0 \/ r.features.event.slope > 12]]
  /\ UNCHANGED <<period, events, account, rows, deliveries, abreast>>

FeatureNext ==
  \/ EventArrives \/ EventRepeats \/ PeriodPasses
  \/ \E t \in Trainings : BeginTraining(t) \/ ExtractFeatures(t) \/ SaveFeatures(t) \/ LabelFeatures(t)

---------------------------------------------------------------------------
Trained == {t \in Trainings : training[t].pc = "done"}

(* What events told features as of a date comes out the same whenever it   *)
(* is computed, in whatever order they arrive, unless one of the window    *)
(* arrived in between; what the row told, unless a delivery that named it  *)
(* was processed in between, whenever its event occurred: two rows as of   *)
(* one date may differ in `mrr' and plan (features.py:13, 24-93).          *)
AsOfStands ==
  \A t \in Trained :
    LET r == training[t]
        now == Features(events, account, r.asOf)
        since == {d.event.kind : d \in {d \in deliveries : d.k > r.told}}
    IN /\ now.event # r.features.event => Within(events \ r.known, r.asOf) # {}
       /\ now.base.mrr # r.features.base.mrr => \E kind \in since : kind.mrr # {}
       /\ now.base.premium # r.features.base.premium => \E kind \in since : kind.plan # {}
       /\ now.base.age = r.features.base.age

LaterOrSame(e, f) == f.at < e.at \/ (f.at = e.at /\ f.n <= e.n)

(* Of some deliveries those of the last event up to a date.                *)
LastWord(told, asOf) ==
  {d \in told : d.event.at <= asOf /\ \A g \in told : g.event.at <= asOf => LaterOrSame(d.event, g.event)}

(* Deliveries that are of the date and came as the events occurred.        *)
InTime(told, asOf) ==
  \A d \in told : /\ d.event.at <= asOf
                  /\ \A g \in told : g.k <= d.k => LaterOrSame(d.event, g.event)

(* The plan and `mrr' among the features are those of the date, not of the *)
(* day of training, provided that no event of a later day that names them  *)
(* was delivered before the row was read, and none after one that occurred *)
(* later, a repeated one included.  (The code promises features of the     *)
(* date, features.py:13, and takes them from the row as it is, 51-54.)     *)
AccountOfDate ==
  \A t \in Trained :
    LET r == training[t]
        priced == {d \in deliveries : d.k <= r.told /\ d.event.kind.mrr # {}}
        planned == {d \in deliveries : d.k <= r.told /\ d.event.kind.plan # {}}
    IN /\ InTime(priced, r.asOf) =>
            \/ LastWord(priced, r.asOf) = {} /\ r.features.base.mrr = AtFirst.mrr
            \/ \E d \in LastWord(priced, r.asOf) : r.features.base.mrr \in d.event.kind.mrr
       /\ InTime(planned, r.asOf) =>
            (r.features.base.premium <=> \E d \in LastWord(planned, r.asOf) : "premium" \in d.event.kind.plan)

(* No event that makes a churn label is among those counted among the      *)
(* features beside it (though the `mrr' and the plan that it names are, if *)
(* it was delivered by then), and the label comes out the same at any      *)
(* later time, unless a cancellation arrived in between: its window was    *)
(* over when it was looked at (train.py:43-52, 129).                       *)
ChurnSettled ==
  \A t \in Trained :
    LET r == training[t]
        now == Ahead(events, "subscription_canceled", r.asOf, ChurnAhead)
    IN /\ now \cap Within(events, r.asOf) = {}
       /\ r.asOf + ChurnAhead <= r.by
       /\ r.churned = (now # {}) \/ now \ r.heard # {}

(* Seats are the difference of a later and an earlier update as they       *)
(* occurred, whatever the order of arrival; usage rises or falls only      *)
(* against older usage; and the silence is within the window               *)
(* (features.py:74-93).                                                    *)
FeaturesSensible ==
  \A t \in Trained :
    LET f == training[t].features.event
        used == Within(training[t].known, training[t].asOf)
        updates == OfType(used, "subscription_updated")
    IN /\ f.silent \in 0 .. LookBack
       /\ f.slope # 0 => f.views > 0
       /\ f.slope < 0 => \E e \in OfType(used, "page_view") : e.at < training[t].asOf - RecentPart
       /\ f.seats # 0 => \E e, g \in updates : e.at <= g.at /\ f.seats = g.kind.seats - e.kind.seats

(* The row of the newest date, which outreach takes, is the row that was   *)
(* stored last, which validation takes, unless two runs were under way at  *)
(* once (outreach/engine.py:93-96, attribution.py:169-177).                *)
NewestAgree ==
  abreast \/ \A r, q \in rows : r.stored > q.stored => r.asOf >= q.asOf

(* Features as a whole (ml/features.py, ml/train.py).                      *)
FeaturesSound ==
  FeatureTypeOK /\ AsOfStands /\ AccountOfDate /\ ChurnSettled /\ FeaturesSensible /\ NewestAgree
=============================================================================
