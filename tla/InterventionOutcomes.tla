------------------------ MODULE InterventionOutcomes ------------------------
(***************************************************************************)
(* What becomes of an intervention: the manual override that makes one     *)
(* outside a campaign (routers/interventions.py), the nightly job that     *)
(* records its outcome (core/analytics/outcomes.py) and the weekly job     *)
(* that reports what the retained ones saved (core/analytics/roi.py).      *)
(*                                                                         *)
(* Time goes by in half days: outcomes are recorded at 4:00 of a day and   *)
(* reports are made at 5:00 of a Monday, so the even moments are a day's   *)
(* time until the report and the odd ones the time from the report on.     *)
(***************************************************************************)
EXTENDS Integers, FiniteSets

CONSTANTS
  Ids,              \* ids of interventions rows
  Customers,
  Cancellations,    \* cancellation events
  Requests,         \* manual override requests
  NoId, NoOne,
  Window,           \* evaluation_days, in half days
  Week,             \* days between two reports
  MaxNow, MaxFaults, MaxRescores \* bounds

ASSUME OutcomeAssumption ==
  /\ NoId \notin Ids /\ NoOne \notin Customers
  /\ {Window, MaxNow, MaxFaults, MaxRescores} \subseteq Nat /\ Week \in Nat \ {0}

VARIABLES
  row,        \* interventions
  cancel,     \* cancellations, and whether their event has been ingested
  risky,      \* customers whose tier is high or critical
  audited,    \* interventions with a manual_intervention audit entry
  request,    \* override requests in flight
  tracker,    \* the session of track_intervention_outcomes
  ran,        \* when the job last ended
  reports,    \* roi_reports
  now,
  faults, rescores,   \* spent bounds
  \* history, guards nothing
  unseen      \* pairs of an intervention and a cancellation that came too late for it

job     == <<tracker, ran>>
bounds  == <<faults, rescores>>
vars == <<row, cancel, risky, audited, request, job, reports, now, bounds, unseen>>

Never == -1
Kinds == {"subscription_canceled", "customer.subscription.deleted"}
NoRow == [status |-> "none", customer |-> NoOne, manual |-> FALSE, sentAt |-> Never,
          outcome |-> "pending", recordedAt |-> Never]
Intervention == [status : {"none", "pending", "sent", "failed"},
                 customer : Customers \cup {NoOne}, manual : BOOLEAN, sentAt : Int,
                 outcome : {"pending", "retained", "churned"}, recordedAt : Int]

NoRequest == [stage |-> "idle", id |-> NoId, customer |-> NoOne,
              mark |-> "failed", at |-> Never]
Asleep == [stage |-> "idle", todo |-> {},
           verdict |-> [i \in Ids |-> "none"]]
Tracker == [stage : {"idle", "evaluate"}, todo : SUBSET Ids,
            verdict : [Ids -> {"none", "retained", "churned"}]]

Reporting(t) == t % (2 * Week) = 1

Free(i) == row[i].status = "none" /\ \A q \in Requests : request[q].id # i

(***************************************************************************)
(* Interventions and cancellations                                         *)
(***************************************************************************)
\* The campaign engine's row (module OutreachEngine), once it is committed.
CampaignSends(i, c, mark) ==
  /\ Free(i)
  /\ row' = [row EXCEPT ![i] =
       [NoRow EXCEPT !.status = mark, !.customer = c, !.sentAt = now]]
  /\ UNCHANGED <<cancel, risky, audited, request, job, reports, now, bounds, unseen>>

\* Fault: the audit entry is committed by the adapter already.
OverrideAudited(q, i, c, mark, saves) ==
  /\ request[q].stage = "idle"
  /\ Free(i)
  /\ saves => mark = "sent"
  /\ request' = [request EXCEPT ![q] =
       [stage |-> "sent", id |-> i, customer |-> c, mark |-> mark, at |-> now]]
  /\ row' = IF saves
            THEN [row EXCEPT ![i] = [NoRow EXCEPT !.status = "pending", !.customer = c,
                                                  !.manual = TRUE]]
            ELSE row
  /\ audited' = IF saves THEN audited \cup {i} ELSE audited
  /\ UNCHANGED <<cancel, risky, job, reports, now, bounds, unseen>>

\* The override up to the adapter's return.  The in-app and custom adapters commit
\* the pending row; an adapter that refuses commits nothing.
Override(q, i, c, mark, saves) ==
  /\ request[q].stage = "idle"
  /\ Free(i)
  /\ saves => mark = "sent"
  /\ request' = [request EXCEPT ![q] =
       [stage |-> "sent", id |-> i, customer |-> c, mark |-> mark, at |-> now]]
  /\ row' = IF saves
            THEN [row EXCEPT ![i] = [NoRow EXCEPT !.status = "pending", !.customer = c,
                                                  !.manual = TRUE]]
            ELSE row
  /\ UNCHANGED <<cancel, risky, audited, job, reports, now, bounds, unseen>>

\* The override's own commit: status, time and audit entry.
OverrideCommit(q) ==
  LET r == request[q]
  IN  /\ r.stage = "sent"
      /\ row' = [row EXCEPT ![r.id] =
           [NoRow EXCEPT !.status = r.mark, !.customer = r.customer, !.manual = TRUE,
                         !.sentAt = r.at]]
      /\ audited' = audited \cup {r.id}
      /\ request' = [request EXCEPT ![q] = NoRequest]
      /\ UNCHANGED <<cancel, risky, job, reports, now, bounds, unseen>>

OverrideDies(q) ==
  /\ faults < MaxFaults
  /\ request[q].stage # "idle"
  /\ faults' = faults + 1
  /\ request' = [request EXCEPT ![q] = NoRequest]
  /\ UNCHANGED <<row, cancel, risky, audited, job, reports, now, rescores, unseen>>

\* A customer cancels, through Stripe or another source ...
Cancel(x, c, kind) ==
  /\ cancel[x].state = "none"
  /\ cancel' = [cancel EXCEPT ![x] =
       [state |-> "occurred", customer |-> c, kind |-> kind, at |-> now]]
  /\ UNCHANGED <<row, risky, audited, request, job, reports, now, bounds, unseen>>

\* The event's occurred_at lies in the intervention's window.
Within(x, i) ==
  /\ cancel[x].customer = row[i].customer
  /\ cancel[x].at \in row[i].sentAt .. (row[i].sentAt + Window)

\* ... and some time later its webhook is ingested (module WebhookIngestion).
Ingest(x) ==
  /\ cancel[x].state = "occurred"
  /\ cancel' = [cancel EXCEPT ![x].state = "stored"]
  /\ unseen' = unseen \cup
       {i \in Ids : /\ Within(x, i)
                     /\ (row[i].outcome # "pending" \/ tracker.verdict[i] # "none")} \X {x}
  /\ UNCHANGED <<row, risky, audited, request, job, reports, now, bounds>>

\* Scoring moves customers between tiers.
Rescore(c) ==
  /\ rescores < MaxRescores /\ rescores' = rescores + 1
  /\ risky' = IF c \in risky THEN risky \ {c} ELSE risky \cup {c}
  /\ UNCHANGED <<row, cancel, audited, request, job, reports, now, faults, unseen>>

(***************************************************************************)
(* track_intervention_outcomes                                             *)
(***************************************************************************)
\* Fault: interventions that have an outcome are looked at again.
DueAgain(i) == row[i].status = "sent" /\ row[i].sentAt <= now - Window

\* Fault: an intervention waits for the night after its window.
DueStrictly(i) == /\ row[i].outcome = "pending"
                  /\ row[i].status = "sent"
                  /\ row[i].sentAt < now - Window

\* Sent before the cutoff, and without an outcome.
Due(i) == /\ row[i].outcome = "pending"
          /\ row[i].status = "sent"
          /\ row[i].sentAt <= now - Window

\* The cron job runs once a day, and again if its worker died.
TrackStart ==
  /\ tracker.stage = "idle"
  /\ now % 2 = 0 /\ ran # now
  /\ tracker' = [Asleep EXCEPT !.stage = "evaluate", !.todo = {i \in Ids : Due(i)}]
  /\ UNCHANGED <<row, cancel, risky, audited, request, ran, reports, now, bounds, unseen>>

\* Fault: only the day of the intervention counts.
ChurnedAtOnce(i) ==
  \E x \in Cancellations : /\ cancel[x].state = "stored"
                           /\ cancel[x].kind = "subscription_canceled"
                           /\ Within(x, i) /\ cancel[x].at = row[i].sentAt

\* A subscription_canceled event of the customer, ingested by now, in the window.
Churned(i) ==
  \E x \in Cancellations : /\ cancel[x].state = "stored"
                           /\ cancel[x].kind = "subscription_canceled"
                           /\ Within(x, i)

Evaluate(i) ==
  /\ tracker.stage = "evaluate"
  /\ i \in tracker.todo
  /\ tracker' = [tracker EXCEPT !.todo = @ \ {i},
                                !.verdict[i] = IF Churned(i) THEN "churned" ELSE "retained"]
  /\ UNCHANGED <<row, cancel, risky, audited, request, ran, reports, now, bounds, unseen>>

\* Fault: the commit does not wait for the last evaluation.
TrackCommitEarly ==
  /\ tracker.stage = "evaluate"
  /\ row' = [i \in Ids |->
             IF tracker.verdict[i] = "none" /\ i \notin tracker.todo THEN row[i]
             ELSE [row[i] EXCEPT !.outcome = tracker.verdict[i], !.recordedAt = now]]
  /\ tracker' = Asleep /\ ran' = now
  /\ UNCHANGED <<cancel, risky, audited, request, reports, now, bounds, unseen>>

TrackCommit ==
  /\ tracker.stage = "evaluate"
  /\ tracker.todo = {}
  /\ row' = [i \in Ids |->
             IF tracker.verdict[i] = "none" THEN row[i]
             ELSE [row[i] EXCEPT !.outcome = tracker.verdict[i], !.recordedAt = now]]
  /\ tracker' = Asleep /\ ran' = now
  /\ UNCHANGED <<cancel, risky, audited, request, reports, now, bounds, unseen>>

TrackDies ==
  /\ faults < MaxFaults
  /\ tracker.stage # "idle"
  /\ faults' = faults + 1
  /\ tracker' = Asleep
  /\ UNCHANGED <<row, cancel, risky, audited, request, ran, reports, now, rescores, unseen>>

(***************************************************************************)
(* calculate_roi                                                           *)
(***************************************************************************)
\* Fault: the period is a fortnight.
FortnightStart == now - 4 * Week

PeriodStart == now - 2 * Week

\* Retained, recorded in the period, the customer risky at present.
Counted ==
  {i \in Ids : /\ row[i].outcome = "retained"
               /\ row[i].recordedAt \in PeriodStart .. now
               /\ row[i].customer \in risky}

Report ==
  /\ Reporting(now)
  /\ reports' = reports \cup {[from |-> PeriodStart, to |-> now, counted |-> Counted]}
  /\ UNCHANGED <<row, cancel, risky, audited, request, job, now, bounds, unseen>>

\* A job ends within minutes (arq's timeout is five) or dies, and so does a request.
Tick ==
  /\ now < MaxNow
  /\ tracker.stage = "idle" /\ \A q \in Requests : request[q].stage = "idle"
  /\ now' = now + 1
  /\ UNCHANGED <<row, cancel, risky, audited, request, job, reports, bounds, unseen>>

-----------------------------------------------------------------------------
Init ==
  /\ row = [i \in Ids |-> NoRow]
  /\ cancel = [x \in Cancellations |->
       [state |-> "none", customer |-> NoOne, kind |-> "subscription_canceled", at |-> Never]]
  /\ risky \in SUBSET Customers
  /\ audited = {}
  /\ request = [q \in Requests |-> NoRequest]
  /\ tracker = Asleep /\ ran = Never
  /\ reports = {}
  /\ now = 0 /\ faults = 0 /\ rescores = 0
  /\ unseen = {}

Track ==
  \/ TrackStart
  \/ \E i \in Ids : Evaluate(i)
  \/ TrackCommit

Next ==
  \/ \E i \in Ids, c \in Customers, mark \in {"sent", "failed"} :
       \/ CampaignSends(i, c, mark)
       \/ \E q \in Requests, saves \in BOOLEAN : Override(q, i, c, mark, saves)
  \/ \E q \in Requests : OverrideCommit(q) \/ OverrideDies(q)
  \/ \E x \in Cancellations :
       \/ \E c \in Customers, kind \in Kinds : Cancel(x, c, kind)
       \/ Ingest(x)
  \/ \E c \in Customers : Rescore(c)
  \/ Track
  \/ TrackDies
  \/ Report
  \/ Tick

Spec == Init /\ [][Next]_vars

\* Time goes by, the cron job runs and a request in flight ends; nobody has to send,
\* cancel or report anything.
Fairness ==
  WF_vars(Tick) /\ WF_vars(Track) /\ \A q \in Requests : WF_vars(OverrideCommit(q))
FairSpec == Spec /\ Fairness

-----------------------------------------------------------------------------
\* Every variable has its type.
TypeOK ==
  /\ row \in [Ids -> Intervention]
  /\ cancel \in [Cancellations -> [state : {"none", "occurred", "stored"},
                                   customer : Customers \cup {NoOne}, kind : Kinds, at : Int]]
  /\ risky \subseteq Customers /\ audited \subseteq Ids
  /\ request \in [Requests -> [stage : {"idle", "sent"}, id : Ids \cup {NoId},
                               customer : Customers \cup {NoOne},
                               mark : {"sent", "failed"}, at : Int]]
  /\ tracker \in Tracker /\ ran \in Int
  /\ \A r \in reports : r.counted \subseteq Ids
  /\ now \in 0..MaxNow /\ faults \in 0..MaxFaults /\ rescores \in 0..MaxRescores
  /\ unseen \subseteq Ids \X Cancellations

\* A manual intervention that is sent or failed has its audit entry, and no other
\* has one, although the adapter may commit the row first (interventions.py:61-79).
OverridesAudited ==
  \A i \in Ids : row[i].manual /\ row[i].status # "pending" <=> i \in audited

\* An outcome, once recorded, is never revised: not by the next night's job, nor by
\* one that runs again after a death (outcomes.py:18-25).
VerdictsStand ==
  [][\A i \in Ids : row[i].outcome # "pending" => row'[i].outcome = row[i].outcome]_vars

\* An intervention is retained against a subscription_canceled event in its window
\* only if the event was ingested after the intervention had been evaluated
\* (outcomes.py:33-49).
RetainedInGoodFaith ==
  \A i \in Ids, x \in Cancellations :
    /\ row[i].outcome = "retained"
    /\ cancel[x].state = "stored" /\ cancel[x].kind = "subscription_canceled"
    /\ Within(x, i)
    => <<i, x>> \in unseen

\* No intervention counts in the reports of two weeks, although the customer may
\* stay risky, and a report be made twice (roi.py:20-28, worker.py:242-251).
CountedInOneWeek ==
  \A r \in reports, s \in reports : r.counted \cap s.counted # {} => r.to = s.to

\* Every intervention sent gets an outcome in the end, with deaths of the job and
\* nights on which it does not run.
OutcomesRecorded ==
  \A i \in Ids : row[i].status = "sent" /\ row[i].sentAt + Window <= MaxNow
                   ~> row[i].outcome # "pending"

\* "determine if the customer churned or was retained in that window",
\* outcomes.py:12-13: whatever the source of the cancellation.
CancellationsChurn ==
  \A i \in Ids, x \in Cancellations :
    row[i].outcome = "retained" /\ cancel[x].state = "stored" /\ Within(x, i)
    => <<i, x>> \in unseen

=============================================================================
