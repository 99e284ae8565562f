--------------------- MODULE InterventionOutcomesProofs ---------------------
(***************************************************************************)
(* Proofs about InterventionOutcomes, for every set of interventions,      *)
(* customers, cancellations and requests, every window and week, and       *)
(* whatever the bounds.                                                    *)
(***************************************************************************)
EXTENDS InterventionOutcomes, TLAPS

(***************************************************************************)
(* Type correctness                                                        *)
(***************************************************************************)
\* A request in flight is about an intervention and a customer that exist.
InFlightSane ==
  \A q \in Requests :
    request[q].stage = "sent" => request[q].id \in Ids /\ request[q].customer \in Customers

TypeInv == TypeOK /\ InFlightSane

\* What requests and the tracker are when nothing runs.
LEMMA RestType ==
  /\ NoRequest \in [stage : {"idle", "sent"}, id : Ids \cup {NoId},
                    customer : Customers \cup {NoOne}, mark : {"sent", "failed"}, at : Int]
  /\ Asleep \in Tracker /\ NoRow \in Intervention
  BY DEF NoRequest, Asleep, Tracker, Never, NoRow, Intervention

\* A row that was just sent, or refused.
LEMMA SentType ==
  ASSUME NEW c \in Customers, NEW mark \in {"sent", "failed"}, NEW at \in Int
  PROVE  [NoRow EXCEPT !.status = mark, !.customer = c, !.sentAt = at] \in Intervention
  <1>1. [NoRow EXCEPT !.status = mark, !.customer = c] \in Intervention
    BY RestType DEF Intervention
  <1>2. QED
    BY <1>1 DEF Intervention

LEMMA TypeStep ==
  ASSUME OutcomeAssumption, TypeInv, [Next]_vars
  PROVE  TypeInv'
  <1> USE RestType DEF TypeInv, TypeOK, InFlightSane, Never
  <1>0. now \in Nat /\ now \in Int /\ MaxNow \in Nat /\ MaxFaults \in Nat /\ MaxRescores \in Nat /\ Window \in Nat
    BY DEF OutcomeAssumption
  <1>1. ASSUME NEW i \in Ids, NEW c \in Customers, NEW mark \in {"sent", "failed"},
               CampaignSends(i, c, mark)
        PROVE  TypeInv'
    <2>1. [NoRow EXCEPT !.status = mark, !.customer = c, !.sentAt = now] \in Intervention
      BY <1>0, SentType
    <2>2. QED
      BY <1>1, <2>1 DEF CampaignSends, bounds, job
  <1>2. ASSUME NEW i \in Ids, NEW c \in Customers, NEW mark \in {"sent", "failed"},
               NEW q \in Requests, NEW saves \in BOOLEAN, Override(q, i, c, mark, saves)
        PROVE  TypeInv'
    <2>1. [NoRow EXCEPT !.status = "pending", !.customer = c, !.manual = TRUE] \in Intervention
      BY DEF NoRow, Intervention
    <2>2. row' \in [Ids -> Intervention]
      BY <1>2, <2>1 DEF Override
    <2>3. QED
      BY <1>0, <1>2, <2>2 DEF Override, bounds, job
  <1>3. ASSUME NEW q \in Requests, OverrideCommit(q)
        PROVE  TypeInv'
    <2> DEFINE r == request[q]
    <2>1. [NoRow EXCEPT !.status = r.mark, !.customer = r.customer, !.manual = TRUE,
                        !.sentAt = r.at] \in Intervention
      BY <1>3 DEF OverrideCommit, NoRow, Intervention
    <2>2. QED
      BY <1>3, <2>1 DEF OverrideCommit, bounds, job, NoRequest
  <1>4. ASSUME NEW q \in Requests, OverrideDies(q)
        PROVE  TypeInv'
    BY <1>0, <1>4 DEF OverrideDies, job, NoRequest
  <1>5. ASSUME NEW x \in Cancellations, NEW c \in Customers, NEW kind \in Kinds, Cancel(x, c, kind)
        PROVE  TypeInv'
    BY <1>0, <1>5 DEF Cancel, bounds, job
  <1>6. ASSUME NEW x \in Cancellations, Ingest(x)
        PROVE  TypeInv'
    BY <1>6 DEF Ingest, bounds, job
  <1>7. ASSUME NEW c \in Customers, Rescore(c)
        PROVE  TypeInv'
    BY <1>0, <1>7 DEF Rescore, job
  <1>8. CASE TrackStart
    BY <1>8 DEF TrackStart, Tracker, Asleep, bounds
  <1>9. ASSUME NEW i \in Ids, Evaluate(i)
        PROVE  TypeInv'
    BY <1>9 DEF Evaluate, Tracker, bounds
  <1>10. CASE TrackCommit
    <2>1. \A i \in Ids : tracker.verdict[i] # "none" =>
            [row[i] EXCEPT !.outcome = tracker.verdict[i], !.recordedAt = now] \in Intervention
      <3>1. ASSUME NEW i \in Ids, tracker.verdict[i] # "none"
            PROVE  [row[i] EXCEPT !.outcome = tracker.verdict[i], !.recordedAt = now] \in Intervention
        <4>1. row[i] \in Intervention /\ tracker.verdict[i] \in {"retained", "churned"} /\ now \in Int
          BY <1>0, <3>1 DEF Tracker
        <4>2. QED
          BY <4>1 DEF Intervention
      <3>2. QED
        BY <3>1
    <2>2. row' \in [Ids -> Intervention]
      BY <1>10, <2>1 DEF TrackCommit
    <2>3. QED
      BY <1>0, <1>10, <2>2 DEF TrackCommit, bounds, OutcomeAssumption
  <1>11. CASE TrackDies
    BY <1>0, <1>11 DEF TrackDies
  <1>12. CASE Report
    BY <1>12 DEF Report, Counted, bounds, job
  <1>13. CASE Tick
    BY <1>0, <1>13 DEF Tick, bounds, job
  <1>14. CASE UNCHANGED vars
    BY <1>14 DEF vars, bounds, job
  <1>15. QED
    BY <1>1, <1>2, <1>3, <1>4, <1>5, <1>6, <1>7, <1>8, <1>9, <1>10, <1>11, <1>12, <1>13, <1>14
       DEF Next, Track

LEMMA TypeInit == OutcomeAssumption /\ Init => TypeInv
  BY RestType DEF Init, TypeInv, TypeOK, InFlightSane, OutcomeAssumption, Kinds, Never, NoRequest

\* Every variable keeps its type, whatever the bounds (interventions.py, outcomes.py, roi.py).
THEOREM OutcomesTypeCorrect == OutcomeAssumption /\ Spec => []TypeOK
  <1> SUFFICES ASSUME OutcomeAssumption PROVE Spec => []TypeOK
    OBVIOUS
  <1>1. Init => TypeInv
    BY TypeInit
  <1>2. TypeInv /\ [Next]_vars => TypeInv'
    BY TypeStep
  <1>3. TypeInv => TypeOK
    BY DEF TypeInv
  <1>4. QED
    BY <1>1, <1>2, <1>3, PTL DEF Spec

(***************************************************************************)
(* Outcomes and audit entries                                              *)
(***************************************************************************)
\* A request in flight has an id of its own, whose row is not finished.
FlightInv ==
  \A q \in Requests :
    /\ request[q].stage = "idle" => request[q].id = NoId
    /\ request[q].stage = "sent" =>
         /\ row[request[q].id].status \in {"none", "pending"}
         /\ \A p \in Requests \ {q} : request[p].id # request[q].id

\* A row that is not there is not manual, and one that has an outcome was sent.
RowInv ==
  \A i \in Ids :
    /\ row[i].status = "none" => ~row[i].manual
    /\ row[i].outcome # "pending" => row[i].status = "sent"

\* The tracker deals with interventions that were sent and have no outcome.
TrackInv ==
  /\ tracker.stage = "idle" => tracker = Asleep
  /\ \A i \in Ids : i \in tracker.todo \/ tracker.verdict[i] # "none" =>
                    row[i].status = "sent" /\ row[i].outcome = "pending"

RecordInv == FlightInv /\ RowInv /\ TrackInv /\ OverridesAudited

LEMMA RecordStep ==
  ASSUME OutcomeAssumption, TypeInv, RecordInv, [Next]_vars
  PROVE  RecordInv'
  <1> USE DEF RecordInv, FlightInv, RowInv, TrackInv, OverridesAudited
  <1>0. /\ row \in [Ids -> Intervention] /\ audited \subseteq Ids /\ tracker \in Tracker
        /\ request \in [Requests -> [stage : {"idle", "sent"}, id : Ids \cup {NoId},
                                    customer : Customers \cup {NoOne},
                                    mark : {"sent", "failed"}, at : Int]]
        /\ NoId \notin Ids /\ InFlightSane
    BY DEF TypeInv, TypeOK, OutcomeAssumption
  <1>1. ASSUME NEW i \in Ids, NEW c \in Customers, NEW mark \in {"sent", "failed"},
               CampaignSends(i, c, mark)
        PROVE  RecordInv'
    BY <1>0, <1>1 DEF CampaignSends, Free, NoRow, job, InFlightSane
  <1>2. ASSUME NEW i \in Ids, NEW c \in Customers, NEW mark \in {"sent", "failed"},
               NEW q \in Requests, NEW saves \in BOOLEAN, Override(q, i, c, mark, saves)
        PROVE  RecordInv'
    BY <1>0, <1>2 DEF Override, Free, NoRow, job, InFlightSane
  <1>3. ASSUME NEW q \in Requests, OverrideCommit(q)
        PROVE  RecordInv'
    BY <1>0, <1>3 DEF OverrideCommit, NoRow, NoRequest, job, InFlightSane
  <1>4. ASSUME NEW q \in Requests, OverrideDies(q)
        PROVE  RecordInv'
    BY <1>0, <1>4 DEF OverrideDies, NoRequest, job, InFlightSane
  <1>5. CASE TrackStart
    BY <1>0, <1>5 DEF TrackStart, Asleep, Tracker, Due
  <1>6. ASSUME NEW i \in Ids, Evaluate(i)
        PROVE  RecordInv'
    BY <1>0, <1>6 DEF Evaluate, Tracker
  <1>7. CASE TrackCommit
    <2>1. \A i \in Ids :
            /\ row'[i].status = row[i].status /\ (row'[i].manual <=> row[i].manual)
            /\ tracker.verdict[i] = "none" => row'[i] = row[i]
      <3>1. ASSUME NEW i \in Ids
            PROVE  row'[i] = IF tracker.verdict[i] = "none" THEN row[i]
                             ELSE [row[i] EXCEPT !.outcome = tracker.verdict[i], !.recordedAt = now]
        BY <1>7 DEF TrackCommit
      <3>2. ASSUME NEW i \in Ids
            PROVE  row[i] \in Intervention
        BY <1>0
      <3>3. ASSUME NEW i \in Ids
            PROVE  /\ row'[i].status = row[i].status
                   /\ row'[i].manual = row[i].manual
        <4>1. CASE tracker.verdict[i] = "none"
          BY <3>1, <4>1
        <4>2. CASE tracker.verdict[i] # "none"
          <5>1. row'[i] = [row[i] EXCEPT !.outcome = tracker.verdict[i], !.recordedAt = now]
            BY <3>1, <4>2
          <5>2. QED
            BY <3>2, <5>1 DEF Intervention
        <4>3. QED
          BY <4>1, <4>2
      <3>4. QED
        BY <3>1, <3>3
    <2>2. tracker' = Asleep /\ UNCHANGED <<audited, request>>
      BY <1>7 DEF TrackCommit
    <2>3. TrackInv'
      BY <2>2 DEF Asleep
    <2>4. RowInv'
      BY <2>1
    <2>5. FlightInv'
      BY <1>0, <2>1, <2>2 DEF InFlightSane
    <2>6. OverridesAudited'
      BY <2>1, <2>2
    <2>7. QED
      BY <2>3, <2>4, <2>5, <2>6
  <1>8. CASE TrackDies
    BY <1>0, <1>8 DEF TrackDies, Asleep
  <1>9. ASSUME UNCHANGED <<row, audited, request, tracker>>
        PROVE  RecordInv'
    BY <1>9
  <1>10. QED
    BY <1>1, <1>2, <1>3, <1>4, <1>5, <1>6, <1>7, <1>8, <1>9
       DEF Next, Track, Cancel, Ingest, Rescore, Report, Tick, vars, job

LEMMA RecordInit == OutcomeAssumption /\ Init => RecordInv
  BY DEF OutcomeAssumption, Init, RecordInv, FlightInv, RowInv, TrackInv, OverridesAudited,
         NoRow, NoRequest, Asleep

LEMMA RecordHolds == OutcomeAssumption /\ Spec => [](TypeInv /\ RecordInv)
  <1> SUFFICES ASSUME OutcomeAssumption PROVE Spec => [](TypeInv /\ RecordInv)
    OBVIOUS
  <1>1. Init => TypeInv /\ RecordInv
    BY TypeInit, RecordInit
  <1>2. TypeInv /\ RecordInv /\ [Next]_vars => (TypeInv /\ RecordInv)'
    BY TypeStep, RecordStep
  <1>3. QED
    BY <1>1, <1>2, PTL DEF Spec

\* A manual intervention that is sent or failed has its audit entry, and no other has
\* one, however requests, adapters' commits and deaths interleave
\* (interventions.py:61-79).
THEOREM OverridesAreAudited == OutcomeAssumption /\ Spec => []OverridesAudited
  <1>1. RecordInv => OverridesAudited
    BY DEF RecordInv
  <1>2. QED
    BY <1>1, RecordHolds, PTL

\* The actions that write interventions.
LEMMA RowWriters ==
  ASSUME [Next]_vars
  PROVE  \/ \E i \in Ids, c \in Customers, mark \in {"sent", "failed"} :
              \/ CampaignSends(i, c, mark)
              \/ \E q \in Requests, saves \in BOOLEAN : Override(q, i, c, mark, saves)
         \/ \E q \in Requests : OverrideCommit(q)
         \/ TrackCommit
         \/ UNCHANGED row
  <1>1. (\E q \in Requests : OverrideDies(q)) \/ (\E c \in Customers : Rescore(c))
        \/ (\E x \in Cancellations : Ingest(x) \/ \E c \in Customers, kind \in Kinds : Cancel(x, c, kind))
        => UNCHANGED row
    BY DEF OverrideDies, Rescore, Ingest, Cancel
  <1>2. TrackStart \/ (\E i \in Ids : Evaluate(i)) \/ TrackDies \/ Report \/ Tick \/ UNCHANGED vars
        => UNCHANGED row
    BY DEF TrackStart, Evaluate, TrackDies, Report, Tick, vars
  <1>3. QED
    BY Zenon, <1>1, <1>2 DEF Next, Track

\* No step revises an outcome: what the tracker is about to record has none, and an
\* override in flight holds no row that has one (outcomes.py:18-25).
LEMMA VerdictsStandStep ==
  ASSUME OutcomeAssumption, TypeInv, RecordInv, [Next]_vars, NEW i \in Ids,
         row[i].outcome # "pending"
  PROVE  row'[i] = row[i]
  <1> USE DEF RecordInv, FlightInv, RowInv, TrackInv
  <1>0. row \in [Ids -> Intervention] /\ row[i].status = "sent" /\ tracker.verdict[i] = "none"
    BY DEF TypeInv, TypeOK
  <1>1. ASSUME NEW k \in Ids, NEW c \in Customers, NEW mark \in {"sent", "failed"},
               \/ CampaignSends(k, c, mark)
               \/ \E q \in Requests, saves \in BOOLEAN : Override(q, k, c, mark, saves)
        PROVE  row'[i] = row[i]
    BY <1>0, <1>1 DEF CampaignSends, Override, Free
  <1>2. ASSUME NEW q \in Requests, OverrideCommit(q)
        PROVE  row'[i] = row[i]
    BY <1>0, <1>2 DEF OverrideCommit
  <1>3. CASE TrackCommit
    BY <1>0, <1>3 DEF TrackCommit
  <1>4. CASE UNCHANGED row
    BY <1>4
  <1>5. QED
    BY <1>1, <1>2, <1>3, <1>4, RowWriters

\* An outcome, once recorded, is never revised: not by the next night's job, nor by one
\* that runs again after a death (outcomes.py:18-25).
THEOREM VerdictsAreFinal == OutcomeAssumption /\ Spec => VerdictsStand
  <1> SUFFICES ASSUME OutcomeAssumption PROVE Spec => VerdictsStand
    OBVIOUS
  <1>1. TypeInv /\ RecordInv /\ [Next]_vars =>
          [\A i \in Ids : row[i].outcome # "pending" => row'[i].outcome = row[i].outcome]_vars
    <2> SUFFICES ASSUME TypeInv, RecordInv, [Next]_vars, NEW i \in Ids, row[i].outcome # "pending"
                 PROVE  row'[i].outcome = row[i].outcome
      OBVIOUS
    <2>1. row'[i] = row[i]
      BY VerdictsStandStep
    <2>2. QED
      BY <2>1
  <1>2. QED
    BY <1>1, RecordHolds, PTL DEF Spec, VerdictsStand

(***************************************************************************)
(* What the tracker had seen                                               *)
(***************************************************************************)
\* Of a verdict that is not committed yet the same is true as of an outcome.
FaithInv ==
  \A i \in Ids, x \in Cancellations :
    /\ row[i].outcome = "retained" \/ tracker.verdict[i] = "retained"
    /\ cancel[x].state = "stored" /\ cancel[x].kind = "subscription_canceled"
    /\ Within(x, i)
    => <<i, x>> \in unseen

\* A step that leaves the interventions' customers and times, and the cancellations.
LEMMA WithinKept ==
  ASSUME NEW i \in Ids, NEW x \in Cancellations,
         row'[i].customer = row[i].customer, row'[i].sentAt = row[i].sentAt,
         cancel'[x].customer = cancel[x].customer, cancel'[x].at = cancel[x].at
  PROVE  Within(x, i)' <=> Within(x, i)
  BY DEF Within

LEMMA FaithStep ==
  ASSUME OutcomeAssumption, TypeInv, RecordInv, FaithInv, [Next]_vars
  PROVE  FaithInv'
  <1>0. /\ row \in [Ids -> Intervention] /\ tracker \in Tracker
        /\ cancel \in [Cancellations -> [state : {"none", "occurred", "stored"},
                                        customer : Customers \cup {NoOne}, kind : Kinds, at : Int]]
        /\ NoId \notin Ids /\ InFlightSane
    BY DEF TypeInv, TypeOK, OutcomeAssumption
  <1> SUFFICES ASSUME NEW i \in Ids, NEW x \in Cancellations,
                      row'[i].outcome = "retained" \/ tracker'.verdict[i] = "retained",
                      cancel'[x].state = "stored", cancel'[x].kind = "subscription_canceled",
                      Within(x, i)'
               PROVE  <<i, x>> \in unseen'
    BY DEF FaithInv
  <1> USE DEF RecordInv, RowInv, TrackInv
  <1>1. ASSUME NEW k \in Ids, NEW c \in Customers, NEW mark \in {"sent", "failed"},
               CampaignSends(k, c, mark)
        PROVE  <<i, x>> \in unseen'
    <2>1. row[k].status = "none" /\ tracker.verdict[k] = "none" /\ UNCHANGED <<cancel, unseen, tracker>>
      BY <1>1 DEF CampaignSends, Free, job
    <2>2. i # k
      BY <1>0, <1>1, <2>1 DEF CampaignSends, NoRow
    <2>3. row'[i] = row[i]
      BY <1>0, <1>1, <2>2 DEF CampaignSends
    <2>4. QED
      BY <2>1, <2>3, WithinKept DEF FaithInv
  <1>2. ASSUME NEW k \in Ids, NEW c \in Customers, NEW mark \in {"sent", "failed"},
               NEW q \in Requests, NEW saves \in BOOLEAN, Override(q, k, c, mark, saves)
        PROVE  <<i, x>> \in unseen'
    <2>1. row[k].status = "none" /\ tracker.verdict[k] = "none" /\ UNCHANGED <<cancel, unseen, tracker>>
      BY <1>2 DEF Override, Free, job
    <2>2. row'[i] = row[i]
      BY <1>0, <1>2, <2>1 DEF Override, NoRow
    <2>3. QED
      BY <2>1, <2>2, WithinKept DEF FaithInv
  <1>3. ASSUME NEW q \in Requests, OverrideCommit(q)
        PROVE  <<i, x>> \in unseen'
    <2> DEFINE k == request[q].id
    <2>1. /\ k \in Ids /\ row[k].status \in {"none", "pending"} /\ tracker.verdict[k] = "none"
          /\ UNCHANGED <<cancel, unseen, tracker>>
      BY <1>0, <1>3 DEF OverrideCommit, FlightInv, InFlightSane, job
    <2>2. i # k
      BY <1>0, <1>3, <2>1 DEF OverrideCommit, NoRow
    <2>3. row'[i] = row[i]
      BY <1>0, <1>3, <2>2 DEF OverrideCommit
    <2>4. QED
      BY <2>1, <2>3, WithinKept DEF FaithInv
  <1>4. ASSUME NEW y \in Cancellations, NEW c \in Customers, NEW kind \in Kinds, Cancel(y, c, kind)
        PROVE  <<i, x>> \in unseen'
    <2>1. cancel'[x] = cancel[x] /\ UNCHANGED <<row, tracker, unseen>>
      BY <1>0, <1>4 DEF Cancel, job
    <2>2. QED
      BY <2>1, WithinKept DEF FaithInv
  <1>5. ASSUME NEW y \in Cancellations, Ingest(y)
        PROVE  <<i, x>> \in unseen'
    <2>1. /\ UNCHANGED <<row, tracker>> /\ unseen \subseteq unseen'
          /\ cancel'[x].customer = cancel[x].customer /\ cancel'[x].at = cancel[x].at
          /\ cancel'[x].kind = cancel[x].kind
          /\ x # y => cancel'[x] = cancel[x]
      BY <1>0, <1>5 DEF Ingest, job
    <2>2. Within(x, i)
      BY <2>1, WithinKept
    <2>3. CASE x = y
      BY <1>5, <2>1, <2>2, <2>3 DEF Ingest
    <2>4. CASE x # y
      BY <2>1, <2>2, <2>4 DEF FaithInv
    <2>5. QED
      BY <2>3, <2>4
  <1>6. CASE TrackStart
    <2>1. tracker'.verdict[i] = "none" /\ UNCHANGED <<row, cancel, unseen>>
      BY <1>6 DEF TrackStart, Asleep
    <2>2. QED
      BY <2>1, WithinKept DEF FaithInv
  <1>7. ASSUME NEW k \in Ids, Evaluate(k)
        PROVE  <<i, x>> \in unseen'
    <2>1. /\ UNCHANGED <<row, cancel, unseen>>
          /\ tracker'.verdict[i] = IF i = k THEN IF Churned(k) THEN "churned" ELSE "retained"
                                   ELSE tracker.verdict[i]
      BY <1>0, <1>7 DEF Evaluate, Tracker
    <2>2. Within(x, i)
      BY <2>1, WithinKept
    <2>3. CASE row[i].outcome = "retained" \/ tracker.verdict[i] = "retained"
      BY <2>1, <2>2, <2>3 DEF FaithInv
    <2>4. CASE i = k /\ ~Churned(k)
      BY <2>1, <2>2, <2>4 DEF Churned
    <2>5. QED
      BY <2>1, <2>3, <2>4
  <1>8. CASE TrackCommit
    <2>1. UNCHANGED <<cancel, unseen>> /\ tracker'.verdict[i] = "none"
      BY <1>8 DEF TrackCommit, Asleep
    <2>2. CASE tracker.verdict[i] = "none"
      <3>1. row'[i] = row[i]
        BY <1>8, <2>2 DEF TrackCommit
      <3>2. QED
        BY <2>1, <3>1, WithinKept DEF FaithInv
    <2>3. CASE tracker.verdict[i] # "none"
      <3>1. row'[i] = [row[i] EXCEPT !.outcome = tracker.verdict[i], !.recordedAt = now]
        BY <1>8, <2>3 DEF TrackCommit
      <3>2. row[i] \in Intervention
        BY <1>0
      <3>3. /\ row'[i].outcome = tracker.verdict[i]
            /\ row'[i].customer = row[i].customer /\ row'[i].sentAt = row[i].sentAt
        BY <3>1, <3>2 DEF Intervention
      <3>4. QED
        BY <2>1, <3>3, WithinKept DEF FaithInv
    <2>4. QED
      BY <2>2, <2>3
  <1>9. CASE TrackDies
    <2>1. UNCHANGED <<row, cancel, unseen>> /\ tracker'.verdict[i] = "none"
      BY <1>9 DEF TrackDies, Asleep
    <2>2. QED
      BY <2>1, WithinKept DEF FaithInv
  <1>10. CASE UNCHANGED <<row, cancel, unseen, tracker>>
    BY <1>10, WithinKept DEF FaithInv
  <1>11. QED
    BY <1>1, <1>2, <1>3, <1>4, <1>5, <1>6, <1>7, <1>8, <1>9, <1>10
       DEF Next, Track, OverrideDies, Rescore, Report, Tick, vars, job

\* An intervention is retained against a subscription_canceled event in its window only
\* if the event was ingested after the evaluation (outcomes.py:33-49).
THEOREM RetainedOnlyInGoodFaith == OutcomeAssumption /\ Spec => []RetainedInGoodFaith
  <1> SUFFICES ASSUME OutcomeAssumption PROVE Spec => []RetainedInGoodFaith
    OBVIOUS
  <1>1. Init => FaithInv
    BY DEF Init, FaithInv, NoRow, Asleep
  <1>2. TypeInv /\ RecordInv /\ FaithInv /\ [Next]_vars => FaithInv'
    BY FaithStep
  <1>3. FaithInv => RetainedInGoodFaith
    BY DEF FaithInv, RetainedInGoodFaith
  <1>4. QED
    BY <1>1, <1>2, <1>3, RecordHolds, PTL DEF Spec

(***************************************************************************)
(* Weeks                                                                   *)
(***************************************************************************)
LEMMA Division ==
  ASSUME NEW m \in Nat, m > 0, NEW t \in Nat
  PROVE  t = m * (t \div m) + (t % m)
  BY Z3

LEMMA QuotientType ==
  ASSUME NEW m \in Nat, m > 0, NEW t \in Nat
  PROVE  t \div m \in Int
  OBVIOUS

LEMMA MultiplesApart ==
  ASSUME NEW m \in Nat, m > 0, NEW a \in Int, NEW b \in Int, m * a < m * b
  PROVE  m * a + m <= m * b
  <1>1. a < b
    BY Z3
  <1>2. a + 1 <= b
    BY <1>1
  <1>3. m * (a + 1) <= m * b
    BY <1>2
  <1>4. QED
    BY <1>3

\* Moments of reports are odd, and two of them lie a week apart.
LEMMA ReportingMoments ==
  ASSUME NEW w \in Nat, w > 0, NEW s \in Nat, NEW t \in Nat,
         s % (2 * w) = 1, t % (2 * w) = 1
  PROVE  /\ t % 2 = 1
         /\ s < t => s <= t - 2 * w
  <1> DEFINE m == 2 * w
             a == s \div m
             b == t \div m
  <1>1. m \in Nat /\ m > 0
    OBVIOUS
  <1>2. a \in Int /\ b \in Int
    BY <1>1, QuotientType
  <1>3. s = m * a + 1 /\ t = m * b + 1
    BY <1>1, Division
  <1>4. t = 2 * (w * b) + 1 /\ w * b \in Int
    BY <1>2, <1>3
  <1>5. t % 2 = 1
    BY <1>4
  <1> HIDE DEF m, a, b
  <1>6. ASSUME s < t
        PROVE  s <= t - m
    <2>1. m * a \in Int /\ m * b \in Int
      BY <1>1, <1>2
    <2>2. m * a < m * b
      BY <1>3, <1>6, <2>1
    <2>3. m * a + m <= m * b
      BY <1>1, <1>2, <2>2, MultiplesApart
    <2>4. QED
      BY <1>1, <1>3, <2>1, <2>3
  <1>7. QED
    BY <1>5, <1>6 DEF m

\* The tracker works at even moments, and a report is made at an odd one of those
\* that were recorded in the week before it.
WeekInv ==
  /\ tracker.stage = "evaluate" => now % 2 = 0
  /\ \A i \in Ids : row[i].outcome # "pending" => row[i].recordedAt % 2 = 0
  /\ \A r \in reports :
       /\ r.to \in Nat /\ Reporting(r.to) /\ r.from = r.to - 2 * Week
       /\ \A i \in r.counted : /\ row[i].outcome = "retained"
                               /\ row[i].recordedAt \in r.from .. r.to

\* A step that keeps outcomes, reports and moments.
LEMMA WeekKept ==
  ASSUME TypeInv, WeekInv, UNCHANGED <<reports, now>>, tracker' = tracker \/ tracker'.stage = "idle",
         \A i \in Ids : row[i].outcome # "pending" => row'[i] = row[i],
         \A i \in Ids : row'[i] = row[i] \/ row'[i].outcome = "pending"
  PROVE  WeekInv'
  <1>1. \A r \in reports : r.counted \subseteq Ids
    BY DEF TypeInv, TypeOK
  <1>2. QED
    BY <1>1 DEF WeekInv

LEMMA WeekStep ==
  ASSUME OutcomeAssumption, TypeInv, RecordInv, WeekInv, [Next]_vars
  PROVE  WeekInv'
  <1>0. /\ row \in [Ids -> Intervention] /\ now \in Nat /\ Week \in Nat
        /\ \A r \in reports : r.counted \subseteq Ids
        /\ \A i \in Ids : row[i].outcome # "pending" => row'[i] = row[i]
    BY VerdictsStandStep DEF TypeInv, TypeOK, OutcomeAssumption
  <1>1. ASSUME NEW i \in Ids, NEW c \in Customers, NEW mark \in {"sent", "failed"},
               \/ CampaignSends(i, c, mark)
               \/ \E q \in Requests, saves \in BOOLEAN : Override(q, i, c, mark, saves)
        PROVE  WeekInv'
    <2>1. UNCHANGED <<reports, now, tracker>>
      BY <1>1 DEF CampaignSends, Override, job
    <2>2. \A k \in Ids : row'[k] = row[k] \/ row'[k].outcome = "pending"
      BY <1>0, <1>1 DEF CampaignSends, Override, NoRow
    <2>3. QED
      BY <1>0, <2>1, <2>2, WeekKept
  <1>2. ASSUME NEW q \in Requests, OverrideCommit(q)
        PROVE  WeekInv'
    <2>1. UNCHANGED <<reports, now, tracker>>
      BY <1>2 DEF OverrideCommit, job
    <2>2. \A k \in Ids : row'[k] = row[k] \/ row'[k].outcome = "pending"
      BY <1>0, <1>2 DEF OverrideCommit, NoRow
    <2>3. QED
      BY <1>0, <2>1, <2>2, WeekKept
  <1>3. CASE TrackStart
    BY <1>0, <1>3 DEF TrackStart, WeekInv, bounds
  <1>4. ASSUME NEW i \in Ids, Evaluate(i)
        PROVE  WeekInv'
    BY <1>0, <1>4 DEF Evaluate, WeekInv, bounds, TypeInv, TypeOK, Tracker
  <1>5. CASE TrackCommit
    <2>1. UNCHANGED <<reports, now>> /\ tracker'.stage = "idle" /\ now % 2 = 0
      BY <1>5 DEF TrackCommit, Asleep, WeekInv
    <2>2. ASSUME NEW i \in Ids, row'[i].outcome # "pending"
          PROVE  row'[i].recordedAt % 2 = 0
      <3>1. CASE tracker.verdict[i] = "none"
        BY <1>5, <2>2, <3>1 DEF TrackCommit, WeekInv
      <3>2. CASE tracker.verdict[i] # "none"
        <4>1. row'[i] = [row[i] EXCEPT !.outcome = tracker.verdict[i], !.recordedAt = now]
          BY <1>5, <3>2 DEF TrackCommit
        <4>2. row[i] \in Intervention
          BY <1>0
        <4>3. row'[i].recordedAt = now
          BY <4>1, <4>2 DEF Intervention
        <4>4. QED
          BY <2>1, <4>3
      <3>3. QED
        BY <3>1, <3>2
    <2>3. QED
      BY <1>0, <2>1, <2>2 DEF WeekInv
  <1>6. CASE Report
    <2> DEFINE r == [from |-> PeriodStart, to |-> now, counted |-> Counted]
    <2>1. reports' = reports \cup {r} /\ UNCHANGED <<row, tracker, now>> /\ Reporting(now)
      BY <1>6 DEF Report, job
    <2>2. /\ r.to = now /\ r.from = now - 2 * Week
          /\ \A i \in r.counted : row[i].outcome = "retained" /\ row[i].recordedAt \in r.from .. r.to
      BY DEF PeriodStart, Counted
    <2> HIDE DEF r
    <2>3. QED
      BY <1>0, <2>1, <2>2 DEF WeekInv
  <1>7. CASE Tick
    BY <1>7 DEF Tick, WeekInv, job
  <1>8. CASE UNCHANGED <<row, reports, now>> /\ (tracker' = tracker \/ tracker' = Asleep)
    <2>1. tracker' = tracker \/ tracker'.stage = "idle"
      BY <1>8 DEF Asleep
    <2>2. QED
      BY <1>0, <1>8, <2>1, WeekKept
  <1>9. QED
    <2>1. (\E q \in Requests : OverrideDies(q)) \/ (\E c \in Customers : Rescore(c)) \/ TrackDies
          \/ (\E x \in Cancellations : Ingest(x) \/ \E c \in Customers, kind \in Kinds : Cancel(x, c, kind))
          \/ UNCHANGED vars
          => UNCHANGED <<row, reports, now>> /\ (tracker' = tracker \/ tracker' = Asleep)
      BY DEF OverrideDies, Rescore, TrackDies, Ingest, Cancel, vars, job
    <2>2. QED
      BY Zenon, <1>1, <1>2, <1>3, <1>4, <1>5, <1>6, <1>7, <1>8, <2>1 DEF Next, Track

\* No intervention counts in the reports of two weeks: an outcome is recorded at an even
\* moment and stands, and of two periods that share one only the moment of a report,
\* which is odd, lies in both (roi.py:20-28, worker.py:242-251).
THEOREM CountedOnce == OutcomeAssumption /\ Spec => []CountedInOneWeek
  <1> SUFFICES ASSUME OutcomeAssumption PROVE Spec => []CountedInOneWeek
    OBVIOUS
  <1>1. Init => WeekInv
    BY DEF Init, WeekInv, NoRow, Asleep
  <1>2. TypeInv /\ RecordInv /\ WeekInv /\ [Next]_vars => WeekInv'
    BY WeekStep
  <1>3. TypeInv /\ WeekInv => CountedInOneWeek
    <2> SUFFICES ASSUME TypeInv, WeekInv, NEW r \in reports, NEW s \in reports,
                        NEW i, i \in r.counted, i \in s.counted
                 PROVE  r.to = s.to
      BY DEF CountedInOneWeek
    <2>1. i \in Ids /\ Week \in Nat /\ Week > 0 /\ row[i].recordedAt \in Int
      BY DEF TypeInv, TypeOK, OutcomeAssumption, Intervention
    <2>2. /\ r.to \in Nat /\ r.to % (2 * Week) = 1 /\ r.from = r.to - 2 * Week
          /\ s.to \in Nat /\ s.to % (2 * Week) = 1 /\ s.from = s.to - 2 * Week
          /\ row[i].recordedAt % 2 = 0
          /\ row[i].recordedAt \in r.from .. r.to /\ row[i].recordedAt \in s.from .. s.to
      BY <2>1 DEF WeekInv, Reporting
    <2>3. /\ r.to % 2 = 1 /\ s.to % 2 = 1
          /\ r.to < s.to => r.to <= s.to - 2 * Week
          /\ s.to < r.to => s.to <= r.to - 2 * Week
      BY <2>1, <2>2, ReportingMoments
    <2>4. QED
      BY <2>1, <2>2, <2>3
  <1>4. QED
    BY <1>1, <1>2, <1>3, RecordHolds, PTL DEF Spec

=============================================================================
