---------------------------- MODULE RecordsProofs ----------------------------
(***************************************************************************)
(* Proofs about the components that keep records side by side: revenue at  *)
(* risk and its alert, the CRM sync, champions, and recommendations.  Each *)
(* has an inductive invariant and a theorem of its own, which speaks of    *)
(* the component alone; the theorems at the end carry them over to the     *)
(* module in which they stand together.                                    *)
(***************************************************************************)
EXTENDS MCRecords, TLAPS, FiniteSetTheorems

---------------------------------------------------------------------------
(***************************************************************************)
(* Revenue at risk and its alert                                           *)
(***************************************************************************)
JobType == [pc : {"off", "measure", "save", "evaluate", "send", "record", "leave", "dead"},
            day : Days, losses : Seq(Nat), now : Nat]
Wishes == [threshold : Nat, enabled : BOOLEAN]
ConfigRows == [threshold : Nat, enabled : BOOLEAN, lastAlerted : {NotYet} \union Nat]
PutStates == {[pc |-> "new"], [pc |-> "done"]}
             \union [pc : {"save"}, asked : Wishes, loaded : SUBSET Wishes]

AlertTypeInv ==
  /\ tick \in 0 .. (Nights * Day - 1) /\ exposure \in Exposures
  /\ snapshots \in [Days -> Seq(Nat)] /\ \A d \in Days : Len(snapshots[d]) \in {0, 3}
  /\ config \subseteq ConfigRows /\ \A c, d \in config : c = d
  /\ job \in JobType /\ put \in [Puts -> PutStates]
  /\ alerts \in Seq(Nat) /\ unrecorded \subseteq Nat
  /\ breached \subseteq Days /\ attempted \subseteq Days
  /\ crossed \in BOOLEAN

\* A job belongs to the present day, as none is under way at midnight; while it
\* alerts there is a row to record that in.
JobInv ==
  /\ job.pc # "off" => job.day = Today
  /\ job.pc = "measure" => Len(job.losses) \in 0 .. 2
  /\ job.pc \in {"save", "evaluate", "send", "record"} => Len(job.losses) = 3
  /\ Len(job.losses) \in 0 .. 3
  /\ job.pc \in {"send", "record"} => job.now <= tick /\ job.now \div Day = job.day /\ config # {}
  /\ job.pc = "record" => /\ job.day \in attempted
                          /\ alerts # <<>> /\ alerts[Len(alerts)] = job.now

Coherent(losses) == losses[2] = 2 * losses[1] /\ losses[3] = 3 * losses[1]

\* What was measured on a day that is not torn is the present exposure's.
MeasuredInv ==
  job.day \notin torn =>
    /\ job.pc = "measure" => /\ Len(job.losses) >= 1 => job.losses[1] = exposure
                             /\ Len(job.losses) >= 2 => job.losses[2] = 2 * exposure
    /\ job.pc = "save" => Coherent(job.losses)

\* An alert whose sender lived is recorded in the row, or is about to be, and what
\* is about to be sent lies more than a day after it.
SpacingInv ==
  /\ \A i \in DOMAIN alerts : alerts[i] <= tick
  /\ \A i \in DOMAIN alerts : \/ i \in unrecorded
                              \/ job.pc = "record" /\ i = Len(alerts)
                              \/ \E c \in config : c.lastAlerted >= alerts[i]
  /\ job.pc = "send" => \A i \in DOMAIN alerts : job.now - alerts[i] > Day \/ i \in unrecorded
  /\ job.pc \in {"send", "record"} => \A i \in DOMAIN alerts : alerts[i] <= job.now

\* A day of a breach, or the one before it, has had its alert.
BreachInv ==
  /\ \A c \in config : c.lastAlerted # NotYet =>
       c.lastAlerted <= tick /\ c.lastAlerted \div Day \in attempted
  /\ \A d \in breached : d \in attempted \/ d - 1 \in attempted

\* A request on its own finds the row as it has held it.
PutInv ==
  /\ \A r \in Puts : put[r].pc = "save" => \A a, b \in put[r].loaded : a = b
  /\ ~ crossed =>
       /\ \A c \in config : Asked(c) \in payloads
       /\ \A q, r \in Puts : put[q].pc = "save" /\ put[r].pc = "save" => q = r
       /\ \A r \in Puts : put[r].pc = "save" => put[r].loaded = {Asked(c) : c \in config}

AlertInv == /\ AlertTypeInv /\ JobInv /\ MeasuredInv /\ SnapshotsCoherent /\ AlertBacked
            /\ SpacingInv /\ AlertsSpaced /\ BreachInv /\ PutInv

LEMMA DayOf ==
  ASSUME NEW t \in Nat
  PROVE  t \div Day \in Nat /\ Day * (t \div Day) <= t /\ t < Day * (t \div Day) + Day
  BY AlertAssumption

LEMMA DayUnique ==
  ASSUME NEW d \in Nat, NEW t \in Nat, Day * d <= t, t < Day * d + Day
  PROVE  t \div Day = d
  BY AlertAssumption

LEMMA TodayType == ASSUME tick \in 0 .. (Nights * Day - 1) PROVE tick \in Nat /\ Today \in Days
  <1>1. tick \in Nat /\ Nights * Day \in Nat /\ tick < Nights * Day
    BY AlertAssumption
  <1>2. Today \in Nat /\ Day * Today <= tick
    BY <1>1, DayOf DEF Today
  <1>3. Day * Today < Day * Nights
    BY <1>1, <1>2, AlertAssumption
  <1>4. Today < Nights
    BY <1>2, <1>3, AlertAssumption
  <1>5. QED
    BY <1>1, <1>2, <1>4, AlertAssumption DEF Days

\* An alert less than a day ago was of today or of yesterday.
LEMMA DayBefore ==
  ASSUME NEW t \in Nat, NEW s \in Nat, s <= t, t - s <= Day
  PROVE  s \div Day = t \div Day \/ s \div Day = (t \div Day) - 1
  <1> DEFINE d == t \div Day
             e == s \div Day
  <1>1. /\ d \in Nat /\ Day * d <= t /\ t < Day * d + Day
        /\ e \in Nat /\ Day * e <= s /\ s < Day * e + Day
    BY DayOf
  <1> HIDE DEF d, e
  <1>2. Day * e < Day * (d + 1)
    BY <1>1, AlertAssumption
  <1>3. Day * d < Day * (e + 2)
    BY <1>1, AlertAssumption
  <1>4. e < d + 1 /\ d < e + 2
    BY <1>1, <1>2, <1>3, AlertAssumption
  <1>5. e = d \/ e = d - 1
    BY <1>1, <1>4
  <1>6. QED
    BY <1>5 DEF d, e

LEMMA AlertInitially == AlertInit => AlertInv
  <1> SUFFICES ASSUME AlertInit PROVE AlertInv
    OBVIOUS
  <1>1. /\ tick = 0 /\ exposure \in Exposures /\ snapshots = [d \in Days |-> <<>>]
        /\ job = [pc |-> "off", day |-> 0, losses |-> <<>>, now |-> 0]
        /\ config \in {{}} \union {{Row(s, NotYet)} : s \in Settings}
        /\ put = [r \in Puts |-> [pc |-> "new"]] /\ alerts = <<>>
        /\ unrecorded = {} /\ breached = {} /\ attempted = {} /\ torn = {}
        /\ payloads = {Asked(c) : c \in config} /\ crossed = FALSE
    BY DEF AlertInit, Idle
  <1>2. 0 \in Days /\ tick \in 0 .. (Nights * Day - 1)
    <2>1. Nights * Day \in Nat /\ Nights * Day >= 1
      BY AlertAssumption
    <2>2. QED
      BY <1>1, <2>1, AlertAssumption DEF Days
  <1>3. config \subseteq ConfigRows /\ \A c \in config : c.lastAlerted = NotYet
    <2>1. ASSUME NEW s \in Settings
          PROVE  Row(s, NotYet) \in ConfigRows /\ Row(s, NotYet).lastAlerted = NotYet
      <3>1. s \in Wishes
        BY AlertAssumption DEF Wishes
      <3>2. QED
        BY <3>1 DEF Row, ConfigRows, Wishes
    <2>2. QED
      BY <1>1, <2>1
  <1>4. \A c, d \in config : c = d
    BY <1>1
  <1>5. AlertTypeInv
    <2>1. job \in JobType
      BY <1>1, <1>2 DEF JobType
    <2>2. snapshots \in [Days -> Seq(Nat)] /\ \A d \in Days : Len(snapshots[d]) \in {0, 3}
      BY <1>1
    <2>3. put \in [Puts -> PutStates]
      BY <1>1 DEF PutStates
    <2>4. QED
      BY <1>1, <1>2, <1>3, <1>4, <2>1, <2>2, <2>3 DEF AlertTypeInv
  <1>6. JobInv /\ MeasuredInv /\ SnapshotsCoherent /\ AlertBacked
    BY <1>1 DEF JobInv, MeasuredInv, SnapshotsCoherent, AlertBacked
  <1>7. SpacingInv /\ AlertsSpaced
    BY <1>1 DEF SpacingInv, AlertsSpaced
  <1>8. BreachInv /\ PutInv
    BY <1>1, <1>3 DEF BreachInv, PutInv
  <1>9. QED
    BY <1>5, <1>6, <1>7, <1>8 DEF AlertInv

LEMMA AlertStartJob ==
  ASSUME AlertInv, StartAlertJob
  PROVE  AlertInv'
  <1>1. /\ UNCHANGED <<tick, exposure, snapshots, config, put, alerts, unrecorded, breached,
                       attempted, torn, payloads, crossed>>
        /\ job.pc \in {"off", "dead"}
        /\ job' = [pc |-> "measure", day |-> Today, losses |-> <<>>, now |-> tick]
    BY DEF StartAlertJob, Requesting, Outside
  <1>2. Today \in Days /\ tick \in Nat /\ Today' = Today
    BY <1>1, TodayType DEF AlertInv, AlertTypeInv, Today
  <1>3. AlertTypeInv'
    BY <1>1, <1>2 DEF AlertInv, AlertTypeInv, JobType
  <1>4. JobInv' /\ MeasuredInv' /\ SnapshotsCoherent' /\ AlertBacked'
    BY <1>1, <1>2 DEF AlertInv, JobInv, MeasuredInv, SnapshotsCoherent, AlertBacked
  <1>5. SpacingInv' /\ AlertsSpaced'
    BY <1>1 DEF AlertInv, SpacingInv, AlertsSpaced
  <1>6. BreachInv' /\ PutInv'
    BY <1>1 DEF AlertInv, BreachInv, PutInv
  <1>7. QED
    BY <1>3, <1>4, <1>5, <1>6 DEF AlertInv

LEMMA AlertMeasure ==
  ASSUME AlertInv, Measure
  PROVE  AlertInv'
  <1> DEFINE losses == Append(job.losses, exposure * (Len(job.losses) + 1))
             pc == IF Len(losses) = 3 THEN "save" ELSE "measure"
  <1>1. /\ UNCHANGED <<tick, exposure, snapshots, config, put, alerts, unrecorded, breached,
                       attempted, torn, payloads, crossed>>
        /\ job.pc = "measure" /\ job' = [job EXCEPT !.losses = losses, !.pc = pc]
    BY DEF Measure, Requesting, Outside
  <1>2. job \in JobType /\ Len(job.losses) \in 0 .. 2 /\ exposure \in Nat /\ job.losses \in Seq(Nat)
    BY <1>1, AlertAssumption DEF AlertInv, AlertTypeInv, JobInv, JobType
  <1>3. exposure * (Len(job.losses) + 1) \in Nat
    BY <1>2
  <1>4. /\ losses \in Seq(Nat) /\ Len(losses) = Len(job.losses) + 1
        /\ \A i \in 1 .. Len(job.losses) : losses[i] = job.losses[i]
        /\ losses[Len(losses)] = exposure * (Len(job.losses) + 1)
    BY <1>2, <1>3
  <1>5. /\ job'.day = job.day /\ job'.losses = losses /\ job'.pc = pc /\ job'.now = job.now
        /\ job' \in JobType
    BY <1>1, <1>2, <1>4 DEF JobType
  <1>12. (pc = "save" /\ Len(losses) = 3) \/ (pc = "measure" /\ Len(losses) \in 1 .. 2)
    <2> DEFINE n == Len(job.losses)
               m == Len(losses)
    <2>1. n \in 0 .. 2 /\ m = n + 1
      BY <1>2, <1>4
    <2> HIDE DEF n, m, losses
    <2>2. (m = 3) \/ (m # 3 /\ m \in 1 .. 2)
      BY <2>1
    <2>3. QED
      BY <2>2 DEF m
  <1> HIDE DEF losses, pc
  <1>6. AlertTypeInv'
    BY <1>1, <1>5 DEF AlertInv, AlertTypeInv
  <1>7. JobInv'
    BY <1>1, <1>2, <1>5, <1>12 DEF AlertInv, JobInv, Today
  <1>8. MeasuredInv'
    <2> SUFFICES ASSUME job.day \notin torn
                 PROVE  /\ pc = "measure" => /\ Len(losses) >= 1 => losses[1] = exposure
                                             /\ Len(losses) >= 2 => losses[2] = 2 * exposure
                        /\ pc = "save" => Coherent(losses)
      BY <1>1, <1>5 DEF MeasuredInv
    <2>1. CASE Len(job.losses) = 0
      <3>1. Len(losses) = 1 /\ losses[1] = exposure * 1
        BY <1>4, <2>1
      <3>2. QED
        BY <1>2, <1>12, <3>1
    <2>2. CASE Len(job.losses) = 1
      <3>1. Len(losses) = 2 /\ losses[1] = exposure /\ losses[2] = exposure * 2
        BY <1>1, <1>4, <2>2 DEF AlertInv, MeasuredInv
      <3>2. QED
        BY <1>2, <1>12, <3>1
    <2>3. CASE Len(job.losses) = 2
      <3>1. Len(losses) = 3 /\ losses[1] = exposure /\ losses[2] = 2 * exposure
            /\ losses[3] = exposure * 3
        BY <1>1, <1>4, <2>3 DEF AlertInv, MeasuredInv
      <3>2. QED
        BY <1>2, <3>1 DEF Coherent
    <2>4. QED
      BY <1>2, <2>1, <2>2, <2>3
  <1>9. SnapshotsCoherent' /\ AlertBacked' /\ SpacingInv' /\ AlertsSpaced'
    <2>1. pc \in {"save", "measure"}
      BY <1>12
    <2>2. QED
      BY <1>1, <1>5, <2>1 DEF AlertInv, SnapshotsCoherent, AlertBacked, SpacingInv, AlertsSpaced
  <1>10. BreachInv' /\ PutInv'
    BY <1>1 DEF AlertInv, BreachInv, PutInv
  <1>11. QED
    BY <1>6, <1>7, <1>8, <1>9, <1>10 DEF AlertInv

LEMMA AlertSave ==
  ASSUME AlertInv, SaveSnapshot
  PROVE  AlertInv'
  <1>1. /\ UNCHANGED <<tick, exposure, config, put, alerts, unrecorded, breached,
                       attempted, torn, payloads, crossed>>
        /\ job.pc = "save" /\ job' = [job EXCEPT !.pc = "evaluate"]
        /\ snapshots' = [snapshots EXCEPT ![job.day] = job.losses]
    BY DEF SaveSnapshot, Requesting, Outside, Stored
  <1>2. /\ job \in JobType /\ Len(job.losses) = 3 /\ job.losses \in Seq(Nat) /\ job.day \in Days
        /\ job'.day = job.day /\ job'.losses = job.losses /\ job'.pc = "evaluate"
        /\ job'.now = job.now /\ job' \in JobType
    BY <1>1 DEF AlertInv, AlertTypeInv, JobInv, JobType
  <1>3. /\ snapshots' \in [Days -> Seq(Nat)] /\ snapshots'[job.day] = job.losses
        /\ \A d \in Days \ {job.day} : snapshots'[d] = snapshots[d]
    BY <1>1, <1>2 DEF AlertInv, AlertTypeInv
  <1>4. AlertTypeInv'
    BY <1>1, <1>2, <1>3 DEF AlertInv, AlertTypeInv
  <1>5. JobInv' /\ MeasuredInv' /\ AlertBacked'
    BY <1>1, <1>2, <1>3 DEF AlertInv, JobInv, MeasuredInv, AlertBacked, Today
  <1>6. SnapshotsCoherent'
    <2> SUFFICES ASSUME NEW d \in Days \ torn, snapshots'[d] # <<>>
                 PROVE  Coherent(snapshots'[d])
      BY <1>1 DEF SnapshotsCoherent, Coherent
    <2>1. CASE d = job.day
      BY <1>1, <1>3, <2>1 DEF AlertInv, MeasuredInv
    <2>2. CASE d # job.day
      BY <1>3, <2>2 DEF AlertInv, SnapshotsCoherent, Coherent
    <2>3. QED
      BY <2>1, <2>2
  <1>7. SpacingInv' /\ AlertsSpaced'
    BY <1>1, <1>2 DEF AlertInv, SpacingInv, AlertsSpaced
  <1>8. BreachInv' /\ PutInv'
    BY <1>1 DEF AlertInv, BreachInv, PutInv
  <1>9. QED
    BY <1>4, <1>5, <1>6, <1>7, <1>8 DEF AlertInv

LEMMA AlertEvaluate ==
  ASSUME AlertInv, Evaluate
  PROVE  AlertInv'
  <1>1. /\ UNCHANGED <<tick, exposure, snapshots, config, put, alerts, unrecorded, attempted,
                       torn, payloads, crossed>>
        /\ job.pc = "evaluate"
    BY DEF Evaluate, Requesting, Outside
  <1>2. job \in JobType /\ Len(job.losses) = 3 /\ job.day = Today /\ tick \in Nat /\ Today' = Today
    <2>1. tick \in Nat
      BY TodayType DEF AlertInv, AlertTypeInv
    <2>2. QED
      BY <1>1, <2>1 DEF AlertInv, AlertTypeInv, JobInv, Today
  <1>3. ASSUME NEW after \in [day : {job.day}, losses : {job.losses}, now : Nat, pc : {"send", "leave"}],
               job' = after,
               after.pc = "send" => after.now = tick /\ \E c \in config : Breaching(c) /\ AlertDue(c),
               breached' \subseteq breached \union
                 {d \in {job.day} : \E c \in config : Breaching(c) /\ ~ AlertDue(c)}
        PROVE  AlertInv'
    <2>1. AlertTypeInv'
      BY <1>1, <1>2, <1>3 DEF AlertInv, AlertTypeInv, JobType
    <2>2. JobInv' /\ MeasuredInv' /\ SnapshotsCoherent' /\ AlertBacked'
      BY <1>1, <1>2, <1>3
         DEF AlertInv, JobInv, MeasuredInv, SnapshotsCoherent, AlertBacked, Today
    <2>3. SpacingInv'
      <3>1. \A i \in DOMAIN alerts : alerts[i] \in Nat /\ alerts[i] <= tick
        BY DEF AlertInv, AlertTypeInv, SpacingInv
      <3>2. \A i \in DOMAIN alerts : i \in unrecorded \/ \E c \in config : c.lastAlerted >= alerts[i]
        BY <1>1 DEF AlertInv, SpacingInv
      <3>3. ASSUME after.pc = "send", NEW i \in DOMAIN alerts, i \notin unrecorded
            PROVE  after.now - alerts[i] > Day
        <4>1. PICK c \in config : AlertDue(c)
          BY <1>3, <3>3
        <4>2. PICK e \in config : e.lastAlerted >= alerts[i]
          BY <3>2, <3>3
        <4>3. c = e /\ c \in ConfigRows
          BY DEF AlertInv, AlertTypeInv
        <4>4. c.lastAlerted \in Nat /\ tick - c.lastAlerted > Day
          BY <3>1, <4>1, <4>2, <4>3 DEF AlertDue, ConfigRows, NotYet
        <4>5. QED
          BY <1>2, <1>3, <3>1, <3>3, <4>2, <4>3, <4>4, AlertAssumption
      <3>4. QED
        BY <1>1, <1>3, <3>1, <3>2, <3>3 DEF SpacingInv
    <2>4. AlertsSpaced'
      BY <1>1 DEF AlertInv, AlertsSpaced
    <2>5. BreachInv'
      <3>1. ASSUME NEW c \in config, ~ AlertDue(c)
            PROVE  job.day \in attempted \/ job.day - 1 \in attempted
        <4>1. /\ c.lastAlerted \in Nat /\ tick - c.lastAlerted <= Day
              /\ c.lastAlerted <= tick /\ c.lastAlerted \div Day \in attempted
          <5>1. c.lastAlerted # NotYet /\ ~ (tick - c.lastAlerted > Day)
            BY <3>1 DEF AlertDue
          <5>2. c.lastAlerted \in Nat
            BY <5>1 DEF AlertInv, AlertTypeInv, ConfigRows
          <5>3. QED
            BY <1>2, <5>1, <5>2, AlertAssumption DEF AlertInv, BreachInv
        <4>2. c.lastAlerted \div Day \in {job.day, job.day - 1}
          BY <1>2, <4>1, DayBefore DEF Today
        <4>3. QED
          BY <4>1, <4>2
      <3>2. QED
        BY <1>1, <1>3, <3>1 DEF AlertInv, BreachInv
    <2>6. PutInv'
      BY <1>1 DEF AlertInv, PutInv
    <2>7. QED
      BY <2>1, <2>2, <2>3, <2>4, <2>5, <2>6 DEF AlertInv
  <1>4. CASE \E c \in config : Breaching(c) /\ AlertDue(c)
    <2>1. job' = [job EXCEPT !.pc = "send", !.now = tick] /\ breached' = breached
      BY <1>4 DEF Evaluate
    <2> DEFINE after == [pc |-> "send", day |-> job.day, losses |-> job.losses, now |-> tick]
    <2>2. job' = after /\ after.pc = "send" /\ after.now = tick
      BY <1>2, <2>1 DEF JobType
    <2>3. after \in [day : {job.day}, losses : {job.losses}, now : Nat, pc : {"send", "leave"}]
      BY <1>2
    <2>4. QED
      BY <1>3, <1>4, <2>1, <2>2, <2>3
  <1>5. CASE ~ \E c \in config : Breaching(c) /\ AlertDue(c)
    <2>1. /\ job' = [job EXCEPT !.pc = "leave"]
          /\ breached' = breached \union {d \in {job.day} : \E c \in config : Breaching(c)}
      BY <1>5 DEF Evaluate
    <2> DEFINE after == [pc |-> "leave", day |-> job.day, losses |-> job.losses, now |-> job.now]
    <2>2. job' = after /\ after.pc = "leave"
      BY <1>2, <2>1 DEF JobType
    <2>3. after \in [day : {job.day}, losses : {job.losses}, now : Nat, pc : {"send", "leave"}]
      BY <1>2 DEF JobType
    <2>4. breached' \subseteq breached \union
            {d \in {job.day} : \E c \in config : Breaching(c) /\ ~ AlertDue(c)}
      BY <1>5, <2>1
    <2> HIDE DEF after
    <2>5. QED
      BY <1>3, <2>2, <2>3, <2>4
  <1>6. QED
    BY <1>4, <1>5

LEMMA AlertSend ==
  ASSUME AlertInv, SendAlert
  PROVE  AlertInv'
  <1>1. /\ UNCHANGED <<tick, exposure, snapshots, config, put, unrecorded,
                       torn, payloads, crossed>>
        /\ job.pc = "send" /\ job' = [job EXCEPT !.pc = "record"]
        /\ alerts' = Append(alerts, job.now)
        /\ breached' = breached \union {job.day} /\ attempted' = attempted \union {job.day}
    BY DEF SendAlert, Requesting, Outside
  <1>2. /\ job \in JobType /\ Len(job.losses) = 3 /\ job.day \in Days /\ job.now \in Nat
        /\ job'.day = job.day /\ job'.losses = job.losses /\ job'.pc = "record"
        /\ job'.now = job.now /\ job' \in JobType
    BY <1>1 DEF AlertInv, AlertTypeInv, JobInv, JobType
  <1>3. /\ alerts \in Seq(Nat) /\ alerts' \in Seq(Nat) /\ alerts' # <<>>
        /\ Len(alerts) \in Nat /\ Len(alerts') = Len(alerts) + 1
        /\ alerts'[Len(alerts')] = job.now
        /\ \A i \in DOMAIN alerts : i \in DOMAIN alerts' /\ alerts'[i] = alerts[i]
        /\ \A i \in DOMAIN alerts' : i = Len(alerts') \/ i \in DOMAIN alerts
        /\ \A i \in DOMAIN alerts' : i \in 1 .. Len(alerts')
    <2>1. alerts \in Seq(Nat)
      BY DEF AlertInv, AlertTypeInv
    <2>2. QED
      BY <1>1, <1>2, <2>1
  <1>4. AlertTypeInv'
    BY <1>1, <1>2, <1>3 DEF AlertInv, AlertTypeInv
  <1>5. JobInv'
    BY <1>1, <1>2, <1>3 DEF AlertInv, JobInv, Today
  <1>6. MeasuredInv' /\ SnapshotsCoherent' /\ AlertBacked'
    BY <1>1, <1>2 DEF AlertInv, MeasuredInv, SnapshotsCoherent, AlertBacked
  <1>7. SpacingInv'
    <2>1. /\ job.now <= tick /\ \A i \in DOMAIN alerts : alerts[i] <= tick /\ alerts[i] <= job.now
      BY <1>1 DEF AlertInv, JobInv, SpacingInv
    <2>2. \A i \in DOMAIN alerts : i \in unrecorded \/ \E c \in config : c.lastAlerted >= alerts[i]
      BY <1>1 DEF AlertInv, SpacingInv
    <2>3. \A i \in DOMAIN alerts' : alerts'[i] <= tick /\ alerts'[i] <= job.now
      BY <1>2, <1>3, <2>1
    <2>4. \A i \in DOMAIN alerts' : \/ i \in unrecorded
                                    \/ i = Len(alerts')
                                    \/ \E c \in config : c.lastAlerted >= alerts'[i]
      BY <1>3, <2>2
    <2>5. QED
      BY <1>1, <1>2, <2>3, <2>4 DEF SpacingInv
  <1>8. AlertsSpaced'
    <2> SUFFICES ASSUME NEW i \in DOMAIN alerts', NEW j \in DOMAIN alerts', i < j
                 PROVE  alerts'[j] - alerts'[i] > Day \/ i \in unrecorded
      BY <1>1 DEF AlertsSpaced
    <2>1. i \in DOMAIN alerts
      BY <1>3
    <2>2. CASE j \in DOMAIN alerts
      BY <1>3, <2>1, <2>2 DEF AlertInv, AlertsSpaced
    <2>3. CASE j = Len(alerts')
      BY <1>1, <1>3, <2>1, <2>3 DEF AlertInv, SpacingInv
    <2>4. QED
      BY <1>3, <2>2, <2>3
  <1>9. BreachInv' /\ PutInv'
    BY <1>1 DEF AlertInv, BreachInv, PutInv
  <1>10. QED
    BY <1>4, <1>5, <1>6, <1>7, <1>8, <1>9 DEF AlertInv

LEMMA AlertRecord ==
  ASSUME AlertInv, RecordAlert
  PROVE  AlertInv'
  <1>1. /\ UNCHANGED <<tick, exposure, snapshots, put, alerts, unrecorded, breached, attempted,
                       torn, payloads, crossed>>
        /\ job.pc = "record" /\ job' = [job EXCEPT !.pc = "leave"]
        /\ config' = {[c EXCEPT !.lastAlerted = job.now] : c \in config}
    BY DEF RecordAlert, Outside
  <1>2. /\ job \in JobType /\ Len(job.losses) = 3 /\ job.day \in Days /\ job.now \in Nat
        /\ job'.day = job.day /\ job'.losses = job.losses /\ job'.pc = "leave"
        /\ job'.now = job.now /\ job' \in JobType
    BY <1>1 DEF AlertInv, AlertTypeInv, JobInv, JobType
  <1>3. ASSUME NEW c \in config
        PROVE  LET d == [c EXCEPT !.lastAlerted = job.now]
               IN d \in ConfigRows /\ d.lastAlerted = job.now /\ Asked(d) = Asked(c)
    <2>1. c \in ConfigRows
      BY DEF AlertInv, AlertTypeInv
    <2>2. QED
      BY <1>2, <2>1 DEF ConfigRows, Asked
  <1>4. /\ \A c, d \in config' : c = d
        /\ \A d \in config' : d \in ConfigRows /\ d.lastAlerted = job.now
        /\ {Asked(d) : d \in config'} = {Asked(c) : c \in config}
        /\ config # {} /\ config' # {}
    <2>1. \A c, d \in config : c = d
      BY DEF AlertInv, AlertTypeInv
    <2>2. config # {}
      BY <1>1 DEF AlertInv, JobInv
    <2>3. \A d \in config' : \E c \in config : d = [c EXCEPT !.lastAlerted = job.now]
      BY <1>1
    <2>4. \A c \in config : \E d \in config' : d = [c EXCEPT !.lastAlerted = job.now]
      BY <1>1
    <2>5. {Asked(d) : d \in config'} = {Asked(c) : c \in config}
      <3>1. \A d \in config' : \E c \in config : Asked(d) = Asked(c)
        BY <1>3, <2>3
      <3>2. \A c \in config : \E d \in config' : Asked(d) = Asked(c)
        BY <1>3, <2>4
      <3>3. QED
        BY <3>1, <3>2
    <2>6. QED
      BY <1>3, <2>1, <2>2, <2>3, <2>4, <2>5
  <1>5. AlertTypeInv'
    BY <1>1, <1>2, <1>4 DEF AlertInv, AlertTypeInv
  <1>6. JobInv' /\ MeasuredInv' /\ SnapshotsCoherent' /\ AlertBacked'
    BY <1>1, <1>2
       DEF AlertInv, JobInv, MeasuredInv, SnapshotsCoherent, AlertBacked, Today
  <1>7. SpacingInv'
    <2>1. \A i \in DOMAIN alerts : alerts[i] \in Nat /\ alerts[i] <= tick /\ alerts[i] <= job.now
      BY <1>1 DEF AlertInv, AlertTypeInv, SpacingInv
    <2>2. \A i \in DOMAIN alerts : \E d \in config' : d.lastAlerted >= alerts[i]
      BY <1>2, <1>4, <2>1
    <2>3. QED
      BY <1>1, <1>2, <2>1, <2>2 DEF SpacingInv
  <1>8. AlertsSpaced'
    BY <1>1 DEF AlertInv, AlertsSpaced
  <1>9. BreachInv'
    <2>1. job.now <= tick /\ job.now \div Day \in attempted
      BY <1>1 DEF AlertInv, JobInv
    <2>2. QED
      BY <1>1, <1>4, <2>1 DEF AlertInv, BreachInv
  <1>10. PutInv'
    <2>1. \A d \in config' : \E c \in config : Asked(d) = Asked(c)
      BY <1>4
    <2>2. ~ crossed => \A d \in config' : Asked(d) \in payloads
      BY <2>1 DEF AlertInv, PutInv
    <2>3. ~ crossed => \A r \in Puts : put[r].pc = "save" => put[r].loaded = {Asked(d) : d \in config'}
      BY <1>4 DEF AlertInv, PutInv
    <2>4. QED
      BY <1>1, <2>2, <2>3 DEF AlertInv, PutInv
  <1>11. QED
    BY <1>5, <1>6, <1>7, <1>8, <1>9, <1>10 DEF AlertInv

LEMMA AlertEnd ==
  ASSUME AlertInv, EndAlertJob
  PROVE  AlertInv'
  <1>1. /\ UNCHANGED <<tick, exposure, snapshots, config, put, alerts, unrecorded, breached,
                       attempted, torn, payloads, crossed>>
        /\ job.pc = "leave"
        /\ job' = [pc |-> "off", day |-> 0, losses |-> <<>>, now |-> 0]
    BY DEF EndAlertJob, Requesting, Outside, Idle
  <1>2. 0 \in Days
    BY AlertAssumption DEF Days
  <1>3. AlertTypeInv'
    BY <1>1, <1>2 DEF AlertInv, AlertTypeInv, JobType
  <1>4. JobInv' /\ MeasuredInv' /\ SnapshotsCoherent' /\ AlertBacked'
    BY <1>1 DEF AlertInv, JobInv, MeasuredInv, SnapshotsCoherent, AlertBacked
  <1>5. SpacingInv' /\ AlertsSpaced'
    BY <1>1 DEF AlertInv, SpacingInv, AlertsSpaced
  <1>6. BreachInv' /\ PutInv'
    BY <1>1 DEF AlertInv, BreachInv, PutInv
  <1>7. QED
    BY <1>3, <1>4, <1>5, <1>6 DEF AlertInv

LEMMA AlertKill ==
  ASSUME AlertInv, KillAlertJob
  PROVE  AlertInv'
  <1>1. /\ UNCHANGED <<tick, exposure, snapshots, config, put, alerts, breached,
                       attempted, torn, payloads, crossed>>
        /\ job.pc \notin {"off", "dead"} /\ job' = [job EXCEPT !.pc = "dead"]
        /\ unrecorded' = unrecorded \union {i \in {Len(alerts)} : job.pc = "record"}
    BY DEF KillAlertJob, Requesting, Outside
  <1>2. /\ job \in JobType /\ Len(job.losses) \in 0 .. 3 /\ job.day = Today
        /\ job'.day = job.day /\ job'.losses = job.losses /\ job'.pc = "dead"
        /\ job'.now = job.now /\ job' \in JobType /\ Today' = Today
    BY <1>1 DEF AlertInv, AlertTypeInv, JobInv, JobType, Today
  <1>3. Len(alerts) \in Nat
    BY DEF AlertInv, AlertTypeInv
  <1>4. AlertTypeInv'
    BY <1>1, <1>2, <1>3 DEF AlertInv, AlertTypeInv
  <1>5. JobInv' /\ MeasuredInv' /\ SnapshotsCoherent' /\ AlertBacked'
    BY <1>1, <1>2 DEF AlertInv, JobInv, MeasuredInv, SnapshotsCoherent, AlertBacked
  <1>6. SpacingInv' /\ AlertsSpaced'
    BY <1>1, <1>2 DEF AlertInv, SpacingInv, AlertsSpaced
  <1>7. BreachInv' /\ PutInv'
    BY <1>1 DEF AlertInv, BreachInv, PutInv
  <1>8. QED
    BY <1>4, <1>5, <1>6, <1>7 DEF AlertInv

\* The settings endpoint touches neither the job nor its history, and of the row
\* only what was wish for.
LEMMA AlertSettings ==
  ASSUME AlertInv, PutInv', crossed' \in BOOLEAN, put' \in [Puts -> PutStates],
         UNCHANGED <<tick, exposure, snapshots, job, alerts, unrecorded, breached, attempted, torn>>,
         config' \subseteq ConfigRows, \A c, d \in config' : c = d,
         config # {} => config' # {},
         \A d \in config' : d.lastAlerted = NotYet \/ \E c \in config : d.lastAlerted = c.lastAlerted,
         \A c \in config : \E d \in config' : d.lastAlerted = c.lastAlerted
  PROVE  AlertInv'
  <1>1. AlertTypeInv'
    BY DEF AlertInv, AlertTypeInv
  <1>2. JobInv' /\ MeasuredInv' /\ SnapshotsCoherent' /\ AlertBacked' /\ AlertsSpaced'
    BY DEF AlertInv, JobInv, MeasuredInv, SnapshotsCoherent, AlertBacked, AlertsSpaced, Today
  <1>3. SpacingInv'
    <2>1. ASSUME NEW i \in DOMAIN alerts
          PROVE  \/ i \in unrecorded
                 \/ job.pc = "record" /\ i = Len(alerts)
                 \/ \E d \in config' : d.lastAlerted >= alerts[i]
      BY <2>1 DEF AlertInv, SpacingInv
    <2>2. QED
      BY <2>1 DEF AlertInv, SpacingInv
  <1>4. BreachInv'
    BY DEF AlertInv, BreachInv
  <1>5. QED
    BY <1>1, <1>2, <1>3, <1>4 DEF AlertInv

LEMMA AlertLoadConfig ==
  ASSUME AlertInv, NEW r \in Puts, LoadConfig(r)
  PROVE  AlertInv'
  <1> DEFINE held == {Asked(c) : c \in config}
  <1>1. /\ UNCHANGED <<tick, exposure, snapshots, config, job, alerts, unrecorded, breached,
                       attempted, torn, payloads>>
        /\ crossed' = (crossed \/ \E q \in Puts : put[q].pc = "save")
    BY DEF LoadConfig, Outside
  <1>2. PICK s \in Settings : put' = [put EXCEPT ![r] = [pc |-> "save", asked |-> s, loaded |-> held]]
    BY DEF LoadConfig
  <1>3. s \in Wishes /\ held \subseteq Wishes /\ \A a, b \in held : a = b
    <2>1. \A c \in config : Asked(c) \in Wishes
      BY DEF AlertInv, AlertTypeInv, ConfigRows, Asked, Wishes
    <2>2. \A c, d \in config : c = d
      BY DEF AlertInv, AlertTypeInv
    <2>3. QED
      BY <2>1, <2>2, AlertAssumption DEF Wishes
  <1> DEFINE after == [pc |-> "save", asked |-> s, loaded |-> held]
  <1>4. after \in PutStates /\ after.pc = "save" /\ after.loaded = held
    BY <1>3 DEF PutStates
  <1>5. put \in [Puts -> PutStates] /\ put' = [put EXCEPT ![r] = after]
    BY <1>2 DEF AlertInv, AlertTypeInv
  <1> HIDE DEF after
  <1>6. /\ put' \in [Puts -> PutStates] /\ put'[r] = after
        /\ \A q \in Puts \ {r} : put'[q] = put[q]
    BY <1>4, <1>5
  <1>7. crossed \in BOOLEAN /\ crossed' \in BOOLEAN
    BY <1>1 DEF AlertInv, AlertTypeInv
  <1>8. PutInv'
    <2>1. ASSUME ~ crossed'
          PROVE  ~ crossed /\ \A q \in Puts : put[q].pc # "save"
      BY <1>1, <2>1
    <2>2. \A q \in Puts : put'[q].pc = "save" => \A a, b \in put'[q].loaded : a = b
      BY <1>3, <1>4, <1>6 DEF AlertInv, PutInv
    <2>3. ASSUME ~ crossed'
          PROVE  /\ \A c \in config : Asked(c) \in payloads
                 /\ \A p, q \in Puts : put'[p].pc = "save" /\ put'[q].pc = "save" => p = q
                 /\ \A q \in Puts : put'[q].pc = "save" => put'[q].loaded = held
      BY <1>4, <1>6, <2>1, <2>3 DEF AlertInv, PutInv
    <2>4. QED
      BY <1>1, <2>2, <2>3 DEF PutInv
  <1>9. config \subseteq ConfigRows /\ \A c, d \in config : c = d
    BY DEF AlertInv, AlertTypeInv
  <1>10. QED
    BY <1>1, <1>6, <1>7, <1>8, <1>9, AlertSettings

LEMMA AlertSaveConfig ==
  ASSUME AlertInv, NEW r \in Puts, SaveConfig(r)
  PROVE  AlertInv'
  <1> DEFINE wish == put[r].asked
             held == put[r].loaded
             fails == held = {} /\ config # {}
             after == [pc |-> "done"]
  <1>1. /\ UNCHANGED <<tick, exposure, snapshots, job, alerts, unrecorded, breached, attempted,
                       torn, crossed>>
        /\ put[r].pc = "save" /\ put' = [put EXCEPT ![r] = after]
        /\ config' = IF fails THEN config
                     ELSE IF config = {} THEN {Row(wish, NotYet)}
                     ELSE {Assigned(row, was, wish) : row \in config, was \in held}
        /\ payloads' = IF fails THEN payloads ELSE payloads \union {wish}
    BY DEF SaveConfig, Outside
  <1>2. /\ put \in [Puts -> PutStates] /\ wish \in Wishes /\ held \subseteq Wishes
        /\ \A a, b \in held : a = b
        /\ config \subseteq ConfigRows /\ \A c, d \in config : c = d
        /\ crossed \in BOOLEAN /\ crossed' \in BOOLEAN
    <2>1. put \in [Puts -> PutStates] /\ crossed \in BOOLEAN
      BY DEF AlertInv, AlertTypeInv
    <2>2. put[r] \in [pc : {"save"}, asked : Wishes, loaded : SUBSET Wishes]
      BY <1>1, <2>1 DEF PutStates
    <2>3. QED
      BY <1>1, <2>1, <2>2 DEF AlertInv, AlertTypeInv, PutInv
  <1>3. after \in PutStates /\ after.pc = "done"
    BY DEF PutStates
  <1> HIDE DEF after
  <1>4. /\ put' \in [Puts -> PutStates] /\ put'[r].pc = "done"
        /\ \A q \in Puts \ {r} : put'[q] = put[q]
    BY <1>1, <1>2, <1>3
  <1>5. ASSUME config' \subseteq ConfigRows, \A c, d \in config' : c = d,
               config # {} => config' # {},
               \A d \in config' : d.lastAlerted = NotYet \/ \E c \in config : d.lastAlerted = c.lastAlerted,
               \A c \in config : \E d \in config' : d.lastAlerted = c.lastAlerted,
               ~ crossed => \A c \in config' : Asked(c) \in payloads'
        PROVE  AlertInv'
    <2>1. ASSUME ~ crossed, NEW q \in Puts \ {r} PROVE put'[q].pc # "save"
      BY <1>1, <1>4, <2>1 DEF AlertInv, PutInv
    <2>2. ASSUME ~ crossed, NEW q \in Puts PROVE put'[q].pc # "save"
      BY <1>4, <2>1, <2>2
    <2>3. \A q \in Puts : put'[q].pc = "save" => \A a, b \in put'[q].loaded : a = b
      BY <1>4 DEF AlertInv, PutInv
    <2>4. PutInv'
      BY <1>1, <1>5, <2>2, <2>3 DEF PutInv
    <2>5. QED
      BY <1>1, <1>2, <1>4, <1>5, <2>4, AlertSettings
  <1>6. CASE fails
    <2>1. config' = config /\ payloads' = payloads
      BY <1>1, <1>6
    <2>2. QED
      BY <1>2, <1>5, <2>1 DEF AlertInv, PutInv
  <1>7. CASE config = {}
    <2>1. config' = {Row(wish, NotYet)} /\ payloads' = payloads \union {wish}
      BY <1>1, <1>7
    <2>2. /\ Row(wish, NotYet) \in ConfigRows /\ Row(wish, NotYet).lastAlerted = NotYet
          /\ Asked(Row(wish, NotYet)) = wish
      BY <1>2 DEF Row, ConfigRows, Asked, Wishes
    <2>3. QED
      BY <1>5, <1>7, <2>1, <2>2
  <1>8. CASE config # {} /\ held # {}
    <2>1. PICK row \in config : config = {row}
      BY <1>2, <1>8
    <2>2. PICK was \in held : held = {was}
      BY <1>2, <1>8
    <2> DEFINE new == Assigned(row, was, wish)
    <2>3. config' = {new} /\ payloads' = payloads \union {wish}
      BY <1>1, <1>8, <2>1, <2>2
    <2>4. row \in ConfigRows /\ was \in Wishes
      BY <1>2
    <2>5. new \in ConfigRows /\ new.lastAlerted = row.lastAlerted
      BY <1>2, <2>4 DEF Assigned, ConfigRows, Wishes
    <2>6. ASSUME ~ crossed PROVE Asked(new) = wish
      <3>1. was = Asked(row)
        BY <1>1, <2>1, <2>2, <2>6 DEF AlertInv, PutInv
      <3>2. /\ new.threshold = wish.threshold /\ new.enabled = wish.enabled
        BY <1>2, <2>4, <3>1 DEF Assigned, ConfigRows, Wishes, Asked
      <3>3. QED
        BY <1>2, <3>2 DEF Asked, Wishes
    <2> HIDE DEF new
    <2>7. QED
      BY <1>5, <2>1, <2>3, <2>5, <2>6
  <1>9. QED
    BY <1>6, <1>7, <1>8

LEMMA AlertRescored ==
  ASSUME AlertInv, AlertRescore
  PROVE  AlertInv'
  <1>1. /\ UNCHANGED <<tick, snapshots, config, job, put, alerts, unrecorded, breached,
                       attempted, payloads, crossed>>
        /\ exposure' \in Exposures /\ torn \subseteq torn'
        /\ Measuring => job.day \in torn'
    BY DEF AlertRescore, Requesting
  <1>2. AlertTypeInv'
    BY <1>1 DEF AlertInv, AlertTypeInv
  <1>3. JobInv' /\ SnapshotsCoherent' /\ AlertBacked'
    BY <1>1 DEF AlertInv, JobInv, SnapshotsCoherent, AlertBacked, Today
  <1>4. MeasuredInv'
    <2>1. ASSUME job.day \notin torn', job.pc = "measure" PROVE Len(job.losses) = 0
      BY <1>1, <2>1 DEF Measuring, AlertInv, JobInv
    <2>2. QED
      BY <1>1, <2>1 DEF AlertInv, MeasuredInv
  <1>5. SpacingInv' /\ AlertsSpaced'
    BY <1>1 DEF AlertInv, SpacingInv, AlertsSpaced
  <1>6. BreachInv' /\ PutInv'
    BY <1>1 DEF AlertInv, BreachInv, PutInv
  <1>7. QED
    BY <1>2, <1>3, <1>4, <1>5, <1>6 DEF AlertInv

LEMMA AlertTicks ==
  ASSUME AlertInv, AlertTick
  PROVE  AlertInv'
  <1>1. /\ UNCHANGED <<exposure, snapshots, config, job, put, alerts, unrecorded, breached,
                       attempted, torn, payloads, crossed>>
        /\ tick < Nights * Day - 1 /\ tick' = tick + 1
        /\ (tick + 1) % Day = 0 => job.pc = "off"
    BY DEF AlertTick, Requesting
  <1>2. tick \in Nat /\ tick' \in 0 .. (Nights * Day - 1) /\ tick <= tick'
    <2>1. tick \in Nat /\ Nights * Day \in Nat
      BY TodayType, AlertAssumption DEF AlertInv, AlertTypeInv
    <2>2. QED
      BY <1>1, <2>1
  <1>3. job.pc # "off" => Today' = Today
    <2> SUFFICES ASSUME (tick + 1) % Day # 0 PROVE (tick + 1) \div Day = tick \div Day
      BY <1>1 DEF Today
    <2>1. tick + 1 = Day * ((tick + 1) \div Day) + ((tick + 1) % Day) /\ (tick + 1) % Day \in Nat
          /\ (tick + 1) \div Day \in Nat
      BY <1>2, AlertAssumption
    <2>2. (tick + 1) % Day < Day
      BY <1>2, AlertAssumption
    <2>3. Day * ((tick + 1) \div Day) <= tick /\ tick < Day * ((tick + 1) \div Day) + Day
      BY <1>2, <2>1, <2>2, AlertAssumption
    <2>4. QED
      BY <1>2, <2>1, <2>3, DayUnique
  <1>4. AlertTypeInv'
    BY <1>1, <1>2 DEF AlertInv, AlertTypeInv
  <1>5. JobInv'
    <2>1. job.now \in Nat
      BY DEF AlertInv, AlertTypeInv, JobType
    <2>2. QED
      BY <1>1, <1>2, <1>3, <2>1 DEF AlertInv, JobInv
  <1>6. MeasuredInv' /\ SnapshotsCoherent' /\ AlertBacked' /\ AlertsSpaced'
    BY <1>1 DEF AlertInv, MeasuredInv, SnapshotsCoherent, AlertBacked, AlertsSpaced
  <1>7. SpacingInv'
    <2>1. \A i \in DOMAIN alerts : alerts[i] \in Nat
      BY DEF AlertInv, AlertTypeInv
    <2>2. \A i \in DOMAIN alerts : alerts[i] <= tick'
      BY <1>2, <2>1, <1>1 DEF AlertInv, SpacingInv
    <2>3. QED
      BY <1>1, <2>2 DEF AlertInv, SpacingInv
  <1>8. BreachInv'
    <2>1. \A c \in config : c.lastAlerted # NotYet => c.lastAlerted \in Nat
      BY DEF AlertInv, AlertTypeInv, ConfigRows
    <2>2. \A c \in config : c.lastAlerted # NotYet => c.lastAlerted <= tick'
      BY <1>1, <1>2, <2>1 DEF AlertInv, BreachInv
    <2>3. QED
      BY <1>1, <2>2 DEF AlertInv, BreachInv
  <1>9. PutInv'
    BY <1>1 DEF AlertInv, PutInv
  <1>10. QED
    BY <1>4, <1>5, <1>6, <1>7, <1>8, <1>9 DEF AlertInv

LEMMA AlertUnchanged == AlertInv /\ UNCHANGED alertVars => AlertInv'
  <1> SUFFICES ASSUME AlertInv, UNCHANGED alertVars PROVE AlertInv'
    OBVIOUS
  <1>1. UNCHANGED <<tick, exposure, snapshots, config, job, put, alerts, unrecorded, breached,
                    attempted, torn, payloads, crossed>>
    BY DEF alertVars
  <1>2. AlertTypeInv' /\ JobInv' /\ MeasuredInv'
    BY <1>1 DEF AlertInv, AlertTypeInv, JobInv, MeasuredInv, Today
  <1>3. SnapshotsCoherent' /\ AlertBacked' /\ SpacingInv'
    BY <1>1 DEF AlertInv, SnapshotsCoherent, AlertBacked, SpacingInv
  <1>4. AlertsSpaced' /\ BreachInv' /\ PutInv'
    BY <1>1 DEF AlertInv, AlertsSpaced, BreachInv, PutInv
  <1>5. QED
    BY <1>2, <1>3, <1>4 DEF AlertInv

LEMMA AlertStep == AlertInv /\ [AlertNext]_alertVars => AlertInv'
  BY AlertStartJob, AlertMeasure, AlertSave, AlertEvaluate, AlertSend, AlertRecord, AlertEnd,
     AlertKill, AlertLoadConfig, AlertSaveConfig, AlertRescored, AlertTicks, AlertUnchanged
     DEF AlertNext

LEMMA AlertMeans == AlertInv => AlertsSound
  <1> SUFFICES ASSUME AlertInv PROVE AlertsSound
    OBVIOUS
  <1>1. RevenueTypeOK
    <2>1. Cardinality(config) <= 1
      <3>1. CASE config = {}
        BY <3>1, FS_EmptySet
      <3>2. CASE config # {}
        <4>1. PICK c \in config : config = {c}
          BY <3>2 DEF AlertInv, AlertTypeInv
        <4>2. QED
          BY <4>1, FS_Singleton
      <3>3. QED
        BY <3>1, <3>2
    <2>2. QED
      BY <2>1 DEF AlertInv, AlertTypeInv, JobInv, RevenueTypeOK, JobType, ConfigRows
  <1>2. LastingBreachAlerted
    <2> SUFFICES ASSUME NEW d \in Days, d + 1 \in breached PROVE d \in attempted \/ d + 1 \in attempted
      BY DEF LastingBreachAlerted
    <2>1. (d + 1) - 1 = d
      BY DEF Days
    <2>2. QED
      BY <2>1 DEF AlertInv, BreachInv
  <1>3. ConfigFromOnePut
    BY DEF AlertInv, PutInv, ConfigFromOnePut
  <1>4. QED
    BY <1>1, <1>2, <1>3 DEF AlertInv, AlertsSound

\* A breach of the threshold is announced once and in time, of a loss that is stored and
\* coherent, whatever the settings endpoint does meanwhile (worker.py:258-309).
THEOREM AlertsAreSound == AlertInit /\ [][AlertNext]_alertVars => []AlertsSound
  BY AlertInitially, AlertStep, AlertMeans, PTL

---------------------------------------------------------------------------
(***************************************************************************)
(* CRM sync                                                                *)
(***************************************************************************)
SyncType == [pc : {"new", "flush", "push", "commit", "done", "dead"}, left : Seq(Accounts),
             loaded : [Accounts -> 1 .. (MaxScores + 1)],
             status : {"pending", "success", "failed"},
             error : {"none", "No id", "No such object", "refused"},
             total : Nat, results : Counts]

CrmTypeInv ==
  /\ scored \in [Accounts -> 1 .. (MaxScores + 1)]
  /\ crm \in [Accounts -> Never .. (MaxScores + 1)]
  /\ syncLogs \subseteq [who : Accounts, by : Syncs, status : {"success", "failed"},
                         score : Never .. (MaxScores + 1)]
  /\ IsFiniteSet(syncLogs)
  /\ sync \in [Syncs -> SyncType]
  /\ pushed \subseteq [who : Accounts, by : Syncs, score : 1 .. (MaxScores + 1)]
  /\ met \subseteq Accounts

\* A request works through a list without repetitions; it has a customer in
\* hand just as long as the list is not empty.
ListInv ==
  \A r \in Syncs :
    /\ sync[r].pc \in {"flush", "push", "commit"} <=> sync[r].left # <<>>
    /\ \A i, j \in DOMAIN sync[r].left : sync[r].left[i] = sync[r].left[j] => i = j
    /\ sync[r].pc = "push" => Current(r) \in Linked
    /\ sync[r].pc = "commit" =>
         \/ sync[r].status = "success" /\ Current(r) \in Linked
         \/ sync[r].status = "failed" /\ (sync[r].error = "refused" => Current(r) \in Linked)

\* Nothing is pushed or logged yet for the customers still on the list, but
\* what the present one's push has sent.
AheadInv ==
  \A r \in Syncs :
    /\ sync[r].pc = "new" => /\ \A row \in syncLogs : row.by # r
                             /\ \A p \in pushed : p.by # r
    /\ \A row \in syncLogs : row.by = r => ~ Holds(r, row.who)
    /\ \A p \in pushed : p.by = r /\ Holds(r, p.who) =>
         sync[r].pc = "commit" /\ p.who = Current(r) /\ sync[r].status = "success"
           /\ p.score = Fields(r)

\* Scores only grow, and a customer that one request at a time has in hand is
\* pushed with a score at least as new as any pushed before.
NewestInv ==
  /\ \A p \in pushed : p.score <= scored[p.who]
  /\ \A r \in Syncs, c \in Accounts : sync[r].loaded[c] <= scored[c]
  /\ \A r \in Syncs, c \in Accounts \ met : Holds(r, c) =>
       /\ \A q \in Syncs : Holds(q, c) => q = r
       /\ \A p \in pushed : p.who = c => p.score <= sync[r].loaded[c]

RowsOf(r, status) == {row \in syncLogs : row.by = r /\ row.status = status}
Unknown(r) == {row \in RowsOf(r, "failed") : row.who \notin Linked}

CountsInv ==
  \A r \in Syncs : LET results == sync[r].results IN
    /\ sync[r].pc = "new" => results = NoneYet
    /\ results.success = Cardinality(RowsOf(r, "success"))
    /\ results.failed + results.skipped = Cardinality(RowsOf(r, "failed"))
    /\ results.skipped >= Cardinality(Unknown(r))
    /\ sync[r].pc \in {"flush", "push", "commit", "done"} =>
         results.success + results.failed + results.skipped + Len(sync[r].left) = sync[r].total

CrmInv == CrmTypeInv /\ ListInv /\ AheadInv /\ NewestInv /\ CountsInv /\ PushesLogged /\ CrmShowsNewest

LEMMA OrderType ==
  ASSUME NEW C \in SUBSET Accounts, NEW order \in Orders(C)
  PROVE  /\ order \in Seq(Accounts)
         /\ \A i, j \in DOMAIN order : order[i] = order[j] => i = j
         /\ \A i \in DOMAIN order : order[i] \in C
         /\ order = <<>> <=> C = {}
  <1>1. IsFiniteSet(C) /\ Cardinality(C) \in Nat
    BY CrmAssumption, FS_Subset, FS_CardinalityType
  <1>2. order \in [1 .. Cardinality(C) -> C]
    BY DEF Orders
  <1>3. order \in Seq(C) /\ Len(order) = Cardinality(C)
    BY <1>1, <1>2
  <1>4. Cardinality(C) = 0 <=> C = {}
    BY <1>1, FS_EmptySet
  <1>5. QED
    BY <1>1, <1>2, <1>3, <1>4 DEF Orders

\* The customers on the list once the first of them is done.
LEMMA TailHolds ==
  ASSUME NEW s \in Seq(Accounts), s # <<>>,
         \A i, j \in DOMAIN s : s[i] = s[j] => i = j
  PROVE  /\ Tail(s) \in Seq(Accounts) /\ Head(s) \in Accounts /\ Len(Tail(s)) = Len(s) - 1
         /\ Len(s) = 1 <=> Tail(s) = <<>>
         /\ \A i, j \in DOMAIN Tail(s) : Tail(s)[i] = Tail(s)[j] => i = j
         /\ {Tail(s)[i] : i \in DOMAIN Tail(s)} = {s[i] : i \in DOMAIN s} \ {Head(s)}
         /\ Head(s) \in {s[i] : i \in DOMAIN s}
  <1>1. /\ Tail(s) \in Seq(Accounts) /\ Len(s) \in Nat \ {0} /\ Len(Tail(s)) = Len(s) - 1
        /\ Head(s) = s[1] /\ DOMAIN s = 1 .. Len(s) /\ DOMAIN Tail(s) = 1 .. (Len(s) - 1)
        /\ \A i \in 1 .. (Len(s) - 1) : Tail(s)[i] = s[i + 1]
    OBVIOUS
  <1>2. \A i, j \in DOMAIN Tail(s) : Tail(s)[i] = Tail(s)[j] => i = j
    BY <1>1
  <1>3. ASSUME NEW c PROVE c \in {Tail(s)[i] : i \in DOMAIN Tail(s)} <=> c \in {s[i] : i \in DOMAIN s} \ {Head(s)}
    <2>1. ASSUME NEW i \in DOMAIN Tail(s), c = Tail(s)[i]
          PROVE  c \in {s[j] : j \in DOMAIN s} \ {Head(s)}
      <3>1. i + 1 \in DOMAIN s /\ i + 1 # 1 /\ c = s[i + 1] /\ 1 \in DOMAIN s
        BY <1>1, <2>1
      <3>2. QED
        BY <1>1, <3>1
    <2>2. ASSUME NEW j \in DOMAIN s, c = s[j], c # Head(s)
          PROVE  c \in {Tail(s)[i] : i \in DOMAIN Tail(s)}
      <3>1. j # 1 /\ j - 1 \in DOMAIN Tail(s) /\ (j - 1) + 1 = j
        BY <1>1, <2>2
      <3>2. QED
        BY <1>1, <2>2, <3>1
    <2>3. QED
      BY <2>1, <2>2
  <1>4. {Tail(s)[i] : i \in DOMAIN Tail(s)} = {s[i] : i \in DOMAIN s} \ {Head(s)}
    BY <1>3
  <1>5. Len(s) = 1 <=> Tail(s) = <<>>
    BY <1>1
  <1>6. 1 \in DOMAIN s
    BY <1>1
  <1>7. QED
    BY <1>1, <1>2, <1>4, <1>5, <1>6

LEMMA CrmInitially == CrmInit => CrmInv
  <1> SUFFICES ASSUME CrmInit PROVE CrmInv
    OBVIOUS
  <1>0. 1 \in 1 .. (MaxScores + 1) /\ Never \in Never .. (MaxScores + 1)
    BY CrmAssumption DEF Never
  <1>1. scored \in [Accounts -> 1 .. (MaxScores + 1)] /\ NoneYet \in Counts
    BY <1>0 DEF CrmInit, NoneYet, Counts
  <1>2. \A r \in Syncs : sync[r] = [pc |-> "new", left |-> <<>>, loaded |-> scored, status |-> "pending",
                              error |-> "none", total |-> 0, results |-> NoneYet]
    BY DEF CrmInit
  <1>3. \A r \in Syncs : \A c : ~ Holds(r, c)
    BY <1>2 DEF Holds
  <1>4. IsFiniteSet({}) /\ Cardinality({}) = 0
    BY FS_EmptySet
  <1>5. CrmTypeInv
    <2>1. \A r \in Syncs : sync[r] \in SyncType
      <3>1. <<>> \in Seq(Accounts) /\ 0 \in Nat
        OBVIOUS
      <3>2. ASSUME NEW r \in Syncs PROVE sync[r] \in SyncType
        <4>1. sync[r] = [pc |-> "new", left |-> <<>>, loaded |-> scored, status |-> "pending",
                         error |-> "none", total |-> 0, results |-> NoneYet]
          BY <1>2
        <4>2. [pc |-> "new", left |-> <<>>, loaded |-> scored, status |-> "pending",
                         error |-> "none", total |-> 0, results |-> NoneYet] \in SyncType
          BY <1>1, <3>1 DEF SyncType
        <4>3. QED
          BY <4>1, <4>2
      <3>3. QED
        BY <3>2
    <2>2. sync \in [Syncs -> SyncType]
      BY <2>1 DEF CrmInit
    <2>3. QED
      BY <1>0, <1>1, <1>4, <2>2 DEF CrmInit, CrmTypeInv
  <1>6. \A r \in Syncs : \A st : RowsOf(r, st) = {} /\ Unknown(r) = {}
    BY DEF CrmInit, RowsOf, Unknown
  <1>7. CountsInv
    <2> SUFFICES ASSUME NEW r \in Syncs PROVE CountsInv!(r)
      BY DEF CountsInv
    <2>1. sync[r].pc = "new" /\ sync[r].results = NoneYet
      BY <1>2
    <2>2. NoneYet.success = 0 /\ NoneYet.failed = 0 /\ NoneYet.skipped = 0
      BY DEF NoneYet
    <2>3. QED
      BY <1>4, <1>6, <2>1, <2>2
  <1>8. ListInv
    BY <1>2 DEF ListInv
  <1>9. AheadInv /\ NewestInv /\ PushesLogged /\ CrmShowsNewest
    <2>1. \A r \in Syncs, c \in Accounts : sync[r].loaded[c] = scored[c] /\ scored[c] \in Int
      BY <1>1, <1>2
    <2>2. QED
      BY <1>3, <2>1 DEF CrmInit, AheadInv, NewestInv, PushesLogged, CrmShowsNewest
  <1>10. QED
    BY <1>5, <1>7, <1>8, <1>9 DEF CrmInv

LEMMA CrmStart ==
  ASSUME CrmInv, NEW r \in Syncs, StartSync(r)
  PROVE  CrmInv'
  <1>0. PICK C \in {Accounts} \union {{c} : c \in Accounts} : \E order \in Orders(C) :
          /\ sync' = [sync EXCEPT ![r].pc = IF C = {} THEN "done" ELSE "flush", ![r].left = order,
                                  ![r].total = Len(order), ![r].loaded = Loaded(r, C)]
          /\ met' = met \union {c \in C : \E q \in Syncs \ {r} : Holds(q, c)}
    BY DEF StartSync
  <1>1. PICK order \in Orders(C) :
          /\ sync' = [sync EXCEPT ![r].pc = IF C = {} THEN "done" ELSE "flush", ![r].left = order,
                                  ![r].total = Len(order), ![r].loaded = Loaded(r, C)]
          /\ met' = met \union {c \in C : \E q \in Syncs \ {r} : Holds(q, c)}
    BY <1>0
  <1>2. C \in SUBSET Accounts
    OBVIOUS
  <1>3. /\ order \in Seq(Accounts) /\ Len(order) \in Nat
        /\ \A i, j \in DOMAIN order : order[i] = order[j] => i = j
        /\ \A i \in DOMAIN order : order[i] \in C
        /\ order = <<>> <=> C = {}
    BY <1>2, OrderType
  <1>4. sync[r] \in SyncType /\ sync[r].pc = "new" /\ UNCHANGED <<scored, crm, syncLogs, pushed, unlogged>>
    BY DEF StartSync, CrmInv, CrmTypeInv
  <1> DEFINE after == [sync[r] EXCEPT !.pc = IF C = {} THEN "done" ELSE "flush", !.left = order,
                                  !.total = Len(order), !.loaded = scored]
  <1>5. sync' = [sync EXCEPT ![r] = after]
    BY <1>1 DEF Loaded
  <1>6. after \in SyncType
    BY <1>3, <1>4 DEF SyncType, CrmInv, CrmTypeInv
  <1>7. /\ sync'[r] = after /\ \A q \in Syncs \ {r} : sync'[q] = sync[q]
        /\ after.pc = (IF C = {} THEN "done" ELSE "flush") /\ after.left = order /\ after.loaded = scored
        /\ after.total = Len(order) /\ after.results = sync[r].results
    BY <1>4, <1>5 DEF CrmInv, CrmTypeInv, SyncType
  <1> HIDE DEF after
  <1>8. CrmTypeInv'
    <2>1. met' \subseteq Accounts
      BY <1>1, <1>2 DEF CrmInv, CrmTypeInv
    <2>2. sync' \in [Syncs -> SyncType]
      BY <1>5, <1>6 DEF CrmInv, CrmTypeInv
    <2>3. QED
      BY <1>4, <2>1, <2>2 DEF CrmInv, CrmTypeInv
  <1>9. ListInv'
    <2> SUFFICES ASSUME NEW q \in Syncs PROVE ListInv!(q)'
      BY DEF ListInv
    <2>1. CASE q = r
      BY <1>3, <1>7, <2>1
    <2>2. CASE q # r
      BY <1>7, <2>2 DEF CrmInv, ListInv, Current
    <2>3. QED
      BY <2>1, <2>2
  <1>10. AheadInv'
    <2> SUFFICES ASSUME NEW q \in Syncs PROVE AheadInv!(q)'
      BY DEF AheadInv
    <2>1. CASE q = r
      BY <1>4, <1>7, <2>1 DEF CrmInv, AheadInv
    <2>2. CASE q # r
      BY <1>4, <1>7, <2>2 DEF CrmInv, AheadInv, Holds, Current, Fields
    <2>3. QED
      BY <2>1, <2>2
  <1>11. NewestInv'
    <2>1. \A c : Holds(r, c)' => c \in C
      BY <1>3, <1>7 DEF Holds
    <2>2. \A q \in Syncs \ {r} : \A c : Holds(q, c)' <=> Holds(q, c)
      BY <1>7 DEF Holds
    <2>3. ASSUME NEW q \in Syncs, NEW c \in Accounts, c \notin met', Holds(q, c)'
          PROVE  /\ \A v \in Syncs : Holds(v, c)' => v = q
                 /\ \A p \in pushed : p.who = c => p.score <= sync'[q].loaded[c]
      <3>1. CASE q = r
        BY <1>1, <1>7, <2>1, <2>2, <2>3, <3>1 DEF CrmInv, NewestInv
      <3>2. CASE q # r
        <4>1. Holds(q, c) /\ c \notin met
          BY <1>1, <2>2, <2>3, <3>2
        <4>2. ~ Holds(r, c)'
          BY <1>1, <2>1, <2>3, <3>2, <4>1
        <4>3. QED
          BY <1>7, <2>2, <3>2, <4>1, <4>2 DEF CrmInv, NewestInv
      <3>3. QED
        BY <3>1, <3>2
    <2>4. \A q \in Syncs, c \in Accounts : sync'[q].loaded[c] <= scored[c]
      <3>1. \A c \in Accounts : scored[c] <= scored[c]
        BY DEF CrmInv, CrmTypeInv
      <3>2. QED
        BY <1>7, <3>1 DEF CrmInv, NewestInv
    <2>5. QED
      BY <1>4, <2>3, <2>4 DEF CrmInv, NewestInv
  <1>12. CountsInv'
    <2>1. \A q \in Syncs : \A st : /\ RowsOf(q, st)' = RowsOf(q, st)
                                   /\ Unknown(q)' = Unknown(q)
      BY <1>4 DEF RowsOf, Unknown
    <2> SUFFICES ASSUME NEW q \in Syncs PROVE CountsInv!(q)'
      BY DEF CountsInv
    <2>2. CASE q = r
      <3>1. sync[r].results.success = 0 /\ sync[r].results.failed = 0 /\ sync[r].results.skipped = 0
        BY <1>4 DEF CrmInv, CountsInv, NoneYet
      <3>2. QED
        BY <1>3, <1>4, <1>7, <2>1, <2>2, <3>1 DEF CrmInv, CountsInv
    <2>3. CASE q # r
      BY <1>7, <2>1, <2>3 DEF CrmInv, CountsInv
    <2>4. QED
      BY <2>2, <2>3
  <1>13. PushesLogged'
    <2>1. \A p \in pushed : p.by \in Syncs /\ p.by # r
      BY <1>4 DEF CrmInv, AheadInv, CrmTypeInv
    <2>2. QED
      BY <1>4, <1>7, <2>1 DEF CrmInv, PushesLogged, Current
  <1>14. CrmShowsNewest'
    BY <1>1, <1>4 DEF CrmInv, CrmShowsNewest
  <1>15. QED
    BY <1>8, <1>9, <1>10, <1>11, <1>12, <1>13, <1>14 DEF CrmInv

\* A request goes on with the customer in hand and has pushed nothing.
LEMMA CrmGoesOn ==
  ASSUME CrmInv, NEW r \in Syncs, NEW after \in SyncType, sync' = [sync EXCEPT ![r] = after],
         UNCHANGED <<scored, crm, syncLogs, pushed, unlogged, met>>,
         after.left = sync[r].left, after.loaded = sync[r].loaded,
         after.total = sync[r].total, after.results = sync[r].results,
         sync[r].pc \in {"flush", "push"},
         \/ after.pc = "push" /\ Current(r) \in Linked
         \/ after.pc = "commit" /\ after.status = "failed"
              /\ (after.error = "refused" => Current(r) \in Linked)
  PROVE  CrmInv'
  <1>1. sync'[r] = after /\ \A q \in Syncs \ {r} : sync'[q] = sync[q]
    BY DEF CrmInv, CrmTypeInv
  <1>2. \A q \in Syncs : /\ sync'[q].left = sync[q].left /\ sync'[q].loaded = sync[q].loaded
                         /\ Current(q)' = Current(q) /\ Fields(q)' = Fields(q)
                         /\ \A c : Holds(q, c)' <=> Holds(q, c)
    BY <1>1 DEF Current, Fields, Holds
  <1>3. CrmTypeInv'
    <2>1. sync' \in [Syncs -> SyncType]
      BY DEF CrmInv, CrmTypeInv
    <2>2. QED
      BY <2>1 DEF CrmInv, CrmTypeInv
  <1>4. ListInv'
    <2> SUFFICES ASSUME NEW q \in Syncs PROVE ListInv!(q)'
      BY DEF ListInv
    <2>1. CASE q = r
      BY <1>1, <1>2, <2>1 DEF CrmInv, ListInv
    <2>2. CASE q # r
      BY <1>1, <1>2, <2>2 DEF CrmInv, ListInv
    <2>3. QED
      BY <2>1, <2>2
  <1>5. AheadInv'
    <2> SUFFICES ASSUME NEW q \in Syncs PROVE AheadInv!(q)'
      BY DEF AheadInv
    <2>1. CASE q = r
      BY <1>1, <1>2, <2>1 DEF CrmInv, AheadInv
    <2>2. CASE q # r
      BY <1>1, <1>2, <2>2 DEF CrmInv, AheadInv
    <2>3. QED
      BY <2>1, <2>2
  <1>6. NewestInv'
    BY <1>2 DEF CrmInv, NewestInv
  <1>7. CountsInv'
    <2>1. \A q \in Syncs : \A st : /\ RowsOf(q, st)' = RowsOf(q, st)
                                   /\ Unknown(q)' = Unknown(q)
      BY DEF RowsOf, Unknown
    <2> SUFFICES ASSUME NEW q \in Syncs PROVE CountsInv!(q)'
      BY DEF CountsInv
    <2>2. CASE q = r
      BY <1>1, <2>1, <2>2 DEF CrmInv, CountsInv
    <2>3. CASE q # r
      BY <1>1, <2>1, <2>3 DEF CrmInv, CountsInv
    <2>4. QED
      BY <2>2, <2>3
  <1>8. PushesLogged'
    <2> SUFFICES ASSUME NEW p \in pushed PROVE PushesLogged!(p)'
      BY DEF PushesLogged
    <2>1. p.by \in Syncs
      BY DEF CrmInv, CrmTypeInv
    <2>2. QED
      BY <1>1, <1>2, <2>1 DEF CrmInv, PushesLogged
  <1>9. CrmShowsNewest'
    BY DEF CrmInv, CrmShowsNewest
  <1>10. QED
    BY <1>3, <1>4, <1>5, <1>6, <1>7, <1>8, <1>9 DEF CrmInv

LEMMA CrmFlush ==
  ASSUME CrmInv, NEW r \in Syncs, FlushLog(r)
  PROVE  CrmInv'
  <1>1. /\ sync[r] \in SyncType /\ sync[r].pc = "flush"
        /\ UNCHANGED <<scored, crm, syncLogs, pushed, unlogged, met>>
    BY DEF FlushLog, Flush, CrmInv, CrmTypeInv
  <1>2. CASE Current(r) \in Linked
    <2> DEFINE after == [sync[r] EXCEPT !.pc = "push"]
    <2>1. sync' = [sync EXCEPT ![r] = after]
      BY <1>2 DEF FlushLog
    <2>2. after \in SyncType
      BY <1>1 DEF SyncType
    <2>3. /\ after.left = sync[r].left /\ after.loaded = sync[r].loaded
          /\ after.total = sync[r].total /\ after.results = sync[r].results /\ after.pc = "push"
      BY <1>1 DEF SyncType
    <2> HIDE DEF after
    <2>4. QED
      BY <1>1, <1>2, <2>1, <2>2, <2>3, CrmGoesOn
  <1>3. CASE Current(r) \notin Linked
    <2> DEFINE after == [sync[r] EXCEPT !.pc = "commit", !.status = "failed", !.error = "No id"]
    <2>1. sync' = [sync EXCEPT ![r] = after]
      BY <1>3 DEF FlushLog
    <2>2. after \in SyncType
      BY <1>1 DEF SyncType
    <2>3. /\ after.left = sync[r].left /\ after.loaded = sync[r].loaded
          /\ after.total = sync[r].total /\ after.results = sync[r].results
          /\ after.pc = "commit" /\ after.status = "failed" /\ after.error = "No id"
      BY <1>1 DEF SyncType
    <2> HIDE DEF after
    <2>4. QED
      BY <1>1, <2>1, <2>2, <2>3, CrmGoesOn
  <1>4. QED
    BY <1>2, <1>3

LEMMA CrmPushFails ==
  ASSUME CrmInv, NEW r \in Syncs, PushFails(r)
  PROVE  CrmInv'
  <1>1. /\ sync[r] \in SyncType /\ sync[r].pc = "push" /\ Current(r) \in Linked
        /\ UNCHANGED <<scored, crm, syncLogs, pushed, unlogged, met>>
    BY DEF PushFails, CrmInv, CrmTypeInv, ListInv
  <1>2. PICK error \in {"No such object", "refused"} :
          sync' = [sync EXCEPT ![r].pc = "commit", ![r].status = "failed", ![r].error = error]
    BY DEF PushFails
  <1> DEFINE after == [sync[r] EXCEPT !.pc = "commit", !.status = "failed", !.error = error]
  <1>3. sync' = [sync EXCEPT ![r] = after]
    BY <1>2
  <1>4. after \in SyncType
    BY <1>1 DEF SyncType
  <1>5. /\ after.left = sync[r].left /\ after.loaded = sync[r].loaded
        /\ after.total = sync[r].total /\ after.results = sync[r].results
        /\ after.pc = "commit" /\ after.status = "failed"
    BY <1>1 DEF SyncType
  <1> HIDE DEF after
  <1>6. QED
    BY <1>1, <1>3, <1>4, <1>5, CrmGoesOn

LEMMA CrmPush ==
  ASSUME CrmInv, NEW r \in Syncs, Push(r)
  PROVE  CrmInv'
  <1> DEFINE c == Current(r)
             p0 == [who |-> c, by |-> r, score |-> Fields(r)]
             after == [sync[r] EXCEPT !.pc = "commit", !.status = "success", !.error = "none"]
  <1>1. /\ sync[r] \in SyncType /\ sync[r].pc = "push" /\ c \in Linked
        /\ UNCHANGED <<scored, syncLogs, unlogged, met>>
        /\ crm' = [crm EXCEPT ![c] = Fields(r)]
        /\ pushed' = pushed \union {p0}
        /\ sync' = [sync EXCEPT ![r] = after]
    BY DEF Push, CrmInv, CrmTypeInv, ListInv
  <1>2. c \in Accounts /\ Holds(r, c) /\ Fields(r) \in 1 .. (MaxScores + 1)
        /\ Fields(r) = sync[r].loaded[c]
    <2>1. sync[r].left # <<>> /\ sync[r].left \in Seq(Accounts)
      BY <1>1 DEF CrmInv, ListInv, SyncType
    <2>2. c \in Accounts /\ Holds(r, c)
      BY <1>1, <2>1, TailHolds DEF CrmInv, ListInv, Current, Holds
    <2>3. QED
      BY <1>1, <2>2 DEF Fields, SyncType
  <1>3. /\ after.left = sync[r].left /\ after.loaded = sync[r].loaded
        /\ after.total = sync[r].total /\ after.results = sync[r].results
        /\ after.pc = "commit" /\ after.status = "success" /\ after \in SyncType
    BY <1>1 DEF SyncType
  <1> HIDE DEF after
  <1>4. sync'[r] = after /\ \A q \in Syncs \ {r} : sync'[q] = sync[q]
    BY <1>1 DEF CrmInv, CrmTypeInv
  <1>5. \A q \in Syncs : /\ sync'[q].left = sync[q].left /\ sync'[q].loaded = sync[q].loaded
                         /\ Current(q)' = Current(q) /\ Fields(q)' = Fields(q)
                         /\ \A a : Holds(q, a)' <=> Holds(q, a)
    BY <1>3, <1>4 DEF Current, Fields, Holds
  <1>6. p0.who = c /\ p0.by = r /\ p0.score = Fields(r)
    OBVIOUS
  <1>7. CrmTypeInv'
    <2>1. sync' \in [Syncs -> SyncType]
      BY <1>1, <1>3 DEF CrmInv, CrmTypeInv
    <2>2. p0 \in [who : Accounts, by : Syncs, score : 1 .. (MaxScores + 1)]
      BY <1>2
    <2>3. Fields(r) \in Never .. (MaxScores + 1)
      BY <1>2 DEF Never
    <2>4. crm' \in [Accounts -> Never .. (MaxScores + 1)]
      BY <1>1, <2>3 DEF CrmInv, CrmTypeInv
    <2>5. pushed' \subseteq [who : Accounts, by : Syncs, score : 1 .. (MaxScores + 1)]
      <3> HIDE DEF p0
      <3> QED
        BY <1>1, <2>2 DEF CrmInv, CrmTypeInv
    <2>6. QED
      BY <1>1, <2>1, <2>4, <2>5 DEF CrmInv, CrmTypeInv
  <1> HIDE DEF p0
  <1>8. ListInv'
    <2> SUFFICES ASSUME NEW q \in Syncs PROVE ListInv!(q)'
      BY DEF ListInv
    <2>1. CASE q = r
      BY <1>1, <1>3, <1>4, <1>5, <2>1 DEF CrmInv, ListInv
    <2>2. CASE q # r
      BY <1>4, <1>5, <2>2 DEF CrmInv, ListInv
    <2>3. QED
      BY <2>1, <2>2
  <1>9. AheadInv'
    <2> SUFFICES ASSUME NEW q \in Syncs PROVE AheadInv!(q)'
      BY DEF AheadInv
    <2>1. CASE q = r
      BY <1>1, <1>3, <1>4, <1>5, <1>6, <2>1 DEF CrmInv, AheadInv
    <2>2. CASE q # r
      BY <1>1, <1>4, <1>5, <1>6, <2>2 DEF CrmInv, AheadInv
    <2>3. QED
      BY <2>1, <2>2
  <1>10. NewestInv'
    <2>1. Fields(r) <= scored[c]
      BY <1>1, <1>2 DEF CrmInv, NewestInv
    <2>2. \A p \in pushed' : p.score <= scored'[p.who]
      BY <1>1, <1>6, <2>1 DEF CrmInv, NewestInv
    <2>3. ASSUME NEW q \in Syncs, NEW a \in Accounts, a \notin met', Holds(q, a)'
          PROVE  /\ \A v \in Syncs : Holds(v, a)' => v = q
                 /\ \A p \in pushed' : p.who = a => p.score <= sync'[q].loaded[a]
      <3>1. a \notin met /\ Holds(q, a)
        BY <1>1, <1>5, <2>3
      <3>2. a = c => q = r
        BY <1>2, <3>1 DEF CrmInv, NewestInv
      <3>3. a = c => p0.score <= sync[q].loaded[a]
        <4>1. sync[r].loaded[c] \in Int
          BY <1>2
        <4>2. QED
          BY <1>2, <1>6, <3>2, <4>1
      <3>4. QED
        BY <1>1, <1>5, <1>6, <3>1, <3>3 DEF CrmInv, NewestInv
    <2>4. \A q \in Syncs, a \in Accounts : sync'[q].loaded[a] <= scored'[a]
      BY <1>1, <1>5 DEF CrmInv, NewestInv
    <2>5. QED
      BY <2>2, <2>3, <2>4 DEF NewestInv
  <1>11. CountsInv'
    <2>1. \A q \in Syncs : \A st : /\ RowsOf(q, st)' = RowsOf(q, st)
                                   /\ Unknown(q)' = Unknown(q)
      BY <1>1 DEF RowsOf, Unknown
    <2> SUFFICES ASSUME NEW q \in Syncs PROVE CountsInv!(q)'
      BY DEF CountsInv
    <2>2. CASE q = r
      BY <1>1, <1>3, <1>4, <2>1, <2>2 DEF CrmInv, CountsInv
    <2>3. CASE q # r
      BY <1>4, <2>1, <2>3 DEF CrmInv, CountsInv
    <2>4. QED
      BY <2>2, <2>3
  <1>12. PushesLogged'
    <2> SUFFICES ASSUME NEW p \in pushed' PROVE PushesLogged!(p)'
      BY DEF PushesLogged
    <2>1. CASE p = p0
      BY <1>3, <1>4, <1>5, <1>6, <2>1
    <2>2. CASE p \in pushed
      <3>1. p.by \in Syncs
        BY <2>2 DEF CrmInv, CrmTypeInv
      <3>2. QED
        BY <1>1, <1>4, <1>5, <2>2, <3>1 DEF CrmInv, PushesLogged
    <2>3. QED
      BY <1>1, <2>1, <2>2
  <1>13. CrmShowsNewest'
    <2> SUFFICES ASSUME NEW p \in pushed', p.who \notin met PROVE crm'[p.who] >= p.score
      BY <1>1 DEF CrmShowsNewest
    <2>1. p.who \in Accounts /\ p.score \in Int
      BY <1>7 DEF CrmTypeInv
    <2>2. CASE p.who = c
      <3>1. crm'[c] = sync[r].loaded[c] /\ crm'[c] \in Int
        BY <1>1, <1>2 DEF CrmInv, CrmTypeInv
      <3>2. p.score <= sync[r].loaded[c]
        BY <1>1, <1>2, <1>6, <2>1, <2>2, <3>1 DEF CrmInv, NewestInv
      <3>3. QED
        BY <2>1, <2>2, <3>1, <3>2
    <2>3. CASE p.who # c
      BY <1>1, <1>6, <2>1, <2>3 DEF CrmInv, CrmTypeInv, CrmShowsNewest
    <2>4. QED
      BY <2>2, <2>3
  <1>14. QED
    BY <1>7, <1>8, <1>9, <1>10, <1>11, <1>12, <1>13 DEF CrmInv

\* The row is committed, and the counts go with it.
LEMMA CrmCommit ==
  ASSUME CrmInv, NEW r \in Syncs, CommitLog(r)
  PROVE  CrmInv'
  <1> DEFINE c == Current(r)
             log == LogRow(r, sync[r].status, Logged(r))
             left == Tail(sync[r].left)
             pc == IF Len(sync[r].left) = 1 THEN "done" ELSE "flush"
             after == [sync[r] EXCEPT !.results = Tally(r), !.left = left, !.pc = pc]
  <1>1. /\ sync[r] \in SyncType /\ sync[r].pc = "commit"
        /\ UNCHANGED <<scored, crm, pushed, unlogged, met>>
        /\ syncLogs' = syncLogs \union {log}
        /\ sync' = [sync EXCEPT ![r] = after]
    BY DEF CommitLog, CrmInv, CrmTypeInv
  <1>2. /\ sync[r].left # <<>> /\ sync[r].left \in Seq(Accounts)
        /\ \A i, j \in DOMAIN sync[r].left : sync[r].left[i] = sync[r].left[j] => i = j
    BY <1>1 DEF CrmInv, ListInv, SyncType
  <1>3. /\ left \in Seq(Accounts) /\ c \in Accounts
        /\ Len(left) = Len(sync[r].left) - 1 /\ Len(sync[r].left) \in Nat /\ Len(left) \in Nat
        /\ \A i, j \in DOMAIN left : left[i] = left[j] => i = j
        /\ (pc = "done" /\ left = <<>>) \/ (pc = "flush" /\ left # <<>>)
        /\ Holds(r, c)
    <2>1. Len(sync[r].left) \in Nat
      BY <1>2
    <2>2. /\ left \in Seq(Accounts) /\ c \in Accounts /\ Len(left) = Len(sync[r].left) - 1
          /\ Len(sync[r].left) = 1 <=> left = <<>>
          /\ \A i, j \in DOMAIN left : left[i] = left[j] => i = j
          /\ Holds(r, c)
      BY <1>2, TailHolds DEF Current, Holds
    <2>3. Len(left) \in Nat
      BY <2>2
    <2>4. QED
      BY <2>1, <2>2, <2>3
  <1>4. \A a : a \in {left[i] : i \in DOMAIN left} <=> Holds(r, a) /\ a # c
    BY <1>2, TailHolds DEF Current, Holds
  <1>5. sync[r].results \in Counts /\ sync[r].status \in {"success", "failed"}
    BY <1>1 DEF SyncType, CrmInv, ListInv
  <1>6. /\ log.who = c /\ log.by = r /\ log.status = sync[r].status
        /\ log.score = Logged(r)
    BY DEF LogRow
  <1>7. /\ Tally(r) \in Counts
        /\ Tally(r).success = sync[r].results.success + (IF log.status = "success" THEN 1 ELSE 0)
        /\ Tally(r).failed + Tally(r).skipped
             = sync[r].results.failed + sync[r].results.skipped + (IF log.status = "failed" THEN 1 ELSE 0)
        /\ Tally(r).success + Tally(r).failed + Tally(r).skipped
             = sync[r].results.success + sync[r].results.failed + sync[r].results.skipped + 1
        /\ Tally(r).skipped >= sync[r].results.skipped
        /\ log.status = "failed" /\ c \notin Linked => Tally(r).skipped = sync[r].results.skipped + 1
    <2>1. CASE sync[r].status = "success"
      <3>1. Tally(r) = [sync[r].results EXCEPT !.success = @ + 1]
        BY <2>1 DEF Tally
      <3>2. QED
        BY <1>5, <1>6, <2>1, <3>1 DEF Counts
    <2>2. CASE sync[r].status = "failed" /\ sync[r].error = "refused"
      <3>1. Tally(r) = [sync[r].results EXCEPT !.failed = @ + 1]
        BY <2>2 DEF Tally
      <3>2. c \in Linked
        BY <1>1, <2>2 DEF CrmInv, ListInv
      <3>3. QED
        BY <1>5, <1>6, <2>2, <3>1, <3>2 DEF Counts
    <2>3. CASE sync[r].status = "failed" /\ sync[r].error # "refused"
      <3>1. Tally(r) = [sync[r].results EXCEPT !.skipped = @ + 1]
        BY <2>3 DEF Tally
      <3>2. QED
        BY <1>5, <1>6, <2>3, <3>1 DEF Counts
    <2>4. QED
      BY <1>5, <2>1, <2>2, <2>3
  <1> HIDE DEF log, left, pc
  <1>8. /\ after.left = left /\ after.loaded = sync[r].loaded /\ after.total = sync[r].total
        /\ after.results = Tally(r) /\ after.pc = pc /\ after \in SyncType
    BY <1>1, <1>3, <1>7 DEF SyncType
  <1> HIDE DEF after
  <1>9. sync'[r] = after /\ \A q \in Syncs \ {r} : sync'[q] = sync[q]
    BY <1>1 DEF CrmInv, CrmTypeInv
  <1>10. /\ \A a : Holds(r, a)' <=> Holds(r, a) /\ a # c
         /\ \A q \in Syncs \ {r} : \A a : Holds(q, a)' <=> Holds(q, a)
         /\ \A q \in Syncs \ {r} : Current(q)' = Current(q) /\ Fields(q)' = Fields(q)
    BY <1>4, <1>8, <1>9 DEF Holds, Current, Fields
  <1>11. CrmTypeInv'
    <2>1. sync' \in [Syncs -> SyncType]
      BY <1>1, <1>8 DEF CrmInv, CrmTypeInv
    <2>2. Fields(r) \in 1 .. (MaxScores + 1)
      BY <1>1, <1>3 DEF Fields, SyncType
    <2>3. Logged(r) \in Never .. (MaxScores + 1)
      BY <2>2, CrmAssumption DEF Logged, Never
    <2>4. log \in [who : Accounts, by : Syncs, status : {"success", "failed"},
                   score : Never .. (MaxScores + 1)]
      BY <1>3, <1>5, <2>3 DEF log, LogRow
    <2>5. IsFiniteSet(syncLogs')
      BY <1>1, FS_AddElement DEF CrmInv, CrmTypeInv
    <2>6. syncLogs' \subseteq [who : Accounts, by : Syncs, status : {"success", "failed"},
                              score : Never .. (MaxScores + 1)]
      BY <1>1, <2>4 DEF CrmInv, CrmTypeInv
    <2>7. QED
      BY <1>1, <2>1, <2>5, <2>6 DEF CrmInv, CrmTypeInv
  <1>12. ListInv'
    <2> SUFFICES ASSUME NEW q \in Syncs PROVE ListInv!(q)'
      BY DEF ListInv
    <2>1. CASE q = r
      BY <1>3, <1>8, <1>9, <2>1
    <2>2. CASE q # r
      BY <1>9, <1>10, <2>2 DEF CrmInv, ListInv
    <2>3. QED
      BY <2>1, <2>2
  <1>13. AheadInv'
    <2> SUFFICES ASSUME NEW q \in Syncs PROVE AheadInv!(q)'
      BY DEF AheadInv
    <2>1. CASE q = r
      <3>1. sync'[r].pc # "new"
        BY <1>3, <1>8, <1>9
      <3>2. \A row \in syncLogs' : row.by = r => ~ Holds(r, row.who)'
        BY <1>1, <1>6, <1>10 DEF CrmInv, AheadInv
      <3>3. \A p \in pushed : p.by = r => ~ Holds(r, p.who)'
        BY <1>10 DEF CrmInv, AheadInv
      <3>4. QED
        BY <1>1, <2>1, <3>1, <3>2, <3>3
    <2>2. CASE q # r
      BY <1>1, <1>6, <1>9, <1>10, <2>2 DEF CrmInv, AheadInv
    <2>3. QED
      BY <2>1, <2>2
  <1>14. NewestInv'
    <2>1. \A q \in Syncs : \A a : Holds(q, a)' => Holds(q, a)
      BY <1>10
    <2>2. \A q \in Syncs : sync'[q].loaded = sync[q].loaded
      BY <1>8, <1>9
    <2>3. QED
      BY <1>1, <2>1, <2>2 DEF CrmInv, NewestInv
  <1>15. CountsInv'
    <2>1. \A q \in Syncs \ {r} : \A st : RowsOf(q, st)' = RowsOf(q, st) /\ Unknown(q)' = Unknown(q)
      BY <1>1, <1>6 DEF RowsOf, Unknown
    <2>2. log \notin syncLogs
      BY <1>3, <1>6 DEF CrmInv, AheadInv
    <2>3. \A st : RowsOf(r, st)' = IF log.status = st THEN RowsOf(r, st) \union {log} ELSE RowsOf(r, st)
      BY <1>1, <1>6 DEF RowsOf
    <2>4. Unknown(r)' = IF log.status = "failed" /\ c \notin Linked
                        THEN Unknown(r) \union {log} ELSE Unknown(r)
      BY <1>6, <2>3 DEF Unknown
    <2>5. /\ \A st : /\ IsFiniteSet(RowsOf(r, st)) /\ log \notin RowsOf(r, st)
                     /\ Cardinality(RowsOf(r, st)) \in Nat
          /\ IsFiniteSet(Unknown(r)) /\ log \notin Unknown(r) /\ Cardinality(Unknown(r)) \in Nat
      <3>1. \A st : RowsOf(r, st) \subseteq syncLogs /\ Unknown(r) \subseteq syncLogs
        BY DEF RowsOf, Unknown
      <3>2. IsFiniteSet(syncLogs)
        BY DEF CrmInv, CrmTypeInv
      <3>3. \A st : IsFiniteSet(RowsOf(r, st)) /\ IsFiniteSet(Unknown(r))
        BY <3>1, <3>2, FS_Subset
      <3>4. QED
        BY <2>2, <3>1, <3>3, FS_CardinalityType
    <2>6. \A st : Cardinality(RowsOf(r, st)') = Cardinality(RowsOf(r, st)) + (IF log.status = st THEN 1 ELSE 0)
      BY <2>3, <2>5, FS_AddElement
    <2>7. Cardinality(Unknown(r)')
            = Cardinality(Unknown(r)) + (IF log.status = "failed" /\ c \notin Linked THEN 1 ELSE 0)
      BY <2>4, <2>5, FS_AddElement
    <2> SUFFICES ASSUME NEW q \in Syncs PROVE CountsInv!(q)'
      BY DEF CountsInv
    <2>8. CASE q # r
      BY <1>9, <2>1, <2>8 DEF CrmInv, CountsInv
    <2>9. CASE q = r
      <3>1. sync'[r].results = Tally(r) /\ sync'[r].pc # "new" /\ sync'[r].left = left
            /\ sync'[r].total = sync[r].total
        BY <1>3, <1>8, <1>9
      <3>2. /\ sync[r].results.success = Cardinality(RowsOf(r, "success"))
            /\ sync[r].results.failed + sync[r].results.skipped = Cardinality(RowsOf(r, "failed"))
            /\ sync[r].results.skipped >= Cardinality(Unknown(r))
            /\ sync[r].results.success + sync[r].results.failed + sync[r].results.skipped
                 + Len(sync[r].left) = sync[r].total
        BY <1>1 DEF CrmInv, CountsInv
      <3>3. /\ sync[r].results.success \in Nat /\ sync[r].results.failed \in Nat
            /\ sync[r].results.skipped \in Nat /\ Tally(r).success \in Nat
            /\ Tally(r).failed \in Nat /\ Tally(r).skipped \in Nat /\ log.status \in {"success", "failed"}
        BY <1>5, <1>6, <1>7 DEF Counts
      <3>4. Tally(r).success = Cardinality(RowsOf(r, "success")')
        BY <1>7, <2>6, <3>2, <3>3
      <3>5. Tally(r).failed + Tally(r).skipped = Cardinality(RowsOf(r, "failed")')
        BY <1>7, <2>6, <3>2, <3>3
      <3>6. Tally(r).skipped >= Cardinality(Unknown(r)')
        <4>1. CASE log.status = "failed" /\ c \notin Linked
          BY <1>7, <2>5, <2>7, <3>2, <3>3, <4>1
        <4>2. CASE ~ (log.status = "failed" /\ c \notin Linked)
          BY <1>7, <2>5, <2>7, <3>2, <3>3, <4>2
        <4>3. QED
          BY <4>1, <4>2
      <3>7. Tally(r).success + Tally(r).failed + Tally(r).skipped + Len(left) = sync[r].total
        <4>1. Len(left) = Len(sync[r].left) - 1 /\ Len(sync[r].left) \in Nat /\ Len(left) \in Int
          BY <1>3
        <4>2. sync[r].total \in Nat
          BY DEF CrmInv, CrmTypeInv, SyncType
        <4>3. Tally(r).success + Tally(r).failed + Tally(r).skipped
                = sync[r].results.success + sync[r].results.failed + sync[r].results.skipped + 1
          BY <1>7
        <4>4. sync[r].results.success + sync[r].results.failed + sync[r].results.skipped \in Nat
          BY <3>3
        <4>5. sync[r].results.success + sync[r].results.failed + sync[r].results.skipped
                + Len(sync[r].left) = sync[r].total
          BY <3>2
        <4>6. (sync[r].results.success + sync[r].results.failed + sync[r].results.skipped + 1)
                + Len(left) = sync[r].total
          <5> DEFINE old == sync[r].results.success + sync[r].results.failed + sync[r].results.skipped
                     was == Len(sync[r].left)
                     rest == Len(left)
                     total == sync[r].total
          <5>1. old \in Nat /\ was \in Nat /\ total \in Nat /\ rest = was - 1 /\ old + was = total
            BY <4>1, <4>2, <4>4, <4>5
          <5> HIDE DEF old, was, rest, total
          <5>2. (old + 1) + rest = total
            BY <5>1
          <5>3. QED
            BY <5>2 DEF old, rest, total
        <4>7. QED
          BY <4>3, <4>6
      <3>8. QED
        BY <2>9, <3>1, <3>4, <3>5, <3>6, <3>7
    <2>10. QED
      BY <2>8, <2>9
  <1>16. PushesLogged'
    <2> SUFFICES ASSUME NEW p \in pushed PROVE PushesLogged!(p)'
      BY <1>1 DEF PushesLogged
    <2>1. p.by \in Syncs
      BY DEF CrmInv, CrmTypeInv
    <2>2. CASE p.by = r /\ c = p.who
      <3>1. sync[r].status = "success" /\ p.score = Fields(r)
        BY <1>3, <2>2 DEF CrmInv, AheadInv
      <3>2. log = [who |-> p.who, by |-> p.by, status |-> "success", score |-> p.score]
        BY <2>2, <3>1 DEF log, LogRow, Logged
      <3>3. QED
        BY <1>1, <3>2
    <2>3. CASE ~ (p.by = r /\ c = p.who)
      BY <1>1, <1>9, <1>10, <2>1, <2>3 DEF CrmInv, PushesLogged
    <2>4. QED
      BY <2>2, <2>3
  <1>17. CrmShowsNewest'
    BY <1>1 DEF CrmInv, CrmShowsNewest
  <1>18. QED
    BY <1>11, <1>12, <1>13, <1>14, <1>15, <1>16, <1>17 DEF CrmInv

LEMMA CrmKill ==
  ASSUME CrmInv, NEW r \in Syncs, KillSync(r)
  PROVE  CrmInv'
  <1> DEFINE after == [sync[r] EXCEPT !.pc = "dead", !.left = <<>>]
  <1>1. /\ sync[r] \in SyncType
        /\ UNCHANGED <<scored, crm, syncLogs, pushed, met>>
        /\ sync' = [sync EXCEPT ![r] = after]
        /\ unlogged' = unlogged \union
             {p \in pushed : p.by = r /\ p.who = Current(r) /\ sync[r].pc = "commit"}
    BY DEF KillSync, CrmInv, CrmTypeInv
  <1>2. <<>> \in Seq(Accounts)
    OBVIOUS
  <1>3. /\ after.left = <<>> /\ after.loaded = sync[r].loaded /\ after.pc = "dead"
        /\ after.results = sync[r].results /\ after \in SyncType
    BY <1>1, <1>2 DEF SyncType
  <1> HIDE DEF after
  <1>4. sync'[r] = after /\ \A q \in Syncs \ {r} : sync'[q] = sync[q]
    BY <1>1 DEF CrmInv, CrmTypeInv
  <1>5. /\ \A a : ~ Holds(r, a)'
        /\ \A q \in Syncs \ {r} : \A a : Holds(q, a)' <=> Holds(q, a)
        /\ \A q \in Syncs \ {r} : Current(q)' = Current(q) /\ Fields(q)' = Fields(q)
    BY <1>3, <1>4 DEF Holds, Current, Fields
  <1>6. CrmTypeInv'
    <2>1. sync' \in [Syncs -> SyncType]
      BY <1>1, <1>3 DEF CrmInv, CrmTypeInv
    <2>2. QED
      BY <1>1, <2>1 DEF CrmInv, CrmTypeInv
  <1>7. ListInv'
    <2> SUFFICES ASSUME NEW q \in Syncs PROVE ListInv!(q)'
      BY DEF ListInv
    <2>1. CASE q = r
      BY <1>3, <1>4, <2>1
    <2>2. CASE q # r
      BY <1>4, <1>5, <2>2 DEF CrmInv, ListInv
    <2>3. QED
      BY <2>1, <2>2
  <1>8. AheadInv'
    <2> SUFFICES ASSUME NEW q \in Syncs PROVE AheadInv!(q)'
      BY DEF AheadInv
    <2>1. CASE q = r
      BY <1>3, <1>4, <1>5, <2>1
    <2>2. CASE q # r
      BY <1>1, <1>4, <1>5, <2>2 DEF CrmInv, AheadInv
    <2>3. QED
      BY <2>1, <2>2
  <1>9. NewestInv'
    <2>1. \A q \in Syncs : \A a : Holds(q, a)' => Holds(q, a)
      BY <1>5
    <2>2. \A q \in Syncs : sync'[q].loaded = sync[q].loaded
      BY <1>3, <1>4
    <2>3. QED
      BY <1>1, <2>1, <2>2 DEF CrmInv, NewestInv
  <1>10. CountsInv'
    <2>1. \A q \in Syncs : \A st : RowsOf(q, st)' = RowsOf(q, st) /\ Unknown(q)' = Unknown(q)
      BY <1>1 DEF RowsOf, Unknown
    <2> SUFFICES ASSUME NEW q \in Syncs PROVE CountsInv!(q)'
      BY DEF CountsInv
    <2>2. CASE q = r
      BY <1>3, <1>4, <2>1, <2>2 DEF CrmInv, CountsInv
    <2>3. CASE q # r
      BY <1>4, <2>1, <2>3 DEF CrmInv, CountsInv
    <2>4. QED
      BY <2>2, <2>3
  <1>11. PushesLogged'
    <2> SUFFICES ASSUME NEW p \in pushed PROVE PushesLogged!(p)'
      BY <1>1 DEF PushesLogged
    <2>1. p.by \in Syncs
      BY DEF CrmInv, CrmTypeInv
    <2>2. QED
      BY <1>1, <1>4, <1>5, <2>1 DEF CrmInv, PushesLogged
  <1>12. CrmShowsNewest'
    BY <1>1 DEF CrmInv, CrmShowsNewest
  <1>13. QED
    BY <1>6, <1>7, <1>8, <1>9, <1>10, <1>11, <1>12 DEF CrmInv

LEMMA CrmScore ==
  ASSUME CrmInv, NEW c \in Accounts, ScoreAnew(c)
  PROVE  CrmInv'
  <1>1. /\ UNCHANGED <<crm, syncLogs, sync, pushed, unlogged, met>>
        /\ scored[c] <= MaxScores /\ scored' = [scored EXCEPT ![c] = @ + 1]
        /\ scored \in [Accounts -> 1 .. (MaxScores + 1)]
    BY DEF ScoreAnew, CrmInv, CrmTypeInv
  <1>2. scored' \in [Accounts -> 1 .. (MaxScores + 1)]
    <2>1. scored[c] + 1 \in 1 .. (MaxScores + 1)
      BY <1>1, CrmAssumption
    <2>2. QED
      BY <1>1, <2>1
  <1>3. \A a \in Accounts : scored[a] \in Int /\ scored'[a] \in Int /\ scored[a] <= scored'[a]
    BY <1>1, CrmAssumption
  <1>4. \A p \in pushed : p.who \in Accounts /\ p.score \in Int
    BY DEF CrmInv, CrmTypeInv
  <1>5. NewestInv'
    <2>1. \A p \in pushed' : p.score <= scored'[p.who]
      BY <1>1, <1>3, <1>4 DEF CrmInv, NewestInv
    <2>2. \A r \in Syncs, a \in Accounts : sync[r].loaded[a] <= scored'[a]
      <3>1. \A r \in Syncs, a \in Accounts : sync[r].loaded[a] \in Int
        <4> SUFFICES ASSUME NEW r \in Syncs, NEW a \in Accounts PROVE sync[r].loaded[a] \in Int
          OBVIOUS
        <4>1. sync[r].loaded \in [Accounts -> 1 .. (MaxScores + 1)]
          BY DEF CrmInv, CrmTypeInv, SyncType
        <4>2. QED
          BY <4>1, CrmAssumption
      <3>2. \A r \in Syncs, a \in Accounts : sync[r].loaded[a] <= scored[a]
        BY DEF CrmInv, NewestInv
      <3> SUFFICES ASSUME NEW r \in Syncs, NEW a \in Accounts PROVE sync[r].loaded[a] <= scored'[a]
        OBVIOUS
      <3>3. /\ sync[r].loaded[a] \in Int /\ scored[a] \in Int /\ scored'[a] \in Int
            /\ sync[r].loaded[a] <= scored[a] /\ scored[a] <= scored'[a]
        BY <1>3, <3>1, <3>2
      <3>4. QED
        BY <3>3
    <2>3. QED
      BY <1>1, <2>1, <2>2 DEF CrmInv, NewestInv, Holds
  <1>6. CrmTypeInv' /\ ListInv' /\ AheadInv'
    BY <1>1, <1>2 DEF CrmInv, CrmTypeInv, ListInv, AheadInv, Current, Fields, Holds
  <1>7. CountsInv' /\ PushesLogged' /\ CrmShowsNewest'
    BY <1>1 DEF CrmInv, CountsInv, RowsOf, Unknown, PushesLogged, CrmShowsNewest, Current
  <1>8. QED
    BY <1>5, <1>6, <1>7 DEF CrmInv

LEMMA CrmUnchanged == CrmInv /\ UNCHANGED crmVars => CrmInv'
  <1> SUFFICES ASSUME CrmInv, UNCHANGED crmVars PROVE CrmInv'
    OBVIOUS
  <1>1. UNCHANGED <<scored, crm, syncLogs, sync, pushed, unlogged, met>>
    BY DEF crmVars
  <1>2. CrmTypeInv' /\ ListInv' /\ AheadInv' /\ NewestInv'
    BY <1>1 DEF CrmInv, CrmTypeInv, ListInv, AheadInv, NewestInv, Current, Fields, Holds
  <1>3. CountsInv' /\ PushesLogged' /\ CrmShowsNewest'
    BY <1>1 DEF CrmInv, CountsInv, RowsOf, Unknown, PushesLogged, CrmShowsNewest, Current
  <1>4. QED
    BY <1>2, <1>3 DEF CrmInv

LEMMA CrmStep == CrmInv /\ [CrmNext]_crmVars => CrmInv'
  BY CrmStart, CrmFlush, CrmPush, CrmPushFails, CrmCommit, CrmKill, CrmScore, CrmUnchanged
     DEF CrmNext

LEMMA CrmMeans == CrmInv => SyncsSound
  <1> SUFFICES ASSUME CrmInv PROVE SyncsSound
    OBVIOUS
  <1>1. CrmTypeOK
    BY DEF CrmInv, CrmTypeInv, CrmTypeOK, SyncType
  <1>2. NoLogStaysPending
    BY DEF CrmInv, CrmTypeInv, NoLogStaysPending
  <1>3. ResultsMatchLogs
    <2> SUFFICES ASSUME NEW r \in Syncs, sync[r].pc = "done"
                 PROVE  ResultsMatchLogs!(r)!2
      BY DEF ResultsMatchLogs
    <2>1. sync[r].left = <<>> /\ Len(sync[r].left) = 0
      BY DEF CrmInv, ListInv
    <2>2. sync[r].results \in Counts
      BY DEF CrmInv, CrmTypeInv, SyncType
    <2> DEFINE results == sync[r].results
    <2>3. /\ results.success = Cardinality(RowsOf(r, "success"))
          /\ results.failed + results.skipped = Cardinality(RowsOf(r, "failed"))
          /\ results.skipped >= Cardinality(Unknown(r))
          /\ results.success + results.failed + results.skipped + 0 = sync[r].total
      BY <2>1 DEF CrmInv, CountsInv
    <2>4. results.success + results.failed + results.skipped = sync[r].total
      BY <2>2, <2>3 DEF Counts
    <2>5. QED
      BY <2>3, <2>4 DEF RowsOf, Unknown
  <1>4. QED
    BY <1>1, <1>2, <1>3 DEF SyncsSound, CrmInv

\* Requests that push to a CRM, side by side, with scores that change underneath and
\* processes that die, keep the CRM, the logs and the answers in agreement.
THEOREM CrmAgrees == CrmInit /\ [][CrmNext]_crmVars => []SyncsSound
  BY CrmInitially, CrmStep, CrmMeans, PTL

---------------------------------------------------------------------------
(***************************************************************************)
(* Champions                                                               *)
(***************************************************************************)
ContactRows == [email : Emails, by : Saves \union {"start"}, champion : BOOLEAN,
                reachable : BOOLEAN, seen : 0 .. LastDay]
ConcernRows == [by : Checks, about : Emails, from : Saves \union {"start"}, at : 0 .. LastDay,
                resolved : BOOLEAN]
CheckType == [pc : {"new", "judge", "commit", "publish", "done", "dead"}, now : 0 .. LastDay,
              champions : SUBSET ContactRows, left : SUBSET ContactRows, new : SUBSET ConcernRows]
SaveStates == {[pc |-> "new"], [pc |-> "done"]}
              \union [pc : {"write"}, was : SUBSET ContactRows, asked : ContactRows]

ChampionTypeInv ==
  /\ day \in 0 .. LastDay
  /\ contacts \subseteq ContactRows /\ concerns \subseteq ConcernRows
  /\ check \in [Checks -> CheckType] /\ save \in [Saves -> SaveStates]

OnRecord(a) == a \in concerns \/ [a EXCEPT !.resolved = TRUE] \in concerns
Apart(a, b) == a.at - b.at > Debounce \/ b.at - a.at > Debounce

\* A request adds one anomaly at the most, and only when none in sight keeps it back;
\* others that are stored meanwhile are of requests that were under way with it.
JudgedInv ==
  /\ \A q, r \in Checks : check[q].pc \in Judging /\ check[r].pc \in Judging =>
       q = r \/ {q, r} \in together
  /\ \A r \in Checks :
       /\ check[r].pc = "new" => check[r].new = {}
       /\ \A a \in check[r].new : a.by = r /\ a.at = check[r].now /\ ~ a.resolved
       /\ \A a, b \in check[r].new : a = b
       /\ check[r].pc \in Judging => \A a \in check[r].new, b \in concerns :
            b.resolved \/ Apart(a, b) \/ {r, b.by} \in together
       /\ check[r].pc \in {"publish", "done"} => \A a \in check[r].new : OnRecord(a)

\* A champion that has been judged and found quiet has an anomaly to show for it.
ReportedInv ==
  \A r \in Checks :
    /\ check[r].pc \in {"commit", "publish", "done"} => check[r].left = {}
    /\ check[r].pc \in Judging => \A c \in check[r].champions \ check[r].left :
         Inactive(c, check[r].now) =>
           \E a \in concerns \union check[r].new : a.at >= check[r].now - Debounce
    /\ check[r].pc \in {"publish", "done"} => \A c \in check[r].champions :
         Inactive(c, check[r].now) => \E a \in concerns : a.at >= check[r].now - Debounce

\* A request that is about to insert a row finds none there, unless another one was
\* saving the same address with it.
SavedInv ==
  /\ \A q, s \in Saves : save[q].pc = "write" /\ save[s].pc = "write" /\ q # s
       /\ save[q].asked.email = save[s].asked.email => save[s].asked.email \in twiceSaved
  /\ \A s \in Saves : save[s].pc = "write" /\ save[s].was = {} =>
       save[s].asked.email \in twiceSaved \/ \A c \in contacts : c.email # save[s].asked.email

ChampionInv == /\ ChampionTypeInv /\ JudgedInv /\ ReportedInv /\ SavedInv
               /\ OneConcernAtATime /\ AnnouncedIsStored /\ ContactPerEmail

LEMMA ChampionInitially == ChampionInit => ChampionInv
  <1> SUFFICES ASSUME ChampionInit PROVE ChampionInv
    OBVIOUS
  <1>1. /\ day = 0 /\ concerns = {} /\ announced = {}
        /\ check = [r \in Checks |-> [pc |-> "new", now |-> 0, champions |-> {}, left |-> {}, new |-> {}]]
        /\ save = [s \in Saves |-> [pc |-> "new"]]
    BY DEF ChampionInit, Waiting
  <1>2. PICK e \in Emails : contacts = {Contact(e, "start", TRUE, TRUE, 0)}
    BY DEF ChampionInit
  <1>3. 0 \in 0 .. LastDay
    BY ChampionAssumption
  <1>4. Contact(e, "start", TRUE, TRUE, 0) \in ContactRows
    BY <1>3 DEF Contact, ContactRows
  <1>5. ChampionTypeInv
    <2>1. check \in [Checks -> CheckType]
      BY <1>1, <1>3 DEF CheckType
    <2>2. save \in [Saves -> SaveStates]
      BY <1>1 DEF SaveStates
    <2>3. QED
      BY <1>1, <1>2, <1>3, <1>4, <2>1, <2>2 DEF ChampionTypeInv
  <1>6. JudgedInv /\ ReportedInv /\ OneConcernAtATime /\ AnnouncedIsStored
    BY <1>1 DEF JudgedInv, ReportedInv, OneConcernAtATime, AnnouncedIsStored, Judging
  <1>7. SavedInv /\ ContactPerEmail
    BY <1>1, <1>2 DEF SavedInv, ContactPerEmail
  <1>8. QED
    BY <1>5, <1>6, <1>7 DEF ChampionInv

LEMMA ChampionStart ==
  ASSUME ChampionInv, NEW r \in Checks, StartCheck(r)
  PROVE  ChampionInv'
  <1> DEFINE champions == {c \in contacts : c.champion}
             pc == IF champions = {} THEN "done" ELSE "judge"
             after == [check[r] EXCEPT !.pc = pc, !.now = day, !.champions = champions, !.left = champions]
  <1>1. /\ check[r].pc = "new" /\ check' = [check EXCEPT ![r] = after]
        /\ together' = together \union {{r, q} : q \in {q \in Checks : check[q].pc \in Judging}}
        /\ UNCHANGED <<day, contacts, concerns, save, announced, twiceSaved>>
    BY DEF StartCheck
  <1>2. check \in [Checks -> CheckType] /\ check[r] \in CheckType /\ day \in 0 .. LastDay
        /\ champions \subseteq ContactRows
    BY DEF ChampionInv, ChampionTypeInv
  <1>3. /\ after.pc = pc /\ after.now = day /\ after.champions = champions /\ after.left = champions
        /\ after.new = check[r].new
    BY <1>2 DEF CheckType
  <1>4. after \in CheckType
    <2>1. \A p \in CheckType : [p EXCEPT !.pc = pc] \in CheckType
      BY DEF CheckType
    <2>2. \A p \in CheckType : [p EXCEPT !.now = day] \in CheckType
      BY <1>2 DEF CheckType
    <2>3. \A p \in CheckType : [p EXCEPT !.champions = champions] \in CheckType
      BY <1>2 DEF CheckType
    <2>4. \A p \in CheckType : [p EXCEPT !.left = champions] \in CheckType
      BY <1>2 DEF CheckType
    <2>5. after = [[[[check[r] EXCEPT !.pc = pc] EXCEPT !.now = day] EXCEPT !.champions = champions]
                     EXCEPT !.left = champions]
      OBVIOUS
    <2>6. QED
      BY <1>2, <2>1, <2>2, <2>3, <2>4, <2>5
  <1>5. check[r].new = {}
    BY <1>1 DEF ChampionInv, JudgedInv
  <1>6. (champions = {} /\ pc = "done") \/ pc = "judge"
    OBVIOUS
  <1> HIDE DEF after, pc
  <1>7. /\ check' \in [Checks -> CheckType] /\ check'[r] = after
        /\ \A q \in Checks \ {r} : check'[q] = check[q]
    BY <1>1, <1>2, <1>4
  <1>8. ChampionTypeInv'
    BY <1>1, <1>7 DEF ChampionInv, ChampionTypeInv
  <1>9. JudgedInv'
    <2>1. ASSUME NEW p \in Checks, NEW q \in Checks, check'[p].pc \in Judging,
                 check'[q].pc \in Judging, p # q
          PROVE  {p, q} \in together'
      <3>1. CASE p # r /\ q # r
        BY <1>1, <1>7, <2>1, <3>1 DEF ChampionInv, JudgedInv
      <3>2. CASE p = r
        <4>1. check[q].pc \in Judging /\ {r, q} \in {{r, o} : o \in {o \in Checks : check[o].pc \in Judging}}
          BY <1>7, <2>1, <3>2
        <4>2. QED
          BY <1>1, <3>2, <4>1
      <3>3. CASE q = r
        <4>1. check[p].pc \in Judging /\ {r, p} \in {{r, o} : o \in {o \in Checks : check[o].pc \in Judging}}
          BY <1>7, <2>1, <3>3
        <4>2. {p, q} = {r, p}
          BY <3>3
        <4>3. QED
          BY <1>1, <4>1, <4>2
      <3>4. QED
        BY <3>1, <3>2, <3>3
    <2>2. ASSUME NEW q \in Checks PROVE JudgedInv!2!(q)'
      <3>1. CASE q = r
        BY <1>3, <1>5, <1>7, <3>1
      <3>2. CASE q # r
        BY <1>1, <1>7, <3>2 DEF ChampionInv, JudgedInv, OnRecord
      <3>3. QED
        BY <3>1, <3>2
    <2>3. QED
      BY <2>1, <2>2 DEF JudgedInv
  <1>10. ReportedInv'
    <2> SUFFICES ASSUME NEW q \in Checks PROVE ReportedInv!(q)'
      BY DEF ReportedInv
    <2>1. CASE q = r
      BY <1>3, <1>5, <1>6, <1>7, <2>1 DEF Judging
    <2>2. CASE q # r
      BY <1>1, <1>7, <2>2 DEF ChampionInv, ReportedInv
    <2>3. QED
      BY <2>1, <2>2
  <1>11. SavedInv' /\ ContactPerEmail' /\ AnnouncedIsStored'
    BY <1>1 DEF ChampionInv, SavedInv, ContactPerEmail, AnnouncedIsStored
  <1>12. OneConcernAtATime'
    BY <1>1 DEF ChampionInv, OneConcernAtATime
  <1>13. QED
    BY <1>8, <1>9, <1>10, <1>11, <1>12 DEF ChampionInv

LEMMA ChampionJudge ==
  ASSUME ChampionInv, NEW r \in Checks, NEW c \in check[r].left, JudgeChampion(r, c)
  PROVE  ChampionInv'
  <1> DEFINE anomaly == [by |-> r, about |-> c.email, from |-> c.by, at |-> check[r].now, resolved |-> FALSE]
             new == IF Inactive(c, check[r].now) /\ ~ Debounced(r) THEN {anomaly} ELSE {}
             left == check[r].left \ {c}
             pc == IF left # {} THEN "judge"
                   ELSE IF check[r].new \union new = {} THEN "done" ELSE "commit"
             after == [check[r] EXCEPT !.left = left, !.new = check[r].new \union new, !.pc = pc]
  <1>1. /\ check[r].pc = "judge" /\ check' = [check EXCEPT ![r] = after]
        /\ UNCHANGED <<day, contacts, concerns, save, announced, together, twiceSaved>>
    BY DEF JudgeChampion
  <1>2. check \in [Checks -> CheckType] /\ check[r] \in CheckType /\ concerns \subseteq ConcernRows
        /\ check[r].now \in 0 .. LastDay
    BY DEF ChampionInv, ChampionTypeInv, CheckType
  <1>3. c \in ContactRows /\ check[r].left \subseteq ContactRows
    BY <1>2 DEF CheckType
  <1>4. /\ anomaly \in ConcernRows /\ anomaly.by = r /\ anomaly.at = check[r].now /\ ~ anomaly.resolved
    BY <1>2, <1>3 DEF ConcernRows, ContactRows
  <1> HIDE DEF anomaly
  <1>5. new \subseteq {anomaly} /\ new \subseteq ConcernRows
    BY <1>4
  <1>6. /\ new # {} => /\ Inactive(c, check[r].now)
                       /\ \A a \in concerns \union check[r].new :
                            a.resolved \/ ~ (a.at >= check[r].now - Debounce)
        /\ new = {} /\ Inactive(c, check[r].now) =>
             \E a \in concerns \union check[r].new : a.at >= check[r].now - Debounce
    BY DEF Debounced, Seen
  <1>8. left \subseteq ContactRows /\ check[r].new \union new \subseteq ConcernRows
    BY <1>2, <1>3, <1>5 DEF CheckType
  <1> HIDE DEF new, left
  <1>7. \/ pc = "judge"
        \/ left = {} /\ pc = "commit"
        \/ left = {} /\ pc = "done" /\ check[r].new \union new = {}
    OBVIOUS
  <1> HIDE DEF pc
  <1>9. /\ after.pc = pc /\ after.now = check[r].now /\ after.champions = check[r].champions
        /\ after.left = left /\ after.new = check[r].new \union new
    BY <1>2 DEF CheckType
  <1>10. after \in CheckType
    <2>1. pc \in {"judge", "commit", "done"}
      BY <1>7
    <2>2. \A p \in CheckType : [p EXCEPT !.pc = pc] \in CheckType
      BY <2>1 DEF CheckType
    <2>3. \A p \in CheckType : [p EXCEPT !.left = left] \in CheckType
      BY <1>8 DEF CheckType
    <2>4. \A p \in CheckType : [p EXCEPT !.new = check[r].new \union new] \in CheckType
      BY <1>8 DEF CheckType
    <2>5. after = [[[check[r] EXCEPT !.left = left] EXCEPT !.new = check[r].new \union new] EXCEPT !.pc = pc]
      BY <1>2 DEF CheckType
    <2>6. QED
      BY <1>2, <2>2, <2>3, <2>4, <2>5
  <1> HIDE DEF after
  <1>11. /\ check' \in [Checks -> CheckType] /\ check'[r] = after
         /\ \A q \in Checks \ {r} : check'[q] = check[q]
    BY <1>1, <1>2, <1>10
  <1>12. ChampionTypeInv'
    BY <1>1, <1>11 DEF ChampionInv, ChampionTypeInv
  <1>13. \A a \in check[r].new : a.by = r /\ a.at = check[r].now /\ ~ a.resolved
    BY DEF ChampionInv, JudgedInv
  \* Its own anomaly keeps back those of its other champions.
  <1>14. new # {} => check[r].new = {}
    <2> SUFFICES ASSUME new # {}, NEW a \in check[r].new PROVE FALSE
      OBVIOUS
    <2>1. check[r].now \in Int /\ Debounce \in Nat /\ a.at = check[r].now /\ ~ a.resolved
      BY <1>2, <1>13, ChampionAssumption
    <2>2. ~ (a.at >= check[r].now - Debounce)
      BY <1>6, <2>1
    <2>3. QED
      BY <2>1, <2>2
  <1>15. JudgedInv'
    <2>1. ASSUME NEW p \in Checks, NEW q \in Checks, check'[p].pc \in Judging,
                 check'[q].pc \in Judging, p # q
          PROVE  {p, q} \in together
      <3>1. check[p].pc \in Judging /\ check[q].pc \in Judging
        BY <1>1, <1>11, <2>1 DEF Judging
      <3>2. QED
        BY <2>1, <3>1 DEF ChampionInv, JudgedInv
    <2>2. ASSUME NEW q \in Checks PROVE JudgedInv!2!(q)'
      <3>1. CASE q = r
        <4>1. \A a \in after.new : a.by = r /\ a.at = after.now /\ ~ a.resolved
          BY <1>4, <1>5, <1>9, <1>13
        <4>2. \A a, b \in after.new : a = b
          BY <1>5, <1>9, <1>14 DEF ChampionInv, JudgedInv
        <4>3. ASSUME NEW a \in after.new, NEW b \in concerns
              PROVE  b.resolved \/ Apart(a, b) \/ {r, b.by} \in together
          <5>1. CASE a \in check[r].new
            BY <1>1, <5>1 DEF ChampionInv, JudgedInv, Judging
          <5>2. CASE a \in new
            <6>1. b.resolved \/ ~ (b.at >= check[r].now - Debounce)
              BY <1>6, <5>2
            <6>2. a.at = check[r].now /\ b.at \in Int /\ check[r].now \in Int
              BY <1>2, <1>4, <1>5, <5>2 DEF ConcernRows
            <6>3. QED
              BY <6>1, <6>2, ChampionAssumption DEF Apart
          <5>3. QED
            BY <1>9, <5>1, <5>2
        <4>4. after.pc = "done" => after.new = {}
          BY <1>7, <1>9
        <4>5. after.pc \notin {"new", "publish"}
          BY <1>7, <1>9
        <4>6. QED
          BY <1>1, <1>11, <3>1, <4>1, <4>2, <4>3, <4>4, <4>5
      <3>2. CASE q # r
        BY <1>1, <1>11, <3>2 DEF ChampionInv, JudgedInv, OnRecord
      <3>3. QED
        BY <3>1, <3>2
    <2>3. QED
      BY <1>1, <2>1, <2>2 DEF JudgedInv
  <1>16. ReportedInv'
    <2> SUFFICES ASSUME NEW q \in Checks PROVE ReportedInv!(q)'
      BY DEF ReportedInv
    <2>1. CASE q = r
      <3>1. ASSUME NEW d \in after.champions \ left, Inactive(d, after.now)
            PROVE  \E a \in concerns \union after.new : a.at >= after.now - Debounce
        <4>1. CASE d = c
          <5>1. CASE new = {}
            BY <1>6, <1>9, <3>1, <4>1, <5>1
          <5>2. CASE new # {}
            <6>1. anomaly \in after.new /\ anomaly.at >= after.now - Debounce
              BY <1>2, <1>4, <1>5, <1>9, <5>2, ChampionAssumption
            <6>2. QED
              BY <6>1
          <5>3. QED
            BY <5>1, <5>2
        <4>2. CASE d # c
          <5>1. d \in check[r].champions \ check[r].left /\ Inactive(d, check[r].now)
            BY <1>9, <3>1, <4>2 DEF left
          <5>2. PICK a \in concerns \union check[r].new : a.at >= check[r].now - Debounce
            BY <1>1, <5>1 DEF ChampionInv, ReportedInv, Judging
          <5>3. QED
            BY <1>9, <5>2
        <4>3. QED
          BY <4>1, <4>2
      <3>2. after.pc \in {"commit", "publish", "done"} => left = {}
        BY <1>7, <1>9
      <3>3. after.pc \in {"publish", "done"} => after.new = {} /\ left = {}
        BY <1>7, <1>9
      <3>4. QED
        BY <1>1, <1>9, <1>11, <2>1, <3>1, <3>2, <3>3
    <2>2. CASE q # r
      BY <1>1, <1>11, <2>2 DEF ChampionInv, ReportedInv
    <2>3. QED
      BY <2>1, <2>2
  <1>17. SavedInv' /\ ContactPerEmail' /\ AnnouncedIsStored' /\ OneConcernAtATime'
    BY <1>1 DEF ChampionInv, SavedInv, ContactPerEmail, AnnouncedIsStored, OneConcernAtATime
  <1>18. QED
    BY <1>12, <1>15, <1>16, <1>17 DEF ChampionInv

LEMMA ChampionCommit ==
  ASSUME ChampionInv, NEW r \in Checks, CommitConcerns(r)
  PROVE  ChampionInv'
  <1> DEFINE after == [check[r] EXCEPT !.pc = "publish"]
  <1>1. /\ check[r].pc = "commit" /\ check' = [check EXCEPT ![r] = after]
        /\ concerns' = concerns \union check[r].new
        /\ UNCHANGED <<day, contacts, save, announced, together, twiceSaved>>
    BY DEF CommitConcerns
  <1>2. check \in [Checks -> CheckType] /\ check[r] \in CheckType
        /\ concerns \subseteq ConcernRows /\ check[r].new \subseteq ConcernRows
    BY DEF ChampionInv, ChampionTypeInv, CheckType
  <1>3. /\ after.pc = "publish" /\ after.now = check[r].now /\ after.champions = check[r].champions
        /\ after.left = check[r].left /\ after.new = check[r].new /\ after \in CheckType
    BY <1>2 DEF CheckType
  <1> HIDE DEF after
  <1>4. /\ check' \in [Checks -> CheckType] /\ check'[r] = after
        /\ \A q \in Checks \ {r} : check'[q] = check[q]
    BY <1>1, <1>2, <1>3
  <1>5. ChampionTypeInv'
    BY <1>1, <1>2, <1>4 DEF ChampionInv, ChampionTypeInv
  <1>6. /\ \A a \in check[r].new : a.by = r /\ a.at = check[r].now /\ ~ a.resolved
        /\ \A a, b \in check[r].new : a = b
        /\ \A a \in check[r].new, b \in concerns :
             b.resolved \/ Apart(a, b) \/ {r, b.by} \in together
    BY <1>1 DEF ChampionInv, JudgedInv, Judging
  <1>7. JudgedInv'
    <2>1. ASSUME NEW p \in Checks, NEW q \in Checks, check'[p].pc \in Judging,
                 check'[q].pc \in Judging, p # q
          PROVE  {p, q} \in together
      <3>1. check[p].pc \in Judging /\ check[q].pc \in Judging
        BY <1>3, <1>4, <2>1 DEF Judging
      <3>2. QED
        BY <2>1, <3>1 DEF ChampionInv, JudgedInv
    <2>2. ASSUME NEW q \in Checks PROVE JudgedInv!2!(q)'
      <3>1. CASE q = r
        <4>1. \A a \in check[r].new : OnRecord(a)'
          BY <1>1 DEF OnRecord
        <4>2. QED
          BY <1>3, <1>4, <1>6, <3>1, <4>1 DEF Judging
      <3>2. CASE q # r
        <4>1. ASSUME check[q].pc \in Judging, NEW a \in check[q].new, NEW b \in check[r].new
              PROVE  {q, b.by} \in together
          <5>1. {q, r} \in together
            BY <1>1, <3>2, <4>1 DEF ChampionInv, JudgedInv, Judging
          <5>2. QED
            BY <1>6, <5>1
        <4>2. \A a \in check[q].new : OnRecord(a) => OnRecord(a)'
          BY <1>1 DEF OnRecord
        <4>3. QED
          BY <1>1, <1>4, <3>2, <4>1, <4>2 DEF ChampionInv, JudgedInv
      <3>3. QED
        BY <3>1, <3>2
    <2>3. QED
      BY <1>1, <2>1, <2>2 DEF JudgedInv
  <1>8. ReportedInv'
    <2> SUFFICES ASSUME NEW q \in Checks PROVE ReportedInv!(q)'
      BY DEF ReportedInv
    <2>1. CASE q = r
      <3>1. check[r].left = {}
        BY <1>1 DEF ChampionInv, ReportedInv
      <3>2. \A c \in check[r].champions : Inactive(c, check[r].now) =>
              \E a \in concerns' : a.at >= check[r].now - Debounce
        BY <1>1, <3>1 DEF ChampionInv, ReportedInv, Judging
      <3>3. QED
        BY <1>3, <1>4, <2>1, <3>1, <3>2 DEF Judging
    <2>2. CASE q # r
      BY <1>1, <1>4, <2>2 DEF ChampionInv, ReportedInv
    <2>3. QED
      BY <2>1, <2>2
  <1>9. OneConcernAtATime'
    <2> SUFFICES ASSUME NEW a \in concerns', NEW b \in concerns', a # b, ~ a.resolved, ~ b.resolved
                 PROVE  Apart(a, b) \/ {a.by, b.by} \in together
      BY <1>1 DEF OneConcernAtATime, Apart
    <2>1. CASE a \in concerns /\ b \in concerns
      BY <2>1 DEF ChampionInv, OneConcernAtATime, Apart
    <2>2. CASE a \in check[r].new /\ b \in concerns
      BY <1>6, <2>2
    <2>3. CASE b \in check[r].new /\ a \in concerns
      <3>1. Apart(b, a) \/ {r, a.by} \in together
        BY <1>6, <2>3
      <3>2. b.by = r /\ {a.by, r} = {r, a.by}
        BY <1>6, <2>3
      <3>3. QED
        BY <3>1, <3>2 DEF Apart
    <2>4. CASE a \in check[r].new /\ b \in check[r].new
      BY <1>6, <2>4
    <2>5. QED
      BY <1>1, <2>1, <2>2, <2>3, <2>4
  <1>10. SavedInv' /\ ContactPerEmail' /\ AnnouncedIsStored'
    BY <1>1 DEF ChampionInv, SavedInv, ContactPerEmail, AnnouncedIsStored
  <1>11. QED
    BY <1>5, <1>7, <1>8, <1>9, <1>10 DEF ChampionInv

\* A request that announces, or dies.
LEMMA ChampionEnds ==
  ASSUME ChampionInv, NEW r \in Checks, NEW pc \in {"done", "dead"},
         check' = [check EXCEPT ![r].pc = pc],
         pc = "done" => check[r].pc = "publish",
         UNCHANGED <<day, contacts, concerns, save, together, twiceSaved>>,
         check[r].pc # "new", AnnouncedIsStored'
  PROVE  ChampionInv'
  <1> DEFINE after == [check[r] EXCEPT !.pc = pc]
  <1>1. check \in [Checks -> CheckType] /\ check[r] \in CheckType /\ check' = [check EXCEPT ![r] = after]
    BY DEF ChampionInv, ChampionTypeInv
  <1>2. /\ after.pc = pc /\ after.now = check[r].now /\ after.champions = check[r].champions
        /\ after.left = check[r].left /\ after.new = check[r].new /\ after \in CheckType
    BY <1>1 DEF CheckType
  <1> HIDE DEF after
  <1>3. /\ check' \in [Checks -> CheckType] /\ check'[r] = after
        /\ \A q \in Checks \ {r} : check'[q] = check[q]
    BY <1>1, <1>2
  <1>4. ChampionTypeInv'
    BY <1>3 DEF ChampionInv, ChampionTypeInv
  <1>5. JudgedInv'
    <2>1. ASSUME NEW p \in Checks, NEW q \in Checks, check'[p].pc \in Judging,
                 check'[q].pc \in Judging, p # q
          PROVE  {p, q} \in together
      <3>1. check[p].pc \in Judging /\ check[q].pc \in Judging
        BY <1>2, <1>3, <2>1 DEF Judging
      <3>2. QED
        BY <2>1, <3>1 DEF ChampionInv, JudgedInv
    <2>2. ASSUME NEW q \in Checks PROVE JudgedInv!2!(q)'
      <3>1. CASE q = r
        BY <1>2, <1>3, <3>1 DEF ChampionInv, JudgedInv, Judging, OnRecord
      <3>2. CASE q # r
        BY <1>3, <3>2 DEF ChampionInv, JudgedInv, OnRecord
      <3>3. QED
        BY <3>1, <3>2
    <2>3. QED
      BY <2>1, <2>2 DEF JudgedInv
  <1>6. ReportedInv'
    <2> SUFFICES ASSUME NEW q \in Checks PROVE ReportedInv!(q)'
      BY DEF ReportedInv
    <2>1. CASE q = r
      BY <1>2, <1>3, <2>1 DEF ChampionInv, ReportedInv, Judging
    <2>2. CASE q # r
      BY <1>3, <2>2 DEF ChampionInv, ReportedInv
    <2>3. QED
      BY <2>1, <2>2
  <1>7. SavedInv' /\ ContactPerEmail' /\ OneConcernAtATime'
    BY DEF ChampionInv, SavedInv, ContactPerEmail, OneConcernAtATime
  <1>8. QED
    BY <1>4, <1>5, <1>6, <1>7 DEF ChampionInv

LEMMA ChampionAnnounce ==
  ASSUME ChampionInv, NEW r \in Checks, Announce(r)
  PROVE  ChampionInv'
  <1>1. /\ check[r].pc = "publish" /\ check' = [check EXCEPT ![r].pc = "done"]
        /\ announced' = announced \union {[a EXCEPT !.resolved = FALSE] : a \in check[r].new}
        /\ UNCHANGED <<day, contacts, concerns, save, together, twiceSaved>>
    BY DEF Announce, MayAnnounce
  <1>2. \A a \in check[r].new : [a EXCEPT !.resolved = FALSE] = a /\ OnRecord(a)
    <2>1. \A a \in check[r].new : a \in ConcernRows /\ ~ a.resolved
      BY DEF ChampionInv, ChampionTypeInv, CheckType, JudgedInv
    <2>2. \A a \in check[r].new : [a EXCEPT !.resolved = FALSE] = a
      BY <2>1 DEF ConcernRows
    <2>3. QED
      BY <1>1, <2>2 DEF ChampionInv, JudgedInv
  <1>3. AnnouncedIsStored'
    BY <1>1, <1>2 DEF ChampionInv, AnnouncedIsStored, OnRecord
  <1>4. QED
    BY <1>1, <1>3, ChampionEnds

LEMMA ChampionKill ==
  ASSUME ChampionInv, NEW r \in Checks, KillCheck(r)
  PROVE  ChampionInv'
  <1>1. /\ check[r].pc \in {"judge", "commit", "publish"} /\ check' = [check EXCEPT ![r].pc = "dead"]
        /\ UNCHANGED <<day, contacts, concerns, save, announced, together, twiceSaved>>
    BY DEF KillCheck
  <1>2. AnnouncedIsStored'
    BY <1>1 DEF ChampionInv, AnnouncedIsStored
  <1>3. QED
    BY <1>1, <1>2, ChampionEnds

LEMMA ChampionLookUp ==
  ASSUME ChampionInv, NEW s \in Saves, LookUp(s)
  PROVE  ChampionInv'
  <1>1. /\ save[s].pc = "new"
        /\ UNCHANGED <<day, contacts, concerns, check, announced, together>>
    BY DEF LookUp
  <1>2. PICK e \in Emails, champion \in BOOLEAN, reachable \in BOOLEAN :
         /\ \E was \in IF RowsAt(e) = {} THEN {{}} ELSE {{c} : c \in RowsAt(e)} :
              save' = [save EXCEPT ![s] =
                [pc |-> "write", was |-> was, asked |-> Contact(e, s, champion, reachable, day)]]
         /\ twiceSaved' = twiceSaved \union
              {e2 \in {e} : \E q \in Saves : save[q].pc = "write" /\ save[q].asked.email = e}
    BY DEF LookUp
  <1>3. PICK was \in IF RowsAt(e) = {} THEN {{}} ELSE {{c} : c \in RowsAt(e)} :
          save' = [save EXCEPT ![s] =
            [pc |-> "write", was |-> was, asked |-> Contact(e, s, champion, reachable, day)]]
    BY <1>2
  <1> DEFINE after == [pc |-> "write", was |-> was, asked |-> Contact(e, s, champion, reachable, day)]
  <1>4. /\ save \in [Saves -> SaveStates] /\ day \in 0 .. LastDay /\ contacts \subseteq ContactRows
    BY DEF ChampionInv, ChampionTypeInv
  <1>5. was \subseteq ContactRows /\ (was = {} => \A c \in contacts : c.email # e)
    BY <1>3, <1>4 DEF RowsAt
  <1>6. Contact(e, s, champion, reachable, day) \in ContactRows
        /\ Contact(e, s, champion, reachable, day).email = e
    BY <1>4 DEF Contact, ContactRows
  <1>7. after \in SaveStates /\ after.pc = "write" /\ after.was = was /\ after.asked.email = e
    BY <1>5, <1>6 DEF SaveStates
  <1>8. save' = [save EXCEPT ![s] = after]
    BY <1>3
  <1> HIDE DEF after
  <1>9. /\ save' \in [Saves -> SaveStates] /\ save'[s] = after
        /\ \A q \in Saves \ {s} : save'[q] = save[q]
    BY <1>4, <1>7, <1>8
  <1>10. ChampionTypeInv'
    BY <1>1, <1>9 DEF ChampionInv, ChampionTypeInv
  <1>11. SavedInv'
    <2>1. ASSUME NEW q \in Saves, q # s, save[q].pc = "write", save[q].asked.email = e
          PROVE  e \in twiceSaved'
      BY <1>2, <2>1
    <2>2. ASSUME NEW p \in Saves, NEW q \in Saves, save'[p].pc = "write", save'[q].pc = "write",
                 p # q, save'[p].asked.email = save'[q].asked.email
          PROVE  save'[q].asked.email \in twiceSaved'
      <3>1. CASE p # s /\ q # s
        BY <1>2, <1>9, <2>2, <3>1 DEF ChampionInv, SavedInv
      <3>2. CASE p = s
        BY <1>7, <1>9, <2>1, <2>2, <3>2
      <3>3. CASE q = s
        BY <1>7, <1>9, <2>1, <2>2, <3>3
      <3>4. QED
        BY <3>1, <3>2, <3>3
    <2>3. ASSUME NEW q \in Saves, save'[q].pc = "write", save'[q].was = {}
          PROVE  \/ save'[q].asked.email \in twiceSaved'
                 \/ \A c \in contacts : c.email # save'[q].asked.email
      <3>1. CASE q = s
        BY <1>5, <1>7, <1>9, <2>3, <3>1
      <3>2. CASE q # s
        BY <1>2, <1>9, <2>3, <3>2 DEF ChampionInv, SavedInv
      <3>3. QED
        BY <3>1, <3>2
    <2>4. QED
      BY <1>1, <2>2, <2>3 DEF SavedInv
  <1>12. ContactPerEmail'
    BY <1>1, <1>2 DEF ChampionInv, ContactPerEmail
  <1>13. JudgedInv' /\ ReportedInv' /\ OneConcernAtATime' /\ AnnouncedIsStored'
    BY <1>1 DEF ChampionInv, JudgedInv, ReportedInv, OneConcernAtATime, AnnouncedIsStored, OnRecord
  <1>14. QED
    BY <1>10, <1>11, <1>12, <1>13 DEF ChampionInv

LEMMA ChampionWrite ==
  ASSUME ChampionInv, NEW s \in Saves, WriteContact(s)
  PROVE  ChampionInv'
  <1> DEFINE wish == save[s].asked
             was == save[s].was
             after == [pc |-> "done"]
             old == CHOOSE w \in was : TRUE
             Rewritten(row) == IF \E w \in was : w.by = row.by THEN Changed(row, old, wish) ELSE row
  <1>1. /\ save[s].pc = "write" /\ save' = [save EXCEPT ![s] = after]
        /\ contacts' = IF was = {} THEN contacts \union {[wish EXCEPT !.seen = day]}
                       ELSE {Rewritten(row) : row \in contacts}
        /\ UNCHANGED <<day, concerns, check, announced, together, twiceSaved>>
    BY DEF WriteContact
  <1>2. /\ save \in [Saves -> SaveStates] /\ day \in 0 .. LastDay /\ contacts \subseteq ContactRows
    BY DEF ChampionInv, ChampionTypeInv
  <1>3. was \subseteq ContactRows /\ wish \in ContactRows
    BY <1>1, <1>2 DEF SaveStates
  <1>4. after \in SaveStates /\ after.pc = "done"
    BY DEF SaveStates
  <1> HIDE DEF after
  <1>5. /\ save' \in [Saves -> SaveStates] /\ save'[s].pc = "done"
        /\ \A q \in Saves \ {s} : save'[q] = save[q]
    BY <1>1, <1>2, <1>4
  <1>6. [wish EXCEPT !.seen = day] \in ContactRows /\ [wish EXCEPT !.seen = day].email = wish.email
    BY <1>2, <1>3 DEF ContactRows
  <1>7. ASSUME NEW row \in contacts, was # {}
        PROVE  Rewritten(row) \in ContactRows /\ Rewritten(row).email = row.email
    <2>1. old \in ContactRows /\ row \in ContactRows
      BY <1>2, <1>3, <1>7
    <2> HIDE DEF old
    <2>2. Changed(row, old, wish) \in ContactRows /\ Changed(row, old, wish).email = row.email
      <3> DEFINE champion == IF wish.champion = old.champion THEN row.champion ELSE wish.champion
                 reachable == IF wish.reachable = old.reachable THEN row.reachable ELSE wish.reachable
                 seen == IF wish.reachable THEN day ELSE row.seen
      <3>1. champion \in BOOLEAN /\ reachable \in BOOLEAN /\ seen \in 0 .. LastDay
        BY <1>2, <1>3, <2>1 DEF ContactRows
      <3>2. Changed(row, old, wish) =
              [[[row EXCEPT !.champion = champion] EXCEPT !.reachable = reachable] EXCEPT !.seen = seen]
        BY <2>1 DEF Changed, ContactRows
      <3> HIDE DEF champion, reachable, seen
      <3>3. \A p \in ContactRows : /\ [p EXCEPT !.champion = champion] \in ContactRows
                                   /\ [p EXCEPT !.champion = champion].email = p.email
        BY <3>1 DEF ContactRows
      <3>4. \A p \in ContactRows : /\ [p EXCEPT !.reachable = reachable] \in ContactRows
                                   /\ [p EXCEPT !.reachable = reachable].email = p.email
        BY <3>1 DEF ContactRows
      <3>5. \A p \in ContactRows : /\ [p EXCEPT !.seen = seen] \in ContactRows
                                   /\ [p EXCEPT !.seen = seen].email = p.email
        BY <3>1 DEF ContactRows
      <3>6. QED
        BY <2>1, <3>2, <3>3, <3>4, <3>5
    <2>3. QED
      BY <2>1, <2>2
  <1> HIDE DEF Rewritten
  <1>8. /\ contacts' \subseteq ContactRows
        /\ \A c \in contacts' : \/ was = {} /\ c = [wish EXCEPT !.seen = day]
                                \/ \E row \in contacts : c.email = row.email
    BY <1>1, <1>2, <1>6, <1>7
  <1>9. ChampionTypeInv'
    BY <1>1, <1>5, <1>8 DEF ChampionInv, ChampionTypeInv
  <1>10. SavedInv'
    <2>1. ASSUME NEW q \in Saves, save'[q].pc = "write", save'[q].was = {},
                 save'[q].asked.email \notin twiceSaved, NEW c \in contacts'
          PROVE  c.email # save'[q].asked.email
      <3>1. /\ q # s /\ save[q] = save'[q] /\ save[q].pc = "write"
        BY <1>5, <2>1
      <3>2. CASE was = {} /\ c = [wish EXCEPT !.seen = day]
        BY <1>1, <1>6, <2>1, <3>1, <3>2 DEF ChampionInv, SavedInv
      <3>3. CASE \E row \in contacts : c.email = row.email
        BY <2>1, <3>1, <3>3 DEF ChampionInv, SavedInv
      <3>4. QED
        BY <1>8, <3>2, <3>3
    <2>2. ASSUME NEW p \in Saves, NEW q \in Saves, save'[p].pc = "write", save'[q].pc = "write",
                 p # q, save'[p].asked.email = save'[q].asked.email
          PROVE  save'[q].asked.email \in twiceSaved
      BY <1>5, <2>2 DEF ChampionInv, SavedInv
    <2>3. QED
      BY <1>1, <2>1, <2>2 DEF SavedInv
  <1>11. ContactPerEmail'
    <2>1. CASE was = {}
      <3>1. contacts' = contacts \union {[wish EXCEPT !.seen = day]}
        BY <1>1, <2>1
      <3>2. wish.email \in twiceSaved \/ \A c \in contacts : c.email # wish.email
        BY <1>1, <2>1 DEF ChampionInv, SavedInv
      <3>3. QED
        BY <1>1, <1>6, <3>1, <3>2 DEF ChampionInv, ContactPerEmail
    <2>2. CASE was # {}
      <3>1. contacts' = {Rewritten(row) : row \in contacts}
        BY <1>1, <2>2
      <3>2. ASSUME NEW c \in contacts, NEW d \in contacts
            PROVE  \/ Rewritten(c) = Rewritten(d) \/ Rewritten(c).email # Rewritten(d).email
                   \/ Rewritten(c).email \in twiceSaved
        BY <1>7, <2>2 DEF ChampionInv, ContactPerEmail
      <3>3. QED
        BY <1>1, <3>1, <3>2 DEF ContactPerEmail
    <2>3. QED
      BY <2>1, <2>2
  <1>12. JudgedInv' /\ ReportedInv' /\ OneConcernAtATime' /\ AnnouncedIsStored'
    BY <1>1 DEF ChampionInv, JudgedInv, ReportedInv, OneConcernAtATime, AnnouncedIsStored, OnRecord
  <1>13. QED
    BY <1>9, <1>10, <1>11, <1>12 DEF ChampionInv

LEMMA ChampionResolve ==
  ASSUME ChampionInv, ResolveConcern
  PROVE  ChampionInv'
  <1>1. UNCHANGED <<day, contacts, check, save, announced, together, twiceSaved>>
    BY DEF ResolveConcern
  <1>2. PICK a \in concerns : /\ ~ a.resolved
                              /\ concerns' = (concerns \ {a}) \union {[a EXCEPT !.resolved = TRUE]}
    BY DEF ResolveConcern
  <1> DEFINE b == [a EXCEPT !.resolved = TRUE]
  <1>3. a \in ConcernRows /\ b \in ConcernRows /\ b.at = a.at /\ b.by = a.by /\ b.resolved
    BY DEF ChampionInv, ChampionTypeInv, ConcernRows
  <1>4. \A c \in concerns' : c = b \/ c \in concerns
    BY <1>2
  <1>5. \A c \in concerns : \E d \in concerns' : d.at = c.at
    BY <1>2, <1>3
  <1>6. ASSUME NEW c \in ConcernRows, OnRecord(c) PROVE OnRecord(c)'
    <2>1. [c EXCEPT !.resolved = TRUE].resolved
      BY <1>6 DEF ConcernRows
    <2>2. QED
      BY <1>2, <1>6, <2>1 DEF OnRecord
  <1> HIDE DEF b
  <1>7. ChampionTypeInv'
    BY <1>1, <1>3, <1>4 DEF ChampionInv, ChampionTypeInv
  <1>8. JudgedInv'
    <2>1. \A r \in Checks : \A c \in check[r].new : OnRecord(c) => OnRecord(c)'
      BY <1>6 DEF ChampionInv, ChampionTypeInv, CheckType
    <2>2. \A r \in Checks : check[r].pc \in Judging => \A c \in check[r].new, d \in concerns' :
            d.resolved \/ Apart(c, d) \/ {r, d.by} \in together
      BY <1>3, <1>4 DEF ChampionInv, JudgedInv
    <2>3. QED
      BY <1>1, <2>1, <2>2 DEF ChampionInv, JudgedInv
  <1>9. ReportedInv'
    <2> SUFFICES ASSUME NEW r \in Checks PROVE ReportedInv!(r)'
      BY DEF ReportedInv
    <2>1. \A c \in check[r].champions \ check[r].left : check[r].pc \in Judging /\ Inactive(c, check[r].now) =>
            \E d \in concerns' \union check[r].new : d.at >= check[r].now - Debounce
      BY <1>5 DEF ChampionInv, ReportedInv
    <2>2. \A c \in check[r].champions : check[r].pc \in {"publish", "done"} /\ Inactive(c, check[r].now) =>
            \E d \in concerns' : d.at >= check[r].now - Debounce
      BY <1>5 DEF ChampionInv, ReportedInv
    <2>3. QED
      BY <1>1, <2>1, <2>2 DEF ChampionInv, ReportedInv
  <1>10. OneConcernAtATime'
    BY <1>1, <1>3, <1>4 DEF ChampionInv, OneConcernAtATime
  <1>11. AnnouncedIsStored'
    <2> SUFFICES ASSUME NEW c \in announced, c = a
                 PROVE  c \in concerns' \/ [c EXCEPT !.resolved = TRUE] \in concerns'
      <3>1. ASSUME NEW c \in announced, c # a, c \in concerns \/ [c EXCEPT !.resolved = TRUE] \in concerns
            PROVE  c \in concerns' \/ [c EXCEPT !.resolved = TRUE] \in concerns'
        <4>1. CASE c \in concerns
          BY <1>2, <3>1, <4>1
        <4>2. CASE [c EXCEPT !.resolved = TRUE] \in concerns
          <5>1. [c EXCEPT !.resolved = TRUE] \in ConcernRows
            BY <4>2 DEF ChampionInv, ChampionTypeInv
          <5>2. CASE [c EXCEPT !.resolved = TRUE] = a
            BY <1>2, <1>3, <5>2 DEF b
          <5>3. CASE [c EXCEPT !.resolved = TRUE] # a
            BY <1>2, <4>2, <5>3
          <5>4. QED
            BY <5>2, <5>3
        <4>3. QED
          BY <3>1, <4>1, <4>2
      <3>2. QED
        BY <1>1, <3>1 DEF ChampionInv, AnnouncedIsStored
    <2>1. QED
      BY <1>2
  <1>12. SavedInv' /\ ContactPerEmail'
    BY <1>1 DEF ChampionInv, SavedInv, ContactPerEmail
  <1>13. QED
    BY <1>7, <1>8, <1>9, <1>10, <1>11, <1>12 DEF ChampionInv

LEMMA ChampionRest ==
  ChampionInv /\ (DayPasses \/ UNCHANGED championVars) => ChampionInv'
  <1> SUFFICES ASSUME ChampionInv, DayPasses \/ UNCHANGED championVars PROVE ChampionInv'
    OBVIOUS
  <1>1. /\ UNCHANGED <<contacts, concerns, check, save, announced, together, twiceSaved>>
        /\ day' = day \/ (day < LastDay /\ day' = day + 1)
    BY DEF DayPasses, championVars
  <1>2. ChampionTypeInv'
    BY <1>1, ChampionAssumption DEF ChampionInv, ChampionTypeInv
  <1>3. JudgedInv' /\ ReportedInv' /\ SavedInv'
    BY <1>1 DEF ChampionInv, JudgedInv, ReportedInv, SavedInv, OnRecord
  <1>4. OneConcernAtATime' /\ AnnouncedIsStored' /\ ContactPerEmail'
    BY <1>1 DEF ChampionInv, OneConcernAtATime, AnnouncedIsStored, ContactPerEmail
  <1>5. QED
    BY <1>2, <1>3, <1>4 DEF ChampionInv

LEMMA ChampionStep == ChampionInv /\ [ChampionNext]_championVars => ChampionInv'
  BY ChampionStart, ChampionJudge, ChampionCommit, ChampionAnnounce, ChampionKill, ChampionLookUp,
     ChampionWrite, ChampionResolve, ChampionRest DEF ChampionNext

LEMMA ChampionMeans == ChampionInv => ChampionsSound
  <1> SUFFICES ASSUME ChampionInv PROVE ChampionsSound
    OBVIOUS
  <1>1. ChampionTypeOK
    <2>1. \A s \in Saves : save[s].pc \in {"new", "write", "done"}
      <3> SUFFICES ASSUME NEW s \in Saves PROVE save[s].pc \in {"new", "write", "done"}
        OBVIOUS
      <3>1. save[s] \in SaveStates
        BY DEF ChampionInv, ChampionTypeInv
      <3>2. QED
        BY <3>1 DEF SaveStates
    <2>2. QED
      BY <2>1 DEF ChampionInv, ChampionTypeInv, ChampionTypeOK, ContactRows, ConcernRows, CheckType
  <1>2. QuietChampionReported
    BY DEF ChampionInv, ReportedInv, QuietChampionReported, Inactive
  <1>3. QED
    BY <1>1, <1>2 DEF ChampionInv, ChampionsSound

\* A quiet champion is reported, once for the account, and judged by the one row of its
\* address, while contacts are saved and anomalies resolved meanwhile (champion.py:40-96,
\* champions.py:85-111).
THEOREM ChampionsAreSound == ChampionInit /\ [][ChampionNext]_championVars => []ChampionsSound
  BY ChampionInitially, ChampionStep, ChampionMeans, PTL

---------------------------------------------------------------------------
(***************************************************************************)
(* Recommended interventions                                               *)
(***************************************************************************)
Replies == [told : Tiers, seen : Nat, until : Nat]
AskType == [pc : {"new", "look", "ask", "keep", "done"}, told : Tiers, began : Nat,
            answer : Tiers \union {Fallback}, seen : Nat, ended : Nat]

AdviceTypeInv ==
  /\ hour \in 0 .. LastHour /\ tier \in Tiers
  /\ cache \subseteq Replies /\ \A c, d \in cache : c = d
  /\ ask \in [Asks -> AskType]
  /\ asked \subseteq Asks \X Nat
  /\ blind \subseteq Asks /\ beside \subseteq Asks /\ failed \in Nat

\* What a request holds, or finds in the cache, is of the present hour or not much
\* older, and what the cache holds has not run out.
FreshInv ==
  /\ \A c \in cache : c.seen <= hour /\ hour < c.until /\ c.until <= c.seen + CacheLife + 1
                      /\ c.until <= Lost /\ c.until <= hour + CacheLife
  /\ \A r \in Asks : /\ ask[r].seen <= hour /\ ask[r].began <= hour
                     /\ ask[r].pc \in {"look", "ask", "keep"} => hour <= ask[r].began + 1
                     /\ ask[r].pc = "done" => ask[r].ended <= ask[r].seen + CacheLife + 1

\* A request asks the model once; its answer is in the cache from when the request
\* ends until a day has passed.
KeptInv ==
  /\ \A p \in asked : p[2] <= hour /\ ask[p[1]].pc \in {"keep", "done"}
  /\ \A p, q \in asked : p[1] = q[1] => p = q
  /\ \A p \in asked : ask[p[1]].pc = "done" /\ p[1] \notin blind =>
       p[2] + CacheLife <= hour \/ \E c \in cache : p[2] + CacheLife <= c.until

\* Requests that ask side by side know of each other, and who asks alone does so a day
\* after the others.
AloneInv ==
  /\ \A q, r \in Asking \ blind : q # r => {q, r} \subseteq beside
  /\ \A r \in Asking \ blind, p \in asked :
       p[1] # r /\ p[1] \notin blind => {p[1], r} \subseteq beside \/ p[2] + CacheLife <= hour

Fallbacks == {r \in Asks : ask[r].pc = "done" /\ ask[r].answer = Fallback}

FallbackInv == IsFiniteSet(Fallbacks) /\ Cardinality(Fallbacks) <= failed

AdviceInv == AdviceTypeInv /\ FreshInv /\ KeptInv /\ AloneInv /\ AskedOnceADay /\ FallbackInv

LEMMA AdviceInitially == RecommendInit => AdviceInv
  <1> SUFFICES ASSUME RecommendInit PROVE AdviceInv
    OBVIOUS
  <1>1. /\ hour = 0 /\ tier \in Tiers /\ cache = {} /\ asked = {} /\ blind = {} /\ beside = {}
        /\ failed = 0
        /\ ask = [r \in Asks |-> [pc |-> "new", told |-> tier, began |-> 0, answer |-> Fallback,
                                  seen |-> 0, ended |-> 0]]
    BY DEF RecommendInit
  <1>2. AdviceTypeInv
    <2>1. ask \in [Asks -> AskType]
      BY <1>1 DEF AskType
    <2>2. QED
      BY <1>1, <2>1, RecommendationAssumption DEF AdviceTypeInv
  <1>3. FreshInv /\ KeptInv /\ AskedOnceADay
    BY <1>1 DEF FreshInv, KeptInv, AskedOnceADay
  <1>4. AloneInv
    BY <1>1 DEF AloneInv, Asking
  <1>5. Fallbacks = {}
    BY <1>1 DEF Fallbacks
  <1>6. FallbackInv
    BY <1>1, <1>5, FS_EmptySet DEF FallbackInv
  <1>7. QED
    BY <1>2, <1>3, <1>4, <1>6 DEF AdviceInv

LEMMA AdvicePredict ==
  ASSUME AdviceInv, NEW r \in Asks, Predict(r)
  PROVE  AdviceInv'
  <1> DEFINE after == [ask[r] EXCEPT !.pc = "look", !.told = tier, !.began = hour]
  <1>1. /\ ask[r].pc = "new" /\ ask' = [ask EXCEPT ![r] = after]
        /\ UNCHANGED <<hour, tier, cache, asked, blind, beside, failed>>
    BY DEF Predict
  <1>2. /\ ask \in [Asks -> AskType] /\ after \in AskType /\ hour \in Nat
        /\ after.pc = "look" /\ after.began = hour /\ after.seen = ask[r].seen
    <2>1. ask \in [Asks -> AskType] /\ ask[r] \in AskType /\ tier \in Tiers /\ hour \in Nat
      BY RecommendationAssumption DEF AdviceInv, AdviceTypeInv
    <2>2. \A p \in AskType : [p EXCEPT !.pc = "look"] \in AskType
      BY DEF AskType
    <2>3. \A p \in AskType : [p EXCEPT !.told = tier] \in AskType
      BY <2>1 DEF AskType
    <2>4. \A p \in AskType : [p EXCEPT !.began = hour] \in AskType
      BY <2>1 DEF AskType
    <2>5. after = [[[ask[r] EXCEPT !.pc = "look"] EXCEPT !.told = tier] EXCEPT !.began = hour]
      OBVIOUS
    <2>6. after \in AskType
      BY <2>1, <2>2, <2>3, <2>4, <2>5
    <2>7. after.pc = "look" /\ after.began = hour /\ after.seen = ask[r].seen
      BY <2>1 DEF AskType
    <2>8. QED
      BY <2>1, <2>6, <2>7
  <1> HIDE DEF after
  <1>3. /\ ask' \in [Asks -> AskType] /\ ask'[r] = after
        /\ \A q \in Asks \ {r} : ask'[q] = ask[q]
    BY <1>1, <1>2
  <1>4. AdviceTypeInv'
    BY <1>1, <1>3 DEF AdviceInv, AdviceTypeInv
  <1>5. FreshInv'
    <2>1. \A q \in Asks : /\ ask'[q].seen <= hour /\ ask'[q].began <= hour
                          /\ ask'[q].pc \in {"look", "ask", "keep"} => hour <= ask'[q].began + 1
                          /\ ask'[q].pc = "done" => ask'[q].ended <= ask'[q].seen + CacheLife + 1
      BY <1>2, <1>3 DEF AdviceInv, FreshInv
    <2>2. QED
      BY <1>1, <2>1 DEF AdviceInv, FreshInv, Lost
  <1>6. \A p \in asked : p[1] \in Asks /\ p[1] # r
    BY <1>1 DEF AdviceInv, AdviceTypeInv, KeptInv
  <1>7. KeptInv'
    BY <1>1, <1>3, <1>6 DEF AdviceInv, KeptInv
  <1>8. Asking' = Asking
    BY <1>1, <1>2, <1>3 DEF Asking
  <1>9. AloneInv' /\ AskedOnceADay'
    BY <1>1, <1>8 DEF AdviceInv, AloneInv, AskedOnceADay
  <1>10. Fallbacks' = Fallbacks
    BY <1>1, <1>2, <1>3 DEF Fallbacks
  <1>11. FallbackInv'
    BY <1>1, <1>10 DEF AdviceInv, FallbackInv
  <1>12. QED
    BY <1>4, <1>5, <1>7, <1>9, <1>11 DEF AdviceInv

\* A request that ends, with whatever answer.
LEMMA AdviceEnds ==
  ASSUME AdviceInv, NEW r \in Asks, NEW answer \in Tiers \union {Fallback}, NEW seen \in Nat,
         ask[r].pc # "done", Answered(r, answer, seen), seen <= hour, hour <= seen + CacheLife + 1,
         hour' = hour, tier' = tier, asked' = asked, beside' = beside,
         failed' \in Nat, failed <= failed', answer = Fallback => failed' = failed + 1,
         cache' \subseteq Replies, \A c, d \in cache' : c = d,
         \A c \in cache' : c.seen <= hour /\ hour < c.until /\ c.until <= c.seen + CacheLife + 1
                           /\ c.until <= Lost /\ c.until <= hour + CacheLife,
         \A c \in cache : \E d \in cache' : c.until <= d.until,
         blind \subseteq blind', blind' \subseteq Asks,
         ask[r].pc \notin {"keep"} \/ r \in blind' \/ \E c \in cache' : hour + CacheLife <= c.until
  PROVE  AdviceInv'
  <1> DEFINE after == [ask[r] EXCEPT !.pc = "done", !.answer = answer, !.seen = seen, !.ended = hour]
  <1>1. /\ ask' = [ask EXCEPT ![r] = after]
        /\ ask \in [Asks -> AskType] /\ after \in AskType /\ hour \in Nat
        /\ after.pc = "done" /\ after.seen = seen /\ after.ended = hour /\ after.began = ask[r].began
        /\ after.answer = answer
    <2>1. ask \in [Asks -> AskType] /\ ask[r] \in AskType /\ hour \in Nat
      BY RecommendationAssumption DEF AdviceInv, AdviceTypeInv
    <2>2. \A p \in AskType : [p EXCEPT !.pc = "done"] \in AskType
      BY DEF AskType
    <2>3. \A p \in AskType : [p EXCEPT !.answer = answer] \in AskType
      BY DEF AskType
    <2>4. \A p \in AskType : [p EXCEPT !.seen = seen] \in AskType
      BY DEF AskType
    <2>5. \A p \in AskType : [p EXCEPT !.ended = hour] \in AskType
      BY <2>1 DEF AskType
    <2>6. after = [[[[ask[r] EXCEPT !.pc = "done"] EXCEPT !.answer = answer] EXCEPT !.seen = seen]
                     EXCEPT !.ended = hour]
      OBVIOUS
    <2>7. after \in AskType
      BY <2>1, <2>2, <2>3, <2>4, <2>5, <2>6
    <2>8. after.pc = "done" /\ after.seen = seen /\ after.ended = hour
          /\ after.began = ask[r].began /\ after.answer = answer
      BY <2>1 DEF AskType
    <2>9. ask' = [ask EXCEPT ![r] = after]
      BY DEF Answered
    <2>10. QED
      BY <2>1, <2>7, <2>8, <2>9
  <1> HIDE DEF after
  <1>2. /\ ask' \in [Asks -> AskType] /\ ask'[r] = after
        /\ \A q \in Asks \ {r} : ask'[q] = ask[q]
    BY <1>1
  <1>3. AdviceTypeInv'
    BY <1>2 DEF AdviceInv, AdviceTypeInv
  <1>4. FreshInv'
    <2>1. \A q \in Asks : /\ ask'[q].seen <= hour /\ ask'[q].began <= hour
                          /\ ask'[q].pc \in {"look", "ask", "keep"} => hour <= ask'[q].began + 1
                          /\ ask'[q].pc = "done" => ask'[q].ended <= ask'[q].seen + CacheLife + 1
      BY <1>1, <1>2 DEF AdviceInv, FreshInv
    <2>2. QED
      BY <2>1 DEF FreshInv, Lost
  <1>5. \A p \in asked : p[1] \in Asks /\ p[2] \in Nat /\ p[2] <= hour
    BY DEF AdviceInv, AdviceTypeInv, KeptInv
  <1>6. KeptInv'
    <2>1. \A p \in asked : ask'[p[1]].pc \in {"keep", "done"}
      BY <1>1, <1>2, <1>5 DEF AdviceInv, KeptInv
    <2>2. ASSUME NEW p \in asked, ask'[p[1]].pc = "done", p[1] \notin blind'
          PROVE  p[2] + CacheLife <= hour \/ \E c \in cache' : p[2] + CacheLife <= c.until
      <3>1. \A c \in cache : c.until \in Nat
        BY DEF AdviceInv, AdviceTypeInv, Replies
      <3>2. \A c \in cache' : c.until \in Nat
        BY DEF Replies
      <3>3. CASE p[1] # r
        <4>1. p[2] + CacheLife <= hour \/ \E c \in cache : p[2] + CacheLife <= c.until
          BY <1>2, <1>5, <2>2, <3>3 DEF AdviceInv, KeptInv
        <4>2. CASE p[2] + CacheLife <= hour
          BY <4>2
        <4>3. CASE \E c \in cache : p[2] + CacheLife <= c.until
          <5>1. PICK c \in cache : p[2] + CacheLife <= c.until
            BY <4>3
          <5>2. PICK d \in cache' : c.until <= d.until
            OBVIOUS
          <5>3. p[2] + CacheLife <= d.until
            BY <1>5, <3>1, <3>2, <5>1, <5>2, RecommendationAssumption
          <5>4. QED
            BY <5>3
        <4>4. QED
          BY <4>1, <4>2, <4>3
      <3>4. CASE p[1] = r
        <4>1. ask[r].pc = "keep"
          BY <3>4 DEF AdviceInv, KeptInv
        <4>2. PICK c \in cache' : hour + CacheLife <= c.until
          BY <2>2, <3>4, <4>1
        <4>3. p[2] + CacheLife <= c.until
          BY <1>1, <1>5, <3>2, <4>2, RecommendationAssumption
        <4>4. QED
          BY <4>3
      <3>5. QED
        BY <3>3, <3>4
    <2>3. QED
      BY <2>1, <2>2 DEF AdviceInv, KeptInv
  <1>7. Asking' \subseteq Asking
    BY <1>1, <1>2 DEF Asking
  <1>8. AloneInv'
    BY <1>7 DEF AdviceInv, AloneInv
  <1>9. AskedOnceADay'
    BY DEF AdviceInv, AskedOnceADay
  <1>10. FallbackInv'
    <2>1. Fallbacks' = Fallbacks \union (IF answer = Fallback THEN {r} ELSE {})
      BY <1>1, <1>2 DEF Fallbacks
    <2>2. r \notin Fallbacks
      BY DEF Fallbacks
    <2>3. IsFiniteSet(Fallbacks) /\ Cardinality(Fallbacks) <= failed /\ Cardinality(Fallbacks) \in Nat
          /\ failed \in Nat
      BY FS_CardinalityType DEF AdviceInv, FallbackInv, AdviceTypeInv
    <2>4. CASE answer = Fallback
      <3>1. Fallbacks' = Fallbacks \union {r}
        BY <2>1, <2>4
      <3>2. IsFiniteSet(Fallbacks') /\ Cardinality(Fallbacks') = Cardinality(Fallbacks) + 1
        BY <2>2, <2>3, <3>1, FS_AddElement
      <3>3. QED
        BY <2>3, <2>4, <3>2 DEF FallbackInv
    <2>5. CASE answer # Fallback
      <3>1. Fallbacks' = Fallbacks
        BY <2>1, <2>5
      <3>2. QED
        BY <2>3, <3>1 DEF FallbackInv
    <2>6. QED
      BY <2>4, <2>5
  <1>11. QED
    BY <1>3, <1>4, <1>6, <1>8, <1>9, <1>10 DEF AdviceInv

\* A request that finds no answer in the cache, or cannot look, is about to ask.
LEMMA AdviceGoesOn ==
  ASSUME AdviceInv, NEW r \in Asks, ask[r].pc = "look", ask' = [ask EXCEPT ![r].pc = "ask"],
         UNCHANGED <<hour, tier, cache, asked>>,
         blind \subseteq blind', blind' \subseteq Asks,
         beside \subseteq beside', beside' \subseteq Asks,
         failed' \in Nat, failed <= failed',
         r \in blind' \/ (cache = {} /\ (Asking = {} \/ Asking \union {r} \subseteq beside'))
  PROVE  AdviceInv'
  <1> DEFINE after == [ask[r] EXCEPT !.pc = "ask"]
  <1>1. /\ ask' = [ask EXCEPT ![r] = after]
        /\ ask \in [Asks -> AskType] /\ after \in AskType /\ hour \in Nat
        /\ after.pc = "ask" /\ after.seen = ask[r].seen /\ after.began = ask[r].began
    <2>1. ask \in [Asks -> AskType] /\ ask[r] \in AskType /\ hour \in Nat
      BY RecommendationAssumption DEF AdviceInv, AdviceTypeInv
    <2>2. QED
      BY <2>1 DEF AskType
  <1> HIDE DEF after
  <1>2. /\ ask' \in [Asks -> AskType] /\ ask'[r] = after
        /\ \A q \in Asks \ {r} : ask'[q] = ask[q]
    BY <1>1
  <1>3. AdviceTypeInv'
    BY <1>2 DEF AdviceInv, AdviceTypeInv
  <1>4. FreshInv'
    <2>1. \A q \in Asks : /\ ask'[q].seen <= hour /\ ask'[q].began <= hour
                          /\ ask'[q].pc \in {"look", "ask", "keep"} => hour <= ask'[q].began + 1
                          /\ ask'[q].pc = "done" => ask'[q].ended <= ask'[q].seen + CacheLife + 1
      BY <1>1, <1>2 DEF AdviceInv, FreshInv
    <2>2. QED
      BY <2>1 DEF AdviceInv, FreshInv, Lost
  <1>5. \A p \in asked : p[1] \in Asks /\ p[1] # r /\ ask[p[1]].pc \in {"keep", "done"}
    BY DEF AdviceInv, AdviceTypeInv, KeptInv
  <1>6. KeptInv'
    BY <1>2, <1>5 DEF AdviceInv, KeptInv
  <1>7. Asking' = Asking \union {r} /\ Asking \subseteq Asks
    BY <1>1, <1>2 DEF Asking
  <1>8. AloneInv'
    <2>1. ASSUME NEW q \in Asking' \ blind', NEW p \in Asking' \ blind', q # p
          PROVE  {q, p} \subseteq beside'
      <3>1. CASE q # r /\ p # r
        BY <1>7, <2>1, <3>1 DEF AdviceInv, AloneInv
      <3>2. CASE q = r \/ p = r
        BY <1>7, <2>1, <3>2
      <3>3. QED
        BY <3>1, <3>2
    <2>2. ASSUME NEW q \in Asking' \ blind', NEW p \in asked, p[1] # q, p[1] \notin blind'
          PROVE  {p[1], q} \subseteq beside' \/ p[2] + CacheLife <= hour
      <3>1. CASE q # r
        BY <1>7, <2>2, <3>1 DEF AdviceInv, AloneInv
      <3>2. CASE q = r
        <4>1. cache = {} /\ (Asking = {} \/ Asking \union {r} \subseteq beside')
          BY <2>2, <3>2
        <4>2. CASE ask[p[1]].pc = "keep"
          <5>1. p[1] \in Asking
            BY <1>5, <4>2 DEF Asking
          <5>2. QED
            BY <3>2, <4>1, <5>1
        <4>3. CASE ask[p[1]].pc = "done"
          BY <2>2, <4>1, <4>3 DEF AdviceInv, KeptInv
        <4>4. QED
          BY <1>5, <4>2, <4>3
      <3>3. QED
        BY <3>1, <3>2
    <2>3. QED
      BY <2>1, <2>2 DEF AloneInv
  <1>9. AskedOnceADay'
    BY DEF AdviceInv, AskedOnceADay
  <1>10. Fallbacks' = Fallbacks
    BY <1>1, <1>2 DEF Fallbacks
  <1>11. FallbackInv'
    <2>1. Cardinality(Fallbacks) \in Nat /\ failed \in Nat /\ Cardinality(Fallbacks) <= failed
          /\ IsFiniteSet(Fallbacks)
      BY FS_CardinalityType DEF AdviceInv, FallbackInv, AdviceTypeInv
    <2>2. Cardinality(Fallbacks) <= failed'
      BY <2>1
    <2>3. QED
      BY <1>10, <2>1, <2>2 DEF FallbackInv
  <1>12. QED
    BY <1>3, <1>4, <1>6, <1>8, <1>9, <1>11 DEF AdviceInv

\* What the other lemmas use of the types.
LEMMA AdviceTypes ==
  ASSUME AdviceInv, NEW r \in Asks
  PROVE  /\ hour \in Nat /\ hour <= LastHour /\ failed \in Nat /\ CacheLife \in Nat
         /\ ask[r] \in AskType /\ ask[r].told \in Tiers
         /\ ask[r].began \in Nat /\ ask[r].began <= hour
         /\ cache \subseteq Replies /\ \A c, d \in cache : c = d
         /\ \A c \in cache : /\ c.seen \in Nat /\ c.until \in Nat /\ c.told \in Tiers
                             /\ c.seen <= hour /\ hour < c.until /\ c.until <= c.seen + CacheLife + 1
                             /\ c.until <= Lost /\ c.until <= hour + CacheLife
         /\ blind \subseteq Asks /\ beside \subseteq Asks
  <1>1. hour \in 0 .. LastHour /\ failed \in Nat /\ ask[r] \in AskType /\ cache \subseteq Replies
        /\ blind \subseteq Asks /\ beside \subseteq Asks /\ \A c, d \in cache : c = d
    BY DEF AdviceInv, AdviceTypeInv
  <1>2. ask[r].began <= hour
    BY DEF AdviceInv, FreshInv
  <1>3. \A c \in cache : /\ c.seen <= hour /\ hour < c.until /\ c.until <= c.seen + CacheLife + 1
                         /\ c.until <= Lost /\ c.until <= hour + CacheLife
    BY DEF AdviceInv, FreshInv
  <1>4. \A c \in cache : c.seen \in Nat /\ c.until \in Nat /\ c.told \in Tiers
    BY <1>1 DEF Replies
  <1>5. QED
    BY <1>1, <1>2, <1>3, <1>4, RecommendationAssumption DEF AskType

LEMMA AdviceLook ==
  ASSUME AdviceInv, NEW r \in Asks, LookInCache(r)
  PROVE  AdviceInv'
  <1>1. ask[r].pc = "look" /\ UNCHANGED <<hour, tier, cache, asked, blind, failed>>
    BY DEF LookInCache
  <1>2. CASE cache # {}
    <2>1. PICK c \in cache : Answered(r, c.told, c.seen)
      BY <1>2 DEF LookInCache, Hit
    <2>2. beside' = beside
      BY <1>2 DEF LookInCache, Hit
    <2>3. /\ c.told \in Tiers /\ c.told # Fallback /\ c.seen \in Nat /\ c.seen <= hour
          /\ c.until \in Nat /\ hour \in Nat /\ CacheLife \in Nat
          /\ hour < c.until /\ c.until <= c.seen + CacheLife + 1
      BY AdviceTypes, RecommendationAssumption
    <2>4. hour <= c.seen + CacheLife + 1
      BY <2>3
    <2>5. \A d \in cache : d.until <= d.until
      BY AdviceTypes
    <2>6. QED
      BY <1>1, <2>1, <2>2, <2>3, <2>4, <2>5, AdviceTypes, AdviceEnds
  <1>3. CASE cache = {}
    <2>1. /\ ask' = [ask EXCEPT ![r].pc = "ask"]
          /\ beside' = beside \union (IF Asking = {} THEN {} ELSE Asking \union {r})
      BY <1>3 DEF LookInCache, Hit
    <2>2. /\ beside \subseteq beside' /\ beside' \subseteq Asks
          /\ Asking = {} \/ Asking \union {r} \subseteq beside'
      BY <2>1, AdviceTypes DEF Asking
    <2>3. /\ failed' \in Nat /\ failed <= failed' /\ blind \subseteq blind' /\ blind' \subseteq Asks
      BY <1>1, AdviceTypes
    <2>4. QED
      BY <1>1, <1>3, <2>1, <2>2, <2>3, AdviceGoesOn
  <1>4. QED
    BY <1>2, <1>3

LEMMA AdviceAsk ==
  ASSUME AdviceInv, NEW r \in Asks, AskModel(r)
  PROVE  AdviceInv'
  <1> DEFINE after == [ask[r] EXCEPT !.pc = "keep"]
  <1>1. /\ ask[r].pc = "ask" /\ ask' = [ask EXCEPT ![r] = after]
        /\ asked' = asked \union {<<r, hour>>}
        /\ UNCHANGED <<hour, tier, cache, blind, beside, failed>>
    BY DEF AskModel
  <1>2. /\ ask \in [Asks -> AskType] /\ after \in AskType /\ hour \in Nat
        /\ after.pc = "keep" /\ after.seen = ask[r].seen /\ after.began = ask[r].began
    <2>1. ask \in [Asks -> AskType] /\ ask[r] \in AskType /\ hour \in Nat
      BY RecommendationAssumption DEF AdviceInv, AdviceTypeInv
    <2>2. QED
      BY <2>1 DEF AskType
  <1> HIDE DEF after
  <1>3. /\ ask' \in [Asks -> AskType] /\ ask'[r] = after
        /\ \A q \in Asks \ {r} : ask'[q] = ask[q]
    BY <1>1, <1>2
  <1>4. AdviceTypeInv'
    BY <1>1, <1>2, <1>3 DEF AdviceInv, AdviceTypeInv
  <1>5. FreshInv'
    <2>1. \A q \in Asks : /\ ask'[q].seen <= hour /\ ask'[q].began <= hour
                          /\ ask'[q].pc \in {"look", "ask", "keep"} => hour <= ask'[q].began + 1
                          /\ ask'[q].pc = "done" => ask'[q].ended <= ask'[q].seen + CacheLife + 1
      BY <1>1, <1>2, <1>3 DEF AdviceInv, FreshInv
    <2>2. QED
      BY <1>1, <2>1 DEF AdviceInv, FreshInv, Lost
  <1>6. \A p \in asked : p[1] \in Asks /\ p[1] # r /\ p[2] \in Nat /\ p[2] <= hour
    BY <1>1 DEF AdviceInv, AdviceTypeInv, KeptInv
  <1>7. \A p \in asked' : p \in asked \/ (p = <<r, hour>> /\ p[1] = r /\ p[2] = hour)
    BY <1>1
  <1>8. KeptInv'
    <2>1. \A p \in asked' : p[2] <= hour /\ ask'[p[1]].pc \in {"keep", "done"}
      BY <1>2, <1>3, <1>6, <1>7 DEF AdviceInv, KeptInv
    <2>2. \A p, q \in asked' : p[1] = q[1] => p = q
      BY <1>6, <1>7 DEF AdviceInv, KeptInv
    <2>3. \A p \in asked' : ask'[p[1]].pc = "done" /\ p[1] \notin blind =>
            p[2] + CacheLife <= hour \/ \E c \in cache : p[2] + CacheLife <= c.until
      BY <1>2, <1>3, <1>6, <1>7 DEF AdviceInv, KeptInv
    <2>4. QED
      BY <1>1, <2>1, <2>2, <2>3 DEF KeptInv
  <1>9. Asking' = Asking /\ r \in Asking
    BY <1>1, <1>2, <1>3 DEF Asking
  <1>10. AloneInv'
    <2>1. ASSUME NEW q \in Asking \ blind, NEW p \in asked', p[1] # q, p[1] \notin blind
          PROVE  {p[1], q} \subseteq beside \/ p[2] + CacheLife <= hour
      <3>1. CASE p \in asked
        BY <2>1, <3>1 DEF AdviceInv, AloneInv
      <3>2. CASE p[1] = r
        BY <1>9, <2>1, <3>2 DEF AdviceInv, AloneInv
      <3>3. QED
        BY <1>7, <3>1, <3>2
    <2>2. QED
      BY <1>1, <1>9, <2>1 DEF AdviceInv, AloneInv
  <1>11. AskedOnceADay'
    <2> SUFFICES ASSUME NEW p \in asked', NEW q \in asked', p[2] <= q[2], q[2] - p[2] < CacheLife,
                        p # q, {p[1], q[1]} \intersect blind = {}
                 PROVE  {p[1], q[1]} \subseteq beside
      BY <1>1 DEF AskedOnceADay
    <2>1. CASE p \in asked /\ q \in asked
      BY <2>1 DEF AdviceInv, AskedOnceADay
    <2>2. CASE p \in asked /\ q = <<r, hour>>
      <3>1. q[1] = r /\ q[2] = hour /\ p[1] # r /\ r \in Asking \ blind /\ p[1] \notin blind
        BY <1>6, <1>9, <2>2
      <3>2. {p[1], r} \subseteq beside \/ p[2] + CacheLife <= hour
        BY <2>2, <3>1 DEF AdviceInv, AloneInv
      <3>3. ~ (p[2] + CacheLife <= hour)
        BY <1>2, <1>6, <2>2, <3>1, RecommendationAssumption
      <3>4. QED
        BY <3>1, <3>2, <3>3
    <2>3. CASE q \in asked /\ p = <<r, hour>>
      <3>1. p[1] = r /\ p[2] = hour /\ q[1] # r /\ r \in Asking \ blind /\ q[1] \notin blind
        BY <1>6, <1>9, <2>3
      <3>2. {q[1], r} \subseteq beside \/ q[2] + CacheLife <= hour
        BY <2>3, <3>1 DEF AdviceInv, AloneInv
      <3>3. ~ (q[2] + CacheLife <= hour)
        BY <1>2, <1>6, <2>3, <3>1, RecommendationAssumption
      <3>4. QED
        BY <3>1, <3>2, <3>3
    <2>4. QED
      BY <1>7, <2>1, <2>2, <2>3
  <1>12. Fallbacks' = Fallbacks
    BY <1>1, <1>2, <1>3 DEF Fallbacks
  <1>13. FallbackInv'
    BY <1>1, <1>12 DEF AdviceInv, FallbackInv
  <1>14. QED
    BY <1>4, <1>5, <1>8, <1>10, <1>11, <1>13 DEF AdviceInv

LEMMA AdviceKeep ==
  ASSUME AdviceInv, NEW r \in Asks, KeepAnswer(r)
  PROVE  AdviceInv'
  <1> DEFINE kept == [told |-> ask[r].told, seen |-> ask[r].began, until |-> hour + CacheLife]
  <1>1. /\ ask[r].pc = "keep" /\ Answered(r, ask[r].told, ask[r].began)
        /\ cache' = {kept}
        /\ UNCHANGED <<hour, tier, asked, blind, beside, failed>>
    BY DEF KeepAnswer, Kept
  <1>2. hour <= ask[r].began + 1
    BY <1>1 DEF AdviceInv, FreshInv
  <1>3. /\ ask[r].told \in Tiers /\ ask[r].told # Fallback /\ ask[r].began \in Nat /\ hour \in Nat
        /\ ask[r].began <= hour /\ CacheLife \in Nat \ {0} /\ hour <= LastHour /\ LastHour \in Nat
        /\ failed \in Nat
    BY AdviceTypes, RecommendationAssumption
  <1>4. kept \in Replies /\ kept.seen = ask[r].began /\ kept.until = hour + CacheLife
    BY <1>3 DEF Replies
  <1>5. /\ kept.seen <= hour /\ hour < kept.until /\ kept.until <= kept.seen + CacheLife + 1
        /\ kept.until <= Lost /\ kept.until <= hour + CacheLife
        /\ hour <= ask[r].began + CacheLife + 1
    BY <1>2, <1>3, <1>4 DEF Lost
  <1> HIDE DEF kept
  <1>6. \A c \in cache : c.until <= kept.until
    BY <1>4, AdviceTypes
  <1>7. QED
    BY <1>1, <1>3, <1>4, <1>5, <1>6, AdviceTypes, AdviceEnds

LEMMA AdviceModelFails ==
  ASSUME AdviceInv, NEW r \in Asks, ModelFails(r)
  PROVE  AdviceInv'
  <1>1. /\ ask[r].pc = "ask" /\ Answered(r, Fallback, hour) /\ cache' = cache /\ failed' = failed + 1
        /\ UNCHANGED <<hour, tier, asked, blind, beside>>
    BY DEF ModelFails, LeftByFailure
  <1>2. /\ hour \in Nat /\ CacheLife \in Nat /\ failed \in Nat /\ failed' \in Nat /\ failed <= failed'
        /\ hour <= hour /\ hour <= hour + CacheLife + 1
    BY <1>1, AdviceTypes
  <1>3. \A c \in cache : c.until <= c.until
    BY AdviceTypes
  <1>4. QED
    BY <1>1, <1>2, <1>3, AdviceTypes, AdviceEnds

LEMMA AdviceRedisFails ==
  ASSUME AdviceInv, NEW r \in Asks, RedisFails(r)
  PROVE  AdviceInv'
  <1>1. /\ failed' = failed + 1 /\ blind' = blind \union {r}
        /\ UNCHANGED <<hour, tier, cache, asked, beside>>
    BY DEF RedisFails
  <1>2. /\ failed \in Nat /\ failed' \in Nat /\ failed <= failed'
        /\ blind \subseteq blind' /\ blind' \subseteq Asks /\ r \in blind'
    BY <1>1, AdviceTypes
  <1>3. CASE ask[r].pc = "look" /\ ask' = [ask EXCEPT ![r].pc = "ask"]
    BY <1>1, <1>2, <1>3, AdviceTypes, AdviceGoesOn
  <1>4. CASE ask[r].pc = "keep" /\ Answered(r, ask[r].told, ask[r].began)
    <2>1. hour <= ask[r].began + 1
      BY <1>4 DEF AdviceInv, FreshInv
    <2>2. /\ ask[r].told \in Tiers /\ ask[r].told # Fallback /\ ask[r].began \in Nat
          /\ ask[r].began <= hour /\ hour <= ask[r].began + CacheLife + 1
      BY <2>1, AdviceTypes, RecommendationAssumption
    <2>3. \A c \in cache : c.until <= c.until
      BY AdviceTypes
    <2>4. QED
      BY <1>1, <1>2, <1>4, <2>2, <2>3, AdviceTypes, AdviceEnds
  <1>5. QED
    BY <1>3, <1>4 DEF RedisFails

LEMMA AdviceHour ==
  ASSUME AdviceInv, HourPasses
  PROVE  AdviceInv'
  <1>1. /\ hour < LastHour /\ hour' = hour + 1
        /\ \A r \in Asks : ask[r].pc \in {"new", "done"} \/ ask[r].began = hour
        /\ cache' = {c \in cache : c.until > hour + 1}
        /\ UNCHANGED <<tier, ask, asked, blind, beside, failed>>
    BY DEF HourPasses
  <1>2. /\ hour \in Nat /\ hour' \in 0 .. LastHour /\ CacheLife \in Nat /\ ask \in [Asks -> AskType]
        /\ cache \subseteq Replies /\ \A c, d \in cache : c = d
        /\ asked \subseteq Asks \X Nat
    BY <1>1, RecommendationAssumption DEF AdviceInv, AdviceTypeInv
  <1>3. AdviceTypeInv'
    BY <1>1, <1>2 DEF AdviceInv, AdviceTypeInv
  <1>4. FreshInv'
    <2>1. ASSUME NEW c \in cache'
          PROVE  c.seen <= hour' /\ hour' < c.until /\ c.until <= c.seen + CacheLife + 1
                 /\ c.until <= Lost /\ c.until <= hour' + CacheLife
      <3>1. c \in cache /\ c.until > hour + 1 /\ c.seen \in Nat /\ c.until \in Nat
        BY <1>1, <1>2 DEF Replies
      <3>2. QED
        BY <1>1, <1>2, <3>1 DEF AdviceInv, FreshInv
    <2>2. ASSUME NEW r \in Asks
          PROVE  /\ ask[r].seen <= hour' /\ ask[r].began <= hour'
                 /\ ask[r].pc \in {"look", "ask", "keep"} => hour' <= ask[r].began + 1
                 /\ ask[r].pc = "done" => ask[r].ended <= ask[r].seen + CacheLife + 1
      <3>1. ask[r].seen \in Nat /\ ask[r].began \in Nat
        BY <1>2 DEF AskType
      <3>2. QED
        BY <1>1, <1>2, <3>1 DEF AdviceInv, FreshInv
    <2>3. QED
      BY <1>1, <2>1, <2>2 DEF FreshInv, Lost
  <1>5. \A p \in asked : p[1] \in Asks /\ p[2] \in Nat /\ p[2] <= hour
    BY <1>2 DEF AdviceInv, KeptInv
  <1>6. KeptInv'
    <2>1. ASSUME NEW p \in asked, ask[p[1]].pc = "done", p[1] \notin blind
          PROVE  p[2] + CacheLife <= hour' \/ \E c \in cache' : p[2] + CacheLife <= c.until
      <3>1. p[2] + CacheLife <= hour \/ \E c \in cache : p[2] + CacheLife <= c.until
        BY <2>1 DEF AdviceInv, KeptInv
      <3>2. CASE p[2] + CacheLife <= hour
        BY <1>1, <1>2, <1>5, <3>2
      <3>3. CASE \E c \in cache : p[2] + CacheLife <= c.until
        <4>1. PICK c \in cache : p[2] + CacheLife <= c.until
          BY <3>3
        <4>2. c.until \in Nat
          BY <1>2 DEF Replies
        <4>3. CASE c.until > hour + 1
          BY <1>1, <4>1, <4>3
        <4>4. CASE ~ (c.until > hour + 1)
          BY <1>1, <1>2, <1>5, <4>1, <4>2, <4>4
        <4>5. QED
          BY <4>3, <4>4
      <3>4. QED
        BY <3>1, <3>2, <3>3
    <2>2. \A p \in asked : p[2] <= hour'
      BY <1>1, <1>2, <1>5
    <2>3. QED
      BY <1>1, <2>1, <2>2 DEF AdviceInv, KeptInv
  <1>7. AloneInv'
    <2>1. Asking' = Asking
      BY <1>1 DEF Asking
    <2>2. ASSUME NEW r \in Asking \ blind, NEW p \in asked, p[1] # r, p[1] \notin blind
          PROVE  {p[1], r} \subseteq beside \/ p[2] + CacheLife <= hour'
      BY <1>1, <1>2, <1>5, <2>2 DEF AdviceInv, AloneInv
    <2>3. QED
      BY <1>1, <2>1, <2>2 DEF AdviceInv, AloneInv
  <1>8. AskedOnceADay'
    BY <1>1 DEF AdviceInv, AskedOnceADay
  <1>9. Fallbacks' = Fallbacks
    BY <1>1 DEF Fallbacks
  <1>10. FallbackInv'
    BY <1>1, <1>9 DEF AdviceInv, FallbackInv
  <1>11. QED
    BY <1>3, <1>4, <1>6, <1>7, <1>8, <1>10 DEF AdviceInv

LEMMA AdviceRest ==
  AdviceInv /\ (TierChanges \/ UNCHANGED recommendVars) => AdviceInv'
  <1> SUFFICES ASSUME AdviceInv, TierChanges \/ UNCHANGED recommendVars PROVE AdviceInv'
    OBVIOUS
  <1>1. UNCHANGED <<hour, cache, ask, asked, blind, beside, failed>> /\ tier' \in Tiers
    BY DEF TierChanges, recommendVars, AdviceInv, AdviceTypeInv
  <1>2. AdviceTypeInv' /\ FreshInv' /\ KeptInv'
    BY <1>1 DEF AdviceInv, AdviceTypeInv, FreshInv, KeptInv, Lost
  <1>3. AloneInv' /\ AskedOnceADay' /\ FallbackInv'
    BY <1>1 DEF AdviceInv, AloneInv, AskedOnceADay, FallbackInv, Asking, Fallbacks
  <1>4. QED
    BY <1>2, <1>3 DEF AdviceInv

LEMMA AdviceStep == AdviceInv /\ [RecommendNext]_recommendVars => AdviceInv'
  BY AdvicePredict, AdviceLook, AdviceAsk, AdviceKeep, AdviceModelFails, AdviceRedisFails,
     AdviceHour, AdviceRest DEF RecommendNext

LEMMA AdviceMeans == AdviceInv => AdviceSound
  <1> SUFFICES ASSUME AdviceInv PROVE AdviceSound
    OBVIOUS
  <1>1. RecommendTypeOK
    <2>1. Cardinality(cache) <= 1
      <3>1. CASE cache = {}
        BY <3>1, FS_EmptySet
      <3>2. CASE cache # {}
        <4>1. PICK c \in cache : cache = {c}
          BY <3>2 DEF AdviceInv, AdviceTypeInv
        <4>2. Cardinality({c}) = 1
          BY FS_Singleton
        <4>3. QED
          BY <4>1, <4>2
      <3>3. QED
        BY <3>1, <3>2
    <2>2. ASSUME NEW c \in cache
          PROVE  c.told \in Tiers /\ c.seen \in 0 .. hour /\ c.until \in 0 .. Lost
      <3>1. c.told \in Tiers /\ c.seen \in Nat /\ c.until \in Nat /\ hour \in Nat
        BY RecommendationAssumption DEF AdviceInv, AdviceTypeInv, Replies
      <3>2. QED
        BY <3>1, RecommendationAssumption DEF AdviceInv, FreshInv, Lost
    <2>3. ASSUME NEW r \in Asks
          PROVE  /\ ask[r].pc \in {"new", "look", "ask", "keep", "done"}
                 /\ ask[r].answer \in Tiers \union {Fallback} /\ ask[r].seen \in 0 .. hour
      <3>1. ask[r] \in AskType /\ hour \in Nat
        BY RecommendationAssumption DEF AdviceInv, AdviceTypeInv
      <3>2. ask[r].seen <= hour
        BY DEF AdviceInv, FreshInv
      <3>3. QED
        BY <3>1, <3>2 DEF AskType
    <2>4. QED
      BY <2>1, <2>2, <2>3 DEF AdviceInv, AdviceTypeInv, RecommendTypeOK
  <1>2. RecommendedOnRecentRisk
    <2> SUFFICES ASSUME NEW r \in Asks, ask[r].pc = "done"
                 PROVE  ask[r].ended - ask[r].seen <= CacheLife + 1
      BY DEF RecommendedOnRecentRisk
    <2>1. ask[r].ended \in Nat /\ ask[r].seen \in Nat /\ CacheLife \in Nat
      BY RecommendationAssumption DEF AdviceInv, AdviceTypeInv, AskType
    <2>2. ask[r].ended <= ask[r].seen + CacheLife + 1
      BY DEF AdviceInv, FreshInv
    <2>3. QED
      BY <2>1, <2>2
  <1>3. FallbackNotKept
    BY DEF AdviceInv, FallbackInv, Fallbacks, FallbackNotKept
  <1>4. QED
    BY <1>1, <1>2, <1>3 DEF AdviceInv, AdviceSound

\* Nobody is given a stale recommendation, the model is not asked again within the day,
\* and its failures are not remembered, whatever Redis and the model do
\* (interventions.py:80-148).
THEOREM AdviceIsSound == RecommendInit /\ [][RecommendNext]_recommendVars => []AdviceSound
  BY AdviceInitially, AdviceStep, AdviceMeans, PTL

---------------------------------------------------------------------------
(* The components side by side: in a step of one the others rest.          *)

LEMMA OnlyItsPart ==
  ASSUME [Next]_recordVars
  PROVE  /\ part' = part
         /\ part = "alert" => [AlertNext]_alertVars
         /\ part = "crm" => [CrmNext]_crmVars
         /\ part = "champion" => [ChampionNext]_championVars
         /\ part = "recommendation" => [RecommendNext]_recommendVars
  <1>1. CASE UNCHANGED recordVars
    BY <1>1 DEF recordVars
  <1>2. CASE Next
    BY <1>2 DEF Next, Others
  <1>3. QED
    BY <1>1, <1>2

\* A loss over the threshold is announced once and in time, of a loss that is stored
\* (worker.py:258-309, analytics.py:191-220).
THEOREM RevenueStaysSound == Spec => []RevenueSound
  <1> DEFINE Inv == part = "alert" => AlertInv
  <1>1. Init => Inv
    BY AlertInitially DEF Init
  <1>2. Inv /\ [Next]_recordVars => Inv'
    BY OnlyItsPart, AlertStep
  <1>3. Inv => RevenueSound
    BY AlertMeans DEF RevenueSound
  <1>4. QED
    BY <1>1, <1>2, <1>3, PTL DEF Spec

\* What a CRM shows, what the log says and what a request answers agree
\* (core/crm/engine.py:41-108).
THEOREM CrmStaysSound == Spec => []CrmSound
  <1> DEFINE Inv == part = "crm" => CrmInv
  <1>1. Init => Inv
    BY CrmInitially DEF Init
  <1>2. Inv /\ [Next]_recordVars => Inv'
    BY OnlyItsPart, CrmStep
  <1>3. Inv => CrmSound
    BY CrmMeans DEF CrmSound
  <1>4. QED
    BY <1>1, <1>2, <1>3, PTL DEF Spec

\* A quiet champion is reported, once, and an address has one row to judge by
\* (champion.py:40-96, champions.py:85-111).
THEOREM ContactsStaySound == Spec => []ContactsSound
  <1> DEFINE Inv == part = "champion" => ChampionInv
  <1>1. Init => Inv
    BY ChampionInitially DEF Init
  <1>2. Inv /\ [Next]_recordVars => Inv'
    BY OnlyItsPart, ChampionStep
  <1>3. Inv => ContactsSound
    BY ChampionMeans DEF ContactsSound
  <1>4. QED
    BY <1>1, <1>2, <1>3, PTL DEF Spec

\* Recommendations are fresh enough, and the model is not asked for them again and again
\* (interventions.py:80-148).
THEOREM RecommendationsStaySound == Spec => []RecommendationsSound
  <1> DEFINE Inv == part = "recommendation" => AdviceInv
  <1>1. Init => Inv
    BY AdviceInitially DEF Init
  <1>2. Inv /\ [Next]_recordVars => Inv'
    BY OnlyItsPart, AdviceStep
  <1>3. Inv => RecommendationsSound
    BY AdviceMeans DEF RecommendationsSound
  <1>4. QED
    BY <1>1, <1>2, <1>3, PTL DEF Spec
=============================================================================
