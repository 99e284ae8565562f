---------------------------- MODULE RevenueAlert ----------------------------
(***************************************************************************)
(* One tenant's revenue-at-risk snapshots and the alert that follows them. *)
(* The nightly job (worker.py:258) measures the expected loss over three   *)
(* horizons, one query each, stores the day's snapshot, commits, and then  *)
(* compares the 90-day loss with the tenant's alert configuration, which   *)
(* the settings endpoint (analytics.py:191) may be changing.               *)
(*                                                                         *)
(* Time is counted in ticks, Day of them from one 1:00 to the next.  The   *)
(* loss over 30 days is the number `exposure'; 60 and 90 days scale it.    *)
(***************************************************************************)
EXTENDS Integers, Sequences, FiniteSets

CONSTANTS
  Day,          \* ticks in a day
  Nights,       \* bound: nights explored
  Exposures,    \* the 30-day losses that scoring may leave
  Puts,         \* requests that change the configuration
  Settings,     \* what a request may ask for: a threshold, and whether to alert
  MaxRescores,  \* bound: changes of the exposure
  MaxKills      \* bound: deaths of the job

ASSUME AlertAssumption ==
  /\ Day \in Nat \ {0} /\ Nights \in Nat \ {0}
  /\ Exposures \subseteq Nat /\ Exposures # {}
  /\ Settings \subseteq [threshold : Nat, enabled : BOOLEAN]

VARIABLES
  tick,        \* time
  exposure,    \* the 30-day loss as the customers table has it now
  snapshots,   \* day -> the stored losses, <<>> where there is no row
  config,      \* the set of alert configuration rows, at most one
  job,         \* the nightly job
  put,         \* the settings requests
  (* history, guards nothing but the bounds *)
  alerts,      \* the alerts handed to the channel: when decided, in order
  unrecorded,  \* alerts whose sender died before it stored last_alerted_at
  breached,    \* days whose evaluation found a breach and came to an end
  attempted,   \* days on which an alert was handed to the channel
  torn,        \* days measured while a customer was rescored
  payloads,    \* configurations that requests have asked for
  crossed,     \* two settings requests were under way at once
  rescores, kills

alertVars == <<tick, exposure, snapshots, config, job, put, alerts, unrecorded,
               breached, attempted, torn, payloads, crossed, rescores, kills>>

Days == 0 .. (Nights - 1)
Today == tick \div Day
NotYet == -1
Row(s, at) == [threshold |-> s.threshold, enabled |-> s.enabled, lastAlerted |-> at]
Asked(c) == [threshold |-> c.threshold, enabled |-> c.enabled]
Idle == [pc |-> "off", day |-> 0, losses |-> <<>>, now |-> 0]

(* The losses that a job measures are those of one moment only if nothing  *)
(* was rescored in between: each query loads the customers afresh.         *)
Measuring == job.pc = "measure" /\ Len(job.losses) \in 1 .. 2

RevenueTypeOK ==
  /\ tick \in 0 .. (Nights * Day - 1) /\ exposure \in Exposures
  /\ \A d \in Days : Len(snapshots[d]) \in {0, 3}
  /\ Cardinality(config) <= 1
  /\ \A c \in config : c.threshold \in Nat /\ c.enabled \in BOOLEAN
                       /\ c.lastAlerted \in {NotYet} \union Nat
  /\ job.pc \in {"off", "measure", "save", "evaluate", "send", "record", "leave", "dead"}
  /\ job.day \in Days /\ Len(job.losses) \in 0 .. 3

AlertInit ==
  /\ tick = 0 /\ exposure \in Exposures
  /\ snapshots = [d \in Days |-> <<>>] /\ job = Idle
  /\ config \in {{}} \union {{Row(s, NotYet)} : s \in Settings}
  /\ put = [r \in Puts |-> [pc |-> "new"]]
  /\ alerts = <<>> /\ unrecorded = {} /\ breached = {} /\ attempted = {} /\ torn = {}
  /\ payloads = {Asked(c) : c \in config} /\ crossed = FALSE /\ rescores = 0 /\ kills = 0

Requesting == UNCHANGED <<config, put, payloads, crossed>>
Outside == UNCHANGED <<tick, exposure, rescores>>

---------------------------------------------------------------------------
(* The job. *)

(* arq starts the job at 1:00, and again, from the top, after a death.     *)
StartAlertJob ==
  /\ \/ job.pc = "off" /\ tick % Day = 0 /\ snapshots[Today] = <<>>
     \/ job.pc = "dead"
  /\ job' = [pc |-> "measure", day |-> Today, losses |-> <<>>, now |-> tick]
  /\ UNCHANGED <<snapshots, alerts, unrecorded, breached, attempted, torn, kills>>
  /\ Requesting /\ Outside

(* One horizon: 30, 60 or 90 days, as many times the 30-day loss.          *)
Measure ==
  /\ job.pc = "measure"
  /\ LET losses == Append(job.losses, exposure * (Len(job.losses) + 1))
     IN job' = [job EXCEPT !.losses = losses,
                           !.pc = IF Len(losses) = 3 THEN "save" ELSE "measure"]
  /\ UNCHANGED <<snapshots, alerts, unrecorded, breached, attempted, torn, kills>>
  /\ Requesting /\ Outside

(* Fault: a day's row is inserted, and left as it is when there is one.    *)
StoredOnce(row, losses) == IF row = <<>> THEN losses ELSE row

(* Fault: the branch for an existing row forgets the 30-day column.        *)
StoredPartly(row, losses) ==
  IF row = <<>> THEN losses ELSE <<row[1], losses[2], losses[3]>>

(* Fault: a second measurement is stored beside the first.                 *)
StoredInAddition(row, losses) == row \o losses

(* The day's row after the job has inserted or updated it.                 *)
Stored(row, losses) == losses

SaveSnapshot ==
  /\ job.pc = "save"
  /\ snapshots' = [snapshots EXCEPT ![job.day] = Stored(@, job.losses)]
  /\ job' = [job EXCEPT !.pc = "evaluate"]
  /\ UNCHANGED <<alerts, unrecorded, breached, attempted, torn, kills>>
  /\ Requesting /\ Outside

(* Fault: an alert holds back the alerts of the day and of the next one.   *)
DueAfterTwoDays(c) == c.lastAlerted = NotYet \/ tick - c.lastAlerted > 2 * Day

(* Fault: the time of the last alert is not looked at.                     *)
DueAlways(c) == TRUE

(* No alert within the last day.                                           *)
AlertDue(c) == c.lastAlerted = NotYet \/ tick - c.lastAlerted > Day

Breaching(c) == c.enabled /\ job.losses[3] >= c.threshold

Evaluate ==
  /\ job.pc = "evaluate"
  /\ \/ /\ \E c \in config : Breaching(c) /\ AlertDue(c)
        /\ job' = [job EXCEPT !.pc = "send", !.now = tick]
        /\ UNCHANGED breached
     \/ /\ ~ \E c \in config : Breaching(c) /\ AlertDue(c)
        /\ job' = [job EXCEPT !.pc = "leave"]
        /\ breached' = breached \union {d \in {job.day} : \E c \in config : Breaching(c)}
  /\ UNCHANGED <<snapshots, alerts, unrecorded, attempted, torn, kills>>
  /\ Requesting /\ Outside

(* The alert is handed to the channel.  What the channel answers, as when  *)
(* it names an integration that is paused or gone, is not looked at.       *)
SendAlert ==
  /\ job.pc = "send"
  /\ alerts' = Append(alerts, job.now)
  /\ job' = [job EXCEPT !.pc = "record"]
  /\ breached' = breached \union {job.day} /\ attempted' = attempted \union {job.day}
  /\ UNCHANGED <<snapshots, unrecorded, torn, kills>>
  /\ Requesting /\ Outside

RecordAlert ==
  /\ job.pc = "record"
  /\ config' = {[c EXCEPT !.lastAlerted = job.now] : c \in config}
  /\ job' = [job EXCEPT !.pc = "leave"]
  /\ UNCHANGED <<snapshots, put, payloads, crossed, alerts, unrecorded, breached,
                 attempted, torn, kills>>
  /\ Outside

(* The tenants after this one have had their turn and arq has the result.  *)
EndAlertJob ==
  /\ job.pc = "leave" /\ job' = Idle
  /\ UNCHANGED <<snapshots, alerts, unrecorded, breached, attempted, torn, kills>>
  /\ Requesting /\ Outside

KillAlertJob ==
  /\ job.pc \notin {"off", "dead"} /\ kills < MaxKills
  /\ kills' = kills + 1
  /\ job' = [job EXCEPT !.pc = "dead"]
  /\ unrecorded' = unrecorded \union {i \in {Len(alerts)} : job.pc = "record"}
  /\ UNCHANGED <<snapshots, alerts, breached, attempted, torn>>
  /\ Requesting /\ Outside

---------------------------------------------------------------------------
(* The settings endpoint. *)

LoadConfig(r) ==
  /\ put[r].pc = "new"
  /\ \E s \in Settings : put' = [put EXCEPT ![r] = [pc |-> "save", asked |-> s, loaded |-> {Asked(c) : c \in config}]]
  /\ crossed' = (crossed \/ \E q \in Puts : put[q].pc = "save")
  /\ UNCHANGED <<snapshots, config, job, alerts, unrecorded, breached, attempted, torn,
                 payloads, kills>>
  /\ Outside

(* Fault: a threshold of 0 passes for one that was not given.              *)
AssignedIfTrue(row, was, asked) ==
  [row EXCEPT !.threshold = IF asked.threshold \in {was.threshold, 0} THEN @ ELSE asked.threshold,
              !.enabled = IF asked.enabled = was.enabled THEN @ ELSE asked.enabled]

(* The row after a flush of the loaded object with the asked values: only  *)
(* the columns that differ from what was loaded are written.               *)
Assigned(row, was, asked) ==
  [row EXCEPT !.threshold = IF asked.threshold = was.threshold THEN @ ELSE asked.threshold,
              !.enabled = IF asked.enabled = was.enabled THEN @ ELSE asked.enabled]

(* Without a loaded row one is inserted; a second row of the tenant would  *)
(* break the unique constraint, and the request fails.                     *)
SaveConfig(r) ==
  /\ put[r].pc = "save"
  /\ LET asked == put[r].asked
         fails == put[r].loaded = {} /\ config # {}
     IN /\ config' = IF fails THEN config
                     ELSE IF config = {}
                     THEN {Row(asked, NotYet)}
                     ELSE {Assigned(row, was, asked) : row \in config, was \in put[r].loaded}
        /\ payloads' = IF fails THEN payloads ELSE payloads \union {asked}
  /\ put' = [put EXCEPT ![r] = [pc |-> "done"]]
  /\ UNCHANGED <<snapshots, job, alerts, unrecorded, breached, attempted, torn, crossed, kills>>
  /\ Outside

---------------------------------------------------------------------------
(* External: predictions rescore customers, and time passes.  arq ends a   *)
(* job after five minutes: no night begins while the last one's is at work.*)

AlertRescore ==
  /\ rescores < MaxRescores /\ rescores' = rescores + 1
  /\ \E x \in Exposures \ {exposure} : exposure' = x
  /\ torn' = torn \union {d \in {job.day} : Measuring}
  /\ UNCHANGED <<tick, snapshots, job, alerts, unrecorded, breached, attempted, kills>>
  /\ Requesting

AlertTick ==
  /\ tick < Nights * Day - 1 /\ tick' = tick + 1
  /\ (tick + 1) % Day = 0 => job.pc = "off"
  /\ UNCHANGED <<exposure, rescores, snapshots, job, alerts, unrecorded, breached, attempted,
                 torn, kills>>
  /\ Requesting

AlertNext ==
  \/ StartAlertJob \/ Measure \/ SaveSnapshot \/ Evaluate \/ SendAlert \/ RecordAlert
  \/ EndAlertJob \/ KillAlertJob
  \/ \E r \in Puts : LoadConfig(r) \/ SaveConfig(r)
  \/ AlertRescore \/ AlertTick

---------------------------------------------------------------------------
(* Two alerts of a tenant are decided more than a day apart, unless the    *)
(* sender of the first died before it stored when it had alerted           *)
(* (revenue_at_risk.py:150 and 162-164).                                   *)
AlertsSpaced ==
  \A i, j \in DOMAIN alerts : i < j => alerts[j] - alerts[i] > Day \/ i \in unrecorded

(* A breach found on two nights running is put to the channel on one of    *)
(* them: the strict 24 hours may pass over one night and not two           *)
(* (revenue_at_risk.py:150).                                               *)
LastingBreachAlerted ==
  \A d \in Days : {d, d + 1} \subseteq breached => d \in attempted \/ d + 1 \in attempted

(* While the job judges and announces a loss, the day's stored snapshot    *)
(* says the same, also when the job runs a second time (worker.py:285-308).*)
AlertBacked ==
  job.pc \in {"evaluate", "send", "record"} => snapshots[job.day] = job.losses

(* A stored snapshot gives one exposure over three horizons, unless a      *)
(* customer was rescored while that day was being measured                 *)
(* (worker.py:274-276 load the customers three times).                     *)
SnapshotsCoherent ==
  \A d \in Days \ torn : snapshots[d] = <<>> \/
     (snapshots[d][2] = 2 * snapshots[d][1] /\ snapshots[d][3] = 3 * snapshots[d][1])

(* The configuration is what one request asked for, unless two requests    *)
(* were under way at once: each writes only the columns it changes         *)
(* (analytics.py:202-219).                                                 *)
ConfigFromOnePut ==
  crossed \/ \A c \in config : Asked(c) \in payloads

(* The alert as a whole: told once and in time, of a loss that is stored   *)
(* and coherent, under a configuration that somebody asked for             *)
(* (worker.py:258-309, analytics.py:191-220).                              *)
AlertsSound ==
  /\ RevenueTypeOK /\ AlertsSpaced /\ LastingBreachAlerted /\ AlertBacked
  /\ SnapshotsCoherent /\ ConfigFromOnePut
=============================================================================
