--------------------------- MODULE OutreachEngine ---------------------------
(***************************************************************************)
(* Campaigns and anomalies: the campaign engine (core/outreach/engine.py), *)
(* its channel adapters (core/outreach/adapters.py), the anomaly detector  *)
(* that debounces anomalies and triggers campaigns                         *)
(* (core/analytics/anomaly.py), and the endpoints that edit campaigns and  *)
(* resolve anomalies.                                                      *)
(*                                                                         *)
(* Two kinds of session evaluate campaigns: the nightly cron job, for all  *)
(* active campaigns, and a detection request, for the campaigns whose rule *)
(* names the anomaly it has just recorded.  For each customer a session    *)
(* looks for a recent intervention, sends the message and commits a row    *)
(* that says so.  Nothing is locked in between.                            *)
(***************************************************************************)
EXTENDS Integers, FiniteSets

CONSTANTS
  Campaigns, Customers,
  Channel,          \* Channel[k]: "plain" (email, sms, slack), "in_app" or "custom"
  OnAnomaly,        \* campaigns whose trigger_rule names the anomaly type
  HighOnly,         \* ... and asks for severity high
  Crons, Scans,     \* sessions of the cron job, of POST .../anomalies/detect
  AnomalyIds,       \* rows that anomaly_events may get
  NoCampaign, NoCustomer,
  Cooldown,         \* cooldown_days, in days
  Debounce,         \* cooldown_hours, in days
  MaxDay, MaxCrashes, MaxEdits   \* bounds

Sessions == Crons \cup Scans
Severities == {"medium", "high"}

ASSUME CampaignAssumption ==
  /\ Channel \in [Campaigns -> {"plain", "in_app", "custom"}]
  /\ HighOnly \subseteq OnAnomaly /\ OnAnomaly \subseteq Campaigns
  /\ NoCampaign \notin Campaigns /\ NoCustomer \notin Customers
  /\ Crons \cap Scans = {} /\ IsFiniteSet(Sessions)
  /\ {Cooldown, Debounce, MaxDay, MaxCrashes, MaxEdits} \subseteq Nat

VARIABLES
  status,       \* campaigns.status, or "none" before and "deleted" after the row is there
  matching,     \* matching[k]: customers with the campaign's risk tier and MRR
  anomaly,      \* anomaly_events, of the one type the rules name
  stamps,       \* stamps[k][c]: sent_at of the pair's interventions rows
  tally,        \* tally[k][c]: how many rows have each status
  session,      \* what each session is doing
  now,          \* wall clock, in days
  crashes, edits,   \* spent bounds
  \* the rest records history for the properties and guards nothing
  delivered,    \* delivered[k][c]: messages handed to the channel
  lastSent,     \* lastSent[k][c]: day of the latest, or Never
  early,        \* pairs messaged again within the cooldown
  crossed,      \* pairs two sessions were working on at once
  lost,         \* lost[k][c]: messages whose row was never committed
  contacted,    \* contacted[c]: day of the latest message of any campaign, or Never
  hurried,      \* customers messaged by two campaigns within Debounce
  together      \* customers two scans found abnormal at once

bounds  == <<crashes, edits>>
history == <<delivered, lastSent, early, crossed, lost, contacted, hurried, together>>
vars == <<status, matching, anomaly, stamps, tally, session, now, bounds, history>>

Pairs == Campaigns \X Customers
Never == -1
Marks == {"sent", "failed", "pending"}

Idle == [stage |-> "idle", todo |-> {}, customer |-> NoCustomer, severity |-> "high",
         seenAt |-> 0, queue |-> {}, campaign |-> NoCampaign, targets |-> {},
         cutoff |-> 0, mark |-> "pending", sentAt |-> 0, saved |-> FALSE]

Session == [stage    : {"idle", "scan", "found", "campaigns", "customers", "checked", "sent"},
            todo     : SUBSET Customers,                \* a scan's customers to look at
            customer : Customers \cup {NoCustomer},
            severity : Severities,
            seenAt   : Nat,                             \* detect_anomalies' now
            queue    : SUBSET Campaigns,                \* campaigns to evaluate
            campaign : Campaigns \cup {NoCampaign},
            targets  : SUBSET Customers,                \* customers to evaluate it for
            cutoff   : Int,                             \* cutoff_date
            mark     : Marks,                           \* the intervention's status
            sentAt   : Nat,                             \* and its sent_at
            saved    : BOOLEAN]                         \* the adapter committed the row

(***************************************************************************)
(* What a session reads                                                    *)
(***************************************************************************)
Open(c) == {i \in AnomalyIds : anomaly[i].state = "open" /\ anomaly[i].customer = c}

\* Fault: strictly within it.
DebouncedStrictly(c) == \E i \in Open(c) : anomaly[i].at > now - Debounce

\* An open anomaly of the customer was detected within the debounce period.
Debounced(c) == \E i \in Open(c) : anomaly[i].at >= now - Debounce

Flagged(k) ==
  {c \in Customers : \E i \in Open(c) : k \in HighOnly => anomaly[i].severity = "high"}

Targets(k) == IF k \in OnAnomaly THEN matching[k] \cap Flagged(k) ELSE matching[k]

Active == {k \in Campaigns : status[k] = "active"}

\* The campaigns trigger_campaigns_for_anomaly evaluates.
Hooked(severity) == {k \in Active \cap OnAnomaly : k \in HighOnly => severity = "high"}

\* Fault: only an intervention of today counts, any campaign's cutoff ignored.
RecentToday(k, c, cutoff) == now \in stamps[k][c] /\ cutoff <= now

\* An intervention of this campaign for the customer has sent_at >= cutoff_date.
Recent(k, c, cutoff) == \E d \in stamps[k][c] : d >= cutoff

(***************************************************************************)
(* Sessions                                                                *)
(***************************************************************************)
\* Fault: one evaluated campaign ends the job.
RestingEarly(w) ==
  [w EXCEPT !.customer = NoCustomer, !.saved = FALSE, !.mark = "pending",
            !.stage = IF w.targets # {} THEN "customers" ELSE IF w.campaign # NoCampaign THEN "idle"
                      ELSE IF w.queue # {} THEN "campaigns" ELSE IF w.todo # {} THEN "scan" ELSE "idle"]

\* A session with nothing left at one level goes on at the level above.
Resting(w) ==
  [w EXCEPT !.customer = NoCustomer, !.saved = FALSE, !.mark = "pending",
            !.stage = CASE w.targets # {} -> "customers"
                        [] w.targets = {} /\ w.queue # {} -> "campaigns"
                        [] w.targets = {} /\ w.queue = {} /\ w.todo # {} -> "scan"
                        [] OTHER -> "idle"]

Becomes(s, w) == session' = [session EXCEPT ![s] = w]

\* The nightly job reads the active campaigns.
StartEvaluation(s) ==
  /\ session[s].stage = "idle"
  /\ Active # {}
  /\ Becomes(s, [Idle EXCEPT !.stage = "campaigns", !.queue = Active])
  /\ UNCHANGED <<status, matching, anomaly, stamps, tally, now, bounds, history>>

\* A detection request looks at one customer or at all of them.
StartScan(s, todo) ==
  /\ session[s].stage = "idle"
  /\ Becomes(s, [Idle EXCEPT !.stage = "scan", !.todo = todo])
  /\ UNCHANGED <<status, matching, anomaly, stamps, tally, now, bounds, history>>

\* The customer behaves normally, or the anomaly is debounced.
PassOver(s, c) ==
  /\ session[s].stage = "scan"
  /\ c \in session[s].todo
  /\ Becomes(s, Resting([session[s] EXCEPT !.todo = @ \ {c}]))
  /\ UNCHANGED <<status, matching, anomaly, stamps, tally, now, bounds, history>>

\* An anomaly that is not debounced is about to be recorded.
Detect(s, c, severity) ==
  /\ session[s].stage = "scan"
  /\ c \in session[s].todo
  /\ ~Debounced(c)
  /\ \E i \in AnomalyIds : anomaly[i].state = "none"   \* bound
  /\ Becomes(s, [session[s] EXCEPT !.stage = "found", !.todo = @ \ {c}, !.customer = c,
                                   !.severity = severity, !.seenAt = now])
  /\ together' = IF \E v \in Sessions \ {s} : session[v].stage = "found" /\ session[v].customer = c
                 THEN together \cup {c} ELSE together
  /\ UNCHANGED <<status, matching, anomaly, stamps, tally, now, bounds,
                 delivered, lastSent, early, crossed, lost, contacted, hurried>>

\* The anomaly is committed and published; one of severity high triggers the
\* campaigns that name it.
RecordAnomaly(s, i) ==
  LET w == session[s]
  IN  /\ w.stage = "found"
      /\ anomaly[i].state = "none"
      /\ anomaly' = [anomaly EXCEPT ![i] = [customer |-> w.customer, severity |-> w.severity,
                                            at |-> w.seenAt, state |-> "open"]]
      /\ Becomes(s, Resting([w EXCEPT !.queue = IF w.severity = "high"
                                                THEN Hooked("high") ELSE {}]))
      /\ UNCHANGED <<status, matching, stamps, tally, now, bounds, history>>

\* _evaluate_single_campaign, for the campaign as the session read it: a pause
\* or an edit since then is not seen.
BeginCampaign(s, k) ==
  /\ session[s].stage = "campaigns"
  /\ k \in session[s].queue
  /\ Becomes(s, Resting([session[s] EXCEPT !.queue = @ \ {k}, !.campaign = k,
                                           !.targets = Targets(k), !.cutoff = now - Cooldown]))
  /\ UNCHANGED <<status, matching, anomaly, stamps, tally, now, bounds, history>>

CoolDown(s, c) ==
  LET w == session[s]
  IN  /\ w.stage = "customers"
      /\ c \in w.targets
      /\ Recent(w.campaign, c, w.cutoff)
      /\ Becomes(s, Resting([w EXCEPT !.targets = @ \ {c}]))
      /\ UNCHANGED <<status, matching, anomaly, stamps, tally, now, bounds, history>>

\* No recent intervention: the message is rendered.
Choose(s, c) ==
  LET w == session[s]
      k == w.campaign
      others == {v \in Sessions \ {s} : /\ session[v].stage \in {"checked", "sent"}
                                        /\ session[v].campaign = k /\ session[v].customer = c}
  IN  /\ w.stage = "customers"
      /\ c \in w.targets
      /\ ~Recent(k, c, w.cutoff)
      /\ Becomes(s, [w EXCEPT !.stage = "checked", !.customer = c, !.targets = @ \ {c}])
      /\ crossed' = IF others # {} THEN crossed \cup {<<k, c>>} ELSE crossed
      /\ UNCHANGED <<status, matching, anomaly, stamps, tally, now, bounds,
                     delivered, lastSent, early, lost, contacted, hurried, together>>

\* The message goes out.  An adapter that commits, commits the session's pending
\* interventions row along with its own.
Deliver(s) ==
  LET w == session[s]
      k == w.campaign
      c == w.customer
      saves == Channel[k] # "plain"
  IN  /\ w.stage = "checked"
      /\ saves => status[k] # "deleted"
      /\ Becomes(s, [w EXCEPT !.stage = "sent", !.mark = "sent", !.sentAt = now, !.saved = saves])
      /\ tally' = IF saves THEN [tally EXCEPT ![k][c].pending = @ + 1] ELSE tally
      /\ delivered' = [delivered EXCEPT ![k][c] = @ + 1]
      /\ early' = IF lastSent[k][c] # Never /\ now <= lastSent[k][c] + Cooldown
                  THEN early \cup {<<k, c>>} ELSE early
      /\ lastSent' = [lastSent EXCEPT ![k][c] = now]
      /\ contacted' = [contacted EXCEPT ![c] = now]
      /\ hurried' = IF contacted[c] # Never /\ now < contacted[c] + Debounce
                    THEN hurried \cup {c} ELSE hurried
      /\ UNCHANGED <<status, matching, anomaly, stamps, now, bounds, crossed, lost, together>>

\* A custom integration that is missing or paused returns False.  Looking it up
\* has flushed the row, which keeps the campaign from being deleted.
Refuse(s) ==
  /\ session[s].stage = "checked"
  /\ Channel[session[s].campaign] = "custom"
  /\ status[session[s].campaign] # "deleted"
  /\ Becomes(s, [session[s] EXCEPT !.stage = "sent", !.mark = "failed", !.sentAt = now])
  /\ UNCHANGED <<status, matching, anomaly, stamps, tally, now, bounds, history>>

\* Fault: a row is inserted although the adapter's commit has inserted it.
CommitAnotherRow(s) ==
  LET w == session[s]
      k == w.campaign
      c == w.customer
  IN  /\ w.stage = "sent"
      /\ status[k] # "deleted"
      /\ stamps' = [stamps EXCEPT ![k][c] = @ \cup {w.sentAt}]
      /\ tally' = [tally EXCEPT ![k][c][w.mark] = @ + 1]
      /\ Becomes(s, Resting(w))
      /\ UNCHANGED <<status, matching, anomaly, now, bounds, history>>

\* The row gets its status and sent_at.
CommitRow(s) ==
  LET w == session[s]
      k == w.campaign
      c == w.customer
  IN  /\ w.stage = "sent"
      /\ status[k] # "deleted"
      /\ stamps' = [stamps EXCEPT ![k][c] = @ \cup {w.sentAt}]
      /\ tally' = [tally EXCEPT ![k][c] = [m \in Marks |->
                      @[m] + (IF m = w.mark THEN 1 ELSE 0)
                           - (IF m = "pending" /\ w.saved THEN 1 ELSE 0)]]
      /\ Becomes(s, Resting(w))
      /\ UNCHANGED <<status, matching, anomaly, now, bounds, history>>

\* A message was handed over and no row will say when.
Forget(w) ==
  lost' = IF w.stage = "sent" /\ w.mark = "sent" /\ ~w.saved
          THEN [lost EXCEPT ![w.campaign][w.customer] = @ + 1] ELSE lost

\* The row refers to a campaign that is gone: the commit fails, and with it the
\* whole job or request.
CommitFails(s) ==
  LET w == session[s]
  IN  /\ w.stage \in {"checked", "sent"}
      /\ status[w.campaign] = "deleted"
      /\ w.stage = "checked" => Channel[w.campaign] # "plain"
      /\ Becomes(s, Idle)
      /\ Forget(w)
      /\ UNCHANGED <<status, matching, anomaly, stamps, tally, now, bounds,
                     delivered, lastSent, early, crossed, contacted, hurried, together>>

\* The process dies or the job times out.
Crash(s) ==
  /\ session[s].stage # "idle"
  /\ crashes < MaxCrashes
  /\ crashes' = crashes + 1
  /\ Becomes(s, Idle)
  /\ Forget(session[s])
  /\ UNCHANGED <<status, matching, anomaly, stamps, tally, now, edits,
                 delivered, lastSent, early, crossed, contacted, hurried, together>>

(***************************************************************************)
(* Endpoints, other subsystems, time                                       *)
(***************************************************************************)
\* POST /campaigns
CreateCampaign(k, new) ==
  /\ status[k] = "none"
  /\ edits < MaxEdits
  /\ edits' = edits + 1
  /\ status' = [status EXCEPT ![k] = new]
  /\ UNCHANGED <<matching, anomaly, stamps, tally, session, now, crashes, history>>

\* PUT /campaigns/{id}
UpdateCampaign(k, new) ==
  /\ status[k] \in {"active", "paused"}
  /\ edits < MaxEdits
  /\ edits' = edits + 1
  /\ status' = [status EXCEPT ![k] = new]
  /\ UNCHANGED <<matching, anomaly, stamps, tally, session, now, crashes, history>>

\* DELETE /campaigns/{id}: refused by the foreign key once a row refers to it,
\* committed or only flushed.
DeleteCampaign(k) ==
  /\ status[k] \in {"active", "paused"}
  /\ \A c \in Customers, m \in Marks : tally[k][c][m] = 0
  /\ \A s \in Sessions : session[s].campaign = k => ~(session[s].stage = "sent" /\ session[s].mark = "failed")
  /\ edits < MaxEdits
  /\ edits' = edits + 1
  /\ status' = [status EXCEPT ![k] = "deleted"]
  /\ UNCHANGED <<matching, anomaly, stamps, tally, session, now, crashes, history>>

\* POST .../anomalies/{id}/resolve
ResolveAnomaly(i) ==
  /\ anomaly[i].state = "open"
  /\ anomaly' = [anomaly EXCEPT ![i] = [@ EXCEPT !.state = "resolved"]]
  /\ UNCHANGED <<status, matching, stamps, tally, session, now, bounds, history>>

\* Scoring moves the customer into or out of the campaign's audience.
Rescore(k, c) ==
  /\ edits < MaxEdits
  /\ edits' = edits + 1
  /\ matching' = [matching EXCEPT ![k] = IF c \in @ THEN @ \ {c} ELSE @ \cup {c}]
  /\ UNCHANGED <<status, anomaly, stamps, tally, session, now, crashes, history>>

Tick ==
  /\ now < MaxDay
  /\ now' = now + 1
  /\ UNCHANGED <<status, matching, anomaly, stamps, tally, session, bounds, history>>

(***************************************************************************)
(* The specification                                                       *)
(***************************************************************************)
Init ==
  /\ status \in [Campaigns -> {"none", "active", "paused"}]
  /\ matching \in [Campaigns -> SUBSET Customers]
  /\ anomaly = [i \in AnomalyIds |-> [customer |-> NoCustomer, severity |-> "high",
                                      at |-> 0, state |-> "none"]]
  /\ stamps = [k \in Campaigns |-> [c \in Customers |-> {}]]
  /\ tally = [k \in Campaigns |-> [c \in Customers |-> [m \in Marks |-> 0]]]
  /\ session = [s \in Sessions |-> Idle]
  /\ now = 0
  /\ crashes = 0 /\ edits = 0
  /\ delivered = [k \in Campaigns |-> [c \in Customers |-> 0]]
  /\ lastSent = [k \in Campaigns |-> [c \in Customers |-> Never]]
  /\ early = {} /\ crossed = {}
  /\ lost = [k \in Campaigns |-> [c \in Customers |-> 0]]
  /\ contacted = [c \in Customers |-> Never]
  /\ hurried = {} /\ together = {}

\* What a session does for one customer of one campaign.
Contact(s) ==
  \/ \E c \in Customers : CoolDown(s, c) \/ Choose(s, c)
  \/ Deliver(s) \/ Refuse(s) \/ CommitRow(s) \/ CommitFails(s)

Evaluate(s) == Contact(s) \/ \E k \in Campaigns : BeginCampaign(s, k)

Scan(s) ==
  \/ \E c \in Customers : PassOver(s, c) \/ \E severity \in Severities : Detect(s, c, severity)
  \/ \E i \in AnomalyIds : RecordAnomaly(s, i)

Endpoints ==
  \/ \E k \in Campaigns, new \in {"active", "paused"} : CreateCampaign(k, new) \/ UpdateCampaign(k, new)
  \/ \E k \in Campaigns : DeleteCampaign(k)
  \/ \E i \in AnomalyIds : ResolveAnomaly(i)

Next ==
  \/ \E s \in Crons : StartEvaluation(s)
  \/ \E s \in Scans : Scan(s)
  \/ \E s \in Scans : StartScan(s, Customers) \/ \E c \in Customers : StartScan(s, {c})
  \/ \E s \in Sessions : Evaluate(s) \/ Crash(s)
  \/ Endpoints
  \/ \E k \in Campaigns, c \in Customers : Rescore(k, c)
  \/ Tick

Spec == Init /\ [][Next]_vars

\* The worker starts the nightly job and works through it; requests may stall.
Fairness == \A s \in Crons : WF_vars(StartEvaluation(s)) /\ WF_vars(Evaluate(s))

FairSpec == Spec /\ Fairness

(***************************************************************************)
(* Properties                                                              *)
(***************************************************************************)
\* Every variable holds a value of its kind.
TypeOK ==
  /\ status \in [Campaigns -> {"none", "active", "paused", "deleted"}]
  /\ matching \in [Campaigns -> SUBSET Customers]
  /\ anomaly \in [AnomalyIds -> [customer : Customers \cup {NoCustomer}, severity : Severities,
                                 at : Nat, state : {"none", "open", "resolved"}]]
  /\ stamps \in [Campaigns -> [Customers -> SUBSET Nat]]
  /\ tally \in [Campaigns -> [Customers -> [Marks -> Int]]]
  /\ session \in [Sessions -> Session]
  /\ now \in Nat /\ crashes \in Nat /\ edits \in Nat
  /\ delivered \in [Campaigns -> [Customers -> Nat]]
  /\ lost \in [Campaigns -> [Customers -> Nat]]
  /\ lastSent \in [Campaigns -> [Customers -> Nat \cup {Never}]]
  /\ contacted \in [Customers -> Nat \cup {Never}]
  /\ early \subseteq Pairs /\ crossed \subseteq Pairs
  /\ hurried \subseteq Customers /\ together \subseteq Customers

\* The session has handed the pair's message over and not yet committed it.
Carries(w, k, c, saved) ==
  /\ w.stage = "sent" /\ w.mark = "sent" /\ w.saved = saved
  /\ w.campaign = k /\ w.customer = c

InFlight(k, c, saved) == {s \in Sessions : Carries(session[s], k, c, saved)}

\* A row the adapter committed and no session will ever complete.
Orphaned(k, c) == tally[k][c]["pending"] > Cardinality(InFlight(k, c, TRUE))

\* The cooldown does not see every message of the pair.
Excused(k, c) == <<k, c>> \in crossed \/ lost[k][c] > 0 \/ Orphaned(k, c)

\* A campaign messages a customer again within the cooldown only if two
\* sessions were at that customer at once, or a message went out whose row was
\* never committed or was left pending, without a sent_at.
CooldownKept == \A k \in Campaigns, c \in Customers : <<k, c>> \in early => Excused(k, c)

\* Every message handed to a channel is a sent row, a pending one, one that a
\* session is about to commit, or was lost when a session ended.
MessagesAccounted ==
  \A k \in Campaigns, c \in Customers :
    delivered[k][c] = tally[k][c]["sent"] + tally[k][c]["pending"]
                      + Cardinality(InFlight(k, c, FALSE)) + lost[k][c]

\* Two open anomalies of a customer lie further apart than the debounce period,
\* unless two scans looked at the customer at once.
DebounceKept ==
  \A i, j \in AnomalyIds :
    /\ i # j /\ anomaly[i].state = "open" /\ anomaly[j].state = "open"
    /\ anomaly[i].customer = anomaly[j].customer
    /\ anomaly[i].at <= anomaly[j].at /\ anomaly[j].at <= anomaly[i].at + Debounce
    => anomaly[i].customer \in together

\* A customer who stays in the audience of an active campaign gets an
\* intervention of it, whatever else the job had to do and however often it died.
AudienceReached ==
  \A k \in Campaigns, c \in Customers :
    <>[](status[k] = "active" /\ c \in Targets(k)) => <>(stamps[k][c] # {})

\* docs/PRD.md:71, "Enforce a 24-hour cooldown/debounce per customer": no
\* customer is messaged twice within a day.
CustomerCooldown == hurried = {}

=============================================================================
