--------------------------- MODULE OutreachProofs ---------------------------
(***************************************************************************)
(* Proofs about OutreachEngine, for every set of campaigns, customers and  *)
(* sessions, every cooldown and debounce period, and without bounds: its   *)
(* types and the debounce of anomalies, then its messages, of which each   *)
(* is accounted for and kept within the cooldown if the cooldown sees it.  *)
(***************************************************************************)
EXTENDS OutreachEngine, TLAPS, FiniteSetTheorems

(***************************************************************************)
(* Type correctness                                                        *)
(***************************************************************************)
\* A session that has customers to evaluate a campaign for has the campaign,
\* and one that deals with a customer has the customer.
Sane(w) ==
  /\ w.targets # {} \/ w.stage \in {"checked", "sent"} => w.campaign \in Campaigns
  /\ w.stage \in {"found", "checked", "sent"} => w.customer \in Customers
  /\ w.stage = "customers" => w.targets # {}

SaneInv == \A s \in Sessions : Sane(session[s])

TypeInv == TypeOK /\ SaneInv

\* The idle session is one.
LEMMA IdleType == Idle \in Session /\ Sane(Idle)
  <1>1. 0 \in Nat /\ 0 \in Int /\ "idle" \in {"idle", "scan"}
    OBVIOUS
  <1>2. Idle \in Session
    BY DEF Idle, Session, Severities, Marks
  <1>3. QED
    BY <1>2 DEF Idle, Sane

\* A session that goes on at the level above stays one.
LEMMA RestingType ==
  ASSUME NEW w \in Session, w.targets # {} => w.campaign \in Campaigns
  PROVE  Resting(w) \in Session /\ Sane(Resting(w))
  <1> DEFINE stage == CASE w.targets # {} -> "customers"
                        [] w.targets = {} /\ w.queue # {} -> "campaigns"
                        [] w.targets = {} /\ w.queue = {} /\ w.todo # {} -> "scan"
                        [] OTHER -> "idle"
  <1>1. /\ stage \in {"customers", "campaigns", "scan", "idle"}
        /\ stage = "customers" => w.targets # {}
    OBVIOUS
  <1>2. Resting(w) = [w EXCEPT !.customer = NoCustomer, !.saved = FALSE,
                               !.mark = "pending", !.stage = stage]
    BY DEF Resting
  <1> HIDE DEF stage
  <1>3. Resting(w) \in Session
    BY <1>1, <1>2 DEF Session, Marks
  <1>4. Resting(w).stage = stage /\ Resting(w).targets = w.targets /\ Resting(w).campaign = w.campaign
    BY <1>2 DEF Session
  <1>5. QED
    BY <1>1, <1>3, <1>4 DEF Sane

\* Where it goes on.
LEMMA RestingStage ==
  ASSUME NEW w \in Session
  PROVE  /\ Resting(w).stage \in {"customers", "campaigns", "scan", "idle"}
         /\ Resting(w).saved = FALSE /\ Resting(w).mark = "pending"
         /\ Resting(w).targets = w.targets /\ Resting(w).cutoff = w.cutoff
  <1> DEFINE stage == CASE w.targets # {} -> "customers"
                        [] w.targets = {} /\ w.queue # {} -> "campaigns"
                        [] w.targets = {} /\ w.queue = {} /\ w.todo # {} -> "scan"
                        [] OTHER -> "idle"
  <1>1. stage \in {"customers", "campaigns", "scan", "idle"}
    OBVIOUS
  <1>2. Resting(w) = [w EXCEPT !.customer = NoCustomer, !.saved = FALSE,
                               !.mark = "pending", !.stage = stage]
    BY DEF Resting
  <1> HIDE DEF stage
  <1>3. QED
    BY <1>1, <1>2 DEF Session

\* What one session becomes leaves the others as they are.
LEMMA BecomesType ==
  ASSUME TypeInv, NEW s \in Sessions, NEW w \in Session, Sane(w), Becomes(s, w)
  PROVE  session' \in [Sessions -> Session] /\ SaneInv'
  BY DEF TypeInv, TypeOK, SaneInv, Becomes

\* Actions that change nothing but a session and a few recorded variables.
LEMMA TypeStepSession ==
  ASSUME CampaignAssumption, TypeInv, NEW s \in Sessions,
         \/ s \in Crons /\ StartEvaluation(s)
         \/ \E todo \in SUBSET Customers : StartScan(s, todo)
         \/ \E c \in Customers : PassOver(s, c)
         \/ \E c \in Customers, severity \in Severities : Detect(s, c, severity)
         \/ \E k \in Campaigns : BeginCampaign(s, k)
         \/ \E c \in Customers : CoolDown(s, c) \/ Choose(s, c)
         \/ Refuse(s)
  PROVE  TypeInv'
  <1>0. /\ session[s] \in Session /\ Sane(session[s]) /\ now \in Nat
        /\ Cooldown \in Nat /\ now - Cooldown \in Int
    BY CampaignAssumption DEF CampaignAssumption, TypeInv, TypeOK, SaneInv
  <1>1. CASE StartEvaluation(s)
    <2>1. [Idle EXCEPT !.stage = "campaigns", !.queue = Active] \in Session
      BY IdleType DEF Session, Active
    <2>2. Sane([Idle EXCEPT !.stage = "campaigns", !.queue = Active])
      BY IdleType DEF Sane, Session, Idle
    <2>3. session' \in [Sessions -> Session] /\ SaneInv'
      BY <1>1, <2>1, <2>2, BecomesType DEF StartEvaluation
    <2>4. QED
      BY <1>1, <2>3 DEF StartEvaluation, TypeInv, TypeOK, bounds, history, Pairs
  <1>2. ASSUME NEW todo \in SUBSET Customers, StartScan(s, todo)
        PROVE  TypeInv'
    <2>1. [Idle EXCEPT !.stage = "scan", !.todo = todo] \in Session
      BY IdleType DEF Session
    <2>2. Sane([Idle EXCEPT !.stage = "scan", !.todo = todo])
      BY IdleType DEF Sane, Session, Idle
    <2>3. session' \in [Sessions -> Session] /\ SaneInv'
      BY <1>2, <2>1, <2>2, BecomesType DEF StartScan
    <2>4. QED
      BY <1>2, <2>3 DEF StartScan, TypeInv, TypeOK, bounds, history, Pairs
  <1>3. ASSUME NEW c \in Customers, PassOver(s, c)
        PROVE  TypeInv'
    <2> DEFINE w == [session[s] EXCEPT !.todo = @ \ {c}]
    <2>1. w \in Session /\ w.targets = session[s].targets /\ w.campaign = session[s].campaign
      BY <1>0 DEF Session
    <2>2. Resting(w) \in Session /\ Sane(Resting(w))
      BY <1>0, <2>1, RestingType DEF Sane
    <2>3. session' \in [Sessions -> Session] /\ SaneInv'
      BY <1>3, <2>2, BecomesType DEF PassOver
    <2>4. QED
      BY <1>3, <2>3 DEF PassOver, TypeInv, TypeOK, bounds, history, Pairs
  <1>4. ASSUME NEW c \in Customers, NEW severity \in Severities, Detect(s, c, severity)
        PROVE  TypeInv'
    <2> DEFINE w == [session[s] EXCEPT !.stage = "found", !.todo = @ \ {c}, !.customer = c,
                                       !.severity = severity, !.seenAt = now]
    <2>1. w \in Session
      BY <1>0 DEF Session
    <2>2. Sane(w)
      BY <1>0 DEF Sane, Session
    <2>3. session' \in [Sessions -> Session] /\ SaneInv'
      BY <1>4, <2>1, <2>2, BecomesType DEF Detect
    <2>4. QED
      BY <1>4, <2>3 DEF Detect, TypeInv, TypeOK, bounds, Pairs
  <1>5. ASSUME NEW k \in Campaigns, BeginCampaign(s, k)
        PROVE  TypeInv'
    <2> DEFINE w == [session[s] EXCEPT !.queue = @ \ {k}, !.campaign = k,
                                       !.targets = Targets(k), !.cutoff = now - Cooldown]
    <2>1. Targets(k) \subseteq Customers
      BY DEF TypeInv, TypeOK, Targets, Flagged
    <2>2. w \in Session /\ w.campaign = k
      BY <1>0, <2>1 DEF Session
    <2>3. Resting(w) \in Session /\ Sane(Resting(w))
      BY <2>2, RestingType
    <2>4. session' \in [Sessions -> Session] /\ SaneInv'
      BY <1>5, <2>3, BecomesType DEF BeginCampaign
    <2>5. QED
      BY <1>5, <2>4 DEF BeginCampaign, TypeInv, TypeOK, bounds, history, Pairs
  <1>6. ASSUME NEW c \in Customers, CoolDown(s, c)
        PROVE  TypeInv'
    <2> DEFINE w == [session[s] EXCEPT !.targets = @ \ {c}]
    <2>1. w \in Session /\ (w.targets # {} => w.campaign \in Campaigns)
      BY <1>0 DEF Session, Sane
    <2>2. Resting(w) \in Session /\ Sane(Resting(w))
      BY <2>1, RestingType
    <2>3. session' \in [Sessions -> Session] /\ SaneInv'
      BY <1>6, <2>2, BecomesType DEF CoolDown
    <2>4. QED
      BY <1>6, <2>3 DEF CoolDown, TypeInv, TypeOK, bounds, history, Pairs
  <1>7. ASSUME NEW c \in Customers, Choose(s, c)
        PROVE  TypeInv'
    <2> DEFINE w == [session[s] EXCEPT !.stage = "checked", !.customer = c, !.targets = @ \ {c}]
    <2>1. session[s].campaign \in Campaigns
      BY <1>0, <1>7 DEF Choose, Sane
    <2>2. w \in Session /\ Sane(w)
      BY <1>0, <2>1 DEF Session, Sane
    <2>3. session' \in [Sessions -> Session] /\ SaneInv'
      BY <1>7, <2>2, BecomesType DEF Choose
    <2>a. crossed' = crossed \/ crossed' = crossed \cup {<<session[s].campaign, c>>}
      BY <1>7 DEF Choose
    <2>b. <<session[s].campaign, c>> \in Pairs /\ crossed \subseteq Pairs
      BY <2>1 DEF Pairs, TypeInv, TypeOK
    <2>4. crossed' \subseteq Pairs
      BY <2>a, <2>b
    <2>5. QED
      BY <1>7, <2>3, <2>4 DEF Choose, TypeInv, TypeOK, bounds
  <1>8. CASE Refuse(s)
    <2> DEFINE w == [session[s] EXCEPT !.stage = "sent", !.mark = "failed", !.sentAt = now]
    <2>1. w \in Session /\ Sane(w)
      BY <1>0, <1>8 DEF Session, Sane, Marks, Refuse
    <2>2. session' \in [Sessions -> Session] /\ SaneInv'
      BY <1>8, <2>1, BecomesType DEF Refuse
    <2>3. QED
      BY <1>8, <2>2 DEF Refuse, TypeInv, TypeOK, bounds, history, Pairs
  <1>9. QED
    BY <1>1, <1>2, <1>3, <1>4, <1>5, <1>6, <1>7, <1>8

\* A message of the history is counted for a pair of the model.
LEMMA DeliverType ==
  ASSUME CampaignAssumption, TypeInv, NEW s \in Sessions, Deliver(s)
  PROVE  TypeInv'
  <1> DEFINE k == session[s].campaign
             c == session[s].customer
             w == [session[s] EXCEPT !.stage = "sent", !.mark = "sent", !.sentAt = now,
                                     !.saved = (Channel[k] # "plain")]
  <1>1. session[s] \in Session /\ Sane(session[s]) /\ now \in Nat
    BY DEF TypeInv, TypeOK, SaneInv
  <1>2. k \in Campaigns /\ c \in Customers
    BY <1>1 DEF Deliver, Sane
  <1>3. w \in Session /\ Sane(w)
    BY <1>1, <1>2 DEF Session, Sane, Marks
  <1>4. session' \in [Sessions -> Session] /\ SaneInv'
    BY <1>3, BecomesType DEF Deliver
  <1>5. tally' \in [Campaigns -> [Customers -> [Marks -> Int]]]
    <2>1. tally[k][c] \in [Marks -> Int] /\ "pending" \in Marks
      BY <1>2 DEF TypeInv, TypeOK, Marks
    <2>2. [tally[k][c] EXCEPT !["pending"] = @ + 1] \in [Marks -> Int]
      BY <2>1
    <2>3. [tally EXCEPT ![k][c]["pending"] = @ + 1] \in [Campaigns -> [Customers -> [Marks -> Int]]]
      BY <1>2, <2>2 DEF TypeInv, TypeOK
    <2>4. QED
      BY <2>3 DEF Deliver, TypeInv, TypeOK
  <1>6. delivered' \in [Campaigns -> [Customers -> Nat]]
    BY <1>2 DEF Deliver, TypeInv, TypeOK
  <1>7. lastSent' \in [Campaigns -> [Customers -> Nat \cup {Never}]]
    BY <1>1, <1>2 DEF Deliver, TypeInv, TypeOK
  <1>8. early' \subseteq Pairs
    <2>1. early' = early \/ early' = early \cup {<<k, c>>}
      BY DEF Deliver
    <2>2. <<k, c>> \in Pairs /\ early \subseteq Pairs
      BY <1>2 DEF Pairs, TypeInv, TypeOK
    <2>3. QED
      BY <2>1, <2>2
  <1>9. contacted' \in [Customers -> Nat \cup {Never}] /\ hurried' \subseteq Customers
    <2>1. contacted' \in [Customers -> Nat \cup {Never}]
      BY <1>1, <1>2 DEF Deliver, TypeInv, TypeOK
    <2>2. hurried' = hurried \/ hurried' = hurried \cup {c}
      BY DEF Deliver
    <2>3. QED
      BY <1>2, <2>1, <2>2 DEF TypeInv, TypeOK
  <1>10. QED
    BY <1>4, <1>5, <1>6, <1>7, <1>8, <1>9 DEF Deliver, TypeInv, TypeOK, bounds, Pairs

\* A row that is committed counts under its status, once.
LEMMA CommitRowType ==
  ASSUME CampaignAssumption, TypeInv, NEW s \in Sessions, CommitRow(s)
  PROVE  TypeInv'
  <1> DEFINE w == session[s]
             k == w.campaign
             c == w.customer
             row == tally[k][c]
  <1>1. w \in Session /\ Sane(w)
    BY DEF TypeInv, TypeOK, SaneInv
  <1>2. k \in Campaigns /\ c \in Customers /\ w.sentAt \in Nat
    BY <1>1 DEF CommitRow, Sane, Session
  <1>3. session' \in [Sessions -> Session] /\ SaneInv'
    <2>1. Resting(w) \in Session /\ Sane(Resting(w))
      BY <1>1, <1>2, RestingType
    <2>2. Becomes(s, Resting(w))
      BY DEF CommitRow
    <2>3. QED
      BY <2>1, <2>2, BecomesType
  <1>4. stamps' \in [Campaigns -> [Customers -> SUBSET Nat]]
    BY <1>2 DEF CommitRow, TypeInv, TypeOK
  <1>5. tally' \in [Campaigns -> [Customers -> [Marks -> Int]]]
    <2> DEFINE new == [m \in Marks |-> row[m] + (IF m = w.mark THEN 1 ELSE 0)
                                             - (IF m = "pending" /\ w.saved THEN 1 ELSE 0)]
    <2>1. row \in [Marks -> Int]
      BY <1>2 DEF TypeInv, TypeOK
    <2>2. new \in [Marks -> Int]
      BY <2>1
    <2>3. tally' = [tally EXCEPT ![k][c] = new]
      BY DEF CommitRow
    <2> HIDE DEF new
    <2>4. QED
      BY <1>2, <2>2, <2>3 DEF TypeInv, TypeOK
  <1>6. QED
    BY <1>3, <1>4, <1>5 DEF CommitRow, TypeInv, TypeOK, bounds, history, Pairs

\* A session that ends early leaves the counts of lost messages counts.
LEMMA EndType ==
  ASSUME CampaignAssumption, TypeInv, NEW s \in Sessions, CommitFails(s) \/ Crash(s)
  PROVE  TypeInv'
  <1>1. session' \in [Sessions -> Session] /\ SaneInv'
    <2>1. Becomes(s, Idle)
      BY DEF CommitFails, Crash
    <2>2. QED
      BY <2>1, IdleType, BecomesType
  <1>2. lost' \in [Campaigns -> [Customers -> Nat]]
    <2>1. Forget(session[s])
      BY DEF CommitFails, Crash
    <2>2. CASE session[s].stage = "sent"
      <3>1. session[s].campaign \in Campaigns /\ session[s].customer \in Customers
        BY <2>2 DEF TypeInv, SaneInv, Sane
      <3>2. [lost EXCEPT ![session[s].campaign][session[s].customer] = @ + 1]
              \in [Campaigns -> [Customers -> Nat]]
        BY <3>1 DEF TypeInv, TypeOK
      <3>3. QED
        BY <2>1, <3>2 DEF Forget, TypeInv, TypeOK
    <2>3. CASE session[s].stage # "sent"
      BY <2>1, <2>3 DEF Forget, TypeInv, TypeOK
    <2>4. QED
      BY <2>2, <2>3
  <1>3. CASE CommitFails(s)
    BY <1>1, <1>2, <1>3 DEF CommitFails, TypeInv, TypeOK, bounds, Pairs
  <1>4. CASE Crash(s)
    BY <1>1, <1>2, <1>4 DEF Crash, TypeInv, TypeOK, Pairs
  <1>5. QED
    BY <1>3, <1>4

\* The recorded anomaly is a row, and its session goes on.
LEMMA RecordType ==
  ASSUME CampaignAssumption, TypeInv, NEW s \in Sessions, NEW i \in AnomalyIds, RecordAnomaly(s, i)
  PROVE  TypeInv'
  <1> DEFINE w == session[s]
             queue == IF w.severity = "high" THEN Hooked("high") ELSE {}
  <1>1. w \in Session /\ Sane(w)
    BY DEF TypeInv, TypeOK, SaneInv
  <1>2. anomaly' \in [AnomalyIds -> [customer : Customers \cup {NoCustomer}, severity : Severities,
                                     at : Nat, state : {"none", "open", "resolved"}]]
    BY <1>1 DEF RecordAnomaly, TypeInv, TypeOK, Session
  <1>3. [w EXCEPT !.queue = queue] \in Session
    BY <1>1 DEF Session, Hooked, Active
  <1>4. Resting([w EXCEPT !.queue = queue]) \in Session /\ Sane(Resting([w EXCEPT !.queue = queue]))
    <2>1. /\ [w EXCEPT !.queue = queue].targets = w.targets
          /\ [w EXCEPT !.queue = queue].campaign = w.campaign
      BY <1>1 DEF Session
    <2>2. QED
      BY <1>1, <1>3, <2>1, RestingType DEF Sane
  <1>5. session' \in [Sessions -> Session] /\ SaneInv'
    <2>1. Becomes(s, Resting([w EXCEPT !.queue = queue]))
      BY DEF RecordAnomaly
    <2>2. QED
      BY <1>4, <2>1, BecomesType
  <1>6. QED
    BY <1>2, <1>5 DEF RecordAnomaly, TypeInv, TypeOK, bounds, history, Pairs

\* Steps of everything but a session.
LEMMA TypeStepOthers ==
  ASSUME CampaignAssumption, TypeInv,
         \/ Endpoints
         \/ \E k \in Campaigns, c \in Customers : Rescore(k, c)
         \/ Tick
         \/ UNCHANGED vars
  PROVE  TypeInv'
  <1>1. ASSUME NEW k \in Campaigns, NEW new \in {"active", "paused"}, CreateCampaign(k, new)
        PROVE  TypeInv'
    BY <1>1 DEF CreateCampaign, TypeInv, TypeOK, SaneInv, Sane, history, Pairs
  <1>2. ASSUME NEW k \in Campaigns, NEW new \in {"active", "paused"}, UpdateCampaign(k, new)
        PROVE  TypeInv'
    BY <1>2 DEF UpdateCampaign, TypeInv, TypeOK, SaneInv, Sane, history, Pairs
  <1>3. ASSUME NEW k \in Campaigns, DeleteCampaign(k)
        PROVE  TypeInv'
    BY <1>3 DEF DeleteCampaign, TypeInv, TypeOK, SaneInv, Sane, history, Pairs
  <1>4. ASSUME NEW i \in AnomalyIds, ResolveAnomaly(i)
        PROVE  TypeInv'
    <2>0. anomaly[i] \in [customer : Customers \cup {NoCustomer}, severity : Severities,
                           at : Nat, state : {"none", "open", "resolved"}]
      BY DEF TypeInv, TypeOK
    <2>1. [anomaly[i] EXCEPT !.state = "resolved"]
            \in [customer : Customers \cup {NoCustomer}, severity : Severities,
                 at : Nat, state : {"none", "open", "resolved"}]
      BY <2>0
    <2>2. anomaly' = [anomaly EXCEPT ![i] = [anomaly[i] EXCEPT !.state = "resolved"]]
      BY <1>4 DEF ResolveAnomaly
    <2>3. anomaly' \in [AnomalyIds -> [customer : Customers \cup {NoCustomer}, severity : Severities,
                                       at : Nat, state : {"none", "open", "resolved"}]]
      BY <2>1, <2>2 DEF TypeInv, TypeOK
    <2>4. QED
      BY <1>4, <2>3 DEF ResolveAnomaly, TypeInv, TypeOK, SaneInv, Sane, bounds, history, Pairs
  <1>5. ASSUME NEW k \in Campaigns, NEW c \in Customers, Rescore(k, c)
        PROVE  TypeInv'
    BY <1>5 DEF Rescore, TypeInv, TypeOK, SaneInv, Sane, history, Pairs
  <1>6. CASE Tick
    BY <1>6 DEF Tick, TypeInv, TypeOK, SaneInv, Sane, bounds, history, Pairs
  <1>7. CASE UNCHANGED vars
    BY <1>7 DEF vars, TypeInv, TypeOK, SaneInv, Sane, bounds, history, Pairs
  <1>8. QED
    BY <1>1, <1>2, <1>3, <1>4, <1>5, <1>6, <1>7 DEF Endpoints

\* The variables of the outreach engine always hold values of their kinds, and
\* a session that evaluates a campaign or deals with a customer has it.
THEOREM OutreachTypeCorrect == Spec => []TypeInv
  <1>1. Init => TypeInv
    <2> SUFFICES ASSUME Init PROVE TypeInv
      OBVIOUS
    <2>1. session \in [Sessions -> Session] /\ SaneInv
      BY IdleType DEF Init, SaneInv
    <2>2. anomaly \in [AnomalyIds -> [customer : Customers \cup {NoCustomer}, severity : Severities,
                                      at : Nat, state : {"none", "open", "resolved"}]]
      BY DEF Init, Severities
    <2>3. stamps \in [Campaigns -> [Customers -> SUBSET Nat]]
      BY DEF Init
    <2>4. tally \in [Campaigns -> [Customers -> [Marks -> Int]]]
      BY DEF Init
    <2>5. QED
      BY <2>1, <2>2, <2>3, <2>4 DEF Init, TypeInv, TypeOK, Pairs
  <1>2. TypeInv /\ [Next]_vars => TypeInv'
    <2> SUFFICES ASSUME TypeInv, [Next]_vars PROVE TypeInv'
      OBVIOUS
    <2>1. \A c \in Customers : {c} \in SUBSET Customers
      OBVIOUS
    <2>2. CampaignAssumption /\ Crons \subseteq Sessions /\ Scans \subseteq Sessions
      BY CampaignAssumption DEF Sessions
    <2>3. ASSUME NEW s \in Sessions, Evaluate(s)
          PROVE  TypeInv'
      BY <2>2, <2>3, TypeStepSession, DeliverType, CommitRowType, EndType DEF Evaluate, Contact
    <2>4. ASSUME NEW s \in Scans, Scan(s)
          PROVE  TypeInv'
      BY <2>2, <2>4, TypeStepSession, RecordType DEF Scan
    <2>5. CASE \E s \in Scans : StartScan(s, Customers) \/ \E c \in Customers : StartScan(s, {c})
      BY <2>1, <2>2, <2>5, TypeStepSession
    <2>6. CASE \E s \in Crons : StartEvaluation(s)
      BY <2>2, <2>6, TypeStepSession
    <2>7. CASE \E s \in Sessions : Crash(s)
      BY <2>2, <2>7, EndType
    <2>8. QED
      BY <2>2, <2>3, <2>4, <2>5, <2>6, <2>7, TypeStepOthers DEF Next
  <1>3. QED
    BY <1>1, <1>2, PTL DEF Spec

(***************************************************************************)
(* The debounce.  A scan that found an anomaly still relies on having seen *)
(* no open one near by: that stays true until it records its own, unless   *)
(* another scan was about to do the same, and then both were together.     *)
(***************************************************************************)
Found(s) == session[s].stage = "found"

\* The anomalies a scan would record lie far from the open ones.
FarFromOpen ==
  \A s \in Sessions, i \in AnomalyIds :
    /\ Found(s) /\ anomaly[i].state = "open" /\ anomaly[i].customer = session[s].customer
    => anomaly[i].at < session[s].seenAt - Debounce \/ session[s].customer \in together

\* Two scans about to record an anomaly of one customer are together.
TwoAreTogether ==
  \A s, v \in Sessions :
    s # v /\ Found(s) /\ Found(v) /\ session[s].customer = session[v].customer
    => session[s].customer \in together

DebounceInv == DebounceKept /\ FarFromOpen /\ TwoAreTogether

\* A step in which no session finds an anomaly and none is opened.
LEMMA DebounceFrame ==
  ASSUME DebounceInv, TypeInv, anomaly' = anomaly, together' = together,
         \/ session' = session
         \/ \E s \in Sessions, w \in Session : w.stage # "found" /\ Becomes(s, w)
  PROVE  DebounceInv'
  <1>1. \A s \in Sessions : Found(s)' => Found(s) /\ session'[s] = session[s]
    BY DEF Becomes, Found, TypeInv, TypeOK
  <1>2. DebounceKept'
    BY DEF DebounceInv, DebounceKept
  <1>3. FarFromOpen'
    BY <1>1 DEF DebounceInv, FarFromOpen, Found
  <1>4. TwoAreTogether'
    BY <1>1 DEF DebounceInv, TwoAreTogether, Found
  <1>5. QED
    BY <1>2, <1>3, <1>4 DEF DebounceInv

\* A scan finds an anomaly: no open one is near, and a scan that found one of
\* the same customer is with it.
LEMMA DebounceDetect ==
  ASSUME CampaignAssumption, DebounceInv, TypeInv, NEW s \in Sessions, NEW c \in Customers,
         NEW severity \in Severities, Detect(s, c, severity)
  PROVE  DebounceInv'
  <1>1. now \in Nat /\ Debounce \in Nat /\ session[s] \in Session
    BY CampaignAssumption DEF CampaignAssumption, TypeInv, TypeOK
  <1>2. anomaly' = anomaly /\ together \subseteq together'
    <2>1. together' = together \/ together' = together \cup {c}
      BY DEF Detect
    <2>2. QED
      BY <2>1 DEF Detect
  <1>3. /\ session'[s].customer = c /\ session'[s].seenAt = now
        /\ \A v \in Sessions \ {s} : session'[v] = session[v]
    BY <1>1 DEF Detect, Becomes, TypeInv, TypeOK, Session
  <1>4. \A i \in AnomalyIds : anomaly[i].state = "open" /\ anomaly[i].customer = c
                              => anomaly[i].at < now - Debounce
    <2> SUFFICES ASSUME NEW i \in AnomalyIds, anomaly[i].state = "open", anomaly[i].customer = c
                 PROVE  anomaly[i].at < now - Debounce
      OBVIOUS
    <2>1. ~(anomaly[i].at >= now - Debounce)
      BY DEF Detect, Debounced, Open
    <2>2. anomaly[i].at \in Nat
      BY DEF TypeInv, TypeOK
    <2>3. QED
      BY <1>1, <2>1, <2>2
  <1>5. \A v \in Sessions \ {s} : Found(v) /\ session[v].customer = c => c \in together'
    BY DEF Detect, Found
  <1>6. DebounceKept'
    BY <1>2 DEF DebounceInv, DebounceKept
  <1>7. FarFromOpen'
    BY <1>2, <1>3, <1>4 DEF DebounceInv, FarFromOpen, Found
  <1>8. TwoAreTogether'
    BY <1>2, <1>3, <1>5 DEF DebounceInv, TwoAreTogether, Found
  <1>9. QED
    BY <1>6, <1>7, <1>8 DEF DebounceInv

\* The recorded anomaly is far from the open ones, and from those that other
\* scans are about to record.
LEMMA DebounceRecord ==
  ASSUME CampaignAssumption, DebounceInv, TypeInv, NEW s \in Sessions, NEW n \in AnomalyIds,
         RecordAnomaly(s, n)
  PROVE  DebounceInv'
  <1> DEFINE c == session[s].customer
             new == [customer |-> c, severity |-> session[s].severity,
                     at |-> session[s].seenAt, state |-> "open"]
  <1>1. /\ Debounce \in Nat /\ session[s].seenAt \in Nat /\ Found(s)
        /\ \A i \in AnomalyIds : anomaly[i].at \in Nat
    BY CampaignAssumption DEF CampaignAssumption, TypeInv, TypeOK, Session, RecordAnomaly, Found
  <1>2. /\ together' = together
        /\ anomaly' = [anomaly EXCEPT ![n] = new]
    BY DEF RecordAnomaly, history
  <1>3. \A i \in AnomalyIds \ {n} : anomaly'[i] = anomaly[i]
    BY <1>2 DEF TypeInv, TypeOK
  <1>4. /\ anomaly'[n].customer = c /\ anomaly'[n].at = session[s].seenAt
    BY <1>2 DEF TypeInv, TypeOK
  <1>5. \A v \in Sessions : Found(v)' => v # s /\ session'[v] = session[v] /\ Found(v)
    <2>1. session' = [session EXCEPT ![s] =
            Resting([session[s] EXCEPT !.queue = IF session[s].severity = "high"
                                                 THEN Hooked("high") ELSE {}])]
      BY DEF RecordAnomaly, Becomes
    <2>2. Resting([session[s] EXCEPT !.queue = IF session[s].severity = "high"
                                               THEN Hooked("high") ELSE {}]).stage # "found"
      <3> DEFINE w == [session[s] EXCEPT !.queue = IF session[s].severity = "high"
                                                   THEN Hooked("high") ELSE {}]
      <3>1. session[s] \in Session /\ Sane(session[s])
        BY DEF TypeInv, TypeOK, SaneInv
      <3>2. w \in Session
        BY <3>1 DEF Session, Hooked, Active
      <3> HIDE DEF w
      <3>3. Resting(w).stage # "found"
        BY <3>2, RestingStage
      <3>4. QED
        BY <3>3 DEF w
    <2>3. QED
      BY <2>1, <2>2 DEF Found, TypeInv, TypeOK
  <1>6. FarFromOpen'
    <2> SUFFICES ASSUME NEW v \in Sessions, NEW i \in AnomalyIds, Found(v)', anomaly'[i].state = "open",
                        anomaly'[i].customer = session'[v].customer
                 PROVE  \/ anomaly'[i].at < session'[v].seenAt - Debounce
                        \/ session'[v].customer \in together'
      BY DEF FarFromOpen
    <2>1. CASE i = n
      BY <1>1, <1>2, <1>4, <1>5, <2>1 DEF DebounceInv, TwoAreTogether
    <2>2. CASE i # n
      BY <1>2, <1>3, <1>5, <2>2 DEF DebounceInv, FarFromOpen
    <2>3. QED
      BY <2>1, <2>2
  <1>7. TwoAreTogether'
    BY <1>2, <1>5 DEF DebounceInv, TwoAreTogether, Found
  <1>8. DebounceKept'
    <2> SUFFICES ASSUME NEW i \in AnomalyIds, NEW j \in AnomalyIds, i # j,
                        anomaly'[i].state = "open", anomaly'[j].state = "open",
                        anomaly'[i].customer = anomaly'[j].customer,
                        anomaly'[i].at <= anomaly'[j].at,
                        anomaly'[j].at <= anomaly'[i].at + Debounce
                 PROVE  anomaly'[i].customer \in together'
      BY DEF DebounceKept
    <2>1. CASE i = n
      <3>1. \/ anomaly[j].at < session[s].seenAt - Debounce
            \/ c \in together
        BY <1>1, <1>3, <1>4, <2>1 DEF DebounceInv, FarFromOpen
      <3>2. session[s].seenAt <= anomaly[j].at
        BY <1>3, <1>4, <2>1
      <3>3. c \in together
        BY <1>1, <3>1, <3>2
      <3>4. QED
        BY <1>2, <1>4, <2>1, <3>3
    <2>2. CASE j = n
      <3>1. \/ anomaly[i].at < session[s].seenAt - Debounce
            \/ c \in together
        BY <1>1, <1>3, <1>4, <2>2 DEF DebounceInv, FarFromOpen
      <3>2. session[s].seenAt <= anomaly[i].at + Debounce
        BY <1>3, <1>4, <2>2
      <3>3. c \in together
        BY <1>1, <3>1, <3>2
      <3>4. QED
        BY <1>2, <1>4, <2>2, <3>3
    <2>3. CASE i # n /\ j # n
      BY <1>2, <1>3, <2>3 DEF DebounceInv, DebounceKept
    <2>4. QED
      BY <2>1, <2>2, <2>3
  <1>9. QED
    BY <1>6, <1>7, <1>8 DEF DebounceInv

\* Resolving an anomaly only takes one from the open ones.
LEMMA DebounceResolve ==
  ASSUME DebounceInv, TypeInv, NEW n \in AnomalyIds, ResolveAnomaly(n)
  PROVE  DebounceInv'
  <1>1. session' = session /\ together' = together
    BY DEF ResolveAnomaly, history
  <1>2. \A i \in AnomalyIds : anomaly'[i].state = "open" => anomaly'[i] = anomaly[i]
    BY DEF ResolveAnomaly, TypeInv, TypeOK
  <1>3. QED
    BY <1>1, <1>2 DEF DebounceInv, DebounceKept, FarFromOpen, TwoAreTogether, Found

\* A step of a session that finds no anomaly and records none.
Moves(s) ==
  \/ StartEvaluation(s)
  \/ StartScan(s, Customers) \/ \E c \in Customers : StartScan(s, {c}) \/ PassOver(s, c)
  \/ \E k \in Campaigns : BeginCampaign(s, k)
  \/ Contact(s) \/ Crash(s)

\* Such a step leaves the session anywhere but at a found anomaly.
LEMMA MovesAway ==
  ASSUME CampaignAssumption, TypeInv, TypeInv', NEW s \in Sessions, Moves(s)
  PROVE  /\ anomaly' = anomaly /\ together' = together
         /\ \E w \in Session : w.stage # "found" /\ Becomes(s, w)
  <1>1. session[s] \in Session /\ session'[s] \in Session
    BY DEF TypeInv, TypeOK
  <1>2. anomaly' = anomaly /\ together' = together
    BY DEF Moves, StartEvaluation, StartScan, PassOver, BeginCampaign, Contact, CoolDown, Choose,
           Deliver, Refuse, CommitRow, CommitFails, Crash, history
  <1>3. PICK w : Becomes(s, w)
    BY DEF Moves, StartEvaluation, StartScan, PassOver, BeginCampaign, Contact, CoolDown, Choose,
           Deliver, Refuse, CommitRow, CommitFails, Crash
  <1>4. session' = [session EXCEPT ![s] = session'[s]] /\ Becomes(s, session'[s])
    BY <1>3 DEF Becomes, TypeInv, TypeOK
  <1>5. session'[s].stage # "found"
    <2>1. ASSUME NEW w0 \in Session, Becomes(s, Resting(w0))
          PROVE  session'[s].stage # "found"
      <3>1. session'[s] = Resting(w0)
        BY <2>1 DEF Becomes, TypeInv, TypeOK
      <3>2. QED
        BY <3>1, RestingStage
    <2>2. CASE StartEvaluation(s) \/ CommitFails(s) \/ Crash(s)
      <3>1. Idle \in Session /\ Idle.stage = "idle"
        BY IdleType DEF Idle
      <3>2. CASE StartEvaluation(s)
        <4>1. session'[s] = [Idle EXCEPT !.stage = "campaigns", !.queue = Active]
          BY <3>2 DEF StartEvaluation, Becomes, TypeInv, TypeOK
        <4>2. QED
          BY <3>1, <4>1 DEF Session
      <3>3. CASE CommitFails(s) \/ Crash(s)
        <4>1. session'[s] = Idle
          BY <3>3 DEF CommitFails, Crash, Becomes, TypeInv, TypeOK
        <4>2. QED
          BY <3>1, <4>1
      <3>4. QED
        BY <2>2, <3>2, <3>3
    <2>3. ASSUME NEW todo, StartScan(s, todo)
          PROVE  session'[s].stage # "found"
      <3>1. session'[s] = [Idle EXCEPT !.stage = "scan", !.todo = todo]
        BY <2>3 DEF StartScan, Becomes, TypeInv, TypeOK
      <3>2. QED
        BY <3>1, IdleType DEF Session
    <2>4. ASSUME NEW c \in Customers, PassOver(s, c)
          PROVE  session'[s].stage # "found"
      <3>1. [session[s] EXCEPT !.todo = @ \ {c}] \in Session
        BY <1>1 DEF Session
      <3>2. QED
        BY <2>1, <2>4, <3>1 DEF PassOver
    <2>5. ASSUME NEW k \in Campaigns, BeginCampaign(s, k)
          PROVE  session'[s].stage # "found"
      <3>1. Targets(k) \subseteq Customers /\ now - Cooldown \in Int
        BY DEF TypeInv, TypeOK, Targets, Flagged, CampaignAssumption
      <3>2. [session[s] EXCEPT !.queue = @ \ {k}, !.campaign = k, !.targets = Targets(k),
                               !.cutoff = now - Cooldown] \in Session
        BY <1>1, <3>1 DEF Session
      <3>3. QED
        BY <2>1, <2>5, <3>2 DEF BeginCampaign
    <2>6. ASSUME NEW c \in Customers, CoolDown(s, c)
          PROVE  session'[s].stage # "found"
      <3>1. [session[s] EXCEPT !.targets = @ \ {c}] \in Session
        BY <1>1 DEF Session
      <3>2. QED
        BY <2>1, <2>6, <3>1 DEF CoolDown
    <2>7. ASSUME NEW c \in Customers, Choose(s, c)
          PROVE  session'[s].stage # "found"
      BY <1>1, <2>7 DEF Choose, Becomes, TypeInv, TypeOK, Session
    <2>8. CASE Deliver(s) \/ Refuse(s)
      <3>1. CASE Deliver(s)
        <4>1. session'[s] = [session[s] EXCEPT !.stage = "sent", !.mark = "sent", !.sentAt = now,
                                              !.saved = (Channel[session[s].campaign] # "plain")]
          BY <3>1 DEF Deliver, Becomes, TypeInv, TypeOK
        <4>2. QED
          BY <1>1, <4>1 DEF Session
      <3>2. CASE Refuse(s)
        BY <1>1, <3>2 DEF Refuse, Becomes, TypeInv, TypeOK, Session
      <3>3. QED
        BY <2>8, <3>1, <3>2
    <2>9. CASE CommitRow(s)
      <3>1. Becomes(s, Resting(session[s]))
        BY <2>9 DEF CommitRow
      <3>2. QED
        BY <1>1, <2>1, <3>1
    <2>10. QED
      BY <2>2, <2>3, <2>4, <2>5, <2>6, <2>7, <2>8, <2>9 DEF Moves, Contact
  <1>6. QED
    BY <1>1, <1>2, <1>4, <1>5

\* Open anomalies of one customer lie further apart than the debounce period
\* unless two scans looked at the customer at once.
THEOREM DebounceHolds == Spec => []DebounceKept
  <1>1. Init => DebounceInv
    BY DEF Init, DebounceInv, DebounceKept, FarFromOpen, TwoAreTogether, Found, Idle
  <1>2. TypeInv /\ TypeInv' /\ DebounceInv /\ [Next]_vars => DebounceInv'
    <2> SUFFICES ASSUME TypeInv, TypeInv', DebounceInv, [Next]_vars PROVE DebounceInv'
      OBVIOUS
    <2>1. CampaignAssumption /\ Crons \subseteq Sessions /\ Scans \subseteq Sessions
      BY CampaignAssumption DEF Sessions
    <2>2. ASSUME NEW s \in Sessions, Moves(s)
          PROVE  DebounceInv'
      <3>1. /\ anomaly' = anomaly /\ together' = together
            /\ \E w \in Session : w.stage # "found" /\ Becomes(s, w)
        BY <2>1, <2>2, MovesAway
      <3>2. QED
        BY <3>1, DebounceFrame
    <2>3. ASSUME NEW s \in Scans, Scan(s)
          PROVE  DebounceInv'
      BY <2>1, <2>2, <2>3, DebounceDetect, DebounceRecord DEF Scan, Moves
    <2>4. CASE \E s \in Sessions : Evaluate(s) \/ Crash(s)
      BY <2>2, <2>4 DEF Evaluate, Contact, Moves
    <2>5. CASE \/ \E s \in Crons : StartEvaluation(s)
               \/ \E s \in Scans : StartScan(s, Customers) \/ \E c \in Customers : StartScan(s, {c})
      BY <2>1, <2>2, <2>5 DEF Moves
    <2>6. CASE Endpoints
      BY <2>6, DebounceFrame, DebounceResolve
         DEF Endpoints, CreateCampaign, UpdateCampaign, DeleteCampaign, history
    <2>7. CASE \/ \E k \in Campaigns, c \in Customers : Rescore(k, c)
               \/ Tick \/ UNCHANGED vars
      BY <2>7, DebounceFrame DEF Rescore, Tick, vars, history
    <2>8. QED
      BY <2>3, <2>4, <2>5, <2>6, <2>7 DEF Next
  <1>3. DebounceInv => DebounceKept
    BY DEF DebounceInv
  <1>4. QED
    BY <1>1, <1>2, <1>3, OutreachTypeCorrect, PTL DEF Spec

---------------------------------------------------------------------------

(***************************************************************************)
(* Sessions in flight                                                      *)
(***************************************************************************)
\* Only a session that has sent has a row in the database or a failed send.
Settled(w) ==
  /\ w.stage # "sent" => ~w.saved
  /\ w.stage = "sent" => w.mark \in {"sent", "failed"}
  /\ w.mark = "failed" => ~w.saved

SettledInv == \A s \in Sessions : Settled(session[s])

One(condition) == IF condition THEN 1 ELSE 0

\* How many sessions are in flight for a pair, after one session moved on.
LEMMA FlightCount ==
  ASSUME CampaignAssumption, TypeInv, NEW s \in Sessions, NEW w \in Session, Becomes(s, w),
         NEW k \in Campaigns, NEW c \in Customers, NEW b \in BOOLEAN
  PROVE  /\ Cardinality(InFlight(k, c, b)) \in Nat /\ Cardinality(InFlight(k, c, b)') \in Nat
         /\ Cardinality(InFlight(k, c, b)') = Cardinality(InFlight(k, c, b))
              - One(Carries(session[s], k, c, b)) + One(Carries(w, k, c, b))
  <1> DEFINE F == InFlight(k, c, b)
             G == InFlight(k, c, b)'
             others == F \ {s}
  <1>1. IsFiniteSet(Sessions) /\ F \subseteq Sessions /\ others \subseteq Sessions
    BY CampaignAssumption DEF CampaignAssumption, InFlight
  <1>2. IsFiniteSet(F) /\ IsFiniteSet(others)
    BY <1>1, FS_Subset
  <1>3. /\ F = IF Carries(session[s], k, c, b) THEN others \cup {s} ELSE others
        /\ s \notin others
    BY DEF InFlight
  <1>4. G = IF Carries(w, k, c, b) THEN others \cup {s} ELSE others
    <2>1. session'[s] = w /\ \A v \in Sessions \ {s} : session'[v] = session[v]
      BY DEF Becomes, TypeInv, TypeOK
    <2>2. G = {v \in Sessions : Carries(session'[v], k, c, b)}
      BY DEF InFlight, Carries
    <2>3. QED
      BY <2>1, <2>2 DEF InFlight
  <1>5. Cardinality(others) \in Nat /\ Cardinality(others \cup {s}) = Cardinality(others) + 1
    BY <1>2, <1>3, FS_CardinalityType, FS_AddElement
  <1> HIDE DEF F, G, others
  <1>6. /\ Cardinality(F) = Cardinality(others) + One(Carries(session[s], k, c, b))
        /\ Cardinality(G) = Cardinality(others) + One(Carries(w, k, c, b))
    BY <1>3, <1>4, <1>5 DEF One
  <1>7. /\ Cardinality(F) \in Nat /\ Cardinality(G) \in Nat
        /\ Cardinality(G) = Cardinality(F) - One(Carries(session[s], k, c, b))
                              + One(Carries(w, k, c, b))
    BY <1>5, <1>6 DEF One
  <1>8. QED
    BY <1>7 DEF F, G

(***************************************************************************)
(* The steps of a session, as far as messages are concerned.  In a quiet   *)
(* step nothing is checked, sent or committed.                             *)
(***************************************************************************)
\* A session with customers to check counts the cooldown from the past.
Prudent(w) == w.targets # {} \/ w.stage = "checked" => w.cutoff <= now - Cooldown

PrudentInv == \A s \in Sessions : Prudent(session[s])

Quiet(s) ==
  /\ session[s].stage # "sent"
  /\ \E w \in Session : /\ Becomes(s, w) /\ w.stage \notin {"checked", "sent"} /\ ~w.saved
                        /\ Prudent(w)
  /\ UNCHANGED <<stamps, tally, delivered, lastSent, early, lost, crossed, now>>

\* Going on at the level above is quiet.
LEMMA RestingQuiet ==
  ASSUME CampaignAssumption, TypeInv, NEW s \in Sessions, NEW w \in Session,
         session[s].stage # "sent", w.targets # {} => w.campaign \in Campaigns,
         w.targets # {} => w.cutoff <= now - Cooldown,
         Becomes(s, Resting(w)),
         UNCHANGED <<stamps, tally, delivered, lastSent, early, lost, crossed, now>>
  PROVE  Quiet(s)
  <1>1. Resting(w) \in Session
    BY RestingType
  <1>2. /\ Resting(w).stage \notin {"checked", "sent"} /\ ~Resting(w).saved
        /\ Resting(w).targets = w.targets /\ Resting(w).cutoff = w.cutoff
    BY RestingStage
  <1>3. QED
    BY <1>1, <1>2 DEF Quiet, Prudent

\* The steps of a session that are quiet.
LEMMA QuietSteps ==
  ASSUME CampaignAssumption, TypeInv, SettledInv, PrudentInv, NEW s \in Sessions,
         \/ StartEvaluation(s)
         \/ \E todo \in SUBSET Customers : StartScan(s, todo)
         \/ \E c \in Customers : PassOver(s, c) \/ CoolDown(s, c)
         \/ \E c \in Customers, severity \in Severities : Detect(s, c, severity)
         \/ \E i \in AnomalyIds : RecordAnomaly(s, i)
         \/ \E k \in Campaigns : BeginCampaign(s, k)
  PROVE  Quiet(s)
  <1>1. /\ session[s] \in Session /\ Sane(session[s])
        /\ Settled(session[s]) /\ Prudent(session[s])
        /\ now \in Nat /\ Cooldown \in Nat /\ now - Cooldown \in Int
    BY CampaignAssumption DEF CampaignAssumption, TypeInv, TypeOK, SaneInv, SettledInv, PrudentInv
  <1>2. Idle \in Session /\ Idle.targets = {} /\ Idle.saved = FALSE
    BY IdleType DEF Idle
  <1>3. CASE StartEvaluation(s)
    <2> DEFINE w == [Idle EXCEPT !.stage = "campaigns", !.queue = Active]
    <2>1. w \in Session /\ w.stage = "campaigns" /\ w.targets = {} /\ w.saved = FALSE
      BY <1>2 DEF Session, Active
    <2>2. Becomes(s, w)
      BY <1>3 DEF StartEvaluation
    <2> HIDE DEF w
    <2>3. QED
      BY <1>3, <2>1, <2>2 DEF Quiet, Prudent, StartEvaluation, history
  <1>4. ASSUME NEW todo \in SUBSET Customers, StartScan(s, todo)
        PROVE  Quiet(s)
    <2> DEFINE w == [Idle EXCEPT !.stage = "scan", !.todo = todo]
    <2>1. w \in Session /\ w.stage = "scan" /\ w.targets = {} /\ w.saved = FALSE
      BY <1>2 DEF Session
    <2>2. Becomes(s, w)
      BY <1>4 DEF StartScan
    <2> HIDE DEF w
    <2>3. QED
      BY <1>4, <2>1, <2>2 DEF Quiet, Prudent, StartScan, history
  <1>5. ASSUME NEW c \in Customers, PassOver(s, c)
        PROVE  Quiet(s)
    <2> DEFINE w == [session[s] EXCEPT !.todo = @ \ {c}]
    <2>1. /\ w \in Session /\ w.targets = session[s].targets
          /\ w.campaign = session[s].campaign /\ w.cutoff = session[s].cutoff
      BY <1>1 DEF Session
    <2>2. Becomes(s, Resting(w))
      BY <1>5 DEF PassOver
    <2> HIDE DEF w
    <2>3. QED
      BY <1>1, <1>5, <2>1, <2>2, RestingQuiet DEF PassOver, Sane, Prudent, history
  <1>6. ASSUME NEW c \in Customers, CoolDown(s, c)
        PROVE  Quiet(s)
    <2> DEFINE w == [session[s] EXCEPT !.targets = @ \ {c}]
    <2>1. /\ w \in Session /\ w.targets \subseteq session[s].targets
          /\ w.campaign = session[s].campaign /\ w.cutoff = session[s].cutoff
      BY <1>1 DEF Session
    <2>2. Becomes(s, Resting(w))
      BY <1>6 DEF CoolDown
    <2> HIDE DEF w
    <2>3. QED
      BY <1>1, <1>6, <2>1, <2>2, RestingQuiet DEF CoolDown, Sane, Prudent, history
  <1>7. ASSUME NEW c \in Customers, NEW severity \in Severities, Detect(s, c, severity)
        PROVE  Quiet(s)
    <2> DEFINE w == [session[s] EXCEPT !.stage = "found", !.todo = @ \ {c}, !.customer = c,
                                       !.severity = severity, !.seenAt = now]
    <2>1. /\ w \in Session /\ w.stage = "found" /\ w.targets = session[s].targets
          /\ w.cutoff = session[s].cutoff /\ w.saved = session[s].saved
      BY <1>1 DEF Session
    <2>2. Becomes(s, w)
      BY <1>7 DEF Detect
    <2> HIDE DEF w
    <2>3. QED
      BY <1>1, <1>7, <2>1, <2>2 DEF Quiet, Prudent, Settled, Detect
  <1>8. ASSUME NEW i \in AnomalyIds, RecordAnomaly(s, i)
        PROVE  Quiet(s)
    <2> DEFINE queue == IF session[s].severity = "high" THEN Hooked("high") ELSE {}
               w == [session[s] EXCEPT !.queue = queue]
    <2>1. queue \subseteq Campaigns
      BY DEF Hooked, Active
    <2>2. Becomes(s, Resting(w))
      BY <1>8 DEF RecordAnomaly
    <2> HIDE DEF queue
    <2>3. /\ w \in Session /\ w.targets = session[s].targets
          /\ w.campaign = session[s].campaign /\ w.cutoff = session[s].cutoff
      BY <1>1, <2>1 DEF Session
    <2> HIDE DEF w
    <2>4. QED
      BY <1>1, <1>8, <2>2, <2>3, RestingQuiet DEF RecordAnomaly, Sane, Prudent, history
  <1>9. ASSUME NEW k \in Campaigns, BeginCampaign(s, k)
        PROVE  Quiet(s)
    <2> DEFINE w == [session[s] EXCEPT !.queue = @ \ {k}, !.campaign = k,
                                       !.targets = Targets(k), !.cutoff = now - Cooldown]
    <2>1. Targets(k) \subseteq Customers
      BY DEF TypeInv, TypeOK, Targets, Flagged
    <2>2. w \in Session /\ w.campaign = k /\ w.cutoff = now - Cooldown
      BY <1>1, <2>1 DEF Session
    <2>3. Becomes(s, Resting(w))
      BY <1>9 DEF BeginCampaign
    <2> HIDE DEF w
    <2>4. w.campaign \in Campaigns /\ w.cutoff <= now - Cooldown
      BY <1>1, <2>2
    <2>5. /\ session[s].stage # "sent"
          /\ UNCHANGED <<stamps, tally, delivered, lastSent, early, lost, crossed, now>>
      BY <1>9 DEF BeginCampaign, history
    <2>6. QED
      BY <2>2, <2>3, <2>4, <2>5, RestingQuiet
  <1>10. QED
    BY <1>3, <1>4, <1>5, <1>6, <1>7, <1>8, <1>9

(***************************************************************************)
(* Accounting.  Besides MessagesAccounted: a pending row of a pair is      *)
(* there for every session that has one in flight.                         *)
(***************************************************************************)
PendingCovers ==
  \A k \in Campaigns, c \in Customers :
    tally[k][c]["pending"] >= Cardinality(InFlight(k, c, TRUE))

AccountInv == SettledInv /\ PrudentInv /\ MessagesAccounted /\ PendingCovers

\* What the cooldown once failed to see of a pair it never sees again.
ExcusedStays == \A k \in Campaigns, c \in Customers : Excused(k, c) => Excused(k, c)'

\* The pair's quantities have their types.
LEMMA PairTypes ==
  ASSUME CampaignAssumption, TypeInv, NEW k \in Campaigns, NEW c \in Customers
  PROVE  /\ delivered[k][c] \in Int /\ lost[k][c] \in Int
         /\ \A m \in Marks : tally[k][c][m] \in Int
         /\ \A b \in BOOLEAN : Cardinality(InFlight(k, c, b)) \in Int
  <1>1. /\ delivered[k][c] \in Int /\ lost[k][c] \in Int
        /\ \A m \in Marks : tally[k][c][m] \in Int
    BY DEF TypeInv, TypeOK
  <1>2. \A b \in BOOLEAN : InFlight(k, c, b) \in SUBSET Sessions
    BY DEF InFlight
  <1>3. \A b \in BOOLEAN : IsFiniteSet(InFlight(k, c, b))
    BY <1>2, FS_Subset DEF CampaignAssumption
  <1>4. QED
    BY <1>1, <1>3, FS_CardinalityType

\* A session becomes one that is settled and prudent, at the same time of day.
LEMMA SoundSession ==
  ASSUME TypeInv, SettledInv, PrudentInv, NEW s \in Sessions, NEW w \in Session, Becomes(s, w),
         Settled(w), Prudent(w), now' = now
  PROVE  SettledInv' /\ PrudentInv'
  <1>1. session'[s] = w /\ \A v \in Sessions \ {s} : session'[v] = session[v]
    BY DEF Becomes, TypeInv, TypeOK
  <1>2. QED
    BY <1>1 DEF SettledInv, PrudentInv, Settled, Prudent

\* Steps that leave the sessions and all counts alone.
LEMMA AccountFrame ==
  ASSUME TypeInv, AccountInv, UNCHANGED <<session, tally, delivered, lost, crossed>>,
         now' \in Nat, now' >= now, Cooldown \in Nat
  PROVE  AccountInv' /\ ExcusedStays
  <1>1. SettledInv' /\ MessagesAccounted' /\ PendingCovers' /\ ExcusedStays
    BY DEF AccountInv, SettledInv, Settled, MessagesAccounted, PendingCovers, InFlight, Carries,
           ExcusedStays, Excused, Orphaned
  <1>2. PrudentInv'
    <2> SUFFICES ASSUME NEW s \in Sessions PROVE Prudent(session[s])'
      BY DEF PrudentInv
    <2>1. Prudent(session[s]) /\ session[s].cutoff \in Int /\ now \in Nat
      BY DEF AccountInv, PrudentInv, TypeInv, TypeOK, Session
    <2>2. QED
      BY <2>1 DEF Prudent
  <1>3. QED
    BY <1>1, <1>2 DEF AccountInv

\* Steps in which no session gets into or out of flight.
LEMMA AccountStill ==
  ASSUME CampaignAssumption, TypeInv, AccountInv, NEW s \in Sessions, NEW w \in Session,
         Becomes(s, w), Settled(w), Prudent(w), UNCHANGED <<tally, delivered, lost, now>>,
         ~(session[s].stage = "sent" /\ session[s].mark = "sent"),
         ~(w.stage = "sent" /\ w.mark = "sent"), crossed \subseteq crossed'
  PROVE  AccountInv' /\ ExcusedStays
  <1>1. \A k \in Campaigns, c \in Customers, b \in BOOLEAN :
          Cardinality(InFlight(k, c, b)') = Cardinality(InFlight(k, c, b))
    <2> SUFFICES ASSUME NEW k \in Campaigns, NEW c \in Customers, NEW b \in BOOLEAN
                 PROVE  Cardinality(InFlight(k, c, b)') = Cardinality(InFlight(k, c, b))
      OBVIOUS
    <2>1. ~Carries(session[s], k, c, b) /\ ~Carries(w, k, c, b)
      BY DEF Carries
    <2>2. QED
      BY <2>1, FlightCount DEF One
  <1>2. MessagesAccounted' /\ PendingCovers'
    <2>1. \A k \in Campaigns, c \in Customers :
            /\ Cardinality(InFlight(k, c, TRUE))' = Cardinality(InFlight(k, c, TRUE))
            /\ Cardinality(InFlight(k, c, FALSE))' = Cardinality(InFlight(k, c, FALSE))
      BY <1>1
    <2>2. QED
      BY <2>1 DEF AccountInv, MessagesAccounted, PendingCovers
  <1>3. SettledInv' /\ PrudentInv'
    BY SoundSession DEF AccountInv
  <1>4. ExcusedStays
    <2>1. \A k \in Campaigns, c \in Customers :
            Cardinality(InFlight(k, c, TRUE))' = Cardinality(InFlight(k, c, TRUE))
      BY <1>1
    <2>2. QED
      BY <2>1 DEF ExcusedStays, Excused, Orphaned
  <1>5. QED
    BY <1>2, <1>3, <1>4 DEF AccountInv

\* A message handed over is a pending row or in flight without one.
LEMMA AccountDeliver ==
  ASSUME CampaignAssumption, TypeInv, AccountInv, NEW s \in Sessions, Deliver(s)
  PROVE  AccountInv' /\ ExcusedStays
  <1> DEFINE k0 == session[s].campaign
             c0 == session[s].customer
             saves == Channel[k0] # "plain"
             w == [session[s] EXCEPT !.stage = "sent", !.mark = "sent", !.sentAt = now,
                                     !.saved = saves]
  <1>1. /\ session[s] \in Session /\ session[s].stage = "checked" /\ now \in Nat
        /\ k0 \in Campaigns /\ c0 \in Customers /\ saves \in BOOLEAN
        /\ Prudent(session[s])
    BY DEF TypeInv, TypeOK, SaneInv, Sane, Deliver, AccountInv, PrudentInv
  <1>2. /\ w \in Session /\ w.stage = "sent" /\ w.mark = "sent" /\ w.saved = saves
        /\ w.campaign = k0 /\ w.customer = c0
        /\ w.targets = session[s].targets /\ w.cutoff = session[s].cutoff
    BY <1>1 DEF Session, Marks
  <1>3. /\ Becomes(s, w) /\ now' = now /\ lost' = lost
        /\ tally' = IF saves THEN [tally EXCEPT ![k0][c0]["pending"] = @ + 1] ELSE tally
        /\ delivered' = [delivered EXCEPT ![k0][c0] = @ + 1]
    BY DEF Deliver
  <1> HIDE DEF w, saves
  <1>4. SettledInv' /\ PrudentInv'
    <2>1. Settled(w) /\ Prudent(w)
      BY <1>1, <1>2 DEF Settled, Prudent
    <2>2. QED
      BY <1>2, <1>3, <2>1, SoundSession DEF AccountInv
  <1>5. ASSUME NEW k \in Campaigns, NEW c \in Customers
        PROVE  /\ delivered'[k][c] = tally'[k][c]["sent"] + tally'[k][c]["pending"]
                                     + Cardinality(InFlight(k, c, FALSE)') + lost'[k][c]
               /\ tally'[k][c]["pending"] >= Cardinality(InFlight(k, c, TRUE)')
               /\ tally[k][c]["pending"] > Cardinality(InFlight(k, c, TRUE))
                  => tally'[k][c]["pending"] > Cardinality(InFlight(k, c, TRUE)')
               /\ lost[k][c] > 0 => lost'[k][c] > 0
    <2> DEFINE here == k = k0 /\ c = c0
    <2>1. /\ Cardinality(InFlight(k, c, FALSE)') = Cardinality(InFlight(k, c, FALSE))
                                                   + One(here /\ ~saves)
          /\ Cardinality(InFlight(k, c, TRUE)') = Cardinality(InFlight(k, c, TRUE))
                                                  + One(here /\ saves)
      <3>1. \A b \in BOOLEAN : /\ ~Carries(session[s], k, c, b)
                               /\ Carries(w, k, c, b) <=> here /\ (saves <=> b)
        BY <1>1, <1>2 DEF Carries
      <3>2. \A b \in BOOLEAN : Cardinality(InFlight(k, c, b)) \in Int
        BY PairTypes
      <3>3. \A b \in BOOLEAN :
              Cardinality(InFlight(k, c, b)') = Cardinality(InFlight(k, c, b))
                - One(Carries(session[s], k, c, b)) + One(Carries(w, k, c, b))
        BY <1>2, <1>3, FlightCount
      <3>4. \A b \in BOOLEAN : One(Carries(session[s], k, c, b)) = 0
        BY <3>1 DEF One
      <3>5. \A b \in BOOLEAN : One(Carries(w, k, c, b)) = One(here /\ (saves <=> b))
        BY <3>1 DEF One
      <3>6. One(here /\ (saves <=> FALSE)) = One(here /\ ~saves)
            /\ One(here /\ (saves <=> TRUE)) = One(here /\ saves)
        BY <1>1 DEF One
      <3>7. \A b \in BOOLEAN : One(here /\ (saves <=> b)) \in Int
        BY DEF One
      <3>8. \A b \in BOOLEAN :
              Cardinality(InFlight(k, c, b)') = Cardinality(InFlight(k, c, b))
                                                + One(here /\ (saves <=> b))
        BY <3>2, <3>3, <3>4, <3>5, <3>7
      <3>9. QED
        BY <3>6, <3>8
    <2>2. delivered'[k][c] = delivered[k][c] + One(here)
      BY <1>1, <1>3 DEF One, TypeInv, TypeOK
    <2>3. /\ tally'[k][c]["sent"] = tally[k][c]["sent"]
          /\ tally'[k][c]["pending"] = tally[k][c]["pending"] + One(here /\ saves)
      BY <1>1, <1>3 DEF One, TypeInv, TypeOK, Marks
    <2>4. One(here) = One(here /\ saves) + One(here /\ ~saves)
      BY <1>1 DEF One
    <2>5. One(here /\ saves) \in Int /\ One(here /\ ~saves) \in Int
      BY DEF One
    <2>6. /\ delivered[k][c] \in Int /\ lost[k][c] \in Int /\ lost'[k][c] = lost[k][c]
          /\ tally[k][c]["sent"] \in Int /\ tally[k][c]["pending"] \in Int
          /\ Cardinality(InFlight(k, c, TRUE)) \in Int /\ Cardinality(InFlight(k, c, FALSE)) \in Int
      BY <1>3, PairTypes DEF Marks
    <2>7. /\ delivered[k][c] = tally[k][c]["sent"] + tally[k][c]["pending"]
                               + Cardinality(InFlight(k, c, FALSE)) + lost[k][c]
          /\ tally[k][c]["pending"] >= Cardinality(InFlight(k, c, TRUE))
      BY DEF AccountInv, MessagesAccounted, PendingCovers
    <2> DEFINE d == delivered[k][c]              d2 == delivered'[k][c]
               x == tally[k][c]["sent"]          x2 == tally'[k][c]["sent"]
               p == tally[k][c]["pending"]       p2 == tally'[k][c]["pending"]
               f == Cardinality(InFlight(k, c, FALSE))   f2 == Cardinality(InFlight(k, c, FALSE)')
               t == Cardinality(InFlight(k, c, TRUE))    t2 == Cardinality(InFlight(k, c, TRUE)')
               l == lost[k][c]                   l2 == lost'[k][c]
               plain == One(here /\ ~saves)      row == One(here /\ saves)
    <2>a. f2 = f + plain /\ t2 = t + row
      BY <2>1
    <2>b. d2 = d + (row + plain)
      BY <2>2, <2>4
    <2>c. x2 = x /\ p2 = p + row /\ l2 = l
      BY <2>3, <2>6
    <2>d. /\ plain \in Int /\ row \in Int /\ d \in Int /\ l \in Int /\ x \in Int
          /\ p \in Int /\ t \in Int /\ f \in Int
      BY <2>5, <2>6
    <2>e. d = x + p + f + l /\ p >= t
      BY <2>7
    <2>8. /\ f2 = f + plain /\ t2 = t + row /\ d2 = d + (row + plain)
          /\ x2 = x /\ p2 = p + row /\ l2 = l
          /\ plain \in Int /\ row \in Int /\ d \in Int /\ l \in Int /\ x \in Int
          /\ p \in Int /\ t \in Int /\ f \in Int
          /\ d = x + p + f + l /\ p >= t
      BY <2>a, <2>b, <2>c, <2>d, <2>e
    <2> HIDE DEF d, d2, x, x2, p, p2, f, f2, t, t2, l, l2, plain, row
    <2>9. d2 = x2 + p2 + f2 + l2 /\ p2 >= t2 /\ (p > t => p2 > t2) /\ (l > 0 => l2 > 0)
      BY <2>8
    <2>10. QED
      BY <2>9 DEF d, x, p, f, t, l, d2, x2, p2, f2, t2, l2
  <1>6. crossed' = crossed
    BY DEF Deliver, history
  <1>7. QED
    BY <1>4, <1>5, <1>6 DEF AccountInv, MessagesAccounted, PendingCovers, ExcusedStays, Excused, Orphaned

\* A committed row takes the place of the message in flight.
LEMMA AccountCommit ==
  ASSUME CampaignAssumption, TypeInv, AccountInv, NEW s \in Sessions, CommitRow(s)
  PROVE  AccountInv' /\ ExcusedStays
  <1> DEFINE v == session[s]
             k0 == v.campaign
             c0 == v.customer
             w == Resting(v)
  <1>1. /\ v \in Session /\ v.stage = "sent" /\ now' = now
        /\ k0 \in Campaigns /\ c0 \in Customers
        /\ Prudent(v) /\ Settled(v)
    BY DEF TypeInv, TypeOK, SaneInv, Sane, CommitRow, AccountInv, PrudentInv, SettledInv
  <1>2. w \in Session /\ w.stage # "sent" /\ Settled(w) /\ Prudent(w)
    <2>1. w \in Session
      BY <1>1, RestingType
    <2>2. /\ w.stage \in {"customers", "campaigns", "scan", "idle"} /\ w.saved = FALSE
          /\ w.mark = "pending" /\ w.targets = v.targets /\ w.cutoff = v.cutoff
      BY <1>1, RestingStage
    <2> HIDE DEF w
    <2>3. QED
      BY <1>1, <2>1, <2>2 DEF Settled, Prudent
  <1>3. /\ Becomes(s, w) /\ lost' = lost /\ delivered' = delivered
        /\ tally' = [tally EXCEPT ![k0][c0] = [m \in Marks |->
                       @[m] + (IF m = v.mark THEN 1 ELSE 0)
                            - (IF m = "pending" /\ v.saved THEN 1 ELSE 0)]]
    BY DEF CommitRow, history
  <1> HIDE DEF w
  <1>4. SettledInv' /\ PrudentInv'
    BY <1>1, <1>2, <1>3, SoundSession DEF AccountInv
  <1>5. ASSUME NEW k \in Campaigns, NEW c \in Customers
        PROVE  /\ delivered'[k][c] = tally'[k][c]["sent"] + tally'[k][c]["pending"]
                                     + Cardinality(InFlight(k, c, FALSE)') + lost'[k][c]
               /\ tally'[k][c]["pending"] >= Cardinality(InFlight(k, c, TRUE)')
               /\ tally[k][c]["pending"] > Cardinality(InFlight(k, c, TRUE))
                  => tally'[k][c]["pending"] > Cardinality(InFlight(k, c, TRUE)')
               /\ lost[k][c] > 0 => lost'[k][c] > 0
    <2> DEFINE here == k = k0 /\ c = c0
    <2>1. /\ Cardinality(InFlight(k, c, FALSE)') = Cardinality(InFlight(k, c, FALSE))
                                                   - One(Carries(v, k, c, FALSE))
          /\ Cardinality(InFlight(k, c, TRUE)') = Cardinality(InFlight(k, c, TRUE))
                                                  - One(Carries(v, k, c, TRUE))
      <3>1. \A b \in BOOLEAN : One(Carries(w, k, c, b)) = 0
        BY <1>2 DEF Carries, One
      <3>2. \A b \in BOOLEAN : Cardinality(InFlight(k, c, b)) \in Int
        BY PairTypes
      <3>3. \A b \in BOOLEAN :
              Cardinality(InFlight(k, c, b)') = Cardinality(InFlight(k, c, b))
                - One(Carries(v, k, c, b)) + One(Carries(w, k, c, b))
        BY <1>2, <1>3, FlightCount
      <3>4. \A b \in BOOLEAN : One(Carries(v, k, c, b)) \in Int
        BY DEF One
      <3>5. \A b \in BOOLEAN :
              Cardinality(InFlight(k, c, b)') = Cardinality(InFlight(k, c, b))
                                                - One(Carries(v, k, c, b))
        BY <3>1, <3>2, <3>3, <3>4
      <3>6. QED
        BY <3>5
    <2>2. /\ tally'[k][c]["sent"] = tally[k][c]["sent"] + One(here /\ v.mark = "sent")
          /\ tally'[k][c]["pending"] = tally[k][c]["pending"] - One(here /\ v.saved)
      <3>1. CASE here
        <4>1. tally'[k][c] = [m \in Marks |-> tally[k][c][m] + (IF m = v.mark THEN 1 ELSE 0)
                                              - (IF m = "pending" /\ v.saved THEN 1 ELSE 0)]
          BY <1>1, <1>3, <3>1 DEF TypeInv, TypeOK
        <4>2. v.mark # "pending" /\ {"sent", "pending"} \subseteq Marks
          BY <1>1 DEF Settled, Marks
        <4>3. tally[k][c]["sent"] \in Int /\ tally[k][c]["pending"] \in Int
          BY PairTypes DEF Marks
        <4>4. QED
          BY <3>1, <4>1, <4>2, <4>3 DEF One
      <3>2. CASE ~here
        <4>1. tally'[k][c] = tally[k][c]
          BY <1>1, <1>3, <3>2 DEF TypeInv, TypeOK
        <4>2. tally[k][c]["sent"] \in Int /\ tally[k][c]["pending"] \in Int
          BY PairTypes DEF Marks
        <4>3. QED
          BY <3>2, <4>1, <4>2 DEF One
      <3>3. QED
        BY <3>1, <3>2
    <2>3. /\ One(Carries(v, k, c, TRUE)) = One(here /\ v.saved)
          /\ One(here /\ v.mark = "sent") = One(Carries(v, k, c, FALSE)) + One(here /\ v.saved)
      <3>1. Carries(v, k, c, TRUE) <=> here /\ v.saved
        BY <1>1 DEF Carries, Settled, Session
      <3>2. Carries(v, k, c, FALSE) <=> here /\ v.mark = "sent" /\ ~v.saved
        BY <1>1 DEF Carries, Settled, Session
      <3>3. v.saved => v.mark = "sent"
        BY <1>1 DEF Settled
      <3>4. CASE here /\ v.saved
        BY <3>1, <3>2, <3>3, <3>4 DEF One
      <3>5. CASE ~(here /\ v.saved)
        <4>1. One(Carries(v, k, c, TRUE)) = 0 /\ One(here /\ v.saved) = 0
          BY <3>1, <3>5 DEF One
        <4>2. (here /\ v.mark = "sent") <=> Carries(v, k, c, FALSE)
          BY <3>2, <3>5
        <4>3. One(here /\ v.mark = "sent") = One(Carries(v, k, c, FALSE))
          BY <4>2 DEF One
        <4>4. One(Carries(v, k, c, FALSE)) \in Int
          BY DEF One
        <4> DEFINE plain == One(Carries(v, k, c, FALSE))   marked == One(here /\ v.mark = "sent")
                   saved == One(here /\ v.saved)
        <4>5. marked = plain /\ saved = 0 /\ plain \in Int
          BY <4>1, <4>3, <4>4
        <4> HIDE DEF plain, marked, saved
        <4>6. marked = plain + saved
          BY <4>5
        <4>7. QED
          BY <4>1, <4>6 DEF plain, marked, saved
      <3>6. QED
        BY <3>4, <3>5
    <2>4. One(here /\ v.saved) \in Int /\ One(Carries(v, k, c, FALSE)) \in Int
      BY DEF One
    <2>5. /\ delivered[k][c] \in Int /\ lost[k][c] \in Int
          /\ lost'[k][c] = lost[k][c] /\ delivered'[k][c] = delivered[k][c]
          /\ tally[k][c]["sent"] \in Int /\ tally[k][c]["pending"] \in Int
          /\ Cardinality(InFlight(k, c, TRUE)) \in Int /\ Cardinality(InFlight(k, c, FALSE)) \in Int
      BY <1>3, PairTypes DEF Marks
    <2>6. /\ delivered[k][c] = tally[k][c]["sent"] + tally[k][c]["pending"]
                               + Cardinality(InFlight(k, c, FALSE)) + lost[k][c]
          /\ tally[k][c]["pending"] >= Cardinality(InFlight(k, c, TRUE))
      BY DEF AccountInv, MessagesAccounted, PendingCovers
    <2> DEFINE d == delivered[k][c]              d2 == delivered'[k][c]
               x == tally[k][c]["sent"]          x2 == tally'[k][c]["sent"]
               p == tally[k][c]["pending"]       p2 == tally'[k][c]["pending"]
               f == Cardinality(InFlight(k, c, FALSE))   f2 == Cardinality(InFlight(k, c, FALSE)')
               t == Cardinality(InFlight(k, c, TRUE))    t2 == Cardinality(InFlight(k, c, TRUE)')
               l == lost[k][c]                   l2 == lost'[k][c]
               plain == One(Carries(v, k, c, FALSE))   row == One(here /\ v.saved)
    <2>a. f2 = f - plain /\ t2 = t - row
      BY <2>1, <2>3
    <2>b. x2 = x + (plain + row) /\ p2 = p - row
      BY <2>2, <2>3
    <2>c. d2 = d /\ l2 = l
      BY <2>5
    <2>d. /\ plain \in Int /\ row \in Int /\ d \in Int /\ l \in Int /\ x \in Int
          /\ p \in Int /\ t \in Int /\ f \in Int
      BY <2>4, <2>5
    <2>e. d = x + p + f + l /\ p >= t
      BY <2>6
    <2>7. /\ f2 = f - plain /\ t2 = t - row /\ d2 = d
          /\ x2 = x + (plain + row) /\ p2 = p - row /\ l2 = l
          /\ plain \in Int /\ row \in Int /\ d \in Int /\ l \in Int /\ x \in Int
          /\ p \in Int /\ t \in Int /\ f \in Int
          /\ d = x + p + f + l /\ p >= t
      BY <2>a, <2>b, <2>c, <2>d, <2>e
    <2> HIDE DEF d, d2, x, x2, p, p2, f, f2, t, t2, l, l2, plain, row
    <2>8. d2 = x2 + p2 + f2 + l2 /\ p2 >= t2 /\ (p > t => p2 > t2) /\ (l > 0 => l2 > 0)
      BY <2>7
    <2>9. QED
      BY <2>8 DEF d, x, p, f, t, l, d2, x2, p2, f2, t2, l2
  <1>6. crossed' = crossed
    BY DEF CommitRow, history
  <1>7. QED
    BY <1>4, <1>5, <1>6 DEF AccountInv, MessagesAccounted, PendingCovers, ExcusedStays, Excused, Orphaned

\* A message in flight whose session ends is lost, or leaves its pending row.
LEMMA AccountEnd ==
  ASSUME CampaignAssumption, TypeInv, AccountInv, NEW s \in Sessions, CommitFails(s) \/ Crash(s)
  PROVE  /\ AccountInv' /\ ExcusedStays
         /\ \A k \in Campaigns, c \in Customers, b \in BOOLEAN :
              Carries(session[s], k, c, b) => Excused(k, c)'
  <1> DEFINE v == session[s]
  <1>1. /\ Becomes(s, Idle) /\ Forget(v)
        /\ UNCHANGED <<tally, delivered, now>>
    BY DEF CommitFails, Crash
  <1>2. /\ Idle \in Session /\ Settled(Idle) /\ Prudent(Idle)
        /\ \A k \in Campaigns, c \in Customers, b \in BOOLEAN : ~Carries(Idle, k, c, b)
    BY IdleType DEF Idle, Settled, Prudent, Carries
  <1>3. v \in Session /\ (v.stage = "sent" => v.campaign \in Campaigns /\ v.customer \in Customers)
    BY DEF TypeInv, TypeOK, SaneInv, Sane
  <1>4. SettledInv' /\ PrudentInv'
    BY <1>1, <1>2, SoundSession DEF AccountInv
  <1>5. ASSUME NEW k \in Campaigns, NEW c \in Customers
        PROVE  /\ delivered'[k][c] = tally'[k][c]["sent"] + tally'[k][c]["pending"]
                                     + Cardinality(InFlight(k, c, FALSE)') + lost'[k][c]
               /\ tally'[k][c]["pending"] >= Cardinality(InFlight(k, c, TRUE)')
               /\ tally[k][c]["pending"] > Cardinality(InFlight(k, c, TRUE))
                  => tally'[k][c]["pending"] > Cardinality(InFlight(k, c, TRUE)')
               /\ lost[k][c] > 0 => lost'[k][c] > 0
               /\ \A b \in BOOLEAN : Carries(v, k, c, b) =>
                    \/ tally'[k][c]["pending"] > Cardinality(InFlight(k, c, TRUE)')
                    \/ lost'[k][c] > 0
    <2>1. /\ Cardinality(InFlight(k, c, FALSE)') = Cardinality(InFlight(k, c, FALSE))
                                                   - One(Carries(v, k, c, FALSE))
          /\ Cardinality(InFlight(k, c, TRUE)') = Cardinality(InFlight(k, c, TRUE))
                                                  - One(Carries(v, k, c, TRUE))
      <3>1. \A b \in BOOLEAN : One(Carries(Idle, k, c, b)) = 0
        BY <1>2 DEF One
      <3>2. \A b \in BOOLEAN : Cardinality(InFlight(k, c, b)) \in Int
        BY PairTypes
      <3>3. \A b \in BOOLEAN :
              Cardinality(InFlight(k, c, b)') = Cardinality(InFlight(k, c, b))
                - One(Carries(v, k, c, b)) + One(Carries(Idle, k, c, b))
        BY <1>1, <1>2, FlightCount
      <3>4. \A b \in BOOLEAN : One(Carries(v, k, c, b)) \in Int
        BY DEF One
      <3>5. \A b \in BOOLEAN :
              Cardinality(InFlight(k, c, b)') = Cardinality(InFlight(k, c, b))
                                                - One(Carries(v, k, c, b))
        BY <3>1, <3>2, <3>3, <3>4
      <3>6. QED
        BY <3>5
    <2>2. lost'[k][c] = lost[k][c] + One(Carries(v, k, c, FALSE))
      <3>1. CASE v.stage = "sent" /\ v.mark = "sent" /\ ~v.saved
        <4>1. lost' = [lost EXCEPT ![v.campaign][v.customer] = @ + 1]
          BY <1>1, <3>1 DEF Forget
        <4>2. Carries(v, k, c, FALSE) <=> v.campaign = k /\ v.customer = c
          BY <1>3, <3>1 DEF Carries, Session
        <4>3. /\ v.campaign \in Campaigns /\ v.customer \in Customers
              /\ lost \in [Campaigns -> [Customers -> Nat]]
          BY <1>3, <3>1 DEF TypeInv, TypeOK
        <4>4. lost'[k][c] = IF v.campaign = k /\ v.customer = c THEN lost[k][c] + 1 ELSE lost[k][c]
          BY <4>1, <4>3
        <4>5. lost[k][c] \in Nat
          BY <4>3
        <4>6. CASE Carries(v, k, c, FALSE)
          BY <4>2, <4>4, <4>6 DEF One
        <4>7. CASE ~Carries(v, k, c, FALSE)
          <5> DEFINE l == lost[k][c]   plain == One(Carries(v, k, c, FALSE))
          <5>1. plain = 0 /\ l \in Int
            BY <4>5, <4>7 DEF One
          <5>2. lost'[k][c] = l
            BY <4>2, <4>4, <4>7
          <5> HIDE DEF l, plain
          <5>3. lost'[k][c] = l + plain
            BY <5>1, <5>2
          <5>4. QED
            BY <5>3 DEF l, plain
        <4>8. QED
          BY <4>6, <4>7
      <3>2. CASE ~(v.stage = "sent" /\ v.mark = "sent" /\ ~v.saved)
        <4>1. lost' = lost /\ ~Carries(v, k, c, FALSE)
          BY <1>1, <1>3, <3>2 DEF Forget, Carries, Session
        <4>2. QED
          BY <4>1 DEF One, TypeInv, TypeOK
      <3>3. QED
        BY <3>1, <3>2
    <2>3. One(Carries(v, k, c, TRUE)) \in Nat /\ One(Carries(v, k, c, FALSE)) \in Nat
      BY DEF One
    <2>f. lost[k][c] \in Nat
      BY DEF TypeInv, TypeOK
    <2>4. /\ delivered[k][c] \in Int
          /\ delivered'[k][c] = delivered[k][c] /\ tally'[k][c] = tally[k][c]
          /\ tally[k][c]["sent"] \in Int /\ tally[k][c]["pending"] \in Int
          /\ Cardinality(InFlight(k, c, TRUE)) \in Int /\ Cardinality(InFlight(k, c, FALSE)) \in Int
      BY <1>1, PairTypes DEF Marks
    <2>5. /\ delivered[k][c] = tally[k][c]["sent"] + tally[k][c]["pending"]
                               + Cardinality(InFlight(k, c, FALSE)) + lost[k][c]
          /\ tally[k][c]["pending"] >= Cardinality(InFlight(k, c, TRUE))
      BY DEF AccountInv, MessagesAccounted, PendingCovers
    <2> DEFINE d == delivered[k][c]              d2 == delivered'[k][c]
               x == tally[k][c]["sent"]          x2 == tally'[k][c]["sent"]
               p == tally[k][c]["pending"]       p2 == tally'[k][c]["pending"]
               f == Cardinality(InFlight(k, c, FALSE))   f2 == Cardinality(InFlight(k, c, FALSE)')
               t == Cardinality(InFlight(k, c, TRUE))    t2 == Cardinality(InFlight(k, c, TRUE)')
               l == lost[k][c]                   l2 == lost'[k][c]
               plain == One(Carries(v, k, c, FALSE))   row == One(Carries(v, k, c, TRUE))
    <2>a. f2 = f - plain /\ t2 = t - row
      BY <2>1
    <2>b. l2 = l + plain
      BY <2>2
    <2>c. d2 = d /\ x2 = x /\ p2 = p
      BY <2>4
    <2>d. /\ plain \in Nat /\ row \in Nat /\ d \in Int /\ l \in Nat /\ x \in Int
          /\ p \in Int /\ t \in Int /\ f \in Int
      BY <2>3, <2>4, <2>f
    <2>e. d = x + p + f + l /\ p >= t
      BY <2>5
    <2>6. /\ f2 = f - plain /\ t2 = t - row /\ d2 = d /\ x2 = x /\ p2 = p /\ l2 = l + plain
          /\ plain \in Nat /\ row \in Nat /\ d \in Int /\ l \in Nat /\ x \in Int
          /\ p \in Int /\ t \in Int /\ f \in Int
          /\ d = x + p + f + l /\ p >= t
      BY <2>a, <2>b, <2>c, <2>d, <2>e
    <2> HIDE DEF d, d2, x, x2, p, p2, f, f2, t, t2, l, l2, plain, row
    <2>7. /\ d2 = x2 + p2 + f2 + l2 /\ p2 >= t2 /\ (p > t => p2 > t2) /\ (l > 0 => l2 > 0)
          /\ row = 1 => p2 > t2
          /\ plain = 1 => l2 > 0
      BY <2>6
    <2>8. \A b \in BOOLEAN : Carries(v, k, c, b) => row = 1 \/ plain = 1
      BY DEF row, plain, One
    <2>9. QED
      BY <2>7, <2>8 DEF d, x, p, f, t, l, d2, x2, p2, f2, t2, l2
  <1>6. crossed' = crossed
    BY DEF CommitFails, Crash
  <1>7. QED
    BY <1>4, <1>5, <1>6 DEF AccountInv, MessagesAccounted, PendingCovers, ExcusedStays, Excused, Orphaned

\* The remaining steps of a session leave the accounts alone.
LEMMA AccountQuiet ==
  ASSUME CampaignAssumption, TypeInv, AccountInv, NEW s \in Sessions, Quiet(s)
  PROVE  AccountInv' /\ ExcusedStays
  <1>1. PICK w \in Session : /\ Becomes(s, w) /\ w.stage \notin {"checked", "sent"} /\ ~w.saved
                             /\ Prudent(w)
    BY DEF Quiet
  <1>2. Settled(w) /\ session[s].stage # "sent"
    BY <1>1 DEF Settled, Quiet
  <1>3. UNCHANGED <<tally, delivered, lost, now>> /\ crossed \subseteq crossed'
    BY DEF Quiet
  <1>4. QED
    BY <1>1, <1>2, <1>3, AccountStill

LEMMA AccountChoose ==
  ASSUME CampaignAssumption, TypeInv, AccountInv, NEW s \in Sessions, NEW c \in Customers,
         Choose(s, c)
  PROVE  AccountInv' /\ ExcusedStays
  <1> DEFINE w == [session[s] EXCEPT !.stage = "checked", !.customer = c, !.targets = @ \ {c}]
  <1>1. /\ session[s] \in Session /\ Settled(session[s]) /\ Prudent(session[s])
        /\ session[s].stage = "customers" /\ c \in session[s].targets
    BY DEF TypeInv, TypeOK, AccountInv, SettledInv, PrudentInv, Choose
  <1>2. /\ w \in Session /\ w.stage = "checked" /\ w.saved = session[s].saved
        /\ w.cutoff = session[s].cutoff
    BY <1>1 DEF Session
  <1>3. Becomes(s, w) /\ UNCHANGED <<tally, delivered, lost, now>> /\ crossed \subseteq crossed'
    BY DEF Choose
  <1> HIDE DEF w
  <1>4. Settled(w) /\ Prudent(w)
    BY <1>1, <1>2 DEF Settled, Prudent
  <1>5. QED
    BY <1>1, <1>2, <1>3, <1>4, AccountStill

LEMMA AccountRefuse ==
  ASSUME CampaignAssumption, TypeInv, AccountInv, NEW s \in Sessions, Refuse(s)
  PROVE  AccountInv' /\ ExcusedStays
  <1> DEFINE w == [session[s] EXCEPT !.stage = "sent", !.mark = "failed", !.sentAt = now]
  <1>1. /\ session[s] \in Session /\ Settled(session[s]) /\ Prudent(session[s])
        /\ session[s].stage = "checked" /\ now \in Nat
    BY DEF TypeInv, TypeOK, AccountInv, SettledInv, PrudentInv, Refuse
  <1>2. /\ w \in Session /\ w.stage = "sent" /\ w.mark = "failed" /\ w.saved = session[s].saved
        /\ w.targets = session[s].targets /\ w.cutoff = session[s].cutoff
    BY <1>1 DEF Session, Marks
  <1>3. Becomes(s, w) /\ UNCHANGED <<tally, delivered, lost, now>> /\ crossed \subseteq crossed'
    BY DEF Refuse, history
  <1> HIDE DEF w
  <1>4. Settled(w) /\ Prudent(w)
    BY <1>1, <1>2 DEF Settled, Prudent
  <1>5. QED
    BY <1>1, <1>2, <1>3, <1>4, AccountStill

\* What everything but a session does to the accounts: nothing.
Elsewhere ==
  \/ Endpoints
  \/ \E k \in Campaigns, c \in Customers : Rescore(k, c)
  \/ Tick
  \/ UNCHANGED vars

LEMMA ElsewhereFrame ==
  ASSUME CampaignAssumption, TypeInv, Elsewhere
  PROVE  /\ UNCHANGED <<session, tally, delivered, lost, crossed, stamps, lastSent, early>>
         /\ now' \in Nat /\ now' >= now /\ Cooldown \in Nat
  <1>1. now \in Nat /\ Cooldown \in Nat
    BY DEF TypeInv, TypeOK, CampaignAssumption
  <1>2. CASE Endpoints
    BY <1>1, <1>2 DEF Endpoints, CreateCampaign, UpdateCampaign, DeleteCampaign, ResolveAnomaly,
                      history
  <1>3. CASE \E k \in Campaigns, c \in Customers : Rescore(k, c)
    BY <1>1, <1>3 DEF Rescore, history
  <1>4. CASE Tick
    BY <1>1, <1>4 DEF Tick, history
  <1>5. CASE UNCHANGED vars
    BY <1>1, <1>5 DEF vars, history
  <1>6. QED
    BY <1>2, <1>3, <1>4, <1>5 DEF Elsewhere

\* Every step is one of these.
LEMMA StepKinds ==
  ASSUME CampaignAssumption, TypeInv, AccountInv, [Next]_vars
  PROVE  \/ Elsewhere
         \/ \E s \in Sessions :
              \/ Quiet(s) \/ (\E c \in Customers : Choose(s, c))
              \/ Deliver(s) \/ Refuse(s) \/ CommitRow(s) \/ CommitFails(s) \/ Crash(s)
  <1>1. Crons \subseteq Sessions /\ Scans \subseteq Sessions /\ SettledInv /\ PrudentInv
        /\ \A c \in Customers : {c} \in SUBSET Customers
    BY DEF Sessions, AccountInv
  <1>2. ASSUME NEW s \in Sessions, Evaluate(s)
        PROVE  \/ Quiet(s) \/ (\E c \in Customers : Choose(s, c))
               \/ Deliver(s) \/ Refuse(s) \/ CommitRow(s) \/ CommitFails(s)
    BY <1>1, <1>2, QuietSteps DEF Evaluate, Contact
  <1>3. ASSUME NEW s \in Scans, Scan(s)
        PROVE  Quiet(s)
    BY <1>1, <1>3, QuietSteps DEF Scan
  <1>4. ASSUME NEW s \in Scans, StartScan(s, Customers) \/ \E c \in Customers : StartScan(s, {c})
        PROVE  Quiet(s)
    BY <1>1, <1>4, QuietSteps
  <1>5. ASSUME NEW s \in Crons, StartEvaluation(s)
        PROVE  Quiet(s)
    BY <1>1, <1>5, QuietSteps
  <1>6. QED
    BY <1>1, <1>2, <1>3, <1>4, <1>5 DEF Next, Elsewhere

LEMMA AccountStep ==
  ASSUME CampaignAssumption, TypeInv, AccountInv, [Next]_vars
  PROVE  AccountInv' /\ ExcusedStays
  <1>1. CASE Elsewhere
    BY <1>1, ElsewhereFrame, AccountFrame
  <1>2. ASSUME NEW s \in Sessions,
               \/ Quiet(s) \/ (\E c \in Customers : Choose(s, c))
               \/ Deliver(s) \/ Refuse(s) \/ CommitRow(s) \/ CommitFails(s) \/ Crash(s)
        PROVE  AccountInv' /\ ExcusedStays
    BY <1>2, AccountQuiet, AccountChoose, AccountDeliver, AccountRefuse, AccountCommit, AccountEnd
  <1>3. QED
    BY <1>1, <1>2, StepKinds

LEMMA AccountInit == ASSUME CampaignAssumption, Init PROVE AccountInv
  <1>1. \A s \in Sessions : session[s] = Idle
    BY DEF Init
  <1>2. /\ Idle.stage = "idle" /\ Idle.saved = FALSE /\ Idle.targets = {}
        /\ Idle.mark = "pending"
    BY DEF Idle
  <1>3. SettledInv /\ PrudentInv
    BY <1>1, <1>2 DEF SettledInv, PrudentInv, Settled, Prudent
  <1>4. \A k \in Campaigns, c \in Customers, b \in BOOLEAN : InFlight(k, c, b) = {}
    BY <1>1, <1>2 DEF InFlight, Carries
  <1>5. \A k \in Campaigns, c \in Customers :
          Cardinality(InFlight(k, c, FALSE)) = 0 /\ Cardinality(InFlight(k, c, TRUE)) = 0
    BY <1>4, FS_EmptySet
  <1>6. \A k \in Campaigns, c \in Customers :
          /\ tally[k][c]["sent"] = 0 /\ tally[k][c]["pending"] = 0
          /\ delivered[k][c] = 0 /\ lost[k][c] = 0
    BY DEF Init, Marks
  <1>7. MessagesAccounted /\ PendingCovers
    <2> SUFFICES ASSUME NEW k \in Campaigns, NEW c \in Customers
                 PROVE  /\ delivered[k][c] = tally[k][c]["sent"] + tally[k][c]["pending"]
                                             + Cardinality(InFlight(k, c, FALSE)) + lost[k][c]
                        /\ tally[k][c]["pending"] >= Cardinality(InFlight(k, c, TRUE))
      BY DEF MessagesAccounted, PendingCovers
    <2>1. /\ tally[k][c]["sent"] = 0 /\ tally[k][c]["pending"] = 0
          /\ delivered[k][c] = 0 /\ lost[k][c] = 0
          /\ Cardinality(InFlight(k, c, FALSE)) = 0 /\ Cardinality(InFlight(k, c, TRUE)) = 0
      BY <1>5, <1>6
    <2>2. 0 = 0 + 0 + 0 + 0 /\ 0 >= 0
      OBVIOUS
    <2>3. QED
      BY <2>1, <2>2, Zenon
  <1>8. QED
    BY <1>3, <1>7 DEF AccountInv

LEMMA AccountAlways == Spec => []AccountInv
  <1>1. Init => AccountInv
    BY CampaignAssumption, AccountInit
  <1>2. TypeInv /\ AccountInv /\ [Next]_vars => AccountInv'
    BY CampaignAssumption, AccountStep
  <1>3. QED
    BY <1>1, <1>2, OutreachTypeCorrect, PTL DEF Spec

\* No message handed to a channel goes unaccounted: it is a sent row, a pending
\* one, about to be committed, or was lost when its session ended.
THEOREM MessagesAccountedFor == Spec => []MessagesAccounted
  <1>1. AccountInv => MessagesAccounted
    BY DEF AccountInv
  <1>2. QED
    BY <1>1, AccountAlways, PTL

(***************************************************************************)
(* The cooldown.  The day of a pair's latest message is a committed stamp, *)
(* or a session is about to commit it, or the pair is excused.  A session  *)
(* that found no recent stamp has therefore seen the latest message too,   *)
(* unless another session was at the pair, which excuses it.               *)
(***************************************************************************)
At(w, k, c) == w.stage \in {"checked", "sent"} /\ w.campaign = k /\ w.customer = c

CrossInv ==
  \A k \in Campaigns, c \in Customers, s, v \in Sessions :
    s # v /\ At(session[s], k, c) /\ At(session[v], k, c) => <<k, c>> \in crossed

Announces(w, k, c, day) ==
  w.stage = "sent" /\ w.mark = "sent" /\ w.campaign = k /\ w.customer = c /\ w.sentAt = day

TraceInv ==
  \A k \in Campaigns, c \in Customers :
    \/ lastSent[k][c] = Never
    \/ lastSent[k][c] \in stamps[k][c]
    \/ Excused(k, c)
    \/ \E s \in Sessions : Announces(session[s], k, c, lastSent[k][c])

ClearInv ==
  \A k \in Campaigns, c \in Customers, s \in Sessions :
    At(session[s], k, c) /\ session[s].stage = "checked"
    => lastSent[k][c] = Never \/ lastSent[k][c] < session[s].cutoff \/ Excused(k, c)

CooldownInv == CrossInv /\ TraceInv /\ ClearInv /\ CooldownKept

\* A step that brings no session to a customer and ends no announcement.
LEMMA CooldownFrame ==
  ASSUME CooldownInv, ExcusedStays, UNCHANGED <<stamps, lastSent, early>>, crossed \subseteq crossed',
         \A v \in Sessions :
           /\ session'[v].stage \in {"checked", "sent"} =>
                /\ session[v].stage \in {"checked", "sent"}
                /\ session'[v].stage = "checked" => session[v].stage = "checked"
                /\ session'[v].campaign = session[v].campaign
                /\ session'[v].customer = session[v].customer
                /\ session'[v].cutoff = session[v].cutoff
           /\ session[v].stage = "sent" => session'[v] = session[v]
  PROVE  CooldownInv'
  <1>1. CrossInv'
    BY DEF CooldownInv, CrossInv, At
  <1>2. TraceInv'
    BY DEF CooldownInv, TraceInv, Announces, ExcusedStays
  <1>3. ClearInv'
    BY DEF CooldownInv, ClearInv, At, ExcusedStays
  <1>4. CooldownKept'
    BY DEF CooldownInv, CooldownKept, ExcusedStays
  <1>5. QED
    BY <1>1, <1>2, <1>3, <1>4 DEF CooldownInv

LEMMA CooldownQuiet ==
  ASSUME TypeInv, CooldownInv, ExcusedStays, NEW s \in Sessions, Quiet(s)
  PROVE  CooldownInv'
  <1>1. /\ session'[s].stage \notin {"checked", "sent"} /\ session[s].stage # "sent"
        /\ \A v \in Sessions \ {s} : session'[v] = session[v]
    BY DEF Quiet, Becomes, TypeInv, TypeOK
  <1>2. UNCHANGED <<stamps, lastSent, early>> /\ crossed \subseteq crossed'
    BY DEF Quiet
  <1>3. QED
    BY <1>1, <1>2, CooldownFrame

\* A refused message leaves its session at the pair.
LEMMA CooldownRefuse ==
  ASSUME TypeInv, CooldownInv, ExcusedStays, NEW s \in Sessions, Refuse(s)
  PROVE  CooldownInv'
  <1>1. /\ session'[s].stage = "sent" /\ session[s].stage = "checked"
        /\ session'[s].campaign = session[s].campaign
        /\ session'[s].customer = session[s].customer
        /\ session'[s].cutoff = session[s].cutoff
        /\ \A v \in Sessions \ {s} : session'[v] = session[v]
    BY DEF Refuse, Becomes, TypeInv, TypeOK, Session
  <1>2. UNCHANGED <<stamps, lastSent, early>> /\ crossed \subseteq crossed'
    BY DEF Refuse, history
  <1>3. QED
    BY <1>1, <1>2, CooldownFrame

\* A session that chooses a customer has seen the pair's latest message.
LEMMA CooldownChoose ==
  ASSUME CampaignAssumption, TypeInv, CooldownInv, ExcusedStays, NEW s \in Sessions,
         NEW c \in Customers, Choose(s, c)
  PROVE  CooldownInv'
  <1>0. PICK k \in Campaigns : k = session[s].campaign
    BY DEF TypeInv, SaneInv, Sane, Choose
  <1>1. session[s] \in Session /\ session[s].stage = "customers" /\ k = session[s].campaign
    BY <1>0 DEF TypeInv, TypeOK, Choose
  <1>2. /\ session'[s].stage = "checked" /\ session'[s].campaign = k
        /\ session'[s].customer = c /\ session'[s].cutoff = session[s].cutoff
        /\ \A v \in Sessions \ {s} : session'[v] = session[v]
    BY <1>1 DEF Choose, Becomes, TypeInv, TypeOK, Session
  <1>3. UNCHANGED <<stamps, lastSent, early>> /\ crossed \subseteq crossed'
    BY DEF Choose
  <1>4. \A v \in Sessions \ {s} : At(session[v], k, c) => <<k, c>> \in crossed'
    BY <1>1 DEF Choose, At
  <1>5. CrossInv'
    BY <1>2, <1>3, <1>4 DEF CooldownInv, CrossInv, At
  <1>6. TraceInv'
    BY <1>1, <1>2, <1>3 DEF CooldownInv, TraceInv, Announces, ExcusedStays
  <1>7. lastSent[k][c] = Never \/ lastSent[k][c] < session[s].cutoff \/ Excused(k, c)'
    <2>1. CASE lastSent[k][c] \in stamps[k][c]
      <3>1. ~(lastSent[k][c] >= session[s].cutoff)
        BY <1>1, <2>1 DEF Choose, Recent
      <3>2. lastSent[k][c] \in Nat /\ session[s].cutoff \in Int
        BY <1>1, <2>1 DEF TypeInv, TypeOK, Session
      <3>3. QED
        BY <3>1, <3>2
    <2>2. ASSUME NEW v \in Sessions, Announces(session[v], k, c, lastSent[k][c])
          PROVE  Excused(k, c)'
      <3>1. v # s /\ At(session[v], k, c)
        BY <1>1, <2>2 DEF Announces, At
      <3>2. QED
        BY <1>4, <3>1 DEF Excused
    <2>3. CASE Excused(k, c)
      BY <1>1, <2>3 DEF ExcusedStays
    <2>4. QED
      BY <1>1, <2>1, <2>2, <2>3 DEF CooldownInv, TraceInv
  <1>8. ClearInv'
    <2> SUFFICES ASSUME NEW k1 \in Campaigns, NEW c1 \in Customers, NEW v \in Sessions,
                        At(session'[v], k1, c1), session'[v].stage = "checked"
                 PROVE  \/ lastSent[k1][c1] = Never \/ lastSent[k1][c1] < session'[v].cutoff
                        \/ Excused(k1, c1)'
      BY <1>3 DEF ClearInv, At
    <2>1. CASE v = s
      BY <1>2, <1>7, <2>1 DEF At
    <2>2. CASE v # s
      BY <1>2, <2>2 DEF CooldownInv, ClearInv, ExcusedStays
    <2>3. QED
      BY <2>1, <2>2
  <1>9. CooldownKept'
    BY <1>3 DEF CooldownInv, CooldownKept, ExcusedStays
  <1>10. QED
    BY <1>5, <1>6, <1>8, <1>9 DEF CooldownInv

\* A message goes out within the cooldown only for an excused pair.
LEMMA CooldownDeliver ==
  ASSUME CampaignAssumption, TypeInv, AccountInv, CooldownInv, ExcusedStays, NEW s \in Sessions,
         Deliver(s)
  PROVE  CooldownInv'
  <1> DEFINE k == session[s].campaign
             c == session[s].customer
  <1>1. /\ session[s] \in Session /\ session[s].stage = "checked" /\ k \in Campaigns /\ c \in Customers
        /\ now \in Nat /\ Cooldown \in Nat /\ session[s].cutoff \in Int
        /\ session[s].cutoff <= now - Cooldown /\ At(session[s], k, c)
    BY DEF TypeInv, TypeOK, SaneInv, Sane, Deliver, AccountInv, PrudentInv, Prudent, Session,
           CampaignAssumption, At
  <1>2. /\ session'[s].stage = "sent" /\ session'[s].mark = "sent" /\ session'[s].sentAt = now
        /\ session'[s].campaign = k /\ session'[s].customer = c
        /\ \A v \in Sessions \ {s} : session'[v] = session[v]
    <2>1. session' = [session EXCEPT ![s] =
                        [session[s] EXCEPT !.stage = "sent", !.mark = "sent", !.sentAt = now,
                                           !.saved = (Channel[k] # "plain")]]
      BY DEF Deliver, Becomes
    <2>2. QED
      BY <1>1, <2>1 DEF TypeInv, TypeOK, Session
  <1>3. /\ stamps' = stamps /\ crossed' = crossed
        /\ lastSent' = [lastSent EXCEPT ![k][c] = now]
        /\ early' = IF lastSent[k][c] # Never /\ now <= lastSent[k][c] + Cooldown
                    THEN early \cup {<<k, c>>} ELSE early
    BY DEF Deliver
  <1> HIDE DEF k, c
  <1>4. /\ lastSent'[k][c] = now
        /\ \A k1 \in Campaigns, c1 \in Customers :
             <<k1, c1>> # <<k, c>> => lastSent'[k1][c1] = lastSent[k1][c1]
    BY <1>1, <1>3 DEF TypeInv, TypeOK
  <1>5. CrossInv'
    BY <1>1, <1>2, <1>3 DEF CooldownInv, CrossInv, At
  <1>6. TraceInv'
    <2> SUFFICES ASSUME NEW k1 \in Campaigns, NEW c1 \in Customers
                 PROVE  \/ lastSent'[k1][c1] = Never \/ lastSent'[k1][c1] \in stamps'[k1][c1]
                        \/ Excused(k1, c1)'
                        \/ \E v \in Sessions : Announces(session'[v], k1, c1, lastSent'[k1][c1])
      BY DEF TraceInv, Announces
    <2>1. CASE <<k1, c1>> = <<k, c>>
      BY <1>2, <1>4, <2>1 DEF Announces
    <2>2. CASE <<k1, c1>> # <<k, c>>
      BY <1>1, <1>2, <1>3, <1>4, <2>2 DEF CooldownInv, TraceInv, Announces, ExcusedStays
    <2>3. QED
      BY <2>1, <2>2
  <1>7. ClearInv'
    <2> SUFFICES ASSUME NEW k1 \in Campaigns, NEW c1 \in Customers, NEW v \in Sessions,
                        At(session'[v], k1, c1), session'[v].stage = "checked"
                 PROVE  \/ lastSent'[k1][c1] = Never \/ lastSent'[k1][c1] < session'[v].cutoff
                        \/ Excused(k1, c1)'
      BY DEF ClearInv, At
    <2>1. v # s /\ session'[v] = session[v]
      BY <1>2
    <2>2. CASE <<k1, c1>> = <<k, c>>
      <3>1. <<k, c>> \in crossed
        BY <1>1, <2>1, <2>2 DEF CooldownInv, CrossInv
      <3>2. QED
        BY <1>3, <2>2, <3>1 DEF Excused
    <2>3. CASE <<k1, c1>> # <<k, c>>
      BY <1>4, <2>1, <2>3 DEF CooldownInv, ClearInv, ExcusedStays
    <2>4. QED
      BY <2>2, <2>3
  <1>8. CooldownKept'
    <2> SUFFICES ASSUME NEW k1 \in Campaigns, NEW c1 \in Customers, <<k1, c1>> \in early'
                 PROVE  Excused(k1, c1)'
      BY DEF CooldownKept
    <2>1. CASE <<k1, c1>> \in early
      BY <2>1 DEF CooldownInv, CooldownKept, ExcusedStays
    <2>2. CASE <<k1, c1>> \notin early
      <3>1. k1 = k /\ c1 = c /\ lastSent[k][c] # Never /\ now <= lastSent[k][c] + Cooldown
        BY <1>3, <2>2
      <3>2. lastSent[k][c] \in Nat
        BY <1>1, <3>1 DEF TypeInv, TypeOK
      <3>3. ~(lastSent[k][c] < session[s].cutoff)
        BY <1>1, <3>1, <3>2
      <3>4. Excused(k, c)
        BY <1>1, <3>1, <3>3 DEF CooldownInv, ClearInv
      <3>5. QED
        BY <1>1, <3>1, <3>4 DEF ExcusedStays
    <2>3. QED
      BY <2>1, <2>2
  <1>9. QED
    BY <1>5, <1>6, <1>7, <1>8 DEF CooldownInv

\* An announcement becomes a stamp.
LEMMA CooldownCommit ==
  ASSUME TypeInv, CooldownInv, ExcusedStays, NEW s \in Sessions, CommitRow(s)
  PROVE  CooldownInv'
  <1> DEFINE w == session[s]
  <1>1. /\ w \in Session /\ w.stage = "sent" /\ w.campaign \in Campaigns /\ w.customer \in Customers
    BY DEF TypeInv, TypeOK, SaneInv, Sane, CommitRow
  <1>2. /\ session'[s].stage \notin {"checked", "sent"}
        /\ \A v \in Sessions \ {s} : session'[v] = session[v]
    <2>1. Becomes(s, Resting(w))
      BY DEF CommitRow
    <2>2. Resting(w).stage \in {"customers", "campaigns", "scan", "idle"}
      BY <1>1, RestingStage
    <2>3. QED
      BY <2>1, <2>2 DEF Becomes, TypeInv, TypeOK
  <1>3. /\ UNCHANGED <<lastSent, early, crossed>>
        /\ stamps' = [stamps EXCEPT ![w.campaign][w.customer] = @ \cup {w.sentAt}]
    BY DEF CommitRow, history
  <1>4. /\ w.sentAt \in stamps'[w.campaign][w.customer]
        /\ \A k \in Campaigns, c \in Customers : stamps[k][c] \subseteq stamps'[k][c]
    BY <1>1, <1>3 DEF TypeInv, TypeOK
  <1>5. CrossInv'
    BY <1>2, <1>3 DEF CooldownInv, CrossInv, At
  <1>6. TraceInv'
    <2> SUFFICES ASSUME NEW k \in Campaigns, NEW c \in Customers
                 PROVE  \/ lastSent[k][c] = Never \/ lastSent[k][c] \in stamps'[k][c]
                        \/ Excused(k, c)'
                        \/ \E v \in Sessions : Announces(session'[v], k, c, lastSent[k][c])
      BY <1>3 DEF TraceInv, Announces
    <2>1. CASE Announces(w, k, c, lastSent[k][c])
      BY <1>4, <2>1 DEF Announces
    <2>2. CASE ~Announces(w, k, c, lastSent[k][c])
      BY <1>2, <1>4, <2>2 DEF CooldownInv, TraceInv, ExcusedStays
    <2>3. QED
      BY <2>1, <2>2
  <1>7. ClearInv'
    BY <1>2, <1>3 DEF CooldownInv, ClearInv, At, ExcusedStays
  <1>8. CooldownKept'
    BY <1>3 DEF CooldownInv, CooldownKept, ExcusedStays
  <1>9. QED
    BY <1>5, <1>6, <1>7, <1>8 DEF CooldownInv

\* A session that ends with an announcement leaves its pair excused.
LEMMA CooldownEnd ==
  ASSUME TypeInv, CooldownInv, ExcusedStays, NEW s \in Sessions, CommitFails(s) \/ Crash(s),
         \A k \in Campaigns, c \in Customers, b \in BOOLEAN :
           Carries(session[s], k, c, b) => Excused(k, c)'
  PROVE  CooldownInv'
  <1>1. /\ session'[s].stage = "idle" /\ session[s] \in Session
        /\ \A v \in Sessions \ {s} : session'[v] = session[v]
    BY DEF CommitFails, Crash, Becomes, TypeInv, TypeOK, Idle
  <1>2. UNCHANGED <<stamps, lastSent, early, crossed>>
    BY DEF CommitFails, Crash
  <1>3. CrossInv'
    BY <1>1, <1>2 DEF CooldownInv, CrossInv, At
  <1>4. TraceInv'
    <2> SUFFICES ASSUME NEW k \in Campaigns, NEW c \in Customers
                 PROVE  \/ lastSent[k][c] = Never \/ lastSent[k][c] \in stamps[k][c]
                        \/ Excused(k, c)'
                        \/ \E v \in Sessions : Announces(session'[v], k, c, lastSent[k][c])
      BY <1>2 DEF TraceInv, Announces
    <2>1. CASE Announces(session[s], k, c, lastSent[k][c])
      <3>1. session[s].saved \in BOOLEAN /\ Carries(session[s], k, c, session[s].saved)
        BY <1>1, <2>1 DEF Announces, Carries, Session
      <3>2. QED
        BY <3>1
    <2>2. CASE ~Announces(session[s], k, c, lastSent[k][c])
      BY <1>1, <2>2 DEF CooldownInv, TraceInv, ExcusedStays
    <2>3. QED
      BY <2>1, <2>2
  <1>5. ClearInv'
    BY <1>1, <1>2 DEF CooldownInv, ClearInv, At, ExcusedStays
  <1>6. CooldownKept'
    BY <1>2 DEF CooldownInv, CooldownKept, ExcusedStays
  <1>7. QED
    BY <1>3, <1>4, <1>5, <1>6 DEF CooldownInv

\* A campaign messages a customer again within the cooldown only if two sessions
\* were at that customer at once, or an earlier message went out whose row was
\* never committed or was left pending.
THEOREM CooldownHolds == Spec => []CooldownKept
  <1>1. Init => CooldownInv
    BY DEF Init, Idle, CooldownInv, CrossInv, TraceInv, ClearInv, CooldownKept, At
  <1>2. TypeInv /\ AccountInv /\ CooldownInv /\ [Next]_vars => CooldownInv'
    <2> SUFFICES ASSUME TypeInv, AccountInv, CooldownInv, [Next]_vars PROVE CooldownInv'
      OBVIOUS
    <2>1. CampaignAssumption /\ ExcusedStays
      BY CampaignAssumption, AccountStep
    <2>2. CASE Elsewhere
      <3>1. UNCHANGED <<session, crossed, stamps, lastSent, early>>
        BY <2>1, <2>2, ElsewhereFrame
      <3>2. QED
        BY <2>1, <3>1, CooldownFrame
    <2>3. ASSUME NEW s \in Sessions,
                 \/ Quiet(s) \/ (\E c \in Customers : Choose(s, c))
                 \/ Deliver(s) \/ Refuse(s) \/ CommitRow(s) \/ CommitFails(s) \/ Crash(s)
          PROVE  CooldownInv'
      BY <2>1, <2>3, CooldownQuiet, CooldownChoose, CooldownDeliver, CooldownRefuse,
         CooldownCommit, CooldownEnd, AccountEnd
    <2>4. QED
      BY <2>1, <2>2, <2>3, StepKinds
  <1>3. CooldownInv => CooldownKept
    BY DEF CooldownInv
  <1>4. QED
    BY <1>1, <1>2, <1>3, OutreachTypeCorrect, AccountAlways, PTL DEF Spec
=============================================================================
