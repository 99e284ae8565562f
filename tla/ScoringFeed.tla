---------------------------- MODULE ScoringFeed ----------------------------
(***************************************************************************)
(* Churn scores and the screens that follow them: the nightly job          *)
(* (batch_score_churn in worker.py), the endpoint that computes a score on *)
(* the fly when the stored one is a day old (routers/predictions.py), and  *)
(* the Redis channel churn_updates with its subscribers, the Node relay    *)
(* (apps/realtime/server.js) and the gateway in routers/websocket.py.      *)
(*                                                                         *)
(* Both writers load a customers row, compute, and commit without a lock;  *)
(* SQLAlchemy writes only the columns that differ from what was loaded.    *)
(* The job publishes before it commits, the endpoint after.  What the      *)
(* model predicts, the expansion score and the health score's arithmetic   *)
(* are left out: a prediction is any probability.                          *)
(***************************************************************************)
EXTENDS Integers, Sequences, FiniteSets

CONSTANTS
  Tenants,
  Customers, Owner,     \* Owner[c]: the customer's tenant
  Probs, Tier,          \* Tier[p]: get_risk_tier of a probability
  NoProb, NoTenant, NoCustomer,
  Requests,             \* GET .../churn-risk requests
  Batch,                \* the nightly job, as a writer
  Subscribers, Follows, \* Follows[s]: tenants whose updates a subscriber passes on
  Day,                  \* ticks in 24 hours
  MaxNow, MaxFaults     \* bounds

ASSUME ScoringAssumption ==
  /\ Owner \in [Customers -> Tenants]
  /\ DOMAIN Tier = Probs /\ NoProb \notin Probs
  /\ NoTenant \notin Tenants /\ NoCustomer \notin Customers /\ Batch \notin Requests
  /\ Follows \in [Subscribers -> SUBSET Tenants]
  /\ Day \in Nat \ {0} /\ {MaxNow, MaxFaults} \subseteq Nat

VARIABLES
  score,     \* customers.churn_probability, churn_risk_tier and churn_computed_at
  health,    \* as_of_date of each customer's health_scores rows
  batch,     \* the session of batch_score_churn
  due,       \* the night's job is in the queue
  request,
  inbox,     \* updates on their way to each subscriber
  online,    \* subscribers whose subscription is up
  shown,     \* the last update a subscriber has passed on to its screens
  now, faults,
  \* history, guards nothing
  met,       \* (writer, customer): another writer had the customer's row meanwhile
  torn,      \* customers whose last commit came from a writer that met another
  misled     \* (subscriber, customer): an update was lost, premature or out of order

store   == <<score, health>>
feed    == <<inbox, online, shown>>
history == <<met, torn, misled>>
vars == <<store, batch, due, request, feed, now, faults, history>>

Never == -1
Writers == Requests \cup {Batch}
Tiers == {Tier[p] : p \in Probs}
TierOf(p) == IF p = NoProb THEN NoProb ELSE Tier[p]
ScoreAt(p, at) == [prob |-> p, tier |-> TierOf(p), at |-> at]
Unscored == ScoreAt(NoProb, Never)
Score == [prob : Probs \cup {NoProb}, tier : Tiers \cup {NoProb}, at : Int]

Asleep == [stage |-> "idle", at |-> Never, left |-> {}, tenant |-> NoTenant, todo |-> {},
           read |-> [c \in Customers |-> Unscored], new |-> [c \in Customers |-> NoProb]]
NoRequest == [stage |-> "idle", customer |-> NoCustomer, read |-> Unscored,
              at |-> Never, new |-> NoProb]

Of(t) == {c \in Customers : Owner[c] = t}

\* Customers whose row a writer has loaded and not finished with.
InHand(w) ==
  IF w = Batch THEN (IF batch.stage = "score" THEN Of(batch.tenant) ELSE {})
  ELSE IF request[w].stage = "idle" THEN {} ELSE {request[w].customer}

\* Writer w takes the rows of cs: it meets whoever has one of them.
Take(w, cs) ==
  met' = met \cup {m \in Writers \X cs : m[1] # w /\ m[2] \in InHand(m[1])}
             \cup {<<w, c>> : c \in {d \in cs : \E v \in Writers \ {w} : d \in InHand(v)}}

Drop(w, cs) == met' = met \ ({w} \X cs)

Met(w, cs) == {c \in cs : <<w, c>> \in met}

(***************************************************************************)
(* The channel                                                             *)
(***************************************************************************)
Hears(s, c) == online[s] /\ Owner[c] \in Follows[s]

Update(c, p) == [customer |-> c, prob |-> p, tier |-> Tier[p]]

Publish(w, c, p) ==
  /\ inbox' = [s \in Subscribers |->
       IF Hears(s, c) THEN Append(inbox[s], Update(c, p)) ELSE inbox[s]]
  /\ misled' = (misled \ {<<s, c>> : s \in Subscribers})
       \cup {<<s, c>> : s \in {v \in Subscribers : ~Hears(v, c) \/ <<w, c>> \in met}}
  /\ UNCHANGED <<online, shown>>

\* Fault: the newest update goes first.
DeliverLast(s) ==
  /\ inbox[s] # <<>>
  /\ LET m == inbox[s][Len(inbox[s])]
     IN  shown' = [shown EXCEPT ![s][m.customer] = [prob |-> m.prob, tier |-> m.tier]]
  /\ inbox' = [inbox EXCEPT ![s] = SubSeq(@, 1, Len(@) - 1)]
  /\ UNCHANGED <<store, batch, due, request, online, now, faults, history>>

\* The relay emits to every socket; the gateway sends what is its tenant's.
Deliver(s) ==
  /\ inbox[s] # <<>>
  /\ shown' = [shown EXCEPT ![s][Head(inbox[s]).customer] =
       [prob |-> Head(inbox[s]).prob, tier |-> Head(inbox[s]).tier]]
  /\ inbox' = [inbox EXCEPT ![s] = Tail(@)]
  /\ UNCHANGED <<store, batch, due, request, online, now, faults, history>>

\* Redis keeps nothing for a subscriber that is away.
Disconnect(s) ==
  /\ faults < MaxFaults /\ faults' = faults + 1
  /\ online[s]
  /\ online' = [online EXCEPT ![s] = FALSE]
  /\ misled' = misled \cup {<<s, inbox[s][i].customer>> : i \in DOMAIN inbox[s]}
  /\ inbox' = [inbox EXCEPT ![s] = <<>>]
  /\ UNCHANGED <<store, batch, due, request, shown, now, met, torn>>

Connect(s) ==
  /\ ~online[s]
  /\ online' = [online EXCEPT ![s] = TRUE]
  /\ UNCHANGED <<store, batch, due, request, inbox, shown, now, faults, history>>

(***************************************************************************)
(* The writers                                                             *)
(***************************************************************************)
\* Fault: the tier is left as it is.
WrittenButTier(db, read, new) ==
  [prob |-> IF new.prob # read.prob THEN new.prob ELSE db.prob,
   tier |-> db.tier,
   at   |-> IF new.at # read.at THEN new.at ELSE db.at]

\* What a commit makes of the row: columns equal to what was loaded are not written.
Written(db, read, new) ==
  [prob |-> IF new.prob # read.prob THEN new.prob ELSE db.prob,
   tier |-> IF new.tier # read.tier THEN new.tier ELSE db.tier,
   at   |-> IF new.at # read.at THEN new.at ELSE db.at]

\* Writer w's rows, those of new's domain, are committed.
Commit(w, read, new) ==
  LET cs == DOMAIN new
  IN  /\ score' = [c \in Customers |->
           IF c \in cs THEN Written(score[c], read[c], new[c]) ELSE score[c]]
      /\ torn' = (torn \ cs) \cup Met(w, cs)

BatchStart ==
  /\ batch.stage = "idle" /\ due
  /\ due' = FALSE
  /\ batch' = [Asleep EXCEPT !.stage = "tenant", !.at = now, !.left = Tenants]
  /\ UNCHANGED <<store, request, feed, now, faults, history>>

\* Fault: a tenant without customers ends the job.
PassOverAll(t) ==
  /\ batch.stage = "tenant" /\ t \in batch.left
  /\ Of(t) = {}
  /\ batch' = [batch EXCEPT !.left = {}]
  /\ UNCHANGED <<store, due, request, feed, now, faults, history>>

\* Tenants come in any order; one without customers is passed over.
PassOver(t) ==
  /\ batch.stage = "tenant" /\ t \in batch.left
  /\ Of(t) = {}
  /\ batch' = [batch EXCEPT !.left = @ \ {t}]
  /\ UNCHANGED <<store, due, request, feed, now, faults, history>>

LoadTenant(t) ==
  /\ batch.stage = "tenant" /\ t \in batch.left
  /\ Of(t) # {}
  /\ batch' = [batch EXCEPT !.stage = "score", !.left = @ \ {t}, !.tenant = t,
                            !.todo = Of(t), !.read = score]
  /\ Take(Batch, Of(t))
  /\ UNCHANGED <<store, due, request, feed, now, faults, torn, misled>>

\* The prediction, or the fallback when the model raises, is announced at once ...
ScoreCustomer(c, p) ==
  /\ batch.stage = "score" /\ c \in batch.todo
  /\ batch' = [batch EXCEPT !.todo = @ \ {c}, !.new[c] = p]
  /\ Publish(Batch, c, p)
  /\ UNCHANGED <<store, due, request, now, faults, met, torn>>

\* Fault: the history rows are dated with the next run.
CommitTenantAhead ==
  /\ batch.stage = "score" /\ batch.todo = {}
  /\ LET cs == Of(batch.tenant)
     IN  /\ Commit(Batch, batch.read, [c \in cs |-> ScoreAt(batch.new[c], batch.at)])
         /\ health' = [c \in Customers |->
              IF c \in cs THEN health[c] \cup {batch.at + Day} ELSE health[c]]
         /\ misled' = misled \cup (Subscribers \X Met(Batch, cs))
         /\ Drop(Batch, cs)
  /\ batch' = [batch EXCEPT !.stage = "tenant", !.tenant = NoTenant]
  /\ UNCHANGED <<due, request, feed, now, faults>>

\* Fault: churn_computed_at is not assigned.
CommitTenantUndated ==
  /\ batch.stage = "score" /\ batch.todo = {}
  /\ LET cs == Of(batch.tenant)
     IN  /\ Commit(Batch, batch.read,
                   [c \in cs |-> ScoreAt(batch.new[c], batch.read[c].at)])
         /\ health' = [c \in Customers |->
              IF c \in cs THEN health[c] \cup {batch.at} ELSE health[c]]
         /\ misled' = misled \cup (Subscribers \X Met(Batch, cs))
         /\ Drop(Batch, cs)
  /\ batch' = [batch EXCEPT !.stage = "tenant", !.tenant = NoTenant]
  /\ UNCHANGED <<due, request, feed, now, faults>>

\* ... and the tenant's scores are committed together, with a history row each.
CommitTenant ==
  /\ batch.stage = "score" /\ batch.todo = {}
  /\ LET cs == Of(batch.tenant)
     IN  /\ Commit(Batch, batch.read, [c \in cs |-> ScoreAt(batch.new[c], batch.at)])
         /\ health' = [c \in Customers |->
              IF c \in cs THEN health[c] \cup {batch.at} ELSE health[c]]
         /\ misled' = misled \cup (Subscribers \X Met(Batch, cs))
         /\ Drop(Batch, cs)
  /\ batch' = [batch EXCEPT !.stage = "tenant", !.tenant = NoTenant]
  /\ UNCHANGED <<due, request, feed, now, faults>>

BatchEnd ==
  /\ batch.stage = "tenant" /\ batch.left = {}
  /\ batch' = Asleep
  /\ UNCHANGED <<store, due, request, feed, now, faults, history>>

\* The tenant in hand is rolled back, what was announced is not.  The job runs again
\* if its worker died, and not before the next night if it raised.
BatchStops(again) ==
  /\ faults < MaxFaults /\ faults' = faults + 1
  /\ batch.stage # "idle"
  /\ misled' = misled \cup (Subscribers \X (InHand(Batch) \ batch.todo))
  /\ Drop(Batch, Customers)
  /\ batch' = Asleep
  /\ due' = (due \/ again)
  /\ UNCHANGED <<store, request, feed, now, torn>>

\* A score younger than 24 hours is returned as it is.
Stale(c) == score[c].at = Never \/ now - score[c].at >= Day

\* Fault: the score is dated with the limit of its age.
LookBack(q, c) ==
  /\ request[q].stage = "idle"
  /\ Stale(c)
  /\ request' = [request EXCEPT ![q] =
       [stage |-> "compute", customer |-> c, read |-> score[c], at |-> now - Day,
        new |-> NoProb]]
  /\ Take(q, {c})
  /\ UNCHANGED <<store, batch, due, feed, now, faults, torn, misled>>

Look(q, c) ==
  /\ request[q].stage = "idle"
  /\ Stale(c)
  /\ request' = [request EXCEPT ![q] =
       [stage |-> "compute", customer |-> c, read |-> score[c], at |-> now, new |-> NoProb]]
  /\ Take(q, {c})
  /\ UNCHANGED <<store, batch, due, feed, now, faults, torn, misled>>

ComputeScore(q, p) ==
  LET r == request[q]
  IN  /\ r.stage = "compute"
      /\ Commit(q, [c \in {r.customer} |-> r.read], [c \in {r.customer} |-> ScoreAt(p, r.at)])
      /\ request' = [request EXCEPT ![q].stage = "publish", ![q].new = p]
      /\ UNCHANGED <<health, batch, due, feed, now, faults, met, misled>>

PublishScore(q) ==
  LET r == request[q]
  IN  /\ r.stage = "publish"
      /\ Publish(q, r.customer, r.new)
      /\ Drop(q, {r.customer})
      /\ request' = [request EXCEPT ![q] = NoRequest]
      /\ UNCHANGED <<store, batch, due, now, faults, torn>>

\* The model is missing, Redis is down or the process dies.
RequestDies(q) ==
  /\ faults < MaxFaults /\ faults' = faults + 1
  /\ request[q].stage # "idle"
  /\ misled' = IF request[q].stage = "publish"
               THEN misled \cup (Subscribers \X InHand(q)) ELSE misled
  /\ Drop(q, Customers)
  /\ request' = [request EXCEPT ![q] = NoRequest]
  /\ UNCHANGED <<store, batch, due, feed, now, torn>>

\* No session lasts longer than a tick, and the worker takes up the job when it is due.
Tick ==
  /\ now < MaxNow
  /\ IF batch.stage = "idle" THEN ~due ELSE batch.at = now
  /\ \A q \in Requests : request[q].stage = "idle" \/ request[q].at = now
  /\ now' = now + 1
  /\ due' = (due \/ now' % Day = 0)
  /\ UNCHANGED <<store, batch, request, feed, faults, history>>

-----------------------------------------------------------------------------
Init ==
  /\ score = [c \in Customers |-> Unscored]
  /\ health = [c \in Customers |-> {}]
  /\ batch = Asleep /\ due = TRUE
  /\ request = [q \in Requests |-> NoRequest]
  /\ inbox = [s \in Subscribers |-> <<>>]
  /\ online = [s \in Subscribers |-> TRUE]
  /\ shown = [s \in Subscribers |-> [c \in Customers |-> [prob |-> NoProb, tier |-> NoProb]]]
  /\ now = 0 /\ faults = 0
  /\ met = {} /\ torn = {} /\ misled = {}

RunBatch ==
  \/ BatchStart
  \/ \E t \in Tenants : PassOver(t) \/ LoadTenant(t)
  \/ \E c \in Customers, p \in Probs : ScoreCustomer(c, p)
  \/ CommitTenant
  \/ BatchEnd

Answer(q) == (\E p \in Probs : ComputeScore(q, p)) \/ PublishScore(q)

Next ==
  \/ RunBatch
  \/ \E again \in BOOLEAN : BatchStops(again)
  \/ \E q \in Requests : (\E c \in Customers : Look(q, c)) \/ Answer(q) \/ RequestDies(q)
  \/ \E s \in Subscribers : Deliver(s) \/ Disconnect(s) \/ Connect(s)
  \/ Tick

Spec == Init /\ [][Next]_vars

\* Time goes by, the job is run by its worker, and a request in flight ends.  Nobody
\* has to ask for a score, and a subscriber may stay away.
Fairness == WF_vars(Tick) /\ WF_vars(RunBatch) /\ \A q \in Requests : WF_vars(Answer(q))
FairSpec == Spec /\ Fairness

-----------------------------------------------------------------------------
\* Every variable has its type.
TypeOK ==
  /\ score \in [Customers -> Score]
  /\ health \in [Customers -> SUBSET (0..MaxNow)]
  /\ batch.stage \in {"idle", "tenant", "score"} /\ batch.at \in Int
  /\ batch.left \subseteq Tenants /\ batch.tenant \in Tenants \cup {NoTenant}
  /\ batch.todo \subseteq Customers
  /\ batch.read \in [Customers -> Score] /\ batch.new \in [Customers -> Probs \cup {NoProb}]
  /\ due \in BOOLEAN
  /\ request \in [Requests -> [stage : {"idle", "compute", "publish"},
                               customer : Customers \cup {NoCustomer}, read : Score,
                               at : Int, new : Probs \cup {NoProb}]]
  /\ \A s \in Subscribers : \A i \in DOMAIN inbox[s] :
       inbox[s][i] \in [customer : Customers, prob : Probs, tier : Tiers]
  /\ online \in [Subscribers -> BOOLEAN]
  /\ shown \in [Subscribers -> [Customers -> [prob : Probs \cup {NoProb},
                                              tier : Tiers \cup {NoProb}]]]
  /\ now \in 0..MaxNow /\ faults \in 0..MaxFaults
  /\ met \subseteq Writers \X Customers /\ torn \subseteq Customers
  /\ misled \subseteq Subscribers \X Customers

\* The stored tier is that of the stored probability, although a commit writes the
\* columns it changed only, unless two writers had the row at once
\* (worker.py:95-98, predictions.py:85-89).
ScoresWhole == \A c \in Customers \ torn : score[c].tier = TierOf(score[c].prob)

\* A score is replaced by one computed later, unless two writers had the row at once,
\* or a request computed it after the job had begun: the job stamps every tenant's
\* scores with the time of its own start (worker.py:37,98, predictions.py:59,88).
ScoresAdvance ==
  [][\A c \in Customers :
       \/ score'[c].at >= score[c].at
       \/ c \in torn'
       \/ c \in InHand(Batch) /\ batch.at < score[c].at]_vars

\* A health score is at most as recent as the churn score beside it, which was part of
\* it or came after, unless two writers had the row at once (worker.py:91-116).
HealthNotNewer ==
  \A c \in Customers \ torn : \A t \in health[c] : t <= score[c].at

\* Once no update of a customer is under way, a subscriber that heard of the customer
\* shows what is stored, although the job announces scores before it commits them,
\* unless an update was lost, premature or crossed another one (worker.py:118-120).
FeedAgrees ==
  \A s \in Subscribers, c \in Customers :
    /\ \A w \in Writers : c \notin InHand(w)
    /\ \A i \in DOMAIN inbox[s] : inbox[s][i].customer # c
    /\ shown[s][c].prob # NoProb
    => \/ shown[s][c] = [prob |-> score[c].prob, tier |-> score[c].tier]
       \/ c \in torn \/ <<s, c>> \in misled

\* Every customer gets a health score in the end, although the job stops on the way
\* and some tenants have no customers (worker.py:44-120).
EveryoneScored == \A c \in Customers : <>(health[c] # {})
=============================================================================
