-------------------------- MODULE ScoringFeedProofs --------------------------
(***************************************************************************)
(* Proofs about ScoringFeed, for every set of tenants, customers, requests *)
(* and subscribers, every set of probabilities, and whatever the bounds.   *)
(***************************************************************************)
EXTENDS ScoringFeed, TLAPS

(***************************************************************************)
(* Type correctness                                                        *)
(***************************************************************************)
Job == [stage : {"idle", "tenant", "score"}, at : Int, left : SUBSET Tenants,
        tenant : Tenants \cup {NoTenant}, todo : SUBSET Customers,
        read : [Customers -> Score], new : [Customers -> Probs \cup {NoProb}]]
RequestSession == [stage : {"idle", "compute", "publish"}, customer : Customers \cup {NoCustomer},
                   read : Score, at : Int, new : Probs \cup {NoProb}]
Message == [customer : Customers, prob : Probs, tier : Tiers]

\* A session under way has begun, and holds a tenant's customers or a customer.
Sane ==
  /\ batch.stage # "idle" => batch.at \in 0..now
  /\ batch.stage = "score" => batch.tenant \in Tenants /\ batch.todo \subseteq Of(batch.tenant)
  /\ \A q \in Requests :
       /\ request[q].stage # "idle" => request[q].customer \in Customers /\ request[q].at \in 0..now
       /\ request[q].stage = "publish" => request[q].new \in Probs

TypeInv ==
  /\ score \in [Customers -> Score] /\ health \in [Customers -> SUBSET (0..MaxNow)]
  /\ batch \in Job /\ due \in BOOLEAN /\ request \in [Requests -> RequestSession]
  /\ inbox \in [Subscribers -> Seq(Message)] /\ online \in [Subscribers -> BOOLEAN]
  /\ shown \in [Subscribers -> [Customers -> [prob : Probs \cup {NoProb},
                                              tier : Tiers \cup {NoProb}]]]
  /\ now \in 0..MaxNow /\ faults \in 0..MaxFaults
  /\ met \subseteq Writers \X Customers /\ torn \subseteq Customers
  /\ misled \subseteq Subscribers \X Customers
  /\ Sane

LEMMA RestType ==
  /\ Unscored \in Score /\ Asleep \in Job /\ NoRequest \in RequestSession
  <1>1. Unscored \in Score
    BY DEF Unscored, ScoreAt, TierOf, Score, Never
  <1>2. QED
    BY <1>1 DEF Asleep, NoRequest, Job, RequestSession, Never

\* A score that a writer stores.
LEMMA ScoreType ==
  ASSUME NEW p \in Probs \cup {NoProb}, NEW at \in Int
  PROVE  ScoreAt(p, at) \in Score
  BY DEF ScoreAt, TierOf, Tiers, Score

LEMMA WrittenType ==
  ASSUME NEW db \in Score, NEW read \in Score, NEW new \in Score
  PROVE  Written(db, read, new) \in Score
  BY DEF Written, Score

\* A row that nobody else has touched becomes what the writer means it to be.
LEMMA WrittenAlone ==
  ASSUME NEW db \in Score, NEW new \in Score
  PROVE  Written(db, db, new) = new
  BY DEF Written, Score

\* What a writer holds are customers.
LEMMA InHandType ==
  ASSUME Sane, NEW w \in Writers
  PROVE  InHand(w) \subseteq Customers
  BY DEF Sane, InHand, Of, Writers

LEMMA TypeInit == ScoringAssumption /\ Init => TypeInv
  <1> SUFFICES ASSUME ScoringAssumption, Init PROVE TypeInv
    OBVIOUS
  <1>1. batch \in Job /\ request \in [Requests -> RequestSession] /\ score \in [Customers -> Score]
    BY RestType DEF Init
  <1>2. now \in 0..MaxNow /\ faults \in 0..MaxFaults
    BY DEF Init, ScoringAssumption
  <1>3. inbox \in [Subscribers -> Seq(Message)] /\ \A s \in Subscribers : DOMAIN inbox[s] = {}
    BY DEF Init
  <1>4. Sane
    BY DEF Init, Sane, Asleep, NoRequest
  <1>5. QED
    BY <1>1, <1>2, <1>3, <1>4 DEF Init, TypeInv

\* An update that a writer announces is a message, and its meetings are on record.
LEMMA PublishType ==
  ASSUME TypeInv, NEW w \in Writers, NEW c \in Customers, NEW p \in Probs, Publish(w, c, p)
  PROVE  /\ inbox' \in [Subscribers -> Seq(Message)]
         /\ misled' \subseteq Subscribers \X Customers
         /\ UNCHANGED <<online, shown>>
  <1>1. Update(c, p) \in Message
    BY DEF Update, Message, Tiers
  <1>2. \A s \in Subscribers : Append(inbox[s], Update(c, p)) \in Seq(Message)
    BY <1>1 DEF TypeInv
  <1>3. QED
    BY <1>2 DEF Publish, TypeInv

LEMMA CommitType ==
  ASSUME TypeInv, NEW w \in Writers, NEW read, NEW new, DOMAIN new \subseteq Customers,
         \A c \in DOMAIN new : read[c] \in Score /\ new[c] \in Score,
         Commit(w, read, new)
  PROVE  score' \in [Customers -> Score] /\ torn' \subseteq Customers
  <1>1. \A c \in Customers : score[c] \in Score
    BY DEF TypeInv
  <1>2. \A c \in DOMAIN new : Written(score[c], read[c], new[c]) \in Score
    BY <1>1, WrittenType
  <1>3. QED
    BY <1>1, <1>2 DEF Commit, Met, TypeInv

LEMMA MetType ==
  ASSUME TypeInv, NEW w \in Writers, NEW cs \in SUBSET Customers, Take(w, cs) \/ Drop(w, cs)
  PROVE  met' \subseteq Writers \X Customers
  BY DEF Take, Drop, TypeInv

LEMMA MessagesTyped ==
  ASSUME inbox \in [Subscribers -> Seq(Message)]
  PROVE  \A s \in Subscribers : \A i \in DOMAIN inbox[s] :
           inbox[s][i] \in [customer : Customers, prob : Probs, tier : Tiers]
  <1>1. \A s \in Subscribers : \A i \in DOMAIN inbox[s] : inbox[s][i] \in Message
    <2> TAKE s \in Subscribers
    <2>1. inbox[s] \in Seq(Message)
      OBVIOUS
    <2>2. inbox[s] \in [1..Len(inbox[s]) -> Message]
      BY <2>1
    <2>3. QED
      BY <2>2
  <1>2. QED
    BY <1>1 DEF Message

\* The type invariant implies the property.
LEMMA TypeEnough == TypeInv => TypeOK
  BY MessagesTyped DEF TypeInv, TypeOK, Job, RequestSession

LEMMA TypeStutter == TypeInv /\ UNCHANGED vars => TypeInv'
  BY DEF TypeInv, Sane, vars, store, feed, history

\* Deliveries and connections touch the feed alone.
LEMMA TypeFeed ==
  ASSUME TypeInv, NEW s \in Subscribers, Deliver(s) \/ Disconnect(s) \/ Connect(s),
         ScoringAssumption
  PROVE  TypeInv'
  <1> USE DEF TypeInv
  <1>0. UNCHANGED <<score, health, batch, due, request, now, met, torn>>
    BY DEF Deliver, Disconnect, Connect, store, history
  <1>1. CASE Deliver(s)
    <2>1. inbox[s] \in Seq(Message) /\ inbox[s] # <<>>
      BY <1>1 DEF Deliver
    <2>2. Head(inbox[s]) \in Message /\ Tail(inbox[s]) \in Seq(Message)
      BY <2>1
    <2>3. inbox' \in [Subscribers -> Seq(Message)]
      BY <1>1, <2>2 DEF Deliver
    <2>4. [prob |-> Head(inbox[s]).prob, tier |-> Head(inbox[s]).tier]
            \in [prob : Probs \cup {NoProb}, tier : Tiers \cup {NoProb}]
      BY <2>2 DEF Message
    <2>5. shown' \in [Subscribers -> [Customers -> [prob : Probs \cup {NoProb},
                                                    tier : Tiers \cup {NoProb}]]]
      BY <1>1, <2>2, <2>4 DEF Deliver, Message
    <2>6. UNCHANGED <<online, faults, misled>>
      BY <1>1 DEF Deliver, history
    <2>7. Sane'
      BY <1>0 DEF Sane, Of
    <2>8. QED
      BY <1>0, <2>3, <2>5, <2>6, <2>7
  <1>2. CASE Disconnect(s)
    <2>1. inbox' \in [Subscribers -> Seq(Message)] /\ UNCHANGED shown
      <3>1. <<>> \in Seq(Message)
        OBVIOUS
      <3>2. QED
        BY <1>2, <3>1 DEF Disconnect
    <2>2. online' \in [Subscribers -> BOOLEAN] /\ faults' \in 0..MaxFaults
      <3>1. online' \in [Subscribers -> BOOLEAN]
        BY <1>2, Zenon DEF Disconnect
      <3>2. faults' \in 0..MaxFaults
        BY <1>2 DEF Disconnect, ScoringAssumption
      <3>3. QED
        BY <3>1, <3>2
    <2>3. \A i \in DOMAIN inbox[s] : inbox[s][i].customer \in Customers
      BY MessagesTyped
    <2>4. misled' \subseteq Subscribers \X Customers
      BY <1>2, <2>3 DEF Disconnect
    <2>5. Sane'
      BY <1>0 DEF Sane, Of
    <2>6. QED
      BY <1>0, <2>1, <2>2, <2>4, <2>5
  <1>3. CASE Connect(s)
    <2>1. online' \in [Subscribers -> BOOLEAN]
      BY <1>3, Zenon DEF Connect
    <2>2. Sane'
      BY <1>0 DEF Sane, Of
    <2>3. QED
      BY <1>0, <1>3, <2>1, <2>2 DEF Connect, history
  <1>4. QED
    BY <1>1, <1>2, <1>3

\* The job's steps, and the end of one that its worker or an exception stops.
LEMMA TypeJobMoves ==
  ASSUME ScoringAssumption, TypeInv, NEW t, BatchStart \/ PassOver(t) \/ BatchEnd
  PROVE  TypeInv'
  <1>1. UNCHANGED <<store, request, feed, now, faults, history>> /\ due' \in BOOLEAN
    BY DEF BatchStart, PassOver, BatchEnd, TypeInv
  <1>2. batch \in Job /\ Asleep \in Job /\ now \in Int
    BY RestType DEF TypeInv
  <1>3. /\ batch' \in Job
        /\ batch'.stage # "idle" => batch'.at \in 0..now
        /\ batch'.stage # "score"
    <2>1. CASE BatchStart
      <3>1. batch' = [Asleep EXCEPT !.stage = "tenant", !.at = now, !.left = Tenants]
        BY <2>1 DEF BatchStart
      <3>2. [Asleep EXCEPT !.stage = "tenant"] \in Job
        BY <1>2 DEF Job
      <3>3. [[Asleep EXCEPT !.stage = "tenant"] EXCEPT !.at = now, !.left = Tenants] \in Job
        BY <1>2, <3>2 DEF Job
      <3>4. QED
        BY <1>2, <3>1, <3>3 DEF Job, TypeInv, ScoringAssumption
    <2>2. CASE PassOver(t)
      <3>1. batch.stage = "tenant" /\ batch' = [batch EXCEPT !.left = @ \ {t}]
        BY <2>2 DEF PassOver
      <3>2. QED
        BY <1>2, <3>1 DEF Job, TypeInv, Sane
    <2>3. CASE BatchEnd
      BY <1>2, <2>3 DEF BatchEnd, Asleep
    <2>4. QED
      BY <2>1, <2>2, <2>3
  <1>4. QED
    BY <1>1, <1>3 DEF TypeInv, Sane, store, feed, history

LEMMA TypeLoadTenant ==
  ASSUME ScoringAssumption, TypeInv, NEW t \in Tenants, LoadTenant(t)
  PROVE  TypeInv'
  <1>1. batch' \in Job /\ batch'.tenant = t /\ batch'.todo = Of(t) /\ batch'.at = batch.at
    BY DEF LoadTenant, TypeInv, Job, Of
  <1>2. Batch \in Writers /\ Of(t) \in SUBSET Customers
    BY DEF Writers, Of
  <1>3. met' \subseteq Writers \X Customers
    BY <1>2, MetType DEF LoadTenant
  <1>4. Sane'
    BY <1>1 DEF LoadTenant, TypeInv, Sane, Of, store
  <1>5. QED
    BY <1>1, <1>3, <1>4 DEF TypeInv, LoadTenant, store, feed

LEMMA TypeScoreCustomer ==
  ASSUME ScoringAssumption, TypeInv, NEW c \in Customers, NEW p \in Probs, ScoreCustomer(c, p)
  PROVE  TypeInv'
  <1>1. batch' \in Job
    BY DEF ScoreCustomer, TypeInv, Job
  <1>2. /\ batch'.stage = "score" /\ batch'.tenant = batch.tenant /\ batch'.at = batch.at
        /\ batch'.todo \subseteq batch.todo
    BY DEF ScoreCustomer, TypeInv, Job
  <1>3. /\ inbox' \in [Subscribers -> Seq(Message)]
        /\ misled' \subseteq Subscribers \X Customers
        /\ UNCHANGED <<online, shown>>
    BY PublishType DEF ScoreCustomer, Writers
  <1>4. Sane'
    BY <1>2 DEF ScoreCustomer, TypeInv, Sane, Of, store
  <1>5. QED
    BY <1>1, <1>3, <1>4 DEF TypeInv, ScoreCustomer, store

LEMMA TypeCommitTenant ==
  ASSUME ScoringAssumption, TypeInv, CommitTenant
  PROVE  TypeInv'
  <1> DEFINE cs  == Of(batch.tenant)
             new == [c \in cs |-> ScoreAt(batch.new[c], batch.at)]
  <1>1. Batch \in Writers /\ cs \in SUBSET Customers /\ batch.at \in 0..MaxNow
    BY DEF CommitTenant, TypeInv, Sane, Writers, Of, ScoringAssumption
  <1>2. batch' \in Job /\ batch'.stage = "tenant" /\ batch'.at = batch.at
    BY DEF CommitTenant, TypeInv, Job
  <1>3. DOMAIN new \subseteq Customers
        /\ \A c \in DOMAIN new : batch.read[c] \in Score /\ new[c] \in Score
    BY <1>1, ScoreType DEF TypeInv, Job
  <1>4. Commit(Batch, batch.read, new)
    BY DEF CommitTenant
  <1>5. score' \in [Customers -> Score] /\ torn' \subseteq Customers
    BY <1>1, <1>3, <1>4, CommitType
  <1>6. health' \in [Customers -> SUBSET (0..MaxNow)]
    BY <1>1 DEF CommitTenant, TypeInv
  <1>7. met' \subseteq Writers \X Customers /\ misled' \subseteq Subscribers \X Customers
    BY <1>1, MetType DEF CommitTenant, Met, TypeInv
  <1>8. Sane'
    BY <1>2 DEF CommitTenant, TypeInv, Sane
  <1>9. QED
    BY <1>2, <1>5, <1>6, <1>7, <1>8 DEF TypeInv, CommitTenant, feed

LEMMA TypeBatchStops ==
  ASSUME ScoringAssumption, TypeInv, NEW again \in BOOLEAN, BatchStops(again)
  PROVE  TypeInv'
  <1>1. Batch \in Writers /\ InHand(Batch) \subseteq Customers
    BY InHandType DEF TypeInv, Writers
  <1>2. met' \subseteq Writers \X Customers /\ misled' \subseteq Subscribers \X Customers
    BY <1>1, MetType DEF BatchStops, TypeInv
  <1>3. batch' \in Job /\ batch'.stage = "idle"
    BY RestType DEF BatchStops, Asleep
  <1>4. faults' \in 0..MaxFaults /\ due' \in BOOLEAN
    BY DEF BatchStops, TypeInv, ScoringAssumption
  <1>5. Sane'
    BY <1>3 DEF BatchStops, TypeInv, Sane
  <1>6. QED
    BY <1>2, <1>3, <1>4, <1>5 DEF TypeInv, BatchStops, store, feed

\* The steps of a request.
LEMMA TypeLook ==
  ASSUME ScoringAssumption, TypeInv, NEW q \in Requests, NEW c \in Customers, Look(q, c)
  PROVE  TypeInv'
  <1> DEFINE r == [stage |-> "compute", customer |-> c, read |-> score[c], at |-> now,
                   new |-> NoProb]
  <1>1. r \in RequestSession
    BY DEF RequestSession, TypeInv
  <1>2. request' = [request EXCEPT ![q] = r]
    BY DEF Look
  <1>3. met' \subseteq Writers \X Customers
    BY MetType DEF Look, Writers
  <1>4. Sane'
    BY <1>2 DEF Look, TypeInv, Sane, Of
  <1>5. QED
    BY <1>1, <1>2, <1>3, <1>4 DEF TypeInv, Look, store, feed

LEMMA TypeComputeScore ==
  ASSUME ScoringAssumption, TypeInv, NEW q \in Requests, NEW p \in Probs, ComputeScore(q, p)
  PROVE  TypeInv'
  <1> DEFINE r   == request[q]
             new == [c \in {r.customer} |-> ScoreAt(p, r.at)]
  <1>1. r \in RequestSession /\ r.customer \in Customers /\ q \in Writers
    BY DEF ComputeScore, TypeInv, Sane, Writers
  <1>2. \A c \in DOMAIN new : [d \in {r.customer} |-> r.read][c] \in Score /\ new[c] \in Score
    BY <1>1, ScoreType DEF RequestSession
  <1>3. Commit(q, [c \in {r.customer} |-> r.read], new)
    BY DEF ComputeScore
  <1>4. score' \in [Customers -> Score] /\ torn' \subseteq Customers
    BY <1>1, <1>2, <1>3, CommitType
  <1>5. request' = [request EXCEPT ![q] = [r EXCEPT !.stage = "publish", !.new = p]]
    BY DEF ComputeScore, TypeInv
  <1>6. [r EXCEPT !.stage = "publish", !.new = p] \in RequestSession
    BY <1>1 DEF RequestSession
  <1>7. Sane'
    <2>1. /\ \A v \in Requests \ {q} : request'[v] = request[v]
          /\ request'[q].customer = r.customer /\ request'[q].at = r.at /\ request'[q].new = p
      BY <1>1, <1>5 DEF TypeInv, RequestSession
    <2>2. r.at \in 0..now
      BY DEF ComputeScore, TypeInv, Sane
    <2>3. UNCHANGED <<batch, now>>
      BY DEF ComputeScore
    <2>4. \A v \in Requests :
            /\ request'[v].stage # "idle" =>
                 request'[v].customer \in Customers /\ request'[v].at \in 0..now
            /\ request'[v].stage = "publish" => request'[v].new \in Probs
      BY <1>1, <2>1, <2>2 DEF TypeInv, Sane
    <2>5. QED
      BY <2>3, <2>4 DEF TypeInv, Sane, Of
  <1>8. QED
    BY <1>4, <1>5, <1>6, <1>7 DEF TypeInv, ComputeScore, feed

LEMMA TypePublishScore ==
  ASSUME ScoringAssumption, TypeInv, NEW q \in Requests, PublishScore(q)
  PROVE  TypeInv'
  <1>1. /\ request[q].customer \in Customers /\ request[q].new \in Probs /\ q \in Writers
        /\ {request[q].customer} \in SUBSET Customers
    BY DEF PublishScore, TypeInv, Sane, Writers
  <1>2. /\ inbox' \in [Subscribers -> Seq(Message)]
        /\ misled' \subseteq Subscribers \X Customers
        /\ UNCHANGED <<online, shown>>
    BY <1>1, PublishType DEF PublishScore
  <1>3. met' \subseteq Writers \X Customers
    BY <1>1, MetType DEF PublishScore
  <1>4. request' \in [Requests -> RequestSession] /\ request' = [request EXCEPT ![q] = NoRequest]
    BY RestType DEF PublishScore, TypeInv
  <1>5. Sane'
    BY <1>4 DEF PublishScore, TypeInv, Sane, Of, NoRequest
  <1>6. QED
    BY <1>2, <1>3, <1>4, <1>5 DEF TypeInv, PublishScore, store

LEMMA TypeRequestDies ==
  ASSUME ScoringAssumption, TypeInv, NEW q \in Requests, RequestDies(q)
  PROVE  TypeInv'
  <1>1. q \in Writers /\ InHand(q) \subseteq Customers
    BY InHandType DEF TypeInv, Writers
  <1>2. met' \subseteq Writers \X Customers /\ misled' \subseteq Subscribers \X Customers
    BY <1>1, MetType DEF RequestDies, TypeInv
  <1>3. request' \in [Requests -> RequestSession] /\ request' = [request EXCEPT ![q] = NoRequest]
    BY RestType DEF RequestDies, TypeInv
  <1>4. faults' \in 0..MaxFaults
    BY DEF RequestDies, TypeInv, ScoringAssumption
  <1>5. Sane'
    BY <1>3 DEF RequestDies, TypeInv, Sane, Of, NoRequest
  <1>6. QED
    BY <1>2, <1>3, <1>4, <1>5 DEF TypeInv, RequestDies, store, feed

LEMMA TypeTick == ScoringAssumption /\ TypeInv /\ Tick => TypeInv'
  <1> SUFFICES ASSUME ScoringAssumption, TypeInv, Tick PROVE TypeInv'
    OBVIOUS
  <1>1. now' \in 0..MaxNow /\ now <= now'
    BY DEF Tick, TypeInv, ScoringAssumption
  <1>2. due' \in BOOLEAN
    BY DEF Tick, TypeInv
  <1>3. Sane'
    <2>1. \A n \in 0..now : n \in 0..now'
      BY <1>1 DEF TypeInv
    <2>2. QED
      BY <2>1 DEF Tick, TypeInv, Sane, store, Of
  <1>4. QED
    BY <1>1, <1>2, <1>3 DEF Tick, TypeInv, store, feed, history

LEMMA TypeNext == ScoringAssumption /\ TypeInv /\ [Next]_vars => TypeInv'
  <1> SUFFICES ASSUME ScoringAssumption, TypeInv, [Next]_vars PROVE TypeInv'
    OBVIOUS
  <1>1. CASE RunBatch
    <2>1. CASE BatchStart \/ BatchEnd
      BY Zenon, <2>1, TypeJobMoves
    <2>2. CASE \E t \in Tenants : PassOver(t) \/ LoadTenant(t)
      BY Zenon, <2>2, TypeJobMoves, TypeLoadTenant
    <2>3. CASE \E c \in Customers, p \in Probs : ScoreCustomer(c, p)
      BY Zenon, <2>3, TypeScoreCustomer
    <2>4. QED
      BY Zenon, <1>1, <2>1, <2>2, <2>3, TypeCommitTenant DEF RunBatch
  <1>2. CASE \E again \in BOOLEAN : BatchStops(again)
    BY Zenon, <1>2, TypeBatchStops
  <1>3. CASE \E q \in Requests :
               (\E c \in Customers : Look(q, c)) \/ Answer(q) \/ RequestDies(q)
    BY Zenon, <1>3, TypeLook, TypeComputeScore, TypePublishScore, TypeRequestDies DEF Answer
  <1>4. CASE \E s \in Subscribers : Deliver(s) \/ Disconnect(s) \/ Connect(s)
    BY Zenon, <1>4, TypeFeed
  <1>5. QED
    BY Zenon, <1>1, <1>2, <1>3, <1>4, TypeTick, TypeStutter DEF Next

LEMMA Typed == Spec => []TypeInv
  BY ScoringAssumption, TypeInit, TypeNext, PTL DEF Spec

\* Type correctness: whatever the writers, the subscribers and the crashes do, the rows,
\* the sessions and the messages keep their types (worker.py:37-120,
\* predictions.py:59-120).
THEOREM ScoringTypeCorrect == Spec => []TypeOK
  BY Typed, TypeEnough, PTL

(***************************************************************************)
(* Rows in two hands                                                       *)
(*                                                                         *)
(* Nobody locks, but a writer that shares a customer's row is on record in *)
(* met, and the row that one alone holds is still as it read it.           *)
(***************************************************************************)
MeetInv ==
  \A v, w \in Writers : v # w => \A c \in InHand(v) \cap InHand(w) : <<w, c>> \in met

\* A writer that met nobody has read what is stored; once it has committed, what it
\* computed is stored.
ReadInv ==
  /\ batch.stage = "score" =>
       \A c \in Of(batch.tenant) : <<Batch, c>> \in met \/ batch.read[c] = score[c]
  /\ \A q \in Requests :
       /\ request[q].stage = "compute" =>
            \/ <<q, request[q].customer>> \in met
            \/ request[q].read = score[request[q].customer]
       /\ request[q].stage = "publish" =>
            \/ <<q, request[q].customer>> \in met
            \/ score[request[q].customer] = ScoreAt(request[q].new, request[q].at)

\* Health scores are dated by the job's runs so far, and a request that met nobody
\* looked after the last of them.  A score is computed after the one it replaces.
DateInv ==
  /\ \A c \in Customers : \A t \in health[c] :
       t <= now /\ (batch.stage # "idle" => t <= batch.at)
  /\ \A q \in Requests : request[q].stage = "compute" =>
       /\ request[q].read.at <= request[q].at
       /\ \/ <<q, request[q].customer>> \in met
          \/ \A t \in health[request[q].customer] : t <= request[q].at

(***************************************************************************)
(* What a subscriber has been told last                                    *)
(***************************************************************************)
About(s, c) == {i \in DOMAIN inbox[s] : inbox[s][i].customer = c}

Told(s, c, p, tier) ==
  IF About(s, c) = {} THEN shown[s][c].prob = p /\ shown[s][c].tier = tier
  ELSE \E i \in About(s, c) :
         /\ \A j \in About(s, c) : j <= i
         /\ inbox[s][i].prob = p /\ inbox[s][i].tier = tier

\* The job has announced a customer's score and not committed it.
Ahead(c) == batch.stage = "score" /\ c \in Of(batch.tenant) /\ c \notin batch.todo

\* A request has committed a customer's score and not announced it.
Behind(c) == \E q \in Requests : request[q].stage = "publish" /\ request[q].customer = c

FeedInv ==
  \A s \in Subscribers, c \in Customers :
    <<s, c>> \notin misled =>
      /\ ~Ahead(c) /\ ~Behind(c) /\ c \notin torn =>
           \A p \in Probs, tier \in Tiers \cup {NoProb} : Told(s, c, p, tier) =>
             score[c].prob = p /\ score[c].tier = tier
      /\ Ahead(c) /\ <<Batch, c>> \notin met =>
           \A p \in Probs \cup {NoProb}, tier \in Tiers \cup {NoProb} : Told(s, c, p, tier) =>
             batch.new[c] = p /\ p \in Probs /\ tier = Tier[p]

ScoresInv == MeetInv /\ ReadInv /\ DateInv /\ ScoresWhole /\ HealthNotNewer /\ FeedInv

\* A request's hand holds its customer.
LEMMA RequestHand ==
  ASSUME ScoringAssumption, NEW q \in Requests
  PROVE  InHand(q) = IF request[q].stage = "idle" THEN {} ELSE {request[q].customer}
  BY DEF InHand, ScoringAssumption

LEMMA JobHand == InHand(Batch) = IF batch.stage = "score" THEN Of(batch.tenant) ELSE {}
  BY DEF InHand

\* The steps that take up no row and let go of none.
LEMMA HandsSame ==
  ASSUME ScoringAssumption, UNCHANGED request,
         batch.stage = "score" <=> batch'.stage = "score",
         batch.stage = "score" => batch'.tenant = batch.tenant
  PROVE  \A w \in Writers : InHand(w)' = InHand(w)
  BY DEF InHand, Of

LEMMA FeedHands ==
  ASSUME ScoringAssumption, TypeInv,
         \/ UNCHANGED vars
         \/ Tick
         \/ \E s \in Subscribers : Deliver(s) \/ Disconnect(s) \/ Connect(s)
  PROVE  UNCHANGED <<batch, request, met>> /\ \A w \in Writers : InHand(w)' = InHand(w)
  <1>1. UNCHANGED <<batch, request, met>>
    BY DEF vars, Tick, Deliver, Disconnect, Connect, history
  <1>2. QED
    BY <1>1, HandsSame

LEMMA JobHands ==
  ASSUME ScoringAssumption, TypeInv,
         \/ BatchStart \/ BatchEnd
         \/ \E t \in Tenants : PassOver(t)
         \/ \E c \in Customers, p \in Probs : ScoreCustomer(c, p)
  PROVE  UNCHANGED <<request, met>> /\ \A w \in Writers : InHand(w)' = InHand(w)
  <1>1. UNCHANGED <<request, met>>
    BY DEF BatchStart, BatchEnd, PassOver, ScoreCustomer, history
  <1>2. /\ batch.stage = "score" <=> batch'.stage = "score"
        /\ batch.stage = "score" => batch'.tenant = batch.tenant
    <2>1. CASE BatchStart
      BY <2>1 DEF BatchStart, Asleep
    <2>2. CASE BatchEnd
      BY <2>2 DEF BatchEnd, Asleep
    <2>3. CASE \E t \in Tenants : PassOver(t)
      BY <2>3 DEF PassOver, TypeInv, Job
    <2>4. CASE \E c \in Customers, p \in Probs : ScoreCustomer(c, p)
      <3>1. PICK c \in Customers, p \in Probs :
              batch' = [batch EXCEPT !.todo = @ \ {c}, !.new[c] = p]
        BY <2>4, Zenon DEF ScoreCustomer
      <3>2. QED
        BY <3>1 DEF TypeInv, Job
    <2>5. QED
      BY <2>1, <2>2, <2>3, <2>4
  <1>3. QED
    BY <1>1, <1>2, HandsSame

LEMMA LoadHands ==
  ASSUME ScoringAssumption, TypeInv, NEW t \in Tenants, LoadTenant(t)
  PROVE  /\ InHand(Batch) = {} /\ InHand(Batch)' = Of(t)
         /\ \A q \in Requests : InHand(q)' = InHand(q)
  <1>1. batch.stage = "tenant" /\ batch'.stage = "score" /\ batch'.tenant = t
    BY DEF LoadTenant, TypeInv, Job
  <1>2. UNCHANGED request
    BY DEF LoadTenant
  <1>3. InHand(Batch) = {} /\ InHand(Batch)' = Of(t)
    BY <1>1 DEF InHand, Of
  <1>4. QED
    BY <1>2, <1>3 DEF InHand, ScoringAssumption

LEMMA DropHands ==
  ASSUME ScoringAssumption, TypeInv, CommitTenant \/ \E again \in BOOLEAN : BatchStops(again)
  PROVE  InHand(Batch)' = {} /\ UNCHANGED request /\ \A q \in Requests : InHand(q)' = InHand(q)
  <1>1. batch'.stage # "score" /\ UNCHANGED request
    <2>1. \/ batch' = [batch EXCEPT !.stage = "tenant", !.tenant = NoTenant]
          \/ batch' = Asleep
      BY Zenon DEF CommitTenant, BatchStops
    <2>2. batch'.stage # "score"
      <3>1. [batch EXCEPT !.stage = "tenant", !.tenant = NoTenant].stage = "tenant"
        BY DEF TypeInv, Job
      <3>2. Asleep.stage = "idle"
        BY DEF Asleep
      <3>3. QED
        BY <2>1, <3>1, <3>2
    <2>3. CASE CommitTenant
      BY <2>2, <2>3 DEF CommitTenant
    <2>4. CASE \E again \in BOOLEAN : BatchStops(again)
      BY <2>2, <2>4 DEF BatchStops
    <2>5. QED
      BY <2>3, <2>4
  <1>2. QED
    BY <1>1 DEF InHand, ScoringAssumption

LEMMA LookHands ==
  ASSUME ScoringAssumption, TypeInv, NEW q \in Requests, NEW c \in Customers, Look(q, c)
  PROVE  /\ InHand(q) = {} /\ InHand(q)' = {c}
         /\ \A w \in Writers \ {q} : InHand(w)' = InHand(w)
  <1>1. /\ request[q].stage = "idle" /\ request'[q].stage = "compute" /\ request'[q].customer = c
        /\ \A v \in Requests \ {q} : request'[v] = request[v]
        /\ UNCHANGED batch
    BY DEF Look, TypeInv
  <1>2. InHand(q) = {} /\ InHand(q)' = {c}
    BY <1>1 DEF InHand, ScoringAssumption
  <1>3. QED
    BY <1>1, <1>2 DEF InHand, Of, Writers

LEMMA ComputeHands ==
  ASSUME ScoringAssumption, TypeInv, NEW q \in Requests, NEW p \in Probs, ComputeScore(q, p)
  PROVE  UNCHANGED <<batch, met>> /\ \A w \in Writers : InHand(w)' = InHand(w)
  <1>1. /\ request[q].stage = "compute" /\ request'[q].stage = "publish"
        /\ request'[q].customer = request[q].customer
        /\ \A v \in Requests \ {q} : request'[v] = request[v]
        /\ UNCHANGED <<batch, met>>
    BY DEF ComputeScore, TypeInv, RequestSession
  <1>2. QED
    BY <1>1 DEF InHand, Of, Writers

LEMMA RequestEndHands ==
  ASSUME ScoringAssumption, TypeInv, NEW q \in Requests, PublishScore(q) \/ RequestDies(q)
  PROVE  /\ UNCHANGED batch /\ InHand(q)' = {}
         /\ \A w \in Writers \ {q} : InHand(w)' = InHand(w)
  <1>1. /\ request'[q].stage = "idle" /\ \A v \in Requests \ {q} : request'[v] = request[v]
        /\ UNCHANGED batch
    BY DEF PublishScore, RequestDies, TypeInv, NoRequest
  <1>2. QED
    BY <1>1 DEF InHand, Of, Writers, ScoringAssumption

\* A step that takes up no row keeps the record complete, if it crosses out only
\* what its writer lets go of.
LEMMA MeetKept ==
  ASSUME MeetInv, \A w \in Writers : InHand(w)' \subseteq InHand(w),
         \A w \in Writers : \A c \in InHand(w)' : <<w, c>> \in met => <<w, c>> \in met'
  PROVE  MeetInv'
  BY DEF MeetInv

\* A writer whose hands were empty takes up some rows: both sides of every meeting
\* are recorded.
LEMMA MeetTake ==
  ASSUME MeetInv, NEW w \in Writers, NEW cs \in SUBSET Customers, Take(w, cs),
         InHand(w)' = cs, \A v \in Writers \ {w} : InHand(v)' = InHand(v)
  PROVE  MeetInv'
  <1> SUFFICES ASSUME NEW u \in Writers, NEW v \in Writers, u # v,
                      NEW c \in InHand(u)' \cap InHand(v)'
               PROVE  <<v, c>> \in met'
    BY DEF MeetInv
  <1>0. met \subseteq met'
    BY DEF Take
  <1>1. CASE u # w /\ v # w
    BY <1>0, <1>1 DEF MeetInv
  <1>2. CASE u = w
    <2>1. c \in cs /\ v # w /\ c \in InHand(v)
      BY <1>2
    <2>2. <<v, c>> \in {m \in Writers \X cs : m[1] # w /\ m[2] \in InHand(m[1])}
      BY <2>1
    <2>3. QED
      BY <2>2 DEF Take
  <1>3. CASE v = w
    <2>1. c \in cs /\ u \in Writers \ {w} /\ c \in InHand(u)
      BY <1>3
    <2>2. QED
      BY <1>3, <2>1 DEF Take
  <1>4. QED
    BY <1>1, <1>2, <1>3

LEMMA MeetNext == ScoringAssumption /\ TypeInv /\ MeetInv /\ [Next]_vars => MeetInv'
  <1> SUFFICES ASSUME ScoringAssumption, TypeInv, MeetInv, [Next]_vars PROVE MeetInv'
    OBVIOUS
  <1>1. ASSUME \A w \in Writers : InHand(w)' = InHand(w), UNCHANGED met PROVE MeetInv'
    BY <1>1, MeetKept
  <1>2. ASSUME NEW t \in Tenants, LoadTenant(t) PROVE MeetInv'
    <2>1. Take(Batch, Of(t)) /\ Batch \in Writers /\ Of(t) \in SUBSET Customers
      BY <1>2 DEF LoadTenant, Writers, Of
    <2>2. InHand(Batch)' = Of(t) /\ \A v \in Writers \ {Batch} : InHand(v)' = InHand(v)
      BY <1>2, LoadHands DEF Writers
    <2>3. QED
      BY <2>1, <2>2, MeetTake
  <1>3. ASSUME NEW q \in Requests, NEW c \in Customers, Look(q, c) PROVE MeetInv'
    <2>1. Take(q, {c}) /\ q \in Writers /\ {c} \in SUBSET Customers
      BY <1>3 DEF Look, Writers
    <2>2. InHand(q)' = {c} /\ \A v \in Writers \ {q} : InHand(v)' = InHand(v)
      BY <1>3, LookHands
    <2>3. QED
      BY <2>1, <2>2, MeetTake
  <1>4. ASSUME CommitTenant \/ \E again \in BOOLEAN : BatchStops(again) PROVE MeetInv'
    <2>1. InHand(Batch)' = {} /\ \A v \in Writers \ {Batch} : InHand(v)' = InHand(v)
      BY <1>4, DropHands DEF Writers
    <2>2. \A v \in Writers \ {Batch} : \A c : <<v, c>> \in met => <<v, c>> \in met'
      BY <1>4 DEF CommitTenant, BatchStops, Drop
    <2>3. QED
      BY <2>1, <2>2, MeetKept
  <1>5. ASSUME NEW q \in Requests, PublishScore(q) \/ RequestDies(q) PROVE MeetInv'
    <2>1. InHand(q)' = {} /\ \A v \in Writers \ {q} : InHand(v)' = InHand(v)
      BY <1>5, RequestEndHands
    <2>2. \A v \in Writers \ {q} : \A c : <<v, c>> \in met => <<v, c>> \in met'
      BY <1>5 DEF PublishScore, RequestDies, Drop
    <2>3. QED
      BY <2>1, <2>2, MeetKept
  <1>6. CASE RunBatch
    BY Zenon, <1>1, <1>2, <1>4, <1>6, JobHands DEF RunBatch
  <1>7. CASE \E q \in Requests :
               (\E c \in Customers : Look(q, c)) \/ Answer(q) \/ RequestDies(q)
    BY Zenon, <1>1, <1>3, <1>5, <1>7, ComputeHands DEF Answer
  <1>8. QED
    BY Zenon, <1>1, <1>4, <1>6, <1>7, FeedHands DEF Next

\* A commit makes of a row that was in one hand what its writer computed.
LEMMA JobCommits ==
  ASSUME ScoringAssumption, TypeInv, ReadInv, CommitTenant
  PROVE  \A c \in Customers :
           /\ c \notin Of(batch.tenant) => score'[c] = score[c] /\ (c \in torn' => c \in torn)
                                           /\ (c \in torn => c \in torn')
           /\ c \in Of(batch.tenant) =>
                /\ <<Batch, c>> \in met => c \in torn'
                /\ <<Batch, c>> \notin met => score'[c] = ScoreAt(batch.new[c], batch.at)
  <1> DEFINE cs  == Of(batch.tenant)
             new == [c \in cs |-> ScoreAt(batch.new[c], batch.at)]
  <1>1. Commit(Batch, batch.read, new) /\ batch.stage = "score"
    BY DEF CommitTenant
  <1>2. TAKE c \in Customers
  <1>3. CASE c \notin cs
    BY <1>1, <1>3 DEF Commit, Met
  <1>4. CASE c \in cs
    <2>1. score'[c] = Written(score[c], batch.read[c], new[c]) /\ (<<Batch, c>> \in met => c \in torn')
      BY <1>1, <1>4 DEF Commit, Met
    <2>2. new[c] = ScoreAt(batch.new[c], batch.at) /\ new[c] \in Score /\ score[c] \in Score
      BY <1>4, ScoreType DEF TypeInv, Job
    <2>3. <<Batch, c>> \notin met => score'[c] = new[c]
      BY <1>1, <1>4, <2>1, <2>2, WrittenAlone DEF ReadInv
    <2>4. QED
      BY <1>4, <2>1, <2>2, <2>3
  <1>5. QED
    BY <1>3, <1>4

LEMMA RequestCommits ==
  ASSUME ScoringAssumption, TypeInv, ReadInv, NEW q \in Requests, NEW p \in Probs,
         ComputeScore(q, p)
  PROVE  \A c \in Customers :
           /\ c # request[q].customer => score'[c] = score[c] /\ (c \in torn' => c \in torn)
                                         /\ (c \in torn => c \in torn')
           /\ c = request[q].customer =>
                /\ <<q, c>> \in met => c \in torn'
                /\ <<q, c>> \notin met => score'[c] = ScoreAt(p, request[q].at)
  <1> DEFINE r    == request[q]
             read == [c \in {r.customer} |-> r.read]
             new  == [c \in {r.customer} |-> ScoreAt(p, r.at)]
  <1>1. Commit(q, read, new) /\ r.stage = "compute"
    BY DEF ComputeScore
  <1>2. TAKE c \in Customers
  <1>3. CASE c # r.customer
    BY <1>1, <1>3 DEF Commit, Met
  <1>4. CASE c = r.customer
    <2>1. score'[c] = Written(score[c], r.read, new[c]) /\ (<<q, c>> \in met => c \in torn')
      BY <1>1, <1>4 DEF Commit, Met
    <2>2. new[c] = ScoreAt(p, r.at) /\ new[c] \in Score /\ score[c] \in Score
      BY <1>4, ScoreType DEF TypeInv, RequestSession
    <2>3. <<q, c>> \notin met => score'[c] = new[c]
      BY <1>1, <1>4, <2>1, <2>2, WrittenAlone DEF ReadInv
    <2>4. QED
      BY <1>4, <2>1, <2>2, <2>3
  <1>5. QED
    BY <1>3, <1>4

\* What a step that commits nothing leaves alone.
LEMMA StoreSame ==
  ASSUME [Next]_vars
  PROVE  \/ UNCHANGED <<score, health, torn>>
         \/ CommitTenant
         \/ \E q \in Requests, p \in Probs : ComputeScore(q, p)
  <1>1. CASE \E q \in Requests : (\E c \in Customers : Look(q, c)) \/ Answer(q) \/ RequestDies(q)
    BY <1>1 DEF Look, Answer, PublishScore, RequestDies, store
  <1>2. CASE RunBatch
    <2>1. CASE BatchStart \/ BatchEnd
      BY <2>1 DEF BatchStart, BatchEnd, store, history
    <2>2. CASE \E t \in Tenants : PassOver(t) \/ LoadTenant(t)
      BY <2>2 DEF PassOver, LoadTenant, store, history
    <2>3. CASE \E c \in Customers, p \in Probs : ScoreCustomer(c, p)
      BY <2>3 DEF ScoreCustomer, store
    <2>4. QED
      BY Zenon, <1>2, <2>1, <2>2, <2>3 DEF RunBatch
  <1>3. CASE \/ UNCHANGED vars \/ Tick
             \/ \E again \in BOOLEAN : BatchStops(again)
             \/ \E s \in Subscribers : Deliver(s) \/ Disconnect(s) \/ Connect(s)
    BY <1>3 DEF vars, Tick, BatchStops, Deliver, Disconnect, Connect, store, history
  <1>4. QED
    BY Zenon, <1>1, <1>2, <1>3 DEF Next

\* What the writers hold is theirs: two that hold one customer have both met another.
LEMMA JobMeetsRequest ==
  ASSUME ScoringAssumption, MeetInv, NEW q \in Requests, request[q].stage # "idle",
         batch.stage = "score", request[q].customer \in Of(batch.tenant)
  PROVE  /\ <<q, request[q].customer>> \in met
         /\ <<Batch, request[q].customer>> \in met
  <1>1. q \in Writers /\ Batch \in Writers /\ q # Batch
    BY DEF Writers, ScoringAssumption
  <1>2. request[q].customer \in InHand(q) \cap InHand(Batch)
    BY RequestHand, JobHand
  <1>3. QED
    BY <1>1, <1>2 DEF MeetInv

LEMMA RequestsMeet ==
  ASSUME ScoringAssumption, MeetInv, NEW q \in Requests, NEW v \in Requests, q # v,
         request[q].stage # "idle", request[v].stage # "idle",
         request[q].customer = request[v].customer
  PROVE  <<v, request[v].customer>> \in met
  <1>1. q \in Writers /\ v \in Writers
    BY DEF Writers
  <1>2. request[v].customer \in InHand(q) \cap InHand(v)
    BY RequestHand
  <1>3. QED
    BY <1>1, <1>2 DEF MeetInv

\* What a step of the job does to its session.
LEMMA JobSteps ==
  ASSUME TypeInv
  PROVE  /\ BatchStart \/ BatchEnd => batch'.stage # "score"
         /\ BatchStart => batch'.at = now
         /\ BatchEnd => batch'.stage = "idle"
         /\ \A again \in BOOLEAN : BatchStops(again) => batch'.stage = "idle"
         /\ \A t \in Tenants : PassOver(t) =>
              batch'.stage = "tenant" /\ batch.stage = "tenant" /\ batch'.at = batch.at
         /\ \A t \in Tenants : LoadTenant(t) =>
              /\ batch'.stage = "score" /\ batch.stage = "tenant" /\ batch'.at = batch.at
              /\ batch'.tenant = t /\ batch'.todo = Of(t) /\ batch'.read = score
         /\ \A c \in Customers, p \in Probs : ScoreCustomer(c, p) =>
              /\ batch'.stage = "score" /\ batch.stage = "score" /\ batch'.at = batch.at
              /\ batch'.tenant = batch.tenant /\ batch'.read = batch.read
              /\ batch'.todo = batch.todo \ {c} /\ c \in batch.todo
              /\ batch'.new = [batch.new EXCEPT ![c] = p]
         /\ CommitTenant =>
              /\ batch'.stage = "tenant" /\ batch.stage = "score" /\ batch'.at = batch.at
              /\ batch.todo = {}
  <1>0. batch \in Job
    BY DEF TypeInv
  <1>1. Asleep.stage = "idle" /\ \A at : [Asleep EXCEPT !.stage = "tenant", !.at = at,
                                              !.left = Tenants].at = at
        /\ \A time : [Asleep EXCEPT !.stage = "tenant", !.at = time, !.left = Tenants].stage = "tenant"
    BY DEF Asleep
  <1>2. BatchStart => batch'.at = now /\ batch'.stage = "tenant"
    BY <1>1 DEF BatchStart
  <1>3. (BatchEnd => batch'.stage = "idle")
        /\ \A again \in BOOLEAN : BatchStops(again) => batch'.stage = "idle"
    BY <1>1 DEF BatchEnd, BatchStops
  <1>4. \A t \in Tenants : PassOver(t) =>
              batch'.stage = "tenant" /\ batch.stage = "tenant" /\ batch'.at = batch.at
    BY <1>0 DEF PassOver, Job
  <1>5. \A t \in Tenants : LoadTenant(t) =>
              /\ batch'.stage = "score" /\ batch.stage = "tenant" /\ batch'.at = batch.at
              /\ batch'.tenant = t /\ batch'.todo = Of(t) /\ batch'.read = score
    BY <1>0 DEF LoadTenant, Job
  <1>6. \A c \in Customers, p \in Probs : ScoreCustomer(c, p) =>
              /\ batch'.stage = "score" /\ batch.stage = "score" /\ batch'.at = batch.at
              /\ batch'.tenant = batch.tenant /\ batch'.read = batch.read
              /\ batch'.todo = batch.todo \ {c} /\ c \in batch.todo
              /\ batch'.new = [batch.new EXCEPT ![c] = p]
    BY <1>0 DEF ScoreCustomer, Job
  <1>7. CommitTenant =>
              /\ batch'.stage = "tenant" /\ batch.stage = "score" /\ batch'.at = batch.at
              /\ batch.todo = {}
    <2>1. /\ [batch EXCEPT !.stage = "tenant", !.tenant = NoTenant].stage = "tenant"
          /\ [batch EXCEPT !.stage = "tenant", !.tenant = NoTenant].at = batch.at
      BY <1>0 DEF Job
    <2>2. QED
      BY <2>1, Zenon DEF CommitTenant
  <1>8. QED
    BY <1>2, <1>3, <1>4, <1>5, <1>6, <1>7

LEMMA ReadNext ==
  ScoringAssumption /\ TypeInv /\ MeetInv /\ ReadInv /\ [Next]_vars => ReadInv'
  <1> SUFFICES ASSUME ScoringAssumption, TypeInv, MeetInv, ReadInv, [Next]_vars PROVE ReadInv'
    OBVIOUS
  <1> DEFINE
      Reads(q) ==
        /\ request[q].stage = "compute" =>
             \/ <<q, request[q].customer>> \in met
             \/ request[q].read = score[request[q].customer]
        /\ request[q].stage = "publish" =>
             \/ <<q, request[q].customer>> \in met
             \/ score[request[q].customer] = ScoreAt(request[q].new, request[q].at)
      JobReads ==
        batch.stage = "score" =>
          \A c \in Of(batch.tenant) : <<Batch, c>> \in met \/ batch.read[c] = score[c]
  <1>0. (\A q \in Requests : Reads(q)) /\ JobReads
    BY DEF ReadInv
  <1>1. SUFFICES (\A q \in Requests : Reads(q)') /\ JobReads'
    BY DEF ReadInv
  <1> HIDE DEF Reads, JobReads
  <1>2. ASSUME UNCHANGED <<request, score>>, \A q \in Requests : \A c : <<q, c>> \in met => <<q, c>> \in met'
        PROVE  \A q \in Requests : Reads(q)'
    BY <1>0, <1>2 DEF Reads
  <1>3. ASSUME \/ UNCHANGED vars \/ Tick
               \/ \E s \in Subscribers : Deliver(s) \/ Disconnect(s) \/ Connect(s)
        PROVE  (\A q \in Requests : Reads(q)') /\ JobReads'
    <2>1. UNCHANGED <<batch, request, met>>
      BY <1>3, FeedHands
    <2>2. UNCHANGED score
      BY <1>3 DEF vars, Tick, Deliver, Disconnect, Connect, store
    <2>3. QED
      BY <1>0, <2>1, <2>2 DEF Reads, JobReads, Of
  <1>4. ASSUME BatchStart \/ BatchEnd \/ \E t \in Tenants : PassOver(t)
        PROVE  (\A q \in Requests : Reads(q)') /\ JobReads'
    <2>1. UNCHANGED <<request, score, met>>
      BY <1>4 DEF BatchStart, BatchEnd, PassOver, store, history
    <2>2. batch'.stage # "score"
      BY <1>4, JobSteps
    <2>3. QED
      BY <1>2, <2>1, <2>2 DEF JobReads
  <1>5. ASSUME NEW t \in Tenants, LoadTenant(t)
        PROVE  (\A q \in Requests : Reads(q)') /\ JobReads'
    <2>1. UNCHANGED <<request, score>> /\ met \subseteq met'
      BY <1>5 DEF LoadTenant, store, Take
    <2>2. batch'.read = score
      BY <1>5, JobSteps
    <2>3. QED
      BY <1>2, <2>1, <2>2 DEF JobReads
  <1>6. ASSUME NEW c \in Customers, NEW p \in Probs, ScoreCustomer(c, p)
        PROVE  (\A q \in Requests : Reads(q)') /\ JobReads'
    <2>1. UNCHANGED <<request, score, met>>
      BY <1>6 DEF ScoreCustomer, store
    <2>2. batch'.stage = batch.stage /\ batch'.read = batch.read /\ batch'.tenant = batch.tenant
      BY <1>6, JobSteps
    <2>3. QED
      BY <1>0, <1>2, <2>1, <2>2 DEF JobReads, Of
  <1>7. ASSUME NEW again \in BOOLEAN, BatchStops(again)
        PROVE  (\A q \in Requests : Reads(q)') /\ JobReads'
    <2>1. UNCHANGED <<request, score>>
      BY <1>7 DEF BatchStops, store
    <2>2. \A q \in Requests : \A c : <<q, c>> \in met => <<q, c>> \in met'
      BY <1>7 DEF BatchStops, Drop, ScoringAssumption
    <2>3. batch'.stage = "idle"
      BY <1>7, JobSteps
    <2>4. QED
      BY <1>2, <2>1, <2>2, <2>3 DEF JobReads
  <1>8. ASSUME CommitTenant PROVE (\A q \in Requests : Reads(q)') /\ JobReads'
    <2>1. batch'.stage = "tenant" /\ batch.stage = "score"
      BY <1>8, JobSteps
    <2>2. UNCHANGED request
      BY <1>8 DEF CommitTenant
    <2>3. \A q \in Requests : \A c : <<q, c>> \in met => <<q, c>> \in met'
      BY <1>8 DEF CommitTenant, Drop, ScoringAssumption
    <2>4. ASSUME NEW q \in Requests PROVE Reads(q)'
      <3>1. CASE request[q].stage = "idle"
        BY <2>2, <3>1 DEF Reads
      <3>2. CASE request[q].stage # "idle" /\ request[q].customer \in Of(batch.tenant)
        BY <2>1, <2>2, <2>3, <3>2, JobMeetsRequest DEF Reads
      <3>3. CASE request[q].stage # "idle" /\ request[q].customer \notin Of(batch.tenant)
        <4>1. request[q].customer \in Customers
          BY <3>3 DEF TypeInv, Sane
        <4>2. score'[request[q].customer] = score[request[q].customer]
          BY <1>8, <3>3, <4>1, JobCommits
        <4>3. QED
          BY <1>0, <2>2, <2>3, <4>2 DEF Reads
      <3>4. QED
        BY <3>1, <3>2, <3>3
    <2>5. QED
      BY <2>1, <2>4 DEF JobReads
  <1>9. ASSUME NEW q \in Requests, NEW c \in Customers, Look(q, c)
        PROVE  (\A v \in Requests : Reads(v)') /\ JobReads'
    <2>1. UNCHANGED <<batch, score>> /\ met \subseteq met'
      BY <1>9 DEF Look, store, Take
    <2>2. /\ request'[q].stage = "compute" /\ request'[q].customer = c
          /\ request'[q].read = score[c]
          /\ \A v \in Requests \ {q} : request'[v] = request[v]
      BY <1>9 DEF Look, TypeInv
    <2>3. Reads(q)'
      BY <2>1, <2>2 DEF Reads
    <2>4. \A v \in Requests \ {q} : Reads(v)'
      BY <1>0, <2>1, <2>2 DEF Reads
    <2>5. QED
      BY <1>0, <2>1, <2>3, <2>4 DEF JobReads, Of
  <1>10. ASSUME NEW q \in Requests, NEW p \in Probs, ComputeScore(q, p)
         PROVE  (\A v \in Requests : Reads(v)') /\ JobReads'
    <2>1. UNCHANGED <<batch, met>>
      BY <1>10 DEF ComputeScore
    <2>2. /\ request'[q].stage = "publish" /\ request[q].stage = "compute"
          /\ request'[q].customer = request[q].customer
          /\ request'[q].new = p /\ request'[q].at = request[q].at
          /\ \A v \in Requests \ {q} : request'[v] = request[v]
      BY <1>10 DEF ComputeScore, TypeInv, RequestSession
    <2>3. request[q].customer \in Customers
      BY <2>2 DEF TypeInv, Sane
    <2>4. Reads(q)'
      BY <1>10, <2>1, <2>2, <2>3, RequestCommits DEF Reads
    <2>5. ASSUME NEW v \in Requests \ {q} PROVE Reads(v)'
      <3>1. CASE request[v].stage = "idle"
        BY <2>2, <3>1 DEF Reads
      <3>2. CASE request[v].stage # "idle" /\ request[v].customer = request[q].customer
        <4>1. <<v, request[v].customer>> \in met
          BY <2>2, <3>2, RequestsMeet
        <4>2. QED
          BY <2>1, <2>2, <4>1 DEF Reads
      <3>3. CASE request[v].stage # "idle" /\ request[v].customer # request[q].customer
        <4>1. request[v].customer \in Customers
          BY <3>3 DEF TypeInv, Sane
        <4>2. score'[request[v].customer] = score[request[v].customer]
          BY <1>10, <3>3, <4>1, RequestCommits
        <4>3. QED
          BY <1>0, <2>1, <2>2, <4>2 DEF Reads
      <3>4. QED
        BY <3>1, <3>2, <3>3
    <2>6. JobReads'
      <3>1. SUFFICES ASSUME batch.stage = "score", NEW c \in Of(batch.tenant), <<Batch, c>> \notin met
                     PROVE  batch.read[c] = score'[c]
        BY <2>1 DEF JobReads, Of
      <3>2. c # request[q].customer
        BY <2>2, <3>1, JobMeetsRequest
      <3>3. score'[c] = score[c]
        BY <1>10, <3>2, RequestCommits DEF Of
      <3>4. QED
        BY <1>0, <3>1, <3>3 DEF JobReads
    <2>7. QED
      BY <2>4, <2>5, <2>6
  <1>11. ASSUME NEW q \in Requests, PublishScore(q) \/ RequestDies(q)
         PROVE  (\A v \in Requests : Reads(v)') /\ JobReads'
    <2>1. UNCHANGED <<batch, score>>
      BY <1>11 DEF PublishScore, RequestDies, store
    <2>2. \A w \in Writers \ {q} : \A c : <<w, c>> \in met => <<w, c>> \in met'
      BY <1>11 DEF PublishScore, RequestDies, Drop
    <2>3. /\ request'[q].stage = "idle"
          /\ \A v \in Requests \ {q} : request'[v] = request[v]
      BY <1>11 DEF PublishScore, RequestDies, TypeInv, NoRequest
    <2>4. \A v \in Requests : Reads(v)'
      BY <1>0, <2>1, <2>2, <2>3 DEF Reads, Writers
    <2>5. Batch \in Writers \ {q}
      BY DEF Writers, ScoringAssumption
    <2>6. QED
      BY <1>0, <2>1, <2>2, <2>4, <2>5 DEF JobReads, Of
  <1>12. CASE RunBatch
    BY Zenon, <1>4, <1>5, <1>6, <1>8, <1>12 DEF RunBatch
  <1>13. CASE \E q \in Requests :
                (\E c \in Customers : Look(q, c)) \/ Answer(q) \/ RequestDies(q)
    BY Zenon, <1>9, <1>10, <1>11, <1>13 DEF Answer
  <1>14. QED
    BY Zenon, <1>3, <1>7, <1>12, <1>13 DEF Next

(***************************************************************************)
(* Times                                                                   *)
(***************************************************************************)
LEMMA DateNext ==
  ScoringAssumption /\ TypeInv /\ MeetInv /\ DateInv /\ [Next]_vars => DateInv'
  <1> SUFFICES ASSUME ScoringAssumption, TypeInv, MeetInv, DateInv, [Next]_vars PROVE DateInv'
    OBVIOUS
  <1> DEFINE
      Dates ==
        \A c \in Customers : \A t \in health[c] :
          t <= now /\ (batch.stage # "idle" => t <= batch.at)
      Looked(q) ==
        request[q].stage = "compute" =>
          /\ request[q].read.at <= request[q].at
          /\ \/ <<q, request[q].customer>> \in met
             \/ \A t \in health[request[q].customer] : t <= request[q].at
  <1>0. Dates /\ \A q \in Requests : Looked(q)
    BY DEF DateInv
  <1>1. SUFFICES Dates' /\ \A q \in Requests : Looked(q)'
    BY DEF DateInv
  <1>t. /\ now \in Int /\ (batch.stage # "idle" => batch.at \in 0..now)
        /\ \A c \in Customers : health[c] \subseteq Int
    BY DEF TypeInv, Sane, ScoringAssumption
  <1> HIDE DEF Dates, Looked
  <1>2. ASSUME UNCHANGED <<request, health>>,
               \A q \in Requests : \A c : <<q, c>> \in met => <<q, c>> \in met'
        PROVE  \A q \in Requests : Looked(q)'
    BY <1>0, <1>2 DEF Looked
  <1>3. ASSUME UNCHANGED <<health, now>>,
               batch'.stage # "idle" =>
                 batch'.at = now \/ (batch.stage # "idle" /\ batch'.at = batch.at)
        PROVE  Dates'
    BY <1>0, <1>3 DEF Dates
  <1>4. ASSUME \/ UNCHANGED vars
               \/ \E s \in Subscribers : Deliver(s) \/ Disconnect(s) \/ Connect(s)
        PROVE  Dates' /\ \A q \in Requests : Looked(q)'
    <2>1. UNCHANGED <<batch, request, met>>
      BY <1>4, FeedHands
    <2>2. UNCHANGED <<health, now>>
      BY <1>4 DEF vars, Deliver, Disconnect, Connect, store
    <2>3. QED
      BY <1>2, <1>3, <2>1, <2>2
  <1>5. ASSUME Tick PROVE Dates' /\ \A q \in Requests : Looked(q)'
    <2>1. UNCHANGED <<batch, request, met, health>> /\ now' = now + 1
      BY <1>5 DEF Tick, store, history
    <2>2. Dates'
      BY <1>0, <1>t, <2>1 DEF Dates
    <2>3. QED
      BY <1>2, <2>1, <2>2
  <1>6. ASSUME BatchStart \/ BatchEnd \/ \E t \in Tenants : PassOver(t)
        PROVE  Dates' /\ \A q \in Requests : Looked(q)'
    <2>1. UNCHANGED <<request, health, met, now>>
      BY <1>6 DEF BatchStart, BatchEnd, PassOver, store, history
    <2>2. batch'.stage # "idle" =>
            batch'.at = now \/ (batch.stage # "idle" /\ batch'.at = batch.at)
      BY <1>6, JobSteps
    <2>3. QED
      BY <1>2, <1>3, <2>1, <2>2
  <1>7. ASSUME NEW t \in Tenants, LoadTenant(t)
        PROVE  Dates' /\ \A q \in Requests : Looked(q)'
    <2>1. UNCHANGED <<request, health, now>> /\ met \subseteq met'
      BY <1>7 DEF LoadTenant, store, Take
    <2>2. batch.stage # "idle" /\ batch'.at = batch.at
      BY <1>7, JobSteps
    <2>3. QED
      BY <1>2, <1>3, <2>1, <2>2
  <1>8. ASSUME NEW c \in Customers, NEW p \in Probs, ScoreCustomer(c, p)
        PROVE  Dates' /\ \A q \in Requests : Looked(q)'
    <2>1. UNCHANGED <<request, health, now, met>>
      BY <1>8 DEF ScoreCustomer, store
    <2>2. batch.stage # "idle" /\ batch'.at = batch.at
      BY <1>8, JobSteps
    <2>3. QED
      BY <1>2, <1>3, <2>1, <2>2
  <1>9. ASSUME NEW again \in BOOLEAN, BatchStops(again)
        PROVE  Dates' /\ \A q \in Requests : Looked(q)'
    <2>1. UNCHANGED <<request, health, now>>
      BY <1>9 DEF BatchStops, store
    <2>2. \A q \in Requests : \A c : <<q, c>> \in met => <<q, c>> \in met'
      BY <1>9 DEF BatchStops, Drop, ScoringAssumption
    <2>3. batch'.stage = "idle"
      BY <1>9, JobSteps
    <2>4. QED
      BY <1>2, <1>3, <2>1, <2>2, <2>3
  <1>10. ASSUME CommitTenant PROVE Dates' /\ \A q \in Requests : Looked(q)'
    <2>1. batch'.stage = "tenant" /\ batch.stage = "score" /\ batch'.at = batch.at
      BY <1>10, JobSteps
    <2>2. UNCHANGED <<request, now>>
      BY <1>10 DEF CommitTenant
    <2>3. \A q \in Requests : \A c : <<q, c>> \in met => <<q, c>> \in met'
      BY <1>10 DEF CommitTenant, Drop, ScoringAssumption
    <2>4. \A c \in Customers :
            health'[c] = IF c \in Of(batch.tenant) THEN health[c] \cup {batch.at} ELSE health[c]
      BY <1>10 DEF CommitTenant
    <2>5. Dates'
      <3>1. ASSUME NEW c \in Customers, NEW t \in health'[c] PROVE t <= now /\ t <= batch.at
        <4>1. t \in health[c] \/ t = batch.at
          BY <2>4, <3>1
        <4>2. batch.at \in Int /\ batch.at <= now
          BY <1>t, <2>1
        <4>3. QED
          BY <1>0, <2>1, <4>1, <4>2 DEF Dates
      <3>2. QED
        BY <2>1, <2>2, <3>1 DEF Dates
    <2>6. ASSUME NEW q \in Requests PROVE Looked(q)'
      <3>1. CASE request[q].stage # "compute"
        BY <2>2, <3>1 DEF Looked
      <3>2. CASE request[q].stage = "compute" /\ request[q].customer \in Of(batch.tenant)
        BY <1>0, <2>1, <2>2, <2>3, <3>2, JobMeetsRequest DEF Looked
      <3>3. CASE request[q].stage = "compute" /\ request[q].customer \notin Of(batch.tenant)
        <4>1. request[q].customer \in Customers
          BY <3>3 DEF TypeInv, Sane
        <4>2. QED
          BY <1>0, <2>2, <2>3, <2>4, <3>3, <4>1 DEF Looked
      <3>4. QED
        BY <3>1, <3>2, <3>3
    <2>7. QED
      BY <2>5, <2>6
  <1>11. ASSUME NEW q \in Requests, NEW c \in Customers, Look(q, c)
         PROVE  Dates' /\ \A v \in Requests : Looked(v)'
    <2>1. UNCHANGED <<batch, health, now>> /\ met \subseteq met'
      BY <1>11 DEF Look, store, Take
    <2>2. /\ request'[q].customer = c /\ request'[q].read = score[c] /\ request'[q].at = now
          /\ \A v \in Requests \ {q} : request'[v] = request[v]
      BY <1>11 DEF Look, TypeInv
    <2>3. score[c].at <= now
      <3>1. score[c].at \in Int /\ now >= 0
        BY DEF TypeInv, Score
      <3>2. QED
        BY <1>11, <1>t, <3>1 DEF Look, Stale, Never, ScoringAssumption
    <2>4. Looked(q)'
      BY <1>0, <2>1, <2>2, <2>3 DEF Looked, Dates
    <2>5. \A v \in Requests \ {q} : Looked(v)'
      BY <1>0, <2>1, <2>2 DEF Looked
    <2>6. QED
      BY <1>3, <2>1, <2>4, <2>5
  <1>12. ASSUME NEW q \in Requests, NEW p \in Probs, ComputeScore(q, p)
         PROVE  Dates' /\ \A v \in Requests : Looked(v)'
    <2>1. UNCHANGED <<batch, met, health, now>>
      BY <1>12 DEF ComputeScore
    <2>2. /\ request'[q].stage = "publish"
          /\ \A v \in Requests \ {q} : request'[v] = request[v]
      BY <1>12 DEF ComputeScore, TypeInv, RequestSession
    <2>3. QED
      BY <1>0, <1>3, <2>1, <2>2 DEF Looked
  <1>13. ASSUME NEW q \in Requests, PublishScore(q) \/ RequestDies(q)
         PROVE  Dates' /\ \A v \in Requests : Looked(v)'
    <2>1. UNCHANGED <<batch, health, now>>
      BY <1>13 DEF PublishScore, RequestDies, store
    <2>2. \A w \in Requests \ {q} : \A c : <<w, c>> \in met => <<w, c>> \in met'
      BY <1>13 DEF PublishScore, RequestDies, Drop
    <2>3. /\ request'[q].stage = "idle"
          /\ \A v \in Requests \ {q} : request'[v] = request[v]
      BY <1>13 DEF PublishScore, RequestDies, TypeInv, NoRequest
    <2>4. QED
      BY <1>0, <1>3, <2>1, <2>2, <2>3 DEF Looked
  <1>14. CASE RunBatch
    BY Zenon, <1>6, <1>7, <1>8, <1>10, <1>14 DEF RunBatch
  <1>15. CASE \E q \in Requests :
                (\E c \in Customers : Look(q, c)) \/ Answer(q) \/ RequestDies(q)
    BY Zenon, <1>11, <1>12, <1>13, <1>15 DEF Answer
  <1>16. QED
    BY Zenon, <1>4, <1>5, <1>9, <1>14, <1>15 DEF Next

\* The invariants about stored scores, and what they rest on.
StoreInv == MeetInv /\ ReadInv /\ DateInv /\ ScoresWhole /\ HealthNotNewer

LEMMA StoreInit == ScoringAssumption /\ Init => StoreInv
  <1> SUFFICES ASSUME ScoringAssumption, Init PROVE StoreInv
    OBVIOUS
  <1>1. batch.stage = "idle" /\ \A q \in Requests : request[q].stage = "idle"
    BY DEF Init, Asleep, NoRequest
  <1>2. \A w \in Writers : InHand(w) = {}
    BY <1>1 DEF InHand, Writers
  <1>3. MeetInv /\ ReadInv
    BY <1>1, <1>2 DEF MeetInv, ReadInv
  <1>4. DateInv /\ HealthNotNewer
    BY <1>1 DEF Init, DateInv, HealthNotNewer
  <1>5. ScoresWhole
    BY DEF Init, ScoresWhole, Unscored, ScoreAt
  <1>6. QED
    BY <1>3, <1>4, <1>5 DEF StoreInv

LEMMA StoreNext == ScoringAssumption /\ TypeInv /\ StoreInv /\ [Next]_vars => StoreInv'
  <1> SUFFICES ASSUME ScoringAssumption, TypeInv, StoreInv, [Next]_vars
               PROVE  ScoresWhole' /\ HealthNotNewer'
    BY MeetNext, ReadNext, DateNext DEF StoreInv
  <1>0. /\ MeetInv /\ ReadInv /\ DateInv /\ ScoresWhole /\ HealthNotNewer
        /\ \A c \in Customers : health[c] \subseteq Int
    BY DEF StoreInv, TypeInv
  <1>1. CASE UNCHANGED <<score, health, torn>>
    BY <1>0, <1>1 DEF ScoresWhole, HealthNotNewer
  <1>2. CASE CommitTenant
    <2>1. \A c \in Customers \ torn' :
            \/ score'[c] = score[c] /\ c \notin torn /\ health'[c] = health[c]
            \/ /\ score'[c] = ScoreAt(batch.new[c], batch.at)
               /\ health'[c] = health[c] \cup {batch.at}
      <3>1. \A c \in Customers :
              health'[c] = IF c \in Of(batch.tenant) THEN health[c] \cup {batch.at} ELSE health[c]
        BY <1>2 DEF CommitTenant
      <3>2. QED
        BY <1>0, <1>2, <3>1, JobCommits
    <2>2. batch.stage = "score"
      BY <1>2 DEF CommitTenant
    <2>3. \A p, at : ScoreAt(p, at).tier = TierOf(ScoreAt(p, at).prob) /\ ScoreAt(p, at).at = at
      BY DEF ScoreAt
    <2>4. ScoresWhole'
      BY <1>0, <2>1, <2>3 DEF ScoresWhole
    <2>5. batch.at \in Int
      BY DEF TypeInv, Job
    <2>6. HealthNotNewer'
      BY <1>0, <2>1, <2>2, <2>3, <2>5 DEF HealthNotNewer, DateInv
    <2>7. QED
      BY <2>4, <2>6
  <1>3. CASE \E q \in Requests, p \in Probs : ComputeScore(q, p)
    <2>1. PICK q \in Requests, p \in Probs : ComputeScore(q, p)
      BY <1>3
    <2>2. \A c \in Customers \ torn' :
            \/ score'[c] = score[c] /\ c \notin torn
            \/ /\ c = request[q].customer /\ <<q, c>> \notin met
               /\ score'[c] = ScoreAt(p, request[q].at)
      BY <1>0, <2>1, RequestCommits
    <2>3. UNCHANGED health /\ request[q].stage = "compute"
      BY <2>1 DEF ComputeScore
    <2>4. \A x, at : ScoreAt(x, at).tier = TierOf(ScoreAt(x, at).prob) /\ ScoreAt(x, at).at = at
      BY DEF ScoreAt
    <2>5. ScoresWhole'
      <3>1. SUFFICES ASSUME NEW c \in Customers \ torn'
                     PROVE  score'[c].tier = TierOf(score'[c].prob)
        BY DEF ScoresWhole
      <3>2. CASE score'[c] = score[c] /\ c \notin torn
        BY <1>0, <3>2 DEF ScoresWhole
      <3>3. CASE score'[c] = ScoreAt(p, request[q].at)
        BY <2>4, <3>3
      <3>4. QED
        BY <2>2, <3>2, <3>3
    <2>6. HealthNotNewer'
      <3>1. SUFFICES ASSUME NEW c \in Customers \ torn', NEW t \in health[c]
                     PROVE  t <= score'[c].at
        BY <2>3 DEF HealthNotNewer
      <3>2. CASE score'[c] = score[c] /\ c \notin torn
        BY <1>0, <3>2 DEF HealthNotNewer
      <3>3. CASE /\ c = request[q].customer /\ <<q, c>> \notin met
                 /\ score'[c] = ScoreAt(p, request[q].at)
        BY <1>0, <2>3, <2>4, <3>3 DEF DateInv
      <3>4. QED
        BY <2>2, <3>2, <3>3
    <2>7. QED
      BY <2>5, <2>6
  <1>4. QED
    BY <1>1, <1>2, <1>3, StoreSame

LEMMA StoreSound == Spec => [](TypeInv /\ StoreInv)
  <1>1. Init => TypeInv /\ StoreInv
    BY TypeInit, StoreInit, ScoringAssumption
  <1>2. TypeInv /\ StoreInv /\ [Next]_vars => (TypeInv /\ StoreInv)'
    BY TypeNext, StoreNext, ScoringAssumption
  <1>3. QED
    BY <1>1, <1>2, PTL DEF Spec

\* The stored tier is that of the stored probability: columns that are equal to what a
\* session loaded are not written, and only where two writers shared the row can one
\* keep the tier that the other's probability does not have (worker.py:95-98,
\* predictions.py:85-89).
THEOREM TierFitsProbability == Spec => []ScoresWhole
  BY StoreSound, PTL DEF StoreInv

\* A health score is at most as recent as the churn score beside it, where the row's
\* last writer was alone with it (worker.py:91-116).
THEOREM HealthFollowsScore == Spec => []HealthNotNewer
  BY StoreSound, PTL DEF StoreInv

\* A score is replaced by one computed later, except where two writers shared the row or
\* a request was faster than the job that had begun before it (worker.py:37,98,
\* predictions.py:59,88).
THEOREM ScoresReplacedByLater == Spec => ScoresAdvance
  <1> DEFINE Advance ==
        \A c \in Customers :
          \/ score'[c].at >= score[c].at
          \/ c \in torn'
          \/ c \in InHand(Batch) /\ batch.at < score[c].at
  <1>1. TypeInv /\ StoreInv /\ [Next]_vars => [Advance]_vars
    <2> SUFFICES ASSUME TypeInv, StoreInv, [Next]_vars PROVE Advance
      OBVIOUS
    <2>1. \A c \in Customers : score[c].at \in Int
      BY DEF TypeInv, Score
    <2>2. SUFFICES ASSUME NEW c \in Customers, c \notin torn'
                   PROVE  \/ score'[c].at >= score[c].at
                          \/ c \in InHand(Batch) /\ batch.at < score[c].at
      OBVIOUS
    <2>3. CASE UNCHANGED <<score, health, torn>>
      BY <2>1, <2>3
    <2>4. CASE CommitTenant
      <3>1. batch.at \in Int /\ batch.stage = "score"
        BY <2>4 DEF TypeInv, Job, CommitTenant
      <3>2. CASE c \notin Of(batch.tenant)
        <4>1. score'[c] = score[c]
          BY <2>4, <3>2, JobCommits, ScoringAssumption DEF StoreInv
        <4>2. QED
          BY <2>1, <4>1
      <3>3. CASE c \in Of(batch.tenant)
        <4>1. score'[c] = ScoreAt(batch.new[c], batch.at) /\ c \in InHand(Batch)
          BY <2>2, <2>4, <3>1, <3>3, JobCommits, JobHand, ScoringAssumption DEF StoreInv
        <4>2. QED
          BY <2>1, <3>1, <4>1 DEF ScoreAt
      <3>4. QED
        BY <3>2, <3>3
    <2>5. CASE \E q \in Requests, p \in Probs : ComputeScore(q, p)
      <3>1. PICK q \in Requests, p \in Probs : ComputeScore(q, p)
        BY <2>5
      <3>2. CASE c # request[q].customer
        <4>1. score'[c] = score[c]
          BY <3>1, <3>2, RequestCommits, ScoringAssumption DEF StoreInv
        <4>2. QED
          BY <2>1, <4>1
      <3>3. CASE c = request[q].customer
        <4>1. score'[c] = ScoreAt(p, request[q].at) /\ <<q, c>> \notin met
          BY <2>2, <3>1, <3>3, RequestCommits, ScoringAssumption DEF StoreInv
        <4>2. request[q].stage = "compute"
          BY <3>1 DEF ComputeScore
        <4>3. score[c].at <= request[q].at /\ request[q].at \in Int
          BY <3>3, <4>1, <4>2 DEF StoreInv, ReadInv, DateInv, TypeInv, RequestSession
        <4>4. QED
          BY <2>1, <4>1, <4>3 DEF ScoreAt
      <3>4. QED
        BY <3>2, <3>3
    <2>6. QED
      BY <2>3, <2>4, <2>5, StoreSame
  <1>2. QED
    BY <1>1, StoreSound, PTL DEF Spec, ScoresAdvance

(***************************************************************************)
(* The feed: which update a subscriber was told last                       *)
(***************************************************************************)
\* Passing an update on does not change what was said last.
LEMMA ToldDeliver ==
  ASSUME TypeInv, NEW s \in Subscribers, Deliver(s),
         NEW v \in Subscribers, NEW c \in Customers, NEW p, NEW tier, Told(v, c, p, tier)'
  PROVE  Told(v, c, p, tier)
  <1>1. CASE v # s
    <2>1. inbox'[v] = inbox[v] /\ shown'[v] = shown[v]
      BY <1>1 DEF Deliver, TypeInv
    <2>2. QED
      BY <2>1 DEF Told, About
  <1>2. CASE v = s
    <2> DEFINE q == inbox[s]
               m == Head(q)
    <2>1. q \in Seq(Message) /\ q # <<>> /\ inbox'[s] = Tail(q)
      BY DEF Deliver, TypeInv
    <2>2. /\ Len(q) \in Nat /\ Len(q) > 0 /\ m = q[1] /\ Len(Tail(q)) = Len(q) - 1
          /\ \A i \in 1..Len(q) - 1 : Tail(q)[i] = q[i + 1]
      BY <2>1
    <2>3. About(s, c) = {i \in 1..Len(q) : q[i].customer = c}
      BY <2>1 DEF About
    <2>4. About(s, c)' = {i \in 1..Len(q) - 1 : q[i + 1].customer = c}
      <3>1. About(s, c)' = {i \in 1..Len(Tail(q)) : Tail(q)[i].customer = c}
        BY <2>1 DEF About
      <3>2. QED
        BY <2>2, <3>1
    <2>5. m.customer \in Customers
      <3>1. m \in Message
        BY <2>1
      <3>2. QED
        BY <3>1 DEF Message
    <2>6. shown'[s] = [shown[s] EXCEPT ![m.customer] = [prob |-> m.prob, tier |-> m.tier]]
      BY DEF Deliver, TypeInv
    <2>7. CASE About(s, c)' = {}
      <3>1. shown'[s][c].prob = p /\ shown'[s][c].tier = tier
        BY <1>2, <2>7 DEF Told
      <3>2. \A i \in 2..Len(q) : q[i].customer # c
        <4>1. SUFFICES ASSUME NEW i \in 2..Len(q), q[i].customer = c PROVE FALSE
          OBVIOUS
        <4>2. i - 1 \in 1..Len(q) - 1 /\ (i - 1) + 1 = i
          BY <2>2
        <4>3. QED
          BY <2>4, <2>7, <4>1, <4>2
      <3>3. CASE m.customer = c
        <4>1. About(s, c) = {1} /\ shown'[s][c] = [prob |-> m.prob, tier |-> m.tier]
          BY <2>2, <2>3, <2>5, <2>6, <3>2, <3>3 DEF TypeInv
        <4>2. QED
          BY <1>2, <2>2, <3>1, <4>1 DEF Told
      <3>4. CASE m.customer # c
        <4>1. About(s, c) = {} /\ shown'[s][c] = shown[s][c]
          BY <2>2, <2>3, <2>5, <2>6, <3>2, <3>4 DEF TypeInv
        <4>2. QED
          BY <1>2, <3>1, <4>1 DEF Told
      <3>5. QED
        BY <3>3, <3>4
    <2>8. CASE About(s, c)' # {}
      <3>1. PICK i \in About(s, c)' : /\ \A j \in About(s, c)' : j <= i
                                      /\ inbox'[s][i].prob = p /\ inbox'[s][i].tier = tier
        BY <1>2, <2>8 DEF Told
      <3>2. i \in 1..Len(q) - 1 /\ i + 1 \in 1..Len(q) /\ i + 1 \in About(s, c)
        BY <2>2, <2>3, <2>4
      <3>3. q[i + 1].prob = p /\ q[i + 1].tier = tier
        BY <2>1, <2>2, <3>1, <3>2
      <3>4. ASSUME NEW j \in About(s, c) PROVE j <= i + 1
        <4>1. j \in 1..Len(q) /\ q[j].customer = c
          BY <2>3
        <4>2. CASE j = 1
          BY <2>2, <3>2, <4>2
        <4>3. CASE j # 1
          <5>1. j - 1 \in 1..Len(q) - 1 /\ (j - 1) + 1 = j
            BY <2>2, <4>1, <4>3
          <5>2. j - 1 \in About(s, c)'
            BY <2>4, <4>1, <5>1
          <5>3. QED
            BY <2>2, <3>1, <3>2, <4>1, <5>2
        <4>4. QED
          BY <4>2, <4>3
      <3>5. QED
        BY <1>2, <3>2, <3>3, <3>4 DEF Told
    <2>9. QED
      BY <2>7, <2>8
  <1>3. QED
    BY <1>1, <1>2

\* What is lost with a connection leaves a trace in misled.
LEMMA ToldDisconnect ==
  ASSUME TypeInv, NEW s \in Subscribers, Disconnect(s),
         NEW v \in Subscribers, NEW c \in Customers, <<v, c>> \notin misled',
         NEW p, NEW tier, Told(v, c, p, tier)'
  PROVE  Told(v, c, p, tier) /\ <<v, c>> \notin misled
  <1>0. UNCHANGED shown /\ <<v, c>> \notin misled
    BY DEF Disconnect
  <1>1. CASE v # s
    <2>1. inbox'[v] = inbox[v]
      BY <1>1 DEF Disconnect, TypeInv
    <2>2. QED
      BY <1>0, <2>1 DEF Told, About
  <1>2. CASE v = s
    <2>1. inbox'[v] = <<>> /\ About(v, c) = {}
      BY <1>2 DEF Disconnect, TypeInv, About
    <2>2. About(v, c)' = {}
      BY <2>1 DEF About
    <2>3. QED
      BY <1>0, <2>1, <2>2 DEF Told
  <1>3. QED
    BY <1>1, <1>2

\* An announcement is the last word about its customer, and no word about another.
LEMMA ToldPublish ==
  ASSUME TypeInv, NEW w \in Writers, NEW c \in Customers, NEW p \in Probs, Publish(w, c, p),
         NEW s \in Subscribers, NEW d \in Customers, <<s, d>> \notin misled',
         NEW x, NEW tier, Told(s, d, x, tier)'
  PROVE  /\ d = c => x = p /\ tier = Tier[p] /\ <<w, c>> \notin met
         /\ d # c => Told(s, d, x, tier) /\ <<s, d>> \notin misled
  <1> DEFINE q == inbox[s]
             m == Update(c, p)
  <1>0. UNCHANGED shown
    BY DEF Publish
  <1>1. q \in Seq(Message) /\ m.customer = c /\ m.prob = p /\ m.tier = Tier[p]
    BY DEF TypeInv, Update
  <1>2. m \in Message
    BY DEF Update, Message, Tiers
  <1>3. /\ Len(q) \in Nat /\ Append(q, m) \in Seq(Message) /\ Len(Append(q, m)) = Len(q) + 1
        /\ \A i \in 1..Len(q) : Append(q, m)[i] = q[i]
        /\ Append(q, m)[Len(q) + 1] = m
    BY <1>1, <1>2
  <1>4. CASE d = c
    <2>1. Hears(s, c) /\ <<w, c>> \notin met
      BY <1>4 DEF Publish
    <2>2. inbox'[s] = Append(q, m)
      BY <2>1 DEF Publish
    <2>3. About(s, c)' = {i \in 1..Len(q) + 1 : Append(q, m)[i].customer = c}
      BY <1>3, <2>2 DEF About
    <2>4. Len(q) + 1 \in About(s, c)'
      BY <1>1, <1>3, <2>3
    <2>5. PICK i \in About(s, c)' : /\ \A j \in About(s, c)' : j <= i
                                    /\ inbox'[s][i].prob = x /\ inbox'[s][i].tier = tier
      BY <1>4, <2>4 DEF Told
    <2>6. i = Len(q) + 1
      BY <1>3, <2>3, <2>4, <2>5
    <2>7. QED
      BY <1>1, <1>3, <1>4, <2>1, <2>2, <2>5, <2>6
  <1>5. CASE d # c
    <2>1. <<s, d>> \notin misled
      BY <1>5 DEF Publish
    <2>2. CASE ~Hears(s, c)
      <3>1. inbox'[s] = inbox[s]
        BY <2>2 DEF Publish
      <3>2. QED
        BY <1>0, <1>5, <2>1, <3>1 DEF Told, About
    <2>3. CASE Hears(s, c)
      <3>1. inbox'[s] = Append(q, m)
        BY <2>3 DEF Publish
      <3>2. About(s, d)' = {i \in 1..Len(q) + 1 : Append(q, m)[i].customer = d}
        BY <1>3, <3>1 DEF About
      <3>3. About(s, d) = {i \in 1..Len(q) : q[i].customer = d}
        BY <1>1 DEF About
      <3>4. About(s, d)' = About(s, d)
        BY <1>1, <1>3, <1>5, <3>2, <3>3
      <3>5. \A i \in About(s, d) : inbox'[s][i] = inbox[s][i]
        BY <1>3, <3>1, <3>3
      <3>6. QED
        BY <1>0, <1>5, <2>1, <3>4, <3>5 DEF Told
    <2>4. QED
      BY <2>2, <2>3
  <1>6. QED
    BY <1>4, <1>5

\* Nothing is said by a step that leaves the feed alone.
LEMMA ToldSame ==
  ASSUME UNCHANGED <<inbox, shown>>, NEW s, NEW c, NEW p, NEW tier, Told(s, c, p, tier)'
  PROVE  Told(s, c, p, tier)
  BY DEF Told, About

LEMMA FeedNext ==
  ScoringAssumption /\ TypeInv /\ StoreInv /\ FeedInv /\ [Next]_vars => FeedInv'
  <1> SUFFICES ASSUME ScoringAssumption, TypeInv, StoreInv, FeedInv, [Next]_vars PROVE FeedInv'
    OBVIOUS
  <1> DEFINE
      Stored(s, c) ==
        ~Ahead(c) /\ ~Behind(c) /\ c \notin torn =>
          \A p \in Probs, tier \in Tiers \cup {NoProb} : Told(s, c, p, tier) =>
            score[c].prob = p /\ score[c].tier = tier
      Announced(s, c) ==
        Ahead(c) /\ <<Batch, c>> \notin met =>
          \A p \in Probs \cup {NoProb}, tier \in Tiers \cup {NoProb} : Told(s, c, p, tier) =>
            batch.new[c] = p /\ p \in Probs /\ tier = Tier[p]
      Good(s, c) == <<s, c>> \notin misled => Stored(s, c) /\ Announced(s, c)
  <1>0. \A s \in Subscribers, c \in Customers : Good(s, c)
    BY DEF FeedInv
  <1>1. SUFFICES ASSUME NEW s \in Subscribers, NEW c \in Customers, <<s, c>> \notin misled'
                 PROVE  Stored(s, c)' /\ Announced(s, c)'
    BY DEF FeedInv
  <1>m. MeetInv /\ ReadInv
    BY DEF StoreInv
  <1> HIDE DEF Stored, Announced
  \* A step that touches neither row nor session keeps what is said.
  <1>2. ASSUME UNCHANGED <<batch, request, score, torn, met>>, <<s, c>> \notin misled,
               \A p, tier : Told(s, c, p, tier)' => Told(s, c, p, tier)
        PROVE  Stored(s, c)' /\ Announced(s, c)'
    BY <1>0, <1>2 DEF Stored, Announced, Ahead, Behind, Of
  <1>3. ASSUME UNCHANGED vars \/ Tick \/ \E v \in Subscribers : Deliver(v) \/ Disconnect(v) \/ Connect(v)
        PROVE  Stored(s, c)' /\ Announced(s, c)'
    <2>1. UNCHANGED <<batch, request, met>>
      BY <1>3, FeedHands
    <2>2. UNCHANGED <<score, torn>>
      BY <1>3 DEF vars, Tick, Deliver, Disconnect, Connect, store, history
    <2>3. <<s, c>> \notin misled /\ \A p, tier : Told(s, c, p, tier)' => Told(s, c, p, tier)
      <3>1. CASE UNCHANGED vars \/ Tick \/ \E v \in Subscribers : Connect(v)
        <4>1. UNCHANGED <<inbox, shown, misled>>
          BY <3>1 DEF vars, Tick, Connect, feed, history
        <4>2. QED
          BY <1>1, <4>1, ToldSame
      <3>2. CASE \E v \in Subscribers : Deliver(v)
        <4>1. UNCHANGED misled
          BY <3>2 DEF Deliver, history
        <4>2. QED
          BY <1>1, <3>2, <4>1, ToldDeliver
      <3>3. CASE \E v \in Subscribers : Disconnect(v)
        <4>1. <<s, c>> \notin misled
          BY <1>1, <3>3 DEF Disconnect
        <4>2. QED
          BY <1>1, <3>3, <4>1, ToldDisconnect
      <3>4. QED
        BY <1>3, <3>1, <3>2, <3>3
    <2>4. QED
      BY <1>2, <2>1, <2>2, <2>3
  <1>4. ASSUME BatchStart \/ BatchEnd \/ \E t \in Tenants : PassOver(t)
        PROVE  Stored(s, c)' /\ Announced(s, c)'
    <2>1. UNCHANGED <<request, score, torn, inbox, shown, misled>>
      BY <1>4 DEF BatchStart, BatchEnd, PassOver, store, feed, history
    <2>2. batch.stage # "score" /\ batch'.stage # "score"
      BY <1>4, JobSteps DEF BatchStart, BatchEnd, PassOver
    <2>3. ~Ahead(c) /\ ~Ahead(c)' /\ (Behind(c)' <=> Behind(c))
      BY <2>1, <2>2 DEF Ahead, Behind
    <2>4. \A p, tier : Told(s, c, p, tier)' => Told(s, c, p, tier)
      BY <2>1, ToldSame
    <2>5. QED
      BY <1>0, <1>1, <2>1, <2>3, <2>4 DEF Stored, Announced
  <1>5. ASSUME NEW t \in Tenants, LoadTenant(t) PROVE Stored(s, c)' /\ Announced(s, c)'
    <2>1. UNCHANGED <<request, score, torn, inbox, shown, misled>>
      BY <1>5 DEF LoadTenant, store, feed
    <2>2. /\ batch.stage = "tenant" /\ batch'.stage = "score" /\ batch'.tenant = t
          /\ batch'.todo = Of(t)
      BY <1>5, JobSteps
    <2>3. ~Ahead(c) /\ ~Ahead(c)' /\ (Behind(c)' <=> Behind(c))
      BY <2>1, <2>2 DEF Ahead, Behind, Of
    <2>4. \A p, tier : Told(s, c, p, tier)' => Told(s, c, p, tier)
      BY <2>1, ToldSame
    <2>5. QED
      BY <1>0, <1>1, <2>1, <2>3, <2>4 DEF Stored, Announced
  <1>6. ASSUME NEW d \in Customers, NEW p \in Probs, ScoreCustomer(d, p)
        PROVE  Stored(s, c)' /\ Announced(s, c)'
    <2>1. UNCHANGED <<request, score, torn, met>> /\ Publish(Batch, d, p) /\ Batch \in Writers
      BY <1>6 DEF ScoreCustomer, store, Writers
    <2>2. /\ batch'.stage = "score" /\ batch.stage = "score" /\ batch'.tenant = batch.tenant
          /\ batch'.todo = batch.todo \ {d} /\ d \in batch.todo
          /\ batch'.new = [batch.new EXCEPT ![d] = p]
      BY <1>6, JobSteps
    <2>3. \A x, tier : Told(s, c, x, tier)' =>
            /\ c = d => x = p /\ tier = Tier[p]
            /\ c # d => Told(s, c, x, tier) /\ <<s, c>> \notin misled
      <3>1. SUFFICES ASSUME NEW x, NEW tier, Told(s, c, x, tier)'
                     PROVE  /\ c = d => x = p /\ tier = Tier[p]
                            /\ c # d => Told(s, c, x, tier) /\ <<s, c>> \notin misled
        OBVIOUS
      <3>2. /\ c = d => x = p /\ tier = Tier[p] /\ <<Batch, d>> \notin met
            /\ c # d => Told(s, c, x, tier) /\ <<s, c>> \notin misled
        BY Zenon, <1>1, <2>1, <3>1, ToldPublish
      <3>3. QED
        BY <3>2
    <2>4. CASE c = d
      <3>1. Ahead(c)' /\ batch'.new[c] = p
        BY <2>2, <2>4 DEF Ahead, Of, TypeInv, Sane, Job
      <3>2. QED
        BY <2>3, <2>4, <3>1 DEF Stored, Announced
    <2>5. CASE c # d
      <3>1. (Ahead(c)' <=> Ahead(c)) /\ (Behind(c)' <=> Behind(c)) /\ batch'.new[c] = batch.new[c]
        BY <2>1, <2>2, <2>5 DEF Ahead, Behind, Of, TypeInv, Job
      <3>2. <<s, c>> \notin misled
        BY <1>1, <2>1, <2>5 DEF Publish
      <3>3. \A x, tier : Told(s, c, x, tier)' => Told(s, c, x, tier)
        BY <2>3, <2>5
      <3>4. QED
        BY <1>0, <2>1, <3>1, <3>2, <3>3 DEF Stored, Announced
    <2>6. QED
      BY <2>4, <2>5
  <1>7. ASSUME CommitTenant PROVE Stored(s, c)' /\ Announced(s, c)'
    <2>1. UNCHANGED <<request, inbox, shown>> /\ <<s, c>> \notin misled
          /\ (c \in Of(batch.tenant) => <<Batch, c>> \notin met)
      BY <1>1, <1>7 DEF CommitTenant, feed, Met
    <2>2. batch'.stage = "tenant" /\ batch.stage = "score" /\ batch.todo = {}
      BY <1>7, JobSteps
    <2>3. ~Ahead(c)' /\ (Behind(c)' <=> Behind(c)) /\ (Ahead(c) <=> c \in Of(batch.tenant))
      BY <2>1, <2>2 DEF Ahead, Behind
    <2>4. \A x, tier : Told(s, c, x, tier)' => Told(s, c, x, tier)
      BY <2>1, ToldSame
    <2>5. CASE c \in Of(batch.tenant)
      <3>1. score'[c] = ScoreAt(batch.new[c], batch.at)
        BY <1>7, <1>m, <2>1, <2>5, JobCommits
      <3>2. \A x \in Probs, tier \in Tiers \cup {NoProb} : Told(s, c, x, tier)' =>
              batch.new[c] = x /\ tier = Tier[x]
        BY <1>0, <2>1, <2>3, <2>4, <2>5 DEF Announced
      <3>3. \A x \in Probs : TierOf(x) = Tier[x]
        BY DEF TierOf, ScoringAssumption
      <3>4. Stored(s, c)'
        BY <3>1, <3>2, <3>3 DEF Stored, ScoreAt
      <3>5. QED
        BY <2>3, <3>4 DEF Announced
    <2>6. CASE c \notin Of(batch.tenant)
      <3>1. score'[c] = score[c] /\ (c \in torn => c \in torn')
        BY <1>7, <1>m, <2>6, JobCommits
      <3>2. QED
        BY <1>0, <2>1, <2>3, <2>4, <2>6, <3>1 DEF Stored, Announced
    <2>7. QED
      BY <2>5, <2>6
  <1>8. ASSUME NEW again \in BOOLEAN, BatchStops(again) PROVE Stored(s, c)' /\ Announced(s, c)'
    <2>1. UNCHANGED <<request, score, torn, inbox, shown>> /\ <<s, c>> \notin misled
          /\ c \notin InHand(Batch) \ batch.todo
      BY <1>1, <1>8 DEF BatchStops, store, feed
    <2>2. batch'.stage = "idle"
      BY <1>8, JobSteps
    <2>3. ~Ahead(c)' /\ ~Ahead(c) /\ (Behind(c)' <=> Behind(c))
      BY <2>1, <2>2, JobHand DEF Ahead, Behind
    <2>4. \A x, tier : Told(s, c, x, tier)' => Told(s, c, x, tier)
      BY <2>1, ToldSame
    <2>5. QED
      BY <1>0, <2>1, <2>3, <2>4 DEF Stored, Announced
  <1>9. ASSUME NEW q \in Requests, NEW d \in Customers, Look(q, d)
        PROVE  Stored(s, c)' /\ Announced(s, c)'
    <2>1. UNCHANGED <<batch, score, torn, inbox, shown, misled>> /\ met \subseteq met'
      BY <1>9 DEF Look, store, feed, Take
    <2>2. /\ request[q].stage = "idle" /\ request'[q].stage = "compute"
          /\ \A v \in Requests \ {q} : request'[v] = request[v]
      BY <1>9 DEF Look, TypeInv
    <2>3. (Ahead(c)' <=> Ahead(c)) /\ (Behind(c)' <=> Behind(c))
      BY <2>1, <2>2 DEF Ahead, Behind, Of
    <2>4. \A x, tier : Told(s, c, x, tier)' => Told(s, c, x, tier)
      BY <2>1, ToldSame
    <2>5. QED
      BY <1>0, <1>1, <2>1, <2>3, <2>4 DEF Stored, Announced
  <1>10. ASSUME NEW q \in Requests, NEW p \in Probs, ComputeScore(q, p)
         PROVE  Stored(s, c)' /\ Announced(s, c)'
    <2>1. UNCHANGED <<batch, met, inbox, shown, misled>>
      BY <1>10 DEF ComputeScore, feed
    <2>2. /\ request[q].stage = "compute" /\ request'[q].stage = "publish"
          /\ request'[q].customer = request[q].customer
          /\ \A v \in Requests \ {q} : request'[v] = request[v]
      BY <1>10 DEF ComputeScore, TypeInv, RequestSession
    <2>3. \A x, tier : Told(s, c, x, tier)' => Told(s, c, x, tier)
      BY <2>1, ToldSame
    <2>4. Ahead(c)' <=> Ahead(c)
      BY <2>1 DEF Ahead, Of
    <2>5. Announced(s, c)'
      BY <1>0, <1>1, <2>1, <2>3, <2>4 DEF Announced
    <2>6. CASE c = request[q].customer
      BY <2>2, <2>5, <2>6 DEF Stored, Behind
    <2>7. CASE c # request[q].customer
      <3>1. score'[c] = score[c] /\ (c \in torn => c \in torn')
        BY <1>10, <1>m, <2>7, RequestCommits
      <3>2. Behind(c)' <=> Behind(c)
        BY <2>2, <2>7 DEF Behind
      <3>3. QED
        BY <1>0, <1>1, <2>1, <2>3, <2>4, <2>5, <3>1, <3>2 DEF Stored
    <2>8. QED
      BY <2>6, <2>7
  <1>11. ASSUME NEW q \in Requests, PublishScore(q) PROVE Stored(s, c)' /\ Announced(s, c)'
    <2> DEFINE r == request[q]
    <2>1. /\ r.stage = "publish" /\ Publish(q, r.customer, r.new) /\ q \in Writers
          /\ r.customer \in Customers /\ r.new \in Probs
          /\ UNCHANGED <<batch, score, torn>>
      BY <1>11 DEF PublishScore, TypeInv, Sane, Writers, store
    <2>2. /\ request'[q].stage = "idle" /\ \A v \in Requests \ {q} : request'[v] = request[v]
      BY <1>11 DEF PublishScore, TypeInv, NoRequest
    <2>3. \A x, tier : Told(s, c, x, tier)' =>
            /\ c = r.customer => x = r.new /\ tier = Tier[r.new] /\ <<q, c>> \notin met
            /\ c # r.customer => Told(s, c, x, tier)
      <3>1. PICK d \in Customers, p \in Probs :
              d = r.customer /\ p = r.new /\ Publish(q, d, p)
        BY <2>1, Zenon
      <3>2. q \in Writers /\ Publish(q, d, p)
        BY <2>1, <3>1
      <3>3. ASSUME NEW x, NEW tier, Told(s, c, x, tier)'
            PROVE  /\ c = d => x = p /\ tier = Tier[p] /\ <<q, d>> \notin met
                   /\ c # d => Told(s, c, x, tier) /\ <<s, c>> \notin misled
        BY Zenon, <1>1, <3>2, <3>3, ToldPublish
      <3>4. QED
        BY <3>1, <3>3, Zenon
    <2>4. Ahead(c)' <=> Ahead(c)
      BY <2>1 DEF Ahead, Of
    <2>5. \A d : <<Batch, d>> \in met => <<Batch, d>> \in met'
      BY <1>11 DEF PublishScore, Drop, ScoringAssumption
    <2>6. CASE c = r.customer
      <3>1. Ahead(c) => <<Batch, c>> \in met'
        BY <1>m, <2>1, <2>5, <2>6, JobMeetsRequest DEF Ahead
      <3>2. <<q, c>> \notin met => score[c] = ScoreAt(r.new, r.at)
        BY <1>m, <2>1, <2>6 DEF ReadInv
      <3>3. TierOf(r.new) = Tier[r.new]
        BY <2>1 DEF TierOf, ScoringAssumption
      <3>4. Stored(s, c)'
        BY <2>1, <2>3, <2>6, <3>2, <3>3 DEF Stored, ScoreAt
      <3>5. QED
        BY <2>4, <3>1, <3>4 DEF Announced
    <2>7. CASE c # r.customer
      <3>1. Behind(c)' <=> Behind(c)
        BY <2>1, <2>2, <2>7 DEF Behind
      <3>2. <<s, c>> \notin misled
        BY <1>1, <2>1, <2>7 DEF Publish
      <3>3. \A x, tier : Told(s, c, x, tier)' => Told(s, c, x, tier)
        BY <2>3, <2>7
      <3>4. QED
        BY <1>0, <2>1, <2>4, <2>5, <3>1, <3>2, <3>3 DEF Stored, Announced
    <2>8. QED
      BY <2>6, <2>7
  <1>12. ASSUME NEW q \in Requests, RequestDies(q) PROVE Stored(s, c)' /\ Announced(s, c)'
    <2>1. /\ UNCHANGED <<batch, score, torn, inbox, shown>> /\ <<s, c>> \notin misled
          /\ request[q].stage = "publish" => c \notin InHand(q)
      BY <1>1, <1>12 DEF RequestDies, store, feed
    <2>2. /\ request'[q].stage = "idle" /\ \A v \in Requests \ {q} : request'[v] = request[v]
      BY <1>12 DEF RequestDies, TypeInv, NoRequest
    <2>3. Behind(c)' <=> Behind(c)
      BY <2>1, <2>2, RequestHand DEF Behind
    <2>4. (Ahead(c)' <=> Ahead(c)) /\ \A d : <<Batch, d>> \in met => <<Batch, d>> \in met'
      BY <1>12, <2>1 DEF Ahead, Of, RequestDies, Drop, ScoringAssumption
    <2>5. \A x, tier : Told(s, c, x, tier)' => Told(s, c, x, tier)
      BY <2>1, ToldSame
    <2>6. QED
      BY <1>0, <2>1, <2>3, <2>4, <2>5 DEF Stored, Announced
  <1>13. CASE RunBatch
    BY Zenon, <1>4, <1>5, <1>6, <1>7, <1>13 DEF RunBatch
  <1>14. CASE \E q \in Requests :
                (\E d \in Customers : Look(q, d)) \/ Answer(q) \/ RequestDies(q)
    BY Zenon, <1>9, <1>10, <1>11, <1>12, <1>14 DEF Answer
  <1>15. QED
    BY Zenon, <1>3, <1>8, <1>13, <1>14 DEF Next

LEMMA FeedInit == ScoringAssumption /\ Init => FeedInv
  <1> SUFFICES ASSUME ScoringAssumption, Init PROVE FeedInv
    OBVIOUS
  <1>1. \A c \in Customers : ~Ahead(c)
    BY DEF Init, Asleep, Ahead
  <1>2. \A s \in Subscribers, c \in Customers : About(s, c) = {} /\ shown[s][c].prob = NoProb
    BY DEF Init, About
  <1>3. QED
    BY <1>1, <1>2 DEF FeedInv, Told, ScoringAssumption

\* A subscriber to whom nothing was lost, premature or crossed shows what is stored, once
\* no writer has the customer and no update of it is on its way: the job announces what
\* it then commits, a request what it has committed (worker.py:95-120,
\* predictions.py:85-109).
THEOREM ScreensAgree == Spec => []FeedAgrees
  <1>1. Init => TypeInv /\ StoreInv /\ FeedInv
    BY TypeInit, StoreInit, FeedInit, ScoringAssumption
  <1>2. TypeInv /\ StoreInv /\ FeedInv /\ [Next]_vars => (TypeInv /\ StoreInv /\ FeedInv)'
    BY TypeNext, StoreNext, FeedNext, ScoringAssumption
  <1>3. TypeInv /\ FeedInv => FeedAgrees
    <2> SUFFICES ASSUME TypeInv, FeedInv, NEW s \in Subscribers, NEW c \in Customers,
                        \A w \in Writers : c \notin InHand(w),
                        \A i \in DOMAIN inbox[s] : inbox[s][i].customer # c,
                        shown[s][c].prob # NoProb, c \notin torn, <<s, c>> \notin misled
                 PROVE  shown[s][c] = [prob |-> score[c].prob, tier |-> score[c].tier]
      BY DEF FeedAgrees
    <2>1. ~Ahead(c)
      BY JobHand DEF Ahead, Writers
    <2>2. ~Behind(c)
      BY RequestHand, ScoringAssumption DEF Behind, Writers
    <2>3. shown[s][c] \in [prob : Probs \cup {NoProb}, tier : Tiers \cup {NoProb}]
      BY DEF TypeInv
    <2>4. Told(s, c, shown[s][c].prob, shown[s][c].tier)
      BY DEF Told, About
    <2>5. score[c].prob = shown[s][c].prob /\ score[c].tier = shown[s][c].tier
      <3>1. shown[s][c].prob \in Probs /\ shown[s][c].tier \in Tiers \cup {NoProb}
        BY <2>3
      <3>2. \A p \in Probs, tier \in Tiers \cup {NoProb} : Told(s, c, p, tier) =>
              score[c].prob = p /\ score[c].tier = tier
        BY <2>1, <2>2, Zenon DEF FeedInv
      <3>3. QED
        BY <2>4, <3>1, <3>2
    <2>6. QED
      BY <2>3, <2>5
  <1>4. QED
    BY <1>1, <1>2, <1>3, PTL DEF Spec

=============================================================================
