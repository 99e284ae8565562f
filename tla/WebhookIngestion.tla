-------------------------- MODULE WebhookIngestion --------------------------
(***************************************************************************)
(* Webhook ingestion: the endpoint that queues a payload                   *)
(* (routers/webhooks.py), the arq job that reads it (process_webhook in    *)
(* worker.py) and the exit survey it sends (core/surveys/engine.py).       *)
(*                                                                         *)
(* A sender delivers a payload any number of times.  Workers run the jobs  *)
(* concurrently, each in one database transaction: PostgreSQL at READ      *)
(* COMMITTED, where a write waits for the row or unique key another        *)
(* transaction has written, and waits in a circle are broken by failing    *)
(* one of them.  arq runs a job again when its worker died, not when the   *)
(* job raised.                                                             *)
(***************************************************************************)
EXTENDS Integers, Sequences, FiniteSets

CONSTANTS
  Events,           \* (source, external_event_id)
  Who,              \* Who[e]: the event's external_customer_id
  When,             \* When[e]: its occurred_at
  Mrr,              \* Mrr[e]: the mrr among its properties, or 0
  Cancels,          \* Stripe events that cancel a subscription
  Payloads,         \* sequences of events, as the source adapter returns them
  Jobs,             \* arq job ids
  Workers,          \* slots that run jobs
  Rows,             \* ids of customers rows
  NoRow, NoJob,
  MaxTries,         \* arq's max_tries
  MaxFaults         \* bound on deaths and errors

Externals == {Who[e] : e \in Events}
Moments == {When[e] : e \in Events}
Amounts == {0} \cup {Mrr[e] : e \in Events}

ASSUME IngestionAssumption ==
  /\ When \in [Events -> Nat] /\ Mrr \in [Events -> Nat] /\ DOMAIN Who = Events
  /\ Cancels \subseteq Events /\ Payloads \subseteq Seq(Events)
  /\ NoRow \notin Rows \cup Externals /\ NoJob \notin Jobs
  /\ IsFiniteSet(Rows) /\ IsFiniteSet(Workers)
  /\ MaxTries \in Nat /\ MaxFaults \in Nat

Customer == [who : Externals, lastSeen : Moments, mrr : Amounts]
NoCustomer == [who |-> NoRow, lastSeen |-> 0, mrr |-> 0]

VARIABLES
  job,        \* the queue: each job's payload, state and number of tries
  customer,   \* committed customers rows
  filed,      \* filed[e]: the row of the committed customer_events row of e, or NoRow
  session,    \* what each worker slot is doing
  surveys,    \* surveys[e]: exit surveys mailed because of e
  faults,     \* spent bound
  \* history, guards nothing
  twins,      \* external customers two transactions looked up at once, both in vain
  shared      \* rows two transactions worked on at once

vars == <<job, customer, filed, session, surveys, faults, twins, shared>>

Idle == [stage |-> "idle", job |-> NoJob, at |-> 1, row |-> NoRow, copy |-> NoCustomer,
         draft |-> [r \in Rows |-> NoCustomer], keys |-> [e \in Events |-> NoRow]]

Session == [stage : {"idle", "lookup", "create", "update", "insert", "commit", "ack"},
            job   : Jobs \cup {NoJob},
            at    : Nat \ {0},                          \* position in events
            row   : Rows \cup {NoRow},                  \* customer.id
            copy  : Customer \cup {NoCustomer},         \* the loaded customer object
            draft : [Rows -> Customer \cup {NoCustomer}],  \* rows written, not committed
            keys  : [Events -> Rows \cup {NoRow}]]      \* events inserted, not committed

Payload(w) == job[session[w].job].payload
Event(w) == Payload(w)[session[w].at]
Others(w) == Workers \ {w}

(***************************************************************************)
(* The database, as a transaction sees it                                  *)
(***************************************************************************)
Visible(w, r) ==
  IF session[w].draft[r] # NoCustomer THEN session[w].draft[r] ELSE customer[r]

Matches(w, c) == {r \in Rows : Visible(w, r).who = c}

\* Row locks and unique keys another transaction holds.
RowBusy(w, r) == \E v \in Others(w) : session[v].draft[r] # NoCustomer
KeyBusy(w, e) == \E v \in Others(w) : session[v].keys[e] # NoRow

Taken(r) == customer[r] # NoCustomer \/ \E v \in Workers : session[v].draft[r] # NoCustomer

\* Another transaction is creating a row of c, or about to.
Expected(w, c) ==
  \E v \in Others(w) : \/ session[v].stage = "create" /\ Who[Event(v)] = c
                       \/ \E r \in Rows : session[v].draft[r].who = c /\ customer[r] = NoCustomer

\* Another transaction has read or written r.
Handled(w, r) ==
  \E v \in Others(w) : session[v].row = r \/ session[v].draft[r] # NoCustomer

(***************************************************************************)
(* The endpoint and the queue                                              *)
(***************************************************************************)
\* POST /webhooks/{tenant_id}/{source}: every delivery is a new job.
Receive(j, p) ==
  /\ job[j].state = "free"
  /\ job' = [job EXCEPT ![j] = [state |-> "queued", payload |-> p, tries |-> 0]]
  /\ UNCHANGED <<customer, filed, session, surveys, faults, twins, shared>>

\* Fault: a job is run however often its worker died.
StartAgain(w, j) ==
  /\ session[w].stage = "idle"
  /\ job[j].state = "queued"
  /\ job' = [job EXCEPT ![j].state = "running", ![j].tries = @ + 1]
  /\ session' = [session EXCEPT
       ![w].job = j, ![w].stage = IF job[j].payload = <<>> THEN "ack" ELSE "lookup"]
  /\ UNCHANGED <<customer, filed, surveys, faults, twins, shared>>

\* arq takes a job from the queue, or gives it up after max_tries.
Start(w, j) ==
  /\ session[w].stage = "idle"
  /\ job[j].state = "queued"
  /\ IF job[j].tries < MaxTries
     THEN /\ job' = [job EXCEPT ![j].state = "running", ![j].tries = @ + 1]
          /\ session' = [session EXCEPT
               ![w].job = j, ![w].stage = IF job[j].payload = <<>> THEN "ack" ELSE "lookup"]
     ELSE /\ job' = [job EXCEPT ![j].state = "failed"]
          /\ UNCHANGED session
  /\ UNCHANGED <<customer, filed, surveys, faults, twins, shared>>

Acknowledge(w) ==
  /\ session[w].stage = "ack"
  /\ job' = [job EXCEPT ![session[w].job].state = "done"]
  /\ session' = [session EXCEPT ![w] = Idle]
  /\ UNCHANGED <<customer, filed, surveys, faults, twins, shared>>

(***************************************************************************)
(* process_webhook                                                         *)
(***************************************************************************)
\* Fault: the customer of the session's previous event is taken for this one's.
LookupOnce(w) ==
  LET c == Who[Event(w)]
      held == session[w].row
      found == IF held # NoRow THEN {held} ELSE Matches(w, c)
  IN  /\ session[w].stage = "lookup"
      /\ IF found = {}
         THEN session' = [session EXCEPT ![w].stage = "create", ![w].row = NoRow]
         ELSE \E r \in found :
                session' = [session EXCEPT
                  ![w].stage = "update", ![w].row = r,
                  ![w].copy = IF r = held THEN @ ELSE Visible(w, r)]
      /\ UNCHANGED <<job, customer, filed, surveys, faults, twins, shared>>

\* Fault: only a customer who has not been seen since matches.
LookupUnseen(w) ==
  LET c == Who[Event(w)]
      found == {r \in Matches(w, c) : Visible(w, r).lastSeen <= When[Event(w)]}
  IN  /\ session[w].stage = "lookup"
      /\ IF found = {}
         THEN session' = [session EXCEPT ![w].stage = "create", ![w].row = NoRow]
         ELSE \E r \in found :
                session' = [session EXCEPT
                  ![w].stage = "update", ![w].row = r, ![w].copy = Visible(w, r)]
      /\ UNCHANGED <<job, customer, filed, surveys, faults, twins, shared>>

\* The customer with this external id; any of them if there are several.  The
\* object of the previous event, if it is this row, is not loaded again.
Lookup(w) ==
  LET c == Who[Event(w)]
      found == Matches(w, c)
  IN  /\ session[w].stage = "lookup"
      /\ IF found = {}
         THEN /\ session' = [session EXCEPT ![w].stage = "create", ![w].row = NoRow]
              /\ twins' = IF Expected(w, c) THEN twins \cup {c} ELSE twins
              /\ UNCHANGED shared
         ELSE \E r \in found :
                /\ session' = [session EXCEPT
                     ![w].stage = "update", ![w].row = r,
                     ![w].copy = IF r = session[w].row THEN @ ELSE Visible(w, r)]
                /\ shared' = IF Handled(w, r) THEN shared \cup {r} ELSE shared
                /\ UNCHANGED twins
      /\ UNCHANGED <<job, customer, filed, surveys, faults>>

\* A new customer takes the event's time, and neither its mrr nor its plan.  Its id is
\* random: which of the unused ones it is makes no difference.
Create(w, r) ==
  LET new == [who |-> Who[Event(w)], lastSeen |-> When[Event(w)], mrr |-> 0]
  IN  /\ session[w].stage = "create"
      /\ ~Taken(r) /\ r = CHOOSE q \in Rows : ~Taken(q)
      /\ session' = [session EXCEPT
           ![w].stage = "insert", ![w].row = r, ![w].copy = new, ![w].draft[r] = new]
      /\ UNCHANGED <<job, customer, filed, surveys, faults, twins, shared>>

\* Fault: last_seen_at is always the event's time.
RevisedAlways(w) ==
  LET e == Event(w)
  IN  [session[w].copy EXCEPT !.lastSeen = When[e], !.mrr = IF Mrr[e] # 0 THEN Mrr[e] ELSE @]

\* The customer object after this event.
Revised(w) ==
  LET e == Event(w)
  IN  [session[w].copy EXCEPT !.lastSeen = IF When[e] > @ THEN When[e] ELSE @,
                              !.mrr = IF Mrr[e] # 0 THEN Mrr[e] ELSE @]

Changed(w) == Revised(w) # session[w].copy

\* The row after a flush, which writes the columns that differ from the loaded object.
Flushed(w) ==
  LET db  == Visible(w, session[w].row)
      old == session[w].copy
      new == Revised(w)
  IN  [who      |-> db.who,
       lastSeen |-> IF new.lastSeen # old.lastSeen THEN new.lastSeen ELSE db.lastSeen,
       mrr      |-> IF new.mrr # old.mrr THEN new.mrr ELSE db.mrr]

Update(w) ==
  LET r == session[w].row
  IN  /\ session[w].stage = "update"
      /\ Changed(w) => ~RowBusy(w, r)
      /\ session' = [session EXCEPT
           ![w].stage = "insert", ![w].copy = Revised(w),
           ![w].draft[r] = IF Changed(w) THEN Flushed(w) ELSE @]
      /\ UNCHANGED <<job, customer, filed, surveys, faults, twins, shared>>

After(w) == IF session[w].at = Len(Payload(w)) THEN "commit" ELSE "lookup"

\* Fault: an event that another transaction is inserting is skipped, not awaited.
InsertSkipping(w) ==
  LET e == Event(w)
  IN  /\ session[w].stage = "insert"
      /\ session' = [session EXCEPT
           ![w].stage = After(w), ![w].at = @ + 1,
           ![w].keys[e] =
             IF filed[e] # NoRow \/ KeyBusy(w, e) \/ @ # NoRow THEN @ ELSE session[w].row]
      /\ surveys' = IF e \in Cancels THEN [surveys EXCEPT ![e] = @ + 1] ELSE surveys
      /\ UNCHANGED <<job, customer, filed, faults, twins, shared>>

\* Fault: no survey for a customer who has been seen since the cancellation.
InsertQuietly(w) ==
  LET e == Event(w)
  IN  /\ session[w].stage = "insert"
      /\ ~KeyBusy(w, e)
      /\ session' = [session EXCEPT
           ![w].stage = After(w), ![w].at = @ + 1,
           ![w].keys[e] = IF filed[e] # NoRow \/ @ # NoRow THEN @ ELSE session[w].row]
      /\ surveys' = IF e \in Cancels /\ session[w].copy.lastSeen <= When[e]
                    THEN [surveys EXCEPT ![e] = @ + 1] ELSE surveys
      /\ UNCHANGED <<job, customer, filed, faults, twins, shared>>

\* INSERT ... ON CONFLICT DO NOTHING, then the exit survey if the event cancels.
Insert(w) ==
  LET e == Event(w)
  IN  /\ session[w].stage = "insert"
      /\ ~KeyBusy(w, e)
      /\ session' = [session EXCEPT
           ![w].stage = After(w), ![w].at = @ + 1,
           ![w].keys[e] = IF filed[e] # NoRow \/ @ # NoRow THEN @ ELSE session[w].row]
      /\ surveys' = IF e \in Cancels THEN [surveys EXCEPT ![e] = @ + 1] ELSE surveys
      /\ UNCHANGED <<job, customer, filed, faults, twins, shared>>

Commit(w) ==
  /\ session[w].stage = "commit"
  /\ customer' = [r \in Rows |-> Visible(w, r)]
  /\ filed' = [e \in Events |-> IF session[w].keys[e] # NoRow THEN session[w].keys[e] ELSE filed[e]]
  /\ session' = [session EXCEPT ![w] = [Idle EXCEPT !.stage = "ack", !.job = session[w].job]]
  /\ UNCHANGED <<job, surveys, faults, twins, shared>>

(***************************************************************************)
(* Failures                                                                *)
(***************************************************************************)
\* Fault: the job of a worker that died is not run again.
DieUnnoticed(w) ==
  /\ faults < MaxFaults
  /\ session[w].stage # "idle"
  /\ faults' = faults + 1
  /\ session' = [session EXCEPT ![w] = Idle]
  /\ UNCHANGED <<job, customer, filed, surveys, twins, shared>>

\* The worker dies: the transaction is rolled back and the job is run again.
Die(w) ==
  /\ faults < MaxFaults
  /\ session[w].stage # "idle"
  /\ faults' = faults + 1
  /\ session' = [session EXCEPT ![w] = Idle]
  /\ job' = [job EXCEPT ![session[w].job].state = "queued"]
  /\ UNCHANGED <<customer, filed, surveys, twins, shared>>

Fail(w) ==
  /\ session' = [session EXCEPT ![w] = Idle]
  /\ job' = [job EXCEPT ![session[w].job].state = "failed"]
  /\ UNCHANGED <<customer, filed, surveys, twins, shared>>

\* A database error or the job timeout: arq does not run the job again.
Raise(w) ==
  /\ faults < MaxFaults
  /\ session[w].stage \notin {"idle", "ack"}
  /\ faults' = faults + 1
  /\ Fail(w)

Waits(w, v) ==
  \/ /\ session[w].stage = "update" /\ Changed(w)
     /\ session[v].draft[session[w].row] # NoCustomer
  \/ session[w].stage = "insert" /\ session[v].keys[Event(w)] # NoRow

\* PostgreSQL fails a transaction that waits in a circle.
Deadlock(w) ==
  /\ \E circle \in SUBSET Workers :
       w \in circle /\ \A u \in circle : \E v \in circle \ {u} : Waits(u, v)
  /\ UNCHANGED faults
  /\ Fail(w)

-----------------------------------------------------------------------------
Init ==
  /\ job = [j \in Jobs |-> [state |-> "free", payload |-> <<>>, tries |-> 0]]
  /\ customer = [r \in Rows |-> NoCustomer]
  /\ filed = [e \in Events |-> NoRow]
  /\ session = [w \in Workers |-> Idle]
  /\ surveys = [e \in Events |-> 0]
  /\ faults = 0
  /\ twins = {} /\ shared = {}

Process(w) ==
  \/ Lookup(w)
  \/ \E r \in Rows : Create(w, r)
  \/ Update(w)
  \/ Insert(w)
  \/ Commit(w)
  \/ Acknowledge(w)
  \/ Deadlock(w)

Next ==
  \/ \E j \in Jobs, p \in Payloads : Receive(j, p)
  \/ \E w \in Workers :
       \/ \E j \in Jobs : Start(w, j)
       \/ Process(w)
       \/ Die(w)
       \/ Raise(w)

Spec == Init /\ [][Next]_vars

\* arq polls its queue and its coroutines run on; nobody has to send a webhook.
Fairness ==
  \A w \in Workers : WF_vars(Process(w)) /\ WF_vars(\E j \in Jobs : Start(w, j))
FairSpec == Spec /\ Fairness

-----------------------------------------------------------------------------
\* Every variable has its type.
TypeOK ==
  /\ job \in [Jobs -> [state : {"free", "queued", "running", "done", "failed"},
                       payload : Payloads \cup {<<>>}, tries : 0..MaxTries]]
  /\ customer \in [Rows -> Customer \cup {NoCustomer}]
  /\ filed \in [Events -> Rows \cup {NoRow}]
  /\ session \in [Workers -> Session]
  /\ surveys \in [Events -> Nat] /\ faults \in 0..MaxFaults
  /\ twins \subseteq Externals /\ shared \subseteq Rows

\* An external customer has one customers row, unless two transactions looked the
\* customer up at once and neither saw the other's: nothing in the schema makes the
\* external id unique (worker.py:143-158).
OneRowPerCustomer ==
  \A r \in Rows, q \in Rows :
    /\ r # q /\ customer[r] # NoCustomer /\ customer[q] # NoCustomer
    /\ customer[r].who = customer[q].who
    => customer[r].who \in twins

\* A customer was last seen no earlier than at any event filed under the row, unless
\* two transactions worked on the row at once and one overwrote the other's time
\* (worker.py:160-161).
LastSeenKept ==
  \A e \in Events :
    filed[e] # NoRow => filed[e] \in shared \/ customer[filed[e]].lastSeen >= When[e]

\* An event is filed under a row that exists and is its own customer's, although
\* events share a transaction with others that may roll back (worker.py:141-196).
EventsFiled ==
  \A e \in Events : filed[e] # NoRow => customer[filed[e]].who = Who[e]

\* The queue as the sender sees it: a job is open until it is done or given up.
Delivery ==
  [j \in Jobs |-> [state   |-> IF job[j].state \in {"queued", "running"} THEN "open"
                               ELSE job[j].state,
                   payload |-> job[j].payload]]

Ledger == INSTANCE EventLedger WITH
  Nobody   <- NoRow,
  delivery <- Delivery,
  ledger   <- filed,
  owner    <- [r \in Rows |-> customer[r].who],
  asked    <- {e \in Cancels : surveys[e] > 0}

\* Transactions that interleave, wait for each other, fail and are run again keep the
\* promise of EventLedger: a delivery goes on file whole or not at all, and each event once,
\* for good (worker.py:124-197).
ImplementsLedger == Ledger!LedgerSpec

\* Every event of a job that is done is filed, although its insertion may have
\* yielded to another transaction that failed (worker.py:176-196).
DoneIsFiled ==
  \A j \in Jobs : job[j].state = "done" =>
    \A i \in DOMAIN job[j].payload : filed[job[j].payload[i]] # NoRow

\* The customer of every cancellation on file has been mailed an exit survey, in
\* whatever order the events came and whoever inserted it (worker.py:191-194).
CancellationsSurveyed ==
  \A e \in Cancels : filed[e] # NoRow => surveys[e] > 0

\* An accepted webhook is done or given up: no two transactions wait for each other
\* forever, and a job whose worker died is run again.
WebhooksSettle ==
  \A j \in Jobs : job[j].state = "queued" ~> job[j].state \in {"done", "failed"}
=============================================================================
