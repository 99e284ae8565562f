----------------------- MODULE WebhookIngestionProofs -----------------------
(***************************************************************************)
(* Proofs about WebhookIngestion, for every set of events, payloads, jobs, *)
(* workers and rows, and whatever the bounds.                              *)
(***************************************************************************)
EXTENDS WebhookIngestion, TLAPS

Stored == Customer \cup {NoCustomer}
Stages == {"idle", "lookup", "create", "update", "insert", "commit", "ack"}

\* A slot is at rest, or works on a job of its own, on one of the job's events, with an
\* open transaction until it is done with the last of them.
ShapeInv ==
  \A w \in Workers :
    /\ session[w].stage = "idle" <=> session[w].job = NoJob
    /\ session[w].stage # "idle" =>
         /\ job[session[w].job].state = "running"
         /\ \A v \in Others(w) : session[v].job # session[w].job
    /\ session[w].stage \in {"lookup", "create", "update", "insert"} =>
         session[w].at \in DOMAIN Payload(w)
    /\ session[w].stage = "commit" => session[w].at = Len(Payload(w)) + 1
    /\ session[w].stage \in {"idle", "ack", "create"} => session[w].row = NoRow
    /\ session[w].stage \in {"update", "insert"} => session[w].row \in Rows
    /\ session[w].stage \in {"idle", "ack"} =>
         /\ session[w].at = 1
         /\ \A r \in Rows : session[w].draft[r] = NoCustomer
         /\ \A e \in Events : session[w].keys[e] = NoRow

\* A row, or an event's key, is written by one transaction at a time, and no transaction
\* inserts an event that is filed.
LockInv ==
  /\ \A v, w \in Workers : v # w =>
       /\ \A r \in Rows : session[v].draft[r] = NoCustomer \/ session[w].draft[r] = NoCustomer
       /\ \A e \in Events : session[v].keys[e] = NoRow \/ session[w].keys[e] = NoRow
  /\ \A w \in Workers, e \in Events : session[w].keys[e] # NoRow => filed[e] = NoRow

\* Nobody gives a row to another customer; the customer in hand is that of the row, and
\* from the lookup on that of the event; an event goes under a row of its customer.
Owns(w) ==
  /\ \A r \in Rows : session[w].draft[r] # NoCustomer /\ customer[r] # NoCustomer =>
       session[w].draft[r].who = customer[r].who
  /\ session[w].row # NoRow =>
       /\ session[w].copy # NoCustomer
       /\ session[w].copy.who = Visible(w, session[w].row).who
  /\ session[w].stage \in {"update", "insert"} => session[w].copy.who = Who[Event(w)]
  /\ \A e \in Events : session[w].keys[e] # NoRow =>
       Visible(w, session[w].keys[e]).who = Who[e]

OwnInv == \A w \in Workers : Owns(w)

\* The events a transaction is done with are filed, or will be by it.
Follows(w) ==
  /\ session[w].stage # "idle" => \A i \in DOMAIN Payload(w) : i < session[w].at =>
       filed[Payload(w)[i]] # NoRow \/ session[w].keys[Payload(w)[i]] # NoRow
  /\ session[w].stage = "ack" => \A i \in DOMAIN Payload(w) : filed[Payload(w)[i]] # NoRow

DoneInv == \A w \in Workers : Follows(w)

\* A cancellation has been surveyed when it is inserted.
SurveyInv == \A e \in Cancels, w \in Workers : session[w].keys[e] # NoRow => surveys[e] > 0

\* r is a row of external customer c, or will be.
Belongs(r, c) == customer[r].who = c \/ \E v \in Workers : session[v].draft[r].who = c

Creator(w, c) == session[w].stage = "create" /\ Who[Event(w)] = c

\* Of two claims to be an external customer's row, of rows there are and rows about to be
\* created, one did not see the other.
ClaimInv ==
  \A c \in Externals \ twins :
    /\ \A r, q \in Rows : Belongs(r, c) /\ Belongs(q, c) => r = q
    /\ \A w \in Workers : Creator(w, c) =>
         /\ \A r \in Rows : ~Belongs(r, c)
         /\ \A v \in Others(w) : ~Creator(v, c)

Handles(w, r) == session[w].row = r \/ session[w].draft[r] # NoCustomer

\* A row that two transactions never had at once: the object in hand is as the row, and
\* no flush and no commit takes its last_seen_at back behind an event.
Sees(w, r) ==
  /\ session[w].row = r => session[w].copy.lastSeen = Visible(w, r).lastSeen
  /\ session[w].row = r /\ session[w].stage = "insert" =>
       Visible(w, r).lastSeen >= When[Event(w)]
  /\ session[w].draft[r] # NoCustomer /\ customer[r] # NoCustomer =>
       session[w].draft[r].lastSeen >= customer[r].lastSeen
  /\ \A e \in Events : session[w].keys[e] = r => Visible(w, r).lastSeen >= When[e]

SeenInv ==
  \A r \in Rows \ shared :
    /\ \A v, w \in Workers : Handles(v, r) /\ Handles(w, r) => v = w
    /\ \A w \in Workers : Sees(w, r)

(***************************************************************************)
(* Types                                                                   *)
(***************************************************************************)
Task == [state : {"free", "queued", "running", "done", "failed"},
         payload : Payloads \cup {<<>>}, tries : 0..MaxTries]

TypeInv ==
  /\ job \in [Jobs -> Task] /\ session \in [Workers -> Session]
  /\ customer \in [Rows -> Stored] /\ filed \in [Events -> Rows \cup {NoRow}]
  /\ surveys \in [Events -> Nat] /\ faults \in 0..MaxFaults
  /\ twins \subseteq Externals /\ shared \subseteq Rows

LEMMA TypeEnough == TypeInv => TypeOK
  BY DEF TypeInv, TypeOK, Task, Stored

LEMMA Nobody ==
  ASSUME IngestionAssumption
  PROVE  /\ NoCustomer \notin Customer /\ NoCustomer.who = NoRow
         /\ \A x \in Stored : x.who = NoRow <=> x = NoCustomer
         /\ \A x \in Customer : x \in Stored /\ x # NoCustomer
         /\ \A x \in Stored : x # NoCustomer => x \in Customer
  BY DEF IngestionAssumption, Customer, NoCustomer, Stored

LEMMA IdleFields ==
  /\ Idle.stage = "idle" /\ Idle.job = NoJob /\ Idle.at = 1 /\ Idle.row = NoRow
  /\ \A r \in Rows : Idle.draft[r] = NoCustomer
  /\ \A e \in Events : Idle.keys[e] = NoRow
  /\ Idle \in Session
  BY DEF Idle, Session

LEMMA SessionFields ==
  ASSUME TypeInv, NEW w \in Workers
  PROVE  /\ session[w] \in Session
         /\ session[w].stage \in Stages /\ session[w].job \in Jobs \cup {NoJob}
         /\ session[w].at \in Nat /\ session[w].at > 0 /\ session[w].row \in Rows \cup {NoRow}
         /\ session[w].copy \in Stored
         /\ session[w].draft \in [Rows -> Stored]
         /\ session[w].keys \in [Events -> Rows \cup {NoRow}]
         /\ \A r \in Rows : session[w].draft[r] \in Stored
         /\ \A r \in Rows : customer[r] \in Stored
         /\ \A r \in Rows : Visible(w, r) \in Stored
  BY DEF TypeInv, Session, Stages, Stored, Visible

\* The events of a job under way.
LEMMA PayloadFields ==
  ASSUME IngestionAssumption, TypeInv, ShapeInv, NEW w \in Workers, session[w].stage # "idle"
  PROVE  /\ session[w].job \in Jobs /\ job[session[w].job] \in Task
         /\ job[session[w].job].state = "running"
         /\ Payload(w) \in Seq(Events) /\ Payload(w) = job[session[w].job].payload
         /\ Len(Payload(w)) \in Nat /\ DOMAIN Payload(w) = 1..Len(Payload(w))
         /\ \A i \in DOMAIN Payload(w) : Payload(w)[i] \in Events
  <1>1. session[w].job \in Jobs /\ job[session[w].job].state = "running"
    BY SessionFields DEF ShapeInv
  <1>2. job[session[w].job] \in Task
    BY <1>1 DEF TypeInv
  <1>3. Payload(w) \in Payloads \cup {<<>>} /\ <<>> \in Seq(Events)
    BY <1>2 DEF Payload, Task
  <1>4. Payload(w) \in Seq(Events)
    BY <1>3 DEF IngestionAssumption
  <1>5. QED
    BY <1>1, <1>2, <1>4 DEF Payload

LEMMA EventFields ==
  ASSUME IngestionAssumption, TypeInv, ShapeInv, NEW w \in Workers,
         session[w].stage \in {"lookup", "create", "update", "insert"}
  PROVE  /\ Event(w) \in Events /\ Who[Event(w)] \in Externals /\ Who[Event(w)] # NoRow
         /\ When[Event(w)] \in Moments /\ When[Event(w)] \in Nat
         /\ Mrr[Event(w)] \in Amounts /\ Mrr[Event(w)] \in Nat
         /\ session[w].at \in 1..Len(Payload(w))
  <1>1. session[w].at \in DOMAIN Payload(w)
    BY DEF ShapeInv
  <1>2. Event(w) \in Events /\ session[w].at \in 1..Len(Payload(w))
    BY <1>1, PayloadFields DEF Event
  <1>3. QED
    BY <1>2 DEF IngestionAssumption, Externals, Moments, Amounts

(***************************************************************************)
(* Steps                                                                   *)
(***************************************************************************)
\* A job is queued or given up; a worker takes one, or is done with it.
Queues ==
  /\ UNCHANGED <<customer, filed, session, surveys, twins, shared>>
  /\ \/ job' = job
     \/ \E j \in Jobs, t \in Task :
          /\ job[j].state \in {"free", "queued"} /\ t.state \in {"queued", "failed"}
          /\ job' = [job EXCEPT ![j] = t]

Takes(w, j) ==
  /\ session[w].stage = "idle" /\ job[j].state = "queued" /\ job[j].tries < MaxTries
  /\ job' = [job EXCEPT ![j].state = "running", ![j].tries = @ + 1]
  /\ session' = [session EXCEPT
       ![w].job = j, ![w].stage = IF job[j].payload = <<>> THEN "ack" ELSE "lookup"]
  /\ UNCHANGED <<customer, filed, surveys, twins, shared>>

Leaves(w) ==
  /\ session[w].stage # "idle"
  /\ \E s \in {"done", "queued", "failed"} :
       /\ s = "done" => session[w].stage = "ack"
       /\ job' = [job EXCEPT ![session[w].job].state = s]
  /\ session' = [session EXCEPT ![w] = Idle]
  /\ UNCHANGED <<customer, filed, surveys, twins, shared>>

LEMMA LeaveCases ==
  ASSUME NEW w \in Workers, Acknowledge(w) \/ Die(w) \/ Raise(w) \/ Deadlock(w)
  PROVE  Leaves(w)
  <1>1. CASE Acknowledge(w)
    BY <1>1 DEF Acknowledge, Leaves
  <1>2. CASE Die(w)
    BY <1>2 DEF Die, Leaves
  <1>3. CASE Raise(w)
    BY <1>3 DEF Raise, Fail, Leaves
  <1>4. CASE Deadlock(w)
    <2>1. session[w].stage # "idle"
      BY <1>4 DEF Deadlock, Waits
    <2>2. QED
      BY <1>4, <2>1 DEF Deadlock, Fail, Leaves
  <1>5. QED
    BY <1>1, <1>2, <1>3, <1>4

LEMMA StepCases ==
  ASSUME IngestionAssumption, TypeInv, [Next]_vars
  PROVE  \/ Queues
         \/ \E w \in Workers :
              \/ \E j \in Jobs : Takes(w, j)
              \/ Leaves(w)
              \/ Lookup(w) \/ Update(w) \/ Insert(w) \/ Commit(w)
              \/ \E r \in Rows : Create(w, r)
  <1>1. CASE UNCHANGED vars
    BY <1>1 DEF Queues, vars
  <1>2. ASSUME NEW j \in Jobs, NEW p \in Payloads, Receive(j, p) PROVE Queues
    <2>1. [state |-> "queued", payload |-> p, tries |-> 0] \in Task
      BY DEF Task, IngestionAssumption
    <2>2. QED
      BY <1>2, <2>1 DEF Queues, Receive
  <1>3. ASSUME NEW w \in Workers, NEW j \in Jobs, Start(w, j) PROVE Takes(w, j) \/ Queues
    <2>1. CASE job[j].tries < MaxTries
      BY <1>3, <2>1 DEF Start, Takes
    <2>2. CASE ~(job[j].tries < MaxTries)
      <3>1. job[j] \in Task
        BY DEF TypeInv
      <3>2. [job[j] EXCEPT !.state = "failed"] \in Task /\ [job[j] EXCEPT !.state = "failed"].state = "failed"
        BY <3>1 DEF Task
      <3>3. job' = [job EXCEPT ![j] = [job[j] EXCEPT !.state = "failed"]]
        BY <1>3, <2>2 DEF Start
      <3>4. UNCHANGED <<customer, filed, session, surveys, twins, shared>> /\ job[j].state = "queued"
        BY <1>3, <2>2 DEF Start
      <3>5. QED
        BY <3>2, <3>3, <3>4 DEF Queues
    <2>3. QED
      BY <2>1, <2>2
  <1>4. QED
    BY Zenon, <1>1, <1>2, <1>3, LeaveCases DEF Next, Process

LEMMA TakeStep ==
  ASSUME IngestionAssumption, TypeInv, NEW w \in Workers, NEW j \in Jobs, Takes(w, j)
  PROVE  /\ session[w].stage = "idle" /\ job[j].state = "queued"
         /\ session' \in [Workers -> Session] /\ job' \in [Jobs -> Task]
         /\ \A v \in Others(w) : session'[v] = session[v]
         /\ \A k \in Jobs : job'[k].payload = job[k].payload
         /\ \A k \in Jobs \ {j} : job'[k] = job[k]
         /\ job'[j].state = "running"
         /\ session'[w].job = j /\ session'[w].at = session[w].at /\ session'[w].row = session[w].row
         /\ session'[w].stage = IF job[j].payload = <<>> THEN "ack" ELSE "lookup"
         /\ session'[w].draft = session[w].draft /\ session'[w].keys = session[w].keys
         /\ session'[w].copy = session[w].copy
         /\ UNCHANGED <<customer, filed, surveys, twins, shared>>
  <1>1. job[j] \in Task /\ session[w] \in Session
    BY DEF TypeInv
  <1>2. job' = [job EXCEPT ![j] = [job[j] EXCEPT !.state = "running", !.tries = job[j].tries + 1]]
    BY DEF Takes, TypeInv
  <1>3. /\ [job[j] EXCEPT !.state = "running"] \in Task
        /\ job[j].tries + 1 \in 0..MaxTries
    <2>1. job[j].tries \in 0..MaxTries /\ MaxTries \in Nat /\ job[j].tries < MaxTries
      BY <1>1 DEF Takes, Task, IngestionAssumption
    <2>2. job[j].tries + 1 \in 0..MaxTries
      BY <2>1
    <2>3. [job[j] EXCEPT !.state = "running"] \in Task
      BY <1>1 DEF Task
    <2>4. QED
      BY <2>2, <2>3
  <1>4. [[job[j] EXCEPT !.state = "running"] EXCEPT !.tries = job[j].tries + 1] \in Task
    BY <1>3 DEF Task
  <1>5. [job[j] EXCEPT !.state = "running", !.tries = job[j].tries + 1] \in Task
    BY <1>4
  <1>6. job' \in [Jobs -> Task]
    BY <1>2, <1>5 DEF TypeInv
  <1>7. /\ \A k \in Jobs \ {j} : job'[k] = job[k]
        /\ job'[j].state = "running" /\ job'[j].payload = job[j].payload
    BY <1>1, <1>2 DEF TypeInv, Task
  <1>8. /\ \A v \in Others(w) : session'[v] = session[v]
        /\ session'[w].job = j /\ session'[w].at = session[w].at /\ session'[w].row = session[w].row
        /\ session'[w].stage = IF job[j].payload = <<>> THEN "ack" ELSE "lookup"
        /\ session'[w].draft = session[w].draft /\ session'[w].keys = session[w].keys
        /\ session'[w].copy = session[w].copy
    BY <1>1 DEF Takes, TypeInv, Others, Session
  <1>9. session' \in [Workers -> Session]
    BY <1>1 DEF Takes, TypeInv, Session
  <1>10. QED
    BY <1>6, <1>7, <1>8, <1>9 DEF Takes

LEMMA LeaveStep ==
  ASSUME IngestionAssumption, TypeInv, ShapeInv, NEW w \in Workers, Leaves(w)
  PROVE  /\ session' \in [Workers -> Session] /\ job' \in [Jobs -> Task]
         /\ \A v \in Others(w) : session'[v] = session[v]
         /\ session'[w] = Idle
         /\ \A k \in Jobs : job'[k].payload = job[k].payload
         /\ \A k \in Jobs \ {session[w].job} : job'[k] = job[k]
         /\ session[w].job \in Jobs /\ session[w].stage # "idle"
         /\ job'[session[w].job].state = "done" => session[w].stage = "ack"
         /\ UNCHANGED <<customer, filed, surveys, twins, shared>>
  <1>1. session[w].stage # "idle" /\ session[w].job \in Jobs /\ job[session[w].job] \in Task
    BY PayloadFields DEF Leaves
  <1>2. PICK s \in {"done", "queued", "failed"} :
          /\ s = "done" => session[w].stage = "ack"
          /\ job' = [job EXCEPT ![session[w].job].state = s]
    BY DEF Leaves
  <1>3. [job[session[w].job] EXCEPT !.state = s] \in Task
    BY <1>1 DEF Task
  <1>4. job' \in [Jobs -> Task] /\ \A k \in Jobs \ {session[w].job} : job'[k] = job[k]
    BY <1>2, <1>3 DEF TypeInv
  <1>5. job'[session[w].job].state = s /\ job'[session[w].job].payload = job[session[w].job].payload
    BY <1>1, <1>2 DEF TypeInv, Task
  <1>6. /\ session' \in [Workers -> Session] /\ session'[w] = Idle
        /\ \A v \in Others(w) : session'[v] = session[v]
    BY IdleFields DEF Leaves, TypeInv, Others
  <1>7. QED
    BY <1>1, <1>2, <1>4, <1>5, <1>6 DEF Leaves

LEMMA LookupStep ==
  ASSUME IngestionAssumption, TypeInv, ShapeInv, NEW w \in Workers, Lookup(w)
  PROVE  /\ session[w].stage = "lookup" /\ session' \in [Workers -> Session]
         /\ \A v \in Others(w) : session'[v] = session[v]
         /\ session'[w].job = session[w].job /\ session'[w].at = session[w].at
         /\ session'[w].draft = session[w].draft /\ session'[w].keys = session[w].keys
         /\ UNCHANGED <<job, customer, filed, surveys>>
         /\ twins \subseteq twins' /\ shared \subseteq shared'
         /\ twins' \subseteq Externals /\ shared' \subseteq Rows
         /\ \/ /\ Matches(w, Who[Event(w)]) = {}
               /\ session'[w].stage = "create" /\ session'[w].row = NoRow
               /\ Expected(w, Who[Event(w)]) => Who[Event(w)] \in twins'
            \/ /\ session'[w].stage = "update"
               /\ session'[w].row \in Rows /\ session'[w].row \in Matches(w, Who[Event(w)])
               /\ session'[w].copy = IF session'[w].row = session[w].row THEN session[w].copy
                                     ELSE Visible(w, session'[w].row)
               /\ Handled(w, session'[w].row) => session'[w].row \in shared'
  <1>1. session[w] \in Session /\ session[w].stage = "lookup" /\ \A r \in Rows : Visible(w, r) \in Stored
    BY SessionFields DEF Lookup
  <1>2. Who[Event(w)] \in Externals
    BY <1>1, EventFields
  <1>3. UNCHANGED <<job, customer, filed, surveys>>
    BY DEF Lookup
  <1>4. CASE Matches(w, Who[Event(w)]) = {}
    <2>1. session' = [session EXCEPT ![w].stage = "create", ![w].row = NoRow]
      BY <1>4 DEF Lookup
    <2>2. session' \in [Workers -> Session] /\ \A v \in Others(w) : session'[v] = session[v]
      BY <1>1, <2>1 DEF TypeInv, Session, Others
    <2>3. /\ session'[w].job = session[w].job /\ session'[w].at = session[w].at
          /\ session'[w].draft = session[w].draft /\ session'[w].keys = session[w].keys
          /\ session'[w].stage = "create" /\ session'[w].row = NoRow
      BY <1>1, <2>1 DEF TypeInv, Session
    <2>4. /\ twins' = IF Expected(w, Who[Event(w)]) THEN twins \cup {Who[Event(w)]} ELSE twins
          /\ UNCHANGED shared
      BY <1>4 DEF Lookup
    <2>5. /\ twins \subseteq twins' /\ twins' \subseteq Externals
          /\ shared \subseteq shared' /\ shared' \subseteq Rows
          /\ Expected(w, Who[Event(w)]) => Who[Event(w)] \in twins'
      BY <1>2, <2>4 DEF TypeInv
    <2>6. QED
      BY <1>1, <1>3, <1>4, <2>2, <2>3, <2>5
  <1>5. CASE Matches(w, Who[Event(w)]) # {}
    <2>1. PICK r \in Matches(w, Who[Event(w)]) :
            /\ session' = [session EXCEPT
                 ![w].stage = "update", ![w].row = r,
                 ![w].copy = IF r = session[w].row THEN @ ELSE Visible(w, r)]
            /\ shared' = IF Handled(w, r) THEN shared \cup {r} ELSE shared
            /\ UNCHANGED twins
      BY <1>5 DEF Lookup
    <2> DEFINE copy == IF r = session[w].row THEN session[w].copy ELSE Visible(w, r)
    <2>2. r \in Rows /\ copy \in Stored
      BY <1>1, SessionFields DEF Matches
    <2>3. session' = [session EXCEPT ![w].stage = "update", ![w].row = r, ![w].copy = copy]
      BY <2>1
    <2> HIDE DEF copy
    <2>4. [session[w] EXCEPT !.stage = "update", !.row = r] \in Session
      BY <1>1, <2>2 DEF Session
    <2>5. [[session[w] EXCEPT !.stage = "update", !.row = r] EXCEPT !.copy = copy] \in Session
      BY <2>2, <2>4 DEF Session, Stored
    <2>6. session' = [session EXCEPT ![w] =
                        [[session[w] EXCEPT !.stage = "update", !.row = r] EXCEPT !.copy = copy]]
      BY <1>1, <2>3 DEF TypeInv, Session
    <2>7. session' \in [Workers -> Session] /\ \A v \in Others(w) : session'[v] = session[v]
      BY <2>5, <2>6 DEF TypeInv, Others
    <2>8. /\ session'[w].job = session[w].job /\ session'[w].at = session[w].at
          /\ session'[w].draft = session[w].draft /\ session'[w].keys = session[w].keys
          /\ session'[w].stage = "update" /\ session'[w].row = r /\ session'[w].copy = copy
      BY <1>1, <2>3 DEF TypeInv, Session
    <2>9. /\ twins \subseteq twins' /\ twins' \subseteq Externals
          /\ shared \subseteq shared' /\ shared' \subseteq Rows
          /\ Handled(w, r) => r \in shared'
      BY <2>1, <2>2 DEF TypeInv
    <2>10. session'[w].copy = IF r = session[w].row THEN session[w].copy ELSE Visible(w, r)
      BY <2>8 DEF copy
    <2>11. QED
      BY <1>1, <1>3, <2>1, <2>2, <2>7, <2>8, <2>9, <2>10
  <1>6. QED
    BY <1>4, <1>5

LEMMA CreateStep ==
  ASSUME IngestionAssumption, TypeInv, ShapeInv, NEW w \in Workers, NEW r \in Rows, Create(w, r)
  PROVE  /\ session[w].stage = "create" /\ session' \in [Workers -> Session]
         /\ \A v \in Others(w) : session'[v] = session[v]
         /\ session'[w].job = session[w].job /\ session'[w].at = session[w].at
         /\ session'[w].keys = session[w].keys
         /\ session'[w].stage = "insert" /\ session'[w].row = r
         /\ session'[w].copy.who = Who[Event(w)] /\ session'[w].copy.lastSeen = When[Event(w)]
         /\ session'[w].copy \in Customer /\ session'[w].draft[r] = session'[w].copy
         /\ \A q \in Rows \ {r} : session'[w].draft[q] = session[w].draft[q]
         /\ ~Taken(r)
         /\ UNCHANGED <<job, customer, filed, surveys, twins, shared>>
  <1> DEFINE new == [who |-> Who[Event(w)], lastSeen |-> When[Event(w)], mrr |-> 0]
  <1>1. session[w] \in Session /\ session[w].stage = "create" /\ ~Taken(r)
    BY SessionFields DEF Create
  <1>2. new \in Customer /\ new.who = Who[Event(w)] /\ new.lastSeen = When[Event(w)]
    BY <1>1, EventFields DEF Customer, Amounts
  <1>3. session' = [session EXCEPT ![w].stage = "insert", ![w].row = r, ![w].copy = new,
                                   ![w].draft[r] = new]
    BY DEF Create
  <1> HIDE DEF new
  <1>4. [session[w] EXCEPT !.stage = "insert", !.row = r] \in Session
    BY <1>1 DEF Session
  <1>5. [[session[w] EXCEPT !.stage = "insert", !.row = r] EXCEPT !.copy = new, !.draft[r] = new] \in Session
    BY <1>2, <1>4 DEF Session
  <1>6. session' = [session EXCEPT ![w] =
          [[session[w] EXCEPT !.stage = "insert", !.row = r] EXCEPT !.copy = new, !.draft[r] = new]]
    BY <1>1, <1>3 DEF TypeInv, Session
  <1>7. session' \in [Workers -> Session] /\ \A v \in Others(w) : session'[v] = session[v]
    BY <1>5, <1>6 DEF TypeInv, Others
  <1>8. /\ session'[w].job = session[w].job /\ session'[w].at = session[w].at
        /\ session'[w].keys = session[w].keys
        /\ session'[w].stage = "insert" /\ session'[w].row = r
        /\ session'[w].copy = new /\ session'[w].draft = [session[w].draft EXCEPT ![r] = new]
    BY <1>1, <1>3 DEF TypeInv, Session
  <1>9. /\ session'[w].draft[r] = new
        /\ \A q \in Rows \ {r} : session'[w].draft[q] = session[w].draft[q]
    BY <1>8, SessionFields
  <1>10. QED
    BY <1>1, <1>2, <1>7, <1>8, <1>9 DEF Create

\* What an event makes of the object in hand, and a flush of the row.
LEMMA RevisedFields ==
  ASSUME IngestionAssumption, TypeInv, ShapeInv, OwnInv, NEW w \in Workers,
         session[w].stage = "update"
  PROVE  /\ session[w].row \in Rows /\ session[w].copy \in Customer
         /\ Visible(w, session[w].row) \in Customer
         /\ Visible(w, session[w].row).who = Who[Event(w)]
         /\ Revised(w) \in Customer /\ Revised(w).who = session[w].copy.who
         /\ Revised(w).lastSeen >= session[w].copy.lastSeen
         /\ Revised(w).lastSeen >= When[Event(w)]
         /\ Flushed(w) \in Customer /\ Flushed(w).who = Visible(w, session[w].row).who
         /\ Visible(w, session[w].row).lastSeen = session[w].copy.lastSeen =>
              Flushed(w).lastSeen = Revised(w).lastSeen
  <1>1. session[w].row \in Rows /\ session[w].row # NoRow
    BY DEF ShapeInv, IngestionAssumption
  <1>2. session[w].copy \in Customer
    BY <1>1, SessionFields, Nobody DEF OwnInv, Owns
  <1>3. /\ session[w].copy.who = Who[Event(w)] /\ Who[Event(w)] # NoRow
        /\ session[w].copy.who = Visible(w, session[w].row).who
    BY <1>1, EventFields DEF OwnInv, Owns
  <1>4. Visible(w, session[w].row) \in Customer
    BY <1>1, <1>3, SessionFields, Nobody
  <1>5. /\ When[Event(w)] \in Moments /\ Mrr[Event(w)] \in Amounts /\ Moments \subseteq Nat
        /\ When[Event(w)] \in Nat
    BY EventFields DEF Moments, IngestionAssumption
  <1>6. /\ Revised(w).who = session[w].copy.who
        /\ Revised(w).lastSeen = IF When[Event(w)] > session[w].copy.lastSeen THEN When[Event(w)]
                                 ELSE session[w].copy.lastSeen
        /\ Revised(w) \in Customer
    BY <1>2, <1>5 DEF Revised, Customer
  <1>7. session[w].copy.lastSeen \in Nat
    BY <1>2, <1>5 DEF Customer
  <1>8. Flushed(w) \in Customer /\ Flushed(w).who = Visible(w, session[w].row).who
    BY <1>4, <1>6 DEF Flushed, Customer
  <1>9. Visible(w, session[w].row).lastSeen = session[w].copy.lastSeen =>
              Flushed(w).lastSeen = Revised(w).lastSeen
    BY DEF Flushed
  <1>10. QED
    BY <1>1, <1>2, <1>3, <1>4, <1>5, <1>6, <1>7, <1>8, <1>9

LEMMA UpdateStep ==
  ASSUME IngestionAssumption, TypeInv, ShapeInv, OwnInv, NEW w \in Workers, Update(w)
  PROVE  /\ session[w].stage = "update" /\ session' \in [Workers -> Session]
         /\ \A v \in Others(w) : session'[v] = session[v]
         /\ session'[w].job = session[w].job /\ session'[w].at = session[w].at
         /\ session'[w].keys = session[w].keys /\ session'[w].row = session[w].row
         /\ session'[w].stage = "insert" /\ session'[w].copy = Revised(w)
         /\ session'[w].draft[session[w].row] =
              IF Changed(w) THEN Flushed(w) ELSE session[w].draft[session[w].row]
         /\ Changed(w) => ~RowBusy(w, session[w].row)
         /\ \A q \in Rows \ {session[w].row} : session'[w].draft[q] = session[w].draft[q]
         /\ UNCHANGED <<job, customer, filed, surveys, twins, shared>>
  <1> DEFINE r == session[w].row
             copy == Revised(w)
             row == IF Changed(w) THEN Flushed(w) ELSE session[w].draft[r]
  <1>1. session[w] \in Session /\ session[w].stage = "update" /\ (Changed(w) => ~RowBusy(w, r))
    BY SessionFields DEF Update
  <1>2. r \in Rows /\ copy \in Stored /\ row \in Stored
    BY <1>1, RevisedFields, SessionFields DEF Stored
  <1>3. session' = [session EXCEPT ![w].stage = "insert", ![w].copy = copy, ![w].draft[r] = row]
    BY DEF Update
  <1> HIDE DEF copy, row
  <1>4. [session[w] EXCEPT !.stage = "insert", !.copy = copy] \in Session
    BY <1>1, <1>2 DEF Session, Stored
  <1>5. [[session[w] EXCEPT !.stage = "insert", !.copy = copy] EXCEPT !.draft[r] = row] \in Session
    BY <1>2, <1>4 DEF Session, Stored
  <1>6. session' = [session EXCEPT ![w] =
          [[session[w] EXCEPT !.stage = "insert", !.copy = copy] EXCEPT !.draft[r] = row]]
    BY <1>1, <1>3 DEF TypeInv, Session
  <1>7. session' \in [Workers -> Session] /\ \A v \in Others(w) : session'[v] = session[v]
    BY <1>5, <1>6 DEF TypeInv, Others
  <1>8. /\ session'[w].job = session[w].job /\ session'[w].at = session[w].at
        /\ session'[w].keys = session[w].keys /\ session'[w].row = r
        /\ session'[w].stage = "insert"
        /\ session'[w].copy = copy /\ session'[w].draft = [session[w].draft EXCEPT ![r] = row]
    BY <1>1, <1>3 DEF TypeInv, Session
  <1>9. /\ session'[w].draft[r] = row
        /\ \A q \in Rows \ {r} : session'[w].draft[q] = session[w].draft[q]
    BY <1>2, <1>8, SessionFields
  <1>10. session'[w].copy = Revised(w)
         /\ row = IF Changed(w) THEN Flushed(w) ELSE session[w].draft[session[w].row]
    BY <1>8 DEF copy, row
  <1>11. QED
    BY <1>1, <1>7, <1>8, <1>9, <1>10 DEF Update

LEMMA InsertStep ==
  ASSUME IngestionAssumption, TypeInv, ShapeInv, NEW w \in Workers, Insert(w)
  PROVE  /\ session[w].stage = "insert" /\ session' \in [Workers -> Session]
         /\ \A v \in Others(w) : session'[v] = session[v]
         /\ session'[w].job = session[w].job /\ session'[w].at = session[w].at + 1
         /\ session'[w].draft = session[w].draft /\ session'[w].row = session[w].row
         /\ session'[w].copy = session[w].copy
         /\ session'[w].stage = After(w) /\ After(w) \in {"commit", "lookup"}
         /\ session'[w].keys[Event(w)] =
              IF filed[Event(w)] # NoRow \/ session[w].keys[Event(w)] # NoRow
              THEN session[w].keys[Event(w)] ELSE session[w].row
         /\ \A e \in Events \ {Event(w)} : session'[w].keys[e] = session[w].keys[e]
         /\ ~KeyBusy(w, Event(w))
         /\ surveys' \in [Events -> Nat] /\ \A e \in Events : surveys'[e] >= surveys[e]
         /\ Event(w) \in Cancels => surveys'[Event(w)] > 0
         /\ UNCHANGED <<job, customer, filed, twins, shared>>
  <1> DEFINE e == Event(w)
             key == IF filed[e] # NoRow \/ session[w].keys[e] # NoRow THEN session[w].keys[e]
                    ELSE session[w].row
             next == After(w)
  <1>1. session[w] \in Session /\ session[w].stage = "insert" /\ ~KeyBusy(w, e)
    BY SessionFields DEF Insert
  <1>2. e \in Events /\ key \in Rows \cup {NoRow} /\ next \in {"commit", "lookup"}
        /\ session[w].at + 1 \in Nat \ {0} /\ session[w].at \in Nat
    BY <1>1, EventFields, SessionFields DEF After
  <1>3. session' = [session EXCEPT ![w].stage = next, ![w].at = session[w].at + 1, ![w].keys[e] = key]
    BY <1>1 DEF Insert, TypeInv, Session
  <1>3a. surveys' = IF e \in Cancels THEN [surveys EXCEPT ![e] = @ + 1] ELSE surveys
    BY DEF Insert
  <1> HIDE DEF key, next, e
  <1>4. [session[w] EXCEPT !.stage = next, !.at = session[w].at + 1] \in Session
    BY <1>1, <1>2 DEF Session
  <1>5. [[session[w] EXCEPT !.stage = next, !.at = session[w].at + 1] EXCEPT !.keys[e] = key] \in Session
    BY <1>2, <1>4 DEF Session
  <1>6. session' = [session EXCEPT ![w] =
          [[session[w] EXCEPT !.stage = next, !.at = session[w].at + 1] EXCEPT !.keys[e] = key]]
    BY <1>1, <1>3 DEF TypeInv, Session
  <1>7. session' \in [Workers -> Session] /\ \A v \in Others(w) : session'[v] = session[v]
    BY <1>5, <1>6 DEF TypeInv, Others
  <1>8. /\ session'[w].job = session[w].job /\ session'[w].at = session[w].at + 1
        /\ session'[w].draft = session[w].draft /\ session'[w].row = session[w].row
        /\ session'[w].stage = next /\ session'[w].copy = session[w].copy
        /\ session'[w].keys = [session[w].keys EXCEPT ![e] = key]
    BY <1>1, <1>3 DEF TypeInv, Session
  <1>9. /\ session'[w].keys[e] = key
        /\ \A d \in Events \ {e} : session'[w].keys[d] = session[w].keys[d]
    BY <1>2, <1>8, SessionFields
  <1>10. /\ surveys' \in [Events -> Nat] /\ \A d \in Events : surveys'[d] >= surveys[d]
         /\ e \in Cancels => surveys'[e] > 0
    BY <1>2, <1>3a DEF TypeInv
  <1>11. key = IF filed[Event(w)] # NoRow \/ session[w].keys[Event(w)] # NoRow
               THEN session[w].keys[Event(w)] ELSE session[w].row
    BY DEF key, e
  <1>12. next = After(w) /\ e = Event(w)
    BY DEF next, e
  <1>13. UNCHANGED <<job, customer, filed, twins, shared>>
    BY DEF Insert
  <1>14. QED
    BY <1>1, <1>2, <1>7, <1>8, <1>9, <1>10, <1>11, <1>12, <1>13

LEMMA CommitStep ==
  ASSUME IngestionAssumption, TypeInv, ShapeInv, NEW w \in Workers, Commit(w)
  PROVE  /\ session[w].stage = "commit" /\ session' \in [Workers -> Session]
         /\ \A v \in Others(w) : session'[v] = session[v]
         /\ session'[w].job = session[w].job /\ session'[w].stage = "ack"
         /\ session'[w].at = 1 /\ session'[w].row = NoRow
         /\ \A r \in Rows : session'[w].draft[r] = NoCustomer
         /\ \A e \in Events : session'[w].keys[e] = NoRow
         /\ customer' \in [Rows -> Stored] /\ filed' \in [Events -> Rows \cup {NoRow}]
         /\ \A r \in Rows : customer'[r] = Visible(w, r)
         /\ \A e \in Events : filed'[e] = IF session[w].keys[e] # NoRow THEN session[w].keys[e]
                                          ELSE filed[e]
         /\ UNCHANGED <<job, surveys, twins, shared>>
  <1>1. session[w].stage = "commit" /\ session[w].job \in Jobs \cup {NoJob}
    BY SessionFields DEF Commit
  <1>2. session' = [session EXCEPT ![w] = [Idle EXCEPT !.stage = "ack", !.job = session[w].job]]
    BY DEF Commit
  <1> DEFINE rest == [Idle EXCEPT !.stage = "ack", !.job = session[w].job]
  <1>3. rest \in Session /\ rest.job = session[w].job /\ rest.stage = "ack" /\ rest.at = 1
        /\ rest.row = NoRow /\ rest.draft = Idle.draft /\ rest.keys = Idle.keys
    BY <1>1, IdleFields DEF Session
  <1> HIDE DEF rest
  <1>4. session' = [session EXCEPT ![w] = rest]
    BY <1>2 DEF rest
  <1>5. /\ session' \in [Workers -> Session] /\ session'[w] = rest
        /\ \A v \in Others(w) : session'[v] = session[v]
    BY <1>3, <1>4 DEF TypeInv, Others
  <1>6. customer' \in [Rows -> Stored] /\ \A r \in Rows : customer'[r] = Visible(w, r)
    BY SessionFields DEF Commit
  <1>7. /\ filed' \in [Events -> Rows \cup {NoRow}]
        /\ \A e \in Events : filed'[e] = IF session[w].keys[e] # NoRow THEN session[w].keys[e]
                                         ELSE filed[e]
    BY SessionFields DEF Commit, TypeInv
  <1>8. QED
    BY <1>1, <1>3, <1>5, <1>6, <1>7, IdleFields DEF Commit

LEMMA QueueStep ==
  ASSUME IngestionAssumption, TypeInv, Queues
  PROVE  /\ job' \in [Jobs -> Task]
         /\ \A k \in Jobs : job'[k].state \in {"running", "done"} => job'[k] = job[k]
         /\ \A k \in Jobs : job[k].state = "running" => job'[k] = job[k]
         /\ UNCHANGED <<customer, filed, session, surveys, twins, shared>>
  <1>1. CASE job' = job
    BY <1>1 DEF Queues, TypeInv
  <1>2. CASE \E j \in Jobs, t \in Task :
          /\ job[j].state \in {"free", "queued"} /\ t.state \in {"queued", "failed"}
          /\ job' = [job EXCEPT ![j] = t]
    BY <1>2 DEF Queues, TypeInv
  <1>3. QED
    BY <1>1, <1>2 DEF Queues

LEMMA FaultsType ==
  ASSUME IngestionAssumption, TypeInv, [Next]_vars
  PROVE  faults' \in 0..MaxFaults
  <1>1. MaxFaults \in Nat /\ faults \in 0..MaxFaults
    BY DEF IngestionAssumption, TypeInv
  <1>2. UNCHANGED faults \/ (faults < MaxFaults /\ faults' = faults + 1)
    <2>1. CASE \E j \in Jobs, p \in Payloads : Receive(j, p)
      BY <2>1 DEF Receive
    <2>2. ASSUME NEW w \in Workers, NEW j \in Jobs, Start(w, j) PROVE UNCHANGED faults
      BY <2>2 DEF Start
    <2>3. ASSUME NEW w \in Workers, Lookup(w) \/ Update(w) \/ Insert(w) \/ Commit(w)
          PROVE  UNCHANGED faults
      BY <2>3 DEF Lookup, Update, Insert, Commit
    <2>4. ASSUME NEW w \in Workers, Acknowledge(w) \/ Deadlock(w) PROVE UNCHANGED faults
      BY <2>4 DEF Acknowledge, Deadlock
    <2>5. ASSUME NEW w \in Workers, NEW r \in Rows, Create(w, r) PROVE UNCHANGED faults
      BY <2>5 DEF Create
    <2>6. ASSUME NEW w \in Workers, Die(w) \/ Raise(w) PROVE faults < MaxFaults /\ faults' = faults + 1
      BY <2>6 DEF Die, Raise
    <2>7. CASE UNCHANGED vars
      BY <2>7 DEF vars
    <2>8. QED
      BY Zenon, <2>1, <2>2, <2>3, <2>4, <2>5, <2>6, <2>7 DEF Next, Process
  <1>3. QED
    BY <1>1, <1>2

LEMMA TypeNext ==
  IngestionAssumption /\ TypeInv /\ ShapeInv /\ OwnInv /\ [Next]_vars => TypeInv'
  <1> SUFFICES ASSUME IngestionAssumption, TypeInv, ShapeInv, OwnInv, [Next]_vars PROVE TypeInv'
    OBVIOUS
  <1>1. faults' \in 0..MaxFaults
    BY FaultsType
  <1>2. CASE Queues
    BY <1>1, <1>2, QueueStep DEF TypeInv
  <1>3. ASSUME NEW w \in Workers, NEW j \in Jobs, Takes(w, j) PROVE TypeInv'
    BY <1>1, <1>3, TakeStep DEF TypeInv
  <1>4. ASSUME NEW w \in Workers, Leaves(w) PROVE TypeInv'
    BY <1>1, <1>4, LeaveStep DEF TypeInv
  <1>5. ASSUME NEW w \in Workers, Lookup(w) PROVE TypeInv'
    BY <1>1, <1>5, LookupStep DEF TypeInv
  <1>6. ASSUME NEW w \in Workers, Update(w) PROVE TypeInv'
    BY <1>1, <1>6, UpdateStep DEF TypeInv
  <1>7. ASSUME NEW w \in Workers, Insert(w) PROVE TypeInv'
    BY <1>1, <1>7, InsertStep DEF TypeInv
  <1>8. ASSUME NEW w \in Workers, Commit(w) PROVE TypeInv'
    BY <1>1, <1>8, CommitStep DEF TypeInv
  <1>9. ASSUME NEW w \in Workers, NEW r \in Rows, Create(w, r) PROVE TypeInv'
    BY <1>1, <1>9, CreateStep DEF TypeInv
  <1>10. QED
    BY Zenon, StepCases, <1>2, <1>3, <1>4, <1>5, <1>6, <1>7, <1>8, <1>9

(***************************************************************************)
(* The shape of sessions, locks and keys                                   *)
(***************************************************************************)
\* A step of one worker keeps the others in shape, if it leaves their jobs alone.
LEMMA ShapeOthers ==
  ASSUME IngestionAssumption, TypeInv, ShapeInv, NEW w \in Workers,
         \A v \in Others(w) : session'[v] = session[v],
         \A k \in Jobs : job'[k].payload = job[k].payload,
         \A v \in Others(w) : session[v].stage # "idle" => job'[session[v].job] = job[session[v].job],
         \/ session'[w].job \in {session[w].job, NoJob}
         \/ \A v \in Others(w) : session[v].job # session'[w].job,
         session'[w].stage = "idle" <=> session'[w].job = NoJob,
         session'[w].stage # "idle" => job'[session'[w].job].state = "running",
         session'[w].stage \in {"lookup", "create", "update", "insert"} =>
           session'[w].at \in DOMAIN Payload(w)',
         session'[w].stage = "commit" => session'[w].at = Len(Payload(w)') + 1,
         session'[w].stage \in {"idle", "ack", "create"} => session'[w].row = NoRow,
         session'[w].stage \in {"update", "insert"} => session'[w].row \in Rows,
         session'[w].stage \in {"idle", "ack"} =>
           /\ session'[w].at = 1
           /\ \A r \in Rows : session'[w].draft[r] = NoCustomer
           /\ \A e \in Events : session'[w].keys[e] = NoRow
  PROVE  ShapeInv'
  <1>1. \A v \in Others(w) : session[v].stage # "idle" => Payload(v)' = Payload(v)
    BY DEF Payload
  <1>2. ASSUME NEW v \in Workers, session'[v].stage # "idle"
        PROVE  \A u \in Others(v) : session'[u].job # session'[v].job
    <2>1. \A x, y \in Workers : x # y /\ session[x].job = session[y].job => session[x].job = NoJob
      BY DEF ShapeInv, Others
    <2>2. \A x \in Others(w) : session[x].job = session'[w].job => session'[w].job = NoJob
      BY <2>1 DEF Others
    <2>3. \A x \in Workers : session'[x].stage = "idle" <=> session'[x].job = NoJob
      BY DEF ShapeInv, Others
    <2>4. QED
      BY <1>2, <2>1, <2>2, <2>3 DEF Others
  <1>3. ASSUME NEW v \in Others(w)
        PROVE  /\ session'[v].stage = "idle" <=> session'[v].job = NoJob
               /\ session'[v].stage # "idle" => job'[session'[v].job].state = "running"
               /\ session'[v].stage \in {"lookup", "create", "update", "insert"} =>
                    session'[v].at \in DOMAIN Payload(v)'
               /\ session'[v].stage = "commit" => session'[v].at = Len(Payload(v)') + 1
               /\ session'[v].stage \in {"idle", "ack", "create"} => session'[v].row = NoRow
               /\ session'[v].stage \in {"update", "insert"} => session'[v].row \in Rows
               /\ session'[v].stage \in {"idle", "ack"} =>
                    /\ session'[v].at = 1
                    /\ \A r \in Rows : session'[v].draft[r] = NoCustomer
                    /\ \A e \in Events : session'[v].keys[e] = NoRow
    BY <1>1, <1>3 DEF ShapeInv, Others
  <1>4. QED
    BY <1>2, <1>3 DEF ShapeInv, Others

LEMMA ShapeNext ==
  IngestionAssumption /\ TypeInv /\ ShapeInv /\ OwnInv /\ [Next]_vars => ShapeInv'
  <1> SUFFICES ASSUME IngestionAssumption, TypeInv, ShapeInv, OwnInv, [Next]_vars PROVE ShapeInv'
    OBVIOUS
  <1>1. CASE Queues
    <2>1. \A w \in Workers : session[w].stage # "idle" => job'[session[w].job] = job[session[w].job]
      BY <1>1, QueueStep, PayloadFields
    <2>2. UNCHANGED session
      BY <1>1 DEF Queues
    <2>3. \A w \in Workers : session[w].stage # "idle" => Payload(w)' = Payload(w)
      BY <2>1, <2>2 DEF Payload
    <2>4. QED
      BY <2>1, <2>2, <2>3 DEF ShapeInv, Others
  <1>2. ASSUME NEW w \in Workers, NEW j \in Jobs, Takes(w, j) PROVE ShapeInv'
    <2>1. \A v \in Others(w) : session[v].stage # "idle" => session[v].job # j /\ session[v].job \in Jobs
      BY <1>2, TakeStep, PayloadFields DEF ShapeInv, Others
    <2>2. \A v \in Others(w) : session[v].job # j
      BY <2>1 DEF ShapeInv, Others, IngestionAssumption
    <2>3. session[w].at \in Nat /\ session[w].row = NoRow
          /\ (\A r \in Rows : session[w].draft[r] = NoCustomer)
          /\ \A e \in Events : session[w].keys[e] = NoRow
      BY <1>2, TakeStep, SessionFields DEF ShapeInv
    <2>4. /\ session[w].at = 1 /\ j \in Jobs /\ job[j] \in Task
          /\ job'[j].payload = job[j].payload /\ session'[w].job = j
      <3>1. session[w].stage = "idle" /\ \A k \in Jobs : job'[k].payload = job[k].payload
        BY <1>2, TakeStep
      <3>2. session[w].at = 1
        BY <3>1 DEF ShapeInv
      <3>3. session'[w].job = j
        BY <1>2, TakeStep
      <3>4. QED
        BY <3>1, <3>2, <3>3 DEF TypeInv
    <2>5. job[j].payload # <<>> => 1 \in DOMAIN job[j].payload
      BY <2>4 DEF Task, IngestionAssumption
    <2>6. Payload(w)' = job[j].payload
      BY <2>4 DEF Payload
    <2>7. session'[w].stage \in {"ack", "lookup"} /\ session'[w].at = 1
          /\ (session'[w].stage = "lookup" => 1 \in DOMAIN Payload(w)')
      BY <1>2, <2>4, <2>5, <2>6, TakeStep
    <2>8. /\ session'[w].row = NoRow /\ j # NoJob
          /\ (\A r \in Rows : session'[w].draft[r] = NoCustomer)
          /\ \A e \in Events : session'[w].keys[e] = NoRow
      BY <1>2, <2>3, TakeStep DEF IngestionAssumption
    <2>9. /\ \A v \in Others(w) : session'[v] = session[v]
          /\ \A k \in Jobs : job'[k].payload = job[k].payload
          /\ \A v \in Others(w) : session[v].stage # "idle" =>
               job'[session[v].job] = job[session[v].job]
          /\ job'[j].state = "running"
      BY <1>2, <2>1, TakeStep
    <2>10. QED
      BY <2>2, <2>4, <2>7, <2>8, <2>9, ShapeOthers
  <1>3. ASSUME NEW w \in Workers, Leaves(w) PROVE ShapeInv'
    <2>1. \A v \in Others(w) : session[v].stage # "idle" =>
            session[v].job # session[w].job /\ session[v].job \in Jobs
      BY <1>3, LeaveStep, PayloadFields DEF ShapeInv, Others
    <2>2. /\ \A v \in Others(w) : session'[v] = session[v]
          /\ \A k \in Jobs : job'[k].payload = job[k].payload
          /\ \A v \in Others(w) : session[v].stage # "idle" =>
               job'[session[v].job] = job[session[v].job]
          /\ session'[w] = Idle
      BY <1>3, <2>1, LeaveStep
    <2>3. QED
      BY <2>2, IdleFields, ShapeOthers
  <1>4. ASSUME NEW w \in Workers, UNCHANGED job, \A v \in Others(w) : session'[v] = session[v],
               session'[w].job = session[w].job, session[w].stage # "idle",
               session'[w].stage # "idle",
               session'[w].stage \in {"lookup", "create", "update", "insert"} =>
                 session'[w].at \in DOMAIN Payload(w),
               session'[w].stage = "commit" => session'[w].at = Len(Payload(w)) + 1,
               session'[w].stage = "create" => session'[w].row = NoRow,
               session'[w].stage \in {"update", "insert"} => session'[w].row \in Rows,
               session'[w].stage = "ack" =>
                 /\ session'[w].at = 1 /\ session'[w].row = NoRow
                 /\ \A r \in Rows : session'[w].draft[r] = NoCustomer
                 /\ \A e \in Events : session'[w].keys[e] = NoRow
        PROVE  ShapeInv'
    <2>1. Payload(w)' = Payload(w)
      BY <1>4 DEF Payload
    <2>2. session[w].job # NoJob /\ job[session[w].job].state = "running"
      BY <1>4 DEF ShapeInv
    <2>3. QED
      BY <1>4, <2>1, <2>2, ShapeOthers
  <1>5. ASSUME NEW w \in Workers, Lookup(w) PROVE ShapeInv'
    <2>1. session[w].at \in DOMAIN Payload(w) /\ session[w].stage = "lookup"
      BY <1>5, LookupStep DEF ShapeInv
    <2>2. /\ UNCHANGED job /\ \A v \in Others(w) : session'[v] = session[v]
          /\ session'[w].job = session[w].job /\ session'[w].at = session[w].at
          /\ \/ session'[w].stage = "create" /\ session'[w].row = NoRow
             \/ session'[w].stage = "update" /\ session'[w].row \in Rows
      BY <1>5, LookupStep
    <2>3. QED
      BY <1>4, <2>1, <2>2
  <1>6. ASSUME NEW w \in Workers, NEW r \in Rows, Create(w, r) PROVE ShapeInv'
    <2>1. session[w].at \in DOMAIN Payload(w) /\ session[w].stage = "create"
      BY <1>6, CreateStep DEF ShapeInv
    <2>2. /\ UNCHANGED job /\ \A v \in Others(w) : session'[v] = session[v]
          /\ session'[w].job = session[w].job /\ session'[w].at = session[w].at
          /\ session'[w].stage = "insert" /\ session'[w].row = r
      BY <1>6, CreateStep
    <2>3. QED
      BY <1>4, <2>1, <2>2
  <1>7. ASSUME NEW w \in Workers, Update(w) PROVE ShapeInv'
    <2>1. session[w].at \in DOMAIN Payload(w) /\ session[w].stage = "update"
          /\ session[w].row \in Rows
      BY <1>7, UpdateStep DEF ShapeInv
    <2>2. /\ UNCHANGED job /\ \A v \in Others(w) : session'[v] = session[v]
          /\ session'[w].job = session[w].job /\ session'[w].at = session[w].at
          /\ session'[w].stage = "insert" /\ session'[w].row = session[w].row
      BY <1>7, UpdateStep
    <2>3. QED
      BY <1>4, <2>1, <2>2
  <1>8. ASSUME NEW w \in Workers, Insert(w) PROVE ShapeInv'
    <2>1. session[w].stage = "insert"
      BY <1>8, InsertStep
    <2>2. session[w].at \in 1..Len(Payload(w)) /\ Len(Payload(w)) \in Nat
          /\ DOMAIN Payload(w) = 1..Len(Payload(w))
      BY <2>1, EventFields, PayloadFields
    <2>3. IF session[w].at = Len(Payload(w)) THEN session[w].at + 1 = Len(Payload(w)) + 1
          ELSE session[w].at + 1 \in DOMAIN Payload(w)
      <3>1. \A k, n \in Nat : k \in 1..n => IF k = n THEN k + 1 = n + 1 ELSE k + 1 \in 1..n
        OBVIOUS
      <3>2. session[w].at \in Nat
        BY <2>2
      <3>3. QED
        BY <2>2, <3>1, <3>2
    <2>4. session'[w].stage = IF session[w].at = Len(Payload(w)) THEN "commit" ELSE "lookup"
      BY <1>8, InsertStep DEF After
    <2>5. session'[w].at = session[w].at + 1
      BY <1>8, InsertStep
    <2>6. /\ session'[w].stage \in {"commit", "lookup"}
          /\ session'[w].stage = "commit" => session'[w].at = Len(Payload(w)) + 1
          /\ session'[w].stage = "lookup" => session'[w].at \in DOMAIN Payload(w)
      BY <2>3, <2>4, <2>5
    <2>7. QED
      <3>1. /\ UNCHANGED job /\ \A v \in Others(w) : session'[v] = session[v]
            /\ session'[w].job = session[w].job
        BY <1>8, InsertStep
      <3>2. QED
        BY <1>4, <2>1, <2>6, <3>1
  <1>9. ASSUME NEW w \in Workers, Commit(w) PROVE ShapeInv'
    <2>1. /\ UNCHANGED job /\ \A v \in Others(w) : session'[v] = session[v]
          /\ session'[w].job = session[w].job /\ session[w].stage = "commit"
          /\ session'[w].stage = "ack" /\ session'[w].at = 1 /\ session'[w].row = NoRow
          /\ \A r \in Rows : session'[w].draft[r] = NoCustomer
          /\ \A e \in Events : session'[w].keys[e] = NoRow
      BY <1>9, CommitStep
    <2>2. QED
      BY <1>4, <2>1
  <1>10. QED
    BY Zenon, StepCases, <1>1, <1>2, <1>3, <1>5, <1>6, <1>7, <1>8, <1>9

\* The payload of a job under way stays as it is.
LEMMA PayloadKept ==
  ASSUME IngestionAssumption, TypeInv, ShapeInv, OwnInv, [Next]_vars,
         NEW v \in Workers, session[v].stage # "idle"
  PROVE  /\ session'[v].job = session[v].job => Payload(v)' = Payload(v)
         /\ session'[v].job = session[v].job /\ session'[v].at = session[v].at =>
              Event(v)' = Event(v)
  <1>1. session[v].job \in Jobs /\ job[session[v].job].state = "running"
    BY PayloadFields
  <1>2. job'[session[v].job].payload = job[session[v].job].payload
    <2>1. CASE Queues
      BY <1>1, <2>1, QueueStep
    <2>2. ASSUME NEW w \in Workers, NEW j \in Jobs, Takes(w, j)
          PROVE  job'[session[v].job].payload = job[session[v].job].payload
      BY <1>1, <2>2, TakeStep
    <2>3. ASSUME NEW w \in Workers, Leaves(w)
          PROVE  job'[session[v].job].payload = job[session[v].job].payload
      BY <1>1, <2>3, LeaveStep
    <2>4. ASSUME NEW w \in Workers, Lookup(w) \/ Update(w) \/ Insert(w) \/ Commit(w)
          PROVE  UNCHANGED job
      BY <2>4 DEF Lookup, Update, Insert, Commit
    <2>5. ASSUME NEW w \in Workers, NEW r \in Rows, Create(w, r) PROVE UNCHANGED job
      BY <2>5 DEF Create
    <2>6. QED
      BY Zenon, StepCases, <2>1, <2>2, <2>3, <2>4, <2>5
  <1>3. QED
    BY <1>2 DEF Payload, Event

\* A step keeps locks exclusive if what it newly writes nobody else has written.
LEMMA LockOthers ==
  ASSUME LockInv, NEW w \in Workers,
         \A v \in Others(w) : session'[v] = session[v],
         \A r \in Rows : session'[w].draft[r] # NoCustomer =>
           session[w].draft[r] # NoCustomer \/ ~RowBusy(w, r),
         \A e \in Events : session'[w].keys[e] # NoRow =>
           /\ session[w].keys[e] # NoRow \/ ~KeyBusy(w, e)
           /\ filed'[e] = NoRow,
         \A v \in Others(w), e \in Events : session[v].keys[e] # NoRow => filed'[e] = NoRow
  PROVE  LockInv'
  <1>1. \A v \in Others(w) :
          /\ \A r \in Rows : session'[v].draft[r] = NoCustomer \/ session'[w].draft[r] = NoCustomer
          /\ \A e \in Events : session'[v].keys[e] = NoRow \/ session'[w].keys[e] = NoRow
    BY DEF LockInv, RowBusy, KeyBusy, Others
  <1>2. \A v \in Workers : v = w \/ v \in Others(w)
    BY DEF Others
  <1>3. \A u, v \in Others(w) : u # v =>
          /\ \A r \in Rows : session'[u].draft[r] = NoCustomer \/ session'[v].draft[r] = NoCustomer
          /\ \A e \in Events : session'[u].keys[e] = NoRow \/ session'[v].keys[e] = NoRow
    BY DEF LockInv, Others
  <1>4. \A v \in Workers, e \in Events : session'[v].keys[e] # NoRow => filed'[e] = NoRow
    BY <1>2
  <1>5. QED
    BY <1>1, <1>2, <1>3, <1>4 DEF LockInv

LEMMA LockNext ==
  IngestionAssumption /\ TypeInv /\ ShapeInv /\ LockInv /\ OwnInv /\ [Next]_vars => LockInv'
  <1> SUFFICES ASSUME IngestionAssumption, TypeInv, ShapeInv, LockInv, OwnInv, [Next]_vars
               PROVE  LockInv'
    OBVIOUS
  <1>1. CASE Queues
    BY <1>1 DEF Queues, LockInv
  <1>2. ASSUME NEW w \in Workers, UNCHANGED filed,
               \A v \in Others(w) : session'[v] = session[v],
               \A r \in Rows : session'[w].draft[r] # NoCustomer =>
                 session[w].draft[r] # NoCustomer \/ ~RowBusy(w, r),
               \A e \in Events : session'[w].keys[e] # NoRow =>
                 \/ session[w].keys[e] # NoRow
                 \/ filed[e] = NoRow /\ ~KeyBusy(w, e)
        PROVE  LockInv'
    <2>1. \A v \in Workers, e \in Events : session[v].keys[e] # NoRow => filed[e] = NoRow
      BY DEF LockInv
    <2>2. \A v \in Others(w), e \in Events : session[v].keys[e] # NoRow => filed'[e] = NoRow
      BY <1>2, <2>1 DEF Others
    <2>3. \A e \in Events : session'[w].keys[e] # NoRow =>
            /\ session[w].keys[e] # NoRow \/ ~KeyBusy(w, e)
            /\ filed'[e] = NoRow
      BY <1>2, <2>1
    <2>4. QED
      BY <1>2, <2>2, <2>3, LockOthers
  <1>3. ASSUME NEW w \in Workers, NEW j \in Jobs, Takes(w, j) PROVE LockInv'
    <2>1. /\ UNCHANGED filed /\ \A v \in Others(w) : session'[v] = session[v]
          /\ session'[w].draft = session[w].draft /\ session'[w].keys = session[w].keys
      BY <1>3, TakeStep
    <2>2. QED
      BY <1>2, <2>1
  <1>4. ASSUME NEW w \in Workers, Leaves(w) PROVE LockInv'
    <2>1. /\ UNCHANGED filed /\ \A v \in Others(w) : session'[v] = session[v]
          /\ session'[w] = Idle
      BY <1>4, LeaveStep
    <2>2. QED
      BY <1>2, <2>1, IdleFields
  <1>5. ASSUME NEW w \in Workers, Lookup(w) PROVE LockInv'
    <2>1. /\ UNCHANGED filed /\ \A v \in Others(w) : session'[v] = session[v]
          /\ session'[w].draft = session[w].draft /\ session'[w].keys = session[w].keys
      BY <1>5, LookupStep
    <2>2. QED
      BY <1>2, <2>1
  <1>6. ASSUME NEW w \in Workers, NEW r \in Rows, Create(w, r) PROVE LockInv'
    <2>1. /\ UNCHANGED filed /\ \A v \in Others(w) : session'[v] = session[v]
          /\ session'[w].keys = session[w].keys /\ ~Taken(r)
          /\ \A q \in Rows \ {r} : session'[w].draft[q] = session[w].draft[q]
      BY <1>6, CreateStep
    <2>2. ~RowBusy(w, r)
      BY <2>1 DEF Taken, RowBusy, Others
    <2>3. QED
      BY <1>2, <2>1, <2>2
  <1>7. ASSUME NEW w \in Workers, Update(w) PROVE LockInv'
    <2>1. /\ UNCHANGED filed /\ \A v \in Others(w) : session'[v] = session[v]
          /\ session'[w].keys = session[w].keys
          /\ session'[w].draft[session[w].row] =
               IF Changed(w) THEN Flushed(w) ELSE session[w].draft[session[w].row]
          /\ Changed(w) => ~RowBusy(w, session[w].row)
          /\ \A q \in Rows \ {session[w].row} : session'[w].draft[q] = session[w].draft[q]
      BY <1>7, UpdateStep
    <2>2. QED
      BY <1>2, <2>1
  <1>8. ASSUME NEW w \in Workers, Insert(w) PROVE LockInv'
    <2>1. /\ UNCHANGED filed /\ \A v \in Others(w) : session'[v] = session[v]
          /\ session'[w].draft = session[w].draft
          /\ session'[w].keys[Event(w)] =
               IF filed[Event(w)] # NoRow \/ session[w].keys[Event(w)] # NoRow
               THEN session[w].keys[Event(w)] ELSE session[w].row
          /\ \A e \in Events \ {Event(w)} : session'[w].keys[e] = session[w].keys[e]
          /\ ~KeyBusy(w, Event(w))
      BY <1>8, InsertStep
    <2>2. QED
      BY <1>2, <2>1
  <1>9. ASSUME NEW w \in Workers, Commit(w) PROVE LockInv'
    <2>1. /\ \A v \in Others(w) : session'[v] = session[v]
          /\ \A r \in Rows : session'[w].draft[r] = NoCustomer
          /\ \A e \in Events : session'[w].keys[e] = NoRow
          /\ \A e \in Events : filed'[e] = IF session[w].keys[e] # NoRow THEN session[w].keys[e]
                                           ELSE filed[e]
      BY <1>9, CommitStep
    <2>2. \A v \in Others(w), e \in Events : session[v].keys[e] # NoRow => filed'[e] = NoRow
      BY <2>1 DEF LockInv, Others
    <2>3. QED
      BY <2>1, <2>2, LockOthers
  <1>10. QED
    BY Zenon, StepCases, <1>1, <1>3, <1>4, <1>5, <1>6, <1>7, <1>8, <1>9

(***************************************************************************)
(* Whose rows, and whose events                                            *)
(***************************************************************************)
\* A commit of w changes no row of another customer, so nobody loses hold of his.
LEMMA CommitKeepsOwner ==
  ASSUME IngestionAssumption, TypeInv, ShapeInv, LockInv, OwnInv, NEW w \in Workers, Commit(w),
         NEW r \in Rows
  PROVE  /\ customer[r] # NoCustomer => customer'[r].who = customer[r].who
         /\ \A v \in Others(w) : Visible(v, r).who # NoRow => Visible(v, r)'.who = Visible(v, r).who
         /\ \A v \in Others(w) : session[v].draft[r] # NoCustomer => customer'[r] = customer[r]
  <1>1. /\ \A v \in Others(w) : session'[v] = session[v]
        /\ customer'[r] = Visible(w, r)
    BY CommitStep
  <1>2. customer[r] # NoCustomer => customer'[r].who = customer[r].who
    BY <1>1 DEF OwnInv, Owns, Visible
  <1>3. NoCustomer.who = NoRow
    BY DEF NoCustomer
  <1>4. ASSUME NEW v \in Others(w), Visible(v, r).who # NoRow
        PROVE  Visible(v, r)'.who = Visible(v, r).who
    BY <1>1, <1>2, <1>3, <1>4 DEF Visible
  <1>5. ASSUME NEW v \in Others(w), session[v].draft[r] # NoCustomer
        PROVE  customer'[r] = customer[r]
    <2>1. session[w].draft[r] = NoCustomer
      BY <1>5 DEF LockInv, Others
    <2>2. QED
      BY <1>1, <2>1 DEF Visible
  <1>6. QED
    BY <1>2, <1>4, <1>5

\* A session that does nothing keeps what it owns, as long as nobody commits.
LEMMA OwnFrame ==
  ASSUME IngestionAssumption, TypeInv, ShapeInv, OwnInv, [Next]_vars, NEW v \in Workers,
         UNCHANGED customer, session'[v] = session[v]
  PROVE  Owns(v)'
  <1>1. \A r : Visible(v, r)' = Visible(v, r)
    BY DEF Visible
  <1>2. session[v].stage \in {"update", "insert"} => Event(v)' = Event(v)
    BY PayloadKept
  <1>3. QED
    BY <1>1, <1>2 DEF OwnInv, Owns

LEMMA OwnNext ==
  IngestionAssumption /\ TypeInv /\ ShapeInv /\ LockInv /\ OwnInv /\ [Next]_vars => OwnInv'
  <1> SUFFICES ASSUME IngestionAssumption, TypeInv, ShapeInv, LockInv, OwnInv, [Next]_vars
               PROVE  OwnInv'
    OBVIOUS
  <1>1. CASE Queues
    BY <1>1, OwnFrame DEF Queues, OwnInv
  <1>2. ASSUME NEW w \in Workers, UNCHANGED customer,
               \A v \in Others(w) : session'[v] = session[v], Owns(w)'
        PROVE  OwnInv'
    BY <1>2, OwnFrame DEF OwnInv, Others
  <1>3. ASSUME NEW w \in Workers, NEW j \in Jobs, Takes(w, j) PROVE OwnInv'
    <2>1. /\ UNCHANGED customer /\ \A v \in Others(w) : session'[v] = session[v]
          /\ session'[w].draft = session[w].draft /\ session'[w].keys = session[w].keys
          /\ session'[w].row = session[w].row /\ session[w].stage = "idle"
          /\ session'[w].stage \notin {"update", "insert"}
      BY <1>3, TakeStep
    <2>2. /\ session[w].row = NoRow /\ \A r \in Rows : session[w].draft[r] = NoCustomer
          /\ \A e \in Events : session[w].keys[e] = NoRow
      BY <2>1 DEF ShapeInv
    <2>3. Owns(w)'
      BY <2>1, <2>2 DEF Owns
    <2>4. QED
      BY <1>2, <2>1, <2>3
  <1>4. ASSUME NEW w \in Workers, Leaves(w) PROVE OwnInv'
    <2>1. /\ UNCHANGED customer /\ \A v \in Others(w) : session'[v] = session[v]
          /\ session'[w] = Idle
      BY <1>4, LeaveStep
    <2>2. Owns(w)'
      BY <2>1, IdleFields DEF Owns
    <2>3. QED
      BY <1>2, <2>1, <2>2
  <1>5. ASSUME NEW w \in Workers, Lookup(w) PROVE OwnInv'
    <2>1. /\ UNCHANGED customer /\ \A v \in Others(w) : session'[v] = session[v]
          /\ session'[w].draft = session[w].draft /\ session'[w].keys = session[w].keys
          /\ session[w].stage = "lookup" /\ Event(w)' = Event(w)
      BY <1>5, LookupStep, PayloadKept
    <2>2. \A r : Visible(w, r)' = Visible(w, r)
      BY <2>1 DEF Visible
    <2>3. /\ \A r \in Rows : session'[w].draft[r] # NoCustomer /\ customer'[r] # NoCustomer =>
               session'[w].draft[r].who = customer'[r].who
          /\ \A e \in Events : session'[w].keys[e] # NoRow =>
               Visible(w, session[w].keys[e])'.who = Who[e]
      BY <2>1, <2>2 DEF OwnInv, Owns, Visible
    <2>4. ASSUME session'[w].stage = "create", session'[w].row = NoRow PROVE Owns(w)'
      BY <2>3, <2>4 DEF Owns, Visible
    <2>5. ASSUME session'[w].row \in Matches(w, Who[Event(w)]),
                 session'[w].copy = IF session'[w].row = session[w].row THEN session[w].copy
                                    ELSE Visible(w, session'[w].row)
          PROVE  Owns(w)'
      <3> DEFINE q == session'[w].row
      <3>1. q \in Rows /\ Visible(w, q).who = Who[Event(w)] /\ Who[Event(w)] # NoRow
        BY <2>1, <2>5, EventFields DEF Matches
      <3>2. q # NoRow /\ Visible(w, q) # NoCustomer
        BY <3>1, Nobody DEF IngestionAssumption
      <3>3. session'[w].copy # NoCustomer /\ session'[w].copy.who = Visible(w, q).who
        BY <2>5, <3>2 DEF OwnInv, Owns
      <3>4. QED
        BY <2>1, <2>2, <2>3, <3>1, <3>3 DEF Owns, Visible
    <2>6. Owns(w)'
      BY <1>5, <2>4, <2>5, LookupStep
    <2>7. QED
      BY <1>2, <2>1, <2>6
  <1>6. ASSUME NEW w \in Workers, NEW r \in Rows, Create(w, r) PROVE OwnInv'
    <2>1. /\ UNCHANGED customer /\ \A v \in Others(w) : session'[v] = session[v]
          /\ session'[w].keys = session[w].keys /\ session'[w].row = r
          /\ session'[w].copy.who = Who[Event(w)] /\ session'[w].copy \in Customer
          /\ session'[w].draft[r] = session'[w].copy
          /\ \A q \in Rows \ {r} : session'[w].draft[q] = session[w].draft[q]
          /\ ~Taken(r) /\ session[w].stage = "create" /\ Event(w)' = Event(w)
      BY <1>6, CreateStep, PayloadKept
    <2>2. /\ \A q \in Rows \ {r} : Visible(w, q)' = Visible(w, q)
          /\ Visible(w, r)' = session'[w].copy /\ Visible(w, r) = NoCustomer
          /\ customer[r] = NoCustomer /\ session'[w].copy # NoCustomer
      BY <2>1, Nobody DEF Visible, Taken
    <2>3. \A q \in Rows : session'[w].draft[q] # NoCustomer /\ customer'[q] # NoCustomer =>
               session'[w].draft[q].who = customer'[q].who
      BY <2>1, <2>2 DEF OwnInv, Owns
    <2>4. \A e \in Events : session[w].keys[e] # NoRow =>
            session[w].keys[e] \in Rows /\ session[w].keys[e] # r
      BY <2>2, SessionFields, Nobody DEF OwnInv, Owns, IngestionAssumption, Externals
    <2>5. \A e \in Events : session'[w].keys[e] # NoRow =>
               Visible(w, session[w].keys[e])'.who = Who[e]
      BY <2>1, <2>2, <2>4 DEF OwnInv, Owns, Visible
    <2>6. Owns(w)'
      BY <2>1, <2>2, <2>3, <2>5 DEF Owns, Visible
    <2>7. QED
      BY <1>2, <2>1, <2>6
  <1>7. ASSUME NEW w \in Workers, Update(w) PROVE OwnInv'
    <2> DEFINE r == session[w].row
    <2>1. /\ UNCHANGED customer /\ \A v \in Others(w) : session'[v] = session[v]
          /\ session'[w].keys = session[w].keys /\ session'[w].row = r
          /\ session'[w].copy = Revised(w) /\ session[w].stage = "update"
          /\ session'[w].draft[r] = IF Changed(w) THEN Flushed(w) ELSE session[w].draft[r]
          /\ \A q \in Rows \ {r} : session'[w].draft[q] = session[w].draft[q]
          /\ Event(w)' = Event(w)
      BY <1>7, UpdateStep, PayloadKept
    <2>2. /\ r \in Rows /\ Flushed(w) # NoCustomer /\ Flushed(w).who = Visible(w, r).who
          /\ Revised(w) # NoCustomer /\ Revised(w).who = session[w].copy.who
          /\ session[w].copy.who = Visible(w, r).who /\ session[w].copy.who = Who[Event(w)]
      BY <2>1, RevisedFields, Nobody DEF OwnInv, Owns, IngestionAssumption
    <2>3. \A q \in Rows : Visible(w, q)'.who = Visible(w, q).who
      BY <2>1, <2>2 DEF Visible
    <2>4. \A q \in Rows : session'[w].draft[q] # NoCustomer /\ customer'[q] # NoCustomer =>
               session'[w].draft[q].who = customer'[q].who
      BY <2>1, <2>2 DEF OwnInv, Owns, Visible
    <2>5. \A e \in Events : session'[w].keys[e] # NoRow =>
               Visible(w, session[w].keys[e])'.who = Who[e]
      BY <2>1, <2>3, SessionFields DEF OwnInv, Owns, Visible
    <2>6. /\ session'[w].copy # NoCustomer
          /\ session'[w].copy.who = Visible(w, session[w].row)'.who
          /\ session'[w].copy.who = Who[Event(w)]'
      <3>1. PICK q \in Rows : q = session[w].row
        BY <2>2
      <3>2. Visible(w, q)'.who = Visible(w, q).who
        BY <2>3
      <3>3. session[w].row' = q
        BY <2>1, <3>1
      <3>4. Visible(w, session[w].row)' = Visible(w, q)'
        BY <3>3 DEF Visible
      <3>5. QED
        BY <2>1, <2>2, <3>1, <3>2, <3>4
    <2>7. Owns(w)'
      BY <2>4, <2>5, <2>6 DEF Owns
    <2>8. QED
      BY <1>2, <2>1, <2>7
  <1>8. ASSUME NEW w \in Workers, Insert(w) PROVE OwnInv'
    <2>1. /\ UNCHANGED customer /\ \A v \in Others(w) : session'[v] = session[v]
          /\ session'[w].draft = session[w].draft /\ session'[w].row = session[w].row
          /\ session'[w].copy = session[w].copy /\ session'[w].stage \in {"commit", "lookup"}
          /\ session'[w].keys[Event(w)] \in {session[w].keys[Event(w)], session[w].row}
          /\ \A e \in Events \ {Event(w)} : session'[w].keys[e] = session[w].keys[e]
          /\ session[w].stage = "insert"
      BY <1>8, InsertStep
    <2>2. \A q : Visible(w, q)' = Visible(w, q)
      BY <2>1 DEF Visible
    <2>3. session[w].row # NoRow /\ session[w].row \in Rows
      BY <2>1 DEF ShapeInv, IngestionAssumption
    <2>4. Visible(w, session[w].row).who = Who[Event(w)]
      BY <2>1, <2>3 DEF OwnInv, Owns
    <2>5. \A e \in Events : session'[w].keys[e] # NoRow =>
               Visible(w, session[w].keys[e])'.who = Who[e]
      BY <2>1, <2>2, <2>4 DEF OwnInv, Owns, Visible
    <2>6. Owns(w)'
      BY <2>1, <2>2, <2>5 DEF OwnInv, Owns, Visible
    <2>7. QED
      BY <1>2, <2>1, <2>6
  <1>9. ASSUME NEW w \in Workers, Commit(w) PROVE OwnInv'
    <2>1. /\ \A v \in Others(w) : session'[v] = session[v]
          /\ session'[w].row = NoRow /\ session'[w].stage = "ack"
          /\ \A r \in Rows : session'[w].draft[r] = NoCustomer
          /\ \A e \in Events : session'[w].keys[e] = NoRow
      BY <1>9, CommitStep
    <2>2. Owns(w)'
      BY <2>1 DEF Owns
    <2>3. ASSUME NEW v \in Others(w) PROVE Owns(v)'
      <3>1. session'[v] = session[v] /\ Owns(v) /\ v \in Workers
        BY <2>1 DEF OwnInv, Others
      <3>2. \A r \in Rows : session'[v].draft[r] # NoCustomer /\ customer'[r] # NoCustomer =>
               session'[v].draft[r].who = customer'[r].who
        BY <1>9, <3>1, CommitKeepsOwner DEF Owns
      <3>3. session[v].stage \in {"update", "insert"} => Event(v)' = Event(v)
        BY <3>1, PayloadKept
      <3>3a. \A r \in Rows : Visible(v, r).who # NoRow => Visible(v, r)'.who = Visible(v, r).who
        BY <1>9, CommitKeepsOwner
      <3>4. ASSUME session[v].row # NoRow
            PROVE  Visible(v, session[v].row)'.who = Visible(v, session[v].row).who
        <4>1. session[v].row \in Rows /\ session[v].copy \in Stored
          BY <3>1, <3>4, SessionFields
        <4>2. Visible(v, session[v].row).who # NoRow
          BY <3>1, <3>4, <4>1, Nobody DEF Owns
        <4>3. QED
          BY <3>1, <3>3a, <4>1, <4>2 DEF Visible
      <3>5. ASSUME NEW e \in Events, session[v].keys[e] # NoRow
            PROVE  Visible(v, session[v].keys[e])'.who = Visible(v, session[v].keys[e]).who
        <4>1. session[v].keys[e] \in Rows
          BY <3>1, <3>5, SessionFields
        <4>2. Visible(v, session[v].keys[e]).who # NoRow
          BY <3>1, <3>5 DEF Owns, IngestionAssumption, Externals
        <4>3. QED
          BY <3>1, <3>3a, <4>1, <4>2 DEF Visible
      <3>6. QED
        BY <3>1, <3>2, <3>3, <3>4, <3>5 DEF Owns
    <2>4. QED
      BY <2>2, <2>3 DEF OwnInv, Others
  <1>10. QED
    BY Zenon, StepCases, <1>1, <1>3, <1>4, <1>5, <1>6, <1>7, <1>8, <1>9

CoreInv == TypeInv /\ ShapeInv /\ LockInv /\ OwnInv

LEMMA CoreInit == IngestionAssumption /\ Init => CoreInv
  <1> SUFFICES ASSUME IngestionAssumption, Init PROVE CoreInv
    OBVIOUS
  <1>1. \A w \in Workers : session[w] = Idle
    BY DEF Init
  <1>2. TypeInv
    <2>1. job \in [Jobs -> Task]
      BY DEF Init, Task, IngestionAssumption
    <2>2. session \in [Workers -> Session]
      BY IdleFields DEF Init
    <2>3. faults \in 0..MaxFaults
      BY DEF Init, IngestionAssumption
    <2>4. QED
      BY <2>1, <2>2, <2>3 DEF Init, TypeInv, Stored
  <1>3. ShapeInv
    BY <1>1, IdleFields DEF ShapeInv
  <1>4. LockInv
    BY <1>1, IdleFields DEF LockInv
  <1>5. OwnInv
    BY <1>1, IdleFields DEF OwnInv, Owns
  <1>6. QED
    BY <1>2, <1>3, <1>4, <1>5 DEF CoreInv

LEMMA CoreNext == IngestionAssumption /\ CoreInv /\ [Next]_vars => CoreInv'
  BY TypeNext, ShapeNext, LockNext, OwnNext DEF CoreInv

LEMMA CoreAlways == Spec => []CoreInv
  <1>1. Init => CoreInv
    BY CoreInit, IngestionAssumption
  <1>2. CoreInv /\ [Next]_vars => CoreInv'
    BY CoreNext, IngestionAssumption
  <1>3. QED
    BY <1>1, <1>2, PTL DEF Spec

\* Every job, session, row, event and bound has its type in every reachable state of the
\* endpoint, the queue and process_webhook (webhooks.py:29-90, worker.py:98-199).
THEOREM IngestionTypeCorrect == Spec => []TypeOK
  <1>1. CoreInv => TypeOK
    BY TypeEnough DEF CoreInv
  <1>2. QED
    BY CoreAlways, <1>1, PTL

(***************************************************************************)
(* Events on file                                                          *)
(***************************************************************************)
LEMMA OnlyCommitFiles ==
  ASSUME IngestionAssumption, CoreInv, [Next]_vars
  PROVE  UNCHANGED <<customer, filed>> \/ \E w \in Workers : Commit(w)
  <1>1. TypeInv /\ ShapeInv /\ OwnInv
    BY DEF CoreInv
  <1>2. Queues => UNCHANGED <<customer, filed>>
    BY DEF Queues
  <1>3. \A w \in Workers : Leaves(w) \/ Lookup(w) \/ Update(w) \/ Insert(w) => UNCHANGED <<customer, filed>>
    BY DEF Leaves, Lookup, Update, Insert
  <1>4. \A w \in Workers, j \in Jobs : Takes(w, j) => UNCHANGED <<customer, filed>>
    BY DEF Takes
  <1>5. \A w \in Workers, r \in Rows : Create(w, r) => UNCHANGED <<customer, filed>>
    BY DEF Create
  <1>6. QED
    BY Zenon, <1>1, StepCases, <1>2, <1>3, <1>4, <1>5

LEMMA FiledNext ==
  ASSUME IngestionAssumption, CoreInv, EventsFiled, [Next]_vars
  PROVE  EventsFiled'
  <1>1. CASE UNCHANGED <<customer, filed>>
    BY <1>1 DEF EventsFiled
  <1>2. ASSUME NEW w \in Workers, Commit(w), NEW e \in Events, filed'[e] # NoRow
        PROVE  customer'[filed'[e]].who = Who[e]
    <2>1. TypeInv /\ ShapeInv /\ LockInv /\ OwnInv
      BY DEF CoreInv
    <2>2. /\ \A r \in Rows : customer'[r] = Visible(w, r)
          /\ filed'[e] = IF session[w].keys[e] # NoRow THEN session[w].keys[e] ELSE filed[e]
      BY <1>2, <2>1, CommitStep
    <2>3. CASE session[w].keys[e] # NoRow
      BY <2>1, <2>2, <2>3, SessionFields DEF OwnInv, Owns
    <2>4. CASE session[w].keys[e] = NoRow
      <3>1. filed[e] \in Rows /\ filed'[e] = filed[e]
        BY <1>2, <2>1, <2>2, <2>4 DEF TypeInv
      <3>2. customer[filed[e]].who = Who[e] /\ Who[e] # NoRow
        BY <1>2, <3>1 DEF EventsFiled, IngestionAssumption, Externals
      <3>3. customer[filed[e]] # NoCustomer
        BY <3>2 DEF NoCustomer
      <3>4. \A r \in Rows : customer[r] # NoCustomer => customer'[r].who = customer[r].who
        BY <1>2, <2>1, CommitKeepsOwner
      <3>5. QED
        BY <3>1, <3>2, <3>3, <3>4
    <2>5. QED
      BY <2>3, <2>4
  <1>3. QED
    BY <1>1, <1>2, OnlyCommitFiles DEF EventsFiled

\* An event is filed under a row that exists and is its own customer's.  The row of an
\* event that a transaction inserts is the one it looked up or created for the event, no
\* transaction gives a row to another customer, and a key and the row it refers to become
\* visible together (worker.py:143-196).
THEOREM FiledUnderItsCustomer == Spec => []EventsFiled
  <1>1. Init => EventsFiled
    BY DEF Init, EventsFiled
  <1>2. CoreInv /\ EventsFiled /\ [Next]_vars => EventsFiled'
    BY FiledNext, IngestionAssumption
  <1>3. QED
    BY CoreAlways, <1>1, <1>2, PTL DEF Spec

LEMMA FiledStays ==
  ASSUME IngestionAssumption, CoreInv, [Next]_vars, NEW e \in Events, filed[e] # NoRow
  PROVE  filed'[e] = filed[e]
  <1>1. TypeInv /\ ShapeInv /\ LockInv
    BY DEF CoreInv
  <1>2. ASSUME NEW w \in Workers, Commit(w) PROVE filed'[e] = filed[e]
    BY <1>1, <1>2, CommitStep DEF LockInv
  <1>3. QED
    BY <1>2, OnlyCommitFiles

LEMMA FollowsFrame ==
  ASSUME IngestionAssumption, CoreInv, DoneInv, [Next]_vars, NEW v \in Workers,
         session'[v] = session[v]
  PROVE  Follows(v)'
  <1>1. CASE session[v].stage = "idle"
    BY <1>1 DEF Follows
  <1>2. CASE session[v].stage # "idle"
    <2>1. Payload(v)' = Payload(v)
      BY <1>2, PayloadKept DEF CoreInv
    <2>2. \A i \in DOMAIN Payload(v) : Payload(v)[i] \in Events
      BY <1>2, PayloadFields DEF CoreInv
    <2>3. \A i \in DOMAIN Payload(v) : filed[Payload(v)[i]] # NoRow => filed'[Payload(v)[i]] # NoRow
      BY <2>2, FiledStays
    <2>4. QED
      BY <2>1, <2>3 DEF DoneInv, Follows
  <1>3. QED
    BY <1>1, <1>2

LEMMA DoneNext ==
  ASSUME IngestionAssumption, CoreInv, DoneInv, DoneIsFiled, [Next]_vars
  PROVE  DoneInv' /\ DoneIsFiled'
  <1>0. TypeInv /\ ShapeInv /\ LockInv /\ OwnInv
    BY DEF CoreInv
  <1>1. ASSUME NEW w \in Workers, \A v \in Others(w) : session'[v] = session[v], Follows(w)'
        PROVE  DoneInv'
    BY <1>1, FollowsFrame DEF DoneInv, Others
  <1>2. ASSUME NEW w \in Workers, UNCHANGED <<job, customer, filed>>, session[w].stage # "idle",
               session'[w].job = session[w].job, session'[w].stage # "ack",
               session'[w].at = session[w].at, session'[w].keys = session[w].keys
        PROVE  Follows(w)'
    <2>1. Payload(w)' = Payload(w)
      BY <1>2 DEF Payload
    <2>2. QED
      BY <1>2, <2>1 DEF DoneInv, Follows
  <1>3. CASE Queues
    <2>1. DoneInv'
      BY <1>3, FollowsFrame DEF Queues, DoneInv
    <2>2. DoneIsFiled'
      BY <1>0, <1>3, QueueStep DEF DoneIsFiled
    <2>3. QED
      BY <2>1, <2>2
  <1>4. ASSUME NEW w \in Workers, NEW j \in Jobs, Takes(w, j) PROVE DoneInv' /\ DoneIsFiled'
    <2>1. /\ UNCHANGED <<customer, filed>> /\ \A v \in Others(w) : session'[v] = session[v]
          /\ \A k \in Jobs \ {j} : job'[k] = job[k]
          /\ job'[j].state = "running" /\ job'[j].payload = job[j].payload
          /\ session'[w].job = j /\ session'[w].at = session[w].at
          /\ session'[w].stage = IF job[j].payload = <<>> THEN "ack" ELSE "lookup"
          /\ session[w].stage = "idle"
      BY <1>0, <1>4, TakeStep
    <2>2. session'[w].at = 1 /\ Payload(w)' = job[j].payload
      <3>1. session[w].at = 1
        BY <1>0, <2>1 DEF ShapeInv
      <3>2. session[w].job' = j
        BY <2>1
      <3>3. Payload(w)' = job'[j].payload
        BY <3>2 DEF Payload
      <3>4. QED
        BY <2>1, <3>1, <3>3
    <2>3. job[j].payload \in Seq(Events)
      <3>1. job[j].payload \in Payloads \cup {<<>>} /\ <<>> \in Seq(Events)
        BY <1>0 DEF TypeInv, Task
      <3>2. QED
        BY <3>1 DEF IngestionAssumption
    <2>4. \A i \in DOMAIN job[j].payload : ~(i < 1) /\ job[j].payload # <<>>
      BY <2>3
    <2>5. Follows(w)'
      BY <2>1, <2>2, <2>4 DEF Follows
    <2>6. DoneIsFiled'
      BY <2>1 DEF DoneIsFiled
    <2>7. QED
      BY <1>1, <2>1, <2>5, <2>6
  <1>5. ASSUME NEW w \in Workers, Leaves(w) PROVE DoneInv' /\ DoneIsFiled'
    <2>1. /\ UNCHANGED <<customer, filed>> /\ \A v \in Others(w) : session'[v] = session[v]
          /\ session'[w] = Idle
          /\ \A k \in Jobs : job'[k].payload = job[k].payload
          /\ \A k \in Jobs \ {session[w].job} : job'[k] = job[k]
          /\ job'[session[w].job].state = "done" => session[w].stage = "ack"
      BY <1>0, <1>5, LeaveStep
    <2>2. Follows(w)'
      BY <2>1, IdleFields DEF Follows
    <2>3. session[w].stage = "ack" =>
            \A i \in DOMAIN job[session[w].job].payload : filed[job[session[w].job].payload[i]] # NoRow
      BY DEF DoneInv, Follows, Payload
    <2>4. ASSUME NEW k \in Jobs, job'[k].state = "done", NEW i \in DOMAIN job'[k].payload
          PROVE  filed'[job'[k].payload[i]] # NoRow
      <3>1. job'[k].payload = job[k].payload /\ UNCHANGED filed
        BY <2>1
      <3>2. CASE k = session[w].job
        BY <2>1, <2>3, <2>4, <3>1, <3>2
      <3>3. CASE k # session[w].job
        BY <2>1, <2>4, <3>1, <3>3 DEF DoneIsFiled
      <3>4. QED
        BY <3>2, <3>3
    <2>5. DoneIsFiled'
      BY <2>4 DEF DoneIsFiled
    <2>6. QED
      BY <1>1, <2>1, <2>2, <2>5
  <1>6. ASSUME UNCHANGED job PROVE DoneIsFiled'
    <2>1. \A k \in Jobs : \A i \in DOMAIN job[k].payload : job[k].payload[i] \in Events
      BY <1>0 DEF TypeInv, Task, IngestionAssumption
    <2>2. QED
      BY <1>6, <2>1, FiledStays DEF DoneIsFiled
  <1>7. ASSUME NEW w \in Workers, Lookup(w) PROVE DoneInv' /\ DoneIsFiled'
    <2>1. /\ UNCHANGED <<job, customer, filed>> /\ session[w].stage = "lookup"
          /\ session'[w].job = session[w].job /\ session'[w].stage \in {"create", "update"}
          /\ session'[w].at = session[w].at /\ session'[w].keys = session[w].keys
          /\ \A v \in Others(w) : session'[v] = session[v]
      BY <1>0, <1>7, LookupStep
    <2>2. Follows(w)'
      BY <1>2, <2>1
    <2>3. QED
      BY <1>1, <1>6, <2>1, <2>2
  <1>8. ASSUME NEW w \in Workers, NEW r \in Rows, Create(w, r) PROVE DoneInv' /\ DoneIsFiled'
    <2>1. /\ UNCHANGED <<job, customer, filed>> /\ session[w].stage = "create"
          /\ session'[w].job = session[w].job /\ session'[w].stage = "insert"
          /\ session'[w].at = session[w].at /\ session'[w].keys = session[w].keys
          /\ \A v \in Others(w) : session'[v] = session[v]
      BY <1>0, <1>8, CreateStep
    <2>2. Follows(w)'
      BY <1>2, <2>1
    <2>3. QED
      BY <1>1, <1>6, <2>1, <2>2
  <1>9. ASSUME NEW w \in Workers, Update(w) PROVE DoneInv' /\ DoneIsFiled'
    <2>1. /\ UNCHANGED <<job, customer, filed>> /\ session[w].stage = "update"
          /\ session'[w].job = session[w].job /\ session'[w].stage = "insert"
          /\ session'[w].at = session[w].at /\ session'[w].keys = session[w].keys
          /\ \A v \in Others(w) : session'[v] = session[v]
      BY <1>0, <1>9, UpdateStep
    <2>2. Follows(w)'
      BY <1>2, <2>1
    <2>3. QED
      BY <1>1, <1>6, <2>1, <2>2
  <1>10. ASSUME NEW w \in Workers, Insert(w) PROVE DoneInv' /\ DoneIsFiled'
    <2>1. /\ UNCHANGED <<job, customer, filed>> /\ session[w].stage = "insert"
          /\ session'[w].job = session[w].job /\ session'[w].at = session[w].at + 1
          /\ session'[w].stage \in {"commit", "lookup"}
          /\ session'[w].keys[Event(w)] =
               IF filed[Event(w)] # NoRow \/ session[w].keys[Event(w)] # NoRow
               THEN session[w].keys[Event(w)] ELSE session[w].row
          /\ \A e \in Events \ {Event(w)} : session'[w].keys[e] = session[w].keys[e]
          /\ \A v \in Others(w) : session'[v] = session[v]
      BY <1>0, <1>10, InsertStep
    <2>2. Payload(w)' = Payload(w) /\ Event(w) = Payload(w)[session[w].at]
      BY <2>1 DEF Payload, Event
    <2>3. /\ \A i \in DOMAIN Payload(w) : Payload(w)[i] \in Events /\ i \in Nat
          /\ session[w].at \in Nat /\ session[w].row # NoRow
      BY <1>0, <2>1, PayloadFields, SessionFields DEF ShapeInv, IngestionAssumption
    <2>4. ASSUME NEW i \in DOMAIN Payload(w), i < session[w].at + 1
          PROVE  filed[Payload(w)[i]] # NoRow \/ session'[w].keys[Payload(w)[i]] # NoRow
      <3>1. i < session[w].at \/ i = session[w].at
        BY <2>3, <2>4
      <3>2. CASE Payload(w)[i] = Event(w)
        BY <2>1, <2>3, <3>2
      <3>3. CASE i < session[w].at /\ Payload(w)[i] # Event(w)
        BY <2>1, <2>3, <3>3 DEF DoneInv, Follows
      <3>4. QED
        BY <2>2, <3>1, <3>2, <3>3
    <2>5. Follows(w)'
      BY <2>1, <2>2, <2>4 DEF Follows
    <2>6. QED
      BY <1>1, <1>6, <2>1, <2>5
  <1>11. ASSUME NEW w \in Workers, Commit(w) PROVE DoneInv' /\ DoneIsFiled'
    <2>1. /\ UNCHANGED job /\ session[w].stage = "commit"
          /\ session'[w].job = session[w].job /\ session'[w].at = 1
          /\ session'[w].stage = "ack"
          /\ \A e \in Events : filed'[e] = IF session[w].keys[e] # NoRow THEN session[w].keys[e]
                                           ELSE filed[e]
          /\ \A v \in Others(w) : session'[v] = session[v]
      BY <1>0, <1>11, CommitStep
    <2>2. Payload(w)' = Payload(w)
      BY <2>1 DEF Payload
    <2>3. /\ \A i \in DOMAIN Payload(w) : Payload(w)[i] \in Events /\ i \in 1..Len(Payload(w))
          /\ Len(Payload(w)) \in Nat /\ session[w].at = Len(Payload(w)) + 1
      BY <1>0, <2>1, PayloadFields DEF ShapeInv
    <2>4. \A i \in DOMAIN Payload(w) :
            filed[Payload(w)[i]] # NoRow \/ session[w].keys[Payload(w)[i]] # NoRow
      <3>1. \A i \in DOMAIN Payload(w) : i < session[w].at
        BY <2>3
      <3>2. QED
        BY <2>1, <3>1 DEF DoneInv, Follows
    <2>5. \A i \in DOMAIN Payload(w) : filed'[Payload(w)[i]] # NoRow
      BY <2>1, <2>3, <2>4
    <2>6. Follows(w)'
      BY <2>1, <2>2, <2>5 DEF Follows
    <2>7. QED
      BY <1>1, <1>6, <2>1, <2>6
  <1>12. QED
    BY Zenon, <1>0, StepCases, <1>3, <1>4, <1>5, <1>7, <1>8, <1>9, <1>10, <1>11

LEMMA DoneAlways == Spec => [](DoneInv /\ DoneIsFiled)
  <1>1. Init => DoneInv /\ DoneIsFiled
    <2>1. Init => \A w \in Workers : session[w].stage = "idle"
      BY IdleFields DEF Init
    <2>2. QED
      BY <2>1 DEF Init, DoneInv, Follows, DoneIsFiled
  <1>2. CoreInv /\ DoneInv /\ DoneIsFiled /\ [Next]_vars => DoneInv' /\ DoneIsFiled'
    BY DoneNext, IngestionAssumption
  <1>3. QED
    BY CoreAlways, <1>1, <1>2, PTL DEF Spec

\* Every event of a job that is done is filed: each insert filed the event, found it
\* filed or waited until the transaction that was inserting it had committed or failed
\* (worker.py:176-197).
THEOREM DoneMeansFiled == Spec => []DoneIsFiled
  BY DoneAlways, PTL

(***************************************************************************)
(* Surveys                                                                 *)
(***************************************************************************)
LEMMA SurveyNext ==
  ASSUME IngestionAssumption, CoreInv, SurveyInv, CancellationsSurveyed, [Next]_vars
  PROVE  SurveyInv' /\ CancellationsSurveyed'
  <1>0. TypeInv /\ ShapeInv /\ LockInv /\ OwnInv
    BY DEF CoreInv
  <1>0a. \A e \in Cancels : e \in Events /\ surveys[e] \in Nat
    BY <1>0 DEF TypeInv, IngestionAssumption
  <1>1. CASE Queues
    BY <1>1 DEF Queues, SurveyInv, CancellationsSurveyed
  <1>2. ASSUME NEW w \in Workers, \A v \in Others(w) : session'[v] = session[v],
               UNCHANGED <<surveys, filed>>,
               \A e \in Events : session'[w].keys[e] \in {NoRow, session[w].keys[e]}
        PROVE  SurveyInv' /\ CancellationsSurveyed'
    BY <1>0a, <1>2 DEF SurveyInv, CancellationsSurveyed, Others
  <1>3. ASSUME NEW w \in Workers, NEW j \in Jobs, Takes(w, j)
        PROVE  SurveyInv' /\ CancellationsSurveyed'
    <2>1. /\ UNCHANGED <<surveys, filed>> /\ \A v \in Others(w) : session'[v] = session[v]
          /\ session'[w].keys = session[w].keys
      BY <1>0, <1>3, TakeStep
    <2>2. QED
      BY <1>2, <2>1
  <1>4. ASSUME NEW w \in Workers, Leaves(w) PROVE SurveyInv' /\ CancellationsSurveyed'
    <2>1. /\ UNCHANGED <<surveys, filed>> /\ \A v \in Others(w) : session'[v] = session[v]
          /\ session'[w] = Idle
      BY <1>0, <1>4, LeaveStep
    <2>2. QED
      BY <1>2, <2>1, IdleFields
  <1>5. ASSUME NEW w \in Workers, Lookup(w) PROVE SurveyInv' /\ CancellationsSurveyed'
    <2>1. /\ UNCHANGED <<surveys, filed>> /\ \A v \in Others(w) : session'[v] = session[v]
          /\ session'[w].keys = session[w].keys
      BY <1>0, <1>5, LookupStep
    <2>2. QED
      BY <1>2, <2>1
  <1>6. ASSUME NEW w \in Workers, NEW r \in Rows, Create(w, r)
        PROVE  SurveyInv' /\ CancellationsSurveyed'
    <2>1. /\ UNCHANGED <<surveys, filed>> /\ \A v \in Others(w) : session'[v] = session[v]
          /\ session'[w].keys = session[w].keys
      BY <1>0, <1>6, CreateStep
    <2>2. QED
      BY <1>2, <2>1
  <1>7. ASSUME NEW w \in Workers, Update(w) PROVE SurveyInv' /\ CancellationsSurveyed'
    <2>1. /\ UNCHANGED <<surveys, filed>> /\ \A v \in Others(w) : session'[v] = session[v]
          /\ session'[w].keys = session[w].keys
      BY <1>0, <1>7, UpdateStep
    <2>2. QED
      BY <1>2, <2>1
  <1>8. ASSUME NEW w \in Workers, Insert(w) PROVE SurveyInv' /\ CancellationsSurveyed'
    <2>1. /\ UNCHANGED filed /\ \A v \in Others(w) : session'[v] = session[v]
          /\ \A e \in Events \ {Event(w)} : session'[w].keys[e] = session[w].keys[e]
          /\ surveys' \in [Events -> Nat] /\ \A e \in Events : surveys'[e] >= surveys[e]
          /\ Event(w) \in Cancels => surveys'[Event(w)] > 0
      BY <1>0, <1>8, InsertStep
    <2>2. \A e \in Cancels : surveys'[e] \in Nat /\ (surveys[e] > 0 => surveys'[e] > 0)
      <3>1. \A e \in Cancels : surveys'[e] \in Nat /\ surveys'[e] >= surveys[e]
        BY <1>0a, <2>1
      <3>2. QED
        BY <1>0a, <3>1
    <2>3. CancellationsSurveyed'
      BY <2>1, <2>2 DEF CancellationsSurveyed
    <2>4. ASSUME NEW e \in Cancels, NEW v \in Workers, session'[v].keys[e] # NoRow
          PROVE  surveys'[e] > 0
      <3>1. CASE v = w /\ e = Event(w)
        BY <2>1, <3>1
      <3>2. CASE ~(v = w /\ e = Event(w))
        <4>1. session[v].keys[e] # NoRow
          BY <1>0a, <2>1, <2>4, <3>2 DEF Others
        <4>2. QED
          BY <2>2, <4>1 DEF SurveyInv
      <3>3. QED
        BY <3>1, <3>2
    <2>5. QED
      BY <2>3, <2>4 DEF SurveyInv
  <1>9. ASSUME NEW w \in Workers, Commit(w) PROVE SurveyInv' /\ CancellationsSurveyed'
    <2>1. /\ UNCHANGED surveys /\ \A v \in Others(w) : session'[v] = session[v]
          /\ \A e \in Events : session'[w].keys[e] = NoRow
          /\ \A e \in Events : filed'[e] = IF session[w].keys[e] # NoRow THEN session[w].keys[e]
                                           ELSE filed[e]
      BY <1>0, <1>9, CommitStep
    <2>2. CancellationsSurveyed'
      BY <1>0a, <2>1 DEF SurveyInv, CancellationsSurveyed
    <2>3. SurveyInv'
      BY <1>0a, <2>1 DEF SurveyInv, Others
    <2>4. QED
      BY <2>2, <2>3
  <1>10. QED
    BY Zenon, <1>0, StepCases, <1>1, <1>3, <1>4, <1>5, <1>6, <1>7, <1>8, <1>9

LEMMA SurveyAlways == Spec => [](SurveyInv /\ CancellationsSurveyed)
  <1>1. Init => SurveyInv /\ CancellationsSurveyed
    <2>1. Init => \A w \in Workers, e \in Events : session[w].keys[e] = NoRow
      BY IdleFields DEF Init
    <2>2. Cancels \subseteq Events
      BY IngestionAssumption DEF IngestionAssumption
    <2>3. QED
      BY <2>1, <2>2 DEF Init, SurveyInv, CancellationsSurveyed
  <1>2. CoreInv /\ SurveyInv /\ CancellationsSurveyed /\ [Next]_vars =>
          SurveyInv' /\ CancellationsSurveyed'
    BY SurveyNext, IngestionAssumption
  <1>3. QED
    BY CoreAlways, <1>1, <1>2, PTL DEF Spec

\* The customer of a cancellation on file has been mailed a survey: whoever inserted the
\* event had sent it before the commit, and a transaction that failed files nothing
\* (worker.py:176-197).
THEOREM CancelledAreAsked == Spec => []CancellationsSurveyed
  BY SurveyAlways, PTL

(***************************************************************************)
(* Claims to a customer                                                    *)
(***************************************************************************)
\* A step that makes no row and no creator keeps the claims apart.
LEMMA ClaimShrinks ==
  ASSUME ClaimInv, twins \subseteq twins',
         \A r \in Rows, c \in Externals : Belongs(r, c)' => Belongs(r, c),
         \A v \in Workers, c \in Externals : Creator(v, c)' => Creator(v, c)
  PROVE  ClaimInv'
  <1>1. ASSUME NEW c \in Externals \ twins'
        PROVE  /\ \A r, q \in Rows : Belongs(r, c)' /\ Belongs(q, c)' => r = q
               /\ \A w \in Workers : Creator(w, c)' =>
                    /\ \A r \in Rows : ~Belongs(r, c)'
                    /\ \A v \in Others(w) : ~Creator(v, c)'
    BY DEF ClaimInv, Others
  <1>2. QED
    BY <1>1 DEF ClaimInv, Others

\* A creator among the sessions a step leaves alone was one before.
LEMMA CreatorFrame ==
  ASSUME IngestionAssumption, CoreInv, [Next]_vars, NEW v \in Workers,
         session'[v] = session[v]
  PROVE  \A c \in Externals : Creator(v, c)' <=> Creator(v, c)
  <1>1. session[v].stage = "create" => Event(v)' = Event(v)
    BY PayloadKept DEF CoreInv
  <1>2. QED
    BY <1>1 DEF Creator

LEMMA ClaimNext ==
  ASSUME IngestionAssumption, CoreInv, ClaimInv, [Next]_vars
  PROVE  ClaimInv'
  <1>0. TypeInv /\ ShapeInv /\ LockInv /\ OwnInv
    BY DEF CoreInv
  <1>0a. \A c \in Externals : c # NoRow /\ NoCustomer.who # c
    BY DEF IngestionAssumption, NoCustomer
  <1>1. CASE Queues
    <2>1. \A r \in Rows, c \in Externals : Belongs(r, c)' => Belongs(r, c)
      BY <1>1 DEF Queues, Belongs
    <2>2. \A v \in Workers, c \in Externals : Creator(v, c)' => Creator(v, c)
      BY <1>1, CreatorFrame DEF Queues
    <2>3. QED
      BY <1>1, <2>1, <2>2, ClaimShrinks DEF Queues
  <1>2. ASSUME NEW w \in Workers, \A v \in Others(w) : session'[v] = session[v],
               twins \subseteq twins', session'[w].stage # "create",
               \A r \in Rows, c \in Externals : customer'[r].who = c => Belongs(r, c),
               \A r \in Rows, c \in Externals : session'[w].draft[r].who = c => Belongs(r, c)
        PROVE  ClaimInv'
    <2>1. \A r \in Rows, c \in Externals : Belongs(r, c)' => Belongs(r, c)
      BY <1>2 DEF Belongs, Others
    <2>2. \A v \in Workers, c \in Externals : Creator(v, c)' => Creator(v, c)
      <3>1. ~ \E c : Creator(w, c)'
        BY <1>2 DEF Creator
      <3>2. QED
        BY <1>2, <3>1, CreatorFrame DEF Others
    <2>3. QED
      BY <1>2, <2>1, <2>2, ClaimShrinks
  <1>3. ASSUME NEW w \in Workers, NEW j \in Jobs, Takes(w, j) PROVE ClaimInv'
    <2>1. /\ UNCHANGED <<customer, twins>> /\ \A v \in Others(w) : session'[v] = session[v]
          /\ session'[w].draft = session[w].draft /\ session'[w].stage # "create"
      BY <1>0, <1>3, TakeStep
    <2>2. QED
      BY <1>2, <2>1 DEF Belongs
  <1>4. ASSUME NEW w \in Workers, Leaves(w) PROVE ClaimInv'
    <2>1. /\ UNCHANGED <<customer, twins>> /\ \A v \in Others(w) : session'[v] = session[v]
          /\ session'[w] = Idle
      BY <1>0, <1>4, LeaveStep
    <2>2. QED
      BY <1>0a, <1>2, <2>1, IdleFields DEF Belongs
  <1>5. ASSUME NEW w \in Workers, Lookup(w) PROVE ClaimInv'
    <2>1. /\ UNCHANGED customer /\ \A v \in Others(w) : session'[v] = session[v]
          /\ session'[w].draft = session[w].draft /\ twins \subseteq twins'
          /\ session[w].stage = "lookup" /\ Event(w)' = Event(w)
      BY <1>0, <1>5, LookupStep, PayloadKept
    <2>2. CASE session'[w].stage # "create"
      BY <1>2, <2>1, <2>2 DEF Belongs
    <2>3. CASE session'[w].stage = "create"
      <3> DEFINE d == Who[Event(w)]
      <3>1. /\ Matches(w, d) = {} /\ (Expected(w, d) => d \in twins')
            /\ d \in Externals
        BY <1>0, <1>5, <2>1, <2>3, LookupStep, EventFields
      <3>2. \A r \in Rows : Visible(w, r).who # d
        BY <3>1 DEF Matches
      <3>3. ASSUME d \notin twins', NEW r \in Rows PROVE ~Belongs(r, d)
        <4>1. customer[r].who # d
          BY <1>0, <1>0a, <3>1, <3>2 DEF OwnInv, Owns, Visible
        <4>2. session[w].draft[r].who # d
          BY <1>0a, <3>1, <3>2 DEF Visible
        <4>3. ASSUME NEW v \in Others(w), session[v].draft[r].who = d PROVE FALSE
          <5>1. customer[r] # NoCustomer
            BY <3>1, <3>3, <4>3 DEF Expected
          <5>2. session[v].draft[r] # NoCustomer
            BY <1>0a, <3>1, <4>3
          <5>3. session[v].draft[r].who = customer[r].who
            BY <1>0, <5>1, <5>2 DEF OwnInv, Owns, Others
          <5>4. QED
            BY <4>1, <4>3, <5>3
        <4>4. QED
          BY <4>1, <4>2, <4>3 DEF Belongs, Others
      <3>4. ASSUME d \notin twins', NEW v \in Others(w) PROVE ~Creator(v, d)
        BY <3>1, <3>4 DEF Expected, Creator
      <3>5. \A r \in Rows, c \in Externals : Belongs(r, c)' <=> Belongs(r, c)
        BY <2>1 DEF Belongs, Others
      <3>6. /\ \A c : Creator(w, c)' => c = d
            /\ \A v \in Others(w), c \in Externals : Creator(v, c)' => Creator(v, c)
        BY <2>1, CreatorFrame DEF Creator, Others
      <3> HIDE DEF d
      <3>7. ASSUME NEW c \in Externals \ twins'
            PROVE  /\ \A r, q \in Rows : Belongs(r, c)' /\ Belongs(q, c)' => r = q
                   /\ \A u \in Workers : Creator(u, c)' =>
                        /\ \A r \in Rows : ~Belongs(r, c)'
                        /\ \A v \in Others(u) : ~Creator(v, c)'
        <4>1. c \in Externals \ twins
          BY <2>1
        <4>2. CASE c = d
          BY <3>3, <3>4, <3>5, <3>6, <4>2 DEF Others
        <4>3. CASE c # d
          BY <3>5, <3>6, <4>1, <4>3 DEF ClaimInv, Others
        <4>4. QED
          BY <4>2, <4>3
      <3>8. QED
        BY <3>7 DEF ClaimInv, Others
    <2>4. QED
      BY <2>2, <2>3
  <1>6. ASSUME NEW w \in Workers, NEW s \in Rows, Create(w, s) PROVE ClaimInv'
    <2> DEFINE d == Who[Event(w)]
    <2>1. /\ UNCHANGED <<customer, twins>> /\ \A v \in Others(w) : session'[v] = session[v]
          /\ session[w].stage = "create" /\ session'[w].stage = "insert"
          /\ session'[w].draft[s].who = d
          /\ \A q \in Rows \ {s} : session'[w].draft[q] = session[w].draft[q]
          /\ ~Taken(s)
      BY <1>0, <1>6, CreateStep
    <2>2. Creator(w, d) /\ d \in Externals
      BY <1>0, <2>1, EventFields DEF Creator
    <2>3. d \notin twins =>
            /\ \A r \in Rows : ~Belongs(r, d)
            /\ \A v \in Others(w) : ~Creator(v, d)
      BY <2>2 DEF ClaimInv
    <2>4. \A r \in Rows, c \in Externals : Belongs(r, c)' => Belongs(r, c) \/ (r = s /\ c = d)
      <3>1. \A r \in Rows \ {s}, c \in Externals : Belongs(r, c)' => Belongs(r, c)
        BY <2>1 DEF Belongs, Others
      <3>2. \A c \in Externals : Belongs(s, c)' => c = d
        BY <1>0a, <2>1 DEF Belongs, Others, Taken
      <3>3. QED
        BY <3>1, <3>2
    <2>5. /\ \A c : ~Creator(w, c)'
          /\ \A v \in Others(w), c \in Externals : Creator(v, c)' => Creator(v, c)
      BY <2>1, CreatorFrame DEF Creator, Others
    <2> HIDE DEF d
    <2>6. ASSUME NEW c \in Externals \ twins'
          PROVE  /\ \A r, q \in Rows : Belongs(r, c)' /\ Belongs(q, c)' => r = q
                 /\ \A u \in Workers : Creator(u, c)' =>
                      /\ \A r \in Rows : ~Belongs(r, c)'
                      /\ \A v \in Others(u) : ~Creator(v, c)'
      <3>1. c \in Externals \ twins
        BY <2>1
      <3>2. CASE c = d
        BY <2>3, <2>4, <2>5, <3>1, <3>2 DEF Others
      <3>3. CASE c # d
        BY <2>4, <2>5, <3>1, <3>3 DEF ClaimInv, Others
      <3>4. QED
        BY <3>2, <3>3
    <2>7. QED
      BY <2>6 DEF ClaimInv, Others
  <1>7. ASSUME NEW w \in Workers, Update(w) PROVE ClaimInv'
    <2>1. /\ UNCHANGED <<customer, twins>> /\ \A v \in Others(w) : session'[v] = session[v]
          /\ session'[w].stage = "insert" /\ session[w].stage = "update"
          /\ session'[w].draft[session[w].row] =
               IF Changed(w) THEN Flushed(w) ELSE session[w].draft[session[w].row]
          /\ \A q \in Rows \ {session[w].row} : session'[w].draft[q] = session[w].draft[q]
      BY <1>0, <1>7, UpdateStep
    <2>2. Flushed(w).who = Visible(w, session[w].row).who
      BY <1>0, <2>1, RevisedFields
    <2>3. \A r \in Rows, c \in Externals : session'[w].draft[r].who = c => Belongs(r, c)
      BY <2>1, <2>2 DEF Belongs, Visible
    <2>4. \A r \in Rows, c \in Externals : customer'[r].who = c => Belongs(r, c)
      BY <2>1 DEF Belongs
    <2>5. QED
      BY <1>2, <2>1, <2>3, <2>4
  <1>8. ASSUME NEW w \in Workers, Insert(w) PROVE ClaimInv'
    <2>1. /\ UNCHANGED <<customer, twins>> /\ \A v \in Others(w) : session'[v] = session[v]
          /\ session'[w].draft = session[w].draft /\ session'[w].stage # "create"
      BY <1>0, <1>8, InsertStep
    <2>2. QED
      BY <1>2, <2>1 DEF Belongs
  <1>9. ASSUME NEW w \in Workers, Commit(w) PROVE ClaimInv'
    <2>1. /\ UNCHANGED twins /\ \A v \in Others(w) : session'[v] = session[v]
          /\ session'[w].stage = "ack"
          /\ \A r \in Rows : session'[w].draft[r] = NoCustomer
          /\ \A r \in Rows : customer'[r] = Visible(w, r)
      BY <1>0, <1>9, CommitStep
    <2>2. \A r \in Rows, c \in Externals : customer'[r].who = c => Belongs(r, c)
      BY <2>1 DEF Belongs, Visible
    <2>3. \A r \in Rows, c \in Externals : session'[w].draft[r].who = c => Belongs(r, c)
      BY <1>0a, <2>1
    <2>4. QED
      BY <1>2, <2>1, <2>2, <2>3
  <1>10. QED
    BY Zenon, <1>0, StepCases, <1>1, <1>3, <1>4, <1>5, <1>6, <1>7, <1>8, <1>9

\* An external customer has one row, unless two transactions looked the customer up at
\* once and neither saw the other's row: only then do two of them create it, and no other
\* step gives a row to a customer (worker.py:143-158).
THEOREM CustomersAreSingle == Spec => []OneRowPerCustomer
  <1>1. Init => ClaimInv
    <2>1. Init => \A w \in Workers : /\ session[w].stage = "idle"
                                     /\ \A r \in Rows : session[w].draft[r] = NoCustomer
      BY IdleFields DEF Init
    <2>2. \A c \in Externals : NoCustomer.who # c
      BY IngestionAssumption DEF IngestionAssumption, NoCustomer
    <2>3. QED
      BY <2>1, <2>2 DEF Init, ClaimInv, Belongs, Creator
  <1>2. CoreInv /\ ClaimInv /\ [Next]_vars => ClaimInv'
    BY ClaimNext, IngestionAssumption
  <1>3. CoreInv /\ ClaimInv => OneRowPerCustomer
    <2>1. CoreInv => \A r \in Rows : customer[r] # NoCustomer => customer[r].who \in Externals
      BY DEF CoreInv, TypeInv, Stored, Customer
    <2>2. QED
      BY <2>1 DEF ClaimInv, Belongs, OneRowPerCustomer
  <1>4. QED
    BY CoreAlways, <1>1, <1>2, <1>3, PTL DEF Spec

(***************************************************************************)
(* When a customer was last seen                                           *)
(***************************************************************************)
LEMMA SeenTimes ==
  ASSUME IngestionAssumption
  PROVE  /\ \A x \in Customer : x.lastSeen \in Nat
         /\ \A e \in Events : When[e] \in Nat
  BY DEF IngestionAssumption, Customer, Moments

\* A session that does nothing sees the same while nobody commits.
LEMMA SeesFrame ==
  ASSUME IngestionAssumption, CoreInv, [Next]_vars, NEW v \in Workers,
         UNCHANGED customer, session'[v] = session[v], NEW r \in Rows, Sees(v, r)
  PROVE  Sees(v, r)'
  <1>1. Visible(v, r)' = Visible(v, r)
    BY DEF Visible
  <1>2. session[v].stage = "insert" => Event(v)' = Event(v)
    BY PayloadKept DEF CoreInv
  <1>3. QED
    BY <1>1, <1>2 DEF Sees

\* A commit takes no row that is not shared back in time.
LEMMA CommitKeepsTime ==
  ASSUME IngestionAssumption, CoreInv, SeenInv, NEW w \in Workers, Commit(w),
         NEW r \in Rows \ shared, customer[r] # NoCustomer
  PROVE  customer'[r].lastSeen >= customer[r].lastSeen
  <1>1. TypeInv /\ ShapeInv
    BY DEF CoreInv
  <1>2. customer'[r] = Visible(w, r)
    BY <1>1, CommitStep
  <1>3. customer[r] \in Customer
    BY <1>1, Nobody DEF TypeInv
  <1>4. session[w].draft[r] # NoCustomer => session[w].draft[r].lastSeen >= customer[r].lastSeen
    BY DEF SeenInv, Sees
  <1>5. QED
    BY <1>2, <1>3, <1>4, SeenTimes DEF Visible

\* A step of w leaves a row that is not shared to whoever has it, if w has it only where
\* it had it before.
LEMMA SeenOthers ==
  ASSUME IngestionAssumption, CoreInv, SeenInv, [Next]_vars, NEW w \in Workers,
         UNCHANGED customer, shared \subseteq shared',
         \A v \in Others(w) : session'[v] = session[v],
         \A r \in Rows \ shared' : Handles(w, r)' =>
           Handles(w, r) \/ \A v \in Others(w) : ~Handles(v, r),
         \A r \in Rows \ shared' : Sees(w, r)'
  PROVE  SeenInv'
  <1>1. ASSUME NEW r \in Rows \ shared'
        PROVE  /\ \A u, v \in Workers : Handles(u, r)' /\ Handles(v, r)' => u = v
               /\ \A v \in Workers : Sees(v, r)'
    <2>1. r \in Rows \ shared /\ r \in Rows
      OBVIOUS
    <2>2. \A v \in Others(w) : Handles(v, r)' <=> Handles(v, r)
      BY DEF Handles
    <2>3. \A u, v \in Workers : Handles(u, r)' /\ Handles(v, r)' => u = v
      BY <2>1, <2>2 DEF SeenInv, Others
    <2>4. \A v \in Others(w) : v \in Workers /\ Sees(v, r)
      BY <2>1 DEF SeenInv, Others
    <2>5. \A v \in Others(w) : Sees(v, r)'
      BY <2>1, <2>4, SeesFrame
    <2>6. QED
      BY <2>3, <2>5 DEF Others
  <1>2. QED
    BY <1>1 DEF SeenInv

LEMMA SeenNext ==
  ASSUME IngestionAssumption, CoreInv, SeenInv, [Next]_vars
  PROVE  SeenInv'
  <1>0. TypeInv /\ ShapeInv /\ LockInv /\ OwnInv
    BY DEF CoreInv
  <1>1. CASE Queues
    <2>1. UNCHANGED <<customer, session, shared>>
      BY <1>1 DEF Queues
    <2>2. \A v \in Workers, r \in Rows \ shared : Sees(v, r)'
      BY <2>1, SeesFrame DEF SeenInv
    <2>3. \A v \in Workers, r \in Rows : Handles(v, r)' <=> Handles(v, r)
      BY <2>1 DEF Handles
    <2>4. QED
      BY <2>1, <2>2, <2>3 DEF SeenInv
  <1>2. ASSUME NEW w \in Workers, NEW j \in Jobs, Takes(w, j) PROVE SeenInv'
    <2>1. /\ UNCHANGED <<customer, shared>> /\ \A v \in Others(w) : session'[v] = session[v]
          /\ session'[w].draft = session[w].draft /\ session'[w].keys = session[w].keys
          /\ session'[w].row = session[w].row /\ session[w].stage = "idle"
      BY <1>0, <1>2, TakeStep
    <2>2. /\ session'[w].row = NoRow
          /\ \A r \in Rows : session'[w].draft[r] = NoCustomer /\ r # NoRow
          /\ \A e \in Events : session'[w].keys[e] = NoRow
      BY <1>0, <2>1 DEF ShapeInv, IngestionAssumption
    <2>3. \A r \in Rows : Sees(w, r)' /\ ~Handles(w, r)'
      BY <2>2 DEF Sees, Handles
    <2>4. QED
      BY <2>1, <2>3, SeenOthers
  <1>3. ASSUME NEW w \in Workers, Leaves(w) PROVE SeenInv'
    <2>1. /\ UNCHANGED <<customer, shared>> /\ \A v \in Others(w) : session'[v] = session[v]
          /\ session'[w] = Idle
      BY <1>0, <1>3, LeaveStep
    <2>2. /\ session'[w].row = NoRow
          /\ \A r \in Rows : session'[w].draft[r] = NoCustomer /\ r # NoRow
          /\ \A e \in Events : session'[w].keys[e] = NoRow
      BY <2>1, IdleFields DEF IngestionAssumption
    <2>3. \A r \in Rows : Sees(w, r)' /\ ~Handles(w, r)'
      BY <2>2 DEF Sees, Handles
    <2>4. QED
      BY <2>1, <2>3, SeenOthers
  <1>4. ASSUME NEW w \in Workers, Lookup(w) PROVE SeenInv'
    <2>1. /\ UNCHANGED customer /\ \A v \in Others(w) : session'[v] = session[v]
          /\ session'[w].draft = session[w].draft /\ session'[w].keys = session[w].keys
          /\ shared \subseteq shared'
      BY <1>0, <1>4, LookupStep
    <2>2. \A r \in Rows : Visible(w, r)' = Visible(w, r)
      BY <2>1 DEF Visible
    <2>3. \/ session'[w].stage = "create" /\ session'[w].row = NoRow
          \/ /\ session'[w].stage = "update"
             /\ session'[w].copy = IF session'[w].row = session[w].row THEN session[w].copy
                                   ELSE Visible(w, session'[w].row)
             /\ Handled(w, session'[w].row) => session'[w].row \in shared'
      BY <1>0, <1>4, LookupStep
    <2>4. ASSUME NEW r \in Rows \ shared', Handles(w, r)'
          PROVE  Handles(w, r) \/ \A v \in Others(w) : ~Handles(v, r)
      <3>1. r # NoRow
        BY DEF IngestionAssumption
      <3>2. CASE session'[w].row = r
        BY <2>3, <3>1, <3>2 DEF Handles, Handled
      <3>3. CASE session'[w].row # r
        BY <2>1, <2>4, <3>3 DEF Handles
      <3>4. QED
        BY <3>2, <3>3
    <2>5. ASSUME NEW r \in Rows \ shared' PROVE Sees(w, r)'
      <3>1. r # NoRow /\ Sees(w, r)
        BY <2>1 DEF IngestionAssumption, SeenInv
      <3>2. session'[w].row = r => session'[w].copy.lastSeen = Visible(w, r)'.lastSeen
        BY <2>2, <2>3, <3>1 DEF Sees
      <3>3. /\ session'[w].stage # "insert"
            /\ session'[w].draft[r] # NoCustomer /\ customer'[r] # NoCustomer =>
                 session'[w].draft[r].lastSeen >= customer'[r].lastSeen
            /\ \A e \in Events : session'[w].keys[e] = r => Visible(w, r)'.lastSeen >= When[e]
        BY <2>1, <2>2, <2>3, <3>1 DEF Sees
      <3>4. QED
        BY <3>2, <3>3 DEF Sees
    <2>6. QED
      BY <2>1, <2>4, <2>5, SeenOthers
  <1>5. ASSUME NEW w \in Workers, NEW s \in Rows, Create(w, s) PROVE SeenInv'
    <2>1. /\ UNCHANGED <<customer, shared>> /\ \A v \in Others(w) : session'[v] = session[v]
          /\ session'[w].keys = session[w].keys /\ session'[w].row = s
          /\ session'[w].copy.lastSeen = When[Event(w)] /\ session'[w].copy \in Customer
          /\ session'[w].draft[s] = session'[w].copy
          /\ \A q \in Rows \ {s} : session'[w].draft[q] = session[w].draft[q]
          /\ ~Taken(s) /\ session[w].stage = "create"
      BY <1>0, <1>5, CreateStep
    <2>2. Event(w)' = Event(w) /\ Event(w) \in Events
      BY <1>0, <1>5, <2>1, CreateStep, PayloadKept, EventFields
    <2>3. \A v \in Workers : Visible(v, s) = NoCustomer /\ session[v].draft[s] = NoCustomer
      BY <2>1 DEF Visible, Taken
    <2>4. \A v \in Workers : session[v].row # s
      <3>1. \A v \in Workers : session[v].row # NoRow =>
              session[v].copy.who # NoRow /\ session[v].copy.who = Visible(v, session[v].row).who
        BY <1>0, SessionFields, Nobody DEF OwnInv, Owns
      <3>2. QED
        BY <2>3, <3>1, Nobody DEF IngestionAssumption
    <2>5. \A v \in Others(w) : ~Handles(v, s)
      BY <2>3, <2>4 DEF Handles, Others
    <2>6. \A e \in Events : session[w].keys[e] # s
      BY <1>0, <2>3, Nobody DEF OwnInv, Owns, IngestionAssumption, Externals
    <2>7. /\ \A q \in Rows \ {s} : Visible(w, q)' = Visible(w, q)
          /\ Visible(w, s)' = session'[w].copy
          /\ customer[s] = NoCustomer
      BY <2>1, Nobody DEF Visible, Taken
    <2>8. \A r \in Rows : Handles(w, r)' => r = s \/ Handles(w, r)
      BY <2>1 DEF Handles
    <2>9. ASSUME NEW r \in Rows \ shared' PROVE Sees(w, r)'
      <3>1. Sees(w, r)
        BY <2>1 DEF SeenInv
      <3>2. CASE r = s
        <4>1. When[Event(w)] \in Nat
          BY <2>2, SeenTimes
        <4>2. Visible(w, r)'.lastSeen = session'[w].copy.lastSeen
          BY <2>7, <3>2
        <4>3. Visible(w, r)'.lastSeen >= When[Event(w)]'
          BY <2>1, <2>2, <4>1, <4>2
        <4>4. \A e \in Events : session'[w].keys[e] # r
          BY <2>1, <2>6, <3>2
        <4>5. customer'[r] = NoCustomer
          BY <2>1, <2>7, <3>2
        <4>6. QED
          BY <4>2, <4>3, <4>4, <4>5 DEF Sees
      <3>3. CASE r # s
        <4>1. Visible(w, r)' = Visible(w, r) /\ session'[w].draft[r] = session[w].draft[r]
          BY <2>1, <2>7, <3>3
        <4>2. QED
          BY <2>1, <3>1, <3>3, <4>1 DEF Sees
      <3>4. QED
        BY <3>2, <3>3
    <2>10. QED
      BY <2>1, <2>5, <2>8, <2>9, SeenOthers
  <1>6. ASSUME NEW w \in Workers, Update(w) PROVE SeenInv'
    <2>1. /\ UNCHANGED <<customer, shared>> /\ \A v \in Others(w) : session'[v] = session[v]
          /\ session'[w].keys = session[w].keys /\ session'[w].row = session[w].row
          /\ session'[w].copy = Revised(w)
          /\ session'[w].draft[session[w].row] =
               IF Changed(w) THEN Flushed(w) ELSE session[w].draft[session[w].row]
          /\ \A q \in Rows \ {session[w].row} : session'[w].draft[q] = session[w].draft[q]
          /\ session[w].stage = "update"
      BY <1>0, <1>6, UpdateStep
    <2>2. Event(w)' = Event(w) /\ Event(w) \in Events
      BY <1>0, <1>6, <2>1, UpdateStep, PayloadKept, EventFields
    <2>3. /\ session[w].row \in Rows /\ session[w].copy \in Customer
          /\ Visible(w, session[w].row) \in Customer
          /\ Revised(w) \in Customer
          /\ Revised(w).lastSeen >= session[w].copy.lastSeen
          /\ Revised(w).lastSeen >= When[Event(w)]
          /\ Flushed(w) \in Customer
          /\ Visible(w, session[w].row).lastSeen = session[w].copy.lastSeen =>
               Flushed(w).lastSeen = Revised(w).lastSeen
      BY <1>0, <2>1, RevisedFields
    <2>4. \A r \in Rows : Handles(w, r)' => Handles(w, r)
      BY <2>1 DEF Handles
    <2>5. ASSUME NEW r \in Rows \ shared' PROVE Sees(w, r)'
      <3>1. Sees(w, r)
        BY <2>1 DEF SeenInv
      <3>2. CASE r = session[w].row
        <4>1. /\ session[w].copy.lastSeen = Visible(w, r).lastSeen
              /\ Flushed(w).lastSeen = Revised(w).lastSeen
          BY <2>3, <3>1, <3>2 DEF Sees
        <4>2. Visible(w, r)'.lastSeen = Revised(w).lastSeen
          <5>1. CASE Changed(w)
            BY <2>1, <2>3, <3>2, <4>1, <5>1, Nobody DEF Visible
          <5>2. CASE ~Changed(w)
            <6>1. Revised(w) = session[w].copy
              BY <5>2 DEF Changed
            <6>2. Visible(w, r)' = Visible(w, r)
              BY <2>1, <3>2, <5>2 DEF Visible
            <6>3. QED
              BY <4>1, <6>1, <6>2
          <5>3. QED
            BY <5>1, <5>2
        <4>3. /\ Revised(w).lastSeen \in Nat /\ Visible(w, r).lastSeen \in Nat
              /\ Revised(w).lastSeen >= Visible(w, r).lastSeen
          BY <2>3, <3>2, <4>1, SeenTimes
        <4>4. Visible(w, r)'.lastSeen >= When[Event(w)]'
          BY <2>2, <2>3, <4>2
        <4>5. session'[w].draft[r] # NoCustomer /\ customer'[r] # NoCustomer =>
                session'[w].draft[r].lastSeen >= customer'[r].lastSeen
          <5>1. CASE Changed(w)
            <6>1. customer[r] # NoCustomer => /\ customer[r] \in Customer
                                              /\ customer[r].lastSeen \in Nat
              BY <1>0, SeenTimes, Nobody DEF TypeInv
            <6>2. customer[r] # NoCustomer => Visible(w, r).lastSeen >= customer[r].lastSeen
              BY <3>1, <6>1 DEF Sees, Visible
            <6>3. session'[w].draft[r].lastSeen = Revised(w).lastSeen
              BY <2>1, <3>2, <4>1, <5>1
            <6>4. QED
              BY <2>1, <4>3, <6>1, <6>2, <6>3
          <5>2. CASE ~Changed(w)
            BY <2>1, <3>1, <3>2, <5>2 DEF Sees
          <5>3. QED
            BY <5>1, <5>2
        <4>6. \A e \in Events : session'[w].keys[e] = r => Visible(w, r)'.lastSeen >= When[e]
          <5>1. \A e \in Events : session[w].keys[e] = r => Visible(w, r).lastSeen >= When[e]
            BY <3>1 DEF Sees
          <5>2. QED
            BY <2>1, <4>2, <4>3, <5>1, SeenTimes
        <4>7. session'[w].row = r => session'[w].copy.lastSeen = Visible(w, r)'.lastSeen
          BY <2>1, <4>2
        <4>8. QED
          BY <4>4, <4>5, <4>6, <4>7 DEF Sees
      <3>3. CASE r # session[w].row
        <4>1. Visible(w, r)' = Visible(w, r) /\ session'[w].draft[r] = session[w].draft[r]
          BY <2>1, <3>3 DEF Visible
        <4>2. QED
          BY <2>1, <3>1, <3>3, <4>1 DEF Sees
      <3>4. QED
        BY <3>2, <3>3
    <2>6. QED
      BY <2>1, <2>4, <2>5, SeenOthers
  <1>7. ASSUME NEW w \in Workers, Insert(w) PROVE SeenInv'
    <2>1. /\ UNCHANGED <<customer, shared>> /\ \A v \in Others(w) : session'[v] = session[v]
          /\ session'[w].draft = session[w].draft /\ session'[w].row = session[w].row
          /\ session'[w].copy = session[w].copy /\ session'[w].stage # "insert"
          /\ session[w].stage = "insert"
          /\ session'[w].keys[Event(w)] \in {session[w].keys[Event(w)], session[w].row}
          /\ \A e \in Events \ {Event(w)} : session'[w].keys[e] = session[w].keys[e]
      BY <1>0, <1>7, InsertStep
    <2>2. \A r \in Rows : Visible(w, r)' = Visible(w, r) /\ (Handles(w, r)' <=> Handles(w, r))
      BY <2>1 DEF Visible, Handles
    <2>3. ASSUME NEW r \in Rows \ shared' PROVE Sees(w, r)'
      <3>1. Sees(w, r)
        BY <2>1 DEF SeenInv
      <3>2. \A e \in Events : session'[w].keys[e] = r => Visible(w, r).lastSeen >= When[e]
        BY <2>1, <3>1 DEF Sees
      <3>3. QED
        BY <2>1, <2>2, <3>1, <3>2 DEF Sees
    <2>4. QED
      BY <2>1, <2>2, <2>3, SeenOthers
  <1>8. ASSUME NEW w \in Workers, Commit(w) PROVE SeenInv'
    <2>1. /\ UNCHANGED shared /\ \A v \in Others(w) : session'[v] = session[v]
          /\ session'[w].row = NoRow
          /\ \A r \in Rows : session'[w].draft[r] = NoCustomer /\ r # NoRow
          /\ \A e \in Events : session'[w].keys[e] = NoRow
          /\ \A r \in Rows : customer'[r] = Visible(w, r)
      BY <1>0, <1>8, CommitStep DEF IngestionAssumption
    <2>2. \A r \in Rows : Sees(w, r)' /\ ~Handles(w, r)'
      BY <2>1 DEF Sees, Handles
    <2>3. \A v \in Others(w), r \in Rows : Handles(v, r)' <=> Handles(v, r)
      BY <2>1 DEF Handles
    <2>4. ASSUME NEW v \in Others(w), NEW r \in Rows \ shared PROVE Sees(v, r)'
      <3>1. Sees(v, r) /\ session'[v] = session[v] /\ v \in Workers /\ v # w
        BY <2>1 DEF SeenInv, Others
      <3>2. session[v].stage = "insert" => Event(v)' = Event(v)
        BY <1>0, <3>1, PayloadKept
      <3>3. CASE session[w].draft[r] = NoCustomer
        <4>1. customer'[r] = customer[r]
          BY <2>1, <3>3 DEF Visible
        <4>2. Visible(v, r)' = Visible(v, r)
          BY <3>1, <4>1 DEF Visible
        <4>3. QED
          BY <3>1, <3>2, <4>1, <4>2 DEF Sees
      <3>4. CASE session[w].draft[r] # NoCustomer
        <4>1. session[v].draft[r] = NoCustomer /\ session[v].row # r
          BY <1>0, <3>1, <3>4 DEF LockInv, SeenInv, Handles
        <4>2. Visible(v, r) = customer[r] /\ Visible(v, r)' = customer'[r]
          BY <3>1, <4>1 DEF Visible
        <4>3. ASSUME NEW e \in Events, session[v].keys[e] = r
              PROVE  customer'[r].lastSeen >= When[e]
          <5>1. customer[r].who = Who[e] /\ Who[e] # NoRow
            BY <1>0, <2>1, <3>1, <4>2, <4>3 DEF OwnInv, Owns, IngestionAssumption, Externals
          <5>2. customer[r] # NoCustomer
            BY <5>1 DEF NoCustomer
          <5>3. customer'[r].lastSeen >= customer[r].lastSeen
            BY <1>8, <5>2, CommitKeepsTime
          <5>4. customer[r].lastSeen >= When[e]
            BY <3>1, <4>2, <4>3 DEF Sees
          <5>5. customer[r] \in Customer
            BY <1>0, <5>2, Nobody DEF TypeInv
          <5>6. customer'[r] \in Customer
            <6>1. session[w].draft[r] \in Stored
              BY <1>0, SessionFields
            <6>2. QED
              BY <2>1, <3>4, <6>1, Nobody DEF Visible
          <5>7. QED
            BY <5>3, <5>4, <5>5, <5>6, SeenTimes
        <4>4. QED
          BY <3>1, <4>1, <4>2, <4>3 DEF Sees
      <3>5. QED
        BY <3>3, <3>4
    <2>5. QED
      BY <2>1, <2>2, <2>3, <2>4 DEF SeenInv, Others
  <1>9. QED
    BY Zenon, <1>0, StepCases, <1>1, <1>2, <1>3, <1>4, <1>5, <1>6, <1>7, <1>8

LEMMA KeptNext ==
  ASSUME IngestionAssumption, CoreInv, EventsFiled, SeenInv, LastSeenKept, [Next]_vars
  PROVE  LastSeenKept'
  <1>0. TypeInv /\ ShapeInv /\ LockInv /\ OwnInv
    BY DEF CoreInv
  <1>1. shared \subseteq shared'
    <2>1. Queues => UNCHANGED shared
      BY DEF Queues
    <2>2. \A w \in Workers : Leaves(w) \/ Update(w) \/ Insert(w) \/ Commit(w) => UNCHANGED shared
      BY DEF Leaves, Update, Insert, Commit
    <2>3. \A w \in Workers : Lookup(w) => shared \subseteq shared'
      BY <1>0, LookupStep
    <2>4. \A w \in Workers, j \in Jobs : Takes(w, j) => UNCHANGED shared
      BY DEF Takes
    <2>5. \A w \in Workers, r \in Rows : Create(w, r) => UNCHANGED shared
      BY DEF Create
    <2>6. QED
      BY <1>0, StepCases, <2>1, <2>2, <2>3, <2>4, <2>5
  <1>2. CASE UNCHANGED <<customer, filed>>
    BY <1>1, <1>2 DEF LastSeenKept
  <1>3. ASSUME NEW w \in Workers, Commit(w), NEW e \in Events, filed'[e] # NoRow,
               filed'[e] \notin shared'
        PROVE  customer'[filed'[e]].lastSeen >= When[e]
    <2>1. /\ \A r \in Rows : customer'[r] = Visible(w, r)
          /\ filed'[e] = IF session[w].keys[e] # NoRow THEN session[w].keys[e] ELSE filed[e]
          /\ UNCHANGED shared /\ filed' \in [Events -> Rows \cup {NoRow}]
      BY <1>0, <1>3, CommitStep
    <2>2. PICK r \in Rows \ shared : r = filed'[e]
      BY <1>3, <2>1
    <2>3. CASE session[w].keys[e] # NoRow
      BY <2>1, <2>2, <2>3 DEF SeenInv, Sees
    <2>4. CASE session[w].keys[e] = NoRow
      <3>1. filed[e] = r /\ r # NoRow
        BY <1>3, <2>1, <2>2, <2>4
      <3>2. customer[r].who = Who[e] /\ Who[e] # NoRow
        BY <3>1 DEF EventsFiled, IngestionAssumption, Externals
      <3>3. customer[r] # NoCustomer
        BY <3>2 DEF NoCustomer
      <3>4. customer'[r].lastSeen >= customer[r].lastSeen
        BY <1>3, <3>3, CommitKeepsTime
      <3>5. customer[r].lastSeen >= When[e]
        BY <2>2, <3>1 DEF LastSeenKept
      <3>6. customer[r] \in Customer /\ customer'[r] \in Customer
        <4>1. customer[r] \in Customer /\ Visible(w, r) \in Stored
          BY <1>0, <3>3, SessionFields, Nobody DEF TypeInv
        <4>2. Visible(w, r) # NoCustomer
          BY <3>3 DEF Visible
        <4>3. QED
          BY <2>1, <4>1, <4>2, Nobody
      <3>7. QED
        BY <2>2, <3>4, <3>5, <3>6, SeenTimes
    <2>5. QED
      BY <2>3, <2>4
  <1>4. QED
    BY <1>2, <1>3, OnlyCommitFiles DEF LastSeenKept

\* last_seen_at is no earlier than any event filed under the row, unless two transactions
\* had the row at once: with one transaction at a time the object in hand is as the row
\* is, so "if event_time > customer.last_seen_at" compares with what the flush replaces
\* (worker.py:143-161, worker.py:176-196).
THEOREM LastSeenIsLatest == Spec => []LastSeenKept
  <1>1. Init => SeenInv /\ LastSeenKept
    <2>1. ASSUME Init
          PROVE  \A w \in Workers : /\ session[w].row = NoRow
                                    /\ \A r \in Rows : session[w].draft[r] = NoCustomer /\ r # NoRow
                                    /\ \A e \in Events : session[w].keys[e] = NoRow
      BY <2>1, IngestionAssumption, IdleFields DEF Init, IngestionAssumption
    <2>2. ASSUME Init PROVE SeenInv
      BY <2>1, <2>2 DEF SeenInv, Sees, Handles
    <2>3. Init => LastSeenKept
      BY DEF Init, LastSeenKept
    <2>4. QED
      BY <2>2, <2>3
  <1>2. CoreInv /\ SeenInv /\ LastSeenKept /\ EventsFiled /\ [Next]_vars =>
          SeenInv' /\ LastSeenKept'
    BY SeenNext, KeptNext, IngestionAssumption
  <1>3. QED
    BY CoreAlways, FiledUnderItsCustomer, <1>1, <1>2, PTL DEF Spec

(***************************************************************************)
(* Ingestion implements EventLedger                                        *)
(***************************************************************************)
\* A transaction makes rows, and inserts events, of its own payload only.
Delivers(w) ==
  /\ \A r \in Rows : session[w].draft[r] # NoCustomer =>
       \E i \in DOMAIN Payload(w) : session[w].draft[r].who = Who[Payload(w)[i]]
  /\ \A e \in Events : session[w].keys[e] # NoRow =>
       \E i \in DOMAIN Payload(w) : e = Payload(w)[i]

DeliversInv == \A w \in Workers : Delivers(w)

LEMMA DeliversFrame ==
  ASSUME IngestionAssumption, CoreInv, DeliversInv, [Next]_vars, NEW v \in Workers,
         session'[v] = session[v]
  PROVE  Delivers(v)'
  <1>1. CASE session[v].stage = "idle"
    BY <1>1 DEF CoreInv, ShapeInv, Delivers
  <1>2. CASE session[v].stage # "idle"
    <2>1. Payload(v)' = Payload(v)
      BY <1>2, PayloadKept DEF CoreInv
    <2>2. QED
      BY <2>1 DEF DeliversInv, Delivers
  <1>3. QED
    BY <1>1, <1>2

LEMMA DeliversNext ==
  ASSUME IngestionAssumption, CoreInv, DeliversInv, [Next]_vars
  PROVE  DeliversInv'
  <1>0. TypeInv /\ ShapeInv /\ LockInv /\ OwnInv
    BY DEF CoreInv
  <1>1. ASSUME NEW w \in Workers, \A v \in Others(w) : session'[v] = session[v], Delivers(w)'
        PROVE  DeliversInv'
    BY <1>1, DeliversFrame DEF DeliversInv, Others
  <1>2. CASE Queues
    BY <1>2, DeliversFrame DEF Queues, DeliversInv
  <1>3. ASSUME NEW w \in Workers, \A v \in Others(w) : session'[v] = session[v],
               \A r \in Rows : session'[w].draft[r] = NoCustomer,
               \A e \in Events : session'[w].keys[e] = NoRow
        PROVE  DeliversInv'
    <2>1. Delivers(w)'
      BY <1>3 DEF Delivers
    <2>2. QED
      BY <1>1, <1>3, <2>1
  <1>4. ASSUME NEW w \in Workers, NEW j \in Jobs, Takes(w, j) PROVE DeliversInv'
    <2>1. /\ \A v \in Others(w) : session'[v] = session[v]
          /\ session'[w].draft = session[w].draft /\ session'[w].keys = session[w].keys
      BY <1>0, <1>4, TakeStep
    <2>2. session[w].stage = "idle"
      BY <1>0, <1>4, TakeStep
    <2>3. /\ \A r \in Rows : session'[w].draft[r] = NoCustomer
          /\ \A e \in Events : session'[w].keys[e] = NoRow
      BY <1>0, <2>1, <2>2 DEF ShapeInv
    <2>4. QED
      BY <1>3, <2>1, <2>3
  <1>5. ASSUME NEW w \in Workers, Leaves(w) PROVE DeliversInv'
    BY <1>0, <1>3, <1>5, LeaveStep, IdleFields
  <1>6. ASSUME NEW w \in Workers, Commit(w) PROVE DeliversInv'
    BY <1>0, <1>3, <1>6, CommitStep
  <1>7. ASSUME NEW w \in Workers, Lookup(w) PROVE DeliversInv'
    <2>1. /\ UNCHANGED job /\ \A v \in Others(w) : session'[v] = session[v]
          /\ session'[w].job = session[w].job
          /\ session'[w].draft = session[w].draft /\ session'[w].keys = session[w].keys
      BY <1>0, <1>7, LookupStep
    <2>2. Payload(w)' = Payload(w)
      BY <2>1 DEF Payload
    <2>3. Delivers(w)'
      BY <2>1, <2>2 DEF DeliversInv, Delivers
    <2>4. QED
      BY <1>1, <2>1, <2>3
  <1>8. ASSUME NEW w \in Workers, NEW s \in Rows, Create(w, s) PROVE DeliversInv'
    <2>1. /\ UNCHANGED job /\ \A v \in Others(w) : session'[v] = session[v]
          /\ session'[w].job = session[w].job /\ session'[w].keys = session[w].keys
          /\ session'[w].draft[s] = session'[w].copy
          /\ session'[w].copy.who = Who[Event(w)] /\ session[w].stage = "create"
          /\ \A q \in Rows \ {s} : session'[w].draft[q] = session[w].draft[q]
      BY <1>0, <1>8, CreateStep
    <2>2. Payload(w)' = Payload(w) /\ Event(w) = Payload(w)[session[w].at]
      BY <2>1 DEF Payload, Event
    <2>3. session[w].at \in DOMAIN Payload(w)
      BY <1>0, <2>1 DEF ShapeInv
    <2>4. Delivers(w)'
      BY <2>1, <2>2, <2>3 DEF DeliversInv, Delivers
    <2>5. QED
      BY <1>1, <2>1, <2>4
  <1>9. ASSUME NEW w \in Workers, Update(w) PROVE DeliversInv'
    <2>1. /\ UNCHANGED job /\ \A v \in Others(w) : session'[v] = session[v]
          /\ session'[w].job = session[w].job /\ session'[w].keys = session[w].keys
          /\ session[w].stage = "update"
          /\ session'[w].draft[session[w].row] =
               IF Changed(w) THEN Flushed(w) ELSE session[w].draft[session[w].row]
          /\ \A q \in Rows \ {session[w].row} : session'[w].draft[q] = session[w].draft[q]
      BY <1>0, <1>9, UpdateStep
    <2>2. Payload(w)' = Payload(w) /\ Event(w) = Payload(w)[session[w].at]
      BY <2>1 DEF Payload, Event
    <2>3. session[w].at \in DOMAIN Payload(w) /\ Flushed(w).who = Who[Event(w)]
      BY <1>0, <2>1, RevisedFields DEF ShapeInv
    <2>4. Delivers(w)'
      BY <2>1, <2>2, <2>3 DEF DeliversInv, Delivers
    <2>5. QED
      BY <1>1, <2>1, <2>4
  <1>10. ASSUME NEW w \in Workers, Insert(w) PROVE DeliversInv'
    <2>1. /\ UNCHANGED job /\ \A v \in Others(w) : session'[v] = session[v]
          /\ session'[w].job = session[w].job /\ session'[w].draft = session[w].draft
          /\ \A e \in Events \ {Event(w)} : session'[w].keys[e] = session[w].keys[e]
          /\ session[w].stage = "insert"
      BY <1>0, <1>10, InsertStep
    <2>2. Payload(w)' = Payload(w) /\ Event(w) = Payload(w)[session[w].at]
      BY <2>1 DEF Payload, Event
    <2>3. session[w].at \in DOMAIN Payload(w)
      BY <1>0, <2>1 DEF ShapeInv
    <2>4. Delivers(w)'
      BY <2>1, <2>2, <2>3 DEF DeliversInv, Delivers
    <2>5. QED
      BY <1>1, <2>1, <2>4
  <1>11. QED
    BY Zenon, <1>0, StepCases, <1>2, <1>4, <1>5, <1>6, <1>7, <1>8, <1>9, <1>10

LEMMA LedgerInitially == IngestionAssumption /\ Init => Ledger!LedgerInit
  <1> SUFFICES ASSUME IngestionAssumption, Init PROVE Ledger!LedgerInit
    OBVIOUS
  <1>1. Delivery = [j \in Jobs |-> [state |-> "free", payload |-> <<>>]]
    BY DEF Init, Delivery
  <1>2. [r \in Rows |-> customer[r].who] = [r \in Rows |-> NoRow]
    BY DEF Init, NoCustomer
  <1>3. {e \in Cancels : surveys[e] > 0} = {}
    BY DEF Init, IngestionAssumption
  <1>4. filed = [e \in Events |-> NoRow]
    BY DEF Init
  <1>5. QED
    BY <1>1, <1>2, <1>3, <1>4 DEF Ledger!LedgerInit

LEMMA DeliveryFields ==
  ASSUME TypeInv, NEW j \in Jobs
  PROVE  /\ Ledger!Open(j) <=> job[j].state \in {"queued", "running"}
         /\ Ledger!Named(j) = {job[j].payload[i] : i \in DOMAIN job[j].payload}
  <1>1. job[j].state \in {"free", "queued", "running", "done", "failed"}
    BY DEF TypeInv, Task
  <1>2. Delivery[j].payload = job[j].payload
    BY DEF Delivery
  <1>3. Delivery[j].state = "open" <=> job[j].state \in {"queued", "running"}
    BY <1>1 DEF Delivery
  <1>4. QED
    BY <1>2, <1>3 DEF Ledger!Open, Ledger!Named

LEMMA DeliveryRunning ==
  ASSUME IngestionAssumption, TypeInv, ShapeInv, NEW w \in Workers, session[w].stage # "idle",
         NEW j \in Jobs, j = session[w].job
  PROVE  /\ Ledger!Open(j)
         /\ \A i \in DOMAIN Payload(w) : Payload(w)[i] \in Ledger!Named(j)
         /\ \A e \in Ledger!Named(j) : \E i \in DOMAIN Payload(w) : e = Payload(w)[i]
  <1>1. job[j].state = "running"
    BY PayloadFields
  <1>2. QED
    BY <1>1, DeliveryFields DEF Payload

\* A job that is taken, or queued again, is as open as it was.
LEMMA DeliveryKept ==
  ASSUME \A j \in Jobs : /\ job'[j].payload = job[j].payload
                         /\ \/ job'[j].state = job[j].state
                            \/ {job[j].state, job'[j].state} \subseteq {"queued", "running"}
  PROVE  Delivery' = Delivery
  BY DEF Delivery

LEMMA LedgerStutter ==
  ASSUME Delivery' = Delivery, UNCHANGED <<customer, filed, surveys>>
  PROVE  UNCHANGED Ledger!ledgerVars
  BY DEF Ledger!ledgerVars

LEMMA DeliveryEnds ==
  ASSUME TypeInv, NEW j \in Jobs, NEW s \in {"done", "failed"},
         job' = [job EXCEPT ![j].state = s]
  PROVE  Delivery' = [Delivery EXCEPT ![j].state = s]
  <1>1. job[j] \in Task
    BY DEF TypeInv
  <1>2. /\ \A k \in Jobs \ {j} : job'[k] = job[k]
        /\ job'[j].state = s /\ job'[j].payload = job[j].payload
    BY <1>1 DEF TypeInv, Task
  <1>3. \A k \in Jobs : Delivery'[k] = [Delivery EXCEPT ![j].state = s][k]
    BY <1>2 DEF Delivery
  <1>4. QED
    BY <1>3 DEF Delivery

LedgerInv == CoreInv /\ EventsFiled /\ DoneInv /\ DoneIsFiled /\ SurveyInv /\ CancellationsSurveyed
             /\ DeliversInv

\* A commit files the delivery.
LEMMA LedgerCommit ==
  ASSUME IngestionAssumption, LedgerInv, [Next]_vars, NEW w \in Workers, Commit(w),
         NEW j \in Jobs, j = session[w].job
  PROVE  Ledger!File(j)
  <1> DEFINE owner == [r \in Rows |-> customer[r].who]
             asked == {e \in Cancels : surveys[e] > 0}
  <1>0. CoreInv /\ TypeInv /\ ShapeInv /\ LockInv /\ OwnInv /\ Delivers(w)
    BY DEF LedgerInv, CoreInv, DeliversInv
  <1>1. /\ session[w].stage = "commit"
        /\ customer' \in [Rows -> Stored] /\ filed' \in [Events -> Rows \cup {NoRow}]
        /\ \A r \in Rows : customer'[r] = Visible(w, r)
        /\ \A e \in Events : filed'[e] = IF session[w].keys[e] # NoRow THEN session[w].keys[e]
                                         ELSE filed[e]
        /\ session'[w].job = j /\ session'[w].stage = "ack"
        /\ UNCHANGED <<job, surveys>>
    BY <1>0, CommitStep
  <1>2. /\ Ledger!Open(j)
        /\ \A i \in DOMAIN Payload(w) : Payload(w)[i] \in Ledger!Named(j)
        /\ \A e \in Ledger!Named(j) : \E i \in DOMAIN Payload(w) : e = Payload(w)[i]
    BY <1>0, <1>1, DeliveryRunning
  <1>3. Delivery' = Delivery /\ asked' = asked
    BY <1>1 DEF Delivery
  <1>4. EventsFiled' /\ DoneInv' /\ CancellationsSurveyed'
    BY <1>0, FiledNext, DoneNext, SurveyNext DEF LedgerInv
  <1>5. \A e \in Events : filed[e] # NoRow => filed'[e] = filed[e]
    BY <1>0, FiledStays
  <1>6. ASSUME NEW e \in Events, filed'[e] # filed[e]
        PROVE  e \in Ledger!Named(j) /\ owner'[filed'[e]] = Who[e]
    <2>1. session[w].keys[e] # NoRow /\ filed'[e] # NoRow
      BY <1>1, <1>6
    <2>2. e \in Ledger!Named(j)
      BY <1>0, <1>2, <2>1 DEF Delivers
    <2>3. filed'[e] \in Rows /\ customer'[filed'[e]].who = Who[e]
      BY <1>1, <1>4, <2>1 DEF EventsFiled
    <2>4. QED
      BY <2>2, <2>3
  <1>7. \A e \in Cancels : filed'[e] # NoRow => e \in asked
    BY <1>1, <1>4 DEF CancellationsSurveyed
  <1>8. (\A e \in Ledger!Named(j) : filed[e] # NoRow)'
    <2>1. Payload(w)' = Payload(w)
      BY <1>1 DEF Payload
    <2>2. \A i \in DOMAIN Payload(w) : filed'[Payload(w)[i]] # NoRow
      BY <1>1, <1>4, <2>1 DEF DoneInv, Follows
    <2>3. Ledger!Named(j)' = Ledger!Named(j)
      BY <1>3 DEF Ledger!Named
    <2>4. QED
      BY <1>1, <1>2, <2>2, <2>3
  <1>9. owner' \in [Rows -> {Who[e] : e \in Events} \cup {NoRow}]
    BY <1>1, Nobody DEF Stored, Customer, Externals
  <1>10. \A r \in Rows : owner[r] # NoRow => owner'[r] = owner[r]
    <2>1. \A r \in Rows : customer[r] # NoCustomer => customer'[r].who = customer[r].who
      BY <1>0, CommitKeepsOwner
    <2>2. QED
      BY <2>1 DEF NoCustomer
  <1>11. ASSUME NEW r \in Rows, owner'[r] # owner[r]
         PROVE  \E e \in Ledger!Named(j) : owner'[r] = Who[e]
    <2>1. session[w].draft[r] # NoCustomer /\ customer'[r] = session[w].draft[r]
      BY <1>1, <1>11 DEF Visible
    <2>2. PICK i \in DOMAIN Payload(w) : session[w].draft[r].who = Who[Payload(w)[i]]
      BY <1>0, <2>1 DEF Delivers
    <2>3. QED
      BY <1>2, <2>1, <2>2
  <1>12. QED
    BY <1>1, <1>2, <1>3, <1>5, <1>6, <1>7, <1>8, <1>9, <1>10, <1>11 DEF Ledger!File, Ledger!OnFile

\* A delivery is accepted by the endpoint.
LEMMA LedgerReceive ==
  ASSUME TypeInv, NEW j \in Jobs, NEW p \in Payloads, Receive(j, p)
  PROVE  Ledger!Accept(j, p)
  <1>1. /\ job[j].state = "free" /\ UNCHANGED <<customer, filed, surveys>>
        /\ job' = [job EXCEPT ![j] = [state |-> "queued", payload |-> p, tries |-> 0]]
    BY DEF Receive
  <1>2. Delivery[j].state = "free"
    BY <1>1 DEF Delivery
  <1>3. \A k \in Jobs : Delivery'[k] = [Delivery EXCEPT ![j] = [state |-> "open", payload |-> p]][k]
    BY <1>1 DEF Delivery, TypeInv
  <1>4. Delivery' = [Delivery EXCEPT ![j] = [state |-> "open", payload |-> p]]
    BY <1>3 DEF Delivery
  <1>5. QED
    BY <1>1, <1>2, <1>4 DEF Ledger!Accept

LEMMA LedgerStart ==
  ASSUME TypeInv, NEW w \in Workers, NEW j \in Jobs, Start(w, j)
  PROVE  Ledger!GiveUp(j) \/ UNCHANGED Ledger!ledgerVars
  <1>1. job[j].state = "queued" /\ UNCHANGED <<customer, filed, surveys>> /\ job[j] \in Task
    BY DEF Start, TypeInv
  <1>2. CASE job[j].tries < MaxTries
    <2>1. job' = [job EXCEPT ![j] = [job[j] EXCEPT !.state = "running", !.tries = job[j].tries + 1]]
      BY <1>2 DEF Start, TypeInv
    <2>2. /\ \A k \in Jobs \ {j} : job'[k] = job[k]
          /\ job'[j].state = "running" /\ job'[j].payload = job[j].payload
      BY <1>1, <2>1 DEF TypeInv, Task
    <2>3. QED
      BY <1>1, <2>2, DeliveryKept, LedgerStutter
  <1>3. CASE ~(job[j].tries < MaxTries)
    <2>1. job' = [job EXCEPT ![j].state = "failed"]
      BY <1>3 DEF Start
    <2>2. QED
      BY <1>1, <2>1, DeliveryEnds, DeliveryFields DEF Ledger!GiveUp
  <1>4. QED
    BY <1>2, <1>3

\* A worker that is done with a job settles it, one that failed gives it up, and one that
\* died leaves it as open as it was.
LEMMA LedgerLeave ==
  ASSUME IngestionAssumption, LedgerInv, NEW w \in Workers, Leaves(w),
         NEW j \in Jobs, j = session[w].job
  PROVE  Ledger!Settle(j) \/ Ledger!GiveUp(j) \/ UNCHANGED Ledger!ledgerVars
  <1>0. TypeInv /\ ShapeInv /\ Follows(w)
    BY DEF LedgerInv, CoreInv, DoneInv
  <1>1. PICK s \in {"done", "queued", "failed"} :
          /\ s = "done" => session[w].stage = "ack"
          /\ job' = [job EXCEPT ![j].state = s]
    BY DEF Leaves
  <1>2. session[w].stage # "idle" /\ UNCHANGED <<customer, filed, surveys>>
    BY DEF Leaves
  <1>3. /\ Ledger!Open(j) /\ job[j] \in Task /\ job[j].state = "running"
        /\ \A e \in Ledger!Named(j) : \E i \in DOMAIN Payload(w) : e = Payload(w)[i]
    BY <1>0, <1>2, DeliveryRunning, PayloadFields
  <1>4. CASE s = "queued"
    <2>1. /\ \A k \in Jobs \ {j} : job'[k] = job[k]
          /\ job'[j].state = "queued" /\ job'[j].payload = job[j].payload
      BY <1>0, <1>1, <1>3, <1>4 DEF TypeInv, Task
    <2>2. QED
      BY <1>2, <1>3, <2>1, DeliveryKept, LedgerStutter
  <1>5. CASE s = "failed"
    <2>1. Delivery' = [Delivery EXCEPT ![j].state = "failed"]
      BY <1>0, <1>1, <1>3, <1>5, DeliveryEnds
    <2>2. QED
      BY <1>2, <1>3, <2>1 DEF Ledger!GiveUp
  <1>6. CASE s = "done"
    <2>1. Delivery' = [Delivery EXCEPT ![j].state = "done"]
      BY <1>0, <1>1, <1>3, <1>6, DeliveryEnds
    <2>2. \A i \in DOMAIN Payload(w) : filed[Payload(w)[i]] # NoRow
      BY <1>0, <1>1, <1>6 DEF Follows
    <2>3. Ledger!OnFile(j)
      BY <1>3, <2>2 DEF Ledger!OnFile
    <2>4. QED
      BY <1>2, <1>3, <2>1, <2>3 DEF Ledger!Settle
  <1>7. QED
    BY <1>4, <1>5, <1>6

\* An insertion of a cancellation asks the customer.
LEMMA LedgerInsert ==
  ASSUME IngestionAssumption, LedgerInv, NEW w \in Workers, Insert(w),
         NEW j \in Jobs, j = session[w].job, NEW e \in Events, e = Event(w)
  PROVE  Ledger!Ask(j, e) \/ UNCHANGED Ledger!ledgerVars
  <1> DEFINE asked == {c \in Cancels : surveys[c] > 0}
  <1>0. TypeInv /\ ShapeInv
    BY DEF LedgerInv, CoreInv
  <1>1. session[w].stage = "insert" /\ UNCHANGED <<job, customer, filed>>
    BY DEF Insert
  <1>2. Delivery' = Delivery
    BY <1>1 DEF Delivery
  <1>3. CASE e \in Cancels
    <2>1. session[w].at \in DOMAIN Payload(w)
      BY <1>0, <1>1 DEF ShapeInv
    <2>2. Ledger!Open(j) /\ e \in Ledger!Named(j)
      BY <1>0, <1>1, <2>1, DeliveryRunning DEF Event
    <2>3. surveys' = [surveys EXCEPT ![e] = @ + 1]
      BY <1>3 DEF Insert
    <2>4. \A c \in Cancels : surveys'[c] > 0 <=> surveys[c] > 0 \/ c = e
      BY <1>0, <2>3 DEF TypeInv, IngestionAssumption
    <2>5. asked' = asked \cup {e}
      BY <1>3, <2>4
    <2>6. QED
      BY <1>1, <1>2, <1>3, <2>2, <2>5 DEF Ledger!Ask
  <1>4. CASE e \notin Cancels
    BY <1>1, <1>2, <1>4, LedgerStutter DEF Insert
  <1>5. QED
    BY <1>3, <1>4

LEMMA LedgerStep ==
  IngestionAssumption /\ LedgerInv /\ [Next]_vars
    => Ledger!LedgerNext \/ UNCHANGED Ledger!ledgerVars
  <1> SUFFICES ASSUME IngestionAssumption, LedgerInv, [Next]_vars
               PROVE  Ledger!LedgerNext \/ UNCHANGED Ledger!ledgerVars
    OBVIOUS
  <1>0. TypeInv /\ ShapeInv
    BY DEF LedgerInv, CoreInv
  <1>1. ASSUME UNCHANGED <<job, customer, filed, surveys>> PROVE UNCHANGED Ledger!ledgerVars
    BY <1>1, LedgerStutter DEF Delivery
  <1>2. CASE UNCHANGED vars
    BY <1>1, <1>2 DEF vars
  <1>3. ASSUME NEW j \in Jobs, NEW p \in Payloads, Receive(j, p) PROVE Ledger!LedgerNext
    BY <1>0, <1>3, LedgerReceive DEF Ledger!LedgerNext
  <1>4. ASSUME NEW w \in Workers, NEW j \in Jobs, Start(w, j)
        PROVE  Ledger!LedgerNext \/ UNCHANGED Ledger!ledgerVars
    BY <1>0, <1>4, LedgerStart DEF Ledger!LedgerNext
  <1>5. ASSUME NEW w \in Workers, Leaves(w)
        PROVE  Ledger!LedgerNext \/ UNCHANGED Ledger!ledgerVars
    <2>1. PICK j \in Jobs : j = session[w].job
      BY <1>0, <1>5, PayloadFields DEF Leaves
    <2>2. Ledger!Settle(j) \/ Ledger!GiveUp(j) \/ UNCHANGED Ledger!ledgerVars
      BY <1>5, <2>1, LedgerLeave
    <2>3. QED
      BY <2>2 DEF Ledger!LedgerNext
  <1>6. ASSUME NEW w \in Workers, Commit(w) PROVE Ledger!LedgerNext
    <2>1. PICK j \in Jobs : j = session[w].job
      BY <1>0, <1>6, PayloadFields DEF Commit
    <2>2. Ledger!File(j)
      BY <1>6, <2>1, LedgerCommit
    <2>3. QED
      BY <2>1, <2>2 DEF Ledger!LedgerNext
  <1>7. ASSUME NEW w \in Workers, Insert(w)
        PROVE  Ledger!LedgerNext \/ UNCHANGED Ledger!ledgerVars
    <2>1. PICK j \in Jobs, e \in Events : j = session[w].job /\ e = Event(w)
      BY <1>0, <1>7, PayloadFields, EventFields DEF Insert
    <2>2. Ledger!Ask(j, e) \/ UNCHANGED Ledger!ledgerVars
      BY <1>7, <2>1, LedgerInsert
    <2>3. QED
      BY <2>2 DEF Ledger!LedgerNext
  <1>8. ASSUME NEW w \in Workers, Lookup(w) \/ Update(w) PROVE UNCHANGED Ledger!ledgerVars
    BY <1>1, <1>8 DEF Lookup, Update
  <1>9. ASSUME NEW w \in Workers, NEW r \in Rows, Create(w, r) PROVE UNCHANGED Ledger!ledgerVars
    BY <1>1, <1>9 DEF Create
  <1>10. QED
    BY Zenon, <1>2, <1>3, <1>4, <1>5, <1>6, <1>7, <1>8, <1>9, LeaveCases DEF Next, Process

\* However transactions interleave, wait, fail and are run again, a delivery goes on file
\* whole or not at all, each event once and for good under its own customer's row, a
\* cancellation not before the customer has been asked, and a delivery is done only when
\* it is on file (worker.py:124-197).
THEOREM IngestionImplementsLedger == Spec => ImplementsLedger
  <1>1. Init => DeliversInv
    <2>1. Init => \A w \in Workers : /\ \A r \in Rows : session[w].draft[r] = NoCustomer
                                     /\ \A e \in Events : session[w].keys[e] = NoRow
      BY IdleFields DEF Init
    <2>2. QED
      BY <2>1 DEF DeliversInv, Delivers
  <1>2. CoreInv /\ DeliversInv /\ [Next]_vars => DeliversInv'
    BY DeliversNext, IngestionAssumption
  <1>3. Spec => []DeliversInv
    BY CoreAlways, <1>1, <1>2, PTL DEF Spec
  <1>4. CoreInv /\ EventsFiled /\ DoneInv /\ DoneIsFiled /\ SurveyInv /\ CancellationsSurveyed
          /\ DeliversInv => LedgerInv
    BY DEF LedgerInv
  <1>5. LedgerInv /\ [Next]_vars => [Ledger!LedgerNext]_(Ledger!ledgerVars)
    BY LedgerStep, IngestionAssumption
  <1>6. Init => Ledger!LedgerInit
    BY LedgerInitially, IngestionAssumption
  <1>7. QED
    BY CoreAlways, FiledUnderItsCustomer, DoneAlways, SurveyAlways, <1>3, <1>4, <1>5, <1>6, PTL
       DEF Spec, ImplementsLedger, Ledger!LedgerSpec

=============================================================================
