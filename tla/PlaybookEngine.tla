--------------------------- MODULE PlaybookEngine ---------------------------
(***************************************************************************)
(* The retention-playbook engine (core/playbooks/engine.py) with the       *)
(* routers that create runs, reassign tasks and edit CSM profiles          *)
(* (routers/playbooks.py) and the cron job that drives it (worker.py).     *)
(*                                                                         *)
(* A run is a row that walks a graph of nodes.  Any number of database     *)
(* sessions may advance it: the cron sweep, every 15 minutes, and the      *)
(* request that created it.  A session reads the row into an ORM object,   *)
(* performs the node (sends a message, reads the CSM table), changes the   *)
(* object and commits; the flush writes the columns whose value differs    *)
(* from the one that was read, with no lock and no version check.  The     *)
(* read, the node's side effect and the commit are therefore three steps,  *)
(* between which other sessions run and the process may die.               *)
(***************************************************************************)
EXTENDS Integers, Sequences, FiniteSets

CONSTANTS
  Nodes,         \* node ids of the playbook's graph
  Start,         \* graph["nodes"][0]["id"]
  Kind,          \* Kind[n]: the node's type
  Edge,          \* Edge[n]: target of the node's first out-edge, or NoNode
  TrueTarget,    \* true_target of a condition node, or NoNode
  FalseTarget,   \* false_target of a condition node, or NoNode
  DelayHours,    \* delay_hours of a delay node
  Skilled,       \* Skilled[n]: CSMs whose tags hold the node's specialty_tag
  Runs,          \* playbook_runs rows that may be created
  Csms,          \* users with a csm_profiles row
  Crons,         \* sessions of the cron job
  Requests,      \* sessions of POST .../trigger requests
  NoNode, NoCsm, NoRun,
  MaxCap,        \* bound: largest max_active_accounts
  MaxCrashes,    \* bound: process deaths
  MaxEdits,      \* bound: out-of-band edits of the stored graph
  MaxSaves,      \* bound: saves of a CSM profile
  MaxReassigns   \* bound: manual reassignments

Sessions == Crons \cup Requests
NodeKinds == {"action", "delay", "condition", "human_task", "other"}

ASSUME GraphAssumption ==
  /\ Start \in Nodes
  /\ NoNode \notin Nodes
  /\ Kind \in [Nodes -> NodeKinds]
  /\ Edge \in [Nodes -> Nodes \cup {NoNode}]
  /\ TrueTarget \in [Nodes -> Nodes \cup {NoNode}]
  /\ FalseTarget \in [Nodes -> Nodes \cup {NoNode}]
  /\ DelayHours \in [Nodes -> Nat]
  /\ Skilled \in [Nodes -> SUBSET Csms]

ASSUME ActorAssumption ==
  /\ Crons \cap Requests = {}
  /\ NoCsm \notin Csms
  /\ NoRun \notin Runs
  /\ MaxCap \in Nat \ {0}
  /\ {MaxCrashes, MaxEdits, MaxSaves, MaxReassigns} \subseteq Nat

VARIABLES
  row,           \* playbook_runs: the committed row of each run
  stored,        \* ids of the nodes in the stored graph
  gone,          \* the definition, or all of its graph, is gone
  matches,       \* customer of the run meets its condition (churn_risk_tier)
  activeCount,   \* csm_profiles.current_active_count
  maxActive,     \* csm_profiles.max_active_accounts
  available,     \* csm_profiles.is_available
  now,           \* wall clock, in hours
  stage,         \* where a session is: idle, sweep, held, writing
  held,          \* the run whose object a session holds
  orig,          \* attribute values the object had when it was read
  copy,          \* attribute values the object has now
  bumpCsm,       \* CSM object whose count the session has incremented
  bumpTo,        \* the value it will write to that count
  todo,          \* run ids a sweep has still to advance
  visits,        \* visits[r][n]: times node n of run r was performed
  crashes, edits, saves, reassigns,           \* spent bounds
  \* the rest records history for the properties and guards nothing
  booked,        \* booked[c]: human tasks committed with CSM c
  raced,         \* CSMs two sessions were incrementing at once
  overlapped,    \* runs two sessions held at once, and not yet let go by all
  late,          \* late[s]: s read its run while another session held it
  overlaps,      \* overlaps[r]: nodes of r that such sessions performed
  redo,          \* redo[r]: crashes between performing a node and committing
  enteredAt      \* hour at which the run reached the node it is on

rowVars     == <<row, stored, gone, matches>>
csmVars     == <<activeCount, maxActive, available>>
sessionVars == <<stage, held, orig, copy, bumpCsm, bumpTo, todo>>
boundVars   == <<crashes, edits, saves, reassigns>>
historyVars == <<booked, raced, overlapped, late, overlaps, redo, enteredAt>>
vars == <<rowVars, csmVars, now, sessionVars, visits, boundVars, historyVars>>

Stages   == {"idle", "sweep", "held", "writing"}
Finished == {"completed", "failed"}
Statuses == {"absent", "running"} \cup Finished
NoTimer  == -1

Row == [node   : Nodes,
        status : Statuses,
        timer  : Int,                           \* next_step_at
        csm    : Csms \cup {NoCsm},             \* assigned_csm_id
        task   : {"none", "assigned", "unassigned_overflow"},
        hist   : Seq(Nodes)]                    \* state_data["history"]

Fresh == [node |-> Start, status |-> "running", timer |-> NoTimer,
          csm |-> NoCsm, task |-> "none", hist |-> <<>>]
Absent == [Fresh EXCEPT !.status = "absent"]

(***************************************************************************)
(* The graph                                                               *)
(***************************************************************************)
\* The branch a condition node takes: its target, or the first out-edge.
Branch(n, holds) ==
  LET target == IF holds THEN TrueTarget[n] ELSE FalseTarget[n]
  IN  IF target = NoNode THEN Edge[n] ELSE target

\* Every next_node_id that performing n may produce.
Targets(n) ==
  CASE Kind[n] = "condition" -> {Branch(n, TRUE), Branch(n, FALSE)}
    [] Kind[n] = "other"     -> {NoNode}
    [] OTHER                 -> {Edge[n]}

(***************************************************************************)
(* CSM routing                                                             *)
(***************************************************************************)
\* Fault: a full CSM counts as free.
HasCapacityWhenFull == {c \in Csms : available[c] /\ activeCount[c] <= maxActive[c]}

HasCapacity == {c \in Csms : available[c] /\ activeCount[c] < maxActive[c]}

\* Specialists are preferred; without one any CSM with capacity will do.
Candidates(n) ==
  IF HasCapacity \cap Skilled[n] # {} THEN HasCapacity \cap Skilled[n] ELSE HasCapacity

\* ORDER BY current_active_count: ties come in no particular order.
LeastBusy(S) == {c \in S : \A d \in S : activeCount[c] <= activeCount[d]}

(***************************************************************************)
(* Sessions                                                                *)
(***************************************************************************)
\* The session drops the run's object: a sweep goes on, a request is over.
Release(s) ==
  /\ stage' = [stage EXCEPT ![s] = IF s \in Crons /\ todo[s] # {} THEN "sweep" ELSE "idle"]
  /\ held' = [held EXCEPT ![s] = NoRun]
  /\ orig' = [orig EXCEPT ![s] = Absent]
  /\ copy' = [copy EXCEPT ![s] = Absent]
  /\ bumpCsm' = [bumpCsm EXCEPT ![s] = NoCsm]
  /\ bumpTo' = [bumpTo EXCEPT ![s] = 0]
  /\ UNCHANGED todo

\* History: a run stays `overlapped' until no session holds it and its row has
\* no timer that may have been set in the meantime.
LetGo(s) ==
  /\ late' = [late EXCEPT ![s] = FALSE]
  /\ overlapped' = {r \in overlapped : \/ held[s] # r
                                       \/ \E v \in Sessions \ {s} : held[v] = r
                                       \/ row'[r].timer # NoTimer}

Hold(s, r, values) ==
  /\ stage' = [stage EXCEPT ![s] = "held"]
  /\ held' = [held EXCEPT ![s] = r]
  /\ orig' = [orig EXCEPT ![s] = values]
  /\ copy' = [copy EXCEPT ![s] = values]
  /\ UNCHANGED <<bumpCsm, bumpTo>>

\* Fault: triggering a run that exists starts it over.
TriggerAgain(s, r) ==
  /\ stage[s] = "idle"
  /\ stored # {}
  /\ row' = [row EXCEPT ![r] = Fresh]
  /\ enteredAt' = [enteredAt EXCEPT ![r] = now]
  /\ Hold(s, r, Fresh)
  /\ UNCHANGED <<stored, gone, matches, csmVars, now, todo, visits, boundVars,
                 booked, raced, overlapped, late, overlaps, redo>>

\* POST .../trigger: the row is inserted and committed, and the request goes
\* on with the very object it inserted: advance_playbook_run's SELECT finds it
\* in the session's identity map and does not refresh it.
Trigger(s, r) ==
  /\ stage[s] = "idle"
  /\ row[r].status = "absent"
  /\ stored # {}
  /\ row' = [row EXCEPT ![r] = Fresh]
  /\ enteredAt' = [enteredAt EXCEPT ![r] = now]
  /\ Hold(s, r, Fresh)
  /\ UNCHANGED <<stored, gone, matches, csmVars, now, todo, visits, boundVars,
                 booked, raced, overlapped, late, overlaps, redo>>

\* The cron job selects the ids of the running runs.
StartSweep(s) ==
  LET running == {r \in Runs : row[r].status = "running"}
  IN  /\ stage[s] = "idle"
      /\ running # {}
      /\ stage' = [stage EXCEPT ![s] = "sweep"]
      /\ todo' = [todo EXCEPT ![s] = running]
      /\ UNCHANGED <<rowVars, csmVars, now, held, orig, copy, bumpCsm, bumpTo,
                     visits, boundVars, historyVars>>

\* The sweep takes the next id and reads its row.
Load(s, r) ==
  /\ stage[s] = "sweep"
  /\ r \in todo[s]
  /\ todo' = [todo EXCEPT ![s] = @ \ {r}]
  /\ Hold(s, r, row[r])
  /\ LET shared == \E v \in Sessions : held[v] = r
     IN  /\ late' = [late EXCEPT ![s] = shared]
         /\ overlapped' = IF shared THEN overlapped \cup {r} ELSE overlapped
  /\ UNCHANGED <<rowVars, csmVars, now, visits, boundVars, booked, raced, overlaps, redo,
                 enteredAt>>

(***************************************************************************)
(* advance_playbook_run, from the object the session holds                 *)
(***************************************************************************)
\* Faults: a set timer is never seen to elapse; a delay ends an hour early.
WaitingForever(s) == copy[s].timer # NoTimer
WaitingLess(s) == copy[s].timer # NoTimer /\ now + 1 < copy[s].timer

Waiting(s) == copy[s].timer # NoTimer /\ now < copy[s].timer

\* Early returns: the run is finished, or its delay has not elapsed.
Skip(s) ==
  /\ stage[s] = "held"
  /\ copy[s].status \in Finished \/ Waiting(s)
  /\ Release(s)
  /\ UNCHANGED <<rowVars, csmVars, now, visits, boundVars, booked, raced, overlaps, redo,
                 enteredAt>>
  /\ LetGo(s)

Advancing(s) == stage[s] = "held" /\ copy[s].status \notin Finished /\ ~Waiting(s)

\* The object is changed and the session is about to commit.
Write(s, values) ==
  /\ stage' = [stage EXCEPT ![s] = "writing"]
  /\ copy' = [copy EXCEPT ![s] = values]
  /\ UNCHANGED <<held, todo>>

\* The definition, or all of its graph, is gone.
FailWithoutGraph(s) ==
  /\ Advancing(s)
  /\ gone
  /\ Write(s, [copy[s] EXCEPT !.status = "failed"])
  /\ UNCHANGED <<rowVars, csmVars, now, orig, bumpCsm, bumpTo, visits, boundVars, historyVars>>

\* Fault: the run is completed whether or not its node is there.
CompleteAnywhere(s) ==
  /\ Advancing(s)
  /\ ~gone
  /\ Write(s, [copy[s] EXCEPT !.status = "completed"])
  /\ UNCHANGED <<rowVars, csmVars, now, orig, bumpCsm, bumpTo, visits, boundVars, historyVars>>

\* The run stands on a node the graph no longer has (it may have none at all).
CompleteOffGraph(s) ==
  /\ Advancing(s)
  /\ ~gone
  /\ copy[s].node \notin stored
  /\ Write(s, [copy[s] EXCEPT !.status = "completed"])
  /\ UNCHANGED <<rowVars, csmVars, now, orig, bumpCsm, bumpTo, visits, boundVars, historyVars>>

OnNode(s, kind) ==
  /\ Advancing(s)
  /\ copy[s].node \in stored
  /\ Kind[copy[s].node] = kind

\* First visit of a delay node: set the timer and stay.
ArmDelay(s) ==
  /\ OnNode(s, "delay")
  /\ copy[s].timer = NoTimer
  /\ Write(s, [copy[s] EXCEPT !.timer = now + DelayHours[copy[s].node]])
  /\ UNCHANGED <<rowVars, csmVars, now, orig, bumpCsm, bumpTo, visits, boundVars, historyVars>>

\* Fault: the run never leaves its node.
NotMoved(values, next) ==
  [values EXCEPT !.status = IF next \in stored THEN @ ELSE "completed"]

\* The run moves on to next_node_id if the graph has it, and else is completed.
Moved(values, next) ==
  [values EXCEPT !.node   = IF next \in stored THEN next ELSE @,
                 !.status = IF next \in stored THEN @ ELSE "completed"]

\* Every performed node ends the same way.  The history entry goes into the
\* list of the dict that was read, and that same dict is assigned back, so the
\* value the session remembers as read changes with it.
Perform(s, next, changed) ==
  LET n    == copy[s].node
      hist == IF Kind[n] = "other" THEN copy[s].hist ELSE Append(copy[s].hist, n)
  IN  /\ Write(s, [Moved(changed, next) EXCEPT !.hist = hist])
      /\ orig' = [orig EXCEPT ![s].hist = hist]
      /\ visits' = [visits EXCEPT ![held[s]][n] = @ + 1]
      /\ overlaps' = IF late[s] THEN [overlaps EXCEPT ![held[s]] = @ + 1] ELSE overlaps
      /\ UNCHANGED <<rowVars, csmVars, now, boundVars, booked, overlapped, late, redo, enteredAt>>

\* The message is handed to the channel's adapter; what it raises is logged.
PerformAction(s) ==
  /\ OnNode(s, "action")
  /\ Perform(s, Edge[copy[s].node], copy[s])
  /\ UNCHANGED <<bumpCsm, bumpTo, raced>>

\* The timer has elapsed.
PerformDelay(s) ==
  /\ OnNode(s, "delay")
  /\ copy[s].timer # NoTimer
  /\ Perform(s, Edge[copy[s].node], [copy[s] EXCEPT !.timer = NoTimer])
  /\ UNCHANGED <<bumpCsm, bumpTo, raced>>

PerformCondition(s) ==
  /\ OnNode(s, "condition")
  /\ Perform(s, Branch(copy[s].node, matches[held[s]]), copy[s])
  /\ UNCHANGED <<bumpCsm, bumpTo, raced>>

\* A CSM with capacity takes the task, and the object read for it is
\* incremented in memory.
AssignTask(s) ==
  /\ OnNode(s, "human_task")
  /\ \E c \in LeastBusy(Candidates(copy[s].node)) :
       /\ Perform(s, Edge[copy[s].node],
                  [copy[s] EXCEPT !.csm = c, !.task = "assigned"])
       /\ bumpCsm' = [bumpCsm EXCEPT ![s] = c]
       /\ bumpTo' = [bumpTo EXCEPT ![s] = activeCount[c] + 1]
       /\ raced' = IF \E v \in Sessions : bumpCsm[v] = c THEN raced \cup {c} ELSE raced

OverflowTask(s) ==
  /\ OnNode(s, "human_task")
  /\ HasCapacity = {}
  /\ Perform(s, Edge[copy[s].node],
             [copy[s] EXCEPT !.csm = NoCsm, !.task = "unassigned_overflow"])
  /\ UNCHANGED <<bumpCsm, bumpTo, raced>>

\* A node whose type the engine does not know matches no branch.
PerformUnknown(s) ==
  /\ OnNode(s, "other")
  /\ Perform(s, NoNode, copy[s])
  /\ UNCHANGED <<bumpCsm, bumpTo, raced>>

\* Fault: the whole object is written back.
FlushedWhole(db, read, new) == new

\* What a flush leaves in the row: the columns the session changed, over the
\* values the row has by then.
Flushed(db, read, new) ==
  [node   |-> IF new.node   # read.node   THEN new.node   ELSE db.node,
   status |-> IF new.status # read.status THEN new.status ELSE db.status,
   timer  |-> IF new.timer  # read.timer  THEN new.timer  ELSE db.timer,
   csm    |-> IF new.csm    # read.csm    THEN new.csm    ELSE db.csm,
   task   |-> IF new.task   # read.task   THEN new.task   ELSE db.task,
   hist   |-> IF new.hist   # read.hist   THEN new.hist   ELSE db.hist]

Commit(s) ==
  LET r == held[s]
      c == bumpCsm[s]
  IN  /\ stage[s] = "writing"
      /\ row' = [row EXCEPT ![r] = Flushed(row[r], orig[s], copy[s])]
      /\ IF c = NoCsm
         THEN UNCHANGED <<activeCount, booked>>
         ELSE /\ activeCount' = [activeCount EXCEPT ![c] = bumpTo[s]]
              /\ booked' = [booked EXCEPT ![c] = @ + 1]
      /\ enteredAt' = IF row'[r].node # row[r].node
                      THEN [enteredAt EXCEPT ![r] = now] ELSE enteredAt
      /\ Release(s)
      /\ LetGo(s)
      /\ UNCHANGED <<stored, gone, matches, maxActive, available, now, visits, boundVars,
                     raced, overlaps, redo>>

(***************************************************************************)
(* Failures, administrators, and the world                                 *)
(***************************************************************************)
\* The worker or API process dies, or the job times out: its transaction is
\* rolled back, what it has sent stays sent.
Crash(s) ==
  /\ stage[s] # "idle"
  /\ crashes < MaxCrashes
  /\ crashes' = crashes + 1
  /\ redo' = IF stage[s] = "writing" THEN [redo EXCEPT ![held[s]] = @ + 1] ELSE redo
  /\ stage' = [stage EXCEPT ![s] = "idle"]
  /\ held' = [held EXCEPT ![s] = NoRun]
  /\ orig' = [orig EXCEPT ![s] = Absent]
  /\ copy' = [copy EXCEPT ![s] = Absent]
  /\ bumpCsm' = [bumpCsm EXCEPT ![s] = NoCsm]
  /\ bumpTo' = [bumpTo EXCEPT ![s] = 0]
  /\ todo' = [todo EXCEPT ![s] = {}]
  /\ UNCHANGED <<rowVars, csmVars, now, visits, edits, saves, reassigns,
                 booked, raced, overlaps, enteredAt>>
  /\ LetGo(s)

\* POST .../reassign: no look at the run's status, the CSM's capacity or counts.
ReassignTask(r, c) ==
  /\ row[r].status # "absent"
  /\ reassigns < MaxReassigns
  /\ reassigns' = reassigns + 1
  /\ row' = [row EXCEPT ![r].csm = c, ![r].task = "assigned"]
  /\ UNCHANGED <<stored, gone, matches, csmVars, now, sessionVars, visits,
                 crashes, edits, saves, historyVars>>

\* Fault: a save writes a whole new profile.
SaveNewProfile(c, cap, avail) ==
  /\ saves < MaxSaves
  /\ saves' = saves + 1
  /\ maxActive' = [maxActive EXCEPT ![c] = cap]
  /\ available' = [available EXCEPT ![c] = avail]
  /\ activeCount' = [activeCount EXCEPT ![c] = 0]
  /\ UNCHANGED <<rowVars, now, sessionVars, visits,
                 crashes, edits, reassigns, historyVars>>

\* POST .../csm-profiles: a save leaves the active count alone.  A CSM without
\* a profile yet is one that is not available and has count 0.
SaveCsmProfile(c, cap, avail) ==
  /\ saves < MaxSaves
  /\ saves' = saves + 1
  /\ maxActive' = [maxActive EXCEPT ![c] = cap]
  /\ available' = [available EXCEPT ![c] = avail]
  /\ UNCHANGED <<rowVars, activeCount, now, sessionVars, visits,
                 crashes, edits, reassigns, historyVars>>

\* Another subsystem rescores the customer.
Rescore(r) ==
  /\ matches' = [matches EXCEPT ![r] = ~@]
  /\ UNCHANGED <<row, stored, gone, csmVars, now, sessionVars, visits, boundVars, historyVars>>

\* No endpoint edits a stored graph; the engine guards against an operator who
\* removes nodes from it, or the graph with all its nodes.
EditGraph(S, all) ==
  /\ edits < MaxEdits
  /\ edits' = edits + 1
  /\ S \subseteq stored
  /\ S # stored
  /\ Start \in S \/ S = {}
  /\ all => S = {}
  /\ stored' = S
  /\ gone' = all
  /\ UNCHANGED <<row, matches, csmVars, now, sessionVars, visits,
                 crashes, saves, reassigns, historyVars>>

\* Time passes while some timer is running (it is compared with nothing else).
Tick ==
  /\ \E r \in Runs : row[r].timer > now
  /\ now' = now + 1
  /\ UNCHANGED <<rowVars, csmVars, sessionVars, visits, boundVars, historyVars>>

(***************************************************************************)
(* Specification                                                           *)
(***************************************************************************)
Init ==
  /\ row = [r \in Runs |-> Absent]
  /\ stored = Nodes
  /\ gone = FALSE
  /\ matches \in [Runs -> BOOLEAN]
  /\ activeCount = [c \in Csms |-> 0]
  /\ maxActive \in [Csms -> 1..MaxCap]
  /\ available \in [Csms -> BOOLEAN]
  /\ now = 0
  /\ stage = [s \in Sessions |-> "idle"]
  /\ held = [s \in Sessions |-> NoRun]
  /\ orig = [s \in Sessions |-> Absent]
  /\ copy = [s \in Sessions |-> Absent]
  /\ bumpCsm = [s \in Sessions |-> NoCsm]
  /\ bumpTo = [s \in Sessions |-> 0]
  /\ todo = [s \in Sessions |-> {}]
  /\ visits = [r \in Runs |-> [n \in Nodes |-> 0]]
  /\ crashes = 0 /\ edits = 0 /\ saves = 0 /\ reassigns = 0
  /\ booked = [c \in Csms |-> 0]
  /\ raced = {}
  /\ overlapped = {}
  /\ late = [s \in Sessions |-> FALSE]
  /\ overlaps = [r \in Runs |-> 0]
  /\ redo = [r \in Runs |-> 0]
  /\ enteredAt = [r \in Runs |-> 0]

PerformNode(s) ==
  \/ PerformAction(s) \/ PerformDelay(s) \/ PerformCondition(s)
  \/ AssignTask(s) \/ OverflowTask(s) \/ PerformUnknown(s)

AdvanceRun(s) ==
  \/ Skip(s) \/ FailWithoutGraph(s) \/ CompleteOffGraph(s)
  \/ ArmDelay(s) \/ PerformNode(s) \/ Commit(s)

Sweep(s) == StartSweep(s) \/ \E r \in Runs : Load(s, r)

Environment ==
  \/ \E r \in Runs : Rescore(r) \/ \E c \in Csms : ReassignTask(r, c)
  \/ \E c \in Csms, cap \in 1..MaxCap, avail \in BOOLEAN : SaveCsmProfile(c, cap, avail)
  \/ \E S \in SUBSET Nodes, all \in BOOLEAN : EditGraph(S, all)
  \/ Tick

Next ==
  \/ \E s \in Requests, r \in Runs : Trigger(s, r)
  \/ \E s \in Crons : Sweep(s)
  \/ \E s \in Sessions : AdvanceRun(s) \/ Crash(s)
  \/ Environment

\* arq starts the job every quarter of an hour and a job or a request that has
\* begun goes on to its end unless it dies; the clock advances.  No request is
\* ever bound to come.
Fairness ==
  /\ \A s \in Crons : WF_vars(Sweep(s))
  /\ \A s \in Sessions : WF_vars(AdvanceRun(s))
  /\ WF_vars(Tick)

Spec == Init /\ [][Next]_vars
FairSpec == Spec /\ Fairness

(***************************************************************************)
(* Properties                                                              *)
(***************************************************************************)
\* Every variable holds a value of its kind; in particular a row stands on a node of
\* the graph, whatever the stored graph was when it moved (engine.py:103-121).
TypeOK ==
  /\ row \in [Runs -> Row]
  /\ stored \subseteq Nodes
  /\ gone \in BOOLEAN /\ (gone => stored = {})
  /\ matches \in [Runs -> BOOLEAN]
  /\ activeCount \in [Csms -> Nat]
  /\ maxActive \in [Csms -> 1..MaxCap]
  /\ available \in [Csms -> BOOLEAN]
  /\ now \in Nat
  /\ stage \in [Sessions -> Stages]
  /\ held \in [Sessions -> Runs \cup {NoRun}]
  /\ orig \in [Sessions -> Row]
  /\ copy \in [Sessions -> Row]
  /\ bumpCsm \in [Sessions -> Csms \cup {NoCsm}]
  /\ bumpTo \in [Sessions -> Nat]
  /\ todo \in [Sessions -> SUBSET Runs]
  /\ visits \in [Runs -> [Nodes -> Nat]]
  /\ crashes \in Nat /\ edits \in Nat /\ saves \in Nat /\ reassigns \in Nat
  /\ booked \in [Csms -> Nat]
  /\ raced \subseteq Csms
  /\ overlapped \subseteq Runs
  /\ late \in [Sessions -> BOOLEAN]
  /\ overlaps \in [Runs -> Nat]
  /\ redo \in [Runs -> Nat]
  /\ enteredAt \in [Runs -> Nat]

\* The run's position, whoever wrote it, follows from a node that was performed.
Contract == INSTANCE RunContract WITH
  Leads     <- [m \in Nodes |-> Targets(m) \cap Nodes],
  Exits     <- {m \in Nodes : NoNode \in Targets(m)},
  phase     <- [r \in Runs |-> row[r].status],
  at        <- [r \in Runs |-> row[r].node],
  performed <- [r \in Runs |-> {n \in Nodes : visits[r][n] > 0}],
  intact    <- stored = Nodes

\* The engine keeps the promise of RunContract under every interleaving of
\* sessions, every crash and every stale commit: no node is skipped, whatever
\* is repeated.
ImplementsContract == Contract!ContractSpec

\* The strengthening under which the promise is inductive: what a session holds
\* or is about to write was reached the same way, however stale it has become.
Reached(r, n) == n = Start \/ \E m \in Nodes : visits[r][m] > 0 /\ n \in Targets(m)
CanEnd(r) == stored # Nodes \/ \E m \in Nodes : visits[r][m] > 0 /\ NoNode \in Targets(m)

RowsReached ==
  \A r \in Runs : /\ Reached(r, row[r].node)
                  /\ row[r].status = "absent" => row[r].node = Start

HeldRunsExist ==
  \A s \in Sessions :
    /\ \A r \in todo[s] : row[r].status # "absent"
    /\ stage[s] \in {"held", "writing"} =>
         /\ held[s] \in Runs
         /\ row[held[s]].status # "absent"
         /\ orig[s].status # "absent"
         /\ Reached(held[s], orig[s].node)
    /\ stage[s] = "held" => copy[s].node = orig[s].node /\ copy[s].status = orig[s].status

PendingWritesReached ==
  \A s \in Sessions : stage[s] = "writing" =>
    \/ copy[s].node = orig[s].node /\ copy[s].status = orig[s].status
    \/ /\ copy[s].status = orig[s].status
       /\ \E m \in Nodes : visits[held[s]][m] > 0 /\ copy[s].node \in Targets(m)
    \/ /\ copy[s].node = orig[s].node
       /\ \/ copy[s].status = "completed" /\ CanEnd(held[s])
          \/ copy[s].status = "failed" /\ stored # Nodes

ReachInv == RowsReached /\ HeldRunsExist /\ PendingWritesReached

\* A finished run is never running again: a stale session that read it while
\* it ran does not write the status column it did not change.
FinishedIsForever ==
  [][\A r \in Runs : row[r].status \in Finished => row'[r].status \in Finished]_vars

\* On an acyclic graph each node of a run is performed once, plus at most once
\* more per crash that came between a node's side effect and its commit, and
\* once more per node that a session performed which had read the run while
\* another session held it: at-least-once, with these the only reasons
\* (engine.py:72-207).
OncePlusRepeats ==
  \A r \in Runs, n \in Nodes : visits[r][n] <= 1 + redo[r] + overlaps[r]

\* Whoever moves a run, however stale its object has become, moves it along an
\* edge from a node at which it read the run running, and which was performed;
\* and from the node on which the run still is, unless sessions overlapped on
\* it since they last all let go of it (engine.py:200-206).
MovesAlongGraph ==
  [][\A r \in Runs : row'[r].node # row[r].node =>
       \E s \in Sessions :
         /\ held[s] = r /\ orig[s].status = "running"
         /\ row'[r].node \in Targets(orig[s].node) /\ visits[r][orig[s].node] > 0
         /\ r \notin overlapped => row[r].status = "running" /\ row[r].node = orig[s].node]_vars

\* A run leaves a delay node only when the whole delay has passed since it
\* arrived there, unless sessions overlapped on it since they last all let go
\* of it with no timer set (engine.py:85-88, 140-158).
DelayHonoured ==
  [][\A r \in Runs \ overlapped, n \in Nodes :
       Kind[n] = "delay" /\ visits'[r][n] > visits[r][n]
         => now >= enteredAt[r] + DelayHours[n]]_vars

\* current_active_count never overstates the tasks given to a CSM, and is
\* exact unless two sessions once incremented it at the same time.
CountsTasks ==
  \A c \in Csms : /\ activeCount[c] <= booked[c]
                  /\ c \notin raced => activeCount[c] = booked[c]

\* With unchanged limits, auto-assignment stays within a CSM's limit unless two
\* sessions once incremented the count at the same time.
WithinLimitUnlessRaced ==
  saves = 0 => \A c \in Csms \ raced : booked[c] <= maxActive[c]

\* The strengthening for counts: what a session is about to write to a count.
CountInv ==
  \A c \in Csms :
    /\ activeCount[c] <= booked[c]
    /\ \A s \in Sessions : bumpCsm[s] = c => bumpTo[s] <= booked[c] + 1
    /\ c \notin raced =>
         /\ activeCount[c] = booked[c]
         /\ \A s \in Sessions : bumpCsm[s] = c => bumpTo[s] = activeCount[c] + 1
         /\ \A s, t \in Sessions : bumpCsm[s] = c /\ bumpCsm[t] = c => s = t

\* The strengthening for limits: with unchanged limits neither a stored count nor one
\* a session is about to write exceeds its CSM's limit (engine.py:29-50).
LimitInv ==
  saves = 0 => \A c \in Csms :
    /\ activeCount[c] <= maxActive[c]
    /\ \A s \in Sessions : bumpCsm[s] = c => bumpTo[s] <= maxActive[c]

\* A run read afresh from the database after its first node has that node in
\* its history, as test_crash_safety_resumable_execution asserts.
HistoryPersisted ==
  \A r \in Runs : row[r].node # Start => Len(row[r].hist) >= 1

\* On an acyclic graph every run that is started is finished.
RunsFinish ==
  \A r \in Runs : row[r].status = "running" ~> row[r].status \in Finished
=============================================================================
