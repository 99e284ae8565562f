------------------------ MODULE PlaybookEngineProofs ------------------------
(***************************************************************************)
(* Proofs about PlaybookEngine, for every graph, every set of runs, CSMs   *)
(* and sessions, and without the bounds of the model-checked instances.    *)
(***************************************************************************)
EXTENDS PlaybookEngine, FiniteSetTheorems, TLAPS

(***************************************************************************)
(* Type correctness                                                        *)
(***************************************************************************)
\* The blank rows are rows.
LEMMA BlankRows == Fresh \in Row /\ Absent \in Row
  <1>1. Start \in Nodes /\ NoTimer \in Int /\ <<>> \in Seq(Nodes)
    BY GraphAssumption DEF NoTimer
  <1>2. Fresh \in Row
    BY <1>1 DEF Fresh, Row, Statuses, Finished
  <1>3. [Fresh EXCEPT !.status = "absent"] \in Row
    BY <1>2 DEF Row, Statuses
  <1>4. QED
    BY <1>2, <1>3 DEF Absent

\* What a flush writes is a row, whatever mixture of columns it takes.
LEMMA FlushedType ==
  ASSUME NEW db \in Row, NEW read \in Row, NEW new \in Row
  PROVE  Flushed(db, read, new) \in Row
  BY DEF Flushed, Row

\* Every target of a node is a node or NoNode.
LEMMA TargetType ==
  ASSUME NEW n \in Nodes
  PROVE  /\ Targets(n) \subseteq Nodes \cup {NoNode}
         /\ \A holds \in BOOLEAN : Branch(n, holds) \in Nodes \cup {NoNode}
  BY GraphAssumption DEF Targets, Branch, NodeKinds

\* Dropping an object leaves every session variable well typed.
LEMMA ReleaseType ==
  ASSUME TypeOK, NEW s \in Sessions, Release(s)
  PROVE  /\ stage' \in [Sessions -> Stages]
         /\ held' \in [Sessions -> Runs \cup {NoRun}]
         /\ orig' \in [Sessions -> Row]
         /\ copy' \in [Sessions -> Row]
         /\ bumpCsm' \in [Sessions -> Csms \cup {NoCsm}]
         /\ bumpTo' \in [Sessions -> Nat]
         /\ todo' \in [Sessions -> SUBSET Runs]
  BY BlankRows DEF Release, TypeOK, Stages

\* So does the history of who holds what.
LEMMA LetGoType ==
  ASSUME TypeOK, NEW s \in Sessions, LetGo(s)
  PROVE  late' \in [Sessions -> BOOLEAN] /\ overlapped' \subseteq Runs
  BY DEF LetGo, TypeOK

\* Where a run goes: to a node of the stored graph, or nowhere.
LEMMA MovedType ==
  ASSUME TypeOK, NEW values \in Row, NEW next
  PROVE  /\ Moved(values, next) \in Row
         /\ Moved(values, next).node = (IF next \in stored THEN next ELSE values.node)
         /\ Moved(values, next).status = (IF next \in stored THEN values.status ELSE "completed")
         /\ Moved(values, next).timer = values.timer
  BY DEF Moved, Row, TypeOK, Statuses, Finished

\* Performing a node keeps the types of all it changes.
LEMMA PerformType ==
  ASSUME TypeOK, NEW s \in Sessions, NEW next, NEW changed \in Row,
         Perform(s, next, changed)
  PROVE  /\ stage' \in [Sessions -> Stages]
         /\ orig' \in [Sessions -> Row]
         /\ copy' \in [Sessions -> Row]
         /\ visits' \in [Runs -> [Nodes -> Nat]]
         /\ overlaps' \in [Runs -> Nat]
  <1> DEFINE n == copy[s].node
             hist == IF Kind[n] = "other" THEN copy[s].hist ELSE Append(copy[s].hist, n)
  <1>1. copy[s] \in Row /\ orig[s] \in Row
    BY DEF TypeOK
  <1>2. n \in Nodes /\ hist \in Seq(Nodes)
    BY <1>1 DEF Row
  <1> DEFINE new == [Moved(changed, next) EXCEPT !.hist = hist]
  <1>3. new \in Row
    <2>1. Moved(changed, next) \in Row
      BY MovedType
    <2>2. QED
      BY <1>2, <2>1 DEF Row
  <1>4. [orig[s] EXCEPT !.hist = hist] \in Row
    BY <1>1, <1>2 DEF Row
  <1>5. copy' = [copy EXCEPT ![s] = new] /\ orig' = [orig EXCEPT ![s].hist = hist]
    BY DEF Perform, Write
  <1>6. copy' \in [Sessions -> Row]
    BY <1>3, <1>5 DEF TypeOK
  <1>7. orig' \in [Sessions -> Row]
    BY <1>4, <1>5 DEF TypeOK
  <1>8. stage' \in [Sessions -> Stages]
    BY DEF Perform, Write, TypeOK, Stages
  <1>9. visits' \in [Runs -> [Nodes -> Nat]]
    <2>1. visits' = [visits EXCEPT ![held[s]] = [visits[held[s]] EXCEPT ![n] = visits[held[s]][n] + 1]]
      BY DEF Perform
    <2>2. CASE held[s] \in Runs
      <3>1. visits[held[s]] \in [Nodes -> Nat]
        BY <2>2 DEF TypeOK
      <3>2. [visits[held[s]] EXCEPT ![n] = visits[held[s]][n] + 1] \in [Nodes -> Nat]
        BY <1>2, <3>1
      <3>3. QED
        BY <2>1, <3>2 DEF TypeOK
    <2>3. CASE held[s] \notin Runs
      BY <2>1, <2>3 DEF TypeOK
    <2>4. QED
      BY <2>2, <2>3
  <1>10. overlaps' \in [Runs -> Nat]
    <2>1. overlaps' = overlaps \/ overlaps' = [overlaps EXCEPT ![held[s]] = overlaps[held[s]] + 1]
      BY DEF Perform
    <2>2. CASE held[s] \in Runs
      <3>1. overlaps[held[s]] + 1 \in Nat
        BY <2>2 DEF TypeOK
      <3>2. QED
        BY <2>1, <3>1 DEF TypeOK
    <2>3. CASE held[s] \notin Runs
      BY <2>1, <2>3 DEF TypeOK
    <2>4. QED
      BY <2>2, <2>3
  <1>11. QED
    BY <1>6, <1>7, <1>8, <1>9, <1>10

\* A step of a session keeps the types.
LEMMA AdvanceType ==
  ASSUME TypeOK, NEW s \in Sessions, AdvanceRun(s)
  PROVE  TypeOK'
  <1>0. copy[s] \in Row /\ orig[s] \in Row /\ copy[s].node \in Nodes
    BY DEF TypeOK, Row
  <1>1. CASE Skip(s)
    BY <1>1, ReleaseType, LetGoType DEF Skip, TypeOK, rowVars, csmVars, boundVars
  <1>2. CASE FailWithoutGraph(s)
    <2>1. [copy[s] EXCEPT !.status = "failed"] \in Row
      BY <1>0 DEF Row, Statuses, Finished
    <2>2. QED
      BY <1>2, <2>1 DEF FailWithoutGraph, Write, TypeOK, Stages, rowVars, csmVars, boundVars, historyVars
  <1>3. CASE CompleteOffGraph(s)
    <2>1. [copy[s] EXCEPT !.status = "completed"] \in Row
      BY <1>0 DEF Row, Statuses, Finished
    <2>2. QED
      BY <1>3, <2>1 DEF CompleteOffGraph, Write, TypeOK, Stages, rowVars, csmVars, boundVars, historyVars
  <1>4. CASE ArmDelay(s)
    <2>1. now + DelayHours[copy[s].node] \in Int
      BY <1>0, GraphAssumption DEF TypeOK
    <2>2. [copy[s] EXCEPT !.timer = now + DelayHours[copy[s].node]] \in Row
      BY <1>0, <2>1 DEF Row
    <2>3. QED
      BY <1>4, <2>2 DEF ArmDelay, Write, TypeOK, Stages, rowVars, csmVars, boundVars, historyVars
  <1>5. CASE PerformNode(s)
    <2> SUFFICES ASSUME NEW next, NEW changed \in Row, Perform(s, next, changed),
                        /\ bumpCsm' \in [Sessions -> Csms \cup {NoCsm}]
                        /\ bumpTo' \in [Sessions -> Nat]
                        /\ raced' \subseteq Csms
                 PROVE  TypeOK'
      <3>1. CASE PerformAction(s)
        BY <1>0, <3>1 DEF PerformAction, TypeOK
      <3>2. CASE PerformDelay(s)
        <4>1. [copy[s] EXCEPT !.timer = NoTimer] \in Row
          BY <1>0 DEF Row, NoTimer
        <4>2. QED
          BY <4>1, <3>2 DEF PerformDelay, TypeOK
      <3>3. CASE PerformCondition(s)
        BY <1>0, <3>3 DEF PerformCondition, TypeOK
      <3>4. CASE AssignTask(s)
        <4>1. PICK c \in LeastBusy(Candidates(copy[s].node)) :
                 /\ Perform(s, Edge[copy[s].node], [copy[s] EXCEPT !.csm = c, !.task = "assigned"])
                 /\ bumpCsm' = [bumpCsm EXCEPT ![s] = c]
                 /\ bumpTo' = [bumpTo EXCEPT ![s] = activeCount[c] + 1]
                 /\ raced' = IF \E v \in Sessions : bumpCsm[v] = c THEN raced \cup {c} ELSE raced
          BY <3>4 DEF AssignTask
        <4>2. c \in Csms
          BY DEF LeastBusy, Candidates, HasCapacity
        <4>3. [copy[s] EXCEPT !.csm = c, !.task = "assigned"] \in Row
          BY <1>0, <4>2 DEF Row
        <4>4. activeCount[c] + 1 \in Nat
          BY <4>2 DEF TypeOK
        <4>5. QED
          BY <4>1, <4>2, <4>3, <4>4 DEF TypeOK
      <3>5. CASE OverflowTask(s)
        <4>1. [copy[s] EXCEPT !.csm = NoCsm, !.task = "unassigned_overflow"] \in Row
          BY <1>0 DEF Row
        <4>2. QED
          BY <4>1, <3>5 DEF OverflowTask, TypeOK
      <3>6. CASE PerformUnknown(s)
        BY <1>0, <3>6 DEF PerformUnknown, TypeOK
      <3>7. QED
        BY <1>5, <3>1, <3>2, <3>3, <3>4, <3>5, <3>6 DEF PerformNode
    <2>1. /\ stage' \in [Sessions -> Stages]
          /\ orig' \in [Sessions -> Row]
          /\ copy' \in [Sessions -> Row]
          /\ visits' \in [Runs -> [Nodes -> Nat]]
          /\ overlaps' \in [Runs -> Nat]
      BY PerformType
    <2>2. UNCHANGED <<rowVars, csmVars, now, boundVars, booked, overlapped, late, redo, enteredAt,
                      held, todo>>
      BY DEF Perform, Write
    <2>3. QED
      BY <2>1, <2>2 DEF TypeOK, rowVars, csmVars, boundVars
  <1>6. CASE Commit(s)
    <2>1. row' \in [Runs -> Row]
      <3>1. CASE held[s] \in Runs
        <4>1. Flushed(row[held[s]], orig[s], copy[s]) \in Row
          BY <1>0, <3>1, FlushedType DEF TypeOK
        <4>2. QED
          BY <1>6, <4>1 DEF Commit, TypeOK
      <3>2. CASE held[s] \notin Runs
        BY <1>6, <3>2 DEF Commit, TypeOK
      <3>3. QED
        BY <3>1, <3>2
    <2>2. /\ activeCount' \in [Csms -> Nat]
          /\ booked' \in [Csms -> Nat]
          /\ enteredAt' \in [Runs -> Nat]
      <3>1. activeCount' = activeCount \/ activeCount' = [activeCount EXCEPT ![bumpCsm[s]] = bumpTo[s]]
        BY <1>6 DEF Commit
      <3>2. booked' = booked \/ booked' = [booked EXCEPT ![bumpCsm[s]] = @ + 1]
        BY <1>6 DEF Commit
      <3>3. enteredAt' = enteredAt \/ enteredAt' = [enteredAt EXCEPT ![held[s]] = now]
        BY <1>6 DEF Commit
      <3>4. activeCount' \in [Csms -> Nat]
        BY <3>1 DEF TypeOK
      <3>5. booked' \in [Csms -> Nat]
        <4>1. booked \in [Csms -> Nat]
          BY DEF TypeOK
        <4>2. bumpCsm[s] \in Csms => booked[bumpCsm[s]] + 1 \in Nat
          BY <4>1
        <4>3. QED
          BY <3>2, <4>1, <4>2
      <3>6. enteredAt' \in [Runs -> Nat]
        BY <3>3 DEF TypeOK
      <3>7. QED
        BY <3>4, <3>5, <3>6
    <2>3. Release(s) /\ LetGo(s)
      BY <1>6 DEF Commit
    <2>4. QED
      BY <1>6, <2>1, <2>2, <2>3, ReleaseType, LetGoType DEF Commit, TypeOK, boundVars
  <1>7. QED
    BY <1>1, <1>2, <1>3, <1>4, <1>5, <1>6 DEF AdvanceRun

\* A crash, an administrator's request and a tick of the clock keep the types.
LEMMA OtherType ==
  ASSUME TypeOK,
         \/ \E s \in Sessions : Crash(s)
         \/ \E s \in Requests, r \in Runs : Trigger(s, r)
         \/ \E s \in Crons : Sweep(s)
         \/ Environment
  PROVE  TypeOK'
  <1>1. ASSUME NEW s \in Sessions, Crash(s) PROVE TypeOK'
    <2>1. redo' \in [Runs -> Nat]
      <3>1. redo' = redo \/ redo' = [redo EXCEPT ![held[s]] = redo[held[s]] + 1]
        BY <1>1 DEF Crash
      <3>2. redo \in [Runs -> Nat]
        BY DEF TypeOK
      <3>3. CASE held[s] \in Runs
        <4>1. redo[held[s]] + 1 \in Nat
          BY <3>2, <3>3
        <4>2. QED
          BY <3>1, <3>2, <4>1
      <3>4. CASE held[s] \notin Runs
        BY <3>1, <3>2, <3>4
      <3>5. QED
        BY <3>3, <3>4
    <2>2. late' \in [Sessions -> BOOLEAN] /\ overlapped' \subseteq Runs
      BY <1>1, LetGoType DEF Crash
    <2>3. /\ stage' \in [Sessions -> Stages]
          /\ held' \in [Sessions -> Runs \cup {NoRun}]
          /\ orig' \in [Sessions -> Row] /\ copy' \in [Sessions -> Row]
          /\ bumpCsm' \in [Sessions -> Csms \cup {NoCsm}]
          /\ bumpTo' \in [Sessions -> Nat]
          /\ todo' \in [Sessions -> SUBSET Runs]
          /\ crashes' \in Nat
      BY <1>1, BlankRows DEF Crash, TypeOK, Stages
    <2>4. UNCHANGED <<rowVars, csmVars, now, visits, edits, saves, reassigns,
                      booked, raced, overlaps, enteredAt>>
      BY <1>1 DEF Crash
    <2>5. QED
      BY <2>1, <2>2, <2>3, <2>4 DEF TypeOK, rowVars, csmVars
  <1>2. ASSUME NEW s \in Requests, NEW r \in Runs, Trigger(s, r) PROVE TypeOK'
    BY <1>2, BlankRows DEF Trigger, Hold, TypeOK, Stages, Sessions, csmVars, boundVars
  <1>3. ASSUME NEW s \in Crons, Sweep(s) PROVE TypeOK'
    <2>1. CASE StartSweep(s)
      BY <1>3, <2>1 DEF StartSweep, TypeOK, Stages, Sessions, rowVars, csmVars, boundVars, historyVars
    <2>2. ASSUME NEW r \in Runs, Load(s, r) PROVE TypeOK'
      <3>1. row[r] \in Row /\ overlapped' \subseteq Runs /\ late' \in [Sessions -> BOOLEAN]
        BY <2>2 DEF Load, TypeOK
      <3>2. QED
        BY <2>2, <3>1 DEF Load, Hold, TypeOK, Stages, Sessions, rowVars, csmVars, boundVars
    <2>3. QED
      BY <1>3, <2>1, <2>2 DEF Sweep
  <1>4. ASSUME NEW r \in Runs, NEW c \in Csms, ReassignTask(r, c) PROVE TypeOK'
    <2>0. row[r] \in Row
      BY DEF TypeOK
    <2>1. [row[r] EXCEPT !.csm = c, !.task = "assigned"] \in Row
      BY <2>0 DEF Row
    <2>2. row' = [row EXCEPT ![r] = [row[r] EXCEPT !.csm = c, !.task = "assigned"]]
      BY <1>4 DEF ReassignTask
    <2>3. row' \in [Runs -> Row]
      BY <2>1, <2>2 DEF TypeOK
    <2>4. QED
      BY <1>4, <2>3 DEF ReassignTask, TypeOK, csmVars, sessionVars, historyVars
  <1>5. ASSUME NEW c \in Csms, NEW cap \in 1..MaxCap, NEW avail \in BOOLEAN,
               SaveCsmProfile(c, cap, avail)
        PROVE  TypeOK'
    BY <1>5 DEF SaveCsmProfile, TypeOK, rowVars, sessionVars, historyVars
  <1>6. ASSUME NEW r \in Runs, Rescore(r) PROVE TypeOK'
    BY <1>6 DEF Rescore, TypeOK, csmVars, sessionVars, boundVars, historyVars
  <1>7. ASSUME NEW S \in SUBSET Nodes, NEW all \in BOOLEAN, EditGraph(S, all) PROVE TypeOK'
    BY <1>7 DEF EditGraph, TypeOK, csmVars, sessionVars, historyVars
  <1>8. CASE Tick
    BY <1>8 DEF Tick, TypeOK, rowVars, csmVars, sessionVars, boundVars, historyVars
  <1>9. QED
    BY <1>1, <1>2, <1>3, <1>4, <1>5, <1>6, <1>7, <1>8 DEF Environment

LEMMA InitType == Init => TypeOK
  <1> SUFFICES ASSUME Init PROVE TypeOK
    OBVIOUS
  <1>1. /\ row \in [Runs -> Row] /\ orig \in [Sessions -> Row] /\ copy \in [Sessions -> Row]
        /\ stage \in [Sessions -> Stages]
        /\ held \in [Sessions -> Runs \cup {NoRun}]
        /\ todo \in [Sessions -> SUBSET Runs]
        /\ visits \in [Runs -> [Nodes -> Nat]]
    BY BlankRows DEF Init, Stages
  <1>2. /\ bumpCsm \in [Sessions -> Csms \cup {NoCsm}]
        /\ bumpTo \in [Sessions -> Nat]
        /\ late \in [Sessions -> BOOLEAN]
        /\ overlaps \in [Runs -> Nat] /\ redo \in [Runs -> Nat] /\ enteredAt \in [Runs -> Nat]
        /\ booked \in [Csms -> Nat] /\ activeCount \in [Csms -> Nat]
    BY DEF Init
  <1>3. /\ stored \subseteq Nodes /\ gone \in BOOLEAN /\ ~gone
        /\ raced \subseteq Csms /\ overlapped \subseteq Runs
    BY DEF Init
  <1>4. /\ matches \in [Runs -> BOOLEAN]
        /\ maxActive \in [Csms -> 1..MaxCap] /\ available \in [Csms -> BOOLEAN]
        /\ now \in Nat /\ crashes \in Nat /\ edits \in Nat /\ saves \in Nat /\ reassigns \in Nat
    BY DEF Init
  <1>5. QED
    BY <1>1, <1>2, <1>3, <1>4 DEF TypeOK

LEMMA StepType == TypeOK /\ [Next]_vars => TypeOK'
  <1>1. ASSUME TypeOK, Next PROVE TypeOK'
    BY <1>1, AdvanceType, OtherType DEF Next
  <1>2. TypeOK /\ UNCHANGED vars => TypeOK'
    BY DEF TypeOK, vars, rowVars, csmVars, sessionVars, boundVars, historyVars
  <1>3. QED
    BY <1>1, <1>2

\* Every variable of the engine keeps its type, for every graph, every number
\* of runs, CSMs and sessions.
THEOREM TypeCorrect == Spec => []TypeOK
  BY InitType, StepType, PTL DEF Spec

(***************************************************************************)
(* The contract: what a session holds was reached, so what it writes was   *)
(***************************************************************************)
\* A condition node's branch is one of its targets, and so is the first
\* out-edge of the other nodes.
LEMMA NextIsTarget ==
  ASSUME NEW n \in Nodes
  PROVE  /\ Kind[n] \in {"action", "delay", "human_task"} => Edge[n] \in Targets(n)
         /\ Kind[n] = "condition" => \A holds \in BOOLEAN : Branch(n, holds) \in Targets(n)
         /\ Kind[n] = "other" => NoNode \in Targets(n)
  BY GraphAssumption DEF Targets, NodeKinds

\* Performing only adds visits.
LEMMA VisitsGrow ==
  ASSUME TypeOK, NEW s \in Sessions, NEW next, NEW changed, Perform(s, next, changed),
         held[s] \in Runs
  PROVE  /\ \A r \in Runs, m \in Nodes : visits[r][m] > 0 => visits'[r][m] > 0
         /\ visits'[held[s]][copy[s].node] > 0
         /\ \A r \in Runs \ {held[s]} : visits'[r] = visits[r]
         /\ \A m \in Nodes \ {copy[s].node} : visits'[held[s]][m] = visits[held[s]][m]
  <1>1. copy[s].node \in Nodes /\ visits \in [Runs -> [Nodes -> Nat]]
    BY DEF TypeOK, Row
  <1>2. visits' = [visits EXCEPT ![held[s]][copy[s].node] = @ + 1]
    BY DEF Perform
  <1>3. \A r \in Runs \ {held[s]} : visits'[r] = visits[r]
    BY <1>1, <1>2
  <1>4. visits'[held[s]] = [visits[held[s]] EXCEPT ![copy[s].node] = @ + 1]
    BY <1>1, <1>2
  <1>5. \A m \in Nodes \ {copy[s].node} : visits'[held[s]][m] = visits[held[s]][m]
    BY <1>1, <1>4
  <1>6. visits'[held[s]][copy[s].node] = visits[held[s]][copy[s].node] + 1
    BY <1>1, <1>4
  <1>7. visits[held[s]][copy[s].node] \in Nat
    BY <1>1
  <1>8. visits'[held[s]][copy[s].node] > 0
    BY <1>6, <1>7
  <1>9. \A r \in Runs, m \in Nodes : visits[r][m] > 0 => visits'[r][m] > 0
    BY <1>3, <1>5, <1>8
  <1>10. QED
    BY <1>3, <1>5, <1>8, <1>9

\* What every performing action has in common: the node it performs, and a
\* next_node_id that is one of the node's targets.
LEMMA PerformShape ==
  ASSUME TypeOK, NEW s \in Sessions, PerformNode(s)
  PROVE  /\ Advancing(s)
         /\ \E next, changed :
              /\ changed \in Row
              /\ next \in Targets(copy[s].node)
              /\ changed.node = copy[s].node /\ changed.status = copy[s].status
              /\ changed.timer = IF Kind[copy[s].node] = "delay" THEN NoTimer ELSE copy[s].timer
              /\ Perform(s, next, changed)
         /\ Kind[copy[s].node] = "delay" => copy[s].timer # NoTimer
  <1>0. copy[s] \in Row /\ copy[s].node \in Nodes
    BY DEF TypeOK, Row
  <1>1. Advancing(s)
    BY DEF PerformNode, PerformAction, PerformDelay, PerformCondition, AssignTask,
           OverflowTask, PerformUnknown, OnNode
  <1>2. CASE PerformAction(s)
    BY <1>0, <1>1, <1>2, NextIsTarget DEF PerformAction, OnNode
  <1>3. CASE PerformDelay(s)
    <2>1. [copy[s] EXCEPT !.timer = NoTimer] \in Row
      BY <1>0 DEF Row, NoTimer
    <2>2. /\ [copy[s] EXCEPT !.timer = NoTimer].timer = NoTimer
          /\ [copy[s] EXCEPT !.timer = NoTimer].node = copy[s].node
          /\ [copy[s] EXCEPT !.timer = NoTimer].status = copy[s].status
      BY <1>0 DEF Row
    <2>3. QED
      BY <1>0, <1>1, <1>3, <2>1, <2>2, NextIsTarget DEF PerformDelay, OnNode
  <1>4. CASE PerformCondition(s)
    <2>1. Perform(s, Branch(copy[s].node, matches[held[s]]), copy[s])
      BY <1>4 DEF PerformCondition
    <2>2. Branch(copy[s].node, matches[held[s]]) \in Targets(copy[s].node)
      <3>1. Kind[copy[s].node] = "condition"
        BY <1>4 DEF PerformCondition, OnNode
      <3>2. CASE matches[held[s]]
        BY <3>1, <3>2 DEF Targets, Branch
      <3>3. CASE ~matches[held[s]]
        BY <3>1, <3>3 DEF Targets, Branch
      <3>4. QED
        BY <3>2, <3>3
    <2>3. Kind[copy[s].node] # "delay"
      BY <1>4 DEF PerformCondition, OnNode
    <2>4. QED
      BY <1>0, <1>1, <2>1, <2>2, <2>3
  <1>5. CASE AssignTask(s)
    <2>1. PICK c \in LeastBusy(Candidates(copy[s].node)) :
             Perform(s, Edge[copy[s].node], [copy[s] EXCEPT !.csm = c, !.task = "assigned"])
      BY <1>5 DEF AssignTask
    <2>2. c \in Csms
      BY DEF LeastBusy, Candidates, HasCapacity
    <2>3. /\ [copy[s] EXCEPT !.csm = c, !.task = "assigned"] \in Row
          /\ [copy[s] EXCEPT !.csm = c, !.task = "assigned"].node = copy[s].node
          /\ [copy[s] EXCEPT !.csm = c, !.task = "assigned"].status = copy[s].status
          /\ [copy[s] EXCEPT !.csm = c, !.task = "assigned"].timer = copy[s].timer
      BY <1>0, <2>2 DEF Row
    <2>4. Kind[copy[s].node] = "human_task"
      BY <1>5 DEF AssignTask, OnNode
    <2>5. QED
      BY <1>0, <1>1, <2>1, <2>3, <2>4, NextIsTarget
  <1>6. CASE OverflowTask(s)
    <2>1. /\ [copy[s] EXCEPT !.csm = NoCsm, !.task = "unassigned_overflow"] \in Row
          /\ [copy[s] EXCEPT !.csm = NoCsm, !.task = "unassigned_overflow"].node = copy[s].node
          /\ [copy[s] EXCEPT !.csm = NoCsm, !.task = "unassigned_overflow"].status = copy[s].status
          /\ [copy[s] EXCEPT !.csm = NoCsm, !.task = "unassigned_overflow"].timer = copy[s].timer
      BY <1>0 DEF Row
    <2>2. Kind[copy[s].node] = "human_task"
      BY <1>6 DEF OverflowTask, OnNode
    <2>3. QED
      BY <1>0, <1>1, <1>6, <2>1, <2>2, NextIsTarget DEF OverflowTask
  <1>7. CASE PerformUnknown(s)
    BY <1>0, <1>1, <1>7, NextIsTarget DEF PerformUnknown, OnNode
  <1>8. QED
    BY <1>2, <1>3, <1>4, <1>5, <1>6, <1>7 DEF PerformNode

\* What was reached stays reached when visits only grow, and an edited graph is
\* never whole again.
LEMMA ReachGrows ==
  ASSUME \A r \in Runs, m \in Nodes : visits[r][m] > 0 => visits'[r][m] > 0,
         stored' = stored \/ stored' # Nodes
  PROVE  /\ \A r \in Runs : \A n : Reached(r, n) => Reached(r, n)'
         /\ \A r \in Runs : CanEnd(r) => CanEnd(r)'
  BY DEF Reached, CanEnd

\* A step that leaves every session alone, adds no run and moves none.
LEMMA ReachIdle ==
  ASSUME TypeOK, ReachInv,
         UNCHANGED <<visits, stage, held, orig, copy, todo>>,
         stored' = stored \/ stored' # Nodes,
         \A r \in Runs : row'[r].node = row[r].node /\ row'[r].status = row[r].status
  PROVE  ReachInv'
  <1>1. /\ \A r \in Runs : \A n : Reached(r, n) => Reached(r, n)'
        /\ \A r \in Runs : CanEnd(r) => CanEnd(r)'
    BY ReachGrows
  <1>2. RowsReached'
    BY <1>1 DEF ReachInv, RowsReached
  <1>3. HeldRunsExist'
    BY <1>1 DEF ReachInv, HeldRunsExist, TypeOK
  <1>4. PendingWritesReached'
    <2> SUFFICES ASSUME NEW v \in Sessions, stage[v] = "writing"
                 PROVE  PendingWritesReached!(v)'
      BY DEF PendingWritesReached
    <2>1. held[v] \in Runs
      BY DEF ReachInv, HeldRunsExist
    <2>2. CanEnd(held[v]) => CanEnd(held[v])'
      BY <1>1, <2>1
    <2>3. QED
      BY <2>2 DEF ReachInv, PendingWritesReached, CanEnd
  <1>5. QED
    BY <1>2, <1>3, <1>4 DEF ReachInv

\* A step of session s disturbs no other session: what the others hold stays
\* reached.
LEMMA ReachOthers ==
  ASSUME TypeOK, ReachInv, NEW s \in Sessions, stored' = stored,
         \A r \in Runs, m \in Nodes : visits[r][m] > 0 => visits'[r][m] > 0,
         \A r \in Runs : row[r].status # "absent" => row'[r].status # "absent",
         \A v \in Sessions \ {s} :
            /\ stage'[v] = stage[v] /\ held'[v] = held[v] /\ todo'[v] = todo[v]
            /\ orig'[v] = orig[v] /\ copy'[v] = copy[v]
  PROVE  \A v \in Sessions \ {s} : HeldRunsExist!(v)' /\ PendingWritesReached!(v)'
  <1>1. /\ \A r \in Runs : \A n : Reached(r, n) => Reached(r, n)'
        /\ \A r \in Runs : CanEnd(r) => CanEnd(r)'
    BY ReachGrows
  <1> SUFFICES ASSUME NEW v \in Sessions \ {s}
               PROVE  HeldRunsExist!(v)' /\ PendingWritesReached!(v)'
    OBVIOUS
  <1>2. todo[v] \subseteq Runs
    BY DEF TypeOK
  <1>3. stage[v] \in {"held", "writing"} => held[v] \in Runs
    BY DEF ReachInv, HeldRunsExist
  <1>4. HeldRunsExist!(v)'
    BY <1>1, <1>2, <1>3 DEF ReachInv, HeldRunsExist
  <1>5. PendingWritesReached!(v)'
    <2> SUFFICES ASSUME stage[v] = "writing"
                 PROVE  PendingWritesReached!(v)'
      OBVIOUS
    <2>1. CanEnd(held[v]) => CanEnd(held[v])'
      BY <1>1, <1>3
    <2>2. QED
      BY <1>3, <2>1 DEF ReachInv, PendingWritesReached, CanEnd
  <1>6. QED
    BY <1>4, <1>5

\* Early returns.
LEMMA ReachSkip ==
  ASSUME TypeOK, ReachInv, NEW s \in Sessions, Skip(s)
  PROVE  ReachInv'
  <1>1. /\ stage' = [stage EXCEPT ![s] = IF s \in Crons /\ todo[s] # {} THEN "sweep" ELSE "idle"]
        /\ UNCHANGED <<row, stored, visits, todo>>
        /\ \A v \in Sessions \ {s} :
             held'[v] = held[v] /\ orig'[v] = orig[v] /\ copy'[v] = copy[v]
    BY DEF Skip, Release, rowVars, TypeOK
  <1>2. stage'[s] \in {"sweep", "idle"} /\ \A v \in Sessions \ {s} : stage'[v] = stage[v]
    BY <1>1 DEF TypeOK
  <1>3. \A v \in Sessions \ {s} : HeldRunsExist!(v)' /\ PendingWritesReached!(v)'
    BY <1>1, <1>2, ReachOthers
  <1>4. HeldRunsExist!(s)' /\ PendingWritesReached!(s)'
    BY <1>1, <1>2 DEF ReachInv, HeldRunsExist
  <1>5. RowsReached'
    BY <1>1 DEF ReachInv, RowsReached, Reached
  <1>6. QED
    BY <1>3, <1>4, <1>5 DEF ReachInv, HeldRunsExist, PendingWritesReached

\* A session that has changed its object without performing a node: it keeps
\* the node and the status, or ends a run whose graph was edited.
LEMMA ReachWrite ==
  ASSUME TypeOK, ReachInv, NEW s \in Sessions, NEW values \in Row,
         stage[s] = "held", Write(s, values),
         UNCHANGED <<row, stored, visits, orig>>,
         values.node = copy[s].node,
         values.status = copy[s].status \/
           (values.status \in {"completed", "failed"} /\ stored # Nodes)
  PROVE  ReachInv'
  <1>1. /\ stage'[s] = "writing" /\ copy'[s] = values
        /\ UNCHANGED <<held, todo>>
        /\ \A v \in Sessions \ {s} : stage'[v] = stage[v] /\ copy'[v] = copy[v]
    BY DEF Write, TypeOK
  <1>2. \A v \in Sessions \ {s} : HeldRunsExist!(v)' /\ PendingWritesReached!(v)'
    BY <1>1, ReachOthers
  <1>3. HeldRunsExist!(s)'
    BY <1>1 DEF ReachInv, HeldRunsExist, Reached
  <1>4. PendingWritesReached!(s)'
    BY <1>1 DEF ReachInv, HeldRunsExist, CanEnd
  <1>5. RowsReached'
    BY DEF ReachInv, RowsReached, Reached
  <1>6. QED
    BY <1>2, <1>3, <1>4, <1>5 DEF ReachInv, HeldRunsExist, PendingWritesReached

\* Performing a node: the node it leads to, or the end of the run, is reached
\* through the node just performed.
LEMMA ReachPerform ==
  ASSUME TypeOK, ReachInv, NEW s \in Sessions, PerformNode(s)
  PROVE  ReachInv'
  <1>1. PICK next, changed :
          /\ changed \in Row
          /\ next \in Targets(copy[s].node)
          /\ changed.node = copy[s].node /\ changed.status = copy[s].status
          /\ Perform(s, next, changed)
    BY PerformShape
  <1> DEFINE n == copy[s].node
             r == held[s]
  <1>2. stage[s] = "held"
    BY PerformShape DEF Advancing
  <1>3. r \in Runs /\ n \in Nodes
    BY <1>2 DEF ReachInv, HeldRunsExist, TypeOK, Row
  <1>4. /\ \A q \in Runs, m \in Nodes : visits[q][m] > 0 => visits'[q][m] > 0
        /\ visits'[r][n] > 0
    BY <1>1, <1>3, VisitsGrow
  <1>5. /\ UNCHANGED <<row, stored, held, todo>>
        /\ stage' = [stage EXCEPT ![s] = "writing"]
        /\ \A v \in Sessions \ {s} : orig'[v] = orig[v] /\ copy'[v] = copy[v]
    BY <1>1 DEF Perform, Write, rowVars, TypeOK
  <1>6. /\ orig'[s].node = orig[s].node /\ orig'[s].status = orig[s].status
        /\ copy'[s].node = (IF next \in stored THEN next ELSE n)
        /\ copy'[s].status = (IF next \in stored THEN changed.status ELSE "completed")
    <2>1. /\ orig'[s] = [orig[s] EXCEPT !.hist = IF Kind[n] = "other" THEN copy[s].hist
                                                ELSE Append(copy[s].hist, n)]
          /\ copy'[s] = [Moved(changed, next) EXCEPT !.hist = IF Kind[n] = "other" THEN copy[s].hist
                                                             ELSE Append(copy[s].hist, n)]
      BY <1>1 DEF Perform, Write, TypeOK
    <2>2. orig[s] \in Row /\ Moved(changed, next) \in Row
      BY <1>1, MovedType DEF TypeOK
    <2>3. /\ orig'[s].node = orig[s].node /\ orig'[s].status = orig[s].status
          /\ copy'[s].node = Moved(changed, next).node
          /\ copy'[s].status = Moved(changed, next).status
      BY <2>1, <2>2 DEF Row
    <2>4. QED
      BY <1>1, <2>3, MovedType
  <1>7. stage'[s] = "writing" /\ \A v \in Sessions \ {s} : stage'[v] = stage[v]
    BY <1>5 DEF TypeOK
  <1>8. \A v \in Sessions \ {s} : HeldRunsExist!(v)' /\ PendingWritesReached!(v)'
    BY <1>4, <1>5, <1>7, ReachOthers
  <1>9. HeldRunsExist!(s)'
    <2>1. Reached(r, orig[s].node)'
      BY <1>2, <1>3, <1>4, <1>5, <1>6, ReachGrows DEF ReachInv, HeldRunsExist
    <2>2. QED
      BY <1>2, <1>3, <1>5, <1>6, <1>7, <2>1 DEF ReachInv, HeldRunsExist
  <1>10. PendingWritesReached!(s)'
    <2>1. copy[s].node = orig[s].node /\ copy[s].status = orig[s].status
      BY <1>2 DEF ReachInv, HeldRunsExist
    <2>2. CASE next \in stored
      BY <1>1, <1>3, <1>4, <1>5, <1>6, <2>1, <2>2
    <2>3. CASE next \notin stored
      <3>1. CanEnd(r)'
        <4>1. next \in Nodes \cup {NoNode}
          BY <1>1, <1>3, TargetType
        <4>2. CASE stored # Nodes
          BY <1>5, <4>2 DEF CanEnd
        <4>3. CASE stored = Nodes
          BY <1>1, <1>3, <1>4, <1>5, <2>3, <4>1, <4>3 DEF CanEnd
        <4>4. QED
          BY <4>2, <4>3
      <3>2. QED
        BY <1>5, <1>6, <2>1, <2>3, <3>1 DEF CanEnd
    <2>4. QED
      BY <2>2, <2>3
  <1>11. RowsReached'
    BY <1>4, <1>5, ReachGrows DEF ReachInv, RowsReached
  <1>12. QED
    BY <1>8, <1>9, <1>10, <1>11 DEF ReachInv, HeldRunsExist, PendingWritesReached

\* What a commit leaves in the row: the node and the status are either the ones
\* the row has by then or the ones the session changed its object to.
LEMMA CommitRow ==
  ASSUME TypeOK, ReachInv, NEW s \in Sessions, Commit(s)
  PROVE  /\ held[s] \in Runs
         /\ row[held[s]].status # "absent"
         /\ \A r \in Runs \ {held[s]} : row'[r] = row[r]
         /\ \/ /\ row'[held[s]].node = row[held[s]].node
               /\ row'[held[s]].status = row[held[s]].status
            \/ /\ row'[held[s]].status = row[held[s]].status
               /\ \E m \in Nodes : visits[held[s]][m] > 0 /\ row'[held[s]].node \in Targets(m)
            \/ /\ row'[held[s]].node = row[held[s]].node
               /\ \/ row'[held[s]].status = "completed" /\ CanEnd(held[s])
                  \/ row'[held[s]].status = "failed" /\ stored # Nodes
  <1> DEFINE r == held[s]
  <1>1. stage[s] = "writing" /\ row' = [row EXCEPT ![r] = Flushed(row[r], orig[s], copy[s])]
    BY DEF Commit
  <1>2. r \in Runs /\ row[r].status # "absent"
    BY <1>1 DEF ReachInv, HeldRunsExist
  <1>3. row'[r] = Flushed(row[r], orig[s], copy[s]) /\ \A q \in Runs \ {r} : row'[q] = row[q]
    BY <1>1, <1>2 DEF TypeOK
  <1>4. /\ row'[r].node = IF copy[s].node # orig[s].node THEN copy[s].node ELSE row[r].node
        /\ row'[r].status = IF copy[s].status # orig[s].status THEN copy[s].status ELSE row[r].status
    BY <1>3 DEF Flushed
  <1>5. PendingWritesReached!(s)
    BY DEF ReachInv, PendingWritesReached
  <1>6. QED
    BY <1>1, <1>2, <1>3, <1>4, <1>5

LEMMA ReachCommit ==
  ASSUME TypeOK, ReachInv, NEW s \in Sessions, Commit(s)
  PROVE  ReachInv'
  <1>1. /\ stage' = [stage EXCEPT ![s] = IF s \in Crons /\ todo[s] # {} THEN "sweep" ELSE "idle"]
        /\ UNCHANGED <<stored, visits, todo>>
        /\ \A v \in Sessions \ {s} :
             held'[v] = held[v] /\ orig'[v] = orig[v] /\ copy'[v] = copy[v]
    BY DEF Commit, Release, TypeOK
  <1>2. stage'[s] \in {"sweep", "idle"} /\ \A v \in Sessions \ {s} : stage'[v] = stage[v]
    BY <1>1 DEF TypeOK
  <1>3. \A q \in Runs : row[q].status # "absent" => row'[q].status # "absent"
    BY CommitRow
  <1>4. \A v \in Sessions \ {s} : HeldRunsExist!(v)' /\ PendingWritesReached!(v)'
    BY <1>1, <1>2, <1>3, ReachOthers
  <1>5. HeldRunsExist!(s)' /\ PendingWritesReached!(s)'
    <2>1. todo[s] \subseteq Runs
      BY DEF TypeOK
    <2>2. QED
      BY <1>1, <1>2, <1>3, <2>1 DEF ReachInv, HeldRunsExist
  <1>6. RowsReached'
    <2> SUFFICES ASSUME NEW q \in Runs
                 PROVE  RowsReached!(q)'
      BY DEF RowsReached
    <2>1. CASE q # held[s]
      BY <1>1, <2>1, CommitRow DEF ReachInv, RowsReached, Reached
    <2>2. CASE q = held[s]
      BY <1>1, <1>3, <2>2, CommitRow DEF ReachInv, RowsReached, Reached
    <2>3. QED
      BY <2>1, <2>2
  <1>7. QED
    BY <1>4, <1>5, <1>6 DEF ReachInv, HeldRunsExist, PendingWritesReached

LEMMA ReachCrash ==
  ASSUME TypeOK, ReachInv, NEW s \in Sessions, Crash(s)
  PROVE  ReachInv'
  <1>1. /\ UNCHANGED <<row, stored, visits>>
        /\ stage'[s] = "idle" /\ todo'[s] = {}
        /\ \A v \in Sessions \ {s} :
             /\ stage'[v] = stage[v] /\ held'[v] = held[v] /\ todo'[v] = todo[v]
             /\ orig'[v] = orig[v] /\ copy'[v] = copy[v]
    BY DEF Crash, TypeOK, rowVars
  <1>2. \A v \in Sessions \ {s} : HeldRunsExist!(v)' /\ PendingWritesReached!(v)'
    BY <1>1, ReachOthers
  <1>3. HeldRunsExist!(s)' /\ PendingWritesReached!(s)'
    BY <1>1
  <1>4. RowsReached'
    BY <1>1 DEF ReachInv, RowsReached, Reached
  <1>5. QED
    BY <1>2, <1>3, <1>4 DEF ReachInv, HeldRunsExist, PendingWritesReached

\* Reading a run that exists, or the one just inserted.
LEMMA ReachHold ==
  ASSUME TypeOK, ReachInv, NEW s \in Sessions, NEW r \in Runs, NEW values,
         row'[r] = values, Hold(s, r, values), UNCHANGED <<stored, visits>>,
         values.status # "absent", Reached(r, values.node),
         \A q \in Runs \ {r} : row'[q] = row[q],
         \A v \in Sessions \ {s} : todo'[v] = todo[v],
         todo'[s] \subseteq todo[s]
  PROVE  ReachInv'
  <1>1. /\ stage'[s] = "held" /\ held'[s] = r /\ orig'[s] = values /\ copy'[s] = values
        /\ \A v \in Sessions \ {s} :
             /\ stage'[v] = stage[v] /\ held'[v] = held[v]
             /\ orig'[v] = orig[v] /\ copy'[v] = copy[v]
    BY DEF Hold, TypeOK
  <1>2. \A q \in Runs : row[q].status # "absent" => row'[q].status # "absent"
    OBVIOUS
  <1>3. \A v \in Sessions \ {s} : HeldRunsExist!(v)' /\ PendingWritesReached!(v)'
    BY <1>1, <1>2, ReachOthers
  <1>4. Reached(r, values.node)'
    BY DEF Reached
  <1>5. HeldRunsExist!(s)' /\ PendingWritesReached!(s)'
    <2>1. todo'[s] \subseteq Runs /\ \A q \in todo'[s] : row[q].status # "absent"
      BY DEF TypeOK, ReachInv, HeldRunsExist
    <2>2. QED
      BY <1>1, <1>2, <1>4, <2>1
  <1>6. RowsReached'
    BY <1>4 DEF ReachInv, RowsReached, Reached
  <1>7. QED
    BY <1>3, <1>5, <1>6 DEF ReachInv, HeldRunsExist, PendingWritesReached

LEMMA ReachInit == Init => ReachInv
  BY DEF Init, ReachInv, RowsReached, HeldRunsExist, PendingWritesReached, Reached, Absent, Fresh

LEMMA ReachStep == TypeOK /\ ReachInv /\ [Next]_vars => ReachInv'
  <1> SUFFICES ASSUME TypeOK, ReachInv, [Next]_vars
               PROVE  ReachInv'
    OBVIOUS
  <1>1. ASSUME NEW s \in Sessions, AdvanceRun(s) PROVE ReachInv'
    <2>0. copy[s] \in Row
      BY DEF TypeOK
    <2>1. CASE FailWithoutGraph(s)
      <3>1. /\ [copy[s] EXCEPT !.status = "failed"] \in Row
            /\ [copy[s] EXCEPT !.status = "failed"].node = copy[s].node
            /\ [copy[s] EXCEPT !.status = "failed"].status = "failed"
        BY <2>0 DEF Row, Statuses, Finished
      <3>2. stored # Nodes
        BY <2>1, GraphAssumption DEF FailWithoutGraph, TypeOK
      <3>3. QED
        BY <2>1, <3>1, <3>2, ReachWrite DEF FailWithoutGraph, Advancing, rowVars
    <2>2. CASE CompleteOffGraph(s)
      <3>1. /\ [copy[s] EXCEPT !.status = "completed"] \in Row
            /\ [copy[s] EXCEPT !.status = "completed"].node = copy[s].node
            /\ [copy[s] EXCEPT !.status = "completed"].status = "completed"
        BY <2>0 DEF Row, Statuses, Finished
      <3>2. stored # Nodes
        BY <2>0, <2>2 DEF CompleteOffGraph, Row
      <3>3. QED
        BY <2>2, <3>1, <3>2, ReachWrite DEF CompleteOffGraph, Advancing, rowVars
    <2>3. CASE ArmDelay(s)
      <3> DEFINE due == now + DelayHours[copy[s].node]
      <3>1. due \in Int
        BY <2>0, GraphAssumption DEF TypeOK, Row
      <3>2. /\ [copy[s] EXCEPT !.timer = due] \in Row
            /\ [copy[s] EXCEPT !.timer = due].node = copy[s].node
            /\ [copy[s] EXCEPT !.timer = due].status = copy[s].status
        BY <2>0, <3>1 DEF Row
      <3>3. QED
        BY <2>3, <3>2, ReachWrite DEF ArmDelay, OnNode, Advancing, rowVars
    <2>4. QED
      BY <1>1, <2>1, <2>2, <2>3, ReachSkip, ReachPerform, ReachCommit DEF AdvanceRun
  <1>2. ASSUME NEW s \in Requests, NEW r \in Runs, Trigger(s, r) PROVE ReachInv'
    <2>1. row'[r] = Fresh /\ \A q \in Runs \ {r} : row'[q] = row[q]
      BY <1>2 DEF Trigger, TypeOK
    <2>2. Fresh.status # "absent" /\ Reached(r, Fresh.node)
      BY DEF Fresh, Reached
    <2>3. QED
      BY <1>2, <2>1, <2>2, ReachHold DEF Trigger, Sessions
  <1>3. ASSUME NEW s \in Crons, StartSweep(s) PROVE ReachInv'
    <2>1. /\ UNCHANGED <<row, stored, visits, held, orig, copy>>
          /\ stage'[s] = "sweep" /\ todo'[s] = {r \in Runs : row[r].status = "running"}
          /\ \A v \in Sessions \ {s} : stage'[v] = stage[v] /\ todo'[v] = todo[v]
      BY <1>3 DEF StartSweep, rowVars, TypeOK, Sessions
    <2>2. \A v \in Sessions \ {s} : HeldRunsExist!(v)' /\ PendingWritesReached!(v)'
      BY <2>1, ReachOthers DEF Sessions
    <2>3. HeldRunsExist!(s)' /\ PendingWritesReached!(s)'
      BY <2>1
    <2>4. RowsReached'
      BY <2>1 DEF ReachInv, RowsReached, Reached
    <2>5. QED
      BY <2>2, <2>3, <2>4 DEF ReachInv, HeldRunsExist, PendingWritesReached
  <1>4. ASSUME NEW s \in Crons, NEW r \in Runs, Load(s, r) PROVE ReachInv'
    <2>1. s \in Sessions /\ row' = row /\ Hold(s, r, row[r]) /\ UNCHANGED <<stored, visits>>
      BY <1>4 DEF Load, rowVars, Sessions
    <2>2. row[r].status # "absent" /\ Reached(r, row[r].node)
      BY <1>4, <2>1 DEF Load, ReachInv, HeldRunsExist, RowsReached
    <2>3. todo'[s] \subseteq todo[s] /\ \A v \in Sessions \ {s} : todo'[v] = todo[v]
      BY <1>4, <2>1 DEF Load, TypeOK
    <2>4. QED
      BY <2>1, <2>2, <2>3, ReachHold
  <1>5. CASE Environment
    <2>1. ASSUME NEW r \in Runs, NEW c \in Csms, ReassignTask(r, c) PROVE ReachInv'
      <3>1. \A q \in Runs : row'[q].node = row[q].node /\ row'[q].status = row[q].status
        <4>1. row[r] \in Row /\ \A q \in Runs \ {r} : row'[q] = row[q]
          BY <2>1 DEF ReassignTask, TypeOK
        <4>2. row'[r] = [row[r] EXCEPT !.csm = c, !.task = "assigned"]
          BY <2>1 DEF ReassignTask, TypeOK
        <4>3. row'[r].node = row[r].node /\ row'[r].status = row[r].status
          BY <4>1, <4>2 DEF Row
        <4>4. QED
          BY <4>1, <4>3
      <3>2. QED
        BY <2>1, <3>1, ReachIdle DEF ReassignTask, sessionVars
    <2>2. ASSUME NEW S \in SUBSET Nodes, NEW all \in BOOLEAN, EditGraph(S, all) PROVE ReachInv'
      <3>1. stored' # Nodes
        BY <2>2 DEF EditGraph, TypeOK
      <3>2. QED
        BY <2>2, <3>1, ReachIdle DEF EditGraph, sessionVars
    <2>3. QED
      BY <1>5, <2>1, <2>2, ReachIdle
         DEF Environment, Rescore, SaveCsmProfile, Tick, rowVars, sessionVars
  <1>6. CASE UNCHANGED vars
    BY <1>6, ReachIdle DEF vars, rowVars, sessionVars
  <1>7. QED
    BY <1>1, <1>2, <1>3, <1>4, <1>5, <1>6, ReachCrash DEF Next, Sweep

\* Every row, every object a session holds and every pending write stands on a
\* node that was reached through performed nodes.
THEOREM EverythingReached == Spec => []ReachInv
  BY InitType, StepType, ReachInit, ReachStep, PTL DEF Spec

(***************************************************************************)
(* The engine implements RunContract                                       *)
(***************************************************************************)
LEMMA ContractInitially == Init => Contract!ContractInit
  <1> SUFFICES ASSUME Init PROVE Contract!ContractInit
    OBVIOUS
  <1>1. \A r \in Runs : row[r].status = "absent" /\ row[r].node = Start
    BY DEF Init, Absent, Fresh
  <1>2. \A r \in Runs : {n \in Nodes : visits[r][n] > 0} = {}
    BY DEF Init
  <1>3. stored = Nodes
    BY DEF Init
  <1>4. QED
    BY <1>1, <1>2, <1>3 DEF Contract!ContractInit

\* Steps that change neither rows nor visits nor the graph stutter.
LEMMA ContractStutter ==
  ASSUME UNCHANGED <<row, visits, stored>>
  PROVE  UNCHANGED Contract!contractVars
  BY DEF Contract!contractVars

\* Performing a node is Perform of the contract.
LEMMA ContractPerform ==
  ASSUME TypeOK, ReachInv, NEW s \in Sessions, PerformNode(s)
  PROVE  Contract!ContractNext
  <1>1. PICK next, changed : changed \in Row /\ Perform(s, next, changed)
    BY PerformShape
  <1>2. stage[s] = "held"
    BY PerformShape DEF Advancing
  <1>3. PICK r \in Runs, n \in Nodes : r = held[s] /\ n = copy[s].node
    BY <1>2 DEF ReachInv, HeldRunsExist, TypeOK, Row
  <1>4. row[r].status # "absent" /\ Reached(r, n)
    BY <1>2, <1>3 DEF ReachInv, HeldRunsExist
  <1>5. UNCHANGED <<row, stored>>
    BY <1>1 DEF Perform, rowVars
  <1>6. visits' = [visits EXCEPT ![r][n] = @ + 1]
    BY <1>1, <1>3 DEF Perform
  <1>7. \A q \in Runs, m \in Nodes :
          visits'[q][m] > 0 <=> visits[q][m] > 0 \/ (q = r /\ m = n)
    <2>1. \A q \in Runs, m \in Nodes :
            /\ visits[q][m] \in Nat
            /\ visits'[q][m] = IF q = r /\ m = n THEN visits[q][m] + 1 ELSE visits[q][m]
      BY <1>6 DEF TypeOK
    <2>2. QED
      BY <2>1
  <1> DEFINE done(q) == {m \in Nodes : visits[q][m] > 0}
             doneNext(q) == {m \in Nodes : visits'[q][m] > 0}
  <1>8. doneNext(r) = done(r) \cup {n} /\ \A q \in Runs \ {r} : doneNext(q) = done(q)
    <2>1. \A m \in Nodes : visits'[r][m] > 0 <=> visits[r][m] > 0 \/ m = n
      BY <1>7
    <2>2. doneNext(r) = done(r) \cup {n}
      BY <2>1, Zenon
    <2>3. ASSUME NEW q \in Runs \ {r} PROVE doneNext(q) = done(q)
      <3>1. \A m \in Nodes : visits'[q][m] > 0 <=> visits[q][m] > 0
        BY <1>7
      <3>2. QED
        BY <3>1, Zenon
    <2>4. QED
      BY <2>2, <2>3
  <1>9. [q \in Runs |-> doneNext(q)] = [[q \in Runs |-> done(q)] EXCEPT ![r] = @ \cup {n}]
    <2> HIDE DEF done, doneNext
    <2> QED
      BY <1>8
  <1>10. Contract!Granted(r, n)
    BY <1>4 DEF Contract!Granted, Reached
  <1>11. Contract!Perform(r, n)
    BY <1>4, <1>5, <1>9, <1>10 DEF Contract!Perform
  <1>12. QED
    BY <1>11 DEF Contract!ContractNext

\* A commit moves the run, ends it, or shows nothing new.
LEMMA ContractCommit ==
  ASSUME TypeOK, ReachInv, NEW s \in Sessions, Commit(s)
  PROVE  Contract!ContractNext \/ UNCHANGED Contract!contractVars
  <1>1. UNCHANGED <<visits, stored>>
    BY DEF Commit
  <1>0. PICK r \in Runs : r = held[s]
    BY CommitRow
  <1>2. row[r].status # "absent" /\ \A q \in Runs \ {r} : row'[q] = row[q]
    BY <1>0, CommitRow
  <1>3. CASE row'[r].node = row[r].node /\ row'[r].status = row[r].status
    <2>1. UNCHANGED <<[q \in Runs |-> row[q].status], [q \in Runs |-> row[q].node]>>
      BY <1>2, <1>3
    <2>2. QED
      BY <1>1, <2>1 DEF Contract!contractVars
  <1>4. CASE /\ row'[r].status = row[r].status
             /\ \E m \in Nodes : visits[r][m] > 0 /\ row'[r].node \in Targets(m)
    <2>1. PICK n \in Nodes : n = row'[r].node
      BY AdvanceType DEF AdvanceRun, TypeOK, Row
    <2>2. [q \in Runs |-> row[q].status]' = [q \in Runs |-> row[q].status]
      BY <1>2, <1>4
    <2>3. [q \in Runs |-> row[q].node]' = [[q \in Runs |-> row[q].node] EXCEPT ![r] = n]
      BY <1>2, <2>1
    <2>4. Contract!Move(r, n)
      BY <1>1, <1>2, <1>4, <2>1, <2>2, <2>3 DEF Contract!Move
    <2>5. QED
      BY <2>4 DEF Contract!ContractNext
  <1>5. CASE /\ row'[r].node = row[r].node
             /\ row'[r].status = "completed" /\ CanEnd(r)
    <2>1. [q \in Runs |-> row[q].node]' = [q \in Runs |-> row[q].node]
      BY <1>2, <1>5
    <2>2. [q \in Runs |-> row[q].status]' = [[q \in Runs |-> row[q].status] EXCEPT ![r] = "completed"]
      BY <1>2, <1>5
    <2>3. Contract!Complete(r)
      BY <1>1, <1>2, <1>5, <2>1, <2>2 DEF Contract!Complete, CanEnd
    <2>4. QED
      BY <2>3 DEF Contract!ContractNext
  <1>6. CASE /\ row'[r].node = row[r].node
             /\ row'[r].status = "failed" /\ stored # Nodes
    <2>1. [q \in Runs |-> row[q].node]' = [q \in Runs |-> row[q].node]
      BY <1>2, <1>6
    <2>2. [q \in Runs |-> row[q].status]' = [[q \in Runs |-> row[q].status] EXCEPT ![r] = "failed"]
      BY <1>2, <1>6
    <2>3. Contract!Fail(r)
      BY <1>1, <1>2, <1>6, <2>1, <2>2 DEF Contract!Fail
    <2>4. QED
      BY <2>3 DEF Contract!ContractNext
  <1>7. QED
    BY <1>0, <1>3, <1>4, <1>5, <1>6, CommitRow

\* Inserting a run is Begin: an absent run stands on the start node.
LEMMA ContractTrigger ==
  ASSUME TypeOK, ReachInv, NEW s \in Requests, NEW r \in Runs, Trigger(s, r)
  PROVE  Contract!ContractNext
  <1>1. /\ row[r].status = "absent" /\ row[r].node = Start
        /\ row'[r] = Fresh /\ \A q \in Runs \ {r} : row'[q] = row[q]
        /\ UNCHANGED <<visits, stored>>
    BY DEF Trigger, TypeOK, ReachInv, RowsReached
  <1>2. [q \in Runs |-> row[q].status]' = [[q \in Runs |-> row[q].status] EXCEPT ![r] = "running"]
    <2>1. row'[r].status = "running"
      BY <1>1 DEF Fresh
    <2>2. QED
      BY <1>1, <2>1
  <1>3. [q \in Runs |-> row[q].node]' = [q \in Runs |-> row[q].node]
    BY <1>1 DEF Fresh
  <1>4. Contract!Begin(r)
    BY <1>1, <1>2, <1>3 DEF Contract!Begin
  <1>5. QED
    BY <1>4 DEF Contract!ContractNext

\* A reassignment touches neither node nor status.
LEMMA ContractReassign ==
  ASSUME TypeOK, NEW r \in Runs, NEW c \in Csms, ReassignTask(r, c)
  PROVE  UNCHANGED Contract!contractVars
  <1>1. \A q \in Runs : row[q] \in Row
    BY DEF TypeOK
  <1>2. \A q \in Runs : row'[q] = IF q = r THEN [row[r] EXCEPT !.csm = c, !.task = "assigned"] ELSE row[q]
    BY DEF ReassignTask, TypeOK
  <1>3. \A q \in Runs : row'[q].node = row[q].node /\ row'[q].status = row[q].status
    <2>1. row'[r].node = row[r].node /\ row'[r].status = row[r].status
      BY <1>1, <1>2 DEF Row
    <2>2. QED
      BY <1>2, <2>1
  <1>4. UNCHANGED <<visits, stored>>
    BY DEF ReassignTask
  <1>5. QED
    BY <1>3, <1>4 DEF Contract!contractVars

\* Removing nodes from the stored graph is Damage.
LEMMA ContractEdit ==
  ASSUME TypeOK, NEW S \in SUBSET Nodes, NEW all \in BOOLEAN, EditGraph(S, all)
  PROVE  Contract!ContractNext
  <1>1. stored' # Nodes /\ UNCHANGED <<row, visits>>
    BY DEF EditGraph, TypeOK
  <1>2. QED
    BY <1>1 DEF Contract!Damage, Contract!ContractNext

LEMMA ContractStep ==
  TypeOK /\ ReachInv /\ [Next]_vars
    => Contract!ContractNext \/ UNCHANGED Contract!contractVars
  <1> SUFFICES ASSUME TypeOK, ReachInv, [Next]_vars
               PROVE  Contract!ContractNext \/ UNCHANGED Contract!contractVars
    OBVIOUS
  <1>1. ASSUME NEW s \in Sessions, AdvanceRun(s)
        PROVE  Contract!ContractNext \/ UNCHANGED Contract!contractVars
    BY <1>1, ContractPerform, ContractCommit, ContractStutter
       DEF AdvanceRun, Skip, FailWithoutGraph, CompleteOffGraph, ArmDelay, rowVars
  <1>2. ASSUME NEW s \in Sessions, Crash(s) PROVE UNCHANGED Contract!contractVars
    BY <1>2, ContractStutter DEF Crash, rowVars
  <1>3. ASSUME NEW s \in Crons, Sweep(s) PROVE UNCHANGED Contract!contractVars
    BY <1>3, ContractStutter DEF Sweep, StartSweep, Load, rowVars
  <1>4. CASE Environment
    BY <1>4, ContractStutter, ContractReassign, ContractEdit
       DEF Environment, Rescore, SaveCsmProfile, Tick, rowVars
  <1>5. CASE UNCHANGED vars
    BY <1>5, ContractStutter DEF vars, rowVars
  <1>6. QED
    BY <1>1, <1>2, <1>3, <1>4, <1>5, ContractTrigger DEF Next

\* The detailed engine, with stale objects, crashes, partial flushes and manual
\* edits, implements RunContract for every graph and any number of sessions.
THEOREM EngineImplementsContract == Spec => ImplementsContract
  <1>1. Spec => []TypeOK /\ []ReachInv
    BY TypeCorrect, EverythingReached
  <1>2. TypeOK /\ ReachInv /\ [Next]_vars => [Contract!ContractNext]_(Contract!contractVars)
    BY ContractStep
  <1>3. QED
    BY <1>1, <1>2, ContractInitially, PTL DEF Spec, ImplementsContract, Contract!ContractSpec

(***************************************************************************)
(* A finished run stays finished: no step of the contract undoes it        *)
(***************************************************************************)
LEMMA ContractKeepsFinished ==
  ASSUME Contract!ContractNext \/ UNCHANGED Contract!contractVars, NEW r \in Runs,
         row[r].status \in Finished
  PROVE  row'[r].status \in Finished
  <1> DEFINE before == [q \in Runs |-> row[q].status]
             after  == [q \in Runs |-> row'[q].status]
             Kept   == after[r] = before[r] \/ after[r] \in Finished
  <1>1. before[r] = row[r].status /\ after[r] = row'[r].status
    OBVIOUS
  <1>2. SUFFICES Kept
    BY <1>1
  <1>3. CASE UNCHANGED Contract!contractVars
    BY <1>3 DEF Contract!contractVars
  <1>4. ASSUME NEW q \in Runs, Contract!Begin(q) PROVE Kept
    BY <1>1, <1>4 DEF Contract!Begin, Finished
  <1>5. ASSUME NEW q \in Runs, Contract!Complete(q) \/ Contract!Fail(q) PROVE Kept
    BY <1>1, <1>5 DEF Contract!Complete, Contract!Fail, Finished
  <1>6. ASSUME NEW q \in Runs, NEW n \in Nodes, Contract!Perform(q, n) \/ Contract!Move(q, n)
        PROVE  Kept
    BY <1>6 DEF Contract!Perform, Contract!Move
  <1>7. ASSUME Contract!Damage PROVE Kept
    BY <1>7 DEF Contract!Damage
  <1>8. QED
    BY <1>3, <1>4, <1>5, <1>6, <1>7 DEF Contract!ContractNext

\* A run that is completed or failed never runs again, for every graph and any
\* number of sessions holding stale objects of it.
THEOREM FinishedRunsStayFinished == Spec => FinishedIsForever
  <1>1. TypeOK /\ ReachInv /\ [Next]_vars
          => [\A r \in Runs : row[r].status \in Finished => row'[r].status \in Finished]_vars
    BY ContractStep, ContractKeepsFinished
  <1>2. QED
    BY <1>1, TypeCorrect, EverythingReached, PTL DEF Spec, FinishedIsForever

(***************************************************************************)
(* What a step does, seen from the sessions.  What they may do to a run    *)
(* depends on three columns of its row.                                    *)
(***************************************************************************)
SameColumns(x, y) == x.node = y.node /\ x.status = y.status /\ x.timer = y.timer

OthersRest(s) ==
  \A v \in Sessions \ {s} : /\ stage'[v] = stage[v] /\ held'[v] = held[v]
                            /\ orig'[v] = orig[v] /\ copy'[v] = copy[v]
                            /\ late'[v] = late[v]

\* The overlap of sessions on a run ends when the last of them lets go of it and no
\* timer is set.
Loosens(s) ==
  /\ overlapped' \subseteq overlapped
  /\ \A q \in overlapped \ overlapped' :
       /\ row'[q].timer = NoTimer
       /\ \A v \in Sessions \ {s} : held[v] # q

\* No session holds anything it did not hold, and no run moves.
Rests ==
  /\ UNCHANGED <<held, orig, copy, late, visits, overlapped, overlaps, redo, enteredAt>>
  /\ now' >= now
  /\ \A r \in Runs : SameColumns(row'[r], row[r])
  /\ \A s \in Sessions : stage'[s] = stage[s] \/ (stage[s] = "idle" /\ stage'[s] = "sweep")

\* A request that inserts a run, or a sweep that reads one.
Takes(s, r) ==
  /\ OthersRest(s)
  /\ stage[s] \in {"idle", "sweep"}
  /\ stage'[s] = "held" /\ held'[s] = r /\ copy'[s] = orig'[s]
  /\ SameColumns(orig'[s], row'[r])
  /\ UNCHANGED <<visits, redo, now, overlaps>>
  /\ late'[s] \in BOOLEAN /\ (late'[s] <=> \E v \in Sessions : held[v] = r)
  /\ \A q \in Runs \ {r} : SameColumns(row'[q], row[q]) /\ enteredAt'[q] = enteredAt[q]
  /\ overlapped \subseteq overlapped'
  /\ r \notin overlapped' => \A v \in Sessions : held[v] # r
  /\ row'[r].node = row[r].node
  /\ \/ SameColumns(row'[r], row[r]) /\ enteredAt'[r] = enteredAt[r]
     \/ /\ row[r].status = "absent" /\ row'[r].status = "running"
        /\ row'[r].timer = NoTimer /\ enteredAt'[r] = now

\* An early return, or a crash.
Drops(s) ==
  /\ OthersRest(s)
  /\ stage'[s] \in {"idle", "sweep"} /\ held'[s] = NoRun
  /\ UNCHANGED <<row, visits, overlaps, enteredAt, now>>
  /\ Loosens(s) /\ ~late'[s]
  /\ \A q \in Runs :
       redo'[q] = IF stage[s] = "writing" /\ held[s] = q THEN redo[q] + 1 ELSE redo[q]

\* A session changes its object, which until then is what it read.
Changes(s) ==
  /\ OthersRest(s)
  /\ stage[s] = "held" /\ stage'[s] = "writing" /\ held' = held
  /\ SameColumns(orig'[s], orig[s])
  /\ orig[s].status = "running"
  /\ UNCHANGED <<row, late, overlapped, redo, enteredAt, now>>

\* Without performing a node: the run is ended, or the timer of a delay set.
Rewrites(s) ==
  /\ Changes(s)
  /\ UNCHANGED <<visits, overlaps>>
  /\ copy'[s].node = orig[s].node
  /\ copy'[s].status = orig[s].status \/ copy'[s].status \in Finished
  /\ \/ copy'[s].timer = orig[s].timer
     \/ /\ Kind[orig[s].node] = "delay"
        /\ copy'[s].timer = now + DelayHours[orig[s].node]

\* By performing a node, whose timer has elapsed if it is a delay.
Performs(s) ==
  /\ Changes(s)
  /\ visits' = [visits EXCEPT ![held[s]][orig[s].node] = @ + 1]
  /\ \A q \in Runs :
       overlaps'[q] = IF late[s] /\ held[s] = q THEN overlaps[q] + 1 ELSE overlaps[q]
  /\ Kind[orig[s].node] = "delay" => orig[s].timer # NoTimer /\ now >= orig[s].timer
  /\ copy'[s].timer = IF Kind[orig[s].node] = "delay" THEN NoTimer ELSE orig[s].timer
  /\ \/ /\ copy'[s].node \in Targets(orig[s].node) \cap Nodes
        /\ copy'[s].status = orig[s].status
     \/ copy'[s].node = orig[s].node /\ copy'[s].status = "completed"

\* A commit of a session writes the node and the status it changed; in a run no
\* other session holds it leaves what it wrote.
Leaves(s) ==
  /\ OthersRest(s)
  /\ stage[s] = "writing" /\ stage'[s] \in {"idle", "sweep"} /\ held'[s] = NoRun
  /\ UNCHANGED <<visits, overlaps, redo, now>>
  /\ Loosens(s) /\ ~late'[s]
  /\ held[s] \in Runs
  /\ row'[held[s]].node = IF copy[s].node # orig[s].node
                          THEN copy[s].node ELSE row[held[s]].node
  /\ row'[held[s]].status = IF copy[s].status # orig[s].status
                            THEN copy[s].status ELSE row[held[s]].status
  /\ \A q \in Runs \ {held[s]} : row'[q] = row[q] /\ enteredAt'[q] = enteredAt[q]
  /\ SameColumns(orig[s], row[held[s]]) => SameColumns(row'[held[s]], copy[s])
  /\ enteredAt'[held[s]] = IF row'[held[s]].node # row[held[s]].node
                           THEN now ELSE enteredAt[held[s]]

\* A session holds a run only while it is advancing it, and until it changes
\* the object it is the one that was read.
HoldInv ==
  \A s \in Sessions :
    /\ stage[s] \in {"idle", "sweep"} => held[s] = NoRun /\ ~late[s]
    /\ stage[s] = "held" => copy[s] = orig[s]

LEMMA HoldTakes ==
  ASSUME TypeOK, ReachInv, HoldInv, NEW s \in Sessions, NEW r \in Runs,
         Trigger(s, r) \/ Load(s, r)
  PROVE  Takes(s, r)
  <1> DEFINE values == orig'[s]
  <1>1. /\ stage[s] \in {"idle", "sweep"}
        /\ Hold(s, r, IF stage[s] = "idle" THEN Fresh ELSE row[r])
    BY DEF Trigger, Load
  <1>2. /\ stage'[s] = "held" /\ held'[s] = r /\ copy'[s] = orig'[s]
        /\ orig'[s] = IF stage[s] = "idle" THEN Fresh ELSE row[r]
        /\ OthersRest(s)
    BY <1>1 DEF Hold, OthersRest, TypeOK, Trigger, Load
  <1>3. CASE Trigger(s, r)
    <2>1. /\ stage[s] = "idle" /\ row[r].status = "absent" /\ row[r].node = Start
          /\ row'[r] = Fresh /\ \A q \in Runs \ {r} : row'[q] = row[q]
          /\ enteredAt'[r] = now /\ \A q \in Runs \ {r} : enteredAt'[q] = enteredAt[q]
          /\ UNCHANGED <<visits, redo, now, overlapped, overlaps>>
          /\ late'[s] = FALSE
      BY <1>3 DEF Trigger, TypeOK, ReachInv, RowsReached, HoldInv
    <2>2. \A v \in Sessions : held[v] # r
      <3> SUFFICES ASSUME NEW v \in Sessions, held[v] = r
                   PROVE  FALSE
        OBVIOUS
      <3>1. stage[v] \in {"idle", "sweep", "held", "writing"}
        BY DEF TypeOK, Stages
      <3>2. QED
        BY <2>1, <3>1, ActorAssumption DEF ReachInv, HeldRunsExist, HoldInv
    <2>3. Fresh.node = Start /\ Fresh.timer = NoTimer /\ Fresh.status = "running"
      BY DEF Fresh
    <2>4. QED
      BY <1>2, <2>1, <2>2, <2>3 DEF Takes, SameColumns
  <1>4. CASE Load(s, r)
    <2>1. /\ stage[s] = "sweep"
          /\ UNCHANGED <<row, visits, redo, now, enteredAt, overlaps>>
          /\ overlapped' = IF \E v \in Sessions : held[v] = r
                           THEN overlapped \cup {r} ELSE overlapped
          /\ late'[s] = (\E v \in Sessions : held[v] = r)
      BY <1>4 DEF Load, rowVars, TypeOK
    <2>2. QED
      BY <1>2, <2>1 DEF Takes, SameColumns
  <1>5. QED
    BY <1>3, <1>4

LEMMA HoldLoosens ==
  ASSUME TypeOK, NEW s \in Sessions, LetGo(s)
  PROVE  /\ Loosens(s) /\ ~late'[s]
         /\ \A v \in Sessions \ {s} : late'[v] = late[v]
  <1>1. ~late'[s] /\ \A v \in Sessions \ {s} : late'[v] = late[v]
    BY DEF LetGo, TypeOK
  <1>2. \A q : q \in overlapped' <=>
          q \in overlapped /\ (\/ held[s] # q
                               \/ \E v \in Sessions \ {s} : held[v] = q
                               \/ row'[q].timer # NoTimer)
    BY DEF LetGo
  <1>3. overlapped' \subseteq overlapped
    BY <1>2
  <1>4. ASSUME NEW q \in overlapped \ overlapped'
        PROVE  row'[q].timer = NoTimer /\ \A v \in Sessions \ {s} : held[v] # q
    <2>1. ~(\/ held[s] # q
            \/ \E v \in Sessions \ {s} : held[v] = q
            \/ row'[q].timer # NoTimer)
      BY <1>2, <1>4
    <2>2. QED
      BY <2>1
  <1>5. QED
    BY <1>1, <1>3, <1>4 DEF Loosens

LEMMA HoldDrops ==
  ASSUME TypeOK, HoldInv, NEW s \in Sessions, Skip(s) \/ Crash(s)
  PROVE  Drops(s)
  <1>1. CASE Skip(s)
    <2>1. /\ stage[s] = "held"
          /\ stage' = [stage EXCEPT ![s] = IF s \in Crons /\ todo[s] # {} THEN "sweep" ELSE "idle"]
          /\ held' = [held EXCEPT ![s] = NoRun]
          /\ orig' = [orig EXCEPT ![s] = Absent] /\ copy' = [copy EXCEPT ![s] = Absent]
          /\ UNCHANGED <<row, visits, overlaps, enteredAt, now, redo>>
          /\ LetGo(s)
      BY <1>1 DEF Skip, Release, rowVars
    <2>2. stage'[s] \in {"idle", "sweep"} /\ held'[s] = NoRun /\ OthersRest(s)
      BY <2>1, HoldLoosens DEF TypeOK, OthersRest
    <2>3. QED
      BY <2>1, <2>2, HoldLoosens DEF Drops
  <1>2. CASE Crash(s)
    <2>1. /\ stage' = [stage EXCEPT ![s] = "idle"]
          /\ held' = [held EXCEPT ![s] = NoRun]
          /\ orig' = [orig EXCEPT ![s] = Absent] /\ copy' = [copy EXCEPT ![s] = Absent]
          /\ UNCHANGED <<row, visits, overlaps, enteredAt, now>>
          /\ LetGo(s)
          /\ redo' = IF stage[s] = "writing"
                     THEN [redo EXCEPT ![held[s]] = redo[held[s]] + 1] ELSE redo
      BY <1>2 DEF Crash, rowVars
    <2>2. stage'[s] \in {"idle", "sweep"} /\ held'[s] = NoRun /\ OthersRest(s)
      BY <2>1, HoldLoosens DEF TypeOK, OthersRest
    <2>3. \A q \in Runs :
            redo'[q] = IF stage[s] = "writing" /\ held[s] = q THEN redo[q] + 1 ELSE redo[q]
      BY <2>1 DEF TypeOK
    <2>4. QED
      BY <2>1, <2>2, <2>3, HoldLoosens DEF Drops
  <1>3. QED
    BY <1>1, <1>2

LEMMA HoldRewrites ==
  ASSUME TypeOK, ReachInv, HoldInv, NEW s \in Sessions,
         FailWithoutGraph(s) \/ CompleteOffGraph(s) \/ ArmDelay(s)
  PROVE  Rewrites(s)
  <1>0. copy[s] \in Row /\ copy[s].node \in Nodes
    BY DEF TypeOK, Row
  <1>1. PICK values :
          /\ Write(s, values)
          /\ values.node = copy[s].node
          /\ values.status = copy[s].status \/ values.status \in Finished
          /\ \/ values.timer = copy[s].timer
             \/ Kind[copy[s].node] = "delay" /\ values.timer = now + DelayHours[copy[s].node]
    <2>1. CASE FailWithoutGraph(s)
      <3>1. /\ [copy[s] EXCEPT !.status = "failed"].node = copy[s].node
            /\ [copy[s] EXCEPT !.status = "failed"].status = "failed"
            /\ [copy[s] EXCEPT !.status = "failed"].timer = copy[s].timer
        BY <1>0 DEF Row
      <3>2. QED
        BY <2>1, <3>1 DEF FailWithoutGraph, Finished
    <2>2. CASE CompleteOffGraph(s)
      <3>1. /\ [copy[s] EXCEPT !.status = "completed"].node = copy[s].node
            /\ [copy[s] EXCEPT !.status = "completed"].status = "completed"
            /\ [copy[s] EXCEPT !.status = "completed"].timer = copy[s].timer
        BY <1>0 DEF Row
      <3>2. QED
        BY <2>2, <3>1 DEF CompleteOffGraph, Finished
    <2>3. CASE ArmDelay(s)
      <3> DEFINE due == now + DelayHours[copy[s].node]
      <3>1. /\ [copy[s] EXCEPT !.timer = due].node = copy[s].node
            /\ [copy[s] EXCEPT !.timer = due].status = copy[s].status
            /\ [copy[s] EXCEPT !.timer = due].timer = due
        BY <1>0 DEF Row
      <3>2. QED
        BY <2>3, <3>1 DEF ArmDelay, OnNode
    <2>4. QED
      BY <2>1, <2>2, <2>3
  <1>2. /\ Advancing(s)
        /\ UNCHANGED <<row, visits, overlapped, late, overlaps, redo, enteredAt, now, orig>>
    BY DEF FailWithoutGraph, CompleteOffGraph, ArmDelay, OnNode, rowVars, historyVars
  <1>3. stage[s] = "held" /\ copy[s] = orig[s] /\ orig[s].status = "running"
    BY <1>2 DEF Advancing, HoldInv, ReachInv, HeldRunsExist, TypeOK, Row, Statuses
  <1>4. /\ stage'[s] = "writing" /\ held' = held /\ copy'[s] = values /\ OthersRest(s)
    BY <1>1, <1>2 DEF Write, TypeOK, OthersRest
  <1>5. QED
    BY <1>1, <1>2, <1>3, <1>4 DEF Rewrites, Changes, SameColumns

LEMMA HoldPerforms ==
  ASSUME TypeOK, ReachInv, HoldInv, NEW s \in Sessions, PerformNode(s)
  PROVE  Performs(s)
  <1> DEFINE n == copy[s].node
             hist == IF Kind[n] = "other" THEN copy[s].hist ELSE Append(copy[s].hist, n)
  <1>0. /\ Advancing(s)
        /\ Kind[n] = "delay" => copy[s].timer # NoTimer
    BY PerformShape
  <1>1. PICK next, changed :
          /\ changed \in Row
          /\ next \in Targets(n)
          /\ changed.node = n /\ changed.status = copy[s].status
          /\ changed.timer = IF Kind[n] = "delay" THEN NoTimer ELSE copy[s].timer
          /\ Perform(s, next, changed)
    BY PerformShape
  <1>2. /\ stage[s] = "held" /\ copy[s] = orig[s] /\ orig[s].status = "running"
        /\ orig[s] \in Row
    BY <1>0 DEF Advancing, HoldInv, ReachInv, HeldRunsExist, TypeOK, Row, Statuses
  <1>3. /\ UNCHANGED <<row, overlapped, late, redo, enteredAt, now, held>>
        /\ visits' = [visits EXCEPT ![held[s]][n] = @ + 1]
        /\ stage'[s] = "writing"
        /\ OthersRest(s)
        /\ orig'[s] = [orig[s] EXCEPT !.hist = hist]
        /\ copy'[s] = [Moved(changed, next) EXCEPT !.hist = hist]
    BY <1>1 DEF Perform, Write, rowVars, TypeOK, OthersRest
  <1>4. SameColumns(orig'[s], orig[s])
    BY <1>2, <1>3 DEF Row, SameColumns
  <1>5. SameColumns(copy'[s], Moved(changed, next))
    <2>1. Moved(changed, next) \in Row
      BY <1>1, MovedType
    <2>2. QED
      BY <1>3, <2>1 DEF Row, SameColumns
  <1>6. /\ copy'[s].node = (IF next \in stored THEN next ELSE n)
        /\ copy'[s].status = (IF next \in stored THEN copy[s].status ELSE "completed")
        /\ copy'[s].timer = changed.timer
    BY <1>1, <1>5, MovedType DEF SameColumns
  <1>7. stored \subseteq Nodes
    BY DEF TypeOK
  <1>8. Kind[n] = "delay" => now >= copy[s].timer
    <2>1. copy[s].timer \in Int /\ now \in Int
      BY DEF TypeOK, Row
    <2>2. QED
      BY <1>0, <2>1 DEF Advancing, Waiting
  <1>9. Changes(s)
    BY <1>2, <1>3, <1>4 DEF Changes
  <1>10. \/ copy'[s].node \in Targets(n) \cap Nodes /\ copy'[s].status = copy[s].status
         \/ copy'[s].node = n /\ copy'[s].status = "completed"
    BY <1>1, <1>6, <1>7
  <1>11. \A q \in Runs :
           overlaps'[q] = IF late[s] /\ held[s] = q THEN overlaps[q] + 1 ELSE overlaps[q]
    BY <1>1 DEF Perform, TypeOK
  <1>12. QED
    BY <1>0, <1>1, <1>2, <1>3, <1>6, <1>8, <1>9, <1>10, <1>11 DEF Performs

LEMMA HoldLeaves ==
  ASSUME TypeOK, ReachInv, NEW s \in Sessions, Commit(s)
  PROVE  Leaves(s)
  <1> DEFINE r == held[s]
  <1>1. /\ stage[s] = "writing" /\ row' = [row EXCEPT ![r] = Flushed(row[r], orig[s], copy[s])]
        /\ enteredAt' = IF row'[r].node # row[r].node
                        THEN [enteredAt EXCEPT ![r] = now] ELSE enteredAt
        /\ stage' = [stage EXCEPT ![s] = IF s \in Crons /\ todo[s] # {} THEN "sweep" ELSE "idle"]
        /\ held' = [held EXCEPT ![s] = NoRun]
        /\ orig' = [orig EXCEPT ![s] = Absent] /\ copy' = [copy EXCEPT ![s] = Absent]
        /\ UNCHANGED <<visits, overlaps, redo, now>>
        /\ LetGo(s)
    BY DEF Commit, Release
  <1>2. r \in Runs
    BY <1>1 DEF ReachInv, HeldRunsExist
  <1>3. /\ row'[r] = Flushed(row[r], orig[s], copy[s])
        /\ \A q \in Runs \ {r} : row'[q] = row[q]
    BY <1>1, <1>2 DEF TypeOK
  <1>4. /\ SameColumns(orig[s], row[r]) => SameColumns(row'[r], copy[s])
        /\ row'[r].node = IF copy[s].node # orig[s].node THEN copy[s].node ELSE row[r].node
        /\ row'[r].status = IF copy[s].status # orig[s].status THEN copy[s].status ELSE row[r].status
    BY <1>3 DEF Flushed, SameColumns
  <1>5. /\ stage'[s] \in {"idle", "sweep"} /\ held'[s] = NoRun /\ OthersRest(s)
        /\ Loosens(s) /\ ~late'[s]
    BY <1>1, HoldLoosens DEF TypeOK, OthersRest
  <1>6. /\ \A q \in Runs \ {r} : enteredAt'[q] = enteredAt[q]
        /\ enteredAt'[r] = IF row'[r].node # row[r].node THEN now ELSE enteredAt[r]
    BY <1>1, <1>2 DEF TypeOK
  <1>7. QED
    BY <1>1, <1>2, <1>3, <1>4, <1>5, <1>6 DEF Leaves

LEMMA HoldRests ==
  ASSUME TypeOK, NEW s \in Crons, StartSweep(s)
  PROVE  Rests
  <1>1. /\ UNCHANGED <<row, held, orig, copy, visits, overlapped, late, overlaps, redo, enteredAt,
                       now>>
        /\ stage[s] = "idle" /\ stage' = [stage EXCEPT ![s] = "sweep"]
    BY DEF StartSweep, rowVars, historyVars
  <1>2. now' >= now
    BY <1>1 DEF TypeOK
  <1>3. QED
    BY <1>1, <1>2 DEF Rests, SameColumns, TypeOK

LEMMA OthersRests ==
  ASSUME TypeOK, Environment \/ UNCHANGED vars
  PROVE  Rests
  <1>0. now \in Nat /\ now >= now /\ now + 1 >= now
    BY DEF TypeOK
  <1>1. ASSUME NEW r \in Runs, NEW c \in Csms, ReassignTask(r, c) PROVE Rests
    <2>1. /\ UNCHANGED <<stage, held, orig, copy, visits, overlapped, late, overlaps, redo,
                         enteredAt, now>>
          /\ row' = [row EXCEPT ![r].csm = c, ![r].task = "assigned"]
      BY <1>1 DEF ReassignTask, sessionVars, historyVars
    <2>2. \A q \in Runs \ {r} : row'[q] = row[q]
      BY <2>1 DEF TypeOK
    <2>3. row'[r] = [row[r] EXCEPT !.csm = c, !.task = "assigned"] /\ row[r] \in Row
      BY <2>1 DEF TypeOK
    <2>4. SameColumns(row'[r], row[r])
      BY <2>3 DEF Row, SameColumns
    <2>5. QED
      BY <1>0, <2>1, <2>2, <2>4 DEF Rests, SameColumns
  <1>2. CASE UNCHANGED <<row, sessionVars, visits, historyVars>> /\ now' \in {now, now + 1}
    BY <1>0, <1>2 DEF Rests, SameColumns, sessionVars, historyVars
  <1>3. CASE Environment
    <2>1. ASSUME NEW r \in Runs, Rescore(r) PROVE Rests
      BY <1>2, <2>1 DEF Rescore
    <2>2. ASSUME NEW c \in Csms, NEW cap \in 1..MaxCap, NEW avail \in BOOLEAN,
                 SaveCsmProfile(c, cap, avail)
          PROVE  Rests
      BY <1>2, <2>2 DEF SaveCsmProfile, rowVars
    <2>3. ASSUME NEW S \in SUBSET Nodes, NEW all \in BOOLEAN, EditGraph(S, all) PROVE Rests
      BY <1>2, <2>3 DEF EditGraph
    <2>4. ASSUME Tick PROVE Rests
      BY <1>2, <2>4 DEF Tick, rowVars
    <2>5. QED
      BY <1>1, <1>3, <2>1, <2>2, <2>3, <2>4 DEF Environment
  <1>4. CASE UNCHANGED vars
    BY <1>2, <1>4 DEF vars, rowVars
  <1>5. QED
    BY <1>3, <1>4

\* Every step is one of these.
LEMMA StepKinds ==
  ASSUME TypeOK, ReachInv, HoldInv, [Next]_vars
  PROVE  \/ Rests
         \/ \E s \in Sessions, r \in Runs : Takes(s, r)
         \/ \E s \in Sessions : Drops(s) \/ Rewrites(s) \/ Performs(s) \/ Leaves(s)
  <1>1. ASSUME NEW s \in Requests, NEW r \in Runs, Trigger(s, r)
        PROVE  \E v \in Sessions, q \in Runs : Takes(v, q)
    BY <1>1, HoldTakes DEF Sessions
  <1>2. ASSUME NEW s \in Crons, Sweep(s)
        PROVE  Rests \/ \E v \in Sessions, q \in Runs : Takes(v, q)
    BY <1>2, HoldRests, HoldTakes DEF Sessions, Sweep
  <1>3. ASSUME NEW s \in Sessions, AdvanceRun(s) \/ Crash(s)
        PROVE  Drops(s) \/ Rewrites(s) \/ Performs(s) \/ Leaves(s)
    BY <1>3, HoldDrops, HoldRewrites, HoldPerforms, HoldLeaves DEF AdvanceRun
  <1>4. QED
    BY <1>1, <1>2, <1>3, OthersRests DEF Next

LEMMA HoldInit == Init => HoldInv
  BY DEF Init, HoldInv

LEMMA HoldStep == TypeOK /\ ReachInv /\ HoldInv /\ [Next]_vars => HoldInv'
  <1> SUFFICES ASSUME TypeOK, ReachInv, HoldInv, [Next]_vars, NEW s \in Sessions
               PROVE  HoldInv!(s)'
    BY DEF HoldInv
  <1>0. late \in [Sessions -> BOOLEAN]
    BY DEF TypeOK
  <1>1. CASE Rests
    BY <1>1 DEF Rests, HoldInv
  <1>2. ASSUME NEW v \in Sessions, NEW r \in Runs, Takes(v, r) PROVE HoldInv!(s)'
    BY <1>2 DEF Takes, OthersRest, HoldInv
  <1>3. ASSUME NEW v \in Sessions, Drops(v) PROVE HoldInv!(s)'
    BY <1>3 DEF Drops, OthersRest, HoldInv
  <1>4. ASSUME NEW v \in Sessions, Changes(v) PROVE HoldInv!(s)'
    BY <1>4 DEF Changes, OthersRest, HoldInv
  <1>5. ASSUME NEW v \in Sessions, Leaves(v) PROVE HoldInv!(s)'
    BY <1>5 DEF Leaves, OthersRest, HoldInv
  <1>6. QED
    BY <1>1, <1>2, <1>3, <1>4, <1>5, StepKinds DEF Rewrites, Performs

(***************************************************************************)
(* Runs move along the graph                                               *)
(***************************************************************************)
\* The session that holds a run which is not overlapped is the only one, and the
\* row is still what the session read.
SoleInv ==
  \A r \in Runs \ overlapped, s \in Sessions : held[s] = r =>
    /\ SameColumns(orig[s], row[r])
    /\ \A v \in Sessions : held[v] = r => v = s

\* A session about to move a run moves it along an edge, from a node at which it
\* read the run running and which it has performed.
MoveInv ==
  \A s \in Sessions : stage[s] = "writing" /\ copy[s].node # orig[s].node =>
    /\ orig[s].status = "running" /\ copy[s].node \in Targets(orig[s].node)
    /\ visits[held[s]][orig[s].node] > 0

LEMMA SoleInit == Init => SoleInv /\ MoveInv
  BY ActorAssumption DEF Init, SoleInv, MoveInv

LEMMA SoleStep ==
  ASSUME TypeOK, ReachInv, HoldInv, SoleInv, [Next]_vars
  PROVE  SoleInv'
  <1> SUFFICES ASSUME NEW r \in Runs, r \notin overlapped', NEW s \in Sessions, held'[s] = r
               PROVE  /\ SameColumns(orig'[s], row'[r])
                      /\ \A v \in Sessions : held'[v] = r => v = s
    BY DEF SoleInv, SameColumns
  <1>0. r # NoRun
    BY ActorAssumption
  <1>1. CASE Rests
    BY <1>1 DEF Rests, SoleInv, SameColumns
  <1>2. ASSUME NEW v \in Sessions, NEW q \in Runs, Takes(v, q)
        PROVE  /\ SameColumns(orig'[s], row'[r])
               /\ \A u \in Sessions : held'[u] = r => u = s
    <2>1. CASE q = r
      <3>1. \A u \in Sessions : held[u] # r
        BY <1>2, <2>1 DEF Takes
      <3>2. \A u \in Sessions \ {v} : held'[u] # r
        BY <1>2, <3>1 DEF Takes, OthersRest
      <3>3. QED
        BY <1>2, <2>1, <3>2 DEF Takes
    <2>2. CASE q # r
      BY <1>2, <2>2 DEF Takes, OthersRest, SoleInv, SameColumns
    <2>3. QED
      BY <2>1, <2>2
  <1>3. ASSUME NEW v \in Sessions, Drops(v)
        PROVE  /\ SameColumns(orig'[s], row'[r])
               /\ \A u \in Sessions : held'[u] = r => u = s
    <2>1. s # v /\ held[s] = r
      BY <1>0, <1>3 DEF Drops, OthersRest
    <2>2. r \notin overlapped
      BY <1>3, <2>1 DEF Drops, Loosens
    <2>3. QED
      BY <1>0, <1>3, <2>1, <2>2 DEF Drops, OthersRest, SoleInv, SameColumns
  <1>4. ASSUME NEW v \in Sessions, Changes(v)
        PROVE  /\ SameColumns(orig'[s], row'[r])
               /\ \A u \in Sessions : held'[u] = r => u = s
    BY <1>4 DEF Changes, OthersRest, SoleInv, SameColumns
  <1>5. ASSUME NEW v \in Sessions, Leaves(v)
        PROVE  /\ SameColumns(orig'[s], row'[r])
               /\ \A u \in Sessions : held'[u] = r => u = s
    <2>1. s # v /\ held[s] = r
      BY <1>0, <1>5 DEF Leaves, OthersRest
    <2>2. r \notin overlapped
      BY <1>5, <2>1 DEF Leaves, Loosens
    <2>3. held[v] # r
      BY <2>1, <2>2 DEF SoleInv
    <2>4. QED
      BY <1>0, <1>5, <2>1, <2>2, <2>3 DEF Leaves, OthersRest, SoleInv, SameColumns
  <1>6. QED
    BY <1>1, <1>2, <1>3, <1>4, <1>5, StepKinds DEF Rewrites, Performs

LEMMA MoveStep ==
  ASSUME TypeOK, ReachInv, HoldInv, MoveInv, [Next]_vars
  PROVE  MoveInv'
  <1> SUFFICES ASSUME NEW s \in Sessions
               PROVE  MoveInv!(s)'
    BY DEF MoveInv
  <1>1. CASE Rests
    BY <1>1 DEF Rests, MoveInv
  <1>2. ASSUME NEW v \in Sessions, NEW r \in Runs, Takes(v, r) PROVE MoveInv!(s)'
    BY <1>2 DEF Takes, OthersRest, MoveInv
  <1>3. ASSUME NEW v \in Sessions, Drops(v) PROVE MoveInv!(s)'
    BY <1>3 DEF Drops, OthersRest, MoveInv
  <1>4. ASSUME NEW v \in Sessions, Rewrites(v) PROVE MoveInv!(s)'
    BY <1>4 DEF Rewrites, Changes, OthersRest, MoveInv, SameColumns
  <1>5. ASSUME NEW v \in Sessions, Performs(v) PROVE MoveInv!(s)'
    <2>1. held[v] \in Runs /\ orig[v].node \in Nodes /\ visits \in [Runs -> [Nodes -> Nat]]
      BY <1>5 DEF Performs, Changes, ReachInv, HeldRunsExist, TypeOK, Row
    <2>2. \A r \in Runs, m \in Nodes :
            visits'[r][m] = IF r = held[v] /\ m = orig[v].node THEN visits[r][m] + 1
                                                              ELSE visits[r][m]
      BY <1>5, <2>1 DEF Performs
    <2>3. CASE s = v
      <3>1. /\ held' = held /\ SameColumns(orig'[v], orig[v]) /\ orig[v].status = "running"
            /\ copy'[v].node # orig[v].node => copy'[v].node \in Targets(orig[v].node)
        BY <1>5 DEF Performs, Changes
      <3>2. visits'[held[v]][orig[v].node] > 0
        BY <2>1, <2>2
      <3>3. QED
        BY <2>3, <3>1, <3>2 DEF SameColumns
    <2>4. CASE s # v
      <3>1. UNCHANGED <<stage[s], held[s], orig[s], copy[s]>>
        BY <1>5, <2>4 DEF Performs, Changes, OthersRest
      <3>2. SUFFICES ASSUME stage[s] = "writing", copy[s].node # orig[s].node
                     PROVE  /\ orig[s].status = "running"
                            /\ copy[s].node \in Targets(orig[s].node)
                            /\ visits'[held[s]][orig[s].node] > 0
        BY <3>1
      <3>3. held[s] \in Runs /\ orig[s].node \in Nodes
        BY <3>2 DEF ReachInv, HeldRunsExist, TypeOK, Row
      <3>4. visits[held[s]][orig[s].node] \in Nat /\ visits[held[s]][orig[s].node] > 0
        BY <2>1, <3>2, <3>3 DEF MoveInv
      <3>5. QED
        BY <2>2, <3>2, <3>3, <3>4 DEF MoveInv
    <2>5. QED
      BY <2>3, <2>4
  <1>6. ASSUME NEW v \in Sessions, Leaves(v) PROVE MoveInv!(s)'
    BY <1>6 DEF Leaves, OthersRest, MoveInv
  <1>7. QED
    BY <1>1, <1>2, <1>3, <1>4, <1>5, <1>6, StepKinds

LEMMA MoveHolds ==
  TypeOK /\ ReachInv /\ HoldInv /\ SoleInv /\ MoveInv /\ [Next]_vars
    => [\A r \in Runs : row'[r].node # row[r].node =>
          \E s \in Sessions :
            /\ held[s] = r /\ orig[s].status = "running"
            /\ row'[r].node \in Targets(orig[s].node) /\ visits[r][orig[s].node] > 0
            /\ r \notin overlapped => row[r].status = "running" /\ row[r].node = orig[s].node]_vars
  <1> SUFFICES ASSUME TypeOK, ReachInv, HoldInv, SoleInv, MoveInv, [Next]_vars,
                      NEW r \in Runs, row'[r].node # row[r].node
               PROVE  \E s \in Sessions :
                        /\ held[s] = r /\ orig[s].status = "running"
                        /\ row'[r].node \in Targets(orig[s].node)
                        /\ visits[r][orig[s].node] > 0
                        /\ r \notin overlapped =>
                             row[r].status = "running" /\ row[r].node = orig[s].node
    OBVIOUS
  <1>1. ~ Rests
    BY DEF Rests, SameColumns
  <1>2. ASSUME NEW s \in Sessions, NEW q \in Runs, Takes(s, q) PROVE FALSE
    BY <1>2 DEF Takes, SameColumns
  <1>3. PICK s \in Sessions : Leaves(s)
    BY <1>1, <1>2, StepKinds DEF Drops, Rewrites, Performs, Changes
  <1>4. held[s] = r
    BY <1>3 DEF Leaves
  <1>5. stage[s] = "writing" /\ copy[s].node # orig[s].node /\ row'[r].node = copy[s].node
    BY <1>3, <1>4 DEF Leaves
  <1>6. /\ orig[s].status = "running" /\ copy[s].node \in Targets(orig[s].node)
        /\ visits[r][orig[s].node] > 0
    BY <1>4, <1>5 DEF MoveInv
  <1>7. r \notin overlapped => SameColumns(orig[s], row[r])
    BY <1>4 DEF SoleInv
  <1>8. QED
    BY <1>4, <1>5, <1>6, <1>7 DEF SameColumns

LEMMA SoleAlways == Spec => [](HoldInv /\ SoleInv /\ MoveInv)
  <1>1. TypeOK /\ ReachInv /\ (HoldInv /\ SoleInv /\ MoveInv) /\ [Next]_vars
          => (HoldInv /\ SoleInv /\ MoveInv)'
    BY HoldStep, SoleStep, MoveStep
  <1>2. QED
    BY <1>1, HoldInit, SoleInit, TypeCorrect, EverythingReached, PTL DEF Spec

\* Every move of every run, whichever session's object is flushed and however
\* stale it is, follows an edge from a node that was performed and at which that
\* session read the run running; it starts where the run still stands unless
\* sessions overlapped on the run since they last all let go of it.  For every
\* graph and any number of sessions, however often they crash (engine.py:200-206).
THEOREM RunsMoveAlongGraph == Spec => MovesAlongGraph
  BY SoleAlways, MoveHolds, TypeCorrect, EverythingReached, PTL DEF Spec, MovesAlongGraph

(***************************************************************************)
(* ... and does not leave a delay before it has passed                     *)
(***************************************************************************)
\* The timer of r's row, or of the object about to replace it, belongs to the
\* delay node the run is on and counts from the hour it got there.
Timed(r, n, timer) ==
  timer # NoTimer => Kind[n] = "delay" /\ timer >= enteredAt[r] + DelayHours[n]

DelayInv ==
  /\ \A r \in Runs : enteredAt[r] <= now
  /\ \A r \in Runs \ overlapped :
       /\ Timed(r, row[r].node, row[r].timer)
       /\ \A s \in Sessions : held[s] = r /\ stage[s] = "writing" =>
            /\ Timed(r, copy[s].node, copy[s].timer)
            /\ copy[s].timer # NoTimer => copy[s].node = orig[s].node

LEMMA DelayInit == Init => DelayInv
  BY ActorAssumption DEF Init, DelayInv, Timed, Absent, Fresh

LEMMA DelayStep ==
  ASSUME TypeOK, ReachInv, HoldInv, SoleInv, DelayInv, [Next]_vars
  PROVE  DelayInv'
  <1>0. /\ now \in Nat /\ enteredAt \in [Runs -> Nat]
        /\ \A n \in Nodes : DelayHours[n] \in Nat
        /\ \A r \in Runs : row[r].node \in Nodes /\ row[r].timer \in Int
        /\ \A s \in Sessions : orig[s].node \in Nodes /\ copy[s].timer \in Int
        /\ \A r \in Runs : r # NoRun
    BY GraphAssumption, ActorAssumption DEF TypeOK, Row
  <1>t. now' \in Nat
    BY StepType DEF TypeOK
  <1> DEFINE Early == \A r \in Runs : enteredAt'[r] <= now'
             RowTimed(r) == (Timed(r, row[r].node, row[r].timer))'
             ObjectTimed(r, s) ==
               held'[s] = r /\ stage'[s] = "writing" =>
                 /\ Timed(r, copy[s].node, copy[s].timer)'
                 /\ copy'[s].timer # NoTimer => copy'[s].node = orig'[s].node
             Done == Early /\ \A r \in Runs \ overlapped' :
                       RowTimed(r) /\ \A s \in Sessions : ObjectTimed(r, s)
  <1>1. ASSUME Rests PROVE Done
    <2>1. Early
      BY <1>0, <1>1, <1>t DEF Rests, DelayInv
    <2>2. ASSUME NEW r \in Runs \ overlapped' PROVE RowTimed(r)
      BY <1>1, <2>2 DEF Rests, DelayInv, Timed, SameColumns
    <2>3. ASSUME NEW r \in Runs \ overlapped', NEW s \in Sessions PROVE ObjectTimed(r, s)
      BY <1>1, <2>3 DEF Rests, DelayInv, Timed
    <2>4. QED
      BY <2>1, <2>2, <2>3
  <1>2. ASSUME NEW v \in Sessions, NEW q \in Runs, Takes(v, q) PROVE Done
    <2>1. Early
      BY <1>0, <1>2 DEF Takes, DelayInv
    <2>2. ASSUME NEW r \in Runs \ overlapped' PROVE RowTimed(r)
      BY <1>2, <2>2 DEF Takes, DelayInv, Timed, SameColumns
    <2>3. ASSUME NEW r \in Runs \ overlapped', NEW s \in Sessions PROVE ObjectTimed(r, s)
      <3>1. CASE s = v
        BY <1>2, <3>1 DEF Takes
      <3>2. CASE s # v
        <4>1. held'[s] = r => r # q
          BY <1>2, <3>2 DEF Takes, OthersRest
        <4>2. QED
          BY <1>2, <3>2, <4>1 DEF Takes, OthersRest, DelayInv, Timed
      <3>3. QED
        BY <3>1, <3>2
    <2>4. QED
      BY <2>1, <2>2, <2>3
  <1>3. ASSUME NEW v \in Sessions, Drops(v) PROVE Done
    <2>1. Early
      BY <1>3 DEF Drops, DelayInv
    <2>2. ASSUME NEW r \in Runs \ overlapped' PROVE RowTimed(r)
      <3>1. r \in overlapped => row'[r].timer = NoTimer
        BY <1>3, <2>2 DEF Drops, Loosens
      <3>2. QED
        BY <1>3, <2>2, <3>1 DEF Drops, DelayInv, Timed
    <2>3. ASSUME NEW r \in Runs \ overlapped', NEW s \in Sessions PROVE ObjectTimed(r, s)
      <3>1. held'[s] = r => s # v /\ held[s] = r
        BY <1>0, <1>3 DEF Drops, OthersRest
      <3>2. held'[s] = r => r \notin overlapped
        BY <1>3, <2>3, <3>1 DEF Drops, Loosens
      <3>3. QED
        BY <1>3, <2>3, <3>1, <3>2 DEF Drops, OthersRest, DelayInv, Timed
    <2>4. QED
      BY <2>1, <2>2, <2>3
  <1>4. ASSUME NEW v \in Sessions, Rewrites(v) \/ Performs(v) PROVE Done
    <2>0. Changes(v)
      BY <1>4 DEF Rewrites, Performs
    <2>1. Early
      BY <2>0 DEF Changes, DelayInv
    <2>2. ASSUME NEW r \in Runs \ overlapped' PROVE RowTimed(r)
      BY <2>0, <2>2 DEF Changes, DelayInv, Timed
    <2>3. ASSUME NEW r \in Runs \ overlapped', NEW s \in Sessions PROVE ObjectTimed(r, s)
      <3>1. CASE s # v
        BY <2>0, <2>3, <3>1 DEF Changes, OthersRest, DelayInv, Timed
      <3>2. CASE s = v /\ held[v] = r
        <4>1. SameColumns(orig[v], row[r]) /\ Timed(r, row[r].node, row[r].timer)
          BY <2>0, <2>3, <3>2 DEF Changes, SoleInv, DelayInv
        <4>2. UNCHANGED <<enteredAt, now>> /\ SameColumns(orig'[v], orig[v])
          BY <2>0 DEF Changes
        <4>3. CASE Rewrites(v)
          <5>1. copy'[v].node = row[r].node /\ orig'[v].node = row[r].node
            BY <4>1, <4>2, <4>3 DEF Rewrites, SameColumns
          <5>2. \/ copy'[v].timer = row[r].timer
                \/ Kind[row[r].node] = "delay" /\ copy'[v].timer = now + DelayHours[row[r].node]
            BY <4>1, <4>3 DEF Rewrites, SameColumns
          <5>3. enteredAt[r] <= now
            BY DEF DelayInv
          <5>4. Timed(r, copy[v].node, copy[v].timer)'
            BY <1>0, <4>1, <4>2, <5>1, <5>2, <5>3 DEF Timed
          <5>5. QED
            BY <3>2, <5>1, <5>4
        <4>4. CASE Performs(v)
          <5>1. copy'[v].timer = IF Kind[row[r].node] = "delay" THEN NoTimer ELSE row[r].timer
            BY <4>1, <4>4 DEF Performs, SameColumns
          <5>2. copy'[v].timer = NoTimer
            BY <4>1, <5>1 DEF Timed
          <5>3. QED
            BY <3>2, <5>2 DEF Timed
        <4>5. QED
          BY <1>4, <4>3, <4>4
      <3>3. CASE s = v /\ held[v] # r
        BY <2>0, <3>3 DEF Changes
      <3>4. QED
        BY <3>1, <3>2, <3>3
    <2>4. QED
      BY <2>1, <2>2, <2>3
  <1>5. ASSUME NEW v \in Sessions, Leaves(v) PROVE Done
    <2>1. Early
      BY <1>0, <1>5 DEF Leaves, DelayInv
    <2>2. ASSUME NEW r \in Runs \ overlapped' PROVE RowTimed(r)
      <3>0. r \in overlapped => row'[r].timer = NoTimer
        BY <1>5, <2>2 DEF Leaves, Loosens
      <3> SUFFICES ASSUME r \notin overlapped
                   PROVE  RowTimed(r)
        BY <3>0 DEF Timed
      <3>1. CASE held[v] # r
        BY <1>5, <2>2, <3>1 DEF Leaves, DelayInv, Timed
      <3>2. CASE held[v] = r
        <4>1. SameColumns(orig[v], row[r]) /\ SameColumns(row'[r], copy[v])
          BY <1>5, <2>2, <3>2 DEF Leaves, SoleInv
        <4>2. /\ Timed(r, copy[v].node, copy[v].timer)
              /\ copy[v].timer # NoTimer => copy[v].node = orig[v].node
          BY <1>5, <2>2, <3>2 DEF Leaves, DelayInv
        <4>3. CASE copy[v].timer = NoTimer
          BY <4>1, <4>3 DEF Timed, SameColumns
        <4>4. CASE copy[v].timer # NoTimer
          <5>1. enteredAt'[r] = enteredAt[r]
            BY <1>5, <3>2, <4>1, <4>2, <4>4 DEF Leaves, SameColumns
          <5>2. QED
            BY <4>1, <4>2, <5>1 DEF Timed, SameColumns
        <4>5. QED
          BY <4>3, <4>4
      <3>3. QED
        BY <3>1, <3>2
    <2>3. ASSUME NEW r \in Runs \ overlapped', NEW s \in Sessions PROVE ObjectTimed(r, s)
      <3>1. CASE s = v
        BY <1>5, <3>1 DEF Leaves
      <3>2. CASE s # v /\ held[s] = r
        <4>0. r \notin overlapped
          BY <1>5, <2>3, <3>2 DEF Leaves, Loosens
        <4>1. held[v] # r
          BY <1>5, <2>3, <3>2, <4>0 DEF Leaves, SoleInv
        <4>2. enteredAt'[r] = enteredAt[r]
          BY <1>5, <4>1 DEF Leaves
        <4>3. QED
          BY <1>5, <2>3, <3>2, <4>0, <4>2 DEF Leaves, OthersRest, DelayInv, Timed
      <3>3. CASE s # v /\ held[s] # r
        BY <1>5, <3>3 DEF Leaves, OthersRest
      <3>4. QED
        BY <3>1, <3>2, <3>3
    <2>4. QED
      BY <2>1, <2>2, <2>3
  <1>6. Done
    BY <1>1, <1>2, <1>3, <1>4, <1>5, StepKinds
  <1>7. QED
    BY <1>6 DEF DelayInv

LEMMA DelayHolds ==
  TypeOK /\ ReachInv /\ HoldInv /\ SoleInv /\ DelayInv /\ [Next]_vars
    => [\A r \in Runs \ overlapped, n \in Nodes :
          Kind[n] = "delay" /\ visits'[r][n] > visits[r][n]
            => now >= enteredAt[r] + DelayHours[n]]_vars
  <1> SUFFICES ASSUME TypeOK, ReachInv, HoldInv, SoleInv, DelayInv, [Next]_vars,
                      NEW r \in Runs, r \notin overlapped, NEW n \in Nodes,
                      Kind[n] = "delay", visits'[r][n] > visits[r][n]
               PROVE  now >= enteredAt[r] + DelayHours[n]
    OBVIOUS
  <1>0. /\ visits[r][n] \in Nat /\ now \in Nat /\ enteredAt[r] \in Nat
        /\ DelayHours[n] \in Nat /\ row[r].timer \in Int
        /\ visits \in [Runs -> [Nodes -> Nat]]
    BY GraphAssumption DEF TypeOK, Row
  <1>1. visits' # visits
    BY <1>0
  <1>2. PICK s \in Sessions : Performs(s)
    BY <1>1, StepKinds DEF Rests, Takes, Drops, Rewrites, Leaves
  <1>3. held[s] = r /\ orig[s].node = n
    <2>1. held[s] # r => visits'[r] = visits[r]
      BY <1>0, <1>2 DEF Performs
    <2>2. held[s] = r /\ orig[s].node # n => visits'[r][n] = visits[r][n]
      BY <1>0, <1>2 DEF Performs
    <2>3. QED
      BY <1>0, <2>1, <2>2
  <1>5. SameColumns(orig[s], row[r]) /\ Timed(r, row[r].node, row[r].timer)
    BY <1>3 DEF SoleInv, DelayInv
  <1>6. orig[s].timer # NoTimer /\ now >= orig[s].timer
    BY <1>2, <1>3 DEF Performs
  <1>7. QED
    BY <1>0, <1>3, <1>5, <1>6 DEF Timed, SameColumns

\* A run stays on a delay node until the node's hours have passed since it got
\* there, whatever delays, sessions and crashes there are, unless sessions
\* overlapped on it since they last all let go of it with no timer set
\* (engine.py:127-141).
THEOREM DelaysAreHonoured == Spec => DelayHonoured
  <1>1. TypeOK /\ ReachInv /\ (HoldInv /\ SoleInv /\ MoveInv) /\ DelayInv /\ [Next]_vars
          => DelayInv'
    BY DelayStep
  <1>2. QED
    BY <1>1, DelayInit, DelayHolds, SoleAlways, TypeCorrect, EverythingReached, PTL
       DEF Spec, DelayHonoured

(***************************************************************************)
(* ... and, on an acyclic graph, performs each node once                   *)
(***************************************************************************)
\* The nodes can be ranked so that every edge goes up.
Ranks(Rank) ==
  /\ Rank \in [Nodes -> Nat]
  /\ \A n \in Nodes : \A m \in Targets(n) \cap Nodes : Rank[m] > Rank[n]

Acyclic == \E Rank \in [Nodes -> Nat] : Ranks(Rank)

\* A row, or an object a session holds, that may still lead to node n: it is not
\* finished and stands at n or below it.
AtOrBefore(Rank, rec, n) == rec.status \notin Finished /\ Rank[rec.node] <= Rank[n]

\* The session has moved or ended its run, and not yet committed that.
Pending(s) == copy[s].node # orig[s].node \/ copy[s].status # orig[s].status

\* A session that may still perform node n of run r, or commit what lets another
\* one do so, without this having been accounted for as an overlap.
Ahead(Rank, r, n, s) ==
  held[s] = r /\ AtOrBefore(Rank, copy[s], n) /\ (~late[s] \/ Pending(s))

Aheads(Rank, r, n) == {s \in Sessions : Ahead(Rank, r, n, s)}

\* The row itself lets a session perform node n.
RowAhead(Rank, r, n) ==
  /\ AtOrBefore(Rank, row[r], n)
  /\ \A s \in Sessions : ~Ahead(Rank, r, n, s) /\ (held[s] = r => ~Pending(s))

Bit(b) == IF b THEN 1 ELSE 0

\* Each node of a run is performed on a ticket.  There is one to begin with, which
\* the row holds while no session does, and a session takes along; a crash between
\* performing and committing gives out another one, and so does a node performed
\* by a session that read the run while another held it.  Tickets used and tickets
\* still out are never more than those given out.
OnceInv(Rank) ==
  \A r \in Runs, n \in Nodes :
    /\ IsFiniteSet(Aheads(Rank, r, n))
    /\ visits[r][n] + Cardinality(Aheads(Rank, r, n)) + Bit(RowAhead(Rank, r, n))
         <= 1 + redo[r] + overlaps[r]

LEMMA OnceInit ==
  ASSUME NEW Rank
  PROVE  Init => OnceInv(Rank)
  <1> SUFFICES ASSUME Init, NEW r \in Runs, NEW n \in Nodes
               PROVE  OnceInv(Rank)!(r, n)
    BY DEF OnceInv
  <1>1. Aheads(Rank, r, n) = {}
    BY ActorAssumption DEF Init, Aheads, Ahead
  <1>2. visits[r][n] = 0 /\ redo[r] = 0 /\ overlaps[r] = 0
    BY DEF Init
  <1>3. QED
    BY <1>1, <1>2, FS_EmptySet DEF Bit

\* The sizes of two sets that differ at most in v.
LEMMA OnceChanges ==
  ASSUME NEW A, NEW B, NEW v, IsFiniteSet(A), B \ {v} = A \ {v}
  PROVE  /\ IsFiniteSet(B)
         /\ Cardinality(A) \in Nat /\ Cardinality(B) \in Nat
         /\ Cardinality(B) + Bit(v \in A) = Cardinality(A) + Bit(v \in B)
  <1>1. Cardinality(A) \in Nat
    BY FS_CardinalityType
  <1>2. CASE v \in A /\ v \notin B
    <2>1. B = A \ {v}
      BY <1>2
    <2>2. IsFiniteSet(A \ {v}) /\ Cardinality(A \ {v}) = Cardinality(A) - 1
      BY <1>2, FS_RemoveElement
    <2>3. IsFiniteSet(B) /\ Cardinality(B) = Cardinality(A) - 1
      BY <2>1, <2>2
    <2>4. Cardinality(B) \in Nat
      BY <2>3, FS_CardinalityType
    <2>5. QED
      BY <1>1, <1>2, <2>3, <2>4 DEF Bit
  <1>3. CASE v \notin A /\ v \in B
    <2>1. B = A \cup {v}
      BY <1>3
    <2>2. QED
      BY <1>1, <1>3, <2>1, FS_AddElement, FS_CardinalityType DEF Bit
  <1>4. CASE v \in A <=> v \in B
    <2>1. B = A
      BY <1>4
    <2>2. QED
      BY <1>1, <2>1
  <1>5. QED
    BY <1>2, <1>3, <1>4

\* A step of session v keeps every other session where it was.
LEMMA OnceOthers ==
  ASSUME NEW Rank, NEW v \in Sessions, OthersRest(v), NEW r \in Runs, NEW n \in Nodes
  PROVE  \A s \in Sessions \ {v} :
           /\ Ahead(Rank, r, n, s)' <=> Ahead(Rank, r, n, s)
           /\ (held[s] = r => ~Pending(s))' <=> (held[s] = r => ~Pending(s))
  BY DEF OthersRest, Ahead, AtOrBefore, Pending

\* What is left to show of a step of session v: the ticket it may hold and the one
\* of the row are accounted for.
LEMMA OnceAccount ==
  ASSUME NEW Rank, TypeOK, TypeOK', OnceInv(Rank), NEW v \in Sessions, OthersRest(v),
         NEW r \in Runs, NEW n \in Nodes,
         visits'[r][n] + Bit(Ahead(Rank, r, n, v)') + Bit(RowAhead(Rank, r, n)')
             + redo[r] + overlaps[r]
           <= visits[r][n] + Bit(Ahead(Rank, r, n, v)) + Bit(RowAhead(Rank, r, n))
                + redo'[r] + overlaps'[r]
  PROVE  OnceInv(Rank)!(r, n)'
  <1> DEFINE A == Aheads(Rank, r, n)
             B == Aheads(Rank, r, n)'
  <1>1. B \ {v} = A \ {v}
    BY OnceOthers DEF Aheads
  <1>2. /\ IsFiniteSet(A)
        /\ visits[r][n] + Cardinality(A) + Bit(RowAhead(Rank, r, n)) <= 1 + redo[r] + overlaps[r]
    BY DEF OnceInv
  <1>3. /\ v \in A <=> Ahead(Rank, r, n, v)
        /\ v \in B <=> Ahead(Rank, r, n, v)'
    BY DEF Aheads
  <1>4. /\ IsFiniteSet(B)
        /\ Cardinality(A) \in Nat /\ Cardinality(B) \in Nat
        /\ Cardinality(B) + Bit(v \in A) = Cardinality(A) + Bit(v \in B)
    <2> HIDE DEF A, B
    <2> QED
      BY <1>1, <1>2, OnceChanges
  <1>5. Bit(v \in A) = Bit(Ahead(Rank, r, n, v)) /\ Bit(v \in B) = Bit(Ahead(Rank, r, n, v)')
    BY <1>3 DEF Bit
  <1>6. /\ visits[r][n] \in Nat /\ redo[r] \in Nat /\ overlaps[r] \in Nat
        /\ visits'[r][n] \in Nat /\ redo'[r] \in Nat /\ overlaps'[r] \in Nat
    BY DEF TypeOK
  <1>7. /\ Bit(Ahead(Rank, r, n, v)) \in Nat /\ Bit(Ahead(Rank, r, n, v)') \in Nat
        /\ Bit(RowAhead(Rank, r, n)) \in Nat /\ Bit(RowAhead(Rank, r, n)') \in Nat
    BY DEF Bit
  <1>8. visits'[r][n] + Cardinality(B) + Bit(RowAhead(Rank, r, n)') <= 1 + redo'[r] + overlaps'[r]
    <2> HIDE DEF A, B
    <2> QED
      BY <1>2, <1>4, <1>5, <1>6, <1>7
  <1>9. QED
    BY <1>4, <1>8

\* The same, said of the facts it comes down to: v gives up its ticket, or none is
\* taken from nowhere.
LEMMA OnceKept ==
  ASSUME NEW Rank, TypeOK, TypeOK', OnceInv(Rank), NEW v \in Sessions, OthersRest(v),
         NEW r \in Runs, NEW n \in Nodes,
         visits'[r][n] = visits[r][n], redo'[r] >= redo[r], overlaps'[r] = overlaps[r],
         Ahead(Rank, r, n, v)' => Ahead(Rank, r, n, v),
         RowAhead(Rank, r, n)' =>
           \/ RowAhead(Rank, r, n)
           \/ Ahead(Rank, r, n, v) /\ ~Ahead(Rank, r, n, v)'
           \/ redo'[r] > redo[r]
  PROVE  OnceInv(Rank)!(r, n)'
  <1>1. /\ visits[r][n] \in Nat /\ redo[r] \in Nat /\ overlaps[r] \in Nat
        /\ visits'[r][n] \in Nat /\ redo'[r] \in Nat /\ overlaps'[r] \in Nat
    BY DEF TypeOK
  <1> HIDE DEF Ahead, RowAhead
  <1>2. visits'[r][n] + Bit(Ahead(Rank, r, n, v)') + Bit(RowAhead(Rank, r, n)')
            + redo[r] + overlaps[r]
          <= visits[r][n] + Bit(Ahead(Rank, r, n, v)) + Bit(RowAhead(Rank, r, n))
               + redo'[r] + overlaps'[r]
    BY <1>1 DEF Bit
  <1>3. QED
    BY <1>2, OnceAccount

\* A step of v that concerns another run changes nothing for r.
LEMMA OnceElsewhere ==
  ASSUME NEW Rank, TypeOK, TypeOK', OnceInv(Rank), NEW v \in Sessions, OthersRest(v),
         NEW r \in Runs, NEW n \in Nodes, held[v] # r, held'[v] # r,
         row'[r].node = row[r].node, row'[r].status = row[r].status,
         visits'[r][n] = visits[r][n], redo'[r] = redo[r], overlaps'[r] = overlaps[r]
  PROVE  OnceInv(Rank)!(r, n)'
  <1>1. ~Ahead(Rank, r, n, v) /\ ~Ahead(Rank, r, n, v)'
    BY DEF Ahead
  <1>2. RowAhead(Rank, r, n)' => RowAhead(Rank, r, n)
    BY <1>1, OnceOthers DEF RowAhead, AtOrBefore
  <1>3. redo'[r] >= redo[r]
    BY DEF TypeOK
  <1>4. QED
    BY <1>1, <1>2, <1>3, OnceKept

\* A session that reads the run takes the row's ticket along, unless another
\* session has it already.
LEMMA OnceTakes ==
  ASSUME NEW Rank, TypeOK, TypeOK', HoldInv, OnceInv(Rank), NEW v \in Sessions,
         NEW q \in Runs, Takes(v, q), NEW r \in Runs, NEW n \in Nodes
  PROVE  OnceInv(Rank)!(r, n)'
  <1>0. /\ OthersRest(v) /\ UNCHANGED <<visits, redo, overlaps>>
        /\ held[v] = NoRun /\ r # NoRun /\ held'[v] = q
    BY ActorAssumption DEF Takes, HoldInv
  <1>1. CASE q # r
    <2>1. SameColumns(row'[r], row[r])
      BY <1>1 DEF Takes
    <2>2. QED
      BY <1>0, <1>1, <2>1, OnceElsewhere DEF SameColumns
  <1>2. CASE q = r
    <2>1. ~Ahead(Rank, r, n, v)
      BY <1>0 DEF Ahead
    <2>2. ~Pending(v)'
      BY DEF Takes, Pending
    <2>3. AtOrBefore(Rank, row[r], n)' <=> AtOrBefore(Rank, row[r], n)
      BY <1>2 DEF Takes, SameColumns, AtOrBefore, Finished
    <2>4. CASE late'[v]
      <3>1. ~Ahead(Rank, r, n, v)'
        BY <2>2, <2>4 DEF Ahead
      <3>2. RowAhead(Rank, r, n)' => RowAhead(Rank, r, n)
        BY <1>0, <2>1, <2>3, OnceOthers DEF RowAhead
      <3>3. redo'[r] >= redo[r]
        BY <1>0 DEF TypeOK
      <3>4. QED
        BY <1>0, <3>1, <3>2, <3>3, OnceKept
    <2>5. CASE ~late'[v]
      <3>1. \A s \in Sessions : held[s] # r
        BY <1>2, <2>5 DEF Takes
      <3>2. RowAhead(Rank, r, n) <=> AtOrBefore(Rank, row[r], n)
        BY <3>1 DEF RowAhead, Ahead
      <3>3. Ahead(Rank, r, n, v)' <=> AtOrBefore(Rank, row[r], n)'
        BY <1>2, <2>5 DEF Takes, Ahead, AtOrBefore, SameColumns
      <3>4. ~(RowAhead(Rank, r, n)' /\ Ahead(Rank, r, n, v)')
        BY DEF RowAhead
      <3>5. RowAhead(Rank, r, n)' => AtOrBefore(Rank, row[r], n)'
        BY DEF RowAhead
      <3>6. /\ visits'[r][n] = visits[r][n] /\ redo'[r] = redo[r] /\ overlaps'[r] = overlaps[r]
            /\ visits[r][n] \in Nat /\ redo[r] \in Nat /\ overlaps[r] \in Nat
        BY <1>0 DEF TypeOK
      <3>7. Bit(Ahead(Rank, r, n, v)') + Bit(RowAhead(Rank, r, n)')
              <= Bit(Ahead(Rank, r, n, v)) + Bit(RowAhead(Rank, r, n))
        BY <2>1, <2>3, <3>2, <3>3, <3>4, <3>5 DEF Bit
      <3>8. visits'[r][n] + Bit(Ahead(Rank, r, n, v)') + Bit(RowAhead(Rank, r, n)')
                + redo[r] + overlaps[r]
              <= visits[r][n] + Bit(Ahead(Rank, r, n, v)) + Bit(RowAhead(Rank, r, n))
                   + redo'[r] + overlaps'[r]
        BY <3>6, <3>7 DEF Bit
      <3>9. QED
        BY <1>0, <3>8, OnceAccount
    <2>6. QED
      BY <2>4, <2>5
  <1>3. QED
    BY <1>1, <1>2

\* A session that lets go without a commit leaves its ticket to the row; if it has
\* performed a node, the crash gives out another one.
LEMMA OnceDrops ==
  ASSUME NEW Rank, TypeOK, TypeOK', HoldInv, OnceInv(Rank), NEW v \in Sessions, Drops(v),
         NEW r \in Runs, NEW n \in Nodes
  PROVE  OnceInv(Rank)!(r, n)'
  <1>0. /\ OthersRest(v) /\ UNCHANGED <<row, visits, overlaps>>
        /\ held'[v] # r /\ redo[r] \in Nat
        /\ redo'[r] = IF stage[v] = "writing" /\ held[v] = r THEN redo[r] + 1 ELSE redo[r]
    BY ActorAssumption DEF Drops, TypeOK
  <1>1. CASE held[v] # r
    BY <1>0, <1>1, OnceElsewhere
  <1>2. CASE held[v] = r
    <2>1. ~Ahead(Rank, r, n, v)'
      BY <1>0 DEF Ahead
    <2>2. stage[v] # "writing" => ~Pending(v)
      <3>1. r # NoRun
        BY ActorAssumption
      <3>2. stage[v] \in {"idle", "sweep", "held", "writing"}
        BY DEF TypeOK, Stages
      <3>3. QED
        BY <1>2, <3>1, <3>2 DEF HoldInv, Pending
    <2>3. ASSUME RowAhead(Rank, r, n)', ~Ahead(Rank, r, n, v), stage[v] # "writing"
          PROVE  RowAhead(Rank, r, n)
      BY <1>0, <2>2, <2>3, OnceOthers DEF RowAhead
    <2>4. redo'[r] >= redo[r] /\ (stage[v] = "writing" => redo'[r] > redo[r])
      BY <1>0, <1>2
    <2>5. QED
      BY <1>0, <2>1, <2>3, <2>4, OnceKept
  <1>3. QED
    BY <1>1, <1>2

\* A session that ends the run or sets its timer takes no ticket.
LEMMA OnceRewrites ==
  ASSUME NEW Rank, TypeOK, TypeOK', HoldInv, OnceInv(Rank), NEW v \in Sessions, Rewrites(v),
         NEW r \in Runs, NEW n \in Nodes
  PROVE  OnceInv(Rank)!(r, n)'
  <1>0. /\ OthersRest(v) /\ UNCHANGED <<row, visits, overlaps, redo, held>>
        /\ copy[v] = orig[v] /\ orig[v].status = "running"
        /\ redo'[r] >= redo[r]
    BY DEF Rewrites, Changes, HoldInv, TypeOK
  <1>1. CASE held[v] # r
    BY <1>0, <1>1, OnceElsewhere
  <1>2. CASE held[v] = r
    <2>1. late'[v] = late[v] /\ SameColumns(orig'[v], orig[v]) /\ copy'[v].node = orig[v].node
      BY DEF Rewrites, Changes
    <2>2. CASE copy'[v].status = orig[v].status
      <3>1. ~Pending(v) /\ ~Pending(v)'
        BY <1>0, <2>1, <2>2 DEF Pending, SameColumns
      <3>2. Ahead(Rank, r, n, v)' <=> Ahead(Rank, r, n, v)
        BY <1>0, <2>1, <2>2, <3>1 DEF Ahead, AtOrBefore
      <3>3. RowAhead(Rank, r, n)' => RowAhead(Rank, r, n)
        BY <1>0, <3>1, <3>2, OnceOthers DEF RowAhead
      <3>4. QED
        BY <1>0, <3>2, <3>3, OnceKept
    <2>3. CASE copy'[v].status # orig[v].status
      <3>1. copy'[v].status \in Finished
        BY <2>3 DEF Rewrites
      <3>2. ~Ahead(Rank, r, n, v)'
        BY <3>1 DEF Ahead, AtOrBefore
      <3>3. ~RowAhead(Rank, r, n)'
        BY <1>0, <1>2, <2>1, <2>3 DEF RowAhead, Pending, SameColumns
      <3>4. QED
        BY <1>0, <3>2, <3>3, OnceKept
    <2>4. QED
      BY <2>2, <2>3
  <1>3. QED
    BY <1>1, <1>2

\* A session that performs node n gives up its ticket for it, or gets one for being
\* late; it goes up in rank, so it has no other ticket than before for n.
LEMMA OncePerforms ==
  ASSUME NEW Rank, Ranks(Rank), TypeOK, TypeOK', HoldInv, OnceInv(Rank), NEW v \in Sessions,
         Performs(v), NEW r \in Runs, NEW n \in Nodes
  PROVE  OnceInv(Rank)!(r, n)'
  <1> DEFINE m == orig[v].node
  <1>0. /\ OthersRest(v) /\ UNCHANGED <<row, redo, held>>
        /\ copy[v] = orig[v] /\ orig[v].status = "running"
        /\ late'[v] = late[v] /\ SameColumns(orig'[v], orig[v])
    BY DEF Performs, Changes, HoldInv
  <1>1. /\ m \in Nodes /\ visits \in [Runs -> [Nodes -> Nat]]
        /\ redo[r] \in Nat /\ overlaps[r] \in Nat
        /\ Rank \in [Nodes -> Nat]
        /\ late[v] \in BOOLEAN
    BY DEF TypeOK, Row, Ranks
  <1>2. overlaps'[r] = IF late[v] /\ held[v] = r THEN overlaps[r] + 1 ELSE overlaps[r]
    BY DEF Performs
  <1>3. visits'[r][n] = IF held[v] = r /\ n = m THEN visits[r][n] + 1 ELSE visits[r][n]
    BY <1>1 DEF Performs
  <1>4. CASE held[v] # r
    BY <1>0, <1>2, <1>3, <1>4, OnceElsewhere
  <1>5. CASE held[v] = r
    <2>1. \/ /\ copy'[v].node \in Nodes /\ Rank[copy'[v].node] > Rank[m]
             /\ copy'[v].status = "running"
          \/ copy'[v].node = m /\ copy'[v].status = "completed"
      BY <1>0, <1>1 DEF Performs, Ranks
    <2>2. Pending(v)'
      BY <1>0, <1>1, <2>1 DEF Pending, SameColumns
    <2>3. ~RowAhead(Rank, r, n)'
      BY <1>0, <1>5, <2>2 DEF RowAhead
    <2>4. Ahead(Rank, r, n, v)' => Rank[n] > Rank[m]
      BY <1>1, <2>1 DEF Ahead, AtOrBefore, Finished
    <2>5. Ahead(Rank, r, n, v) <=> Rank[m] <= Rank[n] /\ ~late[v]
      BY <1>0, <1>5 DEF Ahead, AtOrBefore, Finished, Pending
    <2>6. Rank[m] \in Nat /\ Rank[n] \in Nat /\ visits[r][n] \in Nat
      BY <1>1
    <2>7. CASE late[v]
      <3>1. Bit(Ahead(Rank, r, n, v)') + Bit(n = m) <= 1
        BY <2>4, <2>6 DEF Bit
      <3>2. visits'[r][n] = visits[r][n] + Bit(n = m) /\ overlaps'[r] = overlaps[r] + 1
        BY <1>2, <1>3, <1>5, <2>6, <2>7 DEF Bit
      <3>3. visits'[r][n] + Bit(Ahead(Rank, r, n, v)') + Bit(RowAhead(Rank, r, n)')
                + redo[r] + overlaps[r]
              <= visits[r][n] + Bit(Ahead(Rank, r, n, v)) + Bit(RowAhead(Rank, r, n))
                   + redo'[r] + overlaps'[r]
        BY <1>0, <1>1, <2>3, <2>6, <3>1, <3>2 DEF Bit
      <3>4. QED
        BY <1>0, <3>3, OnceAccount
    <2>8. CASE ~late[v]
      <3>1. Bit(Ahead(Rank, r, n, v)') + Bit(n = m) <= Bit(Ahead(Rank, r, n, v))
        BY <2>4, <2>5, <2>6, <2>8 DEF Bit
      <3>2. visits'[r][n] = visits[r][n] + Bit(n = m) /\ overlaps'[r] = overlaps[r]
        BY <1>2, <1>3, <1>5, <2>6, <2>8 DEF Bit
      <3>3. visits'[r][n] + Bit(Ahead(Rank, r, n, v)') + Bit(RowAhead(Rank, r, n)')
                + redo[r] + overlaps[r]
              <= visits[r][n] + Bit(Ahead(Rank, r, n, v)) + Bit(RowAhead(Rank, r, n))
                   + redo'[r] + overlaps'[r]
        BY <1>0, <1>1, <2>3, <2>6, <3>1, <3>2 DEF Bit
      <3>4. QED
        BY <1>0, <3>3, OnceAccount
    <2>9. QED
      BY <1>1, <2>7, <2>8
  <1>6. QED
    BY <1>4, <1>5

\* A commit leaves the session's ticket to the row, which is then where the session
\* took the run.
LEMMA OnceLeaves ==
  ASSUME NEW Rank, TypeOK, TypeOK', ReachInv, MoveInv, OnceInv(Rank), NEW v \in Sessions,
         Leaves(v), NEW r \in Runs, NEW n \in Nodes
  PROVE  OnceInv(Rank)!(r, n)'
  <1>0. /\ OthersRest(v) /\ UNCHANGED <<visits, redo, overlaps>>
        /\ held'[v] # r /\ redo'[r] >= redo[r] /\ stage[v] = "writing"
    BY ActorAssumption DEF Leaves, TypeOK
  <1>1. CASE held[v] # r
    <2>1. row'[r] = row[r]
      BY <1>1 DEF Leaves
    <2>2. QED
      BY <1>0, <1>1, <2>1, OnceElsewhere
  <1>2. CASE held[v] = r
    <2>1. ~Ahead(Rank, r, n, v)'
      BY <1>0 DEF Ahead
    <2>2. /\ row'[r].node = IF copy[v].node # orig[v].node THEN copy[v].node ELSE row[r].node
          /\ row'[r].status = IF copy[v].status # orig[v].status
                              THEN copy[v].status ELSE row[r].status
      BY <1>2 DEF Leaves
    <2>3. SUFFICES ASSUME RowAhead(Rank, r, n)', ~Ahead(Rank, r, n, v)
                   PROVE  RowAhead(Rank, r, n)
      BY <1>0, <2>1, OnceKept
    <2>4. AtOrBefore(Rank, row[r], n)'
      BY <2>3 DEF RowAhead
    <2>5. ~Pending(v)
      <3> SUFFICES ASSUME Pending(v)
                   PROVE  FALSE
        OBVIOUS
      <3>1. ~AtOrBefore(Rank, copy[v], n)
        BY <1>2, <2>3 DEF Ahead
      <3>2. PendingWritesReached!(v)
        BY DEF ReachInv, PendingWritesReached
      <3>3. CASE copy[v].status # orig[v].status
        <4>1. copy[v].status \in Finished
          BY <1>0, <3>2, <3>3 DEF Finished
        <4>2. QED
          BY <2>2, <2>4, <3>3, <4>1 DEF AtOrBefore
      <3>4. CASE copy[v].status = orig[v].status
        <4>1. copy[v].node # orig[v].node
          BY <3>4 DEF Pending
        <4>2. copy[v].status = "running"
          BY <1>0, <3>4, <4>1 DEF MoveInv
        <4>3. QED
          BY <2>2, <2>4, <3>1, <4>1, <4>2 DEF AtOrBefore, Finished
      <3>5. QED
        BY <3>3, <3>4
    <2>6. row'[r].node = row[r].node /\ row'[r].status = row[r].status
      BY <2>2, <2>5 DEF Pending
    <2>7. AtOrBefore(Rank, row[r], n)
      BY <2>4, <2>6 DEF AtOrBefore
    <2>8. \A s \in Sessions \ {v} : ~Ahead(Rank, r, n, s) /\ (held[s] = r => ~Pending(s))
      BY <1>0, <2>3, OnceOthers DEF RowAhead
    <2>9. QED
      BY <2>3, <2>5, <2>7, <2>8 DEF RowAhead
  <1>3. QED
    BY <1>1, <1>2

LEMMA OnceRests ==
  ASSUME NEW Rank, OnceInv(Rank), Rests, NEW r \in Runs, NEW n \in Nodes
  PROVE  OnceInv(Rank)!(r, n)'
  <1>1. /\ UNCHANGED <<visits, redo, overlaps>>
        /\ \A s \in Sessions : Ahead(Rank, r, n, s)' <=> Ahead(Rank, r, n, s)
        /\ \A s \in Sessions : (held[s] = r => ~Pending(s))' <=> (held[s] = r => ~Pending(s))
    BY DEF Rests, Ahead, AtOrBefore, Pending
  <1>2. Aheads(Rank, r, n)' = Aheads(Rank, r, n)
    BY <1>1 DEF Aheads
  <1>3. RowAhead(Rank, r, n)' <=> RowAhead(Rank, r, n)
    <2>1. SameColumns(row'[r], row[r])
      BY DEF Rests
    <2>2. QED
      BY <1>1, <2>1 DEF RowAhead, AtOrBefore, SameColumns
  <1>4. Bit(RowAhead(Rank, r, n)') = Bit(RowAhead(Rank, r, n))
    BY <1>3 DEF Bit
  <1>5. OnceInv(Rank)!(r, n)
    BY DEF OnceInv
  <1>6. QED
    BY <1>1, <1>2, <1>4, <1>5

LEMMA OnceStep ==
  ASSUME NEW Rank, Ranks(Rank), TypeOK, ReachInv, HoldInv, MoveInv, OnceInv(Rank), [Next]_vars
  PROVE  OnceInv(Rank)'
  <1> SUFFICES ASSUME NEW r \in Runs, NEW n \in Nodes
               PROVE  OnceInv(Rank)!(r, n)'
    BY DEF OnceInv
  <1>1. TypeOK'
    BY StepType
  <1>2. QED
    BY <1>1, StepKinds, OnceRests, OnceTakes, OnceDrops, OnceRewrites, OncePerforms, OnceLeaves

\* On an acyclic graph every node of every run is performed once, once more for
\* each crash between a node's side effect and its commit, and once more for each
\* node performed by a session that had read the run while another session held
\* it; for every such graph and any number of sessions and crashes
\* (engine.py:60-179).
THEOREM NodesPerformedOnce ==
  ASSUME Acyclic
  PROVE  Spec => []OncePlusRepeats
  <1>1. PICK Rank \in [Nodes -> Nat] : Ranks(Rank)
    BY DEF Acyclic
  <1>2. Init => OnceInv(Rank)
    BY OnceInit
  <1>3. TypeOK /\ ReachInv /\ (HoldInv /\ SoleInv /\ MoveInv) /\ OnceInv(Rank) /\ [Next]_vars
          => OnceInv(Rank)'
    BY <1>1, OnceStep
  <1>4. TypeOK /\ OnceInv(Rank) => OncePlusRepeats
    <2> SUFFICES ASSUME TypeOK, OnceInv(Rank), NEW r \in Runs, NEW n \in Nodes
                 PROVE  visits[r][n] <= 1 + redo[r] + overlaps[r]
      BY DEF OncePlusRepeats
    <2>1. Cardinality(Aheads(Rank, r, n)) \in Nat /\ Bit(RowAhead(Rank, r, n)) \in Nat
      BY FS_CardinalityType DEF OnceInv, Bit
    <2>2. visits[r][n] \in Nat /\ redo[r] \in Nat /\ overlaps[r] \in Nat
      BY DEF TypeOK
    <2>3. visits[r][n] + Cardinality(Aheads(Rank, r, n)) + Bit(RowAhead(Rank, r, n))
            <= 1 + redo[r] + overlaps[r]
      BY DEF OnceInv
    <2>4. QED
      BY <2>1, <2>2, <2>3
  <1>5. QED
    BY <1>2, <1>3, <1>4, SoleAlways, TypeCorrect, EverythingReached, PTL DEF Spec

(***************************************************************************)
(* CSM capacity: how far the stored active counts can be trusted when      *)
(* sessions increment them without a lock                                  *)
(***************************************************************************)
\* A step that leaves counts alone and at most drops pending increments.
LEMMA CountFrame ==
  ASSUME TypeOK, CountInv,
         UNCHANGED <<activeCount, booked, raced>>,
         \A s \in Sessions :
           bumpCsm'[s] = NoCsm \/ (bumpCsm'[s] = bumpCsm[s] /\ bumpTo'[s] = bumpTo[s])
  PROVE  CountInv'
  BY ActorAssumption DEF CountInv

LEMMA LimitFrame ==
  ASSUME TypeOK, LimitInv,
         UNCHANGED <<activeCount, maxActive, saves>>,
         \A s \in Sessions :
           bumpCsm'[s] = NoCsm \/ (bumpCsm'[s] = bumpCsm[s] /\ bumpTo'[s] = bumpTo[s])
  PROVE  LimitInv'
  BY ActorAssumption DEF LimitInv

\* Only AssignTask, Commit and SaveCsmProfile matter to counts and limits.
LEMMA CountQuiet ==
  ASSUME TypeOK, [Next]_vars,
         ~\E s \in Sessions : AssignTask(s) \/ Commit(s),
         ~\E c \in Csms, cap \in 1..MaxCap, avail \in BOOLEAN : SaveCsmProfile(c, cap, avail)
  PROVE  /\ UNCHANGED <<activeCount, booked, raced, maxActive, saves>>
         /\ \A s \in Sessions :
              bumpCsm'[s] = NoCsm \/ (bumpCsm'[s] = bumpCsm[s] /\ bumpTo'[s] = bumpTo[s])
  <1> DEFINE Quiet == /\ UNCHANGED <<activeCount, booked, raced, maxActive, saves>>
                      /\ \A s \in Sessions :
                           \/ bumpCsm'[s] = NoCsm
                           \/ bumpCsm'[s] = bumpCsm[s] /\ bumpTo'[s] = bumpTo[s]
  <1>1. ASSUME NEW s \in Sessions, Skip(s) PROVE Quiet
    BY <1>1 DEF Skip, Release, TypeOK, csmVars, boundVars, historyVars
  <1>2. ASSUME NEW s \in Sessions, FailWithoutGraph(s) \/ CompleteOffGraph(s) \/ ArmDelay(s)
        PROVE  Quiet
    BY <1>2 DEF FailWithoutGraph, CompleteOffGraph, ArmDelay, csmVars, boundVars, historyVars
  <1>3. ASSUME NEW s \in Sessions,
               PerformAction(s) \/ PerformDelay(s) \/ PerformCondition(s)
                 \/ OverflowTask(s) \/ PerformUnknown(s)
        PROVE  Quiet
    BY <1>3 DEF PerformAction, PerformDelay, PerformCondition, OverflowTask, PerformUnknown,
                Perform, csmVars, boundVars
  <1>4. ASSUME NEW s \in Sessions, Crash(s) PROVE Quiet
    BY <1>4 DEF Crash, TypeOK, csmVars
  <1>5. ASSUME NEW s \in Sessions, NEW r \in Runs, Trigger(s, r) \/ Load(s, r) PROVE Quiet
    BY <1>5 DEF Trigger, Load, Hold, csmVars, boundVars
  <1>6. ASSUME NEW s \in Sessions, StartSweep(s) PROVE Quiet
    BY <1>6 DEF StartSweep, csmVars, boundVars, historyVars
  <1>7. CASE Environment
    BY <1>7 DEF Environment, Rescore, ReassignTask, EditGraph, Tick,
                csmVars, sessionVars, boundVars, historyVars
  <1>8. CASE UNCHANGED vars
    BY <1>8 DEF vars, csmVars, sessionVars, boundVars, historyVars
  <1>9. QED
    BY <1>1, <1>2, <1>3, <1>4, <1>5, <1>6, <1>7, <1>8
       DEF Next, AdvanceRun, PerformNode, Sweep, Sessions

\* What choosing a CSM does: it had capacity, and an increment from the count
\* as read is pending.
LEMMA AssignShape ==
  ASSUME TypeOK, NEW s \in Sessions, AssignTask(s)
  PROVE  \E c \in HasCapacity :
           /\ bumpCsm' = [bumpCsm EXCEPT ![s] = c]
           /\ bumpTo' = [bumpTo EXCEPT ![s] = activeCount[c] + 1]
           /\ raced' = IF \E v \in Sessions : bumpCsm[v] = c THEN raced \cup {c} ELSE raced
           /\ UNCHANGED <<activeCount, booked, maxActive, saves>>
  <1>1. UNCHANGED <<activeCount, booked, maxActive, saves>>
    BY DEF AssignTask, Perform, csmVars, boundVars
  <1>2. LeastBusy(Candidates(copy[s].node)) \subseteq HasCapacity
    BY DEF LeastBusy, Candidates
  <1>3. QED
    BY <1>1, <1>2 DEF AssignTask

LEMMA AssignCounts ==
  ASSUME TypeOK, CountInv, NEW s \in Sessions, AssignTask(s)
  PROVE  CountInv'
  <1>1. PICK c \in HasCapacity :
           /\ bumpCsm' = [bumpCsm EXCEPT ![s] = c]
           /\ bumpTo' = [bumpTo EXCEPT ![s] = activeCount[c] + 1]
           /\ raced' = IF \E v \in Sessions : bumpCsm[v] = c THEN raced \cup {c} ELSE raced
           /\ UNCHANGED <<activeCount, booked, maxActive, saves>>
    BY AssignShape
  <1>2. /\ c \in Csms /\ bumpCsm'[s] = c /\ bumpTo'[s] = activeCount[c] + 1
        /\ \A v \in Sessions \ {s} : bumpCsm'[v] = bumpCsm[v] /\ bumpTo'[v] = bumpTo[v]
        /\ raced \subseteq raced'
    BY <1>1 DEF TypeOK, HasCapacity
  <1> SUFFICES ASSUME NEW d \in Csms PROVE CountInv!(d)'
    BY DEF CountInv
  <1>3. activeCount[d] \in Nat /\ booked[d] \in Nat
    BY DEF TypeOK
  <1>4. activeCount[d] <= booked[d] /\ \A v \in Sessions : bumpCsm[v] = d => bumpTo[v] <= booked[d] + 1
    BY DEF CountInv
  <1>5. activeCount'[d] = activeCount[d] /\ booked'[d] = booked[d]
    BY <1>1
  <1>6. \A v \in Sessions : bumpCsm'[v] = d => bumpTo'[v] <= booked'[d] + 1
    BY <1>2, <1>3, <1>4, <1>5
  <1>7. ASSUME d \notin raced'
        PROVE  /\ activeCount'[d] = booked'[d]
               /\ \A v \in Sessions : bumpCsm'[v] = d => bumpTo'[v] = activeCount'[d] + 1
               /\ \A v, w \in Sessions : bumpCsm'[v] = d /\ bumpCsm'[w] = d => v = w
    <2>1. /\ d \notin raced /\ activeCount[d] = booked[d]
          /\ \A v \in Sessions : bumpCsm[v] = d => bumpTo[v] = activeCount[d] + 1
          /\ \A v, w \in Sessions : bumpCsm[v] = d /\ bumpCsm[w] = d => v = w
      BY <1>2, <1>7 DEF CountInv
    <2>2. d = c => \A v \in Sessions : bumpCsm[v] # d
      BY <1>1, <1>7
    <2>3. QED
      BY <1>2, <1>5, <2>1, <2>2
  <1>8. QED
    BY <1>4, <1>5, <1>6, <1>7

\* A commit stores the pending increment and counts one more task.
LEMMA CommitCounts ==
  ASSUME TypeOK, CountInv, NEW s \in Sessions, Commit(s)
  PROVE  CountInv'
  <1>1. /\ UNCHANGED raced
        /\ bumpCsm' = [bumpCsm EXCEPT ![s] = NoCsm]
        /\ bumpTo' = [bumpTo EXCEPT ![s] = 0]
        /\ IF bumpCsm[s] = NoCsm
           THEN UNCHANGED <<activeCount, booked>>
           ELSE /\ activeCount' = [activeCount EXCEPT ![bumpCsm[s]] = bumpTo[s]]
                /\ booked' = [booked EXCEPT ![bumpCsm[s]] = @ + 1]
    BY DEF Commit, Release
  <1>2. /\ bumpCsm'[s] = NoCsm
        /\ \A v \in Sessions \ {s} : bumpCsm'[v] = bumpCsm[v] /\ bumpTo'[v] = bumpTo[v]
    BY <1>1 DEF TypeOK
  <1>3. CASE bumpCsm[s] = NoCsm
    <2>1. \A v \in Sessions : bumpCsm'[v] = NoCsm \/ (bumpCsm'[v] = bumpCsm[v] /\ bumpTo'[v] = bumpTo[v])
      BY <1>2
    <2>2. QED
      BY <1>1, <1>3, <2>1, CountFrame
  <1>4. CASE bumpCsm[s] # NoCsm
    <2> SUFFICES ASSUME NEW d \in Csms PROVE CountInv!(d)'
      BY DEF CountInv
    <2>1. PICK c \in Csms : c = bumpCsm[s]
      BY <1>4 DEF TypeOK
    <2>2. /\ activeCount[d] \in Nat /\ booked[d] \in Nat /\ bumpTo[s] \in Nat
          /\ \A v \in Sessions : bumpTo[v] \in Nat
          /\ activeCount'[d] = IF d = c THEN bumpTo[s] ELSE activeCount[d]
          /\ booked'[d] = IF d = c THEN booked[d] + 1 ELSE booked[d]
      BY <1>1, <1>4, <2>1 DEF TypeOK
    <2>3. /\ activeCount[d] <= booked[d]
          /\ \A v \in Sessions : bumpCsm[v] = d => bumpTo[v] <= booked[d] + 1
      BY DEF CountInv
    <2>4. activeCount'[d] <= booked'[d]
      BY <2>1, <2>2, <2>3
    <2>5. ASSUME NEW v \in Sessions, bumpCsm'[v] = d PROVE bumpTo'[v] <= booked'[d] + 1
      <3>1. v # s /\ bumpCsm[v] = d /\ bumpTo'[v] = bumpTo[v]
        BY <1>2, <2>5, ActorAssumption
      <3>2. bumpTo[v] \in Nat /\ bumpTo[v] <= booked[d] + 1
        BY <2>2, <2>3, <3>1
      <3>3. QED
        BY <2>2, <3>1, <3>2
    <2>6. ASSUME d \notin raced'
          PROVE  /\ activeCount'[d] = booked'[d]
                 /\ \A v \in Sessions : bumpCsm'[v] = d => bumpTo'[v] = activeCount'[d] + 1
                 /\ \A v, w \in Sessions : bumpCsm'[v] = d /\ bumpCsm'[w] = d => v = w
      <3>1. /\ activeCount[d] = booked[d]
            /\ \A v \in Sessions : bumpCsm[v] = d => bumpTo[v] = activeCount[d] + 1
            /\ \A v, w \in Sessions : bumpCsm[v] = d /\ bumpCsm[w] = d => v = w
        BY <1>1, <2>6 DEF CountInv
      <3>2. \A v \in Sessions : bumpCsm'[v] = d => d # c /\ bumpCsm[v] = d /\ bumpTo'[v] = bumpTo[v]
        BY <1>2, <2>1, <3>1, ActorAssumption
      <3>3. QED
        BY <2>1, <2>2, <3>1, <3>2
    <2>7. QED
      BY <2>4, <2>5, <2>6
  <1>5. QED
    BY <1>3, <1>4

LEMMA CountStep == TypeOK /\ CountInv /\ [Next]_vars => CountInv'
  <1> SUFFICES ASSUME TypeOK, CountInv, [Next]_vars PROVE CountInv'
    OBVIOUS
  <1>1. CASE \E s \in Sessions : AssignTask(s) \/ Commit(s)
    BY <1>1, AssignCounts, CommitCounts
  <1>2. CASE \E c \in Csms, cap \in 1..MaxCap, avail \in BOOLEAN : SaveCsmProfile(c, cap, avail)
    BY <1>2, CountFrame DEF SaveCsmProfile, sessionVars, historyVars
  <1>3. QED
    BY <1>1, <1>2, CountQuiet, CountFrame

LEMMA CountInit == Init => CountInv
  BY ActorAssumption DEF Init, CountInv

\* Stored counts never overstate a CSM's tasks, and understate them only after
\* two sessions incremented the same count at once.
THEOREM CountsAreTrue == Spec => []CountsTasks
  <1>1. CountInv => CountsTasks
    BY DEF CountInv, CountsTasks
  <1>2. QED
    BY <1>1, CountInit, CountStep, TypeCorrect, PTL DEF Spec

LEMMA LimitStep == TypeOK /\ LimitInv /\ [Next]_vars => LimitInv'
  <1> SUFFICES ASSUME TypeOK, LimitInv, [Next]_vars PROVE LimitInv'
    OBVIOUS
  <1>1. ASSUME NEW s \in Sessions, AssignTask(s) PROVE LimitInv'
    <2>1. PICK c \in HasCapacity :
             /\ bumpCsm' = [bumpCsm EXCEPT ![s] = c]
             /\ bumpTo' = [bumpTo EXCEPT ![s] = activeCount[c] + 1]
             /\ raced' = IF \E v \in Sessions : bumpCsm[v] = c THEN raced \cup {c} ELSE raced
             /\ UNCHANGED <<activeCount, booked, maxActive, saves>>
      BY <1>1, AssignShape
    <2>2. activeCount[c] + 1 <= maxActive[c] /\ c \in Csms
      BY DEF HasCapacity, TypeOK
    <2>3. /\ bumpCsm'[s] = c /\ bumpTo'[s] = activeCount[c] + 1
          /\ \A v \in Sessions \ {s} : bumpCsm'[v] = bumpCsm[v] /\ bumpTo'[v] = bumpTo[v]
      BY <2>1 DEF TypeOK
    <2>4. QED
      BY <2>1, <2>2, <2>3 DEF LimitInv
  <1>2. ASSUME NEW s \in Sessions, Commit(s) PROVE LimitInv'
    <2>1. /\ UNCHANGED <<maxActive, saves>>
          /\ bumpCsm' = [bumpCsm EXCEPT ![s] = NoCsm]
          /\ bumpTo' = [bumpTo EXCEPT ![s] = 0]
          /\ \A c \in Csms : activeCount'[c] = activeCount[c]
                              \/ (bumpCsm[s] = c /\ activeCount'[c] = bumpTo[s])
      BY <1>2 DEF Commit, Release, TypeOK, boundVars
    <2>2. /\ bumpCsm'[s] = NoCsm
          /\ \A v \in Sessions \ {s} : bumpCsm'[v] = bumpCsm[v] /\ bumpTo'[v] = bumpTo[v]
      BY <2>1 DEF TypeOK
    <2>3. QED
      BY <2>1, <2>2, ActorAssumption DEF LimitInv
  <1>3. CASE \E c \in Csms, cap \in 1..MaxCap, avail \in BOOLEAN : SaveCsmProfile(c, cap, avail)
    <2>1. saves' # 0
      BY <1>3 DEF SaveCsmProfile, TypeOK
    <2>2. QED
      BY <2>1 DEF LimitInv
  <1>4. QED
    BY <1>1, <1>2, <1>3, CountQuiet, LimitFrame

LEMMA LimitInit == Init => LimitInv
  BY ActorAssumption DEF Init, LimitInv

\* While no limit is changed, automatic assignment keeps a CSM within the
\* limit, for any number of runs and sessions, unless two sessions once
\* incremented that CSM's count at the same time.
THEOREM LimitsHoldUnlessRaced == Spec => []WithinLimitUnlessRaced
  <1>1. TypeOK /\ CountInv /\ LimitInv => WithinLimitUnlessRaced
    BY DEF CountInv, LimitInv, WithinLimitUnlessRaced
  <1>2. QED
    BY <1>1, CountInit, CountStep, LimitInit, LimitStep, TypeCorrect, PTL DEF Spec
=============================================================================
