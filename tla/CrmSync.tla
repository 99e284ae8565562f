------------------------------ MODULE CrmSync -------------------------------
(***************************************************************************)
(* Pushing risk and health fields to one external CRM (core/crm/engine.py).*)
(* A sync request goes through its customers - all of the tenant, or one - *)
(* with the objects it loaded at the start: it flushes a pending log row,  *)
(* pushes the fields, and commits the row with its outcome.  Requests run  *)
(* side by side, scores change underneath, and a process may die.          *)
(*                                                                         *)
(* A customer's fields are represented by the number of its last score.    *)
(***************************************************************************)
EXTENDS Integers, Sequences, FiniteSets

CONSTANTS
  Accounts,      \* the tenant's customers
  Linked,        \* those with an id in this CRM
  Syncs,         \* sync requests
  MaxScores,     \* bound: how often a customer is scored anew
  MaxSyncFaults  \* bound: pushes that fail, and deaths of a process

ASSUME CrmAssumption ==
  /\ IsFiniteSet(Accounts) /\ Linked \subseteq Accounts
  /\ MaxScores \in Nat /\ MaxSyncFaults \in Nat

VARIABLES
  scored,     \* customer -> number of its present score
  crm,        \* customer -> number of the score that the CRM shows
  syncLogs,   \* committed crm_sync_logs rows, as a set; `by' tells them apart
  sync,       \* the requests
  (* history, guards nothing but the bounds *)
  pushed,     \* customer -> the scores that were pushed, by whom
  unlogged,   \* pushes whose process died before the log was committed
  met,        \* customers in the hands of two requests at once
  syncFaults

crmVars == <<scored, crm, syncLogs, sync, pushed, unlogged, met, syncFaults>>

Never == 0
Current(r) == Head(sync[r].left)
Holds(r, c) == c \in {sync[r].left[i] : i \in DOMAIN sync[r].left}
Counts == [success : Nat, failed : Nat, skipped : Nat]
NoneYet == [success |-> 0, failed |-> 0, skipped |-> 0]

CrmTypeOK ==
  /\ scored \in [Accounts -> 1 .. (MaxScores + 1)]
  /\ crm \in [Accounts -> Never .. (MaxScores + 1)]
  /\ \A row \in syncLogs : row.who \in Accounts /\ row.by \in Syncs
                           /\ row.status \in {"pending", "success", "failed"}
  /\ \A r \in Syncs : sync[r].pc \in {"new", "flush", "push", "commit", "done", "dead"}
                      /\ sync[r].results \in Counts

CrmInit ==
  /\ scored = [c \in Accounts |-> 1] /\ crm = [c \in Accounts |-> Never]
  /\ syncLogs = {}
  /\ sync = [r \in Syncs |-> [pc |-> "new", left |-> <<>>, loaded |-> scored, status |-> "pending",
                              error |-> "none", total |-> 0, results |-> NoneYet]]
  /\ pushed = {} /\ unlogged = {} /\ met = {} /\ syncFaults = 0

(* The customers of a request come in the order the query returns them.    *)
Orders(C) == {s \in [1 .. Cardinality(C) -> C] : \A i, j \in DOMAIN s : s[i] = s[j] => i = j}

(* Fault: the list of all customers is kept and not queried again.         *)
LoadedOnce(r, C) == IF C = Accounts THEN sync[r].loaded ELSE scored

(* The scores on the objects that the request's query for C returns.       *)
Loaded(r, C) == scored

(* A full sync takes all customers, the other endpoint the one it names.   *)
(* The objects are not refreshed before they are pushed.                   *)
StartSync(r) ==
  /\ sync[r].pc = "new"
  /\ \E C \in {Accounts} \union {{c} : c \in Accounts} : \E order \in Orders(C) :
       /\ sync' = [sync EXCEPT ![r].pc = IF C = {} THEN "done" ELSE "flush", ![r].left = order,
                               ![r].total = Len(order), ![r].loaded = Loaded(r, C)]
       /\ met' = met \union {c \in C : \E q \in Syncs \ {r} : Holds(q, c)}
  /\ UNCHANGED <<scored, crm, syncLogs, pushed, unlogged, syncFaults>>

LogRow(r, status, score) == [who |-> Current(r), by |-> r, status |-> status, score |-> score]

(* Fault: the pending row is committed, and not only flushed.              *)
CommittedByFlush(r) == {LogRow(r, "pending", Never)}

(* A flush sends the pending row and leaves the transaction open.          *)
Flush(r) == {}

(* A customer without an id in the CRM has failed already.                 *)
FlushLog(r) ==
  /\ sync[r].pc = "flush"
  /\ syncLogs' = syncLogs \union Flush(r)
  /\ sync' = IF Current(r) \in Linked
             THEN [sync EXCEPT ![r].pc = "push"]
             ELSE [sync EXCEPT ![r].pc = "commit", ![r].status = "failed", ![r].error = "No id"]
  /\ UNCHANGED <<scored, crm, pushed, unlogged, met, syncFaults>>

Fields(r) == sync[r].loaded[Current(r)]

Push(r) ==
  /\ sync[r].pc = "push"
  /\ crm' = [crm EXCEPT ![Current(r)] = Fields(r)]
  /\ pushed' = pushed \union {[who |-> Current(r), by |-> r, score |-> Fields(r)]}
  /\ sync' = [sync EXCEPT ![r].pc = "commit", ![r].status = "success", ![r].error = "none"]
  /\ UNCHANGED <<scored, syncLogs, unlogged, met, syncFaults>>

(* The CRM refuses; what it answers may contain the word `No' as well.     *)
PushFails(r) ==
  /\ sync[r].pc = "push" /\ syncFaults < MaxSyncFaults
  /\ syncFaults' = syncFaults + 1
  /\ \E error \in {"No such object", "refused"} :
       sync' = [sync EXCEPT ![r].pc = "commit", ![r].status = "failed", ![r].error = error]
  /\ UNCHANGED <<scored, crm, syncLogs, pushed, unlogged, met>>

(* Fault: the log takes the customer's fields when it is written.          *)
LogsPresentFields(r) == IF sync[r].status = "success" THEN scored[Current(r)] ELSE Never

(* fields_pushed of the row: what the push was given.                      *)
Logged(r) == IF sync[r].status = "success" THEN Fields(r) ELSE Never

(* Fault: failures whose message has a `No' in it are not counted.         *)
TallyWithoutSkipped(r) ==
  LET s == sync[r] IN
  IF s.status = "success" THEN [s.results EXCEPT !.success = @ + 1]
  ELSE IF s.error = "refused" THEN [s.results EXCEPT !.failed = @ + 1] ELSE s.results

(* The batch's counts: a failure whose message has a `No' in it counts as  *)
(* skipped.                                                                *)
Tally(r) ==
  LET s == sync[r] IN
  IF s.status = "success" THEN [s.results EXCEPT !.success = @ + 1]
  ELSE IF s.error = "refused" THEN [s.results EXCEPT !.failed = @ + 1]
  ELSE [s.results EXCEPT !.skipped = @ + 1]

CommitLog(r) ==
  /\ sync[r].pc = "commit"
  /\ syncLogs' = syncLogs \union {LogRow(r, sync[r].status, Logged(r))}
  /\ sync' = [sync EXCEPT ![r].results = Tally(r), ![r].left = Tail(@),
                          ![r].pc = IF Len(sync[r].left) = 1 THEN "done" ELSE "flush"]
  /\ UNCHANGED <<scored, crm, pushed, unlogged, met, syncFaults>>

(* The process dies, or the database does not take the commit: what is not *)
(* committed is gone, what was pushed is not.                              *)
KillSync(r) ==
  /\ sync[r].pc \in {"flush", "push", "commit"} /\ syncFaults < MaxSyncFaults
  /\ syncFaults' = syncFaults + 1
  /\ unlogged' = unlogged \union
       {p \in pushed : p.by = r /\ p.who = Current(r) /\ sync[r].pc = "commit"}
  /\ sync' = [sync EXCEPT ![r].pc = "dead", ![r].left = <<>>]
  /\ UNCHANGED <<scored, crm, syncLogs, pushed, met>>

(* External: a customer is scored anew; only those that are pushed matter. *)
ScoreAnew(c) ==
  /\ c \in Linked /\ scored[c] <= MaxScores
  /\ scored' = [scored EXCEPT ![c] = @ + 1]
  /\ UNCHANGED <<crm, syncLogs, sync, pushed, unlogged, met, syncFaults>>

CrmNext ==
  \/ \E r \in Syncs : StartSync(r) \/ FlushLog(r) \/ Push(r) \/ PushFails(r) \/ CommitLog(r)
                      \/ KillSync(r)
  \/ \E c \in Accounts : ScoreAnew(c)

---------------------------------------------------------------------------
(* Every push of fields to the CRM has a committed log row that says       *)
(* exactly what was pushed, unless its process died between the two        *)
(* (engine.py:63-71).                                                      *)
PushesLogged ==
  \A p \in pushed : \/ [who |-> p.who, by |-> p.by, status |-> "success", score |-> p.score] \in syncLogs
                    \/ p \in unlogged
                    \/ sync[p.by].pc = "commit" /\ Current(p.by) = p.who

(* The CRM shows the newest score that was ever pushed to it, unless two   *)
(* requests had the customer in hand at once: the one that loaded earlier  *)
(* may push later (engine.py:88-94).                                       *)
CrmShowsNewest ==
  \A p \in pushed : crm[p.who] >= p.score \/ p.who \in met

(* A log row that others can read has an outcome: `pending' is undone with *)
(* the transaction when the process dies (engine.py:48-53).                *)
NoLogStaysPending == \A row \in syncLogs : row.status # "pending"

(* The counts that a finished request reports are those of its log rows,   *)
(* and every customer without an id is among the skipped                   *)
(* (engine.py:91-101).                                                     *)
ResultsMatchLogs ==
  \A r \in Syncs : sync[r].pc = "done" =>
    LET mine(status) == {row \in syncLogs : row.by = r /\ row.status = status}
        results == sync[r].results
    IN /\ results.success = Cardinality(mine("success"))
       /\ results.failed + results.skipped = Cardinality(mine("failed"))
       /\ results.success + results.failed + results.skipped = sync[r].total
       /\ results.skipped >= Cardinality({row \in mine("failed") : row.who \notin Linked})

(* A sync as a whole: CRM, log and answer agree (engine.py:41-108).        *)
SyncsSound ==
  CrmTypeOK /\ PushesLogged /\ CrmShowsNewest /\ NoLogStaysPending /\ ResultsMatchLogs
=============================================================================
