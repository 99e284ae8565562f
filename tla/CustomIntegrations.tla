------------------------- MODULE CustomIntegrations -------------------------
(***************************************************************************)
(* The custom integrations of one tenant (routers/integrations.py:175-262, *)
(* outreach/adapters.py:49-104): created with their credential in two      *)
(* commits, tested by hand, used by the adapter that sends messages        *)
(* through them.  The adapter counts failures in a row and pauses an       *)
(* integration that has reached the limit.  A send loads the row, makes    *)
(* its request and commits; nothing locks the row in between.              *)
(***************************************************************************)
EXTENDS Integers, FiniteSets

CONSTANTS
  IntegrationNames,     \* names, which channels of messages go by
  Creates,              \* requests that create an integration
  Sends,                \* messages on their way through the adapter
  Trials,               \* requests that test an integration
  FailureCap,           \* failures in a row that pause an integration: 5
  MaxIntegrationFaults  \* bound: deaths and failed commits

ASSUME IntegrationAssumption == FailureCap \in Nat \ {0} /\ MaxIntegrationFaults \in Nat

VARIABLES
  integrations,  \* committed custom_integrations rows
  secrets,       \* committed tenant_secrets rows, by the request that stored them
  create, send, trial,  \* the requests
  (* history, guards nothing but the bounds *)
  tally,         \* per row: sends that failed since a success, the most there were, and all
  retired,       \* rows that were paused at some time
  crowded,       \* rows that two requests were using at once
  integrationFaults

integrationVars == <<integrations, secrets, create, send, trial, tally, retired, crowded,
                     integrationFaults>>

Draft == [pc |-> "new", credential |-> FALSE]

(* Rows are told apart by the request that inserted them.                  *)
Integration(r, n, outbound, credential) ==
  [by |-> r, name |-> n, outbound |-> outbound, credential |-> credential,
   status |-> "active", failures |-> 0, result |-> "none"]

IntegrationTypeOK ==
  /\ \A i \in integrations : /\ i.by \in Creates /\ i.name \in IntegrationNames
                             /\ i.status \in {"active", "paused"} /\ i.failures \in Nat
                             /\ i.result \in {"none", "success", "error"}
  /\ secrets \subseteq Creates
  /\ \A r \in Creates : create[r].pc \in {"new", "insert", "done", "dead"}
  /\ \A s \in Sends : send[s].pc \in {"new", "request", "done", "dead"}
  /\ \A t \in Trials : trial[t].pc \in {"new", "commit", "done"}

IntegrationInit ==
  /\ integrations = {} /\ secrets = {}
  /\ create = [r \in Creates |-> Draft]
  /\ send = [s \in Sends |-> [pc |-> "new"]] /\ trial = [t \in Trials |-> [pc |-> "new"]]
  /\ tally = [r \in Creates |-> [streak |-> 0, most |-> 0, all |-> 0]]
  /\ retired = {} /\ crowded = {} /\ integrationFaults = 0

(* Who holds a copy of the row, loaded and not yet written back.           *)
UsersOf(by) == {s \in Sends : send[s].pc = "request" /\ send[s].row.by = by}
               \union {t \in Trials : trial[t].pc = "commit" /\ trial[t].row.by = by}

Crowding(by) == crowded' = crowded \union (IF UsersOf(by) = {} THEN {} ELSE {by})

---------------------------------------------------------------------------
(* Creating: the secret is committed, then the row that refers to it. *)

StartCreate(r) ==
  /\ create[r].pc = "new"
  /\ \E credential \in BOOLEAN :
       /\ secrets' = secrets \union (IF credential THEN {r} ELSE {})
       /\ create' = [create EXCEPT ![r] = [pc |-> "insert", credential |-> credential]]
  /\ UNCHANGED <<integrations, send, trial, tally, retired, crowded, integrationFaults>>

(* Fault: the row is stored without its reference to the secret.           *)
InsertedBare(r, n, outbound) == integrations \union {Integration(r, n, outbound, FALSE)}

Inserted(r, n, outbound) ==
  integrations \union {Integration(r, n, outbound, create[r].credential)}

InsertIntegration(r) ==
  /\ create[r].pc = "insert"
  /\ \E n \in IntegrationNames, outbound \in BOOLEAN : integrations' = Inserted(r, n, outbound)
  /\ create' = [create EXCEPT ![r].pc = "done"]
  /\ UNCHANGED <<secrets, send, trial, tally, retired, crowded, integrationFaults>>

KillCreate(r) ==
  /\ create[r].pc = "insert" /\ integrationFaults < MaxIntegrationFaults
  /\ integrationFaults' = integrationFaults + 1
  /\ create' = [create EXCEPT ![r].pc = "dead"]
  /\ UNCHANGED <<integrations, secrets, send, trial, tally, retired, crowded>>

---------------------------------------------------------------------------
(* A flush writes the columns that differ from the row as loaded.          *)
(* Fault: it writes every column.                                          *)
WrittenWhole(row, was, is) ==
  [row EXCEPT !.failures = is.failures, !.status = is.status, !.result = is.result]

Written(row, was, is) ==
  [row EXCEPT !.failures = IF is.failures = was.failures THEN @ ELSE is.failures,
              !.status = IF is.status = was.status THEN @ ELSE is.status,
              !.result = IF is.result = was.result THEN @ ELSE is.result]

WriteBack(was, is) ==
  /\ integrations' = {IF i.by = was.by THEN Written(i, was, is) ELSE i : i \in integrations}
  /\ retired' = retired \union {i.by : i \in {i \in integrations' : i.status = "paused"}}

(* Fault: the count goes on where the last success left it.                *)
SucceededCounting(row) == [row EXCEPT !.result = "success"]

Succeeded(row) == [row EXCEPT !.failures = 0, !.result = "success"]

(* Fault: an integration is paused one failure late.                       *)
FailedLate(row) ==
  [row EXCEPT !.failures = @ + 1, !.result = "error",
              !.status = IF row.failures + 1 > FailureCap THEN "paused" ELSE @]

Failed(row) ==
  [row EXCEPT !.failures = @ + 1, !.result = "error",
              !.status = IF row.failures + 1 >= FailureCap THEN "paused" ELSE @]

(* The row that the adapter finds under a name: any of the outbound ones.  *)
Found(n) == {i \in integrations : i.name = n /\ i.outbound}

(* Fault: the status is not looked at.                                     *)
NeverShut(row) == FALSE

Shut(row) == row.status = "paused"

LoadForSend(s) ==
  /\ send[s].pc = "new"
  /\ \E n \in IntegrationNames :
       \/ /\ Found(n) = {}
          /\ send' = [send EXCEPT ![s] = [pc |-> "done"]] /\ UNCHANGED crowded
       \/ \E row \in Found(n) :
            IF Shut(row) THEN send' = [send EXCEPT ![s] = [pc |-> "done"]] /\ UNCHANGED crowded
            ELSE send' = [send EXCEPT ![s] = [pc |-> "request", row |-> row]] /\ Crowding(row.by)
  /\ UNCHANGED <<integrations, secrets, create, trial, tally, retired, integrationFaults>>

RequestSucceeds(s) ==
  /\ send[s].pc = "request"
  /\ WriteBack(send[s].row, Succeeded(send[s].row))
  /\ tally' = [tally EXCEPT ![send[s].row.by].streak = 0]
  /\ send' = [send EXCEPT ![s] = [pc |-> "done"]]
  /\ UNCHANGED <<secrets, create, trial, crowded, integrationFaults>>

(* The shipped adapter's request is a stand-in that succeeds; its test     *)
(* makes it fail.                                                          *)
RequestFails(s) ==
  /\ send[s].pc = "request"
  /\ WriteBack(send[s].row, Failed(send[s].row))
  /\ LET by == send[s].row.by
         streak == tally[by].streak + 1
     IN tally' = [tally EXCEPT ![by] =
          [streak |-> streak, most |-> IF streak > @.most THEN streak ELSE @.most, all |-> @.all + 1]]
  /\ send' = [send EXCEPT ![s] = [pc |-> "done"]]
  /\ UNCHANGED <<secrets, create, trial, crowded, integrationFaults>>

(* A commit that fails lands in the same handler, which touches the row    *)
(* and commits again; the session refuses both, and nothing is counted.    *)
CommitFails(s) ==
  /\ send[s].pc = "request" /\ integrationFaults < MaxIntegrationFaults
  /\ integrationFaults' = integrationFaults + 1
  /\ send' = [send EXCEPT ![s] = [pc |-> "dead"]]
  /\ UNCHANGED <<integrations, secrets, create, trial, tally, retired, crowded>>

---------------------------------------------------------------------------
(* Testing by hand: whatever the row's status, it succeeds. *)

LoadForTrial(t) ==
  /\ trial[t].pc = "new"
  /\ \E row \in integrations :
       trial' = [trial EXCEPT ![t] = [pc |-> "commit", row |-> row]] /\ Crowding(row.by)
  /\ UNCHANGED <<integrations, secrets, create, send, tally, retired, integrationFaults>>

CommitTrial(t) ==
  /\ trial[t].pc = "commit"
  /\ WriteBack(trial[t].row, Succeeded(trial[t].row))
  /\ tally' = [tally EXCEPT ![trial[t].row.by].streak = 0]
  /\ trial' = [trial EXCEPT ![t] = [pc |-> "done"]]
  /\ UNCHANGED <<secrets, create, send, crowded, integrationFaults>>

IntegrationNext ==
  \/ \E r \in Creates : StartCreate(r) \/ InsertIntegration(r) \/ KillCreate(r)
  \/ \E s \in Sends : LoadForSend(s) \/ RequestSucceeds(s) \/ RequestFails(s) \/ CommitFails(s)
  \/ \E t \in Trials : LoadForTrial(t) \/ CommitTrial(t)

---------------------------------------------------------------------------
(* An integration is paused exactly when its requests have failed as often *)
(* in a row as the limit says, and is not tried again after that; when two *)
(* were using it at once it is paused late, not early (adapters.py:98-101).*)
PausedByStreak ==
  \A i \in integrations :
    /\ i.status = "paused" => tally[i.by].all >= FailureCap
    /\ \/ i.by \in crowded
       \/ /\ i.status = "paused" <=> tally[i.by].most = FailureCap
          /\ tally[i.by].most <= FailureCap

(* The count is that of the failures in a row, whatever was lost and       *)
(* tested in between, unless two were using the row (adapters.py:92, 98).  *)
CountIsStreak ==
  \A i \in integrations : i.by \in crowded \/ i.failures = tally[i.by].streak

(* No stale copy and no test makes a paused integration active again: the  *)
(* API has no way back (integrations.py:257-259, adapters.py:70).          *)
PausedForGood ==
  \A i \in integrations : i.by \in retired => i.status = "paused"

(* A reference leads to a stored secret, and a secret that no integration  *)
(* refers to was left by a death between the commits                       *)
(* (integrations.py:190-211).                                              *)
SecretsReferred ==
  /\ \A i \in integrations : i.credential => i.by \in secrets
  /\ \A r \in secrets : create[r].pc \in {"insert", "dead"}
                        \/ \E i \in integrations : i.by = r /\ i.credential

(* The circuit breaker and its rows as a whole (adapters.py, integrations. *)
(* py): it opens on a streak, stays open, and keeps its credentials.       *)
CustomSound ==
  IntegrationTypeOK /\ PausedByStreak /\ CountIsStreak /\ PausedForGood /\ SecretsReferred
=============================================================================
