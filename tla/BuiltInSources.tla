--------------------------- MODULE BuiltInSources ---------------------------
(***************************************************************************)
(* One of the built-in data sources (routers/integrations.py:13-167).  Its *)
(* entry is kept in the memory of each process that serves the API, one    *)
(* for all tenants: a process that is started anew shows the entry it was  *)
(* shipped with.  Configuring changes the entry first and commits an audit *)
(* row afterwards.                                                         *)
(***************************************************************************)
EXTENDS Integers, FiniteSets

CONSTANTS
  Processes,   \* processes that serve the API
  Configures,  \* requests that configure the source
  MaxSyncs,        \* bound: synchronisations by hand that an entry shows
  MaxSourceFaults  \* bound: restarts, and commits that fail

ASSUME SourceAssumption == MaxSyncs \in Nat /\ MaxSourceFaults \in Nat

VARIABLES
  shipped,    \* whether the source is connected from the start
  entry,      \* per process: the entry of the source
  configure,  \* the configuring requests
  audits,     \* requests with a committed audit row
  sourceFaults

sourceVars == <<shipped, entry, configure, audits, sourceFaults>>

(* `key' is {} or the request whose key is shown.                          *)
Shipped == [connected |-> shipped, key |-> {}, syncs |-> 0]

SourceTypeOK ==
  /\ \A w \in Processes : entry[w].key \subseteq Configures /\ Cardinality(entry[w].key) <= 1
                         /\ entry[w].syncs \in 0 .. MaxSyncs
  /\ \A q \in Configures : configure[q].pc \in {"new", "audit", "done", "failed"}
  /\ audits \subseteq Configures

SourceInit ==
  /\ shipped \in BOOLEAN
  /\ entry = [w \in Processes |-> Shipped]
  /\ configure = [q \in Configures |-> [pc |-> "new"]]
  /\ audits = {} /\ sourceFaults = 0

(* A request that carries no key leaves the one that is shown.             *)
Configured(w, key) ==
  [entry[w] EXCEPT !.connected = TRUE, !.key = IF key = {} THEN @ ELSE key]

ConfigureSource(q, w) ==
  /\ configure[q].pc = "new"
  /\ \E key \in {{}, {q}} : entry' = [entry EXCEPT ![w] = Configured(w, key)]
  /\ configure' = [configure EXCEPT ![q] = [pc |-> "audit", at |-> w]]
  /\ UNCHANGED <<shipped, audits, sourceFaults>>

(* Fault: the audit row is added and never committed.                      *)
AuditedInMemory(q) == audits

Audited(q) == audits \union {q}

AuditSource(q) ==
  /\ configure[q].pc = "audit"
  /\ audits' = Audited(q)
  /\ configure' = [configure EXCEPT ![q].pc = "done"]
  /\ UNCHANGED <<shipped, entry, sourceFaults>>

AuditFails(q) ==
  /\ configure[q].pc = "audit" /\ sourceFaults < MaxSourceFaults
  /\ sourceFaults' = sourceFaults + 1
  /\ configure' = [configure EXCEPT ![q].pc = "failed"]
  /\ UNCHANGED <<shipped, entry, audits>>

(* Fault: the key stays in the entry.                                      *)
DisconnectedWithKey(w) == [entry[w] EXCEPT !.connected = FALSE]

Disconnected(w) == [entry[w] EXCEPT !.connected = FALSE, !.key = {}]

DisconnectSource(w) ==
  /\ entry' = [entry EXCEPT ![w] = Disconnected(w)]
  /\ UNCHANGED <<shipped, configure, audits, sourceFaults>>

(* By hand: the number of events shown grows, connected or not.            *)
ManualSync(w) ==
  /\ entry[w].syncs < MaxSyncs
  /\ entry' = [entry EXCEPT ![w].syncs = @ + 1]
  /\ UNCHANGED <<shipped, configure, audits, sourceFaults>>

Restart(w) ==
  /\ sourceFaults < MaxSourceFaults /\ sourceFaults' = sourceFaults + 1
  /\ entry' = [entry EXCEPT ![w] = Shipped]
  /\ configure' = [q \in Configures |->
       IF configure[q].pc = "audit" /\ configure[q].at = w
       THEN [configure[q] EXCEPT !.pc = "failed"] ELSE configure[q]]
  /\ UNCHANGED <<shipped, audits>>

SourceNext ==
  \/ \E q \in Configures : (\E w \in Processes : ConfigureSource(q, w)) \/ AuditSource(q) \/ AuditFails(q)
  \/ \E w \in Processes : DisconnectSource(w) \/ ManualSync(w) \/ Restart(w)

---------------------------------------------------------------------------
(* A key that any process shows was audited, or its request is on its way, *)
(* or its commit failed: that change stays without a trace                 *)
(* (integrations.py:103-116).                                              *)
KeysAudited ==
  \A w \in Processes : \A q \in entry[w].key : q \in audits \/ configure[q].pc \in {"audit", "failed"}

(* A source that was configured and is shown as disconnected shows no key, *)
(* in whatever order requests and restarts came (integrations.py:164-165). *)
DisconnectedKeepsNoKey ==
  \A w \in Processes : ~ entry[w].connected => entry[w].key = {}

(* A built-in source as a whole: whose key is shown, and whether it may be *)
(* (integrations.py:79-167).                                               *)
SourcesSound ==
  SourceTypeOK /\ KeysAudited /\ DisconnectedKeepsNoKey
=============================================================================
