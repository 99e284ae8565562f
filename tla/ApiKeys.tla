------------------------------- MODULE ApiKeys -------------------------------
(***************************************************************************)
(* A tenant's API keys (core/api_keys.py) and the public requests that     *)
(* carry them (routers/public_api.py).  A request verifies its key - loads *)
(* the row, stamps last_used_at, commits - and then passes the window that *)
(* its own process keeps for the key.  Keys are issued and revoked         *)
(* meanwhile.  A key is known here by its name, which the tenant's rows,   *)
(* the revoked ones included, have only once.                              *)
(***************************************************************************)
EXTENDS Integers, FiniteSets

CONSTANTS
  KeyNames,    \* names of keys
  Issues,      \* requests that issue a key
  Uses,        \* public requests
  Revokes,     \* requests that revoke a key
  Servers,     \* API processes
  KeyLimit,    \* RATE_LIMIT_MAX_REQUESTS
  KeyWindow,   \* RATE_LIMIT_WINDOW_SEC, in ticks
  LastMoment   \* bound: time

ASSUME ApiKeyAssumption ==
  /\ KeyLimit \in Nat \ {0} /\ KeyWindow \in Nat \ {0} /\ LastMoment \in Nat
  /\ Issues \intersect Uses = {} /\ Revokes \intersect (Issues \union Uses) = {}

VARIABLES
  moment,    \* time
  keys,      \* the api_keys rows
  call,      \* all requests
  window,    \* process, key -> when it let requests pass, as it remembers
  (* history, guards nothing *)
  served,    \* public requests that were served: by whom, with what key, when
  loaded,    \* public request -> the row as it was loaded
  holding    \* key -> public requests that had loaded it when it was first revoked

keyVars == <<moment, keys, call, window, served, loaded, holding>>

Unset == -1
Unending == LastMoment + 1
KeyCalls == Issues \union Uses \union Revokes
KeyRow == [name : KeyNames, active : BOOLEAN, expires : 0 .. Unending, used : Unset .. LastMoment]

ApiKeyTypeOK ==
  /\ moment \in 0 .. LastMoment /\ keys \subseteq KeyRow
  /\ \A c \in KeyCalls : call[c].pc \in {"new", "stamp", "limit", "revoke", "done", "refused"}
  /\ \A s \in Servers, n \in KeyNames : window[s][n] \subseteq Uses \X (0 .. LastMoment)

ApiKeyInit ==
  /\ moment = 0 /\ keys = {} /\ served = {}
  /\ call = [c \in KeyCalls |-> [pc |-> "new"]]
  /\ window = [s \in Servers |-> [n \in KeyNames |-> {}]]
  /\ loaded = [u \in Uses |-> {}] /\ holding = [n \in KeyNames |-> {}]

Step(c, pc) == call' = [call EXCEPT ![c] = [@ EXCEPT !.pc = pc]]
Loads(c, pc, n) == call' = [call EXCEPT ![c] = [pc |-> pc, name |-> n]]

(* A name that is taken, by a revoked key too, fails the insert.           *)
IssueKey(c) ==
  /\ c \in Issues /\ call[c].pc = "new"
  /\ \E n \in KeyNames, e \in {moment, Unending} :
       IF \E k \in keys : k.name = n
       THEN Step(c, "refused") /\ UNCHANGED keys
       ELSE /\ keys' = keys \union {[name |-> n, active |-> TRUE, expires |-> e, used |-> Unset]}
            /\ Step(c, "done")
  /\ UNCHANGED <<moment, window, served, loaded, holding>>

---------------------------------------------------------------------------
(* Revoking *)

LoadToRevoke(c) ==
  /\ c \in Revokes /\ call[c].pc = "new"
  /\ \E k \in keys : Loads(c, "revoke", k.name)
  /\ UNCHANGED <<moment, keys, window, served, loaded, holding>>

Withdrawn(n) == \E c \in Revokes : call[c].pc = "done" /\ call[c].name = n
LoadedBy(n) == {u \in Uses : \E k \in loaded[u] : k.name = n}

RevokeKey(c) ==
  /\ c \in Revokes /\ call[c].pc = "revoke"
  /\ keys' = {IF k.name = call[c].name THEN [k EXCEPT !.active = FALSE] ELSE k : k \in keys}
  /\ holding' = [holding EXCEPT ![call[c].name] = IF Withdrawn(call[c].name) THEN @
                                                  ELSE LoadedBy(call[c].name)]
  /\ Step(c, "done")
  /\ UNCHANGED <<moment, window, served, loaded>>

---------------------------------------------------------------------------
(* Using *)

(* Fault: revoked keys are found too.                                      *)
ValidIfUnexpired(k) == moment <= k.expires

(* Fault: the expiry is not looked at.                                     *)
ValidIfActive(k) == k.active

Valid(k) == k.active /\ moment <= k.expires

LoadKey(c) ==
  /\ c \in Uses /\ call[c].pc = "new"
  /\ \E k \in keys :
       \/ Valid(k) /\ Loads(c, "stamp", k.name) /\ loaded' = [loaded EXCEPT ![c] = {k}]
       \/ ~ Valid(k) /\ Loads(c, "refused", k.name) /\ UNCHANGED loaded
  /\ UNCHANGED <<moment, keys, window, served, holding>>

(* Fault: the row is written as it was loaded, and not the one column.     *)
UsedWhole(k, was) == [was EXCEPT !.used = moment]

(* The row after the flush of last_used_at.                                *)
Used(k, was) == [k EXCEPT !.used = moment]

StampUse(c) ==
  /\ c \in Uses /\ call[c].pc = "stamp"
  /\ keys' = {IF k.name = call[c].name THEN Used(k, was) ELSE k : k \in keys, was \in loaded[c]}
  /\ Step(c, "limit")
  /\ UNCHANGED <<moment, window, served, loaded, holding>>

(* Fault: the request that reaches the limit passes.                       *)
FullByOneMore(hits) == Cardinality(hits) > KeyLimit

Full(hits) == Cardinality(hits) >= KeyLimit

(* A process drops the hits that have left the window, and adds this one   *)
(* if there is room.                                                       *)
CheckKeyRate(c) ==
  /\ c \in Uses /\ call[c].pc = "limit"
  /\ \E s \in Servers :
       LET n == call[c].name
           hits == {h \in window[s][n] : h[2] > moment - KeyWindow}
       IN IF Full(hits)
          THEN /\ window' = [window EXCEPT ![s][n] = hits]
               /\ Step(c, "refused") /\ UNCHANGED served
          ELSE /\ window' = [window EXCEPT ![s][n] = hits \union {<<c, moment>>}]
               /\ served' = served \union {[use |-> c, by |-> s, key |-> n, at |-> moment]}
               /\ Step(c, "done")
  /\ UNCHANGED <<moment, keys, loaded, holding>>

(* External: time.  Between the check of a key's expiry and its stamp      *)
(* nothing is awaited, and no tick ends.                                   *)
MomentPasses ==
  /\ moment < LastMoment /\ moment' = moment + 1
  /\ \A c \in KeyCalls : call[c].pc # "stamp"
  /\ UNCHANGED <<keys, call, window, served, loaded, holding>>

KeyNext ==
  \/ \E c \in KeyCalls : IssueKey(c) \/ LoadToRevoke(c) \/ RevokeKey(c) \/ LoadKey(c)
                         \/ StampUse(c) \/ CheckKeyRate(c)
  \/ MomentPasses

---------------------------------------------------------------------------
(* A revoked key stays revoked, although requests that loaded it before go *)
(* on to write its row: they write one other column (api_keys.py:136-137   *)
(* and 172-173).                                                           *)
RevokedStays == \A k \in keys : Withdrawn(k.name) => ~ k.active

(* Once a revocation has committed, no request gets past its key but those *)
(* that had loaded the row by then (api_keys.py:157-161).                  *)
RevokedServesNobodyNew ==
  \A n \in KeyNames : Withdrawn(n) => LoadedBy(n) \subseteq holding[n]

(* No key is marked as used after its expiry (api_keys.py:168-173).        *)
UsedWithinLife == \A k \in keys : k.used <= k.expires

(* Within any window a process serves a key no more often than the limit,  *)
(* and so all of them together no more often than that each                *)
(* (public_api.py:31-42).                                                  *)
WindowBounded ==
  \A s \in Servers, n \in KeyNames, t \in 0 .. LastMoment :
    Cardinality({r \in served : r.by = s /\ r.key = n /\ r.at \in t .. (t + KeyWindow - 1)}) <= KeyLimit

(* Keys as a whole: neither revocation, expiry nor the window is passed by *)
(* (api_keys.py:116-175, public_api.py:26-59).                             *)
KeysSound ==
  ApiKeyTypeOK /\ RevokedStays /\ RevokedServesNobodyNew /\ UsedWithinLife /\ WindowBounded
=============================================================================
