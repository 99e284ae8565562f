---------------------------- MODULE EventLedger ----------------------------
(***************************************************************************)
(* What webhook ingestion promises, whatever workers, transactions and     *)
(* deaths do underneath.  Deliveries are accepted one by one.  The events  *)
(* of a delivery go on file together and each of them once: an entry that  *)
(* is there stands, under a customer's row that nobody gives to another    *)
(* customer.  Rows are made only for customers whom a delivery names, a    *)
(* cancellation has been asked about by the time it is on file, and a      *)
(* delivery is done only when all its events are on file; it may be given  *)
(* up, before they are or after.                                           *)
(***************************************************************************)
CONSTANTS Events, Who, Cancels, Payloads, Jobs, Rows,
          Nobody      \* an event without an entry, a row without an owner

VARIABLES
  delivery,   \* delivery[j]: what became of it, and its events
  ledger,     \* ledger[e]: the row under which e is on file
  owner,      \* owner[r]: the external customer whose row r is
  asked       \* cancellations about which the customer was asked

ledgerVars == <<delivery, ledger, owner, asked>>

Named(j) == {delivery[j].payload[i] : i \in DOMAIN delivery[j].payload}

Open(j) == delivery[j].state = "open"

OnFile(j) == \A e \in Named(j) : ledger[e] # Nobody

LedgerInit ==
  /\ delivery = [j \in Jobs |-> [state |-> "free", payload |-> <<>>]]
  /\ ledger = [e \in Events |-> Nobody]
  /\ owner = [r \in Rows |-> Nobody]
  /\ asked = {}

Accept(j, p) ==
  /\ delivery[j].state = "free"
  /\ delivery' = [delivery EXCEPT ![j] = [state |-> "open", payload |-> p]]
  /\ UNCHANGED <<ledger, owner, asked>>

Ask(j, e) ==
  /\ Open(j) /\ e \in Named(j) \cap Cancels
  /\ asked' = asked \cup {e}
  /\ UNCHANGED <<delivery, ledger, owner>>

\* All events of the delivery go on file at once, those that were not yet.
File(j) ==
  /\ Open(j)
  /\ ledger' \in [Events -> Rows \cup {Nobody}]
  /\ \A e \in Events : ledger[e] # Nobody => ledger'[e] = ledger[e]
  /\ \A e \in Events : ledger'[e] # ledger[e] => e \in Named(j) /\ owner'[ledger'[e]] = Who[e]
  /\ \A e \in Cancels : ledger'[e] # Nobody => e \in asked
  /\ OnFile(j)'
  /\ owner' \in [Rows -> {Who[e] : e \in Events} \cup {Nobody}]
  /\ \A r \in Rows : owner[r] # Nobody => owner'[r] = owner[r]
  /\ \A r \in Rows : owner'[r] # owner[r] => \E e \in Named(j) : owner'[r] = Who[e]
  /\ UNCHANGED <<delivery, asked>>

Settle(j) ==
  /\ Open(j) /\ OnFile(j)
  /\ delivery' = [delivery EXCEPT ![j].state = "done"]
  /\ UNCHANGED <<ledger, owner, asked>>

GiveUp(j) ==
  /\ Open(j)
  /\ delivery' = [delivery EXCEPT ![j].state = "failed"]
  /\ UNCHANGED <<ledger, owner, asked>>

LedgerNext ==
  \E j \in Jobs :
    \/ \E p \in Payloads : Accept(j, p)
    \/ \E e \in Events : Ask(j, e)
    \/ File(j) \/ Settle(j) \/ GiveUp(j)

LedgerSpec == LedgerInit /\ [][LedgerNext]_ledgerVars
=============================================================================
