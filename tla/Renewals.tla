------------------------------ MODULE Renewals ------------------------------
(***************************************************************************)
(* Contracts and the list of renewals at risk (core/analytics/renewals.py).*)
(* A contract is looked up by its customer and then inserted or changed;   *)
(* no constraint keeps a customer from having two.  The list reads the     *)
(* contracts of the window in one statement and each customer in another,  *)
(* while scores change.                                                    *)
(*                                                                         *)
(* Dates are days from now; probabilities are percents.                    *)
(***************************************************************************)
EXTENDS Integers, FiniteSets

CONSTANTS
  Clients,       \* customers
  Billed,        \* what each is billed by the month
  RenewalDays,   \* renewal dates that requests name
  Amounts,       \* contract values that requests name
  NoAmount,      \* a request that names none
  Risks,         \* churn probabilities that scoring may write
  Upserts,       \* requests that save a contract
  Lists,         \* requests for the list
  RenewalWindow, \* days ahead that the list covers
  MaxRiskChanges \* bound: scores written

ASSUME RenewalAssumption ==
  /\ Billed \in [Clients -> Nat] /\ RenewalDays \subseteq Int /\ Amounts \subseteq Nat
  /\ NoAmount \notin Amounts /\ Risks \subseteq 0 .. 100 /\ RenewalWindow \in Nat \ {0}

VARIABLES
  contracts,   \* committed rows
  risk,        \* churn probability of each customer
  upsert, list,  \* the requests
  (* history, guards nothing but the bounds *)
  wanted,      \* per customer: the terms of the last commit, {} before
  twins,       \* customers whose contract two requests were saving at once
  riskChanges

renewalVars == <<contracts, risk, upsert, list, wanted, twins, riskChanges>>

RenewalTypeOK ==
  /\ \A k \in contracts : /\ k.by \in Upserts /\ k.client \in Clients
                          /\ k.day \in RenewalDays /\ k.amount \in Nat
  /\ risk \in [Clients -> Risks]
  /\ \A u \in Upserts : upsert[u].pc \in {"new", "write", "done"}
  /\ \A v \in Lists : list[v].pc \in {"new", "join", "done"}

RenewalInit ==
  /\ contracts = {} /\ risk \in [Clients -> Risks]
  /\ upsert = [u \in Upserts |-> [pc |-> "new"]]
  /\ list = [v \in Lists |-> [pc |-> "new", left |-> {}, items |-> {}, window |-> {}]]
  /\ wanted = [c \in Clients |-> {}] /\ twins = {} /\ riskChanges = 0

Saving(c) == {u \in Upserts : upsert[u].pc = "write" /\ upsert[u].client = c}

---------------------------------------------------------------------------
(* Saving a contract. *)

(* Fault: a contract is looked for under its date.                         *)
ContractOfDate(c, day) == {k \in contracts : k.client = c /\ k.day = day}

ContractOf(c, day) == {k \in contracts : k.client = c}

FindContract(u) ==
  /\ upsert[u].pc = "new"
  /\ \E c \in Clients, day \in RenewalDays, amount \in Amounts \union {NoAmount} :
       /\ \E was \in IF ContractOf(c, day) = {} THEN {{}} ELSE {{k} : k \in ContractOf(c, day)} :
            upsert' = [upsert EXCEPT ![u] =
              [pc |-> "write", client |-> c, day |-> day, amount |-> amount, was |-> was]]
       /\ twins' = twins \union (IF Saving(c) = {} THEN {} ELSE {c})
  /\ UNCHANGED <<contracts, risk, list, wanted, riskChanges>>

OrZero(amount) == IF amount = NoAmount THEN 0 ELSE amount

(* Fault: a request that names no value sets it to zero.                   *)
AgreedOrZero(amount, old) == OrZero(amount)

(* A request that names no value keeps the one there is.                   *)
Agreed(amount, old) == IF amount = NoAmount THEN old ELSE amount

(* A flush writes the columns that differ from the row as loaded.          *)
Amended(row, was, u) ==
  LET agreed == Agreed(upsert[u].amount, was.amount)
  IN [by |-> row.by, client |-> row.client,
      day |-> IF upsert[u].day = was.day THEN row.day ELSE upsert[u].day,
      amount |-> IF agreed = was.amount THEN row.amount ELSE agreed]

(* History: what the requests of a customer, one after the other, agree on.*)
Terms(u, old) ==
  [day |-> upsert[u].day, amount |-> IF upsert[u].amount = NoAmount THEN old ELSE upsert[u].amount]

SaveContract(u) ==
  /\ upsert[u].pc = "write"
  /\ LET c == upsert[u].client IN
     /\ contracts' =
          IF upsert[u].was = {}
          THEN contracts \union {[by |-> u, client |-> c, day |-> upsert[u].day,
                                  amount |-> OrZero(upsert[u].amount)]}
          ELSE {IF \E w \in upsert[u].was : w.by = k.by
                THEN Amended(k, CHOOSE w \in upsert[u].was : TRUE, u) ELSE k : k \in contracts}
     /\ wanted' = [wanted EXCEPT ![c] =
          {Terms(u, IF @ = {} THEN 0 ELSE (CHOOSE t \in @ : TRUE).amount)}]
  /\ upsert' = [upsert EXCEPT ![u] = [pc |-> "done"]]
  /\ UNCHANGED <<risk, list, twins, riskChanges>>

---------------------------------------------------------------------------
(* The list of renewals at risk. *)

(* Fault: the renewals of today are over.                                  *)
DueLater(k) == k.day > 0 /\ k.day <= RenewalWindow

(* Today's renewals are included: from a day ago to the end of the window. *)
Due(k) == k.day >= -1 /\ k.day <= RenewalWindow

ListContracts(v) ==
  /\ list[v].pc = "new"
  /\ LET due == {k \in contracts : Due(k)}
     IN list' = [list EXCEPT ![v] = [pc |-> IF due = {} THEN "done" ELSE "join",
                                    left |-> due, items |-> {}, window |-> contracts]]
  /\ UNCHANGED <<contracts, risk, upsert, wanted, twins, riskChanges>>

DaysUntil(k) == IF k.day > 0 THEN k.day ELSE 0

(* Fault: a renewal of yesterday is more urgent than one of today.         *)
UrgencyFromDate(k, p) == (p * (2 * RenewalWindow - k.day) * 100) \div RenewalWindow

(* From once the probability, at the end of the window, to twice, today.   *)
Urgency(k, p) == (p * (2 * RenewalWindow - DaysUntil(k)) * 100) \div RenewalWindow

(* A contract without a value counts for what the customer is billed.      *)
Worth(k) == IF k.amount # 0 THEN k.amount ELSE Billed[k.client]

Item(k, p) == [contract |-> k, risk |-> p, loss |-> Worth(k) * p, urgency |-> Urgency(k, p)]

JoinCustomer(v, k) ==
  /\ list[v].pc = "join" /\ k \in list[v].left
  /\ list' = [list EXCEPT ![v] =
       [pc |-> IF list[v].left = {k} THEN "done" ELSE "join", left |-> list[v].left \ {k},
        items |-> list[v].items \union {Item(k, risk[k.client])}, window |-> list[v].window]]
  /\ UNCHANGED <<contracts, risk, upsert, wanted, twins, riskChanges>>

ScoreRisk(c) ==
  /\ riskChanges < MaxRiskChanges /\ riskChanges' = riskChanges + 1
  /\ \E p \in Risks \ {risk[c]} : risk' = [risk EXCEPT ![c] = p]
  /\ UNCHANGED <<contracts, upsert, list, wanted, twins>>

RenewalNext ==
  \/ \E u \in Upserts : FindContract(u) \/ SaveContract(u)
  \/ \E v \in Lists : ListContracts(v) \/ \E k \in list[v].left : JoinCustomer(v, k)
  \/ \E c \in Clients : ScoreRisk(c)

---------------------------------------------------------------------------
(* A customer has one contract, with the terms of the last request; a      *)
(* second one, or a mixture, is there only if two were saving it at once   *)
(* (renewals.py:113-140).                                                  *)
LastTermsStand ==
  \A c \in Clients \ twins :
    LET own == {k \in contracts : k.client = c}
    IN Cardinality(own) <= 1 /\ {[day |-> k.day, amount |-> k.amount] : k \in own} = wanted[c]

(* A finished list names every contract that was to be renewed within the  *)
(* window when it began, today's included, and no customer twice unless    *)
(* two were saving that customer's contract at once (renewals.py:27-85).   *)
ListComplete ==
  \A v \in Lists : list[v].pc = "done" =>
    /\ {i.contract : i \in list[v].items} = {k \in list[v].window : k.day \in -1 .. RenewalWindow}
    /\ \A i, j \in list[v].items :
         i.contract.client = j.contract.client => i = j \/ i.contract.client \in twins

(* Of two renewals in a list the riskier one of the same day, and the      *)
(* nearer one of the same risk, is at least as urgent; nearness never does *)
(* more than double a risk (renewals.py:66-69).                            *)
UrgencySensible ==
  \A v \in Lists : \A i, j \in list[v].items :
    /\ (DaysUntil(i.contract) = DaysUntil(j.contract) /\ i.risk >= j.risk => i.urgency >= j.urgency)
    /\ (i.risk = j.risk /\ i.contract.day <= j.contract.day => i.urgency >= j.urgency)
    /\ i.risk >= 2 * j.risk => i.urgency >= j.urgency

(* Contracts and their list as a whole: one per customer, all of them      *)
(* listed, in an order that risk and date explain (renewals.py).           *)
RenewalsSound ==
  RenewalTypeOK /\ LastTermsStand /\ ListComplete /\ UrgencySensible
=============================================================================
