---------------------------- MODULE RunContract ----------------------------
(***************************************************************************)
(* What a playbook run promises, whatever sessions, crashes and races do   *)
(* underneath: a run stands on a node only if some node leading to it was  *)
(* performed, a node is performed only once it is granted that way, a run  *)
(* completes only behind a performed node that ends the graph, and nothing *)
(* brings a finished run back to running.  Nodes may be performed more     *)
(* than once and a run may be set back: the engine promises no more.       *)
(* Only an edit of the stored graph (intact = FALSE) voids the promise     *)
(* about how runs end.                                                     *)
(***************************************************************************)
CONSTANTS Runs, Nodes, Start,
          Leads,      \* Leads[m]: the nodes that performing m may lead to
          Exits       \* the nodes whose performance may end the run

VARIABLES phase, at, performed, intact

contractVars == <<phase, at, performed, intact>>

Finished == {"completed", "failed"}

\* n may be performed in run r: it is where runs start, or a performed node
\* leads to it.
Granted(r, n) == n = Start \/ \E m \in performed[r] : n \in Leads[m]

ContractInit ==
  /\ phase = [r \in Runs |-> "absent"]
  /\ at = [r \in Runs |-> Start]
  /\ performed = [r \in Runs |-> {}]
  /\ intact = TRUE

Begin(r) ==
  /\ phase[r] = "absent"
  /\ phase' = [phase EXCEPT ![r] = "running"]
  /\ UNCHANGED <<at, performed, intact>>

Perform(r, n) ==
  /\ phase[r] # "absent"
  /\ Granted(r, n)
  /\ performed' = [performed EXCEPT ![r] = @ \cup {n}]
  /\ UNCHANGED <<phase, at, intact>>

Move(r, n) ==
  /\ phase[r] # "absent"
  /\ \E m \in performed[r] : n \in Leads[m]
  /\ at' = [at EXCEPT ![r] = n]
  /\ UNCHANGED <<phase, performed, intact>>

Complete(r) ==
  /\ phase[r] # "absent"
  /\ intact => performed[r] \cap Exits # {}
  /\ phase' = [phase EXCEPT ![r] = "completed"]
  /\ UNCHANGED <<at, performed, intact>>

Fail(r) ==
  /\ phase[r] # "absent"
  /\ ~intact
  /\ phase' = [phase EXCEPT ![r] = "failed"]
  /\ UNCHANGED <<at, performed, intact>>

Damage ==
  /\ intact' = FALSE
  /\ UNCHANGED <<phase, at, performed>>

ContractNext ==
  \/ \E r \in Runs :
       \/ Begin(r)
       \/ \E n \in Nodes : Perform(r, n) \/ Move(r, n)
       \/ Complete(r)
       \/ Fail(r)
  \/ Damage

ContractSpec == ContractInit /\ [][ContractNext]_contractVars
=============================================================================
