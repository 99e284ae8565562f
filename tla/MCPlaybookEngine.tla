-------------------------- MODULE MCPlaybookEngine --------------------------
(***************************************************************************)
(* A playbook with a node of each type, for TLC: send a message, then, for *)
(* customers at risk, wait an hour and hand over to a CSM; for the others  *)
(* a node whose type is misspelt.  The graph is acyclic.                   *)
(***************************************************************************)
EXTENDS PlaybookEngine

CONSTANTS c1, c2

MCNodes == {"send", "atRisk", "wait", "review", "typo"}

MCKind == [send |-> "action", atRisk |-> "condition", wait |-> "delay",
           review |-> "human_task", typo |-> "other"]
MCEdge == [send |-> "atRisk", atRisk |-> "typo", wait |-> "review",
           review |-> NoNode, typo |-> NoNode]
MCTrueTarget  == [n \in MCNodes |-> IF n = "atRisk" THEN "wait" ELSE NoNode]
MCFalseTarget == [n \in MCNodes |-> NoNode]
MCDelayHours  == [n \in MCNodes |-> IF n = "wait" THEN 1 ELSE 0]
MCSkilled     == [n \in MCNodes |-> IF n = "review" THEN {c2} ELSE {}]

\* A playbook that is one human task: runs race for CSMs.
TaskNodes == {"review"}
TaskKind == [n \in TaskNodes |-> "human_task"]
TaskNone == [n \in TaskNodes |-> NoNode]
TaskZero == [n \in TaskNodes |-> 0]
TaskSkilled == [n \in TaskNodes |-> {c1}]
=============================================================================
