--------------------------- MODULE MCScoringFeed ---------------------------
(***************************************************************************)
(* Scores for TLC: a tenant with a customer and one without, and three     *)
(* probabilities, two of them in one tier.                                 *)
(***************************************************************************)
EXTENDS ScoringFeed, TLC

CONSTANTS t1, c1, s1

MCOwner == c1 :> t1
MCTier == [p \in Probs |-> IF p = 1 THEN "low" ELSE "high"]
MCFollows == s1 :> Tenants
=============================================================================
