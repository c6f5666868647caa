----------------------------- MODULE MCFastMQTT -----------------------------
(* Instances of FastMQTT: two owners that share a topic (interchangeable in  *)
(* the invariants), or none.                                                *)
EXTENDS FastMQTT, TLC

CONSTANTS r1, r2

SharedTopic == [r \in {r1, r2} |-> "a"]
OwnerSymmetry == Permutations({r1, r2})
NoOwner     == [r \in {} |-> "a"]
=============================================================================
