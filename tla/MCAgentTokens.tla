--------------------------- MODULE MCAgentTokens ---------------------------
(* Instance of AgentTokens for TLC: two actor ids, two credentials, two    *)
(* requests.  Ids are only compared for equality, so the three sets are    *)
(* interchangeable; the run checks safety only, where symmetry is sound.   *)
EXTENDS AgentTokens, TLC

Symmetry ==
    Permutations(ActorIds) \cup Permutations(CredIds) \cup Permutations(Requests)
=============================================================================
