-------------------------------- MODULE MCGateway -------------------------------
(* Instances of Gateway for TLC.                                           *)
EXTENDS Gateway, TLC

\* Ids, keys, names and calls are told apart only by equality.
Symmetry ==
    Permutations(AgentIds) \cup Permutations(ServerIds) \cup Permutations(Keys)
    \cup Permutations(Agents) \cup Permutations(Servers) \cup Permutations(Calls)
================================================================================
