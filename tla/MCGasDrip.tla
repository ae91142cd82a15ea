------------------------------ MODULE MCGasDrip ------------------------------
(* GasDrip on a small instance: every set is one of interchangeable values. *)
EXTENDS GasDrip, TLC

MCAmount == [user |-> 2, agent |-> 1]

Symmetric == Permutations(Requests) \cup Permutations(AgentIds)
               \cup Permutations(Addresses) \cup Permutations(Keys)
===============================================================================
