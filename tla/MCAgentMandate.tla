---------------------------- MODULE MCAgentMandate ----------------------------
(* AgentMandate on small instances.  The sets are model values given in the
   cfgs; calls and prepares are interchangeable, and mandates too as long as
   both or neither compile a Kuru deposit, so only the first two are permuted. *)
EXTENDS AgentMandate, TLC

Symmetric == Permutations(Calls) \cup Permutations(PrepareIds)
===============================================================================
