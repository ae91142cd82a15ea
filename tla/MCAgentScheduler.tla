--------------------------- MODULE MCAgentScheduler ---------------------------
(* AgentScheduler on small instances.  Jobs are interchangeable; the runs with a
   liveness property use no symmetry. *)
EXTENDS AgentScheduler, TLC

Symmetric == Permutations(Jobs)
===============================================================================
