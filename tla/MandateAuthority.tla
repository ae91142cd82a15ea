--------------------------- MODULE MandateAuthority ---------------------------
(***************************************************************************)
(* What Sente promises about an agent's mandate, with no calls, locks,     *)
(* network or crashes in sight: a hire grants an agent authority, its      *)
(* owner may change that authority while the agent is active, and from the *)
(* moment the agent is revoked the only authority it can still be given is *)
(* the exit.  A confirmed revocation is final.                             *)
(*                                                                         *)
(* AgentMandate (agents.service.ts and the Privy enclave) implements it.   *)
(***************************************************************************)
CONSTANTS
  Agents,      \* agents that may be hired
  NoRules,     \* the authority of a wallet that does not exist yet
  TradeRules,  \* policies that let an agent take risk
  ExitRules    \* policies that only send funds home

VARIABLES
  authority,   \* the policy that bounds each agent's wallet
  stage        \* "none", "active", "revoked" or "sealed"

vars == <<authority, stage>>

Stages == {"none", "active", "revoked", "sealed"}

Init == /\ authority = [a \in Agents |-> NoRules]
        /\ stage = [a \in Agents |-> "none"]

(* A wallet and its policy are created together; the agent is not yet
   known to its owner. *)
Provision(a) == /\ authority[a] = NoRules
                /\ \E r \in TradeRules : authority' = [authority EXCEPT ![a] = r]
                /\ UNCHANGED stage

Hire(a) == /\ stage[a] = "none"
           /\ authority[a] # NoRules
           /\ stage' = [stage EXCEPT ![a] = "active"]
           /\ UNCHANGED authority

(* Amends and the deposit pin: only while the agent is active. *)
Amend(a) == /\ stage[a] = "active"
            /\ \E r \in TradeRules : authority' = [authority EXCEPT ![a] = r]
            /\ UNCHANGED stage

Revoke(a) == /\ stage[a] = "active"
             /\ stage' = [stage EXCEPT ![a] = "revoked"]
             /\ UNCHANGED authority

(* The exit may be installed any number of times: a revoke is retried. *)
Clear(a) == /\ stage[a] \in {"revoked", "sealed"}
            /\ \E r \in ExitRules : authority' = [authority EXCEPT ![a] = r]
            /\ UNCHANGED stage

Seal(a) == /\ stage[a] = "revoked"
           /\ authority[a] \in ExitRules
           /\ stage' = [stage EXCEPT ![a] = "sealed"]
           /\ UNCHANGED authority

Next == \E a \in Agents : \/ Provision(a) \/ Hire(a) \/ Amend(a)
                          \/ Revoke(a) \/ Clear(a) \/ Seal(a)

Spec == Init /\ [][Next]_vars
===============================================================================
