--------------------------- MODULE MCMandateService ---------------------------
(* What an owner has of the service: the mandates of server-owned agents, twice,
   the rules a mandate compiles to, and the services beside them, in seven parts
   a behaviour takes one of.  "faulty": one agent, with lost answers and crashes.
   "reliable": two agents of one owner, one perhaps forked from the other, two
   calls at a time; nothing is lost and the process does not crash.  "compiling"
   (MandatePolicy): one agent, its policy and its money.  The other four are
   OwnerServices': "anchoring", one agent, amended to new terms only and revoked;
   "sending", two sends of any kind from the user's wallets, with one fault;
   "registering", three calls from two devices, and "crediting", three provisions
   and a read, with three faults each. *)
EXTENDS MCAgentMandate, MandatePolicy, OwnerServices

CONSTANTS a2, mon, usdc, book

VARIABLE part

Reliable == INSTANCE AgentMandate WITH Faults <- {}, MaxAgents <- 2

(* What the configuration gives MandatePolicy: mandates of both venues, of Kuru
   alone and of Perpl alone; two amends or redeployments, the first fee and a
   lower or a higher one, two moments. *)
TermsOf(venues, caps, markets, collateral, until) ==
  [venues |-> venues, caps |-> caps, markets |-> markets, collateral |-> collateral, until |-> until]

MCTerms == {TermsOf({"kuru", "perpl"}, mon :> 1 @@ usdc :> 2, {book}, 1, 0),
            TermsOf({"kuru"}, usdc :> 1, {}, 0, 1),
            TermsOf({"perpl"}, <<>>, {}, 2, 1)}

ASSUME PolicyAssumption /\ ServicesAssumption

MCInit ==
  /\ part \in {"faulty", "reliable", "anchoring", "compiling", "sending", "registering", "crediting"}
  /\ Init /\ ServicesInit /\ PolicyInit
  /\ part = "sending" \/ \A s \in PrepareIds : send[s].path = "step"
  /\ part = "registering" \/ \A c \in Asks : register[c].key = a2
  /\ part = "crediting" \/ keys = <<>>
  /\ \/ part = "compiling"
     \/ /\ agent.mandate.venues = {"kuru"} /\ agent.mandate.returnTo = Nobody
        /\ config = [custody |-> "address-keyed", fee |-> 0, sponsored |-> FALSE]

(* The parts that come to an end are then at rest, and not in a deadlock. *)
AtRest ==
  /\ \/ part = "anchoring" /\ queue = <<>>
     \/ part = "sending" /\ time = 3
     \/ part \in {"compiling", "registering", "crediting"}
  /\ UNCHANGED <<vars, servicesVars, policyVars>>

MCNext ==
  /\ UNCHANGED part
  /\ \/ /\ part = "faulty" /\ Next /\ record'[a2].status = "none"
        /\ UNCHANGED <<servicesVars, policyVars>>
     \/ /\ part = "reliable" /\ Reliable!Next
        /\ Cardinality({c \in Calls : call'[c].pc # "idle"}) <= 2
        /\ UNCHANGED <<servicesVars, policyVars>>
     \/ /\ part = "anchoring" /\ Anchoring!AnchorNext
        /\ UNCHANGED <<vars, transfers, registers, credits, policyVars>>
     \/ /\ part = "compiling" /\ PolicyNext
        /\ UNCHANGED <<vars, servicesVars>>
     \/ /\ part = "sending" /\ Sending!SendsNext
        /\ UNCHANGED <<vars, anchors, registers, credits, policyVars>>
     \/ /\ part = "registering" /\ Registering!RegisterNext
        /\ UNCHANGED <<vars, anchors, transfers, credits, policyVars>>
     \/ /\ part = "crediting" /\ Crediting!CreditsNext
        /\ UNCHANGED <<vars, anchors, transfers, registers, policyVars>>
     \/ AtRest

MCSpec == MCInit /\ [][MCNext]_<<part, vars, servicesVars, policyVars>>

-----------------------------------------------------------------------------
(* The owner's last word holds.  What the chain says is revoked never reads as
   active again, whatever was sent late, retried or queued before
   (mandate-anchor.ts:29).  And as long as no answer is lost, an active agent's
   stored mandate is the one its policy was compiled from whenever no PATCH is
   out (agents.service.ts:961), and nothing a revoke installs is new authority:
   the exit is that of the mandate which was live (agents.service.ts:1013). *)
LastWordHolds ==
  /\ Anchoring!RevokedStaysRevoked
  /\ [](part = "reliable" => StoredMandateIsEnforced)
  /\ [][part = "reliable" =>
           \A a \in Agents : enclave'[a] # enclave[a] /\ enclave'[a].kind = "exit" =>
                               enclave'[a].mandate = enclave[a].mandate]_vars
===============================================================================
