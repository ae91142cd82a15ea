------------------------------ MODULE DepositWebhook ------------------------------
(***************************************************************************)
(* Alchemy's deliveries of transfers to agents' wallets                    *)
(* (services/api/src/webhooks/webhooks.service.ts).  Alchemy sends a        *)
(* payload until it is answered 2xx, also while an earlier delivery of it   *)
(* is still being handled; the server appends one `deposit` to the agent's  *)
(* log per transfer, and remembers in memory which it appended.             *)
(***************************************************************************)
EXTENDS Naturals, SequencesExt

CONSTANTS
  Handlers,     \* requests being handled at a time
  Payloads,     \* what Alchemy delivers
  Legible,      \* those whose body the server can parse
  Carries,      \* the transfers of each payload, in order
  Described,    \* the transfers whose block number is one
  AgentOf,      \* the agent whose wallet each transfer credits, or NoAgent
  NoAgent,
  SeenMax,      \* SEEN_DEPOSITS_MAX
  MaxUpsets,    \* bound: restarts, failed appends, lost answers
  Upsets        \* a subset of {"restart", "append", "answer", "unconfigured"}

Transfers == UNION {ToSet(Carries[p]) : p \in Payloads}
Agents    == {AgentOf[t] : t \in Transfers} \ {NoAgent}

DepositAssumption ==
  /\ {SeenMax, MaxUpsets} \subseteq Nat /\ SeenMax > 0
  /\ Payloads # {} /\ Legible \subseteq Payloads /\ \A p \in Payloads : Carries[p] \in Seq(Transfers)

VARIABLES
  owed,       \* the payloads Alchemy has no 2xx for
  handler,    \* each request
  seen,       \* the remembered keys, oldest first
  log,        \* how many deposits of each key are on the agents' logs
  active,     \* the agents whose status is active
  kicked,     \* the agents whose Perpl opening was kicked by a deposit
  forgotten,  \* keys the memory lost, by a restart or as the oldest
  unlogged,   \* keys an append of failed, or that found no active agent
  cutOff,     \* keys whose append a restart cut off
  upsets

depositVars == <<owed, handler, seen, log, active, kicked, forgotten, unlogged, cutOff,
                 upsets>>

-------------------------------------------------------------------------------
(* `depositKey`: a transfer at its place in the payload, the same in every retry. *)
Key(p, i)  == [transfer |-> Carries[p][i], at |-> i]
KeysOf(p)  == {Key(p, i) : i \in DOMAIN Carries[p]}
AllKeys    == UNION {KeysOf(p) : p \in Payloads}
Resting    == [pc |-> "free", payload |-> CHOOSE p \in Payloads : TRUE, at |-> 1]
This(h)    == Key(handler[h].payload, handler[h].at)

DepositInit ==
  /\ owed = Payloads /\ handler = [h \in Handlers |-> Resting]
  /\ seen = <<>> /\ log = [key \in AllKeys |-> 0] /\ active = Agents
  /\ kicked = {} /\ forgotten = {} /\ unlogged = {} /\ cutOff = {} /\ upsets = 0

DepositTypeOK ==
  /\ owed \subseteq Payloads /\ active \subseteq Agents /\ kicked \subseteq Agents
  /\ handler \in [Handlers -> [pc : {"free", "next", "appending"}, payload : Payloads, at : Nat]]
  /\ seen \in Seq(AllKeys) /\ IsInjective(seen) /\ Len(seen) <= SeenMax
  /\ log \in [AllKeys -> Nat] /\ {forgotten, unlogged, cutOff} \subseteq SUBSET AllKeys
  /\ upsets \in 0..MaxUpsets

Upset(kind) == kind \in Upsets /\ upsets < MaxUpsets /\ upsets' = upsets + 1

-------------------------------------------------------------------------------
(* A delivery of what is owed, verified; without a signing key it is a 503.  Of a
   body that does not parse no transfer is looked at. *)
Delivers(h, p) ==
  /\ handler[h].pc = "free" /\ p \in owed
  /\ \/ handler' = [handler EXCEPT ![h] = [pc |-> "next", payload |-> p,
                                           at |-> IF p \in Legible THEN 1 ELSE Len(Carries[p]) + 1]]
        /\ UNCHANGED upsets
     \/ Upset("unconfigured") /\ UNCHANGED handler
  /\ UNCHANGED <<owed, seen, log, active, kicked, forgotten, unlogged, cutOff>>

More(h) == handler[h].pc = "next" /\ handler[h].at <= Len(Carries[handler[h].payload])

(* Mutant of Remember: a reservation waits for the append. *)
RememberNothing(key) == UNCHANGED <<seen, forgotten>>

(* `remember`: the oldest key goes when there are too many. *)
Remember(key) ==
  IF Len(seen) < SeenMax
  THEN seen' = Append(seen, key) /\ UNCHANGED forgotten
  ELSE seen' = Append(Tail(seen), key) /\ forgotten' = forgotten \cup {Head(seen)}

(* The next transfer: nobody's, seen already, skipped for want of a description
   (toDepositDetail), or reserved and appended. *)
Looks(h) ==
  /\ More(h)
  /\ LET agent == AgentOf[This(h).transfer]
     IN \/ /\ agent \notin active
           /\ handler' = [handler EXCEPT ![h].at = @ + 1]
           /\ unlogged' = unlogged \cup {This(h)} /\ UNCHANGED <<seen, forgotten>>
        \/ /\ agent \in active /\ Contains(seen, This(h))
           /\ handler' = [handler EXCEPT ![h].at = @ + 1]
           /\ UNCHANGED <<seen, forgotten, unlogged>>
        \/ /\ agent \in active /\ ~Contains(seen, This(h)) /\ This(h).transfer \notin Described
           /\ handler' = [handler EXCEPT ![h].at = @ + 1]
           /\ UNCHANGED <<seen, forgotten, unlogged>>
        \/ /\ agent \in active /\ ~Contains(seen, This(h)) /\ This(h).transfer \in Described
           /\ handler' = [handler EXCEPT ![h].pc = "appending"]
           /\ Remember(This(h)) /\ UNCHANGED unlogged
  /\ UNCHANGED <<owed, log, active, kicked, cutOff, upsets>>

(* The log answers; a key whose append failed is released. *)
Appends(h) ==
  /\ handler[h].pc = "appending"
  /\ \/ /\ log' = [log EXCEPT ![This(h)] = @ + 1] /\ kicked' = kicked \cup {AgentOf[This(h).transfer]}
        /\ handler' = [handler EXCEPT ![h].pc = "next", ![h].at = @ + 1]
        /\ UNCHANGED <<seen, unlogged, upsets>>
     \/ /\ Upset("append")
        /\ seen' = RemoveFirst(seen, This(h)) /\ unlogged' = unlogged \cup {This(h)}
        /\ handler' = [handler EXCEPT ![h].pc = "next", ![h].at = @ + 1]
        /\ UNCHANGED <<log, kicked>>
  /\ UNCHANGED <<owed, active, forgotten, cutOff>>

(* 200, whatever became of the transfers; Alchemy sends again if it is lost. *)
Acknowledges(h) ==
  /\ handler[h].pc = "next" /\ ~More(h)
  /\ \/ owed' = owed \ {handler[h].payload} /\ UNCHANGED upsets
     \/ Upset("answer") /\ UNCHANGED owed
  /\ handler' = [handler EXCEPT ![h] = Resting]
  /\ UNCHANGED <<seen, log, active, kicked, forgotten, unlogged, cutOff>>

-------------------------------------------------------------------------------
(* The memory goes, the log stays; an append under way was written or was not. *)
Appending == {This(h) : h \in {g \in Handlers : handler[g].pc = "appending"}}

Restarts ==
  /\ Upset("restart")
  /\ \E written \in SUBSET Appending : log' = [key \in AllKeys |-> IF key \in written THEN log[key] + 1 ELSE log[key]]
  /\ handler' = [h \in Handlers |-> Resting]
  /\ seen' = <<>> /\ forgotten' = forgotten \cup ToSet(seen) /\ cutOff' = cutOff \cup Appending
  /\ UNCHANGED <<owed, active, kicked, unlogged>>

Revokes(agent) ==
  /\ agent \in active /\ active' = active \ {agent}
  /\ UNCHANGED <<owed, handler, seen, log, kicked, forgotten, unlogged, cutOff, upsets>>

DepositNext ==
  \/ Restarts
  \/ \E agent \in Agents : Revokes(agent)
  \/ \E h \in Handlers :
       \/ Looks(h) \/ Appends(h) \/ Acknowledges(h)
       \/ \E p \in Payloads : Delivers(h, p)

DepositSpec == DepositInit /\ [][DepositNext]_depositVars

-------------------------------------------------------------------------------
Logged == {key \in AllKeys : log[key] > 0}

(* A transfer is on the log once, however often it is delivered, unless the
   memory of it was lost: the log outlives a restart and the memory does not
   (webhooks.service.ts:100 holds that it does not either). *)
LoggedOnce == \A key \in AllKeys : log[key] <= 1 \/ key \in forgotten

(* What Alchemy stops sending is on its agent's log, or about to be, but for what
   is answered 200 all the same: a body that does not parse, a transfer that
   cannot be described or has no active agent, an append that failed, and an
   append that a restart cut off, which a repeat of the payload, answered while
   the key was reserved, may have made the last one.  No key stays reserved that
   no append stands behind, and whoever has a deposit was kicked, unless its
   append was cut off. *)
NothingIsMislaid ==
  /\ \A p \in Legible \ owed : \A key \in KeysOf(p) :
       key.transfer \in Described => key \in Logged \cup Appending \cup unlogged \cup cutOff
  /\ ToSet(seen) \subseteq Logged \cup Appending
  /\ \A key \in Logged : AgentOf[key.transfer] \in kicked \/ key \in cutOff

(* A transfer is on its agent's log once, however often Alchemy delivers it,
   unless the memory of it was lost; and what Alchemy stops delivering is there,
   or nothing but a skip, a revoke, a failed append or a restart in the middle of
   one took it (webhooks.service.ts:99 and :167). *)
DepositsAreTrue == DepositTypeOK /\ LoggedOnce /\ NothingIsMislaid
===============================================================================
