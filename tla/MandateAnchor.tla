---------------------------- MODULE MandateAnchor ----------------------------
(***************************************************************************)
(* The mandate, anchored on chain: MandateAnchors of                       *)
(* services/api/src/agents/reputation/mandate-anchor.ts, which keeps one   *)
(* entry of an agent's on-chain identity in step with its stored record,   *)
(* and what AgentsService does around it: the registration that mints the  *)
(* identity, at the end of a hire, and the rewrite after each amend and    *)
(* revoke.                                                                 *)
(*                                                                         *)
(* Rewrites wait in one queue for the whole process; each reads the record *)
(* when its turn comes.  The registrar key numbers its transactions, so    *)
(* they land in the order they were sent, late ones too.                   *)
(***************************************************************************)
EXTENDS Integers, Sequences, FiniteSetsExt

CONSTANTS
  Registrants,  \* the agents
  MaxRetries,   \* ANCHOR_RETRY_DELAYS_MS: how often a failed rewrite is tried again
  MaxAmends,    \* bound: amends of an agent
  AmendsBack,   \* whether an agent is amended back to terms it had
  MaxFailures,  \* bound: writes that fail
  MaxRestarts,  \* bound: restarts of the process
  Faults        \* a subset of {"unsent", "late", "reverted"}

AnchorAssumption == /\ IsFiniteSet(Registrants) /\ AmendsBack \in BOOLEAN
                    /\ {MaxRetries, MaxAmends, MaxFailures, MaxRestarts} \subseteq Nat

VARIABLES
  record,    \* what is stored of each agent
  hire,      \* the tail of each hire, in memory
  queue,     \* the rewrites that wait
  job,       \* the one that runs
  timers,    \* the retries that are scheduled
  sent,      \* what the registrar key sent, in the order of its nonces
  failures, boots

anchorVars == <<record, hire, queue, job, timers, sent, failures, boots>>

-------------------------------------------------------------------------------
(* What an anchor says: the status, and the mandate with the rules compiled
   from it. *)
Texts   == 0..MaxAmends
Anchors == {"active", "revoked"} \X Texts
NoValue == <<"none", 0>>

Syncs == [agent : Registrants, attempt : 0..MaxRetries]
Idle  == [pc |-> "idle"]

AnchorTypeOK ==
  /\ record \in [Registrants -> [terms : Texts, revoked : {"no", "unsent", "done"}, amends : 0..MaxAmends,
                                 token : BOOLEAN, anchor : Anchors \cup {NoValue}]]
  /\ hire \in [Registrants -> [pc : {"new", "sent", "registered", "unregistered", "hired"}, tx : Nat]]
  /\ queue \in Seq(Syncs)
  /\ job \in {Idle} \cup [pc : {"sending", "waiting"}, sync : Syncs, want : Anchors, tx : Nat]
  /\ timers \in [Registrants \X (1..MaxRetries) -> Nat]
  /\ sent \in Seq([agent : Registrants, value : Anchors, state : {"pending", "landed", "reverted"},
                  nth : Nat])  \* where it landed among those that did
  /\ failures \in 0..MaxFailures /\ boots \in 0..MaxRestarts

Init ==
  /\ record = [a \in Registrants |-> [terms |-> 0, revoked |-> "no", amends |-> 0,
                                      token |-> FALSE, anchor |-> NoValue]]
  /\ hire = [a \in Registrants |-> [pc |-> "new", tx |-> 0]]
  /\ queue = <<>> /\ job = Idle /\ sent = <<>>
  /\ timers = [t \in Registrants \X (1..MaxRetries) |-> 0]
  /\ failures = 0 /\ boots = 0

(* `desiredAnchor`: revoked as soon as the record says so. *)
Desired(a) == <<IF record[a].revoked = "no" THEN "active" ELSE "revoked", record[a].terms>>

Current(a) == record[a].anchor = Desired(a)

(* What the registry holds of the agent: what landed last. *)
Registry(a) ==
  LET mine == {i \in DOMAIN sent : sent[i].agent = a /\ sent[i].state = "landed"}
      last == CHOOSE i \in mine : \A j \in mine : sent[j].nth <= sent[i].nth
  IN IF mine = {} THEN NoValue ELSE sent[last].value

Sync(a, n) == [agent |-> a, attempt |-> n]

(* `#send`: the transaction after all that this key sent. *)
Broadcast(a, value) ==
  sent' = Append(sent, [agent |-> a, value |-> value, state |-> "pending", nth |-> 0])

CanFail(fault) == /\ fault \in Faults /\ failures < MaxFailures
                  /\ failures' = failures + 1

-------------------------------------------------------------------------------
(* The tail of a hire, which holds no lock: the owner may act meanwhile. *)

(* `registerIdentity`: the anchor of the agent as hired rides the mint. *)
Registers(a) ==
  /\ hire[a].pc = "new"
  /\ \/ /\ Broadcast(a, <<"active", 0>>)
        /\ hire' = [hire EXCEPT ![a] = [pc |-> "sent", tx |-> Len(sent) + 1]]
        /\ UNCHANGED failures
     \/ /\ CanFail("unsent")
        /\ hire' = [hire EXCEPT ![a].pc = "unregistered"]
        /\ UNCHANGED sent
  /\ UNCHANGED <<record, queue, job, timers, boots>>

(* No second `register`, whatever became of the first. *)
RegisterAnswered(a) ==
  LET tx == sent[hire[a].tx]
  IN /\ hire[a].pc = "sent"
     /\ \/ tx.state = "landed" /\ hire' = [hire EXCEPT ![a].pc = "registered"] /\ UNCHANGED failures
        \/ tx.state = "reverted" /\ hire' = [hire EXCEPT ![a].pc = "unregistered"] /\ UNCHANGED failures
        \/ /\ tx.state = "pending" /\ CanFail("late")
           /\ hire' = [hire EXCEPT ![a].pc = "unregistered"]
     /\ UNCHANGED <<record, queue, job, timers, sent, boots>>

(* Mutant of HireStores: nothing catches up with what the owner did meanwhile. *)
HireStoresOnly(a) ==
  /\ \/ /\ hire[a].pc = "registered"
        /\ record' = [record EXCEPT ![a].token = TRUE, ![a].anchor = <<"active", 0>>]
     \/ hire[a].pc = "unregistered" /\ UNCHANGED record
  /\ hire' = [hire EXCEPT ![a].pc = "hired"]
  /\ UNCHANGED <<queue, job, timers, sent, failures, boots>>

(* `completeHire`: the id and the anchor are stored, and a rewrite queued for
   what was amended since. *)
HireStores(a) ==
  /\ \/ /\ hire[a].pc = "registered"
        /\ record' = [record EXCEPT ![a].token = TRUE, ![a].anchor = <<"active", 0>>]
        /\ queue' = Append(queue, Sync(a, 0))
     \/ hire[a].pc = "unregistered" /\ UNCHANGED <<record, queue>>
  /\ hire' = [hire EXCEPT ![a].pc = "hired"]
  /\ UNCHANGED <<job, timers, sent, failures, boots>>

-------------------------------------------------------------------------------
(* The owner.  What these promise of the enclave is AgentMandate's. *)

Amends(a, terms) ==
  /\ record[a].revoked = "no" /\ record[a].amends < MaxAmends
  /\ terms # record[a].terms /\ (AmendsBack \/ terms > record[a].terms)
  /\ record' = [record EXCEPT ![a].terms = terms, ![a].amends = @ + 1]
  /\ queue' = Append(queue, Sync(a, 0))
  /\ UNCHANGED <<hire, job, timers, sent, failures, boots>>

(* The status turns first; the enclave may refuse, and the owner ask again. *)
RevokeBegins(a) ==
  /\ record[a].revoked = "no"
  /\ record' = [record EXCEPT ![a].revoked = "unsent"]
  /\ UNCHANGED <<hire, queue, job, timers, sent, failures, boots>>

RevokeCommits(a) ==
  /\ record[a].revoked = "unsent"
  /\ record' = [record EXCEPT ![a].revoked = "done"]
  /\ queue' = Append(queue, Sync(a, 0))
  /\ UNCHANGED <<hire, job, timers, sent, failures, boots>>

-------------------------------------------------------------------------------
(* The queue. *)

(* `#sync`, up to its write: nothing to do without an identity, or when the
   stored anchor is current. *)
Begins ==
  /\ job = Idle /\ queue # <<>>
  /\ queue' = Tail(queue)
  /\ LET a == Head(queue).agent
     IN IF record[a].token /\ ~Current(a)
        THEN job' = [pc |-> "sending", sync |-> Head(queue), want |-> Desired(a), tx |-> 0]
        ELSE UNCHANGED job
  /\ UNCHANGED <<record, hire, timers, sent, failures, boots>>

(* A failed write is tried again later, as often as there are delays. *)
Fails == /\ job' = Idle
         /\ LET n == job.sync.attempt + 1
            IN timers' = IF n <= MaxRetries THEN [timers EXCEPT ![<<job.sync.agent, n>>] = @ + 1]
                         ELSE timers

Writes ==
  /\ job.pc = "sending"
  /\ \/ /\ Broadcast(job.sync.agent, job.want)
        /\ job' = [job EXCEPT !.pc = "waiting", !.tx = Len(sent) + 1]
        /\ UNCHANGED <<timers, failures>>
     \/ CanFail("unsent") /\ Fails /\ UNCHANGED sent
  /\ UNCHANGED <<record, hire, queue, boots>>

(* The receipt, or none within its time-out: the transaction may land yet. *)
Answered ==
  /\ job.pc = "waiting"
  /\ \/ /\ sent[job.tx].state = "landed"
        /\ record' = [record EXCEPT ![job.sync.agent].anchor = job.want]
        /\ job' = Idle /\ UNCHANGED <<timers, failures>>
     \/ sent[job.tx].state = "reverted" /\ Fails /\ UNCHANGED <<record, failures>>
     \/ sent[job.tx].state = "pending" /\ CanFail("late") /\ Fails /\ UNCHANGED record
  /\ UNCHANGED <<hire, queue, sent, boots>>

TimerFires(a, n) ==
  /\ timers[<<a, n>>] > 0
  /\ timers' = [timers EXCEPT ![<<a, n>>] = @ - 1]
  /\ queue' = Append(queue, Sync(a, n))
  /\ UNCHANGED <<record, hire, job, sent, failures, boots>>

(* Mutant of MayLand: each write takes a nonce, or a key, of its own. *)
MayLandAny(i) == sent[i].state = "pending"

(* One key, and nonces that follow on: nothing overtakes. *)
MayLand(i) == /\ sent[i].state = "pending"
              /\ \A j \in 1..(i - 1) : sent[j].state # "pending"

Lands ==
  /\ \E i \in DOMAIN sent :
       /\ MayLand(i)
       /\ \/ /\ sent' = [sent EXCEPT ![i].state = "landed",
                           ![i].nth = 1 + Max({sent[j].nth : j \in DOMAIN sent})]
             /\ UNCHANGED failures
          \/ CanFail("reverted") /\ sent' = [sent EXCEPT ![i].state = "reverted"]
  /\ UNCHANGED <<record, hire, queue, job, timers, boots>>

(* A restart: the queue, the timers and the hires under way are gone; boot's
   `reconcile` queues every registered agent whose anchor is stale. *)
Restarts ==
  /\ boots < MaxRestarts
  /\ boots' = boots + 1
  /\ job' = Idle /\ timers' = [t \in DOMAIN timers |-> 0]
  /\ hire' = [a \in Registrants |-> [pc |-> IF hire[a].pc = "new" THEN "new" ELSE "hired", tx |-> 0]]
  /\ LET stale == {a \in Registrants : record[a].token /\ ~Current(a)}
     IN queue' \in {q \in [1..Cardinality(stale) -> {Sync(a, 0) : a \in stale}] :
                      \A i, j \in DOMAIN q : q[i] = q[j] => i = j}
  /\ UNCHANGED <<record, sent, failures>>

-------------------------------------------------------------------------------
HireStep(a)  == Registers(a) \/ RegisterAnswered(a) \/ HireStores(a)
QueueStep    == Begins \/ Writes \/ Answered

AnchorNext ==
  \/ \E a \in Registrants :
       \/ HireStep(a) \/ RevokeBegins(a) \/ RevokeCommits(a)
       \/ \E terms \in Texts : Amends(a, terms)
       \/ \E n \in 1..MaxRetries : TimerFires(a, n)
  \/ QueueStep \/ Lands \/ Restarts

(* Every step of the process's own that can be taken is, and what is sent
   lands; nobody has to amend, revoke or restart. *)
AnchorFairness ==
  /\ WF_anchorVars(QueueStep) /\ WF_anchorVars(Lands)
  /\ \A a \in Registrants :
       WF_anchorVars(HireStep(a)) /\ \A n \in 1..MaxRetries : WF_anchorVars(TimerFires(a, n))

AnchorSpec == Init /\ [][AnchorNext]_anchorVars /\ AnchorFairness

-------------------------------------------------------------------------------
(* What the chain says is revoked never reads as active again, whatever was
   sent late, retried or queued before (mandate-anchor.ts:29). *)
RevokedStaysRevoked ==
  [][\A a \in Registrants : Registry(a)[1] = "revoked" => Registry(a)'[1] = "revoked"]_anchorVars

(* An anchor that is stored as current is on chain, whatever late write of the
   agent has yet to land: why `#sync` may return when it is
   (mandate-anchor.ts:315).  Not of an agent amended back to terms it had. *)
CurrentIsOnChain ==
  \A a \in Registrants : Current(a) => Registry(a) = Desired(a)

(* The registry says of every registered agent what its record does, in the
   end: whatever was amended during the hire, failed, or was lost with a
   restart (mandate-anchor.ts:209).  Not of a revoke the enclave never took. *)
AnchorsConverge ==
  <>[](\A a \in Registrants : record[a].token /\ record[a].revoked # "unsent"
                                => Registry(a) = Desired(a) /\ Current(a))
===============================================================================
