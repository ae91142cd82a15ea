----------------------------- MODULE AgentMandate -----------------------------
(***************************************************************************)
(* The life of an agent's mandate: services/api/src/agents/               *)
(* agents.service.ts with its agent store, the prepared approvals it keeps *)
(* for device-owned agents, and the Privy enclave that holds the policies. *)
(*                                                                         *)
(* A call is one request being handled.  Its steps are the stretches of    *)
(* code between two awaits that something else can be scheduled in: the    *)
(* per-agent lock queue, and the policy PATCH, which the enclave takes at  *)
(* one moment ("sent" -> "applied") and answers at a later one.  All       *)
(* agents here belong to one owner: another user's call finds no agent and *)
(* changes nothing.                                                        *)
(***************************************************************************)
EXTENDS Naturals, Sequences, FiniteSets

CONSTANTS
  Agents,       \* ids an agent may be hired under
  NoAgent,
  Calls,        \* requests that may be in progress at once
  Mandates,     \* mandates an owner may ask for
  KuruMandates, \* the mandates that compile a Kuru deposit rule
  NoMandate,
  PrepareIds,   \* ids of prepared changes, each drawn once
  NoPrepare,
  OwnerMode,    \* who owns the policies: "server" or "device"
  MaxAgents,    \* AGENTS_MAX_PER_USER
  Faults,       \* what may go wrong: "lost" answers, a "crash"
  OwnerActsDuringHire \* the owner may use an agent whose hire has not returned

ASSUME MandateAssumption ==
  /\ NoAgent \notin Agents
  /\ NoMandate \notin Mandates
  /\ KuruMandates \subseteq Mandates
  /\ NoPrepare \notin PrepareIds
  /\ OwnerMode \in {"server", "device"}
  /\ MaxAgents \in Nat \ {0}
  /\ Faults \subseteq {"lost", "crash"}
  /\ OwnerActsDuringHire \in BOOLEAN

VARIABLES
  record,   \* the agent store: durable
  enclave,  \* the policy of each agent's wallet, at Privy: durable
  prepared, \* PreparedApprovals: lost with the process
  locks,    \* per agent, the calls holding or awaiting withAgentLock, in order
  call      \* the calls in progress: lost with the process

vars == <<record, enclave, prepared, locks, call>>

-------------------------------------------------------------------------------
(* Policies.  What the properties tell apart is whether the rules let the
   agent take risk, the mandate they come from, and whether every Kuru
   deposit is pinned to the agent's own wallet. *)

Full(m, pin) == [kind |-> "full", mandate |-> m, pinned |-> pin]
Exit(m)      == [kind |-> "exit", mandate |-> m, pinned |-> TRUE]
NoRules      == [kind |-> "none", mandate |-> NoMandate, pinned |-> TRUE]

TradeRules == {Full(m, pin) : m \in Mandates, pin \in BOOLEAN}
ExitRules  == {Exit(m) : m \in Mandates}

(* `compile`: with the wallet's address the deposit rules are pinned; without
   it they are pinned only if there is none. *)
Compile(m, hasAddress) == Full(m, hasAddress \/ m \notin KuruMandates)

-------------------------------------------------------------------------------
(* Types. *)

Ops == {"none", "hire", "amend", "revoke", "prepareAmend", "commitAmend",
        "commitRevoke", "archive", "unarchive"}

(* "queued": awaiting the agent's lock; "sent" and "applied": a PATCH is out;
   "funds": archive reads balances; "parsing": a prepare resolves the mandate;
   "provisioned" and "finishing": the two halves of a hire. *)
Pcs == {"idle", "provisioned", "finishing", "parsing", "queued", "sent",
        "applied", "funds"}

Statuses == {"none", "active", "revoked"}

Kinds == {"none", "mandate_amend", "mandate_revoke"}

HoldStates == {"unused", "held", "gone"}

AgentRecords == [status : Statuses, policyCleared : BOOLEAN,
                 mandate : Mandates \cup {NoMandate}, pinned : BOOLEAN,
                 archived : BOOLEAN, expired : BOOLEAN]

CallStates == [pc : Pcs, op : Ops, agent : Agents \cup {NoAgent},
               mandate : Mandates \cup {NoMandate},
               prepare : PrepareIds \cup {NoPrepare}, pinned : BOOLEAN]

PreparedStates == [state : HoldStates, kind : Kinds,
                   agent : Agents \cup {NoAgent},
                   mandate : Mandates \cup {NoMandate}]

TypeOK == /\ record \in [Agents -> AgentRecords]
          /\ enclave \in [Agents -> TradeRules \cup ExitRules \cup {NoRules}]
          /\ prepared \in [PrepareIds -> PreparedStates]
          /\ locks \in [Agents -> Seq(Calls)]
          /\ call \in [Calls -> CallStates]

-------------------------------------------------------------------------------
(* Helpers. *)

NoRecord == [status |-> "none", policyCleared |-> FALSE, mandate |-> NoMandate,
             pinned |-> FALSE, archived |-> FALSE, expired |-> FALSE]

IdleCall == [pc |-> "idle", op |-> "none", agent |-> NoAgent,
             mandate |-> NoMandate, prepare |-> NoPrepare, pinned |-> FALSE]

NotPrepared(s) == [state |-> s, kind |-> "none", agent |-> NoAgent,
                   mandate |-> NoMandate]

Exists(a)  == record[a].status # "none"
Revoked(a) == record[a].status = "revoked"
CanAct(a)  == record[a].status = "active" /\ ~record[a].expired

Hiring(a) == \E c \in Calls : call[c].op = "hire" /\ call[c].agent = a

(* What `assertUnderAgentLimit` counts. *)
HeldAgents == {a \in Agents : Exists(a) /\ ~record[a].archived}

(* The rules in the PATCH a call has out. *)
Request(c) == IF call[c].op \in {"revoke", "commitRevoke"}
              THEN Exit(call[c].mandate)
              ELSE Compile(call[c].mandate, TRUE)

(* Mutant of Enqueue: the tail remembers the agent, not the call. *)
EnqueueAgent(c, op, a, m, p) ==
  /\ call[c].pc = "idle"
  /\ locks' = [locks EXCEPT ![a] = Append(@, a)]
  /\ call' = [call EXCEPT ![c] = [pc |-> "queued", op |-> op, agent |-> a,
                                  mandate |-> m, prepare |-> p, pinned |-> FALSE]]
  /\ UNCHANGED <<record, enclave, prepared>>

(* `withAgentLock`: a call runs once every earlier call on the agent settled. *)
Enqueue(c, op, a, m, p) ==
  /\ call[c].pc = "idle"
  /\ locks' = [locks EXCEPT ![a] = Append(@, c)]
  /\ call' = [call EXCEPT ![c] = [pc |-> "queued", op |-> op, agent |-> a,
                                  mandate |-> m, prepare |-> p, pinned |-> FALSE]]
  /\ UNCHANGED <<record, enclave, prepared>>

(* Mutant of HoldsLock: calls on one agent do not wait for each other. *)
HoldsLockAtOnce(c) == locks[call[c].agent] # <<>>

HoldsLock(c) == /\ locks[call[c].agent] # <<>>
                /\ Head(locks[call[c].agent]) = c

Runs(c, op) == /\ call[c].pc = "queued"
               /\ call[c].op = op
               /\ HoldsLock(c)

(* Mutant of Return: a call that settles never leaves the queue. *)
ReturnHoldingLock(c) == /\ call' = [call EXCEPT ![c] = IdleCall]
                        /\ UNCHANGED locks

(* The call settles, returning or throwing, and the next one may run. *)
Return(c) == /\ call' = [call EXCEPT ![c] = IdleCall]
             /\ locks' = [locks EXCEPT ![call[c].agent] = Tail(@)]

At(x, pc, m) == [x EXCEPT !.pc = pc, !.mandate = m]

(* The call goes on holding the lock: to the enclave, or to the balances. *)
Proceed(c, pc, m) == /\ call' = [call EXCEPT ![c] = At(call[c], pc, m)]
                     /\ UNCHANGED locks

(* The owner uses an agent the store knows.  In an ordinary hire that is
   once the hire answered, but the agent is listed as soon as it is stored. *)
OwnerSees(a) == /\ Exists(a)
                /\ OwnerActsDuringHire \/ ~Hiring(a)
-------------------------------------------------------------------------------
Init == /\ record = [a \in Agents |-> NoRecord]
        /\ enclave = [a \in Agents |-> NoRules]
        /\ prepared = [p \in PrepareIds |-> NotPrepared("unused")]
        /\ locks = [a \in Agents |-> <<>>]
        /\ call = [c \in Calls |-> IdleCall]

(***************************************************************************)
(* Hire.                                                                   *)
(***************************************************************************)

(* The checks, then the wallet and its policy in one provisioning.  `a` is a
   random UUID, so no earlier hire, orphaned or not, used it. *)
Provision(c, a, m) ==
  /\ call[c].pc = "idle"
  /\ enclave[a] = NoRules
  /\ ~Hiring(a)
  /\ Cardinality(HeldAgents) < MaxAgents
  /\ enclave' = [enclave EXCEPT ![a] = Compile(m, FALSE)]
  /\ call' = [call EXCEPT ![c] = [IdleCall EXCEPT !.pc = "provisioned", !.op = "hire",
                                                  !.agent = a, !.mandate = m]]
  /\ UNCHANGED <<record, prepared, locks>>

Hire(c) == \E a \in Agents, m \in Mandates : Provision(c, a, m)

(* A fork is a hire of a live agent's strategy under a mandate of its own. *)
Fork(c) == \E a, source \in Agents, m \in Mandates :
             /\ record[source].status = "active"
             /\ ~record[source].archived
             /\ Provision(c, a, m)

(* The record is stored, and the agent is visible from here on.  A
   server-owned agent whose deposits are not pinned goes on to the pinning
   PATCH, sent in the same stretch and outside the agent's lock. *)
HireStored(c) ==
  LET a == call[c].agent
      m == call[c].mandate
      pin == m \notin KuruMandates
  IN /\ call[c].pc = "provisioned"
     /\ record' = [record EXCEPT ![a] =
          [status |-> "active", policyCleared |-> FALSE, mandate |-> m,
           pinned |-> pin, archived |-> FALSE, expired |-> FALSE]]
     /\ call' = [call EXCEPT ![c].pc =
          IF OwnerMode = "server" /\ ~pin THEN "sent" ELSE "finishing"]
     /\ UNCHANGED <<enclave, prepared, locks>>

(* Mutant of PinAnswered: the flag is set whatever became of the pin. *)
PinAnsweredAnyway(c) ==
  /\ call[c].op = "hire"
  /\ call[c].pc \in {"sent", "applied"}
  /\ call' = [call EXCEPT ![c] = [@ EXCEPT !.pc = "finishing", !.pinned = TRUE]]
  /\ UNCHANGED <<record, enclave, prepared, locks>>

(* The pin's answer.  A failed pin leaves the flag as it was. *)
PinAnswered(c) ==
  /\ call[c].op = "hire"
  /\ \/ /\ call[c].pc = "applied"
        /\ call' = [call EXCEPT ![c] = [@ EXCEPT !.pc = "finishing", !.pinned = TRUE]]
     \/ /\ call[c].pc = "sent" \/ (call[c].pc = "applied" /\ "lost" \in Faults)
        /\ call' = [call EXCEPT ![c].pc = "finishing"]
  /\ UNCHANGED <<record, enclave, prepared, locks>>

(* Identity, gas and deposit watching are done; their outcomes and the pin
   are merged into whatever the record now says. *)
HireReturns(c) ==
  /\ call[c].op = "hire"
  /\ call[c].pc = "finishing"
  /\ record' = [record EXCEPT ![call[c].agent].pinned = @ \/ call[c].pinned]
  /\ call' = [call EXCEPT ![c] = IdleCall]
  /\ UNCHANGED <<enclave, prepared, locks>>

(***************************************************************************)
(* Amend and revoke of a server-owned agent.                               *)
(***************************************************************************)

Amend(c) == \E a \in Agents, m \in Mandates :
              /\ OwnerSees(a)
              /\ OwnerMode = "server"
              /\ Enqueue(c, "amend", a, m, NoPrepare)

(* Mutant of AmendRuns: the status is not checked again under the lock. *)
AmendRunsUnchecked(c) ==
  /\ Runs(c, "amend")
  /\ Proceed(c, "sent", call[c].mandate)
  /\ UNCHANGED <<record, enclave, prepared>>

AmendRuns(c) ==
  /\ Runs(c, "amend")
  /\ IF Revoked(call[c].agent) THEN Return(c) ELSE Proceed(c, "sent", call[c].mandate)
  /\ UNCHANGED <<record, enclave, prepared>>

Revoke(c) == \E a \in Agents :
               /\ OwnerSees(a)
               /\ OwnerMode = "server"
               /\ Enqueue(c, "revoke", a, NoMandate, NoPrepare)

(* Mutant of RevokeRuns: the enclave is asked first, the status never flips. *)
RevokeRunsLate(c) ==
  LET a == call[c].agent
  IN /\ Runs(c, "revoke")
     /\ IF Revoked(a) /\ record[a].policyCleared
        THEN Return(c)
        ELSE Proceed(c, "sent", record[a].mandate)
     /\ UNCHANGED <<record, enclave, prepared>>

(* The status flips before the enclave is asked, so a revoked agent stops
   even if the PATCH fails; the exit is compiled from the stored mandate. *)
RevokeRuns(c) ==
  LET a == call[c].agent
  IN /\ Runs(c, "revoke")
     /\ IF Revoked(a) /\ record[a].policyCleared
        THEN Return(c) /\ UNCHANGED record
        ELSE /\ record' = [record EXCEPT ![a].status = "revoked"]
             /\ Proceed(c, "sent", record[a].mandate)
     /\ UNCHANGED <<enclave, prepared>>

(***************************************************************************)
(* The enclave, and the answers to a PATCH sent under the agent's lock.    *)
(***************************************************************************)

(* Privy takes the PATCH: the new rules bound the wallet from here on.  One
   it refuses, or that never arrives, leaves the call "sent". *)
EnclaveApplies(c) ==
  /\ call[c].pc = "sent"
  /\ enclave' = [enclave EXCEPT ![call[c].agent] = Request(c)]
  /\ call' = [call EXCEPT ![c].pc = "applied"]
  /\ UNCHANGED <<record, prepared, locks>>

(* Mutant of AmendSucceeds: the record is written before the enclave answers. *)
AmendSucceedsEarly(c) ==
  /\ call[c].op \in {"amend", "commitAmend"}
  /\ call[c].pc \in {"sent", "applied"}
  /\ record' = [record EXCEPT ![call[c].agent] =
       [@ EXCEPT !.mandate = call[c].mandate, !.pinned = TRUE, !.expired = FALSE]]
  /\ Return(c)
  /\ UNCHANGED <<enclave, prepared>>

(* `mandateChange`: the record follows the enclave. *)
AmendSucceeds(c) ==
  /\ call[c].op \in {"amend", "commitAmend"}
  /\ call[c].pc = "applied"
  /\ record' = [record EXCEPT ![call[c].agent] =
       [@ EXCEPT !.mandate = call[c].mandate, !.pinned = TRUE, !.expired = FALSE]]
  /\ Return(c)
  /\ UNCHANGED <<enclave, prepared>>

RevokeSucceeds(c) ==
  /\ call[c].op \in {"revoke", "commitRevoke"}
  /\ call[c].pc = "applied"
  /\ record' = [record EXCEPT ![call[c].agent].policyCleared = TRUE]
  /\ Return(c)
  /\ UNCHANGED <<enclave, prepared>>

(* Refused, unreachable, or done with the answer lost: the call throws and
   the record stays as it is. *)
PatchFails(c) ==
  /\ call[c].op \in {"amend", "revoke", "commitAmend", "commitRevoke"}
  /\ \/ call[c].pc = "sent"
     \/ call[c].pc = "applied" /\ "lost" \in Faults
  /\ Return(c)
  /\ UNCHANGED <<record, enclave, prepared>>

(***************************************************************************)
(* Prepare and commit, for an agent whose policy its owner's phone holds.  *)
(***************************************************************************)

(* A random UUID: no prepare had it before. *)
Fresh(p) == /\ prepared[p].state = "unused"
            /\ \A c \in Calls : call[c].prepare # p

(* `put`: at most one live prepare per user and subject. *)
Put(p, kind, a, m) ==
  prepared' = [q \in PrepareIds |->
    IF q = p THEN [state |-> "held", kind |-> kind, agent |-> a, mandate |-> m]
    ELSE IF prepared[q].state = "held" /\ prepared[q].agent = a
         THEN NotPrepared("gone")
         ELSE prepared[q]]

(* Not under the lock: the record is read, then the mandate is resolved (a
   wallet lookup and, for Perpl, a read of the exchange). *)
PrepareAmend(c) == \E a \in Agents, m \in Mandates, p \in PrepareIds :
  /\ OwnerSees(a)
  /\ Fresh(p)
  /\ OwnerMode = "device"
  /\ ~Revoked(a)
  /\ call[c].pc = "idle"
  /\ call' = [call EXCEPT ![c] = [IdleCall EXCEPT !.pc = "parsing",
                                  !.op = "prepareAmend", !.agent = a, !.mandate = m,
                                  !.prepare = p]]
  /\ UNCHANGED <<record, enclave, prepared, locks>>

PrepareAmendReturns(c) ==
  /\ call[c].pc = "parsing"
  /\ Put(call[c].prepare, "mandate_amend", call[c].agent, call[c].mandate)
  /\ call' = [call EXCEPT ![c] = IdleCall]
  /\ UNCHANGED <<record, enclave, locks>>

(* Everything between the read and the `put` is local, so it is one step. *)
PrepareRevoke == \E a \in Agents, p \in PrepareIds :
  /\ OwnerSees(a)
  /\ Fresh(p)
  /\ OwnerMode = "device"
  /\ ~(Revoked(a) /\ record[a].policyCleared)
  /\ Put(p, "mandate_revoke", a, record[a].mandate)
  /\ UNCHANGED <<record, enclave, locks, call>>

(* After PREPARED_APPROVAL_TTL_MS `take` answers nothing and `sweep` drops it. *)
PrepareExpires == \E p \in PrepareIds :
  /\ prepared[p].state = "held"
  /\ prepared' = [prepared EXCEPT ![p] = NotPrepared("gone")]
  /\ UNCHANGED <<record, enclave, locks, call>>

(* The phone signed prepare p, once or again, and posts it. *)
Commit(c) == \E a \in Agents, p \in PrepareIds, op \in {"commitAmend", "commitRevoke"} :
  /\ OwnerSees(a)
  /\ OwnerMode = "device"
  /\ prepared[p].state # "unused"
  /\ Enqueue(c, op, a, NoMandate, p)

(* Mutant of Take: the prepare is read, not spent. *)
TakeKeeps(p) == p \in PrepareIds /\ UNCHANGED prepared

(* `take` spends the prepare whatever it turns out to be for. *)
Take(p) == prepared' = [prepared EXCEPT ![p] = NotPrepared("gone")]

Matches(c, kind) == LET p == prepared[call[c].prepare]
                    IN p.state = "held" /\ p.kind = kind /\ p.agent = call[c].agent

CommitAmendRuns(c) ==
  LET p == call[c].prepare
  IN /\ Runs(c, "commitAmend")
     /\ Take(p)
     /\ IF Matches(c, "mandate_amend") /\ ~Revoked(call[c].agent)
        THEN Proceed(c, "sent", prepared[p].mandate)
        ELSE Return(c)
     /\ UNCHANGED <<record, enclave>>

CommitRevokeRuns(c) ==
  LET p == call[c].prepare
  IN /\ Runs(c, "commitRevoke")
     /\ Take(p)
     /\ IF Matches(c, "mandate_revoke")
        THEN /\ record' = [record EXCEPT ![call[c].agent].status = "revoked"]
             /\ Proceed(c, "sent", prepared[p].mandate)
        ELSE Return(c) /\ UNCHANGED record
     /\ UNCHANGED enclave

(***************************************************************************)
(* Archive.                                                                *)
(***************************************************************************)

Archive(c) == \E a \in Agents : /\ OwnerSees(a)
                                /\ Enqueue(c, "archive", a, NoMandate, NoPrepare)

ArchiveRuns(c) ==
  /\ Runs(c, "archive")
  /\ IF record[call[c].agent].archived \/ CanAct(call[c].agent)
     THEN Return(c)
     ELSE Proceed(c, "funds", NoMandate)
  /\ UNCHANGED <<record, enclave, prepared>>

(* Funds left, or a balance that cannot be read, refuse the archive. *)
ArchiveReturns(c) ==
  /\ call[c].pc = "funds"
  /\ \E emptied \in BOOLEAN :
       record' = [record EXCEPT ![call[c].agent].archived = emptied]
  /\ Return(c)
  /\ UNCHANGED <<enclave, prepared>>

Unarchive(c) == \E a \in Agents : /\ OwnerSees(a)
                                  /\ Enqueue(c, "unarchive", a, NoMandate, NoPrepare)

UnarchiveRuns(c) ==
  /\ Runs(c, "unarchive")
  /\ record' = [record EXCEPT ![call[c].agent].archived = FALSE]
  /\ Return(c)
  /\ UNCHANGED <<enclave, prepared>>

(***************************************************************************)
(* Time and crashes.                                                       *)
(***************************************************************************)

MandateExpires == \E a \in Agents :
  /\ CanAct(a)
  /\ record' = [record EXCEPT ![a].expired = TRUE]
  /\ UNCHANGED <<enclave, prepared, locks, call>>

(* The process dies and starts again: the calls, the locks and the prepared
   changes go with it.  A PATCH the enclave has not taken by then is lost. *)
Crash ==
  /\ "crash" \in Faults
  /\ locks' = [a \in Agents |-> <<>>]
  /\ call' = [c \in Calls |-> IdleCall]
  /\ prepared' = [p \in PrepareIds |-> IF prepared[p].state = "unused"
                                       THEN prepared[p] ELSE NotPrepared("gone")]
  /\ UNCHANGED <<record, enclave>>

-------------------------------------------------------------------------------
(* The steps the server, and the enclave behind it, take on their own. *)
Progress(c) ==
  \/ HireStored(c) \/ PinAnswered(c) \/ HireReturns(c)
  \/ AmendRuns(c) \/ RevokeRuns(c) \/ EnclaveApplies(c)
  \/ AmendSucceeds(c) \/ RevokeSucceeds(c) \/ PatchFails(c)
  \/ PrepareAmendReturns(c) \/ CommitAmendRuns(c) \/ CommitRevokeRuns(c)
  \/ ArchiveRuns(c) \/ ArchiveReturns(c) \/ UnarchiveRuns(c)

(* What the owner asks for. *)
Requests(c) ==
  \/ Hire(c) \/ Fork(c) \/ Amend(c) \/ Revoke(c) \/ PrepareAmend(c)
  \/ Commit(c) \/ Archive(c) \/ Unarchive(c)

Next == \/ \E c \in Calls : Progress(c) \/ Requests(c)
        \/ PrepareRevoke \/ PrepareExpires \/ MandateExpires \/ Crash

Spec == Init /\ [][Next]_vars

(* A request being handled is eventually handled: promises settle, and the
   HTTP client gives up on an enclave that never answers. *)
Fairness == \A c \in Calls : WF_vars(Progress(c))

FairSpec == Spec /\ Fairness

-------------------------------------------------------------------------------
(* Properties. *)

InFlight(a) == {c \in Calls : call[c].agent = a /\ call[c].pc \in {"sent", "applied"}}

(* A wallet whose record says its policy was cleared can only send its funds
   home: nothing that was still running when it was revoked re-armed it (the
   hazard withAgentLock is for). *)
ClearedMeansExitOnly ==
  \A a \in Agents : Revoked(a) /\ record[a].policyCleared => enclave[a] \in ExitRules

(* Once an agent is revoked its wallet is never given authority again, by a
   late amend, a late pin, a stale approval or a retry. *)
RevokedOnlyNarrows ==
  [][\A a \in Agents : Revoked(a) => enclave'[a] \in {enclave[a]} \cup ExitRules]_vars

(* The stored mandate changes only to one the enclave is enforcing at that
   moment, so what the app shows is never ahead of what binds the wallet. *)
RecordFollowsEnclave ==
  [][\A a \in Agents :
       Exists(a) /\ record'[a].mandate # record[a].mandate =>
         enclave[a] = Compile(record'[a].mandate, TRUE)]_vars

(* When no PATCH is out, an active agent's stored mandate is the one its
   policy was compiled from (agents.service.ts:961: if the provider fails,
   the stored mandate stays the old one, which the enclave still enforces). *)
StoredMandateIsEnforced ==
  \A a \in Agents :
    record[a].status = "active" /\ InFlight(a) = {} =>
      enclave[a].kind = "full" /\ enclave[a].mandate = record[a].mandate

(* The deposit tool trusts `kuruDepositPinned`: while it says so, the live
   policy has no deposit rule that could credit a stranger's account. *)
PinnedFlagIsTrue ==
  \A a \in Agents : record[a].pinned => enclave[a].pinned

(* A signature is spendable once: a prepare whose PATCH is out is no longer
   held, and no two calls ever carry the same one to the enclave; and what the
   owner is looking at is the only thing that can be committed
   (prepared-approval.ts:119). *)
ApprovalsAreSingleUse ==
  /\ \A c \in Calls : call[c].pc \in {"sent", "applied"} /\ call[c].prepare # NoPrepare =>
       /\ prepared[call[c].prepare].state = "gone"
       /\ \A d \in Calls \ {c} : call[d].pc \in {"sent", "applied"} =>
                                  call[d].prepare # call[c].prepare
  /\ \A p, q \in PrepareIds :
       prepared[p].state = "held" /\ prepared[q].state = "held"
         /\ prepared[p].agent = prepared[q].agent => p = q

(* The calls withAgentLock serialises never overlap on an agent. *)
Locked(c) == call[c].pc \in {"sent", "applied", "funds"} /\ call[c].op # "hire"

LockIsExclusive ==
  \A c, d \in Calls :
    Locked(c) /\ Locked(d) /\ call[c].agent = call[d].agent => c = d

(* Every request is answered: no lock is held for good by a call that failed,
   and none waits for one that died. *)
EveryCallReturns == \A c \in Calls : call[c].pc # "idle" ~> call[c].pc = "idle"

-------------------------------------------------------------------------------
(* AgentMandate implements what MandateAuthority promises. *)

Stage(a) == IF ~Revoked(a) THEN record[a].status
            ELSE IF record[a].policyCleared THEN "sealed" ELSE "revoked"

Promise == INSTANCE MandateAuthority
             WITH authority <- enclave, stage <- [a \in Agents |-> Stage(a)]

AuthorityIsPromised == Promise!Spec
===============================================================================
