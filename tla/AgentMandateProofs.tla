-------------------------- MODULE AgentMandateProofs --------------------------
(***************************************************************************)
(* Proofs about AgentMandate, for any agents, calls, mandates and limits.  *)
(*                                                                         *)
(* CallInv says how the calls, the locks and the records fit together; it  *)
(* holds whatever the owner does.  AuthorityInv adds what the enclave      *)
(* holds, and needs SafePins: without it a pin can land after a revoke.    *)
(* ApprovalInv adds which prepare each call carries, whatever the owner    *)
(* does.                                                                   *)
(***************************************************************************)
EXTENDS AgentMandate, SequenceTheorems, TLAPS

(* The pin of a running hire cannot meet a call of the agent's owner. *)
SafePins == OwnerMode = "device" \/ ~OwnerActsDuringHire

LockedOps == {"amend", "revoke", "commitAmend", "commitRevoke", "archive", "unarchive"}
PatchOps  == {"amend", "revoke", "commitAmend", "commitRevoke"}

(* Which operation a call x may be at each point of. *)
Shape(x) ==
  /\ x.pc = "idle" => x.op = "none" /\ x.agent = NoAgent
  /\ x.pc # "idle" => x.agent \in Agents
  /\ x.pc \in {"provisioned", "finishing"} => x.op = "hire"
  /\ x.pc = "parsing" => x.op = "prepareAmend"
  /\ x.pc = "queued" => x.op \in LockedOps
  /\ x.pc = "funds" => x.op = "archive"
  /\ x.pc \in {"sent", "applied"} =>
       /\ x.op \in PatchOps \/ (x.op = "hire" /\ OwnerMode = "server")
       /\ x.mandate \in Mandates
  /\ x.op \in {"hire", "amend", "prepareAmend"} => x.mandate \in Mandates
  /\ x.op \in {"prepareAmend", "commitAmend", "commitRevoke"} => x.prepare \in PrepareIds

CallShape == \A c \in Calls : Shape(call[c])

(* A record, and a held prepare, name a mandate. *)
RecordShape ==
  /\ \A a \in Agents : Exists(a) => record[a].mandate \in Mandates /\ enclave[a] # NoRules
  /\ \A p \in PrepareIds : prepared[p].state = "held" => prepared[p].mandate \in Mandates

(* Only a hire works on an agent the store does not know, one hire at a
   time, and it stores it once. *)
HireShape ==
  /\ \A c \in Calls : call[c].pc # "idle" /\ call[c].op # "hire" => Exists(call[c].agent)
  /\ \A c \in Calls : call[c].op = "hire" => enclave[call[c].agent] # NoRules
  /\ \A c \in Calls : call[c].pc = "provisioned" => ~Exists(call[c].agent)
  /\ \A c \in Calls : call[c].op = "hire" /\ call[c].pc # "provisioned" => Exists(call[c].agent)
  /\ \A c, d \in Calls : call[c].op = "hire" /\ call[d].op = "hire"
                           /\ call[c].agent = call[d].agent => c = d

(* A call past the lock is the head of its agent's queue. *)
LockInv == \A c \in Calls : Locked(c) => HoldsLock(c)

CallInv == TypeOK /\ CallShape /\ RecordShape /\ HireShape /\ LockInv

(* While the owner waits for its hires, a hire is alone on its agent. *)
HireAlone ==
  ~OwnerActsDuringHire =>
    \A c, d \in Calls : call[c].op = "hire" /\ call[d].agent = call[c].agent => c = d

(* A PATCH with trading rules is out only for an agent that is not revoked,
   and an answered revoke has left the exit behind. *)
PatchInv ==
  \A c \in Calls : call[c].pc \in {"sent", "applied"} =>
    /\ call[c].op \in {"hire", "amend", "commitAmend"} => ~Revoked(call[c].agent)
    /\ call[c].op \in {"revoke", "commitRevoke"} => Revoked(call[c].agent)
    /\ call[c].op \in {"revoke", "commitRevoke"} /\ call[c].pc = "applied" =>
         enclave[call[c].agent] \in ExitRules

(* The status flips before the policy is cleared. *)
RevokedFirst == \A a \in Agents : record[a].policyCleared => Revoked(a)

AuthorityInv == CallInv /\ HireAlone /\ PatchInv /\ RevokedFirst /\ ClearedMeansExitOnly

(* The values the code assigns belong to their types. *)
LEMMA Values ==
  /\ "idle" \in Pcs /\ "provisioned" \in Pcs /\ "finishing" \in Pcs
  /\ "parsing" \in Pcs /\ "queued" \in Pcs /\ "sent" \in Pcs
  /\ "applied" \in Pcs /\ "funds" \in Pcs
  /\ "none" \in Ops /\ "hire" \in Ops /\ "prepareAmend" \in Ops
  /\ LockedOps \subseteq Ops
  /\ "active" \in Statuses /\ "revoked" \in Statuses /\ "none" \in Statuses
  /\ "mandate_amend" \in Kinds /\ "mandate_revoke" \in Kinds /\ "none" \in Kinds
  /\ "held" \in HoldStates /\ "gone" \in HoldStates /\ "unused" \in HoldStates
  BY DEF Pcs, Ops, LockedOps, Statuses, Kinds, HoldStates

LEMMA EmptyValues ==
  /\ IdleCall \in CallStates
  /\ NoRecord \in AgentRecords
  /\ NotPrepared("unused") \in PreparedStates
  /\ NotPrepared("gone") \in PreparedStates
  BY Values DEF IdleCall, NoRecord, NotPrepared, CallStates, AgentRecords, PreparedStates

LEMMA IdleShape == Shape(IdleCall)
  BY DEF Shape, IdleCall

(* A compiled policy lets the agent trade, and is not the empty one. *)
LEMMA CompileType ==
  ASSUME NEW m \in Mandates, NEW b \in BOOLEAN
  PROVE  Compile(m, b) \in TradeRules /\ Compile(m, b) # NoRules
<1>1. \A pin \in BOOLEAN : Full(m, pin) \in TradeRules /\ Full(m, pin) # NoRules
  BY DEF Full, TradeRules, NoRules
<1>2. CASE b \/ m \notin KuruMandates
  <2>1. Compile(m, b) = Full(m, TRUE)
    BY <1>2, Zenon DEF Compile
  <2> QED BY <1>1, <2>1
<1>3. CASE ~(b \/ m \notin KuruMandates)
  <2>1. Compile(m, b) = Full(m, FALSE)
    BY <1>3, Zenon DEF Compile
  <2> QED BY <1>1, <2>1
<1> QED BY <1>2, <1>3

LEMMA ExitType ==
  ASSUME NEW m \in Mandates
  PROVE  Exit(m) \in ExitRules /\ Exit(m) # NoRules
  BY DEF Exit, ExitRules, NoRules

(* The rules of a PATCH are a policy. *)
LEMMA RequestType ==
  ASSUME NEW c \in Calls, call[c].mandate \in Mandates
  PROVE  Request(c) \in TradeRules \cup ExitRules /\ Request(c) # NoRules
<1>1. CASE call[c].op \in {"revoke", "commitRevoke"}
  BY <1>1, ExitType DEF Request
<1>2. CASE call[c].op \notin {"revoke", "commitRevoke"}
  <2>1. Compile(call[c].mandate, TRUE) \in TradeRules
        /\ Compile(call[c].mandate, TRUE) # NoRules
    BY CompileType
  <2> QED BY <1>2, <2>1 DEF Request
<1> QED BY <1>1, <1>2

(***************************************************************************)
(* What each way of moving a call along does to the calls and the locks.   *)
(***************************************************************************)

(* A call that settles leaves the queue to the next one. *)
LEMMA ReturnStep ==
  ASSUME CallInv, NEW c \in Calls, call[c].pc # "idle", call[c].op # "hire",
         HoldsLock(c), Return(c), UNCHANGED enclave,
         \A a \in Agents : Exists(a)' <=> Exists(a)
  PROVE  /\ call' \in [Calls -> CallStates]
         /\ locks' \in [Agents -> Seq(Calls)]
         /\ CallShape' /\ HireShape' /\ LockInv'
<1> DEFINE a == call[c].agent
<1>1. a \in Agents /\ locks[a] \in Seq(Calls) /\ locks[a] # <<>> /\ Head(locks[a]) = c
  BY DEF CallInv, CallShape, Shape, HoldsLock, TypeOK
<1>2. /\ call' = [call EXCEPT ![c] = IdleCall]
      /\ locks' = [locks EXCEPT ![a] = Tail(@)]
      /\ call'[c] = IdleCall
      /\ \A d \in Calls \ {c} : call'[d] = call[d]
  BY DEF Return, CallInv, TypeOK
<1>3. call' \in [Calls -> CallStates]
  BY <1>2, EmptyValues DEF CallInv, TypeOK
<1>4. locks' \in [Agents -> Seq(Calls)]
  BY <1>1, <1>2 DEF CallInv, TypeOK
<1>5. CallShape'
  BY <1>2, IdleShape DEF CallInv, CallShape
<1>6. HireShape'
  <2>1. call'[c].pc = "idle" /\ call'[c].op = "none"
    BY <1>2 DEF IdleCall
  <2>2. \A d \in Calls : call[d].op = "hire" => call[d].agent \in Agents
    BY DEF CallInv, CallShape, Shape
  <2>3. \A d \in Calls : call[d].pc # "idle" => call[d].agent \in Agents
    BY DEF CallInv, CallShape, Shape
  <2> QED BY <1>2, <2>1, <2>2, <2>3 DEF CallInv, HireShape, Exists
<1>7. LockInv'
  <2> SUFFICES ASSUME NEW d \in Calls, Locked(d)' PROVE HoldsLock(d)'
    BY DEF LockInv
  <2>1. d # c /\ call'[d] = call[d] /\ Locked(d)
    BY <1>2 DEF Locked, IdleCall
  <2>2. HoldsLock(d) /\ call[d].agent \in Agents
    BY <2>1 DEF CallInv, LockInv, CallShape, Shape, Locked
  <2>3. call[d].agent # a
    BY <1>1, <2>1, <2>2 DEF HoldsLock
  <2> QED BY <1>2, <2>1, <2>2, <2>3 DEF HoldsLock, CallInv, TypeOK
<1> QED BY <1>3, <1>4, <1>5, <1>6, <1>7

(* A call that asks for the lock goes to the end of the queue. *)
LEMMA EnqueueStep ==
  ASSUME CallInv, NEW c \in Calls, NEW op \in LockedOps, NEW a \in Agents,
         NEW m \in Mandates \cup {NoMandate}, NEW p \in PrepareIds \cup {NoPrepare},
         op = "amend" => m \in Mandates,
         op \in {"commitAmend", "commitRevoke"} => p \in PrepareIds,
         Exists(a), Enqueue(c, op, a, m, p)
  PROVE  CallInv'
<1> DEFINE q == [pc |-> "queued", op |-> op, agent |-> a, mandate |-> m,
                 prepare |-> p, pinned |-> FALSE]
<1>1. /\ call[c].pc = "idle"
      /\ call' = [call EXCEPT ![c] = q]
      /\ call'[c] = q
      /\ \A d \in Calls \ {c} : call'[d] = call[d]
      /\ locks' = [locks EXCEPT ![a] = Append(@, c)]
      /\ UNCHANGED <<record, enclave, prepared>>
  BY DEF Enqueue, CallInv, TypeOK
<1>2. q \in CallStates
  BY Values DEF CallStates
<1>3. locks[a] \in Seq(Calls) /\ Append(locks[a], c) \in Seq(Calls)
  BY DEF CallInv, TypeOK
<1>4. TypeOK'
  BY <1>1, <1>2, <1>3 DEF CallInv, TypeOK
<1>5. CallShape'
  <2>1. Shape(q)
    BY DEF Shape, LockedOps
  <2> QED BY <1>1, <2>1 DEF CallInv, CallShape
<1>6. RecordShape'
  BY <1>1 DEF CallInv, RecordShape, Exists
<1>7. HireShape'
  BY <1>1 DEF CallInv, HireShape, Exists, LockedOps
<1>8. LockInv'
  <2> SUFFICES ASSUME NEW d \in Calls, Locked(d)' PROVE HoldsLock(d)'
    BY DEF LockInv
  <2>1. d # c /\ call'[d] = call[d] /\ Locked(d)
    BY <1>1 DEF Locked
  <2>2. HoldsLock(d) /\ call[d].agent \in Agents
    BY <2>1 DEF CallInv, LockInv, CallShape, Shape, Locked
  <2>3. CASE call[d].agent # a
    BY <1>1, <2>1, <2>2, <2>3 DEF HoldsLock, CallInv, TypeOK
  <2>4. CASE call[d].agent = a
    <3>1. locks[a] # <<>> /\ Head(locks[a]) = d
      BY <2>2, <2>4 DEF HoldsLock
    <3>2. Append(locks[a], c) # <<>> /\ Head(Append(locks[a], c)) = d
      BY <3>1, <1>3
    <3>3. locks'[a] = Append(locks[a], c)
      BY <1>1 DEF CallInv, TypeOK
    <3> QED BY <2>1, <2>4, <3>2, <3>3 DEF HoldsLock
  <2> QED BY <2>3, <2>4
<1> QED BY <1>4, <1>5, <1>6, <1>7, <1>8 DEF CallInv

(* A call that runs under the lock goes on as q, still holding it. *)
LEMMA ProceedStep ==
  ASSUME CallInv, NEW c \in Calls, call[c].pc = "queued", HoldsLock(c),
         NEW q \in CallStates, q.op = call[c].op, q.agent = call[c].agent,
         q.pc # "provisioned", Shape(q),
         call' = [call EXCEPT ![c] = q], UNCHANGED <<locks, enclave>>,
         \A a \in Agents : Exists(a)' <=> Exists(a)
  PROVE  /\ call' \in [Calls -> CallStates]
         /\ CallShape' /\ HireShape' /\ LockInv'
<1>1. /\ call' \in [Calls -> CallStates]
      /\ call'[c] = q
      /\ \A d \in Calls \ {c} : call'[d] = call[d]
  BY DEF CallInv, TypeOK
<1>2. Shape(call[c])
  BY DEF CallInv, CallShape
<1>3. call[c].op \in LockedOps /\ call[c].agent \in Agents
  BY <1>2 DEF Shape
<1>4. CallShape'
  BY <1>1 DEF CallInv, CallShape
<1>5. HireShape'
  <2>1. call[c].op # "hire"
    BY <1>3 DEF LockedOps
  <2>2. \A d \in Calls : call'[d].agent = call[d].agent /\ call'[d].op = call[d].op
    BY <1>1
  <2>3. \A d \in Calls : call[d].op = "hire" => call[d].agent \in Agents
    BY DEF CallInv, CallShape, Shape
  <2>4. \A d \in Calls : call[d].pc # "idle" => call[d].agent \in Agents
    BY DEF CallInv, CallShape, Shape
  <2> QED BY <1>1, <1>3, <2>1, <2>2, <2>3, <2>4 DEF CallInv, HireShape, Exists
<1>6. LockInv'
  BY <1>1 DEF CallInv, LockInv, Locked, HoldsLock
<1> QED BY <1>1, <1>4, <1>5, <1>6

(***************************************************************************)
(* CallInv is inductive, one action at a time.                             *)
(***************************************************************************)

(* What the invariant says of a call that runs under the lock. *)
LEMMA RunsFacts ==
  ASSUME CallInv, NEW c \in Calls, call[c].pc # "idle", call[c].op # "hire"
  PROVE  call[c].agent \in Agents /\ Exists(call[c].agent)
         /\ record[call[c].agent].mandate \in Mandates
  BY DEF CallInv, CallShape, Shape, HireShape, RecordShape

(* Changing a stored record, or the policy of one agent, keeps its shape. *)
LEMMA RecordUpdate ==
  ASSUME record \in [Agents -> AgentRecords], NEW a \in Agents, NEW r \in AgentRecords,
         record' = [record EXCEPT ![a] = r]
  PROVE  /\ record' \in [Agents -> AgentRecords]
         /\ record'[a] = r
         /\ \A b \in Agents \ {a} : record'[b] = record[b]
  OBVIOUS

(* A call that returns: it may update its agent's record, which stays known,
   and spend prepared changes. *)
LEMMA Returns ==
  ASSUME CallInv, NEW c \in Calls, call[c].pc # "idle", call[c].op # "hire",
         HoldsLock(c), Return(c), UNCHANGED enclave,
         NEW r \in AgentRecords, r.status # "none", r.mandate \in Mandates,
         record' = [record EXCEPT ![call[c].agent] = r],
         prepared' \in [PrepareIds -> PreparedStates],
         \A p \in PrepareIds : prepared'[p].state = "held" => prepared'[p] = prepared[p]
  PROVE  CallInv'
<1> DEFINE a == call[c].agent
<1>1. a \in Agents /\ Exists(a)
  BY RunsFacts
<1>2. /\ record' \in [Agents -> AgentRecords] /\ record'[a] = r
      /\ \A b \in Agents \ {a} : record'[b] = record[b]
  BY <1>1 DEF CallInv, TypeOK
<1>3. \A b \in Agents : Exists(b)' <=> Exists(b)
  BY <1>1, <1>2 DEF Exists
<1>4. /\ call' \in [Calls -> CallStates] /\ locks' \in [Agents -> Seq(Calls)]
      /\ CallShape' /\ HireShape' /\ LockInv'
  BY <1>3, ReturnStep
<1>5. TypeOK'
  BY <1>2, <1>4 DEF CallInv, TypeOK
<1>6. RecordShape'
  BY <1>1, <1>2 DEF CallInv, RecordShape, Exists
<1> QED BY <1>4, <1>5, <1>6 DEF CallInv

(* A call that returns and changes nothing else. *)
LEMMA JustReturns ==
  ASSUME CallInv, NEW c \in Calls, call[c].pc # "idle", call[c].op # "hire",
         HoldsLock(c), Return(c), UNCHANGED <<record, enclave, prepared>>
  PROVE  CallInv'
<1> DEFINE a == call[c].agent
<1>1. a \in Agents /\ Exists(a) /\ record[a].mandate \in Mandates
  BY RunsFacts
<1>2. /\ record[a] \in AgentRecords /\ record[a].status # "none"
      /\ record' = [record EXCEPT ![a] = record[a]]
  BY <1>1 DEF CallInv, TypeOK, Exists
<1>3. prepared' \in [PrepareIds -> PreparedStates]
  BY DEF CallInv, TypeOK
<1> QED BY <1>1, <1>2, <1>3, Returns

(* A call under the lock that sends its PATCH or reads the funds. *)
LEMMA Proceeds ==
  ASSUME CallInv, NEW c \in Calls, call[c].pc = "queued", HoldsLock(c),
         NEW q \in CallStates, q.op = call[c].op, q.agent = call[c].agent,
         q.pc # "provisioned", Shape(q),
         call' = [call EXCEPT ![c] = q], UNCHANGED <<locks, enclave>>,
         NEW r \in AgentRecords, r.status # "none", r.mandate \in Mandates,
         record' = [record EXCEPT ![call[c].agent] = r],
         prepared' \in [PrepareIds -> PreparedStates],
         \A p \in PrepareIds : prepared'[p].state = "held" => prepared'[p] = prepared[p]
  PROVE  CallInv'
<1> DEFINE a == call[c].agent
<1>1. call[c].op \in LockedOps
  BY DEF CallInv, CallShape, Shape
<1>2. a \in Agents /\ Exists(a)
  BY <1>1, RunsFacts DEF LockedOps
<1>3. /\ record' \in [Agents -> AgentRecords] /\ record'[a] = r
      /\ \A b \in Agents \ {a} : record'[b] = record[b]
  BY <1>2 DEF CallInv, TypeOK
<1>4. \A b \in Agents : Exists(b)' <=> Exists(b)
  BY <1>2, <1>3 DEF Exists
<1>5. /\ call' \in [Calls -> CallStates]
      /\ CallShape' /\ HireShape' /\ LockInv'
  BY <1>4, ProceedStep
<1>6. TypeOK'
  BY <1>3, <1>5 DEF CallInv, TypeOK
<1>7. RecordShape'
  BY <1>2, <1>3 DEF CallInv, RecordShape, Exists
<1> QED BY <1>5, <1>6, <1>7 DEF CallInv
(* The record a call works on may change any field but its existence. *)
LEMMA RecordFields ==
  ASSUME CallInv, NEW a \in Agents, Exists(a)
  PROVE  /\ record[a] \in AgentRecords /\ record[a].status # "none"
         /\ record[a].mandate \in Mandates
         /\ record = [record EXCEPT ![a] = record[a]]
  BY DEF CallInv, TypeOK, Exists, RecordShape

LEMMA RevokedRecord ==
  ASSUME CallInv, NEW a \in Agents, Exists(a)
  PROVE  LET r == [record[a] EXCEPT !.status = "revoked"]
         IN  /\ r \in AgentRecords /\ r.status = "revoked"
             /\ r.mandate \in Mandates
             /\ r.policyCleared = record[a].policyCleared
             /\ r.mandate = record[a].mandate
  BY RecordFields, Values DEF AgentRecords

(* Spending a prepared change only empties it. *)
LEMMA TakeStep ==
  ASSUME CallInv, NEW p, Take(p)
  PROVE  /\ prepared' \in [PrepareIds -> PreparedStates]
         /\ \A q \in PrepareIds : prepared'[q].state = "held" => prepared'[q] = prepared[q]
<1>1. /\ NotPrepared("gone") \in PreparedStates
      /\ NotPrepared("gone").state # "held"
  BY EmptyValues DEF NotPrepared
<1>2. prepared \in [PrepareIds -> PreparedStates]
  BY DEF CallInv, TypeOK
<1> QED BY <1>1, <1>2 DEF Take

LEMMA SamePrepared ==
  ASSUME CallInv, UNCHANGED prepared
  PROVE  /\ prepared' \in [PrepareIds -> PreparedStates]
         /\ \A q \in PrepareIds : prepared'[q].state = "held" => prepared'[q] = prepared[q]
  BY DEF CallInv, TypeOK

(* Where a call that proceeds ends up. *)
LEMMA AtFields ==
  ASSUME CallInv, NEW c \in Calls, NEW pc \in Pcs, NEW m \in Mandates \cup {NoMandate}
  PROVE  LET q == At(call[c], pc, m)
         IN  /\ q \in CallStates /\ q.op = call[c].op /\ q.agent = call[c].agent
             /\ q.pc = pc /\ q.mandate = m /\ q.prepare = call[c].prepare
  BY DEF CallInv, TypeOK, CallStates, At

LEMMA SentShape ==
  ASSUME CallInv, NEW c \in Calls, NEW m \in Mandates, call[c].pc = "queued",
         call[c].op \in PatchOps
  PROVE  LET q == At(call[c], "sent", m)
         IN  /\ q \in CallStates /\ q.op = call[c].op /\ q.agent = call[c].agent
             /\ q.pc = "sent" /\ q.mandate = m /\ Shape(q)
<1> DEFINE q == At(call[c], "sent", m)
<1>1. /\ q \in CallStates /\ q.op = call[c].op /\ q.agent = call[c].agent
      /\ q.pc = "sent" /\ q.mandate = m /\ q.prepare = call[c].prepare
  BY AtFields, Values
<1>2. Shape(call[c])
  BY DEF CallInv, CallShape
<1> HIDE DEF q
<1>3. q.agent \in Agents
  BY <1>1, <1>2 DEF Shape
<1>4. q.op \in {"commitAmend", "commitRevoke"} => q.prepare \in PrepareIds
  BY <1>1, <1>2 DEF Shape
<1>5. Shape(q)
  BY <1>1, <1>3, <1>4 DEF Shape, PatchOps
<1> QED BY <1>1, <1>5 DEF q

LEMMA FundsShape ==
  ASSUME CallInv, NEW c \in Calls, call[c].pc = "queued", call[c].op = "archive"
  PROVE  LET q == At(call[c], "funds", NoMandate)
         IN  /\ q \in CallStates /\ q.op = call[c].op /\ q.agent = call[c].agent
             /\ q.pc = "funds" /\ Shape(q)
<1> DEFINE q == At(call[c], "funds", NoMandate)
<1>1. /\ q \in CallStates /\ q.op = call[c].op /\ q.agent = call[c].agent
      /\ q.pc = "funds"
  BY AtFields, Values
<1>2. Shape(call[c])
  BY DEF CallInv, CallShape
<1> HIDE DEF q
<1>3. Shape(q)
  BY <1>1, <1>2 DEF Shape
<1> QED BY <1>1, <1>3 DEF q

LEMMA AmendRunsInv == ASSUME CallInv, NEW c \in Calls, AmendRuns(c) PROVE CallInv'
<1> DEFINE a == call[c].agent
           q == At(call[c], "sent", call[c].mandate)
<1>1. /\ call[c].pc = "queued" /\ call[c].op = "amend" /\ HoldsLock(c)
      /\ UNCHANGED <<record, enclave, prepared>>
  BY DEF AmendRuns, Runs
<1>2. CASE Revoked(a)
  BY <1>1, <1>2, JustReturns DEF AmendRuns
<1>3. CASE ~Revoked(a)
  <2>1. call[c].mandate \in Mandates
    BY <1>1 DEF CallInv, CallShape, Shape
  <2>2. /\ q \in CallStates /\ q.op = call[c].op /\ q.agent = a /\ q.pc = "sent" /\ Shape(q)
    BY <1>1, <2>1, SentShape DEF PatchOps
  <2>3. call' = [call EXCEPT ![c] = q] /\ UNCHANGED locks
    BY <1>3 DEF AmendRuns, Proceed, CallInv, TypeOK
  <2>4. /\ a \in Agents /\ Exists(a)
    BY <1>1, RunsFacts
  <2> HIDE DEF q
  <2> QED BY <1>1, <2>2, <2>3, <2>4, RecordFields, SamePrepared, Proceeds
<1> QED BY <1>2, <1>3

LEMMA RevokeRunsInv == ASSUME CallInv, NEW c \in Calls, RevokeRuns(c) PROVE CallInv'
<1> DEFINE a == call[c].agent
           q == At(call[c], "sent", record[a].mandate)
           r == [record[a] EXCEPT !.status = "revoked"]
<1>1. /\ call[c].pc = "queued" /\ call[c].op = "revoke" /\ HoldsLock(c)
      /\ UNCHANGED <<enclave, prepared>>
  BY DEF RevokeRuns, Runs
<1>2. CASE Revoked(a) /\ record[a].policyCleared
  BY <1>1, <1>2, JustReturns DEF RevokeRuns
<1>3. CASE ~(Revoked(a) /\ record[a].policyCleared)
  <2>1. /\ a \in Agents /\ Exists(a) /\ record[a].mandate \in Mandates
    BY <1>1, RunsFacts
  <2>2. /\ q \in CallStates /\ q.op = call[c].op /\ q.agent = a /\ q.pc = "sent" /\ Shape(q)
    BY <1>1, <2>1, SentShape DEF PatchOps
  <2>3. /\ call' = [call EXCEPT ![c] = q] /\ UNCHANGED locks
        /\ record' = [record EXCEPT ![a] = r]
    BY <1>3 DEF RevokeRuns, Proceed, CallInv, TypeOK
  <2>4. r \in AgentRecords /\ r.status # "none" /\ r.mandate \in Mandates
    BY <2>1, RevokedRecord
  <2> HIDE DEF q, r
  <2> QED BY <1>1, <2>2, <2>3, <2>4, SamePrepared, Proceeds
<1> QED BY <1>2, <1>3

LEMMA CommitAmendRunsInv == ASSUME CallInv, NEW c \in Calls, CommitAmendRuns(c) PROVE CallInv'
<1> DEFINE a == call[c].agent
           p == call[c].prepare
           q == At(call[c], "sent", prepared[p].mandate)
<1>1. /\ call[c].pc = "queued" /\ call[c].op = "commitAmend" /\ HoldsLock(c)
      /\ UNCHANGED <<record, enclave>> /\ Take(p)
  BY DEF CommitAmendRuns, Runs
<1>2. /\ a \in Agents /\ Exists(a) /\ p \in PrepareIds
  BY <1>1, RunsFacts DEF CallInv, CallShape, Shape
<1>3. /\ record[a] \in AgentRecords /\ record[a].status # "none"
      /\ record[a].mandate \in Mandates
      /\ record' = [record EXCEPT ![a] = record[a]]
  BY <1>1, <1>2, RecordFields
<1>4. CASE ~(Matches(c, "mandate_amend") /\ ~Revoked(a))
  <2>1. Return(c)
    BY <1>4 DEF CommitAmendRuns
  <2> QED BY <1>1, <1>3, <2>1, TakeStep, Returns
<1>5. CASE Matches(c, "mandate_amend") /\ ~Revoked(a)
  <2>1. prepared[p].mandate \in Mandates
    BY <1>2, <1>5 DEF Matches, CallInv, RecordShape
  <2>2. /\ q \in CallStates /\ q.op = call[c].op /\ q.agent = a /\ q.pc = "sent" /\ Shape(q)
    BY <1>1, <2>1, SentShape DEF PatchOps
  <2>3. call' = [call EXCEPT ![c] = q] /\ UNCHANGED locks
    BY <1>5 DEF CommitAmendRuns, Proceed, CallInv, TypeOK
  <2> HIDE DEF q
  <2> QED BY <1>1, <1>3, <2>2, <2>3, TakeStep, Proceeds
<1> QED BY <1>4, <1>5

LEMMA CommitRevokeRunsInv == ASSUME CallInv, NEW c \in Calls, CommitRevokeRuns(c) PROVE CallInv'
<1> DEFINE a == call[c].agent
           p == call[c].prepare
           q == At(call[c], "sent", prepared[p].mandate)
           r == [record[a] EXCEPT !.status = "revoked"]
<1>1. /\ call[c].pc = "queued" /\ call[c].op = "commitRevoke" /\ HoldsLock(c)
      /\ UNCHANGED enclave /\ Take(p)
  BY DEF CommitRevokeRuns, Runs
<1>2. /\ a \in Agents /\ Exists(a) /\ p \in PrepareIds
  BY <1>1, RunsFacts DEF CallInv, CallShape, Shape
<1>3. CASE ~Matches(c, "mandate_revoke")
  <2>1. Return(c) /\ UNCHANGED record
    BY <1>3 DEF CommitRevokeRuns
  <2>2. /\ record[a] \in AgentRecords /\ record[a].status # "none"
        /\ record[a].mandate \in Mandates
        /\ record' = [record EXCEPT ![a] = record[a]]
    BY <1>2, <2>1, RecordFields
  <2> QED BY <1>1, <2>1, <2>2, TakeStep, Returns
<1>4. CASE Matches(c, "mandate_revoke")
  <2>1. prepared[p].mandate \in Mandates
    BY <1>2, <1>4 DEF Matches, CallInv, RecordShape
  <2>2. /\ q \in CallStates /\ q.op = call[c].op /\ q.agent = a /\ q.pc = "sent" /\ Shape(q)
    BY <1>1, <2>1, SentShape DEF PatchOps
  <2>3. /\ call' = [call EXCEPT ![c] = q] /\ UNCHANGED locks
        /\ record' = [record EXCEPT ![a] = r]
    BY <1>4 DEF CommitRevokeRuns, Proceed, CallInv, TypeOK
  <2>4. r \in AgentRecords /\ r.status # "none" /\ r.mandate \in Mandates
    BY <1>2, RevokedRecord
  <2> HIDE DEF q, r
  <2> QED BY <1>1, <2>2, <2>3, <2>4, TakeStep, Proceeds
<1> QED BY <1>3, <1>4

LEMMA ArchiveRunsInv == ASSUME CallInv, NEW c \in Calls, ArchiveRuns(c) PROVE CallInv'
<1> DEFINE a == call[c].agent
           q == At(call[c], "funds", NoMandate)
<1>1. /\ call[c].pc = "queued" /\ call[c].op = "archive" /\ HoldsLock(c)
      /\ UNCHANGED <<record, enclave, prepared>>
  BY DEF ArchiveRuns, Runs
<1>2. CASE record[a].archived \/ CanAct(a)
  BY <1>1, <1>2, JustReturns DEF ArchiveRuns
<1>3. CASE ~(record[a].archived \/ CanAct(a))
  <2>1. /\ q \in CallStates /\ q.op = call[c].op /\ q.agent = a /\ q.pc = "funds" /\ Shape(q)
    BY <1>1, FundsShape
  <2>2. call' = [call EXCEPT ![c] = q] /\ UNCHANGED locks
    BY <1>3 DEF ArchiveRuns, Proceed, CallInv, TypeOK
  <2>3. /\ a \in Agents /\ Exists(a)
    BY <1>1, RunsFacts
  <2> HIDE DEF q
  <2> QED BY <1>1, <2>1, <2>2, <2>3, RecordFields, SamePrepared, Proceeds
<1> QED BY <1>2, <1>3

(* A call that has its answer, and holds the lock it got it under. *)
LEMMA AnsweredFacts ==
  ASSUME CallInv, NEW c \in Calls, call[c].pc \in {"sent", "applied", "funds"},
         call[c].op # "hire"
  PROVE  /\ HoldsLock(c) /\ call[c].agent \in Agents /\ Exists(call[c].agent)
         /\ record[call[c].agent] \in AgentRecords
         /\ record[call[c].agent].status # "none"
         /\ record[call[c].agent].mandate \in Mandates
<1>1. HoldsLock(c)
  BY DEF CallInv, LockInv, Locked
<1>2. call[c].agent \in Agents /\ Exists(call[c].agent)
  BY RunsFacts
<1> QED BY <1>1, <1>2, RecordFields

LEMMA AmendSucceedsInv == ASSUME CallInv, NEW c \in Calls, AmendSucceeds(c) PROVE CallInv'
<1> DEFINE a == call[c].agent
           r == [record[a] EXCEPT !.mandate = call[c].mandate, !.pinned = TRUE, !.expired = FALSE]
<1>1. /\ call[c].pc = "applied" /\ call[c].op # "hire" /\ Return(c)
      /\ UNCHANGED <<enclave, prepared>>
  BY DEF AmendSucceeds
<1>2. call[c].mandate \in Mandates
  BY <1>1 DEF CallInv, CallShape, Shape
<1>3. r \in AgentRecords /\ r.status # "none" /\ r.mandate \in Mandates
  BY <1>1, <1>2, AnsweredFacts DEF AgentRecords
<1>4. record' = [record EXCEPT ![a] = r]
  BY DEF AmendSucceeds, CallInv, TypeOK
<1> HIDE DEF r
<1> QED BY <1>1, <1>3, <1>4, AnsweredFacts, SamePrepared, Returns

LEMMA RevokeSucceedsInv == ASSUME CallInv, NEW c \in Calls, RevokeSucceeds(c) PROVE CallInv'
<1> DEFINE a == call[c].agent
           r == [record[a] EXCEPT !.policyCleared = TRUE]
<1>1. /\ call[c].pc = "applied" /\ call[c].op # "hire" /\ Return(c)
      /\ UNCHANGED <<enclave, prepared>>
  BY DEF RevokeSucceeds
<1>2. r \in AgentRecords /\ r.status # "none" /\ r.mandate \in Mandates
  BY <1>1, AnsweredFacts DEF AgentRecords
<1>3. record' = [record EXCEPT ![a] = r]
  BY DEF RevokeSucceeds, CallInv, TypeOK
<1> HIDE DEF r
<1> QED BY <1>1, <1>2, <1>3, AnsweredFacts, SamePrepared, Returns

LEMMA PatchFailsInv == ASSUME CallInv, NEW c \in Calls, PatchFails(c) PROVE CallInv'
<1>1. /\ call[c].pc \in {"sent", "applied"} /\ call[c].op # "hire" /\ Return(c)
      /\ UNCHANGED <<record, enclave, prepared>>
  BY DEF PatchFails
<1> QED BY <1>1, AnsweredFacts, JustReturns

LEMMA ArchiveReturnsInv == ASSUME CallInv, NEW c \in Calls, ArchiveReturns(c) PROVE CallInv'
<1> DEFINE a == call[c].agent
<1>1. /\ call[c].pc = "funds" /\ Return(c) /\ UNCHANGED <<enclave, prepared>>
  BY DEF ArchiveReturns
<1>2. call[c].op # "hire"
  BY <1>1 DEF CallInv, CallShape, Shape
<1>3. PICK emptied \in BOOLEAN : record' = [record EXCEPT ![a].archived = emptied]
  BY DEF ArchiveReturns
<1> DEFINE r == [record[a] EXCEPT !.archived = emptied]
<1>4. r \in AgentRecords /\ r.status # "none" /\ r.mandate \in Mandates
  BY <1>1, <1>2, AnsweredFacts DEF AgentRecords
<1>5. record' = [record EXCEPT ![a] = r]
  BY <1>3 DEF CallInv, TypeOK
<1> HIDE DEF r
<1> QED BY <1>1, <1>2, <1>4, <1>5, AnsweredFacts, SamePrepared, Returns

LEMMA UnarchiveRunsInv == ASSUME CallInv, NEW c \in Calls, UnarchiveRuns(c) PROVE CallInv'
<1> DEFINE a == call[c].agent
           r == [record[a] EXCEPT !.archived = FALSE]
<1>1. /\ call[c].pc = "queued" /\ call[c].op = "unarchive" /\ HoldsLock(c) /\ Return(c)
      /\ UNCHANGED <<enclave, prepared>>
  BY DEF UnarchiveRuns, Runs
<1>2. a \in Agents /\ Exists(a)
  BY <1>1, RunsFacts
<1>3. r \in AgentRecords /\ r.status # "none" /\ r.mandate \in Mandates
  BY <1>2, RecordFields DEF AgentRecords
<1>4. record' = [record EXCEPT ![a] = r]
  BY DEF UnarchiveRuns, CallInv, TypeOK
<1> HIDE DEF r
<1> QED BY <1>1, <1>3, <1>4, SamePrepared, Returns

LEMMA AmendInv == ASSUME CallInv, NEW c \in Calls, Amend(c) PROVE CallInv'
<1>1. PICK a \in Agents, m \in Mandates : OwnerSees(a) /\ Enqueue(c, "amend", a, m, NoPrepare)
  BY DEF Amend
<1> QED BY <1>1, EnqueueStep DEF OwnerSees, LockedOps

LEMMA RevokeInv == ASSUME CallInv, NEW c \in Calls, Revoke(c) PROVE CallInv'
<1>1. PICK a \in Agents : OwnerSees(a) /\ Enqueue(c, "revoke", a, NoMandate, NoPrepare)
  BY DEF Revoke
<1> QED BY <1>1, EnqueueStep DEF OwnerSees, LockedOps

LEMMA CommitInv == ASSUME CallInv, NEW c \in Calls, Commit(c) PROVE CallInv'
<1>1. PICK a \in Agents, p \in PrepareIds, op \in {"commitAmend", "commitRevoke"} :
        OwnerSees(a) /\ Enqueue(c, op, a, NoMandate, p)
  BY DEF Commit
<1> QED BY <1>1, EnqueueStep DEF OwnerSees, LockedOps

LEMMA ArchiveInv == ASSUME CallInv, NEW c \in Calls, Archive(c) PROVE CallInv'
<1>1. PICK a \in Agents : OwnerSees(a) /\ Enqueue(c, "archive", a, NoMandate, NoPrepare)
  BY DEF Archive
<1> QED BY <1>1, EnqueueStep DEF OwnerSees, LockedOps

LEMMA UnarchiveInv == ASSUME CallInv, NEW c \in Calls, Unarchive(c) PROVE CallInv'
<1>1. PICK a \in Agents : OwnerSees(a) /\ Enqueue(c, "unarchive", a, NoMandate, NoPrepare)
  BY DEF Unarchive
<1> QED BY <1>1, EnqueueStep DEF OwnerSees, LockedOps

(* A call that goes on as q, in or out of the lock as it was. *)
LEMMA CallUpdate ==
  ASSUME CallInv, NEW c \in Calls, NEW q \in CallStates, Shape(q),
         call' = [call EXCEPT ![c] = q], UNCHANGED locks,
         Locked(c)' => Locked(c) /\ q.agent = call[c].agent
  PROVE  /\ call' \in [Calls -> CallStates] /\ locks' \in [Agents -> Seq(Calls)]
         /\ call'[c] = q /\ \A d \in Calls \ {c} : call'[d] = call[d]
         /\ CallShape' /\ LockInv'
<1>1. /\ call' \in [Calls -> CallStates] /\ locks' \in [Agents -> Seq(Calls)]
      /\ call'[c] = q /\ \A d \in Calls \ {c} : call'[d] = call[d]
  BY DEF CallInv, TypeOK
<1>2. CallShape'
  BY <1>1 DEF CallInv, CallShape
<1>3. LockInv'
  <2> SUFFICES ASSUME NEW d \in Calls, Locked(d)' PROVE HoldsLock(d)'
    BY DEF LockInv
  <2>1. Locked(d) /\ call'[d].agent = call[d].agent
    BY <1>1 DEF Locked
  <2> QED BY <2>1 DEF CallInv, LockInv, HoldsLock
<1> QED BY <1>1, <1>2, <1>3

LEMMA EnclaveAppliesInv == ASSUME CallInv, NEW c \in Calls, EnclaveApplies(c) PROVE CallInv'
<1> DEFINE a == call[c].agent
           q == [call[c] EXCEPT !.pc = "applied"]
<1>1. /\ call[c].pc = "sent" /\ enclave' = [enclave EXCEPT ![a] = Request(c)]
      /\ call' = [call EXCEPT ![c] = q] /\ UNCHANGED <<record, prepared, locks>>
  BY DEF EnclaveApplies, CallInv, TypeOK
<1>2. Shape(call[c]) /\ call[c] \in CallStates
  BY DEF CallInv, CallShape, TypeOK
<1>3. a \in Agents /\ call[c].mandate \in Mandates
  BY <1>1, <1>2 DEF Shape
<1>4. /\ q \in CallStates /\ q.pc = "applied" /\ q.op = call[c].op /\ q.agent = a
      /\ q.mandate = call[c].mandate /\ q.prepare = call[c].prepare
  BY <1>2, Values DEF CallStates
<1> HIDE DEF q
<1>5. Shape(q)
  BY <1>1, <1>2, <1>4 DEF Shape
<1>6. Locked(c)' => Locked(c) /\ q.agent = a
  BY <1>1, <1>4 DEF Locked, CallInv, TypeOK
<1>7. /\ call' \in [Calls -> CallStates] /\ locks' \in [Agents -> Seq(Calls)]
      /\ call'[c] = q /\ \A d \in Calls \ {c} : call'[d] = call[d]
      /\ CallShape' /\ LockInv'
  BY <1>1, <1>4, <1>5, <1>6, CallUpdate
<1>8. Request(c) \in TradeRules \cup ExitRules /\ Request(c) # NoRules
  BY <1>3, RequestType
<1>9. /\ enclave' \in [Agents -> TradeRules \cup ExitRules \cup {NoRules}]
      /\ enclave'[a] # NoRules
      /\ \A b \in Agents \ {a} : enclave'[b] = enclave[b]
  BY <1>1, <1>3, <1>8 DEF CallInv, TypeOK
<1>10. TypeOK'
  BY <1>1, <1>7, <1>9 DEF CallInv, TypeOK
<1>11. RecordShape'
  BY <1>1, <1>9 DEF CallInv, RecordShape, Exists
<1>12. HireShape'
  <2>1. \A d \in Calls : call'[d].op = call[d].op /\ call'[d].agent = call[d].agent
    BY <1>4, <1>7
  <2>2. \A d \in Calls : call'[d].pc = "provisioned" => call[d].pc = "provisioned"
    BY <1>4, <1>7
  <2>3. \A d \in Calls : call'[d].pc # "idle" => call[d].pc # "idle"
    BY <1>1, <1>4, <1>7
  <2>4. \A d \in Calls : call'[d].op = "hire" /\ call'[d].pc # "provisioned"
                           => call[d].pc # "provisioned"
    BY <1>1, <1>4, <1>7
  <2>5. \A d \in Calls : call[d].op = "hire" => call[d].agent \in Agents
    BY DEF CallInv, CallShape, Shape
  <2> QED BY <1>1, <1>9, <2>1, <2>2, <2>3, <2>4, <2>5 DEF CallInv, HireShape, Exists
<1> QED BY <1>7, <1>10, <1>11, <1>12 DEF CallInv

LEMMA ProvisionInv ==
  ASSUME CallInv, NEW c \in Calls, NEW a \in Agents, NEW m \in Mandates, Provision(c, a, m)
  PROVE  CallInv'
<1> DEFINE q == [IdleCall EXCEPT !.pc = "provisioned", !.op = "hire",
                                 !.agent = a, !.mandate = m]
<1>1. /\ call[c].pc = "idle" /\ enclave[a] = NoRules /\ ~Hiring(a)
      /\ enclave' = [enclave EXCEPT ![a] = Compile(m, FALSE)]
      /\ call' = [call EXCEPT ![c] = q] /\ UNCHANGED <<record, prepared, locks>>
  BY DEF Provision
<1>2. /\ q \in CallStates /\ q.pc = "provisioned" /\ q.op = "hire" /\ q.agent = a
      /\ q.mandate = m
  BY EmptyValues, Values DEF CallStates, IdleCall
<1> HIDE DEF q
<1>3. Shape(q)
  BY <1>2 DEF Shape
<1>4. ~Locked(c)'
  BY <1>1, <1>2 DEF Locked, CallInv, TypeOK
<1>5. /\ call' \in [Calls -> CallStates] /\ locks' \in [Agents -> Seq(Calls)]
      /\ call'[c] = q /\ \A d \in Calls \ {c} : call'[d] = call[d]
      /\ CallShape' /\ LockInv'
  BY <1>1, <1>2, <1>3, <1>4, CallUpdate
<1>6. Compile(m, FALSE) \in TradeRules /\ Compile(m, FALSE) # NoRules
  BY CompileType
<1>7. /\ enclave' \in [Agents -> TradeRules \cup ExitRules \cup {NoRules}]
      /\ enclave'[a] # NoRules
      /\ \A b \in Agents \ {a} : enclave'[b] = enclave[b]
  BY <1>1, <1>6 DEF CallInv, TypeOK
<1>8. TypeOK'
  BY <1>1, <1>5, <1>7 DEF CallInv, TypeOK
<1>9. RecordShape'
  BY <1>1, <1>7 DEF CallInv, RecordShape, Exists
<1>10. HireShape'
  <2>1. ~Exists(a)
    BY <1>1 DEF CallInv, RecordShape
  <2>2. \A d \in Calls : call[d].op = "hire" => call[d].agent # a
    BY <1>1 DEF Hiring
  <2>3. \A d \in Calls : call[d].op = "hire" => call[d].agent \in Agents
    BY DEF CallInv, CallShape, Shape
  <2>4. record' = record
    BY <1>1
  <2>5. \A d \in Calls : call'[d].pc # "idle" /\ call'[d].op # "hire"
                           => record'[call'[d].agent].status # "none"
    BY <1>2, <1>5, <2>4 DEF CallInv, HireShape, Exists
  <2>6. \A d \in Calls : call'[d].op = "hire" => enclave'[call'[d].agent] # NoRules
    <3>1. \A d \in Calls : call[d].op = "hire" => enclave[call[d].agent] # NoRules
      BY DEF CallInv, HireShape
    <3>2. ASSUME NEW d \in Calls \ {c}, call'[d].op = "hire"
          PROVE  enclave'[call'[d].agent] # NoRules
      <4>1. call'[d] = call[d]
        BY <1>5
      <4>2. call[d].agent \in Agents \ {a} /\ enclave[call[d].agent] # NoRules
        BY <2>2, <2>3, <3>1, <3>2, <4>1
      <4> QED BY <1>7, <4>1, <4>2
    <3>3. enclave'[call'[c].agent] # NoRules
      BY <1>2, <1>5, <1>7
    <3> QED BY <3>2, <3>3
  <2>7. \A d \in Calls : call'[d].pc = "provisioned" => record'[call'[d].agent].status = "none"
    BY <1>2, <1>5, <2>1, <2>4 DEF CallInv, HireShape, Exists
  <2>8. \A d \in Calls : call'[d].op = "hire" /\ call'[d].pc # "provisioned"
                           => record'[call'[d].agent].status # "none"
    BY <1>2, <1>5, <2>4 DEF CallInv, HireShape, Exists
  <2>9. \A d, e \in Calls : call'[d].op = "hire" /\ call'[e].op = "hire"
                              /\ call'[d].agent = call'[e].agent => d = e
    BY <1>2, <1>5, <2>2 DEF CallInv, HireShape
  <2> QED BY <2>5, <2>6, <2>7, <2>8, <2>9 DEF HireShape, Exists
<1> QED BY <1>5, <1>8, <1>9, <1>10 DEF CallInv

LEMMA HireInv == ASSUME CallInv, NEW c \in Calls, Hire(c) \/ Fork(c) PROVE CallInv'
<1>1. PICK a \in Agents, m \in Mandates : Provision(c, a, m)
  BY DEF Hire, Fork
<1> QED BY <1>1, ProvisionInv

LEMMA HireStoredInv == ASSUME CallInv, NEW c \in Calls, HireStored(c) PROVE CallInv'
<1> DEFINE a == call[c].agent
           m == call[c].mandate
           pc == IF OwnerMode = "server" /\ m \in KuruMandates THEN "sent" ELSE "finishing"
           q == [call[c] EXCEPT !.pc = pc]
           r == [status |-> "active", policyCleared |-> FALSE, mandate |-> m,
                 pinned |-> m \notin KuruMandates, archived |-> FALSE, expired |-> FALSE]
<1>1. /\ call[c].pc = "provisioned" /\ record' = [record EXCEPT ![a] = r]
      /\ call' = [call EXCEPT ![c] = q] /\ UNCHANGED <<enclave, prepared, locks>>
  BY DEF HireStored, CallInv, TypeOK
<1>2. Shape(call[c]) /\ call[c] \in CallStates
  BY DEF CallInv, CallShape, TypeOK
<1>3. call[c].op = "hire" /\ a \in Agents /\ m \in Mandates
  BY <1>1, <1>2 DEF Shape
<1>4. /\ pc \in Pcs /\ pc \in {"sent", "finishing"}
      /\ pc = "sent" => OwnerMode = "server"
  BY Values
<1> HIDE DEF pc
<1>5. /\ q \in CallStates /\ q.pc = pc /\ q.op = "hire" /\ q.agent = a
      /\ q.mandate = m
  BY <1>2, <1>3, <1>4 DEF CallStates
<1> HIDE DEF q
<1>6. Shape(q)
  BY <1>3, <1>4, <1>5 DEF Shape
<1>7. ~Locked(c)'
  BY <1>1, <1>5 DEF Locked, CallInv, TypeOK
<1>8. /\ call' \in [Calls -> CallStates] /\ locks' \in [Agents -> Seq(Calls)]
      /\ call'[c] = q /\ \A d \in Calls \ {c} : call'[d] = call[d]
      /\ CallShape' /\ LockInv'
  BY <1>1, <1>5, <1>6, <1>7, CallUpdate
<1>9. r \in AgentRecords /\ r.status # "none" /\ r.mandate \in Mandates
  <2>1. (m \notin KuruMandates) \in BOOLEAN
    OBVIOUS
  <2> QED BY <1>3, <2>1, Values DEF AgentRecords
<1> HIDE DEF r
<1>10. /\ record' \in [Agents -> AgentRecords] /\ record'[a] = r
       /\ \A b \in Agents \ {a} : record'[b] = record[b]
  BY <1>1, <1>3, <1>9 DEF CallInv, TypeOK
<1>11. TypeOK'
  BY <1>1, <1>8, <1>10 DEF CallInv, TypeOK
<1>12. RecordShape'
  BY <1>1, <1>3, <1>9, <1>10 DEF CallInv, RecordShape, HireShape, Exists
<1>13. HireShape'
  <2>1. ~Exists(a)
    BY <1>1 DEF CallInv, HireShape
  <2>2. \A d \in Calls : call[d].op = "hire" => call[d].agent \in Agents
    BY DEF CallInv, CallShape, Shape
  <2>3. \A d \in Calls : call[d].pc # "idle" => call[d].agent \in Agents
    BY DEF CallInv, CallShape, Shape
  <2>4. \A b \in Agents : Exists(b)' <=> Exists(b) \/ b = a
    BY <1>9, <1>10, <1>3 DEF Exists
  <2>5. \A d \in Calls : d # c /\ call[d].op = "hire" => call[d].agent # a
    BY <1>3 DEF CallInv, HireShape
  <2>6. \A d \in Calls : call[d].pc = "provisioned" => call[d].op = "hire"
    BY DEF CallInv, CallShape, Shape
  <2>7. enclave' = enclave
    BY <1>1
  <2>8. \A d \in Calls : call'[d].op = call[d].op /\ call'[d].agent = call[d].agent
    BY <1>3, <1>5, <1>8
  <2>9. \A d \in Calls : call'[d].pc # "idle" /\ call'[d].op # "hire" => record'[call'[d].agent].status # "none"
    BY <1>3, <1>5, <1>8, <2>3, <2>4 DEF CallInv, HireShape, Exists
  <2>10. \A d \in Calls : call'[d].pc = "provisioned" => record'[call'[d].agent].status = "none"
    BY <1>3, <1>4, <1>5, <1>8, <2>2, <2>4, <2>5, <2>6 DEF CallInv, HireShape, Exists
  <2>11. \A d \in Calls : call'[d].op = "hire" /\ call'[d].pc # "provisioned" => record'[call'[d].agent].status # "none"
    BY <1>3, <1>4, <1>5, <1>8, <2>2, <2>4 DEF CallInv, HireShape, Exists
  <2> QED BY <2>7, <2>8, <2>9, <2>10, <2>11 DEF CallInv, HireShape, Exists
<1> QED BY <1>8, <1>11, <1>12, <1>13 DEF CallInv

(* A call outside the lock that moves on, keeping its operation, or ends. *)
LEMMA HireShapeKept ==
  ASSUME CallInv, NEW c \in Calls, call[c].pc # "idle", call[c].pc # "provisioned",
         NEW q \in CallStates, q.pc # "provisioned",
         \/ q.op = call[c].op /\ q.agent = call[c].agent /\ q.pc # "idle"
         \/ q.op = "none" /\ q.pc = "idle",
         call'[c] = q, \A d \in Calls \ {c} : call'[d] = call[d], UNCHANGED enclave,
         \A a \in Agents : Exists(a)' <=> Exists(a)
  PROVE  HireShape'
<1>1. \A d \in Calls : call[d].op = "hire" => call[d].agent \in Agents
  BY DEF CallInv, CallShape, Shape
<1>2. \A d \in Calls : call[d].pc # "idle" => call[d].agent \in Agents
  BY DEF CallInv, CallShape, Shape
<1> QED BY <1>1, <1>2 DEF CallInv, HireShape, Exists

LEMMA PinAnsweredInv == ASSUME CallInv, NEW c \in Calls, PinAnswered(c) PROVE CallInv'
<1>1. /\ call[c].op = "hire" /\ call[c].pc \in {"sent", "applied"}
      /\ UNCHANGED <<record, enclave, prepared, locks>>
  BY DEF PinAnswered
<1>2. PICK q \in CallStates :
        /\ q.pc = "finishing" /\ q.op = "hire" /\ q.agent = call[c].agent
        /\ q.mandate = call[c].mandate
        /\ call' = [call EXCEPT ![c] = q]
  <2>1. call[c] \in CallStates
    BY DEF CallInv, TypeOK
  <2>2. CASE call' = [call EXCEPT ![c] = [@ EXCEPT !.pc = "finishing", !.pinned = TRUE]]
    <3> DEFINE q == [call[c] EXCEPT !.pc = "finishing", !.pinned = TRUE]
    <3>1. q \in CallStates /\ q.pc = "finishing" /\ q.op = "hire"
          /\ q.agent = call[c].agent /\ q.mandate = call[c].mandate
      BY <1>1, <2>1, Values DEF CallStates
    <3> QED BY <2>2, <3>1
  <2>3. CASE call' = [call EXCEPT ![c].pc = "finishing"]
    <3> DEFINE q == [call[c] EXCEPT !.pc = "finishing"]
    <3>1. q \in CallStates /\ q.pc = "finishing" /\ q.op = "hire"
          /\ q.agent = call[c].agent /\ q.mandate = call[c].mandate
      BY <1>1, <2>1, Values DEF CallStates
    <3> QED BY <2>3, <3>1
  <2> QED BY <2>2, <2>3 DEF PinAnswered
<1>3. Shape(call[c]) /\ Shape(q)
  <2>1. Shape(call[c])
    BY DEF CallInv, CallShape
  <2> QED BY <1>1, <1>2, <2>1 DEF Shape
<1>4. ~Locked(c)'
  BY <1>2 DEF Locked, CallInv, TypeOK
<1>5. /\ call' \in [Calls -> CallStates] /\ locks' \in [Agents -> Seq(Calls)]
      /\ call'[c] = q /\ \A d \in Calls \ {c} : call'[d] = call[d]
      /\ CallShape' /\ LockInv'
  BY <1>1, <1>2, <1>3, <1>4, CallUpdate
<1>6. HireShape'
  <2>1. \A a \in Agents : Exists(a)' <=> Exists(a)
    BY <1>1 DEF Exists
  <2> QED BY <1>1, <1>2, <1>5, <2>1, HireShapeKept
<1>7. TypeOK' /\ RecordShape'
  BY <1>1, <1>5 DEF CallInv, TypeOK, RecordShape, Exists
<1> QED BY <1>5, <1>6, <1>7 DEF CallInv

LEMMA HireReturnsInv == ASSUME CallInv, NEW c \in Calls, HireReturns(c) PROVE CallInv'
<1> DEFINE a == call[c].agent
           r == [record[a] EXCEPT !.pinned = @ \/ call[c].pinned]
<1>1. /\ call[c].op = "hire" /\ call[c].pc = "finishing"
      /\ call' = [call EXCEPT ![c] = IdleCall] /\ UNCHANGED <<enclave, prepared, locks>>
      /\ record' = [record EXCEPT ![a] = r]
  BY DEF HireReturns, CallInv, TypeOK
<1>2. a \in Agents /\ Exists(a)
  BY <1>1 DEF CallInv, CallShape, Shape, HireShape
<1>3. r \in AgentRecords /\ r.status # "none" /\ r.mandate \in Mandates
  <2>1. (record[a].pinned \/ call[c].pinned) \in BOOLEAN
    OBVIOUS
  <2> QED BY <1>2, <2>1, RecordFields DEF AgentRecords
<1> HIDE DEF r
<1>4. /\ record' \in [Agents -> AgentRecords] /\ record'[a] = r
      /\ \A b \in Agents \ {a} : record'[b] = record[b]
  BY <1>1, <1>2, <1>3 DEF CallInv, TypeOK
<1>5. IdleCall.pc = "idle" /\ IdleCall.op = "none" /\ ~Locked(c)'
  BY <1>1 DEF Locked, IdleCall, CallInv, TypeOK
<1>6. /\ call' \in [Calls -> CallStates] /\ locks' \in [Agents -> Seq(Calls)]
      /\ call'[c] = IdleCall /\ \A d \in Calls \ {c} : call'[d] = call[d]
      /\ CallShape' /\ LockInv'
  BY <1>1, <1>5, EmptyValues, IdleShape, CallUpdate
<1>7. HireShape'
  <2>1. \A b \in Agents : Exists(b)' <=> Exists(b)
    BY <1>2, <1>3, <1>4 DEF Exists
  <2> QED BY <1>1, <1>5, <1>6, <2>1, EmptyValues, HireShapeKept
<1>8. TypeOK'
  BY <1>1, <1>4, <1>6 DEF CallInv, TypeOK
<1>9. RecordShape'
  BY <1>1, <1>2, <1>3, <1>4 DEF CallInv, RecordShape, Exists
<1> QED BY <1>6, <1>7, <1>8, <1>9 DEF CallInv

(* A put holds the new prepare and drops what it replaces. *)
LEMMA PutStep ==
  ASSUME CallInv, NEW p \in PrepareIds, NEW kind \in {"mandate_amend", "mandate_revoke"},
         NEW a \in Agents, NEW m \in Mandates, Put(p, kind, a, m)
  PROVE  /\ prepared' \in [PrepareIds -> PreparedStates]
         /\ \A q \in PrepareIds : prepared'[q].state = "held" => prepared'[q].mandate \in Mandates
<1> DEFINE v == [state |-> "held", kind |-> kind, agent |-> a, mandate |-> m]
<1>1. v \in PreparedStates /\ v.mandate = m
  BY Values DEF PreparedStates
<1>2. NotPrepared("gone") \in PreparedStates /\ NotPrepared("gone").state # "held"
  BY EmptyValues DEF NotPrepared
<1>3. \A q \in PrepareIds : prepared'[q] \in {v, NotPrepared("gone"), prepared[q]}
  BY DEF Put
<1>4. /\ \A q \in PrepareIds : prepared[q] \in PreparedStates
      /\ \A q \in PrepareIds : prepared[q].state = "held" => prepared[q].mandate \in Mandates
  BY DEF CallInv, TypeOK, RecordShape
<1> HIDE DEF v
<1>5. prepared' = [q \in PrepareIds |-> prepared'[q]]
  BY DEF Put
<1> QED BY <1>1, <1>2, <1>3, <1>4, <1>5

LEMMA PrepareAmendInv == ASSUME CallInv, NEW c \in Calls, PrepareAmend(c) PROVE CallInv'
<1>1. PICK a \in Agents, m \in Mandates, p \in PrepareIds :
        /\ OwnerSees(a) /\ call[c].pc = "idle"
        /\ call' = [call EXCEPT ![c] = [IdleCall EXCEPT !.pc = "parsing",
                       !.op = "prepareAmend", !.agent = a, !.mandate = m, !.prepare = p]]
        /\ UNCHANGED <<record, enclave, prepared, locks>>
  BY DEF PrepareAmend
<1> DEFINE q == [IdleCall EXCEPT !.pc = "parsing", !.op = "prepareAmend", !.agent = a,
                                 !.mandate = m, !.prepare = p]
<1>2. /\ q \in CallStates /\ q.pc = "parsing" /\ q.op = "prepareAmend" /\ q.agent = a
      /\ q.mandate = m /\ q.prepare = p
  BY Values DEF CallStates, IdleCall
<1>3. call' = [call EXCEPT ![c] = q]
  BY <1>1
<1> HIDE DEF q
<1>4. Shape(q)
  BY <1>2 DEF Shape
<1>5. ~Locked(c)'
  BY <1>2, <1>3 DEF Locked, CallInv, TypeOK
<1>6. /\ call' \in [Calls -> CallStates] /\ locks' \in [Agents -> Seq(Calls)]
      /\ call'[c] = q /\ \A d \in Calls \ {c} : call'[d] = call[d]
      /\ CallShape' /\ LockInv'
  BY <1>1, <1>2, <1>3, <1>4, <1>5, CallUpdate
<1>7. HireShape'
  <2>1. Exists(a)
    BY <1>1 DEF OwnerSees
  <2>2. \A d \in Calls : call[d].op = "hire" => call[d].agent \in Agents
    BY DEF CallInv, CallShape, Shape
  <2> QED BY <1>1, <1>2, <1>6, <2>1, <2>2 DEF CallInv, HireShape, Exists
<1>8. TypeOK' /\ RecordShape'
  BY <1>1, <1>6 DEF CallInv, TypeOK, RecordShape, Exists
<1> QED BY <1>6, <1>7, <1>8 DEF CallInv

LEMMA PrepareAmendReturnsInv ==
  ASSUME CallInv, NEW c \in Calls, PrepareAmendReturns(c) PROVE CallInv'
<1> DEFINE p == call[c].prepare
           a == call[c].agent
           m == call[c].mandate
<1>1. /\ call[c].pc = "parsing" /\ Put(p, "mandate_amend", a, m)
      /\ call' = [call EXCEPT ![c] = IdleCall] /\ UNCHANGED <<record, enclave, locks>>
  BY DEF PrepareAmendReturns
<1>2. call[c].op = "prepareAmend" /\ p \in PrepareIds /\ a \in Agents /\ m \in Mandates
  BY <1>1 DEF CallInv, CallShape, Shape
<1>3. IdleCall.pc = "idle" /\ IdleCall.op = "none" /\ ~Locked(c)'
  BY <1>1 DEF Locked, IdleCall, CallInv, TypeOK
<1>4. /\ call' \in [Calls -> CallStates] /\ locks' \in [Agents -> Seq(Calls)]
      /\ call'[c] = IdleCall /\ \A d \in Calls \ {c} : call'[d] = call[d]
      /\ CallShape' /\ LockInv'
  BY <1>1, <1>3, EmptyValues, IdleShape, CallUpdate
<1>5. HireShape'
  <2>1. \A b \in Agents : Exists(b)' <=> Exists(b)
    BY <1>1 DEF Exists
  <2> QED BY <1>1, <1>3, <1>4, <2>1, EmptyValues, HireShapeKept
<1>6. /\ prepared' \in [PrepareIds -> PreparedStates]
      /\ \A q \in PrepareIds : prepared'[q].state = "held" => prepared'[q].mandate \in Mandates
  BY <1>1, <1>2, PutStep
<1>7. TypeOK' /\ RecordShape'
  BY <1>1, <1>4, <1>6 DEF CallInv, TypeOK, RecordShape, Exists
<1> QED BY <1>4, <1>5, <1>7 DEF CallInv

(* A step that only touches the prepared changes. *)
LEMMA PreparedStep ==
  ASSUME CallInv, UNCHANGED <<record, enclave, locks, call>>,
         prepared' \in [PrepareIds -> PreparedStates],
         \A q \in PrepareIds : prepared'[q].state = "held" => prepared'[q].mandate \in Mandates
  PROVE  CallInv'
<1>1. TypeOK' /\ CallShape' /\ RecordShape'
  BY DEF CallInv, TypeOK, CallShape, RecordShape, Exists
<1>2. HireShape' /\ LockInv'
  BY DEF CallInv, HireShape, LockInv, Locked, HoldsLock, Exists
<1> QED BY <1>1, <1>2 DEF CallInv

LEMMA PrepareRevokeInv == ASSUME CallInv, PrepareRevoke PROVE CallInv'
<1>1. PICK a \in Agents, p \in PrepareIds :
        /\ OwnerSees(a) /\ Put(p, "mandate_revoke", a, record[a].mandate)
        /\ UNCHANGED <<record, enclave, locks, call>>
  BY DEF PrepareRevoke
<1>2. record[a].mandate \in Mandates
  BY <1>1, RecordFields DEF OwnerSees
<1> QED BY <1>1, <1>2, PutStep, PreparedStep

LEMMA PrepareExpiresInv == ASSUME CallInv, PrepareExpires PROVE CallInv'
<1>1. PICK p \in PrepareIds : Take(p) /\ UNCHANGED <<record, enclave, locks, call>>
  BY DEF PrepareExpires, Take
<1>2. /\ prepared' \in [PrepareIds -> PreparedStates]
      /\ \A q \in PrepareIds : prepared'[q].state = "held" => prepared'[q] = prepared[q]
  BY <1>1, TakeStep
<1>3. \A q \in PrepareIds : prepared'[q].state = "held" => prepared'[q].mandate \in Mandates
  BY <1>2 DEF CallInv, RecordShape
<1> QED BY <1>1, <1>2, <1>3, PreparedStep

LEMMA MandateExpiresInv == ASSUME CallInv, MandateExpires PROVE CallInv'
<1>1. PICK a \in Agents : /\ CanAct(a) /\ record' = [record EXCEPT ![a].expired = TRUE]
                          /\ UNCHANGED <<enclave, prepared, locks, call>>
  BY DEF MandateExpires
<1> DEFINE r == [record[a] EXCEPT !.expired = TRUE]
<1>2. Exists(a)
  BY <1>1 DEF CanAct, Exists
<1>3. r \in AgentRecords /\ r.status # "none" /\ r.mandate \in Mandates
  BY <1>2, RecordFields DEF AgentRecords
<1>4. record' = [record EXCEPT ![a] = r]
  BY <1>1 DEF CallInv, TypeOK
<1> HIDE DEF r
<1>5. /\ record' \in [Agents -> AgentRecords] /\ record'[a] = r
      /\ \A b \in Agents \ {a} : record'[b] = record[b]
  BY <1>3, <1>4 DEF CallInv, TypeOK
<1>6. \A b \in Agents : record'[b].status # "none" <=> record[b].status # "none"
  BY <1>2, <1>3, <1>5 DEF Exists
<1>7. TypeOK' /\ CallShape'
  BY <1>1, <1>5 DEF CallInv, TypeOK, CallShape
<1>8. RecordShape' /\ LockInv'
  <2>1. RecordShape'
    BY <1>1, <1>2, <1>3, <1>5, <1>6 DEF CallInv, RecordShape, Exists
  <2>2. LockInv'
    BY <1>1 DEF CallInv, LockInv, Locked, HoldsLock
  <2> QED BY <2>1, <2>2
<1>9. HireShape'
  <2>1. \A d \in Calls : call[d].op = "hire" => call[d].agent \in Agents
    BY DEF CallInv, CallShape, Shape
  <2>2. \A d \in Calls : call[d].pc # "idle" => call[d].agent \in Agents
    BY DEF CallInv, CallShape, Shape
  <2>3. \A d \in Calls : call[d].pc = "provisioned" => call[d].op = "hire"
    BY DEF CallInv, CallShape, Shape
  <2> QED BY <1>1, <1>6, <2>1, <2>2, <2>3 DEF CallInv, HireShape, Exists
<1> QED BY <1>7, <1>8, <1>9 DEF CallInv

LEMMA CrashInv == ASSUME CallInv, Crash PROVE CallInv'
<1>1. /\ call' \in [Calls -> CallStates]
      /\ \A c \in Calls : call'[c] = IdleCall
  BY EmptyValues DEF Crash
<1>2. IdleCall.pc = "idle" /\ IdleCall.op = "none"
  BY DEF IdleCall
<1>3. /\ prepared' \in [PrepareIds -> PreparedStates]
      /\ \A p \in PrepareIds : prepared'[p].state # "held"
  <2>1. NotPrepared("gone") \in PreparedStates /\ NotPrepared("gone").state # "held"
    BY EmptyValues DEF NotPrepared
  <2>2. \A p \in PrepareIds : prepared[p] \in PreparedStates
    BY DEF CallInv, TypeOK
  <2>3. ASSUME NEW p \in PrepareIds
        PROVE  \/ prepared'[p] = NotPrepared("gone")
               \/ prepared[p].state = "unused" /\ prepared'[p] = prepared[p]
    <3>1. prepared'[p] = IF prepared[p].state = "unused" THEN prepared[p]
                                                         ELSE NotPrepared("gone")
      BY Zenon DEF Crash
    <3>2. CASE prepared[p].state = "unused"
      BY <3>1, <3>2
    <3>3. CASE prepared[p].state # "unused"
      BY <3>1, <3>3
    <3> QED BY <3>2, <3>3
  <2>4. prepared' = [p \in PrepareIds |-> prepared'[p]]
    BY DEF Crash
  <2> QED BY <2>1, <2>2, <2>3, <2>4
<1>4. locks' \in [Agents -> Seq(Calls)]
  BY DEF Crash
<1>5. TypeOK'
  BY <1>1, <1>3, <1>4 DEF Crash, CallInv, TypeOK
<1>6. CallShape'
  BY <1>1, IdleShape DEF CallShape
<1>7. RecordShape'
  BY <1>3 DEF Crash, CallInv, RecordShape, Exists
<1>8. HireShape' /\ LockInv'
  BY <1>1, <1>2 DEF HireShape, LockInv, Locked
<1> QED BY <1>5, <1>6, <1>7, <1>8 DEF CallInv

LEMMA CallInvInit == Init => CallInv
<1> SUFFICES ASSUME Init PROVE CallInv
  OBVIOUS
<1>1. TypeOK
  BY EmptyValues DEF Init, TypeOK
<1>2. \A c \in Calls : call[c] = IdleCall
  BY DEF Init
<1>3. CallShape
  BY <1>2, IdleShape DEF CallShape
<1>4. RecordShape
  BY DEF Init, RecordShape, Exists, NoRecord, NotPrepared
<1>5. HireShape /\ LockInv
  BY <1>2 DEF HireShape, LockInv, Locked, IdleCall
<1> QED BY <1>1, <1>3, <1>4, <1>5 DEF CallInv

LEMMA CallInvStep == CallInv /\ [Next]_vars => CallInv'
<1> SUFFICES ASSUME CallInv, [Next]_vars PROVE CallInv'
  OBVIOUS
<1>1. CASE \E c \in Calls : Progress(c)
  <2>1. PICK c \in Calls : Progress(c)
    BY <1>1
  <2> QED
    BY <2>1, HireStoredInv, PinAnsweredInv, HireReturnsInv, AmendRunsInv, RevokeRunsInv,
       EnclaveAppliesInv, AmendSucceedsInv, RevokeSucceedsInv, PatchFailsInv,
       PrepareAmendReturnsInv, CommitAmendRunsInv, CommitRevokeRunsInv, ArchiveRunsInv,
       ArchiveReturnsInv, UnarchiveRunsInv DEF Progress
<1>2. CASE \E c \in Calls : Requests(c)
  <2>1. PICK c \in Calls : Requests(c)
    BY <1>2
  <2> QED
    BY <2>1, HireInv, AmendInv, RevokeInv, PrepareAmendInv, CommitInv, ArchiveInv,
       UnarchiveInv DEF Requests
<1>3. CASE UNCHANGED vars
  BY <1>3, SamePrepared, PreparedStep DEF vars, CallInv, RecordShape
<1> QED
  BY <1>1, <1>2, <1>3, PrepareRevokeInv, PrepareExpiresInv, MandateExpiresInv, CrashInv
     DEF Next

(* The calls, the locks and the records stay consistent, whatever the owner
   does, and whatever is lost or crashes. *)
THEOREM CallsAreConsistent == Spec => []CallInv
  BY CallInvInit, CallInvStep, PTL DEF Spec

(* Every variable keeps its type (agent-store.ts, prepared-approval.ts). *)
THEOREM TypeCorrect == Spec => []TypeOK
  BY CallsAreConsistent, PTL DEF CallInv

(* withAgentLock: two calls it serialises are never under way on one agent. *)
THEOREM MutualExclusion == Spec => []LockIsExclusive
<1>1. CallInv => LockIsExclusive
  BY DEF CallInv, LockInv, LockIsExclusive, HoldsLock
<1> QED BY <1>1, CallsAreConsistent, PTL

(***************************************************************************)
(* AuthorityInv is inductive when pins are safe.                           *)
(***************************************************************************)

LEMMA NoAgentIsNoAgent == NoAgent \notin Agents
  BY MandateAssumption

(* Calls that settle or go on leave a hire as alone as it was. *)
LEMMA AloneKept ==
  ASSUME CallInv, HireAlone, CallInv',
         \A d \in Calls : \/ call'[d].agent = NoAgent
                          \/ call'[d].agent = call[d].agent /\ call'[d].op = call[d].op
  PROVE  HireAlone'
<1> SUFFICES ASSUME ~OwnerActsDuringHire, NEW c \in Calls, NEW d \in Calls,
                    call'[c].op = "hire", call'[d].agent = call'[c].agent
             PROVE  c = d
  BY DEF HireAlone
<1>1. call'[c].agent \in Agents
  BY DEF CallInv, CallShape, Shape
<1> QED BY <1>1, NoAgentIsNoAgent DEF HireAlone

(* A new call of the owner is not on an agent being hired. *)
LEMMA AloneWithOwner ==
  ASSUME CallInv, HireAlone, NEW c \in Calls, NEW a \in Agents, OwnerSees(a),
         call'[c].agent = a, call'[c].op # "hire",
         \A d \in Calls \ {c} : call'[d] = call[d]
  PROVE  HireAlone'
<1> SUFFICES ASSUME ~OwnerActsDuringHire, NEW e \in Calls, NEW d \in Calls,
                    call'[e].op = "hire", call'[d].agent = call'[e].agent
             PROVE  e = d
  BY DEF HireAlone
<1>1. \A d1 \in Calls : call[d1].op = "hire" => call[d1].agent # a
  BY DEF OwnerSees, Hiring
<1> QED BY <1>1 DEF HireAlone

(* Two calls that bear on one agent's policy are one call. *)
Bearing(c) == call[c].pc \in {"sent", "applied"} \/ (call[c].pc # "idle" /\ call[c].op # "hire" /\ HoldsLock(c))

LEMMA OneBearing ==
  ASSUME SafePins, CallInv, HireAlone, NEW c \in Calls, NEW d \in Calls,
         Bearing(c), Bearing(d), call[c].agent = call[d].agent
  PROVE  c = d
<1>1. ASSUME NEW e \in Calls, Bearing(e), call[e].op # "hire"
      PROVE  HoldsLock(e)
  BY <1>1 DEF Bearing, CallInv, LockInv, Locked
<1>2. ASSUME NEW e \in Calls, NEW f \in Calls, Bearing(e), call[e].op = "hire",
             call[e].agent = call[f].agent
      PROVE  e = f
  <2>1. OwnerMode = "server"
    BY <1>2 DEF Bearing, CallInv, CallShape, Shape, PatchOps
  <2>2. ~OwnerActsDuringHire
    BY <2>1 DEF SafePins
  <2> QED BY <1>2, <2>2 DEF HireAlone
<1>3. CASE call[c].op # "hire" /\ call[d].op # "hire"
  BY <1>1, <1>3 DEF HoldsLock
<1> QED BY <1>2, <1>3

(* What the abstract specification sees of a record does not change. *)
Quiet == /\ UNCHANGED enclave
         /\ \A a \in Agents : /\ record'[a].status = record[a].status
                              /\ record'[a].policyCleared = record[a].policyCleared

LEMMA QuietStep ==
  ASSUME AuthorityInv, CallInv', HireAlone', Quiet,
         \A d \in Calls : call'[d].pc \in {"sent", "applied"} => call'[d] = call[d]
  PROVE  AuthorityInv'
<1>1. \A d \in Calls : call'[d].pc \in {"sent", "applied"} => call[d].agent \in Agents
  BY DEF AuthorityInv, CallInv, CallShape, Shape
<1>2. PatchInv'
  BY <1>1 DEF AuthorityInv, PatchInv, Quiet, Revoked
<1>3. RevokedFirst' /\ ClearedMeansExitOnly'
  BY DEF AuthorityInv, RevokedFirst, ClearedMeansExitOnly, Quiet, Revoked
<1> QED BY <1>2, <1>3 DEF AuthorityInv

(* A step of one call that leaves the others where they are. *)
Settles(c) == /\ \A d \in Calls \ {c} : call'[d] = call[d]
              /\ call'[c] = IdleCall

LEMMA SettlesQuietly ==
  ASSUME AuthorityInv, CallInv', NEW c \in Calls, Quiet, Settles(c)
  PROVE  AuthorityInv'
<1>1. IdleCall.pc = "idle" /\ IdleCall.agent = NoAgent
  BY DEF IdleCall
<1>2. HireAlone'
  BY <1>1, AloneKept DEF AuthorityInv, Settles
<1> QED BY <1>1, <1>2, QuietStep DEF Settles

LEMMA ReturnSettles ==
  ASSUME CallInv, NEW c \in Calls, call' = [call EXCEPT ![c] = IdleCall]
  PROVE  Settles(c)
  BY DEF CallInv, TypeOK, Settles

LEMMA AsksQuietly ==
  ASSUME AuthorityInv, CallInv', NEW c \in Calls, NEW a \in Agents, Quiet, OwnerSees(a),
         call'[c].agent = a, call'[c].op # "hire", call'[c].pc \notin {"sent", "applied"},
         \A d \in Calls \ {c} : call'[d] = call[d]
  PROVE  AuthorityInv'
<1>1. HireAlone'
  BY AloneWithOwner DEF AuthorityInv
<1> QED BY <1>1, QuietStep

LEMMA Same == ASSUME UNCHANGED <<record, enclave>> PROVE Quiet
  BY DEF Quiet

LEMMA EnqueueQuietly ==
  ASSUME AuthorityInv, CallInv', NEW c \in Calls, NEW op \in LockedOps, NEW a \in Agents,
         NEW m, NEW p, OwnerSees(a), Enqueue(c, op, a, m, p)
  PROVE  AuthorityInv' /\ Quiet
<1>1. /\ call'[c].pc = "queued" /\ call'[c].op = op /\ call'[c].agent = a
      /\ \A d \in Calls \ {c} : call'[d] = call[d]
      /\ UNCHANGED <<record, enclave>>
  BY DEF Enqueue, AuthorityInv, CallInv, TypeOK
<1>2. op # "hire"
  BY DEF LockedOps
<1> QED BY <1>1, <1>2, AsksQuietly, Same

(* A step that leaves the calls alone. *)
LEMMA CallsKept ==
  ASSUME AuthorityInv, CallInv', Quiet, UNCHANGED call
  PROVE  AuthorityInv'
<1>1. HireAlone'
  BY AloneKept DEF AuthorityInv
<1> QED BY <1>1, QuietStep

(* A PATCH goes out for c's agent, whose policy nobody else is changing. *)
LEMMA SendsStep ==
  ASSUME SafePins, AuthorityInv, CallInv', NEW c \in Calls, Runs(c, call[c].op),
         call[c].op \in PatchOps,
         NEW m \in Mandates, Proceed(c, "sent", m), UNCHANGED enclave,
         \A a \in Agents \ {call[c].agent} : record'[a] = record[a],
         record'[call[c].agent].policyCleared = record[call[c].agent].policyCleared,
         IF call[c].op \in {"revoke", "commitRevoke"}
         THEN record'[call[c].agent].status = "revoked"
         ELSE /\ ~Revoked(call[c].agent)
              /\ record'[call[c].agent].status = record[call[c].agent].status
  PROVE  AuthorityInv'
<1> DEFINE a == call[c].agent
<1>1. call[c].pc = "queued" /\ HoldsLock(c) /\ call[c].op # "hire"
  BY DEF Runs, PatchOps
<1>2. /\ call'[c] = At(call[c], "sent", m)
      /\ \A d \in Calls \ {c} : call'[d] = call[d]
  BY DEF Proceed, AuthorityInv, CallInv, TypeOK
<1>3. call'[c].pc = "sent" /\ call'[c].op = call[c].op /\ call'[c].agent = a
  BY <1>1, <1>2, SentShape DEF AuthorityInv
<1>4. HireAlone'
  <2>1. \A d \in Calls : call'[d].agent = call[d].agent /\ call'[d].op = call[d].op
    BY <1>2, <1>3
  <2> QED BY <2>1, AloneKept DEF AuthorityInv
<1>5. ASSUME NEW d \in Calls, d # c, call[d].pc \in {"sent", "applied"}
      PROVE  call[d].agent # a /\ call[d].agent \in Agents
  <2>1. Bearing(c) /\ Bearing(d)
    BY <1>1, <1>5 DEF Bearing
  <2> QED BY <1>5, <2>1, OneBearing DEF AuthorityInv, CallInv, CallShape, Shape
<1>6. a \in Agents
  BY <1>1 DEF AuthorityInv, CallInv, CallShape, Shape
<1>7. PatchInv'
  BY <1>2, <1>3, <1>5 DEF AuthorityInv, PatchInv, Revoked, PatchOps
<1>8. RevokedFirst' /\ ClearedMeansExitOnly'
  BY <1>6 DEF AuthorityInv, RevokedFirst, ClearedMeansExitOnly, Revoked
<1> QED BY <1>4, <1>7, <1>8 DEF AuthorityInv

(* What the owner asks for says nothing to the enclave until it runs. *)
LEMMA RequestsQuietly ==
  ASSUME AuthorityInv, CallInv', NEW c \in Calls,
         Amend(c) \/ Revoke(c) \/ PrepareAmend(c) \/ Commit(c) \/ Archive(c) \/ Unarchive(c)
  PROVE  AuthorityInv' /\ Quiet
<1>1. CASE Amend(c)
  BY <1>1, EnqueueQuietly DEF Amend, LockedOps
<1>2. CASE Revoke(c)
  BY <1>2, EnqueueQuietly DEF Revoke, LockedOps
<1>3. CASE Commit(c)
  <2>1. PICK a \in Agents, p \in PrepareIds, op \in {"commitAmend", "commitRevoke"} :
          OwnerSees(a) /\ Enqueue(c, op, a, NoMandate, p)
    BY <1>3 DEF Commit
  <2> QED BY <2>1, EnqueueQuietly DEF LockedOps
<1>4. CASE Archive(c)
  BY <1>4, EnqueueQuietly DEF Archive, LockedOps
<1>5. CASE Unarchive(c)
  BY <1>5, EnqueueQuietly DEF Unarchive, LockedOps
<1>6. CASE PrepareAmend(c)
  <2>1. PICK a \in Agents, m \in Mandates, p \in PrepareIds :
          /\ OwnerSees(a)
          /\ call' = [call EXCEPT ![c] = [IdleCall EXCEPT !.pc = "parsing",
                         !.op = "prepareAmend", !.agent = a, !.mandate = m, !.prepare = p]]
          /\ UNCHANGED <<record, enclave>>
    BY <1>6 DEF PrepareAmend
  <2> DEFINE q == [IdleCall EXCEPT !.pc = "parsing", !.op = "prepareAmend", !.agent = a,
                                   !.mandate = m, !.prepare = p]
  <2>2. q.pc = "parsing" /\ q.op = "prepareAmend" /\ q.agent = a
    BY DEF IdleCall
  <2> HIDE DEF q
  <2>3. call'[c] = q /\ \A d \in Calls \ {c} : call'[d] = call[d]
    BY <2>1 DEF AuthorityInv, CallInv, TypeOK, q
  <2> QED BY <2>1, <2>2, <2>3, AsksQuietly, Same
<1> QED BY <1>1, <1>2, <1>3, <1>4, <1>5, <1>6

(* A record updated in its other fields looks the same from outside. *)
LEMMA OtherFields ==
  ASSUME CallInv, UNCHANGED enclave, NEW a \in Agents, NEW r,
         record' = [record EXCEPT ![a] = r], r.status = record[a].status,
         r.policyCleared = record[a].policyCleared
  PROVE  Quiet
  BY DEF Quiet, CallInv, TypeOK

(* The steps that settle a call, or pin a new agent's flag. *)
LEMMA SettlingQuietly ==
  ASSUME AuthorityInv, CallInv', NEW c \in Calls,
         HireReturns(c) \/ AmendSucceeds(c) \/ PatchFails(c) \/ PrepareAmendReturns(c)
         \/ ArchiveReturns(c) \/ UnarchiveRuns(c)
  PROVE  AuthorityInv' /\ Quiet
<1> DEFINE a == call[c].agent
<1> USE DEF AuthorityInv
<1>0. call' = [call EXCEPT ![c] = IdleCall] /\ UNCHANGED enclave
  BY DEF HireReturns, AmendSucceeds, PatchFails, PrepareAmendReturns, ArchiveReturns,
         UnarchiveRuns, Return
<1>1. Settles(c)
  BY <1>0, ReturnSettles
<1>2. call[c].pc # "idle" => a \in Agents /\ record[a] \in AgentRecords
  BY DEF CallInv, CallShape, Shape, TypeOK
<1>3. CASE HireReturns(c)
  <2> DEFINE r == [record[a] EXCEPT !.pinned = @ \/ call[c].pinned]
  <2>1. record' = [record EXCEPT ![a] = r] /\ call[c].pc # "idle"
    BY <1>3 DEF HireReturns, CallInv, TypeOK
  <2>2. r.status = record[a].status /\ r.policyCleared = record[a].policyCleared
    BY <1>2, <2>1 DEF AgentRecords
  <2> HIDE DEF r
  <2> QED BY <1>0, <1>1, <1>2, <2>1, <2>2, OtherFields, SettlesQuietly
<1>4. CASE AmendSucceeds(c)
  <2> DEFINE r == [record[a] EXCEPT !.mandate = call[c].mandate, !.pinned = TRUE, !.expired = FALSE]
  <2>1. record' = [record EXCEPT ![a] = r] /\ call[c].pc # "idle"
    BY <1>4 DEF AmendSucceeds, CallInv, TypeOK
  <2>2. r.status = record[a].status /\ r.policyCleared = record[a].policyCleared
    BY <1>2, <2>1 DEF AgentRecords
  <2> HIDE DEF r
  <2> QED BY <1>0, <1>1, <1>2, <2>1, <2>2, OtherFields, SettlesQuietly
<1>5. CASE PatchFails(c)
  BY <1>1, <1>5, SettlesQuietly, Same DEF PatchFails
<1>6. CASE PrepareAmendReturns(c)
  BY <1>1, <1>6, SettlesQuietly, Same DEF PrepareAmendReturns
<1>7. CASE ArchiveReturns(c)
  <2>1. PICK emptied \in BOOLEAN : record' = [record EXCEPT ![a].archived = emptied]
    BY <1>7 DEF ArchiveReturns
  <2> DEFINE r == [record[a] EXCEPT !.archived = emptied]
  <2>2. record' = [record EXCEPT ![a] = r] /\ call[c].pc # "idle"
    BY <1>7, <2>1 DEF ArchiveReturns, CallInv, TypeOK
  <2>3. r.status = record[a].status /\ r.policyCleared = record[a].policyCleared
    BY <1>2, <2>2 DEF AgentRecords
  <2> HIDE DEF r
  <2> QED BY <1>0, <1>1, <1>2, <2>2, <2>3, OtherFields, SettlesQuietly
<1>8. CASE UnarchiveRuns(c)
  <2> DEFINE r == [record[a] EXCEPT !.archived = FALSE]
  <2>1. record' = [record EXCEPT ![a] = r] /\ call[c].pc # "idle"
    BY <1>8 DEF UnarchiveRuns, Runs, CallInv, TypeOK
  <2>2. r.status = record[a].status /\ r.policyCleared = record[a].policyCleared
    BY <1>2, <2>1 DEF AgentRecords
  <2> HIDE DEF r
  <2> QED BY <1>0, <1>1, <1>2, <2>1, <2>2, OtherFields, SettlesQuietly
<1> QED BY <1>3, <1>4, <1>5, <1>6, <1>7, <1>8

LEMMA PinAnsweredQuietly ==
  ASSUME AuthorityInv, CallInv', NEW c \in Calls, PinAnswered(c)
  PROVE  AuthorityInv' /\ Quiet
<1> USE DEF AuthorityInv
<1>1. /\ call[c] \in CallStates /\ call \in [Calls -> CallStates]
      /\ UNCHANGED <<record, enclave>>
  BY DEF CallInv, TypeOK, PinAnswered
<1>2. /\ call'[c].pc = "finishing" /\ call'[c].op = call[c].op
      /\ call'[c].agent = call[c].agent
      /\ \A d \in Calls \ {c} : call'[d] = call[d]
  <2>1. CASE call' = [call EXCEPT ![c] = [@ EXCEPT !.pc = "finishing", !.pinned = TRUE]]
    BY <1>1, <2>1 DEF CallStates
  <2>2. CASE call' = [call EXCEPT ![c].pc = "finishing"]
    BY <1>1, <2>2 DEF CallStates
  <2> QED BY <2>1, <2>2 DEF PinAnswered
<1>3. HireAlone'
  <2>1. \A d \in Calls : call'[d].agent = call[d].agent /\ call'[d].op = call[d].op
    BY <1>2
  <2> QED BY <2>1, AloneKept
<1> QED BY <1>1, <1>2, <1>3, Same, QuietStep

(* A hire gives a wallet nobody knows its first policy. *)
LEMMA ProvisionAuthority ==
  ASSUME AuthorityInv, CallInv', NEW c \in Calls, NEW a \in Agents, NEW m \in Mandates,
         Provision(c, a, m)
  PROVE  AuthorityInv'
<1> USE DEF AuthorityInv
<1> DEFINE q == [IdleCall EXCEPT !.pc = "provisioned", !.op = "hire",
                                 !.agent = a, !.mandate = m]
<1>1. /\ enclave[a] = NoRules /\ ~Hiring(a)
      /\ enclave' = [enclave EXCEPT ![a] = Compile(m, FALSE)]
      /\ call' = [call EXCEPT ![c] = q] /\ UNCHANGED record
  BY DEF Provision
<1>2. q.pc = "provisioned" /\ q.op = "hire" /\ q.agent = a
  BY DEF IdleCall
<1> HIDE DEF q
<1>3. call'[c] = q /\ \A d \in Calls \ {c} : call'[d] = call[d]
  BY <1>1 DEF CallInv, TypeOK
<1>4. ~Exists(a)
  BY <1>1 DEF CallInv, RecordShape
<1>5. \A d \in Calls : call[d].pc # "idle" => call[d].agent # a
  BY <1>1, <1>4 DEF CallInv, HireShape, Hiring
<1>6. \A d \in Calls : call[d].agent # a
  BY <1>5, NoAgentIsNoAgent DEF CallInv, CallShape, Shape
<1>7. HireAlone'
  BY <1>2, <1>3, <1>6 DEF HireAlone
<1>8. \A b \in Agents \ {a} : enclave'[b] = enclave[b]
  BY <1>1 DEF CallInv, TypeOK
<1>9. PatchInv'
  <2>1. \A d \in Calls : call[d].pc \in {"sent", "applied"} => call[d].agent \in Agents
    BY DEF CallInv, CallShape, Shape
  <2>2. ASSUME NEW d \in Calls, call'[d].pc \in {"sent", "applied"}
        PROVE  /\ call'[d] = call[d] /\ call[d].pc \in {"sent", "applied"}
               /\ enclave'[call[d].agent] = enclave[call[d].agent]
    BY <1>2, <1>3, <1>6, <1>8, <2>1, <2>2
  <2> QED BY <1>1, <2>2 DEF PatchInv, Revoked
<1>10. RevokedFirst' /\ ClearedMeansExitOnly'
  BY <1>1, <1>4, <1>8 DEF RevokedFirst, ClearedMeansExitOnly, Revoked, Exists
<1> QED BY <1>7, <1>9, <1>10

LEMMA HireStoredAuthority ==
  ASSUME AuthorityInv, CallInv', NEW c \in Calls, HireStored(c)
  PROVE  /\ AuthorityInv'
         /\ call[c].agent \in Agents /\ ~Exists(call[c].agent)
         /\ enclave[call[c].agent] # NoRules
         /\ UNCHANGED enclave
         /\ record'[call[c].agent].status = "active"
         /\ \A b \in Agents \ {call[c].agent} : record'[b] = record[b]
<1> USE DEF AuthorityInv
<1> DEFINE a == call[c].agent
           m == call[c].mandate
           q == [call[c] EXCEPT !.pc = IF OwnerMode = "server" /\ ~(m \notin KuruMandates)
                                       THEN "sent" ELSE "finishing"]
           r == [status |-> "active", policyCleared |-> FALSE, mandate |-> m,
                 pinned |-> m \notin KuruMandates, archived |-> FALSE, expired |-> FALSE]
<1>1. /\ call[c].pc = "provisioned" /\ record' = [record EXCEPT ![a] = r]
      /\ call' = [call EXCEPT ![c] = q] /\ UNCHANGED enclave
  BY DEF HireStored, CallInv, TypeOK
<1>2. call[c].op = "hire" /\ a \in Agents /\ ~Exists(a) /\ enclave[a] # NoRules
  BY <1>1 DEF CallInv, CallShape, Shape, HireShape
<1>3. q.op = call[c].op /\ q.agent = a
  BY DEF CallInv, TypeOK, CallStates
<1>4. r.status = "active" /\ r.policyCleared = FALSE
  OBVIOUS
<1> HIDE DEF q, r
<1>5. /\ call'[c] = q /\ \A d \in Calls \ {c} : call'[d] = call[d]
      /\ record'[a] = r /\ \A b \in Agents \ {a} : record'[b] = record[b]
  BY <1>1, <1>2 DEF CallInv, TypeOK
<1>6. HireAlone'
  <2>1. \A d \in Calls : call'[d].agent = call[d].agent /\ call'[d].op = call[d].op
    BY <1>3, <1>5
  <2> QED BY <2>1, AloneKept
<1>7. \A d \in Calls \ {c} : call[d].pc \in {"sent", "applied"} =>
        call[d].agent \in Agents /\ call[d].agent # a
  BY <1>2 DEF CallInv, CallShape, Shape, HireShape
<1>8. PatchInv'
  <2> SUFFICES ASSUME NEW d \in Calls, call'[d].pc \in {"sent", "applied"}
               PROVE  /\ call'[d].op \in {"hire", "amend", "commitAmend"} =>
                           record'[call'[d].agent].status # "revoked"
                      /\ call'[d].op \in {"revoke", "commitRevoke"} =>
                           record'[call'[d].agent].status = "revoked"
                      /\ call'[d].op \in {"revoke", "commitRevoke"} /\ call'[d].pc = "applied" =>
                           enclave'[call'[d].agent] \in ExitRules
    BY DEF PatchInv, Revoked
  <2>1. CASE d = c
    BY <1>2, <1>3, <1>4, <1>5, <2>1
  <2>2. CASE d # c
    BY <1>1, <1>5, <1>7, <2>2 DEF PatchInv, Revoked
  <2> QED BY <2>1, <2>2
<1>9. RevokedFirst' /\ ClearedMeansExitOnly'
  BY <1>1, <1>2, <1>4, <1>5 DEF RevokedFirst, ClearedMeansExitOnly, Revoked
<1> QED BY <1>1, <1>2, <1>4, <1>5, <1>6, <1>8, <1>9

(* A call under the lock sends the PATCH, or has nothing to do. *)
LEMMA RunsAuthority ==
  ASSUME SafePins, AuthorityInv, CallInv', NEW c \in Calls,
         AmendRuns(c) \/ RevokeRuns(c) \/ CommitAmendRuns(c) \/ CommitRevokeRuns(c)
  PROVE  /\ AuthorityInv' /\ UNCHANGED enclave
         /\ \/ Quiet
            \/ /\ call[c].agent \in Agents /\ Exists(call[c].agent)
               /\ record' = [record EXCEPT ![call[c].agent].status = "revoked"]
<1> USE DEF AuthorityInv
<1> DEFINE a == call[c].agent
           p == call[c].prepare
<1>1. /\ call[c].pc = "queued" /\ Runs(c, call[c].op) /\ UNCHANGED enclave
      /\ call[c].op \in PatchOps
  BY DEF AmendRuns, RevokeRuns, CommitAmendRuns, CommitRevokeRuns, Runs, PatchOps
<1>2. /\ a \in Agents /\ Exists(a) /\ record[a].mandate \in Mandates
      /\ call[c].op # "hire"
  <2>1. call[c].op # "hire" /\ call[c].pc # "idle"
    BY <1>1 DEF PatchOps
  <2> QED BY <2>1, RunsFacts
<1>3. CASE Return(c) /\ UNCHANGED record
  <2>1. Settles(c)
    BY <1>3, ReturnSettles DEF Return
  <2> QED BY <1>1, <1>3, <2>1, Same, SettlesQuietly
<1>4. ASSUME NEW m \in Mandates, Proceed(c, "sent", m), UNCHANGED record, ~Revoked(a),
             call[c].op \notin {"revoke", "commitRevoke"}
      PROVE  AuthorityInv' /\ Quiet
  BY <1>1, <1>4, SendsStep, Same
<1>5. ASSUME NEW m \in Mandates, Proceed(c, "sent", m),
             record' = [record EXCEPT ![a].status = "revoked"],
             call[c].op \in {"revoke", "commitRevoke"}
      PROVE  AuthorityInv'
  <2>1. /\ record'[a].status = "revoked" /\ record'[a].policyCleared = record[a].policyCleared
        /\ \A b \in Agents \ {a} : record'[b] = record[b]
    BY <1>2, <1>5 DEF CallInv, TypeOK, AgentRecords
  <2> QED BY <1>1, <1>5, <2>1, SendsStep
<1>6. CASE AmendRuns(c)
  <2>1. call[c].op = "amend" /\ call[c].mandate \in Mandates
    BY <1>6 DEF AmendRuns, Runs, CallInv, CallShape, Shape
  <2> QED BY <1>1, <1>3, <1>4, <1>6, <2>1 DEF AmendRuns
<1>7. CASE RevokeRuns(c)
  <2>1. call[c].op = "revoke"
    BY <1>7 DEF RevokeRuns, Runs
  <2> QED BY <1>1, <1>2, <1>3, <1>5, <1>7, <2>1 DEF RevokeRuns
<1>8. CASE CommitAmendRuns(c)
  <2>1. call[c].op = "commitAmend" /\ p \in PrepareIds /\ UNCHANGED record
    BY <1>8 DEF CommitAmendRuns, Runs, CallInv, CallShape, Shape
  <2>2. Matches(c, "mandate_amend") => prepared[p].mandate \in Mandates
    BY <2>1 DEF Matches, CallInv, RecordShape
  <2> QED BY <1>1, <1>3, <1>4, <1>8, <2>1, <2>2 DEF CommitAmendRuns
<1>9. CASE CommitRevokeRuns(c)
  <2>1. call[c].op = "commitRevoke" /\ p \in PrepareIds
    BY <1>9 DEF CommitRevokeRuns, Runs, CallInv, CallShape, Shape
  <2>2. Matches(c, "mandate_revoke") => prepared[p].mandate \in Mandates
    BY <2>1 DEF Matches, CallInv, RecordShape
  <2> QED BY <1>1, <1>2, <1>3, <1>5, <1>9, <2>1, <2>2 DEF CommitRevokeRuns
<1> QED BY <1>6, <1>7, <1>8, <1>9

LEMMA ArchiveRunsAuthority ==
  ASSUME AuthorityInv, CallInv', NEW c \in Calls, ArchiveRuns(c)
  PROVE  AuthorityInv' /\ Quiet
<1> USE DEF AuthorityInv
<1>1. /\ call[c].pc = "queued" /\ call[c].op = "archive" /\ UNCHANGED <<record, enclave>>
  BY DEF ArchiveRuns, Runs
<1>2. CASE Return(c)
  <2>1. Settles(c)
    BY <1>2, ReturnSettles DEF Return
  <2> QED BY <1>1, <2>1, Same, SettlesQuietly
<1>3. CASE Proceed(c, "funds", NoMandate)
  <2>1. call'[c] = At(call[c], "funds", NoMandate) /\ \A d \in Calls \ {c} : call'[d] = call[d]
    BY <1>3 DEF Proceed, CallInv, TypeOK
  <2>2. call'[c].pc = "funds" /\ call'[c].agent = call[c].agent /\ call'[c].op = call[c].op
    BY <1>1, <2>1, FundsShape
  <2>3. HireAlone'
    <3>1. \A d \in Calls : call'[d].agent = call[d].agent /\ call'[d].op = call[d].op
      BY <2>1, <2>2
    <3> QED BY <3>1, AloneKept
  <2> QED BY <1>1, <2>1, <2>2, <2>3, Same, QuietStep
<1> QED BY <1>2, <1>3 DEF ArchiveRuns

(* The enclave takes a PATCH: trading rules only for an agent not revoked. *)
LEMMA EnclaveAuthority ==
  ASSUME SafePins, AuthorityInv, CallInv', NEW c \in Calls, EnclaveApplies(c)
  PROVE  /\ AuthorityInv' /\ UNCHANGED record
         /\ call[c].agent \in Agents /\ Exists(call[c].agent)
         /\ enclave' = [enclave EXCEPT ![call[c].agent] = Request(c)]
         /\ IF Revoked(call[c].agent) THEN Request(c) \in ExitRules
                                      ELSE Request(c) \in TradeRules
<1> USE DEF AuthorityInv
<1> DEFINE a == call[c].agent
           q == [call[c] EXCEPT !.pc = "applied"]
<1>1. /\ call[c].pc = "sent" /\ enclave' = [enclave EXCEPT ![a] = Request(c)]
      /\ call' = [call EXCEPT ![c] = q] /\ UNCHANGED record
  BY DEF EnclaveApplies, CallInv, TypeOK
<1>2. /\ a \in Agents /\ call[c].mandate \in Mandates
      /\ call[c].op \in PatchOps \cup {"hire"} /\ Exists(a)
  BY <1>1 DEF CallInv, CallShape, Shape, HireShape
<1>3. /\ q.pc = "applied" /\ q.op = call[c].op /\ q.agent = a
  BY DEF CallInv, TypeOK, CallStates
<1> HIDE DEF q
<1>4. /\ call'[c] = q /\ \A d \in Calls \ {c} : call'[d] = call[d]
      /\ enclave'[a] = Request(c) /\ \A b \in Agents \ {a} : enclave'[b] = enclave[b]
  BY <1>1, <1>2 DEF CallInv, TypeOK
<1>5. IF call[c].op \in {"revoke", "commitRevoke"} THEN Request(c) \in ExitRules
                                                   ELSE Request(c) \in TradeRules
  <2>1. CASE call[c].op \in {"revoke", "commitRevoke"}
    BY <1>2, <2>1, ExitType DEF Request
  <2>2. CASE call[c].op \notin {"revoke", "commitRevoke"}
    <3>1. Compile(call[c].mandate, TRUE) \in TradeRules
      BY <1>2, CompileType
    <3> QED BY <2>2, <3>1 DEF Request
  <2> QED BY <2>1, <2>2
<1>6. call[c].op \in {"revoke", "commitRevoke"} <=> Revoked(a)
  BY <1>1, <1>2 DEF PatchInv, PatchOps
<1>7. HireAlone'
  <2>1. \A d \in Calls : call'[d].agent = call[d].agent /\ call'[d].op = call[d].op
    BY <1>3, <1>4
  <2> QED BY <2>1, AloneKept
<1>8. ASSUME NEW d \in Calls, d # c, call[d].pc \in {"sent", "applied"}
      PROVE  call[d].agent # a /\ call[d].agent \in Agents
  <2>1. Bearing(c) /\ Bearing(d)
    BY <1>1, <1>8 DEF Bearing
  <2> QED BY <1>8, <2>1, OneBearing DEF CallInv, CallShape, Shape
<1>9. PatchInv'
  <2> SUFFICES ASSUME NEW d \in Calls, call'[d].pc \in {"sent", "applied"}
               PROVE  /\ call'[d].op \in {"hire", "amend", "commitAmend"} =>
                           record'[call'[d].agent].status # "revoked"
                      /\ call'[d].op \in {"revoke", "commitRevoke"} =>
                           record'[call'[d].agent].status = "revoked"
                      /\ call'[d].op \in {"revoke", "commitRevoke"} /\ call'[d].pc = "applied" =>
                           enclave'[call'[d].agent] \in ExitRules
    BY DEF PatchInv, Revoked
  <2>1. CASE d = c
    BY <1>1, <1>3, <1>4, <1>5, <1>6, <2>1 DEF Revoked
  <2>2. CASE d # c
    BY <1>1, <1>4, <1>8, <2>2 DEF PatchInv, Revoked
  <2> QED BY <2>1, <2>2
<1>10. RevokedFirst' /\ ClearedMeansExitOnly'
  BY <1>1, <1>2, <1>4, <1>5, <1>6 DEF RevokedFirst, ClearedMeansExitOnly, Revoked
<1> QED BY <1>1, <1>2, <1>5, <1>6, <1>7, <1>9, <1>10

LEMMA RevokeSucceedsAuthority ==
  ASSUME SafePins, AuthorityInv, CallInv', NEW c \in Calls, RevokeSucceeds(c)
  PROVE  /\ AuthorityInv' /\ UNCHANGED enclave
         /\ call[c].agent \in Agents /\ Revoked(call[c].agent)
         /\ enclave[call[c].agent] \in ExitRules
         /\ record' = [record EXCEPT ![call[c].agent].policyCleared = TRUE]
<1> USE DEF AuthorityInv
<1> DEFINE a == call[c].agent
<1>1. /\ call[c].pc = "applied" /\ call[c].op \in {"revoke", "commitRevoke"}
      /\ record' = [record EXCEPT ![a].policyCleared = TRUE]
      /\ Return(c) /\ UNCHANGED enclave
  BY DEF RevokeSucceeds
<1>2. a \in Agents /\ Revoked(a) /\ enclave[a] \in ExitRules
  BY <1>1 DEF CallInv, CallShape, Shape, PatchInv
<1>3. /\ record'[a].status = "revoked"
      /\ \A b \in Agents \ {a} : record'[b] = record[b]
  BY <1>1, <1>2 DEF CallInv, TypeOK, AgentRecords, Revoked
<1>4. Settles(c)
  BY <1>1, ReturnSettles DEF Return
<1>5. /\ \A d \in Calls : call'[d].pc \in {"sent", "applied"} => call'[d] = call[d]
      /\ \A d \in Calls : \/ call'[d].agent = NoAgent
                          \/ call'[d].agent = call[d].agent /\ call'[d].op = call[d].op
  BY <1>4 DEF Settles, IdleCall
<1>6. HireAlone'
  BY <1>5, AloneKept
<1>7. PatchInv'
  <2>1. \A d \in Calls : call[d].pc \in {"sent", "applied"} => call[d].agent \in Agents
    BY DEF CallInv, CallShape, Shape
  <2>2. \A b \in Agents : record'[b].status = record[b].status
    BY <1>2, <1>3 DEF Revoked
  <2> QED BY <1>1, <1>5, <2>1, <2>2 DEF PatchInv, Revoked
<1>8. RevokedFirst' /\ ClearedMeansExitOnly'
  BY <1>1, <1>2, <1>3 DEF RevokedFirst, ClearedMeansExitOnly, Revoked
<1> QED BY <1>1, <1>2, <1>6, <1>7, <1>8

LEMMA OtherStepsQuietly ==
  ASSUME AuthorityInv, CallInv',
         PrepareRevoke \/ PrepareExpires \/ MandateExpires \/ Crash \/ UNCHANGED vars
  PROVE  AuthorityInv' /\ Quiet
<1> USE DEF AuthorityInv
<1>1. CASE PrepareRevoke \/ PrepareExpires \/ UNCHANGED vars
  BY <1>1, Same, CallsKept DEF PrepareRevoke, PrepareExpires, vars
<1>2. CASE MandateExpires
  <2>1. PICK a \in Agents : /\ record' = [record EXCEPT ![a].expired = TRUE]
                            /\ UNCHANGED <<enclave, call>>
    BY <1>2 DEF MandateExpires
  <2>2. Quiet
    BY <2>1 DEF Quiet, CallInv, TypeOK, AgentRecords
  <2> QED BY <2>1, <2>2, CallsKept
<1>3. CASE Crash
  <2>1. \A d \in Calls : call'[d].agent = NoAgent /\ call'[d].pc = "idle"
    BY <1>3 DEF Crash, IdleCall
  <2>2. Quiet
    BY <1>3, Same DEF Crash
  <2>3. HireAlone'
    BY <2>1, AloneKept
  <2> QED BY <2>1, <2>2, <2>3, QuietStep
<1> QED BY <1>1, <1>2, <1>3

(***************************************************************************)
(* Every step keeps AuthorityInv, and is a step MandateAuthority allows.   *)
(***************************************************************************)

LEMMA AuthorityInit == Init => AuthorityInv
<1> SUFFICES ASSUME Init PROVE AuthorityInv
  OBVIOUS
<1>1. CallInv
  BY CallInvInit
<1>2. \A c \in Calls : call[c].pc = "idle" /\ call[c].op = "none"
  BY DEF Init, IdleCall
<1>3. HireAlone /\ PatchInv
  BY <1>2 DEF HireAlone, PatchInv
<1>4. RevokedFirst /\ ClearedMeansExitOnly
  BY DEF Init, RevokedFirst, ClearedMeansExitOnly, NoRecord
<1> QED BY <1>1, <1>3, <1>4 DEF AuthorityInv

(* The five kinds of step that touch what the enclave promises; every other
   one is Quiet. *)
Grants(c)   == \E a \in Agents, m \in Mandates : Provision(c, a, m)
Touches(c)  == Grants(c) \/ HireStored(c) \/ EnclaveApplies(c) \/ RevokeSucceeds(c)
                 \/ AmendRuns(c) \/ RevokeRuns(c) \/ CommitAmendRuns(c) \/ CommitRevokeRuns(c)

LEMMA StepCases ==
  ASSUME AuthorityInv, CallInv', [Next]_vars
  PROVE  (AuthorityInv' /\ Quiet) \/ \E c \in Calls : Touches(c)
<1>1. CASE \E c \in Calls : Progress(c)
  <2>1. PICK c \in Calls : Progress(c)
    BY <1>1
  <2>2. CASE Touches(c)
    BY <2>2
  <2>3. CASE ~Touches(c)
    BY <2>1, <2>3, SettlingQuietly, PinAnsweredQuietly, ArchiveRunsAuthority
       DEF Progress, Touches
  <2> QED BY <2>2, <2>3
<1>2. CASE \E c \in Calls : Requests(c)
  <2>1. PICK c \in Calls : Requests(c)
    BY <1>2
  <2>2. CASE Hire(c) \/ Fork(c)
    <3>1. Grants(c)
      BY <2>2 DEF Hire, Fork, Grants
    <3> QED BY <3>1 DEF Touches
  <2>3. CASE ~(Hire(c) \/ Fork(c))
    BY <2>1, <2>3, RequestsQuietly DEF Requests
  <2> QED BY <2>2, <2>3
<1>3. CASE PrepareRevoke \/ PrepareExpires \/ MandateExpires \/ Crash \/ UNCHANGED vars
  BY <1>3, OtherStepsQuietly
<1> QED BY <1>1, <1>2, <1>3 DEF Next

LEMMA AuthorityStep ==
  ASSUME SafePins, AuthorityInv, [Next]_vars
  PROVE  AuthorityInv'
<1>1. CallInv'
  BY CallInvStep DEF AuthorityInv
<1>2. CASE AuthorityInv' /\ Quiet
  BY <1>2
<1>3. ASSUME NEW c \in Calls, Touches(c) PROVE AuthorityInv'
  <2>1. CASE Grants(c)
    BY <1>1, <2>1, ProvisionAuthority DEF Grants
  <2>2. CASE ~Grants(c)
    BY <1>1, <1>3, <2>2, HireStoredAuthority, EnclaveAuthority, RevokeSucceedsAuthority,
       RunsAuthority DEF Touches
  <2> QED BY <2>1, <2>2
<1> QED BY <1>1, <1>2, <1>3, StepCases

THEOREM AuthorityIsConsistent == SafePins /\ Spec => []AuthorityInv
<1> SUFFICES ASSUME SafePins PROVE Spec => []AuthorityInv
  OBVIOUS
<1>1. AuthorityInv /\ [Next]_vars => AuthorityInv'
  BY AuthorityStep
<1> QED BY <1>1, AuthorityInit, PTL DEF Spec

(* withAgentLock and the order of the status and the PATCH do their work: a
   wallet whose record says its policy was cleared holds the exit. *)
THEOREM ClearedHoldsExit == SafePins /\ Spec => []ClearedMeansExitOnly
<1>1. AuthorityInv => ClearedMeansExitOnly
  BY DEF AuthorityInv
<1> QED BY <1>1, AuthorityIsConsistent, PTL

LEMMA NarrowStep ==
  ASSUME SafePins, AuthorityInv, [Next]_vars
  PROVE  \A a \in Agents : Revoked(a) => enclave'[a] \in {enclave[a]} \cup ExitRules
<1>1. CallInv'
  BY CallInvStep DEF AuthorityInv
<1>2. CASE UNCHANGED enclave
  BY <1>2
<1>3. ASSUME NEW c \in Calls, Touches(c)
      PROVE  \A a \in Agents : Revoked(a) => enclave'[a] \in {enclave[a]} \cup ExitRules
  <2>1. CASE Grants(c)
    <3>1. PICK a \in Agents, m \in Mandates : Provision(c, a, m)
      BY <2>1 DEF Grants
    <3>2. ~Exists(a) /\ \A b \in Agents \ {a} : enclave'[b] = enclave[b]
      BY <3>1 DEF Provision, AuthorityInv, CallInv, RecordShape, TypeOK
    <3> QED BY <3>2 DEF Exists, Revoked
  <2>2. CASE EnclaveApplies(c)
    <3>1. /\ call[c].agent \in Agents
          /\ enclave' = [enclave EXCEPT ![call[c].agent] = Request(c)]
          /\ Revoked(call[c].agent) => Request(c) \in ExitRules
      BY <1>1, <2>2, EnclaveAuthority
    <3> QED BY <3>1 DEF AuthorityInv, CallInv, TypeOK
  <2>3. CASE ~Grants(c) /\ ~EnclaveApplies(c)
    BY <1>1, <1>2, <1>3, <2>3, HireStoredAuthority, RevokeSucceedsAuthority, RunsAuthority
       DEF Touches
  <2> QED BY <2>1, <2>2, <2>3
<1> QED BY <1>1, <1>2, <1>3, StepCases DEF Quiet

(* Once revoked, never re-armed. *)
THEOREM RevokedNarrows == SafePins /\ Spec => RevokedOnlyNarrows
<1> SUFFICES ASSUME SafePins PROVE Spec => RevokedOnlyNarrows
  OBVIOUS
<1> DEFINE Narrow == \A a \in Agents : Revoked(a) => enclave'[a] \in {enclave[a]} \cup ExitRules
<1>1. AuthorityInv /\ [Next]_vars => [Narrow]_vars
  BY NarrowStep
<1>2. RevokedOnlyNarrows <=> [][Narrow]_vars
  BY DEF RevokedOnlyNarrows
<1> HIDE DEF Narrow
<1> QED BY <1>1, <1>2, AuthorityIsConsistent, PTL DEF Spec

(***************************************************************************)
(* The refinement.                                                         *)
(***************************************************************************)

stages == [a \in Agents |-> Stage(a)]

LEMMA QuietStages == ASSUME Quiet PROVE UNCHANGED <<enclave, stages>>
<1>1. \A a \in Agents : Stage(a)' = Stage(a)
  BY DEF Quiet, Stage, Revoked
<1> QED BY <1>1 DEF Quiet, stages

(* What each agent's stage does when one record changes. *)
LEMMA StagesUpdate ==
  ASSUME NEW a \in Agents, NEW s, s = Stage(a)',
         \A b \in Agents \ {a} : record'[b] = record[b]
  PROVE  stages' = [stages EXCEPT ![a] = s] /\ stages[a] = Stage(a)
<1>1. \A b \in Agents \ {a} : Stage(b)' = Stage(b)
  BY DEF Stage, Revoked
<1> QED BY <1>1 DEF stages

LEMMA StageInit == Init => Promise!Init
<1> SUFFICES ASSUME Init PROVE Promise!Init
  OBVIOUS
<1>1. \A a \in Agents : Stage(a) = "none"
  BY DEF Init, NoRecord, Stage, Revoked
<1> QED BY <1>1 DEF Init, Promise!Init

LEMMA StageStep ==
  ASSUME SafePins, AuthorityInv, [Next]_vars
  PROVE  [Promise!Next]_(Promise!vars)
<1> DEFINE Goal == Promise!Next \/ UNCHANGED <<enclave, stages>>
<1>1. Goal => [Promise!Next]_(Promise!vars)
  BY DEF Promise!vars, stages
<1>2. CallInv'
  BY CallInvStep DEF AuthorityInv
<1>3. CASE Quiet
  BY <1>3, <1>1, QuietStages
<1>4. ASSUME NEW c \in Calls, Touches(c) PROVE Goal
  <2>0. PICK a : a = call[c].agent
    OBVIOUS
  <2>1. CASE Grants(c)
    <3>1. PICK b \in Agents, m \in Mandates : Provision(c, b, m)
      BY <2>1 DEF Grants
    <3>2. Compile(m, FALSE) \in TradeRules
      BY CompileType
    <3>3. /\ enclave[b] = NoRules /\ UNCHANGED record
          /\ enclave' = [enclave EXCEPT ![b] = Compile(m, FALSE)]
      BY <3>1 DEF Provision
    <3>4. UNCHANGED stages
      BY <3>3 DEF stages, Stage, Revoked
    <3>5. Promise!Provision(b)
      BY <3>2, <3>3, <3>4 DEF Promise!Provision, stages
    <3> QED BY <3>5 DEF Promise!Next
  <2>2. CASE HireStored(c)
    <3>1. /\ a \in Agents /\ ~Exists(a) /\ enclave[a] # NoRules /\ UNCHANGED enclave
          /\ record'[a].status = "active" /\ \A b \in Agents \ {a} : record'[b] = record[b]
      BY <1>2, <2>0, <2>2, HireStoredAuthority
    <3>2. Stage(a) = "none" /\ Stage(a)' = "active"
      BY <3>1 DEF Stage, Revoked, Exists
    <3>3. stages' = [stages EXCEPT ![a] = "active"] /\ stages[a] = "none"
      BY <3>1, <3>2, StagesUpdate
    <3>4. Promise!Hire(a)
      BY <3>1, <3>3 DEF Promise!Hire, stages
    <3> QED BY <3>1, <3>4 DEF Promise!Next
  <2>3. CASE EnclaveApplies(c)
    <3>1. /\ UNCHANGED record /\ a \in Agents /\ Exists(a)
          /\ enclave' = [enclave EXCEPT ![a] = Request(c)]
          /\ IF Revoked(a) THEN Request(c) \in ExitRules ELSE Request(c) \in TradeRules
      BY <1>2, <2>0, <2>3, EnclaveAuthority
    <3>2. UNCHANGED stages
      BY <3>1 DEF stages, Stage, Revoked
    <3>3. CASE Revoked(a)
      <4>1. stages[a] \in {"revoked", "sealed"}
        BY <3>1, <3>3 DEF stages, Stage
      <4>2. Promise!Clear(a)
        BY <3>1, <3>2, <3>3, <4>1 DEF Promise!Clear, stages
      <4> QED BY <3>1, <4>2 DEF Promise!Next
    <3>4. CASE ~Revoked(a)
      <4>1. record[a].status \in Statuses
        BY <3>1 DEF AuthorityInv, CallInv, TypeOK, AgentRecords
      <4>2. stages[a] = "active"
        BY <3>1, <3>4, <4>1 DEF stages, Stage, Exists, Revoked, Statuses
      <4>3. Promise!Amend(a)
        BY <3>1, <3>2, <3>4, <4>2 DEF Promise!Amend, stages
      <4> QED BY <3>1, <4>3 DEF Promise!Next
    <3> QED BY <3>3, <3>4
  <2>4. CASE RevokeSucceeds(c)
    <3>1. /\ UNCHANGED enclave /\ a \in Agents /\ Revoked(a) /\ enclave[a] \in ExitRules
          /\ record' = [record EXCEPT ![a].policyCleared = TRUE]
      BY <1>2, <2>0, <2>4, RevokeSucceedsAuthority
    <3>2. /\ record'[a].status = "revoked" /\ record'[a].policyCleared
          /\ \A b \in Agents \ {a} : record'[b] = record[b]
      BY <3>1 DEF AuthorityInv, CallInv, TypeOK, AgentRecords, Revoked
    <3>3. Stage(a)' = "sealed" /\ Stage(a) \in {"revoked", "sealed"}
      BY <3>1, <3>2 DEF Stage, Revoked
    <3>4. stages' = [stages EXCEPT ![a] = "sealed"] /\ stages[a] \in {"revoked", "sealed"}
      BY <3>1, <3>2, <3>3, StagesUpdate
    <3>5. CASE stages[a] = "revoked"
      <4>1. Promise!Seal(a)
        BY <3>1, <3>4, <3>5 DEF Promise!Seal, stages
      <4> QED BY <3>1, <4>1 DEF Promise!Next
    <3>6. CASE stages[a] = "sealed"
      BY <3>1, <3>4, <3>6 DEF stages
    <3> QED BY <3>4, <3>5, <3>6
  <2>5. CASE AmendRuns(c) \/ RevokeRuns(c) \/ CommitAmendRuns(c) \/ CommitRevokeRuns(c)
    <3>1. CASE Quiet
      BY <3>1, QuietStages
    <3>2. CASE ~Quiet
      <4>1. /\ UNCHANGED enclave /\ a \in Agents /\ Exists(a)
            /\ record' = [record EXCEPT ![a].status = "revoked"]
        BY <1>2, <2>0, <2>5, <3>2, RunsAuthority
      <4>2. /\ record'[a].status = "revoked"
            /\ record'[a].policyCleared = record[a].policyCleared
            /\ \A b \in Agents \ {a} : record'[b] = record[b]
            /\ record[a].status \in Statuses
        BY <4>1 DEF AuthorityInv, CallInv, TypeOK, AgentRecords
      <4>3. CASE Revoked(a)
        <5>1. Quiet
          BY <4>1, <4>2, <4>3 DEF Quiet, Revoked
        <5> QED BY <3>2, <5>1
      <4>4. CASE ~Revoked(a)
        <5>1. ~record[a].policyCleared
          BY <4>1, <4>4 DEF AuthorityInv, RevokedFirst
        <5>2. Stage(a) = "active" /\ Stage(a)' = "revoked"
          BY <4>1, <4>2, <4>4, <5>1 DEF Stage, Revoked, Exists, Statuses
        <5>3. stages' = [stages EXCEPT ![a] = "revoked"] /\ stages[a] = "active"
          BY <4>1, <4>2, <5>2, StagesUpdate
        <5>4. Promise!Revoke(a)
          BY <4>1, <5>3 DEF Promise!Revoke, stages
        <5> QED BY <4>1, <5>4 DEF Promise!Next
      <4> QED BY <4>3, <4>4
    <3> QED BY <3>1, <3>2
  <2> QED BY <1>4, <2>1, <2>2, <2>3, <2>4, <2>5 DEF Touches
<1> QED BY <1>1, <1>2, <1>3, <1>4, StepCases

(* AgentMandate implements MandateAuthority. *)
THEOREM AuthorityKept == SafePins /\ Spec => AuthorityIsPromised
<1> SUFFICES ASSUME SafePins PROVE Spec => Promise!Spec
  BY DEF AuthorityIsPromised
<1>1. AuthorityInv /\ [Next]_vars => [Promise!Next]_(Promise!vars)
  BY StageStep
<1> QED BY <1>1, StageInit, AuthorityIsConsistent, PTL DEF Spec, Promise!Spec

(***************************************************************************)
(* Approvals.  ApprovalInv is inductive whatever the owner does.           *)
(***************************************************************************)

PrepareOps == {"prepareAmend", "commitAmend", "commitRevoke"}

(* Only a prepare, or a commit, carries an id: a prepare one that nothing else
   carries and that is not used yet, a commit one that was. *)
PreparesFit ==
  /\ \A c \in Calls : call[c].op \notin PrepareOps => call[c].prepare = NoPrepare
  /\ \A c \in Calls : call[c].op = "prepareAmend" =>
       /\ prepared[call[c].prepare].state = "unused"
       /\ \A d \in Calls \ {c} : call[d].prepare # call[c].prepare
  /\ \A c \in Calls : call[c].op \in {"commitAmend", "commitRevoke"} =>
       prepared[call[c].prepare].state # "unused"

ApprovalInv == CallInv /\ PreparesFit /\ ApprovalsAreSingleUse

Patching(x) == x.pc \in {"sent", "applied"}

(* Who carries what. *)
LEMMA Carriers ==
  ASSUME CallInv, PreparesFit, NEW c \in Calls
  PROVE  /\ call[c].prepare # NoPrepare <=> call[c].op \in PrepareOps
         /\ call[c].prepare # NoPrepare => call[c].prepare \in PrepareIds
         /\ call[c].op = "prepareAmend" => ~Patching(call[c])
<1>1. NoPrepare \notin PrepareIds
  BY MandateAssumption
<1>2. Shape(call[c])
  BY DEF CallInv, CallShape
<1> QED BY <1>1, <1>2 DEF Shape, PreparesFit, PrepareOps, Patching, PatchOps

(* A call that is over, or starts something that carries no prepare, or goes on
   with the operation it is, carrying what it carries, and sends no PATCH for it. *)
GoesOn(old, new) ==
  \/ new.op \notin PrepareOps /\ new.prepare = NoPrepare
  \/ /\ new.op = old.op /\ new.prepare = old.prepare
     /\ Patching(new) => Patching(old)

LEMMA GoOn ==
  ASSUME ApprovalInv, CallInv', UNCHANGED prepared,
         \A d \in Calls : GoesOn(call[d], call'[d])
  PROVE  ApprovalInv'
<1> USE DEF ApprovalInv
<1>1. PreparesFit'
  BY Carriers DEF PreparesFit, GoesOn, PrepareOps
<1>2. ApprovalsAreSingleUse'
  BY DEF ApprovalsAreSingleUse, GoesOn, Patching
<1> QED BY <1>1, <1>2

(* One call changes, and goes on. *)
LEMMA OneGoesOn ==
  ASSUME ApprovalInv, CallInv', UNCHANGED prepared, NEW c \in Calls, NEW q,
         call' = [call EXCEPT ![c] = q], GoesOn(call[c], q)
  PROVE  ApprovalInv'
<1>1. \A d \in Calls : GoesOn(call[d], call'[d])
  BY DEF GoesOn, ApprovalInv, CallInv, TypeOK
<1> QED BY <1>1, GoOn

LEMMA IdleGoesOn == ASSUME NEW old PROVE GoesOn(old, IdleCall)
  BY DEF GoesOn, IdleCall, PrepareOps

(* A call that returns carries nothing any more. *)
LEMMA ReturnsApproved ==
  ASSUME ApprovalInv, CallInv', UNCHANGED prepared, NEW c \in Calls,
         call' = [call EXCEPT ![c] = IdleCall]
  PROVE  ApprovalInv'
  BY IdleGoesOn, OneGoesOn

(* A call without a prepare goes on to the enclave or to the balances. *)
LEMMA ProceedsApproved ==
  ASSUME ApprovalInv, CallInv', UNCHANGED prepared, NEW c \in Calls,
         call[c].op \notin PrepareOps, NEW pc, NEW m, Proceed(c, pc, m)
  PROVE  ApprovalInv'
<1> DEFINE q == At(call[c], pc, m)
<1>1. call[c] \in CallStates
  BY DEF ApprovalInv, CallInv, TypeOK
<1>2. q.op = call[c].op /\ q.prepare = call[c].prepare
  BY <1>1 DEF At, CallStates
<1>3. call[c].prepare = NoPrepare
  BY DEF ApprovalInv, PreparesFit
<1>4. call' = [call EXCEPT ![c] = q]
  BY DEF Proceed
<1> HIDE DEF q
<1> QED BY <1>2, <1>3, <1>4, OneGoesOn DEF GoesOn

(* The steps of a call that leave the prepared changes alone. *)
LEMMA HandledApproved ==
  ASSUME ApprovalInv, CallInv', NEW c \in Calls,
         \/ HireStored(c) \/ PinAnswered(c) \/ HireReturns(c)
         \/ AmendRuns(c) \/ RevokeRuns(c) \/ EnclaveApplies(c)
         \/ AmendSucceeds(c) \/ RevokeSucceeds(c) \/ PatchFails(c)
         \/ ArchiveRuns(c) \/ ArchiveReturns(c) \/ UnarchiveRuns(c)
  PROVE  ApprovalInv'
<1>0. /\ call \in [Calls -> CallStates] /\ call[c] \in CallStates /\ Shape(call[c])
  BY DEF ApprovalInv, CallInv, TypeOK, CallShape
<1>1. CASE HireStored(c) \/ PinAnswered(c)
  <2>1. call[c].op = "hire" /\ UNCHANGED prepared
    BY <1>0, <1>1 DEF HireStored, PinAnswered, Shape
  <2>2. call[c].prepare = NoPrepare
    BY <2>1 DEF ApprovalInv, PreparesFit, PrepareOps
  <2>3. \A d \in Calls \ {c} : call'[d] = call[d]
    BY <1>0, <1>1 DEF HireStored, PinAnswered
  <2>4. call'[c].op = call[c].op /\ call'[c].prepare = call[c].prepare
    <3>1. \/ \E x : call' = [call EXCEPT ![c].pc = x]
          \/ call' = [call EXCEPT ![c] = [@ EXCEPT !.pc = "finishing", !.pinned = TRUE]]
      BY <1>1 DEF HireStored, PinAnswered
    <3>2. CASE \E x : call' = [call EXCEPT ![c].pc = x]
      BY <1>0, <3>2 DEF CallStates
    <3>3. CASE call' = [call EXCEPT ![c] = [@ EXCEPT !.pc = "finishing", !.pinned = TRUE]]
      BY <1>0, <3>3 DEF CallStates
    <3> QED BY <3>1, <3>2, <3>3
  <2>5. \A d \in Calls : GoesOn(call[d], call'[d])
    BY <2>1, <2>2, <2>3, <2>4 DEF GoesOn, PrepareOps
  <2> QED BY <2>1, <2>5, GoOn
<1>2. CASE EnclaveApplies(c)
  <2>1. UNCHANGED prepared /\ Patching(call[c])
    BY <1>2 DEF EnclaveApplies, Patching
  <2>2. \A d \in Calls \ {c} : call'[d] = call[d]
    BY <1>0, <1>2 DEF EnclaveApplies
  <2>3. call'[c].op = call[c].op /\ call'[c].prepare = call[c].prepare
    BY <1>0, <1>2 DEF EnclaveApplies, CallStates
  <2>4. \A d \in Calls : GoesOn(call[d], call'[d])
    BY <2>1, <2>2, <2>3 DEF GoesOn
  <2> QED BY <2>1, <2>4, GoOn
<1>3. CASE AmendRuns(c) \/ RevokeRuns(c) \/ ArchiveRuns(c)
  <2>1. /\ UNCHANGED prepared /\ call[c].op \notin PrepareOps
        /\ \/ call' = [call EXCEPT ![c] = IdleCall]
           \/ \E pc, m : Proceed(c, pc, m)
    BY <1>3 DEF AmendRuns, RevokeRuns, ArchiveRuns, Runs, PrepareOps, Return
  <2> QED BY <2>1, ReturnsApproved, ProceedsApproved
<1>4. CASE \/ HireReturns(c) \/ AmendSucceeds(c) \/ RevokeSucceeds(c) \/ PatchFails(c)
           \/ ArchiveReturns(c) \/ UnarchiveRuns(c)
  <2>1. UNCHANGED prepared /\ call' = [call EXCEPT ![c] = IdleCall]
    BY <1>4 DEF HireReturns, AmendSucceeds, RevokeSucceeds, PatchFails, ArchiveReturns,
       UnarchiveRuns, Return
  <2> QED BY <2>1, ReturnsApproved
<1> QED BY <1>1, <1>2, <1>3, <1>4

(* A commit runs: its prepare is spent, so whoever sends a PATCH with it is the
   only one that ever did. *)
LEMMA CommitRunsApproved ==
  ASSUME ApprovalInv, CallInv', NEW c \in Calls, CommitAmendRuns(c) \/ CommitRevokeRuns(c)
  PROVE  ApprovalInv'
<1> DEFINE p == call[c].prepare
<1> USE DEF ApprovalInv
<1>0. call \in [Calls -> CallStates] /\ call[c] \in CallStates /\ prepared \in [PrepareIds -> PreparedStates]
  BY DEF CallInv, TypeOK
<1>1. call[c].op \in {"commitAmend", "commitRevoke"} /\ Take(p)
  BY DEF CommitAmendRuns, CommitRevokeRuns, Runs
<1>2. p \in PrepareIds /\ prepared[p].state # "unused" /\ p # NoPrepare
  BY <1>1, Carriers DEF PreparesFit, PrepareOps
<1>3. /\ prepared'[p].state = "gone"
      /\ \A q \in PrepareIds \ {p} : prepared'[q] = prepared[q]
  BY <1>0, <1>1, <1>2 DEF Take, NotPrepared
<1>4. \/ call' = [call EXCEPT ![c] = IdleCall]
      \/ prepared[p].state = "held" /\ \E m : call' = [call EXCEPT ![c] = At(call[c], "sent", m)]
  BY DEF CommitAmendRuns, CommitRevokeRuns, Return, Proceed, Matches
<1>5. \A d \in Calls \ {c} : call'[d] = call[d]
  BY <1>0, <1>4
<1>6. \/ call'[c] = IdleCall
      \/ /\ prepared[p].state = "held"
         /\ call'[c].op = call[c].op /\ call'[c].prepare = p
  BY <1>0, <1>4 DEF At, CallStates
<1>7. IdleCall.prepare = NoPrepare /\ IdleCall.op \notin PrepareOps
  BY DEF IdleCall, PrepareOps
<1>8. PreparesFit'
  <2>1. ASSUME NEW d \in Calls PROVE call'[d].op \notin PrepareOps => call'[d].prepare = NoPrepare
    BY <1>1, <1>5, <1>6, <1>7 DEF PreparesFit, PrepareOps
  <2>2. ASSUME NEW d \in Calls, call'[d].op = "prepareAmend"
        PROVE  /\ prepared'[call'[d].prepare].state = "unused"
               /\ \A e \in Calls \ {d} : call'[e].prepare # call'[d].prepare
    <3>1. d # c /\ call'[d] = call[d]
      BY <1>1, <1>5, <1>6, <1>7, <2>2 DEF PrepareOps
    <3>2. /\ call[d].prepare \in PrepareIds /\ call[d].prepare # NoPrepare
          /\ call[d].prepare # p /\ prepared[call[d].prepare].state = "unused"
      BY <2>2, <3>1, Carriers DEF PreparesFit, PrepareOps
    <3>3. \A e \in Calls \ {d} : call[e].prepare # call[d].prepare
      BY <2>2, <3>1 DEF PreparesFit
    <3> QED BY <1>3, <1>5, <1>6, <1>7, <3>1, <3>2, <3>3
  <2>3. ASSUME NEW d \in Calls, call'[d].op \in {"commitAmend", "commitRevoke"}
        PROVE  prepared'[call'[d].prepare].state # "unused"
    <3>1. CASE d = c
      BY <1>3, <1>6, <1>7, <2>3, <3>1 DEF PrepareOps
    <3>2. CASE d # c
      <4>1. call[d].prepare \in PrepareIds /\ prepared[call[d].prepare].state # "unused"
        BY <1>5, <2>3, <3>2, Carriers DEF PreparesFit, PrepareOps
      <4> QED BY <1>3, <1>5, <3>2, <4>1
    <3> QED BY <3>1, <3>2
  <2> QED BY <2>1, <2>2, <2>3 DEF PreparesFit
<1>9. ApprovalsAreSingleUse'
  <2>1. ASSUME NEW d \in Calls, Patching(call'[d]), call'[d].prepare # NoPrepare
        PROVE  /\ prepared'[call'[d].prepare].state = "gone"
               /\ d # c => Patching(call[d]) /\ prepared[call[d].prepare].state = "gone"
    <3>1. CASE d = c
      BY <1>3, <1>6, <1>7, <2>1, <3>1
    <3>2. CASE d # c
      <4>1. call[d].prepare \in PrepareIds /\ prepared[call[d].prepare].state = "gone"
        BY <1>5, <2>1, <3>2, Carriers DEF ApprovalsAreSingleUse, Patching
      <4> QED BY <1>3, <1>5, <2>1, <3>2, <4>1
    <3> QED BY <3>1, <3>2
  <2>2. ASSUME NEW d \in Calls, NEW e \in Calls \ {d}, Patching(call'[d]), Patching(call'[e]),
               call'[d].prepare # NoPrepare
        PROVE  call'[e].prepare # call'[d].prepare
    <3>1. CASE d # c /\ e # c
      BY <1>5, <2>2, <3>1 DEF ApprovalsAreSingleUse, Patching
    <3>2. CASE d = c \/ e = c
      BY <1>5, <1>6, <1>7, <2>1, <2>2, <3>2
    <3> QED BY <3>1, <3>2
  <2>3. \A q, r \in PrepareIds :
          prepared'[q].state = "held" /\ prepared'[r].state = "held"
            /\ prepared'[q].agent = prepared'[r].agent => q = r
    BY <1>3 DEF ApprovalsAreSingleUse
  <2> QED BY <2>1, <2>2, <2>3 DEF ApprovalsAreSingleUse, Patching
<1> QED BY <1>8, <1>9

(* A prepare is put: what the owner was looking at before is gone. *)
LEMMA PutApproved ==
  ASSUME ApprovalInv, CallInv', NEW p \in PrepareIds, NEW kind, NEW a, NEW m,
         Put(p, kind, a, m), prepared[p].state = "unused",
         \A d \in Calls : call'[d].prepare # p,
         \A d \in Calls : call'[d] \in {call[d], IdleCall}
  PROVE  ApprovalInv'
<1> USE DEF ApprovalInv
<1>1. prepared'[p].state = "held" /\ prepared'[p].agent = a
  BY DEF Put
<1>2. \A q \in PrepareIds \ {p} :
        \/ /\ prepared[q].state = "held" /\ prepared[q].agent = a
           /\ prepared'[q].state = "gone"
        \/ /\ ~(prepared[q].state = "held" /\ prepared[q].agent = a)
           /\ prepared'[q] = prepared[q]
  BY DEF Put, NotPrepared
<1>3. IdleCall.prepare = NoPrepare /\ IdleCall.op \notin PrepareOps /\ ~Patching(IdleCall)
  BY DEF IdleCall, PrepareOps, Patching
<1>4. \A d \in Calls : call'[d] = IdleCall \/ (call'[d] = call[d] /\ call[d].prepare # p)
  OBVIOUS
<1>5. \A d \in Calls : call[d].op \in PrepareOps => call[d].prepare \in PrepareIds
  BY Carriers
<1>6. PreparesFit'
  <2>1. \A d \in Calls : call'[d].op \in PrepareOps =>
          /\ call'[d] = call[d] /\ call[d].prepare \in PrepareIds \ {p}
          /\ call[d].prepare # NoPrepare
    BY <1>3, <1>4, Carriers
  <2>2. \A d \in Calls : call'[d].op \notin PrepareOps => call'[d].prepare = NoPrepare
    BY <1>3, <1>4 DEF PreparesFit
  <2>3. ASSUME NEW d \in Calls, call'[d].op = "prepareAmend"
        PROVE  /\ prepared'[call'[d].prepare].state = "unused"
               /\ \A e \in Calls \ {d} : call'[e].prepare # call'[d].prepare
    BY <1>2, <1>3, <1>4, <2>1, <2>3 DEF PreparesFit, PrepareOps
  <2>4. ASSUME NEW d \in Calls, call'[d].op \in {"commitAmend", "commitRevoke"}
        PROVE  prepared'[call'[d].prepare].state # "unused"
    BY <1>2, <2>1, <2>4 DEF PreparesFit, PrepareOps
  <2> QED BY <2>2, <2>3, <2>4 DEF PreparesFit
<1>7. ApprovalsAreSingleUse'
  <2>1. \A d \in Calls : Patching(call'[d]) /\ call'[d].prepare # NoPrepare =>
          /\ call'[d] = call[d] /\ call[d].prepare \in PrepareIds \ {p}
    BY <1>3, <1>4, Carriers
  <2>2. \A d \in Calls : Patching(call'[d]) /\ call'[d].prepare # NoPrepare =>
          /\ prepared'[call'[d].prepare].state = "gone"
          /\ \A e \in Calls \ {d} : Patching(call'[e]) => call'[e].prepare # call'[d].prepare
    BY <1>2, <1>3, <1>4, <2>1 DEF ApprovalsAreSingleUse, Patching
  <2>3. \A q, r \in PrepareIds :
          prepared'[q].state = "held" /\ prepared'[r].state = "held"
            /\ prepared'[q].agent = prepared'[r].agent => q = r
    BY <1>1, <1>2 DEF ApprovalsAreSingleUse
  <2> QED BY <2>2, <2>3 DEF ApprovalsAreSingleUse, Patching
<1> QED BY <1>6, <1>7

(* Requests, and the steps that put, forget or keep prepared changes. *)
LEMMA AskedApproved ==
  ASSUME ApprovalInv, CallInv', NEW c \in Calls, Requests(c) PROVE ApprovalInv'
<1> USE DEF ApprovalInv
<1>0. call \in [Calls -> CallStates] /\ call[c] \in CallStates
  BY DEF CallInv, TypeOK
<1>1. CASE Hire(c) \/ Fork(c)
  <2>1. PICK a \in Agents, m \in Mandates : Provision(c, a, m)
    BY <1>1 DEF Hire, Fork
  <2> DEFINE q == [IdleCall EXCEPT !.pc = "provisioned", !.op = "hire", !.agent = a, !.mandate = m]
  <2>2. q.op \notin PrepareOps /\ q.prepare = NoPrepare
    BY DEF IdleCall, PrepareOps
  <2>3. call' = [call EXCEPT ![c] = q] /\ UNCHANGED prepared
    BY <2>1 DEF Provision
  <2> HIDE DEF q
  <2> QED BY <2>2, <2>3, OneGoesOn DEF GoesOn
<1>2. CASE Amend(c) \/ Revoke(c) \/ Archive(c) \/ Unarchive(c)
  <2>1. PICK op \in {"amend", "revoke", "archive", "unarchive"}, a \in Agents,
             m \in Mandates \cup {NoMandate} :
          Enqueue(c, op, a, m, NoPrepare)
    BY <1>2 DEF Amend, Revoke, Archive, Unarchive
  <2> DEFINE q == [pc |-> "queued", op |-> op, agent |-> a, mandate |-> m,
                   prepare |-> NoPrepare, pinned |-> FALSE]
  <2>2. q.op \notin PrepareOps /\ q.prepare = NoPrepare
    BY DEF PrepareOps
  <2>3. call' = [call EXCEPT ![c] = q] /\ UNCHANGED prepared
    BY <2>1 DEF Enqueue
  <2> HIDE DEF q
  <2> QED BY <2>2, <2>3, OneGoesOn DEF GoesOn
<1>3. CASE Commit(c)
  <2>1. PICK a \in Agents, p \in PrepareIds, op \in {"commitAmend", "commitRevoke"} :
          prepared[p].state # "unused" /\ Enqueue(c, op, a, NoMandate, p)
    BY <1>3 DEF Commit
  <2> DEFINE q == [pc |-> "queued", op |-> op, agent |-> a, mandate |-> NoMandate,
                   prepare |-> p, pinned |-> FALSE]
  <2>2. call'[c] = q /\ UNCHANGED prepared /\ \A d \in Calls \ {c} : call'[d] = call[d]
    BY <1>0, <2>1 DEF Enqueue
  <2>3. q.op = op /\ q.prepare = p /\ ~Patching(q)
    BY DEF Patching
  <2> HIDE DEF q
  <2>4. PreparesFit'
    BY <2>1, <2>2, <2>3, Carriers DEF PreparesFit, PrepareOps
  <2>5. ApprovalsAreSingleUse'
    BY <2>2, <2>3 DEF ApprovalsAreSingleUse, Patching
  <2> QED BY <2>4, <2>5
<1>4. CASE PrepareAmend(c)
  <2>1. PICK a \in Agents, m \in Mandates, p \in PrepareIds :
          /\ Fresh(p) /\ UNCHANGED prepared
          /\ call' = [call EXCEPT ![c] = [IdleCall EXCEPT !.pc = "parsing",
                         !.op = "prepareAmend", !.agent = a, !.mandate = m, !.prepare = p]]
    BY <1>4 DEF PrepareAmend
  <2> DEFINE q == [IdleCall EXCEPT !.pc = "parsing", !.op = "prepareAmend", !.agent = a,
                                   !.mandate = m, !.prepare = p]
  <2>2. call'[c] = q /\ \A d \in Calls \ {c} : call'[d] = call[d]
    BY <1>0, <2>1
  <2>3. q.op = "prepareAmend" /\ q.prepare = p /\ ~Patching(q)
    BY DEF Patching, IdleCall
  <2> HIDE DEF q
  <2>4. prepared[p].state = "unused" /\ \A d \in Calls : call[d].prepare # p
    BY <2>1 DEF Fresh
  <2>5. PreparesFit'
    BY <2>1, <2>2, <2>3, <2>4 DEF PreparesFit, PrepareOps
  <2>6. ApprovalsAreSingleUse'
    BY <2>1, <2>2, <2>3 DEF ApprovalsAreSingleUse, Patching
  <2> QED BY <2>5, <2>6
<1> QED BY <1>1, <1>2, <1>3, <1>4 DEF Requests

(* A prepare that returns, or is dropped; a mandate that expires; a crash. *)
LEMMA PutReturnsApproved ==
  ASSUME ApprovalInv, CallInv', NEW c \in Calls, PrepareAmendReturns(c) PROVE ApprovalInv'
<1> DEFINE p == call[c].prepare
<1> USE DEF ApprovalInv
<1>1. /\ call[c].op = "prepareAmend" /\ p \in PrepareIds
      /\ Put(p, "mandate_amend", call[c].agent, call[c].mandate)
  BY DEF PrepareAmendReturns, CallInv, CallShape, Shape
<1>2. prepared[p].state = "unused" /\ \A d \in Calls \ {c} : call[d].prepare # p
  BY <1>1 DEF PreparesFit
<1>3. call'[c] = IdleCall /\ \A d \in Calls \ {c} : call'[d] = call[d]
  BY DEF PrepareAmendReturns, CallInv, TypeOK
<1>4. p # IdleCall.prepare
  BY <1>1, MandateAssumption DEF IdleCall
<1>5. \A d \in Calls : call'[d].prepare # p /\ call'[d] \in {call[d], IdleCall}
  BY <1>2, <1>3, <1>4
<1> HIDE DEF p
<1> QED BY <1>1, <1>2, <1>5, PutApproved

LEMMA PreparedApproved ==
  ASSUME ApprovalInv, CallInv', PrepareRevoke \/ PrepareExpires \/ MandateExpires
                                  \/ Crash \/ UNCHANGED vars
  PROVE  ApprovalInv'
<1> USE DEF ApprovalInv
<1>1. CASE PrepareRevoke
  <2>1. PICK a \in Agents, p \in PrepareIds :
          Fresh(p) /\ Put(p, "mandate_revoke", a, record[a].mandate) /\ UNCHANGED call
    BY <1>1 DEF PrepareRevoke
  <2>2. prepared[p].state = "unused" /\ \A d \in Calls : call[d].prepare # p
    BY <2>1 DEF Fresh
  <2> QED BY <2>1, <2>2, PutApproved
<1>2. CASE PrepareExpires \/ Crash
  <2>1. \A p \in PrepareIds : \/ prepared'[p] = prepared[p]
                              \/ prepared[p].state # "unused" /\ prepared'[p].state = "gone"
    <3>1. prepared \in [PrepareIds -> PreparedStates]
      BY DEF CallInv, TypeOK
    <3> QED BY <1>2, <3>1 DEF PrepareExpires, Crash, NotPrepared
  <2>2. \A d \in Calls : GoesOn(call[d], call'[d])
    BY <1>2, IdleGoesOn DEF PrepareExpires, Crash, GoesOn
  <2>3. \A d \in Calls : \/ call'[d].op \notin PrepareOps /\ call'[d].prepare = NoPrepare
                         \/ /\ call'[d].op = call[d].op /\ call'[d].prepare = call[d].prepare
                            /\ Patching(call'[d]) => Patching(call[d])
                            /\ call[d].prepare # NoPrepare => call[d].prepare \in PrepareIds
    BY <2>2, Carriers DEF GoesOn
  <2>4. PreparesFit'
    <3>1. \A d \in Calls : call'[d].op \notin PrepareOps => call'[d].prepare = NoPrepare
      BY <2>3 DEF PreparesFit
    <3>2. ASSUME NEW d \in Calls, call'[d].op \in PrepareOps
          PROVE  /\ call'[d].op = call[d].op /\ call'[d].prepare = call[d].prepare
                 /\ call[d].prepare \in PrepareIds
      BY <2>3, <3>2, Carriers
    <3>3. ASSUME NEW d \in Calls, call'[d].op = "prepareAmend"
          PROVE  /\ prepared'[call'[d].prepare].state = "unused"
                 /\ \A e \in Calls \ {d} : call'[e].prepare # call'[d].prepare
      <4>1. /\ call[d].op = "prepareAmend" /\ call'[d].prepare = call[d].prepare
            /\ call[d].prepare \in PrepareIds /\ call[d].prepare # NoPrepare
        BY <3>2, <3>3, MandateAssumption DEF PrepareOps
      <4> QED BY <2>1, <2>3, <4>1 DEF PreparesFit
    <3>4. ASSUME NEW d \in Calls, call'[d].op \in {"commitAmend", "commitRevoke"}
          PROVE  prepared'[call'[d].prepare].state # "unused"
      BY <2>1, <3>2, <3>4 DEF PreparesFit, PrepareOps
    <3> QED BY <3>1, <3>3, <3>4 DEF PreparesFit
  <2>5. ApprovalsAreSingleUse'
    BY <2>1, <2>3 DEF ApprovalsAreSingleUse, Patching
  <2> QED BY <2>4, <2>5
<1>3. CASE MandateExpires \/ UNCHANGED vars
  BY <1>3 DEF MandateExpires, vars, PreparesFit, ApprovalsAreSingleUse
<1> QED BY <1>1, <1>2, <1>3

LEMMA ApprovalInit == Init => ApprovalInv
<1> SUFFICES ASSUME Init PROVE ApprovalInv
  OBVIOUS
<1>1. \A c \in Calls : call[c] = IdleCall
  BY DEF Init
<1>2. IdleCall.op = "none" /\ IdleCall.pc = "idle" /\ IdleCall.prepare = NoPrepare
  BY DEF IdleCall
<1>3. PreparesFit
  BY <1>1, <1>2 DEF PreparesFit, PrepareOps
<1>4. ApprovalsAreSingleUse
  BY <1>1, <1>2 DEF Init, ApprovalsAreSingleUse, NotPrepared
<1> QED BY <1>3, <1>4, CallInvInit DEF ApprovalInv

LEMMA ApprovalStep == ApprovalInv /\ [Next]_vars => ApprovalInv'
<1> SUFFICES ASSUME ApprovalInv, [Next]_vars PROVE ApprovalInv'
  OBVIOUS
<1>1. CallInv'
  BY CallInvStep DEF ApprovalInv
<1>2. ASSUME NEW c \in Calls, Progress(c) PROVE ApprovalInv'
  BY <1>1, <1>2, HandledApproved, CommitRunsApproved, PutReturnsApproved DEF Progress
<1>3. ASSUME NEW c \in Calls, Requests(c) PROVE ApprovalInv'
  BY <1>1, <1>3, AskedApproved
<1> QED BY <1>1, <1>2, <1>3, PreparedApproved DEF Next

(* A signature is spent once: the approval behind a PATCH that is out is held no
   more and is no other PATCH's, and an agent has one approval at most that could
   still be committed (prepared-approval.ts:119), whatever is prepared again,
   committed twice, lost or restarted. *)
THEOREM ApprovalsAreSpentOnce == Spec => []ApprovalsAreSingleUse
<1>1. ApprovalInv => ApprovalsAreSingleUse
  BY DEF ApprovalInv
<1> QED BY <1>1, ApprovalInit, ApprovalStep, PTL DEF Spec


(***************************************************************************)
(* The pin flag, and what the stored mandate says of the enclave.          *)
(***************************************************************************)

(* Neither the rules nor what a record says of them changes. *)
RecordsSteady ==
  \A a \in Agents :
    /\ record'[a].mandate = record[a].mandate
    /\ record'[a].pinned = record[a].pinned
    /\ record'[a].status = "none" <=> record[a].status = "none"
    /\ record'[a].status = "active" => record[a].status = "active"

(* A call stays as it is, or moves on to where it brings no news. *)
Rests(d) == \/ call'[d] = call[d]
            \/ call'[d].pc \notin {"provisioned", "applied"} /\ call'[d].op # "hire"

Steady == UNCHANGED enclave /\ RecordsSteady /\ \A d \in Calls : Rests(d)

(* The steps that do bring news. *)
Brings(c) == \/ Grants(c) \/ HireStored(c) \/ PinAnswered(c) \/ HireReturns(c)
             \/ EnclaveApplies(c) \/ AmendSucceeds(c)

LEMMA SameRecords == ASSUME UNCHANGED record PROVE RecordsSteady
  BY DEF RecordsSteady

LEMMA OneRecordSteady ==
  ASSUME CallInv, NEW a \in Agents, NEW r, record' = [record EXCEPT ![a] = r],
         r.mandate = record[a].mandate, r.pinned = record[a].pinned,
         r.status = record[a].status \/ (r.status = "revoked" /\ Exists(a))
  PROVE  RecordsSteady
<1>1. record'[a] = r /\ \A b \in Agents \ {a} : record'[b] = record[b]
  BY DEF CallInv, TypeOK
<1> QED BY <1>1 DEF RecordsSteady, Exists

LEMMA OneCallRests ==
  ASSUME CallInv, NEW c \in Calls, NEW q, call' = [call EXCEPT ![c] = q],
         q.pc \notin {"provisioned", "applied"}, q.op # "hire"
  PROVE  \A d \in Calls : Rests(d)
<1>1. call'[c] = q /\ \A d \in Calls \ {c} : call'[d] = call[d]
  BY DEF CallInv, TypeOK
<1> QED BY <1>1 DEF Rests

LEMMA IdleRests == IdleCall.pc \notin {"provisioned", "applied"} /\ IdleCall.op # "hire"
  BY DEF IdleCall

LEMMA ReturnRests == ASSUME CallInv, NEW c \in Calls, Return(c) PROVE \A d \in Calls : Rests(d)
  BY IdleRests, OneCallRests DEF Return

LEMMA EnqueueSteady ==
  ASSUME CallInv, NEW c \in Calls, NEW op \in LockedOps, NEW a, NEW m, NEW p,
         Enqueue(c, op, a, m, p)
  PROVE  Steady
<1> DEFINE q == [pc |-> "queued", op |-> op, agent |-> a, mandate |-> m,
                 prepare |-> p, pinned |-> FALSE]
<1>1. call' = [call EXCEPT ![c] = q] /\ UNCHANGED <<record, enclave>>
  BY DEF Enqueue
<1>2. q.pc \notin {"provisioned", "applied"} /\ q.op # "hire"
  BY DEF LockedOps
<1> HIDE DEF q
<1> QED BY <1>1, <1>2, OneCallRests, SameRecords DEF Steady

LEMMA RequestsSteady ==
  ASSUME CallInv, NEW c \in Calls, Requests(c)
  PROVE  Steady \/ Grants(c)
<1>1. CASE Hire(c) \/ Fork(c)
  BY <1>1 DEF Hire, Fork, Grants
<1>2. CASE Amend(c)
  BY <1>2, EnqueueSteady DEF Amend, LockedOps
<1>3. CASE Revoke(c)
  BY <1>3, EnqueueSteady DEF Revoke, LockedOps
<1>4. CASE Commit(c)
  BY <1>4, EnqueueSteady DEF Commit, LockedOps
<1>5. CASE Archive(c)
  BY <1>5, EnqueueSteady DEF Archive, LockedOps
<1>6. CASE Unarchive(c)
  BY <1>6, EnqueueSteady DEF Unarchive, LockedOps
<1>7. CASE PrepareAmend(c)
  <2>1. PICK a \in Agents, m \in Mandates, p \in PrepareIds :
          /\ call' = [call EXCEPT ![c] = [IdleCall EXCEPT !.pc = "parsing",
                         !.op = "prepareAmend", !.agent = a, !.mandate = m, !.prepare = p]]
          /\ UNCHANGED <<record, enclave>>
    BY <1>7 DEF PrepareAmend
  <2> DEFINE q == [IdleCall EXCEPT !.pc = "parsing", !.op = "prepareAmend", !.agent = a,
                                   !.mandate = m, !.prepare = p]
  <2>2. q.pc \notin {"provisioned", "applied"} /\ q.op # "hire"
    BY DEF IdleCall
  <2>3. call' = [call EXCEPT ![c] = q]
    BY <2>1
  <2> HIDE DEF q
  <2> QED BY <2>1, <2>2, <2>3, OneCallRests, SameRecords DEF Steady
<1> QED BY <1>1, <1>2, <1>3, <1>4, <1>5, <1>6, <1>7 DEF Requests

(* A call that begins to run under the lock: it returns, or goes on. *)
LEMMA RunsSteady ==
  ASSUME CallInv, NEW c \in Calls,
         \/ AmendRuns(c) \/ RevokeRuns(c) \/ CommitAmendRuns(c) \/ CommitRevokeRuns(c)
         \/ ArchiveRuns(c) \/ UnarchiveRuns(c)
  PROVE  Steady
<1> DEFINE a == call[c].agent
<1>1. call[c].pc = "queued" /\ call[c].op \in LockedOps /\ UNCHANGED enclave
  BY DEF AmendRuns, RevokeRuns, CommitAmendRuns, CommitRevokeRuns, ArchiveRuns,
         UnarchiveRuns, Runs, LockedOps
<1>2. a \in Agents /\ Exists(a) /\ record[a] \in AgentRecords /\ call[c].op # "hire"
  <2>1. call[c].op # "hire" /\ call[c].pc # "idle"
    BY <1>1 DEF LockedOps
  <2> QED BY <2>1, RunsFacts, RecordFields
<1>3. \A d \in Calls : Rests(d)
  <2>1. ASSUME NEW pc \in {"sent", "funds"}, NEW m, Proceed(c, pc, m)
        PROVE  \A d \in Calls : Rests(d)
    <3> DEFINE q == At(call[c], pc, m)
    <3>1. q.pc = pc /\ q.op = call[c].op
      BY DEF At, CallInv, TypeOK, CallStates
    <3>2. call' = [call EXCEPT ![c] = q]
      BY <2>1 DEF Proceed
    <3> HIDE DEF q
    <3> QED BY <1>2, <3>1, <3>2, OneCallRests
  <2> QED
    BY <2>1, ReturnRests DEF AmendRuns, RevokeRuns, CommitAmendRuns, CommitRevokeRuns,
       ArchiveRuns, UnarchiveRuns
<1>4. CASE UNCHANGED record
  BY <1>1, <1>3, <1>4, SameRecords DEF Steady
<1>5. CASE record' = [record EXCEPT ![a].status = "revoked"]
  <2> DEFINE r == [record[a] EXCEPT !.status = "revoked"]
  <2>1. record' = [record EXCEPT ![a] = r]
    BY <1>5
  <2>2. r.mandate = record[a].mandate /\ r.pinned = record[a].pinned /\ r.status = "revoked"
    BY <1>2 DEF AgentRecords
  <2> HIDE DEF r
  <2> QED BY <1>1, <1>2, <1>3, <2>1, <2>2, OneRecordSteady DEF Steady
<1>6. CASE record' = [record EXCEPT ![a].archived = FALSE]
  <2> DEFINE r == [record[a] EXCEPT !.archived = FALSE]
  <2>1. record' = [record EXCEPT ![a] = r]
    BY <1>6
  <2>2. r.mandate = record[a].mandate /\ r.pinned = record[a].pinned /\ r.status = record[a].status
    BY <1>2 DEF AgentRecords
  <2> HIDE DEF r
  <2> QED BY <1>1, <1>2, <1>3, <2>1, <2>2, OneRecordSteady DEF Steady
<1> QED
  BY <1>4, <1>5, <1>6 DEF AmendRuns, RevokeRuns, CommitAmendRuns, CommitRevokeRuns,
     ArchiveRuns, UnarchiveRuns

LEMMA AnswersSteady ==
  ASSUME CallInv, NEW c \in Calls,
         RevokeSucceeds(c) \/ PatchFails(c) \/ PrepareAmendReturns(c) \/ ArchiveReturns(c)
  PROVE  Steady
<1> DEFINE a == call[c].agent
<1>1. call' = [call EXCEPT ![c] = IdleCall] /\ UNCHANGED enclave
  BY DEF RevokeSucceeds, PatchFails, PrepareAmendReturns, ArchiveReturns, Return
<1>2. \A d \in Calls : Rests(d)
  BY <1>1, IdleRests, OneCallRests
<1>3. CASE PatchFails(c) \/ PrepareAmendReturns(c)
  BY <1>1, <1>2, <1>3, SameRecords DEF PatchFails, PrepareAmendReturns, Steady
<1>4. CASE RevokeSucceeds(c)
  <2> DEFINE r == [record[a] EXCEPT !.policyCleared = TRUE]
  <2>1. record' = [record EXCEPT ![a] = r] /\ a \in Agents
    BY <1>4 DEF RevokeSucceeds, CallInv, CallShape, Shape
  <2>2. r.mandate = record[a].mandate /\ r.pinned = record[a].pinned /\ r.status = record[a].status
    BY <2>1 DEF AgentRecords, CallInv, TypeOK
  <2> HIDE DEF r
  <2> QED BY <1>1, <1>2, <2>1, <2>2, OneRecordSteady DEF Steady
<1>5. CASE ArchiveReturns(c)
  <2>1. PICK emptied \in BOOLEAN : record' = [record EXCEPT ![a].archived = emptied]
    BY <1>5 DEF ArchiveReturns
  <2> DEFINE r == [record[a] EXCEPT !.archived = emptied]
  <2>2. record' = [record EXCEPT ![a] = r] /\ a \in Agents
    BY <1>5, <2>1 DEF ArchiveReturns, CallInv, CallShape, Shape
  <2>3. r.mandate = record[a].mandate /\ r.pinned = record[a].pinned /\ r.status = record[a].status
    BY <2>2 DEF AgentRecords, CallInv, TypeOK
  <2> HIDE DEF r
  <2> QED BY <1>1, <1>2, <2>2, <2>3, OneRecordSteady DEF Steady
<1> QED BY <1>3, <1>4, <1>5

LEMMA OthersSteady ==
  ASSUME CallInv, PrepareRevoke \/ PrepareExpires \/ MandateExpires \/ Crash \/ UNCHANGED vars
  PROVE  Steady
<1>1. CASE PrepareRevoke \/ PrepareExpires \/ UNCHANGED vars
  BY <1>1, SameRecords DEF PrepareRevoke, PrepareExpires, vars, Steady, Rests
<1>2. CASE MandateExpires
  <2>1. PICK a \in Agents : /\ record' = [record EXCEPT ![a].expired = TRUE]
                            /\ UNCHANGED <<enclave, call>>
    BY <1>2 DEF MandateExpires
  <2> DEFINE r == [record[a] EXCEPT !.expired = TRUE]
  <2>2. record' = [record EXCEPT ![a] = r]
    BY <2>1
  <2>3. r.mandate = record[a].mandate /\ r.pinned = record[a].pinned /\ r.status = record[a].status
    BY DEF AgentRecords, CallInv, TypeOK
  <2> HIDE DEF r
  <2> QED BY <2>1, <2>2, <2>3, OneRecordSteady DEF Steady, Rests
<1>3. CASE Crash
  <2>1. \A d \in Calls : call'[d] = IdleCall
    BY <1>3 DEF Crash
  <2> QED BY <1>3, <2>1, IdleRests, SameRecords DEF Crash, Steady, Rests
<1> QED BY <1>1, <1>2, <1>3

LEMMA SteadyOrNews ==
  ASSUME CallInv, [Next]_vars
  PROVE  Steady \/ \E c \in Calls : Brings(c)
<1>1. ASSUME NEW c \in Calls, Progress(c) PROVE Steady \/ Brings(c)
  BY <1>1, RunsSteady, AnswersSteady DEF Progress, Brings
<1>2. ASSUME NEW c \in Calls, Requests(c) PROVE Steady \/ Brings(c)
  BY <1>2, RequestsSteady DEF Brings
<1> QED BY <1>1, <1>2, OthersSteady DEF Next

(***************************************************************************)
(* A pinned agent's live policy is pinned, whatever the owner does.        *)
(***************************************************************************)

(* The calls that lead to a flag being set: the enclave took a PATCH of
   theirs, or answered their pin. *)
Pinning(x) == x.pc = "applied" \/ (x.op = "hire" /\ x.pinned)

(* Before it is stored, an agent has the policy it was provisioned with. *)
NewPolicies == \A c \in Calls : call[c].pc = "provisioned" =>
                                 enclave[call[c].agent] = Compile(call[c].mandate, FALSE)

PinInv ==
  /\ CallInv /\ NewPolicies
  /\ \A c \in Calls : Pinning(call[c]) => enclave[call[c].agent].pinned
  /\ \A a \in Agents : record[a].pinned => Exists(a)
  /\ PinnedFlagIsTrue

LEMMA PinningAgent ==
  ASSUME CallInv, NEW c \in Calls, Pinning(call[c])
  PROVE  call[c].agent \in Agents
  BY DEF Pinning, CallInv, CallShape, Shape

(* Every PATCH pins: its rules were compiled with the wallet's address. *)
LEMMA RequestsArePinned == ASSUME NEW c \in Calls PROVE Request(c).pinned
<1>1. CASE call[c].op \in {"revoke", "commitRevoke"}
  BY <1>1 DEF Request, Exit
<1>2. CASE call[c].op \notin {"revoke", "commitRevoke"}
  <2>1. Compile(call[c].mandate, TRUE) = Full(call[c].mandate, TRUE)
    BY Zenon DEF Compile
  <2>2. Request(c) = Full(call[c].mandate, TRUE)
    BY <1>2, <2>1, Zenon DEF Request
  <2> QED BY <2>2 DEF Full
<1> QED BY <1>1, <1>2

(***************************************************************************)
(* What each step that brings news does.                                   *)
(***************************************************************************)

OnlyCall(c) == \A d \in Calls \ {c} : call'[d] = call[d]
OnlyRecord(a) == \A b \in Agents \ {a} : record'[b] = record[b]
OnlyPolicy(a) == \A b \in Agents \ {a} : enclave'[b] = enclave[b]
SameJob(c) == /\ call'[c].op = call[c].op /\ call'[c].agent = call[c].agent
              /\ call'[c].mandate = call[c].mandate

LEMMA GrantFacts ==
  ASSUME CallInv, NEW c \in Calls, NEW a \in Agents, NEW m \in Mandates, Provision(c, a, m)
  PROVE  /\ OnlyCall(c) /\ OnlyPolicy(a) /\ UNCHANGED record
         /\ call'[c].pc = "provisioned" /\ call'[c].op = "hire" /\ call'[c].agent = a
         /\ call'[c].mandate = m /\ call'[c].pinned = FALSE
         /\ enclave'[a] = Compile(m, FALSE)
         /\ ~Exists(a) /\ \A d \in Calls : call[d].agent # a
<1> DEFINE q == [IdleCall EXCEPT !.pc = "provisioned", !.op = "hire",
                                 !.agent = a, !.mandate = m]
<1>1. /\ enclave[a] = NoRules /\ ~Hiring(a)
      /\ enclave' = [enclave EXCEPT ![a] = Compile(m, FALSE)]
      /\ call' = [call EXCEPT ![c] = q] /\ UNCHANGED record
  BY DEF Provision
<1>2. q.pc = "provisioned" /\ q.op = "hire" /\ q.agent = a /\ q.mandate = m /\ q.pinned = FALSE
  BY DEF IdleCall
<1> HIDE DEF q
<1>3. call'[c] = q /\ OnlyCall(c) /\ OnlyPolicy(a) /\ enclave'[a] = Compile(m, FALSE)
  BY <1>1 DEF CallInv, TypeOK, OnlyCall, OnlyPolicy
<1>4. ~Exists(a)
  BY <1>1 DEF CallInv, RecordShape
<1>5. \A d \in Calls : call[d].pc # "idle" => call[d].agent # a
  BY <1>1, <1>4 DEF CallInv, HireShape, Hiring
<1>6. \A d \in Calls : call[d].agent # a
  BY <1>5, NoAgentIsNoAgent DEF CallInv, CallShape, Shape
<1> QED BY <1>1, <1>2, <1>3, <1>4, <1>6

LEMMA StoredFacts ==
  ASSUME CallInv, NEW c \in Calls, HireStored(c)
  PROVE  LET a == call[c].agent
             m == call[c].mandate
         IN  /\ OnlyCall(c) /\ OnlyRecord(a) /\ UNCHANGED enclave /\ SameJob(c)
             /\ call[c].pc = "provisioned" /\ call[c].op = "hire"
             /\ call'[c].pc \in {"sent", "finishing"} /\ call'[c].pinned = call[c].pinned
             /\ record'[a].status = "active" /\ record'[a].mandate = m
             /\ record'[a].pinned = (m \notin KuruMandates)
             /\ a \in Agents /\ m \in Mandates /\ ~Exists(a)
<1> DEFINE a == call[c].agent
           m == call[c].mandate
           pc == IF OwnerMode = "server" /\ ~(m \notin KuruMandates) THEN "sent" ELSE "finishing"
           q == [call[c] EXCEPT !.pc = pc]
           r == [status |-> "active", policyCleared |-> FALSE, mandate |-> m,
                 pinned |-> m \notin KuruMandates, archived |-> FALSE, expired |-> FALSE]
<1>1. /\ call[c].pc = "provisioned" /\ record' = [record EXCEPT ![a] = r]
      /\ call' = [call EXCEPT ![c] = q] /\ UNCHANGED enclave
  BY DEF HireStored, CallInv, TypeOK
<1>2. call[c].op = "hire" /\ a \in Agents /\ m \in Mandates /\ ~Exists(a)
  BY <1>1 DEF CallInv, CallShape, Shape, HireShape
<1>3. pc \in {"sent", "finishing"}
  OBVIOUS
<1> HIDE DEF pc
<1>4. /\ q.op = call[c].op /\ q.agent = a /\ q.mandate = m
      /\ q.pinned = call[c].pinned /\ q.pc = pc
  BY DEF CallInv, TypeOK, CallStates
<1>5. r.status = "active" /\ r.mandate = m /\ r.pinned = (m \notin KuruMandates)
  OBVIOUS
<1> HIDE DEF q, r
<1>6. call'[c] = q /\ OnlyCall(c) /\ record'[a] = r /\ OnlyRecord(a)
  BY <1>1, <1>2 DEF CallInv, TypeOK, OnlyCall, OnlyRecord
<1> QED BY <1>1, <1>2, <1>3, <1>4, <1>5, <1>6 DEF SameJob

LEMMA AnsweredPinFacts ==
  ASSUME CallInv, NEW c \in Calls, PinAnswered(c)
  PROVE  /\ OnlyCall(c) /\ SameJob(c) /\ UNCHANGED <<record, enclave>>
         /\ call[c].op = "hire" /\ call[c].pc \in {"sent", "applied"}
         /\ call'[c].pc = "finishing"
         /\ call'[c].pinned => Pinning(call[c])
<1>1. call[c] \in CallStates /\ call \in [Calls -> CallStates]
  BY DEF CallInv, TypeOK
<1>2. CASE call[c].pc = "applied" /\ call' = [call EXCEPT ![c] = [@ EXCEPT !.pc = "finishing", !.pinned = TRUE]]
  <2> DEFINE q == [call[c] EXCEPT !.pc = "finishing", !.pinned = TRUE]
  <2>1. q.pc = "finishing" /\ q.op = call[c].op /\ q.agent = call[c].agent /\ q.mandate = call[c].mandate
    BY <1>1 DEF CallStates
  <2>2. call' = [call EXCEPT ![c] = q]
    BY <1>2
  <2> HIDE DEF q
  <2>3. call'[c] = q /\ OnlyCall(c)
    BY <1>1, <2>2 DEF OnlyCall
  <2> QED BY <1>2, <2>1, <2>3 DEF PinAnswered, Pinning, SameJob
<1>3. CASE call' = [call EXCEPT ![c].pc = "finishing"] /\ call[c].pc \in {"sent", "applied"}
  <2> DEFINE q == [call[c] EXCEPT !.pc = "finishing"]
  <2>1. /\ q.pc = "finishing" /\ q.op = call[c].op /\ q.agent = call[c].agent
        /\ q.mandate = call[c].mandate /\ q.pinned = call[c].pinned
    BY <1>1 DEF CallStates
  <2>2. call' = [call EXCEPT ![c] = q]
    BY <1>3
  <2> HIDE DEF q
  <2>3. call'[c] = q /\ OnlyCall(c)
    BY <1>1, <2>2 DEF OnlyCall
  <2> QED BY <1>3, <2>1, <2>3 DEF PinAnswered, Pinning, SameJob
<1> QED BY <1>2, <1>3 DEF PinAnswered

LEMMA ReturnedHireFacts ==
  ASSUME CallInv, NEW c \in Calls, HireReturns(c)
  PROVE  LET a == call[c].agent
         IN  /\ OnlyCall(c) /\ OnlyRecord(a) /\ UNCHANGED enclave /\ a \in Agents
             /\ call[c].op = "hire" /\ call[c].pc = "finishing" /\ call'[c] = IdleCall
             /\ record'[a].status = record[a].status /\ record'[a].mandate = record[a].mandate
             /\ record'[a].pinned => record[a].pinned \/ Pinning(call[c])
             /\ Exists(a)
<1> DEFINE a == call[c].agent
           r == [record[a] EXCEPT !.pinned = @ \/ call[c].pinned]
<1>1. /\ call[c].op = "hire" /\ call[c].pc = "finishing" /\ UNCHANGED enclave
      /\ record' = [record EXCEPT ![a] = r] /\ call' = [call EXCEPT ![c] = IdleCall]
  BY DEF HireReturns, CallInv, TypeOK
<1>2. a \in Agents /\ Exists(a) /\ record[a] \in AgentRecords
  BY <1>1 DEF CallInv, CallShape, Shape, HireShape, TypeOK
<1>3. /\ r.status = record[a].status /\ r.mandate = record[a].mandate
      /\ r.pinned = (record[a].pinned \/ call[c].pinned)
  BY <1>2 DEF AgentRecords
<1> HIDE DEF r
<1>4. call'[c] = IdleCall /\ OnlyCall(c) /\ record'[a] = r /\ OnlyRecord(a)
  BY <1>1, <1>2 DEF CallInv, TypeOK, OnlyCall, OnlyRecord
<1> QED BY <1>1, <1>2, <1>3, <1>4 DEF Pinning

LEMMA TakenFacts ==
  ASSUME CallInv, NEW c \in Calls, EnclaveApplies(c)
  PROVE  LET a == call[c].agent
         IN  /\ OnlyCall(c) /\ OnlyPolicy(a) /\ UNCHANGED record /\ SameJob(c)
             /\ call[c].pc = "sent" /\ call'[c].pc = "applied" /\ call'[c].pinned = call[c].pinned
             /\ enclave'[a] = Request(c) /\ a \in Agents /\ call[c].mandate \in Mandates
             /\ Exists(a)
<1> DEFINE a == call[c].agent
           q == [call[c] EXCEPT !.pc = "applied"]
<1>1. /\ call[c].pc = "sent" /\ enclave' = [enclave EXCEPT ![a] = Request(c)]
      /\ call' = [call EXCEPT ![c] = q] /\ UNCHANGED record
  BY DEF EnclaveApplies, CallInv, TypeOK
<1>2. a \in Agents /\ call[c].mandate \in Mandates /\ Exists(a)
  BY <1>1 DEF CallInv, CallShape, Shape, HireShape
<1>3. /\ q.pc = "applied" /\ q.op = call[c].op /\ q.agent = a
      /\ q.mandate = call[c].mandate /\ q.pinned = call[c].pinned
  BY DEF CallInv, TypeOK, CallStates
<1> HIDE DEF q
<1>4. /\ call'[c] = q /\ OnlyCall(c) /\ enclave'[a] = Request(c) /\ OnlyPolicy(a)
  BY <1>1, <1>2 DEF CallInv, TypeOK, OnlyCall, OnlyPolicy
<1> QED BY <1>1, <1>2, <1>3, <1>4 DEF SameJob

LEMMA AmendedFacts ==
  ASSUME CallInv, NEW c \in Calls, AmendSucceeds(c)
  PROVE  LET a == call[c].agent
         IN  /\ OnlyCall(c) /\ OnlyRecord(a) /\ UNCHANGED enclave /\ a \in Agents
             /\ call[c].op \in {"amend", "commitAmend"} /\ call[c].pc = "applied"
             /\ call'[c] = IdleCall /\ record'[a].status = record[a].status
             /\ record'[a].mandate = call[c].mandate /\ Exists(a)
<1> DEFINE a == call[c].agent
           r == [record[a] EXCEPT !.mandate = call[c].mandate, !.pinned = TRUE, !.expired = FALSE]
<1>1. /\ call[c].op \in {"amend", "commitAmend"} /\ call[c].pc = "applied" /\ UNCHANGED enclave
      /\ record' = [record EXCEPT ![a] = r] /\ call' = [call EXCEPT ![c] = IdleCall]
  BY DEF AmendSucceeds, Return, CallInv, TypeOK
<1>2. a \in Agents /\ Exists(a) /\ record[a] \in AgentRecords
  BY <1>1 DEF CallInv, CallShape, Shape, HireShape, TypeOK
<1>3. r.status = record[a].status /\ r.mandate = call[c].mandate
  BY <1>2 DEF AgentRecords
<1> HIDE DEF r
<1>4. call'[c] = IdleCall /\ OnlyCall(c) /\ record'[a] = r /\ OnlyRecord(a)
  BY <1>1, <1>2 DEF CallInv, TypeOK, OnlyCall, OnlyRecord
<1> QED BY <1>1, <1>2, <1>3, <1>4

LEMMA NewSteady ==
  ASSUME CallInv, NewPolicies, Steady
  PROVE  NewPolicies'
  BY DEF NewPolicies, Steady, Rests

LEMMA NewNews ==
  ASSUME CallInv, NewPolicies, NEW c \in Calls, Brings(c)
  PROVE  NewPolicies'
<1> DEFINE a == call[c].agent
<1>0. \A d \in Calls : call[d].pc = "provisioned" => call[d].agent \in Agents /\ call[d].op = "hire"
  BY DEF CallInv, CallShape, Shape
<1>1. CASE Grants(c)
  <2>1. PICK b \in Agents, m \in Mandates : Provision(c, b, m)
    BY <1>1 DEF Grants
  <2>2. /\ OnlyCall(c) /\ OnlyPolicy(b) /\ enclave'[b] = Compile(m, FALSE)
        /\ call'[c].agent = b /\ call'[c].mandate = m
        /\ \A d \in Calls : call[d].agent # b
    BY <2>1, GrantFacts
  <2>3. ASSUME NEW d \in Calls, d # c, call'[d].pc = "provisioned"
        PROVE  enclave'[call'[d].agent] = Compile(call'[d].mandate, FALSE)
    <3>1. call'[d] = call[d] /\ call[d].agent \in Agents \ {b}
      BY <1>0, <2>2, <2>3 DEF OnlyCall
    <3>2. enclave'[call[d].agent] = enclave[call[d].agent]
      BY <2>2, <3>1 DEF OnlyPolicy
    <3> QED BY <2>3, <3>1, <3>2, Zenon DEF NewPolicies
  <2> QED BY <2>2, <2>3, Zenon DEF NewPolicies
<1>2. CASE EnclaveApplies(c)
  <2>1. /\ OnlyCall(c) /\ OnlyPolicy(a) /\ call'[c].pc = "applied" /\ Exists(a)
    BY <1>2, TakenFacts
  <2>2. \A d \in Calls : call[d].pc = "provisioned" => call[d].agent # a
    BY <2>1 DEF CallInv, HireShape
  <2>3. ASSUME NEW d \in Calls, call'[d].pc = "provisioned"
        PROVE  enclave'[call'[d].agent] = Compile(call'[d].mandate, FALSE)
    <3>1. d # c
      BY <2>1, <2>3
    <3>2. call'[d] = call[d] /\ call[d].agent \in Agents \ {a}
      BY <1>0, <2>1, <2>2, <2>3, <3>1 DEF OnlyCall
    <3>3. enclave'[call[d].agent] = enclave[call[d].agent]
      BY <2>1, <3>2 DEF OnlyPolicy
    <3> QED BY <2>3, <3>2, <3>3, Zenon DEF NewPolicies
  <2> QED BY <2>3, Zenon DEF NewPolicies
<1>3. CASE HireStored(c) \/ PinAnswered(c) \/ HireReturns(c) \/ AmendSucceeds(c)
  <2>1. OnlyCall(c) /\ UNCHANGED enclave /\ call'[c].pc # "provisioned"
    BY <1>3, StoredFacts, AnsweredPinFacts, ReturnedHireFacts, AmendedFacts, IdleRests
  <2> QED BY <2>1 DEF NewPolicies, OnlyCall
<1> QED BY <1>1, <1>2, <1>3 DEF Brings

LEMMA PinSteady ==
  ASSUME PinInv, CallInv', Steady
  PROVE  PinInv'
<1>1. ASSUME NEW c \in Calls, Pinning(call'[c])
      PROVE  enclave'[call'[c].agent].pinned
  BY <1>1 DEF Steady, Rests, Pinning, PinInv
<1>2. \A a \in Agents : record'[a].pinned => record'[a].status # "none" /\ enclave'[a].pinned
  BY DEF Steady, RecordsSteady, PinInv, PinnedFlagIsTrue, Exists
<1> QED BY <1>1, <1>2, NewSteady DEF PinInv, PinnedFlagIsTrue, Exists

LEMMA PinNews ==
  ASSUME PinInv, CallInv', NEW c \in Calls, Brings(c)
  PROVE  PinInv'
<1> DEFINE a == call[c].agent
           Goal1 == \A d \in Calls : Pinning(call'[d]) => enclave'[call'[d].agent].pinned
           Goal2 == \A b \in Agents : record'[b].pinned => record'[b].status # "none" /\ enclave'[b].pinned
<1>0. CallInv /\ NewPolicies /\ NewPolicies'
  BY NewNews DEF PinInv
<1> SUFFICES Goal1 /\ Goal2
  BY <1>0 DEF PinInv, PinnedFlagIsTrue, Exists
<1>1. CASE Grants(c)
  <2>1. PICK b \in Agents, m \in Mandates : Provision(c, b, m)
    BY <1>1 DEF Grants
  <2>2. /\ OnlyCall(c) /\ OnlyPolicy(b) /\ UNCHANGED record
        /\ call'[c].pc = "provisioned" /\ call'[c].pinned = FALSE
        /\ ~Exists(b) /\ \A d \in Calls : call[d].agent # b
    BY <1>0, <2>1, GrantFacts
  <2>3. Goal1
    BY <1>0, <2>2, PinningAgent DEF PinInv, Pinning, OnlyCall, OnlyPolicy
  <2>4. Goal2
    BY <2>2 DEF PinInv, PinnedFlagIsTrue, OnlyPolicy, Exists
  <2> QED BY <2>3, <2>4
<1>2. CASE HireStored(c)
  <2>1. /\ OnlyCall(c) /\ OnlyRecord(a) /\ UNCHANGED enclave /\ SameJob(c)
        /\ call'[c].pc \in {"sent", "finishing"} /\ call'[c].pinned = call[c].pinned
        /\ record'[a].status = "active" /\ a \in Agents
        /\ record'[a].pinned => call[c].mandate \notin KuruMandates
        /\ call[c].pc = "provisioned" /\ call[c].op = "hire"
    BY <1>0, <1>2, StoredFacts
  <2>2. Goal1
    BY <2>1 DEF PinInv, Pinning, OnlyCall, SameJob
  <2>3. ASSUME call[c].mandate \notin KuruMandates PROVE enclave[a].pinned
    <3>1. Compile(call[c].mandate, FALSE) = Full(call[c].mandate, TRUE)
      BY <2>3, Zenon DEF Compile
    <3>2. enclave[a] = Full(call[c].mandate, TRUE)
      BY <1>0, <2>1, <3>1, Zenon DEF NewPolicies
    <3> QED BY <3>2 DEF Full
  <2>4. Goal2
    BY <2>1, <2>3 DEF PinInv, PinnedFlagIsTrue, OnlyRecord, Exists
  <2> QED BY <2>2, <2>4
<1>3. CASE PinAnswered(c)
  <2>1. /\ OnlyCall(c) /\ SameJob(c) /\ UNCHANGED <<record, enclave>>
        /\ call[c].op = "hire" /\ call'[c].pc = "finishing"
        /\ call'[c].pinned => Pinning(call[c])
    BY <1>0, <1>3, AnsweredPinFacts
  <2>2. Goal1
    BY <2>1 DEF PinInv, Pinning, OnlyCall, SameJob
  <2>3. Goal2
    BY <2>1 DEF PinInv, PinnedFlagIsTrue, Exists
  <2> QED BY <2>2, <2>3
<1>4. CASE HireReturns(c)
  <2>1. /\ OnlyCall(c) /\ OnlyRecord(a) /\ UNCHANGED enclave /\ a \in Agents
        /\ call'[c] = IdleCall /\ record'[a].status = record[a].status /\ Exists(a)
        /\ record'[a].pinned => record[a].pinned \/ Pinning(call[c])
    BY <1>0, <1>4, ReturnedHireFacts
  <2>2. Goal1
    BY <2>1, IdleRests DEF PinInv, Pinning, OnlyCall
  <2>3. Goal2
    BY <2>1 DEF PinInv, PinnedFlagIsTrue, OnlyRecord, Exists
  <2> QED BY <2>2, <2>3
<1>5. CASE EnclaveApplies(c)
  <2>1. /\ OnlyCall(c) /\ OnlyPolicy(a) /\ UNCHANGED record /\ SameJob(c)
        /\ enclave'[a] = Request(c) /\ a \in Agents
    BY <1>0, <1>5, TakenFacts
  <2>2. enclave'[a].pinned /\ \A b \in Agents : enclave[b].pinned => enclave'[b].pinned
    BY <2>1, RequestsArePinned DEF OnlyPolicy
  <2>3. Goal1
    BY <1>0, <2>1, <2>2, PinningAgent DEF PinInv, OnlyCall, SameJob
  <2>4. Goal2
    BY <2>1, <2>2 DEF PinInv, PinnedFlagIsTrue, Exists
  <2> QED BY <2>3, <2>4
<1>6. CASE AmendSucceeds(c)
  <2>1. /\ OnlyCall(c) /\ OnlyRecord(a) /\ UNCHANGED enclave /\ a \in Agents
        /\ call'[c] = IdleCall /\ record'[a].status = record[a].status /\ Exists(a)
        /\ call[c].pc = "applied"
    BY <1>0, <1>6, AmendedFacts
  <2>2. Goal1
    BY <2>1, IdleRests DEF PinInv, Pinning, OnlyCall
  <2>3. Goal2
    BY <2>1 DEF PinInv, PinnedFlagIsTrue, OnlyRecord, Exists, Pinning
  <2> QED BY <2>2, <2>3
<1> QED BY <1>1, <1>2, <1>3, <1>4, <1>5, <1>6 DEF Brings

LEMMA PinInit == Init => PinInv
<1> SUFFICES ASSUME Init PROVE PinInv
  OBVIOUS
<1>1. \A c \in Calls : call[c].pc = "idle" /\ call[c].op = "none"
  BY DEF Init, IdleCall
<1>2. \A a \in Agents : record[a].pinned = FALSE
  BY DEF Init, NoRecord
<1> QED BY <1>1, <1>2, CallInvInit DEF PinInv, PinnedFlagIsTrue, NewPolicies, Pinning

LEMMA PinStep == PinInv /\ [Next]_vars => PinInv'
<1> SUFFICES ASSUME PinInv, [Next]_vars PROVE PinInv'
  OBVIOUS
<1>1. CallInv /\ CallInv'
  BY CallInvStep DEF PinInv
<1> QED BY <1>1, SteadyOrNews, PinSteady, PinNews

(* The deposit tool may trust the flag: while a record says its deposits are
   pinned, so does the policy at the enclave, through failed pins, lost
   answers, crashes and an owner who acts before the hire returned. *)
THEOREM PinnedFlagStaysTrue == Spec => []PinnedFlagIsTrue
<1>1. PinInv => PinnedFlagIsTrue
  BY DEF PinInv
<1> QED BY <1>1, PinInit, PinStep, PTL DEF Spec

(***************************************************************************)
(* The stored mandate and the one the enclave enforces.                    *)
(***************************************************************************)

(* A PATCH the enclave took is in force until its answer is handled. *)
TakenIsLive == \A c \in Calls : call[c].pc = "applied" => enclave[call[c].agent] = Request(c)

(* A pin compiles the mandate of the record. *)
PinsFollow == \A c \in Calls : call[c].op = "hire" /\ call[c].pc \in {"sent", "applied"} =>
                                record[call[c].agent].mandate = call[c].mandate

FollowInv == AuthorityInv /\ NewPolicies /\ TakenIsLive /\ PinsFollow

(* The policy is a trading policy of the stored mandate. *)
IsEnforced(a) == enclave[a].kind = "full" /\ enclave[a].mandate = record[a].mandate

(* As long as no answer is lost, that is so once no taken PATCH is unanswered. *)
Enforced ==
  Faults = {} =>
    \A a \in Agents :
      record[a].status = "active" /\ (\A c \in Calls : call[c].agent = a => call[c].pc # "applied") =>
        IsEnforced(a)

LEMMA CompiledFields ==
  ASSUME NEW m, NEW b \in BOOLEAN
  PROVE  Compile(m, b).kind = "full" /\ Compile(m, b).mandate = m
<1>1. PICK pin : Compile(m, b) = Full(m, pin)
  BY Zenon DEF Compile
<1>2. Full(m, pin).kind = "full" /\ Full(m, pin).mandate = m
  BY DEF Full
<1> QED BY <1>1, <1>2

LEMMA TradingRequest ==
  ASSUME NEW c \in Calls, call[c].op \notin {"revoke", "commitRevoke"}
  PROVE  Request(c) = Compile(call[c].mandate, TRUE)
  BY Zenon DEF Request

LEMMA SameRequest ==
  ASSUME NEW c \in Calls, SameJob(c)
  PROVE  Request(c)' = Request(c)
  BY DEF Request, SameJob, Exit, Compile, Full

LEMMA FollowSteady ==
  ASSUME FollowInv, Steady
  PROVE  TakenIsLive' /\ PinsFollow'
<1>1. \A d \in Calls : call'[d].pc = "applied" \/ call'[d].op = "hire" => call'[d] = call[d]
  BY DEF Steady, Rests
<1>2. \A d \in Calls : call'[d] = call[d] => Request(d)' = Request(d)
  BY SameRequest DEF SameJob
<1>3. TakenIsLive'
  BY <1>1, <1>2 DEF FollowInv, TakenIsLive, Steady
<1>4. \A d \in Calls : call[d].pc \in {"sent", "applied"} => call[d].agent \in Agents
  BY DEF FollowInv, AuthorityInv, CallInv, CallShape, Shape
<1>5. PinsFollow'
  BY <1>1, <1>4 DEF FollowInv, PinsFollow, Steady, RecordsSteady
<1> QED BY <1>3, <1>5

LEMMA FollowNews ==
  ASSUME SafePins, FollowInv, NEW c \in Calls, Brings(c)
  PROVE  TakenIsLive' /\ PinsFollow'
<1> DEFINE a == call[c].agent
           Live(d)  == call'[d].pc = "applied" => enclave'[call'[d].agent] = Request(d)'
           Names(d) == call'[d].op = "hire" /\ call'[d].pc \in {"sent", "applied"} =>
                         record'[call'[d].agent].mandate = call'[d].mandate
<1>0. CallInv /\ HireAlone /\ TakenIsLive /\ PinsFollow
  BY DEF FollowInv, AuthorityInv
<1>1. \A d \in Calls : /\ call[d].pc \in {"sent", "applied"} => call[d].agent \in Agents
                       /\ call'[d] = call[d] => Request(d)' = Request(d)
  BY <1>0, SameRequest DEF CallInv, CallShape, Shape, SameJob
<1>2. ASSUME NEW d \in Calls, call'[d] = call[d], call[d].pc = "applied" =>
               enclave'[call[d].agent] = enclave[call[d].agent]
      PROVE  Live(d)
  BY <1>0, <1>1, <1>2 DEF TakenIsLive
<1>3. ASSUME NEW d \in Calls, call'[d] = call[d],
             call[d].op = "hire" /\ call[d].pc \in {"sent", "applied"} =>
               record'[call[d].agent].mandate = record[call[d].agent].mandate
      PROVE  Names(d)
  BY <1>0, <1>3 DEF PinsFollow
<1>4. CASE Grants(c)
  <2>1. PICK b \in Agents, m \in Mandates : Provision(c, b, m)
    BY <1>4 DEF Grants
  <2>2. /\ OnlyCall(c) /\ OnlyPolicy(b) /\ UNCHANGED record
        /\ call'[c].pc = "provisioned" /\ \A d \in Calls : call[d].agent # b
    BY <1>0, <2>1, GrantFacts
  <2>3. \A d \in Calls \ {c} : Live(d) /\ Names(d)
    BY <1>1, <1>2, <1>3, <2>2 DEF OnlyCall, OnlyPolicy
  <2> QED BY <2>2, <2>3 DEF TakenIsLive, PinsFollow
<1>5. CASE HireStored(c)
  <2>1. /\ OnlyCall(c) /\ OnlyRecord(a) /\ UNCHANGED enclave /\ SameJob(c)
        /\ call[c].op = "hire" /\ call'[c].pc \in {"sent", "finishing"}
        /\ record'[a].mandate = call[c].mandate
    BY <1>0, <1>5, StoredFacts
  <2>2. \A d \in Calls \ {c} : call[d].op = "hire" => call[d].agent # a
    BY <1>0, <2>1 DEF CallInv, HireShape
  <2>3. \A d \in Calls \ {c} : Live(d) /\ Names(d)
    BY <1>1, <1>2, <1>3, <2>1, <2>2 DEF OnlyCall, OnlyRecord
  <2>4. Live(c) /\ Names(c)
    BY <2>1 DEF SameJob
  <2> QED BY <2>3, <2>4 DEF TakenIsLive, PinsFollow
<1>6. CASE PinAnswered(c) \/ HireReturns(c)
  <2>1. /\ OnlyCall(c) /\ UNCHANGED enclave /\ call'[c].pc \notin {"sent", "applied"}
        /\ \A b \in Agents : record'[b].mandate = record[b].mandate
    BY <1>0, <1>6, AnsweredPinFacts, ReturnedHireFacts DEF OnlyRecord, IdleCall
  <2>2. \A d \in Calls \ {c} : Live(d) /\ Names(d)
    BY <1>1, <1>2, <1>3, <2>1 DEF OnlyCall
  <2> QED BY <2>1, <2>2 DEF TakenIsLive, PinsFollow
<1>7. ASSUME NEW d \in Calls \ {c}, call[c].pc \in {"sent", "applied"},
             call[d].pc \in {"sent", "applied"}
      PROVE  call[d].agent # a /\ call[d].agent \in Agents
  <2>1. Bearing(c) /\ Bearing(d)
    BY <1>7 DEF Bearing
  <2> QED BY <1>0, <1>1, <1>7, <2>1, OneBearing
<1>8. CASE EnclaveApplies(c)
  <2>1. /\ OnlyCall(c) /\ OnlyPolicy(a) /\ UNCHANGED record /\ SameJob(c)
        /\ call[c].pc = "sent" /\ enclave'[a] = Request(c)
    BY <1>0, <1>8, TakenFacts
  <2>2. \A d \in Calls \ {c} : Live(d) /\ Names(d)
    BY <1>1, <1>2, <1>3, <1>7, <2>1 DEF OnlyCall, OnlyPolicy
  <2>3. Request(c)' = Request(c)
    BY <2>1, SameRequest
  <2>4. Live(c) /\ Names(c)
    BY <1>0, <2>1, <2>3 DEF SameJob, PinsFollow
  <2> QED BY <2>2, <2>4 DEF TakenIsLive, PinsFollow
<1>9. CASE AmendSucceeds(c)
  <2>1. /\ OnlyCall(c) /\ OnlyRecord(a) /\ UNCHANGED enclave
        /\ call[c].pc = "applied" /\ call'[c].pc \notin {"sent", "applied"}
    BY <1>0, <1>9, AmendedFacts DEF IdleCall
  <2>2. \A d \in Calls \ {c} : Live(d) /\ Names(d)
    BY <1>1, <1>2, <1>3, <1>7, <2>1 DEF OnlyCall, OnlyRecord
  <2> QED BY <2>1, <2>2 DEF TakenIsLive, PinsFollow
<1> QED BY <1>4, <1>5, <1>6, <1>8, <1>9 DEF Brings

LEMMA FollowInit == Init => FollowInv
<1> SUFFICES ASSUME Init PROVE FollowInv
  OBVIOUS
<1>1. \A c \in Calls : call[c].pc = "idle" /\ call[c].op = "none"
  BY DEF Init, IdleCall
<1> QED BY <1>1, AuthorityInit DEF FollowInv, NewPolicies, TakenIsLive, PinsFollow

LEMMA FollowStep == ASSUME SafePins, FollowInv, [Next]_vars PROVE FollowInv'
<1>1. CallInv /\ NewPolicies /\ AuthorityInv'
  BY AuthorityStep DEF FollowInv, AuthorityInv
<1>2. NewPolicies'
  BY <1>1, SteadyOrNews, NewSteady, NewNews
<1>3. TakenIsLive' /\ PinsFollow'
  BY <1>1, SteadyOrNews, FollowSteady, FollowNews
<1> QED BY <1>1, <1>2, <1>3 DEF FollowInv

LEMMA RecordsFollow ==
  ASSUME SafePins, FollowInv, [Next]_vars, NEW a \in Agents, Exists(a),
         record'[a].mandate # record[a].mandate
  PROVE  enclave[a] = Compile(record'[a].mandate, TRUE)
<1>1. CallInv /\ TakenIsLive
  BY DEF FollowInv, AuthorityInv
<1>2. ~Steady
  BY DEF Steady, RecordsSteady
<1>3. PICK c \in Calls : Brings(c)
  BY <1>1, <1>2, SteadyOrNews
<1>4. AmendSucceeds(c) /\ a = call[c].agent
  <2>1. CASE Grants(c)
    BY <1>1, <2>1, GrantFacts DEF Grants
  <2>2. CASE HireStored(c)
    BY <1>1, <2>2, StoredFacts DEF OnlyRecord
  <2>3. CASE PinAnswered(c) \/ HireReturns(c) \/ EnclaveApplies(c)
    BY <1>1, <2>3, AnsweredPinFacts, ReturnedHireFacts, TakenFacts DEF OnlyRecord
  <2>4. CASE AmendSucceeds(c)
    BY <1>1, <2>4, AmendedFacts DEF OnlyRecord
  <2> QED BY <1>3, <2>1, <2>2, <2>3, <2>4 DEF Brings
<1>5. /\ call[c].pc = "applied" /\ call[c].op \notin {"revoke", "commitRevoke"}
      /\ record'[a].mandate = call[c].mandate
  BY <1>1, <1>4, AmendedFacts
<1>6. enclave[a] = Request(c) /\ Request(c) = Compile(call[c].mandate, TRUE)
  BY <1>1, <1>4, <1>5, TradingRequest DEF TakenIsLive
<1> QED BY <1>5, <1>6, Zenon

(* What the app shows is never ahead of what binds the wallet: the stored
   mandate changes only to the one the enclave is enforcing then, whatever was
   lost, refused or overtaken on the way. *)
THEOREM RecordsStayBehind == SafePins /\ Spec => RecordFollowsEnclave
<1> SUFFICES ASSUME SafePins PROVE Spec => RecordFollowsEnclave
  OBVIOUS
<1> DEFINE Follows == \A a \in Agents :
             Exists(a) /\ record'[a].mandate # record[a].mandate =>
               enclave[a] = Compile(record'[a].mandate, TRUE)
<1>1. FollowInv /\ [Next]_vars => FollowInv' /\ [Follows]_vars
  BY FollowStep, RecordsFollow
<1>2. RecordFollowsEnclave <=> [][Follows]_vars
  BY DEF RecordFollowsEnclave
<1> HIDE DEF Follows
<1> QED BY <1>1, <1>2, FollowInit, PTL DEF Spec

(* A step of one call leaves the others alone; and a call whose PATCH was
   taken moves on only by the answer. *)
Answers(c) == PinAnswered(c) \/ AmendSucceeds(c) \/ RevokeSucceeds(c) \/ PatchFails(c)

LEMMA OneCallMoves ==
  ASSUME CallInv, NEW c \in Calls, NEW q, call' = [call EXCEPT ![c] = q]
  PROVE  OnlyCall(c)
  BY DEF CallInv, TypeOK, OnlyCall

LEMMA ProgressMoves ==
  ASSUME CallInv, NEW c \in Calls, Progress(c), call[c].pc = "applied"
  PROVE  Answers(c)
<1>1. call[c].op # "none" /\ call[c].pc # "queued"
  BY DEF CallInv, CallShape, Shape, PatchOps
<1> QED
  BY <1>1 DEF Progress, Answers, HireStored, HireReturns, AmendRuns, RevokeRuns, EnclaveApplies,
     PrepareAmendReturns, CommitAmendRuns, CommitRevokeRuns, ArchiveRuns, ArchiveReturns,
     UnarchiveRuns, Runs

LEMMA ProgressIsOwn ==
  ASSUME CallInv, NEW c \in Calls, Progress(c)
  PROVE  OnlyCall(c)
<1>1. CASE HireStored(c) \/ PinAnswered(c) \/ HireReturns(c) \/ EnclaveApplies(c) \/ AmendSucceeds(c)
  BY <1>1, StoredFacts, AnsweredPinFacts, ReturnedHireFacts, TakenFacts, AmendedFacts
<1>2. CASE Return(c)
  BY <1>2, OneCallMoves DEF Return
<1>3. ASSUME NEW pc, NEW m, Proceed(c, pc, m) PROVE OnlyCall(c)
  BY <1>3, OneCallMoves DEF Proceed
<1>4. CASE PrepareAmendReturns(c)
  BY <1>4, OneCallMoves DEF PrepareAmendReturns
<1> QED
  BY <1>1, <1>2, <1>3, <1>4 DEF Progress, AmendRuns, RevokeRuns, RevokeSucceeds, PatchFails,
     CommitAmendRuns, CommitRevokeRuns, ArchiveRuns, ArchiveReturns, UnarchiveRuns

LEMMA RequestsAreOwn ==
  ASSUME CallInv, NEW c \in Calls, Requests(c)
  PROVE  OnlyCall(c) /\ call[c].pc = "idle"
<1>1. CASE Hire(c) \/ Fork(c)
  BY <1>1, GrantFacts DEF Hire, Fork, Provision
<1>2. ASSUME NEW op, NEW a, NEW m, NEW p, Enqueue(c, op, a, m, p)
      PROVE  OnlyCall(c) /\ call[c].pc = "idle"
  BY <1>2, OneCallMoves DEF Enqueue
<1>3. CASE PrepareAmend(c)
  BY <1>3, OneCallMoves DEF PrepareAmend
<1> QED BY <1>1, <1>2, <1>3 DEF Requests, Amend, Revoke, Commit, Archive, Unarchive

LEMMA TakenStays ==
  ASSUME AuthorityInv, Faults = {}, Steady, [Next]_vars, NEW d \in Calls,
         call[d].pc = "applied", call'[d] # call[d]
  PROVE  Revoked(call[d].agent) \/ PinAnswered(d) \/ AmendSucceeds(d)
<1>1. CallInv
  BY DEF AuthorityInv
<1>2. ASSUME NEW c \in Calls, Progress(c)
      PROVE  Answers(d)
  BY <1>1, <1>2, ProgressMoves, ProgressIsOwn DEF OnlyCall
<1>3. ASSUME NEW c \in Calls, Requests(c)
      PROVE  FALSE
  BY <1>1, <1>3, RequestsAreOwn DEF OnlyCall
<1>4. Answers(d)
  BY <1>2, <1>3 DEF Next, vars, PrepareRevoke, PrepareExpires, MandateExpires, Crash
<1>5. ~PatchFails(d)
  BY DEF PatchFails
<1>6. RevokeSucceeds(d) => Revoked(call[d].agent)
  BY DEF AuthorityInv, PatchInv, RevokeSucceeds
<1> QED BY <1>4, <1>5, <1>6 DEF Answers

LEMMA EnforcedSteady ==
  ASSUME FollowInv, Enforced, Faults = {}, Steady, [Next]_vars,
         \A d \in Calls : ~Brings(d)
  PROVE  Enforced'
<1> SUFFICES ASSUME NEW a \in Agents, record'[a].status = "active",
                    \A d \in Calls : call'[d].agent = a => call'[d].pc # "applied"
             PROVE  IsEnforced(a)'
  BY DEF Enforced
<1>1. record[a].status = "active" /\ record'[a].mandate = record[a].mandate
  BY DEF Steady, RecordsSteady
<1>2. ASSUME NEW d \in Calls, call[d].agent = a, call[d].pc = "applied" PROVE FALSE
  <2>1. call'[d] # call[d]
    BY <1>2
  <2>2. Revoked(a) \/ PinAnswered(d) \/ AmendSucceeds(d)
    BY <1>2, <2>1, TakenStays DEF FollowInv
  <2> QED BY <1>1, <2>2 DEF Revoked, Brings
<1>3. IsEnforced(a)
  BY <1>1, <1>2 DEF Enforced
<1> QED BY <1>1, <1>3 DEF IsEnforced, Steady

LEMMA EnforcedNews ==
  ASSUME FollowInv, Enforced, Faults = {}, NEW c \in Calls, Brings(c)
  PROVE  Enforced'
<1> DEFINE a == call[c].agent
<1> SUFFICES ASSUME NEW b \in Agents, record'[b].status = "active",
                    \A d \in Calls : call'[d].agent = b => call'[d].pc # "applied"
             PROVE  IsEnforced(b)'
  BY DEF Enforced
<1>0. CallInv /\ NewPolicies /\ TakenIsLive /\ PinsFollow
  BY DEF FollowInv, AuthorityInv
<1>1. ASSUME OnlyCall(c), call[c].agent = b => call[c].pc # "applied", record'[b] = record[b],
             enclave'[b] = enclave[b]
      PROVE  IsEnforced(b)'
  <2>1. \A d \in Calls : call[d].agent = b => call[d].pc # "applied"
    BY <1>1 DEF OnlyCall
  <2> QED BY <1>1, <2>1 DEF Enforced, IsEnforced
<1>2. ASSUME NEW m, NEW pin \in BOOLEAN, enclave'[b] = Compile(m, pin), record'[b].mandate = m
      PROVE  IsEnforced(b)'
  BY <1>2, CompiledFields DEF IsEnforced
<1>3. CASE Grants(c)
  <2>1. PICK e \in Agents, m \in Mandates : Provision(c, e, m)
    BY <1>3 DEF Grants
  <2>2. /\ OnlyCall(c) /\ OnlyPolicy(e) /\ UNCHANGED record
        /\ ~Exists(e) /\ call[c].pc = "idle"
    BY <1>0, <2>1, GrantFacts DEF Provision
  <2>3. b # e
    BY <2>2 DEF Exists
  <2> QED BY <1>1, <2>2, <2>3 DEF OnlyPolicy
<1>4. CASE HireStored(c)
  <2>1. /\ OnlyCall(c) /\ OnlyRecord(a) /\ UNCHANGED enclave
        /\ call[c].pc = "provisioned" /\ record'[a].mandate = call[c].mandate
    BY <1>0, <1>4, StoredFacts
  <2>2. CASE b = a
    <3>1. enclave'[b] = Compile(call[c].mandate, FALSE)
      BY <1>0, <2>1, <2>2, Zenon DEF NewPolicies
    <3> QED BY <1>2, <2>1, <2>2, <3>1
  <2>3. CASE b # a
    BY <1>1, <2>1, <2>3 DEF OnlyRecord
  <2> QED BY <2>2, <2>3
<1>5. CASE PinAnswered(c)
  <2>1. /\ OnlyCall(c) /\ UNCHANGED <<record, enclave>>
        /\ call[c].op = "hire" /\ call[c].pc \in {"sent", "applied"}
    BY <1>0, <1>5, AnsweredPinFacts
  <2>2. CASE b = a /\ call[c].pc = "applied"
    <3>1. enclave[b] = Request(c) /\ record'[b].mandate = call[c].mandate
      BY <1>0, <2>1, <2>2 DEF TakenIsLive, PinsFollow
    <3>2. enclave'[b] = Compile(call[c].mandate, TRUE)
      BY <2>1, <3>1, TradingRequest
    <3> QED BY <1>2, <3>1, <3>2
  <2>3. CASE ~(b = a /\ call[c].pc = "applied")
    BY <1>1, <2>1, <2>3
  <2> QED BY <2>2, <2>3
<1>6. CASE HireReturns(c)
  <2>1. /\ OnlyCall(c) /\ OnlyRecord(a) /\ UNCHANGED enclave /\ call[c].pc = "finishing"
        /\ record'[a].status = record[a].status /\ record'[a].mandate = record[a].mandate
    BY <1>0, <1>6, ReturnedHireFacts
  <2>2. \A d \in Calls : call[d].agent = b => call[d].pc # "applied"
    BY <2>1 DEF OnlyCall
  <2>3. record[b].status = "active" /\ record'[b].mandate = record[b].mandate
    BY <2>1 DEF OnlyRecord
  <2> QED BY <2>1, <2>2, <2>3 DEF Enforced, IsEnforced
<1>7. CASE EnclaveApplies(c)
  <2>1. /\ OnlyCall(c) /\ OnlyPolicy(a) /\ UNCHANGED record /\ SameJob(c)
        /\ call[c].pc = "sent" /\ call'[c].pc = "applied"
    BY <1>0, <1>7, TakenFacts
  <2>2. b # a
    BY <2>1 DEF SameJob
  <2> QED BY <1>1, <2>1, <2>2 DEF OnlyPolicy
<1>8. CASE AmendSucceeds(c)
  <2>1. /\ OnlyCall(c) /\ OnlyRecord(a) /\ UNCHANGED enclave
        /\ call[c].pc = "applied" /\ call[c].op \notin {"revoke", "commitRevoke"}
        /\ record'[a].mandate = call[c].mandate
    BY <1>0, <1>8, AmendedFacts
  <2>2. CASE b = a
    <3>1. enclave[b] = Request(c)
      BY <1>0, <2>1, <2>2 DEF TakenIsLive
    <3>2. enclave'[b] = Compile(call[c].mandate, TRUE)
      BY <2>1, <3>1, TradingRequest
    <3> QED BY <1>2, <2>1, <2>2, <3>2
  <2>3. CASE b # a
    BY <1>1, <2>1, <2>3 DEF OnlyRecord
  <2> QED BY <2>2, <2>3
<1> QED BY <1>3, <1>4, <1>5, <1>6, <1>7, <1>8 DEF Brings

(* If no answer is ever lost and the process does not die, the mandate an
   active agent shows is the one its wallet is bound by, once no PATCH is out.
   With a lost answer it is not: the run mandate_lost. *)
THEOREM StoredMandateStaysEnforced ==
  ASSUME SafePins, Faults = {}
  PROVE  Spec => []StoredMandateIsEnforced
<1>1. FollowInv /\ Enforced => StoredMandateIsEnforced
  BY DEF Enforced, IsEnforced, StoredMandateIsEnforced, InFlight
<1>2. Init => FollowInv /\ Enforced
  <2>1. Init => Enforced
    BY DEF Init, NoRecord, Enforced
  <2> QED BY <2>1, FollowInit
<1>3. FollowInv /\ Enforced /\ [Next]_vars => FollowInv' /\ Enforced'
  <2> SUFFICES ASSUME FollowInv, Enforced, [Next]_vars PROVE FollowInv' /\ Enforced'
    OBVIOUS
  <2>1. Steady \/ \E c \in Calls : Brings(c)
    BY SteadyOrNews DEF FollowInv, AuthorityInv
  <2> QED BY <2>1, FollowStep, EnforcedSteady, EnforcedNews
<1> QED BY <1>1, <1>2, <1>3, PTL DEF Spec
===============================================================================
