--------------------------- MODULE TradeExecution ---------------------------
(***************************************************************************)
(* A user's manual trades: services/api/src/trade.  TradeService prepares  *)
(* and commits them, TradeStore keeps them, StepExecutor sends a committed *)
(* trade's steps one user operation at a time, and a read (`status`,       *)
(* `list`) settles the step whose outcome the executor did not see.        *)
(*                                                                         *)
(* One user with one wallet.  A request body is not modelled: a step is    *)
(* its kind, and the key Privy deduplicates it by is its trade's client id *)
(* and its index.  Privy, the bundler and the chain are external.          *)
(***************************************************************************)
EXTENDS Integers, Sequences, SequencesExt

CONSTANTS
  Trades,             \* trades that `prepare` may store, one for each call of it
  ClientIds, Readers,
  Plans,              \* the sequences of kinds that a planner may return
  Nobody,
  TTL,                \* PREPARED_APPROVAL_TTL_MS
  UnverifiableAfter,  \* UNVERIFIABLE_AFTER_MS
  Retention,          \* TRADE_RETENTION_MS
  MaxTime             \* bound: the clock stops here, and stands for any later time

Kinds   == {"approve", "deposit", "place", "batch", "cancel", "withdraw"}
Placing == {"place", "batch"}

ASSUME TradeAssumption ==
  /\ Nobody \notin ClientIds \cup Trades
  /\ Plans \subseteq Seq(Kinds) \ {<<>>}
  /\ \A plan \in Plans : \A i, j \in DOMAIN plan :  \* an order has one place (kuru-planner.ts:331)
       {plan[i], plan[j]} \subseteq Placing => i = j
  /\ {TTL, UnverifiableAfter, Retention} \subseteq Nat \ {0} /\ MaxTime \in Nat

VARIABLES
  now,
  trade,  \* the store's trades, and the calls that prepare them
  queue,  \* the wallet's KeyedMutex: who runs, then who waits
  at,     \* the executor: the step a trade is at, and what it waits for
  read,   \* of each reader: the trade as it was read
  op,     \* what became of each step's request: external
  log     \* the requests Privy was given, in order: external

vars == <<now, trade, queue, at, read, op, log>>

-------------------------------------------------------------------------------
NoTrade == [status |-> "none", client |-> Nobody, steps |-> <<>>, deadline |-> 0,
            updated |-> 0, result |-> "none", funds |-> "unsaid"]
Nowhere == [pc |-> "idle", step |-> 0]
NoRead  == [pc |-> "idle", trade |-> Nobody, steps |-> <<>>, settled |-> "none"]

StepStatuses == {"awaiting_signature", "queued", "submitted", "included", "reverted",
                 "not_sent", "unknown"}
InFlight     == {"awaiting_signature", "queued", "submitted", "unknown"}
StepsOf      == Seq([kind : Kinds, status : StepStatuses, hash : BOOLEAN])

TypeOK ==
  /\ now \in 0..MaxTime
  /\ trade \in [Trades ->
       [status : {"none", "planning", "prepared", "executing", "completed", "failed", "forgotten"},
        client : ClientIds \cup {Nobody}, steps : StepsOf, deadline : Nat, updated : Nat,
        result : {"none", "order", "nothing"}, funds : {"unsaid", "wallet", "kuru"}]]
  /\ queue \in Seq(Trades)
  /\ at \in [Trades -> [pc : {"idle", "queued", "sending", "asked", "following", "reading"},
                        step : Nat]]
  /\ \A t \in Trades : at[t].step <= Len(trade[t].steps)
  /\ read \in [Readers -> [pc : {"idle", "asking", "settling"}, trade : Trades \cup {Nobody},
                           steps : StepsOf, settled : {"none", "included", "reverted"}]]
  /\ op \in [Trades -> Seq({"none", "asked", "out", "landed", "empty", "reverted", "gone"})]
  /\ log \in Seq([trade : Trades, client : ClientIds, step : Nat, time : Nat])

Init ==
  /\ now = 0
  /\ trade = [t \in Trades |-> NoTrade]
  /\ queue = <<>>
  /\ at = [t \in Trades |-> Nowhere]
  /\ read = [r \in Readers |-> NoRead]
  /\ op = [t \in Trades |-> <<>>]
  /\ log = <<>>

-------------------------------------------------------------------------------
(* The store. *)

Held(t) == trade[t].status \in {"prepared", "executing", "completed", "failed"}

(* A prepared trade past its deadline reads as expired. *)
Expired(t, n) == trade[t].status = "prepared" /\ trade[t].deadline <= n

LastChange(t) == IF trade[t].status = "prepared" THEN trade[t].deadline ELSE trade[t].updated

(* Past retention, and never an executing trade. *)
Forgettable(t, n) ==
  Held(t) /\ trade[t].status # "executing" /\ LastChange(t) + Retention <= n

(* A trade that a prepare under this client id is answered with, or refused by. *)
Names(t, c, n) == Held(t) /\ trade[t].client = c /\ ~Expired(t, n)

Unstored == [NoTrade EXCEPT !.status = "forgotten"]

Prepared(c, started, steps) ==
  [NoTrade EXCEPT !.status = "prepared", !.client = c, !.steps = steps,
                  !.deadline = started + TTL, !.updated = started]

(* `put` sweeps, then looks for the client id again: a trade that has it wins,
   unless it expired, which is replaced. *)
Put(t, c, started, steps) ==
  LET swept == {u \in Trades : Forgettable(u, started)}
      wins  == \E u \in Trades \ swept : Names(u, c, started)
      old   == {u \in Trades : Held(u) /\ trade[u].client = c /\ Expired(u, started)}
  IN /\ trade' = [u \in Trades |->
                    IF u = t THEN IF wins THEN Unstored ELSE Prepared(c, started, steps)
                    ELSE IF u \in swept \cup old THEN [trade[u] EXCEPT !.status = "forgotten"]
                    ELSE trade[u]]
     /\ op' = IF wins THEN op ELSE [op EXCEPT ![t] = [i \in DOMAIN steps |-> "none"]]

(* `update`. *)
Update(t, new) == trade' = [trade EXCEPT ![t] = [new EXCEPT !.updated = now]]

-------------------------------------------------------------------------------
(* TradeService.prepare and commit. *)

(* An id that names a trade is answered from the store, before planning. *)
Prepares(t) == \E c \in ClientIds :
  /\ trade[t].status = "none"
  /\ \A u \in Trades : ~Names(u, c, now)
  /\ trade' = [trade EXCEPT ![t] = [NoTrade EXCEPT !.status = "planning", !.client = c,
                                                   !.updated = now]]
  /\ UNCHANGED <<now, queue, at, read, op, log>>

Stores(t) == \E plan \in Plans :
  /\ trade[t].status = "planning"
  /\ Put(t, trade[t].client, trade[t].updated,
         [i \in DOMAIN plan |-> [kind |-> plan[i], status |-> "awaiting_signature", hash |-> FALSE]])
  /\ UNCHANGED <<now, queue, at, read, log>>

PlanRefused(t) ==
  /\ trade[t].status = "planning"
  /\ trade' = [trade EXCEPT ![t] = Unstored]
  /\ UNCHANGED <<now, queue, at, read, op, log>>

(* `claimForCommit`, once; the executor queues for the wallet. *)
Commits(t) ==
  /\ trade[t].status = "prepared" /\ ~Expired(t, now)
  /\ Update(t, [trade[t] EXCEPT !.status = "executing"])
  /\ queue' = Append(queue, t)
  /\ at' = [at EXCEPT ![t] = [pc |-> "queued", step |-> 1]]
  /\ UNCHANGED <<now, read, op, log>>

-------------------------------------------------------------------------------
(* What a trade's steps say together. *)

Some(steps, kinds, statuses) ==
  \E i \in DOMAIN steps : steps[i].kind \in kinds /\ steps[i].status \in statuses

(* Where a place's deposit is, once nothing is in flight and unless the order
   says it; a batch carries its deposit. *)
FundsAfter(steps, result, said) ==
  IF \/ ~Some(steps, Placing, StepStatuses)
     \/ ~Some(steps, {"deposit", "batch"}, StepStatuses)
     \/ Some(steps, Kinds, InFlight) THEN said
  ELSE IF ~Some(steps, {"deposit", "batch"}, {"included"}) THEN "wallet"
  ELSE IF ~Some(steps, Placing, {"included"}) \/ result = "nothing" THEN "kuru"
  ELSE said

(* What `placeResult` makes of a landed step, unless reading it fails. *)
Results(t, i, step, before) ==
  IF step.kind \notin Placing THEN {before}
  ELSE IF step.status = "reverted" THEN {"nothing"}
  ELSE {before, IF op[t][i] = "landed" THEN "order" ELSE "nothing"}

-------------------------------------------------------------------------------
(* The executor. *)

(* Mutant of Starts: the wallet's other trades are not waited for. *)
StartsAtOnce(t) ==
  /\ at[t].pc = "queued"
  /\ Update(t, [trade[t] EXCEPT !.steps = [i \in DOMAIN @ |-> [@[i] EXCEPT !.status = "queued"]]])
  /\ at' = [at EXCEPT ![t].pc = "sending"]
  /\ UNCHANGED <<now, queue, read, op, log>>

Starts(t) ==
  /\ at[t].pc = "queued" /\ Head(queue) = t
  /\ Update(t, [trade[t] EXCEPT !.steps = [i \in DOMAIN @ |-> [@[i] EXCEPT !.status = "queued"]]])
  /\ at' = [at EXCEPT ![t].pc = "sending"]
  /\ UNCHANGED <<now, queue, read, op, log>>

(* The spacer lets the request go. *)
Sends(t) ==
  LET i == at[t].step
  IN /\ at[t].pc = "sending"
     /\ op' = [op EXCEPT ![t][i] = "asked"]
     /\ log' = Append(log, [trade |-> t, client |-> trade[t].client, step |-> i, time |-> now])
     /\ at' = [at EXCEPT ![t].pc = "asked"]
     /\ UNCHANGED <<now, trade, queue, read>>

(* Nothing after a step that did not land is sent; a step that may yet land
   leaves the trade executing. *)
Stop(t, status, hash) ==
  LET i == at[t].step
      steps == [j \in DOMAIN trade[t].steps |->
                  LET step == trade[t].steps[j]
                  IN IF j < i THEN step
                     ELSE IF j = i THEN [step EXCEPT !.status = status, !.hash = hash]
                     ELSE [step EXCEPT !.status = "not_sent"]]
  IN /\ \E result \in IF at[t].pc = "reading" THEN Results(t, i, steps[i], trade[t].result)
                      ELSE {trade[t].result} :
          Update(t, [trade[t] EXCEPT !.steps = steps, !.result = result,
                       !.status = IF status = "unknown" THEN @ ELSE "failed",
                       !.funds = FundsAfter(steps, result, @)])
     /\ queue' = Tail(queue)
     /\ at' = [at EXCEPT ![t] = Nowhere]

(* Privy answers with the operation to follow. *)
Submitted(t) ==
  LET i == at[t].step
  IN /\ at[t].pc = "asked" /\ op[t][i] # "asked"
     /\ Update(t, [trade[t] EXCEPT !.steps[i] = [@ EXCEPT !.status = "submitted", !.hash = TRUE]])
     /\ at' = [at EXCEPT ![t].pc = "following"]
     /\ UNCHANGED <<now, queue, read, op, log>>

(* Privy answers, but names no user operation: at most a plain transaction. *)
Unfollowable(t) == \E hash \in BOOLEAN :
  /\ at[t].pc = "asked" /\ op[t][at[t].step] # "asked"
  /\ Stop(t, "unknown", hash)
  /\ UNCHANGED <<now, read, op, log>>

(* Privy refuses. *)
SendRefused(t) ==
  /\ at[t].pc = "asked" /\ op[t][at[t].step] = "asked"
  /\ op' = [op EXCEPT ![t][at[t].step] = "gone"]
  /\ Stop(t, "not_sent", FALSE)
  /\ UNCHANGED <<now, read, log>>

(* No answer: the request may have been taken, or be yet. *)
SendDropped(t) ==
  /\ at[t].pc = "asked"
  /\ Stop(t, "unknown", FALSE)
  /\ UNCHANGED <<now, read, op, log>>

(* The operation's own success. *)
Verdict(t, i) == IF op[t][i] = "reverted" THEN "reverted" ELSE "included"

(* The bundler has the operation's receipt. *)
ReceiptIn(t) ==
  LET i == at[t].step
  IN /\ at[t].pc = "following" /\ op[t][i] \in {"landed", "empty", "reverted"}
     /\ Update(t, [trade[t] EXCEPT !.steps[i].status = Verdict(t, i)])
     /\ at' = [at EXCEPT ![t].pc = "reading"]
     /\ UNCHANGED <<now, queue, read, op, log>>

(* Mutant of TimesOut: an operation not seen in time is called unsent. *)
TimesOutUnsent(t) ==
  /\ at[t].pc = "following"
  /\ Stop(t, "not_sent", TRUE)
  /\ UNCHANGED <<now, read, op, log>>

(* No receipt in time, whether or not there is one. *)
TimesOut(t) ==
  /\ at[t].pc = "following"
  /\ Stop(t, "unknown", TRUE)
  /\ UNCHANGED <<now, read, op, log>>

More(t, i) == i < Len(trade[t].steps)

(* A landed step's outcome has been read, or that failed. *)
StepEnds(t) ==
  LET i == at[t].step
      steps == trade[t].steps
  IN /\ at[t].pc = "reading"
     /\ \/ steps[i].status = "reverted" /\ Stop(t, "reverted", TRUE)
        \/ /\ steps[i].status = "included" /\ More(t, i)
           /\ \E result \in Results(t, i, steps[i], trade[t].result) :
                Update(t, [trade[t] EXCEPT !.result = result])
           /\ at' = [at EXCEPT ![t] = [pc |-> "sending", step |-> i + 1]]
           /\ UNCHANGED queue
        \/ /\ steps[i].status = "included" /\ ~More(t, i)
           /\ \E result \in Results(t, i, steps[i], trade[t].result) :
                Update(t, [trade[t] EXCEPT !.status = "completed", !.result = result,
                                           !.funds = FundsAfter(steps, result, @)])
           /\ at' = [at EXCEPT ![t] = Nowhere]
           /\ queue' = Tail(queue)
     /\ UNCHANGED <<now, read, op, log>>

-------------------------------------------------------------------------------
(* A read's `reconcile`. *)

Unsettled(steps) == {i \in DOMAIN steps : steps[i].status = "unknown"}

(* A step with a hash is asked for; the trade is as it was read. *)
Reads(r, t) ==
  /\ read[r].pc = "idle"
  /\ trade[t].status = "executing"
  /\ \E i \in Unsettled(trade[t].steps) : trade[t].steps[i].hash
  /\ read' = [read EXCEPT ![r] = [pc |-> "asking", trade |-> t, steps |-> trade[t].steps,
                                  settled |-> "none"]]
  /\ UNCHANGED <<now, trade, queue, at, op, log>>

(* Its receipt is there, and so is the outcome it has. *)
Hears(r) ==
  LET t == read[r].trade
  IN /\ read[r].pc = "asking"
     /\ \E i \in Unsettled(read[r].steps) :
          /\ op[t][i] \in {"landed", "empty", "reverted"}
          /\ read' = [read EXCEPT ![r] = [@ EXCEPT !.pc = "settling", !.settled = Verdict(t, i)]]
     /\ UNCHANGED <<now, trade, queue, at, op, log>>

(* No receipt, or none to be had. *)
HearsNothing(r) ==
  /\ read[r].pc = "asking"
  /\ read' = [read EXCEPT ![r] = NoRead]
  /\ UNCHANGED <<now, trade, queue, at, op, log>>

StatusOf(steps) ==
  IF ~Some(steps, Kinds, StepStatuses \ {"included"}) THEN "completed"
  ELSE IF Some(steps, Kinds, InFlight) THEN "executing" ELSE "failed"

(* The steps as read, with what was heard of the unknown one. *)
Settles(r) ==
  LET t == read[r].trade
      steps == [i \in DOMAIN read[r].steps |->
                  IF i \in Unsettled(read[r].steps)
                  THEN [read[r].steps[i] EXCEPT !.status = read[r].settled]
                  ELSE read[r].steps[i]]
  IN /\ read[r].pc = "settling"
     /\ \E i \in Unsettled(read[r].steps) :
        \E result \in Results(t, i, steps[i], trade[t].result) :
          IF Held(t) THEN Update(t, [trade[t] EXCEPT !.steps = steps, !.status = StatusOf(steps),
                                       !.result = result, !.funds = FundsAfter(steps, result, @)])
                     ELSE UNCHANGED trade
     /\ read' = [read EXCEPT ![r] = NoRead]
     /\ UNCHANGED <<now, queue, at, op, log>>

Late(t) == now >= Max({trade[t].deadline, trade[t].updated}) + UnverifiableAfter \/ now = MaxTime

(* A step with no hash to ask for is given up: the trade has failed, as far as
   anyone will know. *)
GivesUp(t) ==
  /\ trade[t].status = "executing"
  /\ \E i \in Unsettled(trade[t].steps) : ~trade[t].steps[i].hash
  /\ Late(t)
  /\ Update(t, [trade[t] EXCEPT !.status = "failed"])
  /\ UNCHANGED <<now, queue, at, read, op, log>>

-------------------------------------------------------------------------------
(* Privy, the chain and the clock. *)

PrivyRuns(t, i) == /\ op[t][i] = "asked"
                   /\ op' = [op EXCEPT ![t][i] = "out"]
                   /\ UNCHANGED <<now, trade, queue, at, read, log>>

(* The operation is included; a place may take and leave nothing. *)
Lands(t, i) ==
  /\ op[t][i] = "out"
  /\ \E outcome \in {"landed", "reverted"} \cup
                    (IF trade[t].steps[i].kind \in Placing THEN {"empty"} ELSE {}) :
       op' = [op EXCEPT ![t][i] = outcome]
  /\ UNCHANGED <<now, trade, queue, at, read, log>>

Tick == now < MaxTime /\ now' = now + 1 /\ UNCHANGED <<trade, queue, at, read, op, log>>

-------------------------------------------------------------------------------
Answer(t) == Submitted(t) \/ Unfollowable(t) \/ SendRefused(t) \/ SendDropped(t)
Follow(t) == ReceiptIn(t) \/ TimesOut(t)
Work(t)   == Starts(t) \/ Sends(t) \/ Answer(t) \/ Follow(t) \/ StepEnds(t)

Next ==
  \/ \E t \in Trades : \/ Prepares(t) \/ Stores(t) \/ PlanRefused(t) \/ Commits(t)
                       \/ Work(t) \/ GivesUp(t)
                       \/ \E r \in Readers : Reads(r, t)
                       \/ \E i \in DOMAIN op[t] : PrivyRuns(t, i) \/ Lands(t, i)
  \/ \E r \in Readers : Hears(r) \/ HearsNothing(r) \/ Settles(r)
  \/ Tick

Spec == Init /\ [][Next]_vars

(* The executor's promises and the requests to Privy settle and its polls end,
   one of them at a time for a trade; an operation that went out is included;
   and the phone keeps polling a trade and is, sooner or later, told of a
   receipt. *)
Fairness ==
  /\ \A t \in Trades :
       /\ WF_vars(Work(t)) /\ WF_vars(GivesUp(t))
       /\ WF_vars(\E i \in DOMAIN op[t] : Lands(t, i))
       /\ SF_vars(\E r \in Readers : Reads(r, t))
  /\ \A r \in Readers : SF_vars(Hears(r)) /\ WF_vars(Settles(r))
  /\ WF_vars(Tick)

FairSpec == Spec /\ Fairness

-------------------------------------------------------------------------------
(* Safety. *)

(* A step is sent only once the one before has landed on chain, not merely been
   sent or looked for (step-executor.ts:27), and nothing of another trade of the
   wallet is requested between two steps of one (step-executor.ts:35). *)
StepsComeInOrder ==
  /\ \A t \in Trades : \A i \in DOMAIN op[t] :
       i > 1 /\ op[t][i] # "none" => op[t][i - 1] \in {"landed", "empty"}
  /\ \A i, j, k \in DOMAIN log :
       i < j /\ j < k /\ log[i].trade = log[k].trade => log[j].trade = log[i].trade

(* Within the day Privy deduplicates by it, a key is not used for two requests
   (trade-store.ts:158). *)
KeysAreUsedOnce ==
  \A i, j \in DOMAIN log :
    i < j /\ log[i].client = log[j].client /\ log[i].step = log[j].step =>
      log[j].time >= log[i].time + Retention

(* What goes to Privy: in the order of the steps, and each request under a key
   of its own. *)
RequestsAreOrdered == StepsComeInOrder /\ KeysAreUsedOnce

(* What the store says of a step is so on chain, and a trade that failed
   without a step unknown has nothing left that may land
   (step-executor.ts:17, :23). *)
StatusesAreTrue ==
  \A t \in Trades : Held(t) =>
    /\ \A i \in DOMAIN op[t] : LET status == trade[t].steps[i].status IN
         /\ status = "included" => op[t][i] \in {"landed", "empty"}
         /\ status = "reverted" => op[t][i] = "reverted"
         /\ status = "not_sent" => op[t][i] \in {"none", "gone"}
    /\ trade[t].status = "completed" => \A i \in DOMAIN op[t] : op[t][i] \in {"landed", "empty"}
    /\ trade[t].status = "failed" /\ Unsettled(trade[t].steps) = {} =>
         \A i \in DOMAIN op[t] : op[t][i] \notin {"asked", "out"}

(* Where a trade says its deposit is, it is, and it stays: in the wallet, never
   deposited; in the Kuru account, no order having taken it (outcome.ts:189). *)
FundsAreThere ==
  \A t \in Trades : Held(t) =>
    LET ops(kinds) == {op[t][i] : i \in {j \in DOMAIN op[t] : trade[t].steps[j].kind \in kinds}}
    IN /\ trade[t].funds = "wallet" =>
            ops({"deposit", "batch"}) \cap {"asked", "out", "landed", "empty"} = {}
       /\ trade[t].funds = "kuru" =>
            /\ ops({"deposit", "batch"}) \cap {"landed", "empty"} # {}
            /\ ops(Placing) \cap {"asked", "out", "landed"} = {}

(* What a trade's record says of its steps and of its money is so. *)
RecordsAreTrue == TypeOK /\ StatusesAreTrue /\ FundsAreThere

(* A committed trade ends, and none is left spinning (trade.service.ts:54, :195):
   each is executed once, and again and again none is being executed. *)
NothingExecutes == \A t \in Trades : trade[t].status # "executing"
TradeEnds       == []<>NothingExecutes
=============================================================================
