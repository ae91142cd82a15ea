------------------------------ MODULE WalletSends ------------------------------
(***************************************************************************)
(* What leaves one user's two accounts and is followed to its end: the     *)
(* sponsored transfers of the Privy wallet (user-wallet.service.ts, send), *)
(* which share the wallet's SEND_SPACER with the steps of the user's       *)
(* trades, the operations of the Kernel account (wallet.service.ts), and   *)
(* the PollingOperationTracker that answers for both.                      *)
(***************************************************************************)
EXTENDS Naturals, Sequences, FiniteSets

CONSTANTS
  Sends,
  Paths,       \* a subset of {"transfer", "step", "kernel"}
  NoTime,
  Spacing,     \* WALLET_SEND_SPACING_MS
  Settling,    \* how long a sponsored operation takes to land, unless it is slow
  Ttl,         \* how long a prepare is good for
  Patience,    \* WALLET_CONFIRMATION_TIMEOUT_MS
  MaxTime,     \* bound
  Faults,      \* a subset of {"unapproved", "lost", "unhashed", "slow", "reverted", "unread",
               \* "restart"}
  MaxTroubles  \* bound: faults of a behaviour

SendsAssumption ==
  /\ {Spacing, Settling, Ttl, Patience, MaxTime, MaxTroubles} \subseteq Nat
  /\ Settling < Spacing /\ NoTime \notin Nat
  /\ Paths \subseteq {"transfer", "step", "kernel"}

VARIABLES
  now,
  send,      \* each send: its way, how far it is and what its caller was told
  ops,       \* the user operations Privy and the bundler took, in order
  queue,     \* the spacer's queue of the wallet
  lastEnd,   \* the spacer's mark
  happened,  \* the faults so far
  troubles

sendVars == <<now, send, ops, queue, lastEnd, happened, troubles>>

-------------------------------------------------------------------------------
Trouble(kind) ==
  /\ kind \in Faults /\ troubles < MaxTroubles
  /\ troubles' = troubles + 1 /\ happened' = happened \cup {kind}
Calm == UNCHANGED <<happened, troubles>>

Of(s)     == {i \in DOMAIN ops : ops[i].by = s}
OnWallet(i) == send[ops[i].by].path # "kernel"
Pending(i)  == ops[i].state = "pending"

(* EIP-7702: the wallet's next operation is composed on its last. *)
Unsettled == \E i \in DOMAIN ops : OnWallet(i) /\ Pending(i)

(* The Kernel account's nonce on chain. *)
KernelNonce == Cardinality({i \in DOMAIN ops : ~OnWallet(i) /\ ~Pending(i)})

Init ==
  /\ now = 0 /\ ops = <<>> /\ queue = <<>> /\ lastEnd = NoTime
  /\ happened = {} /\ troubles = 0
  /\ \E path \in [Sends -> Paths] :
       send = [s \in Sends |-> [path |-> path[s], pc |-> "unmade", until |-> 0, nonce |-> 0,
                                told |-> "nothing"]]

SendsTypeOK ==
  /\ now \in 0..MaxTime /\ troubles \in 0..MaxTroubles /\ happened \subseteq Faults
  /\ lastEnd \in 0..MaxTime \cup {NoTime} /\ queue \in Seq(Sends)
  /\ send \in [Sends -> [path : Paths, until : Nat, nonce : Nat,
                         pc : {"unmade", "prepared", "queued", "sending", "answered", "over"},
                         told : {"nothing", "not_found", "refused", "settling", "failed",
                                 "pending", "unknown"}]]
  /\ ops \in Seq([by : Sends, state : {"pending", "included", "reverted"}, at : Nat, slow : BOOLEAN,
                  nonce : Nat, until : Nat,
                  seen : {"unfollowed", "pending", "included", "reverted", "left"}])

-------------------------------------------------------------------------------
(* The next prepare of the wallet takes the place of the one before it. *)
PreparesTransfer(s) ==
  /\ send[s].pc = "unmade" /\ send[s].path = "transfer"
  /\ send' = [t \in Sends |->
       IF t = s THEN [send[s] EXCEPT !.pc = "prepared", !.until = now + Ttl]
       ELSE IF send[t].path = "transfer" /\ send[t].pc = "prepared"
            THEN [send[t] EXCEPT !.pc = "over", !.told = "not_found"] ELSE send[t]]
  /\ UNCHANGED <<now, ops, queue, lastEnd, happened, troubles>>

(* The Kernel account's is composed on the nonce of the moment. *)
PreparesOperation(s) ==
  /\ send[s].pc = "unmade" /\ send[s].path = "kernel"
  /\ send' = [send EXCEPT ![s].pc = "prepared", ![s].until = now + Ttl, ![s].nonce = KernelNonce]
  /\ UNCHANGED <<now, ops, queue, lastEnd, happened, troubles>>

(* The commit spends the prepare, whatever comes of it. *)
TakesTooLate(s) ==
  /\ send[s].pc = "prepared" /\ now >= send[s].until
  /\ send' = [send EXCEPT ![s].pc = "over", ![s].told = "not_found"]
  /\ UNCHANGED <<now, ops, queue, lastEnd, happened, troubles>>

(* A transfer is sent when its turn comes. *)
CommitsTransfer(s) ==
  /\ send[s].pc = "prepared" /\ now < send[s].until /\ send[s].path = "transfer"
  /\ send' = [send EXCEPT ![s].pc = "queued"] /\ queue' = Append(queue, s)
  /\ UNCHANGED <<now, ops, lastEnd, happened, troubles>>

(* An operation of the Kernel account is sent at once, if its envelope is its
   owner's. *)
CommitsOperation(s) ==
  /\ send[s].pc = "prepared" /\ now < send[s].until /\ send[s].path = "kernel"
  /\ \/ send' = [send EXCEPT ![s].pc = "sending"] /\ Calm
     \/ Trouble("unapproved") /\ send' = [send EXCEPT ![s].pc = "over", ![s].told = "refused"]
  /\ UNCHANGED <<now, ops, queue, lastEnd>>

(* A step of a trade, whose executor sends it and follows it itself. *)
StepQueues(s) ==
  /\ send[s].pc = "unmade" /\ send[s].path = "step"
  /\ send' = [send EXCEPT ![s].pc = "queued"] /\ queue' = Append(queue, s)
  /\ UNCHANGED <<now, ops, lastEnd, happened, troubles>>

Starts(s) ==
  /\ send[s].pc = "queued" /\ Head(queue) = s
  /\ IF lastEnd = NoTime THEN TRUE ELSE now >= lastEnd + Spacing
  /\ send' = [send EXCEPT ![s].pc = "sending"]
  /\ UNCHANGED <<now, ops, queue, lastEnd, happened, troubles>>

-------------------------------------------------------------------------------
Operation(s, slow) ==
  [by |-> s, state |-> "pending", at |-> now, slow |-> slow, nonce |-> send[s].nonce,
   until |-> 0, seen |-> "unfollowed"]

Tells(s, what) == send' = [send EXCEPT ![s].pc = "answered", ![s].told = what]

(* Privy: it refuses what the owner did not approve and what is composed on an
   unsettled operation; the answer may be lost, or name no operation. *)
PrivyTakes(s) ==
  /\ send[s].pc = "sending" /\ send[s].path # "kernel"
  /\ \/ Trouble("unapproved") /\ Tells(s, "refused") /\ UNCHANGED ops
     \/ Unsettled /\ Tells(s, "settling") /\ UNCHANGED ops /\ Calm
     \/ /\ ~Unsettled
        /\ \/ Calm /\ ops' = Append(ops, Operation(s, FALSE)) /\ Tells(s, "pending")
           \/ Trouble("slow") /\ ops' = Append(ops, Operation(s, TRUE)) /\ Tells(s, "pending")
           \/ Trouble("lost") /\ ops' = Append(ops, Operation(s, FALSE)) /\ Tells(s, "failed")
           \/ Trouble("unhashed") /\ ops' = Append(ops, Operation(s, FALSE)) /\ Tells(s, "unknown")
  /\ UNCHANGED <<now, queue, lastEnd>>

(* The bundler refuses a nonce that was used. *)
BundlerTakes(s) ==
  /\ send[s].pc = "sending" /\ send[s].path = "kernel"
  /\ \/ send[s].nonce < KernelNonce /\ Tells(s, "refused") /\ UNCHANGED ops /\ Calm
     \/ /\ send[s].nonce >= KernelNonce /\ ops' = Append(ops, Operation(s, TRUE))
        /\ \/ Tells(s, "pending") /\ Calm
           \/ Tells(s, "failed") /\ Trouble("lost")
  /\ UNCHANGED <<now, queue, lastEnd>>

(* Mutant of Marked: a write whose answer was an error leaves no mark. *)
MarkedIfSent(s) == IF send[s].told \in {"failed", "refused"} THEN lastEnd ELSE now

(* The spacer counts from the write's end, well or not. *)
Marked(s) == now

(* The answer: the spacer lets the next one go, and the operation is followed. *)
Ends(s) ==
  /\ send[s].pc = "answered"
  /\ send' = [send EXCEPT ![s].pc = "over"]
  /\ IF send[s].path = "kernel" THEN UNCHANGED <<queue, lastEnd>>
     ELSE queue' = Tail(queue) /\ lastEnd' = Marked(s)
  /\ ops' = [i \in DOMAIN ops |->
       IF i \in Of(s) /\ send[s].told = "pending" /\ send[s].path # "step"
       THEN [ops[i] EXCEPT !.seen = "pending", !.until = now + Patience] ELSE ops[i]]
  /\ UNCHANGED <<now, happened, troubles>>

-------------------------------------------------------------------------------
(* An operation lands, and its success is its own; `at` is now when. *)
Lands(i) ==
  /\ Pending(i) /\ (~OnWallet(i) => ops[i].nonce = KernelNonce)
  /\ \/ Calm /\ ops' = [ops EXCEPT ![i].state = "included", ![i].at = now]
     \/ Trouble("reverted") /\ ops' = [ops EXCEPT ![i].state = "reverted", ![i].at = now]
  /\ UNCHANGED <<now, send, queue, lastEnd>>

(* A poll asks the bundler and then the chain, before it looks at the clock; a
   read that throws is no verdict. *)
Polls(i) ==
  /\ ops[i].seen = "pending"
  /\ \/ ~Pending(i) /\ ops' = [ops EXCEPT ![i].seen = ops[i].state] /\ Calm
     \/ /\ now >= ops[i].until /\ ops' = [ops EXCEPT ![i].seen = "left"]
        /\ \/ Pending(i) /\ Calm
           \/ Trouble("unread")
  /\ UNCHANGED <<now, send, queue, lastEnd>>

(* Time, which an operation that is not slow does not outlast. *)
Tick ==
  /\ now < MaxTime /\ now' = now + 1
  /\ \A i \in DOMAIN ops : OnWallet(i) /\ Pending(i) /\ ~ops[i].slow => now < ops[i].at + Settling
  /\ UNCHANGED <<send, ops, queue, lastEnd, happened, troubles>>

(* All of it is in memory. *)
Restarts ==
  /\ Trouble("restart")
  /\ send' = [s \in Sends |-> IF send[s].pc \in {"prepared", "queued", "sending", "answered"}
                              THEN [send[s] EXCEPT !.pc = "over", !.told = "failed"] ELSE send[s]]
  /\ ops' = [i \in DOMAIN ops |-> IF ops[i].seen = "pending"
                                  THEN [ops[i] EXCEPT !.seen = "unfollowed"] ELSE ops[i]]
  /\ queue' = <<>> /\ lastEnd' = NoTime
  /\ UNCHANGED now

SendsNext ==
  \/ \E s \in Sends : \/ PreparesTransfer(s) \/ PreparesOperation(s) \/ TakesTooLate(s)
                      \/ CommitsTransfer(s) \/ CommitsOperation(s) \/ StepQueues(s)
                      \/ Starts(s) \/ PrivyTakes(s) \/ BundlerTakes(s) \/ Ends(s)
  \/ \E i \in DOMAIN ops : Lands(i) \/ Polls(i)
  \/ Tick \/ Restarts

SendsSpec == Init /\ [][SendsNext]_sendVars

-------------------------------------------------------------------------------
(* A transfer moves money at most once and not at all when its caller is told
   nothing moved; one of the wallet's sends, a transfer or a trade's step, is
   refused as too early only if an operation was slow or the spacer's mark was
   lost (user-wallet.service.ts:352); and the tracker's verdict is the
   operation's own, given to every one that landed before the time-out
   (operation-tracker.ts:66). *)
TransfersAreTrue ==
  /\ \A s \in Sends :
       /\ Cardinality(Of(s)) <= 1
       /\ send[s].told \in {"settling", "refused", "not_found"} => Of(s) = {}
       /\ send[s].told = "settling" => happened \cap {"slow", "restart"} # {}
  /\ \A i \in DOMAIN ops :
       /\ ops[i].seen \in {"included", "reverted"} => ops[i].seen = ops[i].state
       /\ ops[i].seen = "left" /\ ~Pending(i) =>
            ops[i].at >= ops[i].until \/ "unread" \in happened
===============================================================================
