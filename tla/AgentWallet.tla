------------------------------ MODULE AgentWallet ------------------------------
(***************************************************************************)
(* One agent's own wallet: the AgentTransactionSender of                   *)
(* services/api/src/agents/venues/agent-transactions.ts, its queue, its    *)
(* nonces and its two ways out, and what its owner asks of it, the         *)
(* ReturnFundsService of agents/recovery/return-funds.service.ts.  The     *)
(* agent's own writes to Kuru share the queue.                             *)
(*                                                                         *)
(* One asset.  The agent holds some in its wallet, some free in Kuru's     *)
(* AccountCore.  A return withdraws and then transfers, each a unit of the *)
(* queue; a write is a unit of its own.  A pc is between two awaits.       *)
(***************************************************************************)
EXTENDS Integers, Sequences, FiniteSets

CONSTANTS
  Returns,     \* the owner's calls of POST /agents/:id/return
  Writes,      \* the agent's own writes
  Everything,  \* a return that names no amount
  NoNonce,
  Funds,       \* [free, held] the agent may start with
  Setups,      \* [custody, path]: Kuru's deployment, and how the wallet's sends go out
  Faults,      \* a subset of {"rejected", "lost", "late", "reverted", "dropped", "stale",
               \* "mismatch", "restart"}
  MaxTroubles  \* bound: faults of a behaviour

ASSUME WalletAssumption ==
  /\ Funds \subseteq [free : Nat, held : Nat]
  /\ Setups \subseteq [custody : {"account-id", "address-keyed"},
                       path : {"signed", "sponsored", "refused"}]
  /\ MaxTroubles \in Nat
  /\ NoNonce \notin Int /\ Returns \cap Writes = {}

VARIABLES
  setup,
  free,      \* the agent's free collateral on Kuru
  held,      \* its wallet's balance
  txs,       \* what the wallet put on chain, in the order it was accepted
  queue,     \* #tails: the units of the wallet, the one under way first
  sender,    \* where the unit under way is
  lastNonce, \* #lastNonce
  turns,     \* the lock of the agent's returns, its holder first
  ret,       \* the returns
  written,   \* the writes asked for
  troubles

walletVars ==
  <<setup, free, held, txs, queue, sender, lastNonce, turns, ret, written, troubles>>

-------------------------------------------------------------------------------
Least(a, b)   == IF a < b THEN a ELSE b
Most(a, b)    == IF a > b THEN a ELSE b
Signed        == {i \in DOMAIN txs : txs[i].nonce # NoNonce}
Landed        == Cardinality({i \in DOMAIN txs : txs[i].state \notin {"pending", "dropped"}})
Unit          == Head(queue)
Leg           == Unit.legs[sender.leg]

Quiet    == [pc |-> "idle", leg |-> 1, nonce |-> NoNonce, tx |-> 0]
NoReturn == [pc |-> "idle", limit |-> Everything, free |-> 0, held |-> 0, seen |-> 0,
             withdraw |-> 0, transfer |-> 0, withdrawn |-> "none", returned |-> "none"]

(* One more fault, or none. *)
Trouble(kind) == kind \in Faults /\ troubles < MaxTroubles /\ troubles' = troubles + 1
Calm          == UNCHANGED troubles

(* Where a leg starts: sponsored, unless sends are signed anyway. *)
Entry == IF setup.path = "signed" THEN "numbering" ELSE "sponsoring"

WalletInit ==
  /\ setup \in Setups
  /\ \E f \in Funds : free = f.free /\ held = f.held
  /\ txs = <<>> /\ queue = <<>> /\ sender = Quiet
  /\ lastNonce = NoNonce
  /\ turns = <<>> /\ ret = [r \in Returns |-> NoReturn]
  /\ written = {} /\ troubles = 0

WalletTypeOK ==
  /\ setup \in Setups /\ {free, held} \subseteq Nat /\ troubles \in 0..MaxTroubles
  /\ txs \in Seq([by : Returns \cup Writes, kind : {"withdraw", "transfer", "approve", "deposit", "order"},
                  amount : Nat, nonce : Nat \cup {NoNonce}, seen : Nat, at : Nat, left : BOOLEAN,
                  state : {"pending", "done", "short", "reverted", "dropped"}])
  /\ sender.pc \in {"idle", "sponsoring", "again", "numbering", "signing", "following"}
  /\ lastNonce \in Nat \cup {NoNonce}
  /\ turns \in Seq(Returns) /\ written \subseteq Writes
  /\ \A r \in Returns : ret[r].pc \in {"idle", "waiting", "free", "held", "withdrawing", "reading",
                                       "transferring", "over", "cut"}

-------------------------------------------------------------------------------
(* Joins the queue, and starts when nothing is before it. *)
Queues(by, legs) ==
  /\ queue' = Append(queue, [by |-> by, legs |-> legs])
  /\ sender' = IF queue = <<>> THEN [Quiet EXCEPT !.pc = Entry] ELSE sender

(* The unit under way is over; the next one starts. *)
Dequeues ==
  /\ queue' = Tail(queue)
  /\ sender' = IF Len(queue) > 1 THEN [Quiet EXCEPT !.pc = Entry] ELSE Quiet

(* The return is over, well or not, and the next one's turn comes. *)
Leaves(r, outcome) ==
  /\ ret' = [ret EXCEPT ![r] = [outcome EXCEPT !.pc = "over"]]
  /\ turns' = Tail(turns)

(* What a receipt says of a leg: a sponsored send's is its operation's own
   success, not the bundle's. *)
Success(i) == txs[i].state = "done"

(* The caller of the unit under way has its receipts: a return goes on from
   its withdrawal, or is over with its transfer. *)
Receives(done) ==
  LET by == Unit.by
      word == IF done THEN "done" ELSE "reverted"
  IN CASE by \in Returns /\ Leg.kind = "withdraw" ->
            /\ ret' = [ret EXCEPT ![by] = [@ EXCEPT !.pc = "reading", !.withdrawn = word]]
            /\ UNCHANGED turns
       [] by \in Returns /\ Leg.kind = "transfer" ->
            Leaves(by, [ret[by] EXCEPT !.returned = word])
       [] OTHER -> UNCHANGED <<ret, turns>>

(* `sendAll` rejected: a return rejects with it, whatever it had moved. *)
Throws ==
  /\ Dequeues
  /\ IF Unit.by \in Returns THEN Leaves(Unit.by, ret[Unit.by]) ELSE UNCHANGED <<ret, turns>>

-------------------------------------------------------------------------------
Tx(nonce, left) ==
  [by |-> Unit.by, kind |-> Leg.kind, amount |-> Leg.amount, nonce |-> nonce, left |-> left,
   seen |-> Unit.legs[sender.leg].seen, at |-> 0, state |-> "pending"]

(* Taken, and followed; or taken, and the answer lost. *)
Takes(nonce) ==
  \/ /\ txs' = Append(txs, Tx(nonce, FALSE))
     /\ sender' = [sender EXCEPT !.pc = "following", !.tx = Len(txs) + 1]
     /\ UNCHANGED <<queue, ret, turns>> /\ Calm
  \/ Trouble("lost") /\ txs' = Append(txs, Tx(nonce, TRUE)) /\ Throws

(* Nothing reached the chain: a refusal of the enclave, too little MON, an
   error of the node. *)
Refused == Trouble("rejected") /\ UNCHANGED txs /\ Throws

(* A rejected EIP-7702 nonce is asked again, once; nothing else is. *)
AsksAgain ==
  /\ sender.pc = "sponsoring" /\ Trouble("mismatch")
  /\ sender' = [sender EXCEPT !.pc = "again"]
  /\ UNCHANGED <<txs, queue, ret, turns>>

(* A policy without the sponsored rules sends the leg down the other path. *)
Sponsors ==
  /\ sender.pc \in {"sponsoring", "again"}
  /\ \/ setup.path = "sponsored" /\ Takes(NoNonce)
     \/ Refused
     \/ /\ setup.path = "refused"
        /\ sender' = [sender EXCEPT !.pc = "numbering"]
        /\ UNCHANGED <<txs, queue, ret, turns>> /\ Calm
     \/ AsksAgain
  /\ UNCHANGED <<setup, free, held, lastNonce, written>>

(* The chain's count of this account, which a node that is behind does not
   have yet. *)
Pending == Cardinality({i \in Signed : txs[i].state # "dropped"})

(* Never a nonce this process spent already. *)
NonceOf(pending) == IF lastNonce = NoNonce THEN pending ELSE Most(pending, lastNonce + 1)

Numbers ==
  /\ sender.pc = "numbering"
  /\ \E n \in {Pending, Pending - 1} \cap Nat :
       /\ IF n = Pending THEN Calm ELSE Trouble("stale")
       /\ sender' = [sender EXCEPT !.pc = "signing", !.nonce = NonceOf(n)]
  /\ UNCHANGED <<setup, free, held, txs, queue, lastNonce, turns, ret, written>>

Reused(n) == \E i \in Signed : txs[i].nonce = n /\ txs[i].state # "dropped"

(* Signed in the enclave and broadcast; a nonce the chain has is refused. *)
Broadcasts ==
  /\ sender.pc = "signing"
  /\ \/ ~Reused(sender.nonce) /\ Takes(sender.nonce)
     \/ Reused(sender.nonce) /\ UNCHANGED txs /\ Throws /\ Calm
     \/ Refused
  /\ lastNonce' = IF txs' # txs /\ ~txs'[Len(txs')].left THEN sender.nonce ELSE lastNonce
  /\ UNCHANGED <<setup, free, held, written>>

(* The receipt: the next leg, or the unit's end, early after a leg that
   reverted.  Or it does not come in time. *)
Follows ==
  /\ sender.pc = "following"
  /\ \/ /\ txs[sender.tx].state \in {"done", "short", "reverted"}
        /\ IF Success(sender.tx) /\ sender.leg < Len(Unit.legs)
           THEN /\ sender' = [Quiet EXCEPT !.pc = Entry, !.leg = sender.leg + 1]
                /\ UNCHANGED <<queue, ret, turns>>
           ELSE Dequeues /\ Receives(Success(sender.tx))
        /\ UNCHANGED txs /\ Calm
     \/ /\ txs[sender.tx].state \in {"pending", "dropped"} /\ Trouble("late")
        /\ txs' = [txs EXCEPT ![sender.tx].left = TRUE]
        /\ Throws
  /\ UNCHANGED <<setup, free, held, lastNonce, written>>

-------------------------------------------------------------------------------
(* POST /agents/:id/return: the lock of the agent's returns. *)
AsksFor(r, limit) ==
  /\ ret[r].pc = "idle"
  /\ ret' = [ret EXCEPT ![r] = [NoReturn EXCEPT !.pc = "waiting", !.limit = limit]]
  /\ turns' = Append(turns, r)
  /\ UNCHANGED <<setup, free, held, txs, queue, sender, lastNonce, written, troubles>>

(* Mutant of MayStart: no lock. *)
MayStartAnytime(r) == r \in Returns

MayStart(r) == turns[1] = r

(* `plan`: the free collateral, then the wallet's balance. *)
ReadsFree(r) ==
  /\ ret[r].pc = "waiting" /\ MayStart(r)
  /\ ret' = [ret EXCEPT ![r] = [@ EXCEPT !.pc = "free", !.free = free, !.seen = Landed]]
  /\ UNCHANGED <<setup, free, held, txs, queue, sender, lastNonce, turns, written, troubles>>

Budget(r, h) == IF ret[r].limit = Everything THEN ret[r].free + h ELSE ret[r].limit

(* Only what the wallet cannot cover comes off the venue; set C pays it into
   the wallet, and the transfer carries it home. *)
WithdrawOf(r, h) == Least(ret[r].free, Most(Budget(r, h) - h, 0))
TransferOf(r, h) ==
  Least(h + (IF setup.custody = "address-keyed" THEN WithdrawOf(r, h) ELSE 0), Budget(r, h))

(* The plan is made, and the gas gate may refuse it before anything is signed. *)
Plans(r) ==
  LET w == WithdrawOf(r, held)
      t == TransferOf(r, held)
      planned == [ret[r] EXCEPT !.held = held, !.withdraw = w, !.transfer = t]
  IN /\ ret[r].pc = "free"
     /\ \/ /\ w > 0
           /\ ret' = [ret EXCEPT ![r] = [planned EXCEPT !.pc = "withdrawing"]]
           /\ Queues(r, <<[kind |-> "withdraw", amount |-> w, seen |-> ret[r].seen]>>)
           /\ UNCHANGED turns /\ Calm
        \/ /\ w = 0 /\ t > 0
           /\ ret' = [ret EXCEPT ![r] = [planned EXCEPT !.pc = "reading"]]
           /\ UNCHANGED <<queue, sender, turns>> /\ Calm
        \/ /\ (w + t = 0 /\ Calm) \/ Trouble("rejected")
           /\ Leaves(r, planned)
           /\ UNCHANGED <<queue, sender>>
     /\ UNCHANGED <<setup, free, held, txs, lastNonce, written>>

(* The balance is read again, and no more than it is sent. *)
Sends(r) ==
  LET send == Least(held, ret[r].transfer)
  IN /\ ret[r].pc = "reading"
     /\ IF send = 0 THEN Leaves(r, ret[r]) /\ UNCHANGED <<queue, sender>>
        ELSE /\ ret' = [ret EXCEPT ![r].pc = "transferring"]
             /\ Queues(r, <<[kind |-> "transfer", amount |-> send, seen |-> Landed]>>)
             /\ UNCHANGED turns
     /\ UNCHANGED <<setup, free, held, txs, lastNonce, written, troubles>>

(* The agent's own: an approval and a deposit, or an order that reserves
   collateral. *)
Lists == {<<[kind |-> "approve", amount |-> 1, seen |-> Landed],
            [kind |-> "deposit", amount |-> 1, seen |-> Landed]>>,
          <<[kind |-> "order", amount |-> 1, seen |-> Landed]>>}

WritesTo(w) ==
  /\ w \notin written /\ written' = written \cup {w}
  /\ \E legs \in Lists : Queues(w, legs)
  /\ UNCHANGED <<setup, free, held, txs, lastNonce, turns, ret, troubles>>

-------------------------------------------------------------------------------
(* A transaction's turn on chain: a signed one waits for every lower nonce. *)
Due(i) == IF i \notin Signed THEN TRUE ELSE
          \A n \in 0..(txs[i].nonce - 1) :
            \E j \in Signed : txs[j].nonce = n /\ txs[j].state \notin {"pending", "dropped"}

Paid(i) == CASE txs[i].kind \in {"withdraw", "order"}   -> free >= txs[i].amount
             [] txs[i].kind \in {"transfer", "deposit"} -> held >= txs[i].amount
             [] OTHER                                   -> TRUE

TxLands(i) ==
  LET n == txs[i].amount
      ends(state) == txs' = [txs EXCEPT ![i] = [@ EXCEPT !.state = state, !.at = Landed + 1]]
  IN /\ txs[i].state = "pending" /\ Due(i)
     /\ \/ /\ Paid(i) /\ ends("done") /\ Calm
           /\ free' = CASE txs[i].kind \in {"withdraw", "order"} -> free - n
                        [] txs[i].kind = "deposit"               -> free + n
                        [] OTHER                                 -> free
           /\ held' = CASE txs[i].kind \in {"transfer", "deposit"} -> held - n
                        [] txs[i].kind = "withdraw" /\ setup.custody = "address-keyed" -> held + n
                        [] OTHER                                   -> held
        \/ ~Paid(i) /\ ends("short") /\ UNCHANGED <<free, held>> /\ Calm
        \/ Trouble("reverted") /\ ends("reverted") /\ UNCHANGED <<free, held>>
     /\ UNCHANGED <<setup, queue, sender, lastNonce, turns, ret, written>>

(* The mempool forgets a transaction it had taken. *)
Drops(i) ==
  /\ Trouble("dropped") /\ i \in Signed /\ txs[i].state = "pending"
  /\ txs' = [txs EXCEPT ![i].state = "dropped"]
  /\ UNCHANGED <<setup, free, held, queue, sender, lastNonce, turns, ret, written>>

(* What the process had sent, no process follows or remembers. *)
WalletRestarts ==
  /\ Trouble("restart")
  /\ txs' = [i \in DOMAIN txs |-> [txs[i] EXCEPT !.left = TRUE]]
  /\ queue' = <<>> /\ sender' = Quiet /\ lastNonce' = NoNonce /\ turns' = <<>>
  /\ ret' = [r \in Returns |-> IF ret[r].pc = "idle" THEN ret[r] ELSE [ret[r] EXCEPT !.pc = "cut"]]
  /\ UNCHANGED <<setup, free, held, written>>

WalletNext ==
  \/ Sponsors \/ Numbers \/ Broadcasts \/ Follows
  \/ \E r \in Returns :
       (\E limit \in {Everything, 1} : AsksFor(r, limit)) \/ ReadsFree(r) \/ Plans(r) \/ Sends(r)
  \/ \E w \in Writes : WritesTo(w)
  \/ \E i \in DOMAIN txs : TxLands(i) \/ Drops(i)
  \/ WalletRestarts

WalletSpec == WalletInit /\ [][WalletNext]_walletVars

-------------------------------------------------------------------------------
(* Nothing the wallet is asked to send lands twice, and of two legs the second
   goes out once the first has landed well; whatever is in flight was given up
   on, but the one being followed (agent-transactions.ts:8 and :10). *)
OneInFlight ==
  /\ \A i, j \in DOMAIN txs :
       i < j /\ txs[i].by = txs[j].by =>
         txs[i].kind # txs[j].kind /\ (txs[i].kind = "approve" => txs[i].state = "done")
  /\ \A i \in DOMAIN txs :
       txs[i].state = "pending" /\ ~txs[i].left => sender.pc = "following" /\ sender.tx = i

(* A nonce is signed twice only after an answer was lost, or by another
   process (agent-transactions.ts:245); and none is left out, or everything
   after it waits for ever. *)
NoncesAreSound ==
  \/ \E i \in Signed : txs[i].left
  \/ /\ sender.pc = "signing" => ~Reused(sender.nonce)
     /\ \A i \in Signed : txs[i].nonce = i - 1

WalletIsOrderly == OneInFlight /\ NoncesAreSound

Done(r, kind) == {i \in DOMAIN txs : txs[i].by = r /\ txs[i].kind = kind /\ txs[i].state = "done"}

(* What a return brought home: set C's withdrawal goes no further than the
   wallet. *)
Home(r) ==
  (IF Done(r, "transfer") = {} THEN 0 ELSE txs[CHOOSE i \in Done(r, "transfer") : TRUE].amount)
  + IF setup.custody = "address-keyed" \/ Done(r, "withdraw") = {} THEN 0
    ELSE txs[CHOOSE i \in Done(r, "withdraw") : TRUE].amount

AskedFor(r) == Least(ret[r].free + ret[r].held,
                     IF ret[r].limit = Everything THEN ret[r].free + ret[r].held ELSE ret[r].limit)

(* Of one return: its words are the chain's, and what it brought home is what
   was asked, or less where it had to be. *)
ReturnIsTrue(r) ==
  /\ ret[r].withdrawn # "none" => (ret[r].withdrawn = "done" <=> Done(r, "withdraw") # {})
  /\ ret[r].returned # "none" => (ret[r].returned = "done" <=> Done(r, "transfer") # {})
  /\ Home(r) <= AskedFor(r)
  /\ (/\ ret[r].pc = "over"
      /\ ret[r].withdraw > 0 => ret[r].withdrawn = "done"
      /\ ret[r].transfer > 0 => ret[r].returned = "done"
      /\ \A i \in DOMAIN txs : txs[i].at > ret[r].seen => txs[i].by = r)
     => Home(r) = AskedFor(r)
  /\ \A i \in DOMAIN txs :
       txs[i].by = r /\ txs[i].state = "short" /\ ~txs[i].left =>
         \E j \in DOMAIN txs : /\ txs[j].at \in (txs[i].seen + 1)..(txs[i].at - 1)
                              /\ txs[j].state = "done"
                              /\ (txs[j].by \in Writes \/ txs[j].left)

(* The wallet's sends go one at a time, and their nonces neither repeat nor
   leave a gap but for a lost answer, a dropped transaction or a restart
   (agent-transactions.ts:245); whoever waits for the queue is in it
   (agent-transactions.ts:366).  A return says of each leg what the chain did
   with it, and never brings home more than was asked.  With both legs well and
   nothing else landing meanwhile it brings exactly that.  A leg it follows and
   that cannot be paid lost its funds to a write of the agent's, or to what was
   given up on, never to another return (return-funds.service.ts:214 and :230). *)
ReturnsAreTrue == WalletTypeOK /\ WalletIsOrderly /\ \A r \in Returns : ReturnIsTrue(r)
===============================================================================
