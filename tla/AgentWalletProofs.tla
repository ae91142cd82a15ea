-------------------------- MODULE AgentWalletProofs --------------------------
(***************************************************************************)
(* What AgentWallet promises, for any returns and writes, any funds, every *)
(* deployment and way out, and every fault.                                *)
(*                                                                         *)
(* The invariant is in parts.  Shape relates the queue, the sender and the *)
(* line of the returns.  SentFits, PairFits and FlightFits relate what was *)
(* sent to what is queued: a leg is handed over once, the second of two    *)
(* when the first landed well, and the one followed is the only one in     *)
(* flight.  WordFits, PlanFits, AloneFits and RoomFits relate a return to  *)
(* the chain: its words, its plan and its amounts, and that the funds it   *)
(* counts on are there until a write of the agent's, or what was given up  *)
(* on, takes them.  Gapless relates the nonces to the transactions.        *)
(***************************************************************************)
EXTENDS AgentWallet, SequenceTheorems, FiniteSetTheorems, TLAPS

LegSet  == [kind : {"withdraw", "transfer", "approve", "deposit", "order"}, amount : Nat, seen : Nat]
UnitSet == [by : Returns \cup Writes, legs : Seq(LegSet)]
TxSet   == [by : Returns \cup Writes, kind : {"withdraw", "transfer", "approve", "deposit", "order"},
            amount : Nat, nonce : Nat \cup {NoNonce}, seen : Nat, at : Nat, left : BOOLEAN,
            state : {"pending", "done", "short", "reverted", "dropped"}]
SenderSet == [pc : {"idle", "sponsoring", "again", "numbering", "signing", "following"},
              leg : Nat, nonce : Nat \cup {NoNonce}, tx : Nat]
RetSet  == [pc : {"idle", "waiting", "free", "held", "withdrawing", "reading", "transferring",
                  "over", "cut"},
            limit : {Everything, 1}, free : Nat, held : Nat, seen : Nat, withdraw : Nat,
            transfer : Nat, withdrawn : {"none", "done", "reverted"},
            returned : {"none", "done", "reverted"}]

(* The variables are of their types. *)
Typed ==
  /\ setup \in Setups /\ free \in Nat /\ held \in Nat /\ troubles \in 0..MaxTroubles
  /\ txs \in Seq(TxSet) /\ queue \in Seq(UnitSet) /\ sender \in SenderSet
  /\ lastNonce \in Nat \cup {NoNonce}
  /\ turns \in Seq(Returns) /\ ret \in [Returns -> RetSet] /\ written \subseteq Writes

(* The sender has the unit that is first, and one of its legs; what it follows is
   that leg's transaction. *)
SenderFits ==
  /\ sender.pc = "idle" <=> queue = <<>>
  /\ queue # <<>> => sender.leg \in 1..Len(Unit.legs)
  /\ sender.pc = "following" =>
       /\ sender.tx \in DOMAIN txs /\ ~txs[sender.tx].left
       /\ txs[sender.tx].by = Unit.by /\ txs[sender.tx].kind = Leg.kind
       /\ txs[sender.tx].amount = Leg.amount /\ txs[sender.tx].seen = Leg.seen

(* A return's unit is its one leg, as planned; a write's is one of the two lists. *)
UnitOK(u) ==
  \/ /\ u.by \in Returns /\ Len(u.legs) = 1
     /\ \/ /\ u.legs[1].kind = "withdraw" /\ ret[u.by].pc = "withdrawing"
           /\ u.legs[1].amount = ret[u.by].withdraw /\ u.legs[1].seen = ret[u.by].seen
        \/ /\ u.legs[1].kind = "transfer" /\ ret[u.by].pc = "transferring"
           /\ u.legs[1].amount <= ret[u.by].transfer
  \/ /\ u.by \in written
     /\ \/ Len(u.legs) = 2 /\ u.legs[1].kind = "approve" /\ u.legs[2].kind = "deposit"
        \/ Len(u.legs) = 1 /\ u.legs[1].kind = "order"

UnitsFit ==
  /\ \A k \in DOMAIN queue : UnitOK(queue[k])
  /\ \A j, k \in DOMAIN queue : queue[j].by = queue[k].by => j = k

(* A return under way is in the line, and one at work is first in it. *)
Working == {"free", "withdrawing", "reading", "transferring"}
LockFits ==
  \A r \in Returns :
    /\ ret[r].pc \notin {"idle", "over", "cut"} => \E k \in DOMAIN turns : turns[k] = r
    /\ ret[r].pc \in Working => turns[1] = r

Shape == Typed /\ SenderFits /\ UnitsFit /\ LockFits

-------------------------------------------------------------------------------
(* What was sent. *)

HasLanded(i) == txs[i].state \notin {"pending", "dropped"}

(* A leg is handed over once: no transaction is of a leg to come, nor of a
   return that has not planned, nor a transfer of one that still withdraws. *)
HandedOnce ==
  \A i \in DOMAIN txs, k \in DOMAIN queue : txs[i].by = queue[k].by =>
    /\ \A l \in DOMAIN queue[k].legs : txs[i].kind = queue[k].legs[l].kind =>
         k = 1 /\ (l < sender.leg \/ (l = sender.leg /\ sender.pc = "following"))
    /\ queue[k].by \in Writes => \E l \in DOMAIN queue[k].legs : txs[i].kind = queue[k].legs[l].kind

KindsFit ==
  \A i \in DOMAIN txs :
    \/ /\ txs[i].by \in Returns /\ ret[txs[i].by].pc \notin {"idle", "waiting", "free"}
       /\ \/ txs[i].kind = "withdraw"
          \/ txs[i].kind = "transfer" /\ ret[txs[i].by].pc \notin {"withdrawing", "reading"}
    \/ txs[i].by \in written /\ txs[i].kind \in {"approve", "deposit", "order"}

SentFits == HandedOnce /\ KindsFit

(* Of two legs the second is handed over after the first landed well. *)
Paired ==
  \A i, j \in DOMAIN txs :
    i < j /\ txs[i].by = txs[j].by =>
      txs[i].kind # txs[j].kind /\ (txs[i].kind = "approve" => txs[i].state = "done")

ApprovedFirst ==
  queue # <<>> /\ sender.leg = 2 =>
    \A i \in DOMAIN txs : txs[i].by = Unit.by /\ txs[i].kind = "approve" => txs[i].state = "done"

PairFits == Paired /\ ApprovedFirst

(* Whatever has not landed was given up on, but the one being followed. *)
FlightFits ==
  \A i \in DOMAIN txs :
    ~HasLanded(i) /\ ~txs[i].left => sender.pc = "following" /\ sender.tx = i

(* Every landing has its place in the order of landings. *)
AtFits ==
  /\ \A i \in DOMAIN txs : txs[i].at <= Landed
  /\ \A r \in Returns : ret[r].seen <= Landed
  /\ \A k \in DOMAIN queue : \A l \in DOMAIN queue[k].legs : queue[k].legs[l].seen <= Landed

(* What a return says of a leg is what became of its transaction. *)
Became(r, kind, word) ==
  \E i \in DOMAIN txs : /\ txs[i].by = r /\ txs[i].kind = kind /\ HasLanded(i)
                        /\ (word = "done" <=> txs[i].state = "done")

WordFits ==
  \A r \in Returns :
    /\ ret[r].withdrawn # "none" => Became(r, "withdraw", ret[r].withdrawn)
    /\ ret[r].returned # "none" => Became(r, "transfer", ret[r].returned)

(* A plan is what the code computes from what was read, and what is sent is of
   the plan. *)
Planned(r) ==
  /\ ret[r].withdraw = WithdrawOf(r, ret[r].held) /\ ret[r].transfer = TransferOf(r, ret[r].held)

Minded ==
  \A r \in Returns :
    \/ ret[r].pc \in {"idle", "waiting", "free"}
    \/ Planned(r)
    \/ ret[r].pc = "cut" /\ \A i \in DOMAIN txs : txs[i].by # r

Measured ==
  \A i \in DOMAIN txs : \A r \in Returns : txs[i].by = r =>
    /\ txs[i].kind = "withdraw" => txs[i].amount = ret[r].withdraw
    /\ txs[i].kind = "transfer" => txs[i].amount <= ret[r].transfer

PlanFits == Minded /\ Measured

(* Nothing but the return's own landed since it read. *)
Alone(r) == \A i \in DOMAIN txs : txs[i].at > ret[r].seen => txs[i].by = r

Came(r) ==
  \E i \in DOMAIN txs : txs[i].by = r /\ txs[i].kind = "withdraw" /\ txs[i].state = "done"

Paying(r) == IF setup.custody = "address-keyed" /\ Came(r)
             THEN ret[r].withdraw ELSE 0

(* Then the wallet holds what it read and what was withdrawn into it, and the
   transfer is the whole of the plan. *)
HeldFits ==
  \A r \in Returns :
    Alone(r) /\ ret[r].pc \in {"withdrawing", "reading"} => held = ret[r].held + Paying(r)

Whole(r) ==
  /\ \A i \in DOMAIN txs : txs[i].by = r /\ txs[i].kind = "transfer" => txs[i].amount = ret[r].transfer
  /\ \A k \in DOMAIN queue : queue[k].by = r /\ queue[k].legs[1].kind = "transfer" =>
       queue[k].legs[1].amount = ret[r].transfer

WholeFits ==
  \A r \in Returns :
    Alone(r) /\ (ret[r].withdraw > 0 => ret[r].withdrawn = "done") => Whole(r)

AloneFits == HeldFits /\ WholeFits

(* Funds went since to a write of the agent's, or to what was given up on. *)
Thief(seen, until) ==
  \E j \in DOMAIN txs : /\ txs[j].at \in (seen + 1)..(until - 1) /\ txs[j].state = "done"
                        /\ (txs[j].by \in Writes \/ txs[j].left)

Stock(kind) == IF kind = "withdraw" THEN free ELSE held

(* Until then what a return is about to move is there. *)
Roomy(u) ==
  \/ Stock(u.legs[1].kind) >= u.legs[1].amount
  \/ Thief(u.legs[1].seen, Landed + 1)

Untold(u) ==
  \A i \in DOMAIN txs : txs[i].by = u.by /\ txs[i].kind = u.legs[1].kind => ~HasLanded(i)

FreeRoom ==
  \A r \in Returns : ret[r].pc = "free" => free >= ret[r].free \/ Thief(ret[r].seen, Landed + 1)

QueueRoom ==
  \A k \in DOMAIN queue : queue[k].by \in Returns /\ Untold(queue[k]) => Roomy(queue[k])

RoomFits == FreeRoom /\ QueueRoom

(* So what a followed leg was short of went there. *)
ShortFits ==
  \A i \in DOMAIN txs :
    txs[i].by \in Returns /\ txs[i].state = "short" /\ ~txs[i].left => Thief(txs[i].seen, txs[i].at)

(* The nonces of one process follow each other. *)
Gapless ==
  /\ setup.path = "sponsored" => Signed = {} /\ sender.pc \notin {"numbering", "signing"}
  /\ setup.path # "sponsored" => Signed = DOMAIN txs
  /\ sender.pc = "signing" => sender.nonce \in Nat
  /\ (\A i \in Signed : ~txs[i].left) =>
       /\ \A i \in Signed : txs[i].nonce = i - 1
       /\ lastNonce = IF Signed = {} THEN NoNonce ELSE Len(txs) - 1
       /\ sender.pc = "signing" => sender.nonce = Len(txs)

WalletInv == /\ Shape /\ SentFits /\ PairFits /\ FlightFits /\ AtFits /\ WordFits
             /\ PlanFits /\ AloneFits /\ RoomFits /\ ShortFits /\ Gapless

-------------------------------------------------------------------------------
(* The steps, by what they do. *)

(* The sender is about to hand a leg over. *)
Ready == sender.pc \in {"sponsoring", "again", "signing"}
Rest  == UNCHANGED <<setup, free, held, written>>

(* The sender goes on to its next point, with nothing handed over. *)
Turns ==
  /\ sender.pc \in {"sponsoring", "again", "numbering"}
  /\ \/ \E pc \in {"again", "numbering"} : sender' = [sender EXCEPT !.pc = pc]
     \/ \E n \in Nat : sender' = [sender EXCEPT !.pc = "signing", !.nonce = n]
  /\ UNCHANGED <<txs, queue, ret, turns>> /\ Rest

(* A leg is handed over, and followed; or handed over and given up on; or not
   handed over. *)
HandsOver(nonce) ==
  /\ Ready /\ txs' = Append(txs, Tx(nonce, FALSE))
  /\ sender' = [sender EXCEPT !.pc = "following", !.tx = Len(txs) + 1]
  /\ UNCHANGED <<queue, ret, turns>> /\ Rest

Mislays(nonce) == Ready /\ txs' = Append(txs, Tx(nonce, TRUE)) /\ Throws /\ Rest
Fails        == Ready /\ txs' = txs /\ Throws /\ Rest

(* The followed transaction has landed: the next leg, or the end of the unit; or
   it is given up on. *)
NextLeg ==
  /\ sender.pc = "following" /\ txs[sender.tx].state = "done" /\ sender.leg < Len(Unit.legs)
  /\ sender' = [Quiet EXCEPT !.pc = Entry, !.leg = sender.leg + 1]
  /\ UNCHANGED <<txs, queue, ret, turns>> /\ Rest

Ends ==
  /\ sender.pc = "following" /\ txs[sender.tx].state \in {"done", "short", "reverted"}
  /\ ~(Success(sender.tx) /\ sender.leg < Len(Unit.legs))
  /\ Dequeues /\ Receives(Success(sender.tx)) /\ txs' = txs /\ Rest

Leaving ==
  /\ sender.pc = "following" /\ txs[sender.tx].state \in {"pending", "dropped"}
  /\ txs' = [txs EXCEPT ![sender.tx].left = TRUE]
  /\ Throws /\ Rest

LEMMA Steps ==
  ASSUME Typed, WalletNext
  PROVE  \/ Turns \/ (\E n \in Nat \cup {NoNonce} : HandsOver(n) \/ Mislays(n)) \/ Fails
         \/ NextLeg \/ Ends \/ Leaving
         \/ \E r \in Returns : (\E limit \in {Everything, 1} : AsksFor(r, limit))
                               \/ ReadsFree(r) \/ Plans(r) \/ Sends(r)
         \/ \E w \in Writes : WritesTo(w)
         \/ \E i \in DOMAIN txs : TxLands(i) \/ Drops(i)
         \/ WalletRestarts
<1>1. ASSUME NEW n \in Nat \cup {NoNonce}, Ready, Takes(n), Rest
      PROVE  HandsOver(n) \/ Mislays(n)
  BY <1>1 DEF Takes, HandsOver, Mislays
<1>2. ASSUME Ready, Refused, Rest
      PROVE  Fails
  BY <1>2 DEF Refused, Fails
<1>3. CASE Sponsors
  <2>1. Rest /\ sender.pc \in {"sponsoring", "again"} /\ Ready
    BY <1>3 DEF Sponsors, Rest, Ready
  <2>2. CASE Takes(NoNonce)
    BY <1>1, <2>1, <2>2
  <2>3. CASE Refused
    BY <1>2, <2>1, <2>3
  <2>4. CASE sender' = [sender EXCEPT !.pc = "numbering"] /\ UNCHANGED <<txs, queue, ret, turns>>
    BY <2>1, <2>4 DEF Turns
  <2>5. CASE AsksAgain
    BY <2>1, <2>5 DEF Turns, AsksAgain
  <2> QED BY <1>3, <2>2, <2>3, <2>4, <2>5 DEF Sponsors
<1>4. CASE Numbers
  <2>1. PICK n \in {Pending, Pending - 1} \cap Nat :
          sender' = [sender EXCEPT !.pc = "signing", !.nonce = NonceOf(n)]
    BY <1>4 DEF Numbers
  <2>2. NonceOf(n) \in Nat
    BY DEF NonceOf, Most, Typed
  <2>3. Rest /\ UNCHANGED <<txs, queue, ret, turns>> /\ sender.pc = "numbering"
    BY <1>4 DEF Numbers, Rest
  <2> QED BY <2>1, <2>2, <2>3 DEF Turns
<1>5. CASE Broadcasts
  <2>1. Rest /\ sender.pc = "signing" /\ Ready /\ sender.nonce \in Nat \cup {NoNonce}
    BY <1>5 DEF Broadcasts, Rest, Ready, Typed, SenderSet
  <2>2. CASE Takes(sender.nonce)
    BY <1>1, <2>1, <2>2
  <2>3. CASE txs' = txs /\ Throws
    BY <2>1, <2>3 DEF Fails
  <2>4. CASE Refused
    BY <1>2, <2>1, <2>4
  <2> QED BY <1>5, <2>2, <2>3, <2>4 DEF Broadcasts
<1>6. CASE Follows
  <2>1. Rest /\ sender.pc = "following"
    BY <1>6 DEF Follows, Rest
  <2> QED BY <1>6, <2>1 DEF Follows, NextLeg, Ends, Leaving, Success
<1> QED BY <1>3, <1>4, <1>5, <1>6 DEF WalletNext

-------------------------------------------------------------------------------
(* What the parts of a step make. *)

LEMMA Values ==
  ASSUME Typed
  PROVE  /\ Quiet \in SenderSet /\ Entry \in {"sponsoring", "numbering"}
         /\ Quiet.pc = "idle" /\ Quiet.leg = 1
         /\ [Quiet EXCEPT !.pc = Entry] \in SenderSet
         /\ [Quiet EXCEPT !.pc = Entry].pc = Entry /\ [Quiet EXCEPT !.pc = Entry].leg = 1
         /\ NoReturn \in RetSet
  BY DEF Quiet, Entry, SenderSet, NoReturn, RetSet

LEMMA Sequences ==
  ASSUME Typed
  PROVE  /\ Len(queue) \in Nat /\ DOMAIN queue = 1..Len(queue)
         /\ \A k \in DOMAIN queue : queue[k] \in UnitSet
         /\ queue # <<>> => Len(queue) > 0 /\ 1 \in DOMAIN queue /\ Unit = queue[1] /\ Unit \in UnitSet
         /\ queue = <<>> => Len(queue) = 0
         /\ Len(turns) \in Nat /\ DOMAIN turns = 1..Len(turns)
         /\ turns = <<>> => Len(turns) = 0
         /\ Len(txs) \in Nat /\ DOMAIN txs = 1..Len(txs)
         /\ \A i \in DOMAIN txs : txs[i] \in TxSet
  BY DEF Typed, Unit

LEMMA QueuesMake ==
  ASSUME Typed, NEW by \in Returns \cup Writes, NEW legs \in Seq(LegSet), Queues(by, legs)
  PROVE  /\ queue' \in Seq(UnitSet) /\ Len(queue') = Len(queue) + 1 /\ queue' # <<>>
         /\ \A k \in DOMAIN queue : queue'[k] = queue[k]
         /\ queue'[Len(queue) + 1] = [by |-> by, legs |-> legs]
         /\ sender' \in SenderSet
         /\ queue # <<>> => sender' = sender
         /\ queue = <<>> => /\ sender'.pc \in {"sponsoring", "numbering"} /\ sender'.leg = 1
<1>1. [by |-> by, legs |-> legs] \in UnitSet
  BY DEF UnitSet
<1>2. queue' = Append(queue, [by |-> by, legs |-> legs])
      /\ sender' = IF queue = <<>> THEN [Quiet EXCEPT !.pc = Entry] ELSE sender
  BY DEF Queues
<1>3. queue \in Seq(UnitSet) /\ sender \in SenderSet
  BY DEF Typed
<1>4. sender' \in SenderSet
  BY <1>2, <1>3, Values
<1> QED BY <1>1, <1>2, <1>3, <1>4, Values

LEMMA DequeuesMake ==
  ASSUME Typed, queue # <<>>, Dequeues
  PROVE  /\ queue' \in Seq(UnitSet) /\ Len(queue') = Len(queue) - 1
         /\ \A k \in DOMAIN queue' : k + 1 \in DOMAIN queue /\ queue'[k] = queue[k + 1]
         /\ sender' \in SenderSet /\ sender'.leg = 1
         /\ queue' = <<>> => sender'.pc = "idle"
         /\ queue' # <<>> => sender'.pc \in {"sponsoring", "numbering"}
<1>1. queue \in Seq(UnitSet) /\ queue' = Tail(queue)
      /\ sender' = IF Len(queue) > 1 THEN [Quiet EXCEPT !.pc = Entry] ELSE Quiet
  BY DEF Typed, Dequeues
<1>2. /\ queue' \in Seq(UnitSet) /\ Len(queue') = Len(queue) - 1
      /\ \A k \in DOMAIN queue' : k + 1 \in DOMAIN queue /\ queue'[k] = queue[k + 1]
  BY <1>1
<1>3. queue' = <<>> <=> ~(Len(queue) > 1)
  <2>1. Len(queue) \in Nat /\ Len(queue) > 0
    BY Sequences
  <2>2. queue' = <<>> <=> Len(queue') = 0
    BY ONLY <1>2
  <2> QED BY ONLY <1>2, <2>1, <2>2
<1> QED BY <1>1, <1>2, <1>3, Values

LEMMA LeavesMake ==
  ASSUME Typed, LockFits, NEW r \in Returns, ret[r].pc \in Working, NEW outcome \in RetSet,
         Leaves(r, outcome)
  PROVE  /\ ret' \in [Returns -> RetSet] /\ ret'[r] = [outcome EXCEPT !.pc = "over"]
         /\ \A q \in Returns \ {r} : ret'[q] = ret[q]
         /\ turns' \in Seq(Returns) /\ LockFits'
<1>1. turns # <<>> /\ turns[1] = r
  BY Sequences DEF LockFits, Working
<1>2. /\ turns \in Seq(Returns) /\ turns' = Tail(turns)
      /\ ret \in [Returns -> RetSet] /\ ret' = [ret EXCEPT ![r] = [outcome EXCEPT !.pc = "over"]]
  BY DEF Typed, Leaves
<1>3. [outcome EXCEPT !.pc = "over"] \in RetSet /\ [outcome EXCEPT !.pc = "over"].pc = "over"
  BY DEF RetSet
<1>4. /\ ret' \in [Returns -> RetSet] /\ ret'[r] = [outcome EXCEPT !.pc = "over"]
      /\ \A q \in Returns \ {r} : ret'[q] = ret[q]
  BY <1>2, <1>3
<1>5. /\ turns' \in Seq(Returns)
      /\ \A k \in DOMAIN turns : k > 1 => k - 1 \in DOMAIN turns' /\ turns'[k - 1] = turns[k]
  BY <1>1, <1>2
<1>6. ASSUME NEW q \in Returns, ret'[q].pc \notin {"idle", "over", "cut"}
      PROVE  ret'[q].pc \notin Working /\ \E k \in DOMAIN turns' : turns'[k] = q
  <2>1. q # r /\ ret'[q] = ret[q]
    BY <1>3, <1>4, <1>6
  <2>2. PICK k \in DOMAIN turns : turns[k] = q
    BY <1>6, <2>1 DEF LockFits
  <2>3. k > 1 /\ ret[q].pc \notin Working
    BY <1>1, <2>1, <2>2, Sequences DEF LockFits
  <2> QED BY <1>5, <2>1, <2>2, <2>3
<1>7. LockFits'
  BY <1>6 DEF LockFits, Working
<1> QED BY <1>4, <1>5, <1>7

(* The unit of a return at its send is one of its two, and it is at work. *)
LEMMA UnitShape ==
  ASSUME Typed, SenderFits, UnitsFit, queue # <<>>
  PROVE  /\ Unit \in UnitSet /\ UnitOK(Unit) /\ Leg \in LegSet
         /\ Leg = Unit.legs[sender.leg] /\ sender.leg \in DOMAIN Unit.legs
         /\ Unit.by \in Returns => /\ ret[Unit.by].pc \in {"withdrawing", "transferring"}
                                   /\ ret[Unit.by].pc \in Working
                                   /\ sender.leg = 1
                                   /\ Leg.kind = "withdraw" <=> ret[Unit.by].pc = "withdrawing"
                                   /\ Leg.kind = "transfer" <=> ret[Unit.by].pc = "transferring"
         /\ Unit.by \notin Returns => Leg.kind \notin {"withdraw", "transfer"}
<1>1. Unit \in UnitSet /\ UnitOK(Unit) /\ sender.leg \in 1..Len(Unit.legs) /\ Unit.legs \in Seq(LegSet)
  BY Sequences DEF UnitsFit, SenderFits, UnitSet
<1>2. Leg \in LegSet /\ Leg = Unit.legs[sender.leg] /\ sender.leg \in DOMAIN Unit.legs
  BY <1>1 DEF Leg
<1>3. Unit.by \in Returns =>
        /\ sender.leg = 1
        /\ \/ Leg.kind = "withdraw" /\ ret[Unit.by].pc = "withdrawing"
           \/ Leg.kind = "transfer" /\ ret[Unit.by].pc = "transferring"
  BY <1>1, <1>2, WalletAssumption DEF UnitOK, Typed
<1>4. Unit.by \notin Returns => Leg.kind \notin {"withdraw", "transfer"}
  BY <1>1, <1>2 DEF UnitOK
<1> QED BY <1>1, <1>2, <1>3, <1>4 DEF Working

-------------------------------------------------------------------------------
(* Shape is kept. *)

LEMMA OtherTypes ==
  ASSUME Typed, WalletNext
  PROVE  /\ setup' = setup /\ free' \in Nat /\ held' \in Nat /\ troubles' \in 0..MaxTroubles
         /\ lastNonce' \in Nat \cup {NoNonce} /\ written' \subseteq Writes
         /\ written \subseteq written'
<1>1. troubles \in 0..MaxTroubles /\ MaxTroubles \in Nat /\ setup \in Setups
      /\ free \in Nat /\ held \in Nat /\ written \subseteq Writes
      /\ lastNonce \in Nat \cup {NoNonce} /\ sender.nonce \in Nat \cup {NoNonce}
  BY WalletAssumption DEF Typed, SenderSet
<1>2. \A kind : Trouble(kind) => troubles' \in 0..MaxTroubles
  BY <1>1 DEF Trouble
<1>3. troubles' \in 0..MaxTroubles
  BY <1>1, <1>2 DEF WalletNext, Sponsors, Takes, Refused, AsksAgain, Calm, Numbers, Broadcasts,
     Follows, AsksFor, ReadsFree, Plans, Sends, WritesTo, TxLands, Drops, WalletRestarts
<1>4. setup' = setup
  BY DEF WalletNext, Sponsors, Numbers, Broadcasts,
     Follows, AsksFor, ReadsFree, Plans, Sends, WritesTo, TxLands, Drops, WalletRestarts
<1>5. lastNonce' \in Nat \cup {NoNonce}
  BY <1>1 DEF WalletNext, Sponsors, Numbers, Broadcasts,
     Follows, AsksFor, ReadsFree, Plans, Sends, WritesTo, TxLands, Drops, WalletRestarts
<1>6. written' \subseteq Writes /\ written \subseteq written'
  BY <1>1 DEF WalletNext, Sponsors, Numbers, Broadcasts,
     Follows, AsksFor, ReadsFree, Plans, Sends, WritesTo, TxLands, Drops, WalletRestarts
<1>7. free' \in Nat /\ held' \in Nat
  <2>1. ASSUME NEW i \in DOMAIN txs, TxLands(i)
        PROVE  free' \in Nat /\ held' \in Nat
    <3>1. txs[i] \in TxSet /\ txs[i].amount \in Nat
      BY Sequences DEF TxSet
    <3> QED BY <1>1, <2>1, <3>1 DEF TxLands, Paid
  <2> QED BY <1>1, <2>1 DEF WalletNext, Sponsors, Numbers, Broadcasts,
        Follows, AsksFor, ReadsFree, Plans, Sends, WritesTo, Drops, WalletRestarts
<1> QED BY <1>3, <1>4, <1>5, <1>6, <1>7

(* A unit whose return stays at its send. *)
LEMMA UnitKept ==
  ASSUME NEW u \in UnitSet, UnitOK(u), written \subseteq written',
         u.by \in Returns => /\ ret'[u.by].pc = ret[u.by].pc
                             /\ ret'[u.by].withdraw = ret[u.by].withdraw
                             /\ ret'[u.by].transfer = ret[u.by].transfer
                             /\ ret'[u.by].seen = ret[u.by].seen
  PROVE  UnitOK(u)'
  BY DEF UnitOK

LEMMA DequeuesKeep ==
  ASSUME Shape, queue # <<>>, Dequeues, written \subseteq written',
         \A q \in Returns : q # Unit.by => ret'[q] = ret[q]
  PROVE  SenderFits' /\ UnitsFit'
<1>1. /\ \A k \in DOMAIN queue' : k + 1 \in DOMAIN queue /\ queue'[k] = queue[k + 1]
      /\ queue' \in Seq(UnitSet) /\ sender'.leg = 1
      /\ queue' = <<>> => sender'.pc = "idle"
      /\ queue' # <<>> => sender'.pc \in {"sponsoring", "numbering"}
  BY DequeuesMake DEF Shape
<1>2. DOMAIN queue' = 1..Len(queue') /\ Len(queue') \in Nat /\ (queue' # <<>> => 1 \in DOMAIN queue')
  BY <1>1
<1>3. ASSUME NEW k \in DOMAIN queue', NEW u, u = queue'[k]
      PROVE  UnitOK(u)'
  <2>1. k + 1 \in DOMAIN queue /\ k + 1 # 1 /\ queue[k + 1] \in UnitSet /\ 1 \in DOMAIN queue
        /\ Unit = queue[1]
    BY <1>1, <1>2, Sequences DEF Shape
  <2>2. queue[k + 1].by # Unit.by /\ UnitOK(queue[k + 1])
    BY <2>1 DEF Shape, UnitsFit
  <2>3. u = queue[k + 1]
    BY <1>1, <1>3
  <2> QED BY <2>1, <2>2, <2>3, UnitKept
<1>6. \A k \in DOMAIN queue' : UnitOK(queue[k])'
  BY <1>3 DEF UnitOK
<1>4. \A j, k \in DOMAIN queue' : queue'[j].by = queue'[k].by => j = k
  BY <1>1, <1>2 DEF Shape, UnitsFit
<1>5. queue' # <<>> => sender'.leg \in 1..Len(Unit.legs)'
  <2> SUFFICES ASSUME queue' # <<>>
               PROVE  1 \in 1..Len(queue'[1].legs)
    BY <1>1, <1>2 DEF Unit
  <2>1. ASSUME NEW u, u = queue'[1]
        PROVE  1 \in 1..Len(u.legs)
    <3>1. UnitOK(u)'
      BY <1>2, <1>3, <2>1
    <3> QED BY <3>1 DEF UnitOK
  <2> QED BY <2>1
<1>7. UnitsFit'
  BY <1>4, <1>6 DEF UnitsFit
<1> QED BY <1>1, <1>5, <1>7 DEF SenderFits

LEMMA QueuesKeep ==
  ASSUME Shape, NEW by \in Returns \cup Writes, NEW legs \in Seq(LegSet), Queues(by, legs),
         \A k \in DOMAIN queue : queue[k].by # by,
         \A q \in Returns : q # by => ret'[q] = ret[q],
         written \subseteq written', txs' = txs,
         UnitOK([by |-> by, legs |-> legs])'
  PROVE  SenderFits' /\ UnitsFit'
<1>1. /\ queue' \in Seq(UnitSet) /\ Len(queue') = Len(queue) + 1 /\ queue' # <<>>
      /\ \A k \in DOMAIN queue : queue'[k] = queue[k]
      /\ queue'[Len(queue) + 1] = [by |-> by, legs |-> legs]
      /\ queue # <<>> => sender' = sender
      /\ queue = <<>> => /\ sender'.pc \in {"sponsoring", "numbering"} /\ sender'.leg = 1
  BY QueuesMake DEF Shape
<1>2. /\ DOMAIN queue' = DOMAIN queue \cup {Len(queue) + 1} /\ Len(queue) \in Nat
      /\ Len(queue) + 1 \notin DOMAIN queue /\ \A k \in DOMAIN queue : queue[k] \in UnitSet
      /\ queue # <<>> => 1 \in DOMAIN queue /\ Unit = queue[1]
      /\ queue = <<>> => Len(queue) = 0
      /\ Unit' = queue'[1]
  BY <1>1, Sequences DEF Shape, Unit
<1>3. ASSUME NEW k \in DOMAIN queue', NEW u, u = queue'[k]
      PROVE  UnitOK(u)'
  <2>1. CASE k \in DOMAIN queue
    <3>1. u = queue[k] /\ u \in UnitSet /\ UnitOK(u) /\ u.by # by
      BY <1>1, <1>2, <1>3, <2>1 DEF Shape, UnitsFit
    <3> QED BY <3>1, UnitKept
  <2>2. CASE k = Len(queue) + 1
    BY <1>1, <1>3, <2>2
  <2> QED BY <1>2, <2>1, <2>2
<1>7. \A k \in DOMAIN queue' : UnitOK(queue[k])'
  BY <1>3 DEF UnitOK
<1>4. UnitsFit'
  BY <1>1, <1>2, <1>7 DEF Shape, UnitsFit
<1>5. CASE queue = <<>>
  <2>1. Unit' = [by |-> by, legs |-> legs] /\ 1 \in 1..Len(legs)
    BY <1>1, <1>2, <1>5 DEF UnitOK
  <2> QED BY <1>1, <1>4, <1>5, <2>1 DEF SenderFits
<1>6. CASE queue # <<>>
  <2>1. Unit' = Unit /\ sender' = sender
    BY <1>1, <1>2, <1>6
  <2> QED BY <1>1, <1>4, <1>6, <2>1 DEF Shape, SenderFits, Leg
<1> QED BY <1>5, <1>6

(* The unit at the head is thrown away, and with it its return. *)
LEMMA ThrowsKeep ==
  ASSUME Shape, queue # <<>>, Throws, written \subseteq written'
  PROVE  /\ SenderFits' /\ UnitsFit' /\ LockFits'
         /\ queue' \in Seq(UnitSet) /\ sender' \in SenderSet
         /\ ret' \in [Returns -> RetSet] /\ turns' \in Seq(Returns)
         /\ \A q \in Returns : q # Unit.by => ret'[q] = ret[q]
         /\ Unit.by \in Returns => ret'[Unit.by] = [ret[Unit.by] EXCEPT !.pc = "over"]
<1>1. CASE Unit.by \in Returns
  <2>1. ret[Unit.by].pc \in Working /\ ret[Unit.by] \in RetSet /\ Leaves(Unit.by, ret[Unit.by])
    BY <1>1, UnitShape DEF Shape, Throws, Typed
  <2>2. /\ ret' \in [Returns -> RetSet] /\ ret'[Unit.by] = [ret[Unit.by] EXCEPT !.pc = "over"]
        /\ \A q \in Returns \ {Unit.by} : ret'[q] = ret[q]
        /\ turns' \in Seq(Returns) /\ LockFits'
    BY <1>1, <2>1, LeavesMake DEF Shape
  <2> QED BY <1>1, <2>2, DequeuesKeep, DequeuesMake DEF Throws, Shape
<1>2. CASE Unit.by \notin Returns
  <2>1. ret' = ret /\ turns' = turns
    BY <1>2 DEF Throws
  <2>2. LockFits'
    BY <2>1 DEF Shape, LockFits
  <2> QED BY <1>2, <2>1, <2>2, DequeuesKeep, DequeuesMake DEF Throws, Shape, Typed
<1> QED BY <1>1, <1>2

(* The variables no step of the sender or of a return gives another type. *)
OthersTyped ==
  /\ setup' \in Setups /\ free' \in Nat /\ held' \in Nat /\ troubles' \in 0..MaxTroubles
  /\ lastNonce' \in Nat \cup {NoNonce} /\ written' \subseteq Writes /\ written \subseteq written'

LEMMA OthersStay ==
  ASSUME Typed, WalletNext
  PROVE  OthersTyped
  BY OtherTypes DEF OthersTyped, Typed

LEMMA TxMakes ==
  ASSUME Shape, queue # <<>>, NEW n \in Nat \cup {NoNonce}, NEW left \in BOOLEAN
  PROVE  /\ Tx(n, left) \in TxSet
         /\ Append(txs, Tx(n, left)) \in Seq(TxSet)
         /\ Len(Append(txs, Tx(n, left))) = Len(txs) + 1
         /\ \A i \in DOMAIN txs : Append(txs, Tx(n, left))[i] = txs[i]
         /\ Append(txs, Tx(n, left))[Len(txs) + 1] = Tx(n, left)
         /\ DOMAIN Append(txs, Tx(n, left)) = DOMAIN txs \cup {Len(txs) + 1}
         /\ Len(txs) + 1 \notin DOMAIN txs
<1>1. Unit \in UnitSet /\ Leg \in LegSet /\ Leg = Unit.legs[sender.leg]
  BY UnitShape DEF Shape
<1>2. /\ Unit.by \in Returns \cup Writes /\ Leg.amount \in Nat /\ Leg.seen \in Nat
      /\ Leg.kind \in {"withdraw", "transfer", "approve", "deposit", "order"}
  BY <1>1 DEF UnitSet, LegSet
<1>3. Tx(n, left) \in TxSet
  BY <1>1, <1>2 DEF Tx, TxSet
<1>4. txs \in Seq(TxSet) /\ DOMAIN txs = 1..Len(txs) /\ Len(txs) \in Nat
  BY Sequences DEF Shape, Typed
<1> QED BY <1>3, <1>4

LEMMA TurnsShape ==
  ASSUME Shape, OthersTyped, Turns
  PROVE  Shape'
<1>1. /\ sender \in SenderSet /\ queue # <<>>
      /\ UNCHANGED <<txs, queue, ret, turns, written>>
  BY DEF Shape, Typed, SenderFits, Turns, Rest
<1>2. /\ sender' \in SenderSet /\ sender'.leg = sender.leg
      /\ sender'.pc \in {"again", "numbering", "signing"}
  BY <1>1 DEF Turns, SenderSet
<1>3. Typed'
  BY <1>1, <1>2 DEF Shape, Typed, OthersTyped
<1>4. SenderFits'
  BY <1>1, <1>2 DEF Shape, SenderFits, Unit
<1>5. UnitsFit' /\ LockFits'
  BY <1>1 DEF Shape, UnitsFit, UnitOK, LockFits
<1> QED BY <1>3, <1>4, <1>5 DEF Shape

LEMMA HandsOverShape ==
  ASSUME Shape, OthersTyped, NEW n \in Nat \cup {NoNonce}, HandsOver(n)
  PROVE  Shape'
<1>1. /\ sender \in SenderSet /\ queue # <<>> /\ txs' = Append(txs, Tx(n, FALSE))
      /\ sender' = [sender EXCEPT !.pc = "following", !.tx = Len(txs) + 1]
      /\ UNCHANGED <<queue, ret, turns, written>>
  BY DEF Shape, Typed, SenderFits, HandsOver, Ready, Rest
<1>2. /\ txs' \in Seq(TxSet) /\ Len(txs) + 1 \in DOMAIN txs' /\ txs'[Len(txs) + 1] = Tx(n, FALSE)
      /\ Len(txs) \in Nat
  BY <1>1, TxMakes, Sequences DEF Shape
<1>3. /\ sender' \in SenderSet /\ sender'.leg = sender.leg
      /\ sender'.pc = "following" /\ sender'.tx = Len(txs) + 1
  <2> DEFINE m == Len(txs) + 1
  <2>1. m \in Nat /\ sender' = [sender EXCEPT !.pc = "following", !.tx = m]
    BY <1>1, <1>2
  <2> HIDE DEF m
  <2>2. /\ sender' \in SenderSet /\ sender'.leg = sender.leg
        /\ sender'.pc = "following" /\ sender'.tx = m
    BY <1>1, <2>1 DEF SenderSet
  <2> QED BY <2>2 DEF m
<1>4. Typed'
  BY <1>1, <1>2, <1>3 DEF Shape, Typed, OthersTyped
<1>5. SenderFits'
  <2>1. Unit' = Unit /\ Leg' = Leg
    BY <1>1, <1>3 DEF Unit, Leg
  <2>2. /\ Tx(n, FALSE).by = Unit.by /\ Tx(n, FALSE).kind = Leg.kind /\ Tx(n, FALSE).amount = Leg.amount
        /\ Tx(n, FALSE).seen = Leg.seen /\ ~Tx(n, FALSE).left
    BY DEF Tx, Leg
  <2> QED BY <1>1, <1>2, <1>3, <2>1, <2>2 DEF Shape, SenderFits
<1>6. UnitsFit' /\ LockFits'
  BY <1>1 DEF Shape, UnitsFit, UnitOK, LockFits
<1> QED BY <1>4, <1>5, <1>6 DEF Shape

LEMMA ThrowsShape ==
  ASSUME Shape, OthersTyped, queue # <<>>, Throws, written' = written, txs' \in Seq(TxSet)
  PROVE  Shape'
<1>1. /\ SenderFits' /\ UnitsFit' /\ LockFits'
      /\ queue' \in Seq(UnitSet) /\ sender' \in SenderSet
      /\ ret' \in [Returns -> RetSet] /\ turns' \in Seq(Returns)
  BY ThrowsKeep
<1>2. Typed'
  BY <1>1 DEF Shape, Typed, OthersTyped
<1> QED BY <1>1, <1>2 DEF Shape

LEMMA LeavingMakes ==
  ASSUME Shape, sender.pc = "following", txs' = [txs EXCEPT ![sender.tx].left = TRUE]
  PROVE  /\ txs' \in Seq(TxSet) /\ Len(txs') = Len(txs) /\ DOMAIN txs' = DOMAIN txs
         /\ \A i \in DOMAIN txs : i # sender.tx => txs'[i] = txs[i]
         /\ txs'[sender.tx] = [txs[sender.tx] EXCEPT !.left = TRUE]
<1>1. txs \in Seq(TxSet) /\ sender.tx \in DOMAIN txs /\ txs[sender.tx] \in TxSet
  BY Sequences DEF Shape, Typed, SenderFits
<1> DEFINE t == [txs[sender.tx] EXCEPT !.left = TRUE]
<1>2. t \in TxSet
  BY <1>1 DEF TxSet
<1>3. txs' = [txs EXCEPT ![sender.tx] = t]
  OBVIOUS
<1> HIDE DEF t
<1>4. txs' \in Seq(TxSet) /\ Len(txs') = Len(txs) /\ DOMAIN txs' = DOMAIN txs
  BY <1>1, <1>2, <1>3
<1>5. txs'[sender.tx] = t /\ \A i \in DOMAIN txs : i # sender.tx => txs'[i] = txs[i]
  BY <1>1, <1>3
<1> QED BY <1>4, <1>5 DEF t

LEMMA ThrowingShape ==
  ASSUME Shape, OthersTyped, (\E n \in Nat \cup {NoNonce} : Mislays(n)) \/ Fails \/ Leaving
  PROVE  Shape' /\ queue # <<>>
<1>1. queue # <<>> /\ Throws /\ written' = written
  BY DEF Shape, SenderFits, Mislays, Fails, Leaving, Ready, Rest
<1>2. txs' \in Seq(TxSet)
  <2>1. CASE \E n \in Nat \cup {NoNonce} : Mislays(n)
    BY <1>1, <2>1, TxMakes DEF Mislays
  <2>2. CASE Fails
    BY <2>2 DEF Fails, Shape, Typed
  <2>3. CASE Leaving
    BY <2>3, LeavingMakes DEF Leaving
  <2> QED BY <2>1, <2>2, <2>3
<1> QED BY <1>1, <1>2, ThrowsShape

LEMMA NextLegShape ==
  ASSUME Shape, OthersTyped, NextLeg
  PROVE  Shape'
<1>1. /\ sender \in SenderSet /\ queue # <<>> /\ Unit \in UnitSet /\ sender.leg \in 1..Len(Unit.legs)
      /\ Len(Unit.legs) \in Nat
      /\ sender' = [Quiet EXCEPT !.pc = Entry, !.leg = sender.leg + 1] /\ sender.leg < Len(Unit.legs)
      /\ UNCHANGED <<txs, queue, ret, turns, written>>
  BY Sequences DEF Shape, Typed, SenderFits, NextLeg, Rest, UnitSet
<1>2. /\ sender' \in SenderSet /\ sender'.leg = sender.leg + 1
      /\ sender'.pc \in {"sponsoring", "numbering"}
  <2>1. Quiet \in SenderSet /\ Entry \in {"sponsoring", "numbering"} /\ sender.leg + 1 \in Nat
    BY <1>1, Values DEF Shape
  <2> QED BY <1>1, <2>1 DEF SenderSet
<1>3. Typed'
  BY <1>1, <1>2 DEF Shape, Typed, OthersTyped
<1>4. SenderFits'
  BY <1>1, <1>2 DEF SenderFits, Unit
<1>5. UnitsFit' /\ LockFits'
  BY <1>1 DEF Shape, UnitsFit, UnitOK, LockFits
<1> QED BY <1>3, <1>4, <1>5 DEF Shape

(* The unit's caller has its receipt. *)
LEMMA ReceivesMake ==
  ASSUME Shape, queue # <<>>, NEW done \in BOOLEAN, Receives(done)
  PROVE  /\ ret' \in [Returns -> RetSet] /\ turns' \in Seq(Returns) /\ LockFits'
         /\ \A q \in Returns : q # Unit.by => ret'[q] = ret[q]
         /\ Unit.by \in Returns /\ Leg.kind = "withdraw" =>
              ret'[Unit.by] = [ret[Unit.by] EXCEPT !.pc = "reading",
                                                   !.withdrawn = IF done THEN "done" ELSE "reverted"]
         /\ Unit.by \in Returns /\ Leg.kind = "transfer" =>
              /\ ret[Unit.by] \in RetSet
              /\ ret'[Unit.by] = [[ret[Unit.by] EXCEPT !.returned = IF done THEN "done" ELSE "reverted"]
                                  EXCEPT !.pc = "over"]
<1> DEFINE word == IF done THEN "done" ELSE "reverted"
<1>1. word \in {"none", "done", "reverted"} /\ ret \in [Returns -> RetSet] /\ turns \in Seq(Returns)
  BY DEF Shape, Typed
<1>2. /\ Unit.by \in Returns => Leg.kind \in {"withdraw", "transfer"} /\ ret[Unit.by].pc \in Working
      /\ ret[Unit.by] \in RetSet \/ Unit.by \notin Returns
  BY <1>1, UnitShape DEF Shape
<1>3. CASE Unit.by \in Returns /\ Leg.kind = "withdraw"
  <2> DEFINE o == [ret[Unit.by] EXCEPT !.pc = "reading", !.withdrawn = word]
  <2>1. ret' = [ret EXCEPT ![Unit.by] = o] /\ turns' = turns
    BY <1>3 DEF Receives
  <2>2. o \in RetSet /\ o.pc = "reading"
    BY <1>1, <1>2, <1>3 DEF RetSet
  <2> HIDE DEF o
  <2>3. ret' \in [Returns -> RetSet] /\ ret'[Unit.by] = o /\ \A q \in Returns : q # Unit.by => ret'[q] = ret[q]
    BY <1>1, <1>3, <2>1, <2>2
  <2>4. LockFits'
    BY <1>2, <1>3, <2>1, <2>2, <2>3 DEF Shape, LockFits, Working
  <2> QED BY <1>1, <1>3, <2>1, <2>3, <2>4 DEF o
<1>4. CASE Unit.by \in Returns /\ Leg.kind = "transfer"
  <2> DEFINE o == [ret[Unit.by] EXCEPT !.returned = word]
  <2>1. Leaves(Unit.by, o)
    BY <1>4 DEF Receives
  <2>2. o \in RetSet
    BY <1>1, <1>2, <1>4 DEF RetSet
  <2> HIDE DEF o
  <2>3. /\ ret' \in [Returns -> RetSet] /\ ret'[Unit.by] = [o EXCEPT !.pc = "over"]
        /\ \A q \in Returns \ {Unit.by} : ret'[q] = ret[q]
        /\ turns' \in Seq(Returns) /\ LockFits'
    BY <1>2, <1>4, <2>1, <2>2, LeavesMake DEF Shape
  <2> QED BY <1>2, <1>4, <2>3 DEF o
<1>5. CASE Unit.by \notin Returns
  <2>1. ret' = ret /\ turns' = turns
    BY <1>5 DEF Receives
  <2> QED BY <1>1, <1>5, <2>1 DEF Shape, LockFits
<1> QED BY <1>2, <1>3, <1>4, <1>5

LEMMA EndsShape ==
  ASSUME Shape, OthersTyped, Ends
  PROVE  Shape' /\ queue # <<>>
<1>1. queue # <<>> /\ Dequeues /\ Receives(Success(sender.tx)) /\ txs' = txs /\ written' = written
  BY DEF Shape, SenderFits, Ends, Rest
<1>2. Success(sender.tx) \in BOOLEAN
  BY DEF Success
<1>3. /\ ret' \in [Returns -> RetSet] /\ turns' \in Seq(Returns) /\ LockFits'
      /\ \A q \in Returns : q # Unit.by => ret'[q] = ret[q]
  BY <1>1, <1>2, ReceivesMake
<1>4. SenderFits' /\ UnitsFit'
  BY <1>1, <1>3, DequeuesKeep
<1>5. Typed'
  BY <1>1, <1>3, DequeuesMake DEF Shape, Typed, OthersTyped
<1> QED BY <1>1, <1>3, <1>4, <1>5 DEF Shape

(* One return goes to another point; the units of the queue are not its. *)
LEMMA ReturnMoves ==
  ASSUME Shape, NEW r \in Returns, NEW o \in RetSet, ret' = [ret EXCEPT ![r] = o],
         ret[r].pc \notin {"withdrawing", "transferring"}
  PROVE  /\ ret' \in [Returns -> RetSet] /\ ret'[r] = o /\ \A q \in Returns : q # r => ret'[q] = ret[q]
         /\ \A k \in DOMAIN queue : queue[k].by # r
<1>1. ret \in [Returns -> RetSet]
  BY DEF Shape, Typed
<1>2. \A k \in DOMAIN queue : queue[k].by # r
  BY WalletAssumption DEF Shape, Typed, UnitsFit, UnitOK
<1> QED BY <1>1, <1>2

LEMMA UnitsStand ==
  ASSUME Shape, UNCHANGED <<queue, sender, txs>>, written \subseteq written', NEW r \in Returns,
         \A q \in Returns : q # r => ret'[q] = ret[q], \A k \in DOMAIN queue : queue[k].by # r
  PROVE  SenderFits' /\ UnitsFit'
<1>1. ASSUME NEW k \in DOMAIN queue, NEW u, u = queue[k]
      PROVE  UnitOK(u)'
  BY <1>1, UnitKept, Sequences DEF Shape, UnitsFit
<1>2. \A k \in DOMAIN queue : UnitOK(queue[k])'
  BY <1>1 DEF UnitOK
<1> QED BY <1>2 DEF Shape, SenderFits, UnitsFit, Unit, Leg

LEMMA AsksForShape ==
  ASSUME Shape, OthersTyped, NEW r \in Returns, NEW limit \in {Everything, 1}, AsksFor(r, limit)
  PROVE  /\ Shape' /\ ret'[r] = [NoReturn EXCEPT !.pc = "waiting", !.limit = limit]
         /\ \A q \in Returns : q # r => ret'[q] = ret[q]
         /\ \A k \in DOMAIN queue : queue[k].by # r
<1> DEFINE o == [NoReturn EXCEPT !.pc = "waiting", !.limit = limit]
<1>1. o \in RetSet /\ o.pc = "waiting"
  BY Values DEF Shape, RetSet, NoReturn
<1>2. /\ ret' = [ret EXCEPT ![r] = o] /\ ret[r].pc = "idle" /\ turns' = Append(turns, r)
      /\ UNCHANGED <<txs, queue, sender, written>>
  BY DEF AsksFor
<1> HIDE DEF o
<1>3. /\ ret' \in [Returns -> RetSet] /\ ret'[r] = o /\ \A q \in Returns : q # r => ret'[q] = ret[q]
      /\ \A k \in DOMAIN queue : queue[k].by # r
  BY <1>1, <1>2, ReturnMoves
<1>4. SenderFits' /\ UnitsFit'
  BY <1>2, <1>3, UnitsStand
<1>5. /\ turns' \in Seq(Returns) /\ Len(turns) + 1 \in DOMAIN turns' /\ turns'[Len(turns) + 1] = r
      /\ \A k \in DOMAIN turns : k \in DOMAIN turns' /\ turns'[k] = turns[k]
      /\ Len(turns) \in Nat /\ DOMAIN turns = 1..Len(turns)
  BY <1>2 DEF Shape, Typed
<1>6. ASSUME NEW q \in Returns
      PROVE  /\ ret'[q].pc \notin {"idle", "over", "cut"} => \E k \in DOMAIN turns' : turns'[k] = q
             /\ ret'[q].pc \in Working => turns'[1] = q
  <2>1. CASE q = r
    BY <1>1, <1>3, <1>5, <2>1 DEF Working
  <2>2. CASE q # r
    <3>1. ret'[q] = ret[q]
      BY <1>3, <2>2
    <3>2. ret[q].pc \in Working => 1 \in DOMAIN turns /\ turns[1] = q
      BY <1>5 DEF Shape, LockFits, Working
    <3> QED BY <1>5, <3>1, <3>2 DEF Shape, LockFits
  <2> QED BY <2>1, <2>2
<1>7. LockFits'
  BY <1>6 DEF LockFits
<1>8. Typed'
  BY <1>2, <1>3, <1>5 DEF Shape, Typed, OthersTyped
<1> QED BY <1>3, <1>4, <1>7, <1>8 DEF Shape, o

LEMMA LandedTyped ==
  ASSUME Typed
  PROVE  Landed \in Nat
<1>1. DOMAIN txs = 1..Len(txs) /\ Len(txs) \in Nat
  BY Sequences
<1>2. IsFiniteSet(1..Len(txs))
  BY <1>1, FS_Interval
<1>3. IsFiniteSet({i \in DOMAIN txs : txs[i].state \notin {"pending", "dropped"}})
  BY <1>1, <1>2, FS_Subset
<1> QED BY <1>3, FS_CardinalityType DEF Landed

LEMMA ReadsFreeShape ==
  ASSUME Shape, OthersTyped, NEW r \in Returns, ReadsFree(r)
  PROVE  /\ Shape' /\ ret'[r] = [ret[r] EXCEPT !.pc = "free", !.free = free, !.seen = Landed]
         /\ \A q \in Returns : q # r => ret'[q] = ret[q]
         /\ \A k \in DOMAIN queue : queue[k].by # r
<1> DEFINE m == Landed
           o == [ret[r] EXCEPT !.pc = "free", !.free = free, !.seen = m]
<1>1. /\ ret' = [ret EXCEPT ![r] = o] /\ ret[r].pc = "waiting" /\ turns[1] = r
      /\ UNCHANGED <<txs, queue, sender, written, turns>>
  BY DEF ReadsFree, MayStart
<1>2. m \in Nat /\ free \in Nat /\ ret[r] \in RetSet
  BY LandedTyped DEF Shape, Typed
<1> HIDE DEF m
<1>3. o \in RetSet /\ o.pc = "free"
  BY <1>2 DEF RetSet
<1> HIDE DEF o
<1>4. /\ ret' \in [Returns -> RetSet] /\ ret'[r] = o /\ \A q \in Returns : q # r => ret'[q] = ret[q]
      /\ \A k \in DOMAIN queue : queue[k].by # r
  BY <1>1, <1>3, ReturnMoves
<1>5. SenderFits' /\ UnitsFit'
  BY <1>1, <1>4, UnitsStand
<1>6. LockFits'
  <2>1. \E k \in DOMAIN turns : turns[k] = r
    BY <1>1 DEF Shape, LockFits
  <2> QED BY <1>1, <1>3, <1>4, <2>1 DEF Shape, LockFits
<1>7. Typed'
  BY <1>1, <1>4 DEF Shape, Typed, OthersTyped
<1> QED BY <1>4, <1>5, <1>6, <1>7 DEF Shape, o, m

(* What is planned. *)
LEMMA PlanTyped ==
  ASSUME Typed, NEW r \in Returns, NEW h \in Nat
  PROVE  /\ WithdrawOf(r, h) \in Nat /\ TransferOf(r, h) \in Nat
         /\ WithdrawOf(r, h) <= ret[r].free
<1>1. ret[r] \in RetSet
  BY DEF Typed
<1>2. ret[r].free \in Nat /\ ret[r].limit \in {Everything, 1}
  BY <1>1 DEF RetSet
<1>3. Budget(r, h) \in Nat
  BY <1>2 DEF Budget
<1>4. WithdrawOf(r, h) \in Nat /\ WithdrawOf(r, h) <= ret[r].free
  BY <1>2, <1>3 DEF WithdrawOf, Least, Most
<1>5. TransferOf(r, h) \in Nat
  BY <1>3, <1>4 DEF TransferOf, Least
<1> QED BY <1>4, <1>5

PlanOf(r) == [ret[r] EXCEPT !.held = held, !.withdraw = WithdrawOf(r, held),
                            !.transfer = TransferOf(r, held)]

LEMMA PlanMakes ==
  ASSUME Typed, NEW r \in Returns, NEW pc \in {"withdrawing", "reading", "over"}
  PROVE  LET o == [PlanOf(r) EXCEPT !.pc = pc]
         IN /\ PlanOf(r) \in RetSet /\ o \in RetSet /\ o.pc = pc
            /\ o.held = held /\ o.withdraw = WithdrawOf(r, held) /\ o.transfer = TransferOf(r, held)
            /\ o.free = ret[r].free /\ o.limit = ret[r].limit /\ o.seen = ret[r].seen
            /\ o.withdrawn = ret[r].withdrawn /\ o.returned = ret[r].returned
<1> DEFINE w == WithdrawOf(r, held)
           t == TransferOf(r, held)
           p == [ret[r] EXCEPT !.held = held, !.withdraw = w, !.transfer = t]
<1>1. w \in Nat /\ t \in Nat /\ held \in Nat /\ ret[r] \in RetSet
  BY PlanTyped DEF Typed
<1> HIDE DEF w, t
<1>2. /\ p \in RetSet /\ p.held = held /\ p.withdraw = w /\ p.transfer = t
      /\ p.free = ret[r].free /\ p.limit = ret[r].limit /\ p.seen = ret[r].seen
      /\ p.withdrawn = ret[r].withdrawn /\ p.returned = ret[r].returned
  BY <1>1 DEF RetSet
<1> HIDE DEF p
<1>3. LET o == [p EXCEPT !.pc = pc]
      IN /\ o \in RetSet /\ o.pc = pc
         /\ o.held = p.held /\ o.withdraw = p.withdraw /\ o.transfer = p.transfer
         /\ o.free = p.free /\ o.limit = p.limit /\ o.seen = p.seen
         /\ o.withdrawn = p.withdrawn /\ o.returned = p.returned
  BY <1>2 DEF RetSet
<1>4. p = PlanOf(r)
  BY DEF p, PlanOf, w, t
<1> QED BY <1>2, <1>3, <1>4 DEF w, t

(* A return hands a leg to the queue. *)
LEMMA ReturnQueues ==
  ASSUME Shape, OthersTyped, NEW r \in Returns, NEW o \in RetSet, ret' = [ret EXCEPT ![r] = o],
         NEW leg \in LegSet, Queues(r, <<leg>>), turns' = turns, txs' = txs, written' = written,
         ret[r].pc \in {"free", "reading"},
         \/ /\ leg.kind = "withdraw" /\ o.pc = "withdrawing" /\ leg.amount = o.withdraw /\ leg.seen = o.seen
         \/ /\ leg.kind = "transfer" /\ o.pc = "transferring" /\ leg.amount <= o.transfer
  PROVE  /\ Shape' /\ ret'[r] = o /\ \A q \in Returns : q # r => ret'[q] = ret[q]
         /\ \A k \in DOMAIN queue : queue[k].by # r
<1>1. /\ ret' \in [Returns -> RetSet] /\ ret'[r] = o /\ \A q \in Returns : q # r => ret'[q] = ret[q]
      /\ \A k \in DOMAIN queue : queue[k].by # r
  BY ReturnMoves
<1>2. <<leg>> \in Seq(LegSet) /\ Len(<<leg>>) = 1 /\ <<leg>>[1] = leg
  OBVIOUS
<1>3. ASSUME NEW u, u = [by |-> r, legs |-> <<leg>>]
      PROVE  UnitOK(u)'
  <2>1. u.by = r /\ u.legs[1] = leg /\ Len(u.legs) = 1
    BY <1>2, <1>3
  <2> QED BY <1>1, <2>1 DEF UnitOK
<1>4. UnitOK([by |-> r, legs |-> <<leg>>])'
  BY <1>3
<1>5. SenderFits' /\ UnitsFit'
  BY <1>1, <1>2, <1>4, QueuesKeep
<1>6. queue' \in Seq(UnitSet) /\ sender' \in SenderSet
  BY <1>2, QueuesMake DEF Shape
<1>7. Typed'
  BY <1>1, <1>6 DEF Shape, Typed, OthersTyped
<1>8. LockFits'
  <2>1. turns[1] = r /\ \E k \in DOMAIN turns : turns[k] = r
    BY DEF Shape, LockFits, Working
  <2> QED BY <1>1, <2>1 DEF Shape, LockFits
<1> QED BY <1>1, <1>5, <1>7, <1>8 DEF Shape

(* A return leaves, with nothing in the queue. *)
LEMMA ReturnLeaves ==
  ASSUME Shape, OthersTyped, NEW r \in Returns, NEW o \in RetSet, Leaves(r, o),
         UNCHANGED <<txs, queue, sender, written>>, ret[r].pc \in {"free", "reading"}
  PROVE  /\ Shape' /\ ret'[r] = [o EXCEPT !.pc = "over"] /\ \A q \in Returns : q # r => ret'[q] = ret[q]
         /\ \A k \in DOMAIN queue : queue[k].by # r
<1>1. /\ ret' \in [Returns -> RetSet] /\ ret'[r] = [o EXCEPT !.pc = "over"]
      /\ \A q \in Returns \ {r} : ret'[q] = ret[q]
      /\ turns' \in Seq(Returns) /\ LockFits'
  BY LeavesMake DEF Shape, Working
<1>2. \A k \in DOMAIN queue : queue[k].by # r
  BY WalletAssumption DEF Shape, Typed, UnitsFit, UnitOK
<1>3. SenderFits' /\ UnitsFit'
  BY <1>1, <1>2, UnitsStand
<1>4. Typed'
  BY <1>1 DEF Shape, Typed, OthersTyped
<1> QED BY <1>1, <1>2, <1>3, <1>4 DEF Shape

LegOf(kind, amount, seen) == [kind |-> kind, amount |-> amount, seen |-> seen]

LEMMA PlansShape ==
  ASSUME Shape, OthersTyped, NEW r \in Returns, Plans(r)
  PROVE  /\ Shape' /\ txs' = txs /\ UNCHANGED <<free, held, written, setup>> /\ ret[r].pc = "free"
         /\ \A q \in Returns : q # r => ret'[q] = ret[q]
         /\ \A k \in DOMAIN queue : queue[k].by # r
         /\ \E pc \in {"withdrawing", "reading", "over"} : ret'[r] = [PlanOf(r) EXCEPT !.pc = pc]
         /\ \/ Queues(r, <<LegOf("withdraw", WithdrawOf(r, held), ret[r].seen)>>)
               /\ ret'[r].pc = "withdrawing"
            \/ UNCHANGED <<queue, sender>> /\ ret'[r].pc \in {"reading", "over"}
<1> DEFINE w == WithdrawOf(r, held)
<1>1. /\ ret[r].pc = "free" /\ UNCHANGED <<setup, free, held, txs, written>>
      /\ ret[r] \in RetSet /\ ret[r].seen \in Nat /\ w \in Nat /\ held \in Nat
  BY PlanTyped DEF Plans, Shape, Typed, RetSet
<1>2. CASE /\ ret' = [ret EXCEPT ![r] = [PlanOf(r) EXCEPT !.pc = "withdrawing"]]
           /\ Queues(r, <<LegOf("withdraw", w, ret[r].seen)>>) /\ turns' = turns
  <2> DEFINE o == [PlanOf(r) EXCEPT !.pc = "withdrawing"]
             leg == LegOf("withdraw", w, ret[r].seen)
  <2>1. o \in RetSet /\ o.pc = "withdrawing" /\ o.withdraw = w /\ o.seen = ret[r].seen
    BY PlanMakes DEF Shape
  <2>2. leg \in LegSet /\ leg.kind = "withdraw" /\ leg.amount = w /\ leg.seen = ret[r].seen
    BY <1>1 DEF LegSet, LegOf
  <2>3. ret' = [ret EXCEPT ![r] = o] /\ Queues(r, <<leg>>)
    BY <1>2
  <2> HIDE DEF o, leg
  <2>4. /\ Shape' /\ ret'[r] = o /\ \A q \in Returns : q # r => ret'[q] = ret[q]
        /\ \A k \in DOMAIN queue : queue[k].by # r
    <3>1. leg.amount = o.withdraw /\ leg.seen = o.seen /\ ret[r].pc \in {"free", "reading"}
      BY <1>1, <2>1, <2>2
    <3> HIDE DEF w
    <3>2. turns' = turns /\ txs' = txs /\ written' = written
      BY <1>1, <1>2
    <3> QED BY <2>1, <2>2, <2>3, <3>1, <3>2, ReturnQueues
  <2> QED BY <1>1, <1>2, <2>1, <2>4 DEF o
<1>3. CASE /\ ret' = [ret EXCEPT ![r] = [PlanOf(r) EXCEPT !.pc = "reading"]]
           /\ UNCHANGED <<queue, sender, turns>>
  <2> DEFINE o == [PlanOf(r) EXCEPT !.pc = "reading"]
  <2>1. o \in RetSet /\ o.pc = "reading"
    BY PlanMakes DEF Shape
  <2>2. ret' = [ret EXCEPT ![r] = o]
    BY <1>3
  <2> HIDE DEF o
  <2>3. /\ ret' \in [Returns -> RetSet] /\ ret'[r] = o /\ \A q \in Returns : q # r => ret'[q] = ret[q]
        /\ \A k \in DOMAIN queue : queue[k].by # r
    BY <1>1, <2>1, <2>2, ReturnMoves
  <2>4. SenderFits' /\ UnitsFit'
    BY <1>1, <1>3, <2>3, UnitsStand
  <2>5. turns[1] = r /\ \E k \in DOMAIN turns : turns[k] = r
    BY <1>1 DEF Shape, LockFits, Working
  <2>6. LockFits'
    BY <1>3, <2>1, <2>3, <2>5 DEF Shape, LockFits
  <2>7. Typed'
    BY <1>1, <1>3, <2>3 DEF Shape, Typed, OthersTyped
  <2> QED BY <1>1, <1>3, <2>1, <2>3, <2>4, <2>6, <2>7 DEF Shape, o
<1>4. CASE Leaves(r, PlanOf(r)) /\ UNCHANGED <<queue, sender>>
  <2>1. PlanOf(r) \in RetSet /\ [PlanOf(r) EXCEPT !.pc = "over"].pc = "over"
    BY PlanMakes DEF Shape
  <2>2. /\ Shape' /\ ret'[r] = [PlanOf(r) EXCEPT !.pc = "over"] /\ \A q \in Returns : q # r => ret'[q] = ret[q]
        /\ \A k \in DOMAIN queue : queue[k].by # r
    BY <1>1, <1>4, <2>1, ReturnLeaves
  <2> QED BY <1>1, <1>4, <2>1, <2>2
<1> QED BY <1>2, <1>3, <1>4 DEF Plans, PlanOf, LegOf

LEMMA SendsShape ==
  ASSUME Shape, OthersTyped, NEW r \in Returns, Sends(r)
  PROVE  /\ Shape' /\ txs' = txs /\ UNCHANGED <<free, held, written, setup>> /\ ret[r].pc = "reading"
         /\ \A q \in Returns : q # r => ret'[q] = ret[q]
         /\ \A k \in DOMAIN queue : queue[k].by # r
         /\ \E pc \in {"transferring", "over"} : ret'[r] = [ret[r] EXCEPT !.pc = pc]
         /\ \/ /\ Queues(r, <<LegOf("transfer", Least(held, ret[r].transfer), Landed)>>)
               /\ ret'[r].pc = "transferring"
            \/ UNCHANGED <<queue, sender>> /\ ret'[r].pc = "over"
<1> DEFINE s == Least(held, ret[r].transfer)
           m == Landed
<1>1. /\ ret[r].pc = "reading" /\ UNCHANGED <<setup, free, held, txs, written>>
      /\ ret[r] \in RetSet
  BY DEF Sends, Shape, Typed
<1>2. s \in Nat /\ s <= ret[r].transfer /\ m \in Nat
  <2>1. held \in Nat /\ ret[r].transfer \in Nat
    BY <1>1 DEF Shape, Typed, RetSet
  <2> QED BY <2>1, LandedTyped DEF Least, Shape
<1>3. CASE /\ ret' = [ret EXCEPT ![r].pc = "transferring"]
           /\ Queues(r, <<LegOf("transfer", s, m)>>) /\ turns' = turns
  <2> DEFINE o == [ret[r] EXCEPT !.pc = "transferring"]
             leg == LegOf("transfer", s, m)
  <2>1. o \in RetSet /\ o.pc = "transferring" /\ o.transfer = ret[r].transfer
    BY <1>1 DEF RetSet
  <2> HIDE DEF s, m
  <2>2. leg \in LegSet /\ leg.kind = "transfer" /\ leg.amount = s
    BY <1>2 DEF LegSet, LegOf
  <2>3. ret' = [ret EXCEPT ![r] = o] /\ Queues(r, <<leg>>)
    BY <1>3
  <2> HIDE DEF o, leg
  <2>4. /\ Shape' /\ ret'[r] = o /\ \A q \in Returns : q # r => ret'[q] = ret[q]
        /\ \A k \in DOMAIN queue : queue[k].by # r
    <3>1. leg.amount <= o.transfer
      BY <1>2, <2>1, <2>2
    <3> QED BY <1>1, <1>3, <2>1, <2>2, <2>3, <3>1, ReturnQueues
  <2> QED BY <1>1, <1>3, <2>1, <2>4 DEF o, s, m
<1>4. CASE Leaves(r, ret[r]) /\ UNCHANGED <<queue, sender>>
  <2>1. [ret[r] EXCEPT !.pc = "over"].pc = "over"
    BY <1>1 DEF RetSet
  <2>2. /\ Shape' /\ ret'[r] = [ret[r] EXCEPT !.pc = "over"] /\ \A q \in Returns : q # r => ret'[q] = ret[q]
        /\ \A k \in DOMAIN queue : queue[k].by # r
    BY <1>1, <1>4, ReturnLeaves
  <2> QED BY <1>1, <1>4, <2>1, <2>2
<1> QED BY <1>3, <1>4 DEF Sends, LegOf

LEMMA ListsShape ==
  ASSUME Typed, NEW legs \in Lists
  PROVE  /\ legs \in Seq(LegSet)
         /\ \A l \in DOMAIN legs : legs[l].seen = Landed
         /\ \/ Len(legs) = 2 /\ legs[1].kind = "approve" /\ legs[2].kind = "deposit"
            \/ Len(legs) = 1 /\ legs[1].kind = "order"
<1> DEFINE m == Landed
<1>1. m \in Nat
  BY LandedTyped
<1>2. legs \in {<<LegOf("approve", 1, m), LegOf("deposit", 1, m)>>, <<LegOf("order", 1, m)>>}
  BY DEF Lists, LegOf
<1> HIDE DEF m
<1>3. CASE legs = <<LegOf("approve", 1, m), LegOf("deposit", 1, m)>>
  <2>1. /\ LegOf("approve", 1, m) \in LegSet /\ LegOf("approve", 1, m).kind = "approve"
        /\ LegOf("approve", 1, m).seen = m
        /\ LegOf("deposit", 1, m) \in LegSet /\ LegOf("deposit", 1, m).kind = "deposit"
        /\ LegOf("deposit", 1, m).seen = m
    BY <1>1 DEF LegOf, LegSet
  <2>2. legs \in Seq(LegSet) /\ Len(legs) = 2 /\ DOMAIN legs = 1..2
        /\ legs[1] = LegOf("approve", 1, m) /\ legs[2] = LegOf("deposit", 1, m)
    BY <1>3, <2>1
  <2>3. \A l \in DOMAIN legs : legs[l].seen = m
    BY <2>1, <2>2
  <2> QED BY <2>1, <2>2, <2>3 DEF m
<1>4. CASE legs = <<LegOf("order", 1, m)>>
  <2>1. LegOf("order", 1, m) \in LegSet /\ LegOf("order", 1, m).kind = "order"
        /\ LegOf("order", 1, m).seen = m
    BY <1>1 DEF LegOf, LegSet
  <2>2. legs \in Seq(LegSet) /\ Len(legs) = 1 /\ DOMAIN legs = 1..1 /\ legs[1] = LegOf("order", 1, m)
    BY <1>4, <2>1
  <2>3. \A l \in DOMAIN legs : legs[l].seen = m
    BY <2>1, <2>2
  <2> QED BY <2>1, <2>2, <2>3 DEF m
<1> QED BY <1>2, <1>3, <1>4

LEMMA WritesToShape ==
  ASSUME Shape, OthersTyped, NEW w \in Writes, WritesTo(w)
  PROVE  /\ Shape' /\ w \notin written /\ ret' = ret /\ txs' = txs
         /\ UNCHANGED <<setup, free, held>>
         /\ \A k \in DOMAIN queue : queue[k].by # w
         /\ \E legs \in Lists : Queues(w, legs)
<1>1. PICK legs \in Lists : Queues(w, legs)
  BY DEF WritesTo
<1>2. /\ legs \in Seq(LegSet)
      /\ \/ Len(legs) = 2 /\ legs[1].kind = "approve" /\ legs[2].kind = "deposit"
         \/ Len(legs) = 1 /\ legs[1].kind = "order"
  BY ListsShape DEF Shape
<1>3. /\ w \notin written /\ written' = written \cup {w}
      /\ UNCHANGED <<setup, free, held, txs, turns, ret>>
  BY DEF WritesTo
<1>4. \A k \in DOMAIN queue : queue[k].by # w
  BY <1>3, WalletAssumption DEF Shape, UnitsFit, UnitOK
<1>5. ASSUME NEW u, u = [by |-> w, legs |-> legs]
      PROVE  UnitOK(u)'
  <2>1. u.by = w /\ u.legs = legs
    BY <1>5
  <2> QED BY <1>2, <1>3, <2>1 DEF UnitOK
<1>6. UnitOK([by |-> w, legs |-> legs])'
  BY <1>5
<1>7. SenderFits' /\ UnitsFit'
  BY <1>1, <1>2, <1>3, <1>4, <1>6, QueuesKeep
<1>8. Typed'
  BY <1>1, <1>2, <1>3, QueuesMake DEF Shape, Typed, OthersTyped
<1>9. LockFits'
  BY <1>3 DEF Shape, LockFits
<1> QED BY <1>1, <1>3, <1>4, <1>7, <1>8, <1>9 DEF Shape

(* Steps of the chain: one transaction changes. *)
LEMMA OneChanges ==
  ASSUME Typed, NEW i \in DOMAIN txs, NEW t \in TxSet, txs' = [txs EXCEPT ![i] = t]
  PROVE  /\ txs' \in Seq(TxSet) /\ Len(txs') = Len(txs) /\ DOMAIN txs' = DOMAIN txs
         /\ txs'[i] = t /\ \A j \in DOMAIN txs : j # i => txs'[j] = txs[j]
  BY DEF Typed

(* The sender, the queue and the returns see nothing of it. *)
LEMMA ChainShape ==
  ASSUME Shape, OthersTyped, UNCHANGED <<queue, sender, turns, ret, written>>,
         txs' \in Seq(TxSet), DOMAIN txs' = DOMAIN txs,
         \A j \in DOMAIN txs : /\ txs'[j].by = txs[j].by /\ txs'[j].kind = txs[j].kind
                               /\ txs'[j].amount = txs[j].amount /\ txs'[j].seen = txs[j].seen
                               /\ txs'[j].left = txs[j].left
  PROVE  Shape'
<1>1. Typed'
  BY DEF Shape, Typed, OthersTyped
<1>2. SenderFits'
  BY DEF Shape, SenderFits, Unit, Leg
<1>3. UnitsFit' /\ LockFits'
  BY DEF Shape, UnitsFit, UnitOK, LockFits
<1> QED BY <1>1, <1>2, <1>3 DEF Shape

LEMMA TxLandsMakes ==
  ASSUME Typed, NEW i \in DOMAIN txs, TxLands(i)
  PROVE  /\ txs' \in Seq(TxSet) /\ DOMAIN txs' = DOMAIN txs /\ Len(txs') = Len(txs)
         /\ \A j \in DOMAIN txs : j # i => txs'[j] = txs[j]
         /\ txs[i].state = "pending" /\ txs'[i].state \in {"done", "short", "reverted"}
         /\ txs'[i].at = Landed + 1
         /\ \A j \in DOMAIN txs : /\ txs'[j].by = txs[j].by /\ txs'[j].kind = txs[j].kind
                                  /\ txs'[j].amount = txs[j].amount /\ txs'[j].seen = txs[j].seen
                                  /\ txs'[j].left = txs[j].left /\ txs'[j].nonce = txs[j].nonce
<1> DEFINE m == Landed + 1
<1>1. PICK state \in {"done", "short", "reverted"} : txs' = [txs EXCEPT ![i] = [@ EXCEPT !.state = state, !.at = m]]
  BY DEF TxLands
<1>2. txs[i] \in TxSet /\ m \in Nat
  BY LandedTyped, Sequences
<1> HIDE DEF m
<1> DEFINE t == [txs[i] EXCEPT !.state = state, !.at = m]
<1>3. /\ t \in TxSet /\ t.state = state /\ t.at = m /\ t.by = txs[i].by /\ t.kind = txs[i].kind
      /\ t.amount = txs[i].amount /\ t.seen = txs[i].seen /\ t.left = txs[i].left
      /\ t.nonce = txs[i].nonce
  BY <1>2 DEF TxSet
<1>4. txs' = [txs EXCEPT ![i] = t]
  BY <1>1
<1> HIDE DEF t
<1>5. /\ txs' \in Seq(TxSet) /\ DOMAIN txs' = DOMAIN txs /\ Len(txs') = Len(txs)
      /\ txs'[i] = t /\ \A j \in DOMAIN txs : j # i => txs'[j] = txs[j]
  BY <1>3, <1>4, OneChanges
<1>6. txs[i].state = "pending"
  BY DEF TxLands
<1> QED BY <1>3, <1>5, <1>6 DEF m

LEMMA DropsMake ==
  ASSUME Typed, NEW i \in DOMAIN txs, Drops(i)
  PROVE  /\ txs' \in Seq(TxSet) /\ DOMAIN txs' = DOMAIN txs /\ Len(txs') = Len(txs)
         /\ \A j \in DOMAIN txs : j # i => txs'[j] = txs[j]
         /\ txs[i].state = "pending" /\ txs'[i].state = "dropped"
         /\ \A j \in DOMAIN txs : /\ txs'[j].by = txs[j].by /\ txs'[j].kind = txs[j].kind
                                  /\ txs'[j].amount = txs[j].amount /\ txs'[j].seen = txs[j].seen
                                  /\ txs'[j].left = txs[j].left /\ txs'[j].nonce = txs[j].nonce
                                  /\ txs'[j].at = txs[j].at
<1> DEFINE t == [txs[i] EXCEPT !.state = "dropped"]
<1>1. txs[i] \in TxSet
  BY Sequences
<1>2. /\ t \in TxSet /\ t.state = "dropped" /\ t.at = txs[i].at /\ t.by = txs[i].by /\ t.kind = txs[i].kind
      /\ t.amount = txs[i].amount /\ t.seen = txs[i].seen /\ t.left = txs[i].left
      /\ t.nonce = txs[i].nonce
  BY <1>1 DEF TxSet
<1>3. txs' = [txs EXCEPT ![i] = t] /\ txs[i].state = "pending"
  BY DEF Drops
<1> HIDE DEF t
<1>4. /\ txs' \in Seq(TxSet) /\ DOMAIN txs' = DOMAIN txs /\ Len(txs') = Len(txs)
      /\ txs'[i] = t /\ \A j \in DOMAIN txs : j # i => txs'[j] = txs[j]
  BY <1>2, <1>3, OneChanges
<1> QED BY <1>2, <1>3, <1>4

LEMMA TxLandsShape ==
  ASSUME Shape, OthersTyped, NEW i \in DOMAIN txs, TxLands(i)
  PROVE  Shape'
<1>1. UNCHANGED <<queue, sender, turns, ret, written>>
  BY DEF TxLands
<1> QED BY <1>1, TxLandsMakes, ChainShape DEF Shape

LEMMA DropsShape ==
  ASSUME Shape, OthersTyped, NEW i \in DOMAIN txs, Drops(i)
  PROVE  Shape'
<1>1. UNCHANGED <<queue, sender, turns, ret, written>>
  BY DEF Drops
<1> QED BY <1>1, DropsMake, ChainShape DEF Shape

LEMMA RestartsMake ==
  ASSUME Typed, WalletRestarts
  PROVE  /\ txs' \in Seq(TxSet) /\ DOMAIN txs' = DOMAIN txs /\ Len(txs') = Len(txs)
         /\ \A j \in DOMAIN txs : /\ txs'[j].by = txs[j].by /\ txs'[j].kind = txs[j].kind
                                  /\ txs'[j].amount = txs[j].amount /\ txs'[j].seen = txs[j].seen
                                  /\ txs'[j].left = TRUE /\ txs'[j].nonce = txs[j].nonce
                                  /\ txs'[j].at = txs[j].at /\ txs'[j].state = txs[j].state
         /\ ret' \in [Returns -> RetSet]
         /\ \A r \in Returns :
              /\ ret'[r].pc = IF ret[r].pc = "idle" THEN "idle" ELSE "cut"
              /\ ret'[r].limit = ret[r].limit /\ ret'[r].free = ret[r].free /\ ret'[r].held = ret[r].held
              /\ ret'[r].seen = ret[r].seen /\ ret'[r].withdraw = ret[r].withdraw
              /\ ret'[r].transfer = ret[r].transfer /\ ret'[r].withdrawn = ret[r].withdrawn
              /\ ret'[r].returned = ret[r].returned
<1>1. txs' = [i \in DOMAIN txs |-> [txs[i] EXCEPT !.left = TRUE]] /\ txs \in Seq(TxSet)
      /\ DOMAIN txs = 1..Len(txs) /\ Len(txs) \in Nat
  BY Sequences DEF WalletRestarts, Typed
<1>2. ASSUME NEW j \in DOMAIN txs
      PROVE  [txs[j] EXCEPT !.left = TRUE] \in TxSet
    BY Sequences DEF TxSet
<1>3. txs' \in [1..Len(txs) -> TxSet]
  BY <1>1, <1>2
<1>4. txs' \in Seq(TxSet) /\ Len(txs') = Len(txs) /\ DOMAIN txs' = DOMAIN txs
  BY <1>1, <1>3
<1>5. \A j \in DOMAIN txs : /\ txs'[j].by = txs[j].by /\ txs'[j].kind = txs[j].kind
                            /\ txs'[j].amount = txs[j].amount /\ txs'[j].seen = txs[j].seen
                            /\ txs'[j].left = TRUE /\ txs'[j].nonce = txs[j].nonce
                            /\ txs'[j].at = txs[j].at /\ txs'[j].state = txs[j].state
  BY <1>1, Sequences DEF TxSet
<1>6. ret' = [r \in Returns |-> IF ret[r].pc = "idle" THEN ret[r] ELSE [ret[r] EXCEPT !.pc = "cut"]]
      /\ \A r \in Returns : ret[r] \in RetSet
  BY DEF WalletRestarts, Typed
<1>7. ASSUME NEW r \in Returns, NEW o, o = ret'[r]
      PROVE  /\ o \in RetSet /\ o.pc = IF ret[r].pc = "idle" THEN "idle" ELSE "cut"
             /\ o.limit = ret[r].limit /\ o.free = ret[r].free /\ o.held = ret[r].held
             /\ o.seen = ret[r].seen /\ o.withdraw = ret[r].withdraw
             /\ o.transfer = ret[r].transfer /\ o.withdrawn = ret[r].withdrawn
             /\ o.returned = ret[r].returned
  <2>1. o = IF ret[r].pc = "idle" THEN ret[r] ELSE [ret[r] EXCEPT !.pc = "cut"]
    BY <1>6, <1>7
  <2> QED BY <1>6, <2>1 DEF RetSet
<1>8. ret' \in [Returns -> RetSet]
  BY <1>6, <1>7
<1> QED BY <1>4, <1>5, <1>7, <1>8

LEMMA RestartsShape ==
  ASSUME Shape, OthersTyped, WalletRestarts
  PROVE  Shape' /\ queue' = <<>> /\ sender'.pc = "idle"
<1>1. queue' = <<>> /\ sender' = Quiet /\ turns' = <<>> /\ written' = written
  BY DEF WalletRestarts
<1>2. queue' \in Seq(UnitSet) /\ turns' \in Seq(Returns) /\ DOMAIN queue' = {}
  BY <1>1
<1>3. Typed'
  BY <1>1, <1>2, RestartsMake, Values DEF Shape, Typed, OthersTyped
<1>4. SenderFits' /\ UnitsFit'
  BY <1>1, <1>2, Values DEF Shape, SenderFits, UnitsFit
<1>5. LockFits'
  BY RestartsMake DEF Shape, LockFits, Working
<1> QED BY <1>1, <1>3, <1>4, <1>5, Values DEF Shape

LEMMA ShapeHolds ==
  ASSUME Shape, WalletNext
  PROVE  Shape'
<1>1. Typed
  BY DEF Shape
<1>2. OthersTyped
  BY <1>1, OthersStay
<1> QED BY <1>1, <1>2, Steps, TurnsShape, HandsOverShape, ThrowingShape, NextLegShape, EndsShape,
       AsksForShape, ReadsFreeShape, PlansShape, SendsShape, WritesToShape, TxLandsShape, DropsShape,
       RestartsShape

-------------------------------------------------------------------------------
(* What a step that is not a landing leaves as it was: of what was sent only
   what was given up on, and what the mempool forgot, are news; at most one
   transaction is added, of the leg under way. *)
Steady ==
  /\ DOMAIN txs \subseteq DOMAIN txs'
  /\ \A i \in DOMAIN txs :
       /\ txs'[i].by = txs[i].by /\ txs'[i].kind = txs[i].kind /\ txs'[i].amount = txs[i].amount
       /\ txs'[i].seen = txs[i].seen /\ txs'[i].at = txs[i].at
       /\ txs[i].left => txs'[i].left
       /\ txs[i].state \in {"pending", "dropped"} => txs'[i].state \in {"pending", "dropped"}
       /\ txs[i].state \notin {"pending", "dropped"} => txs'[i].state = txs[i].state
  /\ \A i \in DOMAIN txs' : i \notin DOMAIN txs =>
       /\ i = Len(txs) + 1 /\ queue # <<>> /\ sender.pc \in {"sponsoring", "again", "signing"}
       /\ txs'[i].by = Unit.by /\ txs'[i].kind = Leg.kind /\ txs'[i].amount = Leg.amount
       /\ txs'[i].seen = Leg.seen /\ txs'[i].at = 0 /\ txs'[i].state = "pending"
  /\ setup' = setup /\ free' = free /\ held' = held

Same == txs' = txs /\ setup' = setup /\ free' = free /\ held' = held

LEMMA SameSteady ==
  ASSUME Same
  PROVE  Steady
  BY DEF Same, Steady

LEMMA AddSteady ==
  ASSUME Shape, NEW n \in Nat \cup {NoNonce}, NEW left \in BOOLEAN,
         Ready, txs' = Append(txs, Tx(n, left)), Rest
  PROVE  /\ Steady /\ Len(txs) + 1 \in DOMAIN txs' /\ txs'[Len(txs) + 1].left = left
         /\ \A i \in DOMAIN txs : txs'[i] = txs[i]
         /\ DOMAIN txs' = DOMAIN txs \cup {Len(txs) + 1} /\ Len(txs) + 1 \notin DOMAIN txs
         /\ txs'[Len(txs) + 1].by = Unit.by /\ txs'[Len(txs) + 1].kind = Leg.kind
         /\ txs'[Len(txs) + 1].nonce = n
<1>1. queue # <<>>
  BY DEF Shape, SenderFits, Ready
<1>2. /\ \A i \in DOMAIN txs : txs'[i] = txs[i]
      /\ txs'[Len(txs) + 1] = Tx(n, left)
      /\ DOMAIN txs' = DOMAIN txs \cup {Len(txs) + 1}
      /\ Len(txs) + 1 \notin DOMAIN txs
  BY <1>1, TxMakes
<1>3. /\ Tx(n, left).by = Unit.by /\ Tx(n, left).kind = Leg.kind /\ Tx(n, left).amount = Leg.amount
      /\ Tx(n, left).seen = Leg.seen /\ Tx(n, left).at = 0 /\ Tx(n, left).state = "pending"
      /\ Tx(n, left).left = left /\ Tx(n, left).nonce = n
  BY DEF Tx, Leg
<1> QED BY <1>1, <1>2, <1>3 DEF Steady, Rest, Ready

LEMMA LeavingSteady ==
  ASSUME Shape, Leaving
  PROVE  Steady /\ DOMAIN txs' = DOMAIN txs /\ txs'[sender.tx].left
         /\ \A i \in DOMAIN txs : i # sender.tx => txs'[i] = txs[i]
<1>1. /\ DOMAIN txs' = DOMAIN txs
      /\ \A i \in DOMAIN txs : i # sender.tx => txs'[i] = txs[i]
      /\ txs'[sender.tx] = [txs[sender.tx] EXCEPT !.left = TRUE]
      /\ sender.tx \in DOMAIN txs /\ txs[sender.tx] \in TxSet
  BY LeavingMakes, Sequences DEF Leaving, Shape, Typed, SenderFits
<1> DEFINE t == [txs[sender.tx] EXCEPT !.left = TRUE]
<1>2. /\ t.by = txs[sender.tx].by /\ t.kind = txs[sender.tx].kind /\ t.amount = txs[sender.tx].amount
      /\ t.seen = txs[sender.tx].seen /\ t.at = txs[sender.tx].at /\ t.left
      /\ t.state = txs[sender.tx].state
  BY <1>1 DEF TxSet
<1> HIDE DEF t
<1>3. txs'[sender.tx] = t
  BY <1>1 DEF t
<1> QED BY <1>1, <1>2, <1>3 DEF Steady, Leaving, Rest

LEMMA DropsSteady ==
  ASSUME Typed, NEW i \in DOMAIN txs, Drops(i)
  PROVE  Steady
  BY DropsMake DEF Steady, Drops

LEMMA RestartsSteady ==
  ASSUME Typed, WalletRestarts
  PROVE  Steady
<1>1. free' = free /\ held' = held /\ setup' = setup
  BY DEF WalletRestarts
<1> QED BY <1>1, RestartsMake DEF Steady

(* The landings are the same, and in the same order. *)
LEMMA SteadyLanded ==
  ASSUME Typed, Steady
  PROVE  Landed' = Landed
<1>1. {i \in DOMAIN txs' : txs'[i].state \notin {"pending", "dropped"}}
      = {i \in DOMAIN txs : txs[i].state \notin {"pending", "dropped"}}
  BY DEF Steady
<1> QED BY <1>1 DEF Landed

LEMMA SteadyThief ==
  ASSUME Steady, NEW s \in Nat, NEW u \in Nat, Thief(s, u)
  PROVE  Thief(s, u)'
  BY DEF Steady, Thief

LEMMA SteadyShort ==
  ASSUME Typed, Steady, ShortFits
  PROVE  ShortFits'
<1>1. ASSUME NEW i \in DOMAIN txs', NEW t, t = txs'[i], t.by \in Returns, t.state = "short", ~t.left
      PROVE  Thief(t.seen, t.at)'
  <2>1. /\ i \in DOMAIN txs /\ txs[i].by \in Returns /\ txs[i].state = "short" /\ ~txs[i].left
        /\ txs[i].seen = t.seen /\ txs[i].at = t.at /\ txs[i] \in TxSet
    BY <1>1, Sequences DEF Steady, TxSet
  <2>2. Thief(t.seen, t.at) /\ t.seen \in Nat /\ t.at \in Nat
    BY <2>1 DEF ShortFits, TxSet
  <2> QED BY <2>2, SteadyThief
<1> QED BY <1>1 DEF ShortFits, Thief

LEMMA SteadyWords ==
  ASSUME Steady, WordFits,
         \A r \in Returns :
           /\ ret'[r].withdrawn = ret[r].withdrawn \/ ret'[r].withdrawn = "none"
                \/ Became(r, "withdraw", ret'[r].withdrawn)
           /\ ret'[r].returned = ret[r].returned \/ ret'[r].returned = "none"
                \/ Became(r, "transfer", ret'[r].returned)
  PROVE  WordFits'
<1>1. ASSUME NEW r \in Returns, NEW kind, NEW word, Became(r, kind, word)
      PROVE  Became(r, kind, word)'
  BY <1>1 DEF Became, HasLanded, Steady
<1>2. ASSUME NEW r \in Returns, NEW w, w = ret'[r].withdrawn, w # "none"
      PROVE  Became(r, "withdraw", w)'
  <2>1. Became(r, "withdraw", w)
    BY <1>2 DEF WordFits
  <2> QED BY <1>1, <2>1
<1>3. ASSUME NEW r \in Returns, NEW w, w = ret'[r].returned, w # "none"
      PROVE  Became(r, "transfer", w)'
  <2>1. Became(r, "transfer", w)
    BY <1>3 DEF WordFits
  <2> QED BY <1>1, <2>1
<1> QED BY <1>2, <1>3 DEF WordFits, Became, HasLanded

(* The steps of the returns and the writes. *)
Asking == \/ \E r \in Returns : (\E limit \in {Everything, 1} : AsksFor(r, limit))
                                \/ ReadsFree(r) \/ Plans(r) \/ Sends(r)
          \/ \E w \in Writes : WritesTo(w)

(* Those of the sender that end a unit. *)
Ending == (\E n \in Nat \cup {NoNonce} : Mislays(n)) \/ Fails \/ Ends \/ Leaving

LEMMA AskingMakes ==
  ASSUME Shape, OthersTyped, Asking
  PROVE  /\ Same
         /\ \/ UNCHANGED <<queue, sender>>
            \/ \E by \in Returns \cup Writes, legs \in Seq(LegSet) :
                 Queues(by, legs) /\ \A k \in DOMAIN queue : queue[k].by # by
         /\ sender' # sender => queue = <<>> /\ sender.pc = "idle" /\ sender'.leg = 1
                                /\ sender'.pc \in {"sponsoring", "numbering"}
<1> DEFINE Joins == \E by \in Returns \cup Writes, legs \in Seq(LegSet) :
                      Queues(by, legs) /\ \A k \in DOMAIN queue : queue[k].by # by
<1>1. Same /\ (UNCHANGED <<queue, sender>> \/ Joins)
  <2>1. ASSUME NEW r \in Returns, NEW limit \in {Everything, 1}, AsksFor(r, limit)
        PROVE  Same /\ UNCHANGED <<queue, sender>>
    BY <2>1 DEF AsksFor, Same
  <2>2. ASSUME NEW r \in Returns, ReadsFree(r)
        PROVE  Same /\ UNCHANGED <<queue, sender>>
    BY <2>2 DEF ReadsFree, Same
  <2>3. ASSUME NEW r \in Returns, Plans(r)
        PROVE  Same /\ (UNCHANGED <<queue, sender>> \/ Joins)
    <3>1. WithdrawOf(r, held) \in Nat /\ ret[r].seen \in Nat
      BY PlanTyped DEF Shape, Typed, RetSet
    <3>2. LegOf("withdraw", WithdrawOf(r, held), ret[r].seen) \in LegSet
      BY <3>1 DEF LegOf, LegSet
    <3>3. <<LegOf("withdraw", WithdrawOf(r, held), ret[r].seen)>> \in Seq(LegSet)
      BY <3>2
    <3>4. /\ Same /\ \A k \in DOMAIN queue : queue[k].by # r
          /\ \/ Queues(r, <<LegOf("withdraw", WithdrawOf(r, held), ret[r].seen)>>)
             \/ UNCHANGED <<queue, sender>>
      BY <2>3, PlansShape DEF Same
    <3> QED BY <3>3, <3>4
  <2>4. ASSUME NEW r \in Returns, Sends(r)
        PROVE  Same /\ (UNCHANGED <<queue, sender>> \/ Joins)
    <3>1. Least(held, ret[r].transfer) \in Nat /\ Landed \in Nat
      BY LandedTyped DEF Shape, Typed, RetSet, Least
    <3>2. LegOf("transfer", Least(held, ret[r].transfer), Landed) \in LegSet
      BY <3>1 DEF LegOf, LegSet
    <3>3. <<LegOf("transfer", Least(held, ret[r].transfer), Landed)>> \in Seq(LegSet)
      BY <3>2
    <3>4. /\ Same /\ \A k \in DOMAIN queue : queue[k].by # r
          /\ \/ Queues(r, <<LegOf("transfer", Least(held, ret[r].transfer), Landed)>>)
             \/ UNCHANGED <<queue, sender>>
      BY <2>4, SendsShape DEF Same
    <3> QED BY <3>3, <3>4
  <2>5. ASSUME NEW w \in Writes, WritesTo(w)
        PROVE  Same /\ Joins
    <3>1. PICK legs \in Lists : Queues(w, legs)
      BY <2>5, WritesToShape
    <3>2. legs \in Seq(LegSet)
      BY ListsShape DEF Shape
    <3>3. Same /\ \A k \in DOMAIN queue : queue[k].by # w
      BY <2>5, WritesToShape DEF Same
    <3> QED BY <3>1, <3>2, <3>3
  <2> HIDE DEF Joins
  <2> QED BY <2>1, <2>2, <2>3, <2>4, <2>5 DEF Asking
<1>2. ASSUME Joins, sender' # sender
      PROVE  queue = <<>> /\ sender.pc = "idle" /\ sender'.leg = 1
             /\ sender'.pc \in {"sponsoring", "numbering"}
  <2>1. PICK by \in Returns \cup Writes, legs \in Seq(LegSet) : Queues(by, legs)
    BY <1>2
  <2> QED BY <1>2, <2>1, QueuesMake DEF Shape, SenderFits
<1> QED BY <1>1, <1>2

LEMMA EndingMakes ==
  ASSUME Shape, OthersTyped, Ending
  PROVE  /\ Steady /\ queue # <<>> /\ Dequeues /\ Unit \in UnitSet /\ UnitOK(Unit) /\ written' = written
         /\ \A q \in Returns : q # Unit.by => ret'[q] = ret[q]
         /\ Unit.by \in Returns =>
              \/ ret'[Unit.by] = [ret[Unit.by] EXCEPT !.pc = "over"]
              \/ /\ Ends
                 /\ \/ /\ Leg.kind = "withdraw"
                       /\ ret'[Unit.by] = [ret[Unit.by] EXCEPT !.pc = "reading",
                            !.withdrawn = IF Success(sender.tx) THEN "done" ELSE "reverted"]
                    \/ /\ Leg.kind = "transfer"
                       /\ ret'[Unit.by] = [[ret[Unit.by] EXCEPT
                            !.returned = IF Success(sender.tx) THEN "done" ELSE "reverted"]
                            EXCEPT !.pc = "over"]
<1>1. queue # <<>> /\ written' = written
  BY DEF Shape, SenderFits, Ending, Mislays, Fails, Leaving, Ends, Ready, Rest
<1>2. Unit \in UnitSet /\ UnitOK(Unit)
  BY <1>1, UnitShape DEF Shape
<1>3. CASE Ends
  <2>1. Success(sender.tx) \in BOOLEAN /\ Dequeues /\ Receives(Success(sender.tx)) /\ Same
    BY <1>3 DEF Ends, Success, Same, Rest
  <2>2. Unit.by \in Returns => Leg.kind \in {"withdraw", "transfer"}
    BY <1>1, UnitShape DEF Shape
  <2>3. Steady
    BY <2>1, SameSteady
  <2> QED BY <1>1, <1>2, <1>3, <2>1, <2>2, <2>3, ReceivesMake
<1>4. CASE ~Ends
  <2>1. Throws /\ Dequeues
    BY <1>4 DEF Ending, Mislays, Fails, Leaving, Throws
  <2>2. Steady
    <3>1. CASE \E n \in Nat \cup {NoNonce} : Mislays(n)
      BY <3>1, AddSteady DEF Mislays
    <3>2. CASE Fails
      BY <3>2, SameSteady DEF Fails, Rest, Same
    <3>3. CASE Leaving
      BY <3>3, LeavingSteady
    <3> QED BY <1>4, <3>1, <3>2, <3>3 DEF Ending
  <2> QED BY <1>1, <1>2, <2>1, <2>2, ThrowsKeep
<1> QED BY <1>3, <1>4

LEMMA FlightHolds ==
  ASSUME Shape, OthersTyped, WalletNext, FlightFits
  PROVE  FlightFits'
<1> USE DEF FlightFits, HasLanded
<1>1. CASE Turns
  BY <1>1 DEF Turns
<1>2. ASSUME NEW n \in Nat \cup {NoNonce}, HandsOver(n)
      PROVE  FlightFits'
  <2>1. sender.pc # "following" /\ sender'.pc = "following" /\ sender'.tx = Len(txs) + 1
    BY <1>2 DEF HandsOver, Ready, Shape, Typed, SenderSet
  <2>2. /\ DOMAIN txs' = DOMAIN txs \cup {Len(txs) + 1}
        /\ \A i \in DOMAIN txs : txs'[i] = txs[i]
    BY <1>2, AddSteady DEF HandsOver
  <2> QED BY <2>1, <2>2
<1>3. ASSUME NEW n \in Nat \cup {NoNonce}, Mislays(n)
      PROVE  FlightFits'
  <2>1. /\ DOMAIN txs' = DOMAIN txs \cup {Len(txs) + 1} /\ txs'[Len(txs) + 1].left
        /\ \A i \in DOMAIN txs : txs'[i] = txs[i]
    BY <1>3, AddSteady DEF Mislays
  <2> QED BY <1>3, <2>1 DEF Mislays, Ready
<1>4. CASE Fails
  BY <1>4 DEF Fails, Ready
<1>5. CASE NextLeg \/ Ends
  BY <1>5 DEF NextLeg, Ends
<1>6. CASE Leaving
  BY <1>6, LeavingSteady
<1>7. CASE Asking
  BY <1>7, AskingMakes DEF Same
<1>8. ASSUME NEW i \in DOMAIN txs, TxLands(i)
      PROVE  FlightFits'
  BY <1>8, TxLandsMakes DEF TxLands, Shape
<1>9. ASSUME NEW i \in DOMAIN txs, Drops(i)
      PROVE  FlightFits'
  BY <1>9, DropsMake DEF Drops, Shape
<1>10. CASE WalletRestarts
  BY <1>10, RestartsMake DEF Shape
<1>11. Typed
  BY DEF Shape
<1> QED BY <1>1, <1>2, <1>3, <1>4, <1>5, <1>6, <1>7, <1>8, <1>9, <1>10, <1>11, Steps DEF Asking

LEMMA UnitKinds ==
  ASSUME NEW u \in UnitSet, UnitOK(u), Typed
  PROVE  /\ \A l, m \in DOMAIN u.legs : u.legs[l].kind = u.legs[m].kind => l = m
         /\ u.by \notin Returns => u.by \in written /\ u.by \in Writes
         /\ u.by \notin Returns =>
              \A l \in DOMAIN u.legs : u.legs[l].kind \in {"approve", "deposit", "order"}
         /\ 1 \in DOMAIN u.legs
<1>1. u.legs \in Seq(LegSet) /\ DOMAIN u.legs = 1..Len(u.legs) /\ written \subseteq Writes
  BY DEF UnitSet, Typed
<1> QED BY <1>1 DEF UnitOK

LEMMA SentHandsOver ==
  ASSUME Shape, SentFits, NEW n \in Nat \cup {NoNonce}, HandsOver(n)
  PROVE  SentFits'
<1>1. /\ sender.pc # "following" /\ queue # <<>>
      /\ UNCHANGED <<queue, ret, turns, written>> /\ sender \in SenderSet
      /\ sender' = [sender EXCEPT !.pc = "following", !.tx = Len(txs) + 1]
  BY DEF HandsOver, Ready, Rest, Shape, SenderFits, Typed
<1>2. sender'.leg = sender.leg /\ sender'.pc = "following"
  BY <1>1 DEF SenderSet
<1>3. /\ DOMAIN txs' = DOMAIN txs \cup {Len(txs) + 1}
      /\ \A i \in DOMAIN txs : txs'[i] = txs[i]
      /\ txs'[Len(txs) + 1].by = Unit.by /\ txs'[Len(txs) + 1].kind = Leg.kind
  BY AddSteady DEF HandsOver
<1>4. /\ Unit \in UnitSet /\ UnitOK(Unit) /\ Leg = Unit.legs[sender.leg] /\ sender.leg \in DOMAIN Unit.legs
      /\ Unit.by \in Returns => /\ ret[Unit.by].pc \in {"withdrawing", "transferring"}
                                /\ Leg.kind = "withdraw" <=> ret[Unit.by].pc = "withdrawing"
                                /\ Leg.kind = "transfer" <=> ret[Unit.by].pc = "transferring"
  BY <1>1, UnitShape DEF Shape
<1>5. /\ \A l \in DOMAIN Unit.legs : Unit.legs[l].kind = Leg.kind => l = sender.leg
      /\ Unit.by \notin Returns => Unit.by \in written /\ Leg.kind \in {"approve", "deposit", "order"}
  BY <1>4, UnitKinds DEF Shape
<1>6. /\ 1 \in DOMAIN queue /\ Unit = queue[1]
      /\ \A k \in DOMAIN queue : queue[k].by = Unit.by => k = 1
  BY <1>1, Sequences DEF Shape, UnitsFit
<1>7. ASSUME NEW i \in DOMAIN txs', NEW k \in DOMAIN queue, txs'[i].by = queue[k].by
      PROVE  /\ \A l \in DOMAIN queue[k].legs : txs'[i].kind = queue[k].legs[l].kind =>
                  k = 1 /\ (l < sender.leg \/ l = sender.leg)
             /\ queue[k].by \in Writes => \E l \in DOMAIN queue[k].legs : txs'[i].kind = queue[k].legs[l].kind
  <2>1. CASE i \in DOMAIN txs
    BY <1>1, <1>3, <1>7, <2>1 DEF SentFits, HandedOnce, KindsFit
  <2>2. CASE i = Len(txs) + 1
    BY <1>3, <1>4, <1>5, <1>6, <1>7, <2>2
  <2> QED BY <1>3, <2>1, <2>2
<1>8. ASSUME NEW i \in DOMAIN txs'
      PROVE  \/ /\ txs'[i].by \in Returns /\ ret[txs'[i].by].pc \notin {"idle", "waiting", "free"}
                /\ \/ txs'[i].kind = "withdraw"
                   \/ txs'[i].kind = "transfer" /\ ret[txs'[i].by].pc \notin {"withdrawing", "reading"}
             \/ txs'[i].by \in written /\ txs'[i].kind \in {"approve", "deposit", "order"}
  <2>1. CASE i \in DOMAIN txs
    BY <1>3, <2>1 DEF SentFits, HandedOnce, KindsFit
  <2>2. CASE i = Len(txs) + 1
    BY <1>3, <1>4, <1>5, <2>2
  <2> QED BY <1>3, <2>1, <2>2
<1> QED BY <1>1, <1>2, <1>7, <1>8 DEF SentFits, HandedOnce, KindsFit

LEMMA SentEnding ==
  ASSUME Shape, OthersTyped, SentFits, Ending
  PROVE  SentFits'
<1>1. /\ Steady /\ queue # <<>> /\ Dequeues /\ written' = written
      /\ Unit \in UnitSet /\ UnitOK(Unit)
      /\ \A q \in Returns : q # Unit.by => ret'[q] = ret[q]
  BY EndingMakes
<1>2. /\ \A k \in DOMAIN queue' : k + 1 \in DOMAIN queue /\ queue'[k] = queue[k + 1]
      /\ DOMAIN queue = 1..Len(queue) /\ Len(queue) \in Nat /\ Unit = queue[1] /\ 1 \in DOMAIN queue
      /\ queue' \in Seq(UnitSet)
  BY <1>1, DequeuesMake, Sequences DEF Shape
<1>3. ASSUME NEW i \in DOMAIN txs', NEW k \in DOMAIN queue', txs'[i].by = queue'[k].by
      PROVE  /\ \A l \in DOMAIN queue'[k].legs : txs'[i].kind # queue'[k].legs[l].kind
             /\ queue'[k].by \notin Writes
  <2>1. /\ k + 1 \in DOMAIN queue /\ queue'[k] = queue[k + 1] /\ k + 1 # 1
        /\ queue[k + 1].by # Unit.by
    <3>1. k \in 1..Len(queue') /\ Len(queue') \in Nat
      BY <1>2
    <3> QED BY <1>2, <3>1 DEF Shape, UnitsFit
  <2>2. i \in DOMAIN txs /\ txs[i].by = queue[k + 1].by /\ txs'[i].kind = txs[i].kind
    BY <1>1, <1>3, <2>1 DEF Steady
  <2>3. \A l \in DOMAIN queue[k + 1].legs : txs[i].kind # queue[k + 1].legs[l].kind
    BY <2>1, <2>2 DEF SentFits, HandedOnce, KindsFit
  <2>4. queue[k + 1].by \notin Writes
    BY <2>1, <2>2, <2>3 DEF SentFits, HandedOnce, KindsFit
  <2> QED BY <2>1, <2>2, <2>3, <2>4
<1>4. Unit.by \in Returns =>
        /\ ret[Unit.by].pc \in {"withdrawing", "transferring"}
        /\ \/ ret'[Unit.by].pc = "over"
           \/ ret'[Unit.by].pc = "reading" /\ ret[Unit.by].pc = "withdrawing" /\ txs' = txs
        /\ Leg.kind \in {"withdraw", "transfer"}
  <2>1. Unit.by \in Returns => ret[Unit.by] \in RetSet
    BY DEF Shape, Typed
  <2> QED BY <1>1, <2>1, UnitShape, EndingMakes DEF Shape, RetSet, Ends
<1>5. ASSUME NEW i \in DOMAIN txs'
      PROVE  \/ /\ txs'[i].by \in Returns /\ ret'[txs'[i].by].pc \notin {"idle", "waiting", "free"}
                /\ \/ txs'[i].kind = "withdraw"
                   \/ txs'[i].kind = "transfer" /\ ret'[txs'[i].by].pc \notin {"withdrawing", "reading"}
             \/ txs'[i].by \in written /\ txs'[i].kind \in {"approve", "deposit", "order"}
  <2>1. CASE i \in DOMAIN txs
    <3>1. txs'[i].by = txs[i].by /\ txs'[i].kind = txs[i].kind
      BY <1>1, <2>1 DEF Steady
    <3> QED BY <1>1, <1>4, <2>1, <3>1 DEF SentFits, HandedOnce, KindsFit
  <2>2. CASE i \notin DOMAIN txs
    <3>1. /\ txs'[i].by = Unit.by /\ txs'[i].kind = Leg.kind
          /\ sender.leg \in DOMAIN Unit.legs /\ Leg = Unit.legs[sender.leg]
      BY <1>1, <2>2, UnitShape DEF Steady, Shape
    <3>2. CASE Unit.by \in Returns
      BY <1>4, <2>2, <3>1, <3>2
    <3>3. CASE Unit.by \notin Returns
      BY <1>1, <3>1, <3>3, UnitKinds DEF Shape
    <3> QED BY <3>2, <3>3
  <2> QED BY <2>1, <2>2
<1> QED BY <1>1, <1>3, <1>5 DEF SentFits, HandedOnce, KindsFit

LEMMA HandedQueues ==
  ASSUME Shape, HandedOnce, Same, NEW by \in Returns \cup Writes, NEW legs \in Seq(LegSet),
         Queues(by, legs), \A k \in DOMAIN queue : queue[k].by # by,
         \A i \in DOMAIN txs : txs[i].by = by =>
           by \notin Writes /\ \A l \in DOMAIN legs : txs[i].kind # legs[l].kind
  PROVE  HandedOnce'
<1>1. /\ \A k \in DOMAIN queue : queue'[k] = queue[k]
      /\ queue'[Len(queue) + 1] = [by |-> by, legs |-> legs]
      /\ queue # <<>> => sender' = sender
      /\ DOMAIN queue' = DOMAIN queue \cup {Len(queue) + 1} /\ Len(queue) \in Nat
      /\ txs' = txs
  <2>1. /\ queue' \in Seq(UnitSet) /\ Len(queue') = Len(queue) + 1
        /\ \A k \in DOMAIN queue : queue'[k] = queue[k]
        /\ queue'[Len(queue) + 1] = [by |-> by, legs |-> legs]
        /\ queue # <<>> => sender' = sender
    BY QueuesMake DEF Shape
  <2>2. DOMAIN queue' = DOMAIN queue \cup {Len(queue) + 1} /\ Len(queue) \in Nat
    BY <2>1, Sequences DEF Shape
  <2> QED BY <2>1, <2>2 DEF Same
<1>2. ASSUME NEW i \in DOMAIN txs, NEW k \in DOMAIN queue, txs[i].by = queue[k].by
      PROVE  /\ \A l \in DOMAIN queue[k].legs : txs[i].kind = queue[k].legs[l].kind =>
                  k = 1 /\ (l < sender'.leg \/ (l = sender'.leg /\ sender'.pc = "following"))
             /\ queue[k].by \in Writes => \E l \in DOMAIN queue[k].legs : txs[i].kind = queue[k].legs[l].kind
  <2>1. queue # <<>>
    BY <1>2, Sequences DEF Shape
  <2> QED BY <1>1, <1>2, <2>1 DEF HandedOnce
<1> QED BY <1>1, <1>2 DEF HandedOnce

LEMMA SentAsking ==
  ASSUME Shape, OthersTyped, SentFits, Asking
  PROVE  SentFits'
<1>1. ASSUME UNCHANGED <<queue, sender>>
      PROVE  HandedOnce'
  BY <1>1, AskingMakes DEF SentFits, HandedOnce, Same
<1>2. written \subseteq written' /\ Same /\ Typed
  BY AskingMakes DEF OthersTyped, Shape
<1>3. ASSUME NEW r \in Returns, \A q \in Returns : q # r => ret'[q] = ret[q],
             \/ ret[r].pc \in {"idle", "waiting", "free"}
             \/ ret[r].pc = "reading" /\ ret'[r].pc \notin {"idle", "waiting", "free"}
      PROVE  KindsFit'
  BY <1>2, <1>3 DEF SentFits, KindsFit, Same
<1>4. ASSUME NEW r \in Returns, NEW limit \in {Everything, 1}, AsksFor(r, limit)
      PROVE  SentFits'
  <2>1. UNCHANGED <<queue, sender>> /\ ret[r].pc = "idle"
    BY <1>4 DEF AsksFor
  <2> QED BY <1>1, <1>3, <1>4, <2>1, AsksForShape DEF SentFits
<1>5. ASSUME NEW r \in Returns, ReadsFree(r)
      PROVE  SentFits'
  <2>1. UNCHANGED <<queue, sender>> /\ ret[r].pc = "waiting"
    BY <1>5 DEF ReadsFree
  <2> QED BY <1>1, <1>3, <1>5, <2>1, ReadsFreeShape DEF SentFits
<1>6. ASSUME NEW r \in Returns, Plans(r)
      PROVE  SentFits'
  <2>1. /\ ret[r].pc = "free" /\ \A q \in Returns : q # r => ret'[q] = ret[q]
        /\ \A k \in DOMAIN queue : queue[k].by # r
        /\ \/ Queues(r, <<LegOf("withdraw", WithdrawOf(r, held), ret[r].seen)>>)
           \/ UNCHANGED <<queue, sender>>
    BY <1>6, PlansShape
  <2>2. KindsFit'
    BY <1>3, <2>1
  <2>3. CASE UNCHANGED <<queue, sender>>
    BY <1>1, <2>2, <2>3 DEF SentFits
  <2>4. CASE Queues(r, <<LegOf("withdraw", WithdrawOf(r, held), ret[r].seen)>>)
    <3> DEFINE leg == LegOf("withdraw", WithdrawOf(r, held), ret[r].seen)
    <3>1. WithdrawOf(r, held) \in Nat /\ ret[r].seen \in Nat
      BY PlanTyped DEF Shape, Typed, RetSet
    <3>2. leg \in LegSet
      BY <3>1 DEF LegOf, LegSet
    <3> HIDE DEF leg
    <3>3. <<leg>> \in Seq(LegSet)
      BY <3>2
    <3>4. \A i \in DOMAIN txs : txs[i].by # r
      BY <2>1, WalletAssumption DEF SentFits, KindsFit, Shape, Typed
    <3>5. Queues(r, <<leg>>)
      BY <2>4 DEF leg
    <3>6. HandedOnce'
      BY <1>2, <2>1, <3>3, <3>4, <3>5, HandedQueues DEF SentFits
    <3> QED BY <2>2, <3>6 DEF SentFits
  <2> QED BY <2>1, <2>3, <2>4
<1>7. ASSUME NEW r \in Returns, Sends(r)
      PROVE  SentFits'
  <2>1. /\ ret[r].pc = "reading" /\ \A q \in Returns : q # r => ret'[q] = ret[q]
        /\ \A k \in DOMAIN queue : queue[k].by # r
        /\ ret'[r].pc \in {"transferring", "over"}
        /\ \/ Queues(r, <<LegOf("transfer", Least(held, ret[r].transfer), Landed)>>)
           \/ UNCHANGED <<queue, sender>>
    BY <1>7, SendsShape
  <2>2. KindsFit'
    BY <1>3, <2>1
  <2>3. CASE UNCHANGED <<queue, sender>>
    BY <1>1, <2>2, <2>3 DEF SentFits
  <2>4. CASE Queues(r, <<LegOf("transfer", Least(held, ret[r].transfer), Landed)>>)
    <3> DEFINE leg == LegOf("transfer", Least(held, ret[r].transfer), Landed)
    <3>1. Least(held, ret[r].transfer) \in Nat /\ Landed \in Nat
      BY LandedTyped DEF Shape, Typed, RetSet, Least
    <3>2. leg \in LegSet /\ leg.kind = "transfer"
      BY <3>1 DEF LegOf, LegSet
    <3> HIDE DEF leg
    <3>3. <<leg>> \in Seq(LegSet) /\ \A l \in DOMAIN <<leg>> : <<leg>>[l].kind = "transfer"
      BY <3>2
    <3>4. \A i \in DOMAIN txs : txs[i].by = r => txs[i].kind = "withdraw" /\ r \notin Writes
      BY <2>1, WalletAssumption DEF SentFits, KindsFit, Shape, Typed
    <3>5. Queues(r, <<leg>>)
      BY <2>4 DEF leg
    <3>6. HandedOnce'
      BY <1>2, <2>1, <3>3, <3>4, <3>5, HandedQueues DEF SentFits
    <3> QED BY <2>2, <3>6 DEF SentFits
  <2> QED BY <2>1, <2>3, <2>4
<1>8. ASSUME NEW w \in Writes, WritesTo(w)
      PROVE  SentFits'
  <2>1. /\ w \notin written /\ ret' = ret /\ txs' = txs
        /\ \A k \in DOMAIN queue : queue[k].by # w
    BY <1>8, WritesToShape
  <2>2. PICK legs \in Lists : Queues(w, legs)
    BY <1>8, WritesToShape
  <2>3. legs \in Seq(LegSet)
    BY ListsShape DEF Shape
  <2>4. \A i \in DOMAIN txs : txs[i].by # w
    BY <2>1, WalletAssumption DEF SentFits, KindsFit
  <2>5. HandedOnce'
    BY <1>2, <2>1, <2>2, <2>3, <2>4, HandedQueues DEF SentFits
  <2>6. KindsFit'
    BY <1>2, <2>1 DEF SentFits, KindsFit
  <2> QED BY <2>5, <2>6 DEF SentFits
<1> QED BY <1>4, <1>5, <1>6, <1>7, <1>8 DEF Asking

LEMMA SentHolds ==
  ASSUME Shape, OthersTyped, SentFits, WalletNext
  PROVE  SentFits'
<1>0. Typed /\ sender \in SenderSet
  BY DEF Shape, Typed
<1>1. CASE Turns
  <2>1. sender'.leg = sender.leg /\ sender.pc # "following" /\ UNCHANGED <<txs, queue, ret, written>>
    BY <1>0, <1>1 DEF Turns, Rest, SenderSet
  <2> QED BY <2>1 DEF SentFits, HandedOnce, KindsFit
<1>2. CASE NextLeg
  <2>1. /\ Quiet \in SenderSet /\ sender' = [Quiet EXCEPT !.pc = Entry, !.leg = sender.leg + 1]
        /\ sender.leg \in Nat /\ UNCHANGED <<txs, queue, ret, written>>
    BY <1>0, <1>2, Values DEF NextLeg, Rest, SenderSet
  <2> DEFINE m == sender.leg + 1
  <2>2. m \in Nat /\ sender' = [Quiet EXCEPT !.pc = Entry, !.leg = m] /\ m = sender.leg + 1
    BY <2>1
  <2> HIDE DEF m
  <2>3. sender'.leg = m
    BY <2>1, <2>2 DEF SenderSet
  <2>4. \A k \in DOMAIN queue : \A l \in DOMAIN queue[k].legs : l \in Nat
    BY <1>0, Sequences DEF UnitSet
  <2>5. HandedOnce'
    BY <2>1, <2>2, <2>3, <2>4 DEF SentFits, HandedOnce
  <2>6. KindsFit'
    BY <2>1 DEF SentFits, KindsFit
  <2> QED BY <2>5, <2>6 DEF SentFits
<1>3. ASSUME NEW i \in DOMAIN txs, TxLands(i)
      PROVE  SentFits'
  <2>1. UNCHANGED <<queue, sender, ret, written>>
    BY <1>3 DEF TxLands
  <2> QED BY <1>0, <1>3, <2>1, TxLandsMakes DEF SentFits, HandedOnce, KindsFit
<1>4. ASSUME NEW i \in DOMAIN txs, Drops(i)
      PROVE  SentFits'
  <2>1. UNCHANGED <<queue, sender, ret, written>>
    BY <1>4 DEF Drops
  <2> QED BY <1>0, <1>4, <2>1, DropsMake DEF SentFits, HandedOnce, KindsFit
<1>5. CASE WalletRestarts
  <2>1. queue' = <<>> /\ written' = written
    BY <1>5 DEF WalletRestarts
  <2>2. DOMAIN queue' = {}
    BY <2>1
  <2>3. HandedOnce'
    BY <2>2 DEF HandedOnce
  <2>4. /\ DOMAIN txs' = DOMAIN txs
        /\ \A i \in DOMAIN txs : txs'[i].by = txs[i].by /\ txs'[i].kind = txs[i].kind
        /\ \A r \in Returns : ret'[r].pc = IF ret[r].pc = "idle" THEN "idle" ELSE "cut"
    BY <1>0, <1>5, RestartsMake
  <2>5. KindsFit'
    BY <2>1, <2>4 DEF SentFits, KindsFit
  <2> QED BY <2>3, <2>5 DEF SentFits
<1> QED BY <1>0, <1>1, <1>2, <1>3, <1>4, <1>5, Steps, SentHandsOver, SentEnding, SentAsking DEF Ending, Asking

LEMMA PairAdds ==
  ASSUME Shape, SentFits, PairFits, NEW n \in Nat \cup {NoNonce}, NEW left \in BOOLEAN,
         Ready, txs' = Append(txs, Tx(n, left)), Rest
  PROVE  Paired'
<1>1. /\ DOMAIN txs' = DOMAIN txs \cup {Len(txs) + 1} /\ DOMAIN txs = 1..Len(txs) /\ Len(txs) \in Nat
      /\ \A i \in DOMAIN txs : txs'[i] = txs[i]
      /\ txs'[Len(txs) + 1].by = Unit.by /\ txs'[Len(txs) + 1].kind = Leg.kind
  BY AddSteady, Sequences DEF Shape
<1>2. queue # <<>> /\ sender.pc # "following"
  BY DEF Ready, Shape, SenderFits
<1>3. /\ Unit \in UnitSet /\ UnitOK(Unit) /\ Leg = Unit.legs[sender.leg] /\ sender.leg \in DOMAIN Unit.legs
      /\ Unit = queue[1] /\ 1 \in DOMAIN queue
      /\ DOMAIN Unit.legs = 1..Len(Unit.legs) /\ Len(Unit.legs) \in {1, 2}
  BY <1>2, UnitShape, Sequences DEF Shape, UnitOK, UnitSet
<1>4. ASSUME NEW i \in DOMAIN txs, txs[i].by = Unit.by
      PROVE  txs[i].kind # Leg.kind /\ (txs[i].kind = "approve" => txs[i].state = "done")
  <2>1. txs[i].kind # Leg.kind
    BY <1>2, <1>3, <1>4 DEF SentFits, HandedOnce
  <2>2. ASSUME txs[i].kind = "approve"
        PROVE  txs[i].state = "done"
    <3>1. Unit.by \in Writes
      BY <1>4, <2>2 DEF SentFits, KindsFit, Shape, Typed
    <3>2. PICK l \in DOMAIN Unit.legs : txs[i].kind = Unit.legs[l].kind
      BY <1>3, <1>4, <3>1 DEF SentFits, HandedOnce
    <3>3. l < sender.leg
      BY <1>2, <1>3, <1>4, <3>2 DEF SentFits, HandedOnce
    <3>4. sender.leg = 2
      BY <1>3, <3>3
    <3> QED BY <1>2, <1>4, <2>2, <3>4 DEF PairFits, ApprovedFirst
  <2> QED BY <2>1, <2>2
<1> QED BY <1>1, <1>4 DEF PairFits, Paired

LEMMA PairHolds ==
  ASSUME Shape, OthersTyped, SentFits, PairFits, WalletNext
  PROVE  PairFits'
<1>0. Typed /\ sender \in SenderSet
  BY DEF Shape, Typed
<1>1. CASE Turns
  <2>1. sender'.leg = sender.leg /\ UNCHANGED <<txs, queue>>
    BY <1>0, <1>1 DEF Turns, SenderSet
  <2> QED BY <2>1 DEF PairFits, Paired, ApprovedFirst, Unit
<1>2. ASSUME NEW n \in Nat \cup {NoNonce}, HandsOver(n)
      PROVE  PairFits'
  <2>1. Paired'
    BY <1>2, PairAdds DEF HandsOver
  <2>2. sender' = [sender EXCEPT !.pc = "following", !.tx = Len(txs) + 1] /\ queue' = queue
        /\ queue # <<>>
    BY <1>2 DEF HandsOver, Ready, Shape, SenderFits
  <2>3. sender'.leg = sender.leg
    BY <1>0, <2>2 DEF SenderSet
  <2>4. /\ \A i \in DOMAIN txs : txs'[i] = txs[i]
        /\ DOMAIN txs' = DOMAIN txs \cup {Len(txs) + 1}
        /\ txs'[Len(txs) + 1].kind = Leg.kind
    BY <1>2, AddSteady DEF HandsOver
  <2>5. sender.leg = 2 => Leg.kind # "approve"
    <3>1. UnitOK(Unit) /\ Leg = Unit.legs[sender.leg] /\ sender.leg \in DOMAIN Unit.legs
          /\ DOMAIN Unit.legs = 1..Len(Unit.legs)
      BY <2>2, UnitShape DEF Shape, UnitSet
    <3> QED BY <3>1 DEF UnitOK
  <2>6. ApprovedFirst'
    BY <2>2, <2>3, <2>4, <2>5 DEF PairFits, ApprovedFirst, Unit
  <2> QED BY <2>1, <2>6 DEF PairFits
<1>3. CASE Ending
  <2>1. sender'.leg = 1
    BY <1>0, <1>3, EndingMakes, DequeuesMake
  <2>2. Paired'
    <3>1. ASSUME NEW n \in Nat \cup {NoNonce}, Mislays(n)
          PROVE  Paired'
      BY <3>1, PairAdds DEF Mislays
    <3>2. CASE Fails \/ Ends
      BY <3>2 DEF Fails, Ends, PairFits, Paired
    <3>3. CASE Leaving
      <4>1. Steady /\ DOMAIN txs' = DOMAIN txs
        BY <3>3, LeavingSteady
      <4> QED BY <4>1 DEF Steady, PairFits, Paired
    <3> QED BY <1>3, <3>1, <3>2, <3>3 DEF Ending
  <2> QED BY <2>1, <2>2 DEF PairFits, ApprovedFirst
<1>4. CASE NextLeg
  <2>1. /\ UNCHANGED <<txs, queue>> /\ queue # <<>> /\ sender.pc = "following"
        /\ txs[sender.tx].state = "done" /\ sender.leg < Len(Unit.legs)
    BY <1>4 DEF NextLeg, Shape, SenderFits
  <2>2. /\ UnitOK(Unit) /\ Unit \in UnitSet /\ Leg = Unit.legs[sender.leg] /\ sender.leg \in DOMAIN Unit.legs
        /\ DOMAIN Unit.legs = 1..Len(Unit.legs)
    BY <2>1, UnitShape DEF Shape, UnitSet
  <2>3. Leg.kind = "approve"
    <3>1. Unit.legs \in Seq(LegSet) /\ Len(Unit.legs) \in Nat
      BY <2>2 DEF UnitSet
    <3>2. /\ Len(Unit.legs) = 2 => Unit.legs[1].kind = "approve"
          /\ Len(Unit.legs) \in {1, 2}
      <4> DEFINE u == Unit
      <4>1. UnitOK(u) /\ Len(u.legs) \in Nat
        BY <2>2, <3>1
      <4> HIDE DEF u
      <4>2. /\ Len(u.legs) = 2 => u.legs[1].kind = "approve"
            /\ Len(u.legs) \in {1, 2}
        BY <4>1 DEF UnitOK
      <4> QED BY <4>2 DEF u
    <3>3. sender.leg = 1 /\ Len(Unit.legs) = 2
      <4>1. sender.leg \in 1..Len(Unit.legs) /\ sender.leg < Len(Unit.legs)
        BY <2>1, <2>2
      <4> DEFINE n == Len(Unit.legs)
                 l == sender.leg
      <4>2. n \in {1, 2} /\ l \in 1..n /\ l < n
        BY <3>2, <4>1
      <4> HIDE DEF n, l
      <4>3. l = 1 /\ n = 2
        BY <4>2
      <4> QED BY <4>3 DEF n, l
    <3> QED BY <2>2, <3>2, <3>3
  <2>4. sender.tx \in DOMAIN txs /\ txs[sender.tx].by = Unit.by /\ txs[sender.tx].kind = "approve"
    BY <2>1, <2>3 DEF Shape, SenderFits
  <2>5. \A i \in DOMAIN txs : i \in Nat
    BY <1>0, Sequences
  <2>6. \A i \in DOMAIN txs : txs[i].by = Unit.by /\ txs[i].kind = "approve" => i = sender.tx
    BY <2>4, <2>5 DEF PairFits, Paired
  <2> QED BY <2>1, <2>6 DEF PairFits, Paired, ApprovedFirst, Unit
<1>5. CASE Asking
  <2>1. Same
    BY <1>5, AskingMakes
  <2>2. Paired'
    BY <2>1 DEF Same, PairFits, Paired
  <2>3. ApprovedFirst'
    <3>1. CASE sender' # sender
      BY <1>5, <3>1, AskingMakes DEF ApprovedFirst
    <3>2. CASE UNCHANGED <<queue, sender>>
      BY <2>1, <3>2 DEF Same, PairFits, ApprovedFirst, Unit
    <3>3. ASSUME NEW by \in Returns \cup Writes, NEW legs \in Seq(LegSet), Queues(by, legs), sender' = sender
          PROVE  ApprovedFirst'
      <4>1. queue # <<>>
        <5>1. sender'.pc = sender.pc
          BY <3>3
        <5> QED BY <1>0, <3>3, <5>1, QueuesMake DEF Shape, SenderFits
      <4>2. Unit' = Unit
        <5>1. queue' \in Seq(UnitSet) /\ queue' # <<>> /\ \A k \in DOMAIN queue : queue'[k] = queue[k]
          BY <1>0, <3>3, QueuesMake
        <5>2. Unit = queue[1] /\ 1 \in DOMAIN queue
          BY <1>0, <4>1, Sequences
        <5>3. Unit' = queue'[1]
          BY <5>1 DEF Unit
        <5> QED BY <5>1, <5>2, <5>3
      <4> QED BY <2>1, <3>3, <4>1, <4>2 DEF Same, PairFits, ApprovedFirst
    <3> QED BY <1>5, <3>1, <3>2, <3>3, AskingMakes
  <2> QED BY <2>2, <2>3 DEF PairFits
<1>6. ASSUME NEW i \in DOMAIN txs, TxLands(i) \/ Drops(i)
      PROVE  PairFits'
  <2>1. UNCHANGED <<queue, sender>>
    BY <1>6 DEF TxLands, Drops
  <2>2. /\ DOMAIN txs' = DOMAIN txs /\ \A j \in DOMAIN txs : j # i => txs'[j] = txs[j]
        /\ txs[i].state = "pending" /\ txs'[i].by = txs[i].by /\ txs'[i].kind = txs[i].kind
    BY <1>0, <1>6, TxLandsMakes, DropsMake
  <2>3. Paired'
    BY <2>2 DEF PairFits, Paired
  <2>4. ApprovedFirst'
    BY <2>1, <2>2 DEF PairFits, ApprovedFirst, Unit
  <2> QED BY <2>3, <2>4 DEF PairFits
<1>7. CASE WalletRestarts
  <2>1. queue' = <<>>
    BY <1>7 DEF WalletRestarts
  <2>2. /\ DOMAIN txs' = DOMAIN txs
        /\ \A i \in DOMAIN txs : txs'[i].by = txs[i].by /\ txs'[i].kind = txs[i].kind /\ txs'[i].state = txs[i].state
    BY <1>0, <1>7, RestartsMake
  <2>3. Paired'
    BY <2>2 DEF PairFits, Paired
  <2> QED BY <2>1, <2>3 DEF PairFits, ApprovedFirst
<1> QED BY <1>0, <1>1, <1>2, <1>3, <1>4, <1>5, <1>6, <1>7, Steps DEF Ending, Asking

(* What was read and planned, no end of a unit changes. *)
LEMMA EndingRets ==
  ASSUME Shape, OthersTyped, Ending
  PROVE  \A q \in Returns :
           /\ ret'[q].limit = ret[q].limit /\ ret'[q].free = ret[q].free /\ ret'[q].held = ret[q].held
           /\ ret'[q].seen = ret[q].seen /\ ret'[q].withdraw = ret[q].withdraw
           /\ ret'[q].transfer = ret[q].transfer
           /\ \/ ret'[q] = ret[q]
              \/ /\ q = Unit.by /\ ret[q].pc \in {"withdrawing", "transferring"}
                 /\ \/ /\ ret'[q].pc = "over"
                       /\ ret'[q].withdrawn = ret[q].withdrawn /\ ret'[q].returned = ret[q].returned
                    \/ /\ Ends /\ ret[q].pc = "withdrawing" /\ ret'[q].pc = "reading" /\ Leg.kind = "withdraw"
                       /\ ret'[q].withdrawn = IF Success(sender.tx) THEN "done" ELSE "reverted"
                       /\ ret'[q].returned = ret[q].returned
                    \/ /\ Ends /\ ret[q].pc = "transferring" /\ ret'[q].pc = "over" /\ Leg.kind = "transfer"
                       /\ ret'[q].returned = IF Success(sender.tx) THEN "done" ELSE "reverted"
                       /\ ret'[q].withdrawn = ret[q].withdrawn
<1> SUFFICES ASSUME NEW q \in Returns, q = Unit.by
             PROVE  /\ ret'[q].limit = ret[q].limit /\ ret'[q].free = ret[q].free /\ ret'[q].held = ret[q].held
                    /\ ret'[q].seen = ret[q].seen /\ ret'[q].withdraw = ret[q].withdraw
                    /\ ret'[q].transfer = ret[q].transfer
                    /\ ret[q].pc \in {"withdrawing", "transferring"}
                    /\ \/ /\ ret'[q].pc = "over"
                          /\ ret'[q].withdrawn = ret[q].withdrawn /\ ret'[q].returned = ret[q].returned
                       \/ /\ Ends /\ ret[q].pc = "withdrawing" /\ ret'[q].pc = "reading" /\ Leg.kind = "withdraw"
                          /\ ret'[q].withdrawn = IF Success(sender.tx) THEN "done" ELSE "reverted"
                          /\ ret'[q].returned = ret[q].returned
                       \/ /\ Ends /\ ret[q].pc = "transferring" /\ ret'[q].pc = "over" /\ Leg.kind = "transfer"
                          /\ ret'[q].returned = IF Success(sender.tx) THEN "done" ELSE "reverted"
                          /\ ret'[q].withdrawn = ret[q].withdrawn
  BY EndingMakes
<1> DEFINE word == IF Success(sender.tx) THEN "done" ELSE "reverted"
<1>1. ret[q] \in RetSet /\ ret[q].pc \in {"withdrawing", "transferring"}
      /\ (Leg.kind = "withdraw" <=> ret[q].pc = "withdrawing")
      /\ (Leg.kind = "transfer" <=> ret[q].pc = "transferring")
  BY UnitShape, EndingMakes DEF Shape, Typed
<1>2. word \in {"done", "reverted"}
  OBVIOUS
<1> HIDE DEF word
<1>3. CASE ret'[q] = [ret[q] EXCEPT !.pc = "over"]
  BY <1>1, <1>3 DEF RetSet
<1>4. CASE Ends /\ Leg.kind = "withdraw" /\ ret'[q] = [ret[q] EXCEPT !.pc = "reading", !.withdrawn = word]
  BY <1>1, <1>2, <1>4 DEF RetSet, word
<1>5. CASE Ends /\ Leg.kind = "transfer" /\ ret'[q] = [[ret[q] EXCEPT !.returned = word] EXCEPT !.pc = "over"]
  BY <1>1, <1>2, <1>5 DEF RetSet, word
<1> QED BY <1>3, <1>4, <1>5, EndingMakes DEF word

LEMMA SteadyTimes ==
  ASSUME Typed, Steady, AtFits,
         \A r \in Returns : ret'[r].seen <= Landed,
         \A k \in DOMAIN queue' : \A l \in DOMAIN queue'[k].legs : queue'[k].legs[l].seen <= Landed
  PROVE  AtFits'
<1>1. Landed' = Landed /\ Landed \in Nat
  BY SteadyLanded, LandedTyped
<1>2. \A i \in DOMAIN txs' : txs'[i].at <= Landed
  BY <1>1 DEF Steady, AtFits
<1> QED BY <1>1, <1>2 DEF AtFits

LEMMA JoinedTimes ==
  ASSUME Typed, Same, AtFits, \A r \in Returns : ret'[r].seen <= Landed,
         NEW by \in Returns \cup Writes, NEW legs \in Seq(LegSet), Queues(by, legs),
         \A l \in DOMAIN legs : legs[l].seen <= Landed
  PROVE  AtFits'
<1>1. /\ \A k \in DOMAIN queue : queue'[k] = queue[k]
      /\ queue'[Len(queue) + 1] = [by |-> by, legs |-> legs]
      /\ queue' \in Seq(UnitSet) /\ Len(queue') = Len(queue) + 1
      /\ DOMAIN queue = 1..Len(queue) /\ Len(queue) \in Nat
  BY QueuesMake, Sequences
<1>2. ASSUME NEW k \in DOMAIN queue', NEW l \in DOMAIN queue'[k].legs
      PROVE  queue'[k].legs[l].seen <= Landed
  <2>1. k \in DOMAIN queue \/ k = Len(queue) + 1
    BY <1>1
  <2>2. CASE k \in DOMAIN queue
    BY <1>1, <1>2, <2>2 DEF AtFits
  <2>3. CASE k = Len(queue) + 1
    <3>1. queue'[k].legs = legs
      BY <1>1, <2>3
    <3> QED BY <1>2, <3>1
  <2> QED BY <2>1, <2>2, <2>3
<1>3. Steady
  BY SameSteady
<1> QED BY <1>2, <1>3, SteadyTimes

LEMMA LandingCounts ==
  ASSUME Typed, NEW i \in DOMAIN txs, TxLands(i)
  PROVE  Landed' = Landed + 1
<1> DEFINE L == {j \in DOMAIN txs : txs[j].state \notin {"pending", "dropped"}}
<1>1. DOMAIN txs = 1..Len(txs) /\ Len(txs) \in Nat
  BY Sequences
<1>2. IsFiniteSet(1..Len(txs))
  BY <1>1, FS_Interval
<1>3. IsFiniteSet(L)
  BY <1>1, <1>2, FS_Subset
<1>4. i \notin L
  BY TxLandsMakes
<1>5. {j \in DOMAIN txs' : txs'[j].state \notin {"pending", "dropped"}} = L \cup {i}
  BY TxLandsMakes
<1>6. Landed' = Cardinality(L \cup {i}) /\ Landed = Cardinality(L)
  BY <1>5 DEF Landed
<1> HIDE DEF L
<1> QED BY <1>3, <1>4, <1>6, FS_AddElement

(* What asking, reading, planning and sending do to the return. *)
Begun(q) ==
  /\ ret[q].pc = "idle" /\ ret'[q].pc = "waiting" /\ ret'[q].seen = 0
  /\ ret'[q].withdraw = 0 /\ ret'[q].transfer = 0
  /\ ret'[q].withdrawn = "none" /\ ret'[q].returned = "none"

Looked(q) ==
  /\ ret[q].pc = "waiting" /\ ret'[q].pc = "free" /\ ret'[q].free = free /\ ret'[q].seen = Landed
  /\ ret'[q].limit = ret[q].limit /\ ret'[q].held = ret[q].held
  /\ ret'[q].withdraw = ret[q].withdraw /\ ret'[q].transfer = ret[q].transfer
  /\ ret'[q].withdrawn = ret[q].withdrawn /\ ret'[q].returned = ret[q].returned

Resolved(q) ==
  /\ ret[q].pc = "free" /\ ret'[q].pc \in {"withdrawing", "reading", "over"}
  /\ ret'[q].held = held /\ ret'[q].withdraw = WithdrawOf(q, held) /\ ret'[q].transfer = TransferOf(q, held)
  /\ ret'[q].free = ret[q].free /\ ret'[q].seen = ret[q].seen /\ ret'[q].limit = ret[q].limit
  /\ ret'[q].withdrawn = ret[q].withdrawn /\ ret'[q].returned = ret[q].returned

Carried(q) ==
  /\ ret[q].pc = "reading" /\ ret'[q].pc \in {"transferring", "over"}
  /\ ret'[q].limit = ret[q].limit /\ ret'[q].free = ret[q].free /\ ret'[q].held = ret[q].held
  /\ ret'[q].seen = ret[q].seen /\ ret'[q].withdraw = ret[q].withdraw
  /\ ret'[q].transfer = ret[q].transfer
  /\ ret'[q].withdrawn = ret[q].withdrawn /\ ret'[q].returned = ret[q].returned

LEMMA AskingRets ==
  ASSUME Shape, OthersTyped, Asking
  PROVE  \A q \in Returns :
           ret'[q] = ret[q] \/ Begun(q) \/ Looked(q) \/ Resolved(q) \/ Carried(q)
<1>0. Typed /\ \A q \in Returns : ret[q] \in RetSet
  BY DEF Shape, Typed
<1>1. ASSUME NEW r \in Returns, NEW limit \in {Everything, 1}, AsksFor(r, limit)
      PROVE  Begun(r) /\ \A q \in Returns : q # r => ret'[q] = ret[q]
  <2> DEFINE o == [NoReturn EXCEPT !.pc = "waiting", !.limit = limit]
  <2>1. /\ o.pc = "waiting" /\ o.seen = 0 /\ o.withdraw = 0 /\ o.transfer = 0
        /\ o.withdrawn = "none" /\ o.returned = "none"
    BY DEF NoReturn
  <2>2. ret'[r] = o /\ ret[r].pc = "idle"
    BY <1>1, AsksForShape DEF AsksFor
  <2> HIDE DEF o
  <2> QED BY <1>1, <2>1, <2>2, AsksForShape DEF Begun
<1>2. ASSUME NEW r \in Returns, ReadsFree(r)
      PROVE  Looked(r) /\ \A q \in Returns : q # r => ret'[q] = ret[q]
  <2> DEFINE m == Landed
             o == [ret[r] EXCEPT !.pc = "free", !.free = free, !.seen = m]
  <2>1. m \in Nat /\ free \in Nat
    BY <1>0, LandedTyped DEF Typed
  <2>2. ret'[r] = o /\ ret[r].pc = "waiting"
    BY <1>2, ReadsFreeShape DEF ReadsFree
  <2> HIDE DEF m
  <2>3. /\ o.pc = "free" /\ o.free = free /\ o.seen = m /\ o.limit = ret[r].limit /\ o.held = ret[r].held
        /\ o.withdraw = ret[r].withdraw /\ o.transfer = ret[r].transfer
        /\ o.withdrawn = ret[r].withdrawn /\ o.returned = ret[r].returned
    BY <1>0, <2>1 DEF RetSet
  <2> HIDE DEF o
  <2> QED BY <1>2, <2>2, <2>3, ReadsFreeShape DEF Looked, m
<1>3. ASSUME NEW r \in Returns, Plans(r)
      PROVE  Resolved(r) /\ \A q \in Returns : q # r => ret'[q] = ret[q]
  <2>1. PICK pc \in {"withdrawing", "reading", "over"} : ret'[r] = [PlanOf(r) EXCEPT !.pc = pc]
    BY <1>3, PlansShape
  <2> DEFINE o == [PlanOf(r) EXCEPT !.pc = pc]
  <2>2. /\ o.pc = pc
        /\ o.held = held /\ o.withdraw = WithdrawOf(r, held) /\ o.transfer = TransferOf(r, held)
        /\ o.free = ret[r].free /\ o.limit = ret[r].limit /\ o.seen = ret[r].seen
        /\ o.withdrawn = ret[r].withdrawn /\ o.returned = ret[r].returned
    BY <1>0, PlanMakes
  <2>3. ret'[r] = o
    BY <2>1
  <2> HIDE DEF o
  <2> QED BY <1>3, <2>2, <2>3, PlansShape DEF Resolved
<1>4. ASSUME NEW r \in Returns, Sends(r)
      PROVE  Carried(r) /\ \A q \in Returns : q # r => ret'[q] = ret[q]
  <2>1. PICK pc \in {"transferring", "over"} : ret'[r] = [ret[r] EXCEPT !.pc = pc]
    BY <1>4, SendsShape
  <2> DEFINE o == [ret[r] EXCEPT !.pc = pc]
  <2>2. /\ o.pc = pc /\ o.limit = ret[r].limit /\ o.free = ret[r].free /\ o.held = ret[r].held
        /\ o.seen = ret[r].seen /\ o.withdraw = ret[r].withdraw /\ o.transfer = ret[r].transfer
        /\ o.withdrawn = ret[r].withdrawn /\ o.returned = ret[r].returned
    BY <1>0 DEF RetSet
  <2>3. ret'[r] = o
    BY <2>1
  <2> HIDE DEF o
  <2> QED BY <1>4, <2>2, <2>3, SendsShape DEF Carried
<1>5. ASSUME NEW w \in Writes, WritesTo(w)
      PROVE  ret' = ret
  BY <1>5 DEF WritesTo
<1>6. CASE \E r \in Returns : (\E limit \in {Everything, 1} : AsksFor(r, limit))
  BY <1>1, <1>6
<1>7. CASE \E r \in Returns : ReadsFree(r)
  BY <1>2, <1>7
<1>8. CASE \E r \in Returns : Plans(r)
  BY <1>3, <1>8
<1>9. CASE \E r \in Returns : Sends(r)
  BY <1>4, <1>9
<1>10. CASE \E w \in Writes : WritesTo(w)
  BY <1>5, <1>10
<1> QED BY <1>6, <1>7, <1>8, <1>9, <1>10 DEF Asking

LEMMA TimesAsking ==
  ASSUME Shape, OthersTyped, AtFits, Asking
  PROVE  AtFits'
<1>0. Typed /\ Same /\ Landed \in Nat
  BY AskingMakes, LandedTyped DEF Shape
<1>1. \A r \in Returns : ret'[r].seen <= Landed
  BY <1>0, AskingRets DEF AtFits, Begun, Looked, Resolved, Carried
<1>2. CASE UNCHANGED <<queue, sender>>
  <2>1. \A k \in DOMAIN queue' : \A l \in DOMAIN queue'[k].legs : queue'[k].legs[l].seen <= Landed
    BY <1>2 DEF AtFits
  <2>2. Steady
    BY <1>0, SameSteady
  <2> QED BY <1>0, <1>1, <2>1, <2>2, SteadyTimes
<1>3. ASSUME NEW r \in Returns, NEW leg \in LegSet, Queues(r, <<leg>>), leg.seen <= Landed
      PROVE  AtFits'
  <2>1. <<leg>> \in Seq(LegSet) /\ \A l \in DOMAIN <<leg>> : <<leg>>[l] = leg
    OBVIOUS
  <2>2. \A l \in DOMAIN <<leg>> : <<leg>>[l].seen <= Landed
    BY <1>3, <2>1
  <2> QED BY <1>0, <1>1, <1>3, <2>1, <2>2, JoinedTimes
<1>4. ASSUME NEW r \in Returns, Queues(r, <<LegOf("withdraw", WithdrawOf(r, held), ret[r].seen)>>)
      PROVE  AtFits'
  <2> DEFINE leg == LegOf("withdraw", WithdrawOf(r, held), ret[r].seen)
  <2>1. WithdrawOf(r, held) \in Nat /\ ret[r].seen \in Nat /\ ret[r].seen <= Landed
    BY <1>0, PlanTyped DEF Typed, RetSet, AtFits
  <2>2. leg \in LegSet /\ leg.seen <= Landed
    BY <2>1 DEF LegOf, LegSet
  <2>3. Queues(r, <<leg>>)
    BY <1>4
  <2> HIDE DEF leg
  <2> QED BY <1>3, <2>2, <2>3
<1>5. ASSUME NEW r \in Returns, Queues(r, <<LegOf("transfer", Least(held, ret[r].transfer), Landed)>>)
      PROVE  AtFits'
  <2> DEFINE leg == LegOf("transfer", Least(held, ret[r].transfer), Landed)
  <2>1. Least(held, ret[r].transfer) \in Nat
    BY <1>0 DEF Typed, RetSet, Least
  <2>2. leg \in LegSet /\ leg.seen <= Landed
    BY <1>0, <2>1 DEF LegOf, LegSet
  <2>3. Queues(r, <<leg>>)
    BY <1>5
  <2> HIDE DEF leg
  <2> QED BY <1>3, <2>2, <2>3
<1>6. ASSUME NEW w \in Writes, NEW legs \in Lists, Queues(w, legs)
      PROVE  AtFits'
  <2>1. legs \in Seq(LegSet) /\ \A l \in DOMAIN legs : legs[l].seen <= Landed
    BY <1>0, ListsShape
  <2> QED BY <1>0, <1>1, <1>6, <2>1, JoinedTimes
<1>7. ASSUME NEW r \in Returns, NEW limit \in {Everything, 1}, AsksFor(r, limit) \/ ReadsFree(r)
      PROVE  UNCHANGED <<queue, sender>>
  BY <1>7 DEF AsksFor, ReadsFree
<1> QED BY <1>2, <1>4, <1>5, <1>6, <1>7, PlansShape, SendsShape, WritesToShape DEF Asking

LEMMA TimesHold ==
  ASSUME Shape, OthersTyped, AtFits, WalletNext
  PROVE  AtFits'
<1>0. Typed /\ Landed \in Nat
  BY LandedTyped DEF Shape
<1>1. ASSUME Steady, UNCHANGED <<queue, ret>>
      PROVE  AtFits'
  BY <1>0, <1>1, SteadyTimes DEF AtFits
<1>2. CASE Turns \/ NextLeg
  BY <1>1, <1>2, SameSteady DEF Turns, NextLeg, Rest, Same
<1>3. ASSUME NEW n \in Nat \cup {NoNonce}, HandsOver(n)
      PROVE  AtFits'
  BY <1>1, <1>3, AddSteady DEF HandsOver
<1>4. CASE Ending
  <2>1. /\ Steady /\ \A k \in DOMAIN queue' : k + 1 \in DOMAIN queue /\ queue'[k] = queue[k + 1]
    BY <1>0, <1>4, EndingMakes, DequeuesMake
  <2>2. \A r \in Returns : ret'[r].seen <= Landed
    BY <1>4, EndingRets DEF AtFits
  <2>3. \A k \in DOMAIN queue' : \A l \in DOMAIN queue'[k].legs : queue'[k].legs[l].seen <= Landed
    BY <2>1 DEF AtFits
  <2> QED BY <1>0, <2>1, <2>2, <2>3, SteadyTimes
<1>5. ASSUME NEW i \in DOMAIN txs, Drops(i)
      PROVE  AtFits'
  BY <1>0, <1>1, <1>5, DropsSteady DEF Drops
<1>6. CASE WalletRestarts
  <2>1. Steady /\ \A r \in Returns : ret'[r].seen <= Landed
    BY <1>0, <1>6, RestartsSteady, RestartsMake DEF AtFits
  <2>2. DOMAIN queue' = {}
    BY <1>6 DEF WalletRestarts
  <2> QED BY <1>0, <2>1, <2>2, SteadyTimes
<1>7. ASSUME NEW i \in DOMAIN txs, TxLands(i)
      PROVE  AtFits'
  <2>1. Landed' = Landed + 1 /\ UNCHANGED <<queue, ret>>
    BY <1>0, <1>7, LandingCounts DEF TxLands
  <2>2. /\ DOMAIN txs' = DOMAIN txs /\ txs'[i].at = Landed + 1
        /\ \A j \in DOMAIN txs : j # i => txs'[j] = txs[j]
    BY <1>0, <1>7, TxLandsMakes
  <2>3. \A j \in DOMAIN txs : txs[j].at \in Nat
    BY <1>0, Sequences DEF TxSet
  <2>4. \A r \in Returns : ret[r].seen \in Nat
    BY <1>0 DEF Typed, RetSet
  <2>5. \A k \in DOMAIN queue : \A l \in DOMAIN queue[k].legs : queue[k].legs[l].seen \in Nat
    <3>1. ASSUME NEW k \in DOMAIN queue, NEW legs, legs = queue[k].legs, NEW l \in DOMAIN legs
          PROVE  legs[l].seen \in Nat
      <4>1. legs \in Seq(LegSet)
        BY <1>0, <3>1, Sequences DEF UnitSet
      <4>2. legs[l] \in LegSet
        BY <4>1
      <4> QED BY <4>2 DEF LegSet
    <3> QED BY <3>1
  <2> QED BY <1>0, <2>1, <2>2, <2>3, <2>4, <2>5 DEF AtFits
<1> QED BY <1>0, <1>2, <1>3, <1>4, <1>5, <1>6, <1>7, Steps, TimesAsking DEF Ending, Asking

LEMMA WordsHold ==
  ASSUME Shape, OthersTyped, WordFits, WalletNext
  PROVE  WordFits'
<1>0. Typed
  BY DEF Shape
<1>1. ASSUME Steady, \A r \in Returns : ret'[r].withdrawn = ret[r].withdrawn /\ ret'[r].returned = ret[r].returned
      PROVE  WordFits'
  BY <1>1, SteadyWords
<1>2. CASE Turns \/ NextLeg
  BY <1>1, <1>2, SameSteady DEF Turns, NextLeg, Rest, Same
<1>3. ASSUME NEW n \in Nat \cup {NoNonce}, HandsOver(n)
      PROVE  WordFits'
  BY <1>1, <1>3, AddSteady DEF HandsOver
<1>4. CASE Ending
  <2>1. Steady
    BY <1>4, EndingMakes
  <2>2. ASSUME NEW q \in Returns, q = Unit.by, Ends, NEW word,
               word = IF Success(sender.tx) THEN "done" ELSE "reverted"
        PROVE  Became(q, Leg.kind, word)
    <3>1. /\ sender.tx \in DOMAIN txs /\ txs[sender.tx].by = q /\ txs[sender.tx].kind = Leg.kind
          /\ txs[sender.tx].state \in {"done", "short", "reverted"}
      BY <2>2 DEF Ends, Shape, SenderFits
    <3>2. HasLanded(sender.tx) /\ (word = "done" <=> txs[sender.tx].state = "done")
      BY <2>2, <3>1 DEF HasLanded, Success
    <3> QED BY <3>1, <3>2 DEF Became
  <2>3. \A r \in Returns :
          /\ ret'[r].withdrawn = ret[r].withdrawn \/ Became(r, "withdraw", ret'[r].withdrawn)
          /\ ret'[r].returned = ret[r].returned \/ Became(r, "transfer", ret'[r].returned)
    BY <1>4, <2>2, EndingRets
  <2> QED BY <2>1, <2>3, SteadyWords
<1>5. CASE Asking
  <2>1. Steady
    BY <1>5, AskingMakes, SameSteady
  <2>2. \A r \in Returns :
          /\ ret'[r].withdrawn = ret[r].withdrawn \/ ret'[r].withdrawn = "none"
          /\ ret'[r].returned = ret[r].returned \/ ret'[r].returned = "none"
    BY <1>5, AskingRets DEF Begun, Looked, Resolved, Carried
  <2> QED BY <2>1, <2>2, SteadyWords
<1>6. ASSUME NEW i \in DOMAIN txs, Drops(i)
      PROVE  WordFits'
  BY <1>0, <1>1, <1>6, DropsSteady DEF Drops
<1>7. CASE WalletRestarts
  BY <1>0, <1>1, <1>7, RestartsSteady, RestartsMake
<1>8. ASSUME NEW i \in DOMAIN txs, TxLands(i)
      PROVE  WordFits'
  <2>1. ret' = ret
    BY <1>8 DEF TxLands
  <2>2. /\ DOMAIN txs' = DOMAIN txs /\ txs[i].state = "pending"
        /\ \A j \in DOMAIN txs : j # i => txs'[j] = txs[j]
    BY <1>0, <1>8, TxLandsMakes
  <2>3. \A r, kind, word : Became(r, kind, word) => Became(r, kind, word)'
    BY <2>2 DEF Became, HasLanded
  <2> QED BY <2>1, <2>3 DEF WordFits
<1> QED BY <1>0, <1>2, <1>3, <1>4, <1>5, <1>6, <1>7, <1>8, Steps DEF Ending, Asking

(* A plan is kept with what it was made of. *)
LEMMA PlannedKept ==
  ASSUME NEW q \in Returns, setup' = setup,
         ret'[q].limit = ret[q].limit, ret'[q].free = ret[q].free, ret'[q].held = ret[q].held,
         ret'[q].withdraw = ret[q].withdraw, ret'[q].transfer = ret[q].transfer, Planned(q)
  PROVE  Planned(q)'
<1>1. \A h : Budget(q, h)' = Budget(q, h)
  BY DEF Budget
<1>2. \A h : WithdrawOf(q, h)' = WithdrawOf(q, h)
  BY <1>1 DEF WithdrawOf, Least, Most
<1>3. \A h : TransferOf(q, h)' = TransferOf(q, h)
  BY <1>1, <1>2 DEF TransferOf, Least
<1> DEFINE h == ret[q].held
<1>4. ret'[q].held = h /\ WithdrawOf(q, h)' = WithdrawOf(q, h) /\ TransferOf(q, h)' = TransferOf(q, h)
  BY <1>2, <1>3
<1> QED BY <1>4 DEF Planned

LEMMA Resolves ==
  ASSUME NEW q \in Returns, setup' = setup, held' = held, Resolved(q)
  PROVE  Planned(q)'
<1>1. \A h : Budget(q, h)' = Budget(q, h)
  BY DEF Budget, Resolved
<1>2. \A h : WithdrawOf(q, h)' = WithdrawOf(q, h)
  BY <1>1 DEF WithdrawOf, Least, Most, Resolved
<1>3. \A h : TransferOf(q, h)' = TransferOf(q, h)
  BY <1>1, <1>2 DEF TransferOf, Least
<1> QED BY <1>2, <1>3 DEF Planned, Resolved

LEMMA MindedHolds ==
  ASSUME Shape, OthersTyped, SentFits, Minded, WalletNext
  PROVE  Minded'
<1>0. Typed
  BY DEF Shape
<1>1. ASSUME NEW q \in Returns, ret'[q] = ret[q], setup' = setup,
             \A i \in DOMAIN txs' : i \notin DOMAIN txs => txs'[i].by # q,
             \A i \in DOMAIN txs : i \in DOMAIN txs' => txs'[i].by = txs[i].by
      PROVE  \/ ret'[q].pc \in {"idle", "waiting", "free"}
             \/ Planned(q)'
             \/ ret'[q].pc = "cut" /\ \A i \in DOMAIN txs' : txs'[i].by # q
  <2>1. CASE Planned(q)
    BY <1>1, <2>1, PlannedKept
  <2>2. CASE ~Planned(q)
    BY <1>1, <2>2 DEF Minded
  <2> QED BY <2>1, <2>2
<1>2. ASSUME NEW n \in Nat \cup {NoNonce}, HandsOver(n)
      PROVE  Minded'
  <2>1. Steady /\ ret' = ret /\ setup' = setup
    BY <1>2, AddSteady DEF HandsOver, Steady
  <2>2. \A i \in DOMAIN txs' : i \notin DOMAIN txs => txs'[i].by = Unit.by
    BY <2>1 DEF Steady
  <2>3. Unit.by \in Returns => ret[Unit.by].pc \in {"withdrawing", "transferring"}
    BY <1>2, UnitShape DEF HandsOver, Ready, Shape, SenderFits
  <2>4. ASSUME NEW q \in Returns
        PROVE  \/ ret'[q].pc \in {"idle", "waiting", "free"}
               \/ Planned(q)'
               \/ ret'[q].pc = "cut" /\ \A i \in DOMAIN txs' : txs'[i].by # q
    <3>1. CASE q = Unit.by
      <4>1. Planned(q)
        BY <2>3, <3>1 DEF Minded
      <4> QED BY <2>1, <4>1, PlannedKept
    <3>2. CASE q # Unit.by
      BY <1>1, <2>1, <2>2, <3>2 DEF Steady
    <3> QED BY <3>1, <3>2
  <2> QED BY <2>4 DEF Minded
<1>3. CASE Ending
  <2>1. Steady /\ setup' = setup
    BY <1>3, EndingMakes DEF Steady
  <2>2. \A i \in DOMAIN txs' : i \notin DOMAIN txs => txs'[i].by = Unit.by
    BY <2>1 DEF Steady
  <2>4. ASSUME NEW q \in Returns
        PROVE  \/ ret'[q].pc \in {"idle", "waiting", "free"}
               \/ Planned(q)'
               \/ ret'[q].pc = "cut" /\ \A i \in DOMAIN txs' : txs'[i].by # q
    <3>1. CASE q = Unit.by
      <4>1. Planned(q)
        <5>1. ret[q].pc \in {"withdrawing", "transferring"}
          BY <1>3, <3>1, EndingMakes, UnitShape DEF Shape
        <5> QED BY <5>1 DEF Minded
      <4> QED BY <1>3, <2>1, <4>1, PlannedKept, EndingRets
    <3>2. CASE q # Unit.by
      <4>1. ret'[q] = ret[q]
        BY <1>3, <3>2, EndingMakes
      <4> QED BY <1>1, <2>1, <2>2, <3>2, <4>1 DEF Steady
    <3> QED BY <3>1, <3>2
  <2> QED BY <2>4 DEF Minded
<1>4. CASE Asking
  <2>1. Same
    BY <1>4, AskingMakes
  <2>2. ASSUME NEW q \in Returns
        PROVE  \/ ret'[q].pc \in {"idle", "waiting", "free"}
               \/ Planned(q)'
               \/ ret'[q].pc = "cut" /\ \A i \in DOMAIN txs' : txs'[i].by # q
    <3>1. CASE ret'[q] = ret[q]
      BY <1>1, <2>1, <3>1 DEF Same
    <3>2. CASE Begun(q) \/ Looked(q)
      BY <3>2 DEF Begun, Looked
    <3>3. CASE Resolved(q)
      BY <2>1, <3>3, Resolves DEF Same
    <3>4. CASE Carried(q)
      <4>1. Planned(q)
        BY <3>4 DEF Carried, Minded
      <4> QED BY <2>1, <3>4, <4>1, PlannedKept DEF Carried, Same
    <3> QED BY <1>4, <3>1, <3>2, <3>3, <3>4, AskingRets
  <2> QED BY <2>2 DEF Minded
<1>5. CASE WalletRestarts
  <2>1. setup' = setup
    BY <1>5 DEF WalletRestarts
  <2>2. ASSUME NEW q \in Returns
        PROVE  \/ ret'[q].pc \in {"idle", "waiting", "free"}
               \/ Planned(q)'
               \/ ret'[q].pc = "cut" /\ \A i \in DOMAIN txs' : txs'[i].by # q
    <3>1. CASE Planned(q)
      BY <1>0, <1>5, <2>1, <3>1, PlannedKept, RestartsMake
    <3>2. CASE ~Planned(q)
      <4>1. \A i \in DOMAIN txs : txs[i].by # q
        BY <1>0, <3>2, WalletAssumption DEF Minded, SentFits, KindsFit, Typed
      <4>2. /\ DOMAIN txs' = DOMAIN txs /\ \A i \in DOMAIN txs : txs'[i].by = txs[i].by
            /\ ret'[q].pc = IF ret[q].pc = "idle" THEN "idle" ELSE "cut"
        BY <1>0, <1>5, RestartsMake
      <4> QED BY <4>1, <4>2
    <3> QED BY <3>1, <3>2
  <2> QED BY <2>2 DEF Minded
<1>6. ASSUME ret' = ret, setup' = setup, DOMAIN txs' = DOMAIN txs, \A i \in DOMAIN txs : txs'[i].by = txs[i].by
      PROVE  Minded'
  BY <1>1, <1>6 DEF Minded
<1>7. CASE Turns \/ NextLeg
  BY <1>6, <1>7 DEF Turns, NextLeg, Rest
<1>8. ASSUME NEW i \in DOMAIN txs, TxLands(i) \/ Drops(i)
      PROVE  Minded'
  <2>1. ret' = ret /\ setup' = setup
    BY <1>8 DEF TxLands, Drops
  <2> QED BY <1>0, <1>6, <1>8, <2>1, TxLandsMakes, DropsMake
<1> QED BY <1>0, <1>2, <1>3, <1>4, <1>5, <1>7, <1>8, Steps DEF Ending, Asking

LEMMA MeasuredHolds ==
  ASSUME Shape, OthersTyped, SentFits, Measured, WalletNext
  PROVE  Measured'
<1>0. Typed
  BY DEF Shape
<1>1. ASSUME NEW i \in DOMAIN txs, NEW r \in Returns, txs[i].by = r,
             txs'[i].kind = txs[i].kind, txs'[i].amount = txs[i].amount,
             ret'[r].withdraw = ret[r].withdraw, ret'[r].transfer = ret[r].transfer
      PROVE  /\ txs'[i].kind = "withdraw" => txs'[i].amount = ret'[r].withdraw
             /\ txs'[i].kind = "transfer" => txs'[i].amount <= ret'[r].transfer
  BY <1>1 DEF Measured
<1>2. ASSUME Steady, \A r \in Returns : ret'[r].withdraw = ret[r].withdraw /\ ret'[r].transfer = ret[r].transfer
      PROVE  Measured'
  <2>1. ASSUME NEW i \in DOMAIN txs', i \notin DOMAIN txs, NEW r \in Returns, txs'[i].by = r
        PROVE  /\ txs'[i].kind = "withdraw" => txs'[i].amount = ret'[r].withdraw
               /\ txs'[i].kind = "transfer" => txs'[i].amount <= ret'[r].transfer
    <3>1. /\ queue # <<>> /\ r = Unit.by /\ txs'[i].kind = Leg.kind /\ txs'[i].amount = Leg.amount
      BY <1>2, <2>1 DEF Steady
    <3>2. UnitOK(Unit) /\ Leg = Unit.legs[sender.leg] /\ sender.leg = 1
      BY <3>1, UnitShape DEF Shape
    <3>3. r \notin written
      BY <1>0, WalletAssumption DEF Typed
    <3>4. /\ Leg.kind = "withdraw" => Leg.amount = ret[r].withdraw
          /\ Leg.kind = "transfer" => Leg.amount <= ret[r].transfer
      BY <3>1, <3>2, <3>3 DEF UnitOK
    <3> QED BY <1>2, <3>1, <3>4
  <2>2. ASSUME NEW i \in DOMAIN txs, NEW r \in Returns, txs'[i].by = r
        PROVE  /\ txs'[i].kind = "withdraw" => txs'[i].amount = ret'[r].withdraw
               /\ txs'[i].kind = "transfer" => txs'[i].amount <= ret'[r].transfer
    BY <1>1, <1>2, <2>2 DEF Steady
  <2> QED BY <2>1, <2>2 DEF Measured
<1>3. CASE Turns \/ NextLeg
  BY <1>2, <1>3, SameSteady DEF Turns, NextLeg, Rest, Same
<1>4. ASSUME NEW n \in Nat \cup {NoNonce}, HandsOver(n)
      PROVE  Measured'
  BY <1>2, <1>4, AddSteady DEF HandsOver
<1>5. CASE Ending
  BY <1>2, <1>5, EndingMakes, EndingRets
<1>6. ASSUME NEW i \in DOMAIN txs, Drops(i)
      PROVE  Measured'
  BY <1>0, <1>2, <1>6, DropsSteady DEF Drops
<1>7. CASE WalletRestarts
  BY <1>0, <1>2, <1>7, RestartsSteady, RestartsMake
<1>8. ASSUME NEW i \in DOMAIN txs, TxLands(i)
      PROVE  Measured'
  <2>1. ret' = ret
    BY <1>8 DEF TxLands
  <2> QED BY <1>0, <1>8, <2>1, TxLandsMakes DEF Measured
<1>9. CASE Asking
  <2>1. txs' = txs
    BY <1>9, AskingMakes DEF Same
  <2>2. ASSUME NEW i \in DOMAIN txs, NEW r \in Returns, txs[i].by = r
        PROVE  /\ txs'[i].kind = "withdraw" => txs'[i].amount = ret'[r].withdraw
               /\ txs'[i].kind = "transfer" => txs'[i].amount <= ret'[r].transfer
    <3>1. ret[r].pc \notin {"idle", "waiting", "free"}
      BY <1>0, <2>2, WalletAssumption DEF SentFits, KindsFit, Typed
    <3>2. ret'[r] = ret[r] \/ Carried(r)
      BY <1>9, <3>1, AskingRets DEF Begun, Looked, Resolved
    <3> QED BY <1>1, <2>1, <2>2, <3>2 DEF Carried
  <2> QED BY <2>1, <2>2 DEF Measured
<1> QED BY <1>0, <1>3, <1>4, <1>5, <1>6, <1>7, <1>8, <1>9, Steps DEF Ending, Asking

LEMMA AloneKept ==
  ASSUME Steady, NEW r \in Returns, ret'[r].seen = ret[r].seen, Alone(r)'
  PROVE  Alone(r)
  BY DEF Alone, Steady

LEMMA PayingKept ==
  ASSUME Steady, NEW r \in Returns, ret'[r].withdraw = ret[r].withdraw
  PROVE  Paying(r)' = Paying(r)
<1>1. Came(r)' <=> Came(r)
  <2>1. ASSUME Came(r)
        PROVE  Came(r)'
    BY <2>1 DEF Came, Steady
  <2>2. ASSUME Came(r)'
        PROVE  Came(r)
    <3>1. PICK i \in DOMAIN txs' : txs'[i].by = r /\ txs'[i].kind = "withdraw" /\ txs'[i].state = "done"
      BY <2>2 DEF Came
    <3>2. i \in DOMAIN txs /\ txs[i].state = "done"
      BY <3>1 DEF Steady
    <3> QED BY <3>1, <3>2 DEF Came, Steady
  <2> QED BY <2>1, <2>2
<1> QED BY <1>1 DEF Paying, Steady

LEMMA HeldLands ==
  ASSUME Shape, SentFits, PairFits, AtFits, Measured, HeldFits, NEW i \in DOMAIN txs, TxLands(i)
  PROVE  HeldFits'
<1>1. UNCHANGED <<setup, ret>>
  BY DEF TxLands
<1>2. /\ DOMAIN txs' = DOMAIN txs
      /\ \A j \in DOMAIN txs : j # i => txs'[j] = txs[j]
      /\ txs[i].state = "pending" /\ txs'[i].state \in {"done", "short", "reverted"}
      /\ txs'[i].at = Landed + 1 /\ txs'[i].by = txs[i].by /\ txs'[i].kind = txs[i].kind
      /\ txs[i] \in TxSet
  BY TxLandsMakes, Sequences DEF Shape
<1>3. ASSUME NEW r \in Returns, Alone(r)', ret[r].pc \in {"withdrawing", "reading"}
      PROVE  held' = ret[r].held + Paying(r)'
  <2>1. /\ Landed \in Nat /\ ret[r] \in RetSet /\ ret[r].seen \in Nat /\ ret[r].seen <= Landed
        /\ ret[r].held \in Nat /\ ret[r].withdraw \in Nat /\ held \in Nat
    BY LandedTyped DEF Shape, Typed, RetSet, AtFits
  <2>2. txs[i].by = r
    BY <1>1, <1>2, <1>3, <2>1 DEF Alone
  <2>3. Alone(r)
    BY <1>1, <1>2, <1>3, <2>2 DEF Alone
  <2>4. txs[i].kind = "withdraw" /\ txs[i].amount = ret[r].withdraw
    <3>1. r \notin written
      BY WalletAssumption DEF Shape, Typed
    <3> QED BY <1>3, <2>2, <3>1 DEF SentFits, KindsFit, Measured
  <2>5. ~Came(r)
    <3>1. \A j \in DOMAIN txs : j \in Nat
      BY Sequences DEF Shape
    <3>2. \A j \in DOMAIN txs : txs[j].by = r /\ txs[j].kind = "withdraw" => j = i
      BY <2>2, <2>4, <3>1 DEF PairFits, Paired
    <3> QED BY <1>2, <3>2 DEF Came
  <2>6. held = ret[r].held
    BY <1>3, <2>1, <2>3, <2>5 DEF HeldFits, Paying
  <2>7. Came(r)' <=> txs'[i].state = "done"
    <3>1. \A j \in DOMAIN txs : j # i => ~(txs[j].by = r /\ txs[j].kind = "withdraw" /\ txs[j].state = "done")
      BY <2>5 DEF Came
    <3> QED BY <1>2, <2>2, <2>4, <3>1 DEF Came
  <2>8. \/ txs'[i].state = "done" /\ held' = IF setup.custody = "address-keyed" THEN held + txs[i].amount ELSE held
        \/ txs'[i].state # "done" /\ held' = held
    <3> DEFINE m == Landed + 1
               ends(state) == txs' = [txs EXCEPT ![i] = [@ EXCEPT !.state = state, !.at = m]]
    <3>1. \A state : ends(state) => txs'[i].state = state
      <4>1. txs \in Seq(TxSet) /\ m \in Nat
        BY <2>1 DEF Shape, Typed
      <4> HIDE DEF m
      <4> QED BY <1>2, <4>1 DEF TxSet
    <3>2. \/ /\ ends("done")
             /\ held' = CASE txs[i].kind \in {"transfer", "deposit"} -> held - txs[i].amount
                          [] txs[i].kind = "withdraw" /\ setup.custody = "address-keyed" -> held + txs[i].amount
                          [] OTHER -> held
          \/ (ends("short") \/ ends("reverted")) /\ held' = held
      BY DEF TxLands
    <3> HIDE DEF ends
    <3>3. CASE /\ ends("done")
               /\ held' = CASE txs[i].kind \in {"transfer", "deposit"} -> held - txs[i].amount
                            [] txs[i].kind = "withdraw" /\ setup.custody = "address-keyed" -> held + txs[i].amount
                            [] OTHER -> held
      BY <2>4, <3>1, <3>3
    <3>4. CASE (ends("short") \/ ends("reverted")) /\ held' = held
      BY <3>1, <3>4
    <3> QED BY <3>2, <3>3, <3>4
  <2>9. Paying(r)' = IF setup.custody = "address-keyed" /\ txs'[i].state = "done" THEN ret[r].withdraw ELSE 0
    BY <1>1, <2>7 DEF Paying
  <2> QED BY <2>1, <2>4, <2>6, <2>8, <2>9
<1>4. \A r \in Returns : ret'[r].pc = ret[r].pc /\ ret'[r].held = ret[r].held
  BY <1>1
<1> QED BY <1>3, <1>4 DEF HeldFits

LEMMA HeldHolds ==
  ASSUME Shape, OthersTyped, SentFits, PairFits, AtFits, Measured, HeldFits, WalletNext
  PROVE  HeldFits'
<1>0. Typed
  BY DEF Shape
<1>1. ASSUME Steady,
             \A r \in Returns : /\ ret'[r].seen = ret[r].seen /\ ret'[r].held = ret[r].held
                                /\ ret'[r].withdraw = ret[r].withdraw
                                /\ ret'[r].pc \in {"withdrawing", "reading"} =>
                                     ret[r].pc \in {"withdrawing", "reading"}
      PROVE  HeldFits'
  <2>1. held' = held
    BY <1>1 DEF Steady
  <2>2. \A r \in Returns : (Alone(r)' => Alone(r)) /\ Paying(r)' = Paying(r)
    BY <1>1, AloneKept, PayingKept
  <2> QED BY <1>1, <2>1, <2>2 DEF HeldFits
<1>2. CASE Turns \/ NextLeg
  BY <1>1, <1>2, SameSteady DEF Turns, NextLeg, Rest, Same
<1>3. ASSUME NEW n \in Nat \cup {NoNonce}, HandsOver(n)
      PROVE  HeldFits'
  BY <1>1, <1>3, AddSteady DEF HandsOver
<1>4. CASE Ending
  BY <1>1, <1>4, EndingMakes, EndingRets
<1>5. ASSUME NEW i \in DOMAIN txs, Drops(i)
      PROVE  HeldFits'
  BY <1>0, <1>1, <1>5, DropsSteady DEF Drops
<1>6. CASE WalletRestarts
  BY <1>0, <1>1, <1>6, RestartsSteady, RestartsMake
<1>7. CASE Asking
  <2>1. Same /\ Steady /\ held \in Nat
    BY <1>0, <1>7, AskingMakes, SameSteady DEF Typed
  <2>2. ASSUME NEW r \in Returns, Alone(r)', ret'[r].pc \in {"withdrawing", "reading"}
        PROVE  held' = ret'[r].held + Paying(r)'
    <3>1. CASE ret'[r] = ret[r]
      <4>1. Alone(r) /\ Paying(r)' = Paying(r)
        BY <2>1, <2>2, <3>1, AloneKept, PayingKept
      <4> QED BY <2>1, <2>2, <3>1, <4>1 DEF HeldFits, Same
    <3>2. CASE Resolved(r)
      <4>1. ~Came(r)
        BY <1>0, <3>2, WalletAssumption DEF Came, SentFits, KindsFit, Typed, Resolved
      <4>2. Paying(r)' = 0
        BY <2>1, <4>1 DEF Paying, Came, Same
      <4> QED BY <2>1, <3>2, <4>2 DEF Resolved, Same
    <3> QED BY <1>7, <2>2, <3>1, <3>2, AskingRets DEF Begun, Looked, Carried
  <2> QED BY <2>2 DEF HeldFits
<1> QED BY <1>0, <1>2, <1>3, <1>4, <1>5, <1>6, <1>7, Steps, HeldLands DEF Ending, Asking

(* The units of a return in the queue. *)
LEMMA UnitsOf ==
  ASSUME Shape, NEW k \in DOMAIN queue, queue[k].by \in Returns
  PROVE  /\ ret[queue[k].by].pc \in {"withdrawing", "transferring"}
         /\ queue[k].legs[1].kind = "withdraw" <=> ret[queue[k].by].pc = "withdrawing"
         /\ queue[k].legs[1].kind = "transfer" <=> ret[queue[k].by].pc = "transferring"
         /\ queue[k].legs[1].kind = "withdraw" => queue[k].legs[1].amount = ret[queue[k].by].withdraw
                                                  /\ queue[k].legs[1].seen = ret[queue[k].by].seen
         /\ queue[k] \in UnitSet /\ queue[k].legs[1] \in LegSet /\ Len(queue[k].legs) = 1
<1>1. queue[k].by \notin written /\ UnitOK(queue[k]) /\ queue[k] \in UnitSet
  BY WalletAssumption, Sequences DEF Shape, Typed, UnitsFit
<1>2. queue[k].legs \in Seq(LegSet) /\ Len(queue[k].legs) = 1
  BY <1>1 DEF UnitSet, UnitOK
<1>3. queue[k].legs[1] \in LegSet
  BY <1>2
<1> QED BY <1>1, <1>2, <1>3 DEF UnitOK

LEMMA JoinedUnits ==
  ASSUME Typed, NEW by \in Returns \cup Writes, NEW legs \in Seq(LegSet), Queues(by, legs),
         NEW k \in DOMAIN queue'
  PROVE  \/ k \in DOMAIN queue /\ queue'[k] = queue[k]
         \/ queue'[k] = [by |-> by, legs |-> legs]
<1>1. /\ \A j \in DOMAIN queue : queue'[j] = queue[j]
      /\ queue'[Len(queue) + 1] = [by |-> by, legs |-> legs]
      /\ queue' \in Seq(UnitSet) /\ Len(queue') = Len(queue) + 1
      /\ DOMAIN queue = 1..Len(queue) /\ Len(queue) \in Nat
  BY QueuesMake, Sequences
<1>2. k \in DOMAIN queue \/ k = Len(queue) + 1
  BY <1>1
<1> QED BY <1>1, <1>2

(* The units of the returns: as they were, or the one that was planned or is sent. *)
PlannedUnit(r) ==
  [by |-> r, legs |-> <<LegOf("withdraw", WithdrawOf(r, held), ret[r].seen)>>]
SentUnit(r) ==
  [by |-> r, legs |-> <<LegOf("transfer", Least(held, ret[r].transfer), Landed)>>]

LEMMA AskingUnits ==
  ASSUME Shape, OthersTyped, Asking, NEW k \in DOMAIN queue', NEW r \in Returns, queue'[k].by = r
  PROVE  \/ \E j \in DOMAIN queue : queue'[k] = queue[j]
         \/ Plans(r) /\ queue'[k] = PlannedUnit(r)
         \/ Sends(r) /\ queue'[k] = SentUnit(r)
<1>0. Typed
  BY DEF Shape
<1>1. CASE UNCHANGED <<queue, sender>>
  BY <1>1
<1>2. ASSUME NEW q \in Returns, NEW leg \in LegSet, Queues(q, <<leg>>)
      PROVE  \/ \E j \in DOMAIN queue : queue'[k] = queue[j]
             \/ q = r /\ queue'[k] = [by |-> q, legs |-> <<leg>>]
  <2>1. <<leg>> \in Seq(LegSet)
    OBVIOUS
  <2>2. \/ k \in DOMAIN queue /\ queue'[k] = queue[k]
        \/ queue'[k] = [by |-> q, legs |-> <<leg>>]
    BY <1>0, <1>2, <2>1, JoinedUnits
  <2>3. queue'[k] = [by |-> q, legs |-> <<leg>>] => queue'[k].by = q
    OBVIOUS
  <2> QED BY <2>2, <2>3
<1>3. ASSUME NEW q \in Returns, Plans(q)
      PROVE  \/ \E j \in DOMAIN queue : queue'[k] = queue[j]
             \/ q = r /\ queue'[k] = PlannedUnit(q)
  <2> DEFINE leg == LegOf("withdraw", WithdrawOf(q, held), ret[q].seen)
  <2>1. WithdrawOf(q, held) \in Nat /\ ret[q].seen \in Nat
    BY <1>0, PlanTyped DEF Typed, RetSet
  <2>2. leg \in LegSet
    BY <2>1 DEF LegOf, LegSet
  <2>3. Queues(q, <<leg>>) \/ UNCHANGED <<queue, sender>>
    BY <1>3, PlansShape
  <2>4. PlannedUnit(q) = [by |-> q, legs |-> <<leg>>]
    BY DEF PlannedUnit
  <2> HIDE DEF leg
  <2> QED BY <1>1, <1>2, <2>2, <2>3, <2>4
<1>4. ASSUME NEW q \in Returns, Sends(q)
      PROVE  \/ \E j \in DOMAIN queue : queue'[k] = queue[j]
             \/ q = r /\ queue'[k] = SentUnit(q)
  <2> DEFINE leg == LegOf("transfer", Least(held, ret[q].transfer), Landed)
  <2>1. Least(held, ret[q].transfer) \in Nat /\ Landed \in Nat
    BY <1>0, LandedTyped DEF Typed, RetSet, Least
  <2>2. leg \in LegSet
    BY <2>1 DEF LegOf, LegSet
  <2>3. Queues(q, <<leg>>) \/ UNCHANGED <<queue, sender>>
    BY <1>4, SendsShape
  <2>4. SentUnit(q) = [by |-> q, legs |-> <<leg>>]
    BY DEF SentUnit
  <2> HIDE DEF leg
  <2> QED BY <1>1, <1>2, <2>2, <2>3, <2>4
<1>5. ASSUME NEW w \in Writes, WritesTo(w)
      PROVE  \E j \in DOMAIN queue : queue'[k] = queue[j]
  <2>1. PICK legs \in Lists : Queues(w, legs)
    BY <1>5, WritesToShape
  <2>2. legs \in Seq(LegSet) /\ w # r
    BY <1>0, ListsShape, WalletAssumption
  <2>3. queue'[k] = [by |-> w, legs |-> legs] => queue'[k].by = w
    OBVIOUS
  <2> QED BY <1>0, <2>1, <2>2, <2>3, JoinedUnits
<1>6. ASSUME NEW q \in Returns, NEW limit \in {Everything, 1}, AsksFor(q, limit) \/ ReadsFree(q)
      PROVE  UNCHANGED <<queue, sender>>
  BY <1>6 DEF AsksFor, ReadsFree
<1> QED BY <1>1, <1>3, <1>4, <1>5, <1>6 DEF Asking

(* With its own landings only, the wallet can pay all that was planned. *)
LEMMA WholePlan ==
  ASSUME Shape, HeldFits, WordFits, Minded, NEW r \in Returns, ret[r].pc = "reading", Alone(r),
         ret[r].withdraw > 0 => ret[r].withdrawn = "done"
  PROVE  Least(held, ret[r].transfer) = ret[r].transfer
<1>1. /\ ret[r] \in RetSet /\ held \in Nat /\ ret[r].held \in Nat /\ ret[r].withdraw \in Nat
      /\ ret[r].transfer \in Nat
  BY DEF Shape, Typed, RetSet
<1>2. Planned(r)
  BY DEF Minded
<1>3. ret[r].transfer <= ret[r].held + (IF setup.custody = "address-keyed" THEN ret[r].withdraw ELSE 0)
  <2> DEFINE w == WithdrawOf(r, ret[r].held)
             b == Budget(r, ret[r].held)
  <2>1. w = ret[r].withdraw /\ TransferOf(r, ret[r].held) = ret[r].transfer
    BY <1>2 DEF Planned
  <2>2. b \in Nat
    BY <1>1 DEF Budget, RetSet
  <2>3. TransferOf(r, ret[r].held) = Least(ret[r].held + (IF setup.custody = "address-keyed" THEN w ELSE 0), b)
    BY DEF TransferOf
  <2> HIDE DEF w, b
  <2> QED BY <1>1, <2>1, <2>2, <2>3 DEF Least
<1>4. held = ret[r].held + Paying(r)
  BY DEF HeldFits
<1>5. ret[r].withdraw > 0 => Came(r)
  BY DEF WordFits, Became, Came
<1>6. Paying(r) = IF setup.custody = "address-keyed" THEN ret[r].withdraw ELSE 0
  BY <1>1, <1>5 DEF Paying
<1>7. ret[r].transfer <= held
  BY <1>1, <1>3, <1>4, <1>6
<1> QED BY <1>1, <1>7 DEF Least

LEMMA WholeHolds ==
  ASSUME Shape, Shape', OthersTyped, SentFits, SentFits', HeldFits, WordFits, Minded, AtFits, WholeFits, WalletNext
  PROVE  WholeFits'
<1> DEFINE Well(r) == ret[r].withdraw > 0 => ret[r].withdrawn = "done"
<1>0. Typed
  BY DEF Shape
(* The step leaves the return's plan and its word, and adds no unit of it. *)
<1>1. ASSUME Steady, NEW r \in Returns, ret'[r].seen = ret[r].seen,
             ret'[r].withdraw = ret[r].withdraw, ret'[r].transfer = ret[r].transfer,
             ret'[r].withdrawn = ret[r].withdrawn,
             \A k \in DOMAIN queue' : queue'[k].by = r => \E j \in DOMAIN queue : queue'[k] = queue[j],
             Alone(r)', Well(r)'
      PROVE  Whole(r)'
  <2>1. Whole(r)
    BY <1>1, AloneKept DEF WholeFits
  <2>2. ASSUME NEW i \in DOMAIN txs', txs'[i].by = r, txs'[i].kind = "transfer"
        PROVE  txs'[i].amount = ret'[r].transfer
    <3>1. CASE i \in DOMAIN txs
      BY <1>1, <2>1, <2>2, <3>1 DEF Steady, Whole
    <3>2. CASE i \notin DOMAIN txs
      <4>1. queue # <<>> /\ Unit.by = r /\ Leg.kind = "transfer" /\ txs'[i].amount = Leg.amount
        BY <1>1, <2>2, <3>2 DEF Steady
      <4>2. /\ 1 \in DOMAIN queue /\ Unit = queue[1] /\ Leg = Unit.legs[sender.leg] /\ sender.leg = 1
        BY <1>0, <4>1, Sequences, UnitShape DEF Shape
      <4>3. queue[1].by = r /\ queue[1].legs[1].kind = "transfer" /\ queue[1].legs[1] = Leg
        BY <4>1, <4>2
      <4>4. Leg.amount = ret[r].transfer
        BY <2>1, <4>2, <4>3 DEF Whole
      <4> QED BY <1>1, <4>1, <4>4
    <3> QED BY <3>1, <3>2
  <2>3. ASSUME NEW k \in DOMAIN queue', queue'[k].by = r, queue'[k].legs[1].kind = "transfer"
        PROVE  queue'[k].legs[1].amount = ret'[r].transfer
    BY <1>1, <2>1, <2>3 DEF Whole
  <2> QED BY <2>2, <2>3 DEF Whole
(* Nothing is its own. *)
<1>2. ASSUME NEW r \in Returns, \A i \in DOMAIN txs' : txs'[i].by = r => txs'[i].kind # "transfer",
             \A k \in DOMAIN queue' : queue'[k].by = r => queue'[k].legs[1].kind # "transfer"
      PROVE  Whole(r)'
  BY <1>2 DEF Whole
<1>3. ASSUME Steady, UNCHANGED <<queue, ret>>
      PROVE  WholeFits'
  BY <1>1, <1>3 DEF WholeFits
<1>4. CASE Turns \/ NextLeg
  BY <1>3, <1>4, SameSteady DEF Turns, NextLeg, Rest, Same
<1>5. ASSUME NEW n \in Nat \cup {NoNonce}, HandsOver(n)
      PROVE  WholeFits'
  BY <1>3, <1>5, AddSteady DEF HandsOver
<1>6. CASE Ending
  <2>1. Steady /\ \A k \in DOMAIN queue' : k + 1 \in DOMAIN queue /\ queue'[k] = queue[k + 1]
    BY <1>0, <1>6, EndingMakes, DequeuesMake
  <2>2. ASSUME NEW r \in Returns, Alone(r)', Well(r)'
        PROVE  Whole(r)'
    <3>1. CASE ret'[r].withdrawn = ret[r].withdrawn
      BY <1>1, <1>6, <2>1, <2>2, <3>1, EndingRets
    <3>2. CASE ret'[r].withdrawn # ret[r].withdrawn
      <4>1. ret'[r].pc = "reading"
        BY <1>6, <3>2, EndingRets
      <4>2. \A i \in DOMAIN txs' : txs'[i].by = r => txs'[i].kind # "transfer"
        BY <4>1 DEF SentFits, KindsFit
      <4>3. \A k \in DOMAIN queue' : queue'[k].by # r
        <5>1. Typed' /\ UnitsFit'
          BY DEF Shape
        <5>2. r \notin written'
          BY <5>1, WalletAssumption DEF Typed
        <5> QED BY <4>1, <5>1, <5>2 DEF UnitsFit, UnitOK
      <4> QED BY <1>2, <4>2, <4>3
    <3> QED BY <3>1, <3>2
  <2> QED BY <2>2 DEF WholeFits
<1>7. ASSUME NEW i \in DOMAIN txs, Drops(i)
      PROVE  WholeFits'
  BY <1>0, <1>3, <1>7, DropsSteady DEF Drops
<1>8. CASE WalletRestarts
  <2>1. Steady /\ DOMAIN queue' = {}
    BY <1>0, <1>8, RestartsSteady DEF WalletRestarts
  <2>2. ASSUME NEW r \in Returns, Alone(r)', Well(r)'
        PROVE  Whole(r)'
    BY <1>0, <1>1, <1>8, <2>1, <2>2, RestartsMake
  <2> QED BY <2>2 DEF WholeFits
<1>9. ASSUME NEW i \in DOMAIN txs, TxLands(i)
      PROVE  WholeFits'
  <2>1. UNCHANGED <<queue, ret>>
    BY <1>9 DEF TxLands
  <2>2. /\ DOMAIN txs' = DOMAIN txs /\ txs'[i].at = Landed + 1
        /\ \A j \in DOMAIN txs : j # i => txs'[j] = txs[j]
        /\ \A j \in DOMAIN txs : txs'[j].by = txs[j].by /\ txs'[j].kind = txs[j].kind
                                 /\ txs'[j].amount = txs[j].amount
    BY <1>0, <1>9, TxLandsMakes
  <2>3. ASSUME NEW r \in Returns, Alone(r)'
        PROVE  Alone(r)
    <3>1. ret[r].seen <= Landed /\ ret[r].seen \in Nat /\ Landed \in Nat
      BY <1>0, LandedTyped DEF AtFits, Typed, RetSet
    <3>2. txs[i].by = r
      BY <2>1, <2>2, <2>3, <3>1 DEF Alone
    <3> QED BY <2>1, <2>2, <2>3, <3>2 DEF Alone
  <2>4. \A r \in Returns : Whole(r) => Whole(r)'
    BY <2>1, <2>2 DEF Whole
  <2> QED BY <2>1, <2>3, <2>4 DEF WholeFits
<1>10. CASE Asking
  <2>1. Same /\ Steady /\ txs' = txs
    BY <1>10, AskingMakes, SameSteady DEF Same
  <2>2. \/ UNCHANGED <<queue, sender>>
        \/ \E by \in Returns \cup Writes, legs \in Seq(LegSet) : Queues(by, legs)
    BY <1>10, AskingMakes
  <2>3. ASSUME NEW r \in Returns, ret'[r].pc # "transferring"
        PROVE  \A k \in DOMAIN queue' : queue'[k].by = r => queue'[k].legs[1].kind # "transfer"
    <3>1. Typed' /\ UnitsFit'
      BY DEF Shape
    <3>2. r \notin written'
      BY <3>1, WalletAssumption DEF Typed
    <3> QED BY <2>3, <3>1, <3>2 DEF UnitsFit, UnitOK
  <2>4. ASSUME NEW r \in Returns, ret'[r].pc \in {"waiting", "free", "withdrawing", "reading"}
        PROVE  Whole(r)'
    <3>1. r \notin written'
      BY WalletAssumption DEF Shape, Typed
    <3>2. \A i \in DOMAIN txs' : txs'[i].by = r => txs'[i].kind # "transfer"
      BY <2>4, <3>1 DEF SentFits, KindsFit
    <3> QED BY <1>2, <2>3, <2>4, <3>2
  <2>5. ASSUME NEW r \in Returns, Resolved(r)
        PROVE  Whole(r)'
    <3>1. \A i \in DOMAIN txs : txs[i].by # r
      BY <1>0, <2>5, WalletAssumption DEF SentFits, KindsFit, Typed, Resolved
    <3> QED BY <1>2, <2>1, <2>3, <2>5, <3>1 DEF Resolved
  <2>6. ASSUME NEW r \in Returns, Carried(r), Alone(r)', Well(r)'
        PROVE  Whole(r)'
    <3>1. r \notin written /\ Alone(r) /\ Well(r)
      BY <1>0, <2>1, <2>6, AloneKept, WalletAssumption DEF Typed, Carried
    <3>2. \A i \in DOMAIN txs : txs[i].by = r => txs[i].kind # "transfer"
      BY <2>6, <3>1 DEF SentFits, KindsFit, Carried
    <3>3. Least(held, ret[r].transfer) = ret[r].transfer
      BY <2>6, <3>1, WholePlan DEF Carried
    <3>4. CASE ret'[r].pc = "over"
      BY <1>2, <2>1, <2>3, <3>2, <3>4
    <3>5. CASE ret'[r].pc = "transferring"
      <4>1. ASSUME NEW k \in DOMAIN queue', queue'[k].by = r
            PROVE  queue'[k].legs[1].amount = ret'[r].transfer
        <5>1. \A j \in DOMAIN queue : queue[j].by # r
          BY <2>6, UnitsOf DEF Carried
        <5>2. queue'[k] = SentUnit(r)
          BY <1>10, <2>6, <4>1, <5>1, AskingUnits DEF Plans, Carried
        <5>3. queue'[k].legs = <<LegOf("transfer", Least(held, ret[r].transfer), Landed)>>
          BY <5>2 DEF SentUnit
        <5>4. queue'[k].legs[1] = LegOf("transfer", Least(held, ret[r].transfer), Landed)
          BY <5>3
        <5> QED BY <2>6, <3>3, <5>4 DEF LegOf, Carried
      <4> QED BY <2>1, <3>2, <4>1 DEF Whole
    <3> QED BY <2>6, <3>4, <3>5 DEF Carried
  <2>7. ASSUME NEW r \in Returns, ret'[r] = ret[r], Alone(r)', Well(r)', ret[r].pc \notin {"waiting", "free", "withdrawing", "reading"}
        PROVE  Whole(r)'
    <3>1. \A k \in DOMAIN queue' : queue'[k].by = r => \E j \in DOMAIN queue : queue'[k] = queue[j]
      <4>1. ~Plans(r)
        BY <2>7 DEF Plans
      <4>2. ~Sends(r)
        BY <2>7 DEF Sends
      <4> QED BY <1>10, <4>1, <4>2, AskingUnits
    <3> QED BY <1>1, <2>1, <2>7, <3>1
  <2>8. ASSUME NEW r \in Returns, Alone(r)', Well(r)'
        PROVE  Whole(r)'
    <3>1. CASE ret'[r] = ret[r] /\ ret[r].pc \in {"waiting", "free", "withdrawing", "reading"}
      BY <2>4, <3>1
    <3>2. CASE ret'[r] = ret[r] /\ ret[r].pc \notin {"waiting", "free", "withdrawing", "reading"}
      BY <2>7, <2>8, <3>2
    <3>3. CASE Begun(r) \/ Looked(r)
      BY <2>4, <3>3 DEF Begun, Looked
    <3> QED BY <1>10, <2>5, <2>6, <2>8, <3>1, <3>2, <3>3, AskingRets
  <2> QED BY <2>8 DEF WholeFits
<1> QED BY <1>0, <1>4, <1>5, <1>6, <1>7, <1>8, <1>9, <1>10, Steps DEF Ending, Asking

(* What a landing takes from a stock, it takes for a write, for what was given
   up on, or for the leg that is followed. *)
LEMMA LandRobs ==
  ASSUME Shape, SentFits, FlightFits, NEW i \in DOMAIN txs, TxLands(i),
         NEW kind \in {"withdraw", "transfer"}, NEW s \in Nat, s <= Landed
  PROVE  \/ Stock(kind)' >= Stock(kind)
         \/ Thief(s, Landed + 1)'
         \/ /\ sender.pc = "following" /\ sender.tx = i /\ txs[i].by = Unit.by /\ Unit.by \in Returns
            /\ txs[i].kind = kind
<1>0. Typed /\ Landed \in Nat /\ Landed' = Landed + 1 /\ free \in Nat /\ held \in Nat
  BY LandedTyped, LandingCounts DEF Shape, Typed
<1>1. /\ DOMAIN txs' = DOMAIN txs /\ txs[i].state = "pending" /\ txs'[i].at = Landed + 1
      /\ txs'[i].by = txs[i].by /\ txs'[i].left = txs[i].left
      /\ txs[i] \in TxSet
  BY <1>0, TxLandsMakes, Sequences
<1>2. SUFFICES ASSUME ~(Stock(kind)' >= Stock(kind))
               PROVE  \/ Thief(s, Landed + 1)'
                      \/ /\ sender.pc = "following" /\ sender.tx = i /\ txs[i].by = Unit.by /\ Unit.by \in Returns
                         /\ txs[i].kind = kind
  OBVIOUS
<1>3. /\ txs'[i].state = "done"
      /\ kind = "withdraw" => txs[i].kind \in {"withdraw", "order"}
      /\ kind = "transfer" => txs[i].kind \in {"transfer", "deposit"}
  <2> DEFINE m == Landed + 1
             n == txs[i].amount
             ends(state) == txs' = [txs EXCEPT ![i] = [@ EXCEPT !.state = state, !.at = m]]
  <2>1. \A state : ends(state) => txs'[i].state = state
    <3>1. txs \in Seq(TxSet) /\ m \in Nat
      BY <1>0 DEF Typed
    <3> HIDE DEF m
    <3> QED BY <1>1, <3>1 DEF TxSet
  <2>2. \/ /\ ends("done")
           /\ free' = CASE txs[i].kind \in {"withdraw", "order"} -> free - n
                        [] txs[i].kind = "deposit"               -> free + n
                        [] OTHER                                 -> free
           /\ held' = CASE txs[i].kind \in {"transfer", "deposit"} -> held - n
                        [] txs[i].kind = "withdraw" /\ setup.custody = "address-keyed" -> held + n
                        [] OTHER -> held
        \/ (ends("short") \/ ends("reverted")) /\ held' = held /\ free' = free
    BY DEF TxLands
  <2>3. n \in Nat
    BY <1>1 DEF TxSet
  <2> HIDE DEF ends, n
  <2>4. CASE (ends("short") \/ ends("reverted")) /\ held' = held /\ free' = free
    BY <1>0, <1>2, <2>4 DEF Stock
  <2>5. CASE /\ ends("done")
             /\ free' = CASE txs[i].kind \in {"withdraw", "order"} -> free - n
                          [] txs[i].kind = "deposit"               -> free + n
                          [] OTHER                                 -> free
             /\ held' = CASE txs[i].kind \in {"transfer", "deposit"} -> held - n
                          [] txs[i].kind = "withdraw" /\ setup.custody = "address-keyed" -> held + n
                          [] OTHER -> held
    <3>1. txs'[i].state = "done"
      BY <2>1, <2>5
    <3>2. txs[i].kind \notin {"withdraw", "order"} => free' >= free
      BY <1>0, <2>3, <2>5
    <3>3. txs[i].kind \notin {"transfer", "deposit"} => held' >= held
      BY <1>0, <2>3, <2>5
    <3> QED BY <1>2, <3>1, <3>2, <3>3 DEF Stock
  <2> QED BY <2>2, <2>4, <2>5
<1>4. CASE txs[i].by \in Writes \/ txs[i].left
  <2>1. Landed + 1 \in (s + 1)..((Landed' + 1) - 1)
    BY <1>0
  <2>2. \E j \in DOMAIN txs' : /\ txs'[j].at \in (s + 1)..((Landed' + 1) - 1) /\ txs'[j].state = "done"
                               /\ (txs'[j].by \in Writes \/ txs'[j].left)
    BY <1>1, <1>3, <1>4, <2>1
  <2> QED BY <2>2 DEF Thief
<1>5. CASE txs[i].by \notin Writes /\ ~txs[i].left
  <2>1. txs[i].by \in Returns /\ txs[i].kind \in {"withdraw", "transfer"}
    BY <1>0, <1>5 DEF SentFits, KindsFit, Typed
  <2>2. sender.pc = "following" /\ sender.tx = i
    BY <1>1, <1>5 DEF FlightFits, HasLanded
  <2> QED BY <1>3, <2>1, <2>2 DEF Shape, SenderFits
<1> QED BY <1>4, <1>5

LEMMA LandThief ==
  ASSUME Typed, NEW i \in DOMAIN txs, TxLands(i), NEW s \in Nat, NEW u \in Nat, Thief(s, u)
  PROVE  /\ Thief(s, u)'
         /\ u = Landed + 1 => Thief(s, Landed + 1)'
<1>0. Landed \in Nat /\ Landed' = Landed + 1
  BY LandedTyped, LandingCounts
<1>1. PICK j \in DOMAIN txs : /\ txs[j].at \in (s + 1)..(u - 1) /\ txs[j].state = "done"
                              /\ (txs[j].by \in Writes \/ txs[j].left)
  BY DEF Thief
<1>2. j \in DOMAIN txs' /\ txs'[j] = txs[j]
  BY <1>1, TxLandsMakes
<1>3. Thief(s, u)'
  BY <1>1, <1>2 DEF Thief
<1>4. ASSUME u = Landed + 1
      PROVE  Thief(s, Landed + 1)'
  <2>1. txs[j].at \in (s + 1)..((Landed' + 1) - 1)
    BY <1>0, <1>1, <1>4
  <2> QED BY <1>1, <1>2, <2>1 DEF Thief
<1> QED BY <1>3, <1>4

LEMMA FreeRoomHolds ==
  ASSUME Shape, OthersTyped, SentFits, FlightFits, AtFits, FreeRoom, WalletNext
  PROVE  FreeRoom'
<1>0. Typed /\ Landed \in Nat
  BY LandedTyped DEF Shape
<1>1. ASSUME Steady,
             \A r \in Returns : ret'[r].pc = "free" =>
               \/ ret[r].pc = "free" /\ ret'[r].seen = ret[r].seen /\ ret'[r].free = ret[r].free
               \/ ret'[r].free = free
      PROVE  FreeRoom'
  <2>1. Landed' = Landed /\ free' = free /\ free \in Nat
    BY <1>0, <1>1, SteadyLanded DEF Steady, Typed
  <2>2. ASSUME NEW r \in Returns, ret'[r].pc = "free", NEW s, s = ret'[r].seen,
               NEW u, u = Landed + 1
        PROVE  free' >= ret'[r].free \/ Thief(s, u)'
    <3>1. CASE ret'[r].free = free
      BY <2>1, <3>1
    <3>2. CASE ret[r].pc = "free" /\ ret'[r].seen = ret[r].seen /\ ret'[r].free = ret[r].free
      <4>1. s \in Nat /\ u \in Nat
        BY <1>0, <2>2, <3>2 DEF Typed, RetSet
      <4>2. free >= ret[r].free \/ Thief(s, u)
        BY <2>2, <3>2 DEF FreeRoom
      <4>3. Thief(s, u) => Thief(s, u)'
        BY <1>1, <4>1, SteadyThief
      <4> QED BY <2>1, <3>2, <4>2, <4>3
    <3> QED BY <1>1, <2>2, <3>1, <3>2
  <2> QED BY <2>1, <2>2 DEF FreeRoom, Thief
<1>2. CASE Turns \/ NextLeg
  BY <1>1, <1>2, SameSteady DEF Turns, NextLeg, Rest, Same
<1>3. ASSUME NEW n \in Nat \cup {NoNonce}, HandsOver(n)
      PROVE  FreeRoom'
  BY <1>1, <1>3, AddSteady DEF HandsOver
<1>4. CASE Ending
  BY <1>1, <1>4, EndingMakes, EndingRets
<1>5. CASE Asking
  <2>1. Steady
    BY <1>5, AskingMakes, SameSteady
  <2>2. \A r \in Returns : ret'[r].pc = "free" =>
          \/ ret[r].pc = "free" /\ ret'[r].seen = ret[r].seen /\ ret'[r].free = ret[r].free
          \/ ret'[r].free = free
    BY <1>5, AskingRets DEF Begun, Looked, Resolved, Carried
  <2> QED BY <1>1, <2>1, <2>2
<1>6. ASSUME NEW i \in DOMAIN txs, Drops(i)
      PROVE  FreeRoom'
  BY <1>0, <1>1, <1>6, DropsSteady DEF Drops
<1>7. CASE WalletRestarts
  <2>1. \A r \in Returns : ret'[r].pc # "free"
    BY <1>0, <1>7, RestartsMake
  <2> QED BY <2>1 DEF FreeRoom
<1>8. ASSUME NEW i \in DOMAIN txs, TxLands(i)
      PROVE  FreeRoom'
  <2>1. ret' = ret
    BY <1>8 DEF TxLands
  <2>2. ASSUME NEW r \in Returns, ret[r].pc = "free", NEW s, s = ret[r].seen
        PROVE  free' >= ret[r].free \/ Thief(s, Landed + 1)'
    <3>1. s \in Nat /\ s <= Landed /\ free \in Nat /\ ret[r].free \in Nat /\ free' \in Nat
      BY <1>0, <2>2 DEF Typed, RetSet, AtFits, OthersTyped
    <3>2. CASE Thief(s, Landed + 1)
      BY <1>0, <1>8, <3>1, <3>2, LandThief
    <3>3. CASE free >= ret[r].free
      <4>1. Stock("withdraw")' = free' /\ Stock("withdraw") = free
        BY DEF Stock
      <4>2. ~(/\ sender.pc = "following" /\ sender.tx = i /\ txs[i].by = Unit.by /\ Unit.by \in Returns
              /\ txs[i].kind = "withdraw")
        <5> SUFFICES ASSUME sender.pc = "following", Unit.by \in Returns
                     PROVE  FALSE
          OBVIOUS
        <5>1. ret[Unit.by].pc \in {"withdrawing", "transferring"} /\ ret[Unit.by].pc \in Working
          BY UnitShape DEF Shape, SenderFits
        <5>2. turns[1] = Unit.by /\ turns[1] = r
          BY <2>2, <5>1 DEF Shape, LockFits, Working
        <5> QED BY <2>2, <5>1, <5>2
      <4>3. free' >= free \/ Thief(s, Landed + 1)'
        BY <1>8, <3>1, <4>1, <4>2, LandRobs
      <4> QED BY <3>1, <3>3, <4>3
    <3> QED BY <2>2, <3>2, <3>3 DEF FreeRoom
  <2> QED BY <2>1, <2>2 DEF FreeRoom, Thief
<1> QED BY <1>0, <1>2, <1>3, <1>4, <1>5, <1>6, <1>7, <1>8, Steps DEF Ending, Asking

LEMMA QueueRoomHolds ==
  ASSUME Shape, OthersTyped, SentFits, FlightFits, AtFits, FreeRoom, QueueRoom, WalletNext
  PROVE  QueueRoom'
<1>0. Typed /\ Landed \in Nat /\ free \in Nat /\ held \in Nat
  BY LandedTyped DEF Shape, Typed
<1>1. ASSUME Steady, NEW j \in DOMAIN queue, NEW u, u = queue[j], u.by \in Returns, Untold(u)'
      PROVE  Roomy(u)'
  <2>1. Landed' = Landed /\ free' = free /\ held' = held
    BY <1>0, <1>1, SteadyLanded DEF Steady
  <2>2. Untold(u)
    BY <1>1 DEF Untold, HasLanded, Steady
  <2>3. Roomy(u)
    BY <1>1, <2>2 DEF QueueRoom
  <2> DEFINE s == u.legs[1].seen
  <2>4. s \in Nat
    BY <1>0, <1>1, UnitsOf DEF LegSet
  <2>5. Stock(u.legs[1].kind)' = Stock(u.legs[1].kind)
    BY <2>1 DEF Stock
  <2> HIDE DEF s
  <2>6. ASSUME NEW m, m = Landed + 1, Thief(s, m)
        PROVE  Thief(s, Landed + 1)'
    <3>1. Thief(s, m)'
      BY <1>0, <1>1, <2>4, <2>6, SteadyThief
    <3> QED BY <2>1, <2>6, <3>1 DEF Thief
  <2> QED BY <2>3, <2>5, <2>6 DEF Roomy, s
<1>2. ASSUME Steady, \A k \in DOMAIN queue' : \E j \in DOMAIN queue : queue'[k] = queue[j]
      PROVE  QueueRoom'
  <2>1. ASSUME NEW k \in DOMAIN queue', NEW u, u = queue'[k], u.by \in Returns, Untold(u)'
        PROVE  Roomy(u)'
    BY <1>1, <1>2, <2>1
  <2> QED BY <2>1 DEF QueueRoom, Untold, HasLanded, Roomy, Thief, Stock
<1>3. CASE Turns \/ NextLeg
  BY <1>2, <1>3, SameSteady DEF Turns, NextLeg, Rest, Same
<1>4. ASSUME NEW n \in Nat \cup {NoNonce}, HandsOver(n)
      PROVE  QueueRoom'
  BY <1>2, <1>4, AddSteady DEF HandsOver
<1>5. CASE Ending
  BY <1>0, <1>2, <1>5, EndingMakes, DequeuesMake
<1>6. ASSUME NEW i \in DOMAIN txs, Drops(i)
      PROVE  QueueRoom'
  BY <1>0, <1>2, <1>6, DropsSteady DEF Drops
<1>7. CASE WalletRestarts
  <2>1. DOMAIN queue' = {}
    BY <1>7 DEF WalletRestarts
  <2> QED BY <2>1 DEF QueueRoom
<1>8. CASE Asking
  <2>1. Steady /\ Landed' = Landed /\ txs' = txs /\ free' = free /\ held' = held
    BY <1>0, <1>8, AskingMakes, SameSteady, SteadyLanded DEF Same
  <2>2. ASSUME NEW r \in Returns, Plans(r), NEW u, u = PlannedUnit(r)
        PROVE  Roomy(u)'
    <3>1. /\ ret[r].pc = "free" /\ WithdrawOf(r, held) \in Nat /\ WithdrawOf(r, held) <= ret[r].free
          /\ ret[r].free \in Nat
      BY <1>0, <2>2, PlanTyped DEF Plans, Typed, RetSet
    <3>2. u.legs = <<LegOf("withdraw", WithdrawOf(r, held), ret[r].seen)>>
      BY <2>2 DEF PlannedUnit
    <3>3. u.legs[1] = LegOf("withdraw", WithdrawOf(r, held), ret[r].seen)
      BY <3>2
    <3>4. /\ u.legs[1].kind = "withdraw" /\ u.legs[1].amount = WithdrawOf(r, held)
          /\ u.legs[1].seen = ret[r].seen
      BY <3>3 DEF LegOf
    <3>5. free >= WithdrawOf(r, held) \/ Thief(ret[r].seen, Landed + 1)
      BY <1>0, <3>1 DEF FreeRoom
    <3>6. Roomy(u)
      BY <3>4, <3>5 DEF Roomy, Stock
    <3> QED BY <2>1, <3>6 DEF Roomy, Stock, Thief
  <2>3. ASSUME NEW r \in Returns, Sends(r), NEW u, u = SentUnit(r)
        PROVE  Roomy(u)'
    <3>1. Least(held, ret[r].transfer) <= held
      BY <1>0 DEF Least, Typed, RetSet
    <3>2. u.legs = <<LegOf("transfer", Least(held, ret[r].transfer), Landed)>>
      BY <2>3 DEF SentUnit
    <3>3. u.legs[1] = LegOf("transfer", Least(held, ret[r].transfer), Landed)
      BY <3>2
    <3>4. u.legs[1].kind = "transfer" /\ u.legs[1].amount = Least(held, ret[r].transfer)
      BY <3>3 DEF LegOf
    <3>5. Least(held, ret[r].transfer) \in Nat
      BY <1>0 DEF Least, Typed, RetSet
    <3>6. Roomy(u)
      BY <1>0, <3>1, <3>4, <3>5 DEF Roomy, Stock
    <3> QED BY <2>1, <3>6 DEF Roomy, Stock, Thief
  <2>4. ASSUME NEW k \in DOMAIN queue', NEW u, u = queue'[k], u.by \in Returns, Untold(u)'
        PROVE  Roomy(u)'
    BY <1>1, <1>8, <2>1, <2>2, <2>3, <2>4, AskingUnits
  <2> QED BY <2>4 DEF QueueRoom, Untold, HasLanded, Roomy, Thief, Stock
<1>9. ASSUME NEW i \in DOMAIN txs, TxLands(i)
      PROVE  QueueRoom'
  <2>1. queue' = queue
    BY <1>9 DEF TxLands
  <2>2. ASSUME NEW k \in DOMAIN queue, NEW u, u = queue[k], u.by \in Returns, Untold(u)'
        PROVE  Roomy(u)'
    <3>1. /\ u.legs[1].kind \in {"withdraw", "transfer"} /\ u.legs[1].seen \in Nat
          /\ u.legs[1].amount \in Nat /\ ret[u.by].pc \in {"withdrawing", "transferring"}
          /\ u.legs[1].seen <= Landed
      <4>1. /\ u.legs[1] \in LegSet /\ ret[u.by].pc \in {"withdrawing", "transferring"}
            /\ Len(u.legs) = 1 /\ u \in UnitSet
            /\ u.legs[1].kind = "withdraw" <=> ret[u.by].pc = "withdrawing"
            /\ u.legs[1].kind = "transfer" <=> ret[u.by].pc = "transferring"
        BY <2>2, UnitsOf
      <4>2. 1 \in DOMAIN u.legs
        BY <4>1 DEF UnitSet
      <4> QED BY <2>2, <4>1, <4>2 DEF LegSet, AtFits
    <3>2. /\ DOMAIN txs' = DOMAIN txs /\ \A j \in DOMAIN txs : j # i => txs'[j] = txs[j]
          /\ txs[i].state = "pending" /\ txs'[i].state \in {"done", "short", "reverted"}
          /\ txs'[i].by = txs[i].by /\ txs'[i].kind = txs[i].kind
      BY <1>0, <1>9, TxLandsMakes
    <3>3. ~(txs[i].by = u.by /\ txs[i].kind = u.legs[1].kind) /\ Untold(u)
      BY <2>2, <3>2 DEF Untold, HasLanded
    <3>4. Roomy(u)
      BY <2>2, <3>3 DEF QueueRoom
    <3>5. CASE Thief(u.legs[1].seen, Landed + 1)
      <4> DEFINE s == u.legs[1].seen
      <4>1. s \in Nat /\ Thief(s, Landed + 1)
        BY <3>1, <3>5
      <4> HIDE DEF s
      <4>2. Thief(s, Landed + 1)'
        BY <1>0, <1>9, <4>1, LandThief
      <4> QED BY <4>2 DEF Roomy, s
    <3>6. CASE Stock(u.legs[1].kind) >= u.legs[1].amount
      <4> DEFINE s == u.legs[1].seen
                 kind == u.legs[1].kind
      <4>1. s \in Nat /\ s <= Landed /\ kind \in {"withdraw", "transfer"}
        BY <3>1
      <4> HIDE DEF s, kind
      <4>2. ~(/\ sender.pc = "following" /\ sender.tx = i /\ txs[i].by = Unit.by /\ Unit.by \in Returns
              /\ txs[i].kind = kind)
        <5> SUFFICES ASSUME sender.pc = "following", Unit.by \in Returns, txs[i].by = Unit.by, txs[i].kind = kind
                     PROVE  FALSE
          OBVIOUS
        <5>1. ret[Unit.by].pc \in Working
          BY UnitShape DEF Shape, SenderFits
        <5>2. turns[1] = Unit.by /\ turns[1] = u.by
          BY <2>2, <3>1, <5>1 DEF Shape, LockFits, Working
        <5> QED BY <3>3, <5>2 DEF kind
      <4>3. Stock(kind)' >= Stock(kind) \/ Thief(s, Landed + 1)'
        BY <1>9, <4>1, <4>2, LandRobs
      <4>4. Stock(kind) \in Nat /\ Stock(kind)' \in Nat /\ u.legs[1].amount \in Nat
        BY <1>0, <3>1 DEF Stock, OthersTyped
      <4>5. CASE Thief(s, Landed + 1)'
        BY <4>5 DEF Roomy, s
      <4>6. CASE Stock(kind)' >= Stock(kind)
        <5>1. Stock(kind)' >= u.legs[1].amount
          BY <3>6, <4>4, <4>6 DEF kind
        <5> QED BY <5>1 DEF Roomy, kind
      <4> QED BY <4>3, <4>5, <4>6
    <3> QED BY <3>4, <3>5, <3>6 DEF Roomy
  <2> QED BY <2>1, <2>2 DEF QueueRoom, Untold, HasLanded, Roomy, Thief, Stock
<1> QED BY <1>0, <1>3, <1>4, <1>5, <1>6, <1>7, <1>8, <1>9, Steps DEF Ending, Asking

LEMMA ShortHolds ==
  ASSUME Shape, OthersTyped, SentFits, Paired, FlightFits, QueueRoom, ShortFits, WalletNext
  PROVE  ShortFits'
<1>0. Typed /\ Landed \in Nat /\ free \in Nat /\ held \in Nat
  BY LandedTyped DEF Shape, Typed
<1>1. CASE Steady
  BY <1>0, <1>1, SteadyShort
<1>2. ASSUME NEW i \in DOMAIN txs, TxLands(i)
      PROVE  ShortFits'
  <2>1. /\ DOMAIN txs' = DOMAIN txs /\ \A j \in DOMAIN txs : j # i => txs'[j] = txs[j]
        /\ txs[i].state = "pending" /\ txs'[i].at = Landed + 1 /\ txs[i] \in TxSet
        /\ txs'[i].by = txs[i].by /\ txs'[i].kind = txs[i].kind /\ txs'[i].left = txs[i].left
        /\ txs'[i].seen = txs[i].seen
    BY <1>0, <1>2, TxLandsMakes, Sequences
  <2>2. ASSUME NEW j \in DOMAIN txs, j # i, NEW t, t = txs[j], t.by \in Returns, t.state = "short", ~t.left
        PROVE  Thief(t.seen, t.at)'
    <3>1. t.seen \in Nat /\ t.at \in Nat /\ Thief(t.seen, t.at)
      BY <1>0, <2>2, Sequences DEF ShortFits, TxSet
    <3> QED BY <1>0, <1>2, <3>1, LandThief
  <2>3. ASSUME txs[i].by \in Returns, txs'[i].state = "short", ~txs[i].left, NEW s, s = txs[i].seen,
               NEW u, u = Landed + 1
        PROVE  Thief(s, u)'
    <3>1. sender.pc = "following" /\ sender.tx = i /\ queue # <<>>
      BY <2>1, <2>3 DEF FlightFits, HasLanded, Shape, SenderFits
    <3>2. /\ txs[i].by = Unit.by /\ txs[i].kind = Leg.kind /\ txs[i].amount = Leg.amount
          /\ txs[i].seen = Leg.seen
      BY <3>1 DEF Shape, SenderFits
    <3>3. /\ Unit = queue[1] /\ 1 \in DOMAIN queue /\ Leg = Unit.legs[1] /\ Leg \in LegSet
          /\ Leg.kind \in {"withdraw", "transfer"}
      <4>1. /\ Leg \in LegSet /\ Leg = Unit.legs[sender.leg] /\ sender.leg = 1
            /\ ret[Unit.by].pc \in {"withdrawing", "transferring"}
            /\ Leg.kind = "withdraw" <=> ret[Unit.by].pc = "withdrawing"
            /\ Leg.kind = "transfer" <=> ret[Unit.by].pc = "transferring"
        BY <2>3, <3>1, <3>2, UnitShape DEF Shape
      <4> QED BY <1>0, <3>1, <4>1, Sequences
    <3>4. Untold(Unit)
      <4>1. \A j \in DOMAIN txs : j \in Nat
        BY <1>0, Sequences
      <4>2. \A j \in DOMAIN txs : txs[j].by = Unit.by /\ txs[j].kind = Leg.kind => j = i
        BY <3>2, <4>1 DEF Paired
      <4> QED BY <2>1, <3>3, <4>2 DEF Untold, HasLanded
    <3>5. Roomy(Unit)
      BY <2>3, <3>2, <3>3, <3>4 DEF QueueRoom
    <3>6. ~Paid(i)
      <4> DEFINE m == Landed + 1
                 ends(state) == txs' = [txs EXCEPT ![i] = [@ EXCEPT !.state = state, !.at = m]]
      <4>1. \A state : ends(state) => txs'[i].state = state
        <5>1. txs \in Seq(TxSet) /\ m \in Nat
          BY <1>0 DEF Typed
        <5> HIDE DEF m
        <5> QED BY <2>1, <5>1 DEF TxSet
      <4>2. \/ Paid(i) /\ ends("done")
            \/ ~Paid(i)
            \/ ends("reverted")
        BY <1>2 DEF TxLands
      <4> HIDE DEF ends
      <4> QED BY <2>3, <4>1, <4>2
    <3>7. ~(Stock(Leg.kind) >= Leg.amount)
      BY <3>2, <3>3, <3>6 DEF Paid, Stock
    <3>8. Thief(Leg.seen, Landed + 1)
      BY <3>3, <3>5, <3>7 DEF Roomy
    <3>9. Thief(s, u) /\ s \in Nat /\ u \in Nat
      BY <1>0, <2>3, <3>2, <3>3, <3>8 DEF LegSet
    <3> QED BY <1>0, <1>2, <3>9, LandThief
  <2>4. ASSUME NEW j \in DOMAIN txs', NEW t, t = txs'[j], t.by \in Returns, t.state = "short", ~t.left
        PROVE  Thief(t.seen, t.at)'
    <3>1. CASE j # i
      BY <2>1, <2>2, <2>4, <3>1
    <3>2. CASE j = i
      <4> DEFINE s == t.seen
                 u == t.at
      <4>1. s = txs[i].seen /\ u = Landed + 1 /\ txs[i].by \in Returns /\ txs'[i].state = "short" /\ ~txs[i].left
        BY <2>1, <2>4, <3>2
      <4> HIDE DEF s, u
      <4>2. Thief(s, u)'
        BY <2>3, <4>1
      <4> QED BY <4>2 DEF s, u
    <3> QED BY <3>1, <3>2
  <2> QED BY <2>4 DEF ShortFits, Thief
<1>3. CASE Turns \/ NextLeg
  BY <1>1, <1>3, SameSteady DEF Turns, NextLeg, Rest, Same
<1>4. ASSUME NEW n \in Nat \cup {NoNonce}, HandsOver(n)
      PROVE  Steady
  BY <1>4, AddSteady DEF HandsOver
<1>5. CASE Ending
  BY <1>1, <1>5, EndingMakes
<1>6. CASE Asking
  BY <1>1, <1>6, AskingMakes, SameSteady
<1>7. ASSUME NEW i \in DOMAIN txs, Drops(i)
      PROVE  Steady
  BY <1>0, <1>7, DropsSteady
<1>8. CASE WalletRestarts
  BY <1>0, <1>1, <1>8, RestartsSteady
<1> QED BY <1>0, <1>1, <1>2, <1>3, <1>4, <1>5, <1>6, <1>7, <1>8, Steps DEF Ending, Asking

(* The nonces. *)
LEMMA GapSame ==
  ASSUME Typed, Gapless, Typed', DOMAIN txs' = DOMAIN txs, Len(txs') = Len(txs),
         \A i \in DOMAIN txs : txs'[i].nonce = txs[i].nonce /\ (txs[i].left => txs'[i].left),
         lastNonce' = lastNonce \/ \A i \in DOMAIN txs : txs'[i].left,
         lastNonce' = lastNonce \/ lastNonce' = NoNonce,
         setup' = setup,
         \/ sender'.pc = sender.pc /\ sender'.nonce = sender.nonce
         \/ sender'.pc # "signing" /\ (setup.path = "sponsored" => sender'.pc # "numbering")
  PROVE  Gapless'
<1>1. Signed' = Signed
  BY DEF Signed
<1>2. /\ setup.path = "sponsored" => Signed = {} /\ sender.pc \notin {"numbering", "signing"}
      /\ setup.path # "sponsored" => Signed = DOMAIN txs
      /\ sender.pc = "signing" => sender.nonce \in Nat
  BY DEF Gapless
<1>3. /\ setup'.path = "sponsored" => Signed' = {} /\ sender'.pc \notin {"numbering", "signing"}
      /\ setup'.path # "sponsored" => Signed' = DOMAIN txs'
      /\ sender'.pc = "signing" => sender'.nonce \in Nat
  BY <1>1, <1>2
<1>4. ASSUME \A i \in Signed' : ~txs'[i].left
      PROVE  /\ \A i \in Signed' : txs'[i].nonce = i - 1
             /\ lastNonce' = IF Signed' = {} THEN NoNonce ELSE Len(txs') - 1
             /\ sender'.pc = "signing" => sender'.nonce = Len(txs')
  <2>1. \A i \in Signed : i \in DOMAIN txs
    BY DEF Signed
  <2>2. \A i \in Signed : ~txs[i].left
    BY <1>1, <1>4, <2>1
  <2>3. /\ \A i \in Signed : txs[i].nonce = i - 1
        /\ lastNonce = IF Signed = {} THEN NoNonce ELSE Len(txs) - 1
        /\ sender.pc = "signing" => sender.nonce = Len(txs)
    BY <2>2 DEF Gapless
  <2>4. lastNonce' = IF Signed' = {} THEN NoNonce ELSE Len(txs') - 1
    BY <1>1, <1>4, <2>1, <2>3
  <2> QED BY <1>1, <2>1, <2>3, <2>4
<1> QED BY <1>3, <1>4 DEF Gapless

LEMMA DequeuesTo ==
  ASSUME Dequeues
  PROVE  /\ sender'.pc # "signing"
         /\ setup.path = "sponsored" => sender'.pc # "numbering"
<1>1. sender' = [Quiet EXCEPT !.pc = Entry] \/ sender' = Quiet
  BY DEF Dequeues
<1>2. sender'.pc \in {"idle", Entry}
  BY <1>1 DEF Quiet
<1> QED BY <1>2 DEF Entry

LEMMA PendingBound ==
  ASSUME Typed
  PROVE  Pending \in Nat /\ Pending <= Len(txs)
<1> DEFINE P == {i \in Signed : txs[i].state # "dropped"}
<1>1. DOMAIN txs = 1..Len(txs) /\ Len(txs) \in Nat
  BY Sequences
<1> DEFINE L == Len(txs)
<1>3. P \subseteq 1..L
  BY <1>1 DEF Signed
<1>6. L \in Nat
  BY <1>1
<1> HIDE DEF L
<1>7. 1 \in Int /\ L \in Int
  BY <1>6
<1>8. IsFiniteSet(1..L)
  BY <1>7, FS_Interval
<1>9. Cardinality(1..L) = IF 1 > L THEN 0 ELSE L - 1 + 1
  BY <1>7, FS_Interval
<1>2. IsFiniteSet(1..L) /\ Cardinality(1..L) = L
  BY <1>6, <1>8, <1>9
<1> HIDE DEF P
<1>4. IsFiniteSet(P) /\ Cardinality(P) <= Cardinality(1..L)
  BY <1>2, <1>3, FS_Subset
<1>5. Cardinality(P) \in Nat
  BY <1>4, FS_CardinalityType
<1> QED BY <1>2, <1>4, <1>5 DEF P, Pending, L

LEMMA GapSends ==
  ASSUME Shape, Shape', Gapless, Sponsors
  PROVE  Gapless'
<1>0. Typed /\ Typed' /\ setup' = setup /\ lastNonce' = lastNonce /\ sender.pc \in {"sponsoring", "again"}
      /\ sender \in SenderSet
  BY DEF Shape, Sponsors, Typed
<1>1. CASE txs' = txs
  <2>1. sender'.pc # "signing" /\ (setup.path = "sponsored" => sender'.pc # "numbering")
    <3>1. CASE setup.path = "sponsored" /\ Takes(NoNonce)
      <4>1. txs \in Seq(TxSet)
        BY <1>0 DEF Typed
      <4>2. Throws \/ sender' = [sender EXCEPT !.pc = "following", !.tx = Len(txs) + 1]
        BY <3>1 DEF Takes
      <4>3. sender' = [sender EXCEPT !.pc = "following", !.tx = Len(txs) + 1] => sender'.pc = "following"
        BY <1>0 DEF SenderSet
      <4> QED BY <4>2, <4>3, DequeuesTo DEF Throws
    <3>2. CASE Refused
      BY <3>2, DequeuesTo DEF Refused, Throws
    <3>3. CASE setup.path = "refused" /\ sender' = [sender EXCEPT !.pc = "numbering"]
      BY <1>0, <3>3 DEF SenderSet
    <3>4. CASE AsksAgain
      BY <1>0, <3>4 DEF AsksAgain, SenderSet
    <3> QED BY <3>1, <3>2, <3>3, <3>4 DEF Sponsors
  <2> QED BY <1>0, <1>1, <2>1, GapSame
<1>2. ASSUME NEW left \in BOOLEAN, setup.path = "sponsored", txs' = Append(txs, Tx(NoNonce, left)),
             \/ Throws \/ sender' = [sender EXCEPT !.pc = "following", !.tx = Len(txs) + 1]
      PROVE  Gapless'
  <2>1. Ready /\ Rest
    BY <1>0 DEF Ready, Sponsors, Rest
  <2>2. /\ DOMAIN txs' = DOMAIN txs \cup {Len(txs) + 1}
        /\ \A i \in DOMAIN txs : txs'[i] = txs[i]
        /\ txs'[Len(txs) + 1].nonce = NoNonce
    BY <1>2, <2>1, AddSteady
  <2>3. Signed' = {} /\ Signed = {}
    BY <1>2, <2>2 DEF Gapless, Signed
  <2>4. lastNonce = NoNonce
    BY <2>3 DEF Gapless
  <2>5. sender'.pc \notin {"signing", "numbering"}
    <3>1. sender' = [sender EXCEPT !.pc = "following", !.tx = Len(txs) + 1] => sender'.pc = "following"
      BY <1>0 DEF SenderSet
    <3> QED BY <1>2, <3>1, DequeuesTo DEF Throws
  <2> QED BY <1>0, <1>2, <2>3, <2>4, <2>5 DEF Gapless
<1>3. \/ txs' = txs
      \/ \E left \in BOOLEAN :
           /\ setup.path = "sponsored" /\ txs' = Append(txs, Tx(NoNonce, left))
           /\ \/ Throws \/ sender' = [sender EXCEPT !.pc = "following", !.tx = Len(txs) + 1]
  BY DEF Sponsors, Takes, Refused, AsksAgain
<1> QED BY <1>1, <1>2, <1>3

LEMMA GapNumbers ==
  ASSUME Shape, Gapless, Numbers
  PROVE  Gapless'
<1>0. /\ Typed /\ setup' = setup /\ lastNonce' = lastNonce /\ txs' = txs /\ sender.pc = "numbering"
      /\ lastNonce \in Nat \cup {NoNonce} /\ sender \in SenderSet
  BY DEF Shape, Numbers, Typed
<1>1. PICK n \in {Pending, Pending - 1} \cap Nat : sender' = [sender EXCEPT !.pc = "signing", !.nonce = NonceOf(n)]
  BY DEF Numbers
<1>2. NonceOf(n) \in Nat
  BY <1>0 DEF NonceOf, Most
<1>3. sender'.pc = "signing" /\ sender'.nonce = NonceOf(n)
  <2> DEFINE m == NonceOf(n)
  <2>1. sender' = [sender EXCEPT !.pc = "signing", !.nonce = m]
    BY <1>1
  <2> HIDE DEF m
  <2>2. sender'.pc = "signing" /\ sender'.nonce = m
    BY <1>0, <2>1 DEF SenderSet
  <2> QED BY <2>2 DEF m
<1>4. setup.path # "sponsored" /\ Signed = DOMAIN txs /\ Signed' = Signed
  BY <1>0 DEF Gapless, Signed
<1>5. ASSUME \A i \in Signed : ~txs[i].left
      PROVE  NonceOf(n) = Len(txs)
  <2>1. lastNonce = IF Signed = {} THEN NoNonce ELSE Len(txs) - 1
    BY <1>5 DEF Gapless
  <2>2. /\ Pending \in Nat /\ Pending <= Len(txs) /\ n <= Len(txs) /\ Len(txs) \in Nat
        /\ DOMAIN txs = 1..Len(txs)
    BY <1>0, PendingBound, Sequences
  <2>3. CASE Signed = {}
    <3>1. Len(txs) = 0
      BY <1>4, <2>2, <2>3
    <3> QED BY <2>1, <2>2, <2>3, <3>1 DEF NonceOf
  <2>4. CASE Signed # {}
    <3>1. Len(txs) > 0 /\ lastNonce = Len(txs) - 1 /\ lastNonce # NoNonce
      BY <1>4, <2>1, <2>2, <2>4, WalletAssumption
    <3> DEFINE L == Len(txs)
    <3>2. L \in Nat /\ n \in Nat /\ n <= L /\ lastNonce = L - 1
      BY <2>2, <3>1
    <3> HIDE DEF L
    <3>3. lastNonce + 1 = L
      BY <3>2
    <3>4. Most(n, L) = L
      BY <3>2 DEF Most
    <3>5. NonceOf(n) = Most(n, lastNonce + 1)
      BY <3>1 DEF NonceOf
    <3>6. NonceOf(n) = L
      BY <3>3, <3>4, <3>5
    <3> QED BY <3>6 DEF L
  <2> QED BY <2>3, <2>4
<1>6. ASSUME \A i \in Signed : ~txs[i].left
      PROVE  /\ \A i \in Signed : txs[i].nonce = i - 1
             /\ lastNonce = IF Signed = {} THEN NoNonce ELSE Len(txs) - 1
  BY <1>6 DEF Gapless
<1> QED BY <1>0, <1>2, <1>3, <1>4, <1>5, <1>6 DEF Gapless

LEMMA GapBroadcasts ==
  ASSUME Shape, Shape', Gapless, Broadcasts
  PROVE  Gapless'
<1>0. /\ Typed /\ Typed' /\ setup' = setup /\ sender.pc = "signing" /\ sender \in SenderSet
      /\ setup.path # "sponsored" /\ sender.nonce \in Nat /\ sender.nonce # NoNonce
      /\ Signed = DOMAIN txs
  BY WalletAssumption DEF Shape, Broadcasts, Typed, Gapless
<1>1. CASE txs' = txs
  <2>1. lastNonce' = lastNonce
    BY <1>1 DEF Broadcasts
  <2>2. sender'.pc # "signing"
    <3>1. sender' = [sender EXCEPT !.pc = "following", !.tx = Len(txs) + 1] => sender'.pc = "following"
      BY <1>0 DEF SenderSet
    <3>2. Throws \/ sender' = [sender EXCEPT !.pc = "following", !.tx = Len(txs) + 1]
      BY DEF Broadcasts, Takes, Refused
    <3> QED BY <3>1, <3>2, DequeuesTo DEF Throws
  <2> QED BY <1>0, <1>1, <2>1, <2>2, GapSame
<1>2. ASSUME NEW left \in BOOLEAN, txs' = Append(txs, Tx(sender.nonce, left)),
             left \/ sender' = [sender EXCEPT !.pc = "following", !.tx = Len(txs) + 1],
             Throws \/ sender' = [sender EXCEPT !.pc = "following", !.tx = Len(txs) + 1]
      PROVE  Gapless'
  <2>1. Ready /\ Rest
    BY <1>0 DEF Ready, Broadcasts, Rest
  <2>2. /\ DOMAIN txs' = DOMAIN txs \cup {Len(txs) + 1} /\ Len(txs) + 1 \notin DOMAIN txs
        /\ \A i \in DOMAIN txs : txs'[i] = txs[i]
        /\ txs'[Len(txs) + 1].nonce = sender.nonce /\ txs'[Len(txs) + 1].left = left
    BY <1>0, <1>2, <2>1, AddSteady
  <2>3. Len(txs) \in Nat /\ Len(txs') = Len(txs) + 1
    BY <1>0, <1>2, Sequences DEF Typed
  <2>4. Signed' = DOMAIN txs'
    BY <1>0, <2>2 DEF Signed
  <2>5. sender'.pc # "signing"
    <3>1. sender' = [sender EXCEPT !.pc = "following", !.tx = Len(txs) + 1] => sender'.pc = "following"
      BY <1>0 DEF SenderSet
    <3> QED BY <1>2, <3>1, DequeuesTo DEF Throws
  <2>6. ASSUME \A i \in Signed' : ~txs'[i].left
        PROVE  /\ \A i \in Signed' : txs'[i].nonce = i - 1
               /\ lastNonce' = IF Signed' = {} THEN NoNonce ELSE Len(txs') - 1
    <3>1. ~left /\ \A i \in Signed : ~txs[i].left
      BY <1>0, <2>2, <2>4, <2>6
    <3>2. sender.nonce = Len(txs) /\ \A i \in Signed : txs[i].nonce = i - 1
      BY <1>0, <3>1 DEF Gapless
    <3>3. txs' # txs /\ ~txs'[Len(txs')].left
      BY <2>2, <2>3, <3>1
    <3>4. lastNonce' = sender.nonce
      BY <3>3 DEF Broadcasts
    <3> QED BY <1>0, <2>2, <2>3, <2>4, <3>2, <3>4
  <2> QED BY <1>0, <2>4, <2>5, <2>6 DEF Gapless
<1>3. \/ txs' = txs
      \/ \E left \in BOOLEAN :
           /\ txs' = Append(txs, Tx(sender.nonce, left))
           /\ left \/ sender' = [sender EXCEPT !.pc = "following", !.tx = Len(txs) + 1]
           /\ Throws \/ sender' = [sender EXCEPT !.pc = "following", !.tx = Len(txs) + 1]
  BY DEF Broadcasts, Takes, Refused
<1> QED BY <1>1, <1>2, <1>3

LEMMA GapHolds ==
  ASSUME Shape, Shape', OthersTyped, Gapless, WalletNext
  PROVE  Gapless'
<1>0. Typed /\ Typed'
  BY DEF Shape
<1>1. CASE Follows
  <2>1. setup' = setup /\ lastNonce' = lastNonce
    BY <1>1 DEF Follows
  <2>2. /\ DOMAIN txs' = DOMAIN txs /\ Len(txs') = Len(txs)
        /\ \A i \in DOMAIN txs : txs'[i].nonce = txs[i].nonce /\ (txs[i].left => txs'[i].left)
    <3>1. CASE txs' = txs
      BY <3>1
    <3>2. CASE txs' = [txs EXCEPT ![sender.tx].left = TRUE]
      <4>1. /\ DOMAIN txs' = DOMAIN txs /\ Len(txs') = Len(txs)
            /\ \A i \in DOMAIN txs : i # sender.tx => txs'[i] = txs[i]
            /\ txs'[sender.tx] = [txs[sender.tx] EXCEPT !.left = TRUE]
            /\ sender.tx \in DOMAIN txs /\ txs[sender.tx] \in TxSet
        BY <1>0, <1>1, <3>2, LeavingMakes, Sequences DEF Follows, Shape, SenderFits
      <4>2. [txs[sender.tx] EXCEPT !.left = TRUE].nonce = txs[sender.tx].nonce
            /\ [txs[sender.tx] EXCEPT !.left = TRUE].left
        BY <4>1 DEF TxSet
      <4> QED BY <4>1, <4>2
    <3> QED BY <1>1, <3>1, <3>2 DEF Follows
  <2>3. sender'.pc # "signing" /\ (setup.path = "sponsored" => sender'.pc # "numbering")
    <3>1. ASSUME sender' = [Quiet EXCEPT !.pc = Entry, !.leg = sender.leg + 1]
          PROVE  sender'.pc = Entry
      BY <3>1 DEF Quiet
    <3>2. Dequeues \/ sender' = [Quiet EXCEPT !.pc = Entry, !.leg = sender.leg + 1]
      BY <1>1 DEF Follows, Throws
    <3>3. CASE Dequeues
      BY <3>3, DequeuesTo
    <3>4. CASE sender' = [Quiet EXCEPT !.pc = Entry, !.leg = sender.leg + 1]
      BY <3>1, <3>4 DEF Entry
    <3> QED BY <3>2, <3>3, <3>4
  <2> QED BY <1>0, <2>1, <2>2, <2>3, GapSame
<1>2. CASE Asking
  <2>1. Same /\ lastNonce' = lastNonce
    BY <1>2, AskingMakes DEF Asking, AsksFor, ReadsFree, Plans, Sends, WritesTo
  <2>2. \/ sender' = sender
        \/ sender'.pc # "signing" /\ (setup.path = "sponsored" => sender'.pc # "numbering")
    <3>1. \/ UNCHANGED <<queue, sender>>
          \/ \E by \in Returns \cup Writes, legs \in Seq(LegSet) : Queues(by, legs)
      BY <1>2, AskingMakes
    <3>2. ASSUME sender' = [Quiet EXCEPT !.pc = Entry]
          PROVE  sender'.pc # "signing" /\ (setup.path = "sponsored" => sender'.pc # "numbering")
      <4>1. sender'.pc = Entry
        BY <3>2 DEF Quiet
      <4> QED BY <4>1 DEF Entry
    <3> QED BY <3>1, <3>2 DEF Queues
  <2> QED BY <1>0, <2>1, <2>2, GapSame DEF Same
<1>3. ASSUME NEW i \in DOMAIN txs, TxLands(i)
      PROVE  Gapless'
  BY <1>0, <1>3, TxLandsMakes, GapSame DEF TxLands
<1>4. ASSUME NEW i \in DOMAIN txs, Drops(i)
      PROVE  Gapless'
  BY <1>0, <1>4, DropsMake, GapSame DEF Drops
<1>5. CASE WalletRestarts
  <2>1. sender'.pc = "idle" /\ lastNonce' = NoNonce /\ setup' = setup
    BY <1>5 DEF WalletRestarts, Quiet
  <2> QED BY <1>0, <1>5, <2>1, RestartsMake, GapSame
<1> QED BY <1>1, <1>2, <1>3, <1>4, <1>5, GapSends, GapNumbers, GapBroadcasts DEF WalletNext, Asking

-------------------------------------------------------------------------------
(* Where nothing moves, the invariant stays. *)

LEMMA WalletRests ==
  ASSUME WalletInv, UNCHANGED walletVars
  PROVE  WalletInv'
<1>0. /\ setup' = setup /\ free' = free /\ held' = held /\ txs' = txs /\ queue' = queue
      /\ sender' = sender /\ lastNonce' = lastNonce /\ turns' = turns /\ ret' = ret
      /\ written' = written /\ troubles' = troubles
  BY DEF walletVars
<1>1. Landed' = Landed
  BY <1>0 DEF Landed
<1>2. Signed' = Signed
  BY <1>0 DEF Signed
<1>3. Typed' /\ SenderFits' /\ LockFits'
  BY <1>0 DEF WalletInv, Shape, Typed, SenderFits, LockFits, Unit, Leg
<1>4. UnitsFit'
  BY <1>0 DEF WalletInv, Shape, UnitsFit, UnitOK
<1>5. SentFits' /\ PairFits' /\ FlightFits'
  BY <1>0 DEF WalletInv, SentFits, HandedOnce, KindsFit, PairFits, Paired, ApprovedFirst, FlightFits,
              HasLanded, Unit
<1>6. AtFits' /\ WordFits'
  BY <1>0, <1>1 DEF WalletInv, AtFits, WordFits, Became, HasLanded
<1>7. PlanFits'
  BY <1>0 DEF WalletInv, PlanFits, Minded, Measured, Planned, WithdrawOf, TransferOf, Budget
<1>8. AloneFits'
  BY <1>0 DEF WalletInv, AloneFits, HeldFits, WholeFits, Alone, Paying, Came, Whole
<1>9. RoomFits' /\ ShortFits'
  BY <1>0, <1>1 DEF WalletInv, RoomFits, FreeRoom, QueueRoom, ShortFits, Thief, Roomy, Stock, Untold,
                    HasLanded
<1>10. Gapless'
  BY <1>0, <1>2 DEF WalletInv, Gapless
<1> QED BY <1>3, <1>4, <1>5, <1>6, <1>7, <1>8, <1>9, <1>10 DEF WalletInv, Shape

LEMMA WalletStarts ==
  ASSUME WalletInit
  PROVE  WalletInv
<1>0. /\ txs = <<>> /\ queue = <<>> /\ turns = <<>> /\ sender = Quiet /\ lastNonce = NoNonce
      /\ ret = [r \in Returns |-> NoReturn] /\ written = {} /\ troubles = 0 /\ setup \in Setups
  BY DEF WalletInit
<1>1. Quiet \in SenderSet /\ Quiet.pc = "idle" /\ Quiet.leg = 1
  BY DEF Quiet, SenderSet
<1>2. /\ NoReturn \in RetSet /\ NoReturn.pc = "idle" /\ NoReturn.seen = 0 /\ NoReturn.withdrawn = "none"
      /\ NoReturn.returned = "none"
  BY DEF NoReturn, RetSet
<1>3. \A r \in Returns : ret[r] = NoReturn
  BY <1>0
<1>4. DOMAIN txs = {} /\ DOMAIN queue = {}
  BY <1>0
<1>5. Landed = 0 /\ Signed = {}
  BY <1>4, FS_EmptySet DEF Landed, Signed
<1>6. free \in Nat /\ held \in Nat
  BY WalletAssumption DEF WalletInit
<1>7. Typed
  BY <1>0, <1>1, <1>2, <1>6, WalletAssumption DEF Typed
<1>8. Shape
  BY <1>0, <1>1, <1>2, <1>3, <1>4, <1>7 DEF Shape, SenderFits, UnitsFit, LockFits, Working
<1>9. SentFits /\ PairFits /\ FlightFits
  BY <1>0, <1>4 DEF SentFits, HandedOnce, KindsFit, PairFits, Paired, ApprovedFirst, FlightFits
<1>10. AtFits /\ WordFits /\ PlanFits
  BY <1>2, <1>3, <1>4, <1>5 DEF AtFits, WordFits, PlanFits, Minded, Measured
<1>11. AloneFits
  BY <1>2, <1>3, <1>4 DEF AloneFits, HeldFits, WholeFits, Whole
<1>12. RoomFits /\ ShortFits
  BY <1>2, <1>3, <1>4 DEF RoomFits, FreeRoom, QueueRoom, ShortFits
<1>13. Gapless
  BY <1>0, <1>1, <1>4, <1>5 DEF Gapless
<1> QED BY <1>8, <1>9, <1>10, <1>11, <1>12, <1>13 DEF WalletInv

LEMMA WalletMoves ==
  ASSUME WalletInv, WalletNext
  PROVE  WalletInv'
<1>1. /\ Shape /\ SentFits /\ PairFits /\ Paired /\ FlightFits /\ AtFits /\ WordFits /\ Minded
      /\ Measured /\ HeldFits /\ WholeFits /\ FreeRoom /\ QueueRoom /\ ShortFits /\ Gapless
  BY DEF WalletInv, PairFits, PlanFits, AloneFits, RoomFits
<1>2. OthersTyped /\ Shape' /\ SentFits'
  BY <1>1, OthersStay, ShapeHolds, SentHolds DEF Shape
<1>3. PairFits' /\ FlightFits'
  BY <1>1, <1>2, PairHolds, FlightHolds
<1>4. AtFits' /\ WordFits'
  BY <1>1, <1>2, TimesHold, WordsHold
<1>5. Minded' /\ Measured'
  BY <1>1, <1>2, MindedHolds, MeasuredHolds
<1>6. HeldFits' /\ WholeFits'
  BY <1>1, <1>2, HeldHolds, WholeHolds
<1>7. FreeRoom' /\ QueueRoom'
  BY <1>1, <1>2, FreeRoomHolds, QueueRoomHolds
<1>8. ShortFits' /\ Gapless'
  BY <1>1, <1>2, ShortHolds, GapHolds
<1> QED BY <1>2, <1>3, <1>4, <1>5, <1>6, <1>7, <1>8 DEF WalletInv, PlanFits, AloneFits, RoomFits

LEMMA WalletKeeps ==
  WalletSpec => []WalletInv
<1>1. WalletInit => WalletInv
  BY WalletStarts
<1>2. WalletInv /\ [WalletNext]_walletVars => WalletInv'
  BY WalletRests, WalletMoves
<1> QED BY <1>1, <1>2, PTL DEF WalletSpec

-------------------------------------------------------------------------------
(* What the invariant says of a return. *)

(* The two legs of a plan are together what was asked. *)
LEMMA PlanIsAsked ==
  ASSUME Typed, NEW r \in Returns, Planned(r)
  PROVE  /\ AskedFor(r) \in Nat
         /\ setup.custody = "address-keyed" => ret[r].transfer = AskedFor(r)
         /\ setup.custody # "address-keyed" => ret[r].transfer + ret[r].withdraw = AskedFor(r)
<1> DEFINE f == ret[r].free
           h == ret[r].held
           B == Budget(r, h)
           w == ret[r].withdraw
           t == ret[r].transfer
<1>1. /\ f \in Nat /\ h \in Nat /\ ret[r].limit \in {Everything, 1}
      /\ w = Least(f, Most(B - h, 0)) /\ B = IF ret[r].limit = Everything THEN f + h ELSE 1
      /\ t = Least(h + (IF setup.custody = "address-keyed" THEN Least(f, Most(B - h, 0)) ELSE 0), B)
      /\ AskedFor(r) = Least(f + h, B)
  BY DEF Typed, RetSet, Planned, WithdrawOf, TransferOf, Budget, AskedFor
<1> HIDE DEF f, h, B, w, t
<1>2. B \in Nat /\ (B = f + h \/ B = 1)
  BY <1>1
<1>3. CASE B = f + h
  <2>1. B - h = f /\ Most(f, 0) = f /\ Least(f, f) = f
    BY <1>1, <1>3 DEF Most, Least
  <2>2. w = f /\ AskedFor(r) = f + h
    BY <1>1, <1>3, <2>1 DEF Least
  <2>3. CASE setup.custody = "address-keyed"
    BY <1>1, <1>3, <2>1, <2>2, <2>3 DEF Least, t, w
  <2>4. CASE setup.custody # "address-keyed"
    <3>1. t = Least(h, f + h)
      BY <1>1, <1>3, <2>4
    <3>2. t = h
      BY <1>1, <3>1 DEF Least
    <3> QED BY <1>1, <2>2, <2>4, <3>2 DEF t, w
  <2> QED BY <2>3, <2>4
<1>4. CASE B = 1
  <2>1. CASE h = 0
    <3>1. Most(B - h, 0) = 1
      BY <1>4, <2>1 DEF Most
    <3>2. w = Least(f, 1) /\ AskedFor(r) = Least(f, 1)
      BY <1>1, <1>4, <2>1, <3>1
    <3>3. CASE setup.custody = "address-keyed"
      <4>1. t = Least(Least(f, 1), 1)
        BY <1>1, <1>4, <2>1, <3>1, <3>3 DEF Least
      <4> QED BY <1>1, <3>2, <3>3, <4>1 DEF Least, t
    <3>4. CASE setup.custody # "address-keyed"
      <4>1. t = 0
        BY <1>1, <1>4, <2>1, <3>4 DEF Least
      <4> QED BY <1>1, <3>2, <3>4, <4>1 DEF Least, t, w
    <3> QED BY <3>3, <3>4
  <2>2. CASE h > 0
    <3>1. Most(B - h, 0) = 0
      BY <1>1, <1>4, <2>2 DEF Most
    <3>2. Least(f, 0) = 0
      BY <1>1 DEF Least
    <3>3. w = 0 /\ t = 1 /\ AskedFor(r) = 1
      BY <1>1, <1>4, <2>2, <3>1, <3>2 DEF Least
    <3> QED BY <3>3 DEF t, w
  <2> QED BY <1>1, <2>1, <2>2
<1> QED BY <1>2, <1>3, <1>4

(* A leg was done at most once. *)
LEMMA DoneOnce ==
  ASSUME Typed, Paired, NEW r \in Returns, NEW kind, NEW i \in Done(r, kind), NEW j \in DOMAIN txs,
         txs[j].by = r, txs[j].kind = kind
  PROVE  i = j
<1>1. i \in DOMAIN txs /\ txs[i].by = r /\ txs[i].kind = kind
  BY DEF Done
<1>2. i \in Nat /\ j \in Nat
  BY <1>1, Sequences
<1> QED BY <1>1, <1>2 DEF Paired

LEMMA WordsAreTrue ==
  ASSUME Typed, Paired, NEW r \in Returns, NEW kind, NEW word, Became(r, kind, word)
  PROVE  word = "done" <=> Done(r, kind) # {}
<1>1. PICK i \in DOMAIN txs : /\ txs[i].by = r /\ txs[i].kind = kind
                              /\ (word = "done" <=> txs[i].state = "done")
  BY DEF Became
<1>2. ASSUME NEW j \in Done(r, kind)
      PROVE  txs[i].state = "done"
  <2>1. i = j
    BY <1>1, <1>2, DoneOnce
  <2> QED BY <1>2, <2>1 DEF Done
<1>3. txs[i].state = "done" => i \in Done(r, kind)
  BY <1>1 DEF Done
<1> QED BY <1>1, <1>2, <1>3

(* What a leg brought. *)
Brought(r, kind) == IF Done(r, kind) = {} THEN 0 ELSE txs[CHOOSE i \in Done(r, kind) : TRUE].amount

LEMMA HomeIs ==
  ASSUME Typed, SentFits, Minded, Measured, NEW r \in Returns
  PROVE  /\ Home(r) = Brought(r, "transfer")
                      + IF setup.custody = "address-keyed" THEN 0 ELSE Brought(r, "withdraw")
         /\ Brought(r, "transfer") \in Nat /\ Brought(r, "transfer") <= ret[r].transfer
         /\ Brought(r, "withdraw") \in Nat /\ Brought(r, "withdraw") <= ret[r].withdraw
         /\ Done(r, "withdraw") # {} => Brought(r, "withdraw") = ret[r].withdraw
         /\ Done(r, "transfer") # {} \/ Done(r, "withdraw") # {} => Planned(r)
         /\ (\A i \in DOMAIN txs : txs[i].by = r /\ txs[i].kind = "transfer" =>
                                     txs[i].amount = ret[r].transfer)
            /\ Done(r, "transfer") # {} => Brought(r, "transfer") = ret[r].transfer
<1>1. ret[r].transfer \in Nat /\ ret[r].withdraw \in Nat
  BY DEF Typed, RetSet
<1>2. ASSUME NEW kind \in {"transfer", "withdraw"}, Done(r, kind) # {}
      PROVE  \E i \in DOMAIN txs : /\ txs[i].by = r /\ txs[i].kind = kind
                                   /\ Brought(r, kind) = txs[i].amount /\ txs[i].amount \in Nat
  <2> DEFINE i == CHOOSE i \in Done(r, kind) : TRUE
  <2>1. i \in Done(r, kind)
    BY <1>2
  <2>2. Brought(r, kind) = txs[i].amount
    BY <1>2 DEF Brought
  <2> HIDE DEF i
  <2>3. i \in DOMAIN txs /\ txs[i].by = r /\ txs[i].kind = kind
    BY <2>1 DEF Done
  <2>4. txs[i].amount \in Nat
    BY <2>3, Sequences DEF TxSet
  <2> QED BY <2>2, <2>3, <2>4
<1>3. Home(r) = Brought(r, "transfer")
                + IF setup.custody = "address-keyed" THEN 0 ELSE Brought(r, "withdraw")
  BY DEF Home, Brought
<1>4. Brought(r, "transfer") \in Nat /\ Brought(r, "transfer") <= ret[r].transfer
  <2>1. CASE Done(r, "transfer") = {}
    BY <1>1, <2>1 DEF Brought
  <2>2. CASE Done(r, "transfer") # {}
    BY <1>1, <1>2, <2>2 DEF Measured
  <2> QED BY <2>1, <2>2
<1>5. Done(r, "withdraw") # {} =>
        Brought(r, "withdraw") = ret[r].withdraw
  BY <1>2 DEF Measured
<1>6. Brought(r, "withdraw") \in Nat /\ Brought(r, "withdraw") <= ret[r].withdraw
  <2>1. CASE Done(r, "withdraw") = {}
    BY <1>1, <2>1 DEF Brought
  <2> QED BY <1>1, <1>5, <2>1
<1>7. Done(r, "transfer") # {} \/ Done(r, "withdraw") # {} => Planned(r)
  <2>1. ASSUME NEW i \in DOMAIN txs, txs[i].by = r, txs[i].kind \in {"transfer", "withdraw"}
        PROVE  Planned(r)
    <3>1. ret[r].pc \notin {"idle", "waiting", "free"}
      BY <2>1 DEF SentFits, KindsFit
    <3> QED BY <2>1, <3>1 DEF Minded
  <2> QED BY <1>2, <2>1
<1>8. ASSUME \A i \in DOMAIN txs : txs[i].by = r /\ txs[i].kind = "transfer" =>
                                     txs[i].amount = ret[r].transfer,
             Done(r, "transfer") # {}
      PROVE  Brought(r, "transfer") = ret[r].transfer
  BY <1>2, <1>8
<1> QED BY <1>3, <1>4, <1>5, <1>6, <1>7, <1>8

LEMMA ReturnHolds ==
  ASSUME WalletInv, NEW r \in Returns
  PROVE  ReturnIsTrue(r)
<1> DEFINE T == Brought(r, "transfer")
           W == Brought(r, "withdraw")
           t == ret[r].transfer
           w == ret[r].withdraw
           A == AskedFor(r)
<1>0. /\ Typed /\ SentFits /\ Paired /\ WordFits /\ Minded /\ Measured /\ WholeFits /\ ShortFits
  BY DEF WalletInv, Shape, PairFits, PlanFits, AloneFits
<1>1. /\ ret[r].withdrawn # "none" => (ret[r].withdrawn = "done" <=> Done(r, "withdraw") # {})
      /\ ret[r].returned # "none" => (ret[r].returned = "done" <=> Done(r, "transfer") # {})
  BY <1>0, WordsAreTrue DEF WordFits
<1>2. /\ Home(r) = T + IF setup.custody = "address-keyed" THEN 0 ELSE W
      /\ T \in Nat /\ T <= t /\ W \in Nat /\ W <= w
      /\ Done(r, "withdraw") # {} => W = w
      /\ Done(r, "transfer") # {} \/ Done(r, "withdraw") # {} => Planned(r)
  BY <1>0, HomeIs
<1>3. t \in Nat /\ w \in Nat /\ A \in Nat
  BY <1>0 DEF Typed, RetSet, AskedFor, Least
<1>4. Planned(r) => /\ setup.custody = "address-keyed" => t = A
                    /\ setup.custody # "address-keyed" => t + w = A
  BY <1>0, PlanIsAsked
<1>5. Done(r, "transfer") = {} /\ Done(r, "withdraw") = {} => T = 0 /\ W = 0
  BY DEF Brought
<1>6. ASSUME ret[r].pc = "over",
             w > 0 => ret[r].withdrawn = "done",
             t > 0 => ret[r].returned = "done",
             \A i \in DOMAIN txs : txs[i].at > ret[r].seen => txs[i].by = r
      PROVE  Planned(r) /\ T = t /\ W = w
  <2>1. Planned(r)
    BY <1>0, <1>6 DEF Minded
  <2>2. W = w
    BY <1>1, <1>2, <1>3, <1>6
  <2>3. Whole(r)
    BY <1>0, <1>6 DEF WholeFits, Alone
  <2>4. T = t
    <3>1. CASE t > 0
      <4>1. Done(r, "transfer") # {}
        BY <1>1, <1>6, <3>1
      <4>2. \A i \in DOMAIN txs : txs[i].by = r /\ txs[i].kind = "transfer" =>
                                    txs[i].amount = ret[r].transfer
        BY <2>3 DEF Whole
      <4> QED BY <1>0, <4>1, <4>2, HomeIs
    <3> QED BY <1>2, <1>3, <3>1
  <2> QED BY <2>1, <2>2, <2>4
<1>7. \A i \in DOMAIN txs :
        txs[i].by = r /\ txs[i].state = "short" /\ ~txs[i].left => Thief(txs[i].seen, txs[i].at)
  BY <1>0 DEF ShortFits
<1> HIDE DEF T, W, t, w, A
<1>8. Home(r) <= A
  BY <1>2, <1>3, <1>4, <1>5
<1>9. Planned(r) /\ T = t /\ W = w => Home(r) = A
  BY <1>2, <1>3, <1>4
<1>10. (/\ ret[r].pc = "over"
        /\ ret[r].withdraw > 0 => ret[r].withdrawn = "done"
        /\ ret[r].transfer > 0 => ret[r].returned = "done"
        /\ \A i \in DOMAIN txs : txs[i].at > ret[r].seen => txs[i].by = r)
       => Home(r) = AskedFor(r)
  BY <1>6, <1>9 DEF t, w, A
<1> QED BY <1>1, <1>7, <1>8, <1>10 DEF ReturnIsTrue, Thief, A

LEMMA OrderHolds ==
  ASSUME WalletInv
  PROVE  WalletTypeOK /\ WalletIsOrderly
<1>0. Typed /\ Paired /\ FlightFits /\ Gapless
  BY DEF WalletInv, Shape, PairFits
<1>1. WalletTypeOK
  <2>1. /\ setup \in Setups /\ {free, held} \subseteq Nat /\ troubles \in 0..MaxTroubles
        /\ lastNonce \in Nat \cup {NoNonce} /\ turns \in Seq(Returns) /\ written \subseteq Writes
    BY <1>0 DEF Typed
  <2>2. txs \in Seq(TxSet)
    BY <1>0 DEF Typed
  <2>3. sender.pc \in {"idle", "sponsoring", "again", "numbering", "signing", "following"}
    BY <1>0 DEF Typed, SenderSet
  <2>4. \A r \in Returns : ret[r].pc \in {"idle", "waiting", "free", "held", "withdrawing", "reading",
                                          "transferring", "over", "cut"}
    BY <1>0 DEF Typed, RetSet
  <2> QED BY <2>1, <2>2, <2>3, <2>4 DEF WalletTypeOK, TxSet
<1>2. OneInFlight
  BY <1>0 DEF OneInFlight, Paired, FlightFits, HasLanded
<1>3. NoncesAreSound
  <2>1. SUFFICES ASSUME \A i \in Signed : ~txs[i].left
                 PROVE  /\ sender.pc = "signing" => ~Reused(sender.nonce)
                        /\ \A i \in Signed : txs[i].nonce = i - 1
    BY DEF NoncesAreSound
  <2>2. /\ \A i \in Signed : txs[i].nonce = i - 1
        /\ sender.pc = "signing" => sender.nonce = Len(txs)
    BY <1>0, <2>1 DEF Gapless
  <2>3. \A i \in Signed : i \in 1..Len(txs) /\ Len(txs) \in Nat
    BY <1>0, Sequences DEF Signed
  <2> QED BY <2>2, <2>3 DEF Reused
<1> QED BY <1>1, <1>2, <1>3 DEF WalletIsOrderly

(* The wallet's sends go one at a time and their nonces neither repeat nor
   leave a gap but for a lost answer or a restart; a return says of each leg
   what the chain did with it and brings home what was asked, less only where a
   write of the agent's, or a send that was given up on, took the funds. *)
THEOREM ReturnsStayTrue ==
  WalletSpec => []ReturnsAreTrue
<1>1. WalletInv => ReturnsAreTrue
  BY ReturnHolds, OrderHolds DEF ReturnsAreTrue
<1> QED BY <1>1, WalletKeeps, PTL
===============================================================================
