------------------------------- MODULE GasDrip -------------------------------
(***************************************************************************)
(* The MON gas drip: services/api/src/gas/gas.service.ts, the ledger of    *)
(* claims it keeps in memory, and the dispatcher that spreads sends over   *)
(* the faucet's keys.                                                      *)
(*                                                                         *)
(* A request is one `drip` (for a user's own address) or `dripToAgent`     *)
(* (for an agent's), from its first check to its answer.  The chain is     *)
(* external: it includes the transactions of a key in the order of their   *)
(* nonces, and answers how many it has accepted.                           *)
(***************************************************************************)
EXTENDS Integers, Sequences, FiniteSets, FiniteSetsExt

CONSTANTS
  Requests, Users, Addresses, Keys,
  AgentIds, NoAgent,  \* NoAgent: the drip is the user's own
  Nobody, NoKey, NoTime, NoNonce,
  Amount,          \* of a user's drip and of an agent's: [user, agent]
  DailyCap,        \* GAS_DRIP_DAILY_CAP
  MaxAgentsPerDay, \* agents one user may have funded in a day
  Spacing,         \* GAS_DRIP_SENDER_SPACING_MS
  MaxAttempts,
  DayLength,
  MaxTime,         \* bound: the clock stops here
  MaxSent,         \* bound: no request starts after as many transactions
  Faults           \* "rejected" and "lost" broadcasts, "unread" code, "slow"
                   \* receipts, "reverted" transfers

ASSUME DripAssumption ==
  /\ NoAgent \notin AgentIds /\ Nobody \notin Users /\ NoKey \notin Keys
  /\ NoTime \notin Int /\ NoNonce \notin Int
  /\ Amount \in [user : Nat, agent : Nat]
  /\ {DailyCap, MaxAgentsPerDay, Spacing, MaxTime, MaxSent} \subseteq Nat
  /\ {MaxAttempts, DayLength} \subseteq Nat \ {0}
  /\ Faults \subseteq {"rejected", "lost", "unread", "slow", "reverted"}

VARIABLES
  now,
  drip,     \* the ledger's record of each address
  total,    \* dailyTotals
  funded,   \* agentDripsPerUserDay
  key,      \* of each key: in flight, last used, next nonce
  request,
  sent      \* every transaction a node accepted, in that order: external

ledger == <<drip, total, funded>>
vars   == <<now, drip, total, funded, key, request, sent>>

-------------------------------------------------------------------------------
Day(t) == t \div DayLength
Days   == 0..Day(MaxTime)

NoDrip == [status |-> "none", user |-> Nobody, agent |-> NoAgent, day |-> 0]
Idle   == [pc |-> "idle", user |-> Nobody, agent |-> NoAgent, to |-> Nobody, day |-> 0,
           attempt |-> 1, key |-> NoKey, tx |-> 0]

AmountOf(agent) == IF agent = NoAgent THEN Amount.user ELSE Amount.agent

TypeOK ==
  /\ now \in 0..MaxTime
  /\ drip \in [Addresses -> [status : {"none", "reserved", "confirmed"}, user : Users \cup {Nobody},
                             agent : AgentIds \cup {NoAgent}, day : Days]]
  /\ total \in [Days -> Nat]
  /\ funded \in [Days -> [Users -> Nat]]
  /\ key \in [Keys -> [inFlight : BOOLEAN, used : Int \cup {NoTime}, nonce : Nat \cup {NoNonce}]]
  /\ request \in [Requests ->
       [pc : {"idle", "reading", "waiting", "sending", "receipt"},
        user : Users \cup {Nobody}, agent : AgentIds \cup {NoAgent},
        to : Addresses \cup {Nobody}, day : Days, attempt : 1..MaxAttempts,
        key : Keys \cup {NoKey}, tx : Nat]]
  /\ sent \in Seq([key : Keys, nonce : Nat, to : Addresses, user : Users,
                   agent : AgentIds \cup {NoAgent}, day : Days, at : Nat,
                   receipt : Nat \cup {NoTime}, lost : BOOLEAN,
                   state : {"pending", "success", "reverted"}])

Init ==
  /\ now = 0
  /\ drip = [x \in Addresses |-> NoDrip]
  /\ total = [d \in Days |-> 0]
  /\ funded = [d \in Days |-> [u \in Users |-> 0]]
  /\ key = [k \in Keys |-> [inFlight |-> FALSE, used |-> NoTime, nonce |-> NoNonce]]
  /\ request = [r \in Requests |-> Idle]
  /\ sent = <<>>

-------------------------------------------------------------------------------
(* The ledger. *)

(* byUserId or byAgentId, and byAddress, say whether there was a drip. *)
Taken(u, g, x) ==
  \/ drip[x].status # "none"
  \/ \E y \in Addresses : /\ drip[y].status # "none" /\ drip[y].agent = g
                          /\ g = NoAgent => drip[y].user = u

(* Mutant of Claimable: the cap is compared with what is spent already. *)
ClaimableLate(u, g, x, d) ==
  /\ ~Taken(u, g, x)
  /\ total[d] <= DailyCap
  /\ g # NoAgent => funded[d][u] < MaxAgentsPerDay

Claimable(u, g, x, d) ==
  /\ ~Taken(u, g, x)
  /\ total[d] + AmountOf(g) <= DailyCap
  /\ g # NoAgent => funded[d][u] < MaxAgentsPerDay

(* `claim` and `claimAgent`: one stretch without an await. *)
Claim(u, g, x, d) ==
  /\ Claimable(u, g, x, d)
  /\ drip' = [drip EXCEPT ![x] = [status |-> "reserved", user |-> u, agent |-> g, day |-> d]]
  /\ total' = [total EXCEPT ![d] = @ + AmountOf(g)]
  /\ funded' = IF g = NoAgent THEN funded ELSE [funded EXCEPT ![d][u] = @ + 1]

(* `confirm` promotes the reservation of an address. *)
Confirm(x) == /\ drip' = [drip EXCEPT ![x].status = "confirmed"]
              /\ UNCHANGED <<total, funded>>

(* `release` undoes a reservation; a confirmed drip it leaves alone. *)
GiveBack(x) ==
  LET was == drip[x]
  IN IF was.status # "reserved" THEN UNCHANGED ledger
     ELSE /\ drip' = [drip EXCEPT ![x] = NoDrip]
          /\ total' = [total EXCEPT ![was.day] = Max({0, @ - AmountOf(was.agent)})]
          /\ funded' = IF was.agent = NoAgent THEN funded
                       ELSE [funded EXCEPT ![was.day][was.user] = Max({0, @ - 1})]

-------------------------------------------------------------------------------
(* The keys. *)

Ready(k) ==
  /\ ~key[k].inFlight
  /\ key[k].used # NoTime => now - key[k].used >= Spacing

(* `release`: the key is free, and its spacing starts again. *)
Freed(k) == [key[k] EXCEPT !.inFlight = FALSE, !.used = now]

Ends(r) == request' = [request EXCEPT ![r] = Idle]

(* After an attempt that moved nothing: another key, or the budget back. *)
Again(r) ==
  IF request[r].attempt < MaxAttempts
  THEN /\ request' = [request EXCEPT ![r] = [@ EXCEPT !.pc = "waiting", !.key = NoKey,
                                                      !.tx = 0,
                                                      !.attempt = request[r].attempt + 1]]
       /\ UNCHANGED ledger
  ELSE Ends(r) /\ GiveBack(request[r].to)

-------------------------------------------------------------------------------
(* A request. *)

(* Its day is the day it asks on.  The checks before the first await. *)
Asks(r) == \E u \in Users, g \in AgentIds \cup {NoAgent}, x \in Addresses :
  /\ request[r].pc = "idle"
  /\ Len(sent) < MaxSent
  /\ ~Taken(u, g, x)
  /\ request' = [request EXCEPT ![r] = [Idle EXCEPT !.pc = "reading", !.user = u, !.agent = g,
                                                    !.to = x, !.day = Day(now)]]
  /\ UNCHANGED <<now, ledger, key, sent>>

(* The address holds MON, its balance could not be read, or the claim is
   refused after all. *)
Refused(r) ==
  /\ request[r].pc = "reading"
  /\ Ends(r)
  /\ UNCHANGED <<now, ledger, key, sent>>

(* The balance read is in, low enough (the holder may have spent what it had),
   and the claim made in the same stretch. *)
Claims(r) ==
  LET q == request[r]
  IN /\ q.pc = "reading"
     /\ Claim(q.user, q.agent, q.to, q.day)
     /\ request' = [request EXCEPT ![r].pc = "waiting"]
     /\ UNCHANGED <<now, key, sent>>

(* The code at the address, read before the first key is asked for, could not
   be. *)
SizeUnread(r) ==
  /\ "unread" \in Faults
  /\ request[r].pc = "waiting"
  /\ request[r].attempt = 1
  /\ GiveBack(request[r].to)
  /\ Ends(r)
  /\ UNCHANGED <<now, key, sent>>

(* `acquire`: a free key past its spacing, in whatever rotation. *)
Acquires(r) == \E k \in Keys :
  /\ request[r].pc = "waiting"
  /\ Ready(k)
  /\ key' = [key EXCEPT ![k] = [@ EXCEPT !.inFlight = TRUE, !.used = now]]
  /\ request' = [request EXCEPT ![r] = [@ EXCEPT !.pc = "sending", !.key = k]]
  /\ UNCHANGED <<now, ledger, sent>>

(* No key before the deadline. *)
GivesUp(r) ==
  /\ request[r].pc = "waiting"
  /\ \A k \in Keys : ~Ready(k)
  /\ GiveBack(request[r].to)
  /\ Ends(r)
  /\ UNCHANGED <<now, key, sent>>

(* The simulation met the reserve balance; of any other failure of it nothing
   comes. *)
SimulationStops(r) ==
  /\ "reverted" \in Faults
  /\ request[r].pc = "sending"
  /\ key' = [key EXCEPT ![request[r].key] = Freed(request[r].key)]
  /\ Again(r)
  /\ UNCHANGED <<now, sent>>

(* Transactions of a key a node has accepted, pending ones included. *)
Accepted(k) == Cardinality({i \in DOMAIN sent : sent[i].key = k})

NonceOf(k) == IF key[k].nonce = NoNonce THEN Accepted(k) ELSE key[k].nonce

Tx(r, lost) == [key |-> request[r].key, nonce |-> NonceOf(request[r].key), to |-> request[r].to,
          user |-> request[r].user, agent |-> request[r].agent, day |-> request[r].day,
          at |-> now, receipt |-> NoTime,
          lost |-> lost, state |-> "pending"]

(* The nonce is the counter's, or the node's if the counter was dropped; the
   request has the key to itself. *)
Broadcasts(r) ==
  LET k == request[r].key
  IN /\ request[r].pc = "sending"
     /\ sent' = Append(sent, Tx(r, FALSE))
     /\ key' = [key EXCEPT ![k].nonce = NonceOf(k) + 1]
     /\ request' = [request EXCEPT ![r] = [@ EXCEPT !.pc = "receipt", !.tx = Len(sent) + 1]]
     /\ UNCHANGED <<now, ledger>>

(* The counter is dropped, the key freed. *)
AfterFailure(k) == [Freed(k) EXCEPT !.nonce = NoNonce]

(* The broadcast threw: rejected, or accepted with the answer lost, which the
   code cannot tell apart. *)
BroadcastThrows(r) ==
  /\ request[r].pc = "sending"
  /\ \/ "rejected" \in Faults /\ UNCHANGED sent
     \/ "lost" \in Faults /\ sent' = Append(sent, Tx(r, TRUE))
  /\ key' = [key EXCEPT ![request[r].key] = AfterFailure(request[r].key)]
  /\ GiveBack(request[r].to)
  /\ Ends(r)
  /\ UNCHANGED now

Seen(i) == sent' = [sent EXCEPT ![i].receipt = now]

(* The receipt says success. *)
Confirms(r) ==
  LET q == request[r]
  IN /\ q.pc = "receipt" /\ sent[q.tx].state = "success"
     /\ Seen(q.tx)
     /\ key' = [key EXCEPT ![q.key] = Freed(q.key)]
     /\ Confirm(q.to)
     /\ Ends(r)
     /\ UNCHANGED now

(* It reverted: no MON moved. *)
Reverts(r) ==
  LET q == request[r]
  IN /\ q.pc = "receipt" /\ sent[q.tx].state = "reverted"
     /\ Seen(q.tx)
     /\ key' = [key EXCEPT ![q.key] = Freed(q.key)]
     /\ Again(r)
     /\ UNCHANGED now

(* Mutant of TimesOut: an unconfirmed send is taken for a failed one. *)
TimesOutReleasing(r) ==
  LET q == request[r]
  IN /\ "slow" \in Faults
     /\ q.pc = "receipt"
     /\ key' = [key EXCEPT ![q.key] = Freed(q.key)]
     /\ GiveBack(q.to)
     /\ Ends(r)
     /\ UNCHANGED <<now, sent>>

(* No receipt in time: it may still land, so the claim stays spent. *)
TimesOut(r) ==
  LET q == request[r]
  IN /\ "slow" \in Faults
     /\ q.pc = "receipt"
     /\ key' = [key EXCEPT ![q.key] = Freed(q.key)]
     /\ Confirm(q.to)
     /\ Ends(r)
     /\ UNCHANGED <<now, sent>>

-------------------------------------------------------------------------------
(* The chain and the clock. *)

Includes(i) ==
  /\ sent[i].state = "pending"
  /\ \A j \in DOMAIN sent : sent[j].key = sent[i].key /\ sent[j].state = "pending"
                            => sent[i].nonce <= sent[j].nonce
  /\ \E outcome \in {"success"} \cup ({"reverted"} \cap Faults) :
       sent' = [sent EXCEPT ![i].state = outcome]
  /\ UNCHANGED <<now, ledger, key, request>>

Tick == /\ now < MaxTime
        /\ now' = now + 1
        /\ UNCHANGED <<ledger, key, request, sent>>

-------------------------------------------------------------------------------
Step(r) ==
  \/ Asks(r) \/ Refused(r) \/ Claims(r) \/ SizeUnread(r)
  \/ Acquires(r) \/ GivesUp(r) \/ SimulationStops(r)
  \/ Broadcasts(r) \/ BroadcastThrows(r) \/ Confirms(r) \/ Reverts(r) \/ TimesOut(r)

Next == (\E r \in Requests : Step(r)) \/ (\E i \in DOMAIN sent : Includes(i)) \/ Tick

Spec == Init /\ [][Next]_vars

-------------------------------------------------------------------------------
(* Safety. *)

(* The transactions that moved MON, or may yet. *)
Moving == {i \in DOMAIN sent : sent[i].state # "reverted"}

SameDrip(i, j) == \/ sent[i].to = sent[j].to
                  \/ /\ sent[i].agent = sent[j].agent
                     /\ sent[i].agent = NoAgent => sent[i].user = sent[j].user

(* One drip per address, one per user's own, one per agent, ever
   (gas.service.ts:174, :179, :290). *)
FundedOnce == \A i, j \in Moving : SameDrip(i, j) => i = j

(* As the code has it: whatever is refused, retried or times out, a second
   drip follows only a first whose broadcast was answered by an error. *)
FundedAgainOnlyIfLost == \A i, j \in Moving : SameDrip(i, j) /\ i < j => sent[i].lost

(* What these many drips to users and to agents cost. *)
Cost(own, agents) == Amount.user * Cardinality(own) + Amount.agent * Cardinality(agents)

(* What a day's claims sent, or may yet, to users and to these users' agents,
   but for what went out in answers lost. *)
OwnSends(d) == {i \in Moving : /\ sent[i].day = d /\ ~sent[i].lost
                               /\ sent[i].agent = NoAgent}
AgentSends(d, users) == {i \in Moving : /\ sent[i].day = d /\ ~sent[i].lost
                                        /\ sent[i].agent # NoAgent /\ sent[i].user \in users}

(* The faucet's cap holds of it, and each user's own limit of agents
   (in-memory-drip-ledger.ts:48, :79, :83). *)
WithinFaucetCap ==
  \A d \in Days : /\ Cost(OwnSends(d), AgentSends(d, Users)) <= DailyCap
                  /\ \A u \in Users : Cardinality(AgentSends(d, {u})) <= MaxAgentsPerDay

(* The drips of a day that the ledger holds. *)
OwnDrips(d) == {x \in Addresses : /\ drip[x].status # "none" /\ drip[x].day = d
                                  /\ drip[x].agent = NoAgent}
AgentDrips(d, users) == {x \in Addresses : /\ drip[x].status # "none" /\ drip[x].day = d
                                           /\ drip[x].agent # NoAgent /\ drip[x].user \in users}

(* The ledger's running totals are those of the drips it holds, so no budget
   leaks and none is given back twice (`release`). *)
TotalsAdd ==
  \A d \in Days : /\ total[d] = Cost(OwnDrips(d), AgentDrips(d, Users))
                  /\ \A u \in Users : funded[d][u] = Cardinality(AgentDrips(d, {u}))

(* A reservation is some request's, one only, and gone or confirmed when that
   request is answered (gas.service.ts:211). *)
ReservationsAreOwned ==
  \A x \in Addresses :
    Cardinality({r \in Requests : request[r].to = x /\ request[r].pc \notin {"idle", "reading"}})
      = IF drip[x].status = "reserved" THEN 1 ELSE 0

(* Sends of a key are a spacing apart, counted from the receipt of the one
   before if it was had (reserve-aware-dispatcher.ts:24). *)
SendsAreSpaced ==
  \A i, j \in DOMAIN sent :
    i < j /\ sent[i].key = sent[j].key =>
      /\ sent[j].at - sent[i].at >= Spacing
      /\ sent[i].receipt # NoTime => sent[j].at - sent[i].receipt >= Spacing

(* The nonces a key used are consecutive: no gap that would hold up what it
   sends from then on (nonce-managed-sender.ts:30). *)
NoncesAreGapless ==
  \A i \in DOMAIN sent :
    sent[i].nonce = Cardinality({j \in 1..(i - 1) : sent[j].key = sent[i].key})

(* The ledger never says less than what went out: the caps hold of what was
   sent, its totals are those of its drips, and every reservation is a request's
   that will settle it (in-memory-drip-ledger.ts:111).  And a key's sends are
   spaced and its nonces consecutive (reserve-aware-dispatcher.ts:24). *)
LedgerIsTrue ==
  /\ TypeOK /\ WithinFaucetCap /\ TotalsAdd /\ ReservationsAreOwned
  /\ SendsAreSpaced /\ NoncesAreGapless
===============================================================================
