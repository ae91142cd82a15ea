---------------------------- MODULE FundingProofs ----------------------------
(***************************************************************************)
(* What the service gives away is given once.                              *)
(*                                                                         *)
(* Of GasDrip, for any number of requests, users, agents and keys, any     *)
(* amounts and caps, and any faults.  Its invariant Inv has three parts.   *)
(* Ledger relates the drips and the totals to the requests that will       *)
(* settle them.  Paid relates the transactions to the drips they are paid  *)
(* from.  Queue relates the transactions to the keys that signed them.     *)
(*                                                                         *)
(* Of StarterKit, for any number of users and addresses, any caps and      *)
(* stock, and every fault: no user is sent a token twice, a kit that is    *)
(* sent moved both, and a transfer is short only because another user's    *)
(* took what it was to move.  In its invariant KitInv, GrantFits says what *)
(* of a kit is out at each point of its grant, and LandFits that what a    *)
(* grant saw of the stock is gone only if a transfer landed since.         *)
(***************************************************************************)
EXTENDS GasDrip, StarterKit, FiniteSetTheorems, TLAPS

(***************************************************************************)
(* GasDrip.                                                                *)
(***************************************************************************)

(* The requests whose drip is reserved, and those that have a key. *)
Busy(r)  == request[r].pc \in {"waiting", "sending", "receipt"}
Holds(r) == request[r].pc \in {"sending", "receipt"}

(* What a request has at each point. *)
RequestFits(r) ==
  /\ request[r].pc # "idle" => request[r].to \in Addresses /\ request[r].user \in Users
  /\ Holds(r) => request[r].key \in Keys
  /\ request[r].pc = "receipt" =>
       /\ request[r].tx \in DOMAIN sent
       /\ sent[request[r].tx].key = request[r].key
       /\ sent[request[r].tx].to = request[r].to

Shape == TypeOK /\ \A r \in Requests : RequestFits(r)

-------------------------------------------------------------------------------
(* The ledger. *)

Held == {x \in Addresses : drip[x].status # "none"}

(* The drip of a busy request is reserved for it, and for no other. *)
Reserved(r) ==
  LET d == drip[request[r].to]
  IN /\ d.status = "reserved" /\ d.user = request[r].user
     /\ d.agent = request[r].agent /\ d.day = request[r].day

OwnersFit ==
  /\ \A r \in Requests : Busy(r) => Reserved(r)
  /\ \A r, s \in Requests : Busy(r) /\ Busy(s) /\ request[r].to = request[s].to => r = s
  /\ \A x \in Addresses : drip[x].status = "reserved" =>
       \E r \in Requests : Busy(r) /\ request[r].to = x

SameOwner(x, y) == /\ drip[x].agent = drip[y].agent
                   /\ drip[x].agent = NoAgent => drip[x].user = drip[y].user

(* No two drips of one agent, or of one user's own. *)
DripsFit ==
  /\ \A x \in Held : drip[x].user \in Users
  /\ \A x, y \in Held : SameOwner(x, y) => x = y

BudgetFits ==
  /\ IsFiniteSet(Held)
  /\ TotalsAdd
  /\ \A d \in Days : total[d] <= DailyCap
  /\ \A d \in Days, u \in Users : funded[d][u] <= MaxAgentsPerDay

Ledger == OwnersFit /\ DripsFit /\ BudgetFits

-------------------------------------------------------------------------------
(* What was sent, and not in a lost answer, is paid from a drip; while the drip
   is reserved, its request waits for the receipt. *)
PaidFrom(i) ==
  LET d == drip[sent[i].to]
  IN /\ d.status # "none" /\ d.user = sent[i].user
     /\ d.agent = sent[i].agent /\ d.day = sent[i].day
     /\ d.status = "reserved" =>
          \E r \in Requests : request[r].pc = "receipt" /\ request[r].tx = i

Paid == /\ \A i \in Moving : ~sent[i].lost => PaidFrom(i)
        /\ FundedAgainOnlyIfLost

-------------------------------------------------------------------------------
(* A key has one request at a time; it was used after all that it sent, and a
   spacing after while it is about to send again; its counter, if it has one,
   is the number of its transactions. *)
KeyFits(k) ==
  /\ key[k].used # NoTime => key[k].used <= now
  /\ key[k].nonce # NoNonce => key[k].nonce = Accepted(k)
  /\ ~key[k].inFlight =>
       \A i \in DOMAIN sent : sent[i].key = k =>
         /\ key[k].used # NoTime /\ sent[i].at <= key[k].used
         /\ sent[i].receipt # NoTime => sent[i].receipt <= key[k].used

HolderFits(r) ==
  /\ Holds(r) => key[request[r].key].inFlight
  /\ request[r].pc = "sending" =>
       \A i \in DOMAIN sent : sent[i].key = request[r].key =>
         /\ sent[i].at + Spacing <= now
         /\ sent[i].receipt # NoTime => sent[i].receipt + Spacing <= now
  /\ request[r].pc = "receipt" =>
       \A i \in DOMAIN sent : sent[i].key = request[r].key => i <= request[r].tx

Queue ==
  /\ \A k \in Keys : KeyFits(k)
  /\ \A r \in Requests : HolderFits(r)
  /\ \A r, s \in Requests : Holds(r) /\ Holds(s) /\ request[r].key = request[s].key => r = s
  /\ \A i \in DOMAIN sent : /\ sent[i].at <= now
                            /\ sent[i].receipt # NoTime => sent[i].receipt <= now
  /\ SendsAreSpaced
  /\ NoncesAreGapless

Inv == Shape /\ Ledger /\ Paid /\ Queue

-------------------------------------------------------------------------------
DripRecs == [status : {"none", "reserved", "confirmed"}, user : Users \cup {Nobody},
             agent : AgentIds \cup {NoAgent}, day : Days]
KeyRecs  == [inFlight : BOOLEAN, used : Int \cup {NoTime}, nonce : Nat \cup {NoNonce}]
ReqRecs  == [pc : {"idle", "reading", "waiting", "sending", "receipt"},
             user : Users \cup {Nobody}, agent : AgentIds \cup {NoAgent},
             to : Addresses \cup {Nobody}, day : Days, attempt : 1..MaxAttempts,
             key : Keys \cup {NoKey}, tx : Nat]
SentRecs == [key : Keys, nonce : Nat, to : Addresses, user : Users,
             agent : AgentIds \cup {NoAgent}, day : Days, at : Nat,
             receipt : Nat \cup {NoTime}, lost : BOOLEAN,
             state : {"pending", "success", "reverted"}]

(* What TypeOK says, with names for its record types. *)
LEMMA Typed ==
  TypeOK <=> /\ now \in 0..MaxTime /\ drip \in [Addresses -> DripRecs]
             /\ total \in [Days -> Nat] /\ funded \in [Days -> [Users -> Nat]]
             /\ key \in [Keys -> KeyRecs] /\ request \in [Requests -> ReqRecs]
             /\ sent \in Seq(SentRecs)
  BY DEF TypeOK, DripRecs, KeyRecs, ReqRecs, SentRecs

LEMMA DayGrows ==
  ASSUME NEW t \in Nat, NEW u \in Nat, t <= u
  PROVE  Day(t) \in Nat /\ Day(u) \in Nat /\ Day(t) <= Day(u)
<1> DEFINE a == t \div DayLength
           b == u \div DayLength
<1>1. DayLength \in Nat /\ DayLength > 0
  BY DripAssumption
<1>2. /\ a \in Nat /\ b \in Nat
      /\ a * DayLength <= t /\ u < (b + 1) * DayLength
  BY <1>1
<1>3. ASSUME b + 1 <= a PROVE FALSE
  <2>1. (b + 1) * DayLength <= a * DayLength
    <3> HIDE DEF a, b
    <3> QED BY <1>1, <1>2, <1>3
  <2>2. a * DayLength \in Nat /\ (b + 1) * DayLength \in Nat
    BY <1>1, <1>2
  <2> HIDE DEF a, b
  <2> QED BY <2>1, <2>2, <1>2
<1>4. a <= b
  <2> HIDE DEF a, b
  <2> QED BY <1>2, <1>3
<1> QED BY <1>2, <1>4 DEF Day

LEMMA Times ==
  ASSUME TypeOK
  PROVE  now \in Nat /\ Day(now) \in Days /\ 0 \in Days /\ NoTime \notin Int /\ NoNonce \notin Int
<1>1. now \in Nat /\ MaxTime \in Nat /\ now <= MaxTime
  BY DripAssumption DEF TypeOK
<1>2. Day(now) \in Nat /\ Day(MaxTime) \in Nat /\ Day(now) <= Day(MaxTime)
  BY <1>1, DayGrows
<1> QED BY <1>1, <1>2, DripAssumption DEF Days

LEMMA MaxOfTwo ==
  ASSUME NEW n \in Int
  PROVE  Max({0, n}) = IF n < 0 THEN 0 ELSE n
<1>1. \E x \in {0, n} : \A y \in {0, n} : x >= y
  BY DEF Max
<1>2. /\ Max({0, n}) \in {0, n}
      /\ \A y \in {0, n} : Max({0, n}) >= y
  BY <1>1 DEF Max
<1> QED BY <1>2

LEMMA SeqParts ==
  ASSUME NEW S, NEW s \in Seq(S)
  PROVE  /\ Len(s) \in Nat /\ DOMAIN s = 1..Len(s)
         /\ \A i \in DOMAIN s : s[i] \in S
  OBVIOUS

LEMMA Added ==
  ASSUME NEW S, NEW s \in Seq(S), NEW x \in S
  PROVE  /\ Append(s, x) \in Seq(S) /\ Len(Append(s, x)) = Len(s) + 1
         /\ DOMAIN Append(s, x) = 1..(Len(s) + 1)
         /\ \A i \in 1..Len(s) : Append(s, x)[i] = s[i]
         /\ Append(s, x)[Len(s) + 1] = x
  OBVIOUS

LEMMA Patched ==
  ASSUME NEW S, NEW s \in Seq(S), NEW i \in DOMAIN s, NEW x \in S
  PROVE  /\ [s EXCEPT ![i] = x] \in Seq(S)
         /\ DOMAIN [s EXCEPT ![i] = x] = DOMAIN s
         /\ [s EXCEPT ![i] = x][i] = x
         /\ \A j \in DOMAIN s : j # i => [s EXCEPT ![i] = x][j] = s[j]
  OBVIOUS

-------------------------------------------------------------------------------
(* What a step does to the ledger: it claims a drip for a request, confirms or
   gives back that of one it ends, or leaves it and whose it is alone. *)
SameRequest(r) ==
  /\ Busy(r)' = Busy(r)
  /\ Busy(r) => /\ request'[r].to = request[r].to /\ request'[r].user = request[r].user
                /\ request'[r].agent = request[r].agent /\ request'[r].day = request[r].day

Only(r) == \A s \in Requests \ {r} : request'[s] = request[s]

Settles(r) == Busy(r) /\ request' = [request EXCEPT ![r] = Idle]

LedgerMoves ==
  \/ UNCHANGED ledger /\ \A r \in Requests : SameRequest(r)
  \/ \E r \in Requests : Claims(r)
  \/ \E r \in Requests : Settles(r) /\ Confirm(request[r].to)
  \/ \E r \in Requests : Settles(r) /\ GiveBack(request[r].to)

LEMMA LedgerStep ==
  ASSUME TypeOK, Next
  PROVE  LedgerMoves
<1>0. request \in [Requests -> ReqRecs]
  BY Typed
<1>1. CASE (\E i \in DOMAIN sent : Includes(i)) \/ Tick
  BY <1>1 DEF Includes, Tick, LedgerMoves, SameRequest, Busy
<1>2. ASSUME NEW r \in Requests, Step(r) PROVE LedgerMoves
  <2>1. CASE Asks(r) \/ Refused(r) \/ Acquires(r) \/ Broadcasts(r)
    <3>1. UNCHANGED ledger /\ Only(r)
      BY <2>1, <1>0 DEF Asks, Refused, Acquires, Broadcasts, Ends, Only
    <3>2. SameRequest(r)
      <4>1. CASE Asks(r) \/ Refused(r)
        <5>1. request[r].pc \in {"idle", "reading"} /\ request'[r].pc \in {"idle", "reading"}
          <6>1. CASE Asks(r)
            <7>1. PICK u \in Users, g \in AgentIds \cup {NoAgent}, x \in Addresses :
                    request' = [request EXCEPT ![r] = [Idle EXCEPT !.pc = "reading", !.user = u,
                                                   !.agent = g, !.to = x, !.day = Day(now)]]
              BY <6>1 DEF Asks
            <7>2. request[r].pc = "idle"
              BY <6>1 DEF Asks
            <7> QED BY <7>1, <7>2, <1>0 DEF Idle
          <6>2. CASE Refused(r)
            BY <6>2, <1>0 DEF Refused, Ends, Idle
          <6> QED BY <4>1, <6>1, <6>2
        <5> QED BY <5>1 DEF SameRequest, Busy
      <4>2. CASE Acquires(r)
        BY <4>2, <1>0 DEF Acquires, SameRequest, Busy, ReqRecs
      <4>3. CASE Broadcasts(r)
        BY <4>3, <1>0 DEF Broadcasts, SameRequest, Busy, ReqRecs
      <4> QED BY <2>1, <4>1, <4>2, <4>3
    <3> QED BY <3>1, <3>2 DEF LedgerMoves, SameRequest, Only, Busy
  <2>2. CASE Claims(r)
    BY <2>2 DEF LedgerMoves
  <2>3. CASE SizeUnread(r) \/ GivesUp(r) \/ BroadcastThrows(r)
    BY <2>3 DEF SizeUnread, GivesUp, BroadcastThrows, LedgerMoves, Settles, Ends, Busy
  <2>4. CASE Confirms(r) \/ TimesOut(r)
    BY <2>4 DEF Confirms, TimesOut, LedgerMoves, Settles, Ends, Busy
  <2>5. CASE SimulationStops(r) \/ Reverts(r)
    <3>1. Again(r) /\ Busy(r)
      BY <2>5 DEF SimulationStops, Reverts, Busy
    <3>2. CASE request[r].attempt < MaxAttempts
      <4>1. UNCHANGED ledger /\ Only(r)
        BY <3>1, <3>2, <1>0 DEF Again, Only
      <4>2. SameRequest(r)
        <5>1. request[r] \in ReqRecs
          BY <1>0
        <5> DEFINE q == [request[r] EXCEPT !.pc = "waiting", !.key = NoKey, !.tx = 0,
                                           !.attempt = request[r].attempt + 1]
        <5>2. request' = [request EXCEPT ![r] = q]
          BY <3>1, <3>2 DEF Again
        <5>3. /\ q.pc = "waiting" /\ q.to = request[r].to /\ q.user = request[r].user
              /\ q.agent = request[r].agent /\ q.day = request[r].day
          BY ONLY <5>1 DEF ReqRecs
        <5> HIDE DEF q
        <5>4. request'[r] = q
          BY <5>2, <1>0
        <5> QED BY <3>1, <5>3, <5>4 DEF SameRequest, Busy
      <4> QED BY <4>1, <4>2 DEF LedgerMoves, SameRequest, Only, Busy
    <3>3. CASE ~(request[r].attempt < MaxAttempts)
      BY <3>1, <3>3 DEF Again, LedgerMoves, Settles, Ends
    <3> QED BY <3>2, <3>3
  <2> QED BY <1>2, <2>1, <2>2, <2>3, <2>4, <2>5 DEF Step
<1> QED BY <1>1, <1>2 DEF Next

-------------------------------------------------------------------------------
(* Types. *)

LEMMA AsksTyped ==
  ASSUME Shape, NEW r \in Requests, Asks(r)
  PROVE  /\ request' \in [Requests -> ReqRecs] /\ Only(r)
         /\ request'[r].pc = "reading" /\ request'[r].to \in Addresses
         /\ request'[r].user \in Users
<1>1. PICK u \in Users, g \in AgentIds \cup {NoAgent}, x \in Addresses :
        request' = [request EXCEPT ![r] = [Idle EXCEPT !.pc = "reading", !.user = u,
                                                 !.agent = g, !.to = x, !.day = Day(now)]]
  BY DEF Asks
<1>2. request \in [Requests -> ReqRecs] /\ Day(now) \in Days
  BY Typed, Times DEF Shape
<1>3. 1 \in 1..MaxAttempts
  BY DripAssumption
<1> DEFINE q == [Idle EXCEPT !.pc = "reading", !.user = u, !.agent = g, !.to = x, !.day = Day(now)]
<1>4. Idle \in ReqRecs
  BY <1>3, Times DEF Idle, ReqRecs, Shape
<1>5. \A z \in ReqRecs, d \in Days :
        LET y == [z EXCEPT !.pc = "reading", !.user = u, !.agent = g, !.to = x, !.day = d]
        IN y \in ReqRecs /\ y.pc = "reading" /\ y.user = u /\ y.to = x
  BY DEF ReqRecs
<1>6. q \in ReqRecs /\ q.pc = "reading" /\ q.user = u /\ q.to = x
  BY <1>2, <1>4, <1>5
<1>7. request' = [request EXCEPT ![r] = q]
  BY <1>1
<1> HIDE DEF q
<1> QED BY <1>2, <1>6, <1>7 DEF Only

LEMMA IdleTyped ==
  ASSUME TypeOK, NEW r \in Requests, Ends(r)
  PROVE  request' \in [Requests -> ReqRecs] /\ Only(r) /\ request'[r] = Idle
<1>1. 1 \in 1..MaxAttempts /\ 0 \in Days
  BY Times, DripAssumption
<1>2. Idle \in ReqRecs
  BY <1>1 DEF Idle, ReqRecs
<1> QED BY <1>2, Typed DEF Ends, Only

(* A request that goes on: to another point, with a key and a transaction. *)
LEMMA MovesTyped ==
  ASSUME TypeOK, NEW r \in Requests,
         NEW pc \in {"waiting", "sending", "receipt"}, NEW k \in Keys \cup {NoKey},
         NEW n \in Nat, NEW m \in 1..MaxAttempts,
         request' = [request EXCEPT ![r] = [@ EXCEPT !.pc = pc, !.key = k, !.tx = n, !.attempt = m]]
  PROVE  /\ request' \in [Requests -> ReqRecs] /\ Only(r)
         /\ request'[r].pc = pc /\ request'[r].key = k /\ request'[r].tx = n
         /\ request'[r].attempt = m /\ request'[r].to = request[r].to
         /\ request'[r].user = request[r].user
<1>1. request \in [Requests -> ReqRecs] /\ request[r] \in ReqRecs
  BY Typed
<1> DEFINE q == [request[r] EXCEPT !.pc = pc, !.key = k, !.tx = n, !.attempt = m]
<1>2. /\ q \in ReqRecs /\ q.pc = pc /\ q.key = k /\ q.tx = n /\ q.attempt = m
      /\ q.to = request[r].to /\ q.user = request[r].user
  BY <1>1 DEF ReqRecs
<1>3. request' = [request EXCEPT ![r] = q]
  BY <1>1
<1> HIDE DEF q
<1> QED BY <1>1, <1>2, <1>3 DEF Only

LEMMA AgainTyped ==
  ASSUME TypeOK, NEW r \in Requests, Again(r)
  PROVE  /\ request' \in [Requests -> ReqRecs] /\ Only(r)
         /\ request'[r].pc \in {"idle", "waiting"}
         /\ request'[r].pc = "waiting" =>
              /\ request'[r].to = request[r].to /\ request'[r].user = request[r].user
<1>0. request \in [Requests -> ReqRecs] /\ MaxAttempts \in Nat
  BY Typed, DripAssumption
<1>1. CASE request[r].attempt < MaxAttempts
  <2>1. PICK m : m = request[r].attempt + 1
    OBVIOUS
  <2>2. request[r] \in ReqRecs /\ request[r].attempt \in 1..MaxAttempts
    BY <1>0 DEF ReqRecs
  <2>3. m \in 1..MaxAttempts
    BY <1>0, <1>1, <2>1, <2>2
  <2>4. request' = [request EXCEPT ![r] = [@ EXCEPT !.pc = "waiting", !.key = NoKey, !.tx = 0,
                                                 !.attempt = m]]
    BY <1>1, <2>1, <2>2, <1>0 DEF Again
  <2> QED BY <2>3, <2>4, MovesTyped
<1>2. CASE ~(request[r].attempt < MaxAttempts)
  <2>1. Ends(r)
    BY <1>2 DEF Again
  <2> QED BY <2>1, IdleTyped DEF Idle
<1> QED BY <1>1, <1>2

(* The drips and totals stay what they are of. *)
LEMMA GiveBackTyped ==
  ASSUME TypeOK, NEW x \in Addresses, GiveBack(x)
  PROVE  drip' \in [Addresses -> DripRecs] /\ total' \in [Days -> Nat]
         /\ funded' \in [Days -> [Users -> Nat]]
<1>1. /\ drip \in [Addresses -> DripRecs] /\ total \in [Days -> Nat]
      /\ funded \in [Days -> [Users -> Nat]] /\ drip[x] \in DripRecs
  BY Typed
<1>2. CASE drip[x].status # "reserved"
  BY <1>1, <1>2 DEF GiveBack, ledger
<1>3. CASE drip[x].status = "reserved"
  <2>1. NoDrip \in DripRecs
    BY Times DEF NoDrip, DripRecs
  <2>2. drip' \in [Addresses -> DripRecs]
    BY <1>1, <1>3, <2>1 DEF GiveBack
  <2>3. \A n \in Nat, m \in Nat : Max({0, n - m}) \in Nat
    BY MaxOfTwo
  <2>4. AmountOf(drip[x].agent) \in Nat /\ drip[x].day \in Days
    BY <1>1, DripAssumption DEF AmountOf, DripRecs
  <2>5. total' \in [Days -> Nat]
    <3>1. PICK d \in Days, a \in Nat : d = drip[x].day /\ a = AmountOf(drip[x].agent)
      BY <2>4
    <3>2. total' = [total EXCEPT ![d] = Max({0, total[d] - a})]
      BY <1>1, <1>3, <3>1 DEF GiveBack
    <3> QED BY <1>1, <2>3, <3>2
  <2>6. funded' \in [Days -> [Users -> Nat]]
    <3> DEFINE d == drip[x].day
               u == drip[x].user
    <3>1. funded[d] \in [Users -> Nat]
      BY <1>1, <2>4
    <3>2. [funded[d] EXCEPT ![u] = Max({0, @ - 1})] \in [Users -> Nat]
      BY <3>1, <2>3
    <3>3. \/ funded' = funded
          \/ funded' = [funded EXCEPT ![d] = [funded[d] EXCEPT ![u] = Max({0, @ - 1})]]
      BY <1>1, <1>3, <2>4 DEF GiveBack
    <3> HIDE DEF d, u
    <3> QED BY <1>1, <3>2, <3>3
  <2> QED BY <2>2, <2>5, <2>6
<1> QED BY <1>2, <1>3

-------------------------------------------------------------------------------
(* What a step does to the transactions: one more at the end, or one is seen or
   included. *)
Adds(r, lost) == request[r].pc = "sending" /\ sent' = Append(sent, Tx(r, lost))

SentMoves ==
  \/ UNCHANGED sent
  \/ \E r \in Requests : Adds(r, FALSE) /\ Broadcasts(r)
  \/ \E r \in Requests : Adds(r, TRUE) /\ BroadcastThrows(r)
  \/ \E r \in Requests : /\ request[r].pc = "receipt" /\ Seen(request[r].tx)
                         /\ Confirms(r) \/ Reverts(r)
  \/ \E i \in DOMAIN sent : Includes(i)

LEMMA SentStep ==
  ASSUME Next
  PROVE  SentMoves
<1>1. CASE (\E i \in DOMAIN sent : Includes(i)) \/ Tick
  BY <1>1 DEF Tick, SentMoves
<1>2. ASSUME NEW r \in Requests, Step(r) PROVE SentMoves
  <2>1. CASE Asks(r) \/ Refused(r) \/ Claims(r) \/ SizeUnread(r) \/ Acquires(r) \/ GivesUp(r)
             \/ SimulationStops(r) \/ TimesOut(r)
    BY <2>1 DEF Asks, Refused, Claims, SizeUnread, Acquires, GivesUp, SimulationStops, TimesOut,
                SentMoves
  <2>2. CASE Broadcasts(r)
    BY <2>2 DEF Broadcasts, SentMoves, Adds
  <2>3. CASE BroadcastThrows(r)
    BY <2>3 DEF BroadcastThrows, SentMoves, Adds
  <2>4. CASE Confirms(r) \/ Reverts(r)
    BY <2>4 DEF Confirms, Reverts, SentMoves
  <2> QED BY <1>2, <2>1, <2>2, <2>3, <2>4 DEF Step
<1> QED BY <1>1, <1>2 DEF Next

LEMMA AcceptedTyped ==
  ASSUME TypeOK, NEW k
  PROVE  Accepted(k) \in Nat /\ IsFiniteSet({i \in DOMAIN sent : sent[i].key = k})
<1>1. DOMAIN sent = 1..Len(sent) /\ Len(sent) \in Nat
  BY Typed, SeqParts
<1>2. IsFiniteSet(DOMAIN sent)
  BY <1>1, FS_Interval
<1>3. {i \in DOMAIN sent : sent[i].key = k} \in SUBSET DOMAIN sent
  OBVIOUS
<1>4. IsFiniteSet({i \in DOMAIN sent : sent[i].key = k})
  BY <1>2, <1>3, FS_Subset
<1> QED BY <1>4, FS_CardinalityType DEF Accepted

LEMMA TxTyped ==
  ASSUME Shape, NEW r \in Requests, NEW lost \in BOOLEAN, request[r].pc = "sending"
  PROVE  /\ Tx(r, lost) \in SentRecs /\ NonceOf(request[r].key) \in Nat
         /\ request[r].key \in Keys /\ request[r].to \in Addresses
<1>1. /\ request[r].to \in Addresses /\ request[r].user \in Users /\ request[r].key \in Keys
  BY DEF Shape, RequestFits, Holds
<1>2. request[r] \in ReqRecs /\ key[request[r].key] \in KeyRecs /\ now \in Nat
  BY <1>1, Typed, Times DEF Shape
<1>3. request[r].agent \in AgentIds \cup {NoAgent} /\ request[r].day \in Days
  BY <1>2 DEF ReqRecs
<1>4. key[request[r].key].nonce \in Nat \cup {NoNonce}
  BY <1>2 DEF KeyRecs
<1>5. NonceOf(request[r].key) \in Nat
  BY <1>4, AcceptedTyped DEF NonceOf, Shape
<1> QED BY <1>1, <1>2, <1>3, <1>5 DEF Tx, SentRecs

(* What a step leaves of a transaction. *)
Kept(i) ==
  /\ i \in DOMAIN sent'
  /\ sent'[i].key = sent[i].key /\ sent'[i].to = sent[i].to /\ sent'[i].nonce = sent[i].nonce
  /\ sent'[i].user = sent[i].user /\ sent'[i].agent = sent[i].agent
  /\ sent'[i].day = sent[i].day /\ sent'[i].at = sent[i].at /\ sent'[i].lost = sent[i].lost
  /\ sent[i].state # "pending" => sent'[i].state = sent[i].state
  /\ sent'[i].receipt # sent[i].receipt =>
       \E r \in Requests : /\ request[r].pc = "receipt" /\ request[r].tx = i
                           /\ sent'[i].receipt = now /\ (Confirms(r) \/ Reverts(r))

LEMMA SentKept ==
  ASSUME Shape, SentMoves
  PROVE  /\ sent' \in Seq(SentRecs)
         /\ \A i \in DOMAIN sent : Kept(i)
<1>0. /\ sent \in Seq(SentRecs) /\ now \in Nat
      /\ DOMAIN sent = 1..Len(sent) /\ Len(sent) \in Nat
      /\ \A i \in DOMAIN sent : sent[i] \in SentRecs
  BY Typed, Times, SeqParts DEF Shape
<1>1. CASE UNCHANGED sent
  BY <1>0, <1>1 DEF Kept
<1>2. ASSUME NEW r \in Requests, NEW lost \in BOOLEAN, Adds(r, lost)
      PROVE  sent' \in Seq(SentRecs) /\ \A i \in DOMAIN sent : Kept(i)
  <2>1. PICK x \in SentRecs : sent' = Append(sent, x)
    BY <1>2, TxTyped DEF Adds
  <2> QED BY <1>0, <2>1, Added DEF Kept
<1>3. ASSUME NEW i \in DOMAIN sent, NEW x \in SentRecs, sent' = [sent EXCEPT ![i] = x],
             x.key = sent[i].key, x.to = sent[i].to, x.nonce = sent[i].nonce,
             x.user = sent[i].user, x.agent = sent[i].agent, x.day = sent[i].day,
             x.at = sent[i].at, x.lost = sent[i].lost,
             sent[i].state # "pending" => x.state = sent[i].state,
             x.receipt # sent[i].receipt =>
               \E r \in Requests : /\ request[r].pc = "receipt" /\ request[r].tx = i
                                   /\ x.receipt = now /\ (Confirms(r) \/ Reverts(r))
      PROVE  sent' \in Seq(SentRecs) /\ \A j \in DOMAIN sent : Kept(j)
  <2>1. /\ sent' \in Seq(SentRecs) /\ DOMAIN sent' = DOMAIN sent /\ sent'[i] = x
        /\ \A j \in DOMAIN sent : j # i => sent'[j] = sent[j]
    BY <1>0, <1>3, Patched
  <2>2. Kept(i)
    BY <1>3, <2>1 DEF Kept
  <2> QED BY <2>1, <2>2 DEF Kept
<1>4. ASSUME NEW r \in Requests, request[r].pc = "receipt", Seen(request[r].tx),
             Confirms(r) \/ Reverts(r)
      PROVE  sent' \in Seq(SentRecs) /\ \A j \in DOMAIN sent : Kept(j)
  <2>1. PICK i \in DOMAIN sent : i = request[r].tx
    BY <1>4 DEF Shape, RequestFits
  <2>2. sent[i] \in SentRecs
    BY <1>0
  <2> DEFINE x == [sent[i] EXCEPT !.receipt = now]
  <2>3. sent' = [sent EXCEPT ![i] = x]
    BY <1>4, <2>1 DEF Seen
  <2>4. /\ x \in SentRecs /\ x.key = sent[i].key /\ x.to = sent[i].to /\ x.nonce = sent[i].nonce
        /\ x.user = sent[i].user /\ x.agent = sent[i].agent /\ x.day = sent[i].day
        /\ x.at = sent[i].at /\ x.lost = sent[i].lost /\ x.state = sent[i].state
        /\ x.receipt = now
    BY <1>0, <2>2 DEF SentRecs
  <2> HIDE DEF x
  <2> QED BY <1>3, <1>4, <2>1, <2>3, <2>4
<1>5. ASSUME NEW i \in DOMAIN sent, Includes(i)
      PROVE  sent' \in Seq(SentRecs) /\ \A j \in DOMAIN sent : Kept(j)
  <2>1. PICK o \in {"success", "reverted"} : sent' = [sent EXCEPT ![i].state = o]
    BY <1>5 DEF Includes
  <2>2. sent[i] \in SentRecs /\ sent[i].state = "pending"
    BY <1>0, <1>5 DEF Includes
  <2> DEFINE x == [sent[i] EXCEPT !.state = o]
  <2>3. sent' = [sent EXCEPT ![i] = x]
    BY <2>1
  <2>4. /\ x \in SentRecs /\ x.key = sent[i].key /\ x.to = sent[i].to /\ x.nonce = sent[i].nonce
        /\ x.user = sent[i].user /\ x.agent = sent[i].agent /\ x.day = sent[i].day
        /\ x.at = sent[i].at /\ x.lost = sent[i].lost /\ x.receipt = sent[i].receipt
    BY <2>2 DEF SentRecs
  <2> HIDE DEF x
  <2> QED BY <1>3, <2>2, <2>3, <2>4
<1> QED BY <1>1, <1>2, <1>4, <1>5 DEF SentMoves

(* The keys keep their types, and only a request's own key changes. *)
LEMMA KeysTyped ==
  ASSUME Shape, Next
  PROVE  key' \in [Keys -> KeyRecs]
<1>0. /\ key \in [Keys -> KeyRecs] /\ now \in Int /\ request \in [Requests -> ReqRecs]
      /\ \A k \in Keys : key[k] \in KeyRecs
  BY Typed, Times DEF Shape
<1>1. \A k \in Keys, n \in Nat \cup {NoNonce} :
        /\ [key[k] EXCEPT !.inFlight = TRUE, !.used = now] \in KeyRecs
        /\ Freed(k) \in KeyRecs
        /\ [key[k] EXCEPT !.nonce = n] \in KeyRecs
        /\ AfterFailure(k) \in KeyRecs
  BY <1>0 DEF KeyRecs, Freed, AfterFailure
<1>2. CASE (\E i \in DOMAIN sent : Includes(i)) \/ Tick
  BY <1>0, <1>2 DEF Includes, Tick
<1>3. ASSUME NEW r \in Requests, Step(r) PROVE key' \in [Keys -> KeyRecs]
  <2>1. CASE Asks(r) \/ Refused(r) \/ Claims(r) \/ SizeUnread(r) \/ GivesUp(r)
    BY <1>0, <2>1 DEF Asks, Refused, Claims, SizeUnread, GivesUp
  <2>2. CASE Acquires(r)
    BY <1>0, <1>1, <2>2 DEF Acquires
  <2>3. CASE SimulationStops(r) \/ Confirms(r) \/ Reverts(r) \/ TimesOut(r)
    <3>1. PICK k \in Keys : k = request[r].key
      BY <2>3 DEF SimulationStops, Confirms, Reverts, TimesOut, Shape, RequestFits, Holds
    <3>2. key' = [key EXCEPT ![k] = Freed(k)]
      BY <2>3, <3>1 DEF SimulationStops, Confirms, Reverts, TimesOut
    <3> QED BY <1>0, <1>1, <3>2
  <2>4. CASE BroadcastThrows(r)
    <3>1. PICK k \in Keys : k = request[r].key
      BY <2>4 DEF BroadcastThrows, Shape, RequestFits, Holds
    <3>2. key' = [key EXCEPT ![k] = AfterFailure(k)]
      BY <2>4, <3>1 DEF BroadcastThrows
    <3> QED BY <1>0, <1>1, <3>2
  <2>5. CASE Broadcasts(r)
    <3>1. PICK k \in Keys : k = request[r].key /\ NonceOf(k) \in Nat
      BY <2>5, TxTyped DEF Broadcasts
    <3>2. key' = [key EXCEPT ![k] = [key[k] EXCEPT !.nonce = NonceOf(k) + 1]]
      BY <2>5, <3>1, <1>0 DEF Broadcasts
    <3>3. PICK n \in Nat : n = NonceOf(k) + 1
      BY <3>1
    <3>4. [key[k] EXCEPT !.nonce = n] \in KeyRecs
      BY <1>1, <3>3
    <3> QED BY <1>0, <3>2, <3>3, <3>4
  <2> QED BY <1>3, <2>1, <2>2, <2>3, <2>4, <2>5 DEF Step
<1> QED BY <1>2, <1>3 DEF Next

LEMMA LedgerTyped ==
  ASSUME Shape, Next
  PROVE  /\ drip' \in [Addresses -> DripRecs] /\ total' \in [Days -> Nat]
         /\ funded' \in [Days -> [Users -> Nat]]
<1>0. /\ drip \in [Addresses -> DripRecs] /\ total \in [Days -> Nat]
      /\ funded \in [Days -> [Users -> Nat]] /\ request \in [Requests -> ReqRecs]
      /\ TypeOK
  BY Typed DEF Shape
<1>1. CASE UNCHANGED ledger
  BY <1>0, <1>1 DEF ledger
<1>2. ASSUME NEW r \in Requests, Claims(r)
      PROVE  /\ drip' \in [Addresses -> DripRecs] /\ total' \in [Days -> Nat]
             /\ funded' \in [Days -> [Users -> Nat]]
  <2>1. PICK x \in Addresses, u \in Users, g \in AgentIds \cup {NoAgent}, d \in Days :
          x = request[r].to /\ u = request[r].user /\ g = request[r].agent /\ d = request[r].day
    BY <1>0, <1>2 DEF Shape, RequestFits, Claims, ReqRecs
  <2>2. AmountOf(g) \in Nat
    BY DripAssumption DEF AmountOf
  <2>3. /\ drip' = [drip EXCEPT ![x] = [status |-> "reserved", user |-> u, agent |-> g, day |-> d]]
        /\ total' = [total EXCEPT ![d] = total[d] + AmountOf(g)]
        /\ funded' = funded \/ funded' = [funded EXCEPT ![d] = [funded[d] EXCEPT ![u] = funded[d][u] + 1]]
    BY <1>0, <1>2, <2>1 DEF Claims, Claim
  <2>4. [status |-> "reserved", user |-> u, agent |-> g, day |-> d] \in DripRecs
    BY DEF DripRecs
  <2>5. drip' \in [Addresses -> DripRecs]
    BY <1>0, <2>3, <2>4
  <2>6. total' \in [Days -> Nat]
    BY <1>0, <2>2, <2>3
  <2>7. [funded[d] EXCEPT ![u] = funded[d][u] + 1] \in [Users -> Nat]
    BY <1>0
  <2>8. funded' \in [Days -> [Users -> Nat]]
    BY <1>0, <2>3, <2>7
  <2> QED BY <2>5, <2>6, <2>8
<1>3. ASSUME NEW r \in Requests, Settles(r)
      PROVE  request[r].to \in Addresses
  BY <1>3 DEF Settles, Busy, Shape, RequestFits
<1>4. ASSUME NEW x \in Addresses, Confirm(x)
      PROVE  /\ drip' \in [Addresses -> DripRecs] /\ total' \in [Days -> Nat]
             /\ funded' \in [Days -> [Users -> Nat]]
  <2>1. [drip[x] EXCEPT !.status = "confirmed"] \in DripRecs
    BY <1>0 DEF DripRecs
  <2> QED BY <1>0, <1>4, <2>1 DEF Confirm
<1> QED BY <1>0, <1>1, <1>2, <1>3, <1>4, LedgerStep, GiveBackTyped DEF LedgerMoves

(* A request's own step keeps its record in type, and what it has of its point. *)
LEMMA RequestTyped ==
  ASSUME Shape, NEW r \in Requests, Step(r)
  PROVE  request' \in [Requests -> ReqRecs] /\ Only(r) /\ RequestFits(r)'
<1>0. /\ TypeOK /\ request \in [Requests -> ReqRecs] /\ request[r] \in ReqRecs
      /\ sent \in Seq(SentRecs) /\ Len(sent) \in Nat /\ DOMAIN sent = 1..Len(sent)
  BY Typed, SeqParts DEF Shape
<1>1. request[r].attempt \in 1..MaxAttempts /\ request[r].key \in Keys \cup {NoKey}
      /\ request[r].tx \in Nat
  BY <1>0 DEF ReqRecs
<1>2. request[r].pc # "idle" => request[r].to \in Addresses /\ request[r].user \in Users
  BY DEF Shape, RequestFits
<1>3. CASE Asks(r)
  BY <1>3, AsksTyped DEF RequestFits, Holds
<1>4. CASE Ends(r)
  BY <1>0, <1>4, IdleTyped DEF RequestFits, Holds, Idle
<1>5. CASE Claims(r) \/ Acquires(r)
  <2>1. PICK pc \in {"waiting", "sending"}, k \in Keys \cup {NoKey} :
          /\ request' = [request EXCEPT ![r] = [@ EXCEPT !.pc = pc, !.key = k]]
          /\ pc = "sending" => k \in Keys
          /\ request[r].pc # "idle"
    <3>1. CASE Claims(r)
      <4>1. request' = [request EXCEPT ![r] = [@ EXCEPT !.pc = "waiting", !.key = request[r].key]]
        BY <1>0, <3>1 DEF Claims, ReqRecs
      <4> QED BY <1>1, <3>1, <4>1 DEF Claims
    <3>2. CASE Acquires(r)
      BY <3>2 DEF Acquires
    <3> QED BY <1>5, <3>1, <3>2
  <2> DEFINE q == [request[r] EXCEPT !.pc = pc, !.key = k]
  <2>2. q \in ReqRecs /\ q.pc = pc /\ q.key = k /\ q.to = request[r].to /\ q.user = request[r].user
    BY <1>0 DEF ReqRecs
  <2>3. request' = [request EXCEPT ![r] = q]
    BY <1>0, <2>1
  <2> HIDE DEF q
  <2> QED BY <1>0, <1>2, <2>1, <2>2, <2>3 DEF Only, RequestFits, Holds
<1>6. CASE SimulationStops(r) \/ Reverts(r)
  <2>1. Again(r) /\ request[r].pc # "idle"
    BY <1>6 DEF SimulationStops, Reverts
  <2> QED BY <1>0, <1>2, <2>1, AgainTyped DEF RequestFits, Holds
<1>7. CASE Broadcasts(r)
  <2>0. PICK n \in Nat : n = Len(sent) + 1 /\ n > 0
    BY <1>0
  <2> DEFINE q == [request[r] EXCEPT !.pc = "receipt", !.tx = n]
  <2>1. request' = [request EXCEPT ![r] = q] /\ request[r].pc = "sending"
    BY <1>0, <1>7, <2>0 DEF Broadcasts
  <2>2. /\ q \in ReqRecs /\ q.pc = "receipt" /\ q.key = request[r].key /\ q.to = request[r].to
        /\ q.user = request[r].user /\ q.tx = n
    BY <1>0 DEF ReqRecs
  <2>3. PICK x \in SentRecs : sent' = Append(sent, x) /\ x = Tx(r, FALSE)
    BY <1>7, <2>1, TxTyped DEF Broadcasts
  <2> HIDE DEF q
  <2>4. x.key = request[r].key /\ x.to = request[r].to /\ request[r].key \in Keys
    BY <2>1, <2>3, TxTyped DEF Tx
  <2>5. n \in DOMAIN sent' /\ sent'[n] = x
    <3>1. DOMAIN sent' = 1..n /\ sent'[n] = x
      <4>1. DOMAIN sent' = 1..(Len(sent) + 1) /\ sent'[Len(sent) + 1] = x
        <5>1. sent \in Seq(SentRecs) /\ x \in SentRecs
          BY <1>0
        <5>2. /\ DOMAIN Append(sent, x) = 1..(Len(sent) + 1)
              /\ Append(sent, x)[Len(sent) + 1] = x
          BY ONLY <5>1, Added
        <5> QED BY ONLY <2>3, <5>2
      <4>2. n = Len(sent) + 1
        BY <2>0
      <4> QED BY ONLY <4>1, <4>2
    <3>2. n \in 1..n
      BY <2>0
    <3> QED BY ONLY <3>1, <3>2
  <2>6. request'[r] = q /\ Only(r) /\ request' \in [Requests -> ReqRecs]
    BY <1>0, <2>1, <2>2 DEF Only
  <2> QED BY <1>2, <2>1, <2>2, <2>4, <2>5, <2>6 DEF RequestFits, Holds
<1> QED
  BY <1>3, <1>4, <1>5, <1>6, <1>7
     DEF Step, Refused, SizeUnread, GivesUp, BroadcastThrows, Confirms, TimesOut

LEMMA ShapeStep ==
  ASSUME Shape, Next
  PROVE  Shape'
<1>1. /\ sent' \in Seq(SentRecs) /\ \A i \in DOMAIN sent : Kept(i)
  BY SentStep, SentKept
<1>2. now' \in 0..MaxTime
  <2>1. now' = now \/ Tick
    BY DEF Next, Step, Asks, Refused, Claims, SizeUnread, Acquires, GivesUp, SimulationStops,
           Broadcasts, BroadcastThrows, Confirms, Reverts, TimesOut, Includes
  <2>2. MaxTime \in Nat /\ now \in 0..MaxTime
    BY DripAssumption DEF Shape, TypeOK
  <2> QED BY <2>1, <2>2 DEF Tick
<1>3. ASSUME NEW s \in Requests, request'[s] = request[s]
      PROVE  RequestFits(s)'
  BY <1>1, <1>3 DEF Shape, RequestFits, Holds, Kept
<1>4. request' \in [Requests -> ReqRecs] /\ \A s \in Requests : RequestFits(s)'
  <2>1. CASE (\E i \in DOMAIN sent : Includes(i)) \/ Tick
    <3>1. request' = request
      BY <2>1 DEF Includes, Tick
    <3> QED BY <1>3, <3>1, Typed DEF Shape
  <2>2. ASSUME NEW r \in Requests, Step(r)
        PROVE  request' \in [Requests -> ReqRecs] /\ \A s \in Requests : RequestFits(s)'
    BY <1>3, <2>2, RequestTyped DEF Only
  <2> QED BY <2>1, <2>2 DEF Next
<1>5. TypeOK'
  BY <1>1, <1>2, <1>4, LedgerTyped, KeysTyped, Typed
     DEF TypeOK, DripRecs, KeyRecs, ReqRecs, SentRecs
<1> QED BY <1>4, <1>5 DEF Shape

-------------------------------------------------------------------------------
(* The ledger. *)

LEMMA DripsFinite ==
  ASSUME IsFiniteSet(Held)
  PROVE  /\ \A d : IsFiniteSet(OwnDrips(d)) /\ Cardinality(OwnDrips(d)) \in Nat
         /\ \A d, us : IsFiniteSet(AgentDrips(d, us)) /\ Cardinality(AgentDrips(d, us)) \in Nat
<1>1. /\ \A d : OwnDrips(d) \in SUBSET Held
      /\ \A d, us : AgentDrips(d, us) \in SUBSET Held
  BY DEF OwnDrips, AgentDrips, Held
<1> QED BY <1>1, FS_Subset, FS_CardinalityType

LEMMA Products ==
  /\ Amount.user \in Nat /\ Amount.agent \in Nat
  /\ \A m, n \in Nat : m * n \in Nat /\ m * (n + 1) = m * n + m
  BY DripAssumption

(* The steps that leave the ledger alone. *)
LEMMA LedgerUnchanged ==
  ASSUME Ledger, UNCHANGED ledger, \A r \in Requests : SameRequest(r)
  PROVE  Ledger'
<1>1. UNCHANGED <<drip, total, funded>>
  BY DEF ledger
<1>2. OwnersFit'
  BY <1>1 DEF Ledger, OwnersFit, SameRequest, Reserved
<1>3. DripsFit' /\ BudgetFits'
  BY <1>1 DEF Ledger, DripsFit, SameOwner, BudgetFits, Held, TotalsAdd, Cost, OwnDrips, AgentDrips
<1> QED BY <1>2, <1>3 DEF Ledger

(* What `claim` finds and makes. *)
ClaimMade(r, x, u, g, d) ==
  /\ x = request[r].to /\ u = request[r].user /\ g = request[r].agent /\ d = request[r].day
  /\ x \notin Held
  /\ \A y \in Held : drip[y].agent = g => g = NoAgent /\ drip[y].user # u
  /\ total[d] + AmountOf(g) <= DailyCap
  /\ g # NoAgent => funded[d][u] < MaxAgentsPerDay
  /\ drip'[x] = [status |-> "reserved", user |-> u, agent |-> g, day |-> d]
  /\ \A y \in Addresses \ {x} : drip'[y] = drip[y]
  /\ total'[d] = total[d] + AmountOf(g)
  /\ \A e \in Days \ {d} : total'[e] = total[e] /\ funded'[e] = funded[e]
  /\ funded'[d][u] = funded[d][u] + (IF g = NoAgent THEN 0 ELSE 1)
  /\ \A v \in Users \ {u} : funded'[d][v] = funded[d][v]
  /\ Only(r) /\ Busy(r)' /\ ~Busy(r)
  /\ request'[r].to = x /\ request'[r].user = u /\ request'[r].agent = g /\ request'[r].day = d

LEMMA ClaimsMake ==
  ASSUME Shape, NEW r \in Requests, Claims(r)
  PROVE  \E x \in Addresses, u \in Users, g \in AgentIds \cup {NoAgent}, d \in Days :
           ClaimMade(r, x, u, g, d)
<1>0. /\ drip \in [Addresses -> DripRecs] /\ total \in [Days -> Nat]
      /\ funded \in [Days -> [Users -> Nat]] /\ request \in [Requests -> ReqRecs]
      /\ request[r] \in ReqRecs /\ request[r].pc = "reading"
  BY Typed DEF Shape, Claims
<1>1. PICK x \in Addresses, u \in Users, g \in AgentIds \cup {NoAgent}, d \in Days :
        x = request[r].to /\ u = request[r].user /\ g = request[r].agent /\ d = request[r].day
  BY <1>0 DEF Shape, RequestFits, ReqRecs
<1>2. Claim(u, g, x, d)
  BY <1>1 DEF Claims
<1>3. /\ x \notin Held
      /\ \A y \in Held : drip[y].agent = g => g = NoAgent /\ drip[y].user # u
      /\ total[d] + AmountOf(g) <= DailyCap
      /\ g # NoAgent => funded[d][u] < MaxAgentsPerDay
  BY <1>2 DEF Claim, Claimable, Taken, Held
<1>4. /\ drip'[x] = [status |-> "reserved", user |-> u, agent |-> g, day |-> d]
      /\ \A y \in Addresses \ {x} : drip'[y] = drip[y]
  BY <1>0, <1>2 DEF Claim
<1>5. /\ total'[d] = total[d] + AmountOf(g)
      /\ \A e \in Days \ {d} : total'[e] = total[e]
  BY <1>0, <1>2 DEF Claim
<1>6. /\ \A e \in Days \ {d} : funded'[e] = funded[e]
      /\ funded'[d][u] = funded[d][u] + (IF g = NoAgent THEN 0 ELSE 1)
      /\ \A v \in Users \ {u} : funded'[d][v] = funded[d][v]
  <2>1. funded[d] \in [Users -> Nat] /\ funded[d][u] \in Nat
    BY <1>0
  <2>2. CASE g = NoAgent
    BY <1>2, <2>1, <2>2 DEF Claim
  <2>3. CASE g # NoAgent
    <3>1. funded' = [funded EXCEPT ![d] = [funded[d] EXCEPT ![u] = funded[d][u] + 1]]
      BY <1>0, <1>2, <2>3 DEF Claim
    <3> QED BY <1>0, <2>1, <2>3, <3>1
  <2> QED BY <2>2, <2>3
<1>7. /\ Only(r) /\ Busy(r)' /\ ~Busy(r)
      /\ request'[r].to = x /\ request'[r].user = u /\ request'[r].agent = g /\ request'[r].day = d
  <2>1. request' = [request EXCEPT ![r] = [request[r] EXCEPT !.pc = "waiting"]]
    BY <1>0 DEF Claims
  <2> QED BY <1>0, <1>1, <2>1 DEF Only, Busy, ReqRecs
<1> QED BY <1>1, <1>3, <1>4, <1>5, <1>6, <1>7 DEF ClaimMade

LEMMA ClaimKeeps ==
  ASSUME Shape, Ledger, NEW r \in Requests,
         NEW x \in Addresses, NEW u \in Users, NEW g \in AgentIds \cup {NoAgent}, NEW d \in Days,
         ClaimMade(r, x, u, g, d)
  PROVE  Ledger'
<1> USE DEF ClaimMade
<1>0. /\ drip \in [Addresses -> DripRecs] /\ total \in [Days -> Nat]
      /\ funded \in [Days -> [Users -> Nat]]
      /\ DailyCap \in Nat /\ MaxAgentsPerDay \in Nat
  BY Typed, DripAssumption DEF Shape
<1>1. OwnersFit'
  <2>1. \A s \in Requests \ {r} : Busy(s)' = Busy(s) /\ request'[s] = request[s]
    BY DEF Only, Busy
  <2>2. \A s \in Requests \ {r} : Busy(s) => request[s].to \in Addresses /\ request[s].to # x
    BY DEF Ledger, OwnersFit, Reserved, Held, Shape, RequestFits, Busy
  <2>3. \A s \in Requests : Busy(s)' => Reserved(s)'
    <3>1. Reserved(r)'
      BY DEF Reserved
    <3>2. \A s \in Requests \ {r} : Busy(s)' => Reserved(s)'
      BY <2>1, <2>2 DEF Ledger, OwnersFit, Reserved
    <3> QED BY <3>1, <3>2
  <2>4. \A s, t \in Requests : Busy(s)' /\ Busy(t)' /\ request'[s].to = request'[t].to => s = t
    BY <2>1, <2>2 DEF Ledger, OwnersFit
  <2>5. \A y \in Addresses : drip'[y].status = "reserved" =>
          \E s \in Requests : Busy(s)' /\ request'[s].to = y
    <3>1. ASSUME NEW y \in Addresses, y # x, drip'[y].status = "reserved"
          PROVE  \E s \in Requests : Busy(s)' /\ request'[s].to = y
      <4>1. PICK s \in Requests : Busy(s) /\ request[s].to = y
        BY <3>1 DEF Ledger, OwnersFit
      <4> QED BY <2>1, <3>1, <4>1
    <3> QED BY <3>1
  <2> QED BY <2>3, <2>4, <2>5 DEF OwnersFit
<1>2. Held' = Held \cup {x}
  BY DEF Held
<1>3. DripsFit'
  <2>1. \A y \in Held : drip'[y] = drip[y] /\ y # x
    BY DEF Held
  <2>2. drip'[x].user = u /\ drip'[x].agent = g
    OBVIOUS
  <2>3. \A y \in Held : ~SameOwner(x, y)' /\ ~SameOwner(y, x)'
    BY <2>1, <2>2 DEF SameOwner
  <2>4. \A y, z \in Held : SameOwner(y, z)' = SameOwner(y, z)
    BY <2>1 DEF SameOwner
  <2> QED BY <1>2, <2>1, <2>2, <2>3, <2>4 DEF Ledger, DripsFit
<1>4. IsFiniteSet(Held)
  BY DEF Ledger, BudgetFits
<1>5. BudgetFits'
  <2>1. IsFiniteSet(Held')
    BY <1>2, <1>4, FS_AddElement
  <2>2. /\ \A e : Cardinality(OwnDrips(e)) \in Nat /\ IsFiniteSet(OwnDrips(e))
        /\ \A e, us : Cardinality(AgentDrips(e, us)) \in Nat /\ IsFiniteSet(AgentDrips(e, us))
        /\ \A e : x \notin OwnDrips(e) /\ \A us : x \notin AgentDrips(e, us)
    <3>1. \A e : x \notin OwnDrips(e) /\ \A us : x \notin AgentDrips(e, us)
      BY DEF OwnDrips, AgentDrips, Held
    <3> QED BY <1>4, <3>1, DripsFinite
  <2>3. /\ \A e : OwnDrips(e)' = IF e = d /\ g = NoAgent THEN OwnDrips(e) \cup {x} ELSE OwnDrips(e)
        /\ \A e, us : AgentDrips(e, us)' =
             IF e = d /\ g # NoAgent /\ u \in us THEN AgentDrips(e, us) \cup {x} ELSE AgentDrips(e, us)
    BY DEF OwnDrips, AgentDrips, Held
  <2>4. /\ \A e : Cardinality(OwnDrips(e)') =
             Cardinality(OwnDrips(e)) + (IF e = d /\ g = NoAgent THEN 1 ELSE 0)
        /\ \A e, us : Cardinality(AgentDrips(e, us)') =
             Cardinality(AgentDrips(e, us)) + (IF e = d /\ g # NoAgent /\ u \in us THEN 1 ELSE 0)
    <3>1. ASSUME NEW S, IsFiniteSet(S), x \notin S
          PROVE  Cardinality(S \cup {x}) = Cardinality(S) + 1
      BY <3>1, FS_AddElement
    <3>2. ASSUME NEW e
          PROVE  Cardinality(OwnDrips(e)') =
                   Cardinality(OwnDrips(e)) + (IF e = d /\ g = NoAgent THEN 1 ELSE 0)
      BY <2>2, <2>3, <3>1
    <3>3. ASSUME NEW e, NEW us
          PROVE  Cardinality(AgentDrips(e, us)') =
                   Cardinality(AgentDrips(e, us)) + (IF e = d /\ g # NoAgent /\ u \in us THEN 1 ELSE 0)
      <4>1. Cardinality(AgentDrips(e, us)) \in Nat /\ IsFiniteSet(AgentDrips(e, us))
            /\ x \notin AgentDrips(e, us)
        BY <2>2
      <4>2. CASE e = d /\ g # NoAgent /\ u \in us
        <5>1. AgentDrips(e, us)' = AgentDrips(e, us) \cup {x}
          BY <2>3, <4>2
        <5> QED BY <3>1, <4>1, <4>2, <5>1
      <4>3. CASE ~(e = d /\ g # NoAgent /\ u \in us)
        <5>1. AgentDrips(e, us)' = AgentDrips(e, us)
          BY <2>3, <4>3
        <5> QED BY <4>1, <4>3, <5>1
      <4> QED BY <4>2, <4>3
    <3> QED BY <3>2, <3>3
  <2>5. ASSUME NEW e \in Days
        PROVE  /\ total'[e] = Cost(OwnDrips(e), AgentDrips(e, Users))' /\ total'[e] <= DailyCap
               /\ \A v \in Users : /\ funded'[e][v] = Cardinality(AgentDrips(e, {v})')
                                   /\ funded'[e][v] <= MaxAgentsPerDay
    <3>1. /\ total[e] = Cost(OwnDrips(e), AgentDrips(e, Users)) /\ total[e] <= DailyCap
          /\ \A v \in Users : /\ funded[e][v] = Cardinality(AgentDrips(e, {v}))
                              /\ funded[e][v] <= MaxAgentsPerDay
      BY DEF Ledger, BudgetFits, TotalsAdd
    <3>2. \A v \in Users : funded[e][v] \in Nat
      BY <1>0
    <3>3. CASE e = d
      <4>1. PICK m, n \in Nat : m = Cardinality(OwnDrips(d)) /\ n = Cardinality(AgentDrips(d, Users))
        BY <2>2
      <4>2. total[d] = Amount.user * m + Amount.agent * n
        BY <3>1, <3>3, <4>1 DEF Cost
      <4>3. total'[d] = Cost(OwnDrips(d), AgentDrips(d, Users))'
        <5>1. CASE g = NoAgent
          <6>1. Cardinality(OwnDrips(d)') = m + 1 /\ Cardinality(AgentDrips(d, Users)') = n
            BY <2>4, <4>1, <5>1
          <6>2. total'[d] = Amount.user * m + Amount.agent * n + Amount.user
            BY <4>2, <5>1 DEF AmountOf
          <6>3. Cost(OwnDrips(d), AgentDrips(d, Users))' = Amount.user * (m + 1) + Amount.agent * (n)
            BY <6>1 DEF Cost
          <6>4. /\ Amount.user * (m + 1) = Amount.user * m + Amount.user
                /\ Amount.user * m \in Nat /\ Amount.agent * n \in Nat /\ Amount.user \in Nat
            BY Products
          <6> QED BY <6>2, <6>3, <6>4
        <5>2. CASE g # NoAgent
          <6>1. Cardinality(OwnDrips(d)') = m /\ Cardinality(AgentDrips(d, Users)') = n + 1
            BY <2>4, <4>1, <5>2
          <6>2. total'[d] = Amount.user * m + Amount.agent * n + Amount.agent
            BY <4>2, <5>2 DEF AmountOf
          <6>3. Cost(OwnDrips(d), AgentDrips(d, Users))' = Amount.user * (m) + Amount.agent * (n + 1)
            BY <6>1 DEF Cost
          <6>4. /\ Amount.agent * (n + 1) = Amount.agent * n + Amount.agent
                /\ Amount.user * m \in Nat /\ Amount.agent * n \in Nat /\ Amount.agent \in Nat
            BY Products
          <6> QED BY <6>2, <6>3, <6>4
        <5> QED BY <5>1, <5>2
      <4>4. ASSUME NEW v \in Users
            PROVE  /\ funded'[d][v] = Cardinality(AgentDrips(d, {v})')
                   /\ funded'[d][v] <= MaxAgentsPerDay
        <5>1. /\ funded[d][v] = Cardinality(AgentDrips(d, {v})) /\ funded[d][v] <= MaxAgentsPerDay
              /\ funded[d][v] \in Nat
          BY <3>1, <3>2, <3>3
        <5>2. Cardinality(AgentDrips(d, {v})') =
                Cardinality(AgentDrips(d, {v})) + (IF g # NoAgent /\ u = v THEN 1 ELSE 0)
          BY <2>4
        <5>3. funded'[d][v] = funded[d][v] + (IF g # NoAgent /\ u = v THEN 1 ELSE 0)
          BY <5>1
        <5>4. g # NoAgent /\ u = v => funded[d][v] < MaxAgentsPerDay
          OBVIOUS
        <5> QED BY <1>0, <5>1, <5>2, <5>3, <5>4
      <4>5. total'[d] <= DailyCap
        OBVIOUS
      <4> QED BY <3>3, <4>3, <4>4, <4>5
    <3>4. CASE e # d
      <4>1. total'[e] = total[e] /\ funded'[e] = funded[e]
        BY <3>4
      <4>2. OwnDrips(e)' = OwnDrips(e) /\ \A us : AgentDrips(e, us)' = AgentDrips(e, us)
        BY <2>3, <3>4
      <4> QED BY <3>1, <4>1, <4>2 DEF Cost
    <3> QED BY <3>3, <3>4
  <2> QED BY <2>1, <2>5 DEF BudgetFits, TotalsAdd
<1> QED BY <1>1, <1>3, <1>5 DEF Ledger

(* What is common to the ends of a request: it leaves its reserved drip. *)
Leaves(r, x) ==
  /\ x = request[r].to /\ Busy(r) /\ Only(r) /\ ~Busy(r)'
  /\ \A y \in Addresses \ {x} : drip'[y] = drip[y]
  /\ drip'[x].status # "reserved"

LEMMA LeavesOwners ==
  ASSUME Shape, OwnersFit, NEW r \in Requests, NEW x \in Addresses, Leaves(r, x)
  PROVE  OwnersFit'
<1> USE DEF Leaves
<1>1. \A s \in Requests \ {r} : /\ Busy(s)' = Busy(s) /\ request'[s] = request[s]
                                /\ Busy(s) => request[s].to \in Addresses /\ request[s].to # x
  BY DEF Only, Busy, OwnersFit, Shape, RequestFits
<1>2. \A s \in Requests : Busy(s)' => Reserved(s)'
  BY <1>1 DEF OwnersFit, Reserved
<1>3. \A s, t \in Requests : Busy(s)' /\ Busy(t)' /\ request'[s].to = request'[t].to => s = t
  BY <1>1 DEF OwnersFit
<1>4. ASSUME NEW y \in Addresses, drip'[y].status = "reserved"
      PROVE  \E s \in Requests : Busy(s)' /\ request'[s].to = y
  <2>1. y # x /\ drip[y].status = "reserved"
    BY <1>4
  <2>2. PICK s \in Requests : Busy(s) /\ request[s].to = y
    BY <2>1 DEF OwnersFit
  <2> QED BY <1>1, <2>1, <2>2
<1> QED BY <1>2, <1>3, <1>4 DEF OwnersFit

LEMMA ConfirmKeeps ==
  ASSUME Shape, Ledger, NEW r \in Requests, Settles(r), Confirm(request[r].to)
  PROVE  Ledger'
<1>0. /\ drip \in [Addresses -> DripRecs] /\ request \in [Requests -> ReqRecs]
  BY Typed DEF Shape
<1>1. PICK x \in Addresses : x = request[r].to /\ drip[x].status = "reserved"
  BY DEF Shape, RequestFits, Settles, Busy, Ledger, OwnersFit, Reserved
<1>2. /\ drip' = [drip EXCEPT ![x].status = "confirmed"] /\ total' = total /\ funded' = funded
  BY <1>1 DEF Confirm
<1>3. /\ drip'[x].status = "confirmed" /\ drip'[x].user = drip[x].user
      /\ drip'[x].agent = drip[x].agent /\ drip'[x].day = drip[x].day
      /\ \A y \in Addresses \ {x} : drip'[y] = drip[y]
  BY <1>0, <1>2 DEF DripRecs
<1>4. Leaves(r, x)
  <2>1. Only(r) /\ ~Busy(r)' /\ Busy(r)
    BY <1>0 DEF Settles, Only, Busy, Idle
  <2> QED BY <1>1, <1>3, <2>1 DEF Leaves
<1>5. OwnersFit'
  BY <1>4, LeavesOwners DEF Ledger
<1>6. \A y \in Addresses : /\ drip'[y].status # "none" <=> drip[y].status # "none"
                           /\ drip'[y].user = drip[y].user /\ drip'[y].agent = drip[y].agent
                           /\ drip'[y].day = drip[y].day
  BY <1>1, <1>3
<1>7. /\ Held' = Held /\ \A d : OwnDrips(d)' = OwnDrips(d)
      /\ \A d, us : AgentDrips(d, us)' = AgentDrips(d, us)
  BY <1>6 DEF Held, OwnDrips, AgentDrips
<1>8. DripsFit'
  <2>1. \A y \in Held : drip'[y].user = drip[y].user /\ drip'[y].agent = drip[y].agent
    BY <1>6 DEF Held
  <2>2. \A y, z \in Held : SameOwner(y, z)' = SameOwner(y, z)
    BY <2>1 DEF SameOwner
  <2> QED BY <1>7, <2>1, <2>2 DEF Ledger, DripsFit
<1>9. BudgetFits'
  <2>1. \A d : Cost(OwnDrips(d), AgentDrips(d, Users))' = Cost(OwnDrips(d), AgentDrips(d, Users))
    BY <1>7 DEF Cost
  <2>2. TotalsAdd'
    BY <1>2, <1>7, <2>1 DEF TotalsAdd, Ledger, BudgetFits
  <2> QED BY <1>2, <1>7, <2>2 DEF Ledger, BudgetFits
<1> QED BY <1>5, <1>8, <1>9 DEF Ledger

(* What `release` finds and leaves. *)
BackMade(x, u, g, d) ==
  /\ drip[x].status = "reserved" /\ drip[x].user = u /\ drip[x].agent = g /\ drip[x].day = d
  /\ drip'[x] = NoDrip
  /\ \A y \in Addresses \ {x} : drip'[y] = drip[y]
  /\ total'[d] = Max({0, total[d] - AmountOf(g)})
  /\ \A e \in Days \ {d} : total'[e] = total[e] /\ funded'[e] = funded[e]
  /\ funded'[d][u] = IF g = NoAgent THEN funded[d][u] ELSE Max({0, funded[d][u] - 1})
  /\ \A v \in Users \ {u} : funded'[d][v] = funded[d][v]

LEMMA GiveBackMakes ==
  ASSUME Shape, Ledger, NEW r \in Requests, Settles(r), GiveBack(request[r].to)
  PROVE  \E x \in Addresses, u \in Users, g \in AgentIds \cup {NoAgent}, d \in Days :
           BackMade(x, u, g, d) /\ Leaves(r, x)
<1>0. /\ drip \in [Addresses -> DripRecs] /\ total \in [Days -> Nat]
      /\ funded \in [Days -> [Users -> Nat]] /\ request \in [Requests -> ReqRecs]
  BY Typed DEF Shape
<1>1. PICK x \in Addresses : x = request[r].to /\ drip[x].status = "reserved"
  BY DEF Shape, RequestFits, Settles, Busy, Ledger, OwnersFit, Reserved
<1>2. PICK u \in Users, g \in AgentIds \cup {NoAgent}, d \in Days :
        u = drip[x].user /\ g = drip[x].agent /\ d = drip[x].day
  <2>1. drip[x] \in DripRecs /\ drip[x].user \in Users
    BY <1>0, <1>1 DEF Ledger, DripsFit, Held
  <2> QED BY <2>1 DEF DripRecs
<1>3. drip' = [drip EXCEPT ![x] = NoDrip]
  BY <1>1 DEF GiveBack
<1>4. total' = [total EXCEPT ![d] = Max({0, total[d] - AmountOf(g)})]
  BY <1>0, <1>1, <1>2 DEF GiveBack
<1>5. /\ \A e \in Days \ {d} : funded'[e] = funded[e]
      /\ funded'[d][u] = IF g = NoAgent THEN funded[d][u] ELSE Max({0, funded[d][u] - 1})
      /\ \A v \in Users \ {u} : funded'[d][v] = funded[d][v]
  <2>1. funded[d] \in [Users -> Nat]
    BY <1>0
  <2>2. CASE g = NoAgent
    BY <1>1, <1>2, <2>2 DEF GiveBack
  <2>3. CASE g # NoAgent
    <3>1. funded' = [funded EXCEPT ![d] = [funded[d] EXCEPT ![u] = Max({0, funded[d][u] - 1})]]
      BY <1>0, <1>1, <1>2, <2>1, <2>3 DEF GiveBack
    <3> QED BY <1>0, <2>1, <2>3, <3>1
  <2> QED BY <2>2, <2>3
<1>6. Leaves(r, x)
  <2>1. Only(r) /\ ~Busy(r)' /\ Busy(r)
    BY <1>0 DEF Settles, Only, Busy, Idle
  <2> QED BY <1>0, <1>1, <1>3, <2>1 DEF Leaves, NoDrip
<1>7. BackMade(x, u, g, d)
  BY <1>0, <1>1, <1>2, <1>3, <1>4, <1>5 DEF BackMade
<1> QED BY <1>6, <1>7

LEMMA GiveBackKeeps ==
  ASSUME Shape, Ledger, NEW r \in Requests,
         NEW x \in Addresses, NEW u \in Users, NEW g \in AgentIds \cup {NoAgent}, NEW d \in Days,
         BackMade(x, u, g, d), Leaves(r, x)
  PROVE  Ledger'
<1> USE DEF BackMade
<1>0. /\ total \in [Days -> Nat] /\ funded \in [Days -> [Users -> Nat]]
      /\ DailyCap \in Nat /\ MaxAgentsPerDay \in Nat
  BY Typed, DripAssumption DEF Shape
<1>1. OwnersFit'
  BY LeavesOwners DEF Ledger
<1>2. Held' = Held \ {x} /\ x \in Held
  BY DEF Held, NoDrip
<1>3. DripsFit'
  <2>1. \A y \in Held' : drip'[y] = drip[y] /\ y \in Held
    BY <1>2 DEF Held
  <2>2. \A y, z \in Held' : SameOwner(y, z)' = SameOwner(y, z)
    BY <2>1 DEF SameOwner
  <2> QED BY <2>1, <2>2 DEF Ledger, DripsFit
<1>4. IsFiniteSet(Held)
  BY DEF Ledger, BudgetFits
<1>5. BudgetFits'
  <2>1. IsFiniteSet(Held')
    BY <1>2, <1>4, FS_RemoveElement
  <2>2. /\ \A e : Cardinality(OwnDrips(e)) \in Nat /\ IsFiniteSet(OwnDrips(e))
        /\ \A e, us : Cardinality(AgentDrips(e, us)) \in Nat /\ IsFiniteSet(AgentDrips(e, us))
    BY <1>4, DripsFinite
  <2>3. /\ \A e : x \in OwnDrips(e) <=> e = d /\ g = NoAgent
        /\ \A e, us : x \in AgentDrips(e, us) <=> e = d /\ g # NoAgent /\ u \in us
        /\ \A e : OwnDrips(e)' = OwnDrips(e) \ {x}
        /\ \A e, us : AgentDrips(e, us)' = AgentDrips(e, us) \ {x}
    BY DEF OwnDrips, AgentDrips, NoDrip
  <2>4. ASSUME NEW S, IsFiniteSet(S)
        PROVE  /\ Cardinality(S \ {x}) = Cardinality(S) - (IF x \in S THEN 1 ELSE 0)
               /\ Cardinality(S \ {x}) \in Nat
    <3>1. IsFiniteSet(S \ {x}) /\ Cardinality(S) \in Nat
      BY <2>4, FS_RemoveElement, FS_CardinalityType
    <3> QED BY <2>4, <3>1, FS_RemoveElement, FS_CardinalityType
  <2>5. ASSUME NEW e \in Days
        PROVE  /\ total'[e] = Cost(OwnDrips(e), AgentDrips(e, Users))' /\ total'[e] <= DailyCap
               /\ \A v \in Users : /\ funded'[e][v] = Cardinality(AgentDrips(e, {v})')
                                   /\ funded'[e][v] <= MaxAgentsPerDay
    <3>1. /\ total[e] = Cost(OwnDrips(e), AgentDrips(e, Users)) /\ total[e] <= DailyCap
          /\ \A v \in Users : /\ funded[e][v] = Cardinality(AgentDrips(e, {v}))
                              /\ funded[e][v] <= MaxAgentsPerDay
      BY DEF Ledger, BudgetFits, TotalsAdd
    <3>2. \A v \in Users : funded[e][v] \in Nat
      BY <1>0
    <3>3. CASE e = d
      <4>1. PICK m, n \in Nat :
              m = Cardinality(OwnDrips(d)') /\ n = Cardinality(AgentDrips(d, Users)')
        BY <2>2, <2>3, <2>4
      <4>2. total'[d] = Cost(OwnDrips(d), AgentDrips(d, Users))' /\ total'[d] <= total[d]
        <5>0. /\ Cost(OwnDrips(d), AgentDrips(d, Users))' = Amount.user * m + Amount.agent * n
              /\ Amount.user * m \in Nat /\ Amount.agent * n \in Nat
              /\ Amount.user \in Nat /\ Amount.agent \in Nat
              /\ Amount.user * (m + 1) = Amount.user * m + Amount.user
              /\ Amount.agent * (n + 1) = Amount.agent * n + Amount.agent
          BY <4>1, Products DEF Cost
        <5>1. CASE g = NoAgent
          <6>1. Cardinality(OwnDrips(d)) = m + 1 /\ Cardinality(AgentDrips(d, Users)) = n
            BY <2>2, <2>3, <2>4, <4>1, <5>1
          <6>2. total[d] = Amount.user * (m + 1) + Amount.agent * n
            BY <3>1, <3>3, <6>1 DEF Cost
          <6>3. total[d] - AmountOf(g) = Amount.user * m + Amount.agent * n
            BY <5>0, <5>1, <6>2 DEF AmountOf
          <6>4. total'[d] = Amount.user * m + Amount.agent * n
            BY <5>0, <6>3, MaxOfTwo
          <6> QED BY <5>0, <6>2, <6>4
        <5>2. CASE g # NoAgent
          <6>1. Cardinality(OwnDrips(d)) = m /\ Cardinality(AgentDrips(d, Users)) = n + 1
            BY <2>2, <2>3, <2>4, <4>1, <5>2
          <6>2. total[d] = Amount.user * m + Amount.agent * (n + 1)
            BY <3>1, <3>3, <6>1 DEF Cost
          <6>3. total[d] - AmountOf(g) = Amount.user * m + Amount.agent * n
            BY <5>0, <5>2, <6>2 DEF AmountOf
          <6>4. total'[d] = Amount.user * m + Amount.agent * n
            BY <5>0, <6>3, MaxOfTwo
          <6> QED BY <5>0, <6>2, <6>4
        <5> QED BY <5>1, <5>2
      <4>3. ASSUME NEW v \in Users
            PROVE  /\ funded'[d][v] = Cardinality(AgentDrips(d, {v})')
                   /\ funded'[d][v] <= MaxAgentsPerDay
        <5>1. PICK n2 \in Nat : n2 = Cardinality(AgentDrips(d, {v})')
          BY <2>2, <2>3, <2>4
        <5>2. funded[d][v] = n2 + (IF g # NoAgent /\ u = v THEN 1 ELSE 0)
          <6>1. x \in AgentDrips(d, {v}) <=> g # NoAgent /\ u = v
            BY <2>3
          <6>2. funded[d][v] = Cardinality(AgentDrips(d, {v}))
            BY <3>1, <3>3
          <6>3. n2 = funded[d][v] - (IF x \in AgentDrips(d, {v}) THEN 1 ELSE 0)
            BY <2>2, <2>3, <2>4, <5>1, <6>2
          <6>4. funded[d][v] \in Nat
            BY <3>2, <3>3
          <6> QED BY <6>1, <6>3, <6>4
        <5>3. funded'[d][v] = n2
          <6>1. CASE g # NoAgent /\ u = v
            <7>1. funded[d][u] - 1 = n2
              BY <5>2, <6>1
            <7> QED BY <5>1, <6>1, <7>1, MaxOfTwo
          <6>2. CASE ~(g # NoAgent /\ u = v)
            BY <5>2, <6>2
          <6> QED BY <6>1, <6>2
        <5>4. funded[d][v] <= MaxAgentsPerDay
          BY <3>1, <3>3
        <5> QED BY <1>0, <5>1, <5>2, <5>3, <5>4
      <4>4. total'[d] <= DailyCap
        <5>1. total[d] \in Nat /\ total'[d] \in Nat
          <6>1. Amount.user * m \in Nat /\ Amount.agent * n \in Nat
            BY Products
          <6>2. total'[d] = Amount.user * m + Amount.agent * n
            BY <4>1, <4>2 DEF Cost
          <6> QED BY <1>0, <6>1, <6>2
        <5> QED BY <1>0, <3>1, <3>3, <4>2, <5>1
      <4> QED BY <3>3, <4>2, <4>3, <4>4
    <3>4. CASE e # d
      <4>1. total'[e] = total[e] /\ funded'[e] = funded[e]
        BY <3>4
      <4>2. OwnDrips(e)' = OwnDrips(e) /\ \A us : AgentDrips(e, us)' = AgentDrips(e, us)
        <5>1. x \notin OwnDrips(e) /\ \A us : x \notin AgentDrips(e, us)
          BY <2>3, <3>4
        <5>2. \A S : x \notin S => S \ {x} = S
          OBVIOUS
        <5> QED BY <2>3, <5>1, <5>2
      <4> QED BY <3>1, <4>1, <4>2 DEF Cost
    <3> QED BY <3>3, <3>4
  <2> QED BY <2>1, <2>5 DEF BudgetFits, TotalsAdd
<1> QED BY <1>1, <1>3, <1>5 DEF Ledger

LEMMA LedgerHolds ==
  ASSUME Shape, Ledger, Next
  PROVE  Ledger'
<1>1. ASSUME NEW r \in Requests, Claims(r) PROVE Ledger'
  BY <1>1, ClaimsMake, ClaimKeeps
<1>2. ASSUME NEW r \in Requests, Settles(r), GiveBack(request[r].to) PROVE Ledger'
  BY <1>2, GiveBackMakes, GiveBackKeeps
<1> QED BY <1>1, <1>2, LedgerStep, LedgerUnchanged, ConfirmKeeps DEF LedgerMoves, Shape

-------------------------------------------------------------------------------
(* What is paid. *)

LEMMA SentTyped ==
  ASSUME TypeOK, NEW i \in DOMAIN sent
  PROVE  /\ sent[i].key \in Keys /\ sent[i].to \in Addresses /\ sent[i].nonce \in Nat
         /\ sent[i].at \in Nat /\ sent[i].receipt \in Nat \cup {NoTime}
<1>1. sent[i] \in SentRecs
  BY Typed, SeqParts
<1> QED BY <1>1 DEF SentRecs

(* Whoever waits for a receipt waits on, or the receipt is in, or late. *)
LEMMA ReceiptStep ==
  ASSUME Shape, Next, NEW r \in Requests, request[r].pc = "receipt"
  PROVE  request'[r] = request[r] \/ Confirms(r) \/ Reverts(r) \/ TimesOut(r)
<1>1. CASE (\E i \in DOMAIN sent : Includes(i)) \/ Tick
  BY <1>1 DEF Includes, Tick
<1>2. ASSUME NEW s \in Requests, Step(s), s # r PROVE request'[r] = request[r]
  BY <1>2, RequestTyped DEF Only
<1>3. CASE Step(r)
  BY <1>3 DEF Step, Asks, Refused, Claims, SizeUnread, Acquires, GivesUp, SimulationStops,
              Broadcasts, BroadcastThrows
<1> QED BY <1>1, <1>2, <1>3 DEF Next

LEMMA ConfirmedStays ==
  ASSUME Shape, Ledger, Next, NEW x \in Addresses, drip[x].status = "confirmed"
  PROVE  drip'[x] = drip[x]
<1>0. drip \in [Addresses -> DripRecs]
  BY Typed DEF Shape
<1>1. CASE UNCHANGED ledger
  BY <1>1 DEF ledger
<1>2. ASSUME NEW r \in Requests, Claims(r) PROVE drip'[x] = drip[x]
  <2>1. PICK y \in Addresses, u \in Users, g \in AgentIds \cup {NoAgent}, d \in Days :
          ClaimMade(r, y, u, g, d)
    BY <1>2, ClaimsMake
  <2>2. y \notin Held /\ \A z \in Addresses \ {y} : drip'[z] = drip[z]
    BY ONLY <2>1 DEF ClaimMade
  <2>3. x \in Held
    BY DEF Held
  <2> QED BY <2>2, <2>3
<1>3. ASSUME NEW r \in Requests, Settles(r) PROVE request[r].to \in Addresses \ {x}
  BY <1>3 DEF Settles, Ledger, OwnersFit, Reserved, Shape, RequestFits, Busy
<1>4. ASSUME NEW y \in Addresses \ {x}, Confirm(y) PROVE drip'[x] = drip[x]
  BY <1>0, <1>4 DEF Confirm
<1>5. ASSUME NEW y \in Addresses \ {x}, GiveBack(y) PROVE drip'[x] = drip[x]
  BY <1>0, <1>5 DEF GiveBack, ledger
<1> QED BY <1>1, <1>2, <1>3, <1>4, <1>5, LedgerStep DEF LedgerMoves, Shape

(* A transaction that may yet move could move before. *)
LEMMA StillMoving ==
  ASSUME Shape, Next, NEW i \in DOMAIN sent, i \in Moving'
  PROVE  i \in Moving
<1>1. Kept(i) /\ sent'[i].state # "reverted"
  BY SentStep, SentKept DEF Moving
<1> QED BY <1>1 DEF Kept, Moving

LEMMA PaidStays ==
  ASSUME Shape, Ledger, Ledger', Next,
         NEW i \in DOMAIN sent, i \in Moving', ~sent[i].lost, PaidFrom(i)
  PROVE  PaidFrom(i)'
<1>0. /\ Kept(i) /\ drip \in [Addresses -> DripRecs]
      /\ sent'[i].state # "reverted"
  BY SentStep, SentKept, Typed DEF Shape, Moving
<1>1. PICK x \in Addresses : x = sent[i].to
  BY SentTyped DEF Shape
<1>2. /\ drip[x].status # "none" /\ drip[x].user = sent[i].user
      /\ drip[x].agent = sent[i].agent /\ drip[x].day = sent[i].day
  BY <1>1 DEF PaidFrom
<1>3. CASE drip[x].status = "confirmed"
  <2>1. drip'[x] = drip[x]
    BY <1>3, ConfirmedStays
  <2> QED BY <1>0, <1>1, <1>2, <1>3, <2>1 DEF PaidFrom, Kept
<1>4. CASE drip[x].status = "reserved"
  <2>1. PICK r \in Requests : request[r].pc = "receipt" /\ request[r].tx = i
    BY <1>1, <1>4 DEF PaidFrom
  <2>2. request[r].to = x /\ Reserved(r)
    BY <1>1, <2>1 DEF Shape, RequestFits, Ledger, OwnersFit, Busy
  <2>3. CASE request'[r] = request[r]
    <3>1. Reserved(r)'
      BY <2>1, <2>3 DEF Ledger, OwnersFit, Busy
    <3> QED BY <1>0, <1>1, <1>2, <2>1, <2>2, <2>3, <3>1 DEF PaidFrom, Kept, Reserved
  <2>4. CASE Confirms(r) \/ TimesOut(r)
    <3>1. Confirm(x)
      BY <2>2, <2>4 DEF Confirms, TimesOut
    <3>2. /\ drip'[x].status = "confirmed" /\ drip'[x].user = drip[x].user
          /\ drip'[x].agent = drip[x].agent /\ drip'[x].day = drip[x].day
      BY <1>0, <3>1 DEF Confirm, DripRecs
    <3> QED BY <1>0, <1>1, <1>2, <3>2 DEF PaidFrom, Kept
  <2>5. ~Reverts(r)
    BY <1>0, <2>1 DEF Reverts, Kept
  <2> QED BY <2>1, <2>3, <2>4, <2>5, ReceiptStep
<1> QED BY <1>0, <1>2, <1>3, <1>4 DEF DripRecs

(* Whoever is about to send is not paid for already: by the drip reserved for
   it, for its address, or for its owner, nothing went out that was answered. *)
LEMMA NotPaidYet ==
  ASSUME Shape, Ledger, Paid, NEW r \in Requests, request[r].pc = "sending",
         NEW i \in Moving, ~sent[i].lost
  PROVE  /\ sent[i].to # request[r].to
         /\ ~ /\ sent[i].agent = request[r].agent
              /\ sent[i].agent = NoAgent => sent[i].user = request[r].user
<1>1. Busy(r) /\ request[r].to \in Addresses /\ Reserved(r) /\ request[r].to \in Held
  BY DEF Busy, Shape, RequestFits, Ledger, OwnersFit, Reserved, Held
<1>2. PaidFrom(i) /\ i \in DOMAIN sent /\ sent[i].to \in Addresses
  BY SentTyped DEF Paid, Moving, Shape
<1>3. sent[i].to # request[r].to
  <2>1. SUFFICES ASSUME sent[i].to = request[r].to PROVE FALSE
    OBVIOUS
  <2>2. PICK s \in Requests : request[s].pc = "receipt" /\ request[s].tx = i
    BY <1>1, <1>2, <2>1 DEF PaidFrom, Reserved
  <2>3. Busy(s) /\ request[s].to = request[r].to
    BY <2>1, <2>2 DEF Shape, RequestFits, Busy
  <2> QED BY <1>1, <2>2, <2>3 DEF Ledger, OwnersFit
<1>4. sent[i].to \in Held
  BY <1>2 DEF PaidFrom, Held
<1>5. ~SameOwner(sent[i].to, request[r].to)
  BY <1>1, <1>3, <1>4 DEF Ledger, DripsFit
<1> QED BY <1>1, <1>2, <1>3, <1>5 DEF SameOwner, PaidFrom, Reserved

LEMMA PaidHolds ==
  ASSUME Shape, Ledger, Ledger', Paid, Next
  PROVE  Paid'
<1>0. /\ sent \in Seq(SentRecs) /\ Len(sent) \in Nat /\ DOMAIN sent = 1..Len(sent)
      /\ \A i \in DOMAIN sent : Kept(i)
  BY Typed, SeqParts, SentStep, SentKept DEF Shape
<1>1. ASSUME NEW i \in DOMAIN sent, i \in Moving'
      PROVE  i \in Moving /\ sent'[i].lost = sent[i].lost /\ (~sent'[i].lost => PaidFrom(i)')
  BY <1>0, <1>1, StillMoving, PaidStays DEF Kept, Paid
<1>2. ASSUME NEW i \in DOMAIN sent, NEW j \in DOMAIN sent,
             i \in Moving', j \in Moving', SameDrip(i, j)', i < j
      PROVE  sent'[i].lost
  <2>1. SameDrip(i, j)
    BY <1>0, <1>2 DEF SameDrip, Kept
  <2> QED BY <1>1, <1>2, <2>1 DEF Paid, FundedAgainOnlyIfLost
<1>3. CASE DOMAIN sent' = DOMAIN sent
  BY <1>1, <1>2, <1>3 DEF Paid, FundedAgainOnlyIfLost, Moving
<1>4. ASSUME NEW r \in Requests, NEW lost \in BOOLEAN, Adds(r, lost),
             lost = FALSE => Broadcasts(r)
      PROVE  Paid'
  <2>1. PICK x \in SentRecs : sent' = Append(sent, x) /\ x = Tx(r, lost)
    BY <1>4, TxTyped DEF Adds
  <2>2. PICK n \in Nat : n = Len(sent) + 1
    BY <1>0
  <2>3. DOMAIN sent' = 1..n /\ sent'[n] = x
    <3>1. DOMAIN sent' = 1..(Len(sent) + 1) /\ sent'[Len(sent) + 1] = x
      BY <1>0, <2>1, Added
    <3> QED BY <2>2, <3>1
  <2>4. /\ x.to = request[r].to /\ x.user = request[r].user /\ x.agent = request[r].agent
        /\ x.day = request[r].day /\ x.lost = lost /\ request[r].pc = "sending"
    BY <1>4, <2>1 DEF Tx, Adds
  <2>5. \A i \in DOMAIN sent' : i \in DOMAIN sent \/ i = n
    BY <1>0, <2>2, <2>3
  <2>6. ASSUME ~lost PROVE PaidFrom(n)'
    <3>1. Broadcasts(r)
      BY <1>4, <2>6
    <3>2. drip' = drip /\ request[r] \in ReqRecs
      BY <3>1, Typed DEF Broadcasts, ledger, Shape
    <3>3. request'[r].pc = "receipt" /\ request'[r].tx = n
      BY <3>1, <3>2, <2>2, Typed DEF Broadcasts, Shape, ReqRecs
    <3>4. Reserved(r)
      BY <2>4 DEF Ledger, OwnersFit, Busy
    <3> QED BY <2>3, <2>4, <3>2, <3>3, <3>4 DEF PaidFrom, Reserved
  <2>7. ASSUME NEW i \in DOMAIN sent, i \in Moving', SameDrip(i, n)'
        PROVE  sent'[i].lost
    <3>1. i \in Moving /\ sent'[i].lost = sent[i].lost /\ Kept(i)
      BY <1>0, <1>1, <2>7
    <3>2. \/ sent[i].to = request[r].to
          \/ /\ sent[i].agent = request[r].agent
             /\ sent[i].agent = NoAgent => sent[i].user = request[r].user
      BY <2>3, <2>4, <2>7, <3>1 DEF SameDrip, Kept
    <3> QED BY <2>4, <3>1, <3>2, NotPaidYet DEF SentRecs
  <2>8. FundedAgainOnlyIfLost'
    <3>1. SUFFICES ASSUME NEW i \in Moving', NEW j \in Moving', SameDrip(i, j)', i < j
                   PROVE  sent'[i].lost
      BY DEF FundedAgainOnlyIfLost
    <3>2. i \in DOMAIN sent' /\ j \in DOMAIN sent'
      BY DEF Moving
    <3>3. i \in DOMAIN sent
      BY <1>0, <2>2, <2>3, <2>5, <3>1, <3>2
    <3> QED BY <1>2, <2>5, <2>7, <3>1, <3>2, <3>3
  <2>9. \A i \in Moving' : ~sent'[i].lost => PaidFrom(i)'
    BY <1>1, <2>3, <2>4, <2>5, <2>6 DEF Moving
  <2> QED BY <2>8, <2>9 DEF Paid
<1>5. ASSUME NEW r \in Requests, Adds(r, FALSE), Broadcasts(r) PROVE Paid'
  BY <1>4, <1>5
<1>6. ASSUME NEW r \in Requests, Adds(r, TRUE) PROVE Paid'
  BY <1>4, <1>6
<1>7. ASSUME NEW r \in Requests, Seen(request[r].tx) PROVE DOMAIN sent' = DOMAIN sent
  BY <1>0, <1>7 DEF Seen
<1>8. ASSUME NEW i \in DOMAIN sent, Includes(i) PROVE DOMAIN sent' = DOMAIN sent
  BY <1>0, <1>8 DEF Includes
<1> QED BY <1>3, <1>5, <1>6, <1>7, <1>8, SentStep DEF SentMoves

-------------------------------------------------------------------------------
(* The keys. *)

LEMMA SameCounts ==
  ASSUME DOMAIN sent' = DOMAIN sent,
         \A i \in DOMAIN sent : sent'[i].key = sent[i].key /\ sent'[i].nonce = sent[i].nonce,
         sent \in Seq(SentRecs), NoncesAreGapless
  PROVE  NoncesAreGapless' /\ \A k : Accepted(k)' = Accepted(k)
<1>0. Len(sent) \in Nat /\ DOMAIN sent = 1..Len(sent)
  BY SeqParts
<1>1. \A k : {i \in DOMAIN sent : sent[i].key = k}' = {i \in DOMAIN sent : sent[i].key = k}
  OBVIOUS
<1>2. \A k : Accepted(k)' = Accepted(k)
  BY <1>1 DEF Accepted
<1>3. ASSUME NEW i \in DOMAIN sent
      PROVE  {j \in 1..(i - 1) : sent'[j].key = sent'[i].key}
               = {j \in 1..(i - 1) : sent[j].key = sent[i].key}
  <2>1. \A j \in 1..(i - 1) : j \in DOMAIN sent
    BY <1>0
  <2> QED BY <2>1
<1>4. NoncesAreGapless'
  BY <1>3 DEF NoncesAreGapless
<1> QED BY <1>2, <1>4

LEMMA AddedCounts ==
  ASSUME TypeOK, NEW x \in SentRecs, sent' = Append(sent, x), x.nonce = Accepted(x.key),
         NoncesAreGapless
  PROVE  /\ NoncesAreGapless'
         /\ \A k : Accepted(k)' = IF k = x.key THEN Accepted(k) + 1 ELSE Accepted(k)
<1>0. /\ sent \in Seq(SentRecs) /\ Len(sent) \in Nat /\ DOMAIN sent = 1..Len(sent)
  BY Typed, SeqParts
<1>1. PICK n \in Nat : n = Len(sent) + 1 /\ n - 1 = Len(sent) /\ n \notin DOMAIN sent
  BY <1>0
<1>2. /\ DOMAIN sent' = 1..n /\ sent'[n] = x
      /\ \A i \in DOMAIN sent : sent'[i] = sent[i]
  <2>1. DOMAIN sent' = 1..(Len(sent) + 1) /\ sent'[Len(sent) + 1] = x
        /\ \A i \in 1..Len(sent) : sent'[i] = sent[i]
    BY <1>0, Added
  <2> QED BY <1>0, <1>1, <2>1
<1>3. DOMAIN sent' = DOMAIN sent \cup {n}
  BY <1>0, <1>1, <1>2
<1>4. ASSUME NEW k
      PROVE  Accepted(k)' = IF k = x.key THEN Accepted(k) + 1 ELSE Accepted(k)
  <2> DEFINE S == {i \in DOMAIN sent : sent[i].key = k}
  <2>1. IsFiniteSet(S) /\ n \notin S /\ Accepted(k) = Cardinality(S)
    BY <1>1, AcceptedTyped DEF Accepted
  <2>2. {i \in DOMAIN sent : sent[i].key = k}' = IF k = x.key THEN S \cup {n} ELSE S
    BY <1>1, <1>2, <1>3
  <2>3. Accepted(k)' = Cardinality({i \in DOMAIN sent : sent[i].key = k}')
    BY DEF Accepted
  <2> HIDE DEF S
  <2>4. Cardinality(S \cup {n}) = Cardinality(S) + 1
    BY <2>1, FS_AddElement
  <2> QED BY <2>1, <2>2, <2>3, <2>4
<1>5. ASSUME NEW i \in DOMAIN sent
      PROVE  sent'[i].nonce = Cardinality({j \in 1..(i - 1) : sent'[j].key = sent'[i].key})
  <2>1. \A j \in 1..(i - 1) : j \in DOMAIN sent
    BY <1>0
  <2>2. {j \in 1..(i - 1) : sent'[j].key = sent'[i].key}
          = {j \in 1..(i - 1) : sent[j].key = sent[i].key}
    BY <1>2, <2>1
  <2> QED BY <1>2, <2>2 DEF NoncesAreGapless
<1>6. sent'[n].nonce = Cardinality({j \in 1..(n - 1) : sent'[j].key = sent'[n].key})
  <2>1. {j \in 1..(n - 1) : sent'[j].key = sent'[n].key} = {j \in DOMAIN sent : sent[j].key = x.key}
    BY <1>0, <1>1, <1>2
  <2> QED BY <1>2, <2>1 DEF Accepted
<1>7. NoncesAreGapless'
  BY <1>3, <1>5, <1>6 DEF NoncesAreGapless
<1> QED BY <1>4, <1>7

(* What a key sent is what it was. *)
SameSendsOf(k) ==
  /\ Accepted(k)' = Accepted(k)
  /\ \A i \in DOMAIN sent' : sent'[i].key = k =>
       /\ i \in DOMAIN sent /\ sent[i].key = k
       /\ sent'[i].at = sent[i].at /\ sent'[i].receipt = sent[i].receipt

LEMMA OthersKeep ==
  ASSUME Shape, Queue, now' \in Nat, now <= now', NEW ks \in SUBSET Keys,
         \A k \in ks : key'[k] = key[k] /\ SameSendsOf(k)
  PROVE  /\ \A k \in ks : KeyFits(k)'
         /\ \A s \in Requests :
              (Holds(s)' => request'[s] = request[s] /\ request[s].key \in ks) => HolderFits(s)'
<1>0. /\ now \in Nat /\ Spacing \in Nat
      /\ \A k \in Keys : key[k].used \in Int \cup {NoTime}
      /\ \A i \in DOMAIN sent : sent[i].at \in Nat /\ sent[i].receipt \in Nat \cup {NoTime}
  <2>1. \A k \in Keys : key[k] \in KeyRecs
    BY Typed DEF Shape
  <2> QED BY <2>1, Times, SentTyped, DripAssumption DEF Shape, KeyRecs
<1>1. ASSUME NEW k \in ks PROVE KeyFits(k)'
  <2>1. KeyFits(k) /\ key'[k] = key[k] /\ SameSendsOf(k)
    BY DEF Queue
  <2> QED BY <1>0, <2>1 DEF KeyFits, SameSendsOf
<1>2. ASSUME NEW s \in Requests,
             Holds(s)' => request'[s] = request[s] /\ request[s].key \in ks
      PROVE  HolderFits(s)'
  <2>1. CASE ~Holds(s)'
    BY <2>1 DEF HolderFits, Holds
  <2>2. CASE Holds(s)'
    <3>1. PICK k \in ks : k = request[s].key /\ request'[s] = request[s]
      BY <1>2, <2>2
    <3>2. key'[k] = key[k] /\ SameSendsOf(k) /\ HolderFits(s) /\ Holds(s)
      BY <2>2, <3>1 DEF Queue, Holds
    <3> QED BY <1>0, <3>1, <3>2 DEF HolderFits, SameSendsOf, Holds
  <2> QED BY <2>1, <2>2
<1> QED BY <1>1, <1>2

(* The steps that touch no key, and only look at the transactions. *)
LEMMA QuietKeeps ==
  ASSUME Shape, Queue, now' \in Nat, now <= now', key' = key, DOMAIN sent' = DOMAIN sent,
         \A i \in DOMAIN sent : /\ sent'[i].key = sent[i].key /\ sent'[i].nonce = sent[i].nonce
                                /\ sent'[i].at = sent[i].at /\ sent'[i].receipt = sent[i].receipt,
         \A s \in Requests : Holds(s)' => request'[s] = request[s]
  PROVE  Queue'
<1>0. /\ sent \in Seq(SentRecs) /\ now \in Nat
      /\ \A i \in DOMAIN sent : sent[i].at \in Nat /\ sent[i].receipt \in Nat \cup {NoTime}
  BY Typed, Times, SentTyped DEF Shape
<1>1. NoncesAreGapless' /\ \A k : SameSendsOf(k)
  BY <1>0, SameCounts DEF Queue, SameSendsOf
<1>2. \A s \in Requests : Holds(s)' => Holds(s) /\ request'[s] = request[s] /\ request[s].key \in Keys
  BY DEF Holds, Shape, RequestFits
<1>3. (\A k \in Keys : KeyFits(k)') /\ \A s \in Requests : HolderFits(s)'
  BY <1>1, <1>2, OthersKeep
<1>4. SendsAreSpaced'
  BY DEF Queue, SendsAreSpaced
<1>5. \A r, s \in Requests : Holds(r)' /\ Holds(s)' /\ request'[r].key = request'[s].key => r = s
  BY <1>2 DEF Queue
<1>6. \A i \in DOMAIN sent' : /\ sent'[i].at <= now'
                              /\ sent'[i].receipt # NoTime => sent'[i].receipt <= now'
  BY <1>0 DEF Queue
<1> QED BY <1>1, <1>3, <1>4, <1>5, <1>6 DEF Queue

(* A request gets a key: all that the key sent is a spacing ago. *)
LEMMA AcquireKeeps ==
  ASSUME Shape, Queue, NEW r \in Requests, Acquires(r)
  PROVE  Queue'
<1>0. /\ key \in [Keys -> KeyRecs] /\ request \in [Requests -> ReqRecs] /\ now \in Nat
      /\ Spacing \in Nat /\ sent \in Seq(SentRecs)
      /\ \A i \in DOMAIN sent : sent[i].at \in Nat /\ sent[i].receipt \in Nat \cup {NoTime}
  BY Typed, Times, SentTyped, DripAssumption DEF Shape
<1>1. PICK k \in Keys :
        /\ request[r].pc = "waiting" /\ Ready(k)
        /\ key' = [key EXCEPT ![k] = [@ EXCEPT !.inFlight = TRUE, !.used = now]]
        /\ request' = [request EXCEPT ![r] = [@ EXCEPT !.pc = "sending", !.key = k]]
        /\ sent' = sent /\ now' = now
  BY DEF Acquires
<1>2. /\ request'[r].pc = "sending" /\ request'[r].key = k /\ Only(r)
      /\ key'[k].inFlight /\ key'[k].used = now /\ key'[k].nonce = key[k].nonce
      /\ \A l \in Keys \ {k} : key'[l] = key[l]
  BY <1>0, <1>1 DEF Only, ReqRecs, KeyRecs
<1>3. \A l : SameSendsOf(l)
  BY <1>1 DEF SameSendsOf, Accepted
<1>4. \A s \in Requests \ {r} : Holds(s)' => Holds(s) /\ request'[s] = request[s]
                                            /\ request[s].key \in Keys \ {k}
  BY <1>1, <1>2 DEF Holds, Only, Queue, HolderFits, Ready, Shape, RequestFits
<1>5. /\ \A l \in Keys \ {k} : KeyFits(l)'
      /\ \A s \in Requests \ {r} : HolderFits(s)'
  <2>1. PICK ks \in SUBSET Keys : ks = Keys \ {k}
    OBVIOUS
  <2>2. \A l \in ks : key'[l] = key[l] /\ SameSendsOf(l)
    BY <1>2, <1>3, <2>1
  <2>3. now' \in Nat /\ now <= now'
    BY <1>0, <1>1
  <2>4. /\ \A l \in ks : KeyFits(l)'
        /\ \A s \in Requests :
             (Holds(s)' => request'[s] = request[s] /\ request[s].key \in ks) => HolderFits(s)'
    BY <2>2, <2>3, OthersKeep
  <2> QED BY <1>4, <2>1, <2>4
<1>6. KeyFits(k)'
  BY <1>0, <1>1, <1>2, <1>3 DEF KeyFits, Queue, SameSendsOf
<1>7. HolderFits(r)'
  <2>1. ASSUME NEW i \in DOMAIN sent, sent[i].key = k
        PROVE  /\ sent[i].at + Spacing <= now
               /\ sent[i].receipt # NoTime => sent[i].receipt + Spacing <= now
    <3>1. /\ key[k].used # NoTime /\ sent[i].at <= key[k].used
          /\ sent[i].receipt # NoTime => sent[i].receipt <= key[k].used
          /\ now - key[k].used >= Spacing
      BY <1>1, <2>1 DEF Queue, KeyFits, Ready
    <3>2. key[k].used \in Int
      BY <1>0, <3>1 DEF KeyRecs
    <3> QED BY <1>0, <3>1, <3>2
  <2> QED BY <1>1, <1>2, <2>1 DEF HolderFits
<1>8. \A s, t \in Requests : Holds(s)' /\ Holds(t)' /\ request'[s].key = request'[t].key => s = t
  BY <1>2, <1>4 DEF Queue
<1>9. SendsAreSpaced' /\ NoncesAreGapless'
  BY <1>1 DEF Queue, SendsAreSpaced, NoncesAreGapless
<1> QED BY <1>1, <1>2, <1>5, <1>6, <1>7, <1>8, <1>9 DEF Queue

(* A request gives its key back, which counts its spacing from now. *)
LEMMA FreeKeeps ==
  ASSUME Shape, Queue, now' = now, NEW r \in Requests, NEW k \in Keys,
         Holds(r), request[r].key = k, Only(r), ~Holds(r)',
         ~key'[k].inFlight, key'[k].used = now,
         key'[k].nonce # NoNonce => key'[k].nonce = Accepted(k)',
         \A l \in Keys \ {k} : key'[l] = key[l] /\ SameSendsOf(l),
         \A i \in DOMAIN sent' : /\ sent'[i].at \in Nat /\ sent'[i].at <= now
                                 /\ sent'[i].receipt # NoTime => sent'[i].receipt <= now,
         SendsAreSpaced', NoncesAreGapless'
  PROVE  Queue'
<1>0. now \in Nat /\ NoTime \notin Int
  BY Times DEF Shape
<1>1. \A s \in Requests \ {r} : Holds(s)' => Holds(s) /\ request'[s] = request[s]
                                            /\ request[s].key \in Keys \ {k}
  BY DEF Holds, Only, Queue, Shape, RequestFits
<1>2. (\A l \in Keys \ {k} : KeyFits(l)') /\ \A s \in Requests \ {r} : HolderFits(s)'
  <2>1. PICK ks \in SUBSET Keys : ks = Keys \ {k}
    OBVIOUS
  <2>2. \A l \in ks : key'[l] = key[l] /\ SameSendsOf(l)
    BY <2>1
  <2>3. now' \in Nat /\ now <= now'
    BY <1>0
  <2>4. /\ \A l \in ks : KeyFits(l)'
        /\ \A s \in Requests :
             (Holds(s)' => request'[s] = request[s] /\ request[s].key \in ks) => HolderFits(s)'
    BY <2>2, <2>3, OthersKeep
  <2> QED BY <1>1, <2>1, <2>4
<1>3. KeyFits(k)'
  BY <1>0 DEF KeyFits
<1>4. HolderFits(r)'
  BY DEF HolderFits, Holds
<1>5. \A s, t \in Requests : Holds(s)' /\ Holds(t)' /\ request'[s].key = request'[t].key => s = t
  BY <1>1 DEF Queue
<1> QED BY <1>2, <1>3, <1>4, <1>5 DEF Queue

(* The receipt of a key's last transaction is seen. *)
LEMMA SeenKeeps ==
  ASSUME Shape, Queue, NEW r \in Requests, NEW k \in Keys, k = request[r].key,
         request[r].pc = "receipt", Seen(request[r].tx)
  PROVE  /\ SendsAreSpaced' /\ NoncesAreGapless'
         /\ Accepted(k)' = Accepted(k)
         /\ \A l \in Keys \ {k} : SameSendsOf(l)
         /\ \A i \in DOMAIN sent' : /\ sent'[i].at \in Nat /\ sent'[i].at <= now
                                    /\ sent'[i].receipt # NoTime => sent'[i].receipt <= now
<1>0. /\ now \in Nat /\ NoTime \notin Int /\ Spacing \in Nat /\ sent \in Seq(SentRecs)
      /\ Len(sent) \in Nat /\ DOMAIN sent = 1..Len(sent)
      /\ \A i \in DOMAIN sent : sent[i].at \in Nat /\ sent[i].receipt \in Nat \cup {NoTime}
  BY Typed, Times, SentTyped, SeqParts, DripAssumption DEF Shape
<1>1. PICK n \in DOMAIN sent : n = request[r].tx /\ sent[n].key = k
  BY DEF Shape, RequestFits
<1>2. /\ DOMAIN sent' = DOMAIN sent
      /\ \A i \in DOMAIN sent : /\ sent'[i].key = sent[i].key /\ sent'[i].nonce = sent[i].nonce
                                /\ sent'[i].at = sent[i].at
      /\ sent'[n].receipt = now
      /\ \A i \in DOMAIN sent : i # n => sent'[i].receipt = sent[i].receipt
  <2>1. sent[n] \in SentRecs
    BY <1>0
  <2>2. sent' = [sent EXCEPT ![n] = [sent[n] EXCEPT !.receipt = now]]
    BY <1>1 DEF Seen
  <2> QED BY <1>0, <2>1, <2>2 DEF SentRecs
<1>3. NoncesAreGapless' /\ \A l : Accepted(l)' = Accepted(l)
  BY <1>0, <1>2, SameCounts DEF Queue
<1>4. \A l \in Keys \ {k} : SameSendsOf(l)
  BY <1>1, <1>2, <1>3 DEF SameSendsOf
<1>5. \A i \in DOMAIN sent' : /\ sent'[i].at \in Nat /\ sent'[i].at <= now
                              /\ sent'[i].receipt # NoTime => sent'[i].receipt <= now
  BY <1>0, <1>2 DEF Queue
<1>6. SendsAreSpaced'
  <2>1. \A j \in DOMAIN sent : sent[j].key = sent[n].key => j <= n
    BY <1>1 DEF Queue, HolderFits
  <2>2. SUFFICES ASSUME NEW i \in DOMAIN sent, NEW j \in DOMAIN sent, i < j,
                        sent[i].key = sent[j].key
                 PROVE  /\ sent'[j].at - sent'[i].at >= Spacing
                        /\ sent'[i].receipt # NoTime => sent'[j].at - sent'[i].receipt >= Spacing
    BY <1>2 DEF SendsAreSpaced
  <2>3. i # n
    BY <1>0, <2>1, <2>2
  <2> QED BY <1>2, <2>2, <2>3 DEF Queue, SendsAreSpaced
<1> QED BY <1>3, <1>4, <1>5, <1>6

(* One more transaction of a key that a request holds: it comes a spacing after
   the others and its nonce is the next. *)
LEMMA AddsKeep ==
  ASSUME Shape, Queue, NEW r \in Requests, NEW lost \in BOOLEAN,
         NEW k \in Keys, k = request[r].key, Adds(r, lost)
  PROVE  /\ SendsAreSpaced' /\ NoncesAreGapless'
         /\ NonceOf(k) = Accepted(k)
         /\ Accepted(k)' = Accepted(k) + 1
         /\ \A l \in Keys \ {k} : SameSendsOf(l)
         /\ \A i \in DOMAIN sent' : /\ sent'[i].at \in Nat /\ sent'[i].at <= now
                                    /\ sent'[i].receipt # NoTime => sent'[i].receipt <= now
                                    /\ i <= Len(sent) + 1
<1>0. /\ now \in Nat /\ NoTime \notin Int /\ Spacing \in Nat /\ sent \in Seq(SentRecs)
      /\ Len(sent) \in Nat /\ DOMAIN sent = 1..Len(sent)
      /\ \A i \in DOMAIN sent : sent[i].at \in Nat /\ sent[i].receipt \in Nat \cup {NoTime}
  BY Typed, Times, SentTyped, SeqParts, DripAssumption DEF Shape
<1>2. NonceOf(k) = Accepted(k)
  BY DEF Queue, KeyFits, NonceOf
<1>3. PICK x \in SentRecs : sent' = Append(sent, x) /\ x = Tx(r, lost)
  BY TxTyped DEF Adds
<1>4. x.key = k /\ x.nonce = Accepted(k) /\ x.at = now /\ x.receipt = NoTime
  BY <1>2, <1>3 DEF Tx
<1>5. /\ NoncesAreGapless'
      /\ \A l : Accepted(l)' = IF l = k THEN Accepted(l) + 1 ELSE Accepted(l)
  BY <1>3, <1>4, AddedCounts DEF Shape, Queue
<1>6. PICK n \in Nat : n = Len(sent) + 1 /\ n \notin DOMAIN sent /\ \A i \in DOMAIN sent : i < n
  BY <1>0
<1>7. /\ DOMAIN sent' = DOMAIN sent \cup {n} /\ sent'[n] = x
      /\ \A i \in DOMAIN sent : sent'[i] = sent[i]
  <2>1. DOMAIN sent' = 1..(Len(sent) + 1) /\ sent'[Len(sent) + 1] = x
        /\ \A i \in 1..Len(sent) : sent'[i] = sent[i]
    BY <1>0, <1>3, Added
  <2> QED BY <1>0, <1>6, <2>1
<1>8. \A l \in Keys \ {k} : SameSendsOf(l)
  BY <1>4, <1>5, <1>7 DEF SameSendsOf
<1>9. \A i \in DOMAIN sent' : /\ sent'[i].at \in Nat /\ sent'[i].at <= now
                              /\ sent'[i].receipt # NoTime => sent'[i].receipt <= now
                              /\ i <= n
  BY <1>0, <1>4, <1>6, <1>7 DEF Queue
<1>10. SendsAreSpaced'
  <2>1. ASSUME NEW i \in DOMAIN sent, sent[i].key = k
        PROVE  /\ now - sent[i].at >= Spacing
               /\ sent[i].receipt # NoTime => now - sent[i].receipt >= Spacing
    <3>1. /\ sent[i].at + Spacing <= now
          /\ sent[i].receipt # NoTime => sent[i].receipt + Spacing <= now
      BY <2>1 DEF Queue, HolderFits, Adds
    <3> QED BY <1>0, <3>1
  <2>2. SUFFICES ASSUME NEW i \in DOMAIN sent', NEW j \in DOMAIN sent', i < j,
                        sent'[i].key = sent'[j].key
                 PROVE  /\ sent'[j].at - sent'[i].at >= Spacing
                        /\ sent'[i].receipt # NoTime => sent'[j].at - sent'[i].receipt >= Spacing
    BY DEF SendsAreSpaced
  <2>3. i \in DOMAIN sent
    <3>1. i # n
      BY <1>0, <1>6, <1>7, <2>2
    <3> QED BY <1>7, <3>1
  <2>4. CASE j = n
    BY <1>4, <1>7, <2>1, <2>2, <2>3, <2>4
  <2>5. CASE j \in DOMAIN sent
    BY <1>7, <2>2, <2>3, <2>5 DEF Queue, SendsAreSpaced
  <2> QED BY <1>7, <2>4, <2>5
<1> QED BY <1>2, <1>5, <1>6, <1>8, <1>9, <1>10

LEMMA BroadcastKeeps ==
  ASSUME Shape, Queue, NEW r \in Requests, Broadcasts(r)
  PROVE  Queue'
<1>0. /\ key \in [Keys -> KeyRecs] /\ request \in [Requests -> ReqRecs] /\ now \in Nat
      /\ NoTime \notin Int /\ NoNonce \notin Int /\ Len(sent) \in Nat
  BY Typed, Times, SeqParts DEF Shape
<1>1. Adds(r, FALSE) /\ request[r].pc = "sending" /\ Holds(r)
  BY DEF Broadcasts, Adds, Holds
<1>2. PICK k \in Keys : k = request[r].key /\ NonceOf(k) \in Nat
  BY <1>1, TxTyped
<1>3. /\ SendsAreSpaced' /\ NoncesAreGapless' /\ NonceOf(k) = Accepted(k)
      /\ Accepted(k)' = Accepted(k) + 1 /\ \A l \in Keys \ {k} : SameSendsOf(l)
      /\ \A i \in DOMAIN sent' : /\ sent'[i].at <= now
                                 /\ sent'[i].receipt # NoTime => sent'[i].receipt <= now
                                 /\ i <= Len(sent) + 1
  BY <1>1, <1>2, AddsKeep
<1>4. /\ now' = now /\ key'[k].nonce = NonceOf(k) + 1 /\ key'[k].inFlight = key[k].inFlight
      /\ key'[k].used = key[k].used /\ \A l \in Keys \ {k} : key'[l] = key[l]
  <2>1. PICK m \in Nat : m = NonceOf(k) + 1
    BY <1>2
  <2>2. key' = [key EXCEPT ![k] = [key[k] EXCEPT !.nonce = m]] /\ now' = now
    BY <1>0, <1>2, <2>1 DEF Broadcasts
  <2> QED BY <1>0, <2>1, <2>2 DEF KeyRecs
<1>5. /\ request'[r].pc = "receipt" /\ request'[r].key = k /\ request'[r].tx = Len(sent) + 1
      /\ Only(r)
  <2>1. PICK n \in Nat : n = Len(sent) + 1
    BY <1>0
  <2>2. request' = [request EXCEPT ![r] = [request[r] EXCEPT !.pc = "receipt", !.tx = n]]
    BY <1>0, <2>1 DEF Broadcasts
  <2> QED BY <1>0, <1>2, <2>1, <2>2 DEF ReqRecs, Only
<1>6. \A s \in Requests \ {r} : Holds(s)' => Holds(s) /\ request'[s] = request[s]
                                            /\ request[s].key \in Keys \ {k}
  BY <1>1, <1>2, <1>5 DEF Holds, Only, Queue, Shape, RequestFits
<1>7. (\A l \in Keys \ {k} : KeyFits(l)') /\ \A s \in Requests \ {r} : HolderFits(s)'
  <2>1. PICK ks \in SUBSET Keys : ks = Keys \ {k}
    OBVIOUS
  <2>2. \A l \in ks : key'[l] = key[l] /\ SameSendsOf(l)
    BY <1>3, <1>4, <2>1
  <2>3. now' \in Nat /\ now <= now'
    BY <1>0, <1>4
  <2>4. /\ \A l \in ks : KeyFits(l)'
        /\ \A s \in Requests :
             (Holds(s)' => request'[s] = request[s] /\ request[s].key \in ks) => HolderFits(s)'
    BY <2>2, <2>3, OthersKeep
  <2> QED BY <1>6, <2>1, <2>4
<1>8. KeyFits(k)'
  <2>1. key[k].inFlight
    BY <1>1, <1>2 DEF Queue, HolderFits
  <2> QED BY <1>3, <1>4, <2>1 DEF Queue, KeyFits
<1>9. HolderFits(r)'
  <2>1. key[k].inFlight
    BY <1>1, <1>2 DEF Queue, HolderFits
  <2> QED BY <1>3, <1>4, <1>5, <2>1 DEF HolderFits
<1>10. \A s, t \in Requests : Holds(s)' /\ Holds(t)' /\ request'[s].key = request'[t].key => s = t
  BY <1>5, <1>6 DEF Queue
<1> QED BY <1>3, <1>4, <1>7, <1>8, <1>9, <1>10 DEF Queue

LEMMA QueueHolds ==
  ASSUME Shape, Queue, Next
  PROVE  Queue'
<1>0. /\ key \in [Keys -> KeyRecs] /\ request \in [Requests -> ReqRecs] /\ now \in Nat
      /\ NoTime \notin Int /\ NoNonce \notin Int /\ sent \in Seq(SentRecs)
      /\ \A i \in DOMAIN sent : sent[i].at \in Nat /\ sent[i].receipt \in Nat \cup {NoTime}
  BY Typed, Times, SentTyped DEF Shape
<1>1. CASE Tick
  <2>1. UNCHANGED <<key, request, sent>> /\ now' = now + 1
    BY <1>1 DEF Tick
  <2> QED BY <1>0, <2>1, QuietKeeps
<1>2. ASSUME NEW i \in DOMAIN sent, Includes(i) PROVE Queue'
  <2>1. UNCHANGED <<now, key, request>>
    BY <1>2 DEF Includes
  <2>2. PICK o \in {"success", "reverted"} : sent' = [sent EXCEPT ![i].state = o]
    BY <1>2 DEF Includes
  <2>3. \A j \in DOMAIN sent : sent[j] \in SentRecs
    BY <1>0, SeqParts
  <2>4. /\ DOMAIN sent' = DOMAIN sent
        /\ \A j \in DOMAIN sent : /\ sent'[j].key = sent[j].key /\ sent'[j].nonce = sent[j].nonce
                                  /\ sent'[j].at = sent[j].at /\ sent'[j].receipt = sent[j].receipt
    BY <1>0, <2>2, <2>3 DEF SentRecs
  <2> QED BY <1>0, <2>1, <2>4, QuietKeeps
<1>3. ASSUME NEW r \in Requests, Step(r) PROVE Queue'
  <2>0. Only(r)
    BY <1>3, RequestTyped
  <2>1. ASSUME ~Holds(r)', UNCHANGED <<now, key, sent>> PROVE Queue'
    <3>1. \A s \in Requests : Holds(s)' => request'[s] = request[s]
      BY <2>0, <2>1 DEF Only
    <3> QED BY <1>0, <2>1, <3>1, QuietKeeps
  <2>2. CASE Asks(r)
    BY <2>1, <2>2, AsksTyped DEF Asks, Holds
  <2>3. CASE Refused(r) \/ SizeUnread(r) \/ GivesUp(r)
    <3>1. Ends(r) /\ UNCHANGED <<now, key, sent>>
      BY <2>3 DEF Refused, SizeUnread, GivesUp
    <3> QED BY <2>1, <3>1, IdleTyped DEF Holds, Idle, Shape
  <2>4. CASE Claims(r)
    <3>1. ~Holds(r)'
      BY <1>0, <2>4 DEF Claims, Holds, ReqRecs
    <3> QED BY <2>1, <2>4, <3>1 DEF Claims
  <2>5. CASE Acquires(r)
    BY <2>5, AcquireKeeps
  <2>6. CASE Broadcasts(r)
    BY <2>6, BroadcastKeeps
  <2>7. CASE SimulationStops(r) \/ TimesOut(r) \/ Confirms(r) \/ Reverts(r)
    <3>1. Holds(r) /\ now' = now
      BY <2>7 DEF SimulationStops, TimesOut, Confirms, Reverts, Holds
    <3>2. PICK k \in Keys : k = request[r].key
      BY <3>1 DEF Shape, RequestFits
    <3>3. key' = [key EXCEPT ![k] = Freed(k)]
      BY <2>7, <3>2 DEF SimulationStops, TimesOut, Confirms, Reverts
    <3>4. /\ ~key'[k].inFlight /\ key'[k].used = now /\ key'[k].nonce = key[k].nonce
          /\ \A l \in Keys \ {k} : key'[l] = key[l]
      BY <1>0, <3>3 DEF Freed, KeyRecs
    <3>5. ~Holds(r)'
      BY <2>7, IdleTyped, AgainTyped
         DEF SimulationStops, TimesOut, Confirms, Reverts, Shape, Holds, Idle
    <3>6. /\ SendsAreSpaced' /\ NoncesAreGapless' /\ Accepted(k)' = Accepted(k)
          /\ \A l \in Keys \ {k} : SameSendsOf(l)
          /\ \A i \in DOMAIN sent' : /\ sent'[i].at \in Nat /\ sent'[i].at <= now
                                     /\ sent'[i].receipt # NoTime => sent'[i].receipt <= now
      <4>1. CASE SimulationStops(r) \/ TimesOut(r)
        <5>1. sent' = sent
          BY <4>1 DEF SimulationStops, TimesOut
        <5> QED BY <1>0, <5>1 DEF Queue, SendsAreSpaced, NoncesAreGapless, Accepted, SameSendsOf
      <4>2. CASE Confirms(r) \/ Reverts(r)
        <5>1. request[r].pc = "receipt" /\ Seen(request[r].tx)
          BY <4>2 DEF Confirms, Reverts
        <5> QED BY <3>2, <5>1, SeenKeeps
      <4> QED BY <2>7, <4>1, <4>2
    <3>7. key'[k].nonce # NoNonce => key'[k].nonce = Accepted(k)'
      BY <3>4, <3>6 DEF Queue, KeyFits
    <3> QED BY <2>0, <3>1, <3>2, <3>4, <3>5, <3>6, <3>7, FreeKeeps
  <2>8. CASE BroadcastThrows(r)
    <3>1. Holds(r) /\ now' = now /\ request[r].pc = "sending"
      BY <2>8 DEF BroadcastThrows, Holds
    <3>2. PICK k \in Keys : k = request[r].key
      BY <3>1 DEF Shape, RequestFits
    <3>3. key' = [key EXCEPT ![k] = AfterFailure(k)]
      BY <2>8, <3>2 DEF BroadcastThrows
    <3>4. /\ ~key'[k].inFlight /\ key'[k].used = now /\ key'[k].nonce = NoNonce
          /\ \A l \in Keys \ {k} : key'[l] = key[l]
      BY <1>0, <3>3 DEF AfterFailure, Freed, KeyRecs
    <3>5. ~Holds(r)'
      BY <2>8, IdleTyped DEF BroadcastThrows, Shape, Holds, Idle
    <3>6. /\ SendsAreSpaced' /\ NoncesAreGapless'
          /\ \A l \in Keys \ {k} : SameSendsOf(l)
          /\ \A i \in DOMAIN sent' : /\ sent'[i].at \in Nat /\ sent'[i].at <= now
                                     /\ sent'[i].receipt # NoTime => sent'[i].receipt <= now
      <4>1. CASE sent' = sent
        BY <1>0, <4>1 DEF Queue, SendsAreSpaced, NoncesAreGapless, Accepted, SameSendsOf
      <4>2. CASE sent' # sent
        <5>1. Adds(r, TRUE)
          BY <2>8, <3>1, <4>2 DEF BroadcastThrows, Adds
        <5> QED BY <3>2, <5>1, AddsKeep
      <4> QED BY <4>1, <4>2
    <3> QED BY <2>0, <3>1, <3>2, <3>4, <3>5, <3>6, FreeKeeps
  <2> QED BY <1>3, <2>2, <2>3, <2>4, <2>5, <2>6, <2>7, <2>8 DEF Step
<1> QED BY <1>1, <1>2, <1>3 DEF Next

-------------------------------------------------------------------------------
(* The invariant holds. *)

LEMMA InitHolds ==
  ASSUME Init
  PROVE  Inv
<1>1. MaxTime \in Nat /\ MaxAttempts \in Nat \ {0} /\ DailyCap \in Nat /\ MaxAgentsPerDay \in Nat
      /\ Amount.user \in Nat /\ Amount.agent \in Nat
  BY DripAssumption
<1>2. 0 \in 0..MaxTime /\ 1 \in 1..MaxAttempts /\ 0 \in Days
  BY <1>1, DayGrows DEF Days
<1>3. /\ NoDrip \in DripRecs /\ Idle \in ReqRecs
      /\ [inFlight |-> FALSE, used |-> NoTime, nonce |-> NoNonce] \in KeyRecs
  BY <1>2 DEF NoDrip, DripRecs, Idle, ReqRecs, KeyRecs
<1>4. sent \in Seq(SentRecs) /\ DOMAIN sent = {}
  BY DEF Init
<1>5. TypeOK
  BY <1>2, <1>3, <1>4, Typed DEF Init
<1>6. \A r \in Requests : request[r].pc = "idle"
  BY DEF Init, Idle
<1>7. Shape
  BY <1>5, <1>6 DEF Shape, RequestFits, Holds
<1>8. \A x \in Addresses : drip[x].status = "none"
  BY DEF Init, NoDrip
<1>9. /\ Held = {} /\ \A d : OwnDrips(d) = {} /\ \A us : AgentDrips(d, us) = {}
  BY <1>8 DEF Held, OwnDrips, AgentDrips
<1>10. Cardinality({}) = 0 /\ IsFiniteSet({})
  BY FS_EmptySet
<1>11. BudgetFits
  <2>1. \A d \in Days : total[d] = 0 /\ \A u \in Users : funded[d][u] = 0
    BY DEF Init
  <2>2. Amount.user * 0 = 0 /\ Amount.agent * 0 = 0
    BY <1>1
  <2>3. \A d : Cost(OwnDrips(d), AgentDrips(d, Users)) = 0
    BY <1>9, <1>10, <2>2 DEF Cost
  <2>4. \A d : \A u \in Users : Cardinality(AgentDrips(d, {u})) = 0
    BY <1>9, <1>10
  <2>5. TotalsAdd
    BY <2>1, <2>3, <2>4 DEF TotalsAdd
  <2>6. \A d \in Days : total[d] <= DailyCap /\ \A u \in Users : funded[d][u] <= MaxAgentsPerDay
    BY <1>1, <2>1
  <2> QED BY <1>9, <1>10, <2>5, <2>6 DEF BudgetFits
<1>12. Ledger
  BY <1>6, <1>8, <1>9, <1>11 DEF Ledger, OwnersFit, DripsFit, Busy
<1>13. Paid
  BY <1>4 DEF Paid, FundedAgainOnlyIfLost, Moving
<1>14. Queue
  <2>1. \A k \in Keys : key[k].used = NoTime /\ key[k].nonce = NoNonce
    BY DEF Init
  <2> QED BY <1>4, <1>6, <2>1 DEF Queue, KeyFits, HolderFits, Holds, SendsAreSpaced, NoncesAreGapless
<1> QED BY <1>7, <1>12, <1>13, <1>14 DEF Inv

LEMMA StepHolds ==
  ASSUME Inv, Next
  PROVE  Inv'
BY ShapeStep, LedgerHolds, PaidHolds, QueueHolds DEF Inv

THEOREM InvHolds == Spec => []Inv
<1>1. Init => Inv
  BY InitHolds
<1>2. Inv /\ [Next]_vars => Inv'
  <2>1. CASE UNCHANGED vars
    <3>1. UNCHANGED <<now, drip, total, funded, key, request, sent>>
      BY <2>1 DEF vars
    <3>2. Inv => Shape' /\ Ledger'
      <4>1. TypeOK => TypeOK'
        BY <3>1 DEF TypeOK
      <4>2. \A r \in Requests : RequestFits(r)' = RequestFits(r)
        BY <3>1 DEF RequestFits, Holds
      <4>3. \A r \in Requests : SameRequest(r)
        BY <3>1 DEF SameRequest, Busy
      <4>4. Ledger => Ledger'
        BY <3>1, <4>3, LedgerUnchanged DEF ledger
      <4> QED BY <4>1, <4>2, <4>4 DEF Inv, Shape
    <3>3. Paid => Paid'
      BY ONLY <3>1 DEF Paid, Moving, PaidFrom, FundedAgainOnlyIfLost, SameDrip
    <3>4. SendsAreSpaced' = SendsAreSpaced /\ NoncesAreGapless' = NoncesAreGapless
      BY ONLY <3>1 DEF Accepted, SendsAreSpaced, NoncesAreGapless
    <3>5. Queue => Queue'
      <4>1. \A k \in Keys : KeyFits(k)' = KeyFits(k)
        BY ONLY <3>1 DEF KeyFits, Accepted
      <4>2. \A r \in Requests : HolderFits(r)' = HolderFits(r) /\ Holds(r)' = Holds(r)
        BY ONLY <3>1 DEF HolderFits, Holds
      <4>3. (Queue)' = Queue
        BY ONLY <3>1, <3>4, <4>1, <4>2 DEF Queue
      <4> QED BY <4>3
    <3> QED BY <3>2, <3>3, <3>5 DEF Inv
  <2> QED BY <2>1, StepHolds
<1> QED BY <1>1, <1>2, PTL DEF Spec

(* `drip` and `dripToAgent`: whatever is refused, retried, reverted or late, an
   address, a user or an agent gets a second drip only after a first whose
   broadcast was answered by an error. *)
THEOREM FundedOnceUnlessLost == Spec => []FundedAgainOnlyIfLost
<1>1. Inv => FundedAgainOnlyIfLost
  BY DEF Inv, Paid
<1> QED BY <1>1, InvHolds, PTL

-------------------------------------------------------------------------------
(* What was sent on a day, and not in a lost answer, was claimed on that day:
   each transaction has a drip of its own. *)
LEMMA SendsArePaid ==
  ASSUME Inv, NEW d \in Days
  PROVE  /\ IsFiniteSet(OwnSends(d)) /\ Cardinality(OwnSends(d)) <= Cardinality(OwnDrips(d))
         /\ \A us \in SUBSET Users : /\ IsFiniteSet(AgentSends(d, us))
                                     /\ Cardinality(AgentSends(d, us)) <= Cardinality(AgentDrips(d, us))
<1>1. IsFiniteSet(Held)
  BY DEF Inv, Ledger, BudgetFits
<1>2. ASSUME NEW i \in Moving, ~sent[i].lost
      PROVE  /\ i \in DOMAIN sent /\ sent[i].to \in Held /\ drip[sent[i].to].user = sent[i].user
             /\ drip[sent[i].to].agent = sent[i].agent /\ drip[sent[i].to].day = sent[i].day
  BY <1>2, SentTyped DEF Inv, Shape, Paid, PaidFrom, Moving, Held
<1>3. ASSUME NEW i \in Moving, NEW j \in Moving, ~sent[i].lost, ~sent[j].lost,
             sent[i].to = sent[j].to
      PROVE  i = j
  <2>1. SameDrip(i, j) /\ SameDrip(j, i)
    BY <1>3 DEF SameDrip
  <2>2. i \in Nat /\ j \in Nat
    BY SeqParts, Typed DEF Moving, Inv, Shape
  <2>3. ~(i < j) /\ ~(j < i)
    BY <1>3, <2>1 DEF Inv, Paid, FundedAgainOnlyIfLost
  <2> QED BY <2>2, <2>3
<1>4. ASSUME NEW S, NEW T, IsFiniteSet(T), \A i \in S : i \in Moving /\ ~sent[i].lost /\ sent[i].to \in T
      PROVE  IsFiniteSet(S) /\ Cardinality(S) <= Cardinality(T)
  <2>1. [i \in S |-> sent[i].to] \in Injection(S, T)
    BY <1>3, <1>4 DEF Injection, IsInjective
  <2> QED BY <1>4, <2>1, FS_Injection
<1>5. \A i \in OwnSends(d) : i \in Moving /\ ~sent[i].lost /\ sent[i].to \in OwnDrips(d)
  BY <1>2 DEF OwnSends, OwnDrips, Held
<1>6. \A us : \A i \in AgentSends(d, us) :
        i \in Moving /\ ~sent[i].lost /\ sent[i].to \in AgentDrips(d, us)
  BY <1>2 DEF AgentSends, AgentDrips, Held
<1> QED BY <1>1, <1>4, <1>5, <1>6, DripsFinite

LEMMA CapHolds ==
  ASSUME Inv
  PROVE  WithinFaucetCap
<1>0. DailyCap \in Nat /\ MaxAgentsPerDay \in Nat
  BY DripAssumption
<1>1. SUFFICES ASSUME NEW d \in Days
               PROVE  /\ Cost(OwnSends(d), AgentSends(d, Users)) <= DailyCap
                      /\ \A u \in Users : Cardinality(AgentSends(d, {u})) <= MaxAgentsPerDay
  BY DEF WithinFaucetCap
<1>2. /\ total[d] = Cost(OwnDrips(d), AgentDrips(d, Users)) /\ total[d] <= DailyCap
      /\ \A u \in Users : /\ funded[d][u] = Cardinality(AgentDrips(d, {u}))
                          /\ funded[d][u] <= MaxAgentsPerDay
      /\ IsFiniteSet(Held)
  BY DEF Inv, Ledger, BudgetFits, TotalsAdd
<1>3. PICK a, b, m, n \in Nat :
        /\ a = Cardinality(OwnSends(d)) /\ b = Cardinality(AgentSends(d, Users))
        /\ m = Cardinality(OwnDrips(d)) /\ n = Cardinality(AgentDrips(d, Users))
        /\ a <= m /\ b <= n
  BY <1>2, SendsArePaid, DripsFinite, FS_CardinalityType
<1>4. Cost(OwnSends(d), AgentSends(d, Users)) <= DailyCap
  <2>1. ASSUME NEW p \in Nat, NEW x \in Nat, NEW y \in Nat, x <= y
        PROVE  p * x \in Nat /\ p * y \in Nat /\ p * x <= p * y
    BY <2>1
  <2>2. /\ Amount.user * a \in Nat /\ Amount.user * m \in Nat /\ Amount.user * a <= Amount.user * m
        /\ Amount.agent * b \in Nat /\ Amount.agent * n \in Nat /\ Amount.agent * b <= Amount.agent * n
    BY <1>3, <2>1, Products
  <2>3. /\ total[d] = Amount.user * m + Amount.agent * n
        /\ Cost(OwnSends(d), AgentSends(d, Users)) = Amount.user * a + Amount.agent * b
    BY <1>2, <1>3 DEF Cost
  <2> QED BY <1>0, <1>2, <2>2, <2>3
<1>5. ASSUME NEW u \in Users PROVE Cardinality(AgentSends(d, {u})) <= MaxAgentsPerDay
  <2>1. IsFiniteSet(AgentSends(d, {u})) /\ Cardinality(AgentSends(d, {u})) <= Cardinality(AgentDrips(d, {u}))
    BY SendsArePaid
  <2>2. Cardinality(AgentSends(d, {u})) \in Nat /\ Cardinality(AgentDrips(d, {u})) \in Nat
    BY <1>2, <2>1, DripsFinite, FS_CardinalityType
  <2>3. Cardinality(AgentDrips(d, {u})) <= MaxAgentsPerDay
    BY <1>2
  <2> QED BY <1>0, <2>1, <2>2, <2>3
<1> QED BY <1>4, <1>5

LEMMA OwnersCount ==
  ASSUME Inv
  PROVE  ReservationsAreOwned
<1>1. SUFFICES ASSUME NEW x \in Addresses
               PROVE  Cardinality({r \in Requests : request[r].to = x
                                                  /\ request[r].pc \notin {"idle", "reading"}})
                        = IF drip[x].status = "reserved" THEN 1 ELSE 0
  BY DEF ReservationsAreOwned
<1> DEFINE S == {r \in Requests : request[r].to = x /\ request[r].pc \notin {"idle", "reading"}}
<1>2. \A r \in Requests : request[r].pc \notin {"idle", "reading"} <=> Busy(r)
  <2>1. \A r \in Requests : request[r] \in ReqRecs
    BY Typed DEF Inv, Shape
  <2> QED BY <2>1 DEF Busy, ReqRecs
<1>3. CASE drip[x].status = "reserved"
  <2>1. PICK r \in Requests : Busy(r) /\ request[r].to = x
    BY <1>3 DEF Inv, Ledger, OwnersFit
  <2>2. S = {r}
    BY <1>2, <2>1 DEF Inv, Ledger, OwnersFit
  <2>3. Cardinality(S) = 1
    BY <2>2, FS_Singleton
  <2> QED BY <1>3, <2>3
<1>4. CASE drip[x].status # "reserved"
  <2>1. S = {}
    BY <1>2, <1>4 DEF Inv, Ledger, OwnersFit, Reserved
  <2>2. Cardinality(S) = 0
    BY <2>1, FS_EmptySet
  <2> QED BY <1>4, <2>2
<1> QED BY <1>3, <1>4

(* The ledger says what went out: of any day the caps hold of what was sent, the
   totals are those of the drips, a reservation is one request's; and a key's
   sends are a spacing apart, with nonces that follow one another. *)
THEOREM LedgerStaysTrue == Spec => []LedgerIsTrue
<1>1. Inv => LedgerIsTrue
  BY CapHolds, OwnersCount DEF Inv, Shape, Ledger, BudgetFits, Queue, LedgerIsTrue
<1> QED BY <1>1, InvHolds, PTL

-------------------------------------------------------------------------------
(***************************************************************************)
(* StarterKit.                                                             *)
(***************************************************************************)

Statuses == {"none", "pending", "sent", "failed"}
Kits == [status : Statuses, day : 0..LastDay, ip : Ips \cup {NoIp}]
Grants == [pc : {"over", "reading", "sending", "receipt"}, token : Tokens, tx : Nat, seen : Nat]
Moves == [user : KitUsers, token : Tokens, seen : Nat,
          state : {"pending", "success", "short", "reverted"}]

(* Every transfer of u's of token t has moved it. *)
Moved(u, t) == \E i \in Of(u, t) : transfers[i].state = "success"

(* A record is pending while its grant is under way; and the file, which may be
   behind, never says less of what was claimed and never more of what was sent. *)
KitsFit ==
  \A u \in KitUsers :
    /\ kits[u].status = "pending" <=> grant[u].pc # "over"
    /\ file[u].status = "none" <=> kits[u].status = "none"
    /\ file[u].status = "sent" => kits[u].status = "sent"

(* What of u's kit is out. *)
GrantOK(u) ==
  LET g == grant[u]
  IN /\ kits[u].status = "none" \/ g.pc = "reading" => Of(u, 1) = {} /\ Of(u, 2) = {}
     /\ g.pc = "reading" => g.token = 1
     /\ g.pc = "sending" => Of(u, g.token) = {}
     /\ g.pc = "receipt" => g.tx \in Of(u, g.token)
     /\ g.pc \in {"sending", "receipt"} /\ g.token = 1 => Of(u, 2) = {}
     /\ g.pc \in {"sending", "receipt"} /\ g.token = 2 => Moved(u, 1)
     /\ kits[u].status = "sent" => Moved(u, 1) /\ Moved(u, 2)

GrantFits == \A u \in KitUsers : GrantOK(u)

(* No two transfers are of one user's and of one token. *)
OnceFits ==
  \A i, j \in DOMAIN transfers :
    transfers[i].user = transfers[j].user /\ transfers[i].token = transfers[j].token => i = j

(* The first s transfers have landed; and there is some of token t left, unless
   one of it landed after them. *)
Since(s) == s <= Len(transfers) /\ \A j \in 1..s : transfers[j].state # "pending"
Room(s, t) == \/ held[t] > 0
              \/ \E j \in DOMAIN transfers : /\ j > s /\ transfers[j].token = t
                                             /\ transfers[j].state = "success"

(* Transfers land in turn, and each grant saw enough of what it is to send. *)
LandFits ==
  /\ \A i, j \in DOMAIN transfers :
       i < j /\ transfers[i].state = "pending" => transfers[j].state = "pending"
  /\ \A u \in KitUsers : grant[u].pc = "sending" \/ grant[u].pc = "receipt" =>
       Since(grant[u].seen) /\ Room(grant[u].seen, 1) /\ Room(grant[u].seen, 2)
  /\ \A i \in DOMAIN transfers : transfers[i].state = "pending" =>
       Since(transfers[i].seen) /\ Room(transfers[i].seen, transfers[i].token)

KitInv == /\ KitTypeOK /\ held \in [Tokens -> Nat]
       /\ KitsFit /\ GrantFits /\ OnceFits /\ LandFits /\ ShortOnlyIfShared

-------------------------------------------------------------------------------
LEMMA KitTyped ==
  ASSUME KitTypeOK
  PROVE  /\ kits \in [KitUsers -> Kits] /\ file \in [KitUsers -> Kits]
         /\ grant \in [KitUsers -> Grants] /\ transfers \in Seq(Moves)
         /\ day \in 0..LastDay
  BY DEF KitTypeOK, Kits, Statuses, Grants, Moves

LEMMA KitMovesTyped ==
  ASSUME KitTypeOK, NEW i \in DOMAIN transfers
  PROVE  transfers[i].seen \in Nat /\ transfers[i].token \in Tokens
<1>1. transfers[i] \in Moves
  BY KitTyped
<1> QED BY <1>1 DEF Moves

(* A grant sends one more transfer. *)
LEMMA Appended ==
  ASSUME KitTypeOK, NEW u \in KitUsers, transfers' = Append(transfers, Transfer(u))
  PROVE  /\ Len(transfers) \in Nat
         /\ DOMAIN transfers = 1..Len(transfers)
         /\ DOMAIN transfers' = 1..(Len(transfers) + 1)
         /\ Len(transfers') = Len(transfers) + 1
         /\ transfers' \in Seq(Moves)
         /\ Transfer(u) \in Moves
         /\ \A i \in DOMAIN transfers : transfers'[i] = transfers[i]
         /\ transfers'[Len(transfers) + 1] = Transfer(u)
<1>1. Transfer(u) \in Moves
  BY KitTyped DEF Transfer, Grants, Moves
<1> QED BY <1>1, KitTyped

(* One lands: it alone is other than it was, and it is not pending any more. *)
LEMMA LandsOne ==
  ASSUME KitTypeOK, held \in [Tokens -> Nat], NEW i \in DOMAIN transfers, Lands(i)
  PROVE  /\ DOMAIN transfers' = DOMAIN transfers /\ Len(transfers') = Len(transfers)
         /\ transfers' \in Seq(Moves)
         /\ held' \in [Tokens -> Nat] /\ \A t \in Tokens : held'[t] \in 0..held[t]
         /\ \A j \in DOMAIN transfers :
              /\ transfers'[j].user = transfers[j].user
              /\ transfers'[j].token = transfers[j].token
              /\ transfers'[j].seen = transfers[j].seen
              /\ j # i => transfers'[j].state = transfers[j].state
         /\ transfers'[i].state \in {"success", "short", "reverted"}
         /\ transfers'[i].state = "short" => held[transfers[i].token] = 0
         /\ transfers'[i].state # "success" => held' = held
         /\ \A t \in Tokens : t # transfers[i].token => held'[t] = held[t]
<1>1. transfers \in Seq(Moves) /\ transfers[i] \in Moves
  BY KitTyped
<1>2. PICK s \in {"success", "short", "reverted"} :
        /\ transfers' = [transfers EXCEPT ![i].state = s]
        /\ s = "short" => held[transfers[i].token] = 0
        /\ IF s = "success"
           THEN /\ held[transfers[i].token] > 0
                /\ held' = [held EXCEPT ![transfers[i].token] = @ - 1]
           ELSE held' = held
  BY DEF Lands
<1>3. transfers[i].token \in Tokens
  BY <1>1 DEF Moves
<1>4. /\ held' \in [Tokens -> Nat] /\ \A t \in Tokens : held'[t] \in 0..held[t]
      /\ \A t \in Tokens : t # transfers[i].token => held'[t] = held[t]
  BY <1>2, <1>3
<1>5. [transfers[i] EXCEPT !.state = s] \in Moves
  BY <1>1 DEF Moves
<1>7. transfers' \in Seq(Moves) /\ Len(transfers') = Len(transfers)
      /\ DOMAIN transfers' = DOMAIN transfers
  BY <1>1, <1>2, <1>5
<1>6. /\ transfers'[i] = [transfers[i] EXCEPT !.state = s]
      /\ \A j \in DOMAIN transfers : j # i => transfers'[j] = transfers[j]
  BY <1>1, <1>2
<1> QED BY <1>1, <1>2, <1>4, <1>6, <1>7 DEF Moves

-------------------------------------------------------------------------------
(* A record is stored, in memory and perhaps in the file. *)
LEMMA Stored ==
  ASSUME KitTypeOK, NEW u \in KitUsers, NEW status \in Statuses, NEW saved \in BOOLEAN,
         Stores(u, status, saved)
  PROVE  /\ kits' \in [KitUsers -> Kits] /\ file' \in [KitUsers -> Kits]
         /\ kits'[u].status = status
         /\ \A v \in KitUsers \ {u} : kits'[v] = kits[v]
         /\ file' = kits' \/ file' = file
<1>1. kits \in [KitUsers -> Kits] /\ file \in [KitUsers -> Kits]
  BY KitTyped
<1>2. [kits[u] EXCEPT !.status = status] \in Kits
  BY <1>1 DEF Kits
<1>3. kits' = [kits EXCEPT ![u] = [kits[u] EXCEPT !.status = status]]
  BY DEF Stores
<1>4. kits' \in [KitUsers -> Kits]
  BY <1>1, <1>2, <1>3
<1> QED BY <1>1, <1>3, <1>4 DEF Stores, Kits

(* A grant that ends as failed, saved or not. *)
LEMMA Failed ==
  ASSUME KitTypeOK, NEW u \in KitUsers, Fails(u)
  PROVE  /\ kits' \in [KitUsers -> Kits] /\ file' \in [KitUsers -> Kits]
         /\ grant' \in [KitUsers -> Grants]
         /\ kits'[u].status = "failed" /\ grant'[u] = Over
         /\ \A v \in KitUsers \ {u} : kits'[v] = kits[v] /\ grant'[v] = grant[v]
         /\ file' = kits' \/ file' = file
<1>1. PICK saved \in BOOLEAN : Stores(u, "failed", saved)
  BY DEF Fails, Saves
<1>2. grant' = [grant EXCEPT ![u] = Over] /\ Over \in Grants
  BY DEF Fails, Over, Grants, Tokens
<1> QED BY <1>1, <1>2, KitTyped, Stored DEF Statuses

LEMMA TypesHold ==
  ASSUME KitTypeOK, held \in [Tokens -> Nat], KitNext
  PROVE  KitTypeOK' /\ held' \in [Tokens -> Nat]
<1> USE KitTyped DEF Statuses, Kits, Grants
<1>1. ASSUME NEW u \in KitUsers, NEW ip \in Ips \cup {NoIp}, ClaimsKit(u, ip)
      PROVE  KitTypeOK' /\ held' \in [Tokens -> Nat]
  <2>1. [status |-> "pending", day |-> day, ip |-> ip] \in Kits
    BY DEF KitTypeOK
  <2>2. [Over EXCEPT !.pc = "reading"] \in Grants
    BY DEF Over, Tokens
  <2>3. kits' \in [KitUsers -> Kits] /\ file' = kits' /\ grant' \in [KitUsers -> Grants]
    <3> HIDE DEF Kits, Grants
    <3> QED BY <1>1, <2>1, <2>2 DEF ClaimsKit
  <2>4. UNCHANGED <<day, held, transfers, restarts>>
    BY <1>1 DEF ClaimsKit
  <2> QED BY <2>3, <2>4 DEF KitTypeOK
<1>3. ASSUME NEW u \in KitUsers, ReadsBalances(u)
      PROVE  KitTypeOK' /\ held' \in [Tokens -> Nat]
  <2>1. Landed \in Nat
    <3>1. transfers \in Seq(Moves) /\ IsFiniteSet(DOMAIN transfers)
      BY FS_Interval
    <3> QED BY <3>1, FS_Subset, FS_CardinalityType DEF Landed
  <2>2. /\ kits' \in [KitUsers -> Kits] /\ file' \in [KitUsers -> Kits]
        /\ grant' \in [KitUsers -> Grants]
    <3>1. CASE Fails(u)  BY <3>1, Failed
    <3>2. CASE /\ grant' = [grant EXCEPT ![u] = [@ EXCEPT !.pc = "sending", !.seen = Landed]]
               /\ UNCHANGED <<kits, file>>
      BY <2>1, <3>2
    <3> QED BY <1>3, <3>1, <3>2 DEF ReadsBalances
  <2> QED BY <1>3, <2>2 DEF ReadsBalances, KitTypeOK
<1>4. ASSUME NEW u \in KitUsers, Sends(u) \/ SendThrows(u)
      PROVE  KitTypeOK' /\ held' \in [Tokens -> Nat]
  <2>1. transfers' \in Seq(Moves) /\ Len(transfers) \in Nat
    BY <1>4, Appended, KitTyped DEF Sends, SendThrows
  <2>2. /\ kits' \in [KitUsers -> Kits] /\ file' \in [KitUsers -> Kits]
        /\ grant' \in [KitUsers -> Grants]
    <3>1. CASE Fails(u)  BY <3>1, Failed
    <3>2. CASE /\ grant' = [grant EXCEPT ![u] = [@ EXCEPT !.pc = "receipt", !.tx = Len(transfers) + 1]]
               /\ UNCHANGED <<kits, file>>
      <4>1. [grant[u] EXCEPT !.pc = "receipt", !.tx = Len(transfers) + 1] \in Grants
        <5>1. grant[u] \in Grants /\ Len(transfers) + 1 \in Nat
          BY <2>1
        <5> QED BY <5>1
      <4> HIDE DEF Grants, Kits
      <4> QED BY <3>2, <4>1
    <3> QED BY <1>4, <3>1, <3>2 DEF Sends, SendThrows
  <2> QED BY <1>4, <2>1, <2>2 DEF Sends, SendThrows, KitTypeOK, Moves
<1>5. ASSUME NEW u \in KitUsers, Receipt(u)
      PROVE  KitTypeOK' /\ held' \in [Tokens -> Nat]
  <2>1. /\ kits' \in [KitUsers -> Kits] /\ file' \in [KitUsers -> Kits]
        /\ grant' \in [KitUsers -> Grants]
    <3>1. CASE Fails(u)  BY <3>1, Failed
    <3>2. CASE /\ grant' = [grant EXCEPT ![u] = [@ EXCEPT !.pc = "sending", !.token = 2]]
               /\ UNCHANGED <<kits, file>>
      <4>1. [grant[u] EXCEPT !.pc = "sending", !.token = 2] \in Grants
        <5>1. grant[u] \in Grants
          OBVIOUS
        <5>2. 2 \in Tokens
          BY DEF Tokens
        <5> QED BY <5>1, <5>2
      <4> HIDE DEF Grants, Kits
      <4> QED BY <3>2, <4>1
    <3>3. CASE Stores(u, "sent", TRUE) /\ grant' = [grant EXCEPT ![u] = Over]
      <4>1. Over \in Grants
        BY DEF Over, Tokens
      <4>2. kits' \in [KitUsers -> Kits] /\ file' \in [KitUsers -> Kits]
        BY <3>3, Stored
      <4> HIDE DEF Grants, Kits
      <4> QED BY <3>3, <4>1, <4>2
    <3> QED BY <1>5, <3>1, <3>2, <3>3 DEF Receipt
  <2> QED BY <1>5, <2>1 DEF Receipt, KitTypeOK
<1>6. ASSUME NEW i \in DOMAIN transfers, Lands(i)
      PROVE  KitTypeOK' /\ held' \in [Tokens -> Nat]
  <2>1. \A t \in Tokens : held'[t] \in 0..Stock[t]
    <3>1. ASSUME NEW t \in Tokens  PROVE held'[t] \in 0..Stock[t]
      <4>1. held'[t] \in 0..held[t] /\ held[t] \in 0..Stock[t] /\ Stock[t] \in Nat
        BY <1>6, LandsOne, KitAssumption DEF KitTypeOK
      <4> QED BY <4>1
    <3> QED BY <3>1
  <2> QED BY <1>6, <2>1, LandsOne DEF Lands, KitTypeOK, Moves
<1>7. ASSUME NextDay
      PROVE  KitTypeOK' /\ held' \in [Tokens -> Nat]
  <2>1. day' \in 0..LastDay
    BY <1>7, KitAssumption DEF NextDay, KitTypeOK
  <2>2. /\ kits' = kits /\ file' = file /\ grant' = grant /\ held' = held
        /\ transfers' = transfers /\ restarts' = restarts
    BY <1>7 DEF NextDay
  <2> HIDE DEF Kits, Grants, Statuses
  <2> QED BY <2>1, <2>2 DEF KitTypeOK
<1>8. ASSUME Restarts
      PROVE  KitTypeOK' /\ held' \in [Tokens -> Nat]
  <2>1. \A k \in Kits : Loaded(k) \in Kits
    BY DEF Loaded
  <2> QED BY <1>8, <2>1, KitAssumption DEF Restarts, KitTypeOK, Over, Tokens
<1> QED BY <1>1, <1>3, <1>4, <1>5, <1>6, <1>7, <1>8 DEF KitNext

-------------------------------------------------------------------------------
(* The records and the grants. *)

LEMMA KitsStayFit ==
  ASSUME KitTypeOK, KitsFit, KitNext
  PROVE  KitsFit'
<1> USE KitTyped DEF Statuses, Kits, Grants
<1>1. ASSUME NEW u \in KitUsers, Fails(u), grant[u].pc # "over"
      PROVE  KitsFit'
  <2>1. /\ kits'[u].status = "failed" /\ grant'[u].pc = "over"
        /\ \A v \in KitUsers \ {u} : kits'[v] = kits[v] /\ grant'[v] = grant[v]
        /\ file' = kits' \/ file' = file
    BY <1>1, Failed DEF Over
  <2> QED BY <1>1, <2>1 DEF KitsFit
<1>2. ASSUME NEW u \in KitUsers, UNCHANGED <<kits, file>>,
             NEW g \in Grants, grant' = [grant EXCEPT ![u] = g],
             grant[u].pc # "over", g.pc # "over"
      PROVE  KitsFit'
  BY <1>2 DEF KitsFit
<1>3. ASSUME UNCHANGED <<kits, file, grant>>
      PROVE  KitsFit'
  BY <1>3 DEF KitsFit
<1>4. ASSUME NEW u \in KitUsers, NEW ip \in Ips \cup {NoIp}, ClaimsKit(u, ip)
      PROVE  KitsFit'
  BY <1>4 DEF ClaimsKit, KitsFit, Over
<1>5. ASSUME NEW u \in KitUsers, ReadsBalances(u)
      PROVE  KitsFit'
  <2>1. CASE Fails(u)
    BY <1>1, <1>5, <2>1 DEF ReadsBalances
  <2>2. CASE /\ grant' = [grant EXCEPT ![u] = [@ EXCEPT !.pc = "sending", !.seen = Landed]]
             /\ UNCHANGED <<kits, file>>
    BY <1>5, <2>2 DEF ReadsBalances, KitsFit
  <2> QED BY <1>5, <2>1, <2>2 DEF ReadsBalances
<1>6. ASSUME NEW u \in KitUsers, Sends(u) \/ SendThrows(u)
      PROVE  KitsFit'
  <2>1. CASE Fails(u)
    BY <1>1, <1>6, <2>1 DEF Sends, SendThrows
  <2>2. CASE /\ grant' = [grant EXCEPT ![u] = [@ EXCEPT !.pc = "receipt", !.tx = Len(transfers) + 1]]
             /\ UNCHANGED <<kits, file>>
    BY <1>6, <2>2 DEF Sends, SendThrows, KitsFit
  <2> QED BY <1>6, <2>1, <2>2 DEF Sends, SendThrows
<1>7. ASSUME NEW u \in KitUsers, Receipt(u)
      PROVE  KitsFit'
  <2>1. CASE Fails(u)
    BY <1>1, <1>7, <2>1 DEF Receipt
  <2>2. CASE /\ grant' = [grant EXCEPT ![u] = [@ EXCEPT !.pc = "sending", !.token = 2]]
             /\ UNCHANGED <<kits, file>>
    BY <1>7, <2>2 DEF Receipt, KitsFit
  <2>3. CASE Stores(u, "sent", TRUE) /\ grant' = [grant EXCEPT ![u] = Over]
    <3>1. /\ kits'[u].status = "sent" /\ \A v \in KitUsers \ {u} : kits'[v] = kits[v]
          /\ file' = kits'
      BY <2>3, Stored DEF Stores
    <3>2. grant'[u].pc = "over" /\ \A v \in KitUsers \ {u} : grant'[v] = grant[v]
      BY <2>3 DEF Over
    <3>3. ASSUME NEW v \in KitUsers
          PROVE  /\ kits'[v].status = "pending" <=> grant'[v].pc # "over"
                 /\ file'[v].status = "none" <=> kits'[v].status = "none"
                 /\ file'[v].status = "sent" => kits'[v].status = "sent"
      <4>1. kits[v].status = "pending" <=> grant[v].pc # "over"
        BY DEF KitsFit
      <4>2. CASE v = u
        BY ONLY <3>1, <3>2, <4>2
      <4>3. CASE v # u
        BY ONLY <3>1, <3>2, <4>1, <4>3, v \in KitUsers
      <4> QED BY <4>2, <4>3
    <3> QED BY ONLY <3>3 DEF KitsFit
  <2> QED BY <1>7, <2>1, <2>2, <2>3 DEF Receipt
<1>8. ASSUME Restarts
      PROVE  KitsFit'
  BY <1>8 DEF Restarts, KitsFit, Loaded, Over
<1> QED BY <1>3, <1>4, <1>5, <1>6, <1>7, <1>8 DEF KitNext, Lands, NextDay

-------------------------------------------------------------------------------
(* What is out of a kit. *)

LEMMA OfHas ==
  ASSUME NEW u, NEW t, NEW i
  PROVE  i \in Of(u, t) <=> /\ i \in DOMAIN transfers
                            /\ transfers[i].user = u /\ transfers[i].token = t
  BY DEF Of

(* A landing takes nothing from anybody. *)
LEMMA OfAfterLanding ==
  ASSUME KitTypeOK, held \in [Tokens -> Nat], NEW i \in DOMAIN transfers, Lands(i),
         NEW u \in KitUsers, NEW t \in Tokens
  PROVE  Of(u, t)' = Of(u, t) /\ (Moved(u, t) => Moved(u, t)')
<1>1. Of(u, t)' = Of(u, t)
  BY LandsOne DEF Of
<1>2. \A j \in DOMAIN transfers :
        transfers[j].state = "success" => transfers'[j].state = "success"
  BY LandsOne DEF Lands
<1> QED BY <1>1, <1>2 DEF Moved, Of

LEMMA OfAfterSending ==
  ASSUME KitTypeOK, NEW u \in KitUsers, transfers' = Append(transfers, Transfer(u)),
         NEW v \in KitUsers, NEW t \in Tokens
  PROVE  /\ v = u /\ t = grant[u].token => Of(v, t)' = Of(v, t) \cup {Len(transfers) + 1}
         /\ v # u \/ t # grant[u].token => Of(v, t)' = Of(v, t)
         /\ Moved(v, t) => Moved(v, t)'
<1>1. transfers'[Len(transfers) + 1].user = u
      /\ transfers'[Len(transfers) + 1].token = grant[u].token
  BY Appended DEF Transfer
<1>2. /\ v = u /\ t = grant[u].token => Of(v, t)' = Of(v, t) \cup {Len(transfers) + 1}
      /\ v # u \/ t # grant[u].token => Of(v, t)' = Of(v, t)
  BY <1>1, Appended DEF Of
<1>3. \A j \in DOMAIN transfers :
        transfers[j].state = "success" => transfers'[j].state = "success"
  BY Appended
<1> QED BY <1>2, <1>3 DEF Moved, Of

(* Whose record, grant and transfers are as they were. *)
LEMMA GrantKept ==
  ASSUME NEW u \in KitUsers, GrantOK(u), grant'[u] = grant[u], kits'[u].status = kits[u].status,
         \A t \in Tokens : Of(u, t)' = Of(u, t) /\ (Moved(u, t) => Moved(u, t)'),
         grant[u].token \in Tokens
  PROVE  GrantOK(u)'
<1>1. 1 \in Tokens /\ 2 \in Tokens
  BY DEF Tokens
<1> QED BY <1>1 DEF GrantOK

(* A grant that is over, of a record that failed, says nothing. *)
LEMMA GrantOver ==
  ASSUME NEW u \in KitUsers, grant'[u] = Over, kits'[u].status \notin {"none", "sent"}
  PROVE  GrantOK(u)'
  BY DEF GrantOK, Over

LEMMA OfSame ==
  ASSUME transfers' = transfers, NEW u \in KitUsers, NEW t \in Tokens
  PROVE  Of(u, t)' = Of(u, t) /\ (Moved(u, t) <=> Moved(u, t)')
  BY DEF Of, Moved

LEMMA GrantsStayFit ==
  ASSUME KitTypeOK, held \in [Tokens -> Nat], KitsFit, GrantFits, KitNext
  PROVE  GrantFits'
<1> SUFFICES ASSUME NEW v \in KitUsers
             PROVE  GrantOK(v)'
  BY DEF GrantFits
<1>a. GrantOK(v) /\ grant[v].token \in Tokens /\ grant[v] \in Grants
  BY KitTyped DEF GrantFits, Grants
<1>b. 1 \in Tokens /\ 2 \in Tokens /\ \A t \in Tokens : t = 1 \/ t = 2
  BY DEF Tokens
<1>c. grant \in [KitUsers -> Grants] /\ kits \in [KitUsers -> Kits]
  BY KitTyped
<1>1. ASSUME NEW u \in KitUsers, NEW ip \in Ips \cup {NoIp}, ClaimsKit(u, ip)
      PROVE  GrantOK(v)'
  <2>1. transfers' = transfers /\ kits[u].status = "none"
    BY <1>1 DEF ClaimsKit, KitClaimable
  <2>2. CASE v = u
    <3>1. grant'[u].pc = "reading" /\ grant'[u].token = 1 /\ kits'[u].status = "pending"
      BY <1>1, <1>c DEF ClaimsKit, Over
    <3> QED BY <1>a, <1>b, <2>1, <2>2, <3>1, OfSame DEF GrantOK
  <2>3. CASE v # u
    BY <1>1, <1>a, <1>c, <2>1, <2>3, GrantKept, OfSame DEF ClaimsKit
  <2> QED BY <2>2, <2>3
<1>2. ASSUME NEW u \in KitUsers, ReadsBalances(u)
      PROVE  GrantOK(v)'
  <2>1. transfers' = transfers /\ grant[u].pc = "reading"
    BY <1>2 DEF ReadsBalances
  <2>2. CASE Fails(u)
    BY <1>a, <2>1, <2>2, Failed, GrantOver, GrantKept, OfSame
  <2>3. CASE /\ grant' = [grant EXCEPT ![u] = [@ EXCEPT !.pc = "sending", !.seen = Landed]]
             /\ UNCHANGED <<kits, file>>
    <3>1. CASE v = u
      <4>1. grant'[u].pc = "sending" /\ grant'[u].token = grant[u].token
        BY <1>a, <1>c, <2>3, <3>1 DEF Grants
      <4>2. grant[u].token = 1 /\ Of(u, 1) = {} /\ Of(u, 2) = {}
        BY <1>a, <2>1, <3>1 DEF GrantOK
      <4>3. kits[u].status = "pending"
        BY <2>1 DEF KitsFit
      <4> QED BY <1>b, <2>1, <2>3, <3>1, <4>1, <4>2, <4>3, OfSame DEF GrantOK
    <3>2. CASE v # u
      BY <1>a, <1>c, <2>1, <2>3, <3>2, GrantKept, OfSame
    <3> QED BY <3>1, <3>2
  <2> QED BY <1>2, <2>2, <2>3 DEF ReadsBalances
<1>3. ASSUME NEW u \in KitUsers, Sends(u) \/ SendThrows(u)
      PROVE  GrantOK(v)'
  <2>1. grant[u].pc = "sending" /\ kits[u].status = "pending" /\ grant[u].token \in Tokens
    BY <1>3, KitTyped DEF Sends, SendThrows, KitsFit, Grants
  <2>2. transfers' = transfers \/ transfers' = Append(transfers, Transfer(u))
    BY <1>3 DEF Sends, SendThrows
  <2>3. \A t \in Tokens : Moved(v, t) => Moved(v, t)'
    BY <2>2, OfSame, OfAfterSending
  <2>4. v # u => \A t \in Tokens : Of(v, t)' = Of(v, t)
    BY <2>2, OfSame, OfAfterSending
  <2>5. CASE Fails(u)
    BY <1>a, <2>1, <2>3, <2>4, <2>5, Failed, GrantOver, GrantKept
  <2>6. CASE /\ transfers' = Append(transfers, Transfer(u))
             /\ grant' = [grant EXCEPT ![u] = [@ EXCEPT !.pc = "receipt", !.tx = Len(transfers) + 1]]
             /\ UNCHANGED <<kits, file>>
    <3>1. CASE v = u
      <4>1. /\ grant'[u].pc = "receipt" /\ grant'[u].token = grant[u].token
            /\ grant'[u].tx = Len(transfers) + 1
        BY <1>a, <1>c, <2>6, <3>1 DEF Grants
      <4>2. \A t \in Tokens : t = grant[u].token => Len(transfers) + 1 \in Of(u, t)'
        BY <2>6, OfAfterSending
      <4>3. grant[u].token = 1 => Of(u, 2)' = Of(u, 2)
        BY <1>b, <2>1, <2>6, OfAfterSending
      <4>4. grant'[u].tx \in Of(u, grant[u].token)'
        BY <2>1, <4>1, <4>2
      <4>5. /\ grant[u].token = 1 => Of(u, 2) = {}
            /\ grant[u].token = 2 => Moved(u, 1)
        BY <1>a, <2>1, <3>1 DEF GrantOK
      <4> QED BY <1>b, <2>1, <2>3, <2>6, <3>1, <4>1, <4>3, <4>4, <4>5 DEF GrantOK
    <3>2. CASE v # u
      BY <1>a, <1>c, <2>3, <2>4, <2>6, <3>2, GrantKept
    <3> QED BY <3>1, <3>2
  <2> QED BY <1>3, <2>5, <2>6 DEF Sends, SendThrows
<1>4. ASSUME NEW u \in KitUsers, Receipt(u)
      PROVE  GrantOK(v)'
  <2>1. transfers' = transfers /\ grant[u].pc = "receipt" /\ kits[u].status = "pending"
    BY <1>4 DEF Receipt, KitsFit
  <2>2. CASE Fails(u)
    BY <1>a, <2>1, <2>2, Failed, GrantOver, GrantKept, OfSame
  <2>3. GrantOK(u) /\ grant[u].tx \in Of(u, grant[u].token)
    BY <2>1 DEF GrantFits, GrantOK
  <2>4. CASE /\ transfers[grant[u].tx].state = "success" /\ grant[u].token = 1
             /\ grant' = [grant EXCEPT ![u] = [@ EXCEPT !.pc = "sending", !.token = 2]]
             /\ UNCHANGED <<kits, file>>
    <3>1. CASE v = u
      <4>1. grant'[u].pc = "sending" /\ grant'[u].token = 2
        BY <1>a, <1>c, <2>4, <3>1 DEF Grants
      <4>2. Moved(u, 1) /\ Of(u, 2) = {}
        BY <2>1, <2>3, <2>4 DEF GrantOK, Moved
      <4> QED BY <1>b, <2>1, <2>4, <3>1, <4>1, <4>2, OfSame DEF GrantOK
    <3>2. CASE v # u
      BY <1>a, <1>c, <2>1, <2>4, <3>2, GrantKept, OfSame
    <3> QED BY <3>1, <3>2
  <2>5. CASE /\ transfers[grant[u].tx].state = "success" /\ grant[u].token = 2
             /\ Stores(u, "sent", TRUE) /\ grant' = [grant EXCEPT ![u] = Over]
    <3>1. kits'[u].status = "sent" /\ \A w \in KitUsers \ {u} : kits'[w] = kits[w]
      BY <2>5, Stored DEF Statuses
    <3>2. CASE v = u
      <4>1. grant'[u].pc = "over"
        BY <1>c, <2>5 DEF Over
      <4>2. Moved(u, 1) /\ Moved(u, 2)
        BY <2>1, <2>3, <2>5 DEF GrantOK, Moved
      <4> QED BY <1>b, <2>1, <3>1, <3>2, <4>1, <4>2, OfSame DEF GrantOK
    <3>3. CASE v # u
      BY <1>a, <1>c, <2>1, <2>5, <3>1, <3>3, GrantKept, OfSame
    <3> QED BY <3>2, <3>3
  <2> QED BY <1>4, <2>2, <2>4, <2>5 DEF Receipt
<1>5. ASSUME NEW i \in DOMAIN transfers, Lands(i)
      PROVE  GrantOK(v)'
  BY <1>5, <1>a, GrantKept, OfAfterLanding DEF Lands
<1>6. ASSUME NextDay
      PROVE  GrantOK(v)'
  BY <1>6, <1>a, GrantKept, OfSame DEF NextDay
<1>7. ASSUME Restarts
      PROVE  GrantOK(v)'
  <2>1. /\ kits'[v].status = "none" => kits[v].status = "none"
        /\ kits'[v].status = "sent" => kits[v].status = "sent"
    BY <1>7, KitTyped DEF Restarts, Loaded, KitsFit, Kits
  <2>2. grant'[v].pc = "over" /\ transfers' = transfers
    BY <1>7 DEF Restarts, Over
  <2> QED BY <1>a, <1>b, <2>1, <2>2, OfSame DEF GrantOK
<1> QED BY <1>1, <1>2, <1>3, <1>4, <1>5, <1>6, <1>7 DEF KitNext

LEMMA OnceStaysFit ==
  ASSUME KitTypeOK, held \in [Tokens -> Nat], GrantFits, OnceFits, KitNext
  PROVE  OnceFits'
<1>1. ASSUME NEW u \in KitUsers, grant[u].pc = "sending", transfers' = Append(transfers, Transfer(u))
      PROVE  OnceFits'
  <2>1. Of(u, grant[u].token) = {}
    BY <1>1 DEF GrantFits, GrantOK
  <2>2. \A i \in DOMAIN transfers :
          ~(transfers[i].user = u /\ transfers[i].token = grant[u].token)
    BY <2>1 DEF Of
  <2>3. transfers'[Len(transfers) + 1].user = u
        /\ transfers'[Len(transfers) + 1].token = grant[u].token
    BY <1>1, Appended DEF Transfer
  <2>4. /\ DOMAIN transfers' = DOMAIN transfers \cup {Len(transfers) + 1}
        /\ \A i \in DOMAIN transfers : transfers'[i] = transfers[i]
    BY <1>1, Appended
  <2> QED BY <2>2, <2>3, <2>4 DEF OnceFits
<1>2. ASSUME NEW i \in DOMAIN transfers, Lands(i)
      PROVE  OnceFits'
  BY <1>2, LandsOne DEF OnceFits
<1>3. CASE transfers' = transfers
  BY <1>3 DEF OnceFits
<1> QED BY <1>1, <1>2, <1>3 DEF KitNext, ClaimsKit, ReadsBalances, Sends, SendThrows, Receipt,
                                NextDay, Restarts

-------------------------------------------------------------------------------
(* The stock. *)

(* What has landed are the first transfers, as many as there are. *)
LEMMA LandedFirst ==
  ASSUME KitTypeOK, LandFits
  PROVE  Landed \in Nat /\ Since(Landed)
<1> DEFINE gone == {i \in DOMAIN transfers : transfers[i].state # "pending"}
<1>1. Len(transfers) \in Nat /\ DOMAIN transfers = 1..Len(transfers)
  BY KitTyped
<1>2. /\ IsFiniteSet(1..Len(transfers)) /\ Cardinality(1..Len(transfers)) = Len(transfers)
  <2>1. 1 \in Int /\ Len(transfers) \in Int /\ Len(transfers) - 1 + 1 = Len(transfers)
    BY <1>1
  <2>2. /\ IsFiniteSet(1..Len(transfers))
        /\ Cardinality(1..Len(transfers)) = IF 1 > Len(transfers) THEN 0
                                            ELSE Len(transfers) - 1 + 1
    BY <2>1, FS_Interval, Zenon
  <2> QED BY <1>1, <2>2
<1>3. gone \subseteq 1..Len(transfers)
  BY <1>1
<1>4. /\ IsFiniteSet(gone) /\ Cardinality(gone) \in Nat
      /\ Cardinality(gone) <= Len(transfers)
  BY <1>2, <1>3, FS_Subset, FS_CardinalityType
<1>5. ASSUME NEW j \in 1..Cardinality(gone), transfers[j].state = "pending"
      PROVE  FALSE
  <2>1. j \in Nat /\ j - 1 \in Nat /\ j \in DOMAIN transfers
    BY <1>1, <1>4
  <2>2. gone \subseteq 1..(j - 1)
    <3>1. ASSUME NEW i \in gone  PROVE i < j
      <4>1. i \in DOMAIN transfers /\ transfers[i].state # "pending"
        OBVIOUS
      <4>2. i # j /\ ~(j < i)
        BY <1>5, <2>1, <4>1 DEF LandFits
      <4> QED BY <1>1, <2>1, <4>1, <4>2
    <3> QED BY <1>1, <1>3, <2>1, <3>1
  <2>3. IsFiniteSet(1..(j - 1)) /\ Cardinality(1..(j - 1)) = j - 1
    BY <2>1, FS_Interval
  <2>4. Cardinality(gone) <= j - 1
    BY <2>2, <2>3, FS_Subset
  <2> QED BY <1>4, <1>5, <2>1, <2>4
<1> QED BY <1>4, <1>5 DEF Landed, Since

LEMMA RoomAfterSending ==
  ASSUME KitTypeOK, NEW u \in KitUsers, transfers' = Append(transfers, Transfer(u)), held' = held,
         NEW s \in Nat, NEW t \in Tokens, Since(s), Room(s, t)
  PROVE  Since(s)' /\ Room(s, t)'
<1>1. Since(s)'
  BY Appended DEF Since
<1>2. Room(s, t)'
  BY Appended DEF Room
<1> QED BY <1>1, <1>2

(* A token is taken from the stock by a transfer that lands, and what was seen of
   the stock was seen before that. *)
LEMMA RoomAfterLanding ==
  ASSUME KitTypeOK, held \in [Tokens -> Nat], NEW i \in DOMAIN transfers, Lands(i),
         NEW s \in Nat, NEW t \in Tokens, Since(s), Room(s, t)
  PROVE  Since(s)' /\ Room(s, t)'
<1>1. Len(transfers) \in Nat /\ DOMAIN transfers = 1..Len(transfers)
  BY KitTyped
<1>2. transfers[i].state = "pending"
  BY DEF Lands
<1>3. Since(s)'
  <2>1. \A j \in DOMAIN transfers :
          transfers[j].state # "pending" => transfers'[j].state # "pending"
    BY LandsOne
  <2>2. Len(transfers') = Len(transfers)
    BY LandsOne
  <2> QED BY <1>1, <2>1, <2>2 DEF Since
<1>4. i > s
  BY <1>1, <1>2 DEF Since
<1>5. CASE \E j \in DOMAIN transfers : /\ j > s /\ transfers[j].token = t
                                       /\ transfers[j].state = "success"
  <2>1. PICK j \in DOMAIN transfers : /\ j > s /\ transfers[j].token = t
                                      /\ transfers[j].state = "success"
    BY <1>5
  <2>2. transfers'[j].state = "success" /\ transfers'[j].token = t /\ j \in DOMAIN transfers'
    BY <1>2, <2>1, LandsOne
  <2> QED BY <1>3, <2>1, <2>2 DEF Room
<1>6. CASE held[t] > 0 /\ transfers[i].token = t /\ transfers'[i].state = "success"
  <2>1. transfers'[i].token = t /\ i \in DOMAIN transfers'
    BY <1>6, LandsOne
  <2> QED BY <1>3, <1>4, <1>6, <2>1 DEF Room
<1>7. CASE held[t] > 0 /\ ~(transfers[i].token = t /\ transfers'[i].state = "success")
  <2>1. held'[t] = held[t]
    BY <1>7, LandsOne
  <2> QED BY <1>3, <1>7, <2>1 DEF Room
<1> QED BY <1>5, <1>6, <1>7 DEF Room

LEMMA LandsStayFit ==
  ASSUME KitTypeOK, held \in [Tokens -> Nat], LandFits, KitNext
  PROVE  LandFits'
<1>a. /\ Len(transfers) \in Nat /\ DOMAIN transfers = 1..Len(transfers)
      /\ transfers \in Seq(Moves) /\ grant \in [KitUsers -> Grants]
  BY KitTyped
<1>b. 1 \in Tokens /\ 2 \in Tokens /\ \A t \in Tokens : t = 1 \/ t = 2
  BY DEF Tokens
<1>c. \A v \in KitUsers : grant[v].seen \in Nat /\ grant[v].token \in Tokens
  BY <1>a DEF Grants
<1>d. \A i \in DOMAIN transfers : transfers[i].seen \in Nat /\ transfers[i].token \in Tokens
  BY KitMovesTyped
(* The grants that go on saw what they saw. *)
<1>e. ASSUME transfers' = transfers, held' = held,
             \A v \in KitUsers : \/ grant'[v].pc \notin {"sending", "receipt"}
                              \/ /\ grant[v].pc \in {"sending", "receipt"}
                                 /\ grant'[v].seen = grant[v].seen
      PROVE  LandFits'
  BY <1>e DEF LandFits, Since, Room
<1>1. ASSUME NEW u \in KitUsers, NEW ip \in Ips \cup {NoIp}, ClaimsKit(u, ip)
      PROVE  LandFits'
  BY <1>1, <1>a, <1>e DEF ClaimsKit, Over
<1>2. ASSUME NEW u \in KitUsers, ReadsBalances(u)
      PROVE  LandFits'
  <2>1. CASE Fails(u)
    BY <1>2, <1>e, <2>1, Failed DEF ReadsBalances, Over
  <2>2. CASE /\ \A t \in Tokens : held[t] > 0
             /\ grant' = [grant EXCEPT ![u] = [@ EXCEPT !.pc = "sending", !.seen = Landed]]
    <3>1. transfers' = transfers /\ held' = held
      BY <1>2 DEF ReadsBalances
    <3>2. grant'[u].seen = Landed /\ \A v \in KitUsers \ {u} : grant'[v] = grant[v]
      BY <1>a, <2>2 DEF Grants
    <3>3. Since(Landed) /\ Room(Landed, 1) /\ Room(Landed, 2)
      BY <1>b, <2>2, LandedFirst DEF Room
    <3>4. \A s : (Since(s) => Since(s)') /\ \A t : (Room(s, t) => Room(s, t)')
      BY <3>1 DEF Since, Room
    <3>5. \A v \in KitUsers : grant'[v].pc = "sending" \/ grant'[v].pc = "receipt" =>
            Since(grant'[v].seen) /\ Room(grant'[v].seen, 1) /\ Room(grant'[v].seen, 2)
      BY <3>2, <3>3 DEF LandFits
    <3> QED BY <3>1, <3>5 DEF LandFits, Since, Room
  <2> QED BY <1>2, <2>1, <2>2 DEF ReadsBalances
<1>3. ASSUME NEW u \in KitUsers, Sends(u) \/ SendThrows(u)
      PROVE  LandFits'
  <2>1. grant[u].pc = "sending" /\ held' = held
    BY <1>3 DEF Sends, SendThrows
  <2>2. \A v \in KitUsers : \/ grant'[v].pc \notin {"sending", "receipt"}
                         \/ /\ grant[v].pc \in {"sending", "receipt"}
                            /\ grant'[v].seen = grant[v].seen
    <3>1. CASE Fails(u)
      BY <3>1, Failed DEF Over
    <3>2. CASE grant' = [grant EXCEPT ![u] = [@ EXCEPT !.pc = "receipt", !.tx = Len(transfers) + 1]]
      BY <1>a, <2>1, <3>2 DEF Grants
    <3> QED BY <1>3, <3>1, <3>2 DEF Sends, SendThrows
  <2>3. CASE transfers' = transfers
    BY <1>e, <2>1, <2>2, <2>3
  <2>4. CASE transfers' = Append(transfers, Transfer(u))
    <3>1. /\ DOMAIN transfers' = DOMAIN transfers \cup {Len(transfers) + 1}
          /\ \A i \in DOMAIN transfers : transfers'[i] = transfers[i]
          /\ transfers'[Len(transfers) + 1] = Transfer(u)
      BY <2>4, Appended
    <3>2. ASSUME NEW s \in Nat, NEW t \in Tokens, Since(s), Room(s, t)
          PROVE  Since(s)' /\ Room(s, t)'
      BY <2>1, <2>4, <3>2, RoomAfterSending
    <3>3. \A i, j \in DOMAIN transfers' :
            i < j /\ transfers'[i].state = "pending" => transfers'[j].state = "pending"
      BY <1>a, <3>1 DEF LandFits, Transfer
    <3>4. \A v \in KitUsers : grant'[v].pc \in {"sending", "receipt"} =>
            /\ grant'[v].seen = grant[v].seen
            /\ Since(grant[v].seen) /\ Room(grant[v].seen, 1) /\ Room(grant[v].seen, 2)
      BY <2>2 DEF LandFits
    <3>5. \A v \in KitUsers : grant'[v].pc = "sending" \/ grant'[v].pc = "receipt" =>
            (Since(grant[v].seen) /\ Room(grant[v].seen, 1) /\ Room(grant[v].seen, 2))'
      <4> SUFFICES ASSUME NEW v \in KitUsers, grant'[v].pc \in {"sending", "receipt"},
                          NEW s \in Nat, s = grant[v].seen, grant'[v].seen = s
                   PROVE  Since(s)' /\ Room(s, 1)' /\ Room(s, 2)'
        BY <1>c, <3>4
      <4> QED BY <1>b, <3>2, <3>4
    <3>6. \A i \in DOMAIN transfers' : transfers'[i].state = "pending" =>
            (Since(transfers[i].seen) /\ Room(transfers[i].seen, transfers[i].token))'
      <4> SUFFICES ASSUME NEW i \in DOMAIN transfers', transfers'[i].state = "pending",
                          NEW s, s = transfers'[i].seen, NEW t, t = transfers'[i].token
                   PROVE  Since(s)' /\ Room(s, t)'
        OBVIOUS
      <4>1. CASE i \in DOMAIN transfers
        <5>1. s \in Nat /\ t \in Tokens /\ Since(s) /\ Room(s, t)
          BY <1>d, <3>1, <4>1 DEF LandFits
        <5> QED BY <3>2, <5>1
      <4>2. CASE i = Len(transfers) + 1
        <5>1. s = grant[u].seen /\ t = grant[u].token
          BY <3>1, <4>2 DEF Transfer
        <5>2. s \in Nat /\ t \in Tokens /\ Since(s) /\ Room(s, t)
          BY <1>b, <1>c, <2>1, <5>1 DEF LandFits
        <5> QED BY <3>2, <5>2
      <4> QED BY <3>1, <4>1, <4>2
    <3> QED BY <3>3, <3>5, <3>6 DEF LandFits
  <2> QED BY <1>3, <2>3, <2>4 DEF Sends, SendThrows
<1>4. ASSUME NEW u \in KitUsers, Receipt(u)
      PROVE  LandFits'
  <2>1. \A v \in KitUsers : \/ grant'[v].pc \notin {"sending", "receipt"}
                         \/ /\ grant[v].pc \in {"sending", "receipt"}
                            /\ grant'[v].seen = grant[v].seen
    <3>1. CASE Fails(u)
      BY <3>1, Failed DEF Over
    <3>2. CASE grant' = [grant EXCEPT ![u] = [@ EXCEPT !.pc = "sending", !.token = 2]]
      BY <1>4, <1>a, <3>2 DEF Receipt, Grants
    <3>3. CASE grant' = [grant EXCEPT ![u] = Over]
      BY <1>a, <3>3 DEF Over
    <3> QED BY <1>4, <3>1, <3>2, <3>3 DEF Receipt
  <2> QED BY <1>4, <1>e, <2>1 DEF Receipt
<1>5. ASSUME NEW i \in DOMAIN transfers, Lands(i)
      PROVE  LandFits'
  <2>1. ASSUME NEW s \in Nat, NEW t \in Tokens, Since(s), Room(s, t)
        PROVE  Since(s)' /\ Room(s, t)'
    BY <1>5, <2>1, RoomAfterLanding
  <2>2. /\ grant' = grant /\ DOMAIN transfers' = DOMAIN transfers
        /\ \A j \in DOMAIN transfers :
             /\ transfers'[j].seen = transfers[j].seen
             /\ transfers'[j].token = transfers[j].token
             /\ transfers'[j].state = "pending" <=> transfers[j].state = "pending" /\ j # i
    BY <1>5, LandsOne DEF Lands
  <2>3. \A j \in DOMAIN transfers : j < i => transfers[j].state # "pending"
    BY <1>5, <1>a DEF Lands
  <2>4. \A j, k \in DOMAIN transfers' :
          j < k /\ transfers'[j].state = "pending" => transfers'[k].state = "pending"
    BY <1>a, <2>2, <2>3 DEF LandFits
  <2>5. \A v \in KitUsers : grant'[v].pc = "sending" \/ grant'[v].pc = "receipt" =>
          (Since(grant[v].seen) /\ Room(grant[v].seen, 1) /\ Room(grant[v].seen, 2))'
    <3> SUFFICES ASSUME NEW v \in KitUsers, grant[v].pc = "sending" \/ grant[v].pc = "receipt",
                        NEW s \in Nat, s = grant[v].seen
                 PROVE  Since(s)' /\ Room(s, 1)' /\ Room(s, 2)'
      BY <1>c, <2>2
    <3> QED BY <1>b, <2>1 DEF LandFits
  <2>6. \A j \in DOMAIN transfers' : transfers'[j].state = "pending" =>
          (Since(transfers[j].seen) /\ Room(transfers[j].seen, transfers[j].token))'
    <3> SUFFICES ASSUME NEW j \in DOMAIN transfers, transfers[j].state = "pending",
                        NEW s \in Nat, s = transfers[j].seen,
                        NEW t \in Tokens, t = transfers[j].token
                 PROVE  Since(s)' /\ Room(s, t)'
      BY <1>d, <2>2
    <3> QED BY <2>1 DEF LandFits
  <2> QED BY <2>4, <2>5, <2>6 DEF LandFits
<1>6. ASSUME NextDay \/ Restarts
      PROVE  LandFits'
  <2>1. transfers' = transfers /\ held' = held
        /\ (grant' = grant \/ grant' = [v \in KitUsers |-> Over])
    BY <1>6 DEF NextDay, Restarts
  <2> QED BY <1>e, <2>1 DEF Over
<1> QED BY <1>1, <1>2, <1>3, <1>4, <1>5, <1>6 DEF KitNext

LEMMA ShortStaysShared ==
  ASSUME KitTypeOK, held \in [Tokens -> Nat], OnceFits, LandFits, ShortOnlyIfShared, KitNext
  PROVE  ShortOnlyIfShared'
<1>a. /\ Len(transfers) \in Nat /\ DOMAIN transfers = 1..Len(transfers)
      /\ \A i \in DOMAIN transfers : transfers[i].seen \in Nat /\ transfers[i].token \in Tokens
  BY KitTyped, KitMovesTyped
<1>1. ASSUME NEW u \in KitUsers, transfers' = Append(transfers, Transfer(u))
      PROVE  ShortOnlyIfShared'
  <2>1. /\ DOMAIN transfers' = DOMAIN transfers \cup {Len(transfers) + 1}
        /\ \A i \in DOMAIN transfers : transfers'[i] = transfers[i]
        /\ transfers'[Len(transfers) + 1].state = "pending"
    BY <1>1, Appended DEF Transfer
  <2>2. \A i \in DOMAIN transfers : \A j \in (transfers[i].seen + 1)..(i - 1) : j \in DOMAIN transfers
    BY <1>a
  <2> QED BY <2>1, <2>2 DEF ShortOnlyIfShared
<1>2. ASSUME NEW i \in DOMAIN transfers, Lands(i)
      PROVE  ShortOnlyIfShared'
  <2>1. /\ DOMAIN transfers' = DOMAIN transfers
        /\ \A j \in DOMAIN transfers :
             /\ transfers'[j].user = transfers[j].user /\ transfers'[j].seen = transfers[j].seen
             /\ transfers'[j].token = transfers[j].token
             /\ j # i => transfers'[j].state = transfers[j].state
        /\ transfers[i].state = "pending"
    BY <1>2, LandsOne DEF Lands
  <2>2. ASSUME NEW k \in DOMAIN transfers, transfers'[k].state = "short"
        PROVE  \E j \in (transfers[k].seen + 1)..(k - 1) :
                 /\ transfers[j].token = transfers[k].token /\ transfers[j].user # transfers[k].user
                 /\ transfers[j].state = "success"
    <3>1. CASE k # i
      BY <2>1, <2>2, <3>1 DEF ShortOnlyIfShared
    <3>2. CASE k = i
      <4>1. held[transfers[i].token] = 0
        BY <1>2, <2>2, <3>2, LandsOne
      <4>2. PICK j \in DOMAIN transfers :
              /\ j > transfers[i].seen /\ transfers[j].token = transfers[i].token
              /\ transfers[j].state = "success"
        BY <1>a, <2>1, <4>1 DEF LandFits, Room
      <4>3. j < i
        BY <1>a, <2>1, <4>2 DEF LandFits
      <4>4. transfers[j].user # transfers[i].user
        BY <1>a, <4>2, <4>3 DEF OnceFits
      <4>5. j \in (transfers[k].seen + 1)..(k - 1)
        BY <1>a, <3>2, <4>2, <4>3
      <4> QED BY <3>2, <4>2, <4>4, <4>5
    <3> QED BY <3>1, <3>2
  <2>3. \A k \in DOMAIN transfers : \A j \in (transfers[k].seen + 1)..(k - 1) : j \in DOMAIN transfers
    BY <1>a
  <2>4. \A j \in DOMAIN transfers : transfers[j].state = "success" => transfers'[j].state = "success"
    BY <2>1
  <2> QED BY <2>1, <2>2, <2>3, <2>4 DEF ShortOnlyIfShared
<1>3. CASE transfers' = transfers
  BY <1>3 DEF ShortOnlyIfShared
<1> QED BY <1>1, <1>2, <1>3 DEF KitNext, ClaimsKit, ReadsBalances, Sends, SendThrows, Receipt,
                                NextDay, Restarts

-------------------------------------------------------------------------------
LEMMA InvStarts ==
  ASSUME KitInit
  PROVE  KitInv
<1>1. KitTypeOK /\ held \in [Tokens -> Nat]
  BY KitAssumption DEF KitInit, KitTypeOK, NoKit, Over, Tokens
<1>2. transfers = <<>> /\ DOMAIN transfers = {}
  BY DEF KitInit
<1>3. KitsFit
  BY DEF KitInit, KitsFit, NoKit, Over
<1>4. GrantFits
  BY <1>2 DEF KitInit, GrantFits, GrantOK, NoKit, Over, Of
<1>5. OnceFits /\ ShortOnlyIfShared
  BY <1>2 DEF OnceFits, ShortOnlyIfShared
<1>6. LandFits
  BY <1>2 DEF KitInit, LandFits, Over
<1> QED BY <1>1, <1>3, <1>4, <1>5, <1>6 DEF KitInv

LEMMA InvIsKept ==
  ASSUME KitInv, [KitNext]_kitVars
  PROVE  KitInv'
<1>1. CASE KitNext
  BY <1>1, TypesHold, KitsStayFit, GrantsStayFit, OnceStaysFit, LandsStayFit, ShortStaysShared
     DEF KitInv
<1>2. CASE UNCHANGED kitVars
  <2>1. /\ kits' = kits /\ file' = file /\ grant' = grant /\ held' = held
        /\ transfers' = transfers /\ day' = day /\ restarts' = restarts
    BY <1>2 DEF kitVars
  <2>2. KitTypeOK' /\ KitsFit' /\ OnceFits' /\ ShortOnlyIfShared' /\ held' \in [Tokens -> Nat]
    BY <2>1 DEF KitInv, KitTypeOK, KitsFit, OnceFits, ShortOnlyIfShared
  <2>3. GrantFits' /\ LandFits'
    BY <2>1 DEF KitInv, GrantFits, GrantOK, LandFits, Of, Moved, Since, Room
  <2> QED BY <2>2, <2>3 DEF KitInv
<1> QED BY <1>1, <1>2

THEOREM KitInvHolds == KitSpec => []KitInv
<1>1. KitInit => KitInv
  BY InvStarts
<1>2. KitInv /\ [KitNext]_kitVars => KitInv'
  BY InvIsKept
<1> QED BY <1>1, <1>2, PTL DEF KitSpec

(* What no two transfers are of is sent at most once. *)
LEMMA SentOnce ==
  ASSUME OnceFits, NEW u \in KitUsers, NEW t \in Tokens
  PROVE  Cardinality(Of(u, t)) <= 1
<1>1. \A i, j \in Of(u, t) : i = j
  BY DEF OnceFits, Of
<1>2. CASE Of(u, t) = {}
  BY <1>2, FS_EmptySet
<1>3. CASE Of(u, t) # {}
  <2>1. PICK i \in Of(u, t) : TRUE
    BY <1>3
  <2>2. Of(u, t) = {i}
    BY <1>1, <2>1
  <2> QED BY <2>2, FS_Singleton
<1> QED BY <1>2, <1>3

(* Nobody is sent a kit's token twice, however often they register and whatever
   failed, was lost, was not saved or was interrupted; a kit that is sent moved
   both (starter-kit.service.ts:60); and half a kit, for want of tokens, takes
   another grant of the same moment: the transfer that cannot be paid lost its
   tokens to another user's that landed after its balances were read
   (starter-kit.service.ts:65). *)
THEOREM KitsAreSentOnce == KitSpec => []KitsAreOnce
<1>1. KitInv => TokensGoOnce
  <2> SUFFICES ASSUME KitInv, NEW u \in KitUsers
               PROVE  /\ \A t \in Tokens : Cardinality(Of(u, t)) <= 1
                      /\ kits[u].status = "sent" =>
                           \A t \in Tokens : \E i \in Of(u, t) : transfers[i].state = "success"
    BY DEF TokensGoOnce
  <2>1. \A t \in Tokens : Cardinality(Of(u, t)) <= 1
    BY SentOnce DEF KitInv
  <2>2. GrantOK(u) /\ \A t \in Tokens : t = 1 \/ t = 2
    BY DEF KitInv, GrantFits, Tokens
  <2> QED BY <2>1, <2>2 DEF GrantOK, Moved
<1>2. KitInv => KitsAreOnce
  BY <1>1 DEF KitInv, KitsAreOnce
<1> QED BY <1>2, KitInvHolds, PTL
===============================================================================
