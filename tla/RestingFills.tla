----------------------------- MODULE RestingFills -----------------------------
(***************************************************************************)
(* The watcher of resting Kuru orders:                                     *)
(* services/api/src/agents/fills/resting-fill.watcher.ts and the reading   *)
(* of an agent's log it rests on, fills/resting-orders.ts.                 *)
(*                                                                         *)
(* An order rests on the book until it is filled, a unit at a time, or     *)
(* cancelled; each poll reads the blocks it has not read yet and appends   *)
(* to the agent's log what its orders filled.  Time is counted in blocks.  *)
(* The chain is external; so is the gate, which places and cancels orders  *)
(* under the agent's write lock and then logs them.                        *)
(***************************************************************************)
EXTENDS Integers, Sequences, FiniteSets, FiniteSetsExt, Functions

CONSTANTS
  Traders,        \* the agents with orders
  Orders, OwnerOf, MarketOf,
  SizeOf,         \* units of an order that rest on the book
  Confirmations,  \* blocks below the head left unread
  MaxBlockRange, MaxRangesPerPoll, LookbackBlocks, MaxSightings,
  NoBlock, NoTrader, NoMarket,
  MaxBlock,       \* bound: the last block; no fill lands too late to be confirmed
  MaxRestarts,    \* bound: how often the process restarts
  Faults          \* "read": the RPC refuses a head or a range; "account": an
                  \* account id; "unwritten": the disk refuses an event, which
                  \* is in memory alone; "unplaced": a placement names no block

FillAssumption ==
  /\ OwnerOf \in [Orders -> Traders] /\ DOMAIN MarketOf = Orders
  /\ NoTrader \notin Traders /\ NoMarket \notin Range(MarketOf) /\ NoBlock \notin Int
  /\ SizeOf \in [Orders -> Nat \ {0}]
  /\ {Confirmations, MaxBlockRange, MaxRangesPerPoll, MaxSightings} \subseteq Nat \ {0}
  /\ {LookbackBlocks, MaxBlock, MaxRestarts} \subseteq Nat
  /\ Faults \subseteq {"read", "account", "unwritten", "unplaced"}

VARIABLES
  head,      \* the chain's newest block
  book,      \* what the chain holds of each order: state, block, units left
  trades,    \* every fill of a maker, in the chain's order: its tradeKey is its index
  writing,   \* the order the gate is writing about, of each agent whose lock it holds
  fillLog,   \* the events of each agent the watcher reads or writes, and whether each is on disk
  cursors,   \* #cursors: the next block to read, of some orders
  readTo,    \* #readTo: the highest block read, of some markets
  sightings, \* #heads: a head, and the orders whose cancel had been logged by then
  accounts,  \* #accounts: the agents whose account id is known
  poll,
  restarts

chain     == <<head, book, trades>>
memory    == <<cursors, readTo, sightings, accounts>>
fillsVars == <<chain, writing, fillLog, memory, poll, restarts>>

-------------------------------------------------------------------------------
Markets  == Range(MarketOf)
MaxUnits == Max(Range(SizeOf))

Resting(o) == book[o].state = "resting"

IdlePoll == [pc |-> "idle", todo |-> {}, watched |-> {}, safe |-> 0, markets |-> {},
             found |-> {}, trader |-> NoTrader]

(* An event as the log has it: on disk, or, when the disk refuses it, in memory alone. *)
EventsOf(kind, o, block, left, trade) ==
  [kind : {kind}, order : {o}, block : {block}, left : {left}, trade : {trade},
   disk : {TRUE} \cup (IF "unwritten" \in Faults THEN {FALSE} ELSE {})]

(* A sighting is dated by the cancels logged before it (`seen.at >= cancelledAt`). *)
Cancelled(o) == \E i \in DOMAIN fillLog[OwnerOf[o]] : /\ fillLog[OwnerOf[o]][i].order = o
                                                      /\ fillLog[OwnerOf[o]][i].kind = "cancel"
CancelledNow == {o \in Orders : Cancelled(o)}

FillsTypeOK ==
  /\ head \in 0..MaxBlock
  /\ book \in [Orders -> [state : {"none", "resting", "cancelled", "filled"},
                          block : 0..MaxBlock, left : 0..MaxUnits]]
  /\ trades \in Seq([order : Orders, block : 0..MaxBlock, left : 0..MaxUnits])
  /\ writing \in [Traders -> SUBSET Orders]
  /\ fillLog \in [Traders ->
       Seq([kind : {"order", "cancel", "fill"}, order : Orders, block : 0..MaxBlock \cup {NoBlock},
            left : 0..MaxUnits, trade : Nat, disk : BOOLEAN])]
  /\ DOMAIN cursors \subseteq Orders /\ \A o \in DOMAIN cursors : cursors[o] \in 0..(MaxBlock + 1)
  /\ DOMAIN readTo \subseteq Markets /\ \A m \in DOMAIN readTo : readTo[m] \in Int
  /\ sightings \in Seq([after : SUBSET Orders, block : 0..MaxBlock])
  /\ accounts \subseteq Traders
  /\ poll \in [pc : {"idle", "watching", "reading", "recording"}, todo : SUBSET Traders,
               watched : SUBSET Orders, safe : Int, markets : SUBSET Markets,
               found : SUBSET (DOMAIN trades), trader : Traders \cup {NoTrader}]
  /\ restarts \in 0..MaxRestarts

Init ==
  /\ head = 0
  /\ book = [o \in Orders |-> [state |-> "none", block |-> 0, left |-> SizeOf[o]]]
  /\ trades = <<>>
  /\ writing = [a \in Traders |-> {}]
  /\ fillLog = [a \in Traders |-> <<>>]
  /\ cursors = <<>> /\ readTo = <<>> /\ sightings = <<>> /\ accounts = {}
  /\ poll = IdlePoll
  /\ restarts = 0

-------------------------------------------------------------------------------
(* The chain, and the gate. *)

NextBlock == /\ head < MaxBlock
             /\ head' = head + 1
             /\ UNCHANGED <<book, trades, writing, fillLog, memory, poll, restarts>>

(* A taker hits a resting order. *)
Fills(o) ==
  /\ Resting(o) /\ head + Confirmations <= MaxBlock
  /\ LET left == book[o].left - 1
     IN /\ book' = [book EXCEPT ![o].left = left, ![o].state = IF left = 0 THEN "filled" ELSE @]
        /\ trades' = Append(trades, [order |-> o, block |-> head, left |-> left])
  /\ UNCHANGED <<head, writing, fillLog, memory, poll, restarts>>

(* `place_limit` lands, the write lock held; its order event is yet to come. *)
Places(o) ==
  LET a == OwnerOf[o]
  IN /\ book[o].state = "none" /\ writing[a] = {} /\ poll.trader # a
     /\ book' = [book EXCEPT ![o].state = "resting", ![o].block = head]
     /\ writing' = [writing EXCEPT ![a] = {o}]
     /\ UNCHANGED <<head, trades, fillLog, memory, poll, restarts>>

Cancels(o) ==
  LET a == OwnerOf[o]
  IN /\ Resting(o) /\ writing[a] = {} /\ poll.trader # a
     /\ book' = [book EXCEPT ![o].state = "cancelled"]
     /\ writing' = [writing EXCEPT ![a] = {o}]
     /\ UNCHANGED <<head, trades, fillLog, memory, poll, restarts>>

Blocks(o) == IF "unplaced" \in Faults THEN {book[o].block, NoBlock} ELSE {book[o].block}

Logs(o) ==
  LET a == OwnerOf[o]
  IN /\ o \in writing[a]
     /\ \E b \in Blocks(o) : \E e \in EventsOf(IF book[o].state = "cancelled" THEN "cancel" ELSE "order", o, b, 0, 0) :
          fillLog' = [fillLog EXCEPT ![a] = Append(@, e)]
     /\ writing' = [writing EXCEPT ![a] = {}]
     /\ UNCHANGED <<chain, memory, poll, restarts>>

-------------------------------------------------------------------------------
(* `restingKuruOrders`: what an agent's log says of its orders. *)

Events(o, kind) == LET log == fillLog[OwnerOf[o]]
                   IN {i \in DOMAIN log : log[i].order = o /\ log[i].kind = kind}

EventAt(o, i) == fillLog[OwnerOf[o]][i]

Recorded(a) == {fillLog[a][i].trade : i \in {k \in DOMAIN fillLog[a] : fillLog[a][k].kind = "fill"}}

(* It may still fill: it was rested, its fills do not add up to its size, and
   none left nothing on the book. *)
Open(o) == /\ Events(o, "order") # {}
           /\ Cardinality(Events(o, "fill")) < SizeOf[o]
           /\ \A i \in Events(o, "fill") : EventAt(o, i).left # 0

PlacedAt(o) == EventAt(o, Min(Events(o, "order"))).block

(* Mutant of FromBlock: after the block of the last recorded, as if a block held
   one fill of an order. *)
FromBlockAfter(o) == IF Events(o, "fill") # {} THEN EventAt(o, Max(Events(o, "fill"))).block + 1
                     ELSE PlacedAt(o)

(* Where a scan for its fills starts: at the last recorded, else where it was placed. *)
FromBlock(o) == IF Events(o, "fill") # {} THEN EventAt(o, Max(Events(o, "fill"))).block
                ELSE PlacedAt(o)

(* `#readPastCancel`: a head seen after the cancel has been read up to. *)
ReadPastCancel(o) ==
  /\ Cancelled(o) /\ MarketOf[o] \in DOMAIN readTo
  /\ \E k \in DOMAIN sightings : /\ o \in sightings[k].after
                                 /\ sightings[k].block <= readTo[MarketOf[o]]

Watched(a) == {o \in Orders : OwnerOf[o] = a /\ Open(o) /\ ~ReadPastCancel(o)}

-------------------------------------------------------------------------------
(* A poll. *)

Starts == /\ poll.pc = "idle"
          /\ poll' = [IdlePoll EXCEPT !.pc = "watching", !.todo = Traders]
          /\ UNCHANGED <<chain, writing, fillLog, memory, restarts>>

(* `#watched`: an agent's orders, if it has any and its account id is known
   or can be read. *)
Looks(a) ==
  /\ poll.pc = "watching" /\ a \in poll.todo
  /\ \E read \in {TRUE} \cup (IF "account" \in Faults /\ a \notin accounts THEN {FALSE} ELSE {}) :
       LET orders == IF read THEN Watched(a) ELSE {}
       IN /\ poll' = [poll EXCEPT !.todo = @ \ {a}, !.watched = @ \cup orders]
          /\ accounts' = IF orders = {} THEN accounts ELSE accounts \cup {a}
  /\ UNCHANGED <<chain, writing, fillLog, cursors, readTo, sightings, restarts>>

(* The cursors of what is no longer watched go, and the head is seen. *)
SeesHead ==
  /\ poll.pc = "watching" /\ poll.todo = {}
  /\ cursors' = Restrict(cursors, poll.watched \cap DOMAIN cursors)
  /\ IF poll.watched = {} THEN poll' = IdlePoll /\ UNCHANGED sightings
     ELSE LET seen == Append(sightings, [after |-> CancelledNow, block |-> head])
          IN /\ sightings' = IF Len(seen) > MaxSightings THEN Tail(seen) ELSE seen
             /\ poll' = [poll EXCEPT !.pc = "reading", !.safe = head - Confirmations,
                                     !.markets = {MarketOf[o] : o \in poll.watched}]
  /\ UNCHANGED <<chain, writing, fillLog, readTo, accounts, restarts>>

HeadFails ==
  /\ "read" \in Faults
  /\ poll.pc = "watching" /\ poll.todo = {} /\ poll.watched # {}
  /\ cursors' = Restrict(cursors, poll.watched \cap DOMAIN cursors)
  /\ poll' = IdlePoll
  /\ UNCHANGED <<chain, writing, fillLog, readTo, sightings, accounts, restarts>>

(* `#cursorOf` *)
CursorOf(o) == IF o \in DOMAIN cursors THEN cursors[o]
               ELSE IF FromBlock(o) # NoBlock THEN FromBlock(o)
               ELSE Max({poll.safe - LookbackBlocks, 0})

Found(list, from, to) ==
  {i \in DOMAIN trades : trades[i].order \in list /\ trades[i].block \in from..to}

(* `#readMarket`: from the oldest cursor, some ranges of blocks, until one fails. *)
ReadsMarket(m, ranges) ==
  /\ poll.pc = "reading" /\ m \in poll.markets
  /\ LET list    == {o \in poll.watched : MarketOf[o] = m}
         from    == Min({CursorOf(o) : o \in list})
         to      == Min({from - 1 + ranges * MaxBlockRange, poll.safe})
         idle    == from > poll.safe
         seen    == IF m \in DOMAIN readTo THEN Max({readTo[m], to}) ELSE to
         next(o) == IF idle THEN CursorOf(o) ELSE Max({CursorOf(o), to + 1})
     IN /\ ranges < MaxRangesPerPoll => "read" \in Faults /\ ~idle
        /\ cursors' = [o \in DOMAIN cursors \cup list |->
                         IF o \in list THEN next(o) ELSE cursors[o]]
        /\ readTo' = IF idle THEN readTo ELSE [k \in DOMAIN readTo \cup {m} |->
                                                 IF k = m THEN seen ELSE readTo[k]]
        /\ poll' = [poll EXCEPT !.markets = @ \ {m},
                                !.found = IF idle THEN @ ELSE @ \cup Found(list, from, to)]
  /\ UNCHANGED <<chain, writing, fillLog, sightings, accounts, restarts>>

OwnedBy(a) == {i \in poll.found : OwnerOf[trades[i].order] = a}

(* Done with an agent: the next has its turn, or the poll ends. *)
DoneWith(a) == poll' = IF poll.found \subseteq OwnedBy(a) THEN IdlePoll
                       ELSE [poll EXCEPT !.found = @ \ OwnedBy(a), !.trader = NoTrader]

NothingFound == /\ poll.pc = "reading" /\ poll.markets = {} /\ poll.found = {}
                /\ poll' = IdlePoll
                /\ UNCHANGED <<chain, writing, fillLog, memory, restarts>>

(* `writeLock.run`: once the gate's writes for this agent are done. *)
TakesLock(a) ==
  /\ poll.pc \in {"reading", "recording"} /\ poll.markets = {} /\ poll.trader = NoTrader
  /\ OwnedBy(a) # {} /\ writing[a] = {}
  /\ poll' = [poll EXCEPT !.pc = "recording", !.trader = a]
  /\ UNCHANGED <<chain, writing, fillLog, memory, restarts>>

(* `#record`: the fills the log does not hold yet, the oldest first. *)
Fresh(a) == OwnedBy(a) \ Recorded(a)

Records(a) ==
  /\ poll.trader = a /\ Fresh(a) # {}
  /\ LET i == Min(Fresh(a))
     IN /\ \E e \in EventsOf("fill", trades[i].order, trades[i].block, trades[i].left, i) :
             fillLog' = [fillLog EXCEPT ![a] = Append(@, e)]
        /\ poll' = [poll EXCEPT !.found = @ \ {i}]
  /\ UNCHANGED <<chain, writing, memory, restarts>>

RecordedAll(a) ==
  /\ poll.trader = a /\ Fresh(a) = {}
  /\ DoneWith(a)
  /\ UNCHANGED <<chain, writing, fillLog, memory, restarts>>

(* The process restarts with nothing but what is on disk of the logs; a write
   of the gate's that landed is not logged. *)
Restart ==
  /\ restarts < MaxRestarts
  /\ restarts' = restarts + 1
  /\ cursors' = <<>> /\ readTo' = <<>> /\ sightings' = <<>> /\ accounts' = {}
  /\ poll' = IdlePoll
  /\ writing' = [a \in Traders |-> {}]
  /\ fillLog' = [a \in Traders |-> SelectSeq(fillLog[a], LAMBDA e : e.disk)]
  /\ UNCHANGED chain

-------------------------------------------------------------------------------
ReadsAny(m) == \E ranges \in 0..MaxRangesPerPoll : ReadsMarket(m, ranges)

RecordStep(a) == TakesLock(a) \/ Records(a) \/ RecordedAll(a)

Next ==
  \/ NextBlock \/ Restart
  \/ \E o \in Orders : Fills(o) \/ Places(o) \/ Cancels(o) \/ Logs(o)
  \/ Starts \/ SeesHead \/ HeadFails \/ NothingFound
  \/ \E a \in Traders : Looks(a) \/ RecordStep(a)
  \/ \E m \in Markets : ReadsAny(m)

Spec == Init /\ [][Next]_fillsVars

(* Blocks are produced; the timer starts a poll again and again, and what a
   poll waits for answers: the RPC now and then with success; the gate logs
   what it wrote and gives the lock back. *)
Fairness ==
  /\ WF_fillsVars(NextBlock) /\ WF_fillsVars(Starts)
  /\ SF_fillsVars(SeesHead) /\ WF_fillsVars(NothingFound)
  /\ \A o \in Orders : WF_fillsVars(Logs(o))
  /\ \A a \in Traders : WF_fillsVars(Looks(a)) /\ SF_fillsVars(RecordStep(a))
  /\ \A m \in Markets : WF_fillsVars(ReadsAny(m)) /\ SF_fillsVars(ReadsMarket(m, MaxRangesPerPoll))

FairSpec == Spec /\ Fairness

-------------------------------------------------------------------------------
(* Safety. *)

(* The fills of the orders an agent's log knows of, and of which a placement
   named its block; and those the log has not. *)
Known(a) == {i \in DOMAIN trades : /\ OwnerOf[trades[i].order] = a
                                   /\ Events(trades[i].order, "order") # {}
                                   /\ PlacedAt(trades[i].order) # NoBlock}

Missing(a) == Known(a) \ Recorded(a)

(* However often blocks are read again, after a failed range, a restart or for
   an older order of the market, a fill is on the log at most once
   (resting-fill.watcher.ts:20, "IDEMPOTENT by construction"). *)
RecordedOnce ==
  \A a \in Traders : \A i, k \in DOMAIN fillLog[a] :
    fillLog[a][i].kind = "fill" /\ fillLog[a][i].trade = fillLog[a][k].trade => i = k

(* What the log misses is in the poll's hands, or still ahead of the order's
   cursor, and the order is still watched: a cancelled one until the blocks
   before its cancel were read for it (resting-fill.watcher.ts:28). *)
UnreadIsWatched ==
  \A a \in Traders : \A i \in Missing(a) \ poll.found :
    LET o == trades[i].order
    IN /\ o \in DOMAIN cursors => cursors[o] <= trades[i].block
       /\ ~ReadPastCancel(o)

-------------------------------------------------------------------------------
(* Liveness. *)

(* Every fill of a watched order deep enough to be read is on the log in the
   end, whatever failed or restarted on the way, cancelled or not. *)
FillsAreRecorded ==
  \A a \in Traders, i \in 1..(MaxUnits * Cardinality(Orders)) :
    i \in Known(a) ~> i \in Recorded(a)
===============================================================================
