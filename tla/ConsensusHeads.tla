---------------------------- MODULE ConsensusHeads ----------------------------
(***************************************************************************)
(* How far the blocks of Monad are committed: ConsensusService              *)
(* (services/api/src/chain/consensus.service.ts).  A socket pushes every    *)
(* move of every block, under the block's consensus id; while it is not     *)
(* open, three tags are polled over HTTP, which name blocks by their hash.  *)
(* Both are folded into one record a height.  The chain, which may replace  *)
(* its tip until it is final, is external.                                  *)
(***************************************************************************)
EXTENDS Naturals, FiniteSets, FiniteSetsExt, SequencesExt

CONSTANTS
  MaxHeight,      \* bound: the chain's heights
  MaxBlocks,      \* bound: the blocks there ever are
  LastState,      \* bound: how far a block gets
  MaxPushes,      \* bound: pushes on their way
  WindowSize,     \* `windowSize`
  MaxTimers,      \* bound: poll timers that are set
  MaxFlaps,       \* bound: sockets that end
  Disorder        \* whether pushes may be taken out of order

HeadsAssumption ==
  /\ {MaxHeight, MaxBlocks, MaxPushes, WindowSize, MaxTimers, MaxFlaps} \subseteq Nat \ {0}
  /\ LastState \in 1..4 /\ Disorder \in BOOLEAN

VARIABLES
  chain,       \* of each height, the furthest state of each block that held it: external
  socket,      \* "none", "opening", "open"; and the node's subscription: external
  wire,        \* the pushes on their way
  reconnects,  \* whether the reconnect timer is set
  timers,      \* the poll timers that are set, and whether `pollTimer` is one of them
  poll,        \* the readings of the poll under way
  blocks,      \* the records
  reorged,     \* the heights a reorg was told of
  stopped, flaps

headVars == <<chain, socket, wire, reconnects, timers, poll, blocks, reorged, stopped, flaps>>

-------------------------------------------------------------------------------
Heights == 1..MaxHeight
Proposed  == 1
Voted     == 2
Finalized == 3
Verified  == 4

NoRecord == [blockId |-> 0, blockHash |-> 0, state |-> 0]
Tags     == {"latest", "safe", "finalized"}
StateOfTag == [latest |-> Proposed, safe |-> Voted, finalized |-> Finalized]
Unread   == [h |-> 0, block |-> 0]
Missing  == [h |-> 0, block |-> 1]
NoPoll   == [on |-> FALSE, got |-> [t \in Tags |-> Unread]]

HeadsTypeOK ==
  /\ chain \in [Heights -> Seq(Proposed..Verified)] /\ \A h \in Heights : Len(chain[h]) <= MaxBlocks
  /\ socket \in [is : {"none", "opening", "open"}, subscribed : BOOLEAN]
  /\ wire \in Seq([h : Heights, block : 1..MaxBlocks, state : Proposed..Verified])
  /\ timers \in [set : 0..MaxTimers, kept : BOOLEAN] /\ (timers.kept => timers.set > 0)
  /\ poll \in [on : BOOLEAN, got : [Tags -> [h : 0..MaxHeight, block : 0..MaxBlocks]]]
  /\ blocks \in [Heights -> [blockId : 0..MaxBlocks, blockHash : 0..MaxBlocks, state : 0..Verified]]
  /\ reorged \subseteq Heights /\ {reconnects, stopped} \subseteq BOOLEAN /\ flaps \in 0..MaxFlaps

(* `start`: it polls until the socket is open. *)
HeadsInit ==
  /\ chain = [h \in Heights |-> <<>>] /\ socket = [is |-> "opening", subscribed |-> FALSE]
  /\ wire = <<>> /\ reconnects = FALSE /\ timers = [set |-> 1, kept |-> TRUE] /\ poll = NoPoll
  /\ blocks = [h \in Heights |-> NoRecord] /\ reorged = {} /\ stopped = FALSE /\ flaps = 0

-------------------------------------------------------------------------------
(* The chain: a block more, a block further, or another block at the tip. *)
Ever == Cardinality({b \in Heights \X (1..MaxBlocks) : b[2] \in DOMAIN chain[b[1]]})
Tip == Max({h \in Heights : chain[h] # <<>>} \cup {0})

Pushes(h, block, state) ==
  /\ Len(wire) < MaxPushes
  /\ wire' = IF socket.subscribed THEN Append(wire, [h |-> h, block |-> block, state |-> state]) ELSE wire

Grows ==
  LET h == Tip + 1
  IN /\ h \in Heights /\ Ever < MaxBlocks /\ chain' = [chain EXCEPT ![h] = <<Proposed>>] /\ Pushes(h, 1, Proposed)
     /\ UNCHANGED <<socket, reconnects, timers, poll, blocks, reorged, stopped, flaps>>

Advances(h) ==
  LET n == Len(chain[h])
  IN /\ n > 0
     /\ \E state \in {s \in Voted..LastState : s > chain[h][n] /\ (s = chain[h][n] + 1 \/ s = Finalized)} :
          /\ h > 1 /\ state >= Finalized => Last(chain[h - 1]) >= Finalized
          /\ chain' = [chain EXCEPT ![h][n] = state] /\ Pushes(h, n, state)
     /\ UNCHANGED <<socket, reconnects, timers, poll, blocks, reorged, stopped, flaps>>

Replaces ==
  LET h == Tip
  IN /\ h > 0 /\ Last(chain[h]) < Finalized /\ Ever < MaxBlocks
     /\ chain' = [chain EXCEPT ![h] = Append(@, Proposed)]
     /\ Pushes(h, Len(chain[h]) + 1, Proposed)
     /\ UNCHANGED <<socket, reconnects, timers, poll, blocks, reorged, stopped, flaps>>

-------------------------------------------------------------------------------
(* `apply`: a reorg is told between two ids of one source. *)
Known == [blocks |-> blocks, reorged |-> reorged]

(* Mutant of Held: the ids of the two sources are compared. *)
HeldOfEither(record, source) ==
  LET own   == IF source = "socket" THEN record.blockId ELSE record.blockHash
      other == IF source = "socket" THEN record.blockHash ELSE record.blockId
  IN IF own # 0 \/ other = 0 THEN own ELSE MaxBlocks + other

Held(record, source) == IF source = "socket" THEN record.blockId ELSE record.blockHash

Named(record, source, block) ==
  IF source = "socket" THEN [record EXCEPT !.blockId = block] ELSE [record EXCEPT !.blockHash = block]

Kept(records) == {h \in Heights : records[h] # NoRecord}

Prune(records) ==
  IF Cardinality(Kept(records)) <= WindowSize THEN records
  ELSE [records EXCEPT ![Min(Kept(records))] = NoRecord]

Apply(known, source, h, block, state) ==
  LET old     == known.blocks[h]
      gone    == Held(old, source) \notin {0, block}
      further == IF state > old.state THEN [old EXCEPT !.state = state] ELSE old
      new     == IF gone \/ old = NoRecord THEN [NoRecord EXCEPT !.state = state] ELSE further
  IN [blocks  |-> Prune([known.blocks EXCEPT ![h] = Named(new, source, block)]),
      reorged |-> IF gone THEN known.reorged \cup {h} ELSE known.reorged]

Folds(known) == blocks' = known.blocks /\ reorged' = known.reorged

-------------------------------------------------------------------------------
(* The poll timer. *)

(* `setTimer`, which `pollTimer` then is. *)
Sets(more) == timers.set + more <= MaxTimers

(* `startPolling` and `stopPolling`. *)
StartPolling == IF stopped \/ timers.kept THEN timers ELSE [set |-> timers.set + 1, kept |-> TRUE]
StopPolling  == IF timers.kept THEN [set |-> timers.set - 1, kept |-> FALSE] ELSE timers

(* `tick`: not if the socket is open by now, and never two polls at once; a tick
   that finds one under way sets its timer again all the same. *)
Ticks ==
  LET rest == [set |-> timers.set - 1, kept |-> FALSE]
  IN /\ timers.set > 0
     /\ IF stopped \/ socket.is = "open" THEN timers' = rest /\ UNCHANGED poll
        ELSE IF poll.on THEN timers' = [set |-> timers.set, kept |-> TRUE] /\ UNCHANGED poll
        ELSE timers' = rest /\ poll' = [NoPoll EXCEPT !.on = TRUE]
     /\ UNCHANGED <<chain, socket, wire, reconnects, blocks, reorged, stopped, flaps>>

(* The block a tag stands for when it is read. *)
TagHeight(t) ==
  Max({h \in Heights : chain[h] # <<>> /\ Last(chain[h]) >= StateOfTag[t]} \cup {0})

ReadsTag(t) ==
  /\ poll.on /\ poll.got[t] = Unread
  /\ \E got \in {Missing} \cup
       (IF TagHeight(t) = 0 THEN {} ELSE {[h |-> TagHeight(t), block |-> Len(chain[TagHeight(t)])]}) :
       poll' = [poll EXCEPT !.got[t] = got]
  /\ UNCHANGED <<chain, socket, wire, reconnects, timers, blocks, reorged, stopped, flaps>>

(* The reading of a tag is applied, unless it failed. *)
ReadingTaken(t, known) ==
  IF poll.got[t] = Missing THEN known
  ELSE Apply(known, "http", poll.got[t].h, poll.got[t].block, StateOfTag[t])

AppliesPoll ==
  /\ poll.on /\ \A t \in Tags : poll.got[t] # Unread
  /\ Folds(ReadingTaken("finalized", ReadingTaken("safe", ReadingTaken("latest", Known))))
  /\ poll' = NoPoll
  /\ IF stopped \/ socket.is = "open" THEN UNCHANGED timers
     ELSE Sets(1) /\ timers' = [set |-> timers.set + 1, kept |-> TRUE]
  /\ UNCHANGED <<chain, socket, wire, reconnects, stopped, flaps>>

-------------------------------------------------------------------------------
(* The socket. *)
SocketOpens ==
  /\ socket.is = "opening" /\ ~stopped
  /\ socket' = [socket EXCEPT !.is = "open"] /\ timers' = StopPolling
  /\ UNCHANGED <<chain, wire, reconnects, poll, blocks, reorged, stopped, flaps>>

SocketSubscribes ==
  /\ socket.is = "open" /\ ~socket.subscribed
  /\ socket' = [socket EXCEPT !.subscribed = TRUE]
  /\ UNCHANGED <<chain, wire, reconnects, timers, poll, blocks, reorged, stopped, flaps>>

TakesPush ==
  /\ socket.is = "open" /\ wire # <<>>
  /\ \E i \in IF Disorder THEN DOMAIN wire ELSE {1} :
       /\ Folds(Apply(Known, "socket", wire[i].h, wire[i].block, wire[i].state))
       /\ wire' = RemoveAt(wire, i)
  /\ UNCHANGED <<chain, socket, reconnects, timers, poll, stopped, flaps>>

(* Closed, failed, or refused its subscription: `ended`. *)
Ends ==
  /\ socket.is # "none" /\ flaps < MaxFlaps /\ flaps' = flaps + 1 /\ ~stopped
  /\ timers.kept \/ Sets(1)
  /\ socket' = [is |-> "none", subscribed |-> FALSE] /\ wire' = <<>>
  /\ timers' = StartPolling /\ reconnects' = TRUE
  /\ UNCHANGED <<chain, poll, blocks, reorged, stopped>>

(* A connection that cannot even be tried is scheduled again. *)
SocketReconnects ==
  /\ reconnects /\ ~stopped
  /\ \/ socket' = [is |-> "opening", subscribed |-> FALSE] /\ reconnects' = FALSE /\ UNCHANGED flaps
     \/ flaps < MaxFlaps /\ flaps' = flaps + 1 /\ UNCHANGED <<socket, reconnects>>
  /\ UNCHANGED <<chain, wire, timers, poll, blocks, reorged, stopped>>

Stops ==
  /\ ~stopped /\ stopped' = TRUE /\ reconnects' = FALSE /\ timers' = StopPolling
  /\ socket' = [is |-> "none", subscribed |-> FALSE] /\ wire' = <<>>
  /\ UNCHANGED <<chain, poll, blocks, reorged, flaps>>

HeadsNext ==
  \/ Grows \/ Replaces \/ \E h \in Heights : Advances(h)
  \/ Ticks \/ AppliesPoll \/ \E t \in Tags : ReadsTag(t)
  \/ SocketOpens \/ SocketSubscribes \/ TakesPush \/ Ends \/ SocketReconnects \/ Stops

HeadsSpec == HeadsInit /\ [][HeadsNext]_headVars

-------------------------------------------------------------------------------
(* A reorg is told of a height that another block really took, however the two
   sources take turns (consensus.service.ts:538).  A record whose two ids name
   different blocks, which a poll begun before a reorg leaves behind, is told of
   late, or twice; never one that stood. *)
ReorgsAreReal == \A h \in reorged : Len(chain[h]) > 1

(* A block is never said to be further than it, or the one it was taken for, is;
   and `Verified` is not said of a block no push named. *)
StatesWereReached ==
  \A h \in Kept(blocks) :
    LET record == blocks[h]
        named  == {record.blockId, record.blockHash} \ {0}
    IN /\ named # {} /\ \E b \in named : record.state <= chain[h][b]
       /\ record.blockId = 0 => record.state < Verified

(* As long as the socket is not open a poll is under way or will be; none begins
   once the service stopped (consensus.service.ts:405). *)
NeverWithoutASource ==
  IF stopped THEN reconnects = FALSE /\ socket.is = "none"
  ELSE /\ socket.is # "open" => poll.on \/ timers.set > 0
       /\ socket.is = "none" => reconnects

WindowIsKept == Cardinality(Kept(blocks)) <= WindowSize

(* What is told of the heads is true, and until the service stops a socket or a
   poll is at work. *)
HeadsAreTrue == HeadsTypeOK /\ ReorgsAreReal /\ StatesWereReached /\ NeverWithoutASource /\ WindowIsKept
===============================================================================
