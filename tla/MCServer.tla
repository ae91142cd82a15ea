------------------------------ MODULE MCServer ------------------------------
(* One server process.  What it keeps for everybody: the lock on its directory
   (StateDirLock), the sends of its agents' wallets (AgentWallet), the order
   books it reads (PerplBookFeed), the sessions it answers (SignIn), the heads
   it follows (ConsensusHeads) and the deposits it is told of (DepositWebhook).
   And an agent at work in it: the scheduler that starts its runs
   (AgentScheduler), the watchers that wake it (Watchers), what goes on in its
   runs and beside them (AgentRun), what its resting orders fill meanwhile
   (RestingFills), and the log all of them write (EventLog).  They are checked
   side by side: they share no state, a behaviour takes one of the parts, and the
   variables of the others stay what they were. *)
EXTENDS StateDirLock, AgentWallet, PerplBookFeed, SignIn, ConsensusHeads, DepositWebhook,
        Watchers, TLC

CONSTANTS
  d1, k1, r1, r2, r3, t1, t2, t3, g1, g2, a1, c1, c2, j1, m1, o1, o2, NoBlock, NoTime

VARIABLES
  part,
  now, standing, runEvents, memoryOf, guard, claimed, limiter, running, job, manual, begun,
  agentNow, run, aborted, theses, toolCall, spacer, lock, runLog, since, signed,
  head, book, trades, writing, fillLog, cursors, readTo, sightings, accounts, polling, restarts,
  up, listed, dropped, seqNo, file, phone, appended, reboots

startVars == <<now, standing, runEvents, memoryOf, guard, claimed, limiter, running, job, manual,
               begun>>
workVars  == <<agentNow, run, aborted, theses, toolCall, spacer, lock, runLog, since, signed>>
fillVars  == <<head, book, trades, writing, fillLog, cursors, readTo, sightings, accounts,
               polling, restarts>>
logVars   == <<up, listed, dropped, seqNo, file, phone, appended, reboots>>

(* Two processes of one host and a third on another. *)
HostOfThree == [p \in Processes |-> IF p = r1 THEN 2 ELSE 1]

(* Two returns of the owner's and one write of the agent's, with one fault. *)
MCFunds  == {[free |-> 1, held |-> 1]}
MCSetups == {[custody |-> "account-id", path |-> "sponsored"],
             [custody |-> "account-id", path |-> "refused"],
             [custody |-> "address-keyed", path |-> "signed"]}

(* A browser and a phone, two accounts, one request: SignIn as the configuration
   has it. *)
MCCallsOf == k1 :> d1

(* Three payloads: one with a transfer to an agent and one that cannot be
   described, one with a transfer, one that does not parse; room to remember
   one. *)
MCCarries == r1 :> <<t1, t2>> @@ r2 :> <<t3>> @@ r3 :> <<t3>>
MCAgentOf == t1 :> g1 @@ t2 :> g1 @@ t3 :> g1

(* One watching agent over two days, run by hand too, with every fault. *)
Starting == INSTANCE AgentScheduler WITH
  Agents <- {a1}, Jobs <- {j1}, Requests <- {m1}, Watching <- {a1},
  Cadence <- 2, Spread <- 1, Heartbeat <- 2, DayLength <- 3, MaxRunsPerDay <- 1,
  MaxConcurrent <- 1, MaxTime <- 5, MaxLog <- 2,
  Faults <- {"crash", "refused", "exhausted", "unreadable"}, log <- runEvents, seen <- memoryOf

(* A turn that closes positions, beside a session that does. *)
Closing == INSTANCE AgentRun WITH
  Calls <- {c1, c2}, RunTools <- {"exit"}, OtherTools <- {"exit"}, Spacing <- 1,
  MaxTurns <- 1, MaxRuns <- 2, MaxEvents <- 2, MaxChanges <- 1

(* A run that thinks and orders, while its resting orders fill. *)
Ordering == INSTANCE AgentRun WITH
  Calls <- {c1, c2}, RunTools <- {"thesis", "order"}, OtherTools <- {"later"}, Spacing <- 1,
  MaxTurns <- 2, MaxRuns <- 1, MaxEvents <- 4, MaxChanges <- 0

(* Two orders of one market, the larger of two units. *)
MCTraderOf == o1 :> a1 @@ o2 :> a1
MCMarketOf == o1 :> m1 @@ o2 :> m1
MCSizeOf   == o1 :> 2 @@ o2 :> 1

Filling == INSTANCE RestingFills WITH
  Traders <- {a1}, Orders <- {o1, o2}, OwnerOf <- MCTraderOf,
  MarketOf <- MCMarketOf, SizeOf <- MCSizeOf,
  Confirmations <- 1, MaxBlockRange <- 1, MaxRangesPerPoll <- 2, LookbackBlocks <- 1,
  MaxSightings <- 1, MaxBlock <- 2, MaxRestarts <- 1, Faults <- {"read"}, NoTrader <- NoAgent,
  NoMarket <- NoAgent, poll <- polling

(* Two agents, two events of each kept in memory. *)
Logging == INSTANCE EventLog WITH
  Loggers <- {g1, g2}, MaxPerAgent <- 2, CompactSlack <- 0, PageSize <- 1, MaxAppends <- 4,
  MaxAt <- 1, MaxReboots <- 2, Faults <- {"torn"}, kept <- listed

ASSUME /\ LockAssumption /\ FeedAssumption /\ SignInAssumption /\ HeadsAssumption
       /\ DepositAssumption /\ Starting!ScheduleAssumption /\ Closing!RunAssumption
       /\ Ordering!RunAssumption /\ Filling!FillAssumption /\ Logging!LogAssumption

-----------------------------------------------------------------------------
serverVars == <<lockVars, walletVars, feedVars, signInVars, headVars, depositVars>>
atWork     == <<startVars, workVars, fillVars, logVars, watchVars>>

MCInit ==
  /\ part \in {"locking", "returning", "pricing", "signing", "heading", "crediting",
               "starting", "closing", "ordering", "filling", "logging", "waking"}
  /\ Init /\ WalletInit /\ (part = "returning" \/ setup.path = "signed") /\ FeedInit
  /\ SignInInit /\ HeadsInit /\ DepositInit
  /\ Starting!Init /\ Closing!RunInit /\ Filling!Init /\ Logging!Init
  /\ WatchInit

Keeps ==
  \/ part = "locking" /\ Next /\ UNCHANGED <<walletVars, feedVars, signInVars, headVars, depositVars>>
  \/ part = "returning" /\ WalletNext
     /\ UNCHANGED <<lockVars, feedVars, signInVars, headVars, depositVars>>
  \/ part = "pricing" /\ FeedNext
     /\ UNCHANGED <<lockVars, walletVars, signInVars, headVars, depositVars>>
  \/ part = "signing" /\ SignInNext /\ UNCHANGED <<lockVars, walletVars, feedVars, headVars, depositVars>>
  \/ part = "heading" /\ HeadsNext /\ UNCHANGED <<lockVars, walletVars, feedVars, signInVars, depositVars>>
  \/ part = "crediting" /\ DepositNext
     /\ UNCHANGED <<lockVars, walletVars, feedVars, signInVars, headVars>>

Works ==
  \/ part = "starting" /\ Starting!Next /\ UNCHANGED <<workVars, fillVars, logVars, watchVars>>
  \/ part = "closing" /\ Closing!RunNext /\ UNCHANGED <<startVars, fillVars, logVars, watchVars>>
  \/ part = "ordering" /\ Ordering!RunNext /\ UNCHANGED <<startVars, fillVars, logVars, watchVars>>
  \/ part = "filling" /\ Filling!Next /\ UNCHANGED <<startVars, workVars, logVars, watchVars>>
  \/ part = "logging" /\ Logging!Next /\ UNCHANGED <<startVars, workVars, fillVars, watchVars>>
  \/ part = "waking" /\ WatchNext /\ UNCHANGED <<startVars, workVars, fillVars, logVars>>

MCNext ==
  /\ UNCHANGED part
  /\ \/ Keeps /\ UNCHANGED atWork
     \/ Works /\ UNCHANGED serverVars

MCSpec == MCInit /\ [][MCNext]_<<part, serverVars, atWork>>

(* Two states differ if the part that moves does: the others stand still. *)
PartVars ==
  CASE part = "locking"  -> lockVars    [] part = "returning" -> walletVars
    [] part = "pricing"  -> feedVars    [] part = "signing"   -> signInVars
    [] part = "heading"  -> headVars    [] part = "crediting" -> depositVars
    [] part = "starting" -> startVars   [] part \in {"closing", "ordering"} -> workVars
    [] part = "filling"  -> fillVars    [] part = "logging"   -> logVars
    [] part = "waking"   -> watchVars

MCView == <<part, PartVars>>

-----------------------------------------------------------------------------
(* The types; one run of an agent at a time; scheduled runs no closer than its
   cadence, and a day's runs within its cap: across overlapping polls, awaited
   questions and restarts (AgentScheduler). *)
RunsAreRationed == part = "starting" => Starting!RunsAreRationed

(* A wake outlives its poll, and a paused agent begins no run (AgentScheduler). *)
WakesAndPausesHold == Starting!WakesAndPausesHold

(* A cut-off run writes no more but for the write at the enclave, and a run's
   writes keep their distance (AgentRun). *)
WritesKeepTheirTurn == part \in {"closing", "ordering"} => Closing!WritesKeepTheirTurn

(* A thesis has one verdict at most, and, between writes, has one once what it
   opened is closed, whichever run, session or later fill closed it
   (settle-fill.ts:28). *)
VerdictsMatch ==
  /\ part = "closing" => Closing!RunTypeOK
  /\ part = "ordering" => Ordering!RunTypeOK
  /\ part \in {"closing", "ordering"} => Ordering!VerdictsFit

(* However often blocks are read again, a fill is on the log at most once
   (resting-fill.watcher.ts:20); and what the log misses is in the poll's hands,
   or still ahead of the order's cursor, and the order is still watched: a
   cancelled one until the blocks before its cancel were read for it
   (resting-fill.watcher.ts:28). *)
FillsAreAccounted ==
  part = "filling" => Filling!FillsTypeOK /\ Filling!RecordedOnce /\ Filling!UnreadIsWatched

(* An agent's list, and what the log says it dropped of it, add up to all that
   was appended, and nothing happened later than what was dropped that is not
   listed: across evictions, restarts and compactions (agent-event-log.ts:88).
   And a phone was given every event that is still listed between where it opened
   and its cursor, which a restart keeps valid (agent-event-log.ts:165). *)
LogIsWhole ==
  part = "logging" => Logging!LogTypeOK /\ Logging!TruncationIsTrue /\ Logging!PagesAreWhole
===============================================================================
