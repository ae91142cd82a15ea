---------------------------- MODULE MCScheduledRuns ----------------------------
(* What comes of runs being due: agents that share a slot (AgentScheduler), an
   agent's account at Perpl, which every run begins by seeing to
   (PerplOnboarding), and a book that runs read (PerplBookFeed).  The three are
   checked side by side: they share no state, a behaviour takes one of them, and
   each is fair while a behaviour is its. *)
EXTENDS AgentScheduler, PerplOnboarding, TLC

CONSTANTS r1, b1

VARIABLES part, link, retrying, watched, wanted, sent, streams, kept, heard, lastRead,
          refreshed, refused, served, inbox, books, shown, troubles

feed == <<link, retrying, watched, wanted, sent, streams, kept, heard, lastRead, refreshed,
          refused, served, inbox, books, shown, troubles>>

(* One market, one request in two moments, one trouble. *)
Feeding == INSTANCE PerplBookFeed WITH
  MarketIds <- {b1}, MaxRequests <- 1, Window <- 2, StaleAfter <- 1, RefreshMin <- 1,
  IdleAfter <- 2, MaxChanges <- 1, MaxFrames <- 2, MaxFeedTroubles <- 1,
  FeedTroubles <- {"closed", "refused", "noids"},
  watching <- watched, spoilt <- troubles

ASSUME Feeding!FeedAssumption

MCInit == part \in {"sharing", "opening", "feeding"} /\ Init /\ OnboardInit /\ Feeding!FeedInit

MCNext == /\ UNCHANGED part
          /\ \/ part = "sharing" /\ Next             /\ UNCHANGED <<onboardVars, feed>>
             \/ part = "opening" /\ OnboardNext      /\ UNCHANGED <<vars, feed>>
             \/ part = "feeding" /\ Feeding!FeedNext /\ UNCHANGED <<vars, onboardVars>>

SharingIsFair ==
  LET on == part = "sharing"
  IN /\ \A a \in Agents : WF_vars(on /\ (PollRuns(a) \/ PollWatches(a)))
     /\ \A j \in Jobs : WF_vars(on /\ JobStep(j))
     /\ WF_vars(on /\ Tick)

OpeningIsFair ==
  LET on == part = "opening"
  IN /\ WF_onboardVars(on /\ Ensures) /\ WF_onboardVars(on /\ FlightStep)
     /\ WF_onboardVars(on /\ EnrollStep) /\ WF_onboardVars(on /\ Lands)

(* Somebody reads on, and the socket and its timers do not stop. *)
FeedingIsFair ==
  LET on == part = "feeding"
  IN /\ WF_feed(on /\ Feeding!Read(b1))
     /\ WF_feed(on /\ \/ Feeding!Opens \/ Feeding!AsksAll \/ Feeding!Flushes
                      \/ Feeding!ReconnectFires)
     /\ WF_feed(on /\ Feeding!TakesFrame) /\ WF_feed(on /\ Feeding!Passes)

MCSpec == /\ MCInit /\ [][MCNext]_<<part, vars, onboardVars, feed>>
          /\ SharingIsFair /\ OpeningIsFair /\ FeedingIsFair

-------------------------------------------------------------------------------
(* An agent that is due runs, the same day or the next, however full the limiter;
   and one that watches runs on its heartbeat though nothing wakes it
   (agent-run.scheduler.ts, `poll` and `watchDue`). *)
DueAgentsRun == DueAgentRuns /\ HeartbeatRuns

(* The book of a market that is read comes to be fresh again and again, unless
   Perpl refuses its stream (perpl-book-feed.ts:16). *)
BooksComeFresh == Feeding!BooksComeFresh
===============================================================================
