----------------------------- MODULE MCAgentLive -----------------------------
(* What must happen in the end: every call about an agent's mandate returns
   (AgentMandate), its anchor is on chain (MandateAnchor), its run ends
   (AgentRun) and its fills are recorded (RestingFills).  The four are checked
   side by side: they share no state, a behaviour takes one of them, and each is
   fair while a behaviour is its. *)
EXTENDS AgentMandate, TLC

CONSTANTS a1, o1, m1, NoBlock

VARIABLES
  part,
  agentNow, run, aborted, theses, toolCall, spacer, lock, runLog, since, signed,
  head, book, trades, writing, fillLog, cursors, readTo, sightings, accounts, poll, restarts,
  anchored, hire, queue, job, timers, sent, failures, boots

anchors == <<anchored, hire, queue, job, timers, sent, failures, boots>>
runs  == <<agentNow, run, aborted, theses, toolCall, spacer, lock, runLog, since, signed>>
fills == <<head, book, trades, writing, fillLog, cursors, readTo, sightings, accounts, poll, restarts>>

(* A run of two turns, of a write or two each, and one revoke or amend. *)
Running == INSTANCE AgentRun WITH
  RunTools <- {"exit"}, OtherTools <- {}, Spacing <- 1,
  MaxTurns <- 2, MaxRuns <- 1, MaxEvents <- 2, MaxChanges <- 1

(* One order of two units, read now and then. *)
Recording == INSTANCE RestingFills WITH
  Traders <- {a1}, Orders <- {o1}, OwnerOf <- o1 :> a1, MarketOf <- o1 :> m1,
  SizeOf <- o1 :> 2, Confirmations <- 1, MaxBlockRange <- 1, MaxRangesPerPoll <- 2,
  LookbackBlocks <- 1, MaxSightings <- 2, MaxBlock <- 3, MaxRestarts <- 1,
  Faults <- {"read", "unplaced"}, NoTrader <- NoAgent, NoMarket <- NoAgent

(* One agent, amended or revoked during its hire or after it. *)
Anchoring == INSTANCE MandateAnchor WITH
  record <- anchored, Registrants <- {a1}, MaxRetries <- 1, MaxAmends <- 1, AmendsBack <- FALSE,
  MaxFailures <- 1, MaxRestarts <- 1, Faults <- {"unsent", "late", "reverted"}

ASSUME Running!RunAssumption /\ Recording!FillAssumption /\ Anchoring!AnchorAssumption

MCInit == /\ part \in {"calling", "anchoring", "running", "recording"}
          /\ Init /\ Anchoring!Init /\ Running!RunInit /\ Recording!Init

MCNext ==
  /\ UNCHANGED part
  /\ \/ part = "calling"   /\ Next                 /\ UNCHANGED <<anchors, runs, fills>>
     \/ part = "anchoring" /\ Anchoring!AnchorNext /\ UNCHANGED <<vars, runs, fills>>
     \/ part = "running"   /\ Running!RunNext         /\ UNCHANGED <<vars, anchors, fills>>
     \/ part = "recording" /\ Recording!Next       /\ UNCHANGED <<vars, anchors, runs>>

(* The fairness of AgentMandate, of MandateAnchor, of AgentRun and of RestingFills. *)
CallsAreFair == \A c \in Calls : WF_vars(part = "calling" /\ Progress(c))

AnchorsAreFair ==
  LET on == part = "anchoring"
  IN /\ WF_anchors(on /\ Anchoring!QueueStep) /\ WF_anchors(on /\ Anchoring!Lands)
     /\ WF_anchors(on /\ Anchoring!HireStep(a1)) /\ WF_anchors(on /\ Anchoring!TimerFires(a1, 1))

RunIsFair ==
  LET on == part = "running"
  IN /\ WF_runs(on /\ Running!TimePasses) /\ WF_runs(on /\ Running!TimesOut)
     /\ WF_runs(on /\ Running!RunStep)
     /\ \A c \in Calls : WF_runs(on /\ Running!Handles(c))

FillsAreFair ==
  LET on == part = "recording"
  IN /\ WF_fills(on /\ Recording!NextBlock) /\ WF_fills(on /\ Recording!Starts)
     /\ SF_fills(on /\ Recording!SeesHead) /\ WF_fills(on /\ Recording!NothingFound)
     /\ WF_fills(on /\ Recording!Logs(o1))
     /\ WF_fills(on /\ Recording!Looks(a1)) /\ SF_fills(on /\ Recording!RecordStep(a1))
     /\ WF_fills(on /\ Recording!ReadsAny(m1)) /\ SF_fills(on /\ Recording!ReadsMarket(m1, 2))

MCSpec == /\ MCInit /\ [][MCNext]_<<part, vars, anchors, runs, fills>>
          /\ CallsAreFair /\ AnchorsAreFair /\ RunIsFair /\ FillsAreFair

-----------------------------------------------------------------------------
(* A run that began ends, and its agent can run again, whatever its model does,
   and however its writes are spaced or cut off (agent-runner.service.ts:256). *)
RunsEnd == Running!RunsEnd

(* What was kept of an agent reaches the end it was kept for.  Every fill of a
   watched order deep enough to be read is on the log in the end, whatever
   failed or restarted on the way, cancelled or not (resting-fill.watcher.ts:319);
   and the registry says of a registered agent what its record does, whatever was
   amended during the hire, failed, or was lost with a restart
   (mandate-anchor.ts:209), but not of a revoke the enclave never took. *)
RecordsConverge == Recording!FillsAreRecorded /\ Anchoring!AnchorsConverge
=============================================================================
