---------------------------- MODULE AgentScheduler ----------------------------
(***************************************************************************)
(* Scheduled runs: services/api/src/agents/runner/agent-run.scheduler.ts,  *)
(* the ScheduleGuard it asks, and the part of agent-runner.service.ts that *)
(* admits one run per agent.                                               *)
(*                                                                         *)
(* A job is one scheduled turn of an agent, from the poll that claims it   *)
(* to the release of the claim.  The agent store and the event log answer  *)
(* synchronously (SQLite or memory behind promises), so a poll decides and *)
(* claims in one stretch; watcher checks, credits reads and runs do not.   *)
(* What a poll does for one agent does not depend on the others, so Poll   *)
(* is per agent, in any order and at any moment.                           *)
(***************************************************************************)
EXTENDS Integers, Sequences, FiniteSets

CONSTANTS
  Agents, NoAgent,
  Jobs,           \* scheduled turns that may be under way at once
  Requests,       \* manual runs that may be under way at once
  Watching,       \* the agents with watchers
  NoTime,
  Cadence,        \* AGENT_TICK_SECONDS, or the agent's own schedule
  Spread,         \* how far a first run is pulled forward, at most
  Heartbeat,      \* heartbeatSeconds of a watching agent
  DayLength,
  MaxRunsPerDay,  \* AGENT_SCHEDULE_MAX_RUNS_PER_DAY
  MaxConcurrent,  \* AGENT_SCHEDULE_MAX_CONCURRENT
  MaxTime,        \* bound: the clock stops here
  MaxLog,         \* bound: no manual run, unarchive or crash after as many runs
  Faults          \* "crash", "unreadable" (the market), "refused" (credits
                  \* or a key), "exhausted"

ASSUME ScheduleAssumption ==
  /\ NoAgent \notin Agents
  /\ Watching \subseteq Agents
  /\ NoTime \notin Int
  /\ {Cadence, Heartbeat, DayLength, MaxRunsPerDay, MaxConcurrent} \subseteq Nat \ {0}
  /\ Spread \in 0..Cadence
  /\ {MaxTime, MaxLog} \subseteq Nat
  /\ Faults \subseteq {"crash", "unreadable", "refused", "exhausted"}

VARIABLES
  now,
  standing, \* what the store says of each agent; only the active are listed
  log,      \* the run events of each agent, in order: durable
  seen,     \* lastStart, lastRun and pending of each agent
  guard,    \* the guard's starts and exhausted of each agent
  claimed,
  limiter,  \* the active count and the jobs awaiting a slot
  running,  \* the runner's map: agents with a run open
  job,      \* the scheduled turns under way
  manual,   \* the manual runs under way
  begun     \* history: every scheduled run admitted, and what became of it

memory == <<seen, guard, claimed, limiter, running, job, manual>>
vars   == <<now, standing, log, memory, begun>>

-------------------------------------------------------------------------------
Day(t) == t \div DayLength

Unseen  == [start |-> NoTime, run |-> NoTime, wake |-> NoTime]
Idle    == [pc |-> "idle", agent |-> NoAgent, at |-> NoTime, since |-> NoTime,
            wake |-> NoTime, heartbeat |-> FALSE]
NoGuard == [day |-> NoTime, count |-> 0, until |-> NoTime]

Times == Int \cup {NoTime}
Pcs   == {"idle", "watching", "waiting", "granted", "guarding", "running", "ending"}

TypeOK ==
  /\ now \in 0..MaxTime
  /\ standing \in [Agents -> {"active", "archived", "revoked"}]
  /\ log \in [Agents -> Seq([at : 0..MaxTime, trigger : {"schedule", "manual"}])]
  /\ seen \in [Agents -> [start : Times, run : Times, wake : Times]]
  /\ guard \in [Agents -> [day : Times, count : Nat, until : Times]]
  /\ claimed \subseteq Agents
  /\ limiter \in [active : Nat, waiting : Seq(Jobs)]
  /\ running \subseteq Agents
  /\ job \in [Jobs -> [pc : Pcs, agent : Agents \cup {NoAgent}, at : Times,
                       since : Times, wake : Times, heartbeat : BOOLEAN]]
  /\ manual \in [Requests -> [agent : Agents \cup {NoAgent}, since : Times]]
  /\ begun \in [Agents -> Seq([at : 0..MaxTime, end : {"open", "logged", "threw", "lost"}])]

Init ==
  /\ now = 0
  /\ standing = [a \in Agents |-> "active"]
  /\ log = [a \in Agents |-> <<>>]
  /\ seen = [a \in Agents |-> Unseen]
  /\ guard = [a \in Agents |-> NoGuard]
  /\ claimed = {}
  /\ limiter = [active |-> 0, waiting |-> <<>>]
  /\ running = {}
  /\ job = [j \in Jobs |-> Idle]
  /\ manual = [r \in Requests |-> [agent |-> NoAgent, since |-> NoTime]]
  /\ begun = [a \in Agents |-> <<>>]

-------------------------------------------------------------------------------
(* What the store and the log say. *)

Listed(a) == standing[a] = "active"

LastRun(a) == log[a][Len(log[a])].at

LoggedToday(a) ==
  Cardinality({i \in DOMAIN log[a] : log[a][i].trigger = "schedule"
                                       /\ Day(log[a][i].at) = Day(now)})

(* Mutant of SeededStarts: the log is not read, every agent is due at boot. *)
SeededAfresh(a) == {now - Cadence}

(* Where `seed` may put lastStart of an agent it has not seen: at its last
   logged run, else at the last cadence boundary since its hire (time 0),
   less a random spread. *)
SeededStarts(a) == IF log[a] # <<>> THEN {LastRun(a)}
                   ELSE {(now \div Cadence) * Cadence - s : s \in 0..Spread}

(* `seed`: what the scheduler and the guard know of an agent once asked. *)
Seeded(a) ==
  IF seen[a].start # NoTime THEN {[seen |-> seen[a], guard |-> guard[a]]}
  ELSE {[seen  |-> [start |-> s, run |-> IF log[a] = <<>> THEN 0 ELSE LastRun(a),
                    wake |-> seen[a].wake],
         guard |-> IF LoggedToday(a) = 0 THEN guard[a]
                   ELSE [guard[a] EXCEPT !.day = Day(now), !.count = LoggedToday(a)]]
        : s \in SeededStarts(a)}

(* `lastRunOf`: refreshed from the log once a heartbeat looks due. *)
LastRunOf(a, known) == IF now - known < Heartbeat \/ log[a] = <<>> \/ LastRun(a) < known
                       THEN known ELSE LastRun(a)

-------------------------------------------------------------------------------
(* The limiter. *)

Holding(j) == job[j].pc \in {"granted", "guarding", "running", "ending"}

(* A job takes a slot, or waits its turn. *)
Acquire(j, x) ==
  IF limiter.active < MaxConcurrent
  THEN /\ limiter' = [limiter EXCEPT !.active = @ + 1]
       /\ job' = [job EXCEPT ![j] = [x EXCEPT !.pc = "granted"]]
  ELSE /\ limiter' = [limiter EXCEPT !.waiting = Append(@, j)]
       /\ job' = [job EXCEPT ![j] = [x EXCEPT !.pc = "waiting"]]

(* Mutant of Release: the slot is freed, the job next in line is not told. *)
ReleaseForgets(j) ==
  /\ limiter' = [limiter EXCEPT !.active = @ - 1]
  /\ job' = [job EXCEPT ![j] = Idle]

(* The slot goes straight to the job that has waited longest, if any. *)
Release(j) ==
  LET q == limiter.waiting
  IN /\ limiter' = IF q = <<>> THEN [limiter EXCEPT !.active = @ - 1]
                               ELSE [limiter EXCEPT !.waiting = Tail(@)]
     /\ job' = [i \in Jobs |-> IF i = j THEN Idle
                               ELSE IF q # <<>> /\ i = Head(q)
                               THEN [job[i] EXCEPT !.pc = "granted"] ELSE job[i]]

(* A job that holds a slot is over: the slot, then the claim. *)
Finish(j) == Release(j) /\ claimed' = claimed \ {job[j].agent}

-------------------------------------------------------------------------------
(* The poll. *)

(* `prune`: what is no longer listed is forgotten, unless a job works on it. *)
Prune(a) ==
  /\ ~Listed(a)
  /\ a \notin claimed
  /\ seen[a].start # NoTime
  /\ seen' = [seen EXCEPT ![a] = Unseen]
  /\ guard' = [guard EXCEPT ![a] = NoGuard]
  /\ UNCHANGED <<now, standing, log, claimed, limiter, running, job, manual, begun>>

(* A pending wake is dropped after a heartbeat's length. *)
LiveWake(a) == IF seen[a].wake # NoTime /\ now - seen[a].wake > Heartbeat
               THEN NoTime ELSE seen[a].wake

Free(a) == a \notin claimed /\ a \notin running

(* Every poll seeds the agent and drops its stale wake. *)
Looks(a, s) == /\ seen' = [seen EXCEPT ![a] = s]
               /\ UNCHANGED <<now, standing, log, running, manual, begun>>

IsDue(s) == s.wake # NoTime \/ now >= s.start + Cadence

(* Not due, or taken already: nothing starts. *)
PollPasses(a) ==
  /\ Listed(a)
  /\ \E known \in Seeded(a) :
       LET s == [known.seen EXCEPT !.wake = LiveWake(a)]
       IN /\ ~(IsDue(s) /\ Free(a))
          /\ Looks(a, s)
          /\ guard' = [guard EXCEPT ![a] = known.guard]
  /\ UNCHANGED <<claimed, limiter, job>>

(* A due agent without watchers, or with a wake still pending, is queued. *)
PollRuns(a) ==
  /\ Listed(a)
  /\ \E known \in Seeded(a), j \in Jobs :
       LET s == [known.seen EXCEPT !.wake = LiveWake(a)]
       IN /\ IsDue(s) /\ Free(a)
          /\ s.wake # NoTime \/ a \notin Watching
          /\ job[j].pc = "idle"
          /\ Looks(a, s)
          /\ guard' = [guard EXCEPT ![a] = known.guard]
          /\ Acquire(j, [Idle EXCEPT !.agent = a, !.wake = s.wake])
  /\ claimed' = claimed \cup {a}

(* A due agent with watchers has them checked first; whether its heartbeat
   is due is decided before the check. *)
PollWatches(a) ==
  /\ Listed(a) /\ a \in Watching
  /\ \E known \in Seeded(a), j \in Jobs :
       LET s    == [known.seen EXCEPT !.wake = LiveWake(a)]
           last == LastRunOf(a, s.run)
       IN /\ IsDue(s) /\ Free(a) /\ s.wake = NoTime
          /\ job[j].pc = "idle"
          /\ Looks(a, [s EXCEPT !.run = last])
          /\ guard' = [guard EXCEPT ![a] = known.guard]
          /\ job' = [job EXCEPT ![j] = [Idle EXCEPT !.pc = "watching", !.agent = a,
                                         !.at = now, !.heartbeat = now - last >= Heartbeat]]
  /\ claimed' = claimed \cup {a}
  /\ UNCHANGED limiter

(* `watchDue`, once the check answered.  It moved the due time a cadence on,
   and nothing fired. *)
WatchQuiet(j) ==
  LET a == job[j].agent
  IN /\ job[j].pc = "watching" /\ ~job[j].heartbeat
     /\ seen' = [seen EXCEPT ![a].start = job[j].at]
     /\ job' = [job EXCEPT ![j] = Idle]
     /\ claimed' = claimed \ {a}
     /\ UNCHANGED <<now, standing, log, guard, limiter, running, manual, begun>>

(* The market or the positions could not be read. *)
WatchFails(j) ==
  /\ "unreadable" \in Faults
  /\ job[j].pc = "watching"
  /\ job' = [job EXCEPT ![j] = Idle]
  /\ claimed' = claimed \ {job[j].agent}
  /\ UNCHANGED <<now, standing, log, seen, guard, limiter, running, manual, begun>>

(* A watcher fired, or the heartbeat is due: the wake is kept until its run
   starts, and the run is queued in the same stretch. *)
WatchWakes(j) ==
  LET a == job[j].agent
  IN /\ job[j].pc = "watching"
     /\ seen' = [seen EXCEPT ![a] = [@ EXCEPT !.start = job[j].at, !.wake = job[j].at]]
     /\ Acquire(j, [job[j] EXCEPT !.wake = job[j].at])
     /\ UNCHANGED <<now, standing, log, guard, claimed, running, manual, begun>>

-------------------------------------------------------------------------------
(* runGuarded. *)

Paused(a) == guard[a].until # NoTime /\ guard[a].until > now

Capped(a) == guard[a].day = Day(now) /\ guard[a].count >= MaxRunsPerDay

(* Held back by the pause of a run that ended credits_exhausted, or the cap. *)
GuardRefuses(j) ==
  LET a == job[j].agent
  IN /\ job[j].pc = "granted"
     /\ Paused(a) \/ Capped(a)
     /\ guard' = [guard EXCEPT ![a].until = IF Paused(a) THEN @ ELSE NoTime]
     /\ Finish(j)
     /\ UNCHANGED <<now, standing, log, seen, running, manual, begun>>

(* Mutant of GuardAsks: the pause is forgotten once it was set. *)
GuardAsksAnyway(j) ==
  LET a == job[j].agent
  IN /\ job[j].pc = "granted"
     /\ ~Capped(a)
     /\ job' = [job EXCEPT ![j] = [@ EXCEPT !.pc = "guarding", !.at = now]]
     /\ UNCHANGED <<now, standing, log, seen, guard, claimed, limiter, running, manual, begun>>

(* Otherwise the owner's credits are read. *)
GuardAsks(j) ==
  LET a == job[j].agent
  IN /\ job[j].pc = "granted"
     /\ ~Paused(a) /\ ~Capped(a)
     /\ guard' = [guard EXCEPT ![a].until = NoTime]
     /\ job' = [job EXCEPT ![j] = [@ EXCEPT !.pc = "guarding", !.at = now]]
     /\ UNCHANGED <<now, standing, log, seen, claimed, limiter, running, manual, begun>>

(* Credits too low or unreadable, or a manual run started meanwhile. *)
HeldBack(j) ==
  /\ job[j].pc = "guarding"
  /\ "refused" \in Faults \/ job[j].agent \in running
  /\ Finish(j)
  /\ UNCHANGED <<now, standing, log, seen, guard, running, manual, begun>>

(* `recordStart`. *)
Counted(g, t) == [g EXCEPT !.day = Day(t), !.count = IF g.day = Day(t) THEN @ + 1 ELSE 1]

(* lastStart and lastRun move to the guard's moment; a wake is consumed. *)
Started(s, t, wake) ==
  [start |-> t, run |-> t, wake |-> IF wake = NoTime THEN s.wake ELSE NoTime]

(* The start is recorded, then the runner opens the run. *)
RunStarts(j) ==
  LET a == job[j].agent
      t == job[j].at
  IN /\ job[j].pc = "guarding"
     /\ a \notin running
     /\ standing[a] # "revoked"
     /\ seen' = [seen EXCEPT ![a] = Started(@, t, job[j].wake)]
     /\ guard' = [guard EXCEPT ![a] = Counted(@, t)]
     /\ begun' = [begun EXCEPT ![a] = Append(@, [at |-> t, end |-> "open"])]
     /\ running' = running \cup {a}
     /\ job' = [job EXCEPT ![j] = [@ EXCEPT !.pc = "running", !.since = now]]
     /\ UNCHANGED <<now, standing, log, claimed, limiter, manual>>

(* The runner refuses an agent revoked while its job waited. *)
RunRefused(j) ==
  LET a == job[j].agent
      t == job[j].at
  IN /\ job[j].pc = "guarding"
     /\ a \notin running
     /\ standing[a] = "revoked"
     /\ seen' = [seen EXCEPT ![a] = Started(@, t, job[j].wake)]
     /\ guard' = [guard EXCEPT ![a] = Counted(@, t)]
     /\ Finish(j)
     /\ UNCHANGED <<now, standing, log, running, manual, begun>>

Closed(a, end) == begun' = [begun EXCEPT ![a][Len(begun[a])].end = end]

Logged(a, since, trigger) ==
  log' = [log EXCEPT ![a] = Append(@, [at |-> since, trigger |-> trigger])]

(* No key could be had: the run throws, and leaves no event. *)
RunThrows(j) ==
  LET a == job[j].agent
  IN /\ "refused" \in Faults
     /\ job[j].pc = "running"
     /\ running' = running \ {a}
     /\ Closed(a, "threw")
     /\ Finish(j)
     /\ UNCHANGED <<now, standing, log, seen, guard, manual>>

(* The run ends, by itself, its time-out or a revoke, and is logged. *)
RunEnds(j) ==
  LET a == job[j].agent
  IN /\ job[j].pc = "running"
     /\ running' = running \ {a}
     /\ Logged(a, job[j].since, "schedule")
     /\ Closed(a, "logged")
     /\ Finish(j)
     /\ UNCHANGED <<now, standing, seen, guard, manual>>

(* It ended on an empty key: the credits are read again before the claim goes. *)
RunExhausts(j) ==
  LET a == job[j].agent
  IN /\ "exhausted" \in Faults
     /\ job[j].pc = "running"
     /\ running' = running \ {a}
     /\ Logged(a, job[j].since, "schedule")
     /\ Closed(a, "logged")
     /\ job' = [job EXCEPT ![j].pc = "ending"]
     /\ UNCHANGED <<now, standing, seen, guard, claimed, limiter, manual>>

(* `onRunEnded`: paused until the key's limit resets, if that is known. *)
PauseSet(j) ==
  /\ job[j].pc = "ending"
  /\ \E until \in {NoTime} \cup (now + 1)..(MaxTime + 1) :
       guard' = [guard EXCEPT ![job[j].agent].until = IF until = NoTime THEN @ ELSE until]
  /\ Finish(j)
  /\ UNCHANGED <<now, standing, log, seen, running, manual, begun>>

-------------------------------------------------------------------------------
(* Manual runs, the store, time and crashes. *)

(* `run`: one run per agent at a time.  An archived agent may still be run. *)
ManualStarts(r) == \E a \in Agents :
  /\ manual[r].agent = NoAgent
  /\ standing[a] # "revoked"
  /\ a \notin running
  /\ Len(log[a]) < MaxLog
  /\ running' = running \cup {a}
  /\ manual' = [manual EXCEPT ![r] = [agent |-> a, since |-> now]]
  /\ UNCHANGED <<now, standing, log, seen, guard, claimed, limiter, job, begun>>

ManualEnds(r) ==
  LET a == manual[r].agent
  IN /\ a # NoAgent
     /\ running' = running \ {a}
     /\ Logged(a, manual[r].since, "manual")
     /\ manual' = [manual EXCEPT ![r] = [agent |-> NoAgent, since |-> NoTime]]
     /\ UNCHANGED <<now, standing, seen, guard, claimed, limiter, job, begun>>

Moves(a, from, to) == /\ standing[a] = from
                      /\ standing' = [standing EXCEPT ![a] = to]
                      /\ UNCHANGED <<now, log, memory, begun>>

Revoke(a)    == Moves(a, "active", "revoked") \/ Moves(a, "archived", "revoked")
Archive(a)   == Moves(a, "active", "archived")
Unarchive(a) == Len(begun[a]) < MaxLog /\ Moves(a, "archived", "active")

Tick == /\ now < MaxTime
        /\ now' = now + 1
        /\ UNCHANGED <<standing, log, memory, begun>>

(* The process restarts with nothing but the store and the log. *)
Crash ==
  /\ "crash" \in Faults
  /\ \A a \in Agents : Len(begun[a]) < MaxLog
  /\ seen' = [a \in Agents |-> Unseen]
  /\ guard' = [a \in Agents |-> NoGuard]
  /\ claimed' = {}
  /\ limiter' = [active |-> 0, waiting |-> <<>>]
  /\ running' = {}
  /\ job' = [j \in Jobs |-> Idle]
  /\ manual' = [r \in Requests |-> [agent |-> NoAgent, since |-> NoTime]]
  /\ begun' = [a \in Agents |-> [i \in DOMAIN begun[a] |->
                 IF begun[a][i].end = "logged" THEN begun[a][i]
                 ELSE [begun[a][i] EXCEPT !.end = "lost"]]]
  /\ UNCHANGED <<now, standing, log>>

-------------------------------------------------------------------------------
Poll(a) == PollPasses(a) \/ PollRuns(a) \/ PollWatches(a)

JobStep(j) ==
  \/ WatchQuiet(j) \/ WatchFails(j) \/ WatchWakes(j)
  \/ GuardRefuses(j) \/ GuardAsks(j) \/ HeldBack(j)
  \/ RunStarts(j) \/ RunRefused(j) \/ RunThrows(j) \/ RunEnds(j) \/ RunExhausts(j)
  \/ PauseSet(j)

Next == \/ \E a \in Agents : Prune(a) \/ Poll(a) \/ Revoke(a) \/ Archive(a) \/ Unarchive(a)
        \/ \E j \in Jobs : JobStep(j)
        \/ \E r \in Requests : ManualStarts(r) \/ ManualEnds(r)
        \/ Tick \/ Crash

Spec == Init /\ [][Next]_vars

(* The poll timer keeps firing, time passes, and every read and every run
   ends: a run has a time budget that aborts it. *)
Fairness == /\ \A a \in Agents : WF_vars(PollRuns(a) \/ PollWatches(a))
            /\ \A j \in Jobs : WF_vars(JobStep(j))
            /\ \A r \in Requests : WF_vars(ManualEnds(r))
            /\ WF_vars(Tick)

FairSpec == Spec /\ Fairness

-------------------------------------------------------------------------------
(* Safety. *)

(* Two polls never take one agent twice: every claimed agent has one job, and
   nobody else has any (agent-run.scheduler.ts:82, `claimed`). *)
OneJobPerAgent ==
  \A a \in Agents : Cardinality({j \in Jobs : job[j].agent = a}) = IF a \in claimed THEN 1 ELSE 0

(* Scheduled or asked for, an agent has at most one run open, and `isRunning`
   says so exactly while it is (agent-runner.service.ts:172). *)
OneRunPerAgent ==
  \A a \in Agents :
    Cardinality({j \in Jobs : job[j].pc = "running" /\ job[j].agent = a})
      + Cardinality({r \in Requests : manual[r].agent = a}) = IF a \in running THEN 1 ELSE 0

(* The runs a restart can know of, and the one open. *)
Known(a) == {i \in DOMAIN begun[a] : begun[a][i].end \in {"logged", "open"}}

StartedOn(a, runs, day) == Cardinality({i \in runs : Day(begun[a][i].at) = day})

(* A day has no more scheduled runs than the cap, whatever is restarted,
   archived, unarchived or refused in between (schedule-guard.ts, `starts`). *)
WithinDailyCap ==
  \A a \in Agents, d \in 0..Day(MaxTime) : StartedOn(a, Known(a), d) <= MaxRunsPerDay

(* A scheduled run begins a cadence after the last logged one at the soonest,
   woken by a watcher or not, restarted in between or not (`lastStart`). *)
RunsAreSpaced ==
  \A a \in Agents : \A i, k \in DOMAIN begun[a] :
    i < k /\ begun[a][i].end = "logged" => begun[a][k].at - begun[a][i].at >= Cadence

(* A restart does not reset the cap: not even runs it cut off are started
   again beyond it (schedule-guard.ts:84). *)
RestartKeepsCap ==
  \A a \in Agents, d \in 0..Day(MaxTime) : StartedOn(a, DOMAIN begun[a], d) <= MaxRunsPerDay

(* Two polls never take one agent twice, and, scheduled or asked for, it has at
   most one run open, which `isRunning` says exactly while it is
   (agent-run.scheduler.ts:82, agent-runner.service.ts:172).  A day has no more
   scheduled runs than the cap, and a run begins a cadence after the last logged
   one, whatever is restarted, archived, woken or refused in between
   (schedule-guard.ts:84). *)
RunsAreRationed ==
  TypeOK /\ OneJobPerAgent /\ OneRunPerAgent /\ WithinDailyCap /\ RunsAreSpaced

-------------------------------------------------------------------------------
(* Steps. *)

(* A wake that fired is not lost to a run the guard holds back: it goes with
   the start it asked for, after a heartbeat's length, or with the agent's
   place on the list (agent-run.scheduler.ts:69). *)
WakeIsKept ==
  [][\A a \in Agents :
       seen[a].wake # NoTime /\ seen'[a].wake = NoTime
       => \/ <<guard'[a].day, guard'[a].count>> # <<guard[a].day, guard[a].count>>
          \/ now - seen[a].wake > Heartbeat
          \/ ~Listed(a)
          \/ Crash]_vars

(* No scheduled run begins while its agent is paused for an exhausted key,
   though the credits are read between the guard's look and the start
   (schedule-guard.ts:127). *)
PauseIsHonoured ==
  [][\A a \in Agents : Len(begun'[a]) > Len(begun[a]) => ~Paused(a)]_vars

(* A wake that fired is not lost to a run the guard holds back: it goes with the
   start it asked for, after a heartbeat's length, or with the agent's place on
   the list (agent-run.scheduler.ts:69).  And no scheduled run begins while its
   agent is paused for an exhausted key, though the credits are read between the
   guard's look and the start (schedule-guard.ts:127). *)
WakesAndPausesHold == WakeIsKept /\ PauseIsHonoured

-------------------------------------------------------------------------------
(* Liveness. *)

DayLeft == Day(now) < Day(MaxTime)

Due(a) == Listed(a) /\ seen[a].start # NoTime /\ IsDue(seen[a])

(* An agent without watchers that is due runs, this day or, held back by the
   cap, the next, however full the limiter (`poll`, "nor forgets one"). *)
DueAgentRuns ==
  \A a \in Agents \ Watching, n \in 0..MaxLog :
    Due(a) /\ DayLeft /\ Len(begun[a]) = n ~> Len(begun[a]) > n \/ ~Listed(a)

(* A watching agent nothing wakes runs all the same, if it is due for a check
   after a heartbeat with no run of any kind (`lastRunOf`, `watchDue`). *)
HeartbeatRuns ==
  \A a \in Agents \cap Watching, n \in 0..(2 * MaxLog) :
    /\ Due(a) /\ DayLeft /\ a \notin claimed
    /\ now - LastRunOf(a, seen[a].run) >= Heartbeat
    /\ Len(begun[a]) + Len(log[a]) = n
    ~> Len(begun[a]) + Len(log[a]) > n \/ ~Listed(a)
===============================================================================
