------------------------- MODULE AgentSchedulerProofs -------------------------
(***************************************************************************)
(* What AgentScheduler promises of the scheduled runs, for any number of   *)
(* agents, jobs and requests, any schedule and any faults.                 *)
(*                                                                         *)
(* The invariant has two parts, proved one after the other.  Admission     *)
(* relates the claims, the jobs, the limiter and the runner's map.  History*)
(* relates, agent by agent, the runs that began to the log, to what the    *)
(* scheduler and the guard remember of them, and to the job and the manual *)
(* run under way.                                                          *)
(*                                                                         *)
(* Then what every run begins with, PerplOnboarding: OnboardInv relates    *)
(* the legs a flight has left, and what it awaits, to what is out and to   *)
(* what the chain holds.                                                   *)
(***************************************************************************)
EXTENDS AgentScheduler, PerplOnboarding, SequenceTheorems, FiniteSetTheorems, TLAPS

Ends == {"open", "logged", "threw", "lost"}

Works(j, a) == job[j].agent = a /\ job[j].pc # "idle"
Holders     == {j \in Jobs : Holding(j)}

(* Every claimed agent has been seen, and has one job; nobody else has any. *)
ClaimsFit ==
  /\ \A j \in Jobs : job[j].pc = "idle" <=> job[j].agent = NoAgent
  /\ \A j \in Jobs : job[j].agent # NoAgent => job[j].agent \in claimed
  /\ \A a \in claimed : \E j \in Jobs : job[j].agent = a
  /\ \A i, j \in Jobs : job[i].agent = job[j].agent /\ job[i].agent # NoAgent => i = j
  /\ \A a \in claimed : seen[a].start # NoTime

(* Who waits for a slot is in line, once; the others are counted. *)
SlotsFit ==
  /\ IsFiniteSet(Holders) /\ limiter.active = Cardinality(Holders)
  /\ \A k \in DOMAIN limiter.waiting : job[limiter.waiting[k]].pc = "waiting"
  /\ \A k, l \in DOMAIN limiter.waiting : limiter.waiting[k] = limiter.waiting[l] => k = l

(* The runner's map: an agent in it has one run open, of a job or by hand. *)
RunsFit ==
  /\ \A j \in Jobs : job[j].pc = "running" => job[j].agent \in running
  /\ \A r \in Requests : manual[r].agent # NoAgent => manual[r].agent \in running
  /\ \A j \in Jobs, r \in Requests : job[j].pc = "running" => manual[r].agent # job[j].agent
  /\ \A r, s \in Requests : manual[r].agent = manual[s].agent /\ manual[r].agent # NoAgent => r = s
  /\ \A a \in running : \/ \E j \in Jobs : job[j].pc = "running" /\ job[j].agent = a
                        \/ \E r \in Requests : manual[r].agent = a

TimesFit ==
  /\ \A j \in Jobs : /\ job[j].pc \in {"watching", "guarding", "running"} => job[j].at \in 0..now
                     /\ job[j].pc = "running" => job[j].since \in 0..now
  /\ \A r \in Requests : manual[r].agent # NoAgent => manual[r].since \in 0..now

Admission == TypeOK /\ ClaimsFit /\ SlotsFit /\ RunsFit /\ TimesFit

-------------------------------------------------------------------------------
(* How many of these runs began on a day: those a restart can know of, or the one
   open, and those on the log; and how many scheduled runs the log has of it. *)
StartsOf(runs, day) ==
  Cardinality({i \in DOMAIN runs : runs[i].end \in {"logged", "open"} /\ Day(runs[i].at) = day})
LoggedOf(runs, day) ==
  Cardinality({i \in DOMAIN runs : runs[i].end = "logged" /\ Day(runs[i].at) = day})
EventsOf(events, day) ==
  Cardinality({i \in DOMAIN events : events[i].trigger = "schedule" /\ Day(events[i].at) = day})

(* The runs of today that the guard has counted. *)
CountedToday(a) == IF guard[a].day = Day(now) THEN guard[a].count ELSE 0

(* A cadence before t at the latest: the runs that are on the log. *)
SpacedBefore(a, t) ==
  \A i \in DOMAIN begun[a] : begun[a][i].end = "logged" => begun[a][i].at + Cadence <= t

(* The runs that began and the log: today's are on it, which is ahead of them. *)
PastFits(a) ==
  /\ \A i \in DOMAIN begun[a] : begun[a][i].at <= now
  /\ \A i \in DOMAIN begun[a] : begun[a][i].end = "logged" =>
       log[a] # <<>> /\ begun[a][i].at <= LastRun(a)
  /\ LoggedOf(begun[a], Day(now)) <= EventsOf(log[a], Day(now))
  /\ \A day \in Nat : StartsOf(begun[a], day) <= MaxRunsPerDay
  /\ \A i, k \in DOMAIN begun[a] :
       i < k /\ begun[a][i].end = "logged" => begun[a][i].at + Cadence <= begun[a][k].at

(* The guard has counted today's runs of an agent that has been seen. *)
GuardFits(a) ==
  /\ guard[a].day # NoTime => guard[a].day <= Day(now)
  /\ seen[a].start # NoTime => StartsOf(begun[a], Day(now)) <= CountedToday(a)

(* Only the last run may be open: that of the job that is running. *)
OpenFits(a) ==
  /\ \A i \in DOMAIN begun[a] : begun[a][i].end = "open" =>
       i = Len(begun[a]) /\ \E j \in Jobs : job[j].pc = "running" /\ job[j].agent = a
  /\ \A j \in Jobs : job[j].pc = "running" /\ job[j].agent = a =>
       /\ begun[a] # <<>> /\ begun[a][Len(begun[a])].end = "open"
       /\ \A i \in DOMAIN begun[a] : begun[a][i].at <= job[j].since
  /\ \A r \in Requests : manual[r].agent = a =>
       \A i \in DOMAIN begun[a] : begun[a][i].at <= manual[r].since

(* Whatever the scheduler takes for the last start, or keeps as a wake, comes
   after the runs that are on the log; the wake is that of the job under way. *)
StartsFit(a) ==
  /\ seen[a].start # NoTime =>
       \A i \in DOMAIN begun[a] :
         begun[a][i].end \in {"logged", "open"} => begun[a][i].at <= seen[a].start
  /\ seen[a].wake # NoTime =>
       /\ seen[a].start # NoTime /\ seen[a].wake <= now /\ SpacedBefore(a, seen[a].wake)
       /\ \A j \in Jobs : job[j].agent = a =>
            /\ job[j].pc \in {"waiting", "granted", "guarding"} => job[j].wake # NoTime
            /\ job[j].pc \notin {"watching", "running"}

(* A job that may yet start a run comes a cadence after those that are logged,
   and one that asked the guard may still start it on that day. *)
JobFits(a) ==
  \A j \in Jobs : job[j].agent = a =>
    /\ job[j].pc \in {"watching", "guarding"} => SpacedBefore(a, job[j].at)
    /\ job[j].pc \in {"waiting", "granted"} => SpacedBefore(a, now)
    /\ job[j].pc = "guarding" =>
         /\ guard[a].until = NoTime
         /\ guard[a].day # NoTime => guard[a].day <= Day(job[j].at)
         /\ StartsOf(begun[a], Day(job[j].at)) < MaxRunsPerDay

AgentFits(a) == PastFits(a) /\ GuardFits(a) /\ OpenFits(a) /\ StartsFit(a) /\ JobFits(a)

Inv == Admission /\ \A a \in Agents : AgentFits(a)

-------------------------------------------------------------------------------
JobRecs   == [pc : Pcs, agent : Agents \cup {NoAgent}, at : Times, since : Times,
              wake : Times, heartbeat : BOOLEAN]
SeenRecs  == [start : Times, run : Times, wake : Times]
GuardRecs == [day : Times, count : Nat, until : Times]
LogRecs   == [at : 0..MaxTime, trigger : {"schedule", "manual"}]
BegunRecs == [at : 0..MaxTime, end : Ends]

(* What TypeOK says, with names for its record types. *)
LEMMA Typed ==
  ASSUME TypeOK
  PROVE  /\ now \in Nat /\ now \in 0..MaxTime
         /\ job \in [Jobs -> JobRecs] /\ seen \in [Agents -> SeenRecs]
         /\ guard \in [Agents -> GuardRecs] /\ claimed \subseteq Agents /\ running \subseteq Agents
         /\ log \in [Agents -> Seq(LogRecs)] /\ begun \in [Agents -> Seq(BegunRecs)]
         /\ manual \in [Requests -> [agent : Agents \cup {NoAgent}, since : Times]]
         /\ limiter \in [active : Nat, waiting : Seq(Jobs)]
         /\ standing \in [Agents -> {"active", "archived", "revoked"}]
         /\ NoAgent \notin Agents /\ NoTime \notin Int
<1>1. now \in 0..MaxTime /\ MaxTime \in Nat /\ NoAgent \notin Agents /\ NoTime \notin Int
  BY ScheduleAssumption DEF TypeOK
<1>2. now \in Nat
  BY <1>1
<1> QED BY <1>1, <1>2 DEF TypeOK, JobRecs, SeenRecs, GuardRecs, LogRecs, BegunRecs, Ends

(* The other way round, for the next state. *)
LEMMA TypedNext ==
  ASSUME now' \in 0..MaxTime, job' \in [Jobs -> JobRecs], seen' \in [Agents -> SeenRecs],
         guard' \in [Agents -> GuardRecs], claimed' \subseteq Agents, running' \subseteq Agents,
         log' \in [Agents -> Seq(LogRecs)], begun' \in [Agents -> Seq(BegunRecs)],
         manual' \in [Requests -> [agent : Agents \cup {NoAgent}, since : Times]],
         limiter' \in [active : Nat, waiting : Seq(Jobs)],
         standing' \in [Agents -> {"active", "archived", "revoked"}]
  PROVE  TypeOK'
  BY DEF TypeOK, JobRecs, SeenRecs, GuardRecs, LogRecs, BegunRecs, Ends

LEMMA SeqParts ==
  ASSUME NEW S, NEW s \in Seq(S)
  PROVE  /\ Len(s) \in Nat /\ DOMAIN s = 1..Len(s)
         /\ \A i \in DOMAIN s : s[i] \in S
         /\ s # <<>> <=> 1 \in DOMAIN s
         /\ s # <<>> => /\ Len(s) \in DOMAIN s /\ Head(s) = s[1]
                        /\ Tail(s) \in Seq(S)
                        /\ \A k \in DOMAIN Tail(s) : k + 1 \in DOMAIN s /\ Tail(s)[k] = s[k + 1]
  OBVIOUS

LEMMA Added ==
  ASSUME NEW S, NEW s \in Seq(S), NEW e \in S
  PROVE  /\ Append(s, e) \in Seq(S) /\ Len(Append(s, e)) = Len(s) + 1
         /\ DOMAIN Append(s, e) = DOMAIN s \cup {Len(s) + 1}
         /\ Append(s, e)[Len(s) + 1] = e /\ \A i \in DOMAIN s : Append(s, e)[i] = s[i]
  OBVIOUS

(* Some of the places of a sequence are finitely many. *)
LEMMA PlacesFinite ==
  ASSUME NEW S, NEW s \in Seq(S), NEW T, T \subseteq DOMAIN s
  PROVE  IsFiniteSet(T) /\ Cardinality(T) \in Nat
<1>1. DOMAIN s = 1..Len(s) /\ Len(s) \in Nat
  BY SeqParts
<1>2. IsFiniteSet(1..Len(s))
  BY <1>1, FS_Interval
<1>3. IsFiniteSet(T)
  BY <1>1, <1>2, FS_Subset
<1> QED BY <1>3, FS_CardinalityType

-------------------------------------------------------------------------------
(* Taking and freeing a slot. *)

(* The jobs but j stay, or one that waited is told it has a slot. *)
OthersStay(j) ==
  \A i \in Jobs : i # j => \/ job'[i] = job[i]
                           \/ job[i].pc = "waiting" /\ job'[i] = [job[i] EXCEPT !.pc = "granted"]

LEMMA AcquireSlot ==
  ASSUME Admission, NEW j \in Jobs, NEW x \in JobRecs, Acquire(j, x),
         job[j].pc \in {"idle", "watching"}
  PROVE  /\ job' \in [Jobs -> JobRecs] /\ limiter' \in [active : Nat, waiting : Seq(Jobs)]
         /\ \A i \in Jobs : i # j => job'[i] = job[i]
         /\ \E pc \in {"granted", "waiting"} : job'[j] = [x EXCEPT !.pc = pc]
         /\ SlotsFit'
<1>1. /\ job \in [Jobs -> JobRecs] /\ limiter \in [active : Nat, waiting : Seq(Jobs)]
      /\ IsFiniteSet(Holders) /\ limiter.active = Cardinality(Holders)
  BY Typed DEF Admission, SlotsFit
<1>2. \A pc \in {"granted", "waiting"} : [x EXCEPT !.pc = pc] \in JobRecs
                                         /\ [x EXCEPT !.pc = pc].pc = pc
  BY DEF JobRecs, Pcs
<1>3. j \notin Holders /\ \A k \in DOMAIN limiter.waiting : limiter.waiting[k] # j
  BY DEF Holders, Holding, Admission, SlotsFit
<1>4. limiter.waiting \in Seq(Jobs)
  BY <1>1
<1>5. CASE limiter.active < MaxConcurrent
  <2>1. /\ limiter' = [limiter EXCEPT !.active = @ + 1]
        /\ job' = [job EXCEPT ![j] = [x EXCEPT !.pc = "granted"]]
    BY <1>5 DEF Acquire
  <2>2. /\ job' \in [Jobs -> JobRecs] /\ limiter' \in [active : Nat, waiting : Seq(Jobs)]
        /\ \A i \in Jobs : i # j => job'[i] = job[i]
        /\ job'[j] = [x EXCEPT !.pc = "granted"] /\ job'[j].pc = "granted"
        /\ limiter'.waiting = limiter.waiting /\ limiter'.active = limiter.active + 1
    BY <1>1, <1>2, <2>1
  <2>3. Holders' = Holders \cup {j}
    BY <2>2 DEF Holders, Holding
  <2>4. IsFiniteSet(Holders') /\ limiter'.active = Cardinality(Holders')
    BY <1>1, <1>3, <2>2, <2>3, FS_AddElement
  <2>5. \A k \in DOMAIN limiter.waiting : job'[limiter.waiting[k]].pc = "waiting"
    BY <1>3, <1>4, <2>2, SeqParts DEF Admission, SlotsFit
  <2> QED BY <2>2, <2>4, <2>5 DEF Admission, SlotsFit
<1>6. CASE ~(limiter.active < MaxConcurrent)
  <2>1. /\ limiter' = [limiter EXCEPT !.waiting = Append(@, j)]
        /\ job' = [job EXCEPT ![j] = [x EXCEPT !.pc = "waiting"]]
    BY <1>6 DEF Acquire
  <2>2. Append(limiter.waiting, j) \in Seq(Jobs)
    BY <1>4, Added
  <2>3. /\ job' \in [Jobs -> JobRecs] /\ limiter' \in [active : Nat, waiting : Seq(Jobs)]
        /\ \A i \in Jobs : i # j => job'[i] = job[i]
        /\ job'[j] = [x EXCEPT !.pc = "waiting"] /\ job'[j].pc = "waiting"
        /\ limiter'.waiting = Append(limiter.waiting, j) /\ limiter'.active = limiter.active
    BY <1>1, <1>2, <2>1, <2>2
  <2>4. Holders' = Holders
    BY <1>3, <2>3 DEF Holders, Holding
  <2>5. DOMAIN limiter'.waiting = DOMAIN limiter.waiting \cup {Len(limiter.waiting) + 1}
        /\ limiter'.waiting[Len(limiter.waiting) + 1] = j
        /\ \A k \in DOMAIN limiter.waiting : /\ limiter'.waiting[k] = limiter.waiting[k]
                                             /\ limiter.waiting[k] \in Jobs
    BY <1>4, <2>3, Added, SeqParts
  <2>6. \A k \in DOMAIN limiter'.waiting : job'[limiter'.waiting[k]].pc = "waiting"
    <3> TAKE k \in DOMAIN limiter'.waiting
    <3>1. CASE k \in DOMAIN limiter.waiting
      <4>1. job[limiter.waiting[k]].pc = "waiting" /\ limiter.waiting[k] # j
        BY <1>3, <3>1 DEF Admission, SlotsFit
      <4> QED BY <2>3, <2>5, <3>1, <4>1
    <3>2. CASE k = Len(limiter.waiting) + 1
      BY <2>3, <2>5, <3>2
    <3> QED BY <2>5, <3>1, <3>2
  <2>7. \A k, l \in DOMAIN limiter'.waiting : limiter'.waiting[k] = limiter'.waiting[l] => k = l
    BY <1>3, <2>5 DEF Admission, SlotsFit
  <2> QED BY <1>1, <2>3, <2>4, <2>6, <2>7 DEF SlotsFit
<1> QED BY <1>5, <1>6

LEMMA ReleaseSlot ==
  ASSUME Admission, NEW j \in Jobs, Release(j), Holding(j)
  PROVE  /\ job' \in [Jobs -> JobRecs] /\ limiter' \in [active : Nat, waiting : Seq(Jobs)]
         /\ OthersStay(j) /\ job'[j] = Idle /\ SlotsFit'
<1> DEFINE q == limiter.waiting
<1>1. /\ job \in [Jobs -> JobRecs] /\ limiter \in [active : Nat, waiting : Seq(Jobs)]
      /\ IsFiniteSet(Holders) /\ limiter.active = Cardinality(Holders)
      /\ q \in Seq(Jobs)
      /\ \A k \in DOMAIN q : job[q[k]].pc = "waiting"
      /\ \A k, l \in DOMAIN q : q[k] = q[l] => k = l
  BY Typed DEF Admission, SlotsFit
<1>2. j \in Holders
  BY DEF Holders
<1>3. Idle \in JobRecs /\ Idle.pc = "idle"
  BY DEF Idle, JobRecs, Pcs, Times
<1>4. \A i \in Jobs : /\ [job[i] EXCEPT !.pc = "granted"] \in JobRecs
                      /\ [job[i] EXCEPT !.pc = "granted"].pc = "granted"
  BY <1>1 DEF JobRecs, Pcs
<1>5. CASE q = <<>>
  <2>1. /\ limiter' = [limiter EXCEPT !.active = @ - 1]
        /\ job' = [i \in Jobs |-> IF i = j THEN Idle ELSE job[i]]
    BY <1>5 DEF Release
  <2>2. job' \in [Jobs -> JobRecs] /\ job'[j] = Idle /\ \A i \in Jobs : i # j => job'[i] = job[i]
    BY <1>1, <1>3, <2>1
  <2>3. Holders' = Holders \ {j}
    BY <1>3, <2>2 DEF Holders, Holding
  <2>4. IsFiniteSet(Holders') /\ Cardinality(Holders') = limiter.active - 1
        /\ Cardinality(Holders') \in Nat
    BY <1>1, <1>2, <2>3, FS_RemoveElement, FS_CardinalityType
  <2>5. /\ limiter' \in [active : Nat, waiting : Seq(Jobs)] /\ limiter'.waiting = q
        /\ limiter'.active = limiter.active - 1
    BY <1>1, <2>1, <2>4
  <2>6. DOMAIN q = {}
    BY <1>1, <1>5
  <2> QED BY <2>2, <2>4, <2>5, <2>6 DEF OthersStay, SlotsFit
<1>6. CASE q # <<>>
  <2> DEFINE h == Head(q)
  <2>1. /\ limiter' = [limiter EXCEPT !.waiting = Tail(@)]
        /\ job' = [i \in Jobs |-> IF i = j THEN Idle
                                  ELSE IF i = h THEN [job[i] EXCEPT !.pc = "granted"] ELSE job[i]]
    BY <1>6 DEF Release
  <2>2. /\ h = q[1] /\ 1 \in DOMAIN q /\ h \in Jobs /\ Tail(q) \in Seq(Jobs)
        /\ DOMAIN q = 1..Len(q) /\ Len(q) \in Nat
        /\ \A k \in DOMAIN Tail(q) : k + 1 \in DOMAIN q /\ Tail(q)[k] = q[k + 1]
    BY <1>1, <1>6, SeqParts
  <2>3. job[h].pc = "waiting" /\ h # j
    BY <1>1, <1>2, <2>2 DEF Holders, Holding
  <2>4. /\ job' \in [Jobs -> JobRecs] /\ job'[j] = Idle
        /\ job'[h] = [job[h] EXCEPT !.pc = "granted"] /\ job'[h].pc = "granted"
        /\ \A i \in Jobs \ {j, h} : job'[i] = job[i]
    BY <1>1, <1>3, <1>4, <2>1, <2>2, <2>3
  <2>5. Holders' = (Holders \ {j}) \cup {h}
    BY <1>3, <2>2, <2>3, <2>4 DEF Holders, Holding
  <2>6. h \notin Holders
    BY <2>3 DEF Holders, Holding
  <2>7. IsFiniteSet(Holders') /\ Cardinality(Holders') = limiter.active
    <3>1. IsFiniteSet(Holders \ {j}) /\ Cardinality(Holders \ {j}) = limiter.active - 1
      BY <1>1, <1>2, FS_RemoveElement
    <3>2. IsFiniteSet(Holders') /\ Cardinality(Holders') = limiter.active - 1 + 1
      BY <2>5, <2>6, <3>1, FS_AddElement
    <3>3. limiter.active \in Nat
      BY <1>1
    <3> QED BY <3>2, <3>3
  <2>8. /\ limiter' \in [active : Nat, waiting : Seq(Jobs)] /\ limiter'.waiting = Tail(q)
        /\ limiter'.active = limiter.active
    BY <1>1, <2>1, <2>2
  <2>9. DOMAIN Tail(q) \subseteq Nat /\ \A k \in DOMAIN Tail(q) : k >= 1
    BY <2>2, SeqParts
  <2>10. \A k \in DOMAIN Tail(q) : job'[Tail(q)[k]].pc = "waiting"
    <3> TAKE k \in DOMAIN Tail(q)
    <3>1. k + 1 # 1 /\ q[k + 1] # h /\ job[q[k + 1]].pc = "waiting" /\ q[k + 1] \in Jobs
      BY <1>1, <2>2, <2>9, SeqParts
    <3>2. q[k + 1] # j
      BY <1>2, <3>1 DEF Holders, Holding
    <3> QED BY <2>2, <2>4, <3>1, <3>2
  <2>11. \A k, l \in DOMAIN Tail(q) : Tail(q)[k] = Tail(q)[l] => k = l
    <3> TAKE k, l \in DOMAIN Tail(q)
    <3>1. Tail(q)[k] = Tail(q)[l] => k + 1 = l + 1
      BY <1>1, <2>2
    <3> QED BY <2>9, <3>1
  <2> QED BY <2>3, <2>4, <2>7, <2>8, <2>10, <2>11 DEF OthersStay, SlotsFit
<1> QED BY <1>5, <1>6

(* A job that keeps its slot, or had none and waits for none, changes no slot. *)
LEMMA SlotKept ==
  ASSUME Admission, NEW j \in Jobs, limiter' = limiter,
         \A i \in Jobs : i # j => job'[i] = job[i],
         Holding(j)' <=> Holding(j), job[j].pc # "waiting"
  PROVE  SlotsFit'
<1>1. Holders' = Holders
  BY DEF Holders, Holding
<1>2. limiter.waiting \in Seq(Jobs)
  BY Typed DEF Admission
<1>3. \A k \in DOMAIN limiter.waiting : limiter.waiting[k] # j /\ limiter.waiting[k] \in Jobs
  BY <1>2, SeqParts DEF Admission, SlotsFit
<1> QED BY <1>1, <1>3 DEF Admission, SlotsFit

-------------------------------------------------------------------------------
(* The claims, the runner's map and the times, whatever a step does to jobs. *)

(* What a step does to the claims: none changes, one is freed or one taken. *)
ClaimStep(j) ==
  \/ /\ claimed' = claimed /\ job'[j].agent = job[j].agent
     /\ job'[j].pc = "idle" <=> job[j].pc = "idle"
  \/ /\ claimed' = claimed \ {job[j].agent} /\ job[j].pc # "idle" /\ job'[j] = Idle
  \/ /\ job[j].pc = "idle" /\ job'[j].pc # "idle" /\ job'[j].agent \in Agents \ claimed
     /\ claimed' = claimed \cup {job'[j].agent}

(* What that means for each of the others. *)
LEMMA OtherJobs ==
  ASSUME Admission, NEW j \in Jobs, OthersStay(j), NEW i \in Jobs, i # j
  PROVE  /\ job'[i].agent = job[i].agent /\ job'[i].at = job[i].at
         /\ job'[i].since = job[i].since /\ job'[i].wake = job[i].wake
         /\ \/ job'[i].pc = job[i].pc
            \/ job[i].pc = "waiting" /\ job'[i].pc = "granted"
<1>1. job[i] \in JobRecs
  BY Typed DEF Admission
<1>2. CASE job'[i] = job[i]
  BY <1>2
<1>3. CASE job[i].pc = "waiting" /\ job'[i] = [job[i] EXCEPT !.pc = "granted"]
  BY <1>1, <1>3 DEF JobRecs
<1> QED BY <1>2, <1>3 DEF OthersStay

LEMMA ClaimsKept ==
  ASSUME Admission, NEW j \in Jobs, OthersStay(j), ClaimStep(j),
         \A a \in claimed' : seen'[a].start # NoTime
  PROVE  ClaimsFit'
<1>1. /\ ClaimsFit /\ job \in [Jobs -> JobRecs] /\ NoAgent \notin Agents /\ claimed \subseteq Agents
  BY Typed DEF Admission
<1>2. \A i \in Jobs : i # j => /\ job'[i].agent = job[i].agent
                               /\ job'[i].pc = "idle" <=> job[i].pc = "idle"
  BY OtherJobs
<1>3. Idle.agent = NoAgent /\ Idle.pc = "idle"
  BY DEF Idle
<1>4. CASE /\ claimed' = claimed /\ job'[j].agent = job[j].agent
           /\ job'[j].pc = "idle" <=> job[j].pc = "idle"
  <2>1. \A i \in Jobs : /\ job'[i].agent = job[i].agent
                        /\ job'[i].pc = "idle" <=> job[i].pc = "idle"
    BY <1>2, <1>4
  <2> QED BY <1>1, <1>4, <2>1 DEF ClaimsFit
<1>5. CASE claimed' = claimed \ {job[j].agent} /\ job[j].pc # "idle" /\ job'[j] = Idle
  <2>1. \A i \in Jobs : job'[i].pc = "idle" <=> job'[i].agent = NoAgent
    BY <1>1, <1>2, <1>3, <1>5 DEF ClaimsFit
  <2>2. job[j].agent # NoAgent
    BY <1>1, <1>5 DEF ClaimsFit
  <2>3. \A i \in Jobs : job'[i].agent # NoAgent =>
          i # j /\ job[i].agent \in claimed /\ job[i].agent # job[j].agent
    BY <1>1, <1>2, <1>3, <1>5, <2>2 DEF ClaimsFit
  <2>4. \A i \in Jobs : job'[i].agent # NoAgent => job'[i].agent \in claimed'
    BY <1>2, <1>5, <2>3
  <2>5. \A a \in claimed' : \E i \in Jobs : job'[i].agent = a
    <3> TAKE a \in claimed'
    <3>1. PICK i \in Jobs : job[i].agent = a
      BY <1>1, <1>5 DEF ClaimsFit
    <3>2. i # j
      BY <1>5, <3>1
    <3> QED BY <1>2, <3>1, <3>2
  <2>6. \A i, k \in Jobs : job'[i].agent = job'[k].agent /\ job'[i].agent # NoAgent => i = k
    BY <1>1, <1>2, <2>3 DEF ClaimsFit
  <2> QED BY <2>1, <2>4, <2>5, <2>6 DEF ClaimsFit
<1>6. CASE /\ job[j].pc = "idle" /\ job'[j].pc # "idle" /\ job'[j].agent \in Agents \ claimed
           /\ claimed' = claimed \cup {job'[j].agent}
  <2>1. \A i \in Jobs : job'[i].pc = "idle" <=> job'[i].agent = NoAgent
    BY <1>1, <1>2, <1>6 DEF ClaimsFit
  <2>2. \A i \in Jobs : job'[i].agent # NoAgent => job'[i].agent \in claimed'
    BY <1>1, <1>2, <1>6 DEF ClaimsFit
  <2>3. \A i \in Jobs : i # j => job'[i].agent # job'[j].agent
    BY <1>1, <1>2, <1>6 DEF ClaimsFit
  <2>4. \A a \in claimed' : \E i \in Jobs : job'[i].agent = a
    <3> TAKE a \in claimed'
    <3>1. CASE a = job'[j].agent
      BY <3>1
    <3>2. CASE a \in claimed
      <4>1. PICK i \in Jobs : job[i].agent = a
        BY <1>1, <3>2 DEF ClaimsFit
      <4>2. i # j
        BY <1>1, <1>6, <3>2, <4>1 DEF ClaimsFit
      <4> QED BY <1>2, <4>1, <4>2
    <3> QED BY <1>6, <3>1, <3>2
  <2>5. \A i, k \in Jobs : job'[i].agent = job'[k].agent /\ job'[i].agent # NoAgent => i = k
    BY <1>1, <1>2, <2>3 DEF ClaimsFit
  <2> QED BY <2>1, <2>2, <2>4, <2>5 DEF ClaimsFit
<1> QED BY <1>4, <1>5, <1>6 DEF ClaimStep

(* What it does to the runner's map, unless it starts or ends a manual run. *)
RunStep(j) ==
  \/ running' = running /\ job[j].pc # "running" /\ job'[j].pc # "running"
  \/ /\ running' = running \cup {job[j].agent} /\ job[j].agent \in Agents \ running
     /\ job'[j].pc = "running" /\ job'[j].agent = job[j].agent
  \/ /\ running' = running \ {job[j].agent} /\ job[j].pc = "running" /\ job'[j].pc # "running"

LEMMA RunsKept ==
  ASSUME Admission, NEW j \in Jobs, OthersStay(j), manual' = manual, RunStep(j)
  PROVE  RunsFit'
<1>1. /\ RunsFit /\ ClaimsFit /\ job \in [Jobs -> JobRecs]
      /\ NoAgent \notin Agents /\ running \subseteq Agents
  BY Typed DEF Admission
<1>2. \A i \in Jobs : i # j => /\ job'[i].agent = job[i].agent
                               /\ job'[i].pc = "running" <=> job[i].pc = "running"
  BY OtherJobs
<1>3. CASE running' = running /\ job[j].pc # "running" /\ job'[j].pc # "running"
  <2>1. \A i \in Jobs : /\ job'[i].pc = "running" <=> job[i].pc = "running"
                        /\ job[i].pc = "running" => job'[i].agent = job[i].agent
    BY <1>2, <1>3
  <2> QED BY <1>1, <1>3, <2>1 DEF RunsFit
<1>4. CASE /\ running' = running \cup {job[j].agent} /\ job[j].agent \in Agents \ running
           /\ job'[j].pc = "running" /\ job'[j].agent = job[j].agent
  <2>1. /\ \A i \in Jobs : job'[i].pc = "running" => job'[i].agent \in running'
        /\ \A r \in Requests : manual[r].agent # NoAgent => manual[r].agent \in running'
    BY <1>1, <1>2, <1>4 DEF RunsFit
  <2>2. \A r \in Requests : manual[r].agent # job[j].agent
    BY <1>1, <1>4 DEF RunsFit
  <2>3. \A i \in Jobs, r \in Requests : job'[i].pc = "running" => manual[r].agent # job'[i].agent
    BY <1>1, <1>2, <1>4, <2>2 DEF RunsFit
  <2>4. \A a \in running' : \/ \E i \in Jobs : job'[i].pc = "running" /\ job'[i].agent = a
                            \/ \E r \in Requests : manual[r].agent = a
    <3> TAKE a \in running'
    <3>1. CASE a = job[j].agent
      BY <1>4, <3>1
    <3>2. CASE a \in running
      <4>1. ASSUME NEW i \in Jobs, job[i].pc = "running", job[i].agent = a
            PROVE  i # j
        BY <1>4, <3>2, <4>1
      <4> QED BY <1>1, <1>2, <3>2, <4>1 DEF RunsFit
    <3> QED BY <1>4, <3>1, <3>2
  <2> QED BY <1>1, <2>1, <2>3, <2>4 DEF RunsFit
<1>5. CASE running' = running \ {job[j].agent} /\ job[j].pc = "running" /\ job'[j].pc # "running"
  <2>1. job[j].agent \in running /\ job[j].agent # NoAgent
    BY <1>1, <1>5 DEF RunsFit
  <2>2. \A i \in Jobs : i # j => job[i].agent # job[j].agent
    BY <1>1, <2>1 DEF ClaimsFit
  <2>3. /\ \A i \in Jobs : job'[i].pc = "running" => job'[i].agent \in running'
        /\ \A r \in Requests : manual[r].agent # NoAgent => manual[r].agent \in running'
        /\ \A i \in Jobs, r \in Requests : job'[i].pc = "running" => manual[r].agent # job'[i].agent
    BY <1>1, <1>2, <1>5, <2>2 DEF RunsFit
  <2>4. \A a \in running' : \/ \E i \in Jobs : job'[i].pc = "running" /\ job'[i].agent = a
                            \/ \E r \in Requests : manual[r].agent = a
    BY <1>1, <1>2, <1>5 DEF RunsFit
  <2> QED BY <1>1, <2>3, <2>4 DEF RunsFit
<1> QED BY <1>3, <1>4, <1>5 DEF RunStep

LEMMA TimesKept ==
  ASSUME Admission, NEW j \in Jobs, OthersStay(j), manual' = manual, now' = now,
         job'[j].pc \in {"watching", "guarding", "running"} => job'[j].at \in 0..now,
         job'[j].pc = "running" => job'[j].since \in 0..now
  PROVE  TimesFit'
<1>1. TimesFit /\ job \in [Jobs -> JobRecs]
  BY Typed DEF Admission
<1>2. \A i \in Jobs : i # j =>
        /\ job'[i].pc \in {"watching", "guarding", "running"} => job'[i].at \in 0..now
        /\ job'[i].pc = "running" => job'[i].since \in 0..now
  BY <1>1, OtherJobs DEF TimesFit
<1> QED BY <1>1, <1>2 DEF TimesFit

-------------------------------------------------------------------------------
(* What every step of a job does. *)
JobMoves(j) ==
  /\ job' \in [Jobs -> JobRecs] /\ seen' \in [Agents -> SeenRecs]
  /\ guard' \in [Agents -> GuardRecs] /\ limiter' \in [active : Nat, waiting : Seq(Jobs)]
  /\ log' \in [Agents -> Seq(LogRecs)] /\ begun' \in [Agents -> Seq(BegunRecs)]
  /\ UNCHANGED <<now, standing, manual>>
  /\ OthersStay(j) /\ ClaimStep(j) /\ RunStep(j)
  /\ \A a \in claimed' : seen'[a].start # NoTime
  /\ job'[j].pc \in {"watching", "guarding", "running"} => job'[j].at \in 0..now
  /\ job'[j].pc = "running" => job'[j].since \in 0..now
  /\ SlotsFit'

LEMMA JobMovesAdmit ==
  ASSUME Admission, NEW j \in Jobs, JobMoves(j)
  PROVE  Admission'
<1>1. ClaimsFit' /\ RunsFit' /\ TimesFit'
  BY ClaimsKept, RunsKept, TimesKept DEF JobMoves
<1>2. claimed \subseteq Agents /\ running \subseteq Agents /\ now \in 0..MaxTime
      /\ manual \in [Requests -> [agent : Agents \cup {NoAgent}, since : Times]]
      /\ standing \in [Agents -> {"active", "archived", "revoked"}]
  BY Typed DEF Admission
<1>3. claimed' \subseteq Agents /\ running' \subseteq Agents
  BY <1>2 DEF JobMoves, ClaimStep, RunStep
<1>4. TypeOK'
  BY <1>2, <1>3, TypedNext DEF JobMoves
<1> QED BY <1>1, <1>4 DEF Admission, JobMoves

LEMMA LastRunTyped ==
  ASSUME TypeOK, NEW a \in Agents, log[a] # <<>>
  PROVE  LastRun(a) \in 0..MaxTime /\ LastRun(a) \in Int
<1>1. log[a] \in Seq(LogRecs) /\ MaxTime \in Nat
  BY Typed, ScheduleAssumption
<1>2. log[a][Len(log[a])] \in LogRecs
  BY <1>1, SeqParts
<1> QED BY <1>1, <1>2 DEF LogRecs, LastRun

LEMMA LoggedTodayTyped ==
  ASSUME TypeOK, NEW a \in Agents
  PROVE  LoggedToday(a) \in Nat
  BY Typed, PlacesFinite DEF LoggedToday

LEMMA DayTyped ==
  ASSUME NEW t \in Nat
  PROVE  Day(t) \in Nat /\ Day(t) \in Times /\ Day(t) # NoTime
  BY ScheduleAssumption DEF Day, Times

(* What the scheduler and the guard know of an agent they have asked about. *)
LEMMA SeededParts ==
  ASSUME TypeOK, NEW a \in Agents, NEW seed \in Seeded(a)
  PROVE  /\ seed.seen \in SeenRecs /\ seed.guard \in GuardRecs
         /\ seed.seen.start # NoTime
         /\ seen[a].start # NoTime => seed.seen = seen[a] /\ seed.guard = guard[a]
         /\ seen[a].start = NoTime =>
              /\ seed.seen.wake = seen[a].wake
              /\ log[a] # <<>> => seed.seen.start = LastRun(a)
              /\ seed.guard = IF LoggedToday(a) = 0 THEN guard[a]
                               ELSE [guard[a] EXCEPT !.day = Day(now), !.count = LoggedToday(a)]
<1>1. /\ seen[a] \in SeenRecs /\ guard[a] \in GuardRecs /\ now \in Nat /\ NoTime \notin Int
      /\ LoggedToday(a) \in Nat /\ Day(now) \in Times
  BY Typed, LoggedTodayTyped, DayTyped
<1>2. CASE seen[a].start # NoTime
  <2>1. seed = [seen |-> seen[a], guard |-> guard[a]]
    BY <1>2 DEF Seeded
  <2> QED BY <1>1, <1>2, <2>1
<1>3. CASE seen[a].start = NoTime
  <2> DEFINE run == IF log[a] = <<>> THEN 0 ELSE LastRun(a)
             grd == IF LoggedToday(a) = 0 THEN guard[a]
                    ELSE [guard[a] EXCEPT !.day = Day(now), !.count = LoggedToday(a)]
  <2>1. PICK s \in SeededStarts(a) :
          seed = [seen |-> [start |-> s, run |-> run, wake |-> seen[a].wake], guard |-> grd]
    BY <1>3 DEF Seeded
  <2>2. s \in Int /\ (log[a] # <<>> => s = LastRun(a))
    <3>1. CASE log[a] # <<>>
      BY <3>1, LastRunTyped DEF SeededStarts
    <3>2. CASE log[a] = <<>>
      <4>1. PICK p \in 0..Spread : s = (now \div Cadence) * Cadence - p
        BY <3>2 DEF SeededStarts
      <4>2. (now \div Cadence) \in Int /\ Cadence \in Int /\ Spread \in Int
        BY <1>1, ScheduleAssumption
      <4>3. p \in Int
        BY <4>2
      <4> QED BY <3>2, <4>1, <4>2, <4>3
    <3> QED BY <3>1, <3>2
  <2>3. run \in Times
    BY LastRunTyped DEF Times
  <2>4. grd \in GuardRecs
    BY <1>1 DEF GuardRecs
  <2>5. [start |-> s, run |-> run, wake |-> seen[a].wake] \in SeenRecs
    BY <1>1, <2>2, <2>3 DEF SeenRecs, Times
  <2> HIDE DEF run, grd
  <2>6. seed.seen = [start |-> s, run |-> run, wake |-> seen[a].wake] /\ seed.guard = grd
    BY <2>1
  <2> QED BY <1>1, <1>3, <2>2, <2>4, <2>5, <2>6 DEF grd
<1> QED BY <1>2, <1>3

(* What a poll makes of an agent: seen, and without a stale wake. *)
LEMMA LookedParts ==
  ASSUME TypeOK, NEW a \in Agents, NEW seed \in Seeded(a), Looks(a, [seed.seen EXCEPT !.wake = LiveWake(a)])
  PROVE  /\ [seed.seen EXCEPT !.wake = LiveWake(a)] \in SeenRecs
         /\ seen' \in [Agents -> SeenRecs] /\ seen'[a] = [seed.seen EXCEPT !.wake = LiveWake(a)]
         /\ seen'[a].start # NoTime /\ seen'[a].wake = LiveWake(a)
         /\ seen'[a].start = seed.seen.start
         /\ LiveWake(a) \in {NoTime, seen[a].wake}
         /\ \A b \in Agents : b # a => seen'[b] = seen[b]
<1>1. seed.seen \in SeenRecs /\ seed.seen.start # NoTime /\ seen \in [Agents -> SeenRecs]
  BY SeededParts, Typed
<1>2. LiveWake(a) \in {NoTime, seen[a].wake} /\ LiveWake(a) \in Times
  BY <1>1 DEF LiveWake, SeenRecs, Times
<1>3. [seed.seen EXCEPT !.wake = LiveWake(a)] \in SeenRecs
  BY <1>1, <1>2 DEF SeenRecs
<1> QED BY <1>1, <1>2, <1>3 DEF Looks, SeenRecs

-------------------------------------------------------------------------------
(* The steps of a job, one by one. *)

(* A job at work has an agent, which is claimed and seen. *)
LEMMA AtWork ==
  ASSUME Admission, NEW j \in Jobs, job[j].pc # "idle"
  PROVE  /\ job[j].agent \in Agents /\ job[j].agent \in claimed /\ job[j].agent # NoAgent
         /\ job[j] \in JobRecs /\ seen[job[j].agent].start # NoTime
         /\ \A i \in Jobs : i # j => job[i].agent # job[j].agent
<1>1. ClaimsFit /\ job[j] \in JobRecs /\ claimed \subseteq Agents
  BY Typed DEF Admission
<1> QED BY <1>1 DEF ClaimsFit

(* What is true of a step that ends a job which holds a slot. *)
Finishes(j) ==
  /\ Holding(j) /\ Finish(j)
  /\ UNCHANGED <<now, standing, manual>>
  /\ seen' \in [Agents -> SeenRecs] /\ guard' \in [Agents -> GuardRecs]
  /\ log' \in [Agents -> Seq(LogRecs)] /\ begun' \in [Agents -> Seq(BegunRecs)]
  /\ \A a \in Agents : seen[a].start # NoTime => seen'[a].start # NoTime
  /\ \/ running' = running /\ job[j].pc # "running"
     \/ running' = running \ {job[j].agent} /\ job[j].pc = "running"

LEMMA FinishMoves ==
  ASSUME Admission, NEW j \in Jobs, Finishes(j)
  PROVE  JobMoves(j) /\ job'[j] = Idle /\ claimed' = claimed \ {job[j].agent}
<1>1. /\ job' \in [Jobs -> JobRecs] /\ limiter' \in [active : Nat, waiting : Seq(Jobs)]
      /\ OthersStay(j) /\ job'[j] = Idle /\ SlotsFit'
  BY ReleaseSlot DEF Finishes, Finish
<1>2. job[j].pc # "idle" /\ claimed' = claimed \ {job[j].agent}
  BY DEF Finishes, Finish, Holding
<1>3. ClaimStep(j)
  BY <1>1, <1>2 DEF ClaimStep
<1>4. job'[j].pc = "idle"
  BY <1>1 DEF Idle
<1>5. RunStep(j)
  BY <1>4 DEF RunStep, Finishes
<1>6. \A a \in claimed' : seen'[a].start # NoTime
  <2>1. claimed' \subseteq claimed /\ claimed \subseteq Agents
    BY <1>2, Typed DEF Admission
  <2>2. \A a \in claimed : seen[a].start # NoTime
    BY DEF Admission, ClaimsFit
  <2> QED BY <2>1, <2>2 DEF Finishes
<1> QED BY <1>1, <1>2, <1>3, <1>4, <1>5, <1>6 DEF JobMoves, Finishes

LEMMA GuardRefusesMoves ==
  ASSUME Admission, NEW j \in Jobs, GuardRefuses(j)
  PROVE  JobMoves(j)
<1>1. job[j].agent \in Agents /\ guard \in [Agents -> GuardRecs] /\ Holding(j)
  BY AtWork, Typed DEF GuardRefuses, Admission, Holding
<1>2. guard' \in [Agents -> GuardRecs]
  BY <1>1 DEF GuardRefuses, GuardRecs, Times
<1>3. Finishes(j)
  BY <1>1, <1>2, Typed DEF GuardRefuses, Finishes, Admission
<1> QED BY <1>3, FinishMoves

LEMMA HeldBackMoves ==
  ASSUME Admission, NEW j \in Jobs, HeldBack(j)
  PROVE  JobMoves(j)
<1>1. Finishes(j)
  BY Typed DEF HeldBack, Holding, Finishes, Admission
<1> QED BY <1>1, FinishMoves

(* A start is recorded. *)
LEMMA StartRecorded ==
  ASSUME Admission, NEW j \in Jobs, job[j].pc = "guarding",
         seen' = [seen EXCEPT ![job[j].agent] = Started(@, job[j].at, job[j].wake)],
         guard' = [guard EXCEPT ![job[j].agent] = Counted(@, job[j].at)]
  PROVE  /\ seen' \in [Agents -> SeenRecs] /\ guard' \in [Agents -> GuardRecs]
         /\ job[j].agent \in Agents /\ job[j].at \in 0..now /\ job[j].at \in 0..MaxTime
         /\ job[j].at \in Nat
         /\ seen'[job[j].agent] = Started(seen[job[j].agent], job[j].at, job[j].wake)
         /\ guard'[job[j].agent] = Counted(guard[job[j].agent], job[j].at)
         /\ \A a \in Agents : a # job[j].agent => seen'[a] = seen[a] /\ guard'[a] = guard[a]
         /\ \A a \in Agents : seen[a].start # NoTime => seen'[a].start # NoTime
<1>1. /\ job[j].agent \in Agents /\ seen \in [Agents -> SeenRecs] /\ guard \in [Agents -> GuardRecs]
      /\ job[j] \in JobRecs /\ now \in 0..MaxTime /\ NoTime \notin Int /\ MaxTime \in Nat
  BY AtWork, Typed, ScheduleAssumption DEF Admission
<1>2. job[j].at \in 0..now
  BY DEF Admission, TimesFit
<1>3. job[j].at \in 0..MaxTime /\ job[j].at \in Nat /\ job[j].at # NoTime
  BY <1>1, <1>2
<1>4. Started(seen[job[j].agent], job[j].at, job[j].wake) \in SeenRecs
  BY <1>1, <1>3 DEF Started, SeenRecs, Times
<1>5. Counted(guard[job[j].agent], job[j].at) \in GuardRecs
  <2>1. Day(job[j].at) \in Times /\ guard[job[j].agent] \in GuardRecs
    BY <1>1, <1>3, DayTyped
  <2>2. (IF guard[job[j].agent].day = Day(job[j].at) THEN guard[job[j].agent].count + 1 ELSE 1) \in Nat
    BY <2>1 DEF GuardRecs
  <2> QED BY <2>1, <2>2 DEF Counted, GuardRecs
<1>6. \A a \in Agents : seen[a].start # NoTime => seen'[a].start # NoTime
  BY <1>1, <1>3 DEF Started
<1> QED BY <1>1, <1>2, <1>3, <1>4, <1>5, <1>6

LEMMA RunRefusedMoves ==
  ASSUME Admission, NEW j \in Jobs, RunRefused(j)
  PROVE  JobMoves(j)
<1>1. /\ seen' \in [Agents -> SeenRecs] /\ guard' \in [Agents -> GuardRecs]
      /\ \A a \in Agents : seen[a].start # NoTime => seen'[a].start # NoTime
  BY StartRecorded DEF RunRefused
<1>2. Finishes(j)
  BY <1>1, Typed DEF RunRefused, Holding, Finishes, Admission
<1> QED BY <1>2, FinishMoves

(* A run that is open may be closed, and logged. *)
LEMMA ClosedTyped ==
  ASSUME TypeOK, NEW a \in Agents, NEW end \in Ends, Closed(a, end)
  PROVE  begun' \in [Agents -> Seq(BegunRecs)]
<1> DEFINE n == Len(begun[a])
           runs == [begun[a] EXCEPT ![n].end = end]
<1>1. begun[a] \in Seq(BegunRecs) /\ begun \in [Agents -> Seq(BegunRecs)]
  BY Typed
<1>2. DOMAIN begun[a] = 1..n /\ n \in Nat /\ \A i \in DOMAIN begun[a] : begun[a][i] \in BegunRecs
  BY <1>1, SeqParts
<1>3. \A i \in 1..n : [begun[a][i] EXCEPT !.end = end] \in BegunRecs
  BY <1>2 DEF BegunRecs
<1>4. runs \in [1..n -> BegunRecs]
  BY <1>1, <1>2, <1>3
<1>5. runs \in Seq(BegunRecs)
  BY <1>2, <1>4
<1> QED BY <1>1, <1>5 DEF Closed

LEMMA LoggedTyped ==
  ASSUME TypeOK, NEW a \in Agents, NEW since \in 0..MaxTime, NEW trigger \in {"schedule", "manual"},
         Logged(a, since, trigger)
  PROVE  log' \in [Agents -> Seq(LogRecs)]
<1>1. [at |-> since, trigger |-> trigger] \in LogRecs /\ log \in [Agents -> Seq(LogRecs)]
  BY Typed DEF LogRecs
<1>2. Append(log[a], [at |-> since, trigger |-> trigger]) \in Seq(LogRecs)
  BY <1>1, Added
<1> QED BY <1>1, <1>2 DEF Logged

LEMMA RunningTimes ==
  ASSUME Admission, NEW j \in Jobs, job[j].pc = "running"
  PROVE  job[j].since \in 0..now /\ job[j].since \in 0..MaxTime /\ job[j].at \in 0..now
  BY Typed, ScheduleAssumption DEF Admission, TimesFit

LEMMA RunThrowsMoves ==
  ASSUME Admission, NEW j \in Jobs, RunThrows(j)
  PROVE  JobMoves(j)
<1>1. begun' \in [Agents -> Seq(BegunRecs)]
  BY ClosedTyped, AtWork DEF RunThrows, Admission, Ends
<1>2. Finishes(j)
  BY <1>1, Typed DEF RunThrows, Holding, Finishes, Admission
<1> QED BY <1>2, FinishMoves

LEMMA RunEndsMoves ==
  ASSUME Admission, NEW j \in Jobs, RunEnds(j)
  PROVE  JobMoves(j)
<1>1. begun' \in [Agents -> Seq(BegunRecs)]
  BY ClosedTyped, AtWork DEF RunEnds, Admission, Ends
<1>2. log' \in [Agents -> Seq(LogRecs)]
  BY LoggedTyped, AtWork, RunningTimes DEF RunEnds, Admission
<1>3. Finishes(j)
  BY <1>1, <1>2, Typed DEF RunEnds, Holding, Finishes, Admission
<1> QED BY <1>3, FinishMoves

LEMMA PauseSetMoves ==
  ASSUME Admission, NEW j \in Jobs, PauseSet(j)
  PROVE  JobMoves(j)
<1>1. /\ job[j].agent \in Agents /\ guard \in [Agents -> GuardRecs]
      /\ now \in Nat /\ MaxTime \in Nat
  BY AtWork, Typed, ScheduleAssumption DEF PauseSet, Admission
<1>2. guard' \in [Agents -> GuardRecs]
  <2>1. PICK until \in {NoTime} \cup (now + 1)..(MaxTime + 1) :
          guard' = [guard EXCEPT ![job[j].agent].until = IF until = NoTime THEN @ ELSE until]
    BY DEF PauseSet
  <2>2. until \in Times
    BY <1>1 DEF Times
  <2> QED BY <1>1, <2>1, <2>2 DEF GuardRecs
<1>3. Finishes(j)
  BY <1>2, Typed DEF PauseSet, Holding, Finishes, Admission
<1> QED BY <1>3, FinishMoves

LEMMA WatchQuietMoves ==
  ASSUME Admission, NEW j \in Jobs, WatchQuiet(j)
  PROVE  JobMoves(j)
<1> DEFINE a == job[j].agent
<1>1. /\ a \in Agents /\ job[j].pc = "watching" /\ job \in [Jobs -> JobRecs]
      /\ seen \in [Agents -> SeenRecs] /\ job[j].at \in 0..now /\ now \in Nat /\ NoTime \notin Int
  BY AtWork, Typed DEF WatchQuiet, Admission, TimesFit
<1>2. job[j].at \in Times /\ job[j].at # NoTime
  BY <1>1 DEF Times
<1>3. /\ seen' \in [Agents -> SeenRecs] /\ seen'[a].start # NoTime
      /\ \A b \in Agents : b # a => seen'[b] = seen[b]
  BY <1>1, <1>2 DEF WatchQuiet, SeenRecs
<1>4. Idle \in JobRecs /\ Idle.pc = "idle"
  BY DEF Idle, JobRecs, Pcs, Times
<1>5. job' \in [Jobs -> JobRecs] /\ job'[j] = Idle /\ \A i \in Jobs : i # j => job'[i] = job[i]
  BY <1>1, <1>4 DEF WatchQuiet
<1>6. SlotsFit'
  BY <1>1, <1>4, <1>5, SlotKept DEF WatchQuiet, Holding
<1>7. OthersStay(j) /\ ClaimStep(j) /\ RunStep(j)
  BY <1>1, <1>4, <1>5 DEF OthersStay, ClaimStep, RunStep, WatchQuiet
<1>8. \A b \in claimed' : seen'[b].start # NoTime
  BY <1>1, <1>3, Typed DEF WatchQuiet, Admission, ClaimsFit
<1> QED BY <1>3, <1>4, <1>5, <1>6, <1>7, <1>8, Typed DEF JobMoves, WatchQuiet, Admission

LEMMA WatchFailsMoves ==
  ASSUME Admission, NEW j \in Jobs, WatchFails(j)
  PROVE  JobMoves(j)
<1>1. job[j].pc = "watching" /\ job \in [Jobs -> JobRecs] /\ claimed \subseteq Agents
  BY Typed DEF WatchFails, Admission
<1>2. Idle \in JobRecs /\ Idle.pc = "idle"
  BY DEF Idle, JobRecs, Pcs, Times
<1>3. job' \in [Jobs -> JobRecs] /\ job'[j] = Idle /\ \A i \in Jobs : i # j => job'[i] = job[i]
  BY <1>1, <1>2 DEF WatchFails
<1>4. SlotsFit'
  BY <1>1, <1>2, <1>3, SlotKept DEF WatchFails, Holding
<1>5. OthersStay(j) /\ ClaimStep(j) /\ RunStep(j)
  BY <1>1, <1>2, <1>3 DEF OthersStay, ClaimStep, RunStep, WatchFails
<1>6. \A b \in claimed' : seen'[b].start # NoTime
  BY <1>1 DEF WatchFails, Admission, ClaimsFit
<1> QED BY <1>2, <1>3, <1>4, <1>5, <1>6, Typed DEF JobMoves, WatchFails, Admission

LEMMA WatchWakesMoves ==
  ASSUME Admission, NEW j \in Jobs, WatchWakes(j)
  PROVE  /\ JobMoves(j) /\ \A i \in Jobs : i # j => job'[i] = job[i]
         /\ job'[j].pc \in {"granted", "waiting"} /\ job'[j].wake = job[j].at
         /\ job'[j].agent = job[j].agent /\ job[j].at \in 0..now
<1> DEFINE a == job[j].agent
           x == [job[j] EXCEPT !.wake = job[j].at]
<1>1. /\ a \in Agents /\ job[j].pc = "watching" /\ job[j] \in JobRecs
      /\ seen \in [Agents -> SeenRecs] /\ job[j].at \in 0..now /\ now \in Nat /\ NoTime \notin Int
  BY AtWork, Typed DEF WatchWakes, Admission, TimesFit
<1>2. job[j].at \in Times /\ job[j].at # NoTime
  BY <1>1 DEF Times
<1>3. /\ seen' \in [Agents -> SeenRecs] /\ seen'[a].start # NoTime
      /\ \A b \in Agents : b # a => seen'[b] = seen[b]
  BY <1>1, <1>2 DEF WatchWakes, SeenRecs
<1>4. x \in JobRecs /\ x.agent = a /\ x.wake = job[j].at
  BY <1>1, <1>2 DEF JobRecs
<1> HIDE DEF x
<1>5. Acquire(j, x)
  BY DEF WatchWakes, x
<1>6. /\ job' \in [Jobs -> JobRecs] /\ limiter' \in [active : Nat, waiting : Seq(Jobs)]
      /\ \A i \in Jobs : i # j => job'[i] = job[i]
      /\ \E pc \in {"granted", "waiting"} : job'[j] = [x EXCEPT !.pc = pc]
      /\ SlotsFit'
  BY <1>1, <1>4, <1>5, AcquireSlot
<1>7. job'[j].pc \in {"granted", "waiting"} /\ job'[j].agent = a /\ job'[j].wake = job[j].at
  BY <1>4, <1>6 DEF JobRecs
<1>8. OthersStay(j) /\ ClaimStep(j) /\ RunStep(j)
  BY <1>1, <1>6, <1>7 DEF OthersStay, ClaimStep, RunStep, WatchWakes
<1>9. \A b \in claimed' : seen'[b].start # NoTime
  BY <1>1, <1>3, Typed DEF WatchWakes, Admission, ClaimsFit
<1> QED BY <1>1, <1>3, <1>6, <1>7, <1>8, <1>9, Typed DEF JobMoves, WatchWakes, Admission

(* A job that keeps its slot moves on. *)
Continues(j, x) ==
  /\ Holding(j) /\ x.pc \in {"guarding", "running", "ending"}
  /\ job' = [job EXCEPT ![j] = x] /\ x.agent = job[j].agent
  /\ UNCHANGED <<now, standing, manual, limiter, claimed>>
  /\ seen' \in [Agents -> SeenRecs] /\ guard' \in [Agents -> GuardRecs]
  /\ log' \in [Agents -> Seq(LogRecs)] /\ begun' \in [Agents -> Seq(BegunRecs)]
  /\ \A a \in Agents : seen[a].start # NoTime => seen'[a].start # NoTime
  /\ x.pc \in {"guarding", "running"} => x.at \in 0..now
  /\ x.pc = "running" => x.since \in 0..now
  /\ \/ running' = running /\ "running" \notin {job[j].pc, x.pc}
     \/ running' = running \cup {x.agent} /\ x.agent \in Agents \ running /\ x.pc = "running"
     \/ running' = running \ {x.agent} /\ job[j].pc = "running" /\ x.pc # "running"

LEMMA ContinueMoves ==
  ASSUME Admission, NEW j \in Jobs, NEW x \in JobRecs, Continues(j, x)
  PROVE  JobMoves(j) /\ job'[j] = x /\ \A i \in Jobs : i # j => job'[i] = job[i]
<1>1. job \in [Jobs -> JobRecs] /\ claimed \subseteq Agents
  BY Typed DEF Admission
<1>2. job' \in [Jobs -> JobRecs] /\ job'[j] = x /\ \A i \in Jobs : i # j => job'[i] = job[i]
  BY <1>1 DEF Continues
<1>3. SlotsFit'
  BY <1>2, SlotKept DEF Continues, Holding
<1>4. OthersStay(j) /\ ClaimStep(j) /\ RunStep(j)
  BY <1>2 DEF OthersStay, ClaimStep, RunStep, Continues, Holding
<1>5. \A b \in claimed' : seen'[b].start # NoTime
  BY <1>1 DEF Continues, Admission, ClaimsFit
<1>6. limiter' \in [active : Nat, waiting : Seq(Jobs)]
  BY Typed DEF Continues, Admission
<1> QED BY <1>2, <1>3, <1>4, <1>5, <1>6 DEF JobMoves, Continues

LEMMA GuardAsksMoves ==
  ASSUME Admission, NEW j \in Jobs, GuardAsks(j)
  PROVE  /\ JobMoves(j) /\ \A i \in Jobs : i # j => job'[i] = job[i]
         /\ job'[j].pc = "guarding" /\ job'[j].at = now
         /\ job'[j].agent = job[j].agent /\ job'[j].wake = job[j].wake
<1> DEFINE x == [job[j] EXCEPT !.pc = "guarding", !.at = now]
<1>1. /\ job[j] \in JobRecs /\ now \in Nat /\ guard \in [Agents -> GuardRecs]
      /\ job[j].pc = "granted" /\ job[j].agent \in Agents
  BY AtWork, Typed DEF GuardAsks, Admission
<1>2. /\ x \in JobRecs /\ x.pc = "guarding" /\ x.at = now /\ x.agent = job[j].agent
      /\ x.wake = job[j].wake
  <2>1. now \in Times /\ "guarding" \in Pcs
    BY <1>1 DEF Times, Pcs
  <2> QED BY <1>1, <2>1 DEF JobRecs
<1>3. guard' \in [Agents -> GuardRecs]
  BY <1>1 DEF GuardAsks, GuardRecs, Times
<1>4. Continues(j, x)
  <2>1. job' = [job EXCEPT ![j] = x]
    BY DEF GuardAsks
  <2> HIDE DEF x
  <2>2. x.at \in 0..now
    BY <1>1, <1>2
  <2> QED BY <1>1, <1>2, <1>3, <2>1, <2>2, Typed DEF GuardAsks, Continues, Holding, Admission
<1> HIDE DEF x
<1> QED BY <1>2, <1>4, ContinueMoves

LEMMA RunStartsMoves ==
  ASSUME Admission, NEW j \in Jobs, RunStarts(j)
  PROVE  /\ JobMoves(j) /\ \A i \in Jobs : i # j => job'[i] = job[i]
         /\ job'[j].pc = "running" /\ job'[j].since = now
         /\ job'[j].agent = job[j].agent /\ job'[j].at = job[j].at
<1> DEFINE x == [job[j] EXCEPT !.pc = "running", !.since = now]
           a == job[j].agent
<1>1. /\ job[j] \in JobRecs /\ now \in Nat /\ a \in Agents /\ job[j].pc = "guarding"
      /\ begun \in [Agents -> Seq(BegunRecs)]
  BY AtWork, Typed DEF RunStarts, Admission
<1>2. /\ x \in JobRecs /\ x.pc = "running" /\ x.at = job[j].at /\ x.agent = a /\ x.since = now
  <2>1. now \in Times /\ "running" \in Pcs
    BY <1>1 DEF Times, Pcs
  <2> QED BY <1>1, <2>1 DEF JobRecs
<1>3. /\ seen' \in [Agents -> SeenRecs] /\ guard' \in [Agents -> GuardRecs]
      /\ job[j].at \in 0..now /\ job[j].at \in 0..MaxTime
      /\ \A b \in Agents : seen[b].start # NoTime => seen'[b].start # NoTime
  BY StartRecorded DEF RunStarts
<1>4. begun' \in [Agents -> Seq(BegunRecs)]
  <2>1. [at |-> job[j].at, end |-> "open"] \in BegunRecs
    BY <1>3 DEF BegunRecs, Ends
  <2>2. Append(begun[a], [at |-> job[j].at, end |-> "open"]) \in Seq(BegunRecs)
    BY <1>1, <2>1, Added
  <2> QED BY <1>1, <2>2 DEF RunStarts
<1>5. Continues(j, x)
  <2>1. job' = [job EXCEPT ![j] = x]
    BY DEF RunStarts
  <2> HIDE DEF x
  <2>2. now \in 0..now
    BY <1>1
  <2> QED BY <1>1, <1>2, <1>3, <1>4, <2>1, <2>2, Typed DEF RunStarts, Continues, Holding, Admission
<1> HIDE DEF x
<1> QED BY <1>2, <1>5, ContinueMoves

LEMMA RunExhaustsMoves ==
  ASSUME Admission, NEW j \in Jobs, RunExhausts(j)
  PROVE  /\ JobMoves(j) /\ \A i \in Jobs : i # j => job'[i] = job[i]
         /\ job'[j].pc = "ending" /\ job'[j].agent = job[j].agent
<1> DEFINE x == [job[j] EXCEPT !.pc = "ending"]
           a == job[j].agent
<1>1. /\ job[j] \in JobRecs /\ a \in Agents /\ job[j].pc = "running" /\ job \in [Jobs -> JobRecs]
  BY AtWork, Typed DEF RunExhausts, Admission
<1>2. x \in JobRecs /\ x.pc = "ending" /\ x.agent = a
  BY <1>1 DEF JobRecs, Pcs
<1>3. begun' \in [Agents -> Seq(BegunRecs)]
  BY ClosedTyped, AtWork DEF RunExhausts, Admission, Ends
<1>4. log' \in [Agents -> Seq(LogRecs)]
  BY LoggedTyped, AtWork, RunningTimes DEF RunExhausts, Admission
<1>5. Continues(j, x)
  <2>1. job' = [job EXCEPT ![j] = x]
    BY <1>1 DEF RunExhausts
  <2> HIDE DEF x
  <2> QED BY <1>1, <1>2, <1>3, <1>4, <2>1, Typed DEF RunExhausts, Continues, Holding, Admission
<1> HIDE DEF x
<1> QED BY <1>2, <1>5, ContinueMoves

-------------------------------------------------------------------------------
(* The polls. *)

LEMMA PollRunsMoves ==
  ASSUME Admission, NEW a \in Agents, NEW seed \in Seeded(a), NEW j \in Jobs, NEW s \in SeenRecs,
         s = [seed.seen EXCEPT !.wake = LiveWake(a)], Looks(a, s), Free(a), job[j].pc = "idle",
         Acquire(j, [Idle EXCEPT !.agent = a, !.wake = s.wake]),
         guard' = [guard EXCEPT ![a] = seed.guard], claimed' = claimed \cup {a}
  PROVE  /\ JobMoves(j) /\ \A i \in Jobs : i # j => job'[i] = job[i]
         /\ job'[j].pc \in {"granted", "waiting"} /\ job'[j].agent = a /\ job'[j].wake = s.wake
<1> DEFINE x == [Idle EXCEPT !.agent = a, !.wake = s.wake]
<1>1. /\ seen' \in [Agents -> SeenRecs] /\ seen'[a].start # NoTime
      /\ \A b \in Agents : b # a => seen'[b] = seen[b]
  BY LookedParts DEF Admission
<1>2. seed.guard \in GuardRecs /\ guard \in [Agents -> GuardRecs]
  BY SeededParts, Typed DEF Admission
<1>3. guard' \in [Agents -> GuardRecs]
  BY <1>2
<1>4. x \in JobRecs /\ x.agent = a /\ x.wake = s.wake
  BY DEF Idle, JobRecs, Pcs, Times, SeenRecs
<1> HIDE DEF x
<1>5. Acquire(j, x)
  BY DEF x
<1>6. /\ job' \in [Jobs -> JobRecs] /\ limiter' \in [active : Nat, waiting : Seq(Jobs)]
      /\ \A i \in Jobs : i # j => job'[i] = job[i]
      /\ \E pc \in {"granted", "waiting"} : job'[j] = [x EXCEPT !.pc = pc]
      /\ SlotsFit'
  BY <1>4, <1>5, AcquireSlot
<1>7. job'[j].pc \in {"granted", "waiting"} /\ job'[j].agent = a /\ job'[j].wake = s.wake
  BY <1>4, <1>6 DEF JobRecs
<1>8. OthersStay(j) /\ ClaimStep(j) /\ RunStep(j)
  BY <1>6, <1>7 DEF OthersStay, ClaimStep, RunStep, Looks, Free
<1>9. \A b \in claimed' : seen'[b].start # NoTime
  BY <1>1, Typed DEF Admission, ClaimsFit
<1> QED BY <1>1, <1>3, <1>6, <1>7, <1>8, <1>9, Typed DEF JobMoves, Looks, Admission

LEMMA LastRunOfTyped ==
  ASSUME TypeOK, NEW a \in Agents, NEW last \in Times
  PROVE  LastRunOf(a, last) \in Times
  BY LastRunTyped DEF LastRunOf, Times

LEMMA PollWatchesMoves ==
  ASSUME Admission, NEW a \in Agents, NEW s \in SeenRecs, s.start # NoTime,
         NEW j \in Jobs, NEW due \in BOOLEAN, NEW seed \in Seeded(a),
         Looks(a, s), Free(a), job[j].pc = "idle",
         job' = [job EXCEPT ![j] = [Idle EXCEPT !.pc = "watching", !.agent = a,
                                                !.at = now, !.heartbeat = due]],
         guard' = [guard EXCEPT ![a] = seed.guard], claimed' = claimed \cup {a}, limiter' = limiter
  PROVE  /\ JobMoves(j) /\ \A i \in Jobs : i # j => job'[i] = job[i]
         /\ job'[j].pc = "watching" /\ job'[j].agent = a /\ job'[j].at = now
<1> DEFINE x == [Idle EXCEPT !.pc = "watching", !.agent = a, !.at = now, !.heartbeat = due]
<1>1. seen \in [Agents -> SeenRecs] /\ now \in Nat /\ job \in [Jobs -> JobRecs]
  BY Typed DEF Admission
<1>2. /\ seen' \in [Agents -> SeenRecs] /\ seen'[a].start # NoTime
      /\ \A b \in Agents : b # a => seen'[b] = seen[b]
  BY <1>1 DEF Looks
<1>3. seed.guard \in GuardRecs /\ guard \in [Agents -> GuardRecs]
  BY SeededParts, Typed DEF Admission
<1>4. guard' \in [Agents -> GuardRecs]
  BY <1>3
<1>5. now \in 0..now /\ now \in Times
  BY <1>1 DEF Times
<1>6. x \in JobRecs /\ x.agent = a /\ x.at = now /\ x.pc = "watching"
  BY <1>5 DEF Idle, JobRecs, Pcs, Times
<1>7. job' = [job EXCEPT ![j] = x]
  OBVIOUS
<1> HIDE DEF x
<1>8. job' \in [Jobs -> JobRecs] /\ job'[j] = x /\ \A i \in Jobs : i # j => job'[i] = job[i]
  BY <1>1, <1>6, <1>7
<1>9. SlotsFit'
  BY <1>6, <1>8, SlotKept DEF Holding
<1>10. OthersStay(j) /\ ClaimStep(j) /\ RunStep(j)
  BY <1>6, <1>8 DEF OthersStay, ClaimStep, RunStep, Looks, Free
<1>11. \A b \in claimed' : seen'[b].start # NoTime
  BY <1>2, Typed DEF Admission, ClaimsFit
<1> QED BY <1>2, <1>4, <1>5, <1>6, <1>8, <1>9, <1>10, <1>11, Typed DEF JobMoves, Looks, Admission

(* What a poll that starts something does. *)
LEMMA PollRunsSteps ==
  ASSUME Admission, NEW a \in Agents, PollRuns(a)
  PROVE  \E seed \in Seeded(a), j \in Jobs :
           LET s == [seed.seen EXCEPT !.wake = LiveWake(a)]
           IN /\ s \in SeenRecs /\ IsDue(s) /\ Free(a) /\ Looks(a, s)
              /\ guard' = [guard EXCEPT ![a] = seed.guard]
              /\ JobMoves(j) /\ \A i \in Jobs : i # j => job'[i] = job[i]
              /\ job'[j].pc \in {"granted", "waiting"} /\ job'[j].agent = a /\ job'[j].wake = s.wake
              /\ job[j].pc = "idle"
<1>1. PICK seed \in Seeded(a), j \in Jobs :
        LET s == [seed.seen EXCEPT !.wake = LiveWake(a)]
        IN /\ IsDue(s) /\ Free(a) /\ job[j].pc = "idle" /\ Looks(a, s)
           /\ guard' = [guard EXCEPT ![a] = seed.guard]
           /\ Acquire(j, [Idle EXCEPT !.agent = a, !.wake = s.wake])
  BY DEF PollRuns
<1> DEFINE s == [seed.seen EXCEPT !.wake = LiveWake(a)]
<1>2. s \in SeenRecs
  BY <1>1, LookedParts DEF Admission
<1>3. claimed' = claimed \cup {a}
  BY DEF PollRuns
<1>4. /\ JobMoves(j) /\ \A i \in Jobs : i # j => job'[i] = job[i]
      /\ job'[j].pc \in {"granted", "waiting"} /\ job'[j].agent = a /\ job'[j].wake = s.wake
  BY <1>1, <1>2, <1>3, PollRunsMoves
<1> QED BY <1>1, <1>2, <1>4

LEMMA PollWatchesSteps ==
  ASSUME Admission, NEW a \in Agents, PollWatches(a)
  PROVE  \E seed \in Seeded(a), j \in Jobs, s \in SeenRecs :
           /\ s.start = seed.seen.start /\ s.wake = NoTime /\ LiveWake(a) = NoTime
           /\ now >= s.start + Cadence /\ s.start # NoTime /\ Free(a) /\ Looks(a, s)
           /\ guard' = [guard EXCEPT ![a] = seed.guard]
           /\ JobMoves(j) /\ \A i \in Jobs : i # j => job'[i] = job[i]
           /\ job'[j].pc = "watching" /\ job'[j].agent = a /\ job'[j].at = now
           /\ job[j].pc = "idle"
<1>1. PICK seed \in Seeded(a), j \in Jobs :
        LET s    == [seed.seen EXCEPT !.wake = LiveWake(a)]
            last == LastRunOf(a, s.run)
        IN /\ IsDue(s) /\ Free(a) /\ s.wake = NoTime
           /\ job[j].pc = "idle"
           /\ Looks(a, [s EXCEPT !.run = last])
           /\ guard' = [guard EXCEPT ![a] = seed.guard]
           /\ job' = [job EXCEPT ![j] = [Idle EXCEPT !.pc = "watching", !.agent = a,
                                          !.at = now, !.heartbeat = now - last >= Heartbeat]]
  BY DEF PollWatches
<1> DEFINE s == [seed.seen EXCEPT !.wake = LiveWake(a)]
           last == LastRunOf(a, s.run)
           s2 == [s EXCEPT !.run = last]
<1>2. /\ seed.seen \in SeenRecs /\ seed.seen.start # NoTime
      /\ seen[a] \in SeenRecs
  BY SeededParts, Typed DEF Admission
<1>3. LiveWake(a) \in Times
  BY <1>2 DEF LiveWake, SeenRecs, Times
<1>4. s \in SeenRecs /\ s.start = seed.seen.start /\ s.wake = LiveWake(a) /\ s.run \in Times
  BY <1>2, <1>3 DEF SeenRecs
<1> HIDE DEF s
<1>5. last \in Times
  BY <1>4, LastRunOfTyped DEF Admission
<1> HIDE DEF last
<1>6. s2 \in SeenRecs /\ s2.start = s.start /\ s2.wake = s.wake
  BY <1>4, <1>5 DEF SeenRecs
<1> HIDE DEF s2
<1>7. /\ IsDue(s) /\ Free(a) /\ s.wake = NoTime /\ job[j].pc = "idle" /\ Looks(a, s2)
      /\ guard' = [guard EXCEPT ![a] = seed.guard]
      /\ job' = [job EXCEPT ![j] = [Idle EXCEPT !.pc = "watching", !.agent = a,
                                     !.at = now, !.heartbeat = now - last >= Heartbeat]]
  BY <1>1 DEF s, last, s2
<1>8. claimed' = claimed \cup {a} /\ limiter' = limiter
  BY DEF PollWatches
<1>9. /\ JobMoves(j) /\ \A i \in Jobs : i # j => job'[i] = job[i]
      /\ job'[j].pc = "watching" /\ job'[j].agent = a /\ job'[j].at = now
  <2>1. (now - last >= Heartbeat) \in BOOLEAN
    OBVIOUS
  <2> QED BY <1>2, <1>4, <1>6, <1>7, <1>8, <2>1, PollWatchesMoves
<1>10. now >= s.start + Cadence
  BY <1>7 DEF IsDue
<1> QED BY <1>2, <1>4, <1>6, <1>7, <1>9, <1>10

(* A poll that starts nothing, or forgets an agent nobody works on. *)
LEMMA Passes ==
  ASSUME Admission, UNCHANGED <<standing, log, claimed, limiter, running, job, manual, begun>>,
         now' \in 0..MaxTime, now <= now', seen' \in [Agents -> SeenRecs],
         guard' \in [Agents -> GuardRecs], \A a \in claimed : seen'[a].start # NoTime
  PROVE  Admission'
<1>1. TypeOK'
  BY Typed, TypedNext DEF Admission
<1>2. ClaimsFit' /\ SlotsFit' /\ RunsFit'
  BY DEF Admission, ClaimsFit, SlotsFit, RunsFit, Holders, Holding
<1>3. TimesFit'
  <2>1. 0..now \subseteq 0..now'
    BY Typed, ScheduleAssumption DEF Admission
  <2> QED BY <2>1 DEF Admission, TimesFit
<1> QED BY <1>1, <1>2, <1>3 DEF Admission

LEMMA PrunePasses ==
  ASSUME Admission, NEW a \in Agents, Prune(a)
  PROVE  Admission'
<1>1. Unseen \in SeenRecs /\ NoGuard \in GuardRecs
  BY DEF Unseen, NoGuard, SeenRecs, GuardRecs, Times
<1>2. /\ seen \in [Agents -> SeenRecs] /\ guard \in [Agents -> GuardRecs]
      /\ now \in 0..MaxTime /\ now \in Nat /\ claimed \subseteq Agents
  BY Typed DEF Admission
<1>3. /\ seen' \in [Agents -> SeenRecs] /\ guard' \in [Agents -> GuardRecs]
      /\ \A b \in claimed : seen'[b].start # NoTime
  BY <1>1, <1>2 DEF Prune, Admission, ClaimsFit
<1>4. now' \in 0..MaxTime /\ now <= now'
  BY <1>2 DEF Prune
<1> QED BY <1>3, <1>4, Passes DEF Prune

LEMMA PollPassesSteps ==
  ASSUME Admission, NEW a \in Agents, PollPasses(a)
  PROVE  /\ \E seed \in Seeded(a) :
              LET s == [seed.seen EXCEPT !.wake = LiveWake(a)]
              IN s \in SeenRecs /\ Looks(a, s) /\ guard' = [guard EXCEPT ![a] = seed.guard]
         /\ UNCHANGED <<claimed, limiter, job>> /\ Admission'
<1>1. PICK seed \in Seeded(a) :
        LET s == [seed.seen EXCEPT !.wake = LiveWake(a)]
        IN Looks(a, s) /\ guard' = [guard EXCEPT ![a] = seed.guard]
  BY DEF PollPasses
<1> DEFINE s == [seed.seen EXCEPT !.wake = LiveWake(a)]
<1>2. /\ s \in SeenRecs /\ seen' \in [Agents -> SeenRecs] /\ seen'[a].start # NoTime
      /\ \A b \in Agents : b # a => seen'[b] = seen[b]
  BY <1>1, LookedParts DEF Admission
<1>3. /\ seed.guard \in GuardRecs /\ guard \in [Agents -> GuardRecs] /\ claimed \subseteq Agents
      /\ now \in 0..MaxTime /\ now \in Nat
  BY SeededParts, Typed DEF Admission
<1>4. guard' \in [Agents -> GuardRecs]
  BY <1>1, <1>3
<1>5. \A b \in claimed : seen'[b].start # NoTime
  BY <1>2, <1>3 DEF Admission, ClaimsFit
<1>6. UNCHANGED <<claimed, limiter, job>>
  BY DEF PollPasses
<1>7. Admission'
  <2>1. now' \in 0..MaxTime /\ now <= now' /\ UNCHANGED <<standing, log, running, manual, begun>>
    BY <1>1, <1>3 DEF Looks
  <2> QED BY <1>2, <1>4, <1>5, <1>6, <2>1, Passes
<1> QED BY <1>1, <1>2, <1>6, <1>7

-------------------------------------------------------------------------------
(* Manual runs, the store, time and crashes. *)

LEMMA MovesAdmit ==
  ASSUME Admission, NEW a \in Agents, NEW from,
         NEW to \in {"active", "archived", "revoked"}, Moves(a, from, to)
  PROVE  Admission'
<1>1. /\ standing \in [Agents -> {"active", "archived", "revoked"}]
      /\ UNCHANGED <<now, log, seen, guard, claimed, limiter, running, job, manual, begun>>
  BY Typed DEF Moves, memory, Admission
<1>2. standing' \in [Agents -> {"active", "archived", "revoked"}]
  BY <1>1 DEF Moves
<1>3. TypeOK'
  BY <1>1, <1>2, Typed, TypedNext DEF Admission
<1> QED BY <1>1, <1>3 DEF Admission, ClaimsFit, SlotsFit, RunsFit, TimesFit, Holders, Holding

LEMMA TickAdmits ==
  ASSUME Admission, Tick
  PROVE  Admission' /\ now' = now + 1 /\ now' \in Nat
<1>1. now \in 0..MaxTime /\ MaxTime \in Nat /\ now' = now + 1 /\ now < MaxTime
  BY Typed, ScheduleAssumption DEF Tick, Admission
<1>2. /\ now' \in 0..MaxTime /\ now <= now' /\ now' \in Nat
  BY <1>1
<1> QED BY <1>1, <1>2, Typed, Passes DEF Tick, memory, Admission, ClaimsFit

LEMMA ManualStartsAdmits ==
  ASSUME Admission, NEW r \in Requests, ManualStarts(r)
  PROVE  /\ Admission'
         /\ \E a \in Agents : /\ a \notin running
                              /\ manual' = [manual EXCEPT ![r] = [agent |-> a, since |-> now]]
         /\ manual \in [Requests -> [agent : Agents \cup {NoAgent}, since : Times]]
<1>1. PICK a \in Agents :
        /\ manual[r].agent = NoAgent /\ a \notin running
        /\ running' = running \cup {a}
        /\ manual' = [manual EXCEPT ![r] = [agent |-> a, since |-> now]]
        /\ UNCHANGED <<now, standing, log, seen, guard, claimed, limiter, job, begun>>
  BY DEF ManualStarts
<1>2. /\ manual \in [Requests -> [agent : Agents \cup {NoAgent}, since : Times]]
      /\ now \in Nat /\ now \in 0..now /\ NoAgent \notin Agents /\ running \subseteq Agents
  BY Typed DEF Admission
<1>3. now \in Times
  BY <1>2 DEF Times
<1>4. /\ manual' \in [Requests -> [agent : Agents \cup {NoAgent}, since : Times]]
      /\ manual'[r].agent = a /\ manual'[r].since = now
      /\ \A s \in Requests : s # r => manual'[s] = manual[s]
  BY <1>1, <1>2, <1>3
<1>5. TypeOK'
  BY <1>1, <1>4, <1>2, Typed, TypedNext DEF Admission
<1>6. ClaimsFit' /\ SlotsFit'
  BY <1>1 DEF Admission, ClaimsFit, SlotsFit, Holders, Holding
<1>7. RunsFit'
  <2>1. \A j \in Jobs : job[j].pc = "running" => job[j].agent # a
    BY <1>1 DEF Admission, RunsFit
  <2>2. \A s \in Requests : manual[s].agent # a
    BY <1>1, <1>2 DEF Admission, RunsFit
  <2>3. /\ \A j \in Jobs : job[j].pc = "running" => job[j].agent \in running'
        /\ \A s \in Requests : manual'[s].agent # NoAgent => manual'[s].agent \in running'
        /\ \A j \in Jobs, s \in Requests : job[j].pc = "running" => manual'[s].agent # job[j].agent
    BY <1>1, <1>4, <2>1 DEF Admission, RunsFit
  <2>4. \A s, u \in Requests : manual'[s].agent = manual'[u].agent /\ manual'[s].agent # NoAgent => s = u
    BY <1>4, <2>2 DEF Admission, RunsFit
  <2>5. \A b \in running' : \/ \E j \in Jobs : job[j].pc = "running" /\ job[j].agent = b
                            \/ \E s \in Requests : manual'[s].agent = b
    <3> TAKE b \in running'
    <3>1. CASE b = a
      BY <1>4, <3>1
    <3>2. CASE b \in running
      <4>1. \A s \in Requests : manual[s].agent = b => manual'[s].agent = b
        BY <1>1, <1>2, <1>4, <3>2
      <4> QED BY <3>2, <4>1 DEF Admission, RunsFit
    <3> QED BY <1>1, <3>1, <3>2
  <2> QED BY <1>1, <2>3, <2>4, <2>5 DEF RunsFit
<1>8. TimesFit'
  BY <1>1, <1>2, <1>4 DEF Admission, TimesFit
<1> QED BY <1>1, <1>2, <1>5, <1>6, <1>7, <1>8 DEF Admission

LEMMA ManualEndsAdmits ==
  ASSUME Admission, NEW r \in Requests, ManualEnds(r)
  PROVE  Admission' /\ manual[r].agent \in Agents /\ manual[r].since \in 0..MaxTime
<1> DEFINE a == manual[r].agent
<1>1. /\ a # NoAgent /\ running' = running \ {a} /\ Logged(a, manual[r].since, "manual")
      /\ manual' = [manual EXCEPT ![r] = [agent |-> NoAgent, since |-> NoTime]]
      /\ UNCHANGED <<now, standing, seen, guard, claimed, limiter, job, begun>>
  BY DEF ManualEnds
<1>2. /\ manual \in [Requests -> [agent : Agents \cup {NoAgent}, since : Times]]
      /\ now \in 0..MaxTime /\ MaxTime \in Nat
  BY Typed, ScheduleAssumption DEF Admission
<1>3. a \in Agents /\ manual[r].since \in 0..now
  BY <1>1, <1>2 DEF Admission, TimesFit
<1>4. manual[r].since \in 0..MaxTime
  BY <1>2, <1>3
<1>5. /\ manual' \in [Requests -> [agent : Agents \cup {NoAgent}, since : Times]]
      /\ manual'[r].agent = NoAgent
      /\ \A s \in Requests : s # r => manual'[s] = manual[s]
  BY <1>1, <1>2 DEF Times
<1>6. log' \in [Agents -> Seq(LogRecs)]
  BY <1>1, <1>3, <1>4, LoggedTyped DEF Admission
<1>7. TypeOK'
  BY <1>1, <1>5, <1>6, Typed, TypedNext DEF Admission
<1>8. ClaimsFit' /\ SlotsFit'
  BY <1>1 DEF Admission, ClaimsFit, SlotsFit, Holders, Holding
<1>9. RunsFit'
  <2>1. \A j \in Jobs : job[j].pc = "running" => job[j].agent # a
    BY DEF Admission, RunsFit
  <2>2. \A s \in Requests : s # r => manual[s].agent # a
    BY <1>1 DEF Admission, RunsFit
  <2>3. /\ \A j \in Jobs : job[j].pc = "running" => job[j].agent \in running'
        /\ \A s \in Requests : manual'[s].agent # NoAgent => manual'[s].agent \in running'
    BY <1>1, <1>5, <2>1, <2>2 DEF Admission, RunsFit
  <2>4. /\ \A j \in Jobs, s \in Requests : job[j].pc = "running" => manual'[s].agent # job[j].agent
        /\ \A s, u \in Requests : manual'[s].agent = manual'[u].agent /\ manual'[s].agent # NoAgent => s = u
    <3>1. \A j \in Jobs : job[j].pc = "running" => job[j].agent # NoAgent
      BY DEF Admission, ClaimsFit
    <3> QED BY <1>5, <3>1 DEF Admission, RunsFit
  <2>5. \A b \in running' : \/ \E j \in Jobs : job[j].pc = "running" /\ job[j].agent = b
                            \/ \E s \in Requests : manual'[s].agent = b
    <3> TAKE b \in running'
    <3>1. b \in running /\ b # a
      BY <1>1
    <3>2. \A s \in Requests : manual[s].agent = b => manual'[s].agent = b
      BY <1>5, <3>1
    <3> QED BY <3>1, <3>2 DEF Admission, RunsFit
  <2> QED BY <1>1, <2>3, <2>4, <2>5 DEF RunsFit
<1>10. TimesFit'
  BY <1>1, <1>5 DEF Admission, TimesFit
<1> QED BY <1>3, <1>4, <1>7, <1>8, <1>9, <1>10 DEF Admission

(* Nobody at work. *)
LEMMA NobodyAdmits ==
  ASSUME Idle \in JobRecs, Idle.pc = "idle", Idle.agent = NoAgent,
         claimed = {}, limiter = [active |-> 0, waiting |-> <<>>], running = {},
         job = [j \in Jobs |-> Idle],
         manual = [r \in Requests |-> [agent |-> NoAgent, since |-> NoTime]]
  PROVE  ClaimsFit /\ SlotsFit /\ RunsFit /\ TimesFit
<1>1. Holders = {}
  BY DEF Holders, Holding
<1>2. SlotsFit
  BY <1>1, FS_EmptySet DEF SlotsFit
<1> QED BY <1>2 DEF ClaimsFit, RunsFit, TimesFit

LEMMA EmptyRecords ==
  /\ Idle \in JobRecs /\ Idle.pc = "idle" /\ Idle.agent = NoAgent
  /\ Unseen \in SeenRecs /\ Unseen.start = NoTime /\ Unseen.wake = NoTime
  /\ NoGuard \in GuardRecs /\ NoGuard.day = NoTime
  /\ [active |-> 0, waiting |-> <<>>] \in [active : Nat, waiting : Seq(Jobs)]
  /\ [r \in Requests |-> [agent |-> NoAgent, since |-> NoTime]]
       \in [Requests -> [agent : Agents \cup {NoAgent}, since : Times]]
  BY DEF Idle, JobRecs, Pcs, Times, Unseen, SeenRecs, NoGuard, GuardRecs

(* The runs a crash leaves: those that are not on the log are lost. *)
Salvaged(runs) == [i \in DOMAIN runs |-> IF runs[i].end = "logged" THEN runs[i]
                                         ELSE [runs[i] EXCEPT !.end = "lost"]]

LEMMA SalvagedParts ==
  ASSUME NEW runs \in Seq(BegunRecs)
  PROVE  /\ Salvaged(runs) \in Seq(BegunRecs) /\ DOMAIN Salvaged(runs) = DOMAIN runs
         /\ Len(Salvaged(runs)) = Len(runs)
         /\ \A i \in DOMAIN runs :
              /\ Salvaged(runs)[i].at = runs[i].at
              /\ Salvaged(runs)[i].end = IF runs[i].end = "logged" THEN "logged" ELSE "lost"
<1>1. Len(runs) \in Nat /\ DOMAIN runs = 1..Len(runs) /\ \A i \in DOMAIN runs : runs[i] \in BegunRecs
  BY SeqParts
<1> DEFINE one(i) == IF runs[i].end = "logged" THEN runs[i] ELSE [runs[i] EXCEPT !.end = "lost"]
<1>2. \A i \in DOMAIN runs :
        /\ one(i) \in BegunRecs /\ one(i).at = runs[i].at
        /\ one(i).end = IF runs[i].end = "logged" THEN "logged" ELSE "lost"
  BY <1>1 DEF BegunRecs, Ends
<1>3. Salvaged(runs) = [i \in 1..Len(runs) |-> one(i)]
  BY <1>1 DEF Salvaged
<1> HIDE DEF one
<1>4. Salvaged(runs) \in [1..Len(runs) -> BegunRecs]
  BY <1>1, <1>2, <1>3
<1>5. Salvaged(runs) \in Seq(BegunRecs) /\ Len(Salvaged(runs)) = Len(runs)
      /\ DOMAIN Salvaged(runs) = DOMAIN runs
  BY <1>1, <1>4
<1> QED BY <1>1, <1>2, <1>3, <1>5

LEMMA CrashAdmits ==
  ASSUME Admission, Crash
  PROVE  Admission' /\ \A a \in Agents : begun'[a] = Salvaged(begun[a])
<1>1. /\ begun \in [Agents -> Seq(BegunRecs)]
      /\ begun' = [a \in Agents |-> Salvaged(begun[a])]
  BY Typed DEF Crash, Admission, Salvaged
<1>2. begun' \in [Agents -> Seq(BegunRecs)]
  BY <1>1, SalvagedParts
<1>3. /\ seen' = [a \in Agents |-> Unseen] /\ guard' = [a \in Agents |-> NoGuard]
      /\ claimed' = {} /\ limiter' = [active |-> 0, waiting |-> <<>>] /\ running' = {}
      /\ job' = [j \in Jobs |-> Idle]
      /\ manual' = [r \in Requests |-> [agent |-> NoAgent, since |-> NoTime]]
      /\ UNCHANGED <<now, standing, log>>
  BY DEF Crash
<1>4. job' \in [Jobs -> JobRecs] /\ seen' \in [Agents -> SeenRecs] /\ guard' \in [Agents -> GuardRecs]
  BY <1>3, EmptyRecords
<1>5. /\ limiter' \in [active : Nat, waiting : Seq(Jobs)] /\ claimed' \subseteq Agents
      /\ running' \subseteq Agents
      /\ manual' \in [Requests -> [agent : Agents \cup {NoAgent}, since : Times]]
  BY <1>3, EmptyRecords
<1>6. /\ now' \in 0..MaxTime /\ log' \in [Agents -> Seq(LogRecs)]
      /\ standing' \in [Agents -> {"active", "archived", "revoked"}]
  BY <1>3, Typed DEF Admission
<1>7. TypeOK'
  BY <1>2, <1>4, <1>5, <1>6, TypedNext
<1>8. Holders' = {}
  BY <1>3, EmptyRecords DEF Holders, Holding
<1>9. SlotsFit'
  BY <1>3, <1>8, FS_EmptySet DEF SlotsFit
<1>10. ClaimsFit' /\ RunsFit' /\ TimesFit'
  BY <1>3, EmptyRecords DEF ClaimsFit, RunsFit, TimesFit
<1> QED BY <1>1, <1>7, <1>9, <1>10 DEF Admission

LEMMA InitAdmits ==
  ASSUME Init
  PROVE  Admission
<1>1. /\ now = 0 /\ MaxTime \in Nat /\ now \in 0..MaxTime
  BY ScheduleAssumption DEF Init
<1>2. TypeOK
  <2>1. /\ job \in [Jobs -> JobRecs] /\ seen \in [Agents -> SeenRecs]
        /\ guard \in [Agents -> GuardRecs] /\ limiter \in [active : Nat, waiting : Seq(Jobs)]
        /\ manual \in [Requests -> [agent : Agents \cup {NoAgent}, since : Times]]
    BY EmptyRecords DEF Init
  <2>2. /\ log \in [Agents -> Seq(LogRecs)] /\ begun \in [Agents -> Seq(BegunRecs)]
        /\ claimed \subseteq Agents /\ running \subseteq Agents
        /\ standing \in [Agents -> {"active", "archived", "revoked"}]
    BY DEF Init
  <2> QED BY <1>1, <2>1, <2>2 DEF TypeOK, JobRecs, SeenRecs, GuardRecs, LogRecs, BegunRecs, Ends
<1>3. ClaimsFit /\ SlotsFit /\ RunsFit /\ TimesFit
  BY EmptyRecords, NobodyAdmits DEF Init
<1> QED BY <1>2, <1>3 DEF Admission

LEMMA JobStepMoves ==
  ASSUME Admission, NEW j \in Jobs, JobStep(j)
  PROVE  JobMoves(j)
  BY WatchQuietMoves, WatchFailsMoves, WatchWakesMoves, GuardRefusesMoves, GuardAsksMoves,
     HeldBackMoves, RunStartsMoves, RunRefusedMoves, RunThrowsMoves, RunEndsMoves,
     RunExhaustsMoves, PauseSetMoves DEF JobStep

LEMMA StepAdmits ==
  ASSUME Admission, [Next]_vars
  PROVE  Admission'
<1>1. ASSUME NEW a \in Agents, Prune(a) \/ Poll(a)
      PROVE  Admission'
  <2>1. CASE Prune(a)
    BY <2>1, PrunePasses
  <2>2. CASE PollPasses(a)
    BY <2>2, PollPassesSteps
  <2>3. CASE PollRuns(a) \/ PollWatches(a)
    <3>1. PICK j \in Jobs : JobMoves(j)
      BY <2>3, PollRunsSteps, PollWatchesSteps
    <3> QED BY <3>1, JobMovesAdmit
  <2> QED BY <1>1, <2>1, <2>2, <2>3 DEF Poll
<1>2. ASSUME NEW a \in Agents, Revoke(a) \/ Archive(a) \/ Unarchive(a)
      PROVE  Admission'
  BY <1>2, MovesAdmit DEF Revoke, Archive, Unarchive
<1>3. ASSUME NEW j \in Jobs, JobStep(j)
      PROVE  Admission'
  BY <1>3, JobStepMoves, JobMovesAdmit
<1>4. ASSUME NEW r \in Requests, ManualStarts(r) \/ ManualEnds(r)
      PROVE  Admission'
  BY <1>4, ManualStartsAdmits, ManualEndsAdmits
<1>5. CASE Tick \/ Crash
  BY <1>5, TickAdmits, CrashAdmits
<1>6. CASE UNCHANGED vars
  <2>1. UNCHANGED <<now, standing, log, seen, guard, claimed, limiter, running, job, manual, begun>>
    BY <1>6 DEF vars, memory
  <2>2. TypeOK'
    BY ONLY Admission, <2>1 DEF Admission, TypeOK
  <2>3. ClaimsFit' /\ RunsFit'
    BY ONLY Admission, <2>1 DEF Admission, ClaimsFit, RunsFit
  <2>4. SlotsFit'
    <3>1. Holders' = Holders
      BY ONLY <2>1 DEF Holders, Holding
    <3> QED BY ONLY Admission, <2>1, <3>1 DEF Admission, SlotsFit
  <2>5. TimesFit'
    BY ONLY Admission, <2>1 DEF Admission, TimesFit
  <2> QED BY ONLY <2>2, <2>3, <2>4, <2>5 DEF Admission
<1> QED BY <1>1, <1>2, <1>3, <1>4, <1>5, <1>6 DEF Next

-------------------------------------------------------------------------------
(* Days, and how many runs and events they have. *)

LEMMA DayGrows ==
  ASSUME NEW t \in Nat, NEW u \in Nat, t <= u
  PROVE  Day(t) <= Day(u) /\ Day(t) \in Nat /\ Day(u) \in Nat
  BY ScheduleAssumption DEF Day

StartPlaces(runs, day) ==
  {i \in DOMAIN runs : runs[i].end \in {"logged", "open"} /\ Day(runs[i].at) = day}
LoggedPlaces(runs, day) ==
  {i \in DOMAIN runs : runs[i].end = "logged" /\ Day(runs[i].at) = day}
EventPlaces(events, day) ==
  {i \in DOMAIN events : events[i].trigger = "schedule" /\ Day(events[i].at) = day}

LEMMA RunsCounted ==
  ASSUME NEW runs \in Seq(BegunRecs), NEW day
  PROVE  /\ IsFiniteSet(StartPlaces(runs, day)) /\ IsFiniteSet(LoggedPlaces(runs, day))
         /\ StartsOf(runs, day) = Cardinality(StartPlaces(runs, day)) /\ StartsOf(runs, day) \in Nat
         /\ LoggedOf(runs, day) = Cardinality(LoggedPlaces(runs, day)) /\ LoggedOf(runs, day) \in Nat
         /\ LoggedOf(runs, day) <= StartsOf(runs, day)
<1>1. StartPlaces(runs, day) \subseteq DOMAIN runs /\ LoggedPlaces(runs, day) \subseteq StartPlaces(runs, day)
  BY DEF StartPlaces, LoggedPlaces
<1>2. IsFiniteSet(StartPlaces(runs, day)) /\ Cardinality(StartPlaces(runs, day)) \in Nat
  BY <1>1, PlacesFinite
<1>3. /\ IsFiniteSet(LoggedPlaces(runs, day)) /\ Cardinality(LoggedPlaces(runs, day)) \in Nat
      /\ Cardinality(LoggedPlaces(runs, day)) <= Cardinality(StartPlaces(runs, day))
  BY <1>1, <1>2, FS_Subset, FS_CardinalityType
<1> QED BY <1>2, <1>3 DEF StartsOf, LoggedOf, StartPlaces, LoggedPlaces

LEMMA EventsCounted ==
  ASSUME NEW events \in Seq(LogRecs), NEW day
  PROVE  /\ IsFiniteSet(EventPlaces(events, day))
         /\ EventsOf(events, day) = Cardinality(EventPlaces(events, day))
         /\ EventsOf(events, day) \in Nat
<1>1. EventPlaces(events, day) \subseteq DOMAIN events
  BY DEF EventPlaces
<1>2. IsFiniteSet(EventPlaces(events, day)) /\ Cardinality(EventPlaces(events, day)) \in Nat
  BY <1>1, PlacesFinite
<1> QED BY <1>2 DEF EventsOf, EventPlaces

(* With no run open, those that a restart can know of are those on the log. *)
LEMMA NoneOpen ==
  ASSUME NEW runs, \A i \in DOMAIN runs : runs[i].end # "open", NEW day
  PROVE  StartsOf(runs, day) = LoggedOf(runs, day)
<1>1. {i \in DOMAIN runs : runs[i].end \in {"logged", "open"} /\ Day(runs[i].at) = day}
        = {i \in DOMAIN runs : runs[i].end = "logged" /\ Day(runs[i].at) = day}
  OBVIOUS
<1> QED BY <1>1 DEF StartsOf, LoggedOf

(* A day that no run has come to has none. *)
LEMMA NoneYet ==
  ASSUME NEW runs, NEW day, \A i \in DOMAIN runs : Day(runs[i].at) # day
  PROVE  StartsOf(runs, day) = 0 /\ LoggedOf(runs, day) = 0
<1>1. /\ {i \in DOMAIN runs : runs[i].end \in {"logged", "open"} /\ Day(runs[i].at) = day} = {}
      /\ {i \in DOMAIN runs : runs[i].end = "logged" /\ Day(runs[i].at) = day} = {}
  OBVIOUS
<1> QED BY <1>1, FS_EmptySet DEF StartsOf, LoggedOf

(* A run begins. *)
LEMMA OneOpened ==
  ASSUME NEW runs \in Seq(BegunRecs), NEW t, [at |-> t, end |-> "open"] \in BegunRecs, NEW day
  PROVE  LET more == Append(runs, [at |-> t, end |-> "open"])
         IN /\ StartsOf(more, day) = IF Day(t) = day THEN StartsOf(runs, day) + 1
                                     ELSE StartsOf(runs, day)
            /\ LoggedOf(more, day) = LoggedOf(runs, day)
<1> DEFINE e == [at |-> t, end |-> "open"]
           more == Append(runs, e)
           n == Len(runs) + 1
<1>1. /\ more \in Seq(BegunRecs) /\ DOMAIN more = DOMAIN runs \cup {n}
      /\ more[n] = e /\ \A i \in DOMAIN runs : more[i] = runs[i]
  BY Added
<1>2. e.at = t /\ e.end = "open"
  OBVIOUS
<1>3. n \notin DOMAIN runs
  BY SeqParts
<1> HIDE DEF more, e, n
<1>4. LoggedPlaces(more, day) = LoggedPlaces(runs, day)
  BY <1>1, <1>2 DEF LoggedPlaces
<1>5. CASE Day(t) = day
  <2>1. StartPlaces(more, day) = StartPlaces(runs, day) \cup {n} /\ n \notin StartPlaces(runs, day)
    BY <1>1, <1>2, <1>3, <1>5 DEF StartPlaces
  <2>2. Cardinality(StartPlaces(more, day)) = Cardinality(StartPlaces(runs, day)) + 1
    BY <2>1, RunsCounted, FS_AddElement
  <2> QED BY <1>1, <1>4, <1>5, <2>2, RunsCounted DEF more, e
<1>6. CASE Day(t) # day
  <2>1. StartPlaces(more, day) = StartPlaces(runs, day)
    BY <1>1, <1>2, <1>3, <1>6 DEF StartPlaces
  <2> QED BY <1>1, <1>4, <1>6, <2>1, RunsCounted DEF more, e
<1> QED BY <1>5, <1>6

(* The last run ends otherwise than it stood. *)
ClosedRuns(runs, end) == [runs EXCEPT ![Len(runs)].end = end]

LEMMA ClosedParts ==
  ASSUME NEW runs \in Seq(BegunRecs), runs # <<>>, NEW end \in Ends
  PROVE  /\ ClosedRuns(runs, end) \in Seq(BegunRecs)
         /\ DOMAIN ClosedRuns(runs, end) = DOMAIN runs /\ Len(ClosedRuns(runs, end)) = Len(runs)
         /\ \A i \in DOMAIN runs :
              /\ ClosedRuns(runs, end)[i].at = runs[i].at
              /\ ClosedRuns(runs, end)[i].end = IF i = Len(runs) THEN end ELSE runs[i].end
         /\ Len(runs) \in DOMAIN runs
<1>1. /\ Len(runs) \in Nat /\ DOMAIN runs = 1..Len(runs) /\ \A i \in DOMAIN runs : runs[i] \in BegunRecs
      /\ Len(runs) \in DOMAIN runs
  BY SeqParts
<1> DEFINE n == Len(runs)
           last == [runs[n] EXCEPT !.end = end]
<1>2. last \in BegunRecs /\ last.at = runs[n].at /\ last.end = end
  BY <1>1 DEF BegunRecs
<1>3. ClosedRuns(runs, end) = [runs EXCEPT ![n] = last]
  BY <1>1 DEF ClosedRuns
<1> HIDE DEF last
<1>4. /\ ClosedRuns(runs, end) \in [1..n -> BegunRecs]
      /\ ClosedRuns(runs, end)[n] = last
      /\ \A i \in DOMAIN runs : i # n => ClosedRuns(runs, end)[i] = runs[i]
  BY <1>1, <1>2, <1>3
<1>5. /\ ClosedRuns(runs, end) \in Seq(BegunRecs) /\ DOMAIN ClosedRuns(runs, end) = DOMAIN runs
      /\ Len(ClosedRuns(runs, end)) = Len(runs)
  BY <1>1, <1>4
<1> QED BY <1>1, <1>2, <1>4, <1>5

(* An open run is logged, or threw. *)
LEMMA OneClosed ==
  ASSUME NEW runs \in Seq(BegunRecs), runs # <<>>, runs[Len(runs)].end = "open", NEW end \in Ends, NEW day
  PROVE  LET t == runs[Len(runs)].at
         IN /\ StartsOf(ClosedRuns(runs, end), day) <= StartsOf(runs, day)
            /\ LoggedOf(ClosedRuns(runs, end), day)
                 = IF Day(t) = day /\ end = "logged" THEN LoggedOf(runs, day) + 1 ELSE LoggedOf(runs, day)
<1> DEFINE closed == ClosedRuns(runs, end)
           n == Len(runs)
           t == runs[n].at
<1>1. /\ closed \in Seq(BegunRecs) /\ DOMAIN closed = DOMAIN runs /\ n \in DOMAIN runs
      /\ \A i \in DOMAIN runs : /\ closed[i].at = runs[i].at
                                /\ closed[i].end = IF i = n THEN end ELSE runs[i].end
  BY ClosedParts
<1> HIDE DEF closed, n
<1>2. StartPlaces(closed, day) \subseteq StartPlaces(runs, day)
  BY <1>1 DEF StartPlaces, n
<1>3. StartsOf(closed, day) <= StartsOf(runs, day)
  BY <1>1, <1>2, RunsCounted, FS_Subset
<1>4. CASE Day(t) = day /\ end = "logged"
  <2>1. LoggedPlaces(closed, day) = LoggedPlaces(runs, day) \cup {n} /\ n \notin LoggedPlaces(runs, day)
    BY <1>1, <1>4 DEF LoggedPlaces, n
  <2>2. Cardinality(LoggedPlaces(closed, day)) = Cardinality(LoggedPlaces(runs, day)) + 1
    BY <2>1, RunsCounted, FS_AddElement
  <2> QED BY <1>1, <1>3, <1>4, <2>2, RunsCounted DEF closed, n
<1>5. CASE ~(Day(t) = day /\ end = "logged")
  <2>1. LoggedPlaces(closed, day) = LoggedPlaces(runs, day)
    BY <1>1, <1>5 DEF LoggedPlaces, n
  <2> QED BY <1>1, <1>3, <1>5, <2>1, RunsCounted DEF closed, n
<1> QED BY <1>4, <1>5

(* A crash loses those that are not on the log. *)
LEMMA SomeLost ==
  ASSUME NEW runs \in Seq(BegunRecs), NEW day
  PROVE  /\ StartsOf(Salvaged(runs), day) <= StartsOf(runs, day)
         /\ LoggedOf(Salvaged(runs), day) = LoggedOf(runs, day)
<1> DEFINE left == Salvaged(runs)
<1>1. /\ left \in Seq(BegunRecs) /\ DOMAIN left = DOMAIN runs
      /\ \A i \in DOMAIN runs : /\ left[i].at = runs[i].at
                                /\ left[i].end = IF runs[i].end = "logged" THEN "logged" ELSE "lost"
  BY SalvagedParts
<1> HIDE DEF left
<1>2. LoggedPlaces(left, day) = LoggedPlaces(runs, day)
  BY <1>1 DEF LoggedPlaces
<1>3. StartPlaces(left, day) \subseteq StartPlaces(runs, day)
  BY <1>1 DEF StartPlaces
<1> QED BY <1>1, <1>2, <1>3, RunsCounted, FS_Subset DEF left

(* A run is logged. *)
LEMMA OneEvent ==
  ASSUME NEW events \in Seq(LogRecs), NEW since, NEW trigger, NEW day,
         [at |-> since, trigger |-> trigger] \in LogRecs
  PROVE  LET more == Append(events, [at |-> since, trigger |-> trigger])
         IN EventsOf(more, day) = IF trigger = "schedule" /\ Day(since) = day
                                  THEN EventsOf(events, day) + 1 ELSE EventsOf(events, day)
<1> DEFINE e == [at |-> since, trigger |-> trigger]
           more == Append(events, e)
           n == Len(events) + 1
<1>1. /\ more \in Seq(LogRecs) /\ DOMAIN more = DOMAIN events \cup {n}
      /\ more[n] = e /\ \A i \in DOMAIN events : more[i] = events[i]
  BY Added
<1>2. e.at = since /\ e.trigger = trigger
  OBVIOUS
<1>3. n \notin DOMAIN events
  BY SeqParts
<1> HIDE DEF more, e, n
<1>4. CASE trigger = "schedule" /\ Day(since) = day
  <2>1. EventPlaces(more, day) = EventPlaces(events, day) \cup {n} /\ n \notin EventPlaces(events, day)
    BY <1>1, <1>2, <1>3, <1>4 DEF EventPlaces
  <2>2. Cardinality(EventPlaces(more, day)) = Cardinality(EventPlaces(events, day)) + 1
    BY <2>1, EventsCounted, FS_AddElement
  <2> QED BY <1>1, <1>4, <2>2, EventsCounted DEF more, e
<1>5. CASE ~(trigger = "schedule" /\ Day(since) = day)
  <2>1. EventPlaces(more, day) = EventPlaces(events, day)
    BY <1>1, <1>2, <1>3, <1>5 DEF EventPlaces
  <2> QED BY <1>1, <1>5, <2>1, EventsCounted DEF more, e
<1> QED BY <1>4, <1>5
-------------------------------------------------------------------------------
(* What leaves an agent's history as it was. *)

SamePast(a) == now' = now /\ begun'[a] = begun[a] /\ log'[a] = log[a]

SameJobs(a) ==
  /\ \A i \in Jobs : job'[i].agent = a =>
       /\ job[i].agent = a /\ job'[i].at = job[i].at
       /\ job'[i].since = job[i].since /\ job'[i].wake = job[i].wake
       /\ \/ job'[i].pc = job[i].pc
          \/ job[i].pc = "waiting" /\ job'[i].pc = "granted"
  /\ \A i \in Jobs : job[i].agent = a /\ job[i].pc = "running" =>
       job'[i].agent = a /\ job'[i].pc = "running"

SameManual(a) ==
  \A r \in Requests : manual'[r].agent = a =>
    manual[r].agent = a /\ manual'[r].since = manual[r].since

Gone(a) == \A i \in Jobs : job'[i].agent # a

LEMMA PastKept ==
  ASSUME NEW a \in Agents, PastFits(a), SamePast(a)
  PROVE  PastFits(a)'
  BY DEF PastFits, SamePast, LastRun

LEMMA OpenKept ==
  ASSUME NEW a \in Agents, OpenFits(a), begun'[a] = begun[a], SameJobs(a), SameManual(a)
  PROVE  OpenFits(a)'
  BY DEF OpenFits, SameJobs, SameManual

LEMMA StartsKept ==
  ASSUME NEW a \in Agents, StartsFit(a), SamePast(a), SameJobs(a),
         seen'[a].start = seen[a].start, seen'[a].wake \in {NoTime, seen[a].wake}
  PROVE  StartsFit(a)'
  BY DEF StartsFit, SamePast, SameJobs, SpacedBefore

LEMMA JobsKept ==
  ASSUME NEW a \in Agents, JobFits(a), SamePast(a), SameJobs(a), guard'[a] = guard[a]
  PROVE  JobFits(a)'
  BY DEF JobFits, SamePast, SameJobs, SpacedBefore

LEMMA GuardKept ==
  ASSUME NEW a \in Agents, GuardFits(a), SamePast(a),
         guard'[a].day = guard[a].day, guard'[a].count = guard[a].count,
         seen'[a].start # NoTime => seen[a].start # NoTime
  PROVE  GuardFits(a)'
  BY DEF GuardFits, SamePast, CountedToday

LEMMA QuietAgent ==
  ASSUME NEW a \in Agents, AgentFits(a), SamePast(a), SameJobs(a), SameManual(a),
         seen'[a] = seen[a], guard'[a] = guard[a]
  PROVE  AgentFits(a)'
  BY PastKept, OpenKept, StartsKept, JobsKept, GuardKept DEF AgentFits, SamePast

(* A step of a job leaves the agents it is not about alone. *)
LEMMA JobIsOfOther ==
  ASSUME Admission, NEW j \in Jobs, JobMoves(j), NEW b \in Agents,
         job[j].agent # b, job'[j].agent # b
  PROVE  SameJobs(b) /\ SameManual(b)
  BY OtherJobs DEF SameJobs, SameManual, JobMoves

LEMMA ManualKept ==
  ASSUME manual' = manual, NEW a \in Agents
  PROVE  SameManual(a)
  BY DEF SameManual

LEMMA OtherAgents ==
  ASSUME Admission, NEW j \in Jobs, JobMoves(j), NEW b \in Agents, AgentFits(b),
         job[j].agent # b, job'[j].agent # b, seen'[b] = seen[b], guard'[b] = guard[b],
         begun'[b] = begun[b], log'[b] = log[b]
  PROVE  AgentFits(b)'
  BY JobIsOfOther, QuietAgent DEF SamePast, JobMoves

(* Without a run under way, none is open. *)
LEMMA NothingOpen ==
  ASSUME NEW a \in Agents, OpenFits(a), \A j \in Jobs : job[j].agent = a => job[j].pc # "running"
  PROVE  \A i \in DOMAIN begun[a] : begun[a][i].end # "open"
  BY DEF OpenFits

LEMMA GoneFits ==
  ASSUME NEW a \in Agents, AgentFits(a), SamePast(a), SameManual(a), Gone(a),
         \A j \in Jobs : job[j].agent = a => job[j].pc # "running"
  PROVE  PastFits(a)' /\ OpenFits(a)' /\ JobFits(a)'
<1>1. \A i \in DOMAIN begun[a] : begun[a][i].end # "open"
  BY NothingOpen DEF AgentFits
<1>2. OpenFits(a)'
  BY <1>1 DEF OpenFits, AgentFits, SamePast, SameManual, Gone
<1>3. JobFits(a)'
  BY DEF JobFits, Gone
<1> QED BY <1>2, <1>3, PastKept DEF AgentFits

LEMMA GoneStarts ==
  ASSUME NEW a \in Agents, StartsFit(a), SamePast(a), Gone(a), seen'[a] = seen[a]
  PROVE  StartsFit(a)'
  BY DEF StartsFit, SamePast, Gone, SpacedBefore

(* A job that ends leaves its agent without one. *)
LEMMA JobIsGone ==
  ASSUME Admission, NEW j \in Jobs, JobMoves(j), job'[j] = Idle, job[j].pc # "idle",
         NEW a \in Agents, a = job[j].agent
  PROVE  Gone(a) /\ SameManual(a) /\ now' = now
         /\ \A i \in Jobs : job[i].agent = a => i = j
<1>1. \A i \in Jobs : i # j => job[i].agent # a
  BY AtWork
<1>2. \A i \in Jobs : i # j => job'[i].agent = job[i].agent
  BY OtherJobs DEF JobMoves
<1>3. job'[j].agent # a
  BY EmptyRecords, Typed DEF Admission
<1> QED BY <1>1, <1>2, <1>3, ManualKept DEF Gone, JobMoves

(* The agents that a job's step is not about: when it ends, and when it goes on. *)
LEMMA LeavesOthers ==
  ASSUME Admission, NEW j \in Jobs, JobMoves(j), job[j].pc # "idle",
         job'[j] = Idle \/ job'[j].agent = job[j].agent, NEW a \in Agents, a = job[j].agent,
         \A b \in Agents : b # a =>
           seen'[b] = seen[b] /\ guard'[b] = guard[b] /\ begun'[b] = begun[b] /\ log'[b] = log[b],
         \A b \in Agents : AgentFits(b), AgentFits(a)'
  PROVE  \A b \in Agents : AgentFits(b)'
<1> SUFFICES ASSUME NEW b \in Agents, b # a
             PROVE  AgentFits(b)'
  OBVIOUS
<1>1. job[j].agent # b /\ job'[j].agent # b
  BY EmptyRecords, Typed DEF Admission
<1> QED BY <1>1, OtherAgents
-------------------------------------------------------------------------------
(* The steps of a job, for the agent it is of. *)

LEMMA AgentTyped ==
  ASSUME Admission, NEW a \in Agents
  PROVE  /\ begun[a] \in Seq(BegunRecs) /\ log[a] \in Seq(LogRecs)
         /\ seen[a] \in SeenRecs /\ guard[a] \in GuardRecs
         /\ now \in Nat /\ now \in 0..MaxTime /\ Day(now) \in Nat /\ Day(now) # NoTime
         /\ \A i \in DOMAIN begun[a] :
              /\ begun[a][i] \in BegunRecs /\ begun[a][i].at \in Nat /\ Day(begun[a][i].at) \in Nat
              /\ i \in Nat
         /\ Len(begun[a]) \in Nat /\ DOMAIN begun[a] = 1..Len(begun[a])
         /\ NoTime \notin Int /\ MaxTime \in Nat
         /\ MaxRunsPerDay \in Nat \ {0} /\ Cadence \in Nat \ {0}
<1>1. /\ begun[a] \in Seq(BegunRecs) /\ log[a] \in Seq(LogRecs)
      /\ seen[a] \in SeenRecs /\ guard[a] \in GuardRecs /\ now \in Nat /\ now \in 0..MaxTime
  BY Typed DEF Admission
<1>2. /\ NoTime \notin Int /\ MaxTime \in Nat
      /\ MaxRunsPerDay \in Nat \ {0} /\ Cadence \in Nat \ {0}
  BY ScheduleAssumption
<1>3. /\ Len(begun[a]) \in Nat /\ DOMAIN begun[a] = 1..Len(begun[a])
      /\ \A i \in DOMAIN begun[a] : begun[a][i] \in BegunRecs
  BY <1>1, SeqParts
<1>4. \A i \in DOMAIN begun[a] : begun[a][i].at \in Nat
  BY <1>2, <1>3 DEF BegunRecs
<1>5. \A i \in DOMAIN begun[a] : Day(begun[a][i].at) \in Nat
  BY <1>4, DayTyped
<1>6. Day(now) \in Nat /\ Day(now) # NoTime /\ \A i \in DOMAIN begun[a] : i \in Nat
  BY <1>1, <1>3, DayTyped
<1> QED BY <1>1, <1>2, <1>3, <1>4, <1>5, <1>6

(* A run that is on the log came a cadence before. *)
LEMMA SpacedIsBefore ==
  ASSUME Admission, NEW a \in Agents, NEW t \in Nat, SpacedBefore(a, t),
         NEW i \in DOMAIN begun[a], begun[a][i].end = "logged"
  PROVE  begun[a][i].at <= t /\ begun[a][i].at + Cadence <= t
  BY AgentTyped DEF SpacedBefore

LEMMA SpacedLater ==
  ASSUME Admission, NEW a \in Agents, NEW t \in Nat, SpacedBefore(a, t), NEW u \in Nat, t <= u
  PROVE  SpacedBefore(a, u)
<1> SUFFICES ASSUME NEW i \in DOMAIN begun[a], begun[a][i].end = "logged"
             PROVE  begun[a][i].at + Cadence <= u
  BY DEF SpacedBefore
<1>1. begun[a][i].at + Cadence <= t /\ begun[a][i].at \in Nat /\ Cadence \in Nat
  BY AgentTyped, SpacedIsBefore
<1> QED BY <1>1

LEMMA WatchQuietFits ==
  ASSUME Inv, NEW j \in Jobs, WatchQuiet(j)
  PROVE  \A b \in Agents : AgentFits(b)'
<1>1. PICK a \in Agents : a = job[j].agent
  BY AtWork DEF Inv, WatchQuiet
<1>2. /\ job[j].pc = "watching" /\ seen' = [seen EXCEPT ![a].start = job[j].at]
      /\ job' = [job EXCEPT ![j] = Idle]
      /\ UNCHANGED <<now, standing, log, guard, limiter, running, manual, begun>>
  BY <1>1 DEF WatchQuiet
<1>3. /\ seen \in [Agents -> SeenRecs] /\ job \in [Jobs -> JobRecs] /\ AgentFits(a) /\ Admission
  BY Typed DEF Inv, Admission
<1>4. JobMoves(j) /\ job'[j] = Idle
  BY <1>2, <1>3, WatchQuietMoves
<1>5. /\ seen'[a].start = job[j].at /\ seen'[a].wake = seen[a].wake
      /\ \A b \in Agents : b # a => seen'[b] = seen[b]
  BY <1>2, <1>3 DEF SeenRecs
<1>6. Gone(a) /\ SameManual(a) /\ SamePast(a) /\ \A i \in Jobs : job[i].agent = a => i = j
  BY <1>1, <1>2, <1>3, <1>4, JobIsGone DEF SamePast
<1>7. PastFits(a)' /\ OpenFits(a)' /\ JobFits(a)' /\ \A i \in DOMAIN begun[a] : begun[a][i].end # "open"
  BY <1>2, <1>3, <1>6, GoneFits, NothingOpen DEF AgentFits
<1>8. job[j].at \in Nat /\ SpacedBefore(a, job[j].at) /\ seen[a].wake = NoTime /\ seen[a].start # NoTime
  BY <1>1, <1>2, <1>3, AtWork DEF AgentFits, JobFits, StartsFit, Admission, TimesFit
<1>9. GuardFits(a)'
  BY <1>2, <1>3, <1>6, <1>8, GuardKept DEF AgentFits
<1>10. StartsFit(a)'
  <2>1. \A i \in DOMAIN begun[a] : begun[a][i].end = "logged" => begun[a][i].at <= job[j].at
    BY <1>3, <1>8, SpacedIsBefore
  <2> QED BY <1>2, <1>5, <1>7, <1>8, <2>1 DEF StartsFit
<1>11. AgentFits(a)'
  BY <1>7, <1>9, <1>10 DEF AgentFits
<1> QED BY <1>1, <1>2, <1>3, <1>4, <1>5, <1>11, LeavesOthers DEF Inv

(* A job that ends, and with it what was asked about its agent. *)
LEMMA EndsQuietly ==
  ASSUME Inv, NEW j \in Jobs, JobMoves(j), job'[j] = Idle, NEW a \in Agents, a = job[j].agent,
         job[j].pc \notin {"idle", "running"}, begun' = begun, log' = log, seen' = seen,
         \A b \in Agents : b # a => guard'[b] = guard[b],
         guard'[a].day = guard[a].day, guard'[a].count = guard[a].count
  PROVE  \A b \in Agents : AgentFits(b)'
<1>1. AgentFits(a) /\ Admission
  BY DEF Inv
<1>2. Gone(a) /\ SameManual(a) /\ SamePast(a) /\ \A i \in Jobs : job[i].agent = a => i = j
  BY <1>1, JobIsGone DEF SamePast
<1>3. PastFits(a)' /\ OpenFits(a)' /\ JobFits(a)' /\ GuardFits(a)' /\ StartsFit(a)'
  BY <1>1, <1>2, GoneFits, GoneStarts, GuardKept DEF AgentFits
<1> QED BY <1>1, <1>3, LeavesOthers DEF AgentFits, Inv

LEMMA WatchFailsFits ==
  ASSUME Inv, NEW j \in Jobs, WatchFails(j)
  PROVE  \A b \in Agents : AgentFits(b)'
<1>1. PICK a \in Agents : a = job[j].agent
  BY AtWork DEF Inv, WatchFails
<1>2. JobMoves(j) /\ job'[j] = Idle /\ job[j].pc = "watching"
  BY WatchFailsMoves, Typed DEF Inv, Admission, WatchFails
<1>3. UNCHANGED <<now, standing, log, seen, guard, begun>>
  BY DEF WatchFails
<1> QED BY <1>1, <1>2, <1>3, EndsQuietly

LEMMA GuardRefusesFits ==
  ASSUME Inv, NEW j \in Jobs, GuardRefuses(j)
  PROVE  \A b \in Agents : AgentFits(b)'
<1>1. PICK a \in Agents : a = job[j].agent
  BY AtWork DEF Inv, GuardRefuses
<1>2. JobMoves(j) /\ job[j].pc = "granted" /\ Finish(j)
  BY GuardRefusesMoves DEF Inv, GuardRefuses
<1>3. job'[j] = Idle
  BY <1>2, ReleaseSlot DEF Inv, Finish, Holding
<1>4. UNCHANGED <<now, log, seen, begun>>
      /\ guard' = [guard EXCEPT ![a].until = IF Paused(a) THEN @ ELSE NoTime]
  BY <1>1 DEF GuardRefuses
<1>5. /\ \A b \in Agents : b # a => guard'[b] = guard[b]
      /\ guard'[a].day = guard[a].day /\ guard'[a].count = guard[a].count
  BY <1>4, Typed DEF Inv, Admission, GuardRecs
<1> QED BY <1>1, <1>2, <1>3, <1>4, <1>5, EndsQuietly

LEMMA HeldBackFits ==
  ASSUME Inv, NEW j \in Jobs, HeldBack(j)
  PROVE  \A b \in Agents : AgentFits(b)'
<1>1. PICK a \in Agents : a = job[j].agent
  BY AtWork DEF Inv, HeldBack
<1>2. JobMoves(j) /\ job[j].pc = "guarding" /\ Finish(j) /\ UNCHANGED <<now, log, seen, guard, begun>>
  BY HeldBackMoves DEF Inv, HeldBack
<1>3. job'[j] = Idle
  BY <1>2, ReleaseSlot DEF Inv, Finish, Holding
<1> QED BY <1>1, <1>2, <1>3, EndsQuietly

LEMMA PauseSetFits ==
  ASSUME Inv, NEW j \in Jobs, PauseSet(j)
  PROVE  \A b \in Agents : AgentFits(b)'
<1>1. PICK a \in Agents : a = job[j].agent
  BY AtWork DEF Inv, PauseSet
<1>2. JobMoves(j) /\ job[j].pc = "ending" /\ Finish(j) /\ UNCHANGED <<now, log, seen, begun>>
  BY PauseSetMoves DEF Inv, PauseSet
<1>3. job'[j] = Idle
  BY <1>2, ReleaseSlot DEF Inv, Finish, Holding
<1>4. PICK until : guard' = [guard EXCEPT ![a].until = IF until = NoTime THEN @ ELSE until]
  BY <1>1 DEF PauseSet
<1>5. /\ \A b \in Agents : b # a => guard'[b] = guard[b]
      /\ guard'[a].day = guard[a].day /\ guard'[a].count = guard[a].count
  BY <1>4, Typed DEF Inv, Admission, GuardRecs
<1> QED BY <1>1, <1>2, <1>3, <1>5, EndsQuietly

(* Of a job that goes on, and is the only one of its agent. *)
LEMMA JobGoesOn ==
  ASSUME Admission, NEW j \in Jobs, JobMoves(j), NEW a \in Agents,
         job'[j].agent = a, job[j].agent = a \/ (job[j].pc = "idle" /\ a \notin claimed),
         \A i \in Jobs : i # j => job'[i] = job[i]
  PROVE  /\ \A i \in Jobs : job'[i].agent = a => i = j
         /\ \A i \in Jobs : job[i].agent = a => i = j
         /\ SameManual(a) /\ now' = now
<1>1. \A i \in Jobs : i # j => job[i].agent # a
  <2>1. CASE job[j].agent = a
    BY <2>1, Typed DEF Admission, ClaimsFit
  <2>2. CASE a \notin claimed
    BY <2>2, Typed DEF Admission, ClaimsFit
  <2> QED BY <2>1, <2>2
<1>2. job[j].pc = "idle" => job[j].agent # a
  BY Typed DEF Admission, ClaimsFit
<1> QED BY <1>1, <1>2, ManualKept DEF JobMoves

LEMMA WatchWakesFits ==
  ASSUME Inv, NEW j \in Jobs, WatchWakes(j)
  PROVE  \A b \in Agents : AgentFits(b)'
<1>1. PICK a \in Agents : a = job[j].agent
  BY AtWork DEF Inv, WatchWakes
<1>2. /\ job[j].pc = "watching"
      /\ seen' = [seen EXCEPT ![a] = [@ EXCEPT !.start = job[j].at, !.wake = job[j].at]]
      /\ UNCHANGED <<now, standing, log, guard, claimed, running, manual, begun>>
  BY <1>1 DEF WatchWakes
<1>3. /\ seen \in [Agents -> SeenRecs] /\ AgentFits(a) /\ Admission /\ now \in Nat
      /\ NoTime \notin Int
  BY Typed DEF Inv, Admission
<1>4. /\ JobMoves(j) /\ \A i \in Jobs : i # j => job'[i] = job[i]
      /\ job'[j].pc \in {"granted", "waiting"} /\ job'[j].wake = job[j].at
      /\ job'[j].agent = job[j].agent /\ job[j].at \in 0..now
  BY <1>3, WatchWakesMoves
<1>5. /\ seen'[a].start = job[j].at /\ seen'[a].wake = job[j].at
      /\ \A b \in Agents : b # a => seen'[b] = seen[b]
  BY <1>2, <1>3 DEF SeenRecs
<1>6. /\ \A i \in Jobs : job'[i].agent = a => i = j
      /\ \A i \in Jobs : job[i].agent = a => i = j
      /\ SameManual(a) /\ SamePast(a)
  BY <1>1, <1>2, <1>3, <1>4, JobGoesOn DEF SamePast
<1>7. /\ job[j].at \in Nat /\ job[j].at <= now /\ job[j].at # NoTime
      /\ SpacedBefore(a, job[j].at) /\ SpacedBefore(a, now) /\ seen[a].start # NoTime
  <2>1. job[j].at \in Nat /\ job[j].at <= now /\ job[j].at # NoTime /\ SpacedBefore(a, job[j].at)
        /\ seen[a].start # NoTime
    BY <1>1, <1>2, <1>3, <1>4, AtWork DEF AgentFits, JobFits
  <2> QED BY <1>3, <2>1, SpacedLater
<1>8. \A i \in DOMAIN begun[a] : begun[a][i].end # "open"
  BY <1>2, <1>3, <1>6, NothingOpen DEF AgentFits
<1>9. PastFits(a)' /\ GuardFits(a)'
  BY <1>2, <1>3, <1>5, <1>6, <1>7, PastKept, GuardKept DEF AgentFits
<1>10. OpenFits(a)'
  BY <1>2, <1>3, <1>4, <1>6, <1>8 DEF OpenFits, AgentFits, SameManual
<1>11. StartsFit(a)'
  <2>1. \A i \in DOMAIN begun[a] : begun[a][i].end = "logged" => begun[a][i].at <= job[j].at
    BY <1>3, <1>7, SpacedIsBefore
  <2>2. \A i \in DOMAIN begun'[a] :
          begun'[a][i].end = "logged" => begun'[a][i].at + Cadence <= seen'[a].wake
    BY <1>2, <1>5, <1>7 DEF SpacedBefore
  <2> QED BY <1>2, <1>4, <1>5, <1>6, <1>7, <1>8, <2>1, <2>2 DEF StartsFit, SpacedBefore
<1>12. JobFits(a)'
  BY <1>2, <1>4, <1>6, <1>7 DEF JobFits, SpacedBefore
<1>13. AgentFits(a)'
  BY <1>9, <1>10, <1>11, <1>12 DEF AgentFits
<1> QED BY <1>1, <1>2, <1>3, <1>4, <1>5, <1>13, LeavesOthers DEF Inv
(* The guard has no more left of today than it says. *)
LEMMA GuardAsksFits ==
  ASSUME Inv, NEW j \in Jobs, GuardAsks(j)
  PROVE  \A b \in Agents : AgentFits(b)'
<1>1. PICK a \in Agents : a = job[j].agent
  BY AtWork DEF Inv, GuardAsks
<1>2. /\ job[j].pc = "granted" /\ ~Capped(a) /\ guard' = [guard EXCEPT ![a].until = NoTime]
      /\ UNCHANGED <<now, standing, log, seen, claimed, limiter, running, manual, begun>>
  BY <1>1 DEF GuardAsks
<1>3. /\ guard \in [Agents -> GuardRecs] /\ AgentFits(a) /\ Admission /\ seen[a].start # NoTime
  BY <1>1, <1>2, Typed, AtWork DEF Inv, Admission
<1>4. /\ JobMoves(j) /\ \A i \in Jobs : i # j => job'[i] = job[i]
      /\ job'[j].pc = "guarding" /\ job'[j].at = now
      /\ job'[j].agent = job[j].agent /\ job'[j].wake = job[j].wake
  BY <1>3, GuardAsksMoves
<1>5. /\ guard'[a].day = guard[a].day /\ guard'[a].count = guard[a].count
      /\ guard'[a].until = NoTime /\ \A b \in Agents : b # a => guard'[b] = guard[b]
  BY <1>2, <1>3 DEF GuardRecs
<1>6. /\ \A i \in Jobs : job'[i].agent = a => i = j
      /\ \A i \in Jobs : job[i].agent = a => i = j
      /\ SameManual(a) /\ SamePast(a)
  BY <1>1, <1>2, <1>3, <1>4, JobGoesOn DEF SamePast
<1>7. PastFits(a)' /\ GuardFits(a)'
  BY <1>2, <1>3, <1>5, <1>6, PastKept, GuardKept DEF AgentFits
<1>8. OpenFits(a)'
  <2>1. \A i \in DOMAIN begun[a] : begun[a][i].end # "open"
    BY <1>2, <1>3, <1>6, NothingOpen DEF AgentFits
  <2> QED BY <1>2, <1>3, <1>4, <1>6, <2>1 DEF OpenFits, AgentFits, SameManual
<1>9. StartsFit(a)'
  BY <1>1, <1>2, <1>3, <1>4, <1>6 DEF StartsFit, AgentFits, SpacedBefore
<1>10. JobFits(a)'
  <2>1. SpacedBefore(a, now)
    BY <1>1, <1>2, <1>3 DEF JobFits, AgentFits
  <2>2. StartsOf(begun[a], Day(now)) < MaxRunsPerDay
    <3>1. /\ StartsOf(begun[a], Day(now)) \in Nat /\ MaxRunsPerDay \in Nat \ {0}
          /\ guard[a].count \in Nat
      BY <1>3, AgentTyped, RunsCounted DEF GuardRecs
    <3>2. StartsOf(begun[a], Day(now)) <= CountedToday(a)
      BY <1>3 DEF GuardFits, AgentFits
    <3>3. CountedToday(a) < MaxRunsPerDay
      BY <1>2, <3>1 DEF CountedToday, Capped
    <3>4. CountedToday(a) \in Nat
      BY <3>1 DEF CountedToday
    <3> QED BY <3>1, <3>2, <3>3, <3>4
  <2>3. guard[a].day # NoTime => guard[a].day <= Day(now)
    BY <1>3 DEF GuardFits, AgentFits
  <2> QED BY <1>2, <1>4, <1>5, <1>6, <2>1, <2>2, <2>3 DEF JobFits, SpacedBefore
<1>11. AgentFits(a)'
  BY <1>7, <1>8, <1>9, <1>10 DEF AgentFits
<1> QED BY <1>1, <1>2, <1>3, <1>4, <1>5, <1>11, LeavesOthers DEF Inv

(* A start that is recorded is counted on the day the guard was asked. *)
LEMMA StartCounted ==
  ASSUME Admission, NEW a \in Agents, AgentFits(a), NEW t \in Nat, t <= now,
         guard[a].day # NoTime => guard[a].day <= Day(t), seen[a].start # NoTime,
         guard'[a] = Counted(guard[a], t), now' = now
  PROVE  /\ guard'[a].day = Day(t) /\ guard'[a].day <= Day(now)
         /\ StartsOf(begun[a], Day(now)) + (IF Day(t) = Day(now) THEN 1 ELSE 0) <= CountedToday(a)'
<1> DEFINE d == guard[a].day
           c == guard[a].count
           n == StartsOf(begun[a], Day(now))
<1>1. /\ guard[a] \in GuardRecs /\ now \in Nat /\ Day(now) \in Nat /\ NoTime \notin Int
      /\ Day(now) # NoTime /\ n \in Nat
  BY AgentTyped, RunsCounted
<1>2. Day(t) <= Day(now) /\ Day(t) \in Nat
  BY <1>1, DayGrows
<1>3. /\ c \in Nat /\ d \in Times /\ guard'[a].day = Day(t)
      /\ guard'[a].count = IF d = Day(t) THEN c + 1 ELSE 1
  BY <1>1 DEF GuardRecs, Counted
<1>4. n <= IF d = Day(now) THEN c ELSE 0
  BY DEF AgentFits, GuardFits, CountedToday
<1>5. CountedToday(a)' = IF Day(t) = Day(now) THEN (IF d = Day(t) THEN c + 1 ELSE 1) ELSE 0
  BY <1>3 DEF CountedToday
<1>6. Day(t) # Day(now) => d # Day(now)
  BY <1>1, <1>2
<1> HIDE DEF d, c, n
<1>7. n + (IF Day(t) = Day(now) THEN 1 ELSE 0)
        <= IF Day(t) = Day(now) THEN (IF d = Day(t) THEN c + 1 ELSE 1) ELSE 0
  <2>1. CASE Day(t) = Day(now) /\ d = Day(t)
    BY <1>1, <1>3, <1>4, <2>1
  <2>2. CASE Day(t) = Day(now) /\ d # Day(t)
    BY <1>1, <1>4, <2>2
  <2>3. CASE Day(t) # Day(now)
    BY <1>1, <1>4, <1>6, <2>3
  <2> QED BY <2>1, <2>2, <2>3
<1> QED BY <1>2, <1>3, <1>5, <1>7 DEF n

(* What a job that asked the guard knows of its agent. *)
LEMMA AboutToStart ==
  ASSUME Inv, NEW j \in Jobs, job[j].pc = "guarding", NEW a \in Agents, a = job[j].agent
  PROVE  /\ job[j].at \in Nat /\ job[j].at <= now /\ job[j].at \in 0..MaxTime /\ job[j].at # NoTime
         /\ SpacedBefore(a, job[j].at) /\ seen[a].start # NoTime
         /\ guard[a].day # NoTime => guard[a].day <= Day(job[j].at)
         /\ StartsOf(begun[a], Day(job[j].at)) < MaxRunsPerDay
         /\ Started(seen[a], job[j].at, job[j].wake).wake = NoTime
         /\ \A i \in DOMAIN begun[a] : begun[a][i].end # "open"
         /\ \A i \in DOMAIN begun[a] : begun[a][i].end = "logged" => begun[a][i].at <= job[j].at
<1>1. AgentFits(a) /\ Admission /\ now \in Nat /\ now \in 0..MaxTime /\ MaxTime \in Nat
      /\ NoTime \notin Int
  BY AgentTyped DEF Inv
<1>2. job[j].at \in 0..now
  BY <1>1 DEF Admission, TimesFit
<1>3. job[j].at \in Nat /\ job[j].at <= now /\ job[j].at \in 0..MaxTime /\ job[j].at # NoTime
  BY <1>1, <1>2
<1>4. /\ SpacedBefore(a, job[j].at)
      /\ guard[a].day # NoTime => guard[a].day <= Day(job[j].at)
      /\ StartsOf(begun[a], Day(job[j].at)) < MaxRunsPerDay
  BY <1>1 DEF AgentFits, JobFits
<1>5. Started(seen[a], job[j].at, job[j].wake).wake = NoTime
  BY <1>1 DEF AgentFits, StartsFit, Started
<1>6. \A i \in DOMAIN begun[a] : begun[a][i].end # "open"
  <2>1. \A i \in Jobs : job[i].agent = a => job[i].pc # "running"
    BY AtWork DEF Inv
  <2> QED BY <1>1, <2>1, NothingOpen DEF AgentFits
<1>7. \A i \in DOMAIN begun[a] : begun[a][i].end = "logged" => begun[a][i].at <= job[j].at
  BY <1>1, <1>3, <1>4, SpacedIsBefore
<1> QED BY <1>1, <1>3, <1>4, <1>5, <1>6, <1>7, AtWork

LEMMA RunRefusedFits ==
  ASSUME Inv, NEW j \in Jobs, RunRefused(j)
  PROVE  \A b \in Agents : AgentFits(b)'
<1>1. PICK a \in Agents : a = job[j].agent
  BY AtWork DEF Inv, RunRefused
<1>2. /\ job[j].pc = "guarding" /\ Finish(j) /\ UNCHANGED <<now, standing, log, running, manual, begun>>
      /\ seen' = [seen EXCEPT ![job[j].agent] = Started(@, job[j].at, job[j].wake)]
      /\ guard' = [guard EXCEPT ![job[j].agent] = Counted(@, job[j].at)]
  BY DEF RunRefused
<1>3. AgentFits(a) /\ Admission /\ JobMoves(j) /\ job'[j] = Idle
  BY <1>2, RunRefusedMoves, ReleaseSlot DEF Inv, Finish, Holding
<1>4. /\ seen'[a] = Started(seen[a], job[j].at, job[j].wake)
      /\ guard'[a] = Counted(guard[a], job[j].at)
      /\ \A b \in Agents : b # a => seen'[b] = seen[b] /\ guard'[b] = guard[b]
  BY <1>1, <1>2, <1>3, StartRecorded
<1>5. /\ job[j].at \in Nat /\ job[j].at <= now /\ seen[a].start # NoTime
      /\ guard[a].day # NoTime => guard[a].day <= Day(job[j].at)
      /\ seen'[a].wake = NoTime /\ seen'[a].start = job[j].at
      /\ \A i \in DOMAIN begun[a] : begun[a][i].end # "open"
      /\ \A i \in DOMAIN begun[a] : begun[a][i].end = "logged" => begun[a][i].at <= job[j].at
  BY <1>1, <1>2, <1>4, AboutToStart DEF Started
<1>6. Gone(a) /\ SameManual(a) /\ SamePast(a) /\ \A i \in Jobs : job[i].agent = a => i = j
  BY <1>1, <1>2, <1>3, JobIsGone DEF SamePast
<1>7. PastFits(a)' /\ OpenFits(a)' /\ JobFits(a)'
  BY <1>2, <1>3, <1>6, GoneFits
<1>8. GuardFits(a)'
  <2>1. /\ guard'[a].day <= Day(now)
        /\ StartsOf(begun[a], Day(now)) + (IF Day(job[j].at) = Day(now) THEN 1 ELSE 0)
             <= CountedToday(a)'
    BY <1>2, <1>3, <1>4, <1>5, StartCounted
  <2>2. StartsOf(begun[a], Day(now)) \in Nat /\ guard'[a].day = Day(job[j].at)
    BY <1>3, <1>4, AgentTyped, RunsCounted DEF Counted, GuardRecs
  <2>3. CountedToday(a)' \in Nat
    BY <1>3, JobMovesAdmit, AgentTyped DEF JobMoves, GuardRecs, CountedToday
  <2>4. StartsOf(begun[a], Day(now)) <= CountedToday(a)'
    BY <2>1, <2>2, <2>3
  <2> QED BY <1>2, <2>1, <2>4 DEF GuardFits
<1>9. StartsFit(a)'
  BY <1>2, <1>5 DEF StartsFit
<1>10. AgentFits(a)'
  BY <1>7, <1>8, <1>9 DEF AgentFits
<1> QED BY <1>1, <1>2, <1>3, <1>4, <1>10, LeavesOthers DEF Inv
(* A run begins: within the cap, a cadence after those on the log. *)
LEMMA RunBegins ==
  ASSUME Admission, NEW a \in Agents, AgentFits(a), NEW t \in Nat, t <= now, t \in 0..MaxTime,
         begun'[a] = Append(begun[a], [at |-> t, end |-> "open"]), log'[a] = log[a], now' = now,
         SpacedBefore(a, t), StartsOf(begun[a], Day(t)) < MaxRunsPerDay
  PROVE  PastFits(a)'
<1> DEFINE e == [at |-> t, end |-> "open"]
           runs == begun[a]
           n == Len(runs) + 1
<1>1. e \in BegunRecs /\ e.at = t /\ e.end = "open"
  BY DEF BegunRecs, Ends
<1>2. /\ runs \in Seq(BegunRecs) /\ n \in Nat /\ DOMAIN runs = 1..Len(runs) /\ Len(runs) \in Nat
      /\ n \notin DOMAIN runs
  BY AgentTyped
<1>3. /\ DOMAIN begun'[a] = DOMAIN runs \cup {n} /\ begun'[a][n] = e
      /\ \A i \in DOMAIN runs : begun'[a][i] = runs[i]
  BY <1>1, <1>2, Added
<1>4. /\ \A i \in DOMAIN runs : runs[i].at <= now
      /\ \A i \in DOMAIN runs : runs[i].end = "logged" => log[a] # <<>> /\ runs[i].at <= LastRun(a)
      /\ LoggedOf(runs, Day(now)) <= EventsOf(log[a], Day(now))
      /\ \A day \in Nat : StartsOf(runs, day) <= MaxRunsPerDay
      /\ \A i, k \in DOMAIN runs : i < k /\ runs[i].end = "logged" => runs[i].at + Cadence <= runs[k].at
  BY DEF AgentFits, PastFits
<1>5. \A i \in DOMAIN runs : runs[i].end = "logged" => runs[i].at + Cadence <= t
  BY DEF SpacedBefore
<1>6. \A day : /\ StartsOf(begun'[a], day) = IF Day(t) = day THEN StartsOf(runs, day) + 1
                                             ELSE StartsOf(runs, day)
               /\ LoggedOf(begun'[a], day) = LoggedOf(runs, day)
  BY <1>1, <1>2, OneOpened
<1>7. \A day \in Nat : StartsOf(begun'[a], day) <= MaxRunsPerDay
  <2> TAKE day \in Nat
  <2>1. StartsOf(runs, day) \in Nat /\ StartsOf(runs, day) <= MaxRunsPerDay /\ MaxRunsPerDay \in Nat
    BY <1>2, <1>4, RunsCounted, AgentTyped
  <2> QED BY <1>6, <2>1
<1> HIDE DEF e, n
<1>8. \A i \in DOMAIN begun'[a] : begun'[a][i].at <= now
  BY <1>1, <1>3, <1>4
<1>9. LastRun(a)' = LastRun(a)
  BY DEF LastRun
<1>10. \A i \in DOMAIN begun'[a] : begun'[a][i].end = "logged" =>
        log[a] # <<>> /\ begun'[a][i].at <= LastRun(a)
  BY <1>1, <1>3, <1>4
<1>11. \A i, k \in DOMAIN begun'[a] :
         i < k /\ begun'[a][i].end = "logged" => begun'[a][i].at + Cadence <= begun'[a][k].at
  <2> SUFFICES ASSUME NEW i \in DOMAIN begun'[a], NEW k \in DOMAIN begun'[a],
                      i < k, begun'[a][i].end = "logged"
               PROVE  begun'[a][i].at + Cadence <= begun'[a][k].at
    OBVIOUS
  <2>1. i # n /\ i \in DOMAIN runs /\ begun'[a][i] = runs[i]
    BY <1>1, <1>3
  <2>2. CASE k = n
    BY <1>1, <1>3, <1>5, <2>1, <2>2
  <2>3. CASE k \in DOMAIN runs
    BY <1>3, <1>4, <2>1, <2>3
  <2> QED BY <1>3, <2>2, <2>3
<1> QED BY <1>4, <1>6, <1>7, <1>8, <1>9, <1>10, <1>11 DEF PastFits

LEMMA RunStartsFits ==
  ASSUME Inv, NEW j \in Jobs, RunStarts(j)
  PROVE  \A b \in Agents : AgentFits(b)'
<1>1. PICK a \in Agents : a = job[j].agent
  BY AtWork DEF Inv, RunStarts
<1> DEFINE t == job[j].at
           runs == begun[a]
           n == Len(runs) + 1
           e == [at |-> t, end |-> "open"]
<1>2. /\ job[j].pc = "guarding" /\ a \notin running /\ UNCHANGED <<now, standing, log, claimed, limiter, manual>>
      /\ seen' = [seen EXCEPT ![job[j].agent] = Started(@, job[j].at, job[j].wake)]
      /\ guard' = [guard EXCEPT ![job[j].agent] = Counted(@, job[j].at)]
      /\ begun' = [begun EXCEPT ![a] = Append(@, e)]
  BY <1>1 DEF RunStarts
<1>3. /\ AgentFits(a) /\ Admission
      /\ JobMoves(j) /\ \A i \in Jobs : i # j => job'[i] = job[i]
      /\ job'[j].pc = "running" /\ job'[j].since = now
      /\ job'[j].agent = job[j].agent /\ job'[j].at = job[j].at
  BY RunStartsMoves DEF Inv
<1>4. /\ seen'[a] = Started(seen[a], t, job[j].wake) /\ guard'[a] = Counted(guard[a], t)
      /\ \A b \in Agents : b # a => seen'[b] = seen[b] /\ guard'[b] = guard[b]
  BY <1>1, <1>2, <1>3, StartRecorded
<1>5. /\ t \in Nat /\ t <= now /\ t \in 0..MaxTime /\ t # NoTime
      /\ seen[a].start # NoTime /\ SpacedBefore(a, t)
      /\ guard[a].day # NoTime => guard[a].day <= Day(t)
      /\ StartsOf(runs, Day(t)) < MaxRunsPerDay
      /\ seen'[a].wake = NoTime /\ seen'[a].start = t
      /\ \A i \in DOMAIN runs : runs[i].end # "open"
      /\ \A i \in DOMAIN runs : runs[i].end = "logged" => runs[i].at <= t
  <2>1. seen'[a].start = t /\ seen'[a].wake = Started(seen[a], t, job[j].wake).wake
    BY <1>4 DEF Started
  <2>2. job[j].pc = "guarding"
    BY <1>2
  <2> QED BY <1>1, <2>1, <2>2, AboutToStart
<1>6. /\ e \in BegunRecs /\ e.at = t /\ e.end = "open" /\ begun'[a] = Append(runs, e)
      /\ \A b \in Agents : b # a => begun'[b] = begun[b]
  BY <1>2, <1>3, <1>5, Typed DEF BegunRecs, Ends, Admission
<1>7. /\ \A i \in Jobs : job'[i].agent = a => i = j
      /\ \A i \in Jobs : job[i].agent = a => i = j
      /\ SameManual(a) /\ now' = now
  BY <1>1, <1>2, <1>3, JobGoesOn
<1>8. PastFits(a)'
  BY <1>2, <1>3, <1>5, <1>6, RunBegins
<1>9. /\ runs \in Seq(BegunRecs) /\ Len(runs) \in Nat
      /\ DOMAIN begun'[a] = DOMAIN runs \cup {n} /\ begun'[a][n] = e /\ Len(begun'[a]) = n
      /\ \A i \in DOMAIN runs : begun'[a][i] = runs[i]
      /\ begun'[a] # <<>>
  <2>1. runs \in Seq(BegunRecs) /\ Len(runs) \in Nat
    BY <1>3, AgentTyped
  <2>2. Append(runs, e) # <<>>
    BY <2>1
  <2> QED BY <1>6, <2>1, <2>2, Added
<1>10. GuardFits(a)'
  <2>1. /\ guard'[a].day <= Day(now)
        /\ StartsOf(runs, Day(now)) + (IF Day(t) = Day(now) THEN 1 ELSE 0) <= CountedToday(a)'
    BY <1>2, <1>3, <1>4, <1>5, StartCounted
  <2>2. StartsOf(runs, Day(now)) \in Nat
    BY <1>9, RunsCounted
  <2>3. StartsOf(begun'[a], Day(now)) = StartsOf(runs, Day(now)) + (IF Day(t) = Day(now) THEN 1 ELSE 0)
    BY <1>6, <1>9, <2>2, OneOpened
  <2> QED BY <1>2, <2>1, <2>3 DEF GuardFits
<1> HIDE DEF t, e, n
<1>11. OpenFits(a)'
  <2>1. \A i \in DOMAIN begun'[a] : begun'[a][i].at <= now
    BY <1>2, <1>8 DEF PastFits
  <2>2. \A i \in DOMAIN begun'[a] : begun'[a][i].end = "open" => i = Len(begun'[a])
    BY <1>5, <1>9
  <2>3. \A r \in Requests : manual'[r].agent # a
    BY <1>2, <1>3, Typed DEF Admission, RunsFit
  <2> QED BY <1>1, <1>3, <1>6, <1>7, <1>9, <2>1, <2>2, <2>3 DEF OpenFits
<1>12. StartsFit(a)'
  <2>1. \A i \in DOMAIN begun'[a] : begun'[a][i].end \in {"logged", "open"} => begun'[a][i].at <= t
    BY <1>5, <1>6, <1>9
  <2> QED BY <1>5, <2>1 DEF StartsFit
<1>13. JobFits(a)'
  BY <1>3, <1>7 DEF JobFits
<1>14. AgentFits(a)'
  BY <1>8, <1>10, <1>11, <1>12, <1>13 DEF AgentFits
<1> QED BY <1>1, <1>2, <1>3, <1>4, <1>6, <1>14, AtWork, LeavesOthers DEF Inv
(* A run that was open ends: on the log, or with no trace. *)
LEMMA RunIsClosed ==
  ASSUME Inv, NEW j \in Jobs, job[j].pc = "running", NEW a \in Agents, a = job[j].agent,
         NEW end \in {"logged", "threw"}, Closed(a, end)
  PROVE  /\ begun[a] \in Seq(BegunRecs) /\ begun[a] # <<>> /\ begun[a][Len(begun[a])].end = "open"
         /\ begun'[a] = ClosedRuns(begun[a], end) /\ DOMAIN begun'[a] = DOMAIN begun[a]
         /\ \A i \in DOMAIN begun[a] :
              /\ begun'[a][i].at = begun[a][i].at
              /\ begun'[a][i].end = IF i = Len(begun[a]) THEN end ELSE begun[a][i].end
              /\ begun'[a][i].end # "open"
              /\ begun[a][i].at <= job[j].since
         /\ \A b \in Agents : b # a => begun'[b] = begun[b]
         /\ seen[a].wake = NoTime /\ seen[a].start # NoTime
         /\ job[j].since \in Nat /\ job[j].since <= now /\ job[j].since \in 0..MaxTime
<1>1. /\ Admission /\ OpenFits(a) /\ StartsFit(a) /\ begun \in [Agents -> Seq(BegunRecs)]
      /\ now \in Nat
  BY Typed DEF Inv, AgentFits, Admission
<1>2. /\ begun[a] \in Seq(BegunRecs) /\ begun[a] # <<>> /\ begun[a][Len(begun[a])].end = "open"
      /\ \A i \in DOMAIN begun[a] : begun[a][i].at <= job[j].since
      /\ \A i \in DOMAIN begun[a] : begun[a][i].end = "open" => i = Len(begun[a])
  BY <1>1 DEF OpenFits
<1>3. /\ begun'[a] = ClosedRuns(begun[a], end)
      /\ \A b \in Agents : b # a => begun'[b] = begun[b]
  BY <1>1 DEF Closed, ClosedRuns
<1>4. end \in Ends /\ end # "open"
  BY DEF Ends
<1>5. /\ DOMAIN begun'[a] = DOMAIN begun[a]
      /\ \A i \in DOMAIN begun[a] :
           /\ begun'[a][i].at = begun[a][i].at
           /\ begun'[a][i].end = IF i = Len(begun[a]) THEN end ELSE begun[a][i].end
  BY <1>2, <1>3, <1>4, ClosedParts
<1>6. seen[a].wake = NoTime /\ seen[a].start # NoTime
  BY <1>1, AtWork DEF StartsFit
<1>7. job[j].since \in 0..now /\ job[j].since \in 0..MaxTime
  BY <1>1, RunningTimes
<1>8. job[j].since \in Nat /\ job[j].since <= now
  BY ONLY <1>1, <1>7
<1>9. \A i \in DOMAIN begun[a] : begun'[a][i].end # "open"
  BY ONLY <1>2, <1>4, <1>5
<1> QED BY ONLY <1>2, <1>3, <1>5, <1>6, <1>7, <1>8, <1>9

(* What then holds of the agent, whose job is over or has its credits to read. *)
LEMMA ClosedFits ==
  ASSUME Inv, NEW j \in Jobs, job[j].pc = "running", NEW a \in Agents, a = job[j].agent,
         NEW end \in {"logged", "threw"}, Closed(a, end), JobMoves(j),
         job'[j] = Idle \/ (job'[j].pc = "ending" /\ job'[j].agent = a),
         guard' = guard, seen' = seen, PastFits(a)'
  PROVE  AgentFits(a)'
<1>1. Admission /\ AgentFits(a)
  BY DEF Inv
<1>2. /\ begun[a] \in Seq(BegunRecs) /\ begun[a] # <<>> /\ begun[a][Len(begun[a])].end = "open"
      /\ begun'[a] = ClosedRuns(begun[a], end) /\ DOMAIN begun'[a] = DOMAIN begun[a]
      /\ \A i \in DOMAIN begun[a] :
           /\ begun'[a][i].at = begun[a][i].at
           /\ begun'[a][i].end = IF i = Len(begun[a]) THEN end ELSE begun[a][i].end
           /\ begun'[a][i].end # "open"
      /\ seen[a].wake = NoTime /\ seen[a].start # NoTime
  BY RunIsClosed
<1>3. \A i \in Jobs : job'[i].agent = a => i = j /\ job'[i].pc = "ending"
  <2>1. \A i \in Jobs : i # j => job'[i].agent # a
    BY <1>1, AtWork, OtherJobs DEF JobMoves
  <2>2. Idle.agent # a
    BY <1>1, EmptyRecords, Typed DEF Admission
  <2> QED BY <2>1, <2>2
<1>4. now' = now /\ manual' = manual
  BY DEF JobMoves
<1>5. GuardFits(a)'
  <2>1. /\ StartsOf(begun'[a], Day(now)) <= StartsOf(begun[a], Day(now))
        /\ StartsOf(begun[a], Day(now)) \in Nat /\ guard[a].count \in Nat
        /\ StartsOf(begun'[a], Day(now)) \in Nat
    <3>1. end \in Ends
      BY DEF Ends
    <3> QED BY <1>1, <1>2, <3>1, OneClosed, ClosedParts, RunsCounted, AgentTyped DEF GuardRecs
  <2>2. CountedToday(a)' = CountedToday(a) /\ CountedToday(a) \in Nat
    BY <1>4, <2>1 DEF CountedToday
  <2>3. StartsOf(begun[a], Day(now)) <= CountedToday(a)
    BY <1>1, <1>2 DEF AgentFits, GuardFits
  <2>4. StartsOf(begun'[a], Day(now)) <= CountedToday(a)'
    BY <2>1, <2>2, <2>3
  <2> QED BY <1>1, <1>4, <2>4 DEF AgentFits, GuardFits
<1>6. OpenFits(a)'
  <2>1. \A r \in Requests : manual[r].agent = a =>
          \A i \in DOMAIN begun[a] : begun[a][i].at <= manual[r].since
    BY <1>1 DEF AgentFits, OpenFits
  <2> QED BY <1>2, <1>3, <1>4, <2>1 DEF OpenFits
<1>7. StartsFit(a)'
  <2>1. \A i \in DOMAIN begun[a] :
          begun[a][i].end \in {"logged", "open"} => begun[a][i].at <= seen[a].start
    BY <1>1, <1>2 DEF AgentFits, StartsFit
  <2> QED BY <1>2, <2>1 DEF StartsFit
<1>8. JobFits(a)'
  BY <1>3 DEF JobFits
<1> QED BY <1>5, <1>6, <1>7, <1>8 DEF AgentFits

LEMMA RunThrowsFits ==
  ASSUME Inv, NEW j \in Jobs, RunThrows(j)
  PROVE  \A b \in Agents : AgentFits(b)'
<1>1. PICK a \in Agents : a = job[j].agent
  BY AtWork DEF Inv, RunThrows
<1>2. /\ job[j].pc = "running" /\ Closed(a, "threw") /\ Finish(j)
      /\ UNCHANGED <<now, standing, log, seen, guard, manual>>
  BY <1>1 DEF RunThrows
<1>3. AgentFits(a) /\ Admission /\ JobMoves(j) /\ job'[j] = Idle
  BY <1>2, RunThrowsMoves, ReleaseSlot DEF Inv, Finish, Holding
<1>4. /\ begun[a] \in Seq(BegunRecs) /\ begun[a] # <<>> /\ begun[a][Len(begun[a])].end = "open"
      /\ begun'[a] = ClosedRuns(begun[a], "threw") /\ DOMAIN begun'[a] = DOMAIN begun[a]
      /\ \A i \in DOMAIN begun[a] :
           /\ begun'[a][i].at = begun[a][i].at
           /\ begun'[a][i].end = IF i = Len(begun[a]) THEN "threw" ELSE begun[a][i].end
      /\ \A b \in Agents : b # a => begun'[b] = begun[b]
  BY <1>1, <1>2, RunIsClosed
<1>5. PastFits(a)'
  <2>1. \A day : /\ StartsOf(begun'[a], day) <= StartsOf(begun[a], day)
                 /\ LoggedOf(begun'[a], day) = LoggedOf(begun[a], day)
    BY <1>4, OneClosed DEF Ends
  <2>2. \A day \in Nat : StartsOf(begun'[a], day) <= MaxRunsPerDay
    <3> TAKE day \in Nat
    <3>1. /\ StartsOf(begun[a], day) \in Nat /\ StartsOf(begun'[a], day) \in Nat
          /\ MaxRunsPerDay \in Nat /\ StartsOf(begun[a], day) <= MaxRunsPerDay
      BY <1>3, <1>4, AgentTyped, ClosedParts, RunsCounted DEF Ends, AgentFits, PastFits
    <3> QED BY <2>1, <3>1
  <2>3. LastRun(a)' = LastRun(a) /\ log'[a] = log[a] /\ now' = now
    BY <1>2 DEF LastRun
  <2> QED BY <1>3, <1>4, <2>1, <2>2, <2>3 DEF AgentFits, PastFits
<1>6. AgentFits(a)'
  BY <1>1, <1>2, <1>3, <1>5, ClosedFits
<1> QED BY <1>1, <1>2, <1>3, <1>4, <1>6, LeavesOthers DEF Inv

(* The run that is logged is the last one on the log, as of its beginning. *)
LEMMA RunIsLogged ==
  ASSUME Inv, NEW j \in Jobs, job[j].pc = "running", NEW a \in Agents, a = job[j].agent,
         Closed(a, "logged"), Logged(a, job[j].since, "schedule"), now' = now
  PROVE  PastFits(a)' /\ \A b \in Agents : b # a => log'[b] = log[b]
<1> DEFINE t == job[j].since
           e == [at |-> t, trigger |-> "schedule"]
           m == Len(log[a]) + 1
           n == Len(begun[a])
           u == begun[a][n].at
<1>1. /\ begun[a] \in Seq(BegunRecs) /\ begun[a] # <<>> /\ begun[a][n].end = "open"
      /\ begun'[a] = ClosedRuns(begun[a], "logged") /\ DOMAIN begun'[a] = DOMAIN begun[a]
      /\ \A i \in DOMAIN begun[a] :
           /\ begun'[a][i].at = begun[a][i].at
           /\ begun'[a][i].end = IF i = n THEN "logged" ELSE begun[a][i].end
           /\ begun[a][i].at <= t
      /\ t \in Nat /\ t <= now /\ t \in 0..MaxTime
  BY RunIsClosed
<1>2. Admission /\ PastFits(a) /\ log \in [Agents -> Seq(LogRecs)]
  BY Typed DEF Inv, AgentFits, Admission
<1>3. /\ log[a] \in Seq(LogRecs) /\ now \in Nat /\ Day(now) \in Nat
      /\ n \in DOMAIN begun[a] /\ u \in Nat /\ n \in Nat /\ DOMAIN begun[a] = 1..n
      /\ MaxRunsPerDay \in Nat
  BY <1>1, <1>2, AgentTyped, SeqParts
<1>4. e \in LogRecs /\ e.at = t
  BY <1>1 DEF LogRecs
<1>5. log'[a] = Append(log[a], e) /\ \A b \in Agents : b # a => log'[b] = log[b]
  BY <1>2 DEF Logged
<1> HIDE DEF e, m
<1>6. log'[a] # <<>> /\ LastRun(a)' = t
  <2>1. Len(log'[a]) = Len(log[a]) + 1 /\ log'[a][Len(log[a]) + 1] = e /\ log'[a] # <<>>
    BY <1>3, <1>4, <1>5
  <2> QED BY <1>4, <2>1 DEF LastRun
<1>7. LoggedOf(begun'[a], Day(now)) <= EventsOf(log'[a], Day(now))
  <2>1. /\ LoggedOf(begun'[a], Day(now)) = IF Day(u) = Day(now) THEN LoggedOf(begun[a], Day(now)) + 1
                                           ELSE LoggedOf(begun[a], Day(now))
        /\ LoggedOf(begun[a], Day(now)) \in Nat
    BY <1>1, OneClosed, RunsCounted DEF Ends
  <2>2. /\ EventsOf(log'[a], Day(now)) = IF Day(t) = Day(now) THEN EventsOf(log[a], Day(now)) + 1
                                         ELSE EventsOf(log[a], Day(now))
        /\ EventsOf(log[a], Day(now)) \in Nat
    BY <1>3, <1>4, <1>5, OneEvent, EventsCounted DEF e
  <2>3. Day(u) = Day(now) => Day(t) = Day(now)
    <3>1. Day(u) <= Day(t) /\ Day(t) <= Day(now) /\ Day(u) \in Nat /\ Day(t) \in Nat
      BY <1>1, <1>3, DayGrows
    <3> QED BY <1>3, <3>1
  <2>4. LoggedOf(begun[a], Day(now)) <= EventsOf(log[a], Day(now))
    BY <1>2 DEF PastFits
  <2> QED BY <2>1, <2>2, <2>3, <2>4
<1>8. \A day \in Nat : StartsOf(begun'[a], day) <= MaxRunsPerDay
  <2> TAKE day \in Nat
  <2>1. StartsOf(begun'[a], day) <= StartsOf(begun[a], day)
    BY <1>1, OneClosed DEF Ends
  <2>2. StartsOf(begun[a], day) \in Nat /\ StartsOf(begun'[a], day) \in Nat
    BY <1>1, ClosedParts, RunsCounted DEF Ends
  <2>3. StartsOf(begun[a], day) <= MaxRunsPerDay
    BY <1>2 DEF PastFits
  <2> QED BY <1>3, <2>1, <2>2, <2>3
<1>9. \A i, k \in DOMAIN begun'[a] :
        i < k /\ begun'[a][i].end = "logged" => begun'[a][i].at + Cadence <= begun'[a][k].at
  <2> SUFFICES ASSUME NEW i \in DOMAIN begun[a], NEW k \in DOMAIN begun[a],
                      i < k, begun'[a][i].end = "logged"
               PROVE  begun[a][i].at + Cadence <= begun[a][k].at
    BY <1>1
  <2>1. i # n
    BY <1>3
  <2> QED BY <1>1, <1>2, <2>1 DEF PastFits
<1>10. \A i \in DOMAIN begun'[a] : begun'[a][i].at <= now
  BY <1>1, <1>2 DEF PastFits
<1> QED BY <1>1, <1>5, <1>6, <1>7, <1>8, <1>9, <1>10 DEF PastFits

LEMMA RunEndsFits ==
  ASSUME Inv, NEW j \in Jobs, RunEnds(j)
  PROVE  \A b \in Agents : AgentFits(b)'
<1>1. PICK a \in Agents : a = job[j].agent
  BY AtWork DEF Inv, RunEnds
<1>2. /\ job[j].pc = "running" /\ Closed(a, "logged") /\ Finish(j)
      /\ Logged(a, job[j].since, "schedule") /\ UNCHANGED <<now, standing, seen, guard, manual>>
  BY <1>1 DEF RunEnds
<1>3. Admission /\ JobMoves(j) /\ job'[j] = Idle
  BY <1>2, RunEndsMoves, ReleaseSlot DEF Inv, Finish, Holding
<1>4. /\ PastFits(a)' /\ \A b \in Agents : b # a => log'[b] = log[b]
      /\ \A b \in Agents : b # a => begun'[b] = begun[b]
  BY <1>1, <1>2, RunIsLogged, RunIsClosed
<1>5. AgentFits(a)'
  BY <1>1, <1>2, <1>3, <1>4, ClosedFits
<1> QED BY <1>1, <1>2, <1>3, <1>4, <1>5, LeavesOthers DEF Inv

LEMMA RunExhaustsFits ==
  ASSUME Inv, NEW j \in Jobs, RunExhausts(j)
  PROVE  \A b \in Agents : AgentFits(b)'
<1>1. PICK a \in Agents : a = job[j].agent
  BY AtWork DEF Inv, RunExhausts
<1>2. /\ job[j].pc = "running" /\ Closed(a, "logged")
      /\ Logged(a, job[j].since, "schedule") /\ UNCHANGED <<now, standing, seen, guard>>
  BY <1>1 DEF RunExhausts
<1>3. Admission /\ JobMoves(j) /\ job'[j].pc = "ending" /\ job'[j].agent = a
  BY <1>1, RunExhaustsMoves DEF Inv
<1>4. /\ PastFits(a)' /\ \A b \in Agents : b # a => log'[b] = log[b]
      /\ \A b \in Agents : b # a => begun'[b] = begun[b]
  BY <1>1, <1>2, RunIsLogged, RunIsClosed
<1>5. AgentFits(a)'
  BY <1>1, <1>2, <1>3, <1>4, ClosedFits
<1> QED BY <1>1, <1>2, <1>3, <1>4, <1>5, LeavesOthers DEF Inv
-------------------------------------------------------------------------------
(* The polls, for the agent they are of. *)

(* The agents a poll is not of. *)
LEMMA PollOfOthers ==
  ASSUME Inv, NEW a \in Agents, NEW seed, NEW s, Looks(a, s),
         guard' = [guard EXCEPT ![a] = seed.guard], AgentFits(a)',
         job' = job \/ \E j \in Jobs : JobMoves(j) /\ job[j].pc = "idle" /\ job'[j].agent = a
  PROVE  \A b \in Agents : AgentFits(b)'
<1> SUFFICES ASSUME NEW b \in Agents, b # a
             PROVE  AgentFits(b)'
  OBVIOUS
<1>1. /\ seen \in [Agents -> SeenRecs] /\ guard \in [Agents -> GuardRecs] /\ Admission /\ AgentFits(b)
      /\ NoAgent \notin Agents
  BY Typed DEF Inv, Admission
<1>2. seen'[b] = seen[b] /\ guard'[b] = guard[b] /\ SamePast(b)
  BY <1>1 DEF Looks, SamePast
<1>3. SameJobs(b) /\ SameManual(b)
  <2>1. CASE job' = job
    BY <2>1, ManualKept DEF SameJobs, Looks
  <2>2. CASE \E j \in Jobs : JobMoves(j) /\ job[j].pc = "idle" /\ job'[j].agent = a
    <3>1. PICK j \in Jobs : JobMoves(j) /\ job[j].pc = "idle" /\ job'[j].agent = a
      BY <2>2
    <3>2. job[j].agent # b
      BY <1>1, <3>1 DEF Admission, ClaimsFit
    <3> QED BY <1>1, <3>1, <3>2, JobIsOfOther
  <2> QED BY <2>1, <2>2
<1> QED BY <1>1, <1>2, <1>3, QuietAgent

(* What an agent the scheduler asks about is seed by: the log has the rest. *)
LEMMA Seeds ==
  ASSUME Inv, NEW a \in Agents, NEW seed \in Seeded(a), now' = now, begun'[a] = begun[a],
         guard'[a] = seed.guard
  PROVE  /\ GuardFits(a)' /\ seed.seen.start # NoTime
         /\ \A i \in DOMAIN begun[a] :
              begun[a][i].end \in {"logged", "open"} => begun[a][i].at <= seed.seen.start
         /\ seen[a].start # NoTime => seed.guard = guard[a] /\ seed.seen = seen[a]
         /\ \A j \in Jobs : job[j].agent = a => seen[a].start # NoTime
<1>1. /\ Admission /\ AgentFits(a) /\ begun[a] \in Seq(BegunRecs) /\ log[a] \in Seq(LogRecs)
      /\ now \in Nat /\ Day(now) \in Nat /\ Day(now) # NoTime
      /\ guard[a] \in GuardRecs
  BY AgentTyped DEF Inv
<1>2. /\ seed.seen.start # NoTime
      /\ seen[a].start # NoTime => seed.seen = seen[a] /\ seed.guard = guard[a]
      /\ seen[a].start = NoTime =>
           /\ log[a] # <<>> => seed.seen.start = LastRun(a)
           /\ seed.guard = IF LoggedToday(a) = 0 THEN guard[a]
                            ELSE [guard[a] EXCEPT !.day = Day(now), !.count = LoggedToday(a)]
  BY <1>1, SeededParts DEF Admission
<1>3. \A j \in Jobs : job[j].agent = a => seen[a].start # NoTime
  BY <1>1, Typed DEF Admission, ClaimsFit
<1>4. CASE seen[a].start # NoTime
  BY <1>1, <1>2, <1>3, <1>4 DEF AgentFits, GuardFits, StartsFit, CountedToday
<1>5. CASE seen[a].start = NoTime
  <2>1. \A i \in DOMAIN begun[a] : begun[a][i].end # "open"
    BY <1>1, <1>3, <1>5, NothingOpen DEF AgentFits
  <2>2. \A i \in DOMAIN begun[a] :
          begun[a][i].end \in {"logged", "open"} => begun[a][i].at <= seed.seen.start
    BY <1>1, <1>2, <1>5, <2>1 DEF AgentFits, PastFits
  <2>3. /\ StartsOf(begun[a], Day(now)) <= LoggedToday(a) /\ LoggedToday(a) \in Nat
        /\ StartsOf(begun[a], Day(now)) \in Nat
    <3>1. StartsOf(begun[a], Day(now)) = LoggedOf(begun[a], Day(now))
      BY <2>1, NoneOpen
    <3>2. LoggedToday(a) = EventsOf(log[a], Day(now))
      BY DEF LoggedToday, EventsOf
    <3> QED BY <1>1, <3>1, <3>2, EventsCounted, RunsCounted DEF AgentFits, PastFits
  <2>4. GuardFits(a)'
    <3>1. CASE LoggedToday(a) = 0
      <4>1. guard'[a] = guard[a] /\ StartsOf(begun[a], Day(now)) = 0
        BY <1>2, <1>5, <2>3, <3>1
      <4>2. CountedToday(a)' \in Nat
        BY <1>1, <4>1 DEF CountedToday, GuardRecs
      <4> QED BY <1>1, <4>1, <4>2 DEF AgentFits, GuardFits
    <3>2. CASE LoggedToday(a) # 0
      <4>1. guard'[a].day = Day(now) /\ guard'[a].count = LoggedToday(a)
        BY <1>1, <1>2, <1>5, <3>2 DEF GuardRecs
      <4>2. CountedToday(a)' = LoggedToday(a)
        BY <4>1 DEF CountedToday
      <4> QED BY <1>1, <2>3, <4>1, <4>2 DEF GuardFits
    <3> QED BY <3>1, <3>2
  <2> QED BY <1>2, <1>3, <1>5, <2>2, <2>4
<1> QED BY <1>4, <1>5

LEMMA PollPassesFits ==
  ASSUME Inv, NEW a \in Agents, PollPasses(a)
  PROVE  \A b \in Agents : AgentFits(b)'
<1>1. Admission /\ AgentFits(a) /\ seen \in [Agents -> SeenRecs] /\ guard \in [Agents -> GuardRecs]
  BY Typed DEF Inv, Admission
<1>2. PICK seed \in Seeded(a) :
        LET s == [seed.seen EXCEPT !.wake = LiveWake(a)]
        IN s \in SeenRecs /\ Looks(a, s) /\ guard' = [guard EXCEPT ![a] = seed.guard]
  BY <1>1, PollPassesSteps
<1> DEFINE s == [seed.seen EXCEPT !.wake = LiveWake(a)]
<1>3. UNCHANGED <<claimed, limiter, job>>
  BY <1>1, PollPassesSteps
<1>4. /\ seen'[a].wake \in {NoTime, seen[a].wake} /\ seen'[a].start = seed.seen.start
      /\ guard'[a] = seed.guard
  BY <1>1, <1>2, LookedParts DEF Admission
<1>5. SamePast(a) /\ SameJobs(a) /\ SameManual(a)
  BY <1>2, <1>3, ManualKept DEF SamePast, SameJobs, Looks
<1>6. /\ GuardFits(a)' /\ seed.seen.start # NoTime
      /\ \A i \in DOMAIN begun[a] :
           begun[a][i].end \in {"logged", "open"} => begun[a][i].at <= seed.seen.start
      /\ seen[a].start # NoTime => seed.guard = guard[a] /\ seed.seen = seen[a]
      /\ \A j \in Jobs : job[j].agent = a => seen[a].start # NoTime
  BY <1>4, <1>5, Seeds DEF SamePast
<1>7. PastFits(a)' /\ OpenFits(a)'
  BY <1>1, <1>5, PastKept, OpenKept DEF AgentFits, SamePast
<1>8. CASE seen[a].start # NoTime
  <2>1. seen'[a].start = seen[a].start /\ guard'[a] = guard[a]
    BY <1>4, <1>6, <1>8
  <2>2. StartsFit(a)' /\ JobFits(a)'
    BY <1>1, <1>4, <1>5, <2>1, StartsKept, JobsKept DEF AgentFits
  <2>3. AgentFits(a)'
    BY <1>6, <1>7, <2>2 DEF AgentFits
  <2> QED BY <1>2, <1>3, <2>3, PollOfOthers
<1>9. CASE seen[a].start = NoTime
  <2>1. seen'[a].wake = NoTime
    BY <1>1, <1>4, <1>9 DEF AgentFits, StartsFit
  <2>2. JobFits(a)' /\ StartsFit(a)'
    BY <1>3, <1>4, <1>5, <1>6, <1>9, <2>1 DEF JobFits, StartsFit, SamePast
  <2>3. AgentFits(a)'
    BY <1>6, <1>7, <2>2 DEF AgentFits
  <2> QED BY <1>2, <1>3, <2>3, PollOfOthers
<1> QED BY <1>8, <1>9

(* A due agent's next run comes a cadence after those on the log. *)
LEMMA DueIsSpaced ==
  ASSUME Inv, NEW a \in Agents, NEW start \in Int, now >= start + Cadence,
         \A i \in DOMAIN begun[a] :
           begun[a][i].end \in {"logged", "open"} => begun[a][i].at <= start
  PROVE  SpacedBefore(a, now)
<1> SUFFICES ASSUME NEW i \in DOMAIN begun[a], begun[a][i].end = "logged"
             PROVE  begun[a][i].at + Cadence <= now
  BY DEF SpacedBefore
<1>1. begun[a][i].at \in Nat /\ Cadence \in Nat /\ now \in Nat /\ begun[a][i].at <= start
  BY AgentTyped DEF Inv
<1> QED BY <1>1

(* An agent that is free has no job and no run open. *)
LEMMA FreeIsIdle ==
  ASSUME Inv, NEW a \in Agents, Free(a)
  PROVE  /\ \A j \in Jobs : job[j].agent # a
         /\ \A r \in Requests : manual[r].agent # a
         /\ \A i \in DOMAIN begun[a] : begun[a][i].end # "open"
<1>1. \A j \in Jobs : job[j].agent # a
  BY Typed DEF Inv, Admission, ClaimsFit, Free
<1>2. \A r \in Requests : manual[r].agent # a
  BY Typed DEF Inv, Admission, RunsFit, Free
<1> QED BY <1>1, <1>2, NothingOpen DEF Inv, AgentFits

(* A job that is begun for a free agent. *)
LEMMA JobBegins ==
  ASSUME Inv, NEW a \in Agents, NEW seed \in Seeded(a), NEW s \in SeenRecs, NEW j \in Jobs,
         s.start = seed.seen.start, s.wake \in {NoTime, seen[a].wake}, Looks(a, s), Free(a),
         guard' = [guard EXCEPT ![a] = seed.guard],
         JobMoves(j), \A i \in Jobs : i # j => job'[i] = job[i],
         job[j].pc = "idle", job'[j].agent = a, SpacedBefore(a, now),
         \/ job'[j].pc \in {"granted", "waiting"} /\ job'[j].wake = s.wake
         \/ job'[j].pc = "watching" /\ job'[j].at = now /\ s.wake = NoTime
  PROVE  \A b \in Agents : AgentFits(b)'
<1>1. Admission /\ AgentFits(a) /\ seen \in [Agents -> SeenRecs] /\ guard \in [Agents -> GuardRecs]
  BY Typed DEF Inv, Admission
<1>2. seen'[a] = s /\ guard'[a] = seed.guard /\ SamePast(a)
  BY <1>1 DEF Looks, SamePast
<1>3. /\ \A i \in Jobs : job[i].agent # a
      /\ \A r \in Requests : manual[r].agent # a
      /\ \A i \in DOMAIN begun[a] : begun[a][i].end # "open"
  BY FreeIsIdle
<1>4. \A i \in Jobs : job'[i].agent = a => i = j
  BY <1>3
<1>5. /\ GuardFits(a)' /\ seed.seen.start # NoTime
      /\ \A i \in DOMAIN begun[a] :
           begun[a][i].end \in {"logged", "open"} => begun[a][i].at <= seed.seen.start
  BY <1>2, Seeds DEF SamePast
<1>6. PastFits(a)'
  BY <1>1, <1>2, PastKept DEF AgentFits
<1>7. OpenFits(a)'
  BY <1>2, <1>3, <1>4 DEF OpenFits, SamePast, Looks
<1>8. StartsFit(a)'
  <2>1. \A i \in DOMAIN begun'[a] :
          begun'[a][i].end \in {"logged", "open"} => begun'[a][i].at <= seen'[a].start
    BY <1>2, <1>5 DEF SamePast
  <2>2. CASE s.wake = NoTime
    BY <1>2, <2>1, <2>2 DEF StartsFit
  <2>3. CASE s.wake # NoTime
    <3>1. seen[a].wake = s.wake /\ seen[a].wake <= now /\ SpacedBefore(a, seen[a].wake)
      BY <1>1, <2>3 DEF AgentFits, StartsFit
    <3>2. SpacedBefore(a, s.wake)'
      BY <1>2, <3>1 DEF SpacedBefore, SamePast
    <3> QED BY <1>2, <1>4, <1>5, <2>1, <2>3, <3>1 DEF StartsFit, SpacedBefore, SamePast
  <2> QED BY <2>2, <2>3
<1>9. JobFits(a)'
  BY <1>2, <1>4 DEF JobFits, SpacedBefore, SamePast
<1>10. AgentFits(a)'
  BY <1>5, <1>6, <1>7, <1>8, <1>9 DEF AgentFits
<1> QED BY <1>10, PollOfOthers

LEMMA PollRunsFits ==
  ASSUME Inv, NEW a \in Agents, PollRuns(a)
  PROVE  \A b \in Agents : AgentFits(b)'
<1>1. Admission /\ AgentFits(a) /\ now \in Nat /\ NoTime \notin Int
  BY AgentTyped DEF Inv
<1>2. PICK seed \in Seeded(a), j \in Jobs :
        LET s == [seed.seen EXCEPT !.wake = LiveWake(a)]
        IN /\ s \in SeenRecs /\ IsDue(s) /\ Free(a) /\ Looks(a, s)
           /\ guard' = [guard EXCEPT ![a] = seed.guard]
           /\ JobMoves(j) /\ \A i \in Jobs : i # j => job'[i] = job[i]
           /\ job'[j].pc \in {"granted", "waiting"} /\ job'[j].agent = a /\ job'[j].wake = s.wake
           /\ job[j].pc = "idle"
  BY <1>1, PollRunsSteps
<1> DEFINE s == [seed.seen EXCEPT !.wake = LiveWake(a)]
<1>3. /\ seed.seen \in SeenRecs /\ seed.seen.start # NoTime
      /\ s.start = seed.seen.start /\ s.wake = LiveWake(a) /\ s.wake \in {NoTime, seen[a].wake}
  <2>1. TypeOK /\ Looks(a, [seed.seen EXCEPT !.wake = LiveWake(a)])
    BY <1>1, <1>2 DEF Admission
  <2>2. seed.seen \in SeenRecs /\ seed.seen.start # NoTime
    BY <2>1, SeededParts
  <2>3. LiveWake(a) \in {NoTime, seen[a].wake}
    BY <2>1, LookedParts
  <2>4. s.start = seed.seen.start /\ s.wake = LiveWake(a)
    BY ONLY <2>2 DEF SeenRecs
  <2> QED BY ONLY <2>2, <2>3, <2>4
<1>4. SpacedBefore(a, now)
  <2>1. CASE s.wake # NoTime
    <3>1. seen[a].wake <= now /\ SpacedBefore(a, seen[a].wake) /\ seen[a].wake \in Times
      BY <1>1, <1>3, <2>1, AgentTyped DEF AgentFits, StartsFit, SeenRecs
    <3>2. \A i \in DOMAIN begun[a] : begun[a][i].at \in Nat
      BY <1>1, AgentTyped
    <3>3. seen[a].wake \in Int /\ Cadence \in Nat
      BY <1>1, <1>3, <2>1, <3>1, AgentTyped DEF Times
    <3> QED BY <1>1, <3>1, <3>2, <3>3 DEF SpacedBefore
  <2>2. CASE s.wake = NoTime
    <3>1. now >= seed.seen.start + Cadence
      BY <1>2, <1>3, <2>2 DEF IsDue
    <3>2. \A i \in DOMAIN begun[a] :
            begun[a][i].end \in {"logged", "open"} => begun[a][i].at <= seed.seen.start
      <4>1. guard'[a] = seed.guard /\ now' = now /\ begun'[a] = begun[a]
        BY <1>1, <1>2, Typed DEF Looks, Admission
      <4> QED BY <4>1, Seeds
    <3>3. seed.seen.start \in Int
      BY <1>3 DEF SeenRecs, Times
    <3> QED BY <3>1, <3>2, <3>3, DueIsSpaced
  <2> QED BY <2>1, <2>2
<1> QED BY <1>2, <1>3, <1>4, JobBegins

LEMMA PollWatchesFits ==
  ASSUME Inv, NEW a \in Agents, PollWatches(a)
  PROVE  \A b \in Agents : AgentFits(b)'
<1>1. Admission
  BY DEF Inv
<1>2. PICK seed \in Seeded(a), j \in Jobs, s \in SeenRecs :
        /\ s.start = seed.seen.start /\ s.wake = NoTime /\ LiveWake(a) = NoTime
        /\ now >= s.start + Cadence /\ s.start # NoTime /\ Free(a) /\ Looks(a, s)
        /\ guard' = [guard EXCEPT ![a] = seed.guard]
        /\ JobMoves(j) /\ \A i \in Jobs : i # j => job'[i] = job[i]
        /\ job'[j].pc = "watching" /\ job'[j].agent = a /\ job'[j].at = now
        /\ job[j].pc = "idle"
  BY <1>1, PollWatchesSteps
<1>3. SpacedBefore(a, now)
  <2>1. guard'[a] = seed.guard /\ now' = now /\ begun'[a] = begun[a]
    BY <1>1, <1>2, Typed DEF Looks, Admission
  <2>2. \A i \in DOMAIN begun[a] :
          begun[a][i].end \in {"logged", "open"} => begun[a][i].at <= seed.seen.start
    BY <2>1, Seeds
  <2>3. s.start \in Int
    BY <1>2 DEF SeenRecs, Times
  <2> QED BY <1>2, <2>2, <2>3, DueIsSpaced
<1> QED BY <1>2, <1>3, JobBegins

LEMMA PruneFits ==
  ASSUME Inv, NEW a \in Agents, Prune(a)
  PROVE  \A b \in Agents : AgentFits(b)'
<1>1. /\ a \notin claimed /\ seen' = [seen EXCEPT ![a] = Unseen]
      /\ guard' = [guard EXCEPT ![a] = NoGuard]
      /\ UNCHANGED <<now, standing, log, claimed, limiter, running, job, manual, begun>>
  BY DEF Prune
<1>2. /\ Admission /\ seen \in [Agents -> SeenRecs] /\ guard \in [Agents -> GuardRecs]
      /\ \A b \in Agents : AgentFits(b)
  BY Typed DEF Inv, Admission
<1>3. /\ seen'[a] = Unseen /\ guard'[a] = NoGuard
      /\ \A b \in Agents : b # a => seen'[b] = seen[b] /\ guard'[b] = guard[b]
  BY <1>1, <1>2
<1>4. \A b \in Agents : SamePast(b) /\ SameJobs(b) /\ SameManual(b)
  BY <1>1 DEF SamePast, SameJobs, SameManual
<1>5. \A j \in Jobs : job[j].agent # a
  BY <1>1, <1>2, Typed DEF Admission, ClaimsFit
<1>6. PastFits(a)' /\ OpenFits(a)'
  BY <1>2, <1>4, PastKept, OpenKept DEF AgentFits, SamePast
<1>7. GuardFits(a)' /\ StartsFit(a)' /\ JobFits(a)'
  BY <1>1, <1>3, <1>5, EmptyRecords DEF GuardFits, StartsFit, JobFits
<1> QED BY <1>2, <1>3, <1>4, <1>6, <1>7, QuietAgent DEF AgentFits
-------------------------------------------------------------------------------
(* Manual runs, the store, time and crashes. *)

LEMMA ManualStartsFits ==
  ASSUME Inv, NEW r \in Requests, ManualStarts(r)
  PROVE  \A b \in Agents : AgentFits(b)'
<1> TAKE b \in Agents
<1>1. PICK a \in Agents : manual' = [manual EXCEPT ![r] = [agent |-> a, since |-> now]]
  BY ManualStartsAdmits DEF Inv
<1>2. UNCHANGED <<now, standing, log, seen, guard, claimed, limiter, job, begun>>
  BY DEF ManualStarts
<1>3. Admission /\ AgentFits(b) /\ manual \in [Requests -> [agent : Agents \cup {NoAgent}, since : Times]]
  BY Typed DEF Inv, Admission
<1>4. SamePast(b) /\ SameJobs(b)
  BY <1>2 DEF SamePast, SameJobs
<1>5. PastFits(b)' /\ GuardFits(b)' /\ StartsFit(b)' /\ JobFits(b)'
  BY <1>2, <1>3, <1>4, PastKept, GuardKept, StartsKept, JobsKept DEF AgentFits
<1>6. OpenFits(b)'
  <2>1. \A s \in Requests : manual'[s].agent = b =>
          manual'[s] = manual[s] \/ manual'[s].since = now
    BY <1>1, <1>3
  <2>2. \A i \in DOMAIN begun[b] : begun[b][i].at <= now
    BY <1>3 DEF AgentFits, PastFits
  <2> QED BY <1>2, <1>3, <2>1, <2>2 DEF AgentFits, OpenFits
<1> QED BY <1>5, <1>6 DEF AgentFits

LEMMA ManualEndsFits ==
  ASSUME Inv, NEW r \in Requests, ManualEnds(r)
  PROVE  \A b \in Agents : AgentFits(b)'
<1> TAKE b \in Agents
<1>1. PICK a \in Agents : a = manual[r].agent
  BY ManualEndsAdmits DEF Inv
<1>2. /\ Logged(a, manual[r].since, "manual")
      /\ manual' = [manual EXCEPT ![r] = [agent |-> NoAgent, since |-> NoTime]]
      /\ UNCHANGED <<now, standing, seen, guard, claimed, limiter, job, begun>>
  BY <1>1 DEF ManualEnds
<1>3. /\ Admission /\ AgentFits(b) /\ NoAgent \notin Agents /\ log \in [Agents -> Seq(LogRecs)]
      /\ manual \in [Requests -> [agent : Agents \cup {NoAgent}, since : Times]]
  BY Typed DEF Inv, Admission
<1>4. SameManual(b) /\ SameJobs(b) /\ begun'[b] = begun[b] /\ now' = now
  BY <1>2, <1>3 DEF SameManual, SameJobs
<1>5. OpenFits(b)'
  BY <1>3, <1>4, OpenKept DEF AgentFits
<1>6. GuardFits(b)' /\ StartsFit(b)' /\ JobFits(b)'
  BY <1>2, <1>3 DEF AgentFits, GuardFits, StartsFit, JobFits, CountedToday, SpacedBefore
<1>7. PastFits(b)'
  <2>1. CASE b # a
    BY <1>2, <1>3, <1>4, <2>1, PastKept DEF AgentFits, SamePast, Logged
  <2>2. CASE b = a
    <3> DEFINE t == manual[r].since
               e == [at |-> t, trigger |-> "manual"]
    <3>1. e \in LogRecs /\ e.at = t
      BY ManualEndsAdmits DEF Inv, LogRecs
    <3>2. log[b] \in Seq(LogRecs) /\ log'[b] = Append(log[b], e)
      BY <1>2, <1>3, <2>2 DEF Logged
    <3>3. EventsOf(log'[b], Day(now)) = EventsOf(log[b], Day(now))
      BY <3>1, <3>2, OneEvent
    <3> HIDE DEF e
    <3>4. log'[b] # <<>> /\ LastRun(b)' = t
      <4>1. Len(log'[b]) = Len(log[b]) + 1 /\ log'[b][Len(log[b]) + 1] = e /\ log'[b] # <<>>
        BY <3>1, <3>2
      <4> QED BY <3>1, <4>1 DEF LastRun
    <3>5. \A i \in DOMAIN begun[b] : begun[b][i].at <= t
      BY <1>1, <1>3, <2>2 DEF AgentFits, OpenFits
    <3> QED BY <1>3, <1>4, <3>3, <3>4, <3>5 DEF AgentFits, PastFits
  <2> QED BY <2>1, <2>2
<1> QED BY <1>5, <1>6, <1>7 DEF AgentFits

LEMMA SameFits ==
  ASSUME Inv, UNCHANGED <<now, log, seen, guard, job, manual, begun>>
  PROVE  \A b \in Agents : AgentFits(b)'
  BY QuietAgent DEF Inv, SamePast, SameJobs, SameManual

(* A day later none of today's runs have begun yet. *)
LEMMA TickFits ==
  ASSUME Inv, Tick
  PROVE  \A b \in Agents : AgentFits(b)'
<1> TAKE a \in Agents
<1>1. /\ UNCHANGED <<standing, log, seen, guard, claimed, limiter, running, job, manual, begun>>
      /\ now' = now + 1
  BY DEF Tick, memory
<1>2. /\ Admission /\ AgentFits(a) /\ now \in Nat /\ now' \in Nat /\ Day(now) \in Nat
      /\ now <= now' /\ guard[a] \in GuardRecs /\ NoTime \notin Int /\ Cadence \in Nat
      /\ begun[a] \in Seq(BegunRecs) /\ log[a] \in Seq(LogRecs)
      /\ \A i \in DOMAIN begun[a] : begun[a][i].at \in Nat /\ Day(begun[a][i].at) \in Nat
  BY <1>1, AgentTyped DEF Inv
<1>3. Day(now) <= Day(now') /\ Day(now') \in Nat /\ Day(now)' = Day(now')
  BY <1>2, DayGrows DEF Day
<1>4. \A i \in DOMAIN begun[a] : begun[a][i].at <= now /\ Day(begun[a][i].at) <= Day(now)
  BY <1>2, DayGrows DEF AgentFits, PastFits
<1>5. Day(now') # Day(now) => /\ StartsOf(begun[a], Day(now')) = 0
                              /\ LoggedOf(begun[a], Day(now')) = 0
  <2> SUFFICES ASSUME Day(now') # Day(now)
               PROVE  \A i \in DOMAIN begun[a] : Day(begun[a][i].at) # Day(now')
    BY NoneYet
  <2> QED BY <1>2, <1>3, <1>4
<1>6. PastFits(a)'
  <2>1. LoggedOf(begun[a], Day(now')) <= EventsOf(log[a], Day(now'))
    <3>1. EventsOf(log[a], Day(now')) \in Nat
      BY <1>2, EventsCounted
    <3> QED BY <1>2, <1>5, <3>1 DEF AgentFits, PastFits
  <2>2. \A i \in DOMAIN begun[a] : begun[a][i].at <= now'
    BY <1>1, <1>2, <1>4
  <2>3. LastRun(a)' = LastRun(a)
    BY <1>1 DEF LastRun
  <2> QED BY <1>1, <1>2, <1>3, <2>1, <2>2, <2>3 DEF AgentFits, PastFits
<1>7. GuardFits(a)'
  <2>1. guard[a].day # NoTime => guard[a].day <= Day(now')
    <3> SUFFICES ASSUME guard[a].day # NoTime
                 PROVE  guard[a].day <= Day(now')
      OBVIOUS
    <3>1. guard[a].day \in Int /\ guard[a].day <= Day(now)
      BY <1>2 DEF AgentFits, GuardFits, GuardRecs, Times
    <3> QED BY <1>2, <1>3, <3>1
  <2>2. CountedToday(a)' \in Nat
    BY <1>1, <1>2 DEF CountedToday, GuardRecs
  <2>3. Day(now') = Day(now) => CountedToday(a)' = CountedToday(a)
    BY <1>1, <1>3 DEF CountedToday
  <2>4. seen[a].start # NoTime => StartsOf(begun[a], Day(now')) <= CountedToday(a)'
    BY <1>2, <1>5, <2>2, <2>3 DEF AgentFits, GuardFits
  <2> QED BY <1>1, <1>3, <2>1, <2>4 DEF GuardFits
<1>8. OpenFits(a)'
  BY <1>1, <1>2 DEF AgentFits, OpenFits
<1>9. StartsFit(a)'
  <2>1. seen[a].wake # NoTime => seen[a].wake <= now'
    <3>1. seen[a].wake \in Times
      BY <1>2, AgentTyped DEF SeenRecs
    <3> SUFFICES ASSUME seen[a].wake # NoTime
                 PROVE  seen[a].wake <= now'
      OBVIOUS
    <3>2. seen[a].wake \in Int /\ seen[a].wake <= now
      BY <1>2, <3>1 DEF AgentFits, StartsFit, Times
    <3> QED BY <1>2, <3>2
  <2>2. \A t : SpacedBefore(a, t) => \A i \in DOMAIN begun'[a] :
           begun'[a][i].end = "logged" => begun'[a][i].at + Cadence <= t
    BY <1>1 DEF SpacedBefore
  <2> QED BY <1>1, <1>2, <2>1 DEF AgentFits, StartsFit, SpacedBefore
<1>10. JobFits(a)'
  <2>1. SpacedBefore(a, now) => SpacedBefore(a, now')
    BY <1>2, SpacedLater
  <2>2. \A j \in Jobs : Day(job[j].at)' = Day(job[j].at)
    BY <1>1
  <2> QED BY <1>1, <1>2, <2>1, <2>2 DEF AgentFits, JobFits, SpacedBefore
<1> QED BY <1>6, <1>7, <1>8, <1>9, <1>10 DEF AgentFits

LEMMA CrashFits ==
  ASSUME Inv, Crash
  PROVE  \A b \in Agents : AgentFits(b)'
<1> TAKE a \in Agents
<1>1. /\ seen' = [b \in Agents |-> Unseen] /\ guard' = [b \in Agents |-> NoGuard]
      /\ job' = [j \in Jobs |-> Idle]
      /\ manual' = [r \in Requests |-> [agent |-> NoAgent, since |-> NoTime]]
      /\ UNCHANGED <<now, log>>
  BY DEF Crash
<1>2. /\ Admission /\ AgentFits(a) /\ begun[a] \in Seq(BegunRecs) /\ begun'[a] = Salvaged(begun[a])
      /\ NoAgent \notin Agents /\ MaxRunsPerDay \in Nat
  BY CrashAdmits, AgentTyped, ScheduleAssumption DEF Inv
<1>3. /\ DOMAIN begun'[a] = DOMAIN begun[a]
      /\ \A i \in DOMAIN begun[a] :
           /\ begun'[a][i].at = begun[a][i].at
           /\ begun'[a][i].end = IF begun[a][i].end = "logged" THEN "logged" ELSE "lost"
  BY <1>2, SalvagedParts
<1>4. /\ \A j \in Jobs : job'[j].agent # a
      /\ \A r \in Requests : manual'[r].agent # a
      /\ seen'[a].start = NoTime /\ seen'[a].wake = NoTime /\ guard'[a].day = NoTime
  BY <1>1, <1>2, EmptyRecords
<1>5. PastFits(a)'
  <2>1. \A day \in Nat : StartsOf(begun'[a], day) <= MaxRunsPerDay
    <3> TAKE day \in Nat
    <3>1. /\ StartsOf(begun'[a], day) <= StartsOf(begun[a], day)
          /\ StartsOf(begun'[a], day) \in Nat /\ StartsOf(begun[a], day) \in Nat
          /\ StartsOf(begun[a], day) <= MaxRunsPerDay
      BY <1>2, SomeLost, SalvagedParts, RunsCounted DEF AgentFits, PastFits
    <3> QED BY <1>2, <3>1
  <2>2. LoggedOf(begun'[a], Day(now)) = LoggedOf(begun[a], Day(now))
    BY <1>2, SomeLost
  <2>3. LastRun(a)' = LastRun(a)
    BY <1>1 DEF LastRun
  <2> QED BY <1>1, <1>2, <1>3, <2>1, <2>2, <2>3 DEF AgentFits, PastFits
<1>6. OpenFits(a)'
  BY <1>3, <1>4 DEF OpenFits
<1>7. GuardFits(a)' /\ StartsFit(a)' /\ JobFits(a)'
  BY <1>4 DEF GuardFits, StartsFit, JobFits
<1> QED BY <1>5, <1>6, <1>7 DEF AgentFits

-------------------------------------------------------------------------------
(* The invariant. *)

LEMMA InitFits ==
  ASSUME Init
  PROVE  Inv
<1>1. Admission
  BY InitAdmits
<1>2. ASSUME NEW a \in Agents
      PROVE  AgentFits(a)
  <2>1. /\ begun[a] = <<>> /\ log[a] = <<>> /\ seen[a].start = NoTime /\ seen[a].wake = NoTime
        /\ guard[a].day = NoTime
        /\ \A j \in Jobs : job[j].agent # a
        /\ \A r \in Requests : manual[r].agent # a
        /\ DOMAIN begun[a] = {}
    BY <1>2, EmptyRecords, ScheduleAssumption DEF Init
  <2>2. /\ \A day : StartsOf(begun[a], day) = 0 /\ LoggedOf(begun[a], day) = 0
        /\ EventsOf(log[a], Day(now)) \in Nat /\ MaxRunsPerDay \in Nat
    BY <1>1, <2>1, NoneYet, EventsCounted, AgentTyped
  <2>3. PastFits(a)
    BY <2>1, <2>2 DEF PastFits
  <2> QED BY <2>1, <2>3 DEF AgentFits, GuardFits, OpenFits, StartsFit, JobFits
<1> QED BY <1>1, <1>2 DEF Inv

LEMMA JobStepFits ==
  ASSUME Inv, NEW j \in Jobs, JobStep(j)
  PROVE  \A b \in Agents : AgentFits(b)'
  BY WatchQuietFits, WatchFailsFits, WatchWakesFits, GuardRefusesFits, GuardAsksFits,
     HeldBackFits, RunStartsFits, RunRefusedFits, RunThrowsFits, RunEndsFits,
     RunExhaustsFits, PauseSetFits DEF JobStep

LEMMA StepFits ==
  ASSUME Inv, [Next]_vars
  PROVE  Inv'
<1>1. Admission'
  BY StepAdmits DEF Inv
<1>2. \A b \in Agents : AgentFits(b)'
  <2>1. ASSUME NEW a \in Agents, Prune(a) \/ Poll(a)
        PROVE  \A b \in Agents : AgentFits(b)'
    BY <2>1, PruneFits, PollPassesFits, PollRunsFits, PollWatchesFits DEF Poll
  <2>2. ASSUME NEW a \in Agents, Revoke(a) \/ Archive(a) \/ Unarchive(a)
        PROVE  \A b \in Agents : AgentFits(b)'
    <3>1. UNCHANGED <<now, log, seen, guard, job, manual, begun>>
      BY <2>2 DEF Revoke, Archive, Unarchive, Moves, memory
    <3> QED BY <3>1, SameFits
  <2>3. ASSUME NEW r \in Requests, ManualStarts(r) \/ ManualEnds(r)
        PROVE  \A b \in Agents : AgentFits(b)'
    BY <2>3, ManualStartsFits, ManualEndsFits
  <2>4. CASE UNCHANGED vars
    <3>1. UNCHANGED <<now, log, seen, guard, job, manual, begun>>
      BY <2>4 DEF vars, memory
    <3> QED BY <3>1, SameFits
  <2> QED BY <2>1, <2>2, <2>3, <2>4, JobStepFits, TickFits, CrashFits DEF Next
<1> QED BY <1>1, <1>2 DEF Inv

THEOREM InvHolds == Spec => []Inv
<1>1. Init => Inv
  BY InitFits
<1>2. Inv /\ [Next]_vars => Inv'
  BY StepFits
<1> QED BY <1>1, <1>2, PTL DEF Spec

-------------------------------------------------------------------------------
(* What a reader should know of scheduled runs. *)

LEMMA OneJob ==
  ASSUME Inv, NEW a \in Agents
  PROVE  Cardinality({j \in Jobs : job[j].agent = a}) = IF a \in claimed THEN 1 ELSE 0
<1>1. /\ \A j \in Jobs : job[j].agent = a => a \in claimed
      /\ a \in claimed => \E j \in Jobs : job[j].agent = a
      /\ \A i, j \in Jobs : job[i].agent = a /\ job[j].agent = a => i = j
  BY Typed DEF Inv, Admission, ClaimsFit
<1>2. CASE a \in claimed
  <2>1. PICK j \in Jobs : {i \in Jobs : job[i].agent = a} = {j}
    BY <1>1, <1>2
  <2> QED BY <1>2, <2>1, FS_Singleton
<1>3. CASE a \notin claimed
  <2>1. {i \in Jobs : job[i].agent = a} = {}
    BY <1>1, <1>3
  <2> QED BY <1>3, <2>1, FS_EmptySet
<1> QED BY <1>2, <1>3

LEMMA OneRun ==
  ASSUME Inv, NEW a \in Agents
  PROVE  Cardinality({j \in Jobs : job[j].pc = "running" /\ job[j].agent = a})
           + Cardinality({r \in Requests : manual[r].agent = a}) = IF a \in running THEN 1 ELSE 0
<1> DEFINE RJ == {j \in Jobs : job[j].pc = "running" /\ job[j].agent = a}
           RM == {r \in Requests : manual[r].agent = a}
<1>1. /\ \A j \in Jobs : job[j].pc = "running" /\ job[j].agent = a => a \in running
      /\ \A r \in Requests : manual[r].agent = a => a \in running
      /\ \A j \in Jobs, r \in Requests :
           ~(job[j].pc = "running" /\ job[j].agent = a /\ manual[r].agent = a)
      /\ \A r, s \in Requests : manual[r].agent = a /\ manual[s].agent = a => r = s
      /\ \A i, j \in Jobs : job[i].agent = a /\ job[j].agent = a => i = j
      /\ a \in running => \/ \E j \in Jobs : job[j].pc = "running" /\ job[j].agent = a
                          \/ \E r \in Requests : manual[r].agent = a
  <2>1. NoAgent \notin Agents /\ Admission /\ RunsFit /\ ClaimsFit
    BY Typed DEF Inv, Admission
  <2>2. \A i, j \in Jobs : job[i].agent = a /\ job[j].agent = a => i = j
    BY <2>1 DEF ClaimsFit
  <2> QED BY <2>1, <2>2 DEF RunsFit
<1>2. CASE \E j \in Jobs : job[j].pc = "running" /\ job[j].agent = a
  <2>1. a \in running /\ RM = {} /\ \E j \in Jobs : RJ = {j}
    BY <1>1, <1>2
  <2>2. Cardinality(RJ) = 1 /\ Cardinality(RM) = 0
    BY <2>1, FS_Singleton, FS_EmptySet
  <2> QED BY <2>1, <2>2
<1>3. CASE \E r \in Requests : manual[r].agent = a
  <2>1. a \in running /\ RJ = {} /\ \E r \in Requests : RM = {r}
    BY <1>1, <1>3
  <2>2. Cardinality(RM) = 1 /\ Cardinality(RJ) = 0
    BY <2>1, FS_Singleton, FS_EmptySet
  <2> QED BY <2>1, <2>2
<1>4. CASE a \notin running
  <2>1. RJ = {} /\ RM = {}
    BY <1>1, <1>4
  <2>2. Cardinality(RM) = 0 /\ Cardinality(RJ) = 0
    BY <2>1, FS_EmptySet
  <2> QED BY <1>4, <2>2
<1> QED BY <1>1, <1>2, <1>3, <1>4

LEMMA CapHolds ==
  ASSUME Inv
  PROVE  WithinDailyCap
<1> SUFFICES ASSUME NEW a \in Agents, NEW d \in 0..Day(MaxTime)
             PROVE  StartedOn(a, Known(a), d) <= MaxRunsPerDay
  BY DEF WithinDailyCap
<1>1. {i \in Known(a) : Day(begun[a][i].at) = d}
        = {i \in DOMAIN begun[a] : begun[a][i].end \in {"logged", "open"} /\ Day(begun[a][i].at) = d}
  BY DEF Known
<1>2. StartedOn(a, Known(a), d) = StartsOf(begun[a], d)
  BY <1>1 DEF StartedOn, StartsOf
<1>3. d \in Nat
  BY ScheduleAssumption, DayTyped
<1> QED BY <1>2, <1>3 DEF Inv, AgentFits, PastFits

LEMMA SpacedHolds ==
  ASSUME Inv
  PROVE  RunsAreSpaced
<1> SUFFICES ASSUME NEW a \in Agents, NEW i \in DOMAIN begun[a], NEW k \in DOMAIN begun[a],
                    i < k, begun[a][i].end = "logged"
             PROVE  begun[a][k].at - begun[a][i].at >= Cadence
  BY DEF RunsAreSpaced
<1>1. begun[a][i].at + Cadence <= begun[a][k].at
  BY DEF Inv, AgentFits, PastFits
<1>2. begun[a][i].at \in Nat /\ begun[a][k].at \in Nat /\ Cadence \in Nat
  BY AgentTyped DEF Inv
<1> QED BY <1>1, <1>2

(* Two polls never take one agent twice; it has at most one run open, which
   `isRunning` says; a day has no more scheduled runs than the cap, and a run
   begins a cadence after the last logged one, whatever is restarted, archived,
   woken or refused in between (agent-run.scheduler.ts:82, schedule-guard.ts:84). *)
THEOREM RunsStayRationed == Spec => []RunsAreRationed
<1>1. Inv => RunsAreRationed
  <2> SUFFICES ASSUME Inv
               PROVE  RunsAreRationed
    OBVIOUS
  <2>1. TypeOK
    BY DEF Inv, Admission
  <2>2. OneJobPerAgent /\ OneRunPerAgent
    BY OneJob, OneRun DEF OneJobPerAgent, OneRunPerAgent
  <2> QED BY <2>1, <2>2, CapHolds, SpacedHolds DEF RunsAreRationed
<1> QED BY <1>1, InvHolds, PTL

-------------------------------------------------------------------------------
(* Steps. *)

(* A recorded start changes what the guard has counted. *)
LEMMA CountMoves ==
  ASSUME Inv, NEW j \in Jobs, job[j].pc = "guarding",
         guard' = [guard EXCEPT ![job[j].agent] = Counted(@, job[j].at)],
         seen' = [seen EXCEPT ![job[j].agent] = Started(@, job[j].at, job[j].wake)],
         NEW a \in Agents, seen'[a] # seen[a]
  PROVE  <<guard'[a].day, guard'[a].count>> # <<guard[a].day, guard[a].count>>
<1>1. a = job[j].agent /\ guard'[a] = Counted(guard[a], job[j].at)
  BY StartRecorded DEF Inv
<1>2. guard[a] \in GuardRecs
  BY AgentTyped DEF Inv
<1>3. CASE guard[a].day = Day(job[j].at)
  <2>1. guard'[a].count = guard[a].count + 1 /\ guard[a].count \in Nat
    BY <1>1, <1>2, <1>3 DEF Counted, GuardRecs
  <2> QED BY <2>1
<1>4. CASE guard[a].day # Day(job[j].at)
  <2>1. guard'[a].day = Day(job[j].at)
    BY <1>1, <1>2 DEF Counted, GuardRecs
  <2> QED BY <1>4, <2>1
<1> QED BY <1>3, <1>4

(* A wake that an agent's poll drops is an old one. *)
LEMMA PollWake ==
  ASSUME Inv, NEW b \in Agents, Poll(b), NEW a \in Agents,
         seen[a].wake # NoTime, seen'[a].wake = NoTime
  PROVE  now - seen[a].wake > Heartbeat
<1>1. Admission /\ seen \in [Agents -> SeenRecs]
  BY Typed DEF Inv, Admission
<1>2. \E s \in SeenRecs : Looks(b, s) /\ s.wake = LiveWake(b)
  <2>1. CASE PollPasses(b)
    <3>1. PICK seed \in Seeded(b) :
            LET s == [seed.seen EXCEPT !.wake = LiveWake(b)]
            IN s \in SeenRecs /\ Looks(b, s)
      BY <1>1, <2>1, PollPassesSteps
    <3>2. seen'[b].wake = LiveWake(b) /\ seen'[b] = [seed.seen EXCEPT !.wake = LiveWake(b)]
      BY <1>1, <3>1, LookedParts DEF Admission
    <3> QED BY <3>1, <3>2
  <2>2. CASE PollRuns(b)
    <3>1. PICK seed \in Seeded(b) :
            LET s == [seed.seen EXCEPT !.wake = LiveWake(b)]
            IN s \in SeenRecs /\ Looks(b, s)
      BY <1>1, <2>2, PollRunsSteps
    <3>2. seen'[b].wake = LiveWake(b) /\ seen'[b] = [seed.seen EXCEPT !.wake = LiveWake(b)]
      BY <1>1, <3>1, LookedParts DEF Admission
    <3> QED BY <3>1, <3>2
  <2>3. CASE PollWatches(b)
    BY <1>1, <2>3, PollWatchesSteps
  <2> QED BY <2>1, <2>2, <2>3 DEF Poll
<1>3. a = b /\ LiveWake(a) = NoTime
  BY <1>1, <1>2 DEF Looks
<1> QED BY <1>3 DEF LiveWake

Keeps(a) ==
  seen[a].wake # NoTime /\ seen'[a].wake = NoTime
  => \/ <<guard'[a].day, guard'[a].count>> # <<guard[a].day, guard[a].count>>
     \/ now - seen[a].wake > Heartbeat
     \/ ~Listed(a)
     \/ Crash

LEMMA WakeStep ==
  ASSUME Inv, Next, NEW a \in Agents
  PROVE  Keeps(a)
<1> SUFFICES ASSUME seen[a].wake # NoTime, seen'[a].wake = NoTime, ~Crash
             PROVE  \/ <<guard'[a].day, guard'[a].count>> # <<guard[a].day, guard[a].count>>
                    \/ now - seen[a].wake > Heartbeat
                    \/ ~Listed(a)
  BY DEF Keeps
<1>1. seen' # seen /\ seen'[a] # seen[a]
  OBVIOUS
<1>2. seen \in [Agents -> SeenRecs] /\ Admission
  BY Typed DEF Inv, Admission
<1>3. ASSUME NEW b \in Agents, Prune(b)
      PROVE  ~Listed(a)
  BY <1>1, <1>2, <1>3 DEF Prune
<1>4. ASSUME NEW b \in Agents, Poll(b)
      PROVE  now - seen[a].wake > Heartbeat
  BY <1>4, PollWake
<1>5. ASSUME NEW j \in Jobs, JobStep(j)
      PROVE  <<guard'[a].day, guard'[a].count>> # <<guard[a].day, guard[a].count>>
  <2>1. CASE RunStarts(j) \/ RunRefused(j)
    BY <1>1, <2>1, CountMoves DEF RunStarts, RunRefused
  <2>2. CASE WatchQuiet(j)
    BY <1>1, <1>2, <2>2 DEF WatchQuiet, SeenRecs
  <2>3. CASE WatchWakes(j)
    <3>1. job[j].agent \in Agents /\ job[j].at \in 0..now /\ now \in Nat /\ NoTime \notin Int
      BY <1>2, <2>3, WatchWakesMoves, AtWork, Typed DEF WatchWakes, Admission
    <3>2. seen'[job[j].agent].wake = job[j].at /\ job[j].at # NoTime
      BY <1>2, <2>3, <3>1 DEF WatchWakes, SeenRecs
    <3>3. \A b \in Agents : b # job[j].agent => seen'[b] = seen[b]
      BY <1>2, <2>3 DEF WatchWakes
    <3> QED BY <1>1, <3>2, <3>3
  <2>4. seen' # seen
    BY <1>1
  <2> QED
    BY <1>5, <2>1, <2>2, <2>3, <2>4
       DEF JobStep, WatchFails, GuardRefuses, GuardAsks, HeldBack, RunThrows, RunEnds,
           RunExhausts, PauseSet
<1>6. ASSUME \E b \in Agents : Revoke(b) \/ Archive(b) \/ Unarchive(b)
      PROVE  FALSE
  BY <1>1, <1>6 DEF Revoke, Archive, Unarchive, Moves, memory
<1>7. ASSUME \E r \in Requests : ManualStarts(r) \/ ManualEnds(r)
      PROVE  FALSE
  BY <1>1, <1>7 DEF ManualStarts, ManualEnds
<1>8. ~Tick
  BY <1>1 DEF Tick, memory
<1> QED BY <1>3, <1>4, <1>5, <1>6, <1>7, <1>8 DEF Next

LEMMA PauseStep ==
  ASSUME Inv, Next, NEW a \in Agents, Len(begun'[a]) > Len(begun[a])
  PROVE  ~Paused(a)
<1>1. begun' # begun /\ begun'[a] # begun[a]
  <2>1. Len(begun[a]) \in Nat
    BY AgentTyped DEF Inv
  <2> QED BY <2>1
<1>2. begun \in [Agents -> Seq(BegunRecs)] /\ Admission
  BY Typed DEF Inv, Admission
<1>3. ASSUME NEW b \in Agents, Prune(b) \/ Poll(b) \/ Revoke(b) \/ Archive(b) \/ Unarchive(b)
      PROVE  FALSE
  <2>1. begun' = begun
    BY <1>2, <1>3, PollPassesSteps, PollRunsSteps, PollWatchesSteps
       DEF Prune, Poll, Revoke, Archive, Unarchive, Moves, Looks
  <2> QED BY <1>1, <2>1
<1>4. ASSUME NEW j \in Jobs, NEW end \in {"logged", "threw"}, Closed(job[j].agent, end), job[j].pc = "running"
      PROVE  FALSE
  <2>1. PICK b \in Agents : b = job[j].agent
    BY <1>2, <1>4, AtWork
  <2>2. /\ begun[b] \in Seq(BegunRecs) /\ begun[b] # <<>> /\ begun'[b] = ClosedRuns(begun[b], end)
        /\ \A c \in Agents : c # b => begun'[c] = begun[c]
    BY <1>4, <2>1, RunIsClosed
  <2>3. Len(begun'[b]) = Len(begun[b])
    BY <2>2, ClosedParts DEF Ends
  <2>4. Len(begun[a]) \in Nat
    BY AgentTyped DEF Inv
  <2> QED BY <1>1, <2>2, <2>3, <2>4
<1>5. ASSUME NEW j \in Jobs, JobStep(j)
      PROVE  ~Paused(a)
  <2>1. CASE RunStarts(j)
    <3>1. job[j].pc = "guarding" /\ a = job[j].agent
      BY <1>1, <1>2, <2>1 DEF RunStarts
    <3>2. guard[a].until = NoTime
      BY <3>1 DEF Inv, AgentFits, JobFits
    <3> QED BY <3>2 DEF Paused
  <2>2. begun' # begun
    BY <1>1
  <2>3. ~RunThrows(j) /\ ~RunEnds(j) /\ ~RunExhausts(j)
    BY <1>4 DEF RunThrows, RunEnds, RunExhausts
  <2> QED
    BY <1>5, <2>1, <2>2, <2>3
       DEF JobStep, WatchQuiet, WatchFails, WatchWakes, GuardRefuses, GuardAsks, HeldBack,
           RunRefused, PauseSet
<1>6. ASSUME \E r \in Requests : ManualStarts(r) \/ ManualEnds(r)
      PROVE  FALSE
  BY <1>1, <1>6 DEF ManualStarts, ManualEnds
<1>7. ~Tick
  BY <1>1 DEF Tick
<1>8. ~Crash
  <2> SUFFICES ASSUME Crash
               PROVE  FALSE
    OBVIOUS
  <2>1. Len(begun'[a]) = Len(begun[a]) /\ Len(begun[a]) \in Nat
    BY <1>2, CrashAdmits, SalvagedParts, AgentTyped
  <2> QED BY <2>1
<1> QED BY <1>3, <1>5, <1>6, <1>7, <1>8 DEF Next

(* A wake that fired goes with the start it asked for, after a heartbeat's length
   or with the agent's place on the list; and no scheduled run begins while its
   agent is paused for an exhausted key, though the credits are read between the
   guard's look and the start (agent-run.scheduler.ts:69, schedule-guard.ts:127). *)
THEOREM WakesAndPausesStayHeld == Spec => WakesAndPausesHold
<1> DEFINE Kept    == \A a \in Agents : Keeps(a)
           Honours == \A a \in Agents : Len(begun'[a]) > Len(begun[a]) => ~Paused(a)
<1>1. Inv /\ [Next]_vars => [Kept]_vars
  BY WakeStep
<1>2. Inv /\ [Next]_vars => [Honours]_vars
  BY PauseStep
<1>3. WakeIsKept <=> [][Kept]_vars
  BY DEF WakeIsKept, Keeps
<1>4. PauseIsHonoured <=> [][Honours]_vars
  BY DEF PauseIsHonoured
<1> HIDE DEF Kept, Honours
<1>5. Spec => WakeIsKept
  BY <1>1, <1>3, InvHolds, PTL DEF Spec
<1>6. Spec => PauseIsHonoured
  BY <1>2, <1>4, InvHolds, PTL DEF Spec
<1> QED BY <1>5, <1>6 DEF WakesAndPausesHold

-------------------------------------------------------------------------------
(* An agent's account at Perpl (PerplOnboarding). *)

FlightPcs  == {"idle", "queued", "planning", "opening", "sending", "receipt", "reading",
               "enroll", "awaiting"}
Flights    == [pc : FlightPcs, enrolled : BOOLEAN, existing : BOOLEAN, legs : Seq(Steps)]
EnrollPcs  == {"none", "reading", "checking", "signing", "posting", "storing"}
Enrolments == [pc : EnrollPcs, waiters : SUBSET (Readers \cup {"flight"})]
ReaderPcs  == {"idle", "looked", "waiting"}

(* What is remembered of forwarding is so on chain, and only an account forwards. *)
ChainFits ==
  /\ chain.forwarding => chain.account
  /\ known \/ logged => chain.forwarding

(* While a key is being made the store holds none. *)
EnrollFits ==
  /\ enrolling.pc \in {"checking", "signing", "posting", "storing"} => ~held
  /\ "flight" \in enrolling.waiters => flight.pc = "awaiting"

Approving  == <<"approve", "createAccount", "allowOrderForwarding">>
Creating   == <<"createAccount", "allowOrderForwarding">>
Forwarding == <<"allowOrderForwarding">>

(* What a flight has left to send, and what it needs no more: its last leg turns
   forwarding on, and no receipt is taken for it but its own. *)
FlightFits ==
  /\ flight.pc = "sending" => flight.legs \in {Approving, Creating, Forwarding, <<>>}
  /\ flight.pc = "receipt" => flight.legs \in {Creating, Forwarding, <<>>}
  /\ flight.enrolled => held
  /\ flight.pc \in {"reading", "enroll", "awaiting"} => chain.forwarding
  /\ flight.pc = "sending" /\ flight.legs = <<>> => chain.forwarding
  /\ flight.pc = "receipt" /\ flight.legs = <<>> =>
       IF pending = <<>> THEN receipt = "success" => chain.forwarding
       ELSE pending[Len(pending)] = "allowOrderForwarding"

(* No read failed, nothing was given up on, and the process did not restart. *)
AllSeen == failed.kinds \cap {"misread", "late"} = {} /\ boots = 0

(* Then what is out is the leg the flight awaits, and an account is opened only
   where there is none. *)
SeenFits ==
  AllSeen =>
    /\ ~reopened
    /\ flight.pc # "receipt" => pending = <<>>
    /\ flight.pc = "sending" /\ flight.legs \in {Approving, Creating} => ~chain.account
    /\ flight.pc = "receipt" /\ flight.legs = Creating =>
         pending \in {<<>>, <<"approve">>} /\ ~chain.account
    /\ flight.pc = "receipt" /\ flight.legs = Forwarding =>
         pending = <<>> \/ (pending = <<"createAccount">> /\ ~chain.account)
    /\ flight.pc = "receipt" /\ flight.legs = <<>> =>
         pending \in {<<>>, <<"allowOrderForwarding">>}

(* OnboardingTypeOK, its sets of records by their names. *)
OnboardShape ==
  /\ active \in BOOLEAN
  /\ chain \in [funds : BOOLEAN, approved : BOOLEAN, account : BOOLEAN, forwarding : BOOLEAN]
  /\ pending \in Seq(Steps) /\ receipt \in {"success", "reverted"}
  /\ keys \in Nat /\ spoilt \in Nat /\ {held, logged, known, reopened} \subseteq BOOLEAN
  /\ flight \in Flights /\ enrolling \in Enrolments /\ reader \in [Readers -> ReaderPcs]
  /\ failed \in [kinds : SUBSET Failure, count : 0..MaxFailures] /\ boots \in 0..MaxRestarts

OnboardInv ==
  /\ OnboardShape /\ KeysAreNotWasted /\ ReadyIsTrue
  /\ ChainFits /\ EnrollFits /\ FlightFits /\ SeenFits

USE OnboardingAssumption

LEMMA LegKinds ==
  /\ {Approving, Creating, Forwarding, <<>>} \subseteq Seq(Steps)
  /\ Approving # Creating /\ Approving # Forwarding /\ Approving # <<>>
  /\ Creating # Forwarding /\ Creating # <<>> /\ Forwarding # <<>>
  /\ Head(Approving) = "approve" /\ Tail(Approving) = Creating
  /\ Head(Creating) = "createAccount" /\ Tail(Creating) = Forwarding
  /\ Head(Forwarding) = "allowOrderForwarding" /\ Tail(Forwarding) = <<>>
<1>1. /\ Approving # Creating /\ Approving # Forwarding /\ Approving # <<>>
      /\ Creating # Forwarding /\ Creating # <<>> /\ Forwarding # <<>>
  BY DEF Approving, Creating, Forwarding
<1>2. {Approving, Creating, Forwarding, <<>>} \subseteq Seq(Steps)
  BY DEF Approving, Creating, Forwarding, Steps
<1>3. Head(Approving) = "approve" /\ Tail(Approving) = Creating
  BY DEF Approving, Creating
<1>4. Head(Creating) = "createAccount" /\ Tail(Creating) = Forwarding
  BY DEF Creating, Forwarding
<1>5. Head(Forwarding) = "allowOrderForwarding" /\ Tail(Forwarding) = <<>>
  BY DEF Forwarding
<1> QED BY <1>1, <1>2, <1>3, <1>4, <1>5

LEMMA SameSeq ==
  ASSUME NEW S, NEW s \in Seq(S), NEW t \in Seq(S), NEW n \in Nat, Len(s) = n, Len(t) = n,
         \A i \in 1..n : s[i] = t[i]
  PROVE  s = t
BY SeqEqual

LEMMA TwoOf ==
  ASSUME NEW S, NEW x \in S, NEW y \in S
  PROVE  <<x>> \o <<y>> = <<x, y>>
<1> DEFINE s == <<x>> \o <<y>>  t == <<x, y>>
<1>1. /\ <<x>> \in Seq(S) /\ <<y>> \in Seq(S) /\ Len(<<x>>) = 1 /\ Len(<<y>>) = 1
      /\ <<x>>[1] = x /\ <<y>>[1] = y
  OBVIOUS
<1>2. t \in Seq(S) /\ Len(t) = 2 /\ t[1] = x /\ t[2] = y
  OBVIOUS
<1>3. s \in Seq(S) /\ Len(s) = 2 /\ s[1] = x /\ s[2] = y
  BY <1>1, ConcatProperties
<1> HIDE DEF s, t
<1>4. \A i \in 1..2 : s[i] = t[i]
  BY <1>2, <1>3
<1>5. s = t
  BY <1>2, <1>3, <1>4, SameSeq
<1> QED BY <1>5 DEF s, t

LEMMA ThreeOf ==
  ASSUME NEW S, NEW x \in S, NEW y \in S, NEW z \in S
  PROVE  <<x, y>> \o <<z>> = <<x, y, z>>
<1> DEFINE s == <<x, y>> \o <<z>>  t == <<x, y, z>>
<1>1. /\ <<x, y>> \in Seq(S) /\ <<z>> \in Seq(S) /\ Len(<<x, y>>) = 2 /\ Len(<<z>>) = 1
      /\ <<x, y>>[1] = x /\ <<x, y>>[2] = y /\ <<z>>[1] = z
  OBVIOUS
<1>2. t \in Seq(S) /\ Len(t) = 3 /\ t[1] = x /\ t[2] = y /\ t[3] = z
  OBVIOUS
<1>3. s \in Seq(S) /\ Len(s) = 3 /\ s[1] = x /\ s[2] = y /\ s[3] = z
  BY <1>1, ConcatProperties
<1> HIDE DEF s, t
<1>4. \A i \in 1..3 : s[i] = t[i]
  BY <1>2, <1>3
<1>5. s = t
  BY <1>2, <1>3, <1>4, SameSeq
<1> QED BY <1>5 DEF s, t

LEMMA LegsLeft ==
  ASSUME NEW b \in BOOLEAN, chain.approved \in BOOLEAN
  PROVE  /\ b => Legs(b) = Forwarding
         /\ ~b /\ chain.approved => Legs(b) = Creating
         /\ ~b /\ ~chain.approved => Legs(b) = Approving
<1> DEFINE two == <<"approve", "createAccount">>
<1>1. /\ "approve" \in Steps /\ "createAccount" \in Steps /\ "allowOrderForwarding" \in Steps
  BY DEF Steps
<1>2. <<>> \o <<>> = <<>> /\ <<>> \o <<"createAccount">> = <<"createAccount">>
  OBVIOUS
<1>3. <<>> \o <<"allowOrderForwarding">> = Forwarding
  BY DEF Forwarding
<1>4. <<"approve">> \o <<"createAccount">> = two
  BY <1>1, TwoOf
<1>5. <<"createAccount">> \o <<"allowOrderForwarding">> = Creating
  BY <1>1, TwoOf DEF Creating
<1>6. two \o <<"allowOrderForwarding">> = Approving
  BY <1>1, ThreeOf DEF Approving
<1> HIDE DEF two
<1> QED BY <1>2, <1>3, <1>4, <1>5, <1>6 DEF Legs

LEMMA OneOut ==
  /\ \A q \in Seq(Steps), x \in Steps : 
       /\ Append(q, x) \in Seq(Steps) /\ Append(q, x) # <<>>
       /\ Append(q, x)[Len(Append(q, x))] = x
       /\ q = <<>> => Append(q, x) = <<x>>
  /\ \A q \in Seq(Steps) : q # <<>> =>
       /\ Head(q) \in Steps /\ Tail(q) \in Seq(Steps)
       /\ Tail(q) = <<>> => Head(q) = q[Len(q)]
       /\ Tail(q) # <<>> => Tail(q)[Len(Tail(q))] = q[Len(q)]
  /\ \A x \in Steps : Head(<<x>>) = x /\ Tail(<<x>>) = <<>> /\ <<x>> # <<>>
<1>1. ASSUME NEW q \in Seq(Steps), NEW x \in Steps 
      PROVE  /\ Append(q, x) \in Seq(Steps) /\ Append(q, x) # <<>>
             /\ Append(q, x)[Len(Append(q, x))] = x
             /\ q = <<>> => Append(q, x) = <<x>>
  <2>1. Append(q, x) \in Seq(Steps) /\ Len(Append(q, x)) = Len(q) + 1
        /\ Append(q, x)[Len(q) + 1] = x
    OBVIOUS
  <2>2. Append(q, x) # <<>>
    BY <2>1
  <2>3. q = <<>> => Append(q, x) = <<x>>
    OBVIOUS
  <2> QED BY <2>1, <2>2, <2>3
<1>2. ASSUME NEW q \in Seq(Steps), q # <<>>
      PROVE  /\ Head(q) \in Steps /\ Tail(q) \in Seq(Steps)
             /\ Tail(q) = <<>> => Head(q) = q[Len(q)]
             /\ Tail(q) # <<>> => Tail(q)[Len(Tail(q))] = q[Len(q)]
  <2>1. /\ Len(q) \in Nat /\ Len(q) > 0 /\ Head(q) = q[1] /\ Head(q) \in Steps
        /\ Tail(q) \in Seq(Steps) /\ Len(Tail(q)) = Len(q) - 1
    BY <1>2
  <2>2. Tail(q) = <<>> => Len(q) = 1
    <3> DEFINE n == Len(q)  m == Len(Tail(q))
    <3>1. m = n - 1 /\ n \in Nat /\ (Tail(q) = <<>> => m = 0)
      BY <2>1, EmptySeq
    <3> HIDE DEF n, m
    <3>2. Tail(q) = <<>> => n = 1
      BY ONLY <3>1
    <3> QED BY <3>2 DEF n
  <2>3. Tail(q) # <<>> => Len(Tail(q)) > 0
    BY <2>1
  <2>4. \A i \in 1..Len(Tail(q)) : Tail(q)[i] = q[i + 1]
    BY <1>2
  <2> QED BY <2>1, <2>2, <2>3, <2>4
<1>3. \A x \in Steps : Head(<<x>>) = x /\ Tail(<<x>>) = <<>> /\ <<x>> # <<>>
  OBVIOUS
<1> QED BY <1>1, <1>2, <1>3

(* The flight goes on at another point, with the legs it had. *)
MovesTo(p) == /\ flight' \in Flights /\ flight'.pc = p /\ flight'.legs = flight.legs
              /\ flight'.enrolled = flight.enrolled

(* The enrollment goes on; it is over, and so is the flight that awaits it. *)
KeyMovesTo(p) == /\ enrolling' \in Enrolments /\ enrolling'.pc = p
                 /\ enrolling'.waiters = enrolling.waiters /\ flight' = flight /\ said' = said

KeyAnswers(w) == /\ enrolling' = NotEnrolling
                 /\ \/ flight.pc = "awaiting" /\ flight' = Grounded /\ said' = w
                    \/ "flight" \notin enrolling.waiters /\ flight' = flight /\ said' = said

LEMMA Nothing ==
  /\ Grounded \in Flights /\ Grounded.pc = "idle" /\ Grounded.legs = <<>> /\ ~Grounded.enrolled
  /\ NotEnrolling \in Enrolments /\ NotEnrolling.pc = "none" /\ NotEnrolling.waiters = {}
<1>1. <<>> \in Seq(Steps)
  OBVIOUS
<1> QED BY <1>1 DEF Grounded, Flights, FlightPcs, NotEnrolling, Enrolments, EnrollPcs

LEMMA Failed ==
  ASSUME failed \in [kinds : SUBSET Failure, count : 0..MaxFailures], NEW fault, Fails(fault)
  PROVE  /\ failed' \in [kinds : SUBSET Failure, count : 0..MaxFailures]
         /\ failed'.kinds = failed.kinds \cup {fault}
<1>1. fault \in Failure /\ failed.count + 1 \in 0..MaxFailures
  BY DEF Fails
<1> QED BY <1>1 DEF Fails

LEMMA EnsuresKept ==
  ASSUME OnboardInv, Ensures
  PROVE  OnboardInv'
<1> USE DEF OnboardInv, OnboardShape, MovesTo
<1>1. /\ active' = active /\ chain' = chain /\ pending' = pending /\ receipt' = receipt
      /\ keys' = keys /\ held' = held /\ logged' = logged /\ known' = known
      /\ enrolling' = enrolling /\ reader' = reader /\ boots' = boots /\ spoilt' = spoilt
      /\ reopened' = reopened /\ said' = said /\ failed' = failed
  BY DEF Ensures, outside, secrets, Goes
<1>2. MovesTo("queued") /\ flight.pc = "idle"
  BY DEF Ensures, Goes, FlightPcs, Flights
<1>3. OnboardShape'
  BY <1>1, <1>2
<1>4. KeysAreNotWasted'
  BY <1>1, <1>2 DEF KeysAreNotWasted, EnrollFits
<1>5. ReadyIsTrue'
  BY <1>1, <1>2 DEF ReadyIsTrue, ChainFits, EnrollFits, FlightFits
<1>6. ChainFits'
  BY <1>1, <1>2 DEF ChainFits, FlightFits
<1>7. EnrollFits'
  BY <1>1, <1>2 DEF EnrollFits
<1>8. FlightFits'
  BY <1>1, <1>2, LegKinds DEF FlightFits, ChainFits, EnrollFits
<1>9. SeenFits'
  BY <1>1, <1>2, LegKinds DEF SeenFits, AllSeen, EnrollFits, FlightFits
<1> QED BY <1>3, <1>4, <1>5, <1>6, <1>7, <1>8, <1>9

LEMMA FlightStartsKept ==
  ASSUME OnboardInv, Starts
  PROVE  OnboardInv'
<1> USE DEF OnboardInv, OnboardShape, MovesTo
<1>1. /\ active' = active /\ chain' = chain /\ pending' = pending /\ receipt' = receipt
      /\ keys' = keys /\ held' = held /\ logged' = logged /\ known' = known
      /\ enrolling' = enrolling /\ reader' = reader /\ boots' = boots /\ spoilt' = spoilt
      /\ reopened' = reopened /\ failed' = failed
  BY DEF Starts, outside, secrets, Goes, EndsFlight
<1>2. flight.pc = "queued" /\ flight \in Flights
  BY DEF Starts
<1>3. \/ MovesTo("planning") /\ said' = said
      \/ flight' = Grounded /\ said' = "revoked"
  BY <1>2 DEF Starts, Goes, EndsFlight, FlightPcs, Flights
<1>4. OnboardShape'
  BY <1>1, <1>2, <1>3, Nothing
<1>5. KeysAreNotWasted'
  BY <1>1, <1>2, <1>3, Nothing DEF KeysAreNotWasted, EnrollFits
<1>6. ReadyIsTrue'
  BY <1>1, <1>2, <1>3, Nothing DEF ReadyIsTrue, ChainFits, EnrollFits, FlightFits
<1>7. ChainFits'
  BY <1>1, <1>2, <1>3, Nothing DEF ChainFits, FlightFits
<1>8. EnrollFits'
  BY <1>1, <1>2, <1>3, Nothing DEF EnrollFits
<1>9. FlightFits'
  BY <1>1, <1>2, <1>3, Nothing, LegKinds DEF FlightFits, ChainFits, EnrollFits
<1>10. SeenFits'
  BY <1>1, <1>2, <1>3, Nothing, LegKinds DEF SeenFits, AllSeen, EnrollFits, FlightFits
<1> QED BY <1>4, <1>5, <1>6, <1>7, <1>8, <1>9, <1>10

LEMMA PlansKept ==
  ASSUME OnboardInv, Plans
  PROVE  OnboardInv'
<1> USE DEF OnboardInv, OnboardShape, MovesTo
<1>1. /\ active' = active /\ chain' = chain /\ pending' = pending /\ receipt' = receipt
      /\ keys' = keys /\ held' = held /\ logged' = logged /\ enrolling' = enrolling
      /\ reader' = reader /\ boots' = boots /\ spoilt' = spoilt /\ reopened' = reopened
  BY DEF Plans, outside, secrets, Goes, EndsFlight
<1>2. flight.pc = "planning" /\ flight \in Flights
  BY DEF Plans
<1>3. \/ failed' \in [kinds : SUBSET Failure, count : 0..MaxFailures]
         /\ failed'.kinds = failed.kinds \cup {"unread"}
         /\ flight' = Grounded /\ said' = "unavailable" /\ known' = known
      \/ /\ known' = known /\ failed' = failed
         /\ \/ flight' = Grounded /\ said' = "needs_funds"
            \/ MovesTo("opening") /\ said' = said
      \/ /\ chain.account /\ known' = (known \/ logged) /\ failed' = failed
         /\ \/ known' /\ held /\ flight' = Grounded /\ said' = "ready"
            \/ /\ flight' \in Flights /\ flight'.pc = (IF known' THEN "enroll" ELSE "opening")
               /\ flight'.legs = flight.legs /\ flight'.enrolled = held /\ said' = said
  BY <1>2, Failed DEF Plans, Goes, EndsFlight, FlightPcs, Flights
<1>4. OnboardShape'
  BY <1>1, <1>2, <1>3, Nothing
<1>5. KeysAreNotWasted'
  BY <1>1, <1>2, <1>3, Nothing DEF KeysAreNotWasted, EnrollFits
<1>6. ReadyIsTrue'
  BY <1>1, <1>2, <1>3, Nothing DEF ReadyIsTrue, ChainFits, EnrollFits, FlightFits
<1>7. ChainFits'
  BY <1>1, <1>2, <1>3, Nothing DEF ChainFits, FlightFits
<1>8. EnrollFits'
  BY <1>1, <1>2, <1>3, Nothing DEF EnrollFits
<1>9. FlightFits'
  BY <1>1, <1>2, <1>3, Nothing, LegKinds DEF FlightFits, ChainFits, EnrollFits
<1>10. SeenFits'
  BY <1>1, <1>2, <1>3, Nothing, LegKinds DEF SeenFits, AllSeen, EnrollFits, FlightFits
<1> QED BY <1>4, <1>5, <1>6, <1>7, <1>8, <1>9, <1>10

LEMMA OpensKept ==
  ASSUME OnboardInv, Opens
  PROVE  OnboardInv'
<1> USE DEF OnboardInv, OnboardShape
<1>1. /\ active' = active /\ chain' = chain /\ pending' = pending /\ receipt' = receipt
      /\ keys' = keys /\ held' = held /\ logged' = logged /\ known' = known
      /\ enrolling' = enrolling /\ reader' = reader /\ boots' = boots /\ spoilt' = spoilt
      /\ reopened' = reopened
  BY DEF Opens, outside, secrets, Goes, EndsFlight
<1>2. flight.pc = "opening" /\ flight \in Flights
  BY DEF Opens
<1>3. \A x \in BOOLEAN : /\ Legs(x) \in Seq(Steps) /\ Legs(x) \in {Approving, Creating, Forwarding}
                         /\ x => Legs(x) = Forwarding
  BY LegsLeft, LegKinds
<1>4. \/ /\ flight' \in Flights /\ flight'.pc = "sending" /\ flight'.legs = Legs(chain.account)
         /\ flight'.enrolled = flight.enrolled /\ said' = said /\ failed' = failed
      \/ failed' \in [kinds : SUBSET Failure, count : 0..MaxFailures]
         /\ failed'.kinds = failed.kinds \cup {"misread"}
         /\ flight' \in Flights /\ flight'.pc = "sending" /\ flight'.legs = Legs(FALSE)
         /\ flight'.enrolled = flight.enrolled /\ said' = said
      \/ failed' \in [kinds : SUBSET Failure, count : 0..MaxFailures]
         /\ failed'.kinds = failed.kinds \cup {"nogas"}
         /\ flight' = Grounded /\ said' = "needs_gas"
  BY <1>2, <1>3, Failed DEF Opens, Goes, EndsFlight, FlightPcs, Flights
<1>5. OnboardShape'
  BY <1>1, <1>2, <1>3, <1>4, Nothing
<1>6. KeysAreNotWasted'
  BY <1>1, <1>2, <1>3, <1>4, Nothing DEF KeysAreNotWasted, EnrollFits
<1>7. ReadyIsTrue'
  BY <1>1, <1>2, <1>3, <1>4, Nothing DEF ReadyIsTrue, ChainFits, EnrollFits, FlightFits
<1>8. ChainFits'
  BY <1>1, <1>2, <1>3, <1>4, Nothing DEF ChainFits, FlightFits
<1>9. EnrollFits'
  BY <1>1, <1>2, <1>3, <1>4, Nothing DEF EnrollFits
<1>10. FlightFits'
  BY <1>1, <1>2, <1>3, <1>4, Nothing, LegKinds DEF FlightFits, ChainFits, EnrollFits
<1>11. SeenFits'
  BY <1>1, <1>2, <1>3, <1>4, Nothing, LegKinds DEF SeenFits, AllSeen, EnrollFits, FlightFits
<1> QED BY <1>5, <1>6, <1>7, <1>8, <1>9, <1>10, <1>11

LEMMA SendsKept ==
  ASSUME OnboardInv, Sends
  PROVE  OnboardInv'
<1> USE DEF OnboardInv, OnboardShape, MovesTo
<1>1. /\ active' = active /\ chain' = chain /\ receipt' = receipt /\ keys' = keys
      /\ held' = held /\ logged' = logged /\ known' = known /\ enrolling' = enrolling
      /\ reader' = reader /\ boots' = boots /\ spoilt' = spoilt /\ reopened' = reopened
  BY DEF Sends, secrets, Goes, EndsFlight
<1>2. flight.pc = "sending" /\ flight \in Flights
  BY DEF Sends
<1>3. flight.legs # <<>> => Head(flight.legs) \in Steps /\ Tail(flight.legs) \in Seq(Steps)
  BY <1>2, LegKinds DEF FlightFits, Steps
<1>4. \/ /\ flight.legs # <<>> /\ failed' = failed /\ said' = said
         /\ flight' \in Flights /\ flight'.pc = "receipt" /\ flight'.legs = Tail(flight.legs)
         /\ flight'.enrolled = flight.enrolled
         /\ pending' = Append(pending, Head(flight.legs))
      \/ /\ failed' = failed /\ flight' = Grounded /\ said' = "failed" /\ pending' = pending
      \/ failed' \in [kinds : SUBSET Failure, count : 0..MaxFailures]
         /\ failed'.kinds = failed.kinds \cup {"unsent"}
         /\ flight' = Grounded /\ said' = "failed" /\ pending' = pending
      \/ /\ flight.legs = <<>> /\ failed' = failed /\ said' = said /\ pending' = pending
         /\ MovesTo("reading")
  BY <1>2, <1>3, Failed DEF Sends, Goes, EndsFlight, FlightPcs, Flights
<1>5. flight.legs # <<>> /\ pending' = Append(pending, Head(flight.legs)) =>
        /\ pending' \in Seq(Steps) /\ pending' # <<>> /\ pending'[Len(pending')] = Head(flight.legs)
        /\ pending = <<>> => pending' = <<Head(flight.legs)>>
  BY <1>3, OneOut
<1>6. OnboardShape'
  BY <1>1, <1>2, <1>3, <1>4, <1>5, Nothing
<1>7. KeysAreNotWasted'
  BY <1>1, <1>2, <1>3, <1>4, <1>5, Nothing DEF KeysAreNotWasted, EnrollFits
<1>8. ReadyIsTrue'
  BY <1>1, <1>2, <1>3, <1>4, <1>5, Nothing DEF ReadyIsTrue, ChainFits, EnrollFits, FlightFits
<1>9. ChainFits'
  BY <1>1, <1>2, <1>3, <1>4, <1>5, Nothing DEF ChainFits, FlightFits
<1>10. EnrollFits'
  BY <1>1, <1>2, <1>3, <1>4, <1>5, Nothing DEF EnrollFits
<1>11. FlightFits'
  BY <1>1, <1>2, <1>3, <1>4, <1>5, Nothing, LegKinds DEF FlightFits, ChainFits, EnrollFits
<1>12. SeenFits'
  BY <1>1, <1>2, <1>3, <1>4, <1>5, Nothing, LegKinds
    DEF SeenFits, AllSeen, EnrollFits, FlightFits
<1> QED BY <1>6, <1>7, <1>8, <1>9, <1>10, <1>11, <1>12

LEMMA ReceivesKept ==
  ASSUME OnboardInv, Receives
  PROVE  OnboardInv'
<1> USE DEF OnboardInv, OnboardShape, MovesTo
<1>1. /\ active' = active /\ chain' = chain /\ pending' = pending /\ receipt' = receipt
      /\ keys' = keys /\ held' = held /\ logged' = logged /\ known' = known
      /\ enrolling' = enrolling /\ reader' = reader /\ boots' = boots /\ spoilt' = spoilt
      /\ reopened' = reopened
  BY DEF Receives, outside, secrets, Goes, EndsFlight
<1>2. flight.pc = "receipt" /\ flight \in Flights
  BY DEF Receives
<1>3. \/ /\ pending = <<>> /\ receipt = "success" /\ failed' = failed /\ said' = said
         /\ MovesTo("sending")
      \/ pending = <<>> /\ failed' = failed /\ flight' = Grounded /\ said' = "failed"
      \/ failed' \in [kinds : SUBSET Failure, count : 0..MaxFailures]
         /\ failed'.kinds = failed.kinds \cup {"late"}
         /\ flight' = Grounded /\ said' = "failed"
  BY <1>2, Failed DEF Receives, Goes, EndsFlight, FlightPcs, Flights
<1>4. OnboardShape'
  BY <1>1, <1>2, <1>3, Nothing
<1>5. KeysAreNotWasted'
  BY <1>1, <1>2, <1>3, Nothing DEF KeysAreNotWasted, EnrollFits
<1>6. ReadyIsTrue'
  BY <1>1, <1>2, <1>3, Nothing DEF ReadyIsTrue, ChainFits, EnrollFits, FlightFits
<1>7. ChainFits'
  BY <1>1, <1>2, <1>3, Nothing DEF ChainFits, FlightFits
<1>8. EnrollFits'
  BY <1>1, <1>2, <1>3, Nothing DEF EnrollFits
<1>9. FlightFits'
  BY <1>1, <1>2, <1>3, Nothing, LegKinds DEF FlightFits, ChainFits, EnrollFits
<1>10. SeenFits'
  BY <1>1, <1>2, <1>3, Nothing, LegKinds DEF SeenFits, AllSeen, EnrollFits, FlightFits
<1> QED BY <1>4, <1>5, <1>6, <1>7, <1>8, <1>9, <1>10

LEMMA RecordsKept ==
  ASSUME OnboardInv, Records
  PROVE  OnboardInv'
<1> USE DEF OnboardInv, OnboardShape, MovesTo
<1>1. /\ active' = active /\ chain' = chain /\ pending' = pending /\ receipt' = receipt
      /\ keys' = keys /\ held' = held /\ enrolling' = enrolling /\ reader' = reader
      /\ boots' = boots /\ spoilt' = spoilt /\ reopened' = reopened
  BY DEF Records, outside, secrets, Goes, EndsFlight
<1>2. flight.pc = "reading" /\ flight \in Flights
  BY DEF Records
<1>3. \/ /\ known' = TRUE /\ logged' \in {TRUE, logged}
         /\ failed' \in [kinds : SUBSET Failure, count : 0..MaxFailures]
         /\ failed.kinds \subseteq failed'.kinds
         /\ failed'.kinds \subseteq failed.kinds \cup {"unlogged"}
         /\ \/ flight.enrolled /\ flight' = Grounded /\ said' = "ready"
            \/ MovesTo("enroll") /\ said' = said
      \/ failed' \in [kinds : SUBSET Failure, count : 0..MaxFailures]
         /\ failed'.kinds = failed.kinds \cup {"misread"}
         /\ flight' = Grounded /\ said' = "failed" /\ known' = known /\ logged' = logged
  BY <1>2, Failed DEF Records, Goes, EndsFlight, FlightPcs, Flights
<1>4. OnboardShape'
  BY <1>1, <1>2, <1>3, Nothing
<1>5. KeysAreNotWasted'
  BY <1>1, <1>2, <1>3, Nothing DEF KeysAreNotWasted, EnrollFits
<1>6. ReadyIsTrue'
  BY <1>1, <1>2, <1>3, Nothing DEF ReadyIsTrue, ChainFits, EnrollFits, FlightFits
<1>7. ChainFits'
  BY <1>1, <1>2, <1>3, Nothing DEF ChainFits, FlightFits
<1>8. EnrollFits'
  BY <1>1, <1>2, <1>3, Nothing DEF EnrollFits
<1>9. FlightFits'
  BY <1>1, <1>2, <1>3, Nothing, LegKinds DEF FlightFits, ChainFits, EnrollFits
<1>10. SeenFits'
  BY <1>1, <1>2, <1>3, Nothing, LegKinds DEF SeenFits, AllSeen, EnrollFits, FlightFits
<1> QED BY <1>4, <1>5, <1>6, <1>7, <1>8, <1>9, <1>10

LEMMA EnrollsKept ==
  ASSUME OnboardInv, Enrolls
  PROVE  OnboardInv'
<1> USE DEF OnboardInv, OnboardShape, MovesTo
<1>1. /\ active' = active /\ chain' = chain /\ pending' = pending /\ receipt' = receipt
      /\ keys' = keys /\ held' = held /\ logged' = logged /\ known' = known
      /\ reader' = reader /\ boots' = boots /\ spoilt' = spoilt /\ reopened' = reopened
      /\ said' = said /\ failed' = failed
  BY DEF Enrolls, outside, Goes
<1>2. flight.pc = "enroll" /\ flight \in Flights /\ enrolling \in Enrolments
  BY DEF Enrolls
<1>3. MovesTo("awaiting") /\ said' = said
  BY <1>2 DEF Enrolls, Goes, FlightPcs, Flights
<1>4. /\ enrolling' \in Enrolments /\ enrolling'.pc \in {enrolling.pc, "reading"}
      /\ enrolling.pc # "none" => enrolling'.pc = enrolling.pc
  BY <1>2 DEF Enrolls, Joined, Enrolments, EnrollPcs
<1>5. OnboardShape'
  BY <1>1, <1>2, <1>3, <1>4
<1>6. KeysAreNotWasted'
  BY <1>1, <1>2, <1>3, <1>4 DEF KeysAreNotWasted, EnrollFits
<1>7. ReadyIsTrue'
  BY <1>1, <1>2, <1>3, <1>4 DEF ReadyIsTrue, ChainFits, EnrollFits, FlightFits
<1>8. ChainFits'
  BY <1>1, <1>2, <1>3, <1>4 DEF ChainFits, FlightFits
<1>9. EnrollFits'
  BY <1>1, <1>2, <1>3, <1>4 DEF EnrollFits
<1>10. FlightFits'
  BY <1>1, <1>2, <1>3, <1>4, LegKinds DEF FlightFits, ChainFits, EnrollFits
<1>11. SeenFits'
  BY <1>1, <1>2, <1>3, <1>4, LegKinds DEF SeenFits, AllSeen, EnrollFits, FlightFits
<1> QED BY <1>5, <1>6, <1>7, <1>8, <1>9, <1>10, <1>11

LEMMA ReadsKept ==
  ASSUME OnboardInv, Reads
  PROVE  OnboardInv'
<1> USE DEF OnboardInv, OnboardShape, MovesTo, KeyMovesTo, KeyAnswers
<1>1. /\ active' = active /\ chain' = chain /\ pending' = pending /\ receipt' = receipt
      /\ keys' = keys /\ held' = held /\ logged' = logged /\ known' = known
      /\ boots' = boots /\ spoilt' = spoilt /\ reopened' = reopened /\ failed' = failed
  BY DEF Reads, outside, Answers, OnTo
<1>2. /\ enrolling.pc = "reading" /\ enrolling \in Enrolments /\ flight \in Flights
      /\ reader \in [Readers -> ReaderPcs]
  BY DEF Reads
<1>3. reader' \in [Readers -> ReaderPcs]
  BY <1>2 DEF Reads, Answers, OnTo, ReaderPcs
<1>4. \/ held /\ KeyAnswers("ready")
      \/ ~held /\ KeyMovesTo("checking")
  BY <1>2 DEF Reads, Answers, OnTo, EndsFlight, Over, EnrollPcs, Enrolments, EnrollFits, ReadsHeld
<1>5. OnboardShape'
  BY <1>1, <1>2, <1>3, <1>4, Nothing
<1>6. KeysAreNotWasted'
  BY <1>1, <1>2, <1>3, <1>4, Nothing DEF KeysAreNotWasted, EnrollFits
<1>7. ReadyIsTrue'
  BY <1>1, <1>2, <1>3, <1>4, Nothing DEF ReadyIsTrue, ChainFits, EnrollFits, FlightFits
<1>8. ChainFits'
  BY <1>1, <1>2, <1>3, <1>4, Nothing DEF ChainFits, FlightFits
<1>9. EnrollFits'
  BY <1>1, <1>2, <1>3, <1>4, Nothing DEF EnrollFits
<1>10. FlightFits'
  BY <1>1, <1>2, <1>3, <1>4, Nothing, LegKinds DEF FlightFits, ChainFits, EnrollFits
<1>11. SeenFits'
  BY <1>1, <1>2, <1>3, <1>4, Nothing, LegKinds DEF SeenFits, AllSeen, EnrollFits, FlightFits
<1> QED BY <1>5, <1>6, <1>7, <1>8, <1>9, <1>10, <1>11

LEMMA ChecksKept ==
  ASSUME OnboardInv, Checks
  PROVE  OnboardInv'
<1> USE DEF OnboardInv, OnboardShape, MovesTo, KeyMovesTo, KeyAnswers
<1>1. /\ active' = active /\ chain' = chain /\ pending' = pending /\ receipt' = receipt
      /\ keys' = keys /\ held' = held /\ logged' = logged /\ known' = known
      /\ boots' = boots /\ spoilt' = spoilt /\ reopened' = reopened
  BY DEF Checks, outside, Answers, OnTo
<1>2. /\ enrolling.pc = "checking" /\ enrolling \in Enrolments /\ flight \in Flights
      /\ reader \in [Readers -> ReaderPcs]
  BY DEF Checks
<1>3. reader' \in [Readers -> ReaderPcs]
  BY <1>2 DEF Checks, Answers, OnTo, ReaderPcs
<1>4. \/ failed' = failed /\ KeyMovesTo("signing")
      \/ /\ failed' \in [kinds : SUBSET Failure, count : 0..MaxFailures]
         /\ failed.kinds \subseteq failed'.kinds /\ KeyAnswers("failed")
  BY <1>2, Failed DEF Checks, Answers, OnTo, EndsFlight, Over, EnrollPcs, Enrolments, EnrollFits
<1>5. OnboardShape'
  <2>1. {held', logged', known', reopened'} \subseteq BOOLEAN
    BY <1>1, <1>2, <1>3, <1>4, Nothing
  <2>2. keys' \in Nat /\ spoilt' \in Nat
    <3>1. spoilt + 1 \in Nat /\ keys + 1 \in Nat
      OBVIOUS
    <3> QED BY <1>1, <1>2, <1>3, <1>4, <3>1
  <2>3. flight' \in Flights /\ enrolling' \in Enrolments
    BY <1>1, <1>2, <1>3, <1>4, Nothing
  <2> QED BY <1>1, <1>2, <1>3, <1>4, <2>1, <2>2, <2>3
<1>6. KeysAreNotWasted'
  BY <1>1, <1>2, <1>3, <1>4, Nothing DEF KeysAreNotWasted, EnrollFits
<1>7. ReadyIsTrue'
  BY <1>1, <1>2, <1>3, <1>4, Nothing DEF ReadyIsTrue, ChainFits, EnrollFits, FlightFits
<1>8. ChainFits'
  BY <1>1, <1>2, <1>3, <1>4, Nothing DEF ChainFits, FlightFits
<1>9. EnrollFits'
  BY <1>1, <1>2, <1>3, <1>4, Nothing DEF EnrollFits
<1>10. FlightFits'
  BY <1>1, <1>2, <1>3, <1>4, Nothing, LegKinds DEF FlightFits, ChainFits, EnrollFits
<1>11. SeenFits'
  BY <1>1, <1>2, <1>3, <1>4, Nothing, LegKinds DEF SeenFits, AllSeen, EnrollFits, FlightFits
<1> QED BY <1>5, <1>6, <1>7, <1>8, <1>9, <1>10, <1>11

LEMMA SignsKept ==
  ASSUME OnboardInv, Signs
  PROVE  OnboardInv'
<1> USE DEF OnboardInv, OnboardShape, MovesTo, KeyMovesTo, KeyAnswers
<1>1. /\ active' = active /\ chain' = chain /\ pending' = pending /\ receipt' = receipt
      /\ keys' = keys /\ held' = held /\ logged' = logged /\ known' = known
      /\ boots' = boots /\ spoilt' = spoilt /\ reopened' = reopened /\ failed' = failed
  BY DEF Signs, outside, Answers, OnTo
<1>2. /\ enrolling.pc = "signing" /\ enrolling \in Enrolments /\ flight \in Flights
      /\ reader \in [Readers -> ReaderPcs]
  BY DEF Signs
<1>3. reader' \in [Readers -> ReaderPcs]
  BY <1>2 DEF Signs, Answers, OnTo, ReaderPcs
<1>4. \/ KeyMovesTo("posting")
      \/ KeyAnswers("failed")
  BY <1>2 DEF Signs, Answers, OnTo, EndsFlight, Over, EnrollPcs, Enrolments, EnrollFits
<1>5. OnboardShape'
  BY <1>1, <1>2, <1>3, <1>4, Nothing
<1>6. KeysAreNotWasted'
  BY <1>1, <1>2, <1>3, <1>4, Nothing DEF KeysAreNotWasted, EnrollFits
<1>7. ReadyIsTrue'
  BY <1>1, <1>2, <1>3, <1>4, Nothing DEF ReadyIsTrue, ChainFits, EnrollFits, FlightFits
<1>8. ChainFits'
  BY <1>1, <1>2, <1>3, <1>4, Nothing DEF ChainFits, FlightFits
<1>9. EnrollFits'
  BY <1>1, <1>2, <1>3, <1>4, Nothing DEF EnrollFits
<1>10. FlightFits'
  BY <1>1, <1>2, <1>3, <1>4, Nothing, LegKinds DEF FlightFits, ChainFits, EnrollFits
<1>11. SeenFits'
  BY <1>1, <1>2, <1>3, <1>4, Nothing, LegKinds DEF SeenFits, AllSeen, EnrollFits, FlightFits
<1> QED BY <1>5, <1>6, <1>7, <1>8, <1>9, <1>10, <1>11

LEMMA PostsKept ==
  ASSUME OnboardInv, Posts
  PROVE  OnboardInv'
<1> USE DEF OnboardInv, OnboardShape, MovesTo, KeyMovesTo, KeyAnswers
<1>1. /\ active' = active /\ chain' = chain /\ pending' = pending /\ receipt' = receipt
      /\ held' = held /\ logged' = logged /\ known' = known /\ boots' = boots
      /\ reopened' = reopened
  BY DEF Posts, outside, Answers, OnTo
<1>2. /\ enrolling.pc = "posting" /\ enrolling \in Enrolments /\ flight \in Flights
      /\ reader \in [Readers -> ReaderPcs]
  BY DEF Posts
<1>3. reader' \in [Readers -> ReaderPcs]
  BY <1>2 DEF Posts, Answers, OnTo, ReaderPcs
<1>4. \/ failed' = failed /\ keys' = keys + 1 /\ spoilt' = spoilt /\ KeyMovesTo("storing")
      \/ /\ failed' \in [kinds : SUBSET Failure, count : 0..MaxFailures]
         /\ failed.kinds \subseteq failed'.kinds /\ KeyAnswers("failed")
         /\ \/ keys' = keys /\ spoilt' = spoilt
            \/ keys' = keys + 1 /\ spoilt' = spoilt + 1
  BY <1>2, Failed DEF Posts, Answers, OnTo, EndsFlight, Over, EnrollPcs, Enrolments, EnrollFits
<1>5. OnboardShape'
  <2>1. {held', logged', known', reopened'} \subseteq BOOLEAN
    BY <1>1, <1>2, <1>3, <1>4, Nothing
  <2>2. keys' \in Nat /\ spoilt' \in Nat
    <3>1. spoilt + 1 \in Nat /\ keys + 1 \in Nat
      OBVIOUS
    <3> QED BY <1>1, <1>2, <1>3, <1>4, <3>1
  <2>3. flight' \in Flights /\ enrolling' \in Enrolments
    BY <1>1, <1>2, <1>3, <1>4, Nothing
  <2> QED BY <1>1, <1>2, <1>3, <1>4, <2>1, <2>2, <2>3
<1>6. KeysAreNotWasted'
  BY <1>1, <1>2, <1>3, <1>4, Nothing DEF KeysAreNotWasted, EnrollFits
<1>7. ReadyIsTrue'
  BY <1>1, <1>2, <1>3, <1>4, Nothing DEF ReadyIsTrue, ChainFits, EnrollFits, FlightFits
<1>8. ChainFits'
  BY <1>1, <1>2, <1>3, <1>4, Nothing DEF ChainFits, FlightFits
<1>9. EnrollFits'
  BY <1>1, <1>2, <1>3, <1>4, Nothing DEF EnrollFits
<1>10. FlightFits'
  BY <1>1, <1>2, <1>3, <1>4, Nothing, LegKinds DEF FlightFits, ChainFits, EnrollFits
<1>11. SeenFits'
  BY <1>1, <1>2, <1>3, <1>4, Nothing, LegKinds DEF SeenFits, AllSeen, EnrollFits, FlightFits
<1> QED BY <1>5, <1>6, <1>7, <1>8, <1>9, <1>10, <1>11

LEMMA StoresKept ==
  ASSUME OnboardInv, Stores
  PROVE  OnboardInv'
<1> USE DEF OnboardInv, OnboardShape, KeyAnswers
<1>1. /\ active' = active /\ chain' = chain /\ pending' = pending /\ receipt' = receipt
      /\ keys' = keys /\ logged' = logged /\ known' = known /\ boots' = boots
      /\ reopened' = reopened
  BY DEF Stores, outside, Answers
<1>2. /\ enrolling.pc = "storing" /\ enrolling \in Enrolments /\ flight \in Flights
      /\ reader \in [Readers -> ReaderPcs]
  BY DEF Stores
<1>3. reader' \in [Readers -> ReaderPcs]
  BY <1>2 DEF Stores, Answers, OnTo, ReaderPcs
<1>4. \/ failed' = failed /\ held' = TRUE /\ spoilt' = spoilt /\ KeyAnswers("ready")
      \/ /\ failed' \in [kinds : SUBSET Failure, count : 0..MaxFailures]
         /\ failed.kinds \subseteq failed'.kinds
         /\ held' = held /\ spoilt' = spoilt + 1 /\ KeyAnswers("failed")
  BY <1>2, Failed DEF Stores, Answers, OnTo, EndsFlight, Over, EnrollPcs, Enrolments, EnrollFits
<1>5. OnboardShape'
  <2>1. {held', logged', known', reopened'} \subseteq BOOLEAN
    BY <1>1, <1>2, <1>3, <1>4, Nothing
  <2>2. keys' \in Nat /\ spoilt' \in Nat
    <3>1. spoilt + 1 \in Nat /\ keys + 1 \in Nat
      OBVIOUS
    <3> QED BY <1>1, <1>2, <1>3, <1>4, <3>1
  <2>3. flight' \in Flights /\ enrolling' \in Enrolments
    BY <1>1, <1>2, <1>3, <1>4, Nothing
  <2> QED BY <1>1, <1>2, <1>3, <1>4, <2>1, <2>2, <2>3
<1>6. KeysAreNotWasted'
  BY <1>1, <1>2, <1>3, <1>4, Nothing DEF KeysAreNotWasted, EnrollFits
<1>7. ReadyIsTrue'
  BY <1>1, <1>2, <1>3, <1>4, Nothing DEF ReadyIsTrue, ChainFits, EnrollFits, FlightFits
<1>8. ChainFits'
  BY <1>1, <1>2, <1>3, <1>4, Nothing DEF ChainFits, FlightFits
<1>9. EnrollFits'
  BY <1>1, <1>2, <1>3, <1>4, Nothing DEF EnrollFits
<1>10. FlightFits'
  BY <1>1, <1>2, <1>3, <1>4, Nothing, LegKinds DEF FlightFits, ChainFits, EnrollFits
<1>11. SeenFits'
  BY <1>1, <1>2, <1>3, <1>4, Nothing, LegKinds DEF SeenFits, AllSeen, EnrollFits, FlightFits
<1> QED BY <1>5, <1>6, <1>7, <1>8, <1>9, <1>10, <1>11

LEMMA LooksUpKept ==
  ASSUME OnboardInv, NEW r \in Readers, LooksUp(r)
  PROVE  OnboardInv'
<1> USE DEF OnboardInv, OnboardShape
<1>1. /\ active' = active /\ chain' = chain /\ pending' = pending /\ receipt' = receipt
      /\ keys' = keys /\ held' = held /\ logged' = logged /\ known' = known
      /\ enrolling' = enrolling /\ boots' = boots /\ spoilt' = spoilt /\ reopened' = reopened
      /\ flight' = flight /\ said' = said /\ failed' = failed
  BY DEF LooksUp, outside
<1>2. reader' \in [Readers -> ReaderPcs]
  BY DEF LooksUp, ReaderPcs
<1>3. OnboardShape'
  BY <1>1, <1>2
<1>4. KeysAreNotWasted'
  BY <1>1, <1>2 DEF KeysAreNotWasted, EnrollFits
<1>5. ReadyIsTrue'
  BY <1>1, <1>2 DEF ReadyIsTrue, ChainFits, EnrollFits, FlightFits
<1>6. ChainFits'
  BY <1>1, <1>2 DEF ChainFits, FlightFits
<1>7. EnrollFits'
  BY <1>1, <1>2 DEF EnrollFits
<1>8. FlightFits'
  BY <1>1, <1>2, LegKinds DEF FlightFits, ChainFits, EnrollFits
<1>9. SeenFits'
  BY <1>1, <1>2, LegKinds DEF SeenFits, AllSeen, EnrollFits, FlightFits
<1> QED BY <1>3, <1>4, <1>5, <1>6, <1>7, <1>8, <1>9

LEMMA AsksKept ==
  ASSUME OnboardInv, NEW r \in Readers, Asks(r)
  PROVE  OnboardInv'
<1> USE DEF OnboardInv, OnboardShape
<1>1. /\ active' = active /\ chain' = chain /\ pending' = pending /\ receipt' = receipt
      /\ keys' = keys /\ held' = held /\ logged' = logged /\ known' = known
      /\ boots' = boots /\ spoilt' = spoilt /\ reopened' = reopened /\ flight' = flight
      /\ said' = said /\ failed' = failed
  BY DEF Asks, outside
<1>2. reader' \in [Readers -> ReaderPcs]
  BY DEF Asks, ReaderPcs
<1>3. /\ enrolling' \in Enrolments
      /\ enrolling.pc = "none" => enrolling'.pc = "reading"
      /\ enrolling.pc # "none" => enrolling'.pc = enrolling.pc
      /\ "flight" \in enrolling'.waiters => "flight" \in enrolling.waiters
  BY OnboardingAssumption DEF Asks, Joined, Enrolments, EnrollPcs
<1>4. OnboardShape'
  BY <1>1, <1>2, <1>3
<1>5. KeysAreNotWasted'
  BY <1>1, <1>2, <1>3 DEF KeysAreNotWasted, EnrollFits
<1>6. ReadyIsTrue'
  BY <1>1, <1>2, <1>3 DEF ReadyIsTrue, ChainFits, EnrollFits, FlightFits
<1>7. ChainFits'
  BY <1>1, <1>2, <1>3 DEF ChainFits, FlightFits
<1>8. EnrollFits'
  BY <1>1, <1>2, <1>3 DEF EnrollFits
<1>9. FlightFits'
  BY <1>1, <1>2, <1>3, LegKinds DEF FlightFits, ChainFits, EnrollFits
<1>10. SeenFits'
  BY <1>1, <1>2, <1>3, LegKinds DEF SeenFits, AllSeen, EnrollFits, FlightFits
<1> QED BY <1>4, <1>5, <1>6, <1>7, <1>8, <1>9, <1>10

LEMMA FundsKept ==
  ASSUME OnboardInv, Funds
  PROVE  OnboardInv'
<1> USE DEF OnboardInv, OnboardShape
<1>1. /\ active' = active /\ pending' = pending /\ receipt' = receipt /\ keys' = keys
      /\ held' = held /\ logged' = logged /\ known' = known /\ enrolling' = enrolling
      /\ reader' = reader /\ boots' = boots /\ spoilt' = spoilt /\ reopened' = reopened
      /\ flight' = flight /\ said' = said /\ failed' = failed
  BY DEF Funds, secrets
<1>2. /\ chain' \in [funds : BOOLEAN, approved : BOOLEAN, account : BOOLEAN, forwarding : BOOLEAN]
      /\ chain'.account = chain.account /\ chain'.forwarding = chain.forwarding
  BY DEF Funds
<1>3. OnboardShape'
  BY <1>1, <1>2
<1>4. KeysAreNotWasted'
  BY <1>1, <1>2 DEF KeysAreNotWasted, EnrollFits
<1>5. ReadyIsTrue'
  BY <1>1, <1>2 DEF ReadyIsTrue, ChainFits, EnrollFits, FlightFits
<1>6. ChainFits'
  BY <1>1, <1>2 DEF ChainFits, FlightFits
<1>7. EnrollFits'
  BY <1>1, <1>2 DEF EnrollFits
<1>8. FlightFits'
  BY <1>1, <1>2, LegKinds DEF FlightFits, ChainFits, EnrollFits
<1>9. SeenFits'
  BY <1>1, <1>2, LegKinds DEF SeenFits, AllSeen, EnrollFits, FlightFits
<1> QED BY <1>3, <1>4, <1>5, <1>6, <1>7, <1>8, <1>9

LEMMA RevokesKept ==
  ASSUME OnboardInv, Revokes
  PROVE  OnboardInv'
<1> USE DEF OnboardInv, OnboardShape
<1>1. /\ chain' = chain /\ pending' = pending /\ receipt' = receipt /\ keys' = keys
      /\ held' = held /\ logged' = logged /\ known' = known /\ enrolling' = enrolling
      /\ reader' = reader /\ boots' = boots /\ spoilt' = spoilt /\ reopened' = reopened
      /\ flight' = flight /\ said' = said /\ failed' = failed
  BY DEF Revokes, secrets
<1>2. active' = FALSE
  BY DEF Revokes
<1>3. OnboardShape'
  BY <1>1, <1>2
<1>4. KeysAreNotWasted'
  BY <1>1, <1>2 DEF KeysAreNotWasted, EnrollFits
<1>5. ReadyIsTrue'
  BY <1>1, <1>2 DEF ReadyIsTrue, ChainFits, EnrollFits, FlightFits
<1>6. ChainFits'
  BY <1>1, <1>2 DEF ChainFits, FlightFits
<1>7. EnrollFits'
  BY <1>1, <1>2 DEF EnrollFits
<1>8. FlightFits'
  BY <1>1, <1>2, LegKinds DEF FlightFits, ChainFits, EnrollFits
<1>9. SeenFits'
  BY <1>1, <1>2, LegKinds DEF SeenFits, AllSeen, EnrollFits, FlightFits
<1> QED BY <1>3, <1>4, <1>5, <1>6, <1>7, <1>8, <1>9

LEMMA LandsKept ==
  ASSUME OnboardInv, Lands
  PROVE  OnboardInv'
<1> USE DEF OnboardInv, OnboardShape
<1>1. /\ active' = active /\ keys' = keys /\ held' = held /\ logged' = logged
      /\ known' = known /\ enrolling' = enrolling /\ reader' = reader /\ boots' = boots
      /\ spoilt' = spoilt /\ flight' = flight /\ said' = said /\ failed' = failed
  BY DEF Lands, secrets
<1>2. /\ pending # <<>> /\ pending' = Tail(pending) /\ pending' \in Seq(Steps)
      /\ Head(pending) \in Steps
      /\ receipt' \in {"success", "reverted"}
      /\ reopened' = (reopened \/ (Head(pending) = "createAccount" /\ chain.account))
  BY OneOut DEF Lands
<1>3. /\ Tail(pending) = <<>> => Head(pending) = pending[Len(pending)]
      /\ Tail(pending) # <<>> => Tail(pending)[Len(Tail(pending))] = pending[Len(pending)]
  BY <1>2, OneOut
<1>4. /\ chain' \in [funds : BOOLEAN, approved : BOOLEAN, account : BOOLEAN, forwarding : BOOLEAN]
      /\ chain.account => chain'.account
      /\ chain.forwarding => chain'.forwarding
      /\ chain'.forwarding # chain.forwarding => chain.account
      /\ chain'.account # chain.account => Head(pending) = "createAccount"
      /\ receipt' = "success" /\ Head(pending) = "allowOrderForwarding" => chain'.forwarding
  BY <1>2 DEF Lands, Takes, Steps
<1>5. \A x \in Steps : pending = <<x>> => Head(pending) = x /\ Tail(pending) = <<>>
  BY OneOut
<1>6. OnboardShape'
  BY <1>1, <1>2, <1>3, <1>4, <1>5
<1>7. KeysAreNotWasted'
  BY <1>1, <1>2, <1>3, <1>4, <1>5 DEF KeysAreNotWasted, EnrollFits
<1>8. ReadyIsTrue'
  BY <1>1, <1>2, <1>3, <1>4, <1>5 DEF ReadyIsTrue, ChainFits, EnrollFits, FlightFits
<1>9. ChainFits'
  BY <1>1, <1>2, <1>3, <1>4, <1>5 DEF ChainFits, FlightFits
<1>10. EnrollFits'
  BY <1>1, <1>2, <1>3, <1>4, <1>5 DEF EnrollFits
<1>11. FlightFits'
  BY <1>1, <1>2, <1>3, <1>4, <1>5, LegKinds DEF FlightFits, ChainFits, EnrollFits
<1>12. SeenFits'
  <2>1. CASE ~AllSeen
    BY <2>1, <1>1 DEF SeenFits, AllSeen
  <2>2. CASE AllSeen
    <3>1. /\ flight.pc = "receipt" /\ ~reopened
          /\ \/ flight.legs = Creating /\ pending = <<"approve">> /\ ~chain.account
             \/ flight.legs = Forwarding /\ pending = <<"createAccount">> /\ ~chain.account
             \/ flight.legs = <<>> /\ pending = <<"allowOrderForwarding">>
      BY <2>2, <1>2, LegKinds DEF SeenFits, FlightFits
    <3>2. /\ pending' = <<>> /\ ~reopened'
          /\ flight.legs = Creating => Head(pending) = "approve" /\ ~chain.account
      BY <3>1, <1>2, <1>5, LegKinds DEF Steps
    <3>3. flight.legs = Creating => ~chain'.account
      BY <3>2, <1>4
    <3> QED BY <3>1, <3>2, <3>3, <1>1, LegKinds DEF SeenFits
  <2> QED BY <2>1, <2>2
<1> QED BY <1>6, <1>7, <1>8, <1>9, <1>10, <1>11, <1>12

LEMMA RestartsKept ==
  ASSUME OnboardInv, Restarts
  PROVE  OnboardInv'
<1> USE DEF OnboardInv, OnboardShape
<1>1. /\ active' = active /\ chain' = chain /\ pending' = pending /\ receipt' = receipt
      /\ keys' = keys /\ held' = held /\ logged' = logged /\ reopened' = reopened
      /\ failed' = failed
  BY DEF Restarts
<1>2. reader' \in [Readers -> ReaderPcs] /\ boots' \in 0..MaxRestarts /\ boots' > 0
  BY DEF Restarts, ReaderPcs
<1>3. /\ known' = FALSE /\ flight' = Grounded /\ enrolling' = NotEnrolling /\ said' = "nothing"
      /\ spoilt' = IF enrolling.pc = "storing" THEN spoilt + 1 ELSE spoilt
  BY DEF Restarts
<1>4. OnboardShape'
  <2>1. {held', logged', known', reopened'} \subseteq BOOLEAN
    BY <1>1, <1>2, <1>3, Nothing
  <2>2. keys' \in Nat /\ spoilt' \in Nat
    <3>1. spoilt + 1 \in Nat /\ keys + 1 \in Nat
      OBVIOUS
    <3> QED BY <1>1, <1>2, <1>3, <3>1
  <2>3. flight' \in Flights /\ enrolling' \in Enrolments
    BY <1>1, <1>2, <1>3, Nothing
  <2> QED BY <1>1, <1>2, <1>3, <2>1, <2>2, <2>3
<1>5. KeysAreNotWasted'
  BY <1>1, <1>2, <1>3, Nothing DEF KeysAreNotWasted, EnrollFits
<1>6. ReadyIsTrue'
  BY <1>1, <1>2, <1>3, Nothing DEF ReadyIsTrue, ChainFits, EnrollFits, FlightFits
<1>7. ChainFits'
  BY <1>1, <1>2, <1>3, Nothing DEF ChainFits, FlightFits
<1>8. EnrollFits'
  BY <1>1, <1>2, <1>3, Nothing DEF EnrollFits
<1>9. FlightFits'
  BY <1>1, <1>2, <1>3, Nothing, LegKinds DEF FlightFits, ChainFits, EnrollFits
<1>10. SeenFits'
  BY <1>1, <1>2, <1>3, Nothing, LegKinds DEF SeenFits, AllSeen, EnrollFits, FlightFits
<1> QED BY <1>4, <1>5, <1>6, <1>7, <1>8, <1>9, <1>10

LEMMA OnboardInitInv == OnboardInit => OnboardInv
<1> SUFFICES ASSUME OnboardInit PROVE OnboardInv
  OBVIOUS
<1> USE DEF OnboardInit
<1>1. pending \in Seq(Steps)
  OBVIOUS
<1>2. OnboardShape
  <2>1. chain \in [funds : BOOLEAN, approved : BOOLEAN, account : BOOLEAN, forwarding : BOOLEAN]
    OBVIOUS
  <2>2. reader \in [Readers -> ReaderPcs]
    BY DEF ReaderPcs
  <2>3. failed \in [kinds : SUBSET Failure, count : 0..MaxFailures] /\ boots \in 0..MaxRestarts
    BY DEF OnboardingAssumption
  <2>4. {held, logged, known, reopened} \subseteq BOOLEAN /\ keys \in Nat /\ spoilt \in Nat
    OBVIOUS
  <2> QED BY <1>1, <2>1, <2>2, <2>3, <2>4, Nothing DEF OnboardShape
<1>3. KeysAreNotWasted /\ ReadyIsTrue /\ ChainFits /\ EnrollFits /\ SeenFits
  BY Nothing DEF KeysAreNotWasted, ReadyIsTrue, ChainFits, EnrollFits, SeenFits
<1>4. FlightFits
  BY Nothing DEF FlightFits
<1> QED BY <1>2, <1>3, <1>4 DEF OnboardInv

LEMMA OnboardStep == OnboardInv /\ [OnboardNext]_onboardVars => OnboardInv'
<1> SUFFICES ASSUME OnboardInv, [OnboardNext]_onboardVars PROVE OnboardInv'
  OBVIOUS
<1>1. CASE UNCHANGED onboardVars
  <2>1. /\ active' = active /\ chain' = chain /\ pending' = pending /\ receipt' = receipt
        /\ keys' = keys /\ held' = held /\ logged' = logged /\ known' = known /\ flight' = flight
        /\ enrolling' = enrolling /\ reader' = reader /\ said' = said /\ failed' = failed
        /\ boots' = boots /\ spoilt' = spoilt /\ reopened' = reopened
    BY <1>1 DEF onboardVars
  <2>2. OnboardShape'
    BY <2>1 DEF OnboardInv, OnboardShape
  <2>3. KeysAreNotWasted' /\ ReadyIsTrue' /\ ChainFits' /\ EnrollFits'
    BY <2>1 DEF OnboardInv, KeysAreNotWasted, ReadyIsTrue, ChainFits, EnrollFits
  <2>4. FlightFits' /\ SeenFits'
    BY <2>1 DEF OnboardInv, FlightFits, SeenFits, AllSeen
  <2> QED BY <2>2, <2>3, <2>4 DEF OnboardInv
<1>2. CASE FlightStep
  BY <1>2, FlightStartsKept, PlansKept, OpensKept, SendsKept, ReceivesKept, RecordsKept,
     EnrollsKept
  DEF FlightStep
<1>3. CASE EnrollStep
  BY <1>3, ReadsKept, ChecksKept, SignsKept, PostsKept, StoresKept DEF EnrollStep
<1>4. CASE \E r \in Readers : LooksUp(r) \/ Asks(r)
  BY <1>4, LooksUpKept, AsksKept
<1>5. CASE Ensures \/ Funds \/ Revokes \/ Lands \/ Restarts
  BY <1>5, EnsuresKept, FundsKept, RevokesKept, LandsKept, RestartsKept
<1> QED BY <1>1, <1>2, <1>3, <1>4, <1>5 DEF OnboardNext

LEMMA OnboardInvIsEnough == OnboardInv => OnboardingIsTrue
<1> SUFFICES ASSUME OnboardInv PROVE OnboardingIsTrue
  OBVIOUS
<1>1. OnboardingTypeOK
  BY DEF OnboardInv, OnboardShape, OnboardingTypeOK, Flights, FlightPcs, Enrolments, EnrollPcs,
         ReaderPcs
<1>2. OpenedOnce
  BY DEF OnboardInv, OnboardShape, SeenFits, AllSeen, OpenedOnce
<1> QED BY <1>1, <1>2 DEF OnboardInv, OnboardingIsTrue

(* However many ask for it at once, and whatever read, send, answer or write is
   lost on the way: no key slot is used beside a good key, "ready" is said of an
   account that is open, forwarded and keyed, and an account is opened again only
   where the first opening could not be seen (perpl-onboarding.ts:29 and 369,
   perpl-agent.ts:318). *)
THEOREM OnboardingStaysTrue == OnboardSpec => []OnboardingIsTrue
<1>1. OnboardInit => OnboardInv
  BY OnboardInitInv
<1>2. OnboardInv /\ [OnboardNext]_onboardVars => OnboardInv'
  BY OnboardStep
<1>3. OnboardInv => OnboardingIsTrue
  BY OnboardInvIsEnough
<1> QED BY <1>1, <1>2, <1>3, PTL DEF OnboardSpec
===============================================================================
