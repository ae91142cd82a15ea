------------------------------- MODULE Watchers -------------------------------
(***************************************************************************)
(* The watchers of an agent: conditions on the market that are checked     *)
(* without the model and wake it when they come true.  WatcherService and  *)
(* checkWatchers of services/api/src/agents/watchers/.                     *)
(*                                                                         *)
(* A check reads the set, then each of its conditions once, each when it   *)
(* comes, then writes the whole set back; the owner, or the agent in a run *)
(* of its own, may change the set meanwhile.  The scheduler never checks   *)
(* an agent twice at once (AgentScheduler).                                *)
(***************************************************************************)
EXTENDS Integers, Sequences, FiniteSets

CONSTANTS
  WatcherIds,
  Conditions,     \* what a clause can ask of the market
  EdgeConditions, \* those that are true only when they become so
  ClauseSets,     \* the conditions one watcher may ask
  Cooldown,       \* cooldownMinutes
  MaxChecks, MaxSets, MaxClock, MaxReloads,  \* bounds
  WatchFaults     \* a subset of {"unread", "unsaved"}

ASSUME WatchAssumption ==
  /\ EdgeConditions \subseteq Conditions /\ ClauseSets \subseteq (SUBSET Conditions) \ {{}}
  /\ WatchFaults \subseteq {"unread", "unsaved"}
  /\ {Cooldown, MaxChecks, MaxSets, MaxClock, MaxReloads} \subseteq Nat

VARIABLES
  clock,
  market,   \* which conditions hold
  set,      \* the stored watchers
  updated,  \* updatedAt: no two changes in one millisecond
  check,    \* the check under way
  reloads,
  asked,    \* history: what each watcher was last set to
  checked,     \* history: what its recorded checks saw since it was set to that
  lastFire  \* history: when it last fired, since there is one by its id

watchVars == <<clock, market, set, updated, check, reloads, asked, checked, lastFire>>

-------------------------------------------------------------------------------
Never    == -1
Readings == {"holds", "not", "unknown"}
Edges    == {"null", "holds", "not"}
Specs    == [clauses : ClauseSets, match : {"all", "any"}]
NoSpec   == [clauses |-> {}, match |-> "all"]
Absent   == [spec |-> NoSpec, edge |-> [c \in Conditions |-> "null"], firedAt |-> Never]
NoCheck  == [on |-> FALSE]

Watched(ws) == {w \in WatcherIds : ws[w].spec # NoSpec}

WatcherRecords == [spec : Specs \cup {NoSpec}, edge : [Conditions -> Edges],
                   firedAt : 0..MaxClock \cup {Never}]

WatchTypeOK ==
  /\ clock \in 0..MaxClock /\ updated \in 0..MaxSets /\ reloads \in 0..MaxReloads
  /\ market \in [Conditions -> {"holds", "not"}]
  /\ set \in [WatcherIds -> WatcherRecords]
  /\ \/ check = NoCheck
     \/ check \in [on : {TRUE}, set : [WatcherIds -> WatcherRecords], updated : 0..MaxSets,
                   at : 0..MaxClock, read : [Conditions -> Readings \cup {"unread"}]]
  /\ asked \in [WatcherIds -> Specs \cup {NoSpec}]
  /\ checked \in [WatcherIds ->
       Seq([read : [Conditions -> Readings \cup {"unread"}], at : 0..MaxClock,
            fired : BOOLEAN, before : 0..MaxClock \cup {Never}])]
  /\ lastFire \in [WatcherIds -> 0..MaxClock \cup {Never}]

WatchInit ==
  /\ clock = 0 /\ updated = 0 /\ reloads = 0
  /\ market = [c \in Conditions |-> "not"]
  /\ set = [w \in WatcherIds |-> Absent]
  /\ check = NoCheck
  /\ asked = [w \in WatcherIds |-> NoSpec]
  /\ checked = [w \in WatcherIds |-> <<>>]
  /\ lastFire = [w \in WatcherIds |-> Never]

-------------------------------------------------------------------------------
(* SetsTo of the set, from the page or from a run. *)

(* `stored`: the edges stay if the condition does, the last firing if the id
   does. *)
Stored(w, spec) ==
  IF set[w].spec = spec THEN set[w]
  ELSE [Absent EXCEPT !.spec = spec, !.firedAt = set[w].firedAt]

SetsTo(ws) ==
  /\ updated < MaxSets /\ updated' = updated + 1
  /\ set' = ws
  /\ asked' = [w \in WatcherIds |-> ws[w].spec]
  /\ checked' = [w \in WatcherIds |-> IF ws[w].spec = set[w].spec THEN checked[w] ELSE <<>>]
  /\ lastFire' = [w \in WatcherIds |-> IF ws[w].spec = NoSpec THEN Never ELSE lastFire[w]]
  /\ UNCHANGED <<clock, market, check, reloads>>

(* The whole set, owner's or agent's; with nothing in it, `clear`. *)
Replace(specs) ==
  SetsTo([w \in WatcherIds |-> IF specs[w] = NoSpec THEN Absent ELSE Stored(w, specs[w])])

Upsert(w, spec) == SetsTo([set EXCEPT ![w] = Stored(w, spec)])

RemovesWatcher(w) == set[w].spec # NoSpec /\ SetsTo([set EXCEPT ![w] = Absent])

-------------------------------------------------------------------------------
(* A check. *)

RecordedChecks == Cardinality(UNION {{<<w, i>> : i \in DOMAIN checked[w]} : w \in WatcherIds})

Checks ==
  /\ ~check.on /\ Watched(set) # {} /\ RecordedChecks < MaxChecks
  /\ check' = [on |-> TRUE, set |-> set, updated |-> updated, at |-> clock,
               read |-> [c \in Conditions |-> "unread"]]
  /\ UNCHANGED <<clock, market, set, updated, reloads, asked, checked, lastFire>>

AskedOf(ws) == UNION {ws[w].spec.clauses : w \in Watched(ws)}

(* Each condition is read once for the check, however many clauses ask it. *)
ReadsCondition(c) ==
  /\ check.on /\ c \in AskedOf(check.set) /\ check.read[c] = "unread"
  /\ \/ check' = [check EXCEPT !.read[c] = market[c]]
     \/ "unread" \in WatchFaults /\ check' = [check EXCEPT !.read[c] = "unknown"]
  /\ UNCHANGED <<clock, market, set, updated, reloads, asked, checked, lastFire>>

AllRead == check.on /\ \A c \in AskedOf(check.set) : check.read[c] # "unread"

(* An edge keeps its answer when it cannot be read. *)
EdgeAfter(w, c) ==
  IF c \notin check.set[w].spec.clauses \cap EdgeConditions THEN "null"
  ELSE IF check.read[c] = "unknown" THEN check.set[w].edge[c] ELSE check.read[c]

Hit(w, c) == /\ check.read[c] = "holds"
             /\ c \in EdgeConditions => check.set[w].edge[c] = "not"

Cooling(w) == /\ check.set[w].firedAt # Never
              /\ check.at < check.set[w].firedAt + Cooldown

Fires(w) ==
  LET spec == check.set[w].spec
  IN /\ ~Cooling(w)
     /\ \/ spec.match = "all" /\ \A c \in spec.clauses : Hit(w, c)
        \/ spec.match = "any" /\ \E c \in spec.clauses : Hit(w, c)

Evaluated(w) ==
  [check.set[w] EXCEPT !.edge = [c \in Conditions |-> EdgeAfter(w, c)],
                       !.firedAt = IF Fires(w) THEN check.at ELSE @]

(* Mutant of Unchanged: the set is not read again after the reads. *)
UnchangedAssumed == TRUE

(* A set that changed meanwhile wins over the check. *)
Unchanged == updated = check.updated

Record ==
  /\ AllRead
  /\ check' = NoCheck
  /\ IF Unchanged
     THEN /\ set' = [w \in WatcherIds |-> IF w \in Watched(check.set) THEN Evaluated(w) ELSE Absent]
          /\ checked' = [w \in WatcherIds |->
               IF w \notin Watched(check.set) THEN checked[w]
               ELSE Append(checked[w], [read |-> check.read, at |-> check.at, fired |-> Fires(w),
                                     before |-> lastFire[w]])]
          /\ lastFire' = [w \in WatcherIds |->
               IF w \in Watched(check.set) /\ Fires(w) THEN check.at ELSE lastFire[w]]
     ELSE UNCHANGED <<set, checked, lastFire>>
  /\ UNCHANGED <<clock, market, updated, reloads, asked>>

(* The write failed, and memory takes the set back: nothing was checked. *)
RecordFails ==
  /\ "unsaved" \in WatchFaults /\ AllRead
  /\ check' = NoCheck
  /\ UNCHANGED <<clock, market, set, updated, reloads, asked, checked, lastFire>>

-------------------------------------------------------------------------------
MarketMoves(c) ==
  /\ market' = [market EXCEPT ![c] = IF @ = "holds" THEN "not" ELSE "holds"]
  /\ UNCHANGED <<clock, set, updated, check, reloads, asked, checked, lastFire>>

ClockTicks == /\ clock < MaxClock /\ clock' = clock + 1
              /\ UNCHANGED <<market, set, updated, check, reloads, asked, checked, lastFire>>

(* The set is read back whole, edges and firings with it. *)
Reload == /\ reloads < MaxReloads /\ reloads' = reloads + 1
          /\ check' = NoCheck
          /\ UNCHANGED <<clock, market, set, updated, asked, checked, lastFire>>

WatchNext ==
  \/ \E specs \in [WatcherIds -> Specs \cup {NoSpec}] : Replace(specs)
  \/ \E w \in WatcherIds : RemovesWatcher(w) \/ \E spec \in Specs : Upsert(w, spec)
  \/ Checks \/ Record \/ RecordFails \/ ClockTicks \/ Reload
  \/ \E c \in Conditions : ReadsCondition(c) \/ MarketMoves(c)

WatchSpec == WatchInit /\ [][WatchNext]_watchVars

-------------------------------------------------------------------------------
(* What is watched is what was last asked for: a check under way neither brings
   back what was removed nor undoes what was set (watcher.service.ts:198). *)
SetsWin == \A w \in WatcherIds : set[w].spec = asked[w]

(* What an earlier recorded check last read of a condition. *)
LastKnown(w, i, c) ==
  LET known == {j \in 1..(i - 1) : checked[w][j].read[c] \in {"holds", "not"}}
  IN IF known = {} THEN "null"
     ELSE checked[w][CHOOSE j \in known : \A k \in known : k <= j].read[c]

CameTrue(w, i, c) ==
  /\ checked[w][i].read[c] = "holds"
  /\ c \in EdgeConditions => LastKnown(w, i, c) = "not"

(* A watcher fires when, and only when, its condition came true between two
   recorded checks that could read it, whatever outages, restarts and changes
   of other watchers lie between, unless it fired within its cooldown
   (watcher-eval.ts:6). *)
CrossesAreReported ==
  \A w \in WatcherIds : \A i \in DOMAIN checked[w] :
    LET spec == asked[w]
        this == checked[w][i]
        came == \/ spec.match = "all" /\ \A c \in spec.clauses : CameTrue(w, i, c)
                \/ spec.match = "any" /\ \E c \in spec.clauses : CameTrue(w, i, c)
    IN this.fired <=> came /\ (this.before = Never \/ this.at >= this.before + Cooldown)

(* However checks, changes, outages and restarts come between each other: what is
   watched is what was last asked for (watcher.service.ts:198), and a watcher fires
   when, and only when, its condition came true (watcher-eval.ts:6). *)
WatchersAreTrue == WatchTypeOK /\ SetsWin /\ CrossesAreReported
===============================================================================
