------------------------------ MODULE AgentRun ------------------------------
(***************************************************************************)
(* One agent's runs and its writes: the loop of                            *)
(* services/api/src/agents/runner/agent-runner.service.ts, the spacing of  *)
(* signing writes (runner/write-spacing.ts, spacing/write-spacer.ts), the  *)
(* gate and the write lock every surface shares (tools/gate.ts,            *)
(* tools/keyed-mutex.ts), and the verdict a fill settles                   *)
(* (events/settle-fill.ts, events/verdict.ts).                             *)
(*                                                                         *)
(* There is one market, and every thesis is long.  The model, the venue    *)
(* and the enclave are external; so is the owner, who revokes the agent    *)
(* and amends its mandate.  A call is a tool call of a run's turn, of an   *)
(* MCP session, or a later fill the resting-fill watcher records under     *)
(* the same lock.                                                          *)
(***************************************************************************)
EXTENDS Integers, Sequences, FiniteSets, FiniteSetsExt, SequencesExt

CONSTANTS
  Calls,
  RunTools,   \* the tools the model may call
  OtherTools, \* those a session may call, and the watcher's "later"
  Spacing,    \* WriteSpacer's spacingMs
  MaxTurns,   \* max_iterations
  MaxRuns,    \* bound: runs begun
  MaxEvents,  \* bound: no call comes once as much was logged and signed
  MaxChanges  \* bound: revokes and amends

RunAssumption ==
  /\ {MaxRuns, MaxEvents, MaxChanges} \subseteq Nat
  /\ {Spacing, MaxTurns} \subseteq Nat \ {0}
  /\ RunTools \subseteq {"thesis", "order", "exit"}
  /\ OtherTools \subseteq {"thesis", "order", "exit", "later"}

VARIABLES
  agentNow,  \* the stored agent: active or not, orders within its mandate or not, its version
  run,       \* the run open, or the last: its number, its turn
  aborted,   \* the runs whose AbortController fired
  theses,    \* the contexts, a run's or a session's, that recorded a thesis
  toolCall,  \* what is being called, of each
  spacer,    \* the agent's key of WriteSpacer: its queue, and how long the next still waits
  lock,      \* the agent's key of KeyedMutex: the head holds it
  runLog,    \* the agent's log: what a verdict is read from, refusals and run summaries
  since,     \* history: how long ago a run's write last reached the enclave, or Spacing
  signed     \* history: every write signed

runVars == <<agentNow, run, aborted, theses, toolCall, spacer, lock, runLog, since, signed>>

-------------------------------------------------------------------------------
Session == 0             \* an MCP session's context; a run's is its number
Watcher == -1

NoCall == [pc |-> "none", tool |-> "exit", ctx |-> Session]

RunTypeOK ==
  /\ agentNow \in [active : BOOLEAN, orders : BOOLEAN, version : 0..MaxChanges]
  /\ run \in [pc : {"idle", "opening", "asking", "tools", "ending"}, no : 0..MaxRuns,
              turn : 0..MaxTurns]
  /\ aborted \subseteq 1..MaxRuns
  /\ theses \subseteq 0..MaxRuns
  /\ toolCall \in [Calls -> [pc : {"none", "spacing", "locking", "handling", "logging",
                                   "settling", "done"},
                             tool : {"thesis", "order", "exit", "later"}, ctx : -1..MaxRuns]]
  /\ spacer \in [queue : Seq(Calls), wait : 0..Spacing]
  /\ lock \in Seq(Calls)
  /\ \A i \in DOMAIN runLog : runLog[i].ctx \in -1..MaxRuns
  /\ since \in 0..Spacing
  /\ \A i \in DOMAIN signed : signed[i].ctx \in 0..MaxRuns

RunInit ==
  /\ agentNow = [active |-> TRUE, orders |-> TRUE, version |-> 0]
  /\ run = [pc |-> "idle", no |-> 0, turn |-> 0]
  /\ aborted = {} /\ theses = {}
  /\ toolCall = [c \in Calls |-> NoCall]
  /\ spacer = [queue |-> <<>>, wait |-> 0]
  /\ lock = <<>> /\ runLog = <<>>
  /\ since = Spacing /\ signed = <<>>

-------------------------------------------------------------------------------
(* The log, and the verdicts read off it. *)

(* `fill` stands for the order that filled and its fill event, `close` for the
   order, the fill and the close of `close_position`, `order` for an order that
   filled nothing; `of` is the size bought, or the thesis of a verdict. *)
EventOf(kind, ctx, of) == [kind |-> kind, ctx |-> ctx, of |-> of]

LogsEvent(event) == runLog' = Append(runLog, event)

Indices(kind) == {i \in DOMAIN runLog : runLog[i].kind = kind}

(* The events of a thesis: those between it and the next. *)
Segment(t) ==
  LET next == Min({u \in Indices("thesis") : u > t} \cup {Len(runLog) + 1})
  IN SelectSeq(SubSeq(runLog, t + 1, next - 1), LAMBDA e : e.kind \in {"fill", "close"})

Traded == {t \in Indices("thesis") : \E i \in DOMAIN Segment(t) : Segment(t)[i].of # 0}

Opened(t) == \E i \in DOMAIN Segment(t) : Segment(t)[i].of > 0

(* What it bought and has not sold; a sale of more than that closes it all. *)
Net(t) == FoldLeft(LAMBDA net, e : Max({net + e.of, 0}), 0, Segment(t))

(* `settleSegment`: nothing is left of what it opened, or it opened nothing and
   the venue closed the position. *)
Flat(t) == IF Opened(t) THEN Net(t) = 0
           ELSE \E i \in DOMAIN Segment(t) : Segment(t)[i].kind = "close"

VerdictsOn(t) == {i \in Indices("verdict") : runLog[i].of = t}

(* Mutant of ToJudge: a thesis is judged whenever it is flat. *)
ToJudgeAgain == {t \in Traded : Flat(t) /\ \A u \in Traded : u <= t}

(* `recordVerdictFor`: the last thesis that traded, if it is flat and has no
   verdict yet. *)
ToJudge == {t \in Traded : Flat(t) /\ VerdictsOn(t) = {} /\ \A u \in Traded : u <= t}

-------------------------------------------------------------------------------
(* The owner, and time. *)

Changes(active, orders) ==
  /\ agentNow.version < MaxChanges /\ agentNow.active
  /\ agentNow' = [active |-> active, orders |-> orders, version |-> agentNow.version + 1]
  /\ UNCHANGED <<run, aborted, theses, toolCall, spacer, lock, runLog, since, signed>>

Revokes == Changes(FALSE, agentNow.orders)
Amends  == Changes(TRUE, ~agentNow.orders)

TimePasses == /\ spacer.wait > 0 \/ since < Spacing
        /\ spacer' = [spacer EXCEPT !.wait = Max({@ - 1, 0})]
        /\ since' = Min({since + 1, Spacing})
        /\ UNCHANGED <<agentNow, run, aborted, theses, toolCall, lock, runLog, signed>>

-------------------------------------------------------------------------------
(* A run. *)

Outside == <<agentNow, since, signed>>

Aborted(n) == n \in aborted

RunBegins ==
  /\ run.pc = "idle" /\ run.no < MaxRuns /\ agentNow.active
  /\ run' = [pc |-> "opening", no |-> run.no + 1, turn |-> 0]
  /\ UNCHANGED <<Outside, aborted, theses, toolCall, spacer, lock, runLog>>

(* The credits refuse a key: nothing was spent, and nothing is recorded. *)
KeyRefused == /\ run.pc = "opening"
              /\ run' = [run EXCEPT !.pc = "idle"]
              /\ UNCHANGED <<Outside, aborted, theses, toolCall, spacer, lock, runLog>>

(* The key has no budget left; or the Perpl account is seen to, the clock
   starts, and the model is asked. *)
Opens == /\ run.pc = "opening"
         /\ run' \in {[run EXCEPT !.pc = "ending"], [run EXCEPT !.pc = "asking", !.turn = 1]}
         /\ UNCHANGED <<Outside, aborted, theses, toolCall, spacer, lock, runLog>>

FreeCalls == {c \in Calls : toolCall[c].pc = "none"}

Spaces(tool) == tool # "thesis"

(* The model answers with tool calls, which run all at once, a signing write
   behind those before it: `ws` are the writes, by `tools`, and `ts` the theses. *)
Turn(ws, ts, tools) ==
  /\ run.pc = "asking" /\ agentNow.active
  /\ Len(runLog) + Len(signed) < MaxEvents
  /\ toolCall' = [c \in Calls |->
       CASE c \in Range(ws) -> [pc |-> "spacing", tool |-> tools[c], ctx |-> run.no]
         [] c \in Range(ts) -> [pc |-> "locking", tool |-> "thesis", ctx |-> run.no]
         [] OTHER -> toolCall[c]]
  /\ spacer' = [spacer EXCEPT !.queue = @ \o ws]
  /\ lock' = lock \o ts
  /\ run' = [run EXCEPT !.pc = "tools"]
  /\ UNCHANGED <<Outside, aborted, theses, runLog>>

(* Of an agent no longer active none runs. *)
RevokedStops ==
  /\ run.pc = "asking" /\ ~agentNow.active
  /\ aborted' = aborted \cup {run.no}
  /\ run' = [run EXCEPT !.pc = "ending"]
  /\ UNCHANGED <<Outside, theses, toolCall, spacer, lock, runLog>>

(* It has no more to do, or its request fails. *)
ModelEnds == /\ run.pc = "asking"
             /\ run' = [run EXCEPT !.pc = "ending"]
             /\ UNCHANGED <<Outside, aborted, theses, toolCall, spacer, lock, runLog>>

OfRun(n) == {c \in Calls \ FreeCalls : toolCall[c].ctx = n}

(* The model is asked again, unless that was the last turn or the time is up. *)
ToolsDone ==
  /\ run.pc = "tools" /\ \A c \in OfRun(run.no) : toolCall[c].pc = "done"
  /\ run' = IF run.turn = MaxTurns \/ Aborted(run.no) THEN [run EXCEPT !.pc = "ending"]
            ELSE [run EXCEPT !.pc = "asking", !.turn = @ + 1]
  /\ toolCall' = [c \in Calls |-> IF c \in OfRun(run.no) THEN NoCall ELSE toolCall[c]]
  /\ UNCHANGED <<Outside, aborted, theses, spacer, lock, runLog>>

(* The run's time is up: a request is cut off, a turn's tools are waited for. *)
TimesOut ==
  /\ run.pc \in {"asking", "tools"} /\ ~Aborted(run.no)
  /\ aborted' = aborted \cup {run.no}
  /\ run' = IF run.pc = "asking" THEN [run EXCEPT !.pc = "ending"] ELSE run
  /\ UNCHANGED <<Outside, theses, toolCall, spacer, lock, runLog>>

(* Its summary is logged, and the agent may run again. *)
RunFinishes ==
  /\ run.pc = "ending"
  /\ LogsEvent(EventOf("run", run.no, 0))
  /\ run' = [run EXCEPT !.pc = "idle"]
  /\ UNCHANGED <<Outside, aborted, theses, toolCall, spacer, lock>>

(* An MCP session calls a tool, or the watcher found a later fill. *)
Calling(c, tool) ==
  /\ c \in FreeCalls /\ Len(runLog) + Len(signed) < MaxEvents
  /\ toolCall' = [toolCall EXCEPT ![c] = [pc |-> "locking", tool |-> tool,
                                  ctx |-> IF tool = "later" THEN Watcher ELSE Session]]
  /\ lock' = Append(lock, c)
  /\ UNCHANGED <<Outside, run, aborted, theses, spacer, runLog>>

-------------------------------------------------------------------------------
(* A call. *)

HasTurn(c, pc) == lock # <<>> /\ Head(lock) = c /\ toolCall[c].pc = pc

Goes(c, pc) == toolCall' = [toolCall EXCEPT ![c].pc = pc]

AtSpacer(c) == toolCall[c].pc = "spacing" /\ Head(spacer.queue) = c

(* Mutant of Spaced: a run that ended while its write slept is not noticed. *)
SpacedBlindly(c) ==
  /\ AtSpacer(c) /\ spacer.wait = 0
  /\ Goes(c, "locking") /\ lock' = Append(lock, c)
  /\ UNCHANGED <<Outside, run, aborted, theses, spacer, runLog>>

(* `WriteSpacer.run`: the write's turn, no sooner than the spacing after the last. *)
Spaced(c) ==
  /\ AtSpacer(c) /\ spacer.wait = 0 /\ ~Aborted(toolCall[c].ctx)
  /\ Goes(c, "locking") /\ lock' = Append(lock, c)
  /\ UNCHANGED <<Outside, run, aborted, theses, spacer, runLog>>

(* An answer is the turn's, or goes to whoever called. *)
Answered(c) ==
  toolCall' = [toolCall EXCEPT ![c] = IF @.ctx > 0 THEN [@ EXCEPT !.pc = "done"] ELSE NoCall]

(* Mutant of NotSent: a write given up while it waited keeps its place. *)
NotSentStays(c) ==
  /\ AtSpacer(c) /\ Aborted(toolCall[c].ctx)
  /\ Answered(c)
  /\ UNCHANGED <<Outside, run, aborted, theses, spacer, lock, runLog>>

(* "Not sent: the run ended (timeout) while this write waited for its turn." *)
NotSent(c) ==
  /\ AtSpacer(c) /\ Aborted(toolCall[c].ctx)
  /\ Answered(c)
  /\ spacer' = [spacer EXCEPT !.queue = Tail(@)]
  /\ UNCHANGED <<Outside, run, aborted, theses, lock, runLog>>

(* A write that ended, `pc` is where, marks its key, landed or not. *)
MarksEnd(pc) == [queue |-> Tail(spacer.queue), wait |-> Spacing]

(* A write ends, landed or not: the lock goes to the next, and the spacing starts. *)
Ends(c) ==
  /\ lock' = Tail(lock)
  /\ spacer' = IF toolCall[c].ctx > 0 /\ Spaces(toolCall[c].tool)
               THEN MarksEnd(toolCall[c].pc) ELSE spacer
  /\ Answered(c)

Within(c) == agentNow.active /\ (toolCall[c].tool = "order" => agentNow.orders)

(* `write`: the agent, read again, is active, an order's thesis was recorded in
   this context, and it is within the mandate as it is now. *)
Allowed(c) == Within(c) /\ (toolCall[c].tool = "order" => toolCall[c].ctx \in theses)

Checked(c) ==
  /\ HasTurn(c, "locking") /\ toolCall[c].tool # "later" /\ Allowed(c)
  /\ Goes(c, "handling")
  /\ UNCHANGED <<Outside, run, aborted, theses, spacer, lock, runLog>>

(* `fail`: a refusal is logged. *)
RefusedHere(c) ==
  /\ HasTurn(c, "locking") /\ toolCall[c].tool # "later" /\ ~Allowed(c)
  /\ LogsEvent(EventOf("refusal", toolCall[c].ctx, 0))
  /\ Ends(c)
  /\ UNCHANGED <<Outside, run, aborted, theses>>

(* `record_thesis` remembers it, then logs it. *)
Thinks(c) ==
  /\ HasTurn(c, "handling") /\ toolCall[c].tool = "thesis"
  /\ theses' = theses \cup {toolCall[c].ctx}
  /\ LogsEvent(EventOf("thesis", toolCall[c].ctx, 0))
  /\ Ends(c)
  /\ UNCHANGED <<Outside, run, aborted>>

Reaches(c) == since' = IF toolCall[c].ctx > 0 THEN 0 ELSE since

(* The handler: the enclave or the venue refuses, or the write lands. *)
RefusedThere(c) ==
  /\ HasTurn(c, "handling") /\ toolCall[c].tool # "thesis"
  /\ LogsEvent(EventOf("refusal", toolCall[c].ctx, 0))
  /\ Reaches(c) /\ Ends(c)
  /\ UNCHANGED <<agentNow, run, aborted, theses, signed>>

Signs(c) ==
  /\ HasTurn(c, "handling") /\ toolCall[c].tool # "thesis"
  /\ signed' = Append(signed,
       [ctx |-> toolCall[c].ctx, late |-> Aborted(toolCall[c].ctx), gap |-> since,
        within |-> Within(c), version |-> agentNow.version])
  /\ Reaches(c) /\ Goes(c, "logging")
  /\ UNCHANGED <<agentNow, run, aborted, theses, spacer, lock, runLog>>

MayLog(c) == IF toolCall[c].tool = "exit" THEN {EventOf("close", toolCall[c].ctx, n) : n \in {0, -1}}
             ELSE {EventOf("fill", toolCall[c].ctx, n) : n \in {1, -1}}

(* What it filled is logged, at placement or later: of a close that filled
   nothing the close is logged, and no thesis looked at. *)
LogsFill(c) ==
  /\ HasTurn(c, "logging") \/ (HasTurn(c, "locking") /\ toolCall[c].tool = "later")
  /\ \E e \in MayLog(c) : /\ LogsEvent(e)
                          /\ IF e.of = 0 THEN Ends(c)
                             ELSE Goes(c, "settling") /\ UNCHANGED <<lock, spacer>>
  /\ UNCHANGED <<Outside, run, aborted, theses>>

(* It filled nothing, or rests on the book, or was no order at all. *)
LogsOrder(c) ==
  /\ HasTurn(c, "logging")
  /\ LogsEvent(EventOf("order", toolCall[c].ctx, 0))
  /\ Ends(c)
  /\ UNCHANGED <<Outside, run, aborted, theses>>

Settles(c) ==
  /\ HasTurn(c, "settling")
  /\ IF ToJudge = {} THEN UNCHANGED runLog
     ELSE \E t \in ToJudge : LogsEvent(EventOf("verdict", toolCall[c].ctx, t))
  /\ Ends(c)
  /\ UNCHANGED <<Outside, run, aborted, theses>>

-------------------------------------------------------------------------------
(* At most two calls in a turn. *)
AnyTurn ==
  \E ws \in SeqOf(FreeCalls, 2), ts \in SeqOf(FreeCalls, 2) :
    /\ Len(ws) + Len(ts) \in 1..2 /\ IsInjective(ws \o ts)
    /\ ts # <<>> => "thesis" \in RunTools
    /\ \E tools \in [Range(ws) -> RunTools \ {"thesis"}] : Turn(ws, ts, tools)

AnyCall == \E c \in Calls, tool \in OtherTools : Calling(c, tool)

Handles(c) == \/ Spaced(c) \/ NotSent(c) \/ Checked(c) \/ RefusedHere(c)
              \/ Thinks(c) \/ RefusedThere(c) \/ Signs(c)
              \/ LogsFill(c) \/ LogsOrder(c) \/ Settles(c)

RunNext ==
  \/ Revokes \/ Amends \/ TimePasses
  \/ RunBegins \/ KeyRefused \/ Opens \/ AnyTurn \/ RevokedStops \/ ModelEnds
  \/ ToolsDone \/ TimesOut \/ RunFinishes
  \/ AnyCall
  \/ \E c \in Calls : Handles(c)

RunSpec == RunInit /\ [][RunNext]_runVars

RunStep == KeyRefused \/ Opens \/ ToolsDone \/ RunFinishes

(* Time passes, the run's timer fires, and what a run or a call waits for ends,
   one way or the other. *)
RunFairness == /\ WF_runVars(TimePasses) /\ WF_runVars(TimesOut) /\ WF_runVars(RunStep)
            /\ \A c \in Calls : WF_runVars(Handles(c))

RunFairSpec == RunSpec /\ RunFairness

-------------------------------------------------------------------------------
(* Safety. *)

(* A run that is cut off, and a revoke or an amend, stop what they forbid: one
   write at most still signs, the one that had its turn or was checked before,
   and none of those asleep or queued behind it (write-spacer.ts:81,
   keyed-mutex.ts:6). *)
WritesStop ==
  /\ \A n \in 1..MaxRuns :
       Cardinality({i \in DOMAIN signed : signed[i].ctx = n /\ signed[i].late}) <= 1
  /\ \A v \in 0..MaxChanges :
       Cardinality({i \in DOMAIN signed : ~signed[i].within /\ signed[i].version = v}) <= 1

(* A run's write is signed no sooner than the spacing after a run's write, of
   this run or the one before, last reached the enclave, refused or not
   (write-spacer.ts:72). *)
RunWritesAreSpaced ==
  \A i \in DOMAIN signed : signed[i].ctx > 0 => signed[i].gap >= Spacing

(* Both: a write is signed in its turn or not at all. *)
WritesKeepTheirTurn == WritesStop /\ RunWritesAreSpaced

(* A thesis has one verdict at most, and, between writes, has one once what it
   opened is closed, whichever run, session or later fill closed it
   (settle-fill.ts:28). *)
VerdictsFit ==
  \A t \in Indices("thesis") :
    /\ Cardinality(VerdictsOn(t)) <= 1
    /\ lock = <<>> /\ Opened(t) /\ Net(t) = 0 => VerdictsOn(t) # {}

-------------------------------------------------------------------------------
(* Liveness. *)

(* A run that began ends, and its agent can run again, whatever its model does,
   and however its writes are spaced or cut off. *)
RunsEnd == run.pc # "idle" ~> run.pc = "idle"

===============================================================================
