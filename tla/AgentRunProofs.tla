--------------------------- MODULE AgentRunProofs ---------------------------
(***************************************************************************)
(* What AgentRun promises of an agent's writes, for any calls, tools,      *)
(* spacing and bounds.                                                     *)
(*                                                                         *)
(* A write waits in two queues, the spacer's and then the lock's, and      *)
(* keeps its place in the first while it is in the second.  QueuesFit says *)
(* which calls are in which, and that the one under way heads both; with   *)
(* it, what was signed after a run was cut off (LateFits), what a revoke   *)
(* or an amend forbids (ForbiddenFits) and how long ago a run's write      *)
(* reached the enclave (GapsFit) are each kept by every step.              *)
(***************************************************************************)
EXTENDS AgentRun, Watchers, SequenceTheorems, FiniteSetTheorems, TLAPS

LogEvents == [kind : {"refusal", "thesis", "close", "fill", "order", "verdict", "run"},
              ctx : -1..MaxRuns, of : Int]
Writes    == [ctx : 0..MaxRuns, late : BOOLEAN, gap : 0..Spacing, within : BOOLEAN,
              version : 0..MaxChanges]

Held    == {"locking", "handling", "logging", "settling"}
Working == {"handling", "logging", "settling"}

In(q, c)  == \E i \in DOMAIN q : q[i] = c
Once(q)   == \A i, j \in DOMAIN q : q[i] = q[j] => i = j

(* A run's write, whose place in the spacer's queue is kept until it ends. *)
RunWrite(x) == x.ctx > 0 /\ Spaces(x.tool)

Shape ==
  /\ RunTypeOK
  /\ runLog \in Seq(LogEvents) /\ signed \in Seq(Writes)

CallFits(x) ==
  /\ x.pc \notin {"none"} /\ x.ctx > 0 => run.pc = "tools" /\ x.ctx = run.no
  /\ x.pc = "spacing" => RunWrite(x)
  /\ x.pc = "done" => x.ctx > 0
  /\ x.tool = "later" <=> x.ctx = Watcher
  /\ x.pc = "handling" => x.tool # "later"

CallsFit == \A c \in Calls : CallFits(toolCall[c])

RunFits ==
  /\ \A n \in aborted : n <= run.no
  /\ run.no \in aborted => run.pc \notin {"opening", "asking"}
  /\ run.pc # "idle" => run.no > 0

PlaceFits(c) ==
  LET x == toolCall[c]
  IN /\ In(lock, c) <=> x.pc \in Held
     /\ In(spacer.queue, c) <=> x.pc = "spacing" \/ (RunWrite(x) /\ x.pc \in Held)
     /\ x.pc \in Working => Head(lock) = c
     /\ RunWrite(x) /\ x.pc \in Held => Head(spacer.queue) = c

QueuesFit == Once(lock) /\ Once(spacer.queue) /\ \A c \in Calls : PlaceFits(c)

(* After a write of a run that was cut off, none of it is to come. *)
LateFits ==
  /\ \A i, j \in DOMAIN signed :
       signed[i].late /\ signed[j].late /\ signed[i].ctx = signed[j].ctx => i = j
  /\ \A i \in DOMAIN signed : signed[i].late => signed[i].ctx \in aborted
  /\ \A i \in DOMAIN signed, c \in Calls :
       signed[i].late /\ toolCall[c].ctx = signed[i].ctx /\ RunWrite(toolCall[c])
         => toolCall[c].pc \notin {"locking", "handling"}

(* After a write that the agent as it is now forbids, none is to come. *)
ForbiddenFits ==
  /\ \A i \in DOMAIN signed : signed[i].version <= agentNow.version
  /\ \A i, j \in DOMAIN signed :
       ~signed[i].within /\ ~signed[j].within /\ signed[i].version = signed[j].version => i = j
  /\ \A i \in DOMAIN signed, c \in Calls :
       ~signed[i].within /\ signed[i].version = agentNow.version /\ toolCall[c].pc = "handling"
         => Within(c)

(* While no write of a run has reached the enclave and has yet to end, what the
   next still waits makes up for what has not passed. *)
GapsFit ==
  /\ RunWritesAreSpaced
  /\ \A c \in Calls : RunWrite(toolCall[c]) /\ toolCall[c].pc \in {"locking", "handling"}
                        => since = Spacing
  /\ (\A c \in Calls : ~(RunWrite(toolCall[c]) /\ toolCall[c].pc \in {"logging", "settling"}))
       => spacer.wait + since >= Spacing

RunInv == /\ Shape /\ RunFits /\ CallsFit /\ QueuesFit
          /\ LateFits /\ ForbiddenFits /\ GapsFit

-------------------------------------------------------------------------------
(* The queues. *)

LEMMA Parts ==
  ASSUME NEW S, NEW q \in Seq(S), q # <<>>
  PROVE  /\ Head(q) \in S /\ Tail(q) \in Seq(S) /\ Len(q) \in Nat \ {0}
         /\ Len(Tail(q)) = Len(q) - 1 /\ Head(q) = q[1]
         /\ \A i \in 1..Len(Tail(q)) : Tail(q)[i] = q[i + 1]
OBVIOUS

(* The next call takes the place of the one that left. *)
LEMMA Left ==
  ASSUME NEW q \in Seq(Calls), q # <<>>, Once(q)
  PROVE  /\ Tail(q) \in Seq(Calls) /\ Once(Tail(q))
         /\ \A c \in Calls : In(Tail(q), c) <=> In(q, c) /\ c # Head(q)
<1>1. /\ Tail(q) \in Seq(Calls) /\ Len(q) \in Nat \ {0} /\ Len(Tail(q)) = Len(q) - 1
      /\ Head(q) = q[1] /\ \A i \in 1..Len(Tail(q)) : Tail(q)[i] = q[i + 1]
  BY Parts
<1>2. DOMAIN q = 1..Len(q) /\ DOMAIN Tail(q) = 1..Len(Tail(q))
  BY <1>1
<1>3. Once(Tail(q))
  BY <1>1, <1>2 DEF Once
<1>4. ASSUME NEW c \in Calls
      PROVE  In(Tail(q), c) <=> In(q, c) /\ c # Head(q)
  <2>1. ASSUME In(Tail(q), c) PROVE In(q, c) /\ c # Head(q)
    BY <2>1, <1>1, <1>2 DEF In, Once
  <2>2. ASSUME In(q, c), c # Head(q) PROVE In(Tail(q), c)
    <3>1. PICK i \in DOMAIN q : q[i] = c
      BY <2>2 DEF In
    <3>2. i - 1 \in DOMAIN Tail(q) /\ Tail(q)[i - 1] = c
      BY <1>1, <1>2, <2>2, <3>1
    <3> QED BY <3>2 DEF In
  <2> QED BY <2>1, <2>2
<1> QED BY <1>1, <1>3, <1>4

(* Those that come stand behind those there are. *)
LEMMA Came ==
  ASSUME NEW p \in Seq(Calls), NEW q \in Seq(Calls), Once(p), Once(q),
         \A c \in Calls : ~(In(p, c) /\ In(q, c))
  PROVE  /\ p \o q \in Seq(Calls) /\ Once(p \o q)
         /\ \A c \in Calls : In(p \o q, c) <=> In(p, c) \/ In(q, c)
         /\ p # <<>> => p \o q # <<>> /\ Head(p \o q) = Head(p)
<1>1. /\ p \o q \in Seq(Calls) /\ Len(p) \in Nat /\ Len(q) \in Nat
      /\ Len(p \o q) = Len(p) + Len(q)
      /\ DOMAIN p = 1..Len(p) /\ DOMAIN q = 1..Len(q) /\ DOMAIN (p \o q) = 1..(Len(p) + Len(q))
  OBVIOUS
<1>2. /\ \A i \in DOMAIN p : i \in DOMAIN (p \o q) /\ (p \o q)[i] = p[i] /\ p[i] \in Calls
      /\ \A i \in DOMAIN q : /\ i + Len(p) \in DOMAIN (p \o q) /\ (p \o q)[i + Len(p)] = q[i]
                            /\ q[i] \in Calls
  BY <1>1
<1>3. \A i \in DOMAIN (p \o q) :
        \/ i \in DOMAIN p /\ (p \o q)[i] = p[i]
        \/ i - Len(p) \in DOMAIN q /\ (p \o q)[i] = q[i - Len(p)] /\ i > Len(p)
  BY <1>1
<1>4. \A c \in Calls : In(p \o q, c) <=> In(p, c) \/ In(q, c)
  BY <1>2, <1>3 DEF In
<1>5. Once(p \o q)
  <2> SUFFICES ASSUME NEW i \in DOMAIN (p \o q), NEW j \in DOMAIN (p \o q),
                      (p \o q)[i] = (p \o q)[j]
               PROVE  i = j
    BY DEF Once
  <2>1. CASE i \in DOMAIN p /\ j \in DOMAIN p
    BY <1>2, <2>1 DEF Once
  <2>2. CASE i - Len(p) \in DOMAIN q /\ j - Len(p) \in DOMAIN q /\ i > Len(p) /\ j > Len(p)
    BY <1>2, <1>1, <2>2 DEF Once
  <2>3. CASE i \in DOMAIN p /\ j - Len(p) \in DOMAIN q /\ j > Len(p)
    <3>1. (p \o q)[i] = p[i] /\ (p \o q)[j] = q[j - Len(p)] /\ p[i] \in Calls
      BY <1>2, <1>3, <1>1, <2>3
    <3> QED BY <2>3, <3>1 DEF In
  <2>4. CASE j \in DOMAIN p /\ i - Len(p) \in DOMAIN q /\ i > Len(p)
    <3>1. (p \o q)[j] = p[j] /\ (p \o q)[i] = q[i - Len(p)] /\ p[j] \in Calls
      BY <1>2, <1>3, <1>1, <2>4
    <3> QED BY <2>4, <3>1 DEF In
  <2> QED BY <1>3, <2>1, <2>2, <2>3, <2>4
<1>6. p # <<>> => p \o q # <<>> /\ Head(p \o q) = Head(p)
  BY <1>1, <1>2
<1> QED BY <1>1, <1>4, <1>5, <1>6

LEMMA CameOne ==
  ASSUME NEW q \in Seq(Calls), NEW c \in Calls, Once(q), ~In(q, c)
  PROVE  /\ Append(q, c) \in Seq(Calls) /\ Once(Append(q, c))
         /\ \A d \in Calls : In(Append(q, c), d) <=> In(q, d) \/ d = c
         /\ q # <<>> => Append(q, c) # <<>> /\ Head(Append(q, c)) = Head(q)
<1>1. Append(q, c) = q \o <<c>> /\ <<c>> \in Seq(Calls)
  OBVIOUS
<1>2. Once(<<c>>) /\ \A d \in Calls : In(<<c>>, d) <=> d = c
  BY DEF Once, In
<1>3. \A d \in Calls : ~(In(q, d) /\ In(<<c>>, d))
  BY <1>2
<1>4. /\ q \o <<c>> \in Seq(Calls) /\ Once(q \o <<c>>)
      /\ \A d \in Calls : In(q \o <<c>>, d) <=> In(q, d) \/ In(<<c>>, d)
      /\ q # <<>> => q \o <<c>> # <<>> /\ Head(q \o <<c>>) = Head(q)
  BY <1>1, <1>2, <1>3, Came
<1> QED BY <1>1, <1>2, <1>4

LEMMA LeastAndMost ==
  ASSUME NEW m \in Int, NEW n \in Int
  PROVE  /\ Max({m, n}) = IF m < n THEN n ELSE m
         /\ Min({m, n}) = IF m < n THEN m ELSE n
BY DEF Max, Min

-------------------------------------------------------------------------------
(* The kinds of steps. *)

CallRecs == [pc : {"none", "spacing", "locking", "handling", "logging", "settling", "done"},
             tool : {"thesis", "order", "exit", "later"}, ctx : -1..MaxRuns]
Tools    == {"thesis", "order", "exit", "later"}

AnswerOf(x) == IF x.ctx > 0 THEN [x EXCEPT !.pc = "done"] ELSE NoCall

(* Only call c changes, and becomes x. *)
Becomes(c, x) == toolCall' = [toolCall EXCEPT ![c] = x]

(* The owner, the clock and the run: no call moves. *)
Rests == UNCHANGED <<toolCall, lock>> /\ spacer'.queue = spacer.queue

(* A call moves on under the lock; or gives it back, and its place with it. *)
Advances(c, pc) ==
  /\ \/ toolCall[c].pc = "locking" /\ pc = "handling"
     \/ toolCall[c].pc = "handling" /\ pc = "logging"
     \/ toolCall[c].pc \in {"locking", "logging"} /\ pc = "settling"
  /\ pc = "handling" => toolCall[c].tool # "later"
  /\ lock # <<>> /\ Head(lock) = c
  /\ Becomes(c, [toolCall[c] EXCEPT !.pc = pc])
  /\ UNCHANGED <<lock, spacer>>

Leaves(c) ==
  /\ toolCall[c].pc \in Held /\ lock # <<>> /\ Head(lock) = c
  /\ Becomes(c, AnswerOf(toolCall[c])) /\ lock' = Tail(lock)
  /\ spacer' = IF RunWrite(toolCall[c]) THEN MarksEnd(toolCall[c].pc) ELSE spacer

LEMMA Typed ==
  ASSUME RunAssumption, Shape
  PROVE  /\ MaxRuns \in Nat /\ MaxChanges \in Nat /\ Spacing \in Nat \ {0} /\ MaxTurns \in Nat \ {0}
         /\ agentNow \in [active : BOOLEAN, orders : BOOLEAN, version : 0..MaxChanges]
         /\ run \in [pc : {"idle", "opening", "asking", "tools", "ending"}, no : 0..MaxRuns,
                     turn : 0..MaxTurns]
         /\ aborted \subseteq 1..MaxRuns /\ theses \subseteq 0..MaxRuns
         /\ toolCall \in [Calls -> CallRecs]
         /\ spacer \in [queue : Seq(Calls), wait : 0..Spacing]
         /\ lock \in Seq(Calls) /\ since \in 0..Spacing
         /\ runLog \in Seq(LogEvents) /\ signed \in Seq(Writes)
BY DEF RunAssumption, Shape, RunTypeOK, CallRecs

LEMMA AdvanceMakes ==
  ASSUME RunAssumption, Shape, NEW c \in Calls, NEW from \in Held, NEW pc \in Working,
         HasTurn(c, from), Goes(c, pc), UNCHANGED <<lock, spacer>>,
         \/ from = "locking" /\ pc = "handling" /\ toolCall[c].tool # "later"
         \/ from = "handling" /\ pc = "logging"
         \/ from \in {"locking", "logging"} /\ pc = "settling"
  PROVE  Advances(c, pc)
BY Typed DEF HasTurn, Goes, Advances, Becomes

LEMMA LeaveMakes ==
  ASSUME RunAssumption, Shape, NEW c \in Calls, NEW from \in Held, HasTurn(c, from), Ends(c)
  PROVE  Leaves(c)
BY Typed DEF Ends, Answered, Becomes, AnswerOf, HasTurn, Leaves, RunWrite

(* Each step of the calls is one of five kinds. *)
LEMMA CallKinds ==
  ASSUME RunAssumption, Shape, NEW c \in Calls, Handles(c)
  PROVE  \/ Spaced(c) \/ NotSent(c) \/ Leaves(c)
         \/ \E pc \in Working : Advances(c, pc)
<1>1. CASE Spaced(c) \/ NotSent(c)
  BY <1>1
<1>2. CASE Checked(c)
  BY <1>2, AdvanceMakes DEF Checked, Held, Working
<1>3. CASE RefusedHere(c)
  BY <1>3, LeaveMakes DEF RefusedHere, Held
<1>4. CASE Thinks(c)
  BY <1>4, LeaveMakes DEF Thinks, Held
<1>5. CASE RefusedThere(c)
  BY <1>5, LeaveMakes DEF RefusedThere, Held
<1>6. CASE Signs(c)
  BY <1>6, AdvanceMakes DEF Signs, Held, Working
<1>7. CASE LogsFill(c)
  BY <1>7, AdvanceMakes, LeaveMakes DEF LogsFill, Held, Working
<1>8. CASE LogsOrder(c)
  BY <1>8, LeaveMakes DEF LogsOrder, Held
<1>9. CASE Settles(c)
  BY <1>9, LeaveMakes DEF Settles, Held
<1> QED BY <1>1, <1>2, <1>3, <1>4, <1>5, <1>6, <1>7, <1>8, <1>9 DEF Handles

-------------------------------------------------------------------------------
(* Types. *)

LEMMA Answers ==
  ASSUME RunAssumption, NEW x \in CallRecs
  PROVE  AnswerOf(x) \in CallRecs /\ AnswerOf(x).pc \in {"none", "done"}
BY DEF RunAssumption, NoCall, CallRecs, Session, AnswerOf

LEMMA Became ==
  ASSUME RunAssumption, Shape, NEW c \in Calls, NEW x \in CallRecs, Becomes(c, x)
  PROVE  /\ toolCall' \in [Calls -> CallRecs] /\ toolCall'[c] = x
         /\ \A d \in Calls : d # c => toolCall'[d] = toolCall[d]
BY Typed DEF Becomes

LEMMA TurnTyped ==
  ASSUME RunAssumption, Shape, NEW ws \in Seq(Calls), NEW ts \in Seq(Calls),
         NEW tools \in [Range(ws) -> RunTools \ {"thesis"}], Turn(ws, ts, tools)
  PROVE  /\ toolCall' \in [Calls -> CallRecs]
         /\ spacer' \in [queue : Seq(Calls), wait : 0..Spacing] /\ lock' \in Seq(Calls)
<1>1. toolCall \in [Calls -> CallRecs] /\ run.no \in 0..MaxRuns /\ MaxRuns \in Nat
      /\ spacer \in [queue : Seq(Calls), wait : 0..Spacing] /\ lock \in Seq(Calls)
  BY Typed
<1>2. ASSUME NEW c \in Calls
      PROVE  (CASE c \in Range(ws) -> [pc |-> "spacing", tool |-> tools[c], ctx |-> run.no]
                [] c \in Range(ts) -> [pc |-> "locking", tool |-> "thesis", ctx |-> run.no]
                [] OTHER -> toolCall[c]) \in CallRecs
  BY <1>1 DEF RunAssumption, Tools, CallRecs
<1>3. toolCall' \in [Calls -> CallRecs]
  BY <1>2 DEF Turn
<1>4. spacer' = [spacer EXCEPT !.queue = @ \o ws] /\ lock' = lock \o ts
  BY DEF Turn
<1>5. spacer.queue \o ws \in Seq(Calls) /\ lock \o ts \in Seq(Calls)
  BY <1>1
<1> QED BY <1>1, <1>3, <1>4, <1>5

LEMMA NextCalls ==
  ASSUME RunAssumption, Shape, NEW c \in Calls
  PROVE  /\ \A pc \in Working : Advances(c, pc) =>
              /\ toolCall' \in [Calls -> CallRecs]
              /\ toolCall'[c] = [toolCall[c] EXCEPT !.pc = pc]
              /\ \A d \in Calls : d # c => toolCall'[d] = toolCall[d]
         /\ Leaves(c) \/ NotSent(c) =>
              /\ toolCall' \in [Calls -> CallRecs]
              /\ toolCall'[c] = AnswerOf(toolCall[c])
              /\ \A d \in Calls : d # c => toolCall'[d] = toolCall[d]
         /\ Spaced(c) =>
              /\ toolCall' \in [Calls -> CallRecs]
              /\ toolCall'[c] = [toolCall[c] EXCEPT !.pc = "locking"]
              /\ \A d \in Calls : d # c => toolCall'[d] = toolCall[d]
<1>1. toolCall \in [Calls -> CallRecs] /\ toolCall[c] \in CallRecs
  BY Typed
<1>2. \A pc \in Working \cup {"locking"} : [toolCall[c] EXCEPT !.pc = pc] \in CallRecs
  BY <1>1 DEF CallRecs, Working
<1>3. AnswerOf(toolCall[c]) \in CallRecs
  BY <1>1, Answers
<1>4. NotSent(c) => Becomes(c, AnswerOf(toolCall[c]))
  BY <1>1 DEF NotSent, Answered, Becomes, AnswerOf
<1>5. Spaced(c) => Becomes(c, [toolCall[c] EXCEPT !.pc = "locking"])
  BY <1>1 DEF Spaced, Goes, Becomes
<1> QED BY <1>2, <1>3, <1>4, <1>5, Became DEF Advances, Leaves

LEMMA QueuesTyped ==
  ASSUME RunAssumption, Shape, QueuesFit, NEW c \in Calls, Handles(c)
  PROVE  /\ toolCall' \in [Calls -> CallRecs] /\ lock' \in Seq(Calls)
         /\ spacer' \in [queue : Seq(Calls), wait : 0..Spacing]
<1>1. /\ spacer \in [queue : Seq(Calls), wait : 0..Spacing] /\ lock \in Seq(Calls)
      /\ Spacing \in Nat
  BY Typed
<1>2. toolCall' \in [Calls -> CallRecs]
  BY CallKinds, NextCalls
<1>3. lock' \in Seq(Calls)
  <2>1. lock # <<>> => Tail(lock) \in Seq(Calls)
    BY <1>1
  <2>2. Append(lock, c) \in Seq(Calls)
    BY <1>1
  <2> QED BY <1>1, <2>1, <2>2, CallKinds DEF Spaced, NotSent, Leaves, Advances
<1>4. spacer' \in [queue : Seq(Calls), wait : 0..Spacing]
  <2>1. CASE spacer' = spacer
    BY <1>1, <2>1
  <2>2. ASSUME spacer.queue # <<>>
        PROVE  /\ [spacer EXCEPT !.queue = Tail(@)] \in [queue : Seq(Calls), wait : 0..Spacing]
               /\ [queue |-> Tail(spacer.queue), wait |-> Spacing]
                    \in [queue : Seq(Calls), wait : 0..Spacing]
    BY <1>1, <2>2
  <2>3. In(spacer.queue, c) => spacer.queue # <<>>
    BY DEF In
  <2>4. NotSent(c) \/ Leaves(c) => spacer' = spacer \/ In(spacer.queue, c)
    BY DEF NotSent, AtSpacer, Leaves, QueuesFit, PlaceFits
  <2>5. NotSent(c) => spacer' = [spacer EXCEPT !.queue = Tail(@)]
    BY DEF NotSent
  <2>6. Leaves(c) => spacer' \in {spacer, [queue |-> Tail(spacer.queue), wait |-> Spacing]}
    BY DEF Leaves, MarksEnd
  <2>7. Spaced(c) \/ (\E pc \in Working : Advances(c, pc)) => spacer' = spacer
    BY DEF Spaced, Advances
  <2> QED BY <2>1, <2>2, <2>3, <2>4, <2>5, <2>6, <2>7, CallKinds
<1> QED BY <1>2, <1>3, <1>4

(* Who changes what. *)
LEMMA Changers ==
  ASSUME RunNext
  PROVE  /\ agentNow' = agentNow \/ Revokes \/ Amends
         /\ \/ UNCHANGED <<run, aborted>>
            \/ RunBegins \/ KeyRefused \/ Opens \/ AnyTurn \/ RevokedStops \/ ModelEnds
            \/ ToolsDone \/ TimesOut \/ RunFinishes
         /\ UNCHANGED theses \/ \E c \in Calls : Thinks(c)
         /\ \/ UNCHANGED <<toolCall, lock>> /\ spacer' = spacer
            \/ TimePasses \/ AnyTurn \/ AnyCall \/ ToolsDone \/ \E c \in Calls : Handles(c)
         /\ UNCHANGED since \/ TimePasses \/ \E c \in Calls : RefusedThere(c) \/ Signs(c)
         /\ UNCHANGED signed \/ \E c \in Calls : Signs(c)
<1>1. CASE Revokes \/ Amends
  BY <1>1 DEF Revokes, Amends, Changes
<1>2. CASE TimePasses
  BY <1>2 DEF TimePasses
<1>3. CASE RunBegins \/ KeyRefused \/ Opens \/ RevokedStops \/ ModelEnds \/ TimesOut \/ RunFinishes
  BY <1>3 DEF RunBegins, KeyRefused, Opens, RevokedStops, ModelEnds, TimesOut, RunFinishes, Outside
<1>4. CASE AnyTurn
  BY <1>4 DEF AnyTurn, Turn, Outside
<1>5. CASE ToolsDone
  BY <1>5 DEF ToolsDone, Outside
<1>6. CASE AnyCall
  BY <1>6 DEF AnyCall, Calling, Outside
<1>7. ASSUME NEW c \in Calls, Handles(c)
      PROVE  /\ UNCHANGED <<agentNow, run, aborted>>
             /\ UNCHANGED theses \/ Thinks(c)
             /\ UNCHANGED since \/ RefusedThere(c) \/ Signs(c)
             /\ UNCHANGED signed \/ Signs(c)
  BY <1>7 DEF Handles, Spaced, NotSent, Checked, RefusedHere, Thinks, RefusedThere, Signs, LogsFill,
              LogsOrder, Settles, Outside
<1> QED BY <1>1, <1>2, <1>3, <1>4, <1>5, <1>6, <1>7 DEF RunNext

LEMMA OwnerTyped ==
  ASSUME RunAssumption, Shape, RunNext
  PROVE  agentNow' \in [active : BOOLEAN, orders : BOOLEAN, version : 0..MaxChanges]
<1>1. /\ agentNow \in [active : BOOLEAN, orders : BOOLEAN, version : 0..MaxChanges]
      /\ MaxChanges \in Nat
  BY Typed
<1>2. CASE Revokes
  BY <1>2, <1>1 DEF Revokes, Changes
<1>3. CASE Amends
  <2>1. agentNow' = [active |-> TRUE, orders |-> ~agentNow.orders, version |-> agentNow.version + 1]
        /\ agentNow.version < MaxChanges
    BY <1>3 DEF Amends, Changes
  <2>2. (~agentNow.orders) \in BOOLEAN
    OBVIOUS
  <2>3. agentNow.version + 1 \in 0..MaxChanges
    BY <1>1, <2>1
  <2> DEFINE o == ~agentNow.orders
  <2>5. o \in BOOLEAN
    BY <2>2
  <2> HIDE DEF o
  <2>6. [active |-> TRUE, orders |-> o, version |-> agentNow.version + 1]
          \in [active : BOOLEAN, orders : BOOLEAN, version : 0..MaxChanges]
    BY <2>3, <2>5
  <2> QED BY <2>1, <2>6 DEF o
<1> QED BY <1>1, <1>2, <1>3, Changers

LEMMA RunTyped ==
  ASSUME RunAssumption, Shape, RunNext
  PROVE  /\ run' \in [pc : {"idle", "opening", "asking", "tools", "ending"}, no : 0..MaxRuns,
                      turn : 0..MaxTurns]
         /\ aborted \subseteq aborted'
         /\ \A n \in aborted' : n \in aborted \/ (n = run.no /\ run.pc \in {"asking", "tools"})
<1>1. /\ run \in [pc : {"idle", "opening", "asking", "tools", "ending"}, no : 0..MaxRuns,
                  turn : 0..MaxTurns]
      /\ MaxRuns \in Nat /\ MaxTurns \in Nat \ {0}
  BY Typed
<1>2. CASE RunBegins
  BY <1>1, <1>2 DEF RunBegins
<1>3. CASE KeyRefused \/ ModelEnds
  BY <1>3, <1>1 DEF KeyRefused, ModelEnds
<1>9. CASE Opens
  <2>1. \/ run' = [run EXCEPT !.pc = "ending"]
        \/ run' = [run EXCEPT !.pc = "asking", !.turn = 1]
    BY <1>9 DEF Opens
  <2>2. aborted' = aborted /\ 1 \in 0..MaxTurns
    BY <1>1, <1>9 DEF Opens
  <2> QED BY <1>1, <2>1, <2>2
<1>4. CASE AnyTurn
  BY <1>1, <1>4 DEF AnyTurn, Turn
<1>5. CASE RevokedStops
  BY <1>1, <1>5 DEF RevokedStops
<1>6. CASE ToolsDone
  <2>1. /\ \/ run' = [run EXCEPT !.pc = "ending"]
           \/ run.turn # MaxTurns /\ run' = [run EXCEPT !.pc = "asking", !.turn = run.turn + 1]
        /\ aborted' = aborted
    BY <1>6 DEF ToolsDone
  <2>2. run.turn # MaxTurns => run.turn + 1 \in 0..MaxTurns
    BY <1>1
  <2> QED BY <1>1, <2>1, <2>2
<1>7. CASE TimesOut
  BY <1>1, <1>7 DEF TimesOut
<1>8. CASE RunFinishes
  BY <1>1, <1>8 DEF RunFinishes, Outside
<1> QED BY <1>1, <1>2, <1>3, <1>4, <1>5, <1>6, <1>7, <1>8, <1>9, Changers

LEMMA FewCalls ==
  ASSUME NEW q \in SeqOf(FreeCalls, 2)
  PROVE  q \in Seq(Calls) /\ \A i \in DOMAIN q : q[i] \in FreeCalls
<1>1. PICK m \in 0..2 : q \in [1..m -> FreeCalls]
  BY DEF SeqOf
<1>2. q \in Seq(FreeCalls) /\ FreeCalls \subseteq Calls
  BY <1>1 DEF FreeCalls
<1> QED BY <1>1, <1>2

LEMMA PlacesTyped ==
  ASSUME RunAssumption, Shape, QueuesFit, RunNext
  PROVE  /\ toolCall' \in [Calls -> CallRecs] /\ lock' \in Seq(Calls)
         /\ spacer' \in [queue : Seq(Calls), wait : 0..Spacing]
<1>1. /\ toolCall \in [Calls -> CallRecs] /\ lock \in Seq(Calls)
      /\ spacer \in [queue : Seq(Calls), wait : 0..Spacing] /\ Spacing \in Nat /\ MaxRuns \in Nat
  BY Typed
<1>2. CASE UNCHANGED <<toolCall, lock>> /\ spacer' = spacer
  BY <1>1, <1>2
<1>3. CASE TimePasses
  <2>1. Max({spacer.wait - 1, 0}) \in 0..Spacing
    BY <1>1, LeastAndMost
  <2> QED BY <1>1, <1>3, <2>1 DEF TimePasses
<1>4. CASE AnyTurn
  BY <1>4, FewCalls, TurnTyped DEF AnyTurn
<1>5. CASE AnyCall
  BY <1>5, <1>1 DEF AnyCall, RunAssumption, CallRecs, Watcher, Session, Calling
<1>6. CASE ToolsDone
  BY <1>1, <1>6 DEF NoCall, CallRecs, Session, ToolsDone
<1>7. CASE \E c \in Calls : Handles(c)
  BY <1>7, QueuesTyped
<1> QED BY <1>2, <1>3, <1>4, <1>5, <1>6, <1>7, Changers

LEMMA LogGrows ==
  ASSUME RunAssumption, Shape, NEW kind \in {"refusal", "thesis", "close", "fill", "order", "verdict", "run"},
         NEW ctx \in -1..MaxRuns, NEW of \in Int, LogsEvent(EventOf(kind, ctx, of))
  PROVE  runLog' \in Seq(LogEvents)
BY Typed DEF EventOf, LogEvents, LogsEvent

LEMMA LogTyped ==
  ASSUME RunAssumption, Shape, CallsFit, RunNext
  PROVE  runLog' \in Seq(LogEvents)
<1>1. /\ toolCall \in [Calls -> CallRecs] /\ runLog \in Seq(LogEvents) /\ MaxRuns \in Nat
      /\ run.no \in -1..MaxRuns /\ \A c \in Calls : toolCall[c].ctx \in -1..MaxRuns
  BY Typed DEF CallRecs
<1>2. CASE RunFinishes
  BY <1>1, <1>2, LogGrows DEF RunFinishes
<1>3. ASSUME NEW c \in Calls, RefusedHere(c) \/ RefusedThere(c) \/ Thinks(c) \/ LogsOrder(c)
      PROVE  runLog' \in Seq(LogEvents)
  BY <1>1, <1>3, LogGrows DEF RefusedHere, RefusedThere, Thinks, LogsOrder
<1>4. ASSUME NEW c \in Calls, LogsFill(c) PROVE runLog' \in Seq(LogEvents)
  BY <1>4, <1>1, LogGrows DEF LogsFill, MayLog
<1>5. ASSUME NEW c \in Calls, Settles(c) PROVE runLog' \in Seq(LogEvents)
  BY <1>1, LogGrows, <1>5 DEF ToJudge, Traded, Indices, Settles
<1>6. \/ UNCHANGED runLog \/ RunFinishes
      \/ \E c \in Calls : \/ RefusedHere(c) \/ RefusedThere(c) \/ Thinks(c) \/ LogsOrder(c)
                         \/ LogsFill(c) \/ Settles(c)
  <2>1. CASE Revokes \/ Amends \/ TimePasses \/ RunBegins \/ KeyRefused \/ Opens \/ RevokedStops
             \/ ModelEnds \/ TimesOut \/ ToolsDone
    BY <2>1 DEF Revokes, Amends, Changes, TimePasses, RunBegins, KeyRefused, Opens, RevokedStops,
                ModelEnds, TimesOut, ToolsDone
  <2>2. CASE AnyTurn \/ AnyCall
    BY <2>2 DEF AnyTurn, Turn, AnyCall, Calling
  <2>3. ASSUME NEW c \in Calls, Spaced(c) \/ NotSent(c) \/ Checked(c) \/ Signs(c)
        PROVE  UNCHANGED runLog
    BY <2>3 DEF Spaced, NotSent, Checked, Signs
  <2> QED BY <2>1, <2>2, <2>3 DEF RunNext, Handles
<1> QED BY <1>1, <1>2, <1>3, <1>4, <1>5, <1>6

(* What a call signs. *)
Signed(c) == [ctx |-> toolCall[c].ctx, late |-> Aborted(toolCall[c].ctx), gap |-> since,
              within |-> Within(c), version |-> agentNow.version]

LEMMA SignedTyped ==
  ASSUME RunAssumption, Shape, CallsFit, NEW c \in Calls, Signs(c)
  PROVE  /\ Signed(c) \in Writes /\ signed' = Append(signed, Signed(c))
         /\ signed' \in Seq(Writes) /\ Len(signed) \in Nat
         /\ DOMAIN signed = 1..Len(signed) /\ DOMAIN signed' = 1..(Len(signed) + 1)
         /\ \A i \in DOMAIN signed : signed'[i] = signed[i] /\ signed[i] \in Writes
         /\ signed'[Len(signed) + 1] = Signed(c)
<1>1. /\ toolCall \in [Calls -> CallRecs] /\ since \in 0..Spacing /\ signed \in Seq(Writes)
      /\ agentNow.version \in 0..MaxChanges /\ MaxRuns \in Nat
  BY Typed
<1>2. toolCall[c].pc = "handling" /\ toolCall[c].ctx \in 0..MaxRuns
  BY <1>1 DEF Signs, HasTurn, CallsFit, CallFits, CallRecs, Watcher
<1>3. Aborted(toolCall[c].ctx) \in BOOLEAN /\ Within(c) \in BOOLEAN
  BY DEF Aborted, Within
<1>4. Signed(c) \in Writes
  BY <1>1, <1>2, <1>3 DEF Signed, Writes
<1>5. signed' = Append(signed, Signed(c))
  BY DEF Signs, Signed
<1> QED BY <1>1, <1>4, <1>5

LEMMA SinceTyped ==
  ASSUME RunAssumption, Shape, RunNext
  PROVE  since' \in 0..Spacing
<1>1. since \in 0..Spacing /\ Spacing \in Nat
  BY Typed
<1>2. Min({since + 1, Spacing}) \in 0..Spacing
  <2>1. Min({since + 1, Spacing}) = IF since + 1 < Spacing THEN since + 1 ELSE Spacing
    BY <1>1, LeastAndMost
  <2> QED BY <1>1, <2>1
<1>3. CASE TimePasses
  BY <1>2, <1>3 DEF TimePasses
<1>4. ASSUME NEW c \in Calls, RefusedThere(c) \/ Signs(c) PROVE since' \in {0, since}
  BY <1>4 DEF RefusedThere, Signs, Reaches
<1> QED BY <1>1, <1>3, <1>4, Changers

LEMMA ShapeHolds ==
  ASSUME RunAssumption, Shape, RunFits, CallsFit, QueuesFit, RunNext
  PROVE  Shape'
<1>1. /\ toolCall \in [Calls -> CallRecs] /\ aborted \subseteq 1..MaxRuns /\ theses \subseteq 0..MaxRuns
      /\ run.no \in 0..MaxRuns /\ MaxRuns \in Nat /\ signed \in Seq(Writes)
  BY Typed
<1>2. theses' \subseteq 0..MaxRuns
  <2>1. ASSUME NEW c \in Calls, Thinks(c) PROVE toolCall[c].ctx \in 0..MaxRuns
    BY <1>1, <2>1 DEF Thinks, HasTurn, CallsFit, CallFits, CallRecs, Watcher
  <2>2. ASSUME NEW c \in Calls, Thinks(c) PROVE theses' = theses \cup {toolCall[c].ctx}
    BY <2>2 DEF Thinks
  <2>3. theses' = theses \/ \E c \in Calls : Thinks(c)
    BY Changers
  <2> QED BY <1>1, <2>1, <2>2, <2>3
<1>3. aborted' \subseteq 1..MaxRuns
  <2>1. \A n \in aborted' : n \in aborted \/ (n = run.no /\ run.pc \in {"asking", "tools"})
    BY RunTyped
  <2>2. run.pc \in {"asking", "tools"} => run.no \in 1..MaxRuns
    BY <1>1 DEF RunFits
  <2> QED BY <1>1, <2>1, <2>2
<1>4. signed' \in Seq(Writes)
  BY <1>1, SignedTyped, Changers
<1>5. /\ \A i \in DOMAIN signed' : signed'[i].ctx \in 0..MaxRuns
      /\ \A i \in DOMAIN runLog' : runLog'[i].ctx \in -1..MaxRuns
  <2>1. runLog' \in Seq(LogEvents)
    BY LogTyped
  <2>2. \A i \in DOMAIN signed' : signed'[i] \in Writes
    BY <1>4
  <2>3. \A i \in DOMAIN runLog' : runLog'[i] \in LogEvents
    BY <2>1
  <2> QED BY <2>2, <2>3 DEF Writes, LogEvents
<1>6. lock' \in Seq(Calls) /\ spacer' \in [queue : Seq(Calls), wait : 0..Spacing]
      /\ toolCall' \in [Calls -> CallRecs]
  BY PlacesTyped
<1> QED BY <1>2, <1>3, <1>4, <1>5, <1>6, OwnerTyped, RunTyped, LogTyped, SinceTyped
        DEF Shape, RunTypeOK, CallRecs

LEMMA RunFitsHolds ==
  ASSUME RunAssumption, Shape, RunFits, RunNext
  PROVE  RunFits'
<1>1. /\ run \in [pc : {"idle", "opening", "asking", "tools", "ending"}, no : 0..MaxRuns,
                  turn : 0..MaxTurns]
      /\ run.no \in Int /\ aborted \subseteq 1..MaxRuns /\ MaxRuns \in Nat
  BY Typed
<1>2. CASE RunBegins
  BY <1>2, <1>1 DEF RunBegins, RunFits
<1>3. CASE KeyRefused \/ ModelEnds \/ RunFinishes
  BY <1>3, <1>1 DEF KeyRefused, ModelEnds, RunFinishes, RunFits
<1>4. CASE Opens
  BY <1>4, <1>1 DEF Opens, RunFits
<1>5. CASE AnyTurn
  BY <1>5, <1>1 DEF AnyTurn, Turn, RunFits
<1>6. CASE RevokedStops
  BY <1>6, <1>1 DEF RevokedStops, RunFits
<1>7. CASE ToolsDone
  BY <1>7, <1>1 DEF ToolsDone, Aborted, RunFits
<1>8. CASE TimesOut
  BY <1>1, <1>8 DEF TimesOut, RunFits
<1>9. CASE UNCHANGED <<run, aborted>>
  BY <1>9 DEF RunFits
<1> QED BY <1>2, <1>3, <1>4, <1>5, <1>6, <1>7, <1>8, <1>9, Changers

(* What holds of one call as it is. *)
LEMMA AnswerFits ==
  ASSUME RunAssumption, Shape, CallsFit, NEW c \in Calls, toolCall[c].pc # "none"
  PROVE  /\ (AnswerOf(toolCall[c]).pc # "none" /\ AnswerOf(toolCall[c]).ctx > 0
                => run.pc = "tools" /\ AnswerOf(toolCall[c]).ctx = run.no)
         /\ AnswerOf(toolCall[c]).pc \notin {"spacing", "handling"}
         /\ (AnswerOf(toolCall[c]).pc = "done" => AnswerOf(toolCall[c]).ctx > 0)
         /\ (AnswerOf(toolCall[c]).tool = "later" <=> AnswerOf(toolCall[c]).ctx = Watcher)
BY Typed DEF CallsFit, AnswerOf, CallRecs, CallFits, NoCall, Watcher, Session

LEMMA HandledFits ==
  ASSUME RunAssumption, Shape, CallsFit, NEW c \in Calls, Handles(c)
  PROVE  CallsFit'
<1>1. run' = run /\ toolCall[c] \in CallRecs /\ toolCall[c].pc # "none"
  <2>1. run' = run
    BY DEF Handles, Spaced, NotSent, Checked, RefusedHere, Thinks, RefusedThere, Signs, LogsFill,
           LogsOrder, Settles
  <2>2. toolCall[c].pc # "none"
    BY CallKinds DEF Spaced, NotSent, AtSpacer, Leaves, Advances, Held
  <2> QED BY <2>1, <2>2, Typed
<1>2. CallFits(toolCall[c])
  BY DEF CallsFit
<1>3. \A d \in Calls : d # c => CallFits(toolCall[d])'
  <2>1. \A d \in Calls : d # c => toolCall'[d] = toolCall[d]
    BY CallKinds, NextCalls
  <2> QED BY <1>1, <2>1 DEF CallsFit, CallFits
<1>4. CASE Spaced(c)
  <2>1. toolCall'[c] = [toolCall[c] EXCEPT !.pc = "locking"]
    BY <1>4, NextCalls
  <2>2. CallFits(toolCall[c])'
    BY <1>1, <1>2, <2>1 DEF CallFits, CallRecs
  <2> QED BY <1>3, <2>2 DEF CallsFit
<1>5. CASE NotSent(c) \/ Leaves(c)
  <2>1. toolCall'[c] = AnswerOf(toolCall[c])
    BY <1>5, NextCalls
  <2>2. CallFits(toolCall[c])'
    BY <1>1, <2>1, AnswerFits DEF CallFits
  <2> QED BY <1>3, <2>2 DEF CallsFit
<1>6. ASSUME NEW pc \in Working, Advances(c, pc) PROVE CallsFit'
  <2>1. toolCall'[c] = [toolCall[c] EXCEPT !.pc = pc]
    BY <1>6, NextCalls
  <2>2. pc = "handling" => toolCall[c].tool # "later"
    BY <1>6 DEF Advances
  <2>3. CallFits(toolCall[c])'
    BY <1>1, <1>2, <2>1, <2>2 DEF CallFits, CallRecs, Working
  <2> QED BY <1>3, <2>3 DEF CallsFit
<1> QED BY <1>4, <1>5, <1>6, CallKinds

LEMMA RestFits ==
  ASSUME CallsFit, UNCHANGED toolCall,
         run.pc = "tools" => run' = run \/ \A c \in Calls : toolCall[c].pc # "none" =>
                                                              ~(toolCall[c].ctx > 0)
  PROVE  CallsFit'
BY DEF CallsFit, CallFits

LEMMA CallsFitHolds ==
  ASSUME RunAssumption, Shape, RunFits, CallsFit, RunNext
  PROVE  CallsFit'
<1>1. /\ run \in [pc : {"idle", "opening", "asking", "tools", "ending"}, no : 0..MaxRuns,
                  turn : 0..MaxTurns]
      /\ toolCall \in [Calls -> CallRecs] /\ MaxRuns \in Nat
  BY Typed
<1>2. CASE Revokes \/ Amends \/ TimePasses \/ RunBegins \/ KeyRefused \/ Opens \/ RevokedStops
           \/ ModelEnds \/ TimesOut \/ RunFinishes
  <2>1. UNCHANGED toolCall /\ (run.pc = "tools" => run' = run)
    BY <1>2 DEF Revokes, Amends, Changes, TimePasses, RunBegins, KeyRefused, Opens, RevokedStops,
                ModelEnds, TimesOut, RunFinishes, Outside
  <2> QED BY <2>1, RestFits
<1>3. CASE AnyTurn
  <2> PICK ws \in SeqOf(FreeCalls, 2), ts \in SeqOf(FreeCalls, 2) :
               \E tools \in [Range(ws) -> RunTools \ {"thesis"}] : Turn(ws, ts, tools)
    BY <1>3 DEF AnyTurn
  <2>1. PICK tools \in [Range(ws) -> RunTools \ {"thesis"}] : Turn(ws, ts, tools)
    OBVIOUS
  <2>2. run'.pc = "tools" /\ run'.no = run.no /\ run.no > 0 /\ run.pc = "asking"
    BY <1>1, <2>1 DEF Turn, RunFits
  <2>3. ASSUME NEW c \in Calls PROVE CallFits(toolCall[c])'
    BY <2>1, <1>1, <2>2 DEF Turn, RunAssumption, CallFits, RunWrite, Spaces, Watcher, CallsFit
  <2> QED BY <2>3 DEF CallsFit
<1>4. CASE AnyCall
  BY <1>4, <1>1 DEF AnyCall, Calling, CallFits, Watcher, Session, CallsFit
<1>5. CASE ToolsDone
  BY <1>5 DEF ToolsDone, CallFits, NoCall, Session, Watcher, OfRun, FreeCalls, CallsFit
<1>6. CASE \E c \in Calls : Handles(c)
  BY <1>6, HandledFits
<1> QED BY <1>2, <1>3, <1>4, <1>5, <1>6 DEF RunNext

-------------------------------------------------------------------------------
(* The queues. *)

LEMMA AdvanceQueues ==
  ASSUME RunAssumption, Shape, CallsFit, QueuesFit, NEW c \in Calls, NEW pc \in Working,
         Advances(c, pc)
  PROVE  QueuesFit'
<1>1. /\ lock' = lock /\ spacer' = spacer /\ Head(lock) = c /\ toolCall[c].pc \in Held
      /\ toolCall'[c] = [toolCall[c] EXCEPT !.pc = pc] /\ toolCall[c] \in CallRecs
      /\ \A d \in Calls : d # c => toolCall'[d] = toolCall[d]
  BY Typed, NextCalls DEF Advances, Held
<1>2. toolCall'[c].pc = pc /\ toolCall'[c].ctx = toolCall[c].ctx /\ toolCall'[c].tool = toolCall[c].tool
      /\ pc \in Held /\ pc # "spacing" /\ toolCall[c].pc # "spacing"
  BY <1>1 DEF CallRecs, Working, Held
<1>3. PlaceFits(c)'
  BY <1>2, <1>1 DEF RunWrite, QueuesFit, PlaceFits
<1>4. ASSUME NEW d \in Calls, d # c PROVE PlaceFits(d)'
  BY <1>1, <1>4 DEF QueuesFit, PlaceFits
<1> QED BY <1>1, <1>3, <1>4 DEF QueuesFit

(* A call that waits at the lock did no work yet, and two never work at once. *)
LEMMA OneWorks ==
  ASSUME QueuesFit, NEW c \in Calls, lock # <<>>, Head(lock) = c
  PROVE  \A d \in Calls : d # c => toolCall[d].pc \notin Working
BY DEF QueuesFit, PlaceFits

LEMMA LeaveQueues ==
  ASSUME RunAssumption, Shape, CallsFit, QueuesFit, NEW c \in Calls, Leaves(c)
  PROVE  QueuesFit'
<1>1. /\ toolCall[c].pc \in Held /\ lock # <<>> /\ Head(lock) = c /\ lock' = Tail(lock)
      /\ toolCall'[c] = AnswerOf(toolCall[c]) /\ toolCall[c] \in CallRecs
      /\ \A d \in Calls : d # c => toolCall'[d] = toolCall[d]
      /\ lock \in Seq(Calls) /\ spacer.queue \in Seq(Calls) /\ Once(lock) /\ Once(spacer.queue)
  BY Typed, NextCalls DEF Leaves, QueuesFit
<1>2. toolCall'[c].pc \in {"none", "done"}
  BY <1>1, Answers
<1>3. Once(Tail(lock)) /\ \A d \in Calls : In(Tail(lock), d) <=> In(lock, d) /\ d # c
  BY <1>1, Left
<1>4. CASE RunWrite(toolCall[c])
  <2>1. spacer'.queue = Tail(spacer.queue) /\ Head(spacer.queue) = c /\ spacer.queue # <<>>
    BY <1>1, <1>4 DEF QueuesFit, PlaceFits, Leaves, MarksEnd, In
  <2>2. Once(Tail(spacer.queue))
        /\ \A d \in Calls : In(Tail(spacer.queue), d) <=> In(spacer.queue, d) /\ d # c
    BY <1>1, <2>1, Left
  <2>3. PlaceFits(c)'
    BY <1>1, <1>2, <1>3, <2>1, <2>2 DEF PlaceFits, Held, Working
  <2>4. ASSUME NEW d \in Calls, d # c PROVE PlaceFits(d)'
    BY <1>1, <2>1, <2>4, OneWorks, <1>3, <2>2 DEF QueuesFit, PlaceFits
  <2> QED BY <1>1, <1>3, <2>1, <2>2, <2>3, <2>4 DEF QueuesFit
<1>5. CASE ~RunWrite(toolCall[c])
  BY <1>5, <1>1, <1>2, <1>3, OneWorks DEF Leaves, QueuesFit, PlaceFits, Held, Working
<1> QED BY <1>4, <1>5

LEMMA SpacedQueues ==
  ASSUME RunAssumption, Shape, CallsFit, QueuesFit, NEW c \in Calls, Spaced(c)
  PROVE  QueuesFit'
<1>1. /\ toolCall[c].pc = "spacing" /\ Head(spacer.queue) = c /\ lock' = Append(lock, c)
      /\ spacer' = spacer /\ toolCall[c] \in CallRecs /\ lock \in Seq(Calls) /\ Once(lock)
      /\ toolCall'[c] = [toolCall[c] EXCEPT !.pc = "locking"]
      /\ \A d \in Calls : d # c => toolCall'[d] = toolCall[d]
  BY Typed, NextCalls DEF Spaced, AtSpacer, QueuesFit
<1>2. /\ toolCall'[c].pc = "locking" /\ toolCall'[c].ctx = toolCall[c].ctx
      /\ toolCall'[c].tool = toolCall[c].tool
  BY <1>1 DEF CallRecs
<1>3. ~In(lock, c) /\ In(spacer.queue, c) /\ RunWrite(toolCall[c])
  BY <1>1 DEF QueuesFit, PlaceFits, Held, CallsFit, CallFits
<1>4. /\ Once(Append(lock, c)) /\ \A d \in Calls : In(Append(lock, c), d) <=> In(lock, d) \/ d = c
      /\ lock # <<>> => Head(Append(lock, c)) = Head(lock)
  BY <1>1, <1>3, CameOne
<1>5. PlaceFits(c)'
  BY <1>1, <1>2, <1>3, <1>4 DEF PlaceFits, RunWrite, Held, Working
<1>6. ASSUME NEW d \in Calls, d # c PROVE PlaceFits(d)'
  BY <1>1, <1>4, <1>6 DEF In, QueuesFit, PlaceFits, Working, Held
<1> QED BY <1>1, <1>4, <1>5, <1>6 DEF QueuesFit

LEMMA NotSentQueues ==
  ASSUME RunAssumption, Shape, CallsFit, QueuesFit, NEW c \in Calls, NotSent(c)
  PROVE  QueuesFit'
<1>1. /\ toolCall[c].pc = "spacing" /\ Head(spacer.queue) = c /\ lock' = lock
      /\ spacer'.queue = Tail(spacer.queue) /\ toolCall[c] \in CallRecs
      /\ spacer.queue \in Seq(Calls) /\ Once(spacer.queue) /\ Once(lock)
      /\ toolCall'[c] = AnswerOf(toolCall[c])
      /\ \A d \in Calls : d # c => toolCall'[d] = toolCall[d]
  BY Typed, NextCalls DEF NotSent, AtSpacer, QueuesFit
<1>2. toolCall'[c].pc \in {"none", "done"}
  BY <1>1, Answers
<1>3. ~In(lock, c) /\ In(spacer.queue, c) /\ spacer.queue # <<>>
  BY <1>1 DEF QueuesFit, PlaceFits, Held, In
<1>4. Once(Tail(spacer.queue))
      /\ \A d \in Calls : In(Tail(spacer.queue), d) <=> In(spacer.queue, d) /\ d # c
  BY <1>1, <1>3, Left
<1>5. PlaceFits(c)'
  BY <1>1, <1>2, <1>3, <1>4 DEF PlaceFits, Held, Working
<1>6. ASSUME NEW d \in Calls, d # c PROVE PlaceFits(d)'
  BY <1>1, <1>6, <1>4 DEF QueuesFit, PlaceFits
<1> QED BY <1>1, <1>4, <1>5, <1>6 DEF QueuesFit

LEMMA TurnQueues ==
  ASSUME RunAssumption, Shape, RunFits, CallsFit, QueuesFit, AnyTurn
  PROVE  QueuesFit'
<1> PICK ws \in SeqOf(FreeCalls, 2), ts \in SeqOf(FreeCalls, 2) :
           /\ IsInjective(ws \o ts)
           /\ \E tools \in [Range(ws) -> RunTools \ {"thesis"}] : Turn(ws, ts, tools)
  BY DEF AnyTurn
<1>1. PICK tools \in [Range(ws) -> RunTools \ {"thesis"}] : Turn(ws, ts, tools)
  OBVIOUS
<1>2. /\ toolCall \in [Calls -> CallRecs] /\ lock \in Seq(Calls) /\ spacer.queue \in Seq(Calls)
      /\ run.no > 0 /\ run.no \in Int /\ spacer \in [queue : Seq(Calls), wait : 0..Spacing]
  BY <1>1, Typed DEF Turn, RunFits
<1>3. /\ ws \in Seq(Calls) /\ ts \in Seq(Calls)
      /\ \A i \in DOMAIN ws : ws[i] \in FreeCalls
      /\ \A i \in DOMAIN ts : ts[i] \in FreeCalls
  BY FewCalls
<1>4. /\ \A c \in Calls : In(ws, c) <=> c \in Range(ws)
      /\ \A c \in Calls : In(ts, c) <=> c \in Range(ts)
  BY DEF In, Range
<1>5. Once(ws) /\ Once(ts) /\ \A c \in Calls : ~(In(ws, c) /\ In(ts, c))
  <2>1. /\ Len(ws) \in Nat /\ Len(ts) \in Nat
        /\ DOMAIN ws = 1..Len(ws) /\ DOMAIN ts = 1..Len(ts)
        /\ DOMAIN (ws \o ts) = 1..(Len(ws) + Len(ts))
    BY <1>3
  <2>2. /\ \A i \in DOMAIN ws : i \in DOMAIN (ws \o ts) /\ (ws \o ts)[i] = ws[i]
        /\ \A i \in DOMAIN ts : /\ i + Len(ws) \in DOMAIN (ws \o ts)
                                /\ (ws \o ts)[i + Len(ws)] = ts[i]
    BY <1>3, <2>1
  <2>3. \A i, j \in DOMAIN (ws \o ts) : (ws \o ts)[i] = (ws \o ts)[j] => i = j
    BY DEF IsInjective
  <2>4. Once(ws)
    BY <2>2, <2>3 DEF Once
  <2>5. Once(ts)
    <3> SUFFICES ASSUME NEW i \in DOMAIN ts, NEW j \in DOMAIN ts, ts[i] = ts[j] PROVE i = j
      BY DEF Once
    <3>1. i + Len(ws) = j + Len(ws)
      BY <2>2, <2>3
    <3> QED BY <2>1, <3>1
  <2>6. \A i \in DOMAIN ws, j \in DOMAIN ts : ws[i] # ts[j]
    <3> TAKE i \in DOMAIN ws, j \in DOMAIN ts
    <3>1. i # j + Len(ws)
      BY <2>1
    <3> QED BY <2>2, <2>3, <3>1
  <2> QED BY <2>4, <2>5, <2>6 DEF In
<1>6. \A c \in Calls : In(ws, c) \/ In(ts, c) => toolCall[c].pc = "none"
  BY <1>3 DEF In, FreeCalls
<1>7. \A c \in Calls : In(ws, c) \/ In(ts, c) => ~In(lock, c) /\ ~In(spacer.queue, c)
  BY <1>6 DEF QueuesFit, PlaceFits, Held
<1>8. lock' = lock \o ts /\ spacer'.queue = spacer.queue \o ws
  BY <1>1, <1>2 DEF Turn
<1>9. /\ Once(lock') /\ \A c \in Calls : In(lock', c) <=> In(lock, c) \/ In(ts, c)
      /\ lock # <<>> => Head(lock') = Head(lock)
  BY <1>7, <1>2, <1>3, <1>5, <1>8, Came DEF QueuesFit
<1>10. /\ Once(spacer'.queue)
       /\ \A c \in Calls : In(spacer'.queue, c) <=> In(spacer.queue, c) \/ In(ws, c)
       /\ spacer.queue # <<>> => Head(spacer'.queue) = Head(spacer.queue)
  BY <1>7, <1>2, <1>3, <1>5, <1>8, Came DEF QueuesFit
<1>11. ASSUME NEW c \in Calls PROVE PlaceFits(c)'
  <2>1. toolCall'[c] =
          CASE c \in Range(ws) -> [pc |-> "spacing", tool |-> tools[c], ctx |-> run.no]
            [] c \in Range(ts) -> [pc |-> "locking", tool |-> "thesis", ctx |-> run.no]
            [] OTHER -> toolCall[c]
    BY <1>1 DEF Turn
  <2>2. CASE In(ws, c)
    BY <1>4, <1>5, <2>2, <2>1, <1>7, <1>9, <1>10 DEF PlaceFits, Held, Working
  <2>3. CASE In(ts, c)
    <3>1. c \notin Range(ws) /\ c \in Range(ts) /\ ~In(ws, c)
      BY <1>4, <1>5, <2>3
    <3>2. toolCall'[c] = [pc |-> "locking", tool |-> "thesis", ctx |-> run.no]
      BY <2>1, <3>1
    <3> QED BY <1>7, <1>9, <1>10, <2>3, <3>1, <3>2 DEF PlaceFits, Held, Working, RunWrite, Spaces
  <2>4. CASE ~In(ws, c) /\ ~In(ts, c)
    BY <1>4, <2>1, <2>4, <1>9, <1>10 DEF In, QueuesFit, PlaceFits, Working, Held
  <2> QED BY <2>2, <2>3, <2>4
<1> QED BY <1>9, <1>10, <1>11 DEF QueuesFit

LEMMA QueuesFitHolds ==
  ASSUME RunAssumption, Shape, RunFits, CallsFit, QueuesFit, RunNext
  PROVE  QueuesFit'
<1>1. toolCall \in [Calls -> CallRecs] /\ lock \in Seq(Calls)
      /\ spacer \in [queue : Seq(Calls), wait : 0..Spacing]
  BY Typed
<1>2. CASE UNCHANGED <<toolCall, lock>> /\ spacer' = spacer
  BY <1>2 DEF QueuesFit, PlaceFits
<1>3. CASE TimePasses
  BY <1>1, <1>3 DEF TimePasses, QueuesFit, PlaceFits
<1>4. CASE AnyTurn
  BY <1>4, TurnQueues
<1>5. CASE AnyCall
  <2>1. PICK c \in Calls, tool \in OtherTools : Calling(c, tool)
    BY <1>5 DEF AnyCall
  <2>2. /\ toolCall'[c] = [pc |-> "locking", tool |-> tool,
                           ctx |-> IF tool = "later" THEN Watcher ELSE Session]
        /\ \A d \in Calls : d # c => toolCall'[d] = toolCall[d]
        /\ lock' = Append(lock, c) /\ spacer' = spacer /\ toolCall[c].pc = "none"
    BY <1>1, <2>1 DEF Calling, FreeCalls
  <2>3. ~In(lock, c) /\ ~In(spacer.queue, c) /\ Once(lock)
    BY <2>2 DEF QueuesFit, PlaceFits, Held
  <2>4. /\ Once(lock') /\ \A d \in Calls : In(lock', d) <=> In(lock, d) \/ d = c
        /\ lock # <<>> => Head(lock') = Head(lock)
    BY <1>1, <2>2, <2>3, CameOne
  <2>5. PlaceFits(c)'
    BY <2>2, <2>3, <2>4 DEF PlaceFits, Held, Working, RunWrite, Watcher, Session
  <2>6. ASSUME NEW d \in Calls, d # c PROVE PlaceFits(d)'
    BY <2>2, <2>4, <2>6 DEF In, QueuesFit, PlaceFits, Working, Held
  <2> QED BY <2>2, <2>4, <2>5, <2>6 DEF QueuesFit
<1>6. CASE ToolsDone
  BY <1>6 DEF ToolsDone, QueuesFit, PlaceFits, NoCall, Held, Working
<1>7. CASE \E c \in Calls : Handles(c)
  BY <1>7, CallKinds, SpacedQueues, NotSentQueues, LeaveQueues, AdvanceQueues
<1> QED BY <1>2, <1>3, <1>4, <1>5, <1>6, <1>7, Changers

-------------------------------------------------------------------------------
(* What is signed. *)

(* How a call comes to wait for the lock, or to be handled. *)
LEMMA Origins ==
  ASSUME RunAssumption, Shape, RunNext,
         NEW c \in Calls, toolCall'[c].pc \in {"locking", "handling"}
  PROVE  \/ toolCall'[c] = toolCall[c]
         \/ Spaced(c) /\ toolCall'[c] = [toolCall[c] EXCEPT !.pc = "locking"]
         \/ Checked(c) /\ toolCall'[c] = [toolCall[c] EXCEPT !.pc = "handling"]
         \/ ~RunWrite(toolCall'[c]) /\ toolCall'[c].pc = "locking"
<1>1. toolCall \in [Calls -> CallRecs] /\ toolCall[c] \in CallRecs
  BY Typed
<1>2. CASE AnyTurn
  BY <1>2 DEF AnyTurn, Turn, RunWrite, Spaces
<1>3. CASE AnyCall
  BY <1>3, <1>1 DEF AnyCall, Calling, RunWrite, Watcher, Session
<1>4. CASE ToolsDone
  BY <1>4 DEF ToolsDone, NoCall
<1>5. ASSUME NEW d \in Calls, Handles(d), d # c PROVE toolCall'[c] = toolCall[c]
  BY <1>5, CallKinds, NextCalls
<1>6. CASE Handles(c)
  <2>1. CASE Leaves(c) \/ NotSent(c)
    BY <1>1, <2>1, NextCalls, Answers
  <2>2. CASE Spaced(c)
    BY <2>2, NextCalls
  <2>3. CASE Checked(c)
    BY <1>1, <2>3 DEF Checked, Goes
  <2>4. CASE RefusedHere(c) \/ Thinks(c) \/ RefusedThere(c) \/ LogsOrder(c) \/ Settles(c)
    BY <2>4, LeaveMakes, <2>1 DEF RefusedHere, Thinks, RefusedThere, LogsOrder, Settles, Held
  <2>5. CASE Signs(c)
    BY <1>1, <2>5 DEF Signs, Goes, CallRecs
  <2>6. CASE LogsFill(c)
    BY <2>6, LeaveMakes, <1>1, <2>1 DEF LogsFill, Held, Goes, CallRecs
  <2> QED BY <1>6, <2>1, <2>2, <2>3, <2>4, <2>5, <2>6 DEF Handles
<1>7. CASE UNCHANGED toolCall
  BY <1>7
<1>8. CASE TimePasses
  BY <1>8 DEF TimePasses
<1> QED BY <1>2, <1>3, <1>4, <1>5, <1>6, <1>7, <1>8, Changers

(* One write of a run at most has had its turn and not ended. *)
LEMMA OneTurn ==
  ASSUME QueuesFit, NEW c \in Calls, NEW d \in Calls, RunWrite(toolCall[c]), RunWrite(toolCall[d]),
         toolCall[c].pc \in Held, toolCall[d].pc \in Held \/ Head(spacer.queue) = d
  PROVE  c = d
BY DEF QueuesFit, PlaceFits

(* A call signs: what it is before, and after. *)
LEMMA SignsFacts ==
  ASSUME RunAssumption, Shape, CallsFit, QueuesFit, NEW c \in Calls, Signs(c)
  PROVE  /\ toolCall[c].pc = "handling" /\ toolCall[c].tool # "thesis"
         /\ toolCall'[c] = [toolCall[c] EXCEPT !.pc = "logging"] /\ toolCall'[c].pc = "logging"
         /\ toolCall'[c].ctx = toolCall[c].ctx /\ toolCall'[c].tool = toolCall[c].tool
         /\ \A d \in Calls : d # c => toolCall'[d] = toolCall[d] /\ toolCall[d].pc \notin Working
         /\ UNCHANGED <<agentNow, run, aborted, spacer, lock>>
         /\ (toolCall[c].ctx > 0 => RunWrite(toolCall[c]))
         /\ since' = IF toolCall[c].ctx > 0 THEN 0 ELSE since
BY Typed, OneWorks DEF Signs, HasTurn, Goes, RunWrite, Spaces, Reaches, CallRecs

LEMMA LateFitsHolds ==
  ASSUME RunAssumption, Shape, RunFits, CallsFit, QueuesFit, LateFits, RunNext
  PROVE  LateFits'
<1>1. /\ toolCall \in [Calls -> CallRecs] /\ aborted \subseteq aborted' /\ signed \in Seq(Writes)
      /\ aborted \subseteq 1..MaxRuns /\ MaxRuns \in Nat
  BY Typed, RunTyped
<1>2. ASSUME NEW c \in Calls, RunWrite(toolCall'[c]), toolCall'[c].pc \in {"locking", "handling"}
      PROVE  /\ toolCall'[c].ctx = toolCall[c].ctx /\ RunWrite(toolCall[c])
             /\ \/ toolCall[c].pc \in {"locking", "handling"}
                \/ ~Aborted(toolCall[c].ctx) /\ aborted' = aborted
  BY <1>1, <1>2, Origins DEF Spaced, CallRecs, RunWrite, Checked, HasTurn
<1>3. CASE UNCHANGED signed
  <2>1. ASSUME NEW i \in DOMAIN signed, NEW c \in Calls, signed[i].late,
               toolCall'[c].ctx = signed[i].ctx, RunWrite(toolCall'[c])
        PROVE  toolCall'[c].pc \notin {"locking", "handling"}
    BY <2>1, <1>2 DEF LateFits, Aborted
  <2>2. \A i \in DOMAIN signed : signed[i].late => signed[i].ctx \in aborted'
    BY <1>1 DEF LateFits
  <2>3. \A i, j \in DOMAIN signed :
          signed[i].late /\ signed[j].late /\ signed[i].ctx = signed[j].ctx => i = j
    BY DEF LateFits
  <2> QED BY <1>3, <2>1, <2>2, <2>3 DEF LateFits, RunWrite
<1>4. ASSUME NEW c \in Calls, Signs(c) PROVE LateFits'
  <2> DEFINE n == Len(signed) + 1
  <2>1. /\ DOMAIN signed' = 1..n /\ DOMAIN signed = 1..(n - 1) /\ n \in Nat \ {0}
        /\ \A i \in DOMAIN signed : signed'[i] = signed[i]
        /\ signed'[n].ctx = toolCall[c].ctx /\ signed'[n].late = (toolCall[c].ctx \in aborted)
    <3>1. /\ signed'[n] = Signed(c) /\ Len(signed) \in Nat
          /\ DOMAIN signed = 1..Len(signed) /\ DOMAIN signed' = 1..(Len(signed) + 1)
          /\ \A i \in DOMAIN signed : signed'[i] = signed[i]
      BY <1>4, SignedTyped
    <3>2. Signed(c).ctx = toolCall[c].ctx /\ Signed(c).late = (toolCall[c].ctx \in aborted)
      BY DEF Signed, Aborted
    <3> QED BY <3>1, <3>2
  <2> HIDE DEF n
  <2>2. \A i \in DOMAIN signed' : i \in DOMAIN signed \/ i = n
    BY <2>1
  <2>3. toolCall[c].ctx \in aborted => RunWrite(toolCall[c])
    <3>1. toolCall[c].ctx \in aborted => toolCall[c].ctx > 0
      <4>1. \A m \in aborted : m \in 1..MaxRuns
        BY <1>1
      <4>2. \A m \in aborted : m > 0
        BY <4>1
      <4> QED BY <4>2
    <3>2. toolCall[c].ctx > 0 => RunWrite(toolCall[c])
      BY <1>4, SignsFacts
    <3> QED BY <3>1, <3>2
  <2>4. ASSUME NEW i \in DOMAIN signed, signed[i].late, signed'[n].late
        PROVE  signed[i].ctx # signed'[n].ctx
    <3>1. toolCall[c].ctx \in aborted /\ RunWrite(toolCall[c]) /\ toolCall[c].pc = "handling"
      BY <1>4, <2>1, <2>3, <2>4, SignsFacts
    <3>2. toolCall[c].ctx # signed[i].ctx
      BY <2>4, <3>1 DEF LateFits
    <3> QED BY <2>1, <3>2
  <2>5. \A i, j \in DOMAIN signed' :
          signed'[i].late /\ signed'[j].late /\ signed'[i].ctx = signed'[j].ctx => i = j
    BY <2>1, <2>2, <2>4 DEF LateFits
  <2>6. \A i \in DOMAIN signed' : signed'[i].late => signed'[i].ctx \in aborted'
    BY <1>1, <2>1, <2>2 DEF LateFits
  <2>7. ASSUME NEW i \in DOMAIN signed', NEW d \in Calls, signed'[i].late,
               toolCall'[d].ctx = signed'[i].ctx, RunWrite(toolCall'[d])
        PROVE  toolCall'[d].pc \notin {"locking", "handling"}
    <3>1. CASE i \in DOMAIN signed
      BY <2>1, <2>7, <3>1, <1>2 DEF LateFits, Aborted
    <3>2. CASE i = n
      <4>1. RunWrite(toolCall[c]) /\ toolCall[c].pc \in Held
        BY <1>4, <2>1, <2>3, <2>7, <3>2, SignsFacts DEF Held
      <4>2. d # c => toolCall[d].pc \notin Held
        BY <1>4, <2>7, <4>1, OneTurn, SignsFacts
      <4> QED BY <1>4, <4>2, SignsFacts DEF Held
    <3> QED BY <2>2, <3>1, <3>2
  <2> QED BY <2>5, <2>6, <2>7 DEF LateFits, RunWrite
<1> QED BY <1>3, <1>4, Changers

LEMMA ForbiddenFitsHolds ==
  ASSUME RunAssumption, Shape, CallsFit, QueuesFit, ForbiddenFits, RunNext
  PROVE  ForbiddenFits'
<1>1. /\ toolCall \in [Calls -> CallRecs] /\ signed \in Seq(Writes)
      /\ agentNow.version \in 0..MaxChanges /\ MaxChanges \in Nat
      /\ \A i \in DOMAIN signed : signed[i] \in Writes
  BY Typed
<1>2. CASE Revokes \/ Amends
  BY <1>2, <1>1 DEF Revokes, Amends, Changes, ForbiddenFits, Writes
<1> SUFFICES ASSUME agentNow' = agentNow PROVE ForbiddenFits'
  BY <1>2, Changers
<1>3. ASSUME NEW c \in Calls, toolCall'[c].pc = "handling"
      PROVE  /\ Within(c)' <=> Within(c)
             /\ toolCall[c].pc = "handling" \/ Within(c)
  BY <1>1, <1>3, Origins DEF Within, CallRecs, Checked, Allowed
<1>4. CASE UNCHANGED signed
  BY <1>3, <1>4 DEF ForbiddenFits
<1>5. ASSUME NEW c \in Calls, Signs(c) PROVE ForbiddenFits'
  <2> DEFINE n == Len(signed) + 1
  <2>1. /\ DOMAIN signed' = 1..n /\ DOMAIN signed = 1..(n - 1) /\ n \in Nat \ {0}
        /\ \A i \in DOMAIN signed : signed'[i] = signed[i]
        /\ signed'[n].version = agentNow.version /\ signed'[n].within = Within(c)
    <3>1. /\ signed'[n] = Signed(c) /\ Len(signed) \in Nat
          /\ DOMAIN signed = 1..Len(signed) /\ DOMAIN signed' = 1..(Len(signed) + 1)
          /\ \A i \in DOMAIN signed : signed'[i] = signed[i]
      BY <1>5, SignedTyped
    <3>2. Signed(c).version = agentNow.version /\ Signed(c).within = Within(c)
      BY DEF Signed
    <3> QED BY <3>1, <3>2
  <2> HIDE DEF n
  <2>2. \A i \in DOMAIN signed' : i \in DOMAIN signed \/ i = n
    BY <2>1
  <2>3. \A i \in DOMAIN signed' : signed'[i].version <= agentNow'.version
    BY <1>1, <2>1, <2>2 DEF ForbiddenFits
  <2>4. toolCall[c].pc = "handling" /\ toolCall'[c].pc = "logging"
        /\ \A d \in Calls : d # c => toolCall'[d] = toolCall[d] /\ toolCall[d].pc \notin Working
    BY <1>5, SignsFacts
  <2>5. ASSUME NEW i \in DOMAIN signed, ~signed[i].within, signed[i].version = agentNow.version
        PROVE  Within(c)
    BY <2>4, <2>5 DEF ForbiddenFits
  <2>6. \A i, j \in DOMAIN signed' :
          ~signed'[i].within /\ ~signed'[j].within /\ signed'[i].version = signed'[j].version => i = j
    BY <2>1, <2>2, <2>5 DEF ForbiddenFits
  <2>7. \A d \in Calls : toolCall'[d].pc # "handling"
    BY <2>4 DEF Working
  <2> QED BY <2>3, <2>6, <2>7 DEF ForbiddenFits
<1> QED BY <1>4, <1>5, Changers

(* The spacing starts when a run's write ends. *)
LEMMA EndSpaces ==
  ASSUME NEW c \in Calls, Leaves(c), RunWrite(toolCall[c])
  PROVE  spacer'.wait = Spacing
BY DEF Leaves, MarksEnd

(* A write of a run under way goes on, or ends. *)
LEMMA GoesOn ==
  ASSUME RunAssumption, Shape, CallsFit, RunNext,
         NEW c \in Calls, RunWrite(toolCall[c]), toolCall[c].pc \in {"logging", "settling"}
  PROVE  Leaves(c) \/ (RunWrite(toolCall'[c]) /\ toolCall'[c].pc \in {"logging", "settling"})
<1>1. toolCall \in [Calls -> CallRecs] /\ toolCall[c] \in CallRecs
  BY Typed
<1>2. CASE UNCHANGED toolCall
  BY <1>2
<1>3. CASE TimePasses
  BY <1>3 DEF TimePasses
<1>4. CASE AnyTurn
  BY <1>4, FewCalls DEF AnyTurn, Range, FreeCalls, Turn
<1>5. CASE AnyCall
  BY <1>1, <1>5 DEF AnyCall, Calling, FreeCalls
<1>6. CASE ToolsDone
  BY <1>6 DEF ToolsDone
<1>7. ASSUME NEW d \in Calls, Handles(d), d # c PROVE toolCall'[c] = toolCall[c]
  BY <1>7, CallKinds, NextCalls
<1>8. CASE Handles(c)
  <2>1. ASSUME NEW pc \in Working, Advances(c, pc)
        PROVE  RunWrite(toolCall'[c]) /\ toolCall'[c].pc \in {"logging", "settling"}
    <3>1. toolCall'[c] = [toolCall[c] EXCEPT !.pc = pc] /\ pc \in {"logging", "settling"}
      BY <2>1, NextCalls DEF Advances
    <3> QED BY <1>1, <3>1 DEF CallRecs, RunWrite
  <2> QED BY <1>8, <2>1, CallKinds DEF Spaced, NotSent, AtSpacer
<1> QED BY <1>2, <1>3, <1>4, <1>5, <1>6, <1>7, <1>8, Changers

LEMMA GapsFitHolds ==
  ASSUME RunAssumption, Shape, CallsFit, QueuesFit, GapsFit, RunNext
  PROVE  GapsFit'
<1>1. /\ toolCall \in [Calls -> CallRecs] /\ signed \in Seq(Writes) /\ since \in 0..Spacing
      /\ Spacing \in Nat \ {0} /\ spacer \in [queue : Seq(Calls), wait : 0..Spacing]
      /\ spacer.wait \in 0..Spacing /\ since' \in 0..Spacing
  BY Typed, SinceTyped
<1>least. Min({since + 1, Spacing}) = IF since + 1 < Spacing THEN since + 1 ELSE Spacing
  <2>1. since + 1 \in Int /\ Spacing \in Int
    BY <1>1
  <2> QED BY <2>1, LeastAndMost
(* What reaches the enclave is written by a run, or leaves the clock alone. *)
<1>2. ASSUME NEW c \in Calls, RefusedThere(c) \/ Signs(c)
      PROVE  /\ toolCall[c].pc = "handling" /\ (toolCall[c].ctx > 0 => RunWrite(toolCall[c]))
             /\ since' = IF toolCall[c].ctx > 0 THEN 0 ELSE since
             /\ RefusedThere(c) => Leaves(c)
  BY <1>2, LeaveMakes DEF RefusedThere, Signs, HasTurn, Reaches, RunWrite, Spaces, Held
<1>3. RunWritesAreSpaced'
  <2>1. CASE UNCHANGED signed
    BY <2>1 DEF GapsFit, RunWritesAreSpaced
  <2>2. ASSUME NEW c \in Calls, Signs(c) PROVE RunWritesAreSpaced'
    <3>1. /\ signed'[Len(signed) + 1] = Signed(c) /\ Len(signed) \in Nat
          /\ DOMAIN signed = 1..Len(signed) /\ DOMAIN signed' = 1..(Len(signed) + 1)
          /\ \A i \in DOMAIN signed : signed'[i] = signed[i]
      BY <2>2, SignedTyped
    <3>2. Signed(c).ctx = toolCall[c].ctx /\ Signed(c).gap = since
      BY DEF Signed
    <3>3. Signed(c).ctx > 0 => Signed(c).gap >= Spacing
      BY <1>1, <1>2, <2>2, <3>2 DEF GapsFit
    <3>4. \A i \in DOMAIN signed' : i \in DOMAIN signed \/ i = Len(signed) + 1
      BY <3>1
    <3> QED BY <3>1, <3>3, <3>4 DEF GapsFit, RunWritesAreSpaced
  <2> QED BY <2>1, <2>2, Changers
<1>4. ASSUME NEW c \in Calls, RunWrite(toolCall'[c]), toolCall'[c].pc \in {"locking", "handling"}
      PROVE  since' = Spacing
  <2>1. RunWrite(toolCall[c]) /\ (toolCall[c].pc \in Held \/ Head(spacer.queue) = c) /\ since = Spacing
    <3>1. CASE toolCall'[c] = toolCall[c]
      BY <1>4, <3>1 DEF GapsFit, Held
    <3>2. CASE Spaced(c) /\ toolCall'[c] = [toolCall[c] EXCEPT !.pc = "locking"]
      <4>1. toolCall[c].pc = "spacing" /\ Head(spacer.queue) = c /\ spacer.wait = 0
        BY <3>2 DEF Spaced, AtSpacer
      <4>2. RunWrite(toolCall[c])
        BY <4>1 DEF CallsFit, CallFits
      <4>3. \A d \in Calls : ~(RunWrite(toolCall[d]) /\ toolCall[d].pc \in {"logging", "settling"})
        <5> SUFFICES ASSUME NEW d \in Calls, RunWrite(toolCall[d]),
                            toolCall[d].pc \in {"logging", "settling"}
                     PROVE  FALSE
          OBVIOUS
        <5>1. d = c
          BY <4>1, <4>2, OneTurn DEF Held
        <5> QED BY <4>1, <5>1
      <4>4. spacer.wait + since >= Spacing
        BY <4>3 DEF GapsFit
      <4> QED BY <1>1, <4>1, <4>2, <4>4
    <3>3. CASE Checked(c) /\ toolCall'[c] = [toolCall[c] EXCEPT !.pc = "handling"]
      <4>1. toolCall[c].pc = "locking" /\ toolCall[c] \in CallRecs
        BY <1>1, <3>3 DEF Checked, HasTurn
      <4>2. RunWrite(toolCall[c])
        BY <1>4, <3>3, <4>1 DEF CallRecs, RunWrite
      <4> QED BY <4>1, <4>2 DEF GapsFit, Held
    <3> QED BY <1>4, <3>1, <3>2, <3>3, Origins
  <2>2. CASE UNCHANGED since
    BY <2>1, <2>2
  <2>3. CASE TimePasses
    <3>1. since' = Min({since + 1, Spacing})
      BY <2>3 DEF TimePasses
    <3> QED BY <1>1, <1>least, <2>1, <3>1
  <2>4. ASSUME NEW d \in Calls, RefusedThere(d) \/ Signs(d) PROVE since' = Spacing
    <3>1. CASE toolCall[d].ctx > 0
      <4>1. d = c
        BY <1>2, <2>1, <2>4, <3>1, OneTurn DEF Held
      <4>2. toolCall'[c].pc \notin {"locking", "handling"}
        <5>1. toolCall[c] \in CallRecs
          BY <1>1
        <5>2. Signs(c) => toolCall'[c].pc = "logging"
          BY SignsFacts
        <5>3. RefusedThere(c) => toolCall'[c].pc \in {"none", "done"}
          BY <1>2, <5>1, NextCalls, Answers
        <5> QED BY <2>4, <4>1, <5>2, <5>3
      <4> QED BY <1>4, <4>2
    <3>2. CASE ~(toolCall[d].ctx > 0)
      BY <1>2, <2>1, <2>4, <3>2
    <3> QED BY <3>1, <3>2
  <2> QED BY <2>2, <2>3, <2>4, Changers
<1>5. ASSUME \A c \in Calls : ~(RunWrite(toolCall'[c]) /\ toolCall'[c].pc \in {"logging", "settling"})
      PROVE  spacer'.wait + since' >= Spacing
  <2>1. CASE \E c \in Calls : Leaves(c) /\ RunWrite(toolCall[c])
    BY <1>1, <2>1, EndSpaces
  <2> SUFFICES ASSUME ~(\E c \in Calls : Leaves(c) /\ RunWrite(toolCall[c]))
               PROVE  spacer'.wait + since' >= Spacing
    BY <2>1
  <2>2. \A c \in Calls : ~(RunWrite(toolCall[c]) /\ toolCall[c].pc \in {"logging", "settling"})
    BY <1>5, GoesOn
  <2>3. spacer.wait + since >= Spacing
    BY <2>2 DEF GapsFit
  <2>4. CASE TimePasses
    <3>1. /\ spacer'.wait = Max({spacer.wait - 1, 0}) /\ since' = Min({since + 1, Spacing})
      BY <1>1, <2>4 DEF TimePasses
    <3>2. /\ spacer'.wait = IF spacer.wait - 1 < 0 THEN 0 ELSE spacer.wait - 1
          /\ since' = IF since + 1 < Spacing THEN since + 1 ELSE Spacing
      <4>1. Max({spacer.wait - 1, 0}) = IF spacer.wait - 1 < 0 THEN 0 ELSE spacer.wait - 1
        BY <1>1, LeastAndMost
      <4> QED BY <1>least, <3>1, <4>1
    <3> QED BY <1>1, <2>3, <3>2
  <2>5. TimePasses \/ spacer'.wait = spacer.wait
    <3>1. CASE AnyTurn
      BY <1>1, <3>1 DEF AnyTurn, Turn
    <3>2. CASE AnyCall \/ ToolsDone
      BY <3>2 DEF AnyCall, Calling, ToolsDone
    <3>3. ASSUME NEW c \in Calls, Handles(c) PROVE spacer'.wait = spacer.wait
      <4>1. NotSent(c) => spacer'.wait = spacer.wait
        BY <1>1 DEF NotSent
      <4>2. Leaves(c) => spacer' = spacer
        BY DEF Leaves
      <4> QED BY <3>3, <4>1, <4>2, CallKinds DEF Spaced, Advances
    <3> QED BY <3>1, <3>2, <3>3, Changers
  <2>6. TimePasses \/ since' = since
    <3>1. ASSUME NEW c \in Calls, RefusedThere(c) \/ Signs(c) PROVE since' = since
      <4>1. RefusedThere(c) => Leaves(c)
        BY <1>2
      <4>2. Signs(c) /\ toolCall[c].ctx > 0 =>
              RunWrite(toolCall'[c]) /\ toolCall'[c].pc \in {"logging", "settling"}
        BY SignsFacts DEF RunWrite
      <4> QED BY <1>2, <1>5, <3>1, <4>1, <4>2
    <3> QED BY <3>1, Changers
  <2> QED BY <2>3, <2>4, <2>5, <2>6
<1> QED BY <1>3, <1>4, <1>5 DEF GapsFit, RunWrite

-------------------------------------------------------------------------------
(* The invariant, and what follows from it. *)

LEMMA RunInvInit ==
  ASSUME RunAssumption, RunInit
  PROVE  RunInv
<1>1. MaxRuns \in Nat /\ MaxChanges \in Nat /\ Spacing \in Nat \ {0} /\ MaxTurns \in Nat \ {0}
  BY DEF RunAssumption
<1>2. \A c \in Calls : toolCall[c] = NoCall
  BY DEF RunInit
<1>3. NoCall \in [pc : {"none", "spacing", "locking", "handling", "logging", "settling", "done"},
                  tool : {"thesis", "order", "exit", "later"}, ctx : -1..MaxRuns]
  BY <1>1 DEF NoCall, Session
<1>4. lock = <<>> /\ spacer.queue = <<>> /\ spacer.wait = 0 /\ runLog = <<>> /\ signed = <<>>
      /\ since = Spacing /\ aborted = {} /\ DOMAIN signed = {} /\ DOMAIN runLog = {}
      /\ DOMAIN lock = {} /\ DOMAIN spacer.queue = {}
  BY DEF RunInit
<1>5. RunTypeOK
  BY <1>1, <1>3, <1>4 DEF RunInit, RunTypeOK
<1>6. Shape
  BY <1>4, <1>5 DEF Shape
<1>7. RunFits
  BY <1>4 DEF RunFits, RunInit
<1>8. CallsFit
  BY <1>2 DEF CallsFit, CallFits, NoCall, Session, Watcher
<1>9. QueuesFit
  BY <1>2, <1>4 DEF QueuesFit, PlaceFits, Once, In, NoCall, Held, Working
<1>10. LateFits /\ ForbiddenFits
  BY <1>4 DEF LateFits, ForbiddenFits
<1>11. GapsFit
  BY <1>1, <1>2, <1>4 DEF GapsFit, RunWritesAreSpaced, NoCall, RunWrite, Session
<1> QED BY <1>6, <1>7, <1>8, <1>9, <1>10, <1>11 DEF RunInv

LEMMA RunInvStutters ==
  ASSUME RunInv, UNCHANGED runVars
  PROVE  RunInv'
<1>1. UNCHANGED <<agentNow, run, aborted, theses, toolCall, spacer, lock, runLog, since, signed>>
  BY DEF runVars
<1>2. Shape' /\ RunFits'
  BY <1>1 DEF RunInv, Shape, RunTypeOK, RunFits
<1>3. CallsFit' /\ QueuesFit'
  BY <1>1 DEF RunInv, CallsFit, CallFits, QueuesFit, PlaceFits
<1>4. LateFits' /\ ForbiddenFits'
  BY <1>1 DEF RunInv, LateFits, ForbiddenFits, Within
<1>5. GapsFit'
  BY <1>1 DEF RunInv, GapsFit, RunWritesAreSpaced
<1> QED BY <1>2, <1>3, <1>4, <1>5 DEF RunInv

LEMMA RunInvHolds ==
  ASSUME RunAssumption
  PROVE  RunSpec => []RunInv
<1>1. RunInit => RunInv
  BY RunInvInit
<1>2. RunInv /\ [RunNext]_runVars => RunInv'
  BY ShapeHolds, RunFitsHolds, CallsFitHolds, QueuesFitHolds, LateFitsHolds, ForbiddenFitsHolds,
     GapsFitHolds, RunInvStutters DEF RunInv
<1> QED BY <1>1, <1>2, PTL DEF RunSpec

LEMMA OneAtMost ==
  ASSUME NEW S, \A x, y \in S : x = y
  PROVE  Cardinality(S) <= 1
<1>1. CASE S = {}
  BY <1>1, FS_EmptySet
<1>2. CASE S # {}
  BY <1>2, FS_Singleton
<1> QED BY <1>1, <1>2

(* The run, its queues, its log and what it signed are of their types. *)
THEOREM RunIsTyped ==
  ASSUME RunAssumption
  PROVE  RunSpec => []RunTypeOK
<1>1. RunInv => RunTypeOK
  BY DEF RunInv, Shape
<1> QED BY <1>1, RunInvHolds, PTL

(* A run that is cut off, a revoke and an amend let one write at most still
   sign, and a run's write is signed no sooner than the spacing after the last
   reached the enclave (write-spacer.ts:72, :81, keyed-mutex.ts:6). *)
THEOREM WritesKeepTheirTurnHolds ==
  ASSUME RunAssumption
  PROVE  RunSpec => []WritesKeepTheirTurn
<1>1. ASSUME RunInv PROVE WritesKeepTheirTurn
  <2>1. ASSUME NEW n \in 1..MaxRuns
        PROVE  Cardinality({i \in DOMAIN signed : signed[i].ctx = n /\ signed[i].late}) <= 1
    <3> DEFINE S == {i \in DOMAIN signed : signed[i].ctx = n /\ signed[i].late}
    <3>1. \A i, j \in S : i = j
      BY <1>1 DEF RunInv, LateFits
    <3> QED BY <3>1, OneAtMost
  <2>2. ASSUME NEW v \in 0..MaxChanges
        PROVE  Cardinality({i \in DOMAIN signed : ~signed[i].within /\ signed[i].version = v}) <= 1
    <3> DEFINE S == {i \in DOMAIN signed : ~signed[i].within /\ signed[i].version = v}
    <3>1. \A i, j \in S : i = j
      BY <1>1 DEF RunInv, ForbiddenFits
    <3> QED BY <3>1, OneAtMost
  <2> QED BY <1>1, <2>1, <2>2 DEF WritesKeepTheirTurn, WritesStop, RunInv, GapsFit
<1> QED BY <1>1, RunInvHolds, PTL

-------------------------------------------------------------------------------
(* The watchers that wake an agent (Watchers). *)

Times  == 0..MaxClock \cup {Never}
Sights == [read : [Conditions -> Readings \cup {"unread"}], at : 0..MaxClock,
           fired : BOOLEAN, before : Times]
CheckRecs == [on : {TRUE}, set : [WatcherIds -> WatcherRecords], updated : 0..MaxSets,
              at : 0..MaxClock, read : [Conditions -> Readings \cup {"unread"}]]

(* WatchTypeOK, its sets of records by their names. *)
WatchShape ==
  /\ clock \in 0..MaxClock /\ updated \in 0..MaxSets /\ reloads \in 0..MaxReloads
  /\ market \in [Conditions -> {"holds", "not"}]
  /\ set \in [WatcherIds -> WatcherRecords]
  /\ check = NoCheck \/ check \in CheckRecs
  /\ asked \in [WatcherIds -> Specs \cup {NoSpec}]
  /\ checked \in [WatcherIds -> Seq(Sights)]
  /\ lastFire \in [WatcherIds -> Times]

(* LastKnown and CameTrue, of a sequence of checks: those before the i-th that
   could read the condition, and the last of them. *)
KnownBy(q, i, c) == {j \in 1..(i - 1) : q[j].read[c] \in {"holds", "not"}}
LatestOf(S)      == CHOOSE j \in S : \A k \in S : k <= j
LastBy(q, i, c)  == IF KnownBy(q, i, c) = {} THEN "null" ELSE q[LatestOf(KnownBy(q, i, c))].read[c]
CameBy(q, i, c)  == q[i].read[c] = "holds" /\ (c \in EdgeConditions => LastBy(q, i, c) = "not")

ReportsFit(q, spec) ==
  \A i \in DOMAIN q :
    q[i].fired <=>
      /\ \/ spec.match = "all" /\ \A c \in spec.clauses : CameBy(q, i, c)
         \/ spec.match = "any" /\ \E c \in spec.clauses : CameBy(q, i, c)
      /\ q[i].before = Never \/ q[i].at >= q[i].before + Cooldown

(* Of the checks that could read a condition one is the last, at every point. *)
HasLatest(q, c) ==
  \A i \in 1..(Len(q) + 1) :
    LET known == KnownBy(q, i, c) IN known = {} \/ \E j \in known : \A k \in known : k <= j

LatestFit == \A w \in WatcherIds, c \in Conditions : HasLatest(checked[w], c)

(* The stored edge is what the last check that could read it saw. *)
EdgesFit ==
  \A w \in WatcherIds : \A c \in set[w].spec.clauses \cap EdgeConditions :
    set[w].edge[c] = LastBy(checked[w], Len(checked[w]) + 1, c)

FiringsFit == \A w \in WatcherIds : /\ set[w].firedAt = lastFire[w]
                                    /\ set[w].spec = NoSpec => set[w] = Absent

(* A check has the set of its updatedAt. *)
CheckFits == check.on => /\ check.updated <= updated
                         /\ check.updated = updated => check.set = set

ReportsAllFit == \A w \in WatcherIds : ReportsFit(checked[w], asked[w])

WatchInv == /\ WatchShape /\ SetsWin /\ ReportsAllFit
            /\ LatestFit /\ EdgesFit /\ FiringsFit /\ CheckFits

USE WatchAssumption DEF WatchAssumption

LEMMA LatestIs ==
  ASSUME NEW S \in SUBSET Int, NEW m \in S, \A k \in S : k <= m
  PROVE  LatestOf(S) = m
<1>1. \A j \in S : (\A k \in S : k <= j) => j = m
  OBVIOUS
<1> QED BY <1>1 DEF LatestOf

(* One check more: what was known before stays, and what it read is known next. *)
LEMMA KnownNext ==
  ASSUME NEW q \in Seq(Sights), NEW r \in Sights, NEW c \in Conditions
  PROVE  /\ \A i \in 1..(Len(q) + 1) : KnownBy(Append(q, r), i, c) = KnownBy(q, i, c)
         /\ KnownBy(Append(q, r), Len(q) + 2, c) =
              KnownBy(q, Len(q) + 1, c) \cup
                (IF r.read[c] \in {"holds", "not"} THEN {Len(q) + 1} ELSE {})
<1> DEFINE p == Append(q, r)  n == Len(q)
<1>1. /\ n \in Nat /\ p[n + 1] = r /\ \A j \in 1..n : p[j] = q[j]
  OBVIOUS
<1> HIDE DEF p, n
<1>2. \A i \in 1..(n + 1) : KnownBy(p, i, c) = KnownBy(q, i, c)
  BY <1>1 DEF KnownBy
<1>3. KnownBy(p, n + 2, c) =
        KnownBy(q, n + 1, c) \cup (IF r.read[c] \in {"holds", "not"} THEN {n + 1} ELSE {})
  BY <1>1 DEF KnownBy
<1> QED BY <1>2, <1>3 DEF p, n

LEMMA LatestNext ==
  ASSUME NEW q \in Seq(Sights), NEW r \in Sights, NEW c \in Conditions, HasLatest(q, c)
  PROVE  /\ HasLatest(Append(q, r), c)
         /\ \A i \in 1..(Len(q) + 1) : LastBy(Append(q, r), i, c) = LastBy(q, i, c)
         /\ LastBy(Append(q, r), Len(q) + 2, c) =
              IF r.read[c] \in {"holds", "not"} THEN r.read[c] ELSE LastBy(q, Len(q) + 1, c)
<1> DEFINE p == Append(q, r)  n == Len(q)  m == Len(p)
           known == KnownBy(q, n + 1, c)  next == KnownBy(p, n + 2, c)
<1>1. n \in Nat /\ m = n + 1 /\ p[n + 1] = r /\ \A j \in 1..n : p[j] = q[j]
  OBVIOUS
<1>2. /\ \A i \in 1..(n + 1) : KnownBy(p, i, c) = KnownBy(q, i, c)
      /\ next = known \cup (IF r.read[c] \in {"holds", "not"} THEN {n + 1} ELSE {})
  BY KnownNext
<1>3. \A i \in 1..(n + 1) : KnownBy(q, i, c) \subseteq 1..n
  BY <1>1 DEF KnownBy
<1>4. \A i \in 1..(n + 1) :
        KnownBy(q, i, c) = {} \/ \E j \in KnownBy(q, i, c) : \A k \in KnownBy(q, i, c) : k <= j
  BY DEF HasLatest
<1> HIDE DEF p, n, m, next, known
<1>5. \A i \in 1..(n + 1) : LastBy(p, i, c) = LastBy(q, i, c)
  <2> SUFFICES ASSUME NEW i \in 1..(n + 1) PROVE LastBy(p, i, c) = LastBy(q, i, c)
    OBVIOUS
  <2>1. CASE KnownBy(q, i, c) = {}
    BY <2>1, <1>2 DEF LastBy
  <2>2. CASE KnownBy(q, i, c) # {}
    <3>1. PICK j \in KnownBy(q, i, c) : \A k \in KnownBy(q, i, c) : k <= j
      BY <2>2, <1>4
    <3>2. KnownBy(q, i, c) \in SUBSET Int
      BY <1>1, <1>3
    <3>3. LatestOf(KnownBy(q, i, c)) = j
      BY <3>1, <3>2, LatestIs
    <3>4. p[j] = q[j]
      BY <3>1, <1>1, <1>3
    <3> QED BY <2>2, <3>3, <3>4, <1>2 DEF LastBy
  <2> QED BY <2>1, <2>2
<1>6. CASE r.read[c] \in {"holds", "not"}
  <2>1. next = known \cup {n + 1} /\ known \subseteq 1..n
    BY <1>6, <1>1, <1>2, <1>3 DEF known
  <2>2. n + 1 \in next /\ (\A k \in next : k <= n + 1) /\ next \in SUBSET Int
    BY <1>1, <2>1
  <2>3. LatestOf(next) = n + 1
    BY <2>2, LatestIs
  <2>4. LastBy(p, n + 2, c) = r.read[c]
    BY <2>2, <2>3, <1>1 DEF LastBy, next
  <2>5. HasLatest(p, c)
    <3> SUFFICES ASSUME NEW i \in 1..(m + 1)
                 PROVE  \/ KnownBy(p, i, c) = {}
                        \/ \E j \in KnownBy(p, i, c) : \A k \in KnownBy(p, i, c) : k <= j
      BY DEF HasLatest, m
    <3>1. i \in 1..(n + 1) \/ i = n + 2
      BY <1>1
    <3> QED BY <3>1, <1>2, <1>4, <2>2 DEF next
  <2> QED BY <1>5, <1>6, <2>4, <2>5 DEF p, n
<1>7. CASE r.read[c] \notin {"holds", "not"}
  <2>1. next = known
    BY <1>7, <1>2
  <2>2. n + 1 \in 1..(n + 1) /\ LastBy(p, n + 1, c) = LastBy(q, n + 1, c)
    BY <1>1, <1>5
  <2>3. KnownBy(p, n + 1, c) = known
    BY <1>2, <2>2 DEF known
  <2>4. LastBy(p, n + 2, c) = LastBy(q, n + 1, c)
    BY <2>1, <2>2, <2>3 DEF LastBy, next
  <2>5. HasLatest(p, c)
    BY <1>1, <1>2, <1>4, <2>1, <2>2 DEF HasLatest, m, next, known
  <2> QED BY <1>5, <1>7, <2>4, <2>5 DEF p, n
<1> QED BY <1>6, <1>7

(* A check that fires if what it asks for came true, after those that did. *)
LEMMA ReportsNext ==
  ASSUME NEW q \in Seq(Sights), NEW r \in Sights, NEW spec \in Specs,
         \A c \in Conditions : HasLatest(q, c), ReportsFit(q, spec),
         NEW hit,
         hit = {c \in spec.clauses :
                  /\ r.read[c] = "holds"
                  /\ c \in EdgeConditions => LastBy(q, Len(q) + 1, c) = "not"},
         r.fired <=> /\ \/ spec.match = "all" /\ \A c \in spec.clauses : c \in hit
                        \/ spec.match = "any" /\ \E c \in spec.clauses : c \in hit
                     /\ r.before = Never \/ r.at >= r.before + Cooldown
  PROVE  ReportsFit(Append(q, r), spec)
<1> DEFINE p == Append(q, r)  n == Len(q)
<1>1. /\ n \in Nat /\ p[n + 1] = r /\ (\A j \in 1..n : p[j] = q[j])
      /\ DOMAIN q = 1..n /\ DOMAIN p = 1..(n + 1)
  OBVIOUS
<1>2. spec.clauses \subseteq Conditions
  BY DEF Specs
<1>3. \A c \in spec.clauses, i \in 1..(n + 1) : LastBy(p, i, c) = LastBy(q, i, c)
  BY <1>2, LatestNext
<1> HIDE DEF p, n
<1>4. ASSUME NEW i \in 1..n, NEW c \in spec.clauses PROVE CameBy(p, i, c) <=> CameBy(q, i, c)
  BY <1>1, <1>3 DEF CameBy
<1>5. \A c \in spec.clauses : CameBy(p, n + 1, c) <=> c \in hit
  BY <1>1, <1>3 DEF n, CameBy
<1>6. SUFFICES ASSUME NEW i \in 1..(n + 1)
      PROVE  p[i].fired <=>
               /\ \/ spec.match = "all" /\ \A c \in spec.clauses : CameBy(p, i, c)
                  \/ spec.match = "any" /\ \E c \in spec.clauses : CameBy(p, i, c)
               /\ p[i].before = Never \/ p[i].at >= p[i].before + Cooldown
  BY <1>1 DEF ReportsFit, p
<1>7. CASE i \in 1..n
  BY <1>7, <1>1, <1>4 DEF ReportsFit
<1>8. CASE i = n + 1
  BY <1>8, <1>1, <1>5
<1> QED BY <1>1, <1>7, <1>8

LEMMA Kinds ==
  /\ NoSpec \notin Specs /\ Absent \in WatcherRecords /\ Absent.spec = NoSpec
  /\ Absent.firedAt = Never /\ Absent.edge = [c \in Conditions |-> "null"] /\ ~NoCheck.on
  /\ \A x \in CheckRecs : x.on
  /\ NoSpec.clauses = {} /\ \A spec \in Specs : spec.clauses \subseteq Conditions
BY DEF NoSpec, Specs, Absent, WatcherRecords, Edges, NoCheck, CheckRecs

(* The set is changed: each watcher is what it was, or gone, or set to something
   else by an id that keeps its last firing. *)
LEMMA SetsKept ==
  ASSUME WatchInv, updated < MaxSets, updated' = updated + 1,
         set' \in [WatcherIds -> WatcherRecords],
         asked' = [w \in WatcherIds |-> set'[w].spec],
         checked' = [w \in WatcherIds |-> IF set'[w].spec = set[w].spec THEN checked[w] ELSE <<>>],
         lastFire' = [w \in WatcherIds |-> IF set'[w].spec = NoSpec THEN Never ELSE lastFire[w]],
         UNCHANGED <<clock, market, check, reloads>>,
         \A w \in WatcherIds :
           \/ set'[w] = set[w]
           \/ set'[w] = Absent
           \/ /\ set'[w].spec \in Specs /\ set'[w].spec # set[w].spec
              /\ set'[w].edge = [c \in Conditions |-> "null"] /\ set'[w].firedAt = set[w].firedAt
  PROVE  WatchInv'
<1> USE DEF WatchInv
<1>1. \A w \in WatcherIds :
        /\ set[w] \in WatcherRecords /\ set[w].spec \in Specs \cup {NoSpec}
        /\ set'[w].spec \in Specs \cup {NoSpec} /\ checked[w] \in Seq(Sights)
        /\ lastFire[w] \in Times /\ set[w].spec = asked[w]
  BY DEF WatchShape, WatcherRecords, SetsWin
<1>2. \A w \in WatcherIds : set'[w].spec = set[w].spec => set'[w] = set[w]
  BY <1>1, Kinds DEF FiringsFit
<1>3. \A w \in WatcherIds : set'[w].spec # set[w].spec =>
        checked'[w] = <<>> /\ set'[w].edge = [c \in Conditions |-> "null"]
  BY Kinds
<1>4. \A w \in WatcherIds : set'[w].spec = set[w].spec =>
        checked'[w] = checked[w] /\ asked'[w] = asked[w]
  BY <1>1
<1>5. WatchShape'
  BY <1>1 DEF Times, WatchShape
<1>6. SetsWin'
  BY DEF SetsWin
<1>7. ReportsAllFit'
  BY <1>3, <1>4 DEF ReportsAllFit, ReportsFit
<1>8. ASSUME NEW c \in Conditions
      PROVE  HasLatest(<<>>, c) /\ LastBy(<<>>, Len(<<>>) + 1, c) = "null"
  BY DEF KnownBy, HasLatest, LastBy
<1>9. LatestFit'
  BY <1>3, <1>4, <1>8 DEF LatestFit
<1>10. EdgesFit'
  BY <1>2, <1>4, <1>3, <1>8 DEF EdgesFit
<1>11. FiringsFit'
  BY <1>1, <1>2, Kinds DEF FiringsFit
<1>12. CheckFits'
  <2>1. check' = check /\ updated \in Nat
    BY DEF WatchShape
  <2>2. check.on => check.updated \in Nat /\ check.updated <= updated
    <3>1. check.on => check \in CheckRecs
      BY Kinds DEF WatchShape
    <3>2. check \in CheckRecs => check.updated \in Nat
      BY DEF CheckRecs
    <3> QED BY <3>1, <3>2 DEF CheckFits
  <2>3. check.on => check.updated <= updated' /\ check.updated # updated'
    BY <2>1, <2>2
  <2> QED BY <2>1, <2>3 DEF CheckFits
<1> QED BY <1>5, <1>6, <1>7, <1>9, <1>10, <1>11, <1>12

LEMMA StoredKinds ==
  ASSUME WatchShape, NEW w \in WatcherIds, NEW spec \in Specs
  PROVE  /\ Stored(w, spec) \in WatcherRecords
         /\ \/ Stored(w, spec) = set[w]
            \/ /\ Stored(w, spec).spec \in Specs /\ Stored(w, spec).spec # set[w].spec
               /\ Stored(w, spec).edge = [c \in Conditions |-> "null"]
               /\ Stored(w, spec).firedAt = set[w].firedAt
<1>1. set[w] \in WatcherRecords
  BY DEF WatchShape
<1>2. CASE set[w].spec = spec
  BY <1>1, <1>2 DEF Stored
<1>3. CASE set[w].spec # spec
  <2> DEFINE x == [Absent EXCEPT !.spec = spec, !.firedAt = set[w].firedAt]
  <2>1. /\ x \in WatcherRecords /\ x.spec = spec /\ x.firedAt = set[w].firedAt
        /\ x.edge = [c \in Conditions |-> "null"]
    BY <1>1 DEF Absent, WatcherRecords, Edges
  <2>2. Stored(w, spec) = x
    BY <1>3 DEF Stored
  <2> HIDE DEF x
  <2> QED BY <1>3, <2>1, <2>2
<1> QED BY <1>2, <1>3

LEMMA ReplaceKept ==
  ASSUME WatchInv, NEW specs \in [WatcherIds -> Specs \cup {NoSpec}], Replace(specs)
  PROVE  WatchInv'
BY Kinds, StoredKinds, SetsKept DEF WatchInv, Replace, SetsTo

LEMMA UpsertKept ==
  ASSUME WatchInv, NEW v \in WatcherIds, NEW spec \in Specs, Upsert(v, spec)
  PROVE  WatchInv'
BY StoredKinds, SetsKept DEF WatchInv, WatchShape, Upsert, SetsTo

LEMMA RemovesKept ==
  ASSUME WatchInv, NEW v \in WatcherIds, RemovesWatcher(v)
  PROVE  WatchInv'
BY Kinds, SetsKept DEF WatchInv, WatchShape, RemovesWatcher, SetsTo

(* What only a check, the market and the clock know of. *)
LEMMA SetStays ==
  ASSUME WatchInv, WatchShape', CheckFits', UNCHANGED <<set, asked, checked, lastFire>>
  PROVE  WatchInv'
BY DEF WatchInv, SetsWin, ReportsAllFit, LatestFit, EdgesFit, FiringsFit

LEMMA ChecksKept ==
  ASSUME WatchInv, Checks \/ (\E c \in Conditions : ReadsCondition(c)) \/ RecordFails \/ Reload
  PROVE  WatchInv'
<1> USE DEF WatchInv
<1>1. /\ UNCHANGED <<set, asked, checked, lastFire>>
      /\ clock' = clock /\ market' = market /\ updated' = updated
  BY DEF Checks, ReadsCondition, RecordFails, Reload
<1>2. /\ reloads' \in 0..MaxReloads
      /\ check' = NoCheck \/ check' \in CheckRecs
      /\ check'.on => /\ check'.updated <= updated
                      /\ check'.updated = updated => check'.set = set
  <2>1. CASE Checks
    <3> DEFINE x == [on |-> TRUE, set |-> set, updated |-> updated, at |-> clock,
                     read |-> [c \in Conditions |-> "unread"]]
    <3>1. x \in CheckRecs /\ x.updated = updated /\ x.set = set
      BY DEF WatchShape, CheckRecs
    <3>2. check' = x /\ reloads' = reloads
      BY <2>1 DEF Checks
    <3> HIDE DEF x
    <3> QED BY <3>1, <3>2 DEF WatchShape
  <2>2. CASE \E c \in Conditions : ReadsCondition(c)
    <3>1. PICK c \in Conditions : ReadsCondition(c)
      BY <2>2
    <3>2. check \in CheckRecs /\ reloads' = reloads
      BY <3>1, Kinds DEF ReadsCondition, WatchShape
    <3>3. PICK x \in Readings : check' = [check EXCEPT !.read[c] = x]
      BY <3>1 DEF ReadsCondition, Readings, WatchShape
    <3>4. check' \in CheckRecs /\ check'.updated = check.updated /\ check'.set = check.set
      BY <3>2, <3>3 DEF CheckRecs
    <3>5. check.on
      BY <3>2, Kinds
    <3> QED BY <3>2, <3>4, <3>5 DEF WatchShape, CheckFits
  <2>3. CASE RecordFails \/ Reload
    BY <2>3, Kinds DEF RecordFails, Reload, WatchShape
  <2> QED BY <2>1, <2>2, <2>3
<1>3. WatchShape'
  BY <1>1, <1>2 DEF WatchShape
<1>4. CheckFits'
  BY <1>1, <1>2 DEF CheckFits
<1> QED BY <1>1, <1>3, <1>4, SetStays

LEMMA MovesKept ==
  ASSUME WatchInv, (\E c \in Conditions : MarketMoves(c)) \/ ClockTicks \/ UNCHANGED watchVars
  PROVE  WatchInv'
<1> USE DEF WatchInv
<1>1. /\ UNCHANGED <<set, asked, checked, lastFire>>
      /\ check' = check /\ updated' = updated /\ reloads' = reloads /\ set' = set
  BY DEF MarketMoves, ClockTicks, watchVars
<1>2. market' \in [Conditions -> {"holds", "not"}] /\ clock' \in 0..MaxClock
  <2>1. CASE \E c \in Conditions : MarketMoves(c)
    BY <2>1 DEF MarketMoves, WatchShape
  <2>2. CASE ClockTicks
    BY <2>2 DEF ClockTicks, WatchShape
  <2>3. CASE UNCHANGED watchVars
    BY <2>3 DEF watchVars, WatchShape
  <2> QED BY <2>1, <2>2, <2>3
<1>3. WatchShape' /\ CheckFits'
  BY <1>1, <1>2 DEF WatchShape, CheckFits
<1> QED BY <1>1, <1>3, SetStays

(* What a recorded check adds to what is known of a watcher. *)
SightOf(w) == [read |-> check.read, at |-> check.at, fired |-> Fires(w), before |-> lastFire[w]]

LEMMA EvaluatedKinds ==
  ASSUME WatchInv, AllRead, check.set = set, NEW w \in WatcherIds, set[w].spec # NoSpec
  PROVE  /\ SightOf(w) \in Sights /\ Evaluated(w) \in WatcherRecords
         /\ Evaluated(w).spec = set[w].spec /\ set[w].spec \in Specs
         /\ Evaluated(w).firedAt = IF Fires(w) THEN check.at ELSE set[w].firedAt
         /\ \A c \in set[w].spec.clauses \cap EdgeConditions :
              Evaluated(w).edge[c] = IF check.read[c] \in {"holds", "not"} THEN check.read[c]
                                     ELSE set[w].edge[c]
<1> USE DEF WatchInv
<1>1. check \in CheckRecs /\ set[w] \in WatcherRecords /\ lastFire[w] \in Times
  BY Kinds DEF AllRead, WatchShape
<1>2. set[w].spec \in Specs /\ set[w].spec.clauses \subseteq Conditions
  BY <1>1, Kinds DEF WatcherRecords
<1>3. \A c \in set[w].spec.clauses : check.read[c] \in Readings
  BY <1>1, <1>2 DEF Watched, AskedOf, AllRead, CheckRecs
<1>4. Fires(w) \in BOOLEAN
  BY DEF Fires
<1>5. SightOf(w) \in Sights
  BY <1>1, <1>4 DEF CheckRecs, SightOf, Sights
<1>6. [c \in Conditions |-> EdgeAfter(w, c)] \in [Conditions -> Edges]
  BY <1>1, <1>3 DEF WatcherRecords, EdgeAfter, Edges, Readings
<1> DEFINE e == [c \in Conditions |-> EdgeAfter(w, c)]
           f == IF Fires(w) THEN check.at ELSE set[w].firedAt
           x == [set[w] EXCEPT !.edge = e, !.firedAt = f]
<1>7. Evaluated(w) = x
  BY DEF Evaluated
<1>8. e \in [Conditions -> Edges] /\ \A c \in Conditions : e[c] = EdgeAfter(w, c)
  BY <1>6
<1>9. f \in Times
  BY <1>1 DEF CheckRecs, WatcherRecords, Times
<1> HIDE DEF e, f
<1>10. x \in WatcherRecords /\ x.spec = set[w].spec /\ x.firedAt = f /\ x.edge = e
  BY <1>1, <1>8, <1>9 DEF WatcherRecords, Times
<1>11. \A c \in set[w].spec.clauses \cap EdgeConditions :
         e[c] = IF check.read[c] \in {"holds", "not"} THEN check.read[c] ELSE set[w].edge[c]
  BY <1>2, <1>3, <1>8 DEF EdgeAfter, Readings
<1> QED BY <1>2, <1>5, <1>7, <1>10, <1>11 DEF f

(* A watcher fires in a check if what it asks for came true since the checks
   that are recorded. *)
LEMMA FiresFits ==
  ASSUME WatchInv, AllRead, check.set = set, NEW w \in WatcherIds, set[w].spec # NoSpec
  PROVE  ReportsFit(Append(checked[w], SightOf(w)), set[w].spec)
<1> USE DEF WatchInv
<1> DEFINE q == checked[w]  r == SightOf(w)  spec == set[w].spec
           hit == {c \in spec.clauses :
                     /\ r.read[c] = "holds"
                     /\ c \in EdgeConditions => LastBy(q, Len(q) + 1, c) = "not"}
<1>1. /\ q \in Seq(Sights) /\ r \in Sights /\ spec \in Specs
      /\ check \in CheckRecs /\ set[w] \in WatcherRecords
  BY EvaluatedKinds, Kinds DEF WatchShape, AllRead
<1>2. \A c \in Conditions : HasLatest(q, c)
  BY DEF LatestFit
<1>3. ReportsFit(q, spec)
  BY DEF ReportsAllFit, SetsWin
<1>4. \A c \in spec.clauses : Hit(w, c) <=> c \in hit
  BY DEF Hit, EdgesFit, SightOf
<1>5. Cooling(w) <=> ~(r.before = Never \/ r.at >= r.before + Cooldown)
  BY <1>1 DEF SightOf, FiringsFit, CheckRecs, WatcherRecords, Never, Cooling
<1>6. r.fired = Fires(w)
  BY DEF SightOf
<1>7. Fires(w) <=> /\ \/ spec.match = "all" /\ \A c \in spec.clauses : Hit(w, c)
                      \/ spec.match = "any" /\ \E c \in spec.clauses : Hit(w, c)
                   /\ ~Cooling(w)
  BY DEF Fires
<1> HIDE DEF q, r, spec, hit
<1>8. r.fired <=> /\ \/ spec.match = "all" /\ \A c \in spec.clauses : c \in hit
                     \/ spec.match = "any" /\ \E c \in spec.clauses : c \in hit
                  /\ r.before = Never \/ r.at >= r.before + Cooldown
  BY <1>4, <1>5, <1>6, <1>7
<1>9. hit = {c \in spec.clauses :
               /\ r.read[c] = "holds"
               /\ c \in EdgeConditions => LastBy(q, Len(q) + 1, c) = "not"}
  BY DEF hit
<1>10. ReportsFit(Append(q, r), spec)
  BY <1>1, <1>2, <1>3, <1>8, <1>9, ReportsNext
<1> QED BY <1>10 DEF q, r, spec

LEMMA RecordKept ==
  ASSUME WatchInv, Record
  PROVE  WatchInv'
<1> USE DEF WatchInv
<1>1. /\ AllRead /\ check' = NoCheck /\ clock' = clock /\ market' = market
      /\ updated' = updated /\ reloads' = reloads /\ asked' = asked /\ ~check'.on
  BY Kinds DEF Record
<1>2. CASE updated # check.updated
  BY <1>1, <1>2, SetStays DEF Record, Unchanged, WatchShape, CheckFits
<1>3. CASE updated = check.updated
  <2>1. check.set = set /\ check \in CheckRecs /\ check.at \in Times
    BY <1>1, Kinds, <1>3 DEF AllRead, WatchShape, CheckRecs, Times, CheckFits
  <2>2. /\ set' = [w \in WatcherIds |-> IF w \in Watched(set) THEN Evaluated(w) ELSE Absent]
        /\ checked' = [w \in WatcherIds |->
             IF w \notin Watched(set) THEN checked[w] ELSE Append(checked[w], SightOf(w))]
        /\ lastFire' = [w \in WatcherIds |->
             IF w \in Watched(set) /\ Fires(w) THEN check.at ELSE lastFire[w]]
    BY <1>3, <2>1 DEF Record, Unchanged, SightOf
  <2>3. \A w \in WatcherIds : set[w].spec = NoSpec =>
          /\ set'[w] = Absent /\ set[w] = Absent /\ checked'[w] = checked[w]
          /\ lastFire'[w] = lastFire[w]
    BY <2>2 DEF Watched, FiringsFit
  <2>4. \A w \in WatcherIds : set[w].spec # NoSpec =>
          /\ set'[w] = Evaluated(w) /\ checked'[w] = Append(checked[w], SightOf(w))
          /\ lastFire'[w] = IF Fires(w) THEN check.at ELSE lastFire[w]
    BY <2>2 DEF Watched
  <2>5. ASSUME NEW w \in WatcherIds, set[w].spec # NoSpec
        PROVE  /\ SightOf(w) \in Sights /\ Evaluated(w) \in WatcherRecords
               /\ Evaluated(w).spec = set[w].spec /\ set[w].spec \in Specs
               /\ Evaluated(w).firedAt = IF Fires(w) THEN check.at ELSE set[w].firedAt
               /\ \A c \in set[w].spec.clauses \cap EdgeConditions :
                    Evaluated(w).edge[c] = IF check.read[c] \in {"holds", "not"} THEN check.read[c]
                                           ELSE set[w].edge[c]
    BY <1>1, <2>1, <2>5, EvaluatedKinds
  <2>6. \A w \in WatcherIds : set'[w].spec = set[w].spec
    BY <2>3, <2>4, <2>5
  <2>7. WatchShape'
    <3>1. set' \in [WatcherIds -> WatcherRecords]
      BY <2>2, <2>3, <2>4, <2>5, Kinds
    <3>2. \A w \in WatcherIds : checked'[w] \in Seq(Sights)
      <4> SUFFICES ASSUME NEW w \in WatcherIds PROVE checked'[w] \in Seq(Sights)
        OBVIOUS
      <4> DEFINE q == checked[w]  r == SightOf(w)
      <4>1. q \in Seq(Sights) /\ (set[w].spec # NoSpec => r \in Sights)
        BY <2>5 DEF WatchShape
      <4>2. set[w].spec = NoSpec => checked'[w] = q
        BY <2>3
      <4>3. set[w].spec # NoSpec => checked'[w] = Append(q, r)
        BY <2>4
      <4> HIDE DEF q, r
      <4>4. CASE set[w].spec = NoSpec
        BY <4>1, <4>2, <4>4
      <4>5. CASE set[w].spec # NoSpec
        <5>1. r \in Sights
          BY <4>1, <4>5
        <5>2. Append(q, r) \in Seq(Sights)
          BY <4>1, <5>1
        <5> QED BY <4>3, <4>5, <5>2
      <4> QED BY <4>4, <4>5
    <3>3. \A w \in WatcherIds : lastFire'[w] \in Times
      BY <2>1, <2>3, <2>4 DEF WatchShape
    <3>4. checked' \in [WatcherIds -> Seq(Sights)] /\ lastFire' \in [WatcherIds -> Times]
      BY <2>2, <3>2, <3>3
    <3> QED BY <1>1, <3>1, <3>4 DEF WatchShape
  <2>8. SetsWin'
    BY <1>1, <2>6 DEF SetsWin
  <2>9. ReportsAllFit'
    BY <1>1, <2>3, <2>1, <2>4, FiresFits DEF ReportsAllFit, SetsWin
  <2>10. ASSUME NEW w \in WatcherIds, NEW c \in Conditions, set[w].spec # NoSpec
         PROVE  /\ HasLatest(checked'[w], c)
                /\ LastBy(checked'[w], Len(checked'[w]) + 1, c) =
                     IF check.read[c] \in {"holds", "not"} THEN check.read[c]
                     ELSE LastBy(checked[w], Len(checked[w]) + 1, c)
    <3> DEFINE q == checked[w]  r == SightOf(w)
    <3>1. q \in Seq(Sights) /\ r \in Sights /\ HasLatest(q, c) /\ r.read = check.read
      BY <2>5, <2>10 DEF WatchShape, LatestFit, SightOf
    <3>2. checked'[w] = Append(q, r)
      BY <2>4, <2>10
    <3> HIDE DEF q, r
    <3>3. Len(Append(q, r)) + 1 = Len(q) + 2
      BY <3>1
    <3>4. /\ HasLatest(Append(q, r), c)
          /\ LastBy(Append(q, r), Len(q) + 2, c) =
               IF r.read[c] \in {"holds", "not"} THEN r.read[c] ELSE LastBy(q, Len(q) + 1, c)
      BY <3>1, LatestNext
    <3> QED BY <3>1, <3>2, <3>3, <3>4 DEF q
  <2>11. LatestFit'
    BY <2>3, <2>10 DEF LatestFit
  <2>12. EdgesFit'
    BY <2>6, Kinds, <2>4, <2>5, <2>10 DEF EdgesFit
  <2>13. FiringsFit'
    BY <2>3, <2>4, <2>5, <2>6, Kinds DEF FiringsFit
  <2>14. CheckFits'
    BY <1>1 DEF CheckFits
  <2> QED BY <2>7, <2>8, <2>9, <2>11, <2>12, <2>13, <2>14
<1> QED BY <1>2, <1>3

LEMMA WatchInitInv == WatchInit => WatchInv
<1> SUFFICES ASSUME WatchInit PROVE WatchInv
  OBVIOUS
<1> USE DEF WatchInit
<1>1. <<>> \in Seq(Sights) /\ DOMAIN <<>> = {} /\ Len(<<>>) = 0
      /\ 1..(0 + 1) = {1} /\ \A i \in {1} : 1..(i - 1) = {}
  OBVIOUS
<1>2. \A c \in Conditions : HasLatest(<<>>, c)
  BY <1>1 DEF HasLatest, KnownBy
<1>3. WatchShape
  BY Kinds, <1>1 DEF WatchShape, Times
<1>4. SetsWin /\ EdgesFit /\ FiringsFit /\ CheckFits
  BY Kinds DEF SetsWin, EdgesFit, FiringsFit, CheckFits
<1>5. ReportsAllFit /\ LatestFit
  BY <1>1, <1>2 DEF ReportsAllFit, ReportsFit, LatestFit
<1> QED BY <1>3, <1>4, <1>5 DEF WatchInv

LEMMA WatchStep == WatchInv /\ [WatchNext]_watchVars => WatchInv'
BY ReplaceKept, UpsertKept, RemovesKept, ChecksKept, MovesKept, RecordKept DEF WatchNext

LEMMA WatchInvIsEnough == WatchInv => WatchersAreTrue
<1> SUFFICES ASSUME WatchInv PROVE WatchersAreTrue
  OBVIOUS
<1>1. WatchTypeOK
  BY DEF WatchInv, WatchShape, WatchTypeOK, Times, Sights, CheckRecs
<1>2. CrossesAreReported
  <2>1. \A w \in WatcherIds, i \in Int, c \in Conditions :
          LastKnown(w, i, c) = LastBy(checked[w], i, c)
    BY DEF LastKnown, LastBy, KnownBy, LatestOf
  <2>2. ASSUME NEW w \in WatcherIds, NEW i \in DOMAIN checked[w]
        PROVE  \A c \in asked[w].clauses : CameTrue(w, i, c) <=> CameBy(checked[w], i, c)
    BY Kinds, <2>1 DEF WatchInv, WatchShape, CameTrue, CameBy
  <2> QED BY <2>2 DEF WatchInv, ReportsAllFit, ReportsFit, CrossesAreReported
<1> QED BY <1>1, <1>2 DEF WatchInv, WatchersAreTrue

(* Of any watchers, conditions and changes, whatever reads and writes fail and
   however often the process restarts: what is watched is what was last asked for
   (watcher.service.ts:198), and a watcher fires when, and only when, its condition
   came true between two recorded checks that could read it, and it did not fire
   within its cooldown (watcher-eval.ts:6). *)
THEOREM WatchersStayTrue == WatchSpec => []WatchersAreTrue
<1>1. WatchInit => WatchInv
  BY WatchInitInv
<1>2. WatchInv /\ [WatchNext]_watchVars => WatchInv'
  BY WatchStep
<1>3. WatchInv => WatchersAreTrue
  BY WatchInvIsEnough
<1> QED BY <1>1, <1>2, <1>3, PTL DEF WatchSpec
===============================================================================
