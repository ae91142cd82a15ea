------------------------------ MODULE EventLog ------------------------------
(***************************************************************************)
(* The agents' event log: InMemoryAgentEventLog                            *)
(* (services/api/src/agents/events/agent-event-log.ts), the JSONL file     *)
(* behind it (events/file-agent-event-log.ts), and the phone that pages    *)
(* through an agent's events (agents/agents.controller.ts,                 *)
(* apps/mobile/src/agents/useAgentEvents.ts).                              *)
(*                                                                         *)
(* An append is synchronous down to the disk, so a crash leaves the whole  *)
(* line, part of it, or nothing.  An event is its seq, its agent and when  *)
(* it happened, which its writer may state and is then not in order.       *)
(***************************************************************************)
EXTENDS Integers, Sequences, FiniteSets, FiniteSetsExt, SequencesExt

CONSTANTS
  Loggers,      \* the agents
  MaxPerAgent,
  CompactSlack, \* COMPACT_SLACK; COMPACT_RATIO is 3/2
  PageSize,     \* the limit a phone asks for
  MaxAppends,   \* bound: events appended
  MaxAt,        \* bound: the latest an event happened
  MaxReboots,   \* bound: how often the process stops
  Faults        \* "torn": a crash in an append; "unwritten": a write the disk refuses

LogAssumption == /\ {MaxPerAgent, PageSize} \subseteq Nat \ {0}
                 /\ {CompactSlack, MaxAppends, MaxAt, MaxReboots} \subseteq Nat
                 /\ Faults \subseteq {"torn", "unwritten"}

VARIABLES
  up,
  kept,      \* byAgent: the events of each agent, oldest first
  dropped,   \* truncated: how many of each agent's were evicted, the newest of them
  seqNo,     \* seq
  file,      \* the lines of the file
  phone,     \* of each agent: the cursor of the phone on its page, where it began, what it was given
  appended,  \* history: every event appended that no restart lost, and whether it was written
  reboots

logVars == <<up, kept, dropped, seqNo, file, phone, appended, reboots>>

-------------------------------------------------------------------------------
None == -1    \* no time, no cursor

NotTruncated == [evicted |-> 0, newest |-> None]

Line(event)    == [kind |-> "event", event |-> event, dropped |-> <<>>]
NoEvent        == [seq |-> 0, of |-> CHOOSE a \in Loggers : TRUE, at |-> 0]
Header(record) == [kind |-> "truncated", event |-> NoEvent, dropped |-> record]
TornLine       == [kind |-> "torn", event |-> NoEvent, dropped |-> <<>>]

EventsOf(lines) == LET events == SelectSeq(lines, LAMBDA l : l.kind = "event")
                   IN [i \in DOMAIN events |-> events[i].event]

LogTypeOK ==
  /\ up \in BOOLEAN
  /\ \A a \in Loggers : /\ \A i \in DOMAIN kept[a] : kept[a][i].of = a /\ kept[a][i].seq \in 1..seqNo
                        /\ dropped[a].evicted \in Nat /\ dropped[a].newest \in None..MaxAt
                        /\ phone[a].cursor \in None..MaxAppends /\ phone[a].from \in 0..(MaxAppends + 1)
  /\ \A i \in DOMAIN file : file[i].kind \in {"event", "truncated", "torn"}
  /\ reboots \in 0..MaxReboots

Unopened == [cursor |-> None, from |-> 0, seen |-> {}]

Init == /\ up = TRUE
        /\ kept = [a \in Loggers |-> <<>>]
        /\ dropped = [a \in Loggers |-> NotTruncated]
        /\ seqNo = 0
        /\ file = <<>>
        /\ phone = [a \in Loggers |-> Unopened]
        /\ appended = {}
        /\ reboots = 0

-------------------------------------------------------------------------------
AddTruncation(base, more) ==
  [evicted |-> base.evicted + more.evicted, newest |-> Max({base.newest, more.newest})]

(* What goes of an agent's events when the newest `MaxPerAgent` are kept. *)
Overflow(events) == SubSeq(events, 1, Len(events) - MaxPerAgent)

LastN(s, n) == SubSeq(s, Max({1, Len(s) - n + 1}), Len(s))

Newest(events) == LastN(events, MaxPerAgent)

TruncationOf(events) ==
  [evicted |-> Len(events), newest |-> Max({events[i].at : i \in DOMAIN events} \cup {None})]

-------------------------------------------------------------------------------
(* `append`: kept in memory, the oldest evicted past the cap, then written;
   a write that fails leaves the event in memory alone. *)
Appends(a, at, written) ==
  LET event  == [seq |-> seqNo + 1, of |-> a, at |-> at]
      events == Append(kept[a], event)
  IN /\ up /\ Cardinality(appended) < MaxAppends
     /\ written \/ "unwritten" \in Faults
     /\ seqNo' = seqNo + 1
     /\ kept' = [kept EXCEPT ![a] = Newest(events)]
     /\ dropped' = [dropped EXCEPT ![a] = AddTruncation(@, TruncationOf(Overflow(events)))]
     /\ file' = IF written THEN Append(file, Line(event)) ELSE file
     /\ appended' = appended \cup {[event |-> event, written |-> written]}
     /\ UNCHANGED <<up, phone, reboots>>

(* The process stops, perhaps in the middle of writing a line. *)
Stops ==
  /\ up /\ reboots < MaxReboots
  /\ up' = FALSE
  /\ file' \in {file} \cup (IF "torn" \in Faults THEN {Append(file, TornLine)} ELSE {})
  /\ UNCHANGED <<kept, dropped, seqNo, phone, appended, reboots>>

(* What earlier compactions dropped. *)
Headers(lines, a) ==
  IF lines # <<>> /\ lines[1].kind = "truncated" THEN lines[1].dropped[a] ELSE NotTruncated

(* The numbers go on after the highest that is kept. *)
LastSeq(held) == Max({e.seq : e \in held} \cup {0})

Compacts(lines, n) == 2 * Len(lines) > 3 * n + 2 * CompactSlack

(* `new FileAgentEventLog`: a torn last line is cut off, the newest events of
   each agent are kept, what that drops is added to what was dropped before,
   and a file much longer than what is kept is replaced. *)
Boots ==
  LET lines == SelectSeq(file, LAMBDA l : l.kind # "torn")
      all   == EventsOf(lines)
      of(a) == SelectSeq(all, LAMBDA e : e.of = a)
      keeps == [a \in Loggers |-> Newest(of(a))]
      drops == [a \in Loggers |-> AddTruncation(Headers(lines, a), TruncationOf(Overflow(of(a))))]
      held  == UNION {Range(keeps[a]) : a \in Loggers}
      whole == SelectSeq(all, LAMBDA e : e \in held)
      head  == IF \E a \in Loggers : drops[a].evicted > 0 THEN <<Header(drops)>> ELSE <<>>
  IN /\ ~up
     /\ up' = TRUE /\ reboots' = reboots + 1
     /\ kept' = keeps /\ dropped' = drops
     /\ seqNo' = LastSeq(held)
     /\ file' = IF Compacts(lines, Cardinality(held))
                THEN head \o [i \in DOMAIN whole |-> Line(whole[i])] ELSE lines
     /\ appended' = {x \in appended : x.written}
     /\ UNCHANGED phone

(* Mutant of PageAfter: the last of what follows the cursor (SEN-35). *)
PageAfterLast(events, cursor) ==
  LastN(SelectSeq(events, LAMBDA e : e.seq > cursor), PageSize)

PageAfter(events, cursor) ==
  LET after == SelectSeq(events, LAMBDA e : e.seq > cursor)
  IN SubSeq(after, 1, Min({PageSize, Len(after)}))

(* A phone opens on the newest page of an agent's events, and asks on from the
   last it was given. *)
Pages(a) ==
  LET page == IF phone[a].cursor = None THEN LastN(kept[a], PageSize)
              ELSE PageAfter(kept[a], phone[a].cursor)
  IN /\ up
     /\ phone' = [phone EXCEPT ![a] =
          [cursor |-> IF page # <<>> THEN Last(page).seq ELSE Max({@.cursor, 0}),
           from   |-> IF @.cursor # None THEN @.from ELSE IF page # <<>> THEN Head(page).seq ELSE 0,
           seen   |-> @.seen \cup Range(page)]]
     /\ UNCHANGED <<up, kept, dropped, seqNo, file, appended, reboots>>

(* A first page that fails is not asked for again: the phone asks on from 0. *)
PageFails(a) ==
  /\ phone[a].cursor = None
  /\ phone' = [phone EXCEPT ![a].cursor = 0]
  /\ UNCHANGED <<up, kept, dropped, seqNo, file, appended, reboots>>

Next == \/ \E a \in Loggers, at \in 0..MaxAt, written \in BOOLEAN : Appends(a, at, written)
        \/ Stops \/ Boots
        \/ \E a \in Loggers : Pages(a) \/ PageFails(a)

Spec == Init /\ [][Next]_logVars

-------------------------------------------------------------------------------
(* An agent's list, and what the log says it dropped of it, add up to all that
   was appended, and nothing happened later than what was dropped that is not
   listed: across evictions, restarts and compactions (agent-event-log.ts:88). *)
TruncationIsTrue ==
  up => \A a \in Loggers :
    LET all == {x.event : x \in {y \in appended : y.event.of = a}}
    IN /\ dropped[a].evicted + Len(kept[a]) = Cardinality(all)
       /\ \A e \in all \ Range(kept[a]) : e.at <= dropped[a].newest

(* A phone was given every event that is still listed between where it opened
   and its cursor, which a restart keeps valid (agent-event-log.ts:165). *)
PagesAreWhole ==
  \A a \in Loggers : \A e \in Range(kept[a]) :
    up /\ phone[a].from <= e.seq /\ e.seq <= phone[a].cursor => e \in phone[a].seen
===============================================================================
