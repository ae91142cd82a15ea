------------------------------ MODULE PerplOrders ------------------------------
(***************************************************************************)
(* Orders a user's phones place at Perpl over the trading socket           *)
(* (packages/venues/src/perpl/trading.ts and venue.ts), one action at a    *)
(* time per trader (apps/mobile/src/trade/perplTrader.ts), and what the    *)
(* screen then says of them from Perpl's own position (perpReconcile.ts).  *)
(* The order is forwarded on chain by Perpl under a request number, rq,    *)
(* which the socket seeds from the account's last forwarded request.       *)
(***************************************************************************)
EXTENDS Naturals, Sequences, FiniteSets

CONSTANTS
  Actions,     \* what the user asks for on one market
  OrderKinds,  \* a subset of {"open", "close"}
  Traders,     \* the traders the actions are asked of: a phone's, a second phone's
  MaxSize,     \* bound: the position
  MaxReads,    \* RECONCILE_DELAYS_MS: how often a lost outcome is read back
  Faults,      \* a subset of {"unsigned", "refused", "failed", "contradicted", "late", "dropped",
               \* "unadmitted", "unread"}
  MaxTroubles  \* bound: faults of a behaviour

ASSUME OrdersAssumption ==
  /\ {MaxSize, MaxReads, MaxTroubles} \subseteq Nat /\ MaxSize > 0 /\ MaxReads > 0
  /\ OrderKinds \subseteq {"open", "close"}

VARIABLES
  position,  \* the account's position on the market, at Perpl
  shown,     \* what the phones' portfolio shows of it
  lfr,       \* the account's last forwarded request
  turns,     \* each trader's turns of actions
  act,       \* each action
  inbox,     \* what Perpl sent on each action's socket
  happened,  \* the faults so far
  troubles

ordersVars == <<position, shown, lfr, turns, act, inbox, happened, troubles>>

-------------------------------------------------------------------------------
Trouble(kind) ==
  /\ kind \in Faults /\ troubles < MaxTroubles
  /\ troubles' = troubles + 1 /\ happened' = happened \cup {kind}
Calm == UNCHANGED <<happened, troubles>>

Frames       == {"none", "sent", "admitted", "refused", "executed", "failed", "vanished"}
OrderResults == {"none", "order", "rejected", "unknown", "noposition"}
Told         == {"nothing", "closed", "already-closed", "partial", "unfilled", "failed", "pending",
                 "done", "landed", "unconfirmed"}

OrdersInit ==
  /\ position \in 0..1 /\ shown = position /\ lfr = 0
  /\ turns = [t \in Traders |-> <<>>] /\ inbox = [a \in Actions |-> <<>>]
  /\ happened = {} /\ troubles = 0
  /\ \E kind \in [Actions -> OrderKinds], trader \in [Actions -> Traders] :
       act = [a \in Actions |->
         [kind |-> kind[a], trader |-> trader[a], pc |-> "idle", before |-> 0, size |-> 0,
          rq |-> 0, frame |-> "none", moved |-> 0, admitted |-> FALSE, failing |-> FALSE,
          none |-> FALSE, filled |-> 0, settled |-> FALSE, result |-> "none", reads |-> 0,
          told |-> "nothing", emptied |-> FALSE]]

OrdersTypeOK ==
  /\ position \in 0..MaxSize /\ shown \in 0..MaxSize /\ lfr \in Nat
  /\ turns \in [Traders -> Seq(Actions)] /\ happened \subseteq Faults /\ troubles \in 0..MaxTroubles
  /\ act \in [Actions ->
       [kind : OrderKinds, trader : Traders, before : 0..MaxSize, size : 0..MaxSize, rq : Nat,
        pc : {"idle", "queued", "signing", "waiting", "reading", "told"}, frame : Frames,
        moved : 0..MaxSize, admitted : BOOLEAN, failing : BOOLEAN, none : BOOLEAN,
        filled : 0..MaxSize, settled : BOOLEAN, result : OrderResults, reads : 0..MaxReads,
        told : Told, emptied : BOOLEAN]]
  /\ inbox \in [Actions -> Seq([is : {"admitted", "refused", "failed", "done"},
                                filled : 0..MaxSize, none : BOOLEAN])]

Message(is, filled, none) == [is |-> is, filled |-> filled, none |-> none]

(* A trader's actions follow each other: a socket is open for the first of them. *)
Turn(a) == turns[act[a].trader] # <<>> /\ Head(turns[act[a].trader]) = a

Leaves(a) == turns' = [turns EXCEPT ![act[a].trader] = Tail(@)]

-------------------------------------------------------------------------------
(* The user asks: a close of the position that is shown, or an open. *)
Asks(a) ==
  /\ act[a].pc = "idle" /\ (act[a].kind = "close" => shown > 0)
  /\ act' = [act EXCEPT ![a].pc = "queued", ![a].before = shown, ![a].emptied = position = 0]
  /\ turns' = [turns EXCEPT ![act[a].trader] = Append(@, a)]
  /\ UNCHANGED <<position, shown, lfr, inbox, happened, troubles>>

(* The server's portfolio catches up. *)
Refreshes ==
  /\ shown # position /\ shown' = position
  /\ UNCHANGED <<position, lfr, turns, act, inbox, happened, troubles>>

Connects(a) ==
  /\ act[a].pc = "queued" /\ Turn(a)
  /\ act' = [act EXCEPT ![a].pc = "signing"]
  /\ UNCHANGED <<position, shown, lfr, turns, inbox, happened, troubles>>

(* With the snapshots the state is whole: a close finds no position, or the
   order goes out under the number after the last one forwarded. *)
NumberFor(a) == lfr + 1

SignsIn(a) ==
  /\ act[a].pc = "signing"
  /\ IF act[a].kind = "close" /\ position = 0
     THEN /\ act' = [act EXCEPT ![a].pc = "told", ![a].result = "noposition",
                                ![a].told = "already-closed"]
          /\ Leaves(a)
     ELSE /\ act' = [act EXCEPT ![a].pc = "waiting", ![a].frame = "sent", ![a].rq = NumberFor(a),
                                ![a].size = IF act[a].kind = "close" THEN position ELSE 1]
          /\ UNCHANGED turns
  /\ UNCHANGED <<position, shown, lfr, inbox, happened, troubles>>

(* The action is over, and its socket closed.  Refused or without a position to
   close, the screen says so at once, as it does of an open that settled. *)
Ends(a, result, filled) ==
  LET said == CASE result = "noposition"                          -> "already-closed"
                [] act[a].kind = "open" /\ result = "rejected"    -> "failed"
                [] act[a].kind = "open" /\ result = "order"       -> "done"
                [] OTHER                                          -> "nothing"
  IN /\ act' = [act EXCEPT ![a].pc = IF said = "nothing" THEN "reading" ELSE "told",
                           ![a].result = result, ![a].filled = filled, ![a].told = said]
     /\ inbox' = [inbox EXCEPT ![a] = <<>>]
     /\ Leaves(a)

-------------------------------------------------------------------------------
(* Perpl: the gateway's one answer to a frame, and the forwarding on chain. *)
Posts(to, messages) ==
  inbox' = [b \in Actions |-> IF b \in to THEN inbox[b] \o messages ELSE inbox[b]]

Open(a) == IF act[a].pc = "waiting" THEN {a} ELSE {}

GatewayAnswers(a) ==
  /\ act[a].frame = "sent"
  /\ \/ /\ act' = [act EXCEPT ![a].frame = "admitted"]
        /\ \/ Calm /\ Posts(Open(a), <<Message("admitted", 0, FALSE)>>)
           \/ Trouble("unadmitted") /\ UNCHANGED inbox
     \/ /\ Trouble("refused") /\ act' = [act EXCEPT ![a].frame = "refused"]
        /\ Posts(Open(a), <<Message("refused", 0, FALSE)>>)
  /\ UNCHANGED <<position, shown, lfr, turns>>

(* Order events go to every socket of the account, which knows its own by rq. *)
Listening(a) == {b \in Actions : act[b].pc = "waiting" /\ act[b].rq = act[a].rq}

Fills(a) ==
  IF act[a].kind = "open" THEN {n \in 0..act[a].size : position + n <= MaxSize}
                          ELSE {n \in 0..act[a].size : n <= position}

(* A number is used once. *)
Forwards(a) ==
  /\ act[a].frame = "admitted"
  /\ IF act[a].rq <= lfr
     THEN /\ act' = [act EXCEPT ![a].frame = "vanished"]
          /\ UNCHANGED <<position, lfr, inbox>> /\ Calm
     ELSE /\ lfr' = act[a].rq
          /\ \/ \E n \in Fills(a) :
                  /\ act[a].kind = "close" => position > 0
                  /\ position' = IF act[a].kind = "open" THEN position + n ELSE position - n
                  /\ act' = [b \in Actions |-> IF b = a
                       THEN [act[a] EXCEPT !.frame = "executed", !.moved = n,
                                           !.emptied = @ \/ position' = 0]
                       ELSE [act[b] EXCEPT !.emptied = @ \/ position' = 0]]
                  /\ \/ Calm /\ Posts(Listening(a), <<Message("done", n, FALSE)>>)
                     \/ /\ Trouble("contradicted")
                        /\ Posts(Listening(a), <<Message("failed", 0, FALSE), Message("done", n, FALSE)>>)
             \/ LET none == act[a].kind = "close" /\ position = 0
                IN /\ IF none THEN Calm ELSE Trouble("failed")
                   /\ act' = [act EXCEPT ![a].frame = "failed"]
                   /\ Posts(Listening(a), <<Message("failed", 0, none)>>)
                   /\ UNCHANGED position
  /\ UNCHANGED <<shown, turns>>

-------------------------------------------------------------------------------
(* The phone: admission, and the order's events.  A failure counts if nothing
   contradicts it within the grace. *)
Takes(a) ==
  /\ act[a].pc = "waiting" /\ inbox[a] # <<>>
  /\ LET m    == Head(inbox[a])
         rest == inbox' = [inbox EXCEPT ![a] = Tail(@)]
     IN \/ /\ m.is = "refused" /\ Ends(a, "rejected", 0)
        \/ /\ m.is = "admitted" /\ act[a].settled /\ Ends(a, "order", act[a].filled)
        \/ /\ m.is = "admitted" /\ ~act[a].settled /\ rest
           /\ act' = [act EXCEPT ![a].admitted = TRUE] /\ UNCHANGED turns
        \/ /\ m.is = "failed" /\ rest
           /\ act' = [act EXCEPT ![a].failing = TRUE, ![a].none = m.none] /\ UNCHANGED turns
        \/ /\ m.is = "done" /\ act[a].admitted /\ Ends(a, "order", m.filled)
        \/ /\ m.is = "done" /\ ~act[a].admitted /\ rest
           /\ act' = [act EXCEPT ![a].failing = FALSE, ![a].settled = TRUE, ![a].filled = m.filled]
           /\ UNCHANGED turns
  /\ UNCHANGED <<position, shown, lfr, happened, troubles>>

(* FAILURE_GRACE_MS. *)
GraceEnds(a) ==
  /\ act[a].pc = "waiting" /\ act[a].failing /\ act[a].admitted
  /\ IF inbox[a] = <<>> THEN Calm ELSE Trouble("late")
  /\ Ends(a, IF act[a].none THEN "noposition" ELSE "rejected", 0)
  /\ UNCHANGED <<position, shown, lfr>>

(* STATUS_TIMEOUT_MS without an admission, or the wait for the order's event. *)
OutcomeTimesOut(a) ==
  /\ act[a].pc = "waiting" /\ (act[a].admitted => ~act[a].failing)
  /\ IF inbox[a] = <<>> /\ act[a].frame \notin {"sent", "admitted"} THEN Calm ELSE Trouble("late")
  /\ Ends(a, "unknown", 0)
  /\ UNCHANGED <<position, shown, lfr>>

(* The socket goes, or is let go for a gap in the heartbeats, or never signs in. *)
Drops(a) ==
  /\ \/ act[a].pc = "waiting" /\ Trouble("dropped")
     \/ act[a].pc = "signing" /\ Trouble("unsigned")
  /\ Ends(a, "unknown", 0)
  /\ UNCHANGED <<position, shown, lfr>>

-------------------------------------------------------------------------------
(* Mutant of Failed: an order whose outcome was lost failed. *)
FailedOrLost(a) == act[a].result \in {"rejected", "unknown"}

Failed(a) == act[a].result = "rejected"

(* What a close did, from what the order said and what the position reads. *)
CloseVerdict(a, after) ==
  LET read   == after # <<>>
      filled == act[a].filled
  IN IF read /\ after[1] = 0 THEN "closed"
     ELSE IF act[a].result = "order"
     THEN CASE filled = 0                                -> "unfilled"
            [] filled > 0 /\ filled >= act[a].size       -> "closed"
            [] filled > 0 /\ filled < act[a].size        -> "partial"
     ELSE CASE read /\ after[1] < act[a].before                  -> "partial"
            [] read /\ after[1] >= act[a].before /\ Failed(a)    -> "failed"
            [] ~read \/ (after[1] >= act[a].before /\ ~Failed(a)) -> "pending"

OpenVerdict(a, after) ==
  IF after # <<>> /\ after[1] > 0 /\ after[1] # act[a].before THEN "landed" ELSE "pending"

OrderVerdict(a, after) == IF act[a].kind = "close" THEN CloseVerdict(a, after) ELSE OpenVerdict(a, after)

(* `reconcile`: read until there is a verdict or the reads are spent. *)
ReadsBack(a) ==
  /\ act[a].pc = "reading" /\ turns[act[a].trader] = <<>>
  /\ \E after \in {<<>>, <<position>>} :
       LET verdict == OrderVerdict(a, after)
           last    == act[a].result = "order" \/ act[a].reads + 1 = MaxReads
           said    == IF verdict = "pending" /\ act[a].kind = "open" THEN "unconfirmed" ELSE verdict
       IN /\ IF after = <<>> THEN Trouble("unread") ELSE Calm
          /\ act' = [act EXCEPT ![a].reads = IF last THEN @ ELSE @ + 1,
                ![a].pc   = IF verdict # "pending" \/ last THEN "told" ELSE @,
                ![a].told = IF verdict # "pending" \/ last THEN said ELSE @]
          /\ shown' = CASE verdict = "closed"                               -> 0
                        [] verdict \in {"partial", "landed"} /\ after # <<>> -> after[1]
                        [] OTHER                                            -> shown
  /\ UNCHANGED <<position, lfr, turns, inbox>>

OrdersNext ==
  \/ Refreshes
  \/ \E a \in Actions :
       \/ Asks(a) \/ Connects(a) \/ SignsIn(a) \/ GatewayAnswers(a) \/ Forwards(a)
       \/ Takes(a) \/ GraceEnds(a) \/ OutcomeTimesOut(a) \/ Drops(a) \/ ReadsBack(a)

(* An order's socket, its timers and its reads go on, and Perpl answers it or
   the wait for that ends: one of them as long as one can. *)
OrderStep(a) ==
  \/ Connects(a) \/ SignsIn(a) \/ GatewayAnswers(a) \/ Forwards(a)
  \/ Takes(a) \/ GraceEnds(a) \/ OutcomeTimesOut(a) \/ ReadsBack(a)

OrdersFairness == \A a \in Actions : WF_ordersVars(OrderStep(a))

OrdersSpec == OrdersInit /\ [][OrdersNext]_ordersVars /\ OrdersFairness

-------------------------------------------------------------------------------
Executed(a) == act[a].frame = "executed"

(* The account's next number was taken twice: by two traders at once, or by an
   order after one whose fate the phone had given up on. *)
SharesNumber(a) ==
  \E b \in Actions \ {a} : act[b].rq = act[a].rq /\ act[a].rq # 0

Alone(a) == \A b \in Actions \ {a} : act[b].moved = 0

(* What the screen says of an order is what became of it: a close said to be
   done has emptied the position or filled in full, one said to have failed
   never executes, an open said to have landed moved the position; a lost
   outcome is never a failure.  A failure that is contradicted after the grace,
   and a number used twice, are the exceptions (perpReconcile.ts:5, trading.ts:113). *)
VerdictsAreTrue ==
  \A a \in Actions : act[a].pc = "told" /\ ~SharesNumber(a) =>
    /\ act[a].told = "closed"         => act[a].emptied \/ (Executed(a) /\ act[a].moved = act[a].size)
    /\ act[a].told = "already-closed" => act[a].emptied
    /\ act[a].told = "unfilled"       => Executed(a) /\ act[a].moved = 0
    /\ act[a].told = "failed"         => act[a].frame \in {"refused", "failed"} \/ "late" \in happened
    /\ act[a].told = "done"           => Executed(a) /\ act[a].moved = act[a].filled
    /\ act[a].told = "landed" /\ Alone(a) => act[a].moved > 0

(* No number executes twice, and an order vanishes behind another's number only
   across traders, or after an action whose outcome was lost (perplTrader.ts:20). *)
NumbersAreOnce ==
  /\ \A a, b \in Actions : Executed(a) /\ Executed(b) /\ act[a].rq = act[b].rq => a = b
  /\ \A a \in Actions : act[a].frame = "vanished" =>
       \E b \in Actions \ {a} :
         /\ act[b].rq >= act[a].rq
         /\ act[b].trader # act[a].trader \/ "unknown" \in {act[a].result, act[b].result}

(* What the screen says of an order at Perpl is what became of it, a lost
   outcome is never a failure, and one request number never executes twice
   (perpReconcile.ts:5, trading.ts:113). *)
OrdersAreTrue == OrdersTypeOK /\ VerdictsAreTrue /\ NumbersAreOnce

(* Whoever asks is told something. *)
NobodyAwaitsPerpl     == \A a \in Actions : act[a].pc \in {"idle", "told"}
AsksAreAnswered == []<>NobodyAwaitsPerpl
===============================================================================
