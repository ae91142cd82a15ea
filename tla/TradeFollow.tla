------------------------------ MODULE TradeFollow ------------------------------
(***************************************************************************)
(* A trade as the phone runs it: apps/mobile/src/trade/flow.ts.  The user   *)
(* confirms a price, the phone reads the market again, has the server       *)
(* prepare steps, refuses what it did not confirm, signs, commits, and      *)
(* follows the trade until it is over or the deadline passes.  Requests are *)
(* lost on the way, on the way back, or arrive after the phone gave them    *)
(* up.  The server is the one of TradeExecution, seen from outside: a trade *)
(* is claimed once, and what its steps come to is any outcome.              *)
(***************************************************************************)
EXTENDS Naturals, FiniteSets

CONSTANTS
  Flows,        \* the trades the user asks for
  FlowKinds,    \* a subset of {"market", "other", "onboard"}
  Prices,       \* what the market's worst price may read
  Lifetime,     \* PREPARED_APPROVAL_TTL_MS
  FollowFor,    \* DEFAULT_TIMEOUT_MS
  MaxLost,      \* bound: faults of a behaviour
  Losses        \* a subset of {"request", "answer", "gateway", "unauthorized", "restart", "steps",
                \* "refused"}

ASSUME FollowAssumption ==
  /\ {Lifetime, FollowFor, MaxLost} \subseteq Nat /\ Lifetime > 0
  /\ FlowKinds \subseteq {"market", "other", "onboard"} /\ 0 \notin Prices

VARIABLES
  price,    \* the market's
  flow,     \* each flow of the phone
  asked,    \* the request each flow awaits the answer of
  late,     \* commits the phone gave up on that may still reach the server
  served,   \* each trade as the server holds it
  lost

followVars == <<price, flow, asked, late, served, lost>>

-------------------------------------------------------------------------------
Loses(kind) == kind \in Losses /\ lost < MaxLost /\ lost' = lost + 1

NoRequest == [is |-> "none", answer |-> "none"]

Verdicts == {"completed", "failed", "expired"}
Answers  == Verdicts \cup {"executing", "trade_expired", "trade_not_found", "gateway",
                           "unauthorized", "network"}
Refusals == {"trade_expired", "trade_not_found", "gateway", "unauthorized"}

FollowInit ==
  /\ price \in Prices /\ lost = 0
  /\ \E kind \in [Flows -> FlowKinds] :
       flow = [f \in Flows |-> [pc |-> "idle", kind |-> kind[f], confirmed |-> 0, left |-> 0,
                                committed |-> FALSE, unsure |-> FALSE, told |-> "nothing"]]
  /\ asked = [f \in Flows |-> NoRequest] /\ late = [f \in Flows |-> FALSE]
  /\ served = [f \in Flows |-> [status |-> "none", bound |-> 0, life |-> 0, fate |-> "none",
                                claims |-> 0]]

FollowTypeOK ==
  /\ price \in Prices /\ lost \in 0..MaxLost
  /\ flow \in [Flows ->
       [pc : {"idle", "confirmed", "preparing", "verifying", "following", "told"},
        kind : FlowKinds, confirmed : Prices \cup {0}, left : 0..FollowFor, committed : BOOLEAN,
        unsure : BOOLEAN,
        told : {"nothing", "moved", "prepare", "here", "already", "pending"} \cup Verdicts \cup Refusals]]
  /\ asked \in [Flows -> [is : {"none", "prepare", "commit", "status"},
                          answer : {"none", "prepared", "refused", "already"} \cup Answers]]
  /\ late \in [Flows -> BOOLEAN]
  /\ served \in [Flows -> [status : {"none", "prepared", "executing", "completed", "failed", "gone"},
                           bound : Prices \cup {0}, life : 0..Lifetime, claims : Nat,
                           fate : {"none", "executing", "completed", "failed"}]]

-------------------------------------------------------------------------------
(* The phone, up to the signatures. *)

Tells(f, what) == flow' = [flow EXCEPT ![f].pc = "told", ![f].told = what]

(* The user confirms the price on the screen, one flow at a time. *)
Confirms(f) ==
  /\ flow[f].pc = "idle" /\ \A g \in Flows : flow[g].pc \in {"idle", "told"}
  /\ flow' = [flow EXCEPT ![f].pc = "confirmed", ![f].confirmed = price]
  /\ UNCHANGED <<price, asked, late, served, lost>>

(* A fresh read: a market order is prepared at the confirmed bound or not at all. *)
ReadsMarket(f) ==
  /\ flow[f].pc = "confirmed"
  /\ IF flow[f].kind = "market" /\ price # flow[f].confirmed
     THEN Tells(f, "moved") /\ UNCHANGED asked
     ELSE /\ flow' = [flow EXCEPT ![f].pc = "preparing"]
          /\ asked' = [asked EXCEPT ![f].is = "prepare"]
  /\ UNCHANGED <<price, late, served, lost>>

TakesPrepared(f) ==
  LET answer == asked[f].answer
  IN /\ flow[f].pc = "preparing" /\ answer # "none"
     /\ IF answer = "prepared" THEN flow' = [flow EXCEPT ![f].pc = "verifying"]
                               ELSE Tells(f, IF answer = "already" THEN "already" ELSE "prepare")
     /\ asked' = [asked EXCEPT ![f] = NoRequest]
     /\ UNCHANGED <<price, late, served, lost>>

(* All steps are verified before one is signed. *)
Approves(f) == served[f].bound = flow[f].confirmed

Verifies(f) ==
  /\ flow[f].pc = "verifying"
  /\ IF Approves(f)
     THEN flow' = [flow EXCEPT ![f].pc = "following", ![f].left = FollowFor]
     ELSE Tells(f, "here")
  /\ UNCHANGED <<price, asked, late, served, lost>>

-------------------------------------------------------------------------------
(* `follow`. *)

Waits(f) == flow[f].pc = "following" /\ asked[f].is = "none"

(* The first attempt is made whatever the clock says. *)
Ahead(f) == (~flow[f].committed /\ ~flow[f].unsure) \/ flow[f].left > 0

Attempts(f) ==
  /\ Waits(f) /\ Ahead(f)
  /\ asked' = [asked EXCEPT ![f].is = IF flow[f].committed THEN "status" ELSE "commit"]
  /\ UNCHANGED <<price, flow, late, served, lost>>

StopsFollowing(f) ==
  /\ Waits(f) /\ ~Ahead(f)
  /\ Tells(f, "pending")
  /\ UNCHANGED <<price, asked, late, served, lost>>

(* Mutant of Executing: the deadline starts over with every answer. *)
ExecutingAnew(f) == [flow EXCEPT ![f].committed = TRUE, ![f].left = FollowFor]

(* The server has it: from now on it is only read. *)
Executing(f) == [flow EXCEPT ![f].committed = TRUE]

(* Mutant of TakesAnswer: an answer that never came is reported. *)
TakesNoAnswerForFailure(f) ==
  LET answer == asked[f].answer
  IN /\ flow[f].pc = "following" /\ answer # "none"
     /\ IF answer = "network" THEN Tells(f, "failed")
        ELSE IF answer \in Verdicts \cup Refusals THEN Tells(f, answer)
        ELSE flow' = Executing(f)
     /\ asked' = [asked EXCEPT ![f] = NoRequest]
     /\ UNCHANGED <<price, late, served, lost>>

(* A terminal view is the outcome.  Before a commit was answered a refusal ends
   the flow, and whatever else went wrong is tried again; afterwards everything is. *)
TakesAnswer(f) ==
  LET answer == asked[f].answer
  IN /\ flow[f].pc = "following" /\ answer # "none"
     /\ CASE answer \in Verdicts                           -> Tells(f, answer)
          [] answer = "executing"                          -> flow' = Executing(f)
          [] answer \in Refusals /\ ~flow[f].committed     -> Tells(f, answer)
          [] OTHER                                         -> flow' = [flow EXCEPT ![f].unsure = TRUE]
     /\ asked' = [asked EXCEPT ![f] = NoRequest]
     /\ UNCHANGED <<price, late, served, lost>>

-------------------------------------------------------------------------------
(* The server: TradeService. *)

Lapsed(f) == served[f].status = "prepared" /\ served[f].life = 0

View(f) ==
  CASE served[f].status \in {"none", "gone"} -> "trade_not_found"
    [] Lapsed(f)                             -> "expired"
    [] OTHER                                 -> served[f].status

(* `claimForCommit`: out of `prepared` once. *)
Claim(f) ==
  IF served[f].status # "prepared" \/ Lapsed(f) THEN served[f]
  ELSE [served[f] EXCEPT !.status = "executing", !.fate = "executing", !.claims = @ + 1]

CommitAnswer(f) == IF Lapsed(f) THEN "trade_expired"
                   ELSE IF served[f].status = "prepared" THEN "executing" ELSE View(f)

Replies(f, answer) == asked' = [asked EXCEPT ![f].answer = answer]

(* The planner's steps move what was confirmed, or, of a server that is not to
   be trusted, something else. *)
ServerPrepares(f) ==
  /\ asked[f] = [is |-> "prepare", answer |-> "none"]
  /\ \/ \E bound \in Prices :
          /\ served' = [served EXCEPT ![f].status = "prepared", ![f].bound = bound,
                                      ![f].life = Lifetime]
          /\ \/ /\ Replies(f, "prepared")
                /\ IF bound = flow[f].confirmed THEN UNCHANGED lost ELSE Loses("steps")
             \/ bound = flow[f].confirmed /\ Replies(f, "network") /\ Loses("answer")
     \/ /\ UNCHANGED served
        /\ \/ Replies(f, "refused") /\ Loses("refused")
           \/ flow[f].kind = "onboard" /\ Replies(f, "already") /\ UNCHANGED lost
           \/ Replies(f, "network") /\ Loses("request")
  /\ UNCHANGED <<price, flow, late>>

(* A commit reaches the server, whether or not its answer reaches the phone; a
   gateway answers for the server before or after it was reached. *)
Serves(f) ==
  /\ asked[f] = [is |-> "commit", answer |-> "none"]
  /\ \/ /\ served' = [served EXCEPT ![f] = Claim(f)]
        /\ \/ Replies(f, CommitAnswer(f)) /\ UNCHANGED lost
           \/ Replies(f, "network") /\ Loses("answer")
           \/ Replies(f, "gateway") /\ Loses("gateway")
        /\ UNCHANGED late
     \/ /\ UNCHANGED served
        /\ \/ Replies(f, "network") /\ Loses("request")
              /\ late' \in {late, [late EXCEPT ![f] = TRUE]}
           \/ \E refused \in {"gateway", "unauthorized"} :
                Replies(f, refused) /\ Loses(refused) /\ UNCHANGED late
  /\ UNCHANGED <<price, flow>>

ServesLate(f) ==
  /\ late[f] /\ late' = [late EXCEPT ![f] = FALSE]
  /\ served' = [served EXCEPT ![f] = Claim(f)]
  /\ UNCHANGED <<price, flow, asked, lost>>

Reports(f) ==
  /\ asked[f] = [is |-> "status", answer |-> "none"]
  /\ \/ Replies(f, View(f)) /\ UNCHANGED lost
     \/ \E kind \in {"answer", "gateway", "unauthorized"} :
          Loses(kind) /\ Replies(f, IF kind = "answer" THEN "network" ELSE kind)
  /\ UNCHANGED <<price, flow, late, served>>

(* What the executor makes of it. *)
TradeSettles(f) ==
  /\ served[f].status = "executing"
  /\ \E outcome \in {"completed", "failed"} :
       served' = [served EXCEPT ![f].status = outcome, ![f].fate = outcome]
  /\ UNCHANGED <<price, flow, asked, late, lost>>

(* The trades are in memory. *)
ServerRestarts ==
  /\ Loses("restart") /\ \E f \in Flows : served[f].status \notin {"none", "gone"}
  /\ served' = [f \in Flows |-> IF served[f].status = "none" THEN served[f]
                                ELSE [served[f] EXCEPT !.status = "gone"]]
  /\ UNCHANGED <<price, flow, asked, late>>

-------------------------------------------------------------------------------
Runs(f) == flow[f].left > 0 \/ served[f].life > 0
Less(n) == IF n = 0 THEN 0 ELSE n - 1

Passes ==
  /\ \E f \in Flows : Runs(f)
  /\ flow'   = [f \in Flows |-> [flow[f] EXCEPT !.left = Less(@)]]
  /\ served' = [f \in Flows |-> [served[f] EXCEPT !.life = Less(@)]]
  /\ UNCHANGED <<price, asked, late, lost>>

Moves == /\ price' \in Prices \ {price}
         /\ UNCHANGED <<flow, asked, late, served, lost>>

FollowNext ==
  \/ Passes \/ Moves \/ ServerRestarts
  \/ \E f \in Flows :
       \/ Confirms(f) \/ ReadsMarket(f) \/ TakesPrepared(f) \/ Verifies(f) \/ Attempts(f)
       \/ StopsFollowing(f) \/ TakesAnswer(f) \/ ServerPrepares(f) \/ Serves(f)
       \/ ServesLate(f) \/ Reports(f) \/ TradeSettles(f)

(* The phone's steps are awaited in turn, every request is answered or fails,
   one of them at a time, and time passes.  That a trade settles is not assumed. *)
FlowStep(f) ==
  \/ ReadsMarket(f) \/ ServerPrepares(f) \/ TakesPrepared(f) \/ Verifies(f)
  \/ Attempts(f) \/ Serves(f) \/ Reports(f) \/ TakesAnswer(f) \/ StopsFollowing(f)

FollowFairness == WF_followVars(Passes) /\ \A f \in Flows : WF_followVars(FlowStep(f))

FollowSpec == FollowInit /\ [][FollowNext]_followVars /\ FollowFairness

-------------------------------------------------------------------------------
Sent(f) == served[f].fate # "none"

(* A trade runs once, whatever is sent again or arrives late, and at the bound
   the user saw; and what the phone says of it is so: nothing was sent where it
   says so, not even later, and a trade that is told to have failed did.  What a
   retry is refused for need not be so of the commit before it, whose answer was
   lost: that flow is told of a refusal while the trade may run (flow.ts:514). *)
ToldIsTrue ==
  /\ FollowTypeOK
  /\ \A f \in Flows :
       /\ served[f].claims <= 1 /\ (Sent(f) => served[f].bound = flow[f].confirmed)
       /\ flow[f].pc = "told" =>
            LET told == flow[f].told
            IN /\ told \in {"moved", "prepare", "here", "already", "trade_expired"} => ~Sent(f)
               /\ told \in Verdicts => served[f].fate = told
               /\ told \in Refusals /\ Sent(f) => flow[f].unsure \/ told = "gateway"

(* Whoever confirms is told something, though no trade ever settles and no
   request ever gets through. *)
NobodyWaits == \A f \in Flows : flow[f].pc \in {"idle", "told"}
FlowsEnd    == []<>NobodyWaits
===============================================================================
