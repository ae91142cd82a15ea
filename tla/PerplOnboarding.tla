---------------------------- MODULE PerplOnboarding ----------------------------
(***************************************************************************)
(* An agent's account at Perpl: AgentPerplOnboarder of                     *)
(* services/api/src/agents/venues/perpl-onboarding.ts, which opens it,     *)
(* lets orders be forwarded to it and enrolls its API key; `onboard` and   *)
(* `credentials` of PerplAgentAccounts, and the reads that enroll on first *)
(* use beside them (agent-venues.ts).                                      *)
(*                                                                         *)
(* One agent, whose mandate includes Perpl.  Everything that asks for the  *)
(* account joins one flight, and everything that asks for its key joins    *)
(* one enrollment; a pc is between two awaits.  One wallet numbers its     *)
(* transactions, so they land in the order they were sent, late ones too.  *)
(***************************************************************************)
EXTENDS Integers, Sequences, FiniteSets

CONSTANTS
  Readers,      \* what reads the venue: a run, a portfolio poll
  MaxFailures,  \* bound: failures
  MaxRestarts,  \* bound: restarts of the process
  OnboardFaults \* a subset of Failure

Failure == {"unread", "misread", "nogas", "unsent", "late", "unlogged", "lost", "unsaved"}

ASSUME OnboardingAssumption ==
  /\ {MaxFailures, MaxRestarts} \subseteq Nat /\ OnboardFaults \subseteq Failure
  /\ "flight" \notin Readers

VARIABLES
  active,     \* the agent's status
  chain,      \* what the chain holds of the agent
  pending,    \* what it sent that has not landed, in the order of the nonces
  receipt,    \* of what landed last
  keys,       \* the keys Perpl has enrolled for it
  held,       \* whether the secret store holds one
  logged,     \* whether an event on the log says that forwarding is on
  known,      \* `#forwarding`
  flight, enrolling,
  reader,
  said,       \* what the last flight answered
  failed,     \* history: the failures there were, and their number
  boots,
  spoilt,     \* history: the keys whose answer, or whose secret, was lost
  reopened    \* history: an opening landed on an open account

onboardVars == <<active, chain, pending, receipt, keys, held, logged, known, flight, enrolling,
                 reader, said, failed, boots, spoilt, reopened>>

-------------------------------------------------------------------------------
Steps == {"approve", "createAccount", "allowOrderForwarding"}

Grounded     == [pc |-> "idle", enrolled |-> FALSE, existing |-> FALSE, legs |-> <<>>]
NotEnrolling == [pc |-> "none", waiters |-> {}]

OnboardingTypeOK ==
  /\ active \in BOOLEAN
  /\ chain \in [funds : BOOLEAN, approved : BOOLEAN, account : BOOLEAN, forwarding : BOOLEAN]
  /\ pending \in Seq(Steps) /\ receipt \in {"success", "reverted"}
  /\ keys \in Nat /\ spoilt \in Nat /\ {held, logged, known, reopened} \subseteq BOOLEAN
  /\ flight \in [pc : {"idle", "queued", "planning", "opening", "sending", "receipt", "reading",
                       "enroll", "awaiting"},
                 enrolled : BOOLEAN, existing : BOOLEAN, legs : Seq(Steps)]
  /\ enrolling \in [pc : {"none", "reading", "checking", "signing", "posting", "storing"},
                    waiters : SUBSET (Readers \cup {"flight"})]
  /\ reader \in [Readers -> {"idle", "looked", "waiting"}]
  /\ failed \in [kinds : SUBSET Failure, count : 0..MaxFailures] /\ boots \in 0..MaxRestarts

OnboardInit ==
  /\ active = TRUE
  /\ chain = [funds |-> FALSE, approved |-> FALSE, account |-> FALSE, forwarding |-> FALSE]
  /\ pending = <<>> /\ receipt = "success"
  /\ keys = 0 /\ held = FALSE /\ logged = FALSE /\ known = FALSE
  /\ flight = Grounded /\ enrolling = NotEnrolling
  /\ reader = [r \in Readers |-> "idle"]
  /\ said = "nothing"
  /\ failed = [kinds |-> {}, count |-> 0] /\ boots = 0 /\ spoilt = 0 /\ reopened = FALSE

outside == <<active, chain, pending, receipt, reopened, boots>>
secrets == <<keys, held, spoilt, enrolling, reader>>

Fails(fault) == /\ fault \in OnboardFaults /\ failed.count < MaxFailures
                /\ failed' = [kinds |-> failed.kinds \cup {fault}, count |-> failed.count + 1]

(* The flight is over, and everyone who joined it has this answer. *)
EndsFlight(status) == flight' = Grounded /\ said' = status

Goes(x) == flight' = x /\ UNCHANGED said

-------------------------------------------------------------------------------
(* The flight. *)

(* `ensure`: at the start of a run, when the owner funds the agent or looks. *)
Ensures ==
  /\ flight.pc = "idle" /\ active
  /\ Goes([flight EXCEPT !.pc = "queued"])
  /\ UNCHANGED <<outside, secrets, logged, known, failed>>

(* `#run`: the agent as it is now. *)
Starts ==
  /\ flight.pc = "queued"
  /\ IF active THEN Goes([flight EXCEPT !.pc = "planning"]) ELSE EndsFlight("revoked")
  /\ UNCHANGED <<outside, secrets, logged, known, failed>>

(* `#plan`: what is missing.  An account that cannot be read ends the flight. *)
Plans ==
  /\ flight.pc = "planning"
  /\ \/ Fails("unread") /\ EndsFlight("unavailable") /\ UNCHANGED known
     \/ /\ ~chain.account
        /\ IF chain.funds THEN Goes([flight EXCEPT !.pc = "opening"]) ELSE EndsFlight("needs_funds")
        /\ UNCHANGED <<known, failed>>
     \/ /\ chain.account
        /\ known' = (known \/ logged)
        /\ IF known' /\ held THEN EndsFlight("ready")
           ELSE Goes([flight EXCEPT !.pc = IF known' THEN "enroll" ELSE "opening", !.enrolled = held])
        /\ UNCHANGED failed
  /\ UNCHANGED <<outside, secrets, logged>>

(* What is left to send: an approval that stands is not sent again, nor the
   opening of an account that is seen. *)
Legs(existing) ==
  (IF existing \/ chain.approved THEN <<>> ELSE <<"approve">>)
    \o (IF existing THEN <<>> ELSE <<"createAccount">>) \o <<"allowOrderForwarding">>

(* `onboard`, up to the gas check: any error of `accountOf` reads as no account. *)
Opens ==
  /\ flight.pc = "opening"
  /\ \/ Goes([flight EXCEPT !.pc = "sending", !.existing = chain.account,
                            !.legs = Legs(chain.account)]) /\ UNCHANGED failed
     \/ /\ chain.account /\ Fails("misread")
        /\ Goes([flight EXCEPT !.pc = "sending", !.existing = FALSE, !.legs = Legs(FALSE)])
     \/ Fails("nogas") /\ EndsFlight("needs_gas")
  /\ UNCHANGED <<outside, secrets, logged, known>>

(* The next leg, if there is one; the policy of a revoked agent allows none. *)
Sends ==
  /\ flight.pc = "sending"
  /\ \/ /\ flight.legs # <<>> /\ active
        /\ pending' = Append(pending, Head(flight.legs))
        /\ Goes([flight EXCEPT !.pc = "receipt", !.legs = Tail(@)]) /\ UNCHANGED failed
     \/ flight.legs # <<>> /\ ~active /\ EndsFlight("failed") /\ UNCHANGED <<pending, failed>>
     \/ flight.legs # <<>> /\ Fails("unsent") /\ EndsFlight("failed") /\ UNCHANGED pending
     \/ /\ flight.legs = <<>> /\ Goes([flight EXCEPT !.pc = "reading"])
        /\ UNCHANGED <<pending, failed>>
  /\ UNCHANGED <<active, chain, receipt, reopened, boots, secrets, logged, known>>

(* The receipt of the leg, or none in time: then it may land yet. *)
Receives ==
  /\ flight.pc = "receipt"
  /\ \/ pending = <<>> /\ receipt = "success" /\ Goes([flight EXCEPT !.pc = "sending"]) /\ UNCHANGED failed
     \/ pending = <<>> /\ receipt = "reverted" /\ EndsFlight("failed") /\ UNCHANGED failed
     \/ pending # <<>> /\ Fails("late") /\ EndsFlight("failed")
  /\ UNCHANGED <<outside, secrets, logged, known>>

(* The account is read again if it is new; that forwarding is on is remembered,
   and recorded if the log takes it. *)
Records ==
  /\ flight.pc = "reading"
  /\ \/ /\ known' = TRUE
        /\ IF flight.enrolled THEN EndsFlight("ready") ELSE Goes([flight EXCEPT !.pc = "enroll"])
        /\ \/ logged' = TRUE /\ UNCHANGED failed
           \/ Fails("unlogged") /\ UNCHANGED logged
     \/ ~flight.existing /\ Fails("misread") /\ EndsFlight("failed") /\ UNCHANGED <<known, logged>>
  /\ UNCHANGED <<outside, secrets>>

-------------------------------------------------------------------------------
(* The key. *)

(* `credentials`: the enrollment under way, or one of its own. *)
Joined(who) ==
  IF enrolling.pc = "none" THEN [pc |-> "reading", waiters |-> {who}]
  ELSE [enrolling EXCEPT !.waiters = @ \cup {who}]

Enrolls ==
  /\ flight.pc = "enroll"
  /\ enrolling' = Joined("flight")
  /\ Goes([flight EXCEPT !.pc = "awaiting"])
  /\ UNCHANGED <<outside, keys, held, spoilt, reader, logged, known, failed>>

(* A first use looks for the key in the store, and asks for one after. *)
LooksUp(r) ==
  /\ reader[r] = "idle" /\ active /\ ~held
  /\ reader' = [reader EXCEPT ![r] = "looked"]
  /\ UNCHANGED <<outside, keys, held, spoilt, enrolling, logged, known, flight, said, failed>>

Asks(r) ==
  /\ reader[r] = "looked"
  /\ enrolling' = Joined(r)
  /\ reader' = [reader EXCEPT ![r] = "waiting"]
  /\ UNCHANGED <<outside, keys, held, spoilt, logged, known, flight, said, failed>>

(* Mutant of Over: the flight is not forgotten when it fails. *)
OverForever == [pc |-> "failed", waiters |-> {}]

(* The enrollment is over, and forgotten whatever became of it. *)
Over == NotEnrolling

Answers(ok) ==
  /\ enrolling' = IF ok THEN NotEnrolling ELSE Over
  /\ reader' = [r \in Readers |-> IF r \in enrolling.waiters THEN "idle" ELSE reader[r]]
  /\ IF "flight" \in enrolling.waiters THEN EndsFlight(IF ok THEN "ready" ELSE "failed")
     ELSE UNCHANGED <<flight, said>>

OnTo(pc) == enrolling' = [enrolling EXCEPT !.pc = pc] /\ UNCHANGED <<reader, flight, said>>

(* Mutant of ReadsHeld: the store was read before the flight (SEN-148). *)
ReadsBefore == FALSE

(* The store, read inside the flight. *)
ReadsHeld == held

Reads ==
  /\ enrolling.pc = "reading"
  /\ IF ReadsHeld THEN Answers(TRUE) ELSE OnTo("checking")
  /\ UNCHANGED <<outside, keys, held, spoilt, logged, known, failed>>

(* No key without an account, nor with one that cannot be read. *)
Checks ==
  /\ enrolling.pc = "checking"
  /\ \/ chain.account /\ OnTo("signing") /\ UNCHANGED failed
     \/ ~chain.account /\ Answers(FALSE) /\ UNCHANGED failed
     \/ chain.account /\ Fails("misread") /\ Answers(FALSE)
  /\ UNCHANGED <<outside, keys, held, spoilt, logged, known>>

(* The rule that allows it goes with a revoke. *)
Signs ==
  /\ enrolling.pc = "signing"
  /\ IF active THEN OnTo("posting") ELSE Answers(FALSE)
  /\ UNCHANGED <<outside, keys, held, spoilt, logged, known, failed>>

(* Perpl enrolls the key; its answer may be lost, and the key with it. *)
Posts ==
  /\ enrolling.pc = "posting"
  /\ \/ keys' = keys + 1 /\ OnTo("storing") /\ UNCHANGED <<spoilt, failed>>
     \/ Fails("unsent") /\ Answers(FALSE) /\ UNCHANGED <<keys, spoilt>>
     \/ Fails("lost") /\ Answers(FALSE) /\ keys' = keys + 1 /\ spoilt' = spoilt + 1
  /\ UNCHANGED <<outside, held, logged, known>>

Stores ==
  /\ enrolling.pc = "storing"
  /\ \/ held' = TRUE /\ Answers(TRUE) /\ UNCHANGED <<spoilt, failed>>
     \/ Fails("unsaved") /\ Answers(FALSE) /\ spoilt' = spoilt + 1 /\ UNCHANGED held
  /\ UNCHANGED <<outside, keys, logged, known>>

-------------------------------------------------------------------------------
(* The owner, the chain, the process. *)

Funds == /\ ~chain.funds /\ ~chain.account
         /\ chain' = [chain EXCEPT !.funds = TRUE]
         /\ UNCHANGED <<active, pending, receipt, reopened, boots, secrets, logged, known, flight,
                        said, failed>>

Revokes == /\ active /\ active' = FALSE
           /\ UNCHANGED <<chain, pending, receipt, reopened, boots, secrets, logged, known, flight,
                          said, failed>>

(* Whether the Exchange, or the token, takes what lands next. *)
Takes(step) ==
  \/ step = "approve"
  \/ step = "createAccount" /\ ~chain.account /\ chain.approved /\ chain.funds
  \/ step = "allowOrderForwarding" /\ chain.account

Lands ==
  /\ pending # <<>>
  /\ LET step == Head(pending)
     IN /\ pending' = Tail(pending)
        /\ receipt' = IF Takes(step) THEN "success" ELSE "reverted"
        /\ chain' = IF ~Takes(step) THEN chain
                    ELSE CASE step = "approve" -> [chain EXCEPT !.approved = TRUE]
                           [] step = "createAccount" ->
                                [chain EXCEPT !.account = TRUE, !.approved = FALSE, !.funds = FALSE]
                           [] OTHER -> [chain EXCEPT !.forwarding = TRUE]
        /\ reopened' = (reopened \/ (step = "createAccount" /\ chain.account))
  /\ UNCHANGED <<active, boots, secrets, logged, known, flight, said, failed>>

(* What is in memory is gone; a key on its way to the store goes with it. *)
Restarts ==
  /\ boots < MaxRestarts
  /\ boots' = boots + 1
  /\ known' = FALSE /\ flight' = Grounded /\ enrolling' = NotEnrolling
  /\ reader' = [r \in Readers |-> "idle"]
  /\ said' = "nothing"
  /\ spoilt' = IF enrolling.pc = "storing" THEN spoilt + 1 ELSE spoilt
  /\ UNCHANGED <<active, chain, pending, receipt, reopened, keys, held, logged, failed>>

EnrollStep == Reads \/ Checks \/ Signs \/ Posts \/ Stores
FlightStep == Starts \/ Plans \/ Opens \/ Sends \/ Receives \/ Records \/ Enrolls

OnboardNext == \/ Ensures \/ FlightStep \/ EnrollStep
               \/ \E r \in Readers : LooksUp(r) \/ Asks(r)
               \/ Funds \/ Revokes \/ Lands \/ Restarts

(* Runs begin, and each ensures the account; what is under way goes on. *)
OnboardFairness == /\ WF_onboardVars(Ensures) /\ WF_onboardVars(FlightStep)
                   /\ WF_onboardVars(EnrollStep) /\ WF_onboardVars(Lands)

OnboardSpec == OnboardInit /\ [][OnboardNext]_onboardVars /\ OnboardFairness

-------------------------------------------------------------------------------
(* A slot of the account's sixteen is used for the key that is held, or was
   lost with an answer, a write or a restart: never for a second key beside a
   good one, however many ask at once (perpl-agent.ts:318, SEN-148). *)
KeysAreNotWasted ==
  keys = spoilt + (IF held \/ enrolling.pc = "storing" THEN 1 ELSE 0)

(* "ready" is said of an account that is open, has its orders forwarded and a
   key in the store (perpl-onboarding.ts:369). *)
ReadyIsTrue == said = "ready" => chain.account /\ chain.forwarding /\ held

(* "An account that exists is never opened again" (perpl-onboarding.ts:29),
   unless it could not be seen: a read failed, or the opening was still out. *)
OpenedOnce == reopened => failed.kinds \cap {"misread", "late"} # {} \/ boots > 0

(* However many ask at once and whatever fails: no slot for a key is used beside
   a good one (perpl-agent.ts:318); "ready" is said of an account that is open,
   forwarded and has a key (perpl-onboarding.ts:369); and an account is opened
   again only if it could not be seen (perpl-onboarding.ts:29). *)
OnboardingIsTrue == OnboardingTypeOK /\ KeysAreNotWasted /\ ReadyIsTrue /\ OpenedOnce

(* An agent that is funded and not revoked has its account, whatever failed on
   the way (perpl-onboarding.ts:29). *)
AccountIsOpened == (chain.funds \/ chain.account) ~> (said = "ready" \/ ~active)
===============================================================================
