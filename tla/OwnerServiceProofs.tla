-------------------------- MODULE OwnerServiceProofs --------------------------
(***************************************************************************)
(* Proofs about what an owner has of the service beside the mandates.      *)
(*                                                                         *)
(* The rules (MandatePolicy).  Whatever an owner asks for, whenever it is  *)
(* amended or revoked, and however the server is reconfigured in between:  *)
(* the rules the record states are those the enclave holds, what the       *)
(* server lets an agent try is what they sign, money has a way home and no *)
(* other way out, and a revoke narrows.                                    *)
(*                                                                         *)
(* The wallet.  One is bound: the call that provisions is the one in       *)
(* flight, while nothing is bound, and whoever joined waits for it         *)
(* (FlightIsOne).                                                          *)
(*                                                                         *)
(* The budget.  One key is minted: only the call in flight creates, and    *)
(* only while none is stored (MintIsOne).                                  *)
(*                                                                         *)
(* What leaves the wallets.  An operation is the only one of a send that   *)
(* was taken (OpsFit); the spacer's queue is the sends between commit and  *)
(* end, and its head alone is under way (TurnsFit); so that what has yet   *)
(* to land is no older than the mark, or slow, or of before a restart      *)
(* (MarkFits).                                                             *)
(*                                                                         *)
(* The anchors.  What an owner asks for only moves on (Below), and         *)
(* so does what is written, in the order of the nonces (SentFits, JobFits),*)
(* which is the order it lands in (OrderFits); an anchor that is stored    *)
(* landed (StoredFits), and what landed since is no older and no newer     *)
(* than the record.                                                        *)
(***************************************************************************)
EXTENDS MandatePolicy, OwnerServices, Sequences, FiniteSets, SequenceTheorems, FiniteSetTheorems, TLAPS

Granted == {Resolved(m, returnTo) : m \in Terms, returnTo \in ReturnTos}

RecordOK ==
  /\ config \in Configs
  /\ agent \in [status : {"active", "revoked"}, cleared : BOOLEAN, mandate : Granted,
                 fee : 0..MostFee, sponsored : BOOLEAN, pinned : BOOLEAN]
  /\ changes \in Nat

(* The live policy was compiled from the record, by the custody the server still
   has.  Until something changed, the record's fee is also the one the pin of
   the hire compiles. *)
RulesAreOfRecord ==
  /\ agent.cleared => /\ agent.status = "revoked"
                       /\ rules = CompileRevocation(agent.mandate, config.custody, agent.sponsored)
  /\ ~agent.cleared => rules = CompileMandate(agent.mandate, config.custody, agent.fee,
                                               DepositsPinned, agent.sponsored)
  /\ changes = 0 => agent.fee = FeeFor(agent.mandate)

PolicyInv == RecordOK /\ RulesAreOfRecord

-------------------------------------------------------------------------------
(* withSponsoredSends adds to a larger policy no less. *)
LEMMA SponsoredGrows ==
  ASSUME NEW P, NEW Q, P \subseteq Q, NEW s \in BOOLEAN
  PROVE  WithSponsoredSends(P, s) \subseteq WithSponsoredSends(Q, s)
  BY DEF WithSponsoredSends

(* Every rule that survives a revocation is a rule of the mandate, however it
   was compiled. *)
LEMMA RevocationSurvives ==
  ASSUME NEW m, NEW custody, NEW fee, NEW pinned, NEW s \in BOOLEAN
  PROVE  CompileRevocation(m, custody, s) \subseteq CompileMandate(m, custody, fee, pinned, s)
<1> DEFINE risky == { IF "kuru" \in m.venues THEN KuruRules(m, custody, pinned) ELSE {},
                      IF "kuru" \in m.venues /\ fee # 0 /\ m.markets # {} THEN BuilderRules(m, fee) ELSE {},
                      IF "perpl" \in m.venues THEN PerplRules(m) ELSE {},
                      RecoveryRules(m, custody) }
<1>1. RecoveryRules(m, custody) \subseteq UNION risky
  OBVIOUS
<1> HIDE DEF risky
<1>2. WithSponsoredSends(RecoveryRules(m, custody), s) \subseteq WithSponsoredSends(UNION risky, s)
  BY <1>1, SponsoredGrows
<1> QED BY <1>2 DEF CompileRevocation, CompileMandate, risky

(* Where nothing is deposited there is nothing to pin. *)
LEMMA PinIsMoot ==
  ASSUME NEW m, NEW custody, NEW fee, NEW s, NEW pinned \in BOOLEAN,
         ~CompilesKuruDeposit(m, custody)
  PROVE  CompileMandate(m, custody, fee, pinned, s) = CompileMandate(m, custody, fee, TRUE, s)
<1>1. CASE "kuru" \notin m.venues
  BY <1>1 DEF CompileMandate
<1>2. CASE "kuru" \in m.venues /\ custody # "account-id"
  <2>1. KuruRules(m, custody, pinned) = KuruRules(m, custody, TRUE)
    BY <1>2 DEF KuruRules
  <2> QED BY <2>1 DEF CompileMandate
<1>3. CASE "kuru" \in m.venues /\ DOMAIN m.caps = {}
  <2>1. KuruRules(m, custody, pinned) = KuruRules(m, custody, TRUE)
    BY <1>3 DEF KuruRules
  <2> QED BY <2>1 DEF CompileMandate
<1> QED BY <1>1, <1>2, <1>3 DEF CompilesKuruDeposit

LEMMA FeeOfResolved ==
  ASSUME PolicyAssumption, config \in Configs, NEW m \in Terms, NEW returnTo \in ReturnTos
  PROVE  /\ FeeFor(Resolved(m, returnTo)) = FeeFor(m)
         /\ FeeFor(m) \in 0..MostFee
         /\ Resolved(m, returnTo) \in Granted
         /\ CompilesKuruDeposit(Resolved(m, returnTo), config.custody)
              = CompilesKuruDeposit(m, config.custody)
  BY DEF FeeFor, Resolved, Configs, PolicyAssumption, Granted, CompilesKuruDeposit

-------------------------------------------------------------------------------
(* Since the flag says what the deposits name, the rules are the stated ones. *)
LEMMA StatedAsHeld ==
  ASSUME PolicyInv, agent.status = "active" \/ agent.cleared
  PROVE  StatedRules = rules
<1>1. CASE agent.cleared
  BY <1>1 DEF PolicyInv, RulesAreOfRecord, StatedRules
<1>2. CASE ~agent.cleared
  <2>1. agent.status = "active"
    BY <1>2 
  <2> QED BY <1>2, <2>1 DEF PolicyInv, RulesAreOfRecord, StatedRules
<1> QED BY <1>1, <1>2

LEMMA InitHolds ==
  ASSUME PolicyAssumption, PolicyInit
  PROVE  PolicyInv
<1>1. PICK m \in Terms, returnTo \in ReturnTos :
        /\ config \in Configs
        /\ agent = [status |-> "active", cleared |-> FALSE, mandate |-> Resolved(m, returnTo),
                     fee |-> FeeFor(m), sponsored |-> config.sponsored,
                     pinned |-> ~CompilesKuruDeposit(m, config.custody)]
        /\ rules = CompileMandate(Resolved(m, returnTo), config.custody, FeeFor(m), FALSE,
                                  config.sponsored)
        /\ changes = 0
  BY DEF PolicyInit
<1>2. /\ FeeFor(Resolved(m, returnTo)) = FeeFor(m) /\ FeeFor(m) \in 0..MostFee
      /\ Resolved(m, returnTo) \in Granted
      /\ CompilesKuruDeposit(Resolved(m, returnTo), config.custody)
           = CompilesKuruDeposit(m, config.custody)
      /\ config.sponsored \in BOOLEAN
  BY <1>1, FeeOfResolved DEF Configs
<1>3. RecordOK
  BY <1>1, <1>2 DEF RecordOK, CompilesKuruDeposit
<1>4. DepositsPinned <=> FALSE \/ ~CompilesKuruDeposit(agent.mandate, config.custody)
  BY <1>1, <1>2 DEF DepositsPinned, CompilesKuruDeposit
<1>5. rules = CompileMandate(agent.mandate, config.custody, agent.fee, DepositsPinned,
                             agent.sponsored)
  <2>1. DepositsPinned \in BOOLEAN
    BY DEF DepositsPinned, CompilesKuruDeposit
  <2>2. CASE DepositsPinned
    <3>1. ~CompilesKuruDeposit(agent.mandate, config.custody)
      BY <1>4, <2>2
    <3>2. DepositsPinned = TRUE
      BY <2>1, <2>2
    <3>3. rules = CompileMandate(agent.mandate, config.custody, agent.fee, FALSE, agent.sponsored)
      BY <1>1
    <3> QED BY <3>1, <3>2, <3>3, PinIsMoot
  <2>3. CASE ~DepositsPinned
    <3>1. DepositsPinned = FALSE
      BY <2>1, <2>3
    <3> QED BY <3>1, <1>1
  <2> QED BY <2>2, <2>3
<1> QED BY <1>1, <1>2, <1>3, <1>5 DEF PolicyInv, RulesAreOfRecord

(* A PATCH of an active agent: the record says pinned of what was compiled so. *)
LEMMA CompiledAnew ==
  ASSUME RecordOK, NEW m \in Granted, NEW fee \in 0..MostFee, NEW n \in Nat,
         agent.status = "active", ~agent.cleared,
         config' = config, changes' = n, n = 0 => fee = FeeFor(m),
         agent' = [agent EXCEPT !.mandate = m, !.fee = fee, !.pinned = TRUE,
                                  !.sponsored = config.sponsored],
         rules' = CompileMandate(m, config.custody, fee, TRUE, config.sponsored)
  PROVE  PolicyInv'
<1>1. /\ agent'.status = "active" /\ agent'.cleared = FALSE /\ agent'.mandate = m
      /\ agent'.fee = fee /\ agent'.pinned = TRUE /\ agent'.sponsored = config.sponsored
  BY DEF RecordOK
<1>2. RecordOK'
  BY DEF RecordOK, Configs
<1>3. DepositsPinned' = TRUE
  BY <1>1 DEF DepositsPinned
<1>4. FeeFor(agent.mandate)' = FeeFor(m)
  BY <1>1 DEF FeeFor
<1> QED BY <1>1, <1>2, <1>3, <1>4 DEF PolicyInv, RulesAreOfRecord

LEMMA StepHolds ==
  ASSUME PolicyAssumption, PolicyInv, PolicyNext
  PROVE  PolicyInv'
<1> USE DEF PolicyInv
<1>1. CASE PinKuruDeposit
  <2>1. agent.status = "active" /\ ~agent.cleared /\ changes = 0
    BY <1>1 DEF PinKuruDeposit, RulesAreOfRecord, RecordOK
  <2>2. agent.fee = FeeFor(agent.mandate) /\ agent.mandate \in Granted /\ agent.fee \in 0..MostFee
    BY <2>1 DEF RulesAreOfRecord, RecordOK
  <2>3. agent' = [agent EXCEPT !.mandate = agent.mandate, !.fee = agent.fee, !.pinned = TRUE,
                                 !.sponsored = config.sponsored]
    BY <1>1 DEF PinKuruDeposit, RecordOK
  <2> QED BY <1>1, <2>1, <2>2, <2>3, CompiledAnew DEF PinKuruDeposit
<1>2. ASSUME NEW m \in Terms, AmendPolicy(m) PROVE PolicyInv'
  <2>1. PICK returnTo \in ReturnTos :
          /\ rules' = CompileMandate(Resolved(m, returnTo), config.custody, FeeFor(m), TRUE,
                                     config.sponsored)
          /\ agent' = [agent EXCEPT !.mandate = Resolved(m, returnTo), !.fee = FeeFor(m),
                                      !.pinned = TRUE, !.sponsored = config.sponsored]
    BY <1>2 DEF AmendPolicy
  <2>2. agent.status = "active" /\ ~agent.cleared /\ changes + 1 \in Nat /\ changes + 1 # 0
    BY <1>2 DEF AmendPolicy, RulesAreOfRecord, RecordOK
  <2>3. Resolved(m, returnTo) \in Granted /\ FeeFor(m) \in 0..MostFee
    BY FeeOfResolved DEF RecordOK
  <2> QED BY <1>2, <2>1, <2>2, <2>3, CompiledAnew DEF AmendPolicy
<1>3. CASE RevokePolicy
  <2>1. config' = config /\ changes' = changes /\ ~agent.cleared
    BY <1>3 DEF RevokePolicy
  <2>2. CASE /\ rules' = CompileRevocation(agent.mandate, config.custody, config.sponsored)
             /\ agent' = [agent EXCEPT !.status = "revoked", !.cleared = TRUE,
                                         !.sponsored = config.sponsored]
    <3>1. RecordOK'
      BY <2>1, <2>2 DEF RecordOK, Configs
    <3>2. /\ agent'.cleared = TRUE /\ agent'.status = "revoked" /\ agent'.fee = agent.fee
          /\ agent'.mandate = agent.mandate /\ agent'.sponsored = config.sponsored
      BY <2>2 DEF RecordOK
    <3> QED BY <2>1, <2>2, <3>1, <3>2 DEF RulesAreOfRecord, FeeFor
  <2>3. CASE rules' = rules /\ agent' = [agent EXCEPT !.status = "revoked"]
    <3>1. RecordOK'
      BY <2>1, <2>3 DEF RecordOK
    <3>2. /\ agent'.cleared = agent.cleared /\ agent'.fee = agent.fee
          /\ agent'.mandate = agent.mandate /\ agent'.sponsored = agent.sponsored
          /\ agent'.pinned = agent.pinned
      BY <2>3 DEF RecordOK
    <3> QED BY <2>1, <2>3, <3>1, <3>2 DEF RulesAreOfRecord, FeeFor, DepositsPinned
  <2> QED BY <1>3, <2>2, <2>3 DEF RevokePolicy
<1>4. CASE Redeploy
  <2>1. /\ config' \in Configs /\ config'.custody = config.custody
        /\ agent' = agent /\ rules' = rules /\ changes' = changes + 1
    BY <1>4 DEF Redeploy
  <2>2. RecordOK'
    BY <2>1 DEF RecordOK
  <2>3. changes' # 0 /\ DepositsPinned' = DepositsPinned
    BY <2>1 DEF RecordOK, DepositsPinned, CompilesKuruDeposit
  <2> QED BY <2>1, <2>2, <2>3 DEF RulesAreOfRecord
<1>5. CASE UNCHANGED <<config, agent, rules, changes>>
  BY <1>5 DEF RecordOK, RulesAreOfRecord, DepositsPinned, FeeFor, CompilesKuruDeposit
<1> QED BY <1>1, <1>2, <1>3, <1>4, <1>5 DEF PolicyNext, Tick, Sign

LEMMA StutterHolds ==
  ASSUME PolicyInv, UNCHANGED policyVars
  PROVE  PolicyInv'
  BY DEF policyVars, PolicyInv, RecordOK, RulesAreOfRecord, DepositsPinned, FeeFor,
         CompilesKuruDeposit

LEMMA RulesKept ==
  ASSUME PolicyAssumption
  PROVE  PolicySpec => []PolicyInv
<1>1. PolicyInit => PolicyInv
  BY InitHolds
<1>2. PolicyInv /\ [PolicyNext]_policyVars => PolicyInv'
  BY StepHolds, StutterHolds
<1> QED BY <1>1, <1>2, PTL DEF PolicySpec

(* What the anchor publishes of an agent, compiled from its record under the
   configuration of the moment, is what the enclave holds (mandate-anchor.ts:77). *)
THEOREM RecordStatesRules ==
  ASSUME PolicyAssumption
  PROVE  PolicySpec => []RecordTellsRules
<1>1. PolicyInv => RecordTellsRules
  BY StatedAsHeld DEF RecordTellsRules
<1> QED BY <1>1, RulesKept, PTL

-------------------------------------------------------------------------------
(* A policy with fewer rules signs no more. *)
LEMMA FewerSignLess ==
  ASSUME NEW P, NEW Q, P \subseteq Q, NEW moment
  PROVE  Admitted(P, moment) \subseteq Admitted(Q, moment)
  BY DEF Admitted, Signs

(* The rules of a policy without sponsored sends are among those with them. *)
LEMMA SponsoredAdds ==
  ASSUME NEW P, NEW s \in BOOLEAN, NEW s2 \in BOOLEAN, s => s2
  PROVE  WithSponsoredSends(P, s) \subseteq WithSponsoredSends(P, s2)
  BY DEF WithSponsoredSends

(* A revoke takes authority away and adds none (policy.ts:417), unless the server
   was started with sponsored sends since the policy was compiled. *)
THEOREM RevokeOnlyNarrows ==
  ASSUME PolicyAssumption
  PROVE  PolicySpec => RevokeNarrows
<1>1. ASSUME PolicyInv, [PolicyNext]_policyVars, agent'.cleared, ~agent.cleared,
             config.sponsored => agent.sponsored
      PROVE  Admitted(rules', now) \subseteq Admitted(rules, now)
  <2>1. RevokePolicy
    <3>1. CASE UNCHANGED policyVars
      BY <1>1, <3>1 DEF policyVars
    <3>2. CASE PinKuruDeposit
      BY <1>1, <3>2 DEF PinKuruDeposit, PolicyInv, RecordOK
    <3>3. ASSUME NEW m \in Terms, AmendPolicy(m) PROVE FALSE
      BY <1>1, <3>3 DEF AmendPolicy, PolicyInv, RecordOK
    <3>4. CASE agent' = agent
      BY <1>1, <3>4
    <3> QED BY <1>1, <3>1, <3>2, <3>3, <3>4 DEF PolicyNext, Redeploy, Tick, Sign
  <2>2. rules' = CompileRevocation(agent.mandate, config.custody, config.sponsored)
    BY <1>1, <2>1 DEF RevokePolicy, PolicyInv, RecordOK
  <2>3. config.sponsored \in BOOLEAN /\ agent.sponsored \in BOOLEAN
    BY <1>1 DEF PolicyInv, RecordOK, Configs
  <2>4. rules' \subseteq CompileRevocation(agent.mandate, config.custody, agent.sponsored)
    BY <1>1, <2>2, <2>3, SponsoredAdds DEF CompileRevocation
  <2>5. CompileRevocation(agent.mandate, config.custody, agent.sponsored) \subseteq rules
    BY <1>1, <2>3, RevocationSurvives DEF PolicyInv, RulesAreOfRecord
  <2> QED BY <2>4, <2>5, FewerSignLess
<1>2. PolicyInv /\ [PolicyNext]_policyVars =>
        [agent'.cleared /\ ~agent.cleared /\ (config.sponsored => agent.sponsored) =>
           Admitted(rules', now) \subseteq Admitted(rules, now)]_policyVars
  BY <1>1
<1> QED BY <1>2, RulesKept, PTL DEF PolicySpec, RevokeNarrows

-------------------------------------------------------------------------------
(* What a rule pins.  A rule is a record of these fields, which a copy for
   sponsored sends shares but for the method. *)
IsRule(r) == r = [method |-> r.method, fn |-> r.fn, to |-> r.to, pin |-> r.pin,
                  value |-> r.value, until |-> r.until]

LEMMA SponsoredCopies ==
  ASSUME NEW P, \A b \in P : IsRule(b), NEW s, NEW r \in WithSponsoredSends(P, s)
  PROVE  \E b \in P : /\ r.fn = b.fn /\ r.pin = b.pin /\ r.value = b.value /\ r.until = b.until
<1>1. CASE r \in P
  BY <1>1
<1>2. CASE \E b \in P : r = [b EXCEPT !.method = "send"]
  <2>1. PICK b \in P : r = [b EXCEPT !.method = "send"]
    BY <1>2
  <2>2. IsRule(b)
    OBVIOUS
  <2>3. r = [method |-> "send", fn |-> b.fn, to |-> b.to, pin |-> b.pin, value |-> b.value,
             until |-> b.until]
    BY <2>1, <2>2 DEF IsRule
  <2> QED BY <2>3
<1> QED BY <1>1, <1>2 DEF WithSponsoredSends

(* The rules that take risk end with the mandate; where deposits are pinned they
   credit the agent; and an order carries no MON. *)
RiskRule(r, m, custody, pinned) ==
  /\ IsRule(r) /\ r.until = m.until
  /\ r.fn \notin {"withdraw", "transfer"}
  /\ r.fn = "deposit" /\ pinned /\ custody = "account-id" => r.pin.party = {"self"}
  /\ r.fn = "batch" => r.value = 0

LEMMA RiskEnds ==
  ASSUME NEW m, NEW custody, NEW fee, NEW pinned \in BOOLEAN,
         NEW r \in KuruRules(m, custody, pinned) \cup BuilderRules(m, fee) \cup PerplRules(m)
  PROVE  RiskRule(r, m, custody, pinned)
<1>1. CASE r \in KuruRules(m, custody, pinned)
  BY <1>1 DEF KuruRules, Rule, Pin, AnyPin, RiskRule, IsRule
<1>2. CASE r \in BuilderRules(m, fee)
  BY <1>2 DEF BuilderRules, Rule, Pin, AnyPin, RiskRule, IsRule
<1>3. CASE r \in PerplRules(m)
  BY <1>3 DEF PerplRules, Rule, Pin, AnyPin, RiskRule, IsRule
<1> QED BY <1>1, <1>2, <1>3

(* The rules that bring money home name the owner's wallet. *)
HomeRule(r, m, custody) ==
  /\ IsRule(r) /\ m.returnTo # Nobody /\ r.fn \in {"withdraw", "transfer"}
  /\ r.fn = "transfer" \/ custody = "account-id" => r.pin.party = {m.returnTo}

LEMMA HomeIsPinned ==
  ASSUME NEW m, NEW custody, NEW r \in RecoveryRules(m, custody)
  PROVE  HomeRule(r, m, custody)
<1>1. m.returnTo # Nobody
  BY DEF RecoveryRules
<1>2. CASE r \in ReturnRules(m)
  BY <1>1, <1>2 DEF ReturnRules, Rule, Pin, HomeRule, IsRule
<1>3. CASE r = KuruWithdrawRule(m, custody)
  BY <1>1, <1>3 DEF KuruWithdrawRule, Rule, Pin, AnyPin, HomeRule, IsRule
<1> QED BY <1>1, <1>2, <1>3 DEF RecoveryRules

(* Whatever is signed is signed by a rule of one of the two kinds, and of the
   second if the agent is revoked. *)
LEMMA SignedByKind ==
  ASSUME PolicyInv, NEW q, NEW method, Signs(rules, method, q, now)
  PROVE  \E b : /\ b.fn = q.fn /\ q.party \in b.pin.party /\ q.value <= b.value /\ now <= b.until
               /\ \/ ~agent.cleared /\ RiskRule(b, agent.mandate, config.custody, DepositsPinned)
                  \/ HomeRule(b, agent.mandate, config.custody)
<1> DEFINE m == agent.mandate
           c == config.custody
           home == RecoveryRules(m, c)
           risk == UNION { IF "kuru" \in m.venues THEN KuruRules(m, c, DepositsPinned) ELSE {},
                           IF "kuru" \in m.venues /\ agent.fee # 0 /\ m.markets # {}
                           THEN BuilderRules(m, agent.fee) ELSE {},
                           IF "perpl" \in m.venues THEN PerplRules(m) ELSE {},
                           home }
<1>1. PICK r \in rules : Admits(r, method, q, now)
  BY DEF Signs
<1>2. \A b \in home : HomeRule(b, m, c)
  BY HomeIsPinned
<1>3. DepositsPinned \in BOOLEAN
  <2>1. agent.pinned \in BOOLEAN
    BY DEF PolicyInv, RecordOK
  <2> QED BY <2>1 DEF DepositsPinned
<1>4. \A b \in risk : RiskRule(b, m, c, DepositsPinned) \/ b \in home
  BY <1>3, RiskEnds
<1>5. CASE agent.cleared
  <2>1. r \in WithSponsoredSends(home, agent.sponsored)
    BY <1>1, <1>5 DEF PolicyInv, RulesAreOfRecord, CompileRevocation
  <2>2. \A b \in home : IsRule(b)
    BY <1>2 DEF HomeRule
  <2>3. PICK b \in home : r.fn = b.fn /\ r.pin = b.pin /\ r.value = b.value /\ r.until = b.until
    BY <2>1, <2>2, SponsoredCopies
  <2> QED BY <1>1, <1>2, <2>3 DEF Admits
<1>6. CASE ~agent.cleared
  <2>1. r \in WithSponsoredSends(risk, agent.sponsored)
    BY <1>1, <1>6 DEF PolicyInv, RulesAreOfRecord, CompileMandate
  <2>2. \A b \in risk : IsRule(b)
    BY <1>2, <1>4 DEF HomeRule, RiskRule
  <2> HIDE DEF risk, home
  <2>3. PICK b \in risk : r.fn = b.fn /\ r.pin = b.pin /\ r.value = b.value /\ r.until = b.until
    BY <2>1, <2>2, SponsoredCopies
  <2> QED BY <1>1, <1>2, <1>4, <1>6, <2>3 DEF Admits
<1> QED BY <1>5, <1>6

(* The calls that move a holding, and what they carry. *)
LEMMA MovingCalls ==
  ASSUME PolicyAssumption, NEW q \in SigningRequests, Moves(q)
  PROVE  /\ q.fn \in {"deposit", "withdraw", "transfer", "createAccount", "batch"}
         /\ q.fn = "batch" => q.value = 1
         /\ q.token \in Tokens
<1> USE DEF SigningRequest, Moves, Tokens, PolicyAssumption
<1>1. CASE \E t \in Tokens \ {Native}, p \in {"core", "exchange", "stranger"}, a \in 1..MaxAmount :
             q = Approve(t, p, a)
  BY <1>1 DEF Approve
<1>2. CASE \E t \in KuruTokens, p \in {"self", "stranger"}, a \in 1..MaxAmount : q = Deposit(t, p, a)
  BY <1>2 DEF Deposit
<1>3. CASE \E t \in KuruTokens, p \in {"owner", "self", "stranger"} : q = Withdraw(t, p)
  BY <1>3 DEF Withdraw
<1>4. CASE \E t \in Tokens \ {Native}, p \in {"owner", "stranger"} : q = Transfer(t, p)
  BY <1>4 DEF Transfer
<1>5. CASE \E a \in 1..MaxAmount : q = OpenAccount(a)
  BY <1>5 DEF OpenAccount
<1>6. CASE q \in {Forward, Enroll}
  BY <1>6 DEF Forward, Enroll
<1>7. CASE \E m \in Markets, v \in {0, 1} : q = Batch(m, v)
  BY <1>7 DEF Batch
<1>8. CASE \E m \in Markets : q = FeeBatch(m)
  BY <1>8 DEF FeeBatch
<1>9. CASE \E u \in 0..Forever, f \in 1..AnyFee : q = ApproveBuilder(u, f)
  BY <1>9 DEF ApproveBuilder
<1> QED BY <1>1, <1>2, <1>3, <1>4, <1>5, <1>6, <1>7, <1>8, <1>9 DEF SigningRequests

HoldingsTyped == at \in [Tokens -> {"wallet", "kuru", "perpl", "home", "stranger"}]

LEMMA HoldingsKept ==
  PolicySpec => []HoldingsTyped
<1>1. PolicyInit => HoldingsTyped
  BY DEF PolicyInit, HoldingsTyped
<1>2. HoldingsTyped /\ [PolicyNext]_policyVars => HoldingsTyped'
  <2>1. ASSUME HoldingsTyped, NEW q \in SigningRequests, Sign(q) PROVE HoldingsTyped'
    <3>1. Goes(q) \in {"wallet", "kuru", "perpl", "home", "stranger"}
      BY DEF Goes
    <3> QED BY <2>1, <3>1 DEF Sign, HoldingsTyped
  <2> QED BY <2>1 DEF HoldingsTyped, PolicyNext, PinKuruDeposit, AmendPolicy, RevokePolicy,
             Redeploy, Tick,
                      policyVars
<1> QED BY <1>1, <1>2, PTL DEF PolicySpec

(* Where a signed call takes a holding. *)
LEMMA SignedGoesHome ==
  ASSUME PolicyAssumption, PolicyInv, NEW q \in SigningRequests, Moves(q),
         NEW method, Signs(rules, method, q, now)
  PROVE  /\ Goes(q) = "stranger" => ~DepositsPinned
         /\ Goes(q) \in {"kuru", "perpl", "stranger"} =>
              now <= agent.mandate.until /\ ~agent.cleared
<1> DEFINE m == agent.mandate
           c == config.custody
<1>1. PICK b : /\ b.fn = q.fn /\ q.party \in b.pin.party /\ q.value <= b.value /\ now <= b.until
               /\ \/ ~agent.cleared /\ RiskRule(b, m, c, DepositsPinned)
                  \/ HomeRule(b, m, c)
  BY SignedByKind
<1>2. /\ q.fn \in {"deposit", "withdraw", "transfer", "createAccount", "batch"}
      /\ q.fn = "batch" => q.value = 1
  BY MovingCalls
<1>3. c \in {"account-id", "address-keyed"}
  BY DEF PolicyInv, RecordOK, Configs, PolicyAssumption
<1>4. m.returnTo \in ReturnTos
  BY DEF PolicyInv, RecordOK, Granted, Resolved
<1>5. CASE HomeRule(b, m, c)
  <2>1. q.fn \in {"withdraw", "transfer"} /\ m.returnTo = "owner"
    BY <1>1, <1>4, <1>5 DEF HomeRule, ReturnTos
  <2>2. CASE q.fn = "transfer"
    <3>1. q.party = "owner"
      BY <1>1, <1>5, <2>1, <2>2 DEF HomeRule
    <3> QED BY <2>2, <3>1 DEF Goes
  <2>3. CASE q.fn = "withdraw" /\ c = "account-id"
    <3>1. q.party = "owner"
      BY <1>1, <1>5, <2>1, <2>3 DEF HomeRule
    <3> QED BY <2>3, <3>1 DEF Goes
  <2>4. CASE q.fn = "withdraw" /\ c = "address-keyed"
    BY <2>4 DEF Goes
  <2> QED BY <1>3, <2>1, <2>2, <2>3, <2>4
<1>6. CASE ~agent.cleared /\ RiskRule(b, m, c, DepositsPinned)
  <2>1. now <= m.until
    BY <1>1, <1>6 DEF RiskRule
  <2>2. q.fn # "batch"
    BY <1>1, <1>2, <1>6 DEF RiskRule
  <2>3. q.fn \in {"deposit", "createAccount"}
    BY <1>1, <1>2, <1>6, <2>2 DEF RiskRule
  <2>4. Goes(q) = "stranger" => q.fn = "deposit" /\ q.party # "self" /\ c = "account-id"
    BY <2>3, <1>3 DEF Goes
  <2>5. Goes(q) = "stranger" => ~DepositsPinned
    BY <1>1, <1>6, <2>4 DEF RiskRule
  <2> QED BY <1>6, <2>1, <2>5
<1> QED BY <1>1, <1>5, <1>6

(* Money leaves an agent's reach only toward its owner, but by a deposit of a
   hire not yet pinned, and reaches a venue only under a mandate in force, whatever
   its key asks to sign (policy.ts:26). *)
THEOREM MoneyOnlyComesHome ==
  ASSUME PolicyAssumption
  PROVE  PolicySpec => MovesOnlyHome
<1> DEFINE Kept == \A t \in Tokens : at'[t] # at[t] =>
                     /\ at'[t] = "stranger" => ~DepositsPinned
                     /\ at'[t] \in {"kuru", "perpl", "stranger"} => /\ now <= agent.mandate.until
                                                                    /\ ~agent.cleared
<1>1. ASSUME PolicyInv, HoldingsTyped, [PolicyNext]_policyVars PROVE Kept
  <2>1. CASE at' = at
    BY <2>1
  <2>2. ASSUME NEW q \in SigningRequests, Sign(q) PROVE Kept
    <3>1. PICK method \in {"sign", "send"} : Signs(rules, method, q, now)
      BY <2>2 DEF Sign
    <3>2. /\ Goes(q) = "stranger" => ~DepositsPinned
          /\ Goes(q) \in {"kuru", "perpl", "stranger"} =>
               now <= agent.mandate.until /\ ~agent.cleared
      BY <1>1, <2>2, <3>1, SignedGoesHome DEF Sign
    <3>3. \A t \in Tokens : at'[t] # at[t] => at'[t] = Goes(q)
      BY <1>1, <2>2 DEF Sign, HoldingsTyped
    <3> QED BY <3>2, <3>3
  <2> QED BY <1>1, <2>1, <2>2 DEF PolicyNext, PinKuruDeposit, AmendPolicy, RevokePolicy,
             Redeploy, Tick,
                                  policyVars
<1>2. PolicyInv /\ HoldingsTyped /\ [PolicyNext]_policyVars => [Kept]_policyVars
  BY <1>1
<1> QED BY <1>2, RulesKept, HoldingsKept, PTL DEF PolicySpec, MovesOnlyHome

(* Both that money only comes home and that a revoke leaves it fewer ways, of
   every mandate and every sequence of signatures, amends and redeployments. *)
THEOREM MoneyKept ==
  ASSUME PolicyAssumption
  PROVE  PolicySpec => MoneyComesHome
BY MoneyOnlyComesHome, RevokeOnlyNarrows DEF MoneyComesHome

-------------------------------------------------------------------------------
ClockTyped == now \in 0..MaxTime

LEMMA ClockKept ==
  ASSUME PolicyAssumption
  PROVE  PolicySpec => []ClockTyped
<1>1. PolicyInit => ClockTyped
  BY DEF PolicyInit, ClockTyped, PolicyAssumption
<1>2. ClockTyped /\ [PolicyNext]_policyVars => ClockTyped'
  <2>1. ASSUME ClockTyped, Tick PROVE ClockTyped'
    <3>1. MaxTime \in Nat
      BY DEF PolicyAssumption
    <3> QED BY <2>1, <3>1 DEF ClockTyped, Tick
  <2>2. ASSUME ClockTyped, now' = now PROVE ClockTyped'
    BY <2>2 DEF ClockTyped
  <2> QED BY <2>1, <2>2 DEF PolicyNext, PinKuruDeposit, AmendPolicy, RevokePolicy, Redeploy,
             Sign, policyVars
<1> QED BY <1>1, <1>2, PTL DEF PolicySpec

(* The way home is among the rules, revoked or not. *)
LEMMA HomeIsAmongRules ==
  ASSUME PolicyInv
  PROVE  RecoveryRules(agent.mandate, config.custody) \subseteq rules
<1> DEFINE exit == CompileRevocation(agent.mandate, config.custody, agent.sponsored)
<1>1. RecoveryRules(agent.mandate, config.custody) \subseteq exit
  BY DEF CompileRevocation, WithSponsoredSends
<1>2. agent.sponsored \in BOOLEAN
  BY DEF PolicyInv, RecordOK
<1>3. exit \subseteq rules
  BY <1>2, RevocationSurvives DEF PolicyInv, RulesAreOfRecord
<1> QED BY <1>1, <1>3

(* What an agent whose owner is known holds at its wallet, or on Kuru while its
   mandate names Kuru, has a way home at any time, expired and revoked or not
   (policy.ts:430). *)
THEOREM ExitNeverCloses ==
  ASSUME PolicyAssumption
  PROVE  PolicySpec => []ExitStaysOpen
<1>1. ASSUME PolicyInv, ClockTyped PROVE ExitStaysOpen
  <2> DEFINE m == agent.mandate
             c == config.custody
  <2> SUFFICES ASSUME m.returnTo # Nobody, NEW t \in Tokens
               PROVE  /\ t # Native => Signs(rules, "sign", Transfer(t, "owner"), now)
                      /\ "kuru" \in m.venues => Signs(rules, "sign", Withdraw(t, "owner"), now)
    BY DEF ExitStaysOpen
  <2>1. m.returnTo = "owner" /\ now <= Forever /\ 1 <= AnyAmount
    BY <1>1 DEF PolicyInv, RecordOK, Granted, Resolved, ReturnTos, ClockTyped, Forever, AnyAmount,
                PolicyAssumption
  <2>2. ASSUME t # Native PROVE Signs(rules, "sign", Transfer(t, "owner"), now)
    <3> DEFINE r == Rule("transfer", t, Pin({m.returnTo}, Tokens, AnyAmount), 0, Forever)
    <3>1. r \in rules
      BY <1>1, <2>2, HomeIsAmongRules DEF RecoveryRules, ReturnRules
    <3>2. Admits(r, "sign", Transfer(t, "owner"), now)
      BY <2>1 DEF Admits, Rule, Pin, Transfer, SigningRequest, AnyFee, PolicyAssumption
    <3> QED BY <3>1, <3>2 DEF Signs
  <2>3. ASSUME "kuru" \in m.venues PROVE Signs(rules, "sign", Withdraw(t, "owner"), now)
    <3>1. KuruWithdrawRule(m, c) \in rules
      BY <1>1, <2>3, HomeIsAmongRules DEF RecoveryRules
    <3>2. Admits(KuruWithdrawRule(m, c), "sign", Withdraw(t, "owner"), now)
      BY <2>1 DEF KuruWithdrawRule, Admits, Rule, Pin, AnyPin, Parties, Withdraw,
                  SigningRequest, AnyFee, PolicyAssumption
    <3> QED BY <3>1, <3>2 DEF Signs
  <2> QED BY <2>2, <2>3
<1> QED BY <1>1, RulesKept, ClockKept, PTL

-------------------------------------------------------------------------------
(* The rules of a mandate in force, but for the copies for sponsored sends. *)
SignRules ==
  LET m == agent.mandate
  IN  UNION { IF "kuru" \in m.venues THEN KuruRules(m, config.custody, DepositsPinned) ELSE {},
              IF "kuru" \in m.venues /\ agent.fee # 0 /\ m.markets # {}
              THEN BuilderRules(m, agent.fee) ELSE {},
              IF "perpl" \in m.venues THEN PerplRules(m) ELSE {},
              RecoveryRules(m, config.custody) }

SignedBoth(q) == /\ Signs(rules, "sign", q, now)
                 /\ agent.sponsored => Signs(rules, "send", q, now)

Credited(custody, pinned) == IF pinned /\ custody = "account-id" THEN {"self"} ELSE Parties
KuruDeposit(m, custody, pinned, t) ==
  Rule("deposit", "core", Pin(Credited(custody, pinned), {t}, m.caps[t]),
       IF t = Native THEN m.caps[t] ELSE 0, m.until)
KuruApprove(m, t) == Rule("approve", t, Pin({"core"}, Tokens, m.caps[t]), 0, m.until)
KuruBatch(m, b)   == Rule("batch", b, AnyPin, 0, m.until)

LEMMA KuruForm ==
  ASSUME NEW m, NEW custody, NEW pinned
  PROVE  KuruRules(m, custody, pinned)
           = {KuruDeposit(m, custody, pinned, t) : t \in DOMAIN m.caps}
             \cup {KuruApprove(m, t) : t \in DOMAIN m.caps \ {Native}}
             \cup {KuruBatch(m, b) : b \in m.markets}
  BY DEF KuruRules, KuruDeposit, KuruApprove, KuruBatch, Credited

LEMMA KuruSigns ==
  ASSUME NEW m, NEW custody, NEW pinned, NEW r \in KuruRules(m, custody, pinned)
  PROVE  /\ r.method = "sign" /\ r.fn \in {"deposit", "approve", "batch"}
         /\ r.fn = "batch" => \E b \in m.markets : r = KuruBatch(m, b)
<1>1. ASSUME NEW t, r = KuruDeposit(m, custody, pinned, t)
      PROVE  r.method = "sign" /\ r.fn = "deposit"
  BY <1>1 DEF KuruDeposit, Rule
<1>2. ASSUME NEW t, r = KuruApprove(m, t) PROVE r.method = "sign" /\ r.fn = "approve"
  BY <1>2 DEF KuruApprove, Rule
<1>3. ASSUME NEW b, r = KuruBatch(m, b) PROVE r.method = "sign" /\ r.fn = "batch"
  BY <1>3 DEF KuruBatch, Rule
<1> QED BY <1>1, <1>2, <1>3, KuruForm

LEMMA SignRuleForm ==
  ASSUME PolicyInv, NEW r \in SignRules
  PROVE  /\ IsRule(r)
         /\ \/ /\ "kuru" \in agent.mandate.venues
               /\ r \in KuruRules(agent.mandate, config.custody, DepositsPinned)
            \/ "kuru" \in agent.mandate.venues /\ r \in BuilderRules(agent.mandate, agent.fee)
            \/ "perpl" \in agent.mandate.venues /\ r \in PerplRules(agent.mandate)
            \/ r \in RecoveryRules(agent.mandate, config.custody)
         /\ r.method # "send"
<1>1. DepositsPinned \in BOOLEAN
  <2>1. agent.pinned \in BOOLEAN
    BY DEF PolicyInv, RecordOK
  <2> QED BY <2>1 DEF DepositsPinned
<1>2. \/ /\ "kuru" \in agent.mandate.venues
         /\ r \in KuruRules(agent.mandate, config.custody, DepositsPinned)
      \/ "kuru" \in agent.mandate.venues /\ r \in BuilderRules(agent.mandate, agent.fee)
      \/ "perpl" \in agent.mandate.venues /\ r \in PerplRules(agent.mandate)
      \/ r \in RecoveryRules(agent.mandate, config.custody)
  BY DEF SignRules
<1>3. IsRule(r)
  BY <1>1, <1>2, RiskEnds, HomeIsPinned DEF RiskRule, HomeRule
<1>4. CASE r \in KuruRules(agent.mandate, config.custody, DepositsPinned)
  <2>1. r.method # "send"
    BY <1>4, KuruSigns
  <2> QED BY <1>2, <1>3, <2>1
<1>5. CASE r \in BuilderRules(agent.mandate, agent.fee)
  <2>1. r.method # "send"
    BY <1>5 DEF BuilderRules, Rule
  <2> QED BY <1>2, <1>3, <2>1
<1>6. CASE r \in PerplRules(agent.mandate)
  <2>1. r.method # "send"
    BY <1>6 DEF PerplRules, Rule
  <2> QED BY <1>2, <1>3, <2>1
<1>7. CASE r \in RecoveryRules(agent.mandate, config.custody)
  <2>1. r.method # "send"
    BY <1>7 DEF RecoveryRules, ReturnRules, KuruWithdrawRule, Rule
  <2> QED BY <1>2, <1>3, <2>1
<1> QED BY <1>2, <1>3, <1>4, <1>5, <1>6, <1>7

LEMMA RulesInForce ==
  ASSUME PolicyInv, agent.status = "active"
  PROVE  rules = WithSponsoredSends(SignRules, agent.sponsored)
  BY DEF PolicyInv, RulesAreOfRecord, CompileMandate, SignRules

(* What one rule admits is signed either way, and only so. *)
LEMMA AdmittedIsSigned ==
  ASSUME PolicyInv, agent.status = "active", NEW q, NEW r \in SignRules,
         Admits(r, "sign", q, now)
  PROVE  SignedBoth(q)
<1>1. IsRule(r) /\ r.method = "sign"
  BY SignRuleForm DEF Admits
<1>2. r \in rules
  BY RulesInForce DEF WithSponsoredSends
<1>3. ASSUME agent.sponsored PROVE Signs(rules, "send", q, now)
  <2> DEFINE twin == [r EXCEPT !.method = "send"]
  <2>1. twin \in rules
    BY <1>1, <1>3, RulesInForce DEF WithSponsoredSends
  <2>2. twin = [method |-> "send", fn |-> r.fn, to |-> r.to, pin |-> r.pin, value |-> r.value,
                until |-> r.until]
    BY <1>1 DEF IsRule
  <2> HIDE DEF twin
  <2>3. Admits(twin, "send", q, now)
    BY <2>2 DEF Admits
  <2> QED BY <2>1, <2>3 DEF Signs
<1> QED BY <1>2, <1>3 DEF Signs, SignedBoth

LEMMA SignedIsAdmitted ==
  ASSUME PolicyInv, agent.status = "active", NEW q, Signs(rules, "sign", q, now)
  PROVE  \E r \in SignRules : Admits(r, "sign", q, now)
<1>1. PICK r \in rules : Admits(r, "sign", q, now)
  BY DEF Signs
<1>2. CASE r \in SignRules
  BY <1>1, <1>2
<1>3. CASE \E b \in SignRules : r = [b EXCEPT !.method = "send"]
  <2>1. PICK b \in SignRules : r = [b EXCEPT !.method = "send"]
    BY <1>3
  <2>2. r = [method |-> "send", fn |-> b.fn, to |-> b.to, pin |-> b.pin, value |-> b.value,
             until |-> b.until]
    BY <2>1, SignRuleForm DEF IsRule
  <2> QED BY <1>1, <2>2 DEF Admits
<1> QED BY <1>1, <1>2, <1>3, RulesInForce DEF WithSponsoredSends

(* The mandates of the record are as the owner may ask for. *)
LEMMA MandateForm ==
  ASSUME PolicyAssumption, PolicyInv
  PROVE  /\ \A t \in DOMAIN agent.mandate.caps : agent.mandate.caps[t] \in Nat
         /\ agent.mandate.collateral \in Nat /\ agent.mandate.until \in Nat
         /\ Native # Ausd /\ Ausd \notin KuruTokens
         /\ DOMAIN agent.mandate.caps \subseteq KuruTokens
         /\ agent.mandate.returnTo \in ReturnTos
<1>1. PICK m \in Terms, returnTo \in ReturnTos : agent.mandate = Resolved(m, returnTo)
  BY DEF PolicyInv, RecordOK, Granted
<1>2. /\ DOMAIN m.caps \subseteq KuruTokens
      /\ \A t \in DOMAIN m.caps : m.caps[t] \in 0..MaxAmount
      /\ m.collateral \in 0..MaxAmount /\ m.until \in 0..MaxTime
  BY DEF PolicyAssumption
<1>3. MaxAmount \in Nat /\ MaxTime \in Nat
  BY DEF PolicyAssumption
<1>4. /\ agent.mandate.caps = m.caps /\ agent.mandate.collateral = m.collateral
      /\ agent.mandate.until = m.until /\ agent.mandate.returnTo = returnTo
  BY <1>1 DEF Resolved
<1>5. Native # Ausd /\ Ausd \notin KuruTokens
  BY DEF PolicyAssumption
<1> QED BY <1>2, <1>3, <1>4, <1>5

(* A token funds Kuru under a rule of its own. *)
LEMMA DepositsAgree ==
  ASSUME PolicyAssumption, PolicyInv, agent.status = "active",
         NEW t \in KuruTokens, NEW a \in 1..MaxAmount
  PROVE  DepositAllowed(agent.mandate, t, a) <=>
           /\ SignedBoth(Deposit(t, "self", a))
           /\ t # Native => SignedBoth(Approve(t, "core", a))
<1> DEFINE m == agent.mandate
           q == Deposit(t, "self", a)
           p == Approve(t, "core", a)
<1>1. /\ q.fn = "deposit" /\ q.to = "core" /\ q.party = "self" /\ q.token = t /\ q.amount = a
      /\ q.value = IF t = Native THEN a ELSE 0
      /\ q.fee = 0
  BY DEF Deposit, SigningRequest
<1>2. /\ p.fn = "approve" /\ p.to = t /\ p.party = "core" /\ p.token = t /\ p.amount = a
      /\ p.value = 0 /\ p.fee = 0
  BY DEF Approve, SigningRequest
<1>3. MaxAmount \in Nat /\ a \in Nat /\ AnyFee \in Nat
  BY DEF PolicyAssumption, AnyFee
<1> HIDE DEF q, p
<1>4. ASSUME DepositAllowed(m, t, a) PROVE SignedBoth(q) /\ (t # Native => SignedBoth(p))
  <2>1. /\ "kuru" \in m.venues /\ now <= m.until /\ t \in DOMAIN m.caps /\ a <= m.caps[t]
    BY <1>3, <1>4, MandateForm DEF DepositAllowed, RiskAllowed
  <2> DEFINE r == KuruDeposit(m, config.custody, DepositsPinned, t)
             u == KuruApprove(m, t)
  <2>2. r \in SignRules /\ (t # Native => u \in SignRules)
    BY <2>1, KuruForm DEF SignRules
  <2>3. "self" \in Credited(config.custody, DepositsPinned)
    BY DEF Credited, Parties
  <2>4. Admits(r, "sign", q, now)
    BY <1>1, <1>3, <2>1, <2>3 DEF Admits, KuruDeposit, Rule, Pin
  <2>5. Admits(u, "sign", p, now)
    BY <1>2, <1>3, <2>1 DEF Admits, KuruApprove, Rule, Pin, Tokens
  <2> QED BY <2>2, <2>4, <2>5, AdmittedIsSigned
<1>5. ASSUME SignedBoth(q) PROVE DepositAllowed(m, t, a)
  <2>1. PICK r \in SignRules : Admits(r, "sign", q, now)
    BY <1>5, SignedIsAdmitted DEF SignedBoth
  <2>2. r.fn = "deposit"
    BY <1>1, <2>1 DEF Admits
  <2>3. "kuru" \in m.venues /\ r \in KuruRules(m, config.custody, DepositsPinned)
    <3>1. r \notin BuilderRules(m, agent.fee)
      BY <2>2 DEF BuilderRules, Rule
    <3>2. r \notin PerplRules(m)
      BY <2>2 DEF PerplRules, Rule
    <3>3. r \notin RecoveryRules(m, config.custody)
      BY <2>2, HomeIsPinned DEF HomeRule
    <3> QED BY <3>1, <3>2, <3>3, SignRuleForm
  <2>4. PICK u \in DOMAIN m.caps : r = KuruDeposit(m, config.custody, DepositsPinned, u)
    BY <2>2, <2>3, KuruForm DEF KuruApprove, KuruBatch, Rule
  <2>5. t = u /\ a <= m.caps[t] /\ now <= m.until
    BY <1>1, <2>1, <2>4 DEF Admits, KuruDeposit, Rule, Pin
  <2>6. a \in 1..m.caps[t]
    BY <1>3, <2>4, <2>5, MandateForm
  <2> QED BY <2>3, <2>4, <2>5, <2>6 DEF DepositAllowed, RiskAllowed
<1> QED BY <1>4, <1>5 DEF q, p

(* Collateral opens an account at Perpl, approved and within its cap. *)
LEMMA CollateralAgrees ==
  ASSUME PolicyAssumption, PolicyInv, agent.status = "active", NEW a \in 1..MaxAmount
  PROVE  CollateralAllowed(agent.mandate, a) <=>
           SignedBoth(OpenAccount(a)) /\ SignedBoth(Approve(Ausd, "exchange", a))
<1> DEFINE m == agent.mandate
           q == OpenAccount(a)
           p == Approve(Ausd, "exchange", a)
           r == Rule("createAccount", "exchange", Pin(Parties, Tokens, m.collateral), 0, m.until)
           u == Rule("approve", Ausd, Pin({"exchange"}, Tokens, m.collateral), 0, m.until)
<1>1. /\ q.fn = "createAccount" /\ q.to = "exchange" /\ q.party = "self" /\ q.token = Ausd
      /\ q.amount = a /\ q.value = 0 /\ q.fee = 0
      /\ p.fn = "approve" /\ p.to = Ausd /\ p.party = "exchange" /\ p.token = Ausd
      /\ p.amount = a /\ p.value = 0 /\ p.fee = 0
  BY DEF OpenAccount, Approve, SigningRequest
<1>2. MaxAmount \in Nat /\ a \in Nat /\ m.collateral \in Nat /\ AnyFee \in Nat
  BY MandateForm DEF PolicyAssumption, AnyFee
<1> HIDE DEF q, p
<1>3. ASSUME CollateralAllowed(m, a) PROVE SignedBoth(q) /\ SignedBoth(p)
  <2>1. "perpl" \in m.venues /\ now <= m.until /\ a <= m.collateral
    BY <1>2, <1>3 DEF CollateralAllowed, RiskAllowed
  <2>2. r \in SignRules /\ u \in SignRules
    BY <2>1 DEF SignRules, PerplRules
  <2>3. Admits(r, "sign", q, now) /\ Admits(u, "sign", p, now)
    BY <1>1, <1>2, <2>1 DEF Admits, Rule, Pin, Parties, Tokens
  <2> QED BY <2>2, <2>3, AdmittedIsSigned
<1>4. ASSUME SignedBoth(q) PROVE CollateralAllowed(m, a)
  <2>1. PICK s \in SignRules : Admits(s, "sign", q, now)
    BY <1>4, SignedIsAdmitted DEF SignedBoth
  <2>2. s.fn = "createAccount"
    BY <1>1, <2>1 DEF Admits
  <2>3. "perpl" \in m.venues /\ s \in PerplRules(m)
    <3>1. s \notin KuruRules(m, config.custody, DepositsPinned)
      BY <2>2, KuruSigns
    <3>2. s \notin BuilderRules(m, agent.fee)
      BY <2>2 DEF BuilderRules, Rule
    <3>3. s \notin RecoveryRules(m, config.custody)
      BY <2>2, HomeIsPinned DEF HomeRule
    <3> QED BY <3>1, <3>2, <3>3, SignRuleForm
  <2>4. s = r
    BY <2>2, <2>3 DEF PerplRules, Rule
  <2>5. a <= m.collateral /\ now <= m.until
    BY <1>1, <2>1, <2>4 DEF Admits, Rule, Pin
  <2> QED BY <1>2, <2>3, <2>5 DEF CollateralAllowed, RiskAllowed
<1> QED BY <1>3, <1>4 DEF q, p

(* The fee is approved within the grant of the record, and by no other rule. *)
BuilderGrant(m) ==
  Rule("approveBuilder", "core", [Pin({"builder"}, Tokens, m.until) EXCEPT !.fee = agent.fee],
       0, m.until)

LEMMA BuilderForm ==
  ASSUME NEW m
  PROVE  LET r == BuilderGrant(m)
         IN  /\ r.method = "sign" /\ r.fn = "approveBuilder" /\ r.to = "core"
             /\ r.value = 0 /\ r.until = m.until
             /\ r.pin.party = {"builder"} /\ r.pin.token = Tokens
             /\ r.pin.atMost = m.until /\ r.pin.fee = agent.fee
  BY DEF BuilderGrant, Rule, Pin

LEMMA FeesAgree ==
  ASSUME PolicyInv, agent.status = "active", NEW u, NEW f,
         Signs(rules, "sign", ApproveBuilder(u, f), now)
  PROVE  f <= agent.fee /\ u <= agent.mandate.until
<1> DEFINE m == agent.mandate
           q == ApproveBuilder(u, f)
<1>1. q.fn = "approveBuilder" /\ q.amount = u /\ q.fee = f
  BY DEF ApproveBuilder, SigningRequest
<1> HIDE DEF q
<1>2. PICK r \in SignRules : Admits(r, "sign", q, now)
  BY SignedIsAdmitted DEF q
<1>3. r.fn = "approveBuilder"
  BY <1>1, <1>2 DEF Admits
<1>4. r \in BuilderRules(m, agent.fee)
  <2>1. r \notin KuruRules(m, config.custody, DepositsPinned)
    BY <1>3, KuruSigns
  <2>2. r \notin PerplRules(m)
    BY <1>3 DEF PerplRules, Rule
  <2>3. r \notin RecoveryRules(m, config.custody)
    BY <1>3, HomeIsPinned DEF HomeRule
  <2> QED BY <2>1, <2>2, <2>3, SignRuleForm
<1>5. r = BuilderGrant(m)
  BY <1>3, <1>4 DEF BuilderRules, BuilderGrant, Rule
<1> QED BY <1>1, <1>2, <1>5, BuilderForm DEF Admits

(* An order goes to a market of the mandate, with the server's fee where the
   policy grants it. *)
LEMMA OrdersAgree ==
  ASSUME PolicyAssumption, PolicyInv, agent.status = "active", NEW b
  PROVE  OrderAllowed(agent.mandate, b) <=>
           \A q \in OrderCalls(agent.mandate, b) : SignedBoth(q)
<1> DEFINE m == agent.mandate
           order(q) == q.to = b /\ q.fn \in {"batch", "feeBatch"}
<1>1. ASSUME NEW q, order(q), SignedBoth(q) PROVE OrderAllowed(m, b)
  <2>1. PICK s \in SignRules : Admits(s, "sign", q, now)
    BY <1>1, SignedIsAdmitted DEF SignedBoth
  <2>2. s.fn \in {"batch", "feeBatch"} /\ s.to = b /\ now <= s.until
    BY <1>1, <2>1 DEF Admits
  <2>3. /\ s \notin PerplRules(m)
        /\ s \notin RecoveryRules(m, config.custody)
    <3>1. s \notin PerplRules(m)
      BY <2>2 DEF PerplRules, Rule
    <3>2. s \notin RecoveryRules(m, config.custody)
      BY <2>2, HomeIsPinned DEF HomeRule
    <3> QED BY <3>1, <3>2
  <2>4. CASE "kuru" \in m.venues /\ s \in KuruRules(m, config.custody, DepositsPinned)
    <3>1. PICK c \in m.markets : s = KuruBatch(m, c)
      BY <2>2, <2>4, KuruSigns
    <3> QED BY <2>2, <2>4, <3>1 DEF KuruBatch, Rule, OrderAllowed, RiskAllowed
  <2>5. CASE "kuru" \in m.venues /\ s \in BuilderRules(m, agent.fee)
    <3>1. PICK c \in m.markets : s = Rule("feeBatch", c, AnyPin, 0, m.until)
      BY <2>2, <2>5 DEF BuilderRules, Rule
    <3> QED BY <2>2, <2>5, <3>1 DEF Rule, OrderAllowed, RiskAllowed
  <2> QED BY <2>3, <2>4, <2>5, SignRuleForm
<1>2. CASE ~PaysFee
  <2>1. OrderCalls(m, b) = {Batch(b, 0)}
    BY <1>2 DEF OrderCalls
  <2>2. ASSUME OrderAllowed(m, b) PROVE SignedBoth(Batch(b, 0))
    <3>1. "kuru" \in m.venues /\ b \in m.markets /\ now <= m.until
      BY <2>2 DEF OrderAllowed, RiskAllowed
    <3>2. KuruBatch(m, b) \in SignRules
      BY <3>1, KuruForm DEF SignRules
    <3>3. Admits(KuruBatch(m, b), "sign", Batch(b, 0), now)
      BY <3>1 DEF Admits, KuruBatch, Rule, AnyPin, Pin, Parties, Tokens, Batch,
                                    SigningRequest, AnyAmount, AnyFee, PolicyAssumption
    <3> QED BY <3>2, <3>3, AdmittedIsSigned
  <2>3. order(Batch(b, 0))
    BY DEF Batch, SigningRequest
  <2> QED BY <1>1, <2>1, <2>2, <2>3
<1>3. CASE PaysFee
  <2>1. /\ OrderCalls(m, b) = {ApproveBuilder(m.until, config.fee), FeeBatch(b)}
        /\ agent.fee # 0 /\ config.fee <= agent.fee
    BY <1>3 DEF OrderCalls, PaysFee
  <2>2. ASSUME OrderAllowed(m, b)
        PROVE  SignedBoth(ApproveBuilder(m.until, config.fee)) /\ SignedBoth(FeeBatch(b))
    <3> DEFINE grant == BuilderGrant(m)
               batch == Rule("feeBatch", b, AnyPin, 0, m.until)
    <3>1. "kuru" \in m.venues /\ b \in m.markets /\ now <= m.until
      BY <2>2 DEF OrderAllowed, RiskAllowed
    <3>2. grant \in SignRules /\ batch \in SignRules
      BY <2>1, <3>1 DEF SignRules, BuilderRules, BuilderGrant
    <3>3. Admits(grant, "sign", ApproveBuilder(m.until, config.fee), now)
      BY <2>1, <3>1, MandateForm, BuilderForm DEF Admits, Tokens, ApproveBuilder, SigningRequest,
         PolicyAssumption
    <3>4. Admits(batch, "sign", FeeBatch(b), now)
      BY <3>1 DEF Admits, Rule, AnyPin, Pin, Parties, Tokens, FeeBatch, SigningRequest, AnyAmount,
                  AnyFee, PolicyAssumption
    <3> QED BY <3>2, <3>3, <3>4, AdmittedIsSigned
  <2>3. order(FeeBatch(b))
    BY DEF FeeBatch, SigningRequest
  <2> QED BY <1>1, <2>1, <2>2, <2>3
<1> QED BY <1>2, <1>3

(* A withdrawal the gate lets through is signed, to the owner's wallet. *)
LEMMA WithdrawalsAgree ==
  ASSUME PolicyAssumption, PolicyInv, ClockTyped, agent.status = "active",
         WithdrawAllowed(agent.mandate), agent.mandate.returnTo # Nobody, NEW t \in KuruTokens
  PROVE  SignedBoth(Withdraw(t, agent.mandate.returnTo))
<1> DEFINE r == KuruWithdrawRule(agent.mandate, config.custody)
<1>1. r \in SignRules
  BY DEF SignRules, RecoveryRules, WithdrawAllowed
<1>2. agent.mandate.returnTo = "owner" /\ now <= Forever /\ 1 <= AnyAmount
  BY MandateForm DEF ReturnTos, ClockTyped, Forever, AnyAmount, PolicyAssumption
<1>3. Admits(r, "sign", Withdraw(t, agent.mandate.returnTo), now)
  BY <1>2 DEF KuruWithdrawRule, Admits, Rule, Pin, AnyPin, Parties, Tokens, Withdraw,
     SigningRequest, AnyFee, PolicyAssumption
<1> QED BY <1>1, <1>3, AdmittedIsSigned

(* The server's checks and the enclave's rules say the same thing (mandate.ts:5). *)
THEOREM TwoLayersAgree ==
  ASSUME PolicyAssumption
  PROVE  PolicySpec => []LayersAgree
<1>1. ASSUME PolicyInv, ClockTyped PROVE LayersAgree
  BY <1>1, DepositsAgree, CollateralAgrees, OrdersAgree, WithdrawalsAgree, FeesAgree
     DEF LayersAgree, SignedBoth
<1> QED BY <1>1, RulesKept, ClockKept, PTL

LEMMA ChangesKept ==
  ASSUME PolicyAssumption
  PROVE  PolicySpec => [](changes \in 0..MaxChanges)
<1>0. MaxChanges \in Nat
  BY DEF PolicyAssumption
<1>1. PolicyInit => changes \in 0..MaxChanges
  BY <1>0 DEF PolicyInit
<1>2. changes \in 0..MaxChanges /\ [PolicyNext]_policyVars => (changes \in 0..MaxChanges)'
  <2>1. [PolicyNext]_policyVars => changes' = changes \/ (changes < MaxChanges /\ changes' = changes + 1)
    BY DEF PolicyNext, PinKuruDeposit, AmendPolicy, RevokePolicy, Redeploy, Tick, Sign, policyVars
  <2> QED BY <1>0, <2>1
<1> QED BY <1>1, <1>2, PTL DEF PolicySpec

(* Every variable keeps its type, the mandate in force one the owner asked for. *)
LEMMA PolicyTyped ==
  ASSUME PolicyAssumption
  PROVE  PolicySpec => []PolicyTypeOK
<1>1. PolicyInv /\ HoldingsTyped /\ ClockTyped /\ changes \in 0..MaxChanges => PolicyTypeOK
  BY DEF PolicyInv, RecordOK, HoldingsTyped, ClockTyped, PolicyTypeOK, Granted
<1> QED BY <1>1, RulesKept, HoldingsKept, ClockKept, ChangesKept, PTL

(* All that a run checks of the policy in every state holds of every mandate,
   custody, fee and sequence of amends, redeployments and revocations. *)
THEOREM PolicyKept ==
  ASSUME PolicyAssumption
  PROVE  PolicySpec => []PolicyIsKept
<1>1. PolicyTypeOK /\ LayersAgree /\ RecordTellsRules /\ ExitStaysOpen => PolicyIsKept
  BY DEF PolicyIsKept
<1> QED BY <1>1, PolicyTyped, TwoLayersAgree, RecordStatesRules, ExitNeverCloses, PTL

-------------------------------------------------------------------------------
(* The call that provisions is the one in flight, and there is one only while
   nothing is bound; whoever joined waits for it. *)
FlightIsOne ==
  /\ \A c \in Asks : register[c].pc = "provisioning" <=> c = registering
  /\ \A c \in Asks : register[c].pc = "joined" => registering # NoCall
  /\ registering # NoCall => bound = 0

RegisterInv == Registering!RegisterTypeOK /\ FlightIsOne /\ Registering!WalletIsOne

AskStates == {"idle", "provisioning", "joined", "answered", "refused", "failed"}
Wallets == [key : Devices, fate : {"bound", "second", "lost", "unsaved", "cut"}]

LEMMA RegisterStarts ==
  ASSUME Registering!WalletAssumption, Registering!Init
  PROVE  RegisterInv
<1>1. PICK key \in [Asks -> Devices] :
        register = [c \in Asks |-> [pc |-> "idle", key |-> key[c], wallet |-> 0]]
  BY DEF Registering!Init
<1>2. made = <<>> /\ bound = 0 /\ registering = NoCall /\ registerTroubles = 0 /\ Len(made) = 0 /\ DOMAIN made = {}
  BY DEF Registering!Init
<1>3. Registering!RegisterTypeOK
  BY <1>1, <1>2 DEF Registering!RegisterTypeOK, Registering!WalletAssumption
<1>4. FlightIsOne
  BY <1>1, <1>2 DEF FlightIsOne, Registering!WalletAssumption
<1>5. Registering!WalletIsOne
  BY <1>1, <1>2 DEF Registering!WalletIsOne
<1> QED BY <1>3, <1>4, <1>5 DEF RegisterInv

(* An answer is the wallet of the registry, given to its key alone. *)
LEMMA AnswersFit ==
  ASSUME NEW c \in Asks, NEW w, NEW key, NEW n \in Nat, w \in 0..n,
         register[c] \in [pc : AskStates, key : Devices, wallet : 0..n]
  PROVE  /\ Registering!Answered(c, w, key) \in [pc : AskStates, key : Devices, wallet : 0..n]
         /\ Registering!Answered(c, w, key).pc \in {"answered", "refused"}
         /\ Registering!Answered(c, w, key).pc = "answered" =>
              /\ Registering!Answered(c, w, key).wallet = w
              /\ Registering!Answered(c, w, key).key = key
BY DEF Registering!Answered, AskStates

(* One more wallet, and what is told of those before it stands. *)
LEMMA WalletAdded ==
  ASSUME Registering!RegisterTypeOK, NEW c \in Asks, NEW fate \in {"bound", "second", "lost", "unsaved", "cut"},
         Registering!Makes(c, fate)
  PROVE  /\ made' \in Seq(Wallets) /\ Len(made') = Len(made) + 1
         /\ \A w \in DOMAIN made : w \in DOMAIN made' /\ made'[w] = made[w]
         /\ made'[Len(made) + 1] = [key |-> register[c].key, fate |-> fate]
         /\ DOMAIN made' = DOMAIN made \cup {Len(made) + 1}
BY DEF Registering!RegisterTypeOK, Registering!Makes, Wallets

(* When a provision is over nothing is in flight and nobody waits. *)
LEMMA FlightEnds ==
  ASSUME Registering!WalletAssumption, Registering!RegisterTypeOK, FlightIsOne,
         NEW c \in Asks, register[c].pc = "provisioning",
         NEW n \in Nat, Len(made) <= n,
         registering' = NoCall, DOMAIN register' = Asks, register' = [d \in Asks |-> register'[d]],
         \A d \in Asks : /\ register'[d] \in [pc : AskStates, key : Devices, wallet : 0..n]
                         /\ register'[d] = register[d] \/ register'[d].pc \in {"answered", "refused", "failed"}
                         /\ d \in Registering!Waiting(c) => register'[d].pc \in {"answered", "refused", "failed"}
  PROVE  FlightIsOne' /\ register' \in [Asks -> [pc : AskStates, key : Devices, wallet : 0..n]]
<1>1. \A d \in Asks : register[d].pc \in {"provisioning", "joined"} => d \in Registering!Waiting(c)
  BY DEF FlightIsOne, Registering!Waiting, Registering!WalletAssumption
<1> QED BY <1>1 DEF FlightIsOne, Registering!WalletAssumption

LEMMA ProvisionEndsFit ==
  ASSUME Registering!WalletAssumption, Registering!RegisterTypeOK, FlightIsOne,
         NEW c \in Asks, register[c].pc = "provisioning",
         NEW n \in Nat, Len(made) <= n, NEW w \in 0..n, NEW key, Registering!Ends(c, w, key)
  PROVE  /\ FlightIsOne' /\ register' \in [Asks -> [pc : AskStates, key : Devices, wallet : 0..n]]
         /\ registering' = NoCall
         /\ \A d \in Asks : register'[d].pc = "answered" =>
              register'[d] = register[d] \/ (register'[d].wallet = w /\ register'[d].key = key)
<1> DEFINE Cells == [pc : AskStates, key : Devices, wallet : 0..n]
<1>1. register \in [Asks -> Cells]
  BY DEF Registering!RegisterTypeOK, AskStates
<1>2. \A d \in Asks : register'[d] = IF d \in Registering!Waiting(c) THEN Registering!Answered(d, w, key) ELSE register[d]
  BY DEF Registering!Ends
<1>3. \A d \in Asks : register'[d] \in Cells /\ (register'[d] = register[d] \/ register'[d].pc \in {"answered", "refused"})
  <2> SUFFICES ASSUME NEW d \in Asks
               PROVE  register'[d] \in Cells /\ (register'[d] = register[d] \/ register'[d].pc \in {"answered", "refused"})
    OBVIOUS
  <2>1. register[d] \in Cells
    BY <1>1
  <2>2. /\ Registering!Answered(d, w, key) \in Cells
        /\ Registering!Answered(d, w, key).pc \in {"answered", "refused"}
    BY <2>1, AnswersFit
  <2> HIDE DEF Cells
  <2> QED BY <1>2, <2>1, <2>2
<1>4. \A d \in Asks : d \in Registering!Waiting(c) => register'[d].pc \in {"answered", "refused"}
  BY <1>1, <1>2, AnswersFit
<1>5. registering' = NoCall /\ DOMAIN register' = Asks /\ register' = [d \in Asks |-> register'[d]]
  BY DEF Registering!Ends
<1>6. \A d \in Asks : register'[d].pc = "answered" =>
        register'[d] = register[d] \/ (register'[d].wallet = w /\ register'[d].key = key)
  BY <1>1, <1>2, AnswersFit
<1>7. FlightIsOne' /\ register' \in [Asks -> Cells]
  BY <1>3, <1>4, <1>5, FlightEnds
<1> QED BY <1>5, <1>6, <1>7

LEMMA EndsBadlyFit ==
  ASSUME Registering!WalletAssumption, Registering!RegisterTypeOK, FlightIsOne,
         NEW c \in Asks, register[c].pc = "provisioning",
         NEW n \in Nat, Len(made) <= n, Registering!EndsBadly(c)
  PROVE  /\ FlightIsOne' /\ register' \in [Asks -> [pc : AskStates, key : Devices, wallet : 0..n]]
         /\ registering' = NoCall
         /\ \A d \in Asks : register'[d].pc = "answered" => register'[d] = register[d]
<1> DEFINE Cells == [pc : AskStates, key : Devices, wallet : 0..n]
<1>1. register \in [Asks -> Cells]
  BY DEF Registering!RegisterTypeOK, AskStates
<1>2. \A d \in Asks : register'[d] = IF d \in Registering!Waiting(c) THEN [register[d] EXCEPT !.pc = "failed"] ELSE register[d]
  BY DEF Registering!EndsBadly
<1>3. \A d \in Asks : /\ register'[d] \in Cells /\ (register'[d] = register[d] \/ register'[d].pc = "failed")
                      /\ d \in Registering!Waiting(c) => register'[d].pc = "failed"
  BY <1>1, <1>2 DEF AskStates
<1>5. registering' = NoCall /\ DOMAIN register' = Asks /\ register' = [d \in Asks |-> register'[d]]
  BY DEF Registering!EndsBadly
<1> HIDE DEF Cells
<1>4. \A d \in Asks : /\ register'[d] \in Cells
                      /\ register'[d] = register[d] \/ register'[d].pc \in {"answered", "refused", "failed"}
                      /\ d \in Registering!Waiting(c) => register'[d].pc \in {"answered", "refused", "failed"}
  BY <1>3
<1>6. \A d \in Asks : register'[d].pc = "answered" => register'[d] = register[d]
  BY <1>3
<1>7. FlightIsOne' /\ register' \in [Asks -> Cells]
  BY <1>4, <1>5, FlightEnds DEF Cells
<1> QED BY <1>5, <1>6, <1>7 DEF Cells

(* What was made and whom it was told to stand, when a wallet that nobody is
   bound to is added or none is. *)
LEMMA OneWalletKept ==
  ASSUME Registering!RegisterTypeOK, Registering!WalletIsOne, bound' = bound,
         made' \in Seq(Wallets),
         DOMAIN made' = DOMAIN made \/ DOMAIN made' = DOMAIN made \cup {Len(made) + 1},
         \A w \in DOMAIN made : made'[w] = made[w],
         \A w \in DOMAIN made' \ DOMAIN made : made'[w].fate \notin {"bound", "second"},
         \A d \in Asks : register'[d].pc = "answered" => register'[d] = register[d]
  PROVE  Registering!WalletIsOne'
<1>1. bound # 0 => bound \in DOMAIN made
  BY DEF Registering!RegisterTypeOK
<1>2. \A d \in Asks : register'[d].pc = "answered" =>
        bound' # 0 /\ register'[d].wallet = bound' /\ made'[bound'].key = register'[d].key
  BY <1>1 DEF Registering!WalletIsOne
<1>3. \A w \in DOMAIN made' : made'[w].fate \in {"bound", "second"} => w = bound'
  BY DEF Registering!WalletIsOne
<1> QED BY <1>2, <1>3 DEF Registering!WalletIsOne

LEMMA AsksFit ==
  ASSUME Registering!WalletAssumption, RegisterInv, NEW c \in Asks, Registering!Registers(c)
  PROVE  RegisterInv'
<1> USE DEF RegisterInv
<1> DEFINE Cells == [pc : AskStates, key : Devices, wallet : 0..Len(made)]
<1>1. register \in [Asks -> Cells] /\ Len(made) \in Nat /\ bound \in 0..Len(made)
  BY DEF Registering!RegisterTypeOK, AskStates
<1>2. \A d \in Asks \ {c} : register'[d] = register[d]
  BY <1>1 DEF Registering!Registers
<1>3. made' = made /\ bound' = bound /\ registerTroubles' = registerTroubles /\ register[c].pc = "idle"
  BY DEF Registering!Registers
<1>4. CASE bound # 0
  <2>1. register' = [register EXCEPT ![c] = Registering!Answered(c, bound, made[bound].key)] /\ registering' = registering
    BY <1>4 DEF Registering!Registers
  <2>2. /\ register'[c] \in Cells /\ register'[c].pc \in {"answered", "refused"}
        /\ register'[c].pc = "answered" => register'[c].wallet = bound /\ register'[c].key = made[bound].key
    BY <1>1, <2>1, AnswersFit
  <2>3. register' \in [Asks -> Cells]
    BY <1>1, <2>1, <2>2
  <2>4. Registering!RegisterTypeOK'
    BY <2>1, <2>3, <1>3 DEF Registering!RegisterTypeOK, AskStates
  <2>5. FlightIsOne'
    BY <1>2, <1>3, <2>1, <2>2 DEF FlightIsOne
  <2>6. Registering!WalletIsOne'
    BY <1>2, <1>3, <1>4, <2>2 DEF Registering!WalletIsOne
  <2> QED BY <2>4, <2>5, <2>6
<1>5. CASE bound = 0 /\ registering # NoCall
  <2>1. register' = [register EXCEPT ![c].pc = "joined"] /\ registering' = registering
    BY <1>5 DEF Registering!Registers, Registering!Joins
  <2>2. register' \in [Asks -> Cells] /\ register'[c].pc = "joined"
    BY <1>1, <2>1 DEF AskStates
  <2>4. Registering!RegisterTypeOK'
    BY <2>1, <2>2, <1>3 DEF Registering!RegisterTypeOK, AskStates
  <2>5. FlightIsOne'
    BY <1>2, <1>3, <1>5, <2>1, <2>2 DEF FlightIsOne
  <2>6. Registering!WalletIsOne'
    BY <1>2, <1>3, <2>2 DEF Registering!WalletIsOne
  <2> QED BY <2>4, <2>5, <2>6
<1>6. CASE bound = 0 /\ registering = NoCall
  <2>1. register' = [register EXCEPT ![c].pc = "provisioning"] /\ registering' = c
    BY <1>6 DEF Registering!Registers, Registering!Joins
  <2>2. register' \in [Asks -> Cells] /\ register'[c].pc = "provisioning"
    BY <1>1, <2>1 DEF AskStates
  <2>4. Registering!RegisterTypeOK'
    BY <2>1, <2>2, <1>3 DEF Registering!RegisterTypeOK, AskStates
  <2>5. FlightIsOne'
    BY <1>2, <1>3, <1>6, <2>1, <2>2 DEF FlightIsOne, Registering!WalletAssumption
  <2>6. Registering!WalletIsOne'
    BY <1>2, <1>3, <2>2 DEF Registering!WalletIsOne
  <2> QED BY <2>4, <2>5, <2>6
<1> QED BY <1>4, <1>5, <1>6

LEMMA BindsFit ==
  ASSUME Registering!WalletAssumption, RegisterInv, NEW c \in Asks, Registering!Binds(c)
  PROVE  RegisterInv'
<1> USE DEF RegisterInv
<1>1. register[c].pc = "provisioning" /\ bound = 0 /\ Len(made) \in Nat /\ Len(made) <= Len(made) + 1
      /\ Len(made) + 1 \in Nat
  BY DEF Registering!Binds, FlightIsOne, Registering!WalletAssumption, Registering!RegisterTypeOK
<1>2. CASE Registering!Makes(c, "bound") /\ bound' = Len(made) + 1
           /\ Registering!Ends(c, Len(made) + 1, register[c].key) /\ Registering!Calm
  <2>1. /\ made' \in Seq(Wallets) /\ Len(made') = Len(made) + 1
        /\ \A w \in DOMAIN made : w \in DOMAIN made' /\ made'[w] = made[w]
        /\ made'[Len(made) + 1] = [key |-> register[c].key, fate |-> "bound"]
        /\ DOMAIN made' = DOMAIN made \cup {Len(made) + 1}
    BY <1>2, WalletAdded
  <2>2. /\ FlightIsOne' /\ register' \in [Asks -> [pc : AskStates, key : Devices, wallet : 0..Len(made')]]
        /\ registering' = NoCall
        /\ \A d \in Asks : register'[d].pc = "answered" =>
             register'[d] = register[d] \/ (register'[d].wallet = Len(made) + 1 /\ register'[d].key = register[c].key)
    <3>1. Len(made) + 1 \in 0..(Len(made) + 1)
      BY <1>1
    <3> QED BY <1>1, <1>2, <2>1, <3>1, ProvisionEndsFit
  <2>3. Registering!RegisterTypeOK'
    BY <1>1, <1>2, <2>1, <2>2 DEF Registering!RegisterTypeOK, Wallets, AskStates, Registering!Calm
  <2>4. \A d \in Asks : register[d].pc # "answered"
    BY <1>1 DEF Registering!WalletIsOne
  <2>5. \A w \in DOMAIN made : made[w].fate \notin {"bound", "second"}
    BY <1>1 DEF Registering!WalletIsOne, Registering!RegisterTypeOK
  <2>6. Registering!WalletIsOne'
    BY <1>1, <1>2, <2>1, <2>2, <2>4, <2>5 DEF Registering!WalletIsOne
  <2> QED BY <2>2, <2>3, <2>6
<1>3. CASE /\ Registering!Trouble("unsaved") /\ Registering!Makes(c, "unsaved")
           /\ Registering!EndsBadly(c) /\ UNCHANGED bound
  <2>1. /\ made' \in Seq(Wallets) /\ Len(made') = Len(made) + 1
        /\ \A w \in DOMAIN made : w \in DOMAIN made' /\ made'[w] = made[w]
        /\ made'[Len(made) + 1] = [key |-> register[c].key, fate |-> "unsaved"]
        /\ DOMAIN made' = DOMAIN made \cup {Len(made) + 1}
    BY <1>3, WalletAdded
  <2>2. /\ FlightIsOne' /\ register' \in [Asks -> [pc : AskStates, key : Devices, wallet : 0..Len(made')]]
        /\ registering' = NoCall
        /\ \A d \in Asks : register'[d].pc = "answered" => register'[d] = register[d]
    BY <1>1, <1>3, <2>1, EndsBadlyFit
  <2>3. Registering!RegisterTypeOK'
    BY <1>1, <1>3, <2>1, <2>2
       DEF Registering!RegisterTypeOK, Wallets, AskStates, Registering!Trouble,
          Registering!WalletAssumption
  <2>4. Registering!WalletIsOne'
    BY <1>3, <2>1, <2>2, OneWalletKept
  <2> QED BY <2>2, <2>3, <2>4
<1> QED BY <1>1, <1>2, <1>3 DEF Registering!Binds

LEMMA ThrowsFit ==
  ASSUME Registering!WalletAssumption, RegisterInv, NEW c \in Asks, Registering!ProvisionThrows(c)
  PROVE  RegisterInv'
<1> USE DEF RegisterInv
<1>1. /\ register[c].pc = "provisioning" /\ Len(made) \in Nat /\ Len(made) + 1 \in Nat
      /\ bound' = bound /\ Registering!EndsBadly(c)
  BY DEF Registering!ProvisionThrows, Registering!RegisterTypeOK
<1>2. registerTroubles' \in 0..RegisterTroubles
  BY DEF Registering!ProvisionThrows, Registering!Trouble, Registering!RegisterTypeOK,
     Registering!WalletAssumption
<1>3. /\ made' \in Seq(Wallets) /\ Len(made') \in Nat /\ Len(made) <= Len(made')
      /\ \A w \in DOMAIN made : made'[w] = made[w]
      /\ DOMAIN made' = DOMAIN made \/ DOMAIN made' = DOMAIN made \cup {Len(made) + 1}
      /\ \A w \in DOMAIN made' \ DOMAIN made : made'[w].fate \notin {"bound", "second"}
  <2>1. CASE made' = made
    BY <2>1, <1>1 DEF Registering!RegisterTypeOK, Wallets
  <2>2. CASE Registering!Makes(c, "lost")
    <3>1. /\ made' \in Seq(Wallets) /\ Len(made') = Len(made) + 1
          /\ \A w \in DOMAIN made : w \in DOMAIN made' /\ made'[w] = made[w]
          /\ made'[Len(made) + 1] = [key |-> register[c].key, fate |-> "lost"]
          /\ DOMAIN made' = DOMAIN made \cup {Len(made) + 1}
      BY <2>2, WalletAdded
    <3> QED BY <3>1, <1>1
  <2> QED BY <2>1, <2>2 DEF Registering!ProvisionThrows
<1>4. /\ FlightIsOne' /\ register' \in [Asks -> [pc : AskStates, key : Devices, wallet : 0..Len(made')]]
      /\ registering' = NoCall
      /\ \A d \in Asks : register'[d].pc = "answered" => register'[d] = register[d]
  BY <1>1, <1>3, EndsBadlyFit
<1>5. Registering!RegisterTypeOK'
  BY <1>1, <1>2, <1>3, <1>4 DEF Registering!RegisterTypeOK, Wallets, AskStates
<1>6. Registering!WalletIsOne'
  BY <1>1, <1>3, <1>4, OneWalletKept
<1> QED BY <1>4, <1>5, <1>6

LEMMA RegisterRestartsFit ==
  ASSUME Registering!WalletAssumption, RegisterInv, Registering!Restarts
  PROVE  RegisterInv'
<1> USE DEF RegisterInv
<1>1. /\ Len(made) \in Nat /\ bound' = bound /\ registering' = NoCall
      /\ register' = [c \in Asks |-> IF register[c].pc \in {"provisioning", "joined"}
                                     THEN [register[c] EXCEPT !.pc = "failed"] ELSE register[c]]
  BY DEF Registering!Restarts, Registering!RegisterTypeOK
<1>2. registerTroubles' \in 0..RegisterTroubles
  BY DEF Registering!Restarts, Registering!Trouble, Registering!RegisterTypeOK,
     Registering!WalletAssumption
<1>3. /\ made' \in Seq(Wallets) /\ Len(made') \in Nat /\ Len(made) <= Len(made')
      /\ \A w \in DOMAIN made : made'[w] = made[w]
      /\ DOMAIN made' = DOMAIN made \/ DOMAIN made' = DOMAIN made \cup {Len(made) + 1}
      /\ \A w \in DOMAIN made' \ DOMAIN made : made'[w].fate \notin {"bound", "second"}
  <2>1. CASE made' = made
    BY <2>1, <1>1 DEF Registering!RegisterTypeOK, Wallets
  <2>2. CASE registering # NoCall /\ Registering!Makes(registering, "cut")
    <3>0. registering \in Asks
      BY <2>2 DEF Registering!RegisterTypeOK
    <3>1. /\ made' \in Seq(Wallets) /\ Len(made') = Len(made) + 1
          /\ \A w \in DOMAIN made : w \in DOMAIN made' /\ made'[w] = made[w]
          /\ made'[Len(made) + 1] = [key |-> register[registering].key, fate |-> "cut"]
          /\ DOMAIN made' = DOMAIN made \cup {Len(made) + 1}
      BY <2>2, <3>0, WalletAdded
    <3> QED BY <3>1, <1>1
  <2> QED BY <2>1, <2>2 DEF Registering!Restarts
<1>4. /\ register' \in [Asks -> [pc : AskStates, key : Devices, wallet : 0..Len(made')]]
      /\ \A d \in Asks : /\ register'[d].pc = "answered" => register'[d] = register[d]
                         /\ register'[d].pc \notin {"provisioning", "joined"}
  <2>1. \A d \in Asks : register[d] \in [pc : AskStates, key : Devices, wallet : 0..Len(made')]
    BY <1>1, <1>3 DEF Registering!RegisterTypeOK, AskStates
  <2> QED BY <1>1, <2>1 DEF AskStates
<1>5. Registering!RegisterTypeOK'
  BY <1>1, <1>2, <1>3, <1>4 DEF Registering!RegisterTypeOK, Wallets, AskStates
<1>6. FlightIsOne'
  BY <1>1, <1>4 DEF FlightIsOne, Registering!WalletAssumption
<1>7. Registering!WalletIsOne'
  BY <1>1, <1>3, <1>4, OneWalletKept
<1> QED BY <1>5, <1>6, <1>7

LEMMA RegistersKept ==
  ASSUME Registering!WalletAssumption, RegisterInv, [Registering!RegisterNext]_(Registering!registerVars)
  PROVE  RegisterInv'
<1>1. CASE UNCHANGED Registering!registerVars
  BY <1>1 DEF RegisterInv, Registering!registerVars, Registering!RegisterTypeOK, FlightIsOne,
              Registering!WalletIsOne
<1>2. CASE Registering!RegisterNext
  BY <1>2, AsksFit, BindsFit, ThrowsFit, RegisterRestartsFit DEF Registering!RegisterNext
<1> QED BY <1>1, <1>2

(* However often the user registers, there is one wallet, and it is everyone's
   answer (user-wallet.service.ts:145): for any number of calls and devices and
   any faults. *)
THEOREM WalletStaysOne ==
  ASSUME Registering!WalletAssumption
  PROVE  Registering!RegisterSpec => [](Registering!RegisterTypeOK /\ Registering!WalletIsOne)
<1>1. Registering!Init => RegisterInv
  BY RegisterStarts
<1>2. RegisterInv /\ [Registering!RegisterNext]_(Registering!registerVars) => RegisterInv'
  BY RegistersKept
<1>3. RegisterInv => Registering!RegisterTypeOK /\ Registering!WalletIsOne
  BY DEF RegisterInv
<1> QED BY <1>1, <1>2, <1>3, PTL DEF Registering!RegisterSpec

-------------------------------------------------------------------------------
Keys == [limit : Nat, monthly : BOOLEAN, lowered : BOOLEAN,
         fate : {"stored", "deleted", "second", "lost", "unsaved", "undeleted", "cut"}]
Askers == Asks \cup Reads
CallStates == [pc : {"idle", "creating", "joined", "reading", "patching", "over"}, limit : Nat]

(* A key is made by the provision in flight, while none is stored, and read or
   raised when one is. *)
MintIsOne ==
  \A c \in Askers :
    /\ credit[c].pc = "creating" => c \in Asks /\ minting = c /\ stored = 0
    /\ credit[c].pc \in {"reading", "patching"} => stored # 0

CreditsInv == Crediting!CreditsTypeOK /\ MintIsOne /\ Crediting!KeysAreOne

LEMMA CreditsStart ==
  ASSUME Crediting!CreditsAssumption, Crediting!Init
  PROVE  CreditsInv
<1>1. /\ minting = NoCall /\ tried = {} /\ creditTroubles = 0
      /\ credit = [c \in Asks \cup Reads |-> [pc |-> "idle", limit |-> 0]]
      /\ CreditTroubles \in Nat /\ {OldLimit, FreeLimit, HandLimit} \subseteq Nat
  BY DEF Crediting!Init, Crediting!Idle, Crediting!CreditsAssumption
<1>2. MintIsOne
  BY <1>1 DEF MintIsOne, Askers
<1>3. CASE keys = <<>> /\ stored = 0
  <2>1. keys \in Seq(Keys) /\ Len(keys) = 0 /\ DOMAIN keys = {}
    BY <1>3
  <2>2. Crediting!CreditsTypeOK
    BY <1>1, <1>3, <2>1 DEF Crediting!CreditsTypeOK, Keys
  <2> QED BY <1>2, <2>1, <2>2 DEF CreditsInv, Crediting!KeysAreOne
<1>4. CASE /\ \E limit \in {OldLimit, HandLimit} :
                keys = <<[Crediting!NewKey("stored") EXCEPT !.limit = limit, !.monthly = TRUE]>>
           /\ stored = 1
  <2>0. PICK limit \in {OldLimit, HandLimit} :
          keys = <<[Crediting!NewKey("stored") EXCEPT !.limit = limit, !.monthly = TRUE]>>
    BY <1>4
  <2> DEFINE k == [Crediting!NewKey("stored") EXCEPT !.limit = limit, !.monthly = TRUE]
  <2>1. k \in Keys /\ keys = <<k>> /\ k.fate = "stored" /\ ~k.lowered
    BY <1>1, <2>0 DEF Crediting!NewKey, Keys
  <2> HIDE DEF k
  <2>2. keys \in Seq(Keys) /\ Len(keys) = 1 /\ DOMAIN keys = {1} /\ keys[1] = k
    BY <2>1
  <2>3. Crediting!CreditsTypeOK
    BY <1>1, <1>4, <2>2 DEF Crediting!CreditsTypeOK, Keys
  <2>4. Crediting!KeysAreOne
    BY <1>4, <2>1, <2>2 DEF Crediting!KeysAreOne
  <2> QED BY <1>2, <2>3, <2>4 DEF CreditsInv
<1> QED BY <1>3, <1>4 DEF Crediting!Init

(* Whoever is over makes, reads and raises nothing. *)
LEMMA OverFits ==
  ASSUME Crediting!CreditsAssumption, Crediting!CreditsTypeOK, MintIsOne,
         NEW c \in Askers, Crediting!Over(c)
  PROVE  /\ credit' \in [Askers -> CallStates] /\ minting' \in Asks \cup {NoCall}
         /\ credit'[c].pc = "over"
         /\ \A d \in Askers : credit'[d] = credit[d] \/ credit'[d].pc = "over"
         /\ minting' = minting \/ (minting = c /\ minting' = NoCall)
<1>1. credit \in [Askers -> CallStates] /\ minting \in Asks \cup {NoCall}
  BY DEF Crediting!CreditsTypeOK, Askers, CallStates
<1>2. credit' = [d \in Askers |-> IF d = c \/ (minting = c /\ credit[d].pc = "joined")
                                 THEN [credit[d] EXCEPT !.pc = "over"] ELSE credit[d]]
  BY DEF Crediting!Over, Askers
<1>3. \A d \in Askers : [credit[d] EXCEPT !.pc = "over"] \in CallStates /\ [credit[d] EXCEPT !.pc = "over"].pc = "over"
  BY <1>1 DEF CallStates
<1>4. \A d \in Askers : credit'[d] = credit[d] \/ credit'[d] = [credit[d] EXCEPT !.pc = "over"]
  BY <1>2
<1>5. credit'[c] = [credit[c] EXCEPT !.pc = "over"]
  BY <1>2
<1>6. credit' \in [Askers -> CallStates]
  BY <1>1, <1>2, <1>3
<1> QED BY <1>1, <1>3, <1>4, <1>5, <1>6 DEF Crediting!Over

(* Another key that was not kept. *)
LEMMA KeyAdded ==
  ASSUME Crediting!CreditsAssumption, Crediting!CreditsTypeOK,
         NEW fate \in {"stored", "deleted", "second", "lost", "unsaved", "undeleted", "cut"},
         keys' = Append(keys, Crediting!NewKey(fate))
  PROVE  /\ keys' \in Seq(Keys) /\ Len(keys') = Len(keys) + 1 /\ Len(keys) \in Nat
         /\ \A k \in DOMAIN keys : k \in DOMAIN keys' /\ keys'[k] = keys[k]
         /\ keys'[Len(keys) + 1].fate = fate /\ ~keys'[Len(keys) + 1].lowered
         /\ DOMAIN keys' = DOMAIN keys \cup {Len(keys) + 1}
<1>1. Crediting!NewKey(fate) \in Keys /\ Crediting!NewKey(fate).fate = fate /\ ~Crediting!NewKey(fate).lowered
  BY DEF Crediting!NewKey, Keys, Crediting!CreditsAssumption
<1>2. keys \in Seq(Keys)
  BY DEF Crediting!CreditsTypeOK, Keys
<1> QED BY <1>1, <1>2

Gone == {"deleted", "lost", "unsaved", "undeleted", "cut"}

(* The one key stays the one, when another that was not kept is added, or none
   is, or a fate is settled. *)
LEMMA OneKeyKept ==
  ASSUME Crediting!CreditsTypeOK, Crediting!KeysAreOne, stored' = stored,
         keys' \in Seq(Keys), DOMAIN keys \subseteq DOMAIN keys',
         \A k \in DOMAIN keys : keys'[k].fate \in Gone \cup {keys[k].fate} /\ ~keys'[k].lowered,
         \A k \in DOMAIN keys' \ DOMAIN keys : keys'[k].fate \in Gone /\ ~keys'[k].lowered
  PROVE  Crediting!KeysAreOne'
<1>1. \A k \in DOMAIN keys' : keys'[k].fate \notin Gone => k = stored'
  BY DEF Crediting!KeysAreOne, Gone
<1>2. \A k \in DOMAIN keys' : ~keys'[k].lowered
  OBVIOUS
<1> QED BY <1>1, <1>2 DEF Crediting!KeysAreOne, Gone

LEMMA ProvisionsFit ==
  ASSUME Crediting!CreditsAssumption, CreditsInv, NEW c \in Askers, Crediting!Provisions(c)
  PROVE  CreditsInv'
<1> USE DEF CreditsInv
<1>1. /\ credit \in [Askers -> CallStates] /\ c \in Asks /\ credit[c].pc = "idle"
      /\ UNCHANGED <<keys, stored, tried, creditTroubles>>
  BY DEF Crediting!CreditsTypeOK, Askers, CallStates, Crediting!Provisions
<1>2. PICK pc \in {"joined", "reading", "creating"} :
        /\ credit' = [credit EXCEPT ![c].pc = pc]
        /\ pc = "reading" => stored # 0
        /\ pc = "creating" => stored = 0 /\ minting' = c /\ minting = NoCall
        /\ minting' \in {minting, c}
        /\ minting' # minting => minting = NoCall
  BY DEF Crediting!Provisions, Crediting!Shares
<1>3. credit' \in [Askers -> CallStates] /\ credit'[c].pc = pc /\ \A d \in Askers \ {c} : credit'[d] = credit[d]
  BY <1>1, <1>2 DEF CallStates
<1>4. Crediting!CreditsTypeOK'
  BY <1>1, <1>2, <1>3 DEF Crediting!CreditsTypeOK, CallStates, Askers
<1>5. MintIsOne'
  BY <1>1, <1>2, <1>3 DEF MintIsOne, Crediting!CreditsAssumption
<1>6. Crediting!KeysAreOne'
  BY <1>1 DEF Crediting!KeysAreOne
<1> QED BY <1>4, <1>5, <1>6

LEMMA ClaimsFit ==
  ASSUME Crediting!CreditsAssumption, CreditsInv, NEW c \in Askers, Crediting!Claims(c)
  PROVE  CreditsInv'
<1> USE DEF CreditsInv
<1>1. /\ credit[c].pc = "creating" /\ stored = 0 /\ minting = c /\ c \in Asks /\ tried' = tried
      /\ \A d \in Askers : credit[d].pc \in {"reading", "patching"} => FALSE
      /\ \A d \in Askers : credit[d].pc = "creating" => d = c
  BY DEF Crediting!Claims, MintIsOne
<1>2. Crediting!Over(c)
  BY <1>1 DEF Crediting!Claims
<1>3. /\ credit' \in [Askers -> CallStates] /\ minting' \in Asks \cup {NoCall}
      /\ credit'[c].pc = "over"
      /\ \A d \in Askers : credit'[d] = credit[d] \/ credit'[d].pc = "over"
  BY <1>2, OverFits
<1>4. MintIsOne'
  BY <1>1, <1>3 DEF MintIsOne
<1>5. CASE keys' = Append(keys, Crediting!NewKey("stored")) /\ stored' = Len(keys) + 1 /\ Crediting!Calm
  <2>1. /\ keys' \in Seq(Keys) /\ Len(keys') = Len(keys) + 1 /\ Len(keys) \in Nat
        /\ \A k \in DOMAIN keys : k \in DOMAIN keys' /\ keys'[k] = keys[k]
        /\ keys'[Len(keys) + 1].fate = "stored" /\ ~keys'[Len(keys) + 1].lowered
        /\ DOMAIN keys' = DOMAIN keys \cup {Len(keys) + 1}
    BY <1>5, KeyAdded
  <2>2. Crediting!CreditsTypeOK'
    BY <1>1, <1>3, <1>5, <2>1 DEF Crediting!CreditsTypeOK, Crediting!Calm, CallStates, Askers,
       Keys
  <2>3. \A k \in DOMAIN keys : k # 0 /\ keys[k].fate \in Gone /\ ~keys[k].lowered
    BY <1>1 DEF Crediting!KeysAreOne, Crediting!CreditsTypeOK, Gone
  <2>4. Crediting!KeysAreOne'
    BY <1>5, <2>1, <2>3 DEF Crediting!KeysAreOne, Gone
  <2> QED BY <1>4, <2>2, <2>4
<1>6. CASE /\ Crediting!Trouble("unsaved") /\ keys' = Append(keys, Crediting!NewKey("unsaved"))
           /\ stored' = stored
  <2>1. /\ keys' \in Seq(Keys) /\ Len(keys') = Len(keys) + 1 /\ Len(keys) \in Nat
        /\ \A k \in DOMAIN keys : k \in DOMAIN keys' /\ keys'[k] = keys[k]
        /\ keys'[Len(keys) + 1].fate = "unsaved" /\ ~keys'[Len(keys) + 1].lowered
        /\ DOMAIN keys' = DOMAIN keys \cup {Len(keys) + 1}
    BY <1>6, KeyAdded
  <2>2. Crediting!CreditsTypeOK'
    BY <1>1, <1>3, <1>6, <2>1 DEF Crediting!CreditsTypeOK, Crediting!Trouble,
       Crediting!CreditsAssumption,
                                  CallStates, Askers, Keys
  <2>3. Crediting!KeysAreOne'
    BY <1>6, <2>1, OneKeyKept DEF Gone, Crediting!KeysAreOne
  <2> QED BY <1>4, <2>2, <2>3
<1> QED BY <1>1, <1>5, <1>6 DEF Crediting!Claims

LEMMA CreateThrowsFit ==
  ASSUME Crediting!CreditsAssumption, CreditsInv, NEW c \in Askers, Crediting!CreateThrows(c)
  PROVE  CreditsInv'
<1> USE DEF CreditsInv
<1>1. /\ credit[c].pc = "creating" /\ minting = c /\ UNCHANGED <<stored, tried>> /\ Crediting!Over(c)
      /\ \A d \in Askers : credit[d].pc = "creating" => d = c
  BY DEF Crediting!CreateThrows, MintIsOne
<1>2. creditTroubles' \in 0..CreditTroubles
  BY DEF Crediting!CreateThrows, Crediting!Trouble, Crediting!CreditsTypeOK,
     Crediting!CreditsAssumption
<1>3. /\ credit' \in [Askers -> CallStates] /\ minting' \in Asks \cup {NoCall}
      /\ credit'[c].pc = "over"
      /\ \A d \in Askers : credit'[d] = credit[d] \/ credit'[d].pc = "over"
  BY <1>1, OverFits
<1>4. MintIsOne'
  BY <1>1, <1>3 DEF MintIsOne
<1>5. /\ keys' \in Seq(Keys) /\ Len(keys') \in Nat /\ Len(keys) <= Len(keys')
      /\ DOMAIN keys \subseteq DOMAIN keys' /\ \A k \in DOMAIN keys : keys'[k] = keys[k]
      /\ \A k \in DOMAIN keys' \ DOMAIN keys : keys'[k].fate \in Gone /\ ~keys'[k].lowered
  <2>1. CASE keys' = keys
    BY <2>1 DEF Crediting!CreditsTypeOK, Keys
  <2>2. CASE keys' = Append(keys, Crediting!NewKey("lost"))
    BY <2>2, KeyAdded DEF Gone
  <2> QED BY <2>1, <2>2 DEF Crediting!CreateThrows
<1>6. Crediting!CreditsTypeOK'
  BY <1>1, <1>2, <1>3, <1>5 DEF Crediting!CreditsTypeOK, CallStates, Askers, Keys
<1>7. Crediting!KeysAreOne'
  <2>1. \A k \in DOMAIN keys : ~keys[k].lowered
    BY DEF Crediting!KeysAreOne
  <2> QED BY <1>1, <1>5, <2>1, OneKeyKept
<1> QED BY <1>4, <1>6, <1>7

LEMMA KeyTyped ==
  ASSUME Crediting!CreditsTypeOK, NEW k \in DOMAIN keys
  PROVE  keys \in Seq(Keys) /\ keys[k] \in Keys
<1>1. keys \in Seq(Keys)
  BY DEF Crediting!CreditsTypeOK, Keys
<1> QED BY <1>1

LEMMA DiscardsFit ==
  ASSUME Crediting!CreditsAssumption, CreditsInv, NEW k \in DOMAIN keys, Crediting!Discards(k)
  PROVE  CreditsInv'
<1> USE DEF CreditsInv
<1>1. keys \in Seq(Keys) /\ UNCHANGED <<stored, minting, credit, tried>>
  BY DEF Crediting!Discards, Crediting!CreditsTypeOK, Keys
<1>2. PICK fate \in Gone : keys' = [keys EXCEPT ![k].fate = fate]
  BY DEF Crediting!Discards, Gone
<1>3. [keys[k] EXCEPT !.fate = fate] \in Keys /\ keys[k] \in Keys
  BY KeyTyped DEF Keys, Gone
<1>4. /\ keys' \in Seq(Keys) /\ DOMAIN keys' = DOMAIN keys /\ Len(keys') = Len(keys)
      /\ \A j \in DOMAIN keys \ {k} : keys'[j] = keys[j]
      /\ keys'[k] = [keys[k] EXCEPT !.fate = fate]
  BY <1>1, <1>2, <1>3
<1>5. keys'[k].fate \in Gone /\ keys'[k].lowered = keys[k].lowered
  BY <1>3, <1>4 DEF Keys
<1>6. creditTroubles' \in 0..CreditTroubles
  BY DEF Crediting!Discards, Crediting!Trouble, Crediting!Calm, Crediting!CreditsTypeOK,
         Crediting!CreditsAssumption
<1>7. Crediting!CreditsTypeOK'
  BY <1>1, <1>4, <1>6 DEF Crediting!CreditsTypeOK, Keys
<1>8. Crediting!KeysAreOne'
  <2>1. \A j \in DOMAIN keys : keys'[j].fate \in Gone \cup {keys[j].fate} /\ ~keys'[j].lowered
    BY <1>4, <1>5 DEF Crediting!KeysAreOne
  <2> QED BY <1>1, <1>4, <2>1, OneKeyKept
<1>9. MintIsOne'
  BY <1>1 DEF MintIsOne
<1> QED BY <1>7, <1>8, <1>9

LEMMA LooksFit ==
  ASSUME Crediting!CreditsAssumption, CreditsInv, NEW r \in Askers, Crediting!Looks(r)
  PROVE  CreditsInv'
<1> USE DEF CreditsInv
<1>1. /\ credit \in [Askers -> CallStates] /\ stored # 0 /\ credit' = [credit EXCEPT ![r].pc = "reading"]
      /\ UNCHANGED <<keys, stored, minting, tried, creditTroubles>>
  BY DEF Crediting!CreditsTypeOK, Askers, CallStates, Crediting!Looks
<1>2. credit' \in [Askers -> CallStates] /\ credit'[r].pc = "reading" /\ \A d \in Askers \ {r} : credit'[d] = credit[d]
  BY <1>1 DEF CallStates
<1>3. Crediting!CreditsTypeOK'
  BY <1>1, <1>2 DEF Crediting!CreditsTypeOK, CallStates, Askers
<1>4. MintIsOne'
  BY <1>1, <1>2 DEF MintIsOne
<1>5. Crediting!KeysAreOne'
  BY <1>1 DEF Crediting!KeysAreOne
<1> QED BY <1>3, <1>4, <1>5

LEMMA ReadsKeyFit ==
  ASSUME Crediting!CreditsAssumption, CreditsInv, NEW c \in Askers, Crediting!ReadsKey(c)
  PROVE  CreditsInv'
<1> USE DEF CreditsInv
<1>1. /\ credit \in [Askers -> CallStates] /\ credit[c].pc = "reading" /\ keys' = keys /\ stored' = stored
      /\ stored \in DOMAIN keys /\ keys \in Seq(Keys)
  BY DEF Crediting!CreditsTypeOK, Askers, CallStates, Crediting!ReadsKey, MintIsOne, Keys
<1>2. creditTroubles' \in 0..CreditTroubles
  BY DEF Crediting!ReadsKey, Crediting!Trouble, Crediting!Calm, Crediting!CreditsTypeOK,
         Crediting!CreditsAssumption
<1>3. /\ credit' \in [Askers -> CallStates] /\ minting' \in Asks \cup {NoCall} /\ tried' \subseteq DOMAIN keys
      /\ credit'[c].pc \in {"patching", "over"}
      /\ \A d \in Askers \ {c} : credit'[d] = credit[d] \/ credit'[d].pc = "over"
      /\ minting' = minting \/ (minting = c /\ minting' = NoCall)
  <2>1. CASE /\ tried' = tried \cup {stored} /\ minting' = minting
             /\ credit' = [credit EXCEPT ![c] = [pc |-> "patching", limit |-> keys[stored].limit]]
    <3>1. [pc |-> "patching", limit |-> keys[stored].limit] \in CallStates
      BY <1>1, KeyTyped DEF CallStates, Keys
    <3>2. credit' \in [Askers -> CallStates] /\ credit'[c].pc = "patching" /\ \A d \in Askers \ {c} : credit'[d] = credit[d]
      BY <1>1, <2>1, <3>1
    <3> QED BY <1>1, <2>1, <3>2 DEF Crediting!CreditsTypeOK
  <2>2. CASE Crediting!Over(c) /\ tried' = tried
    BY <2>2, OverFits DEF Crediting!CreditsTypeOK
  <2> QED BY <2>1, <2>2 DEF Crediting!ReadsKey
<1>4. Crediting!CreditsTypeOK'
  BY <1>1, <1>2, <1>3 DEF Crediting!CreditsTypeOK, CallStates, Askers, Keys
<1>5. MintIsOne'
  BY <1>1, <1>3 DEF MintIsOne
<1>6. Crediting!KeysAreOne'
  BY <1>1 DEF Crediting!KeysAreOne
<1> QED BY <1>4, <1>5, <1>6

LEMMA PatchesFit ==
  ASSUME Crediting!CreditsAssumption, CreditsInv, NEW c \in Askers, Crediting!Patches(c)
  PROVE  CreditsInv'
<1> USE DEF CreditsInv
<1>1. /\ credit \in [Askers -> CallStates] /\ credit[c].pc = "patching" /\ UNCHANGED <<stored, tried>>
      /\ stored \in DOMAIN keys /\ keys \in Seq(Keys) /\ credit[c].limit \in Nat /\ Crediting!Over(c)
  BY DEF Crediting!CreditsTypeOK, Askers, CallStates, Crediting!Patches, MintIsOne, Keys
<1>2. creditTroubles' \in 0..CreditTroubles
  BY DEF Crediting!Patches, Crediting!Trouble, Crediting!Calm, Crediting!CreditsTypeOK,
         Crediting!CreditsAssumption
<1>3. /\ credit' \in [Askers -> CallStates] /\ minting' \in Asks \cup {NoCall}
      /\ credit'[c].pc = "over"
      /\ \A d \in Askers : credit'[d] = credit[d] \/ credit'[d].pc = "over"
      /\ minting' = minting \/ (minting = c /\ minting' = NoCall)
  BY <1>1, OverFits
<1>4. /\ keys' \in Seq(Keys) /\ DOMAIN keys' = DOMAIN keys /\ Len(keys') = Len(keys)
      /\ \A k \in DOMAIN keys : keys'[k].fate = keys[k].fate /\ ~keys'[k].lowered
  <2>1. \A k \in DOMAIN keys : keys[k] \in Keys /\ ~keys[k].lowered
    BY <1>1 DEF Crediting!KeysAreOne
  <2>2. CASE keys' = keys
    BY <1>1, <2>1, <2>2
  <2>3. CASE keys' = Crediting!Patched(stored, credit[c].limit)
    <3> DEFINE limit == credit[c].limit
               less  == Crediting!Raised(limit) < keys[stored].limit /\ limit = keys[stored].limit
               key   == [keys[stored] EXCEPT !.limit = Crediting!Raised(limit), !.monthly = FALSE,
                                             !.lowered = keys[stored].lowered \/ less]
    <3>1. Crediting!Raised(limit) \in Nat /\ limit <= Crediting!Raised(limit)
      BY <1>1 DEF Crediting!Raised, Crediting!CreditsAssumption
    <3>2. keys[stored].limit \in Nat /\ keys[stored] \in Keys /\ ~keys[stored].lowered
      BY <1>1, <2>1 DEF Keys
    <3>3. less = FALSE
      BY <3>1, <3>2
    <3>4. key \in Keys /\ key.fate = keys[stored].fate /\ ~key.lowered
      BY <3>1, <3>2, <3>3 DEF Keys
    <3>5. keys' = [keys EXCEPT ![stored] = key]
      BY <2>3 DEF Crediting!Patched
    <3> HIDE DEF key
    <3> QED BY <1>1, <2>1, <3>4, <3>5
  <2> QED BY <2>2, <2>3 DEF Crediting!Patches
<1>5. Crediting!CreditsTypeOK'
  BY <1>1, <1>2, <1>3, <1>4 DEF Crediting!CreditsTypeOK, CallStates, Askers, Keys
<1>6. MintIsOne'
  BY <1>1, <1>3 DEF MintIsOne
<1>7. Crediting!KeysAreOne'
  BY <1>1, <1>4 DEF Crediting!KeysAreOne
<1> QED BY <1>5, <1>6, <1>7

LEMMA RaisedByHandFits ==
  ASSUME Crediting!CreditsAssumption, CreditsInv, Crediting!RaisedByHand
  PROVE  CreditsInv'
<1> USE DEF CreditsInv
<1>1. /\ stored \in DOMAIN keys /\ keys \in Seq(Keys) /\ UNCHANGED <<stored, minting, credit, tried>>
      /\ keys' = [keys EXCEPT ![stored].limit = HandLimit] /\ HandLimit \in Nat
      /\ creditTroubles' \in 0..CreditTroubles
  BY DEF Crediting!RaisedByHand, Crediting!CreditsTypeOK, Crediting!CreditsAssumption,
     Crediting!Trouble, Keys
<1>2. [keys[stored] EXCEPT !.limit = HandLimit] \in Keys
  BY <1>1, KeyTyped DEF Keys
<1>3. /\ keys' \in Seq(Keys) /\ DOMAIN keys' = DOMAIN keys /\ Len(keys') = Len(keys)
      /\ \A k \in DOMAIN keys : keys'[k].fate = keys[k].fate /\ keys'[k].lowered = keys[k].lowered
  BY <1>1, <1>2 DEF Keys
<1>4. Crediting!CreditsTypeOK'
  BY <1>1, <1>3 DEF Crediting!CreditsTypeOK, Keys
<1>5. MintIsOne'
  BY <1>1 DEF MintIsOne
<1>6. Crediting!KeysAreOne'
  BY <1>1, <1>3 DEF Crediting!KeysAreOne
<1> QED BY <1>4, <1>5, <1>6

LEMMA CreditsRestartsFit ==
  ASSUME Crediting!CreditsAssumption, CreditsInv, Crediting!Restarts
  PROVE  CreditsInv'
<1> USE DEF CreditsInv
<1> DEFINE Settled(k) == IF keys[k].fate = "second" THEN [keys[k] EXCEPT !.fate = "undeleted"] ELSE keys[k]
           kept == [k \in DOMAIN keys |-> Settled(k)]
<1>1. /\ keys \in Seq(Keys) /\ credit \in [Askers -> CallStates] /\ stored' = stored
      /\ minting' = NoCall /\ tried' = {} /\ creditTroubles' \in 0..CreditTroubles
  BY DEF Crediting!Restarts, Crediting!CreditsTypeOK, Crediting!CreditsAssumption,
     Crediting!Trouble, Keys,
         Askers, CallStates
<1>2. \A k \in DOMAIN keys : /\ Settled(k) \in Keys
                             /\ Settled(k).fate \in Gone \cup {keys[k].fate}
                             /\ Settled(k).lowered = keys[k].lowered
  BY KeyTyped DEF Keys, Gone
<1>3. kept \in Seq(Keys) /\ Len(kept) = Len(keys) /\ DOMAIN kept = DOMAIN keys /\ Len(keys) \in Nat
  BY <1>1, <1>2
<1>4. /\ keys' \in Seq(Keys) /\ DOMAIN keys \subseteq DOMAIN keys' /\ Len(keys') \in Nat /\ Len(keys) <= Len(keys')
      /\ \A k \in DOMAIN keys : keys'[k] = Settled(k)
      /\ \A k \in DOMAIN keys' \ DOMAIN keys : keys'[k].fate \in Gone /\ ~keys'[k].lowered
  <2>1. CASE keys' = kept
    BY <2>1, <1>3
  <2>2. CASE keys' = Append(kept, Crediting!NewKey("cut"))
    <3>1. /\ Crediting!NewKey("cut") \in Keys /\ Crediting!NewKey("cut").fate = "cut"
          /\ ~Crediting!NewKey("cut").lowered
      BY DEF Crediting!NewKey, Keys, Crediting!CreditsAssumption
    <3>2. \A k \in DOMAIN keys : kept[k] = Settled(k)
      OBVIOUS
    <3> HIDE DEF kept, Settled
    <3> QED BY <2>2, <1>3, <3>1, <3>2 DEF Gone
  <2> QED BY <2>1, <2>2 DEF Crediting!Restarts
<1>5. credit' \in [Askers -> CallStates] /\ \A d \in Askers : credit'[d].pc \in {"idle", "over"}
  BY <1>1 DEF Crediting!Restarts, Crediting!Idle, Askers, CallStates
<1>6. Crediting!CreditsTypeOK'
  BY <1>1, <1>4, <1>5 DEF Crediting!CreditsTypeOK, CallStates, Askers, Keys
<1>7. MintIsOne'
  BY <1>1, <1>5 DEF MintIsOne
<1>8. Crediting!KeysAreOne'
  <2>1. \A k \in DOMAIN keys : keys'[k].fate \in Gone \cup {keys[k].fate} /\ ~keys'[k].lowered
    BY <1>2, <1>4 DEF Crediting!KeysAreOne
  <2> QED BY <1>1, <1>4, <2>1, OneKeyKept
<1> QED BY <1>6, <1>7, <1>8

LEMMA CreditsKept ==
  ASSUME Crediting!CreditsAssumption, CreditsInv, [Crediting!CreditsNext]_(Crediting!creditVars)
  PROVE  CreditsInv'
<1>1. CASE UNCHANGED Crediting!creditVars
  BY <1>1 DEF CreditsInv, Crediting!creditVars, Crediting!CreditsTypeOK, MintIsOne,
     Crediting!KeysAreOne
<1>2. CASE Crediting!CreditsNext
  BY <1>2, ProvisionsFit, ClaimsFit, CreateThrowsFit, DiscardsFit, LooksFit, ReadsKeyFit,
     PatchesFit,
     RaisedByHandFits, CreditsRestartsFit DEF Crediting!CreditsNext, Askers
<1> QED BY <1>1, <1>2

(* Nobody is minted a second inference key and no read lowers a limit
   (file-credit-key-store.ts:3, credits.service.ts:276): for any number of
   provisions and reads and any faults. *)
THEOREM KeysStayOne ==
  ASSUME Crediting!CreditsAssumption
  PROVE  Crediting!CreditsSpec => [](Crediting!CreditsTypeOK /\ Crediting!KeysAreOne)
<1>1. Crediting!Init => CreditsInv
  BY CreditsStart
<1>2. CreditsInv /\ [Crediting!CreditsNext]_(Crediting!creditVars) => CreditsInv'
  BY CreditsKept
<1>3. CreditsInv => Crediting!CreditsTypeOK /\ Crediting!KeysAreOne
  BY DEF CreditsInv
<1> QED BY <1>1, <1>2, <1>3, PTL DEF Crediting!CreditsSpec

-------------------------------------------------------------------------------
SendCells == [path : Paths, until : Nat, nonce : Nat,
              pc : {"unmade", "prepared", "queued", "sending", "answered", "over"},
              told : {"nothing", "not_found", "refused", "settling", "failed", "pending", "unknown"}]
Ops == [by : Sends, state : {"pending", "included", "reverted"}, at : Nat, slow : BOOLEAN,
        nonce : Nat, until : Nat, seen : {"unfollowed", "pending", "included", "reverted", "left"}]

(* The variables' types, cell by cell. *)
SendsTyped ==
  /\ time \in 0..SendTime /\ troubles \in 0..SendTroubles /\ happened \subseteq SendFaults
  /\ lastEnd \in 0..SendTime \cup {NoTime} /\ sends \in Seq(Sends)
  /\ send \in [Sends -> SendCells] /\ ops \in Seq(Ops)

OnSpacer(s) == send[s].path # "kernel"

(* An operation is of a send that was taken, and the only one of it. *)
OpsFit ==
  /\ \A i, j \in DOMAIN ops : ops[i].by = ops[j].by => i = j
  /\ \A i \in DOMAIN ops : /\ send[ops[i].by].pc \in {"answered", "over"}
                           /\ send[ops[i].by].told \in {"pending", "failed", "unknown"}

(* The queue holds the wallet's sends that were committed and are not over, and
   the one under way heads it, a spacing after the mark. *)
TurnsFit ==
  /\ \A i, j \in DOMAIN sends : sends[i] = sends[j] => i = j
  /\ \A s \in Sends : (OnSpacer(s) /\ send[s].pc \in {"queued", "sending", "answered"})
                        <=> \E i \in DOMAIN sends : sends[i] = s
  /\ \A s \in Sends : OnSpacer(s) /\ send[s].pc \in {"sending", "answered"} => sends[1] = s
  /\ \A s \in Sends : OnSpacer(s) /\ send[s].pc = "sending" /\ lastEnd # NoTime => time >= lastEnd + Spacing

(* Unless a restart forgot it, the mark is no older than an operation that has
   yet to land; and one that is not slow has its time still before it. *)
MarkFits ==
  /\ lastEnd # NoTime => lastEnd <= time
  /\ \A i \in DOMAIN ops :
       /\ ops[i].at <= time
       /\ Sending!OnWallet(i) /\ ops[i].slow => "slow" \in happened
       /\ Sending!OnWallet(i) /\ Sending!Pending(i) =>
            /\ ops[i].slow \/ time <= ops[i].at + Settling
            /\ send[ops[i].by].pc = "over" /\ "restart" \notin happened =>
                 lastEnd # NoTime /\ ops[i].at <= lastEnd

(* A verdict was the operation's, and its time was up when it was left. *)
SeenFits ==
  \A i \in DOMAIN ops :
    /\ ops[i].seen \in {"included", "reverted"} => ops[i].seen = ops[i].state
    /\ ops[i].seen = "left" =>
         IF Sending!Pending(i) THEN time >= ops[i].until
                               ELSE ops[i].at >= ops[i].until \/ "unread" \in happened

EarlyFits ==
  \A s \in Sends : send[s].told = "settling" => happened \cap {"slow", "restart"} # {}

SendsInv == SendsTyped /\ OpsFit /\ TurnsFit /\ MarkFits /\ SeenFits /\ EarlyFits

LEMMA SameCardinality ==
  ASSUME NEW S
  PROVE  Sending!Cardinality(S) = Cardinality(S)
BY DEF Sending!Cardinality, Cardinality

LEMMA SendsStart ==
  ASSUME Sending!SendsAssumption, Sending!Init
  PROVE  SendsInv
<1>1. PICK path \in [Sends -> Paths] :
        send = [s \in Sends |-> [path |-> path[s], pc |-> "unmade", until |-> 0, nonce |-> 0,
                                 told |-> "nothing"]]
  BY DEF Sending!Init
<1>2. /\ time = 0 /\ ops = <<>> /\ sends = <<>> /\ lastEnd = NoTime /\ happened = {} /\ troubles = 0
      /\ DOMAIN ops = {} /\ DOMAIN sends = {} /\ SendTime \in Nat /\ SendTroubles \in Nat
  BY DEF Sending!Init, Sending!SendsAssumption
<1>3. send \in [Sends -> SendCells] /\ \A s \in Sends : send[s].pc = "unmade" /\ send[s].told = "nothing"
  BY <1>1 DEF SendCells
<1>4. SendsTyped
  BY <1>2, <1>3 DEF SendsTyped
<1>5. OpsFit /\ MarkFits /\ SeenFits
  BY <1>2 DEF OpsFit, MarkFits, SeenFits
<1>6. TurnsFit
  BY <1>2, <1>3 DEF TurnsFit
<1>7. EarlyFits
  BY <1>3 DEF EarlyFits
<1> QED BY <1>4, <1>5, <1>6, <1>7 DEF SendsInv

LEMMA OpTyped ==
  ASSUME SendsTyped, NEW i \in DOMAIN ops
  PROVE  /\ ops[i] \in Ops /\ ops[i].by \in Sends /\ ops[i].at \in Nat /\ ops[i].until \in Nat
         /\ ops[i].state \in {"pending", "included", "reverted"}
<1>1. ops[i] \in Ops
  BY DEF SendsTyped
<1> QED BY <1>1 DEF Ops

(* A fault is counted, and stays known. *)
LEMMA TroubleFits ==
  ASSUME Sending!SendsAssumption, SendsTyped,
         Sending!Calm \/ \E kind \in SendFaults \cup {"unapproved", "lost", "unhashed", "slow", "reverted",
                                                      "unread", "restart"} : Sending!Trouble(kind)
  PROVE  troubles' \in 0..SendTroubles /\ happened' \subseteq SendFaults /\ happened \subseteq happened'
BY DEF Sending!Calm, Sending!Trouble, SendsTyped, Sending!SendsAssumption

(* A step of sends that are not out yet: prepared, given up, or, of the Kernel
   account, sent. *)
LEMMA EarlyStepFits ==
  ASSUME Sending!SendsAssumption, SendsInv, UNCHANGED <<time, ops, sends, lastEnd>>,
         troubles' \in 0..SendTroubles, happened' \subseteq SendFaults, happened \subseteq happened',
         send' \in [Sends -> SendCells],
         \A t \in Sends :
           \/ send'[t] = send[t]
           \/ /\ send'[t].path = send[t].path /\ send[t].pc \in {"unmade", "prepared"}
              /\ \/ send'[t].pc \in {"prepared", "over"}
                 \/ send'[t].pc = "sending" /\ send[t].path = "kernel"
              /\ send'[t].told \in {send[t].told, "not_found", "refused"}
  PROVE  SendsInv'
<1> USE DEF SendsInv
<1>1. SendsTyped'
  BY DEF SendsTyped
<1>2. \A i \in DOMAIN ops : ops[i].by \in Sends /\ send'[ops[i].by] = send[ops[i].by]
  BY OpTyped DEF OpsFit
<1>3. OpsFit'
  BY <1>2 DEF OpsFit
<1>4. TurnsFit'
  <2>1. \A s \in Sends : OnSpacer(s)' = OnSpacer(s)
    BY DEF OnSpacer
  <2>2. \A s \in Sends : OnSpacer(s) => /\ send'[s].pc \in {"queued", "sending", "answered"}
                                            <=> send[s].pc \in {"queued", "sending", "answered"}
                                        /\ send'[s].pc \in {"sending", "answered"} => send'[s].pc = send[s].pc
    BY DEF OnSpacer
  <2> QED BY <2>1, <2>2 DEF TurnsFit
<1>5. MarkFits'
  BY <1>2 DEF MarkFits, Sending!OnWallet, Sending!Pending
<1>6. SeenFits'
  BY DEF SeenFits, Sending!Pending
<1>7. EarlyFits'
  BY DEF EarlyFits
<1> QED BY <1>1, <1>3, <1>4, <1>5, <1>6, <1>7

LEMMA PreparesFit ==
  ASSUME Sending!SendsAssumption, SendsInv, NEW s \in Sends,
         Sending!PreparesTransfer(s) \/ Sending!PreparesOperation(s)
  PROVE  SendsInv'
<1> USE DEF SendsInv
<1>1. /\ send \in [Sends -> SendCells] /\ time + Ttl \in Nat /\ Sending!KernelNonce \in Nat
  <2>1. IsFiniteSet(DOMAIN ops) /\ time \in Nat /\ Ttl \in Nat
    <3>1. DOMAIN ops = 1..Len(ops) /\ Len(ops) \in Nat
      BY DEF SendsTyped
    <3>2. IsFiniteSet(1..Len(ops))
      BY <3>1, FS_Interval
    <3>3. time \in Nat /\ Ttl \in Nat
      BY DEF SendsTyped, Sending!SendsAssumption
    <3> QED BY <3>1, <3>2, <3>3
  <2> DEFINE landed == {i \in DOMAIN ops : ~Sending!OnWallet(i) /\ ~Sending!Pending(i)}
  <2>2. IsFiniteSet(landed)
    BY <2>1, FS_Subset
  <2>5. Cardinality(landed) \in Nat
    BY <2>2, FS_CardinalityType
  <2>3. Sending!KernelNonce \in Nat
    BY <2>5, SameCardinality DEF Sending!KernelNonce
  <2>4. time + Ttl \in Nat
    BY <2>1
  <2> QED BY <2>3, <2>4 DEF SendsTyped
<1>2. troubles' \in 0..SendTroubles /\ happened' \subseteq SendFaults /\ happened' = happened
      /\ UNCHANGED <<time, ops, sends, lastEnd>>
  BY DEF Sending!PreparesTransfer, Sending!PreparesOperation, SendsTyped
<1>3. CASE Sending!PreparesTransfer(s)
  <2>1. /\ send[s].pc = "unmade"
        /\ send' = [t \in Sends |->
             IF t = s THEN [send[s] EXCEPT !.pc = "prepared", !.until = time + Ttl]
             ELSE IF send[t].path = "transfer" /\ send[t].pc = "prepared"
                  THEN [send[t] EXCEPT !.pc = "over", !.told = "not_found"] ELSE send[t]]
    BY <1>3 DEF Sending!PreparesTransfer
  <2>2. \A t \in Sends :
          /\ [send[t] EXCEPT !.pc = "prepared", !.until = time + Ttl] \in SendCells
          /\ [send[t] EXCEPT !.pc = "over", !.told = "not_found"] \in SendCells
    BY <1>1 DEF SendCells
  <2>3. send' \in [Sends -> SendCells]
    BY <1>1, <2>1, <2>2
  <2>4. send'[s].path = send[s].path /\ send'[s].pc = "prepared" /\ send'[s].told = send[s].told
    BY <1>1, <2>1 DEF SendCells
  <2>5. \A t \in Sends \ {s} :
          \/ send'[t] = send[t]
          \/ /\ send'[t].path = send[t].path /\ send[t].pc = "prepared"
             /\ send'[t].pc = "over" /\ send'[t].told = "not_found"
    BY <1>1, <2>1 DEF SendCells
  <2> QED BY <1>2, <2>1, <2>3, <2>4, <2>5, EarlyStepFits
<1>4. CASE Sending!PreparesOperation(s)
  <2> DEFINE cell == [send[s] EXCEPT !.pc = "prepared", !.until = time + Ttl, !.nonce = Sending!KernelNonce]
  <2>1. send[s].pc = "unmade" /\ send' = [send EXCEPT ![s] = cell]
    BY <1>1, <1>4 DEF Sending!PreparesOperation
  <2>2. cell \in SendCells /\ cell.path = send[s].path /\ cell.pc = "prepared" /\ cell.told = send[s].told
    BY <1>1 DEF SendCells
  <2> HIDE DEF cell
  <2>3. send' \in [Sends -> SendCells] /\ send'[s] = cell /\ \A t \in Sends \ {s} : send'[t] = send[t]
    BY <1>1, <2>1, <2>2
  <2> QED BY <1>2, <2>1, <2>2, <2>3, EarlyStepFits
<1> QED BY <1>3, <1>4

LEMMA TakesFit ==
  ASSUME Sending!SendsAssumption, SendsInv, NEW s \in Sends,
         Sending!TakesTooLate(s) \/ Sending!CommitsOperation(s)
  PROVE  SendsInv'
<1> USE DEF SendsInv
<1>1. send \in [Sends -> SendCells] /\ UNCHANGED <<time, ops, sends, lastEnd>> /\ send[s].pc = "prepared"
  BY DEF SendsTyped, Sending!TakesTooLate, Sending!CommitsOperation
<1>2. troubles' \in 0..SendTroubles /\ happened' \subseteq SendFaults /\ happened \subseteq happened'
  BY TroubleFits DEF Sending!TakesTooLate, Sending!CommitsOperation, Sending!Calm
<1>3. PICK cell \in SendCells :
        /\ send' = [send EXCEPT ![s] = cell] /\ cell.path = send[s].path
        /\ cell.pc = "over" \/ (cell.pc = "sending" /\ send[s].path = "kernel")
        /\ cell.told \in {send[s].told, "not_found", "refused"}
  <2>1. CASE send' = [send EXCEPT ![s].pc = "over", ![s].told = "not_found"]
    <3> DEFINE cell == [send[s] EXCEPT !.pc = "over", !.told = "not_found"]
    <3>1. cell \in SendCells /\ cell.path = send[s].path /\ cell.pc = "over" /\ cell.told = "not_found"
      BY <1>1 DEF SendCells
    <3>2. send' = [send EXCEPT ![s] = cell]
      BY <1>1, <2>1
    <3> HIDE DEF cell
    <3> QED BY <3>1, <3>2
  <2>2. CASE send' = [send EXCEPT ![s].pc = "over", ![s].told = "refused"]
    <3> DEFINE cell == [send[s] EXCEPT !.pc = "over", !.told = "refused"]
    <3>1. cell \in SendCells /\ cell.path = send[s].path /\ cell.pc = "over" /\ cell.told = "refused"
      BY <1>1 DEF SendCells
    <3>2. send' = [send EXCEPT ![s] = cell]
      BY <1>1, <2>2
    <3> HIDE DEF cell
    <3> QED BY <3>1, <3>2
  <2>3. CASE send' = [send EXCEPT ![s].pc = "sending"] /\ send[s].path = "kernel"
    <3> DEFINE cell == [send[s] EXCEPT !.pc = "sending"]
    <3>1. cell \in SendCells /\ cell.path = send[s].path /\ cell.pc = "sending" /\ cell.told = send[s].told
      BY <1>1 DEF SendCells
    <3>2. send' = [send EXCEPT ![s] = cell]
      BY <1>1, <2>3
    <3> HIDE DEF cell
    <3> QED BY <3>1, <3>2, <2>3
  <2> QED BY <2>1, <2>2, <2>3 DEF Sending!TakesTooLate, Sending!CommitsOperation
<1>4. send' \in [Sends -> SendCells] /\ send'[s] = cell /\ \A t \in Sends \ {s} : send'[t] = send[t]
  BY <1>1, <1>3
<1> QED BY <1>1, <1>2, <1>3, <1>4, EarlyStepFits

LEMMA QueuesFit ==
  ASSUME Sending!SendsAssumption, SendsInv, NEW s \in Sends,
         Sending!CommitsTransfer(s) \/ Sending!StepQueues(s)
  PROVE  SendsInv'
<1> USE DEF SendsInv
<1> DEFINE cell == [send[s] EXCEPT !.pc = "queued"]
<1>1. /\ send \in [Sends -> SendCells] /\ sends \in Seq(Sends)
      /\ UNCHANGED <<time, ops, lastEnd, happened, troubles>>
      /\ send[s].pc \in {"unmade", "prepared"} /\ OnSpacer(s)
      /\ send' = [send EXCEPT ![s] = cell] /\ sends' = Append(sends, s)
  BY DEF SendsTyped, Sending!CommitsTransfer, Sending!StepQueues, OnSpacer
<1>2. cell \in SendCells /\ cell.path = send[s].path /\ cell.pc = "queued" /\ cell.told = send[s].told
  BY <1>1 DEF SendCells
<1> HIDE DEF cell
<1>3. send' \in [Sends -> SendCells] /\ send'[s] = cell /\ \A t \in Sends \ {s} : send'[t] = send[t]
  BY <1>1, <1>2
<1>4. /\ sends' \in Seq(Sends) /\ DOMAIN sends' = DOMAIN sends \cup {Len(sends) + 1} /\ Len(sends) \in Nat
      /\ sends'[Len(sends) + 1] = s /\ \A i \in DOMAIN sends : sends'[i] = sends[i]
      /\ Len(sends) + 1 \notin DOMAIN sends /\ (sends # <<>> => 1 \in DOMAIN sends)
  BY <1>1
<1>5. ~\E i \in DOMAIN sends : sends[i] = s
  BY <1>1 DEF TurnsFit
<1>6. \A t \in Sends : OnSpacer(t)' = OnSpacer(t)
  BY <1>2, <1>3 DEF OnSpacer
<1>7. SendsTyped'
  BY <1>1, <1>3, <1>4 DEF SendsTyped
<1>8. \A i \in DOMAIN ops : ops[i].by \in Sends \ {s} /\ send'[ops[i].by] = send[ops[i].by]
  BY <1>1, <1>3, OpTyped DEF OpsFit
<1>9. OpsFit'
  BY <1>1, <1>8 DEF OpsFit
<1>10. TurnsFit'
  <2>1. \A i, j \in DOMAIN sends' : sends'[i] = sends'[j] => i = j
    BY <1>4, <1>5 DEF TurnsFit
  <2>2. \A t \in Sends : (OnSpacer(t)' /\ send'[t].pc \in {"queued", "sending", "answered"})
                           <=> \E i \in DOMAIN sends' : sends'[i] = t
    <3>1. \A t \in Sends \ {s} : (\E i \in DOMAIN sends' : sends'[i] = t) <=> \E i \in DOMAIN sends : sends[i] = t
      BY <1>4
    <3>2. \E i \in DOMAIN sends' : sends'[i] = s
      BY <1>4
    <3> QED BY <1>1, <1>2, <1>3, <1>6, <3>1, <3>2 DEF TurnsFit
  <2>3. \A t \in Sends : OnSpacer(t)' /\ send'[t].pc \in {"sending", "answered"} => sends'[1] = t
    <3> SUFFICES ASSUME NEW t \in Sends, OnSpacer(t), t # s, send[t].pc \in {"sending", "answered"}
                 PROVE  sends'[1] = t
      BY <1>2, <1>3, <1>6
    <3>1. sends # <<>> /\ sends[1] = t
      BY DEF TurnsFit
    <3> QED BY <1>4, <3>1
  <2>4. \A t \in Sends : OnSpacer(t)' /\ send'[t].pc = "sending" /\ lastEnd' # NoTime => time' >= lastEnd' + Spacing
    BY <1>1, <1>2, <1>3, <1>6 DEF TurnsFit
  <2> QED BY <2>1, <2>2, <2>3, <2>4 DEF TurnsFit
<1>11. MarkFits'
  BY <1>1, <1>8 DEF MarkFits, Sending!OnWallet, Sending!Pending
<1>12. SeenFits'
  BY <1>1 DEF SeenFits, Sending!Pending
<1>13. EarlyFits'
  BY <1>1, <1>2, <1>3 DEF EarlyFits
<1> QED BY <1>7, <1>9, <1>10, <1>11, <1>12, <1>13

LEMMA StartsFit ==
  ASSUME Sending!SendsAssumption, SendsInv, NEW s \in Sends, Sending!Starts(s)
  PROVE  SendsInv'
<1> USE DEF SendsInv
<1> DEFINE cell == [send[s] EXCEPT !.pc = "sending"]
<1>1. /\ send \in [Sends -> SendCells] /\ sends \in Seq(Sends)
      /\ UNCHANGED <<time, ops, sends, lastEnd, happened, troubles>>
      /\ send[s].pc = "queued" /\ Head(sends) = s
      /\ send' = [send EXCEPT ![s] = cell] /\ (lastEnd # NoTime => time >= lastEnd + Spacing)
  BY DEF SendsTyped, Sending!Starts
<1>2. cell \in SendCells /\ cell.path = send[s].path /\ cell.pc = "sending" /\ cell.told = send[s].told
  BY <1>1 DEF SendCells
<1> HIDE DEF cell
<1>3. send' \in [Sends -> SendCells] /\ send'[s] = cell /\ \A t \in Sends \ {s} : send'[t] = send[t]
  BY <1>1, <1>2
<1>6. \A t \in Sends : OnSpacer(t)' = OnSpacer(t)
  BY <1>2, <1>3 DEF OnSpacer
<1>7. SendsTyped'
  BY <1>1, <1>3 DEF SendsTyped
<1>8. \A i \in DOMAIN ops : ops[i].by \in Sends \ {s} /\ send'[ops[i].by] = send[ops[i].by]
  BY <1>1, <1>3, OpTyped DEF OpsFit
<1>9. OpsFit'
  BY <1>1, <1>8 DEF OpsFit
<1>10. TurnsFit'
  <2>1. OnSpacer(s) => sends[1] = s
    <3>1. OnSpacer(s) => sends # <<>>
      BY <1>1 DEF TurnsFit
    <3> QED BY <1>1, <3>1
  <2>2. \A t \in Sends : send'[t].pc \in {"queued", "sending", "answered"}
                           <=> send[t].pc \in {"queued", "sending", "answered"}
    BY <1>1, <1>2, <1>3
  <2>3. \A t \in Sends : OnSpacer(t) /\ send'[t].pc \in {"sending", "answered"} => sends[1] = t
    BY <1>1, <1>2, <1>3, <2>1 DEF TurnsFit
  <2>4. \A t \in Sends : OnSpacer(t) /\ send'[t].pc = "sending" /\ lastEnd # NoTime => time >= lastEnd + Spacing
    BY <1>1, <1>2, <1>3 DEF TurnsFit
  <2> QED BY <1>1, <1>6, <2>2, <2>3, <2>4 DEF TurnsFit
<1>11. MarkFits'
  BY <1>1, <1>8 DEF MarkFits, Sending!OnWallet, Sending!Pending
<1>12. SeenFits'
  BY <1>1 DEF SeenFits, Sending!Pending
<1>13. EarlyFits'
  BY <1>1, <1>2, <1>3 DEF EarlyFits
<1> QED BY <1>7, <1>9, <1>10, <1>11, <1>12, <1>13

(* What becomes of a send whose answer came. *)
LEMMA AnswerFits ==
  ASSUME Sending!SendsAssumption, SendsInv, NEW s \in Sends, send[s].pc = "sending",
         NEW what \in {"refused", "settling", "failed", "pending", "unknown"}, Sending!Tells(s, what)
  PROVE  /\ send' \in [Sends -> SendCells] /\ \A t \in Sends \ {s} : send'[t] = send[t]
         /\ send'[s].path = send[s].path /\ send'[s].pc = "answered" /\ send'[s].told = what
         /\ \A i \in DOMAIN ops : ops[i].by \in Sends \ {s}
         /\ \A t \in Sends : OnSpacer(t)' = OnSpacer(t)
<1> USE DEF SendsInv
<1> DEFINE cell == [send[s] EXCEPT !.pc = "answered", !.told = what]
<1>1. send \in [Sends -> SendCells] /\ send' = [send EXCEPT ![s] = cell]
  BY DEF SendsTyped, Sending!Tells
<1>2. cell \in SendCells /\ cell.path = send[s].path /\ cell.pc = "answered" /\ cell.told = what
  BY <1>1 DEF SendCells
<1> HIDE DEF cell
<1>3. send' \in [Sends -> SendCells] /\ send'[s] = cell /\ \A t \in Sends \ {s} : send'[t] = send[t]
  BY <1>1, <1>2
<1>4. \A i \in DOMAIN ops : ops[i].by \in Sends \ {s}
  BY OpTyped DEF OpsFit
<1> QED BY <1>2, <1>3, <1>4 DEF OnSpacer

LEMMA AnswerTurns ==
  ASSUME Sending!SendsAssumption, SendsInv, NEW s \in Sends, send[s].pc = "sending",
         \A t \in Sends \ {s} : send'[t] = send[t],
         send'[s].pc = "answered", \A t \in Sends : OnSpacer(t)' = OnSpacer(t),
         UNCHANGED <<time, sends, lastEnd>>
  PROVE  TurnsFit'
<1> USE DEF SendsInv
<1>2. \A t \in Sends : send'[t].pc \in {"queued", "sending", "answered"}
                         <=> send[t].pc \in {"queued", "sending", "answered"}
  OBVIOUS
<1>3. \A t \in Sends : OnSpacer(t) /\ send'[t].pc \in {"sending", "answered"} => sends[1] = t
  BY DEF TurnsFit
<1>4. \A t \in Sends : OnSpacer(t) /\ send'[t].pc = "sending" /\ lastEnd # NoTime => time >= lastEnd + Spacing
  BY DEF TurnsFit
<1> QED BY <1>2, <1>3, <1>4 DEF TurnsFit

(* Nothing was taken, and the caller is told so. *)
LEMMA ToldNothingFits ==
  ASSUME Sending!SendsAssumption, SendsInv, NEW s \in Sends, send[s].pc = "sending",
         NEW what \in {"refused", "settling"}, Sending!Tells(s, what),
         UNCHANGED <<time, ops, sends, lastEnd>>,
         troubles' \in 0..SendTroubles, happened' \subseteq SendFaults, happened \subseteq happened',
         what = "settling" => happened \cap {"slow", "restart"} # {}
  PROVE  SendsInv'
<1> USE DEF SendsInv
<1>1. /\ send' \in [Sends -> SendCells] /\ \A t \in Sends \ {s} : send'[t] = send[t]
      /\ send'[s].path = send[s].path /\ send'[s].pc = "answered" /\ send'[s].told = what
      /\ \A i \in DOMAIN ops : ops[i].by \in Sends \ {s}
      /\ \A t \in Sends : OnSpacer(t)' = OnSpacer(t)
  BY AnswerFits
<1>2. SendsTyped'
  BY <1>1 DEF SendsTyped
<1>3. OpsFit'
  BY <1>1 DEF OpsFit
<1>4. TurnsFit'
  BY <1>1, AnswerTurns
<1>5. MarkFits'
  BY <1>1 DEF MarkFits, Sending!OnWallet, Sending!Pending
<1>6. SeenFits'
  BY DEF SeenFits, Sending!Pending
<1>7. EarlyFits'
  BY <1>1 DEF EarlyFits
<1> QED BY <1>2, <1>3, <1>4, <1>5, <1>6, <1>7

(* An operation was taken, whatever the caller is told. *)
LEMMA TakenFits ==
  ASSUME Sending!SendsAssumption, SendsInv, NEW s \in Sends, send[s].pc = "sending",
         NEW what \in {"failed", "pending", "unknown"}, Sending!Tells(s, what),
         NEW slow \in BOOLEAN, ops' = Append(ops, Sending!Operation(s, slow)),
         UNCHANGED <<time, sends, lastEnd>>,
         troubles' \in 0..SendTroubles, happened' \subseteq SendFaults, happened \subseteq happened',
         slow /\ OnSpacer(s) => "slow" \in happened'
  PROVE  SendsInv'
<1> USE DEF SendsInv
<1>0. PICK n \in Nat : n = Len(ops) + 1
  BY DEF SendsTyped
<1> DEFINE op == Sending!Operation(s, slow)
<1>1. /\ send' \in [Sends -> SendCells] /\ \A t \in Sends \ {s} : send'[t] = send[t]
      /\ send'[s].path = send[s].path /\ send'[s].pc = "answered" /\ send'[s].told = what
      /\ \A i \in DOMAIN ops : ops[i].by \in Sends \ {s}
      /\ \A t \in Sends : OnSpacer(t)' = OnSpacer(t)
  BY AnswerFits
<1>2. /\ op \in Ops /\ op.by = s /\ op.state = "pending" /\ op.at = time /\ op.slow = slow
      /\ op.until = 0 /\ op.seen = "unfollowed" /\ time \in Nat /\ Settling \in Nat
  <2>1. send[s].nonce \in Nat /\ time \in Nat /\ Settling \in Nat
    BY DEF SendsTyped, SendCells, Sending!SendsAssumption
  <2> QED BY <2>1 DEF Sending!Operation, Ops
<1>3. /\ ops \in Seq(Ops) /\ ops' \in Seq(Ops) /\ DOMAIN ops' = DOMAIN ops \cup {n} /\ n \notin DOMAIN ops
      /\ ops'[n] = op /\ \A i \in DOMAIN ops : ops'[i] = ops[i]
  BY <1>0, <1>2 DEF SendsTyped
<1> HIDE DEF op
<1>4. SendsTyped'
  BY <1>1, <1>3 DEF SendsTyped
<1>5. OpsFit'
  <2>1. \A i, j \in DOMAIN ops' : ops'[i].by = ops'[j].by => i = j
    BY <1>1, <1>2, <1>3 DEF OpsFit
  <2>2. \A i \in DOMAIN ops' : /\ send'[ops'[i].by].pc \in {"answered", "over"}
                               /\ send'[ops'[i].by].told \in {"pending", "failed", "unknown"}
    BY <1>1, <1>2, <1>3 DEF OpsFit
  <2> QED BY <2>1, <2>2 DEF OpsFit
<1>6. TurnsFit'
  BY <1>1, AnswerTurns
<1>7. MarkFits'
  <2>1. \A i \in DOMAIN ops : ops'[i].by \in Sends \ {s} /\ send'[ops'[i].by] = send[ops[i].by]
    BY <1>1, <1>3
  <2>2. \A i \in DOMAIN ops :
          /\ Sending!OnWallet(i)' = Sending!OnWallet(i) /\ Sending!Pending(i)' = Sending!Pending(i)
    BY <2>1, <1>3 DEF Sending!OnWallet, Sending!Pending
  <2>3. \A i \in DOMAIN ops :
          /\ ops'[i].at <= time
          /\ Sending!OnWallet(i)' /\ ops'[i].slow => "slow" \in happened'
          /\ Sending!OnWallet(i)' /\ Sending!Pending(i)' =>
               /\ ops'[i].slow \/ time <= ops'[i].at + Settling
               /\ send'[ops'[i].by].pc = "over" /\ "restart" \notin happened' =>
                    lastEnd # NoTime /\ ops'[i].at <= lastEnd
    BY <2>1, <2>2, <1>3 DEF MarkFits
  <2>4. /\ ops'[n].at <= time /\ time <= ops'[n].at + Settling /\ send'[ops'[n].by].pc = "answered"
        /\ Sending!OnWallet(n)' /\ ops'[n].slow => "slow" \in happened'
    <3>1. ops'[n].at = time /\ ops'[n].by = s /\ ops'[n].slow = slow /\ send'[s].path = send[s].path
      BY <1>1, <1>2, <1>3
    <3>2. Sending!OnWallet(n)' => OnSpacer(s)
      BY <3>1 DEF Sending!OnWallet, OnSpacer
    <3> QED BY <1>1, <1>2, <3>1, <3>2
  <2>5. lastEnd # NoTime => lastEnd <= time
    BY DEF MarkFits
  <2>6. \A i \in DOMAIN ops' : i \in DOMAIN ops \/ i = n
    BY <1>3
  <2> QED BY <2>3, <2>4, <2>5, <2>6 DEF MarkFits
<1>8. SeenFits'
  BY <1>2, <1>3 DEF SeenFits, Sending!Pending
<1>9. EarlyFits'
  BY <1>1 DEF EarlyFits
<1> QED BY <1>4, <1>5, <1>6, <1>7, <1>8, <1>9

(* Refused as too early: the operation before it was slow, or the mark is gone. *)
LEMMA EarlyIsExplained ==
  ASSUME Sending!SendsAssumption, SendsInv, NEW s \in Sends, send[s].pc = "sending", OnSpacer(s),
         Sending!Unsettled
  PROVE  happened \cap {"slow", "restart"} # {}
<1> USE DEF SendsInv
<1>1. PICK i \in DOMAIN ops : Sending!OnWallet(i) /\ Sending!Pending(i)
  BY DEF Sending!Unsettled
<1>2. SUFFICES ASSUME "slow" \notin happened, "restart" \notin happened PROVE FALSE
  OBVIOUS
<1>3. ~ops[i].slow /\ time <= ops[i].at + Settling
  BY <1>1, <1>2 DEF MarkFits
<1>4. send[ops[i].by].pc = "over"
  <2>1. send[ops[i].by].pc \in {"answered", "over"} /\ ops[i].by \in Sends
    BY OpTyped DEF OpsFit
  <2>2. send[ops[i].by].pc = "answered" => ops[i].by = s
    BY <1>1, <2>1 DEF TurnsFit, OnSpacer, Sending!OnWallet
  <2> QED BY <2>1, <2>2
<1>5. lastEnd # NoTime /\ ops[i].at <= lastEnd
  BY <1>1, <1>2, <1>4 DEF MarkFits
<1>6. time >= lastEnd + Spacing
  BY <1>5 DEF TurnsFit
<1>7. time \in Nat /\ lastEnd \in Nat /\ ops[i].at \in Nat /\ Settling \in Nat /\ Spacing \in Nat /\ Settling < Spacing
  BY <1>5, OpTyped DEF SendsTyped, Sending!SendsAssumption
<1> QED BY <1>3, <1>5, <1>6, <1>7

LEMMA PrivyFits ==
  ASSUME Sending!SendsAssumption, SendsInv, NEW s \in Sends, Sending!PrivyTakes(s)
  PROVE  SendsInv'
<1>1. /\ send[s].pc = "sending" /\ OnSpacer(s) /\ UNCHANGED <<time, sends, lastEnd>> /\ SendsTyped
  BY DEF Sending!PrivyTakes, OnSpacer, SendsInv
<1>2. troubles' \in 0..SendTroubles /\ happened' \subseteq SendFaults /\ happened \subseteq happened'
  BY <1>1, TroubleFits DEF Sending!PrivyTakes
<1>3. CASE Sending!Trouble("unapproved") /\ Sending!Tells(s, "refused") /\ UNCHANGED ops
  BY <1>1, <1>2, <1>3, ToldNothingFits
<1>4. CASE Sending!Unsettled /\ Sending!Tells(s, "settling") /\ UNCHANGED ops /\ Sending!Calm
  BY <1>1, <1>2, <1>4, ToldNothingFits, EarlyIsExplained
<1>5. CASE ops' = Append(ops, Sending!Operation(s, FALSE)) /\ Sending!Tells(s, "pending")
  BY <1>1, <1>2, <1>5, TakenFits
<1>6. CASE Sending!Trouble("slow") /\ ops' = Append(ops, Sending!Operation(s, TRUE)) /\ Sending!Tells(s, "pending")
  <2>1. "slow" \in happened'
    BY <1>6 DEF Sending!Trouble
  <2> QED BY <1>1, <1>2, <1>6, <2>1, TakenFits
<1>7. CASE ops' = Append(ops, Sending!Operation(s, FALSE)) /\ Sending!Tells(s, "failed")
  BY <1>1, <1>2, <1>7, TakenFits
<1>8. CASE ops' = Append(ops, Sending!Operation(s, FALSE)) /\ Sending!Tells(s, "unknown")
  BY <1>1, <1>2, <1>8, TakenFits
<1> QED BY <1>3, <1>4, <1>5, <1>6, <1>7, <1>8 DEF Sending!PrivyTakes

LEMMA BundlerFits ==
  ASSUME Sending!SendsAssumption, SendsInv, NEW s \in Sends, Sending!BundlerTakes(s)
  PROVE  SendsInv'
<1>1. /\ send[s].pc = "sending" /\ ~OnSpacer(s) /\ UNCHANGED <<time, sends, lastEnd>> /\ SendsTyped
  BY DEF Sending!BundlerTakes, OnSpacer, SendsInv
<1>2. troubles' \in 0..SendTroubles /\ happened' \subseteq SendFaults /\ happened \subseteq happened'
  BY <1>1, TroubleFits DEF Sending!BundlerTakes
<1>3. CASE Sending!Tells(s, "refused") /\ UNCHANGED ops
  BY <1>1, <1>2, <1>3, ToldNothingFits
<1>4. CASE /\ ops' = Append(ops, Sending!Operation(s, TRUE))
           /\ Sending!Tells(s, "pending") \/ Sending!Tells(s, "failed")
  BY <1>1, <1>2, <1>4, TakenFits
<1> QED BY <1>3, <1>4 DEF Sending!BundlerTakes

LEMMA SendEndsFit ==
  ASSUME Sending!SendsAssumption, SendsInv, NEW s \in Sends, Sending!Ends(s)
  PROVE  SendsInv'
<1> USE DEF SendsInv
<1> DEFINE cell == [send[s] EXCEPT !.pc = "over"]
           Followed(i) == i \in Sending!Of(s) /\ send[s].told = "pending" /\ send[s].path # "step"
           kept(i) == [ops[i] EXCEPT !.seen = "pending", !.until = time + Patience]
<1>1. /\ send \in [Sends -> SendCells] /\ send' = [send EXCEPT ![s] = cell] /\ send[s].pc = "answered"
      /\ UNCHANGED <<time, happened, troubles>> /\ ops \in Seq(Ops)
      /\ ops' = [i \in DOMAIN ops |-> IF Followed(i) THEN kept(i) ELSE ops[i]]
  BY DEF SendsTyped, Sending!Ends
<1>2. cell \in SendCells /\ cell.path = send[s].path /\ cell.pc = "over" /\ cell.told = send[s].told
  BY <1>1 DEF SendCells
<1> HIDE DEF cell
<1>3. /\ send' \in [Sends -> SendCells] /\ send'[s] = cell /\ \A t \in Sends \ {s} : send'[t] = send[t]
      /\ \A t \in Sends : OnSpacer(t)' = OnSpacer(t)
  BY <1>1, <1>2 DEF OnSpacer
<1>4. \A i \in DOMAIN ops :
        /\ kept(i) \in Ops /\ kept(i).by = ops[i].by /\ kept(i).state = ops[i].state /\ kept(i).at = ops[i].at
        /\ kept(i).slow = ops[i].slow /\ kept(i).seen = "pending"
  <2>1. time + Patience \in Nat
    BY DEF SendsTyped, Sending!SendsAssumption
  <2> QED BY <2>1, OpTyped DEF Ops
<1>5. /\ ops' \in Seq(Ops) /\ DOMAIN ops' = DOMAIN ops
      /\ \A i \in DOMAIN ops : /\ ops'[i].by = ops[i].by /\ ops'[i].state = ops[i].state
                               /\ ops'[i].at = ops[i].at /\ ops'[i].slow = ops[i].slow
                               /\ ops'[i] = ops[i] \/ ops'[i].seen = "pending"
  <2> HIDE DEF Followed, kept
  <2>1. \A i \in DOMAIN ops : ops'[i] \in Ops
    BY <1>1, <1>4
  <2>2. Len(ops) \in Nat /\ DOMAIN ops = 1..Len(ops) /\ DOMAIN ops' = DOMAIN ops
        /\ ops' = [i \in DOMAIN ops |-> ops'[i]]
    BY <1>1
  <2>3. ops' \in Seq(Ops)
    BY <2>1, <2>2
  <2> QED BY <1>1, <1>4, <2>2, <2>3
<1> HIDE DEF Followed, kept
<1>6. /\ sends' \in Seq(Sends) /\ lastEnd' \in 0..SendTime \cup {NoTime}
      /\ OnSpacer(s) => sends' = Tail(sends) /\ lastEnd' = time /\ sends # <<>> /\ sends[1] = s
      /\ ~OnSpacer(s) => sends' = sends /\ lastEnd' = lastEnd
  <2>1. OnSpacer(s) => sends # <<>> /\ sends[1] = s
    BY <1>1 DEF TurnsFit
  <2>2. OnSpacer(s) => sends' = Tail(sends) /\ lastEnd' = time
    BY DEF OnSpacer, Sending!Ends, Sending!Marked
  <2>3. ~OnSpacer(s) => sends' = sends /\ lastEnd' = lastEnd
    BY DEF OnSpacer, Sending!Ends
  <2>4. sends' \in Seq(Sends)
    <3>1. sends \in Seq(Sends)
      BY DEF SendsTyped
    <3>2. sends # <<>> => Tail(sends) \in Seq(Sends)
      BY <3>1
    <3> QED BY <2>1, <2>2, <2>3, <3>1, <3>2
  <2>5. lastEnd' \in 0..SendTime \cup {NoTime}
    BY <2>2, <2>3 DEF SendsTyped
  <2> QED BY <2>1, <2>2, <2>3, <2>4, <2>5
<1>7. SendsTyped'
  BY <1>1, <1>3, <1>5, <1>6 DEF SendsTyped
<1>8. OpsFit'
  <2>1. \A i \in DOMAIN ops : /\ send'[ops[i].by].pc \in {"answered", "over"}
                              /\ send'[ops[i].by].told \in {"pending", "failed", "unknown"}
    BY <1>2, <1>3, OpTyped DEF OpsFit
  <2> QED BY <1>5, <2>1 DEF OpsFit
<1>9. TurnsFit'
  <2>1. CASE ~OnSpacer(s)
    BY <1>1, <1>2, <1>3, <1>6, <2>1 DEF TurnsFit
  <2>2. CASE OnSpacer(s)
    <3>1. /\ Len(sends) \in Nat \ {0} /\ DOMAIN sends = 1..Len(sends) /\ sends[1] = s
          /\ DOMAIN sends' = 1..(Len(sends) - 1) /\ \A i \in DOMAIN sends' : sends'[i] = sends[i + 1]
      BY <1>6, <2>2 DEF SendsTyped
    <3>2. \A i, j \in DOMAIN sends' : sends'[i] = sends'[j] => i = j
      <4> SUFFICES ASSUME NEW i \in DOMAIN sends', NEW j \in DOMAIN sends', sends'[i] = sends'[j] PROVE i = j
        OBVIOUS
      <4>1. i + 1 \in DOMAIN sends /\ j + 1 \in DOMAIN sends /\ i \in Nat /\ j \in Nat
        BY <3>1
      <4>2. i + 1 = j + 1
        BY <3>1, <4>1 DEF TurnsFit
      <4> QED BY <4>1, <4>2
    <3>3. \A t \in Sends \ {s} : (\E i \in DOMAIN sends' : sends'[i] = t) <=> \E i \in DOMAIN sends : sends[i] = t
      <4> SUFFICES ASSUME NEW t \in Sends \ {s}
                   PROVE  (\E i \in DOMAIN sends' : sends'[i] = t) <=> \E i \in DOMAIN sends : sends[i] = t
        OBVIOUS
      <4>1. ASSUME NEW i \in DOMAIN sends', sends'[i] = t PROVE \E j \in DOMAIN sends : sends[j] = t
        <5>1. i + 1 \in DOMAIN sends
          BY <3>1
        <5> QED BY <3>1, <4>1, <5>1
      <4>2. ASSUME NEW i \in DOMAIN sends, sends[i] = t PROVE \E j \in DOMAIN sends' : sends'[j] = t
        <5>1. i # 1 /\ i - 1 \in DOMAIN sends' /\ (i - 1) + 1 = i
          BY <3>1, <4>2
        <5> QED BY <3>1, <4>2, <5>1
      <4> QED BY <4>1, <4>2
    <3>4. ~\E i \in DOMAIN sends' : sends'[i] = s
      <4> SUFFICES ASSUME NEW i \in DOMAIN sends', sends'[i] = s PROVE FALSE
        OBVIOUS
      <4>1. i + 1 \in DOMAIN sends /\ 1 \in DOMAIN sends /\ i \in Nat \ {0} /\ sends[i + 1] = sends[1]
        BY <3>1
      <4>2. i + 1 = 1
        BY <4>1 DEF TurnsFit
      <4> QED BY <4>1, <4>2
    <3>5. \A t \in Sends \ {s} : OnSpacer(t) => send[t].pc \notin {"sending", "answered"}
      BY <3>1 DEF TurnsFit
    <3>6. \A t \in Sends : (OnSpacer(t) /\ send'[t].pc \in {"queued", "sending", "answered"})
                             <=> \E i \in DOMAIN sends' : sends'[i] = t
      <4>1. \A t \in Sends \ {s} : (OnSpacer(t) /\ send[t].pc \in {"queued", "sending", "answered"})
                                     <=> \E i \in DOMAIN sends : sends[i] = t
        BY DEF TurnsFit
      <4> QED BY <1>2, <1>3, <3>3, <3>4, <4>1
    <3>7. \A t \in Sends : OnSpacer(t) => send'[t].pc \notin {"sending", "answered"}
      BY <1>2, <1>3, <3>5
    <3> QED BY <1>3, <3>2, <3>6, <3>7 DEF TurnsFit
  <2> QED BY <2>1, <2>2
<1>10. MarkFits'
  <2>1. \A i \in DOMAIN ops :
          /\ Sending!OnWallet(i)' = Sending!OnWallet(i) /\ Sending!Pending(i)' = Sending!Pending(i)
          /\ ops[i].by \in Sends
    BY <1>2, <1>3, <1>5, OpTyped DEF Sending!OnWallet, Sending!Pending
  <2>2. \A i \in DOMAIN ops : ops[i].at <= time
    BY DEF MarkFits
  <2>3. \A i \in DOMAIN ops :
          /\ Sending!OnWallet(i) /\ ops[i].slow => "slow" \in happened
          /\ Sending!OnWallet(i) /\ Sending!Pending(i) =>
               /\ ops[i].slow \/ time <= ops[i].at + Settling
               /\ send'[ops[i].by].pc = "over" /\ "restart" \notin happened =>
                    lastEnd' # NoTime /\ ops[i].at <= lastEnd'
    <3>1. CASE OnSpacer(s)
      <4>1. lastEnd' = time /\ time # NoTime
        BY <1>6, <3>1 DEF SendsTyped, Sending!SendsAssumption
      <4> QED BY <2>2, <4>1 DEF MarkFits
    <3>2. CASE ~OnSpacer(s)
      <4>1. \A i \in DOMAIN ops : Sending!OnWallet(i) => send'[ops[i].by] = send[ops[i].by]
        BY <1>3, <2>1, <3>2 DEF OnSpacer, Sending!OnWallet
      <4> QED BY <1>6, <3>2, <4>1 DEF MarkFits
    <3> QED BY <3>1, <3>2
  <2>4. lastEnd' # NoTime => lastEnd' <= time
    BY <1>6 DEF MarkFits, SendsTyped
  <2> QED BY <1>1, <1>5, <2>1, <2>2, <2>3, <2>4 DEF MarkFits
<1>11. SeenFits'
  BY <1>1, <1>5 DEF SeenFits, Sending!Pending
<1>12. EarlyFits'
  BY <1>1, <1>2, <1>3 DEF EarlyFits
<1> QED BY <1>7, <1>8, <1>9, <1>10, <1>11, <1>12

(* What a step of one operation leaves of the rest. *)
LEMMA OpStepFits ==
  ASSUME Sending!SendsAssumption, SendsInv, NEW i \in DOMAIN ops, NEW op \in Ops,
         op.by = ops[i].by, op.slow = ops[i].slow,
         ops' = [ops EXCEPT ![i] = op], UNCHANGED <<time, send, sends, lastEnd>>,
         troubles' \in 0..SendTroubles, happened' \subseteq SendFaults, happened \subseteq happened',
         op.at \in {time, ops[i].at}, op.state = "pending" => op.at = ops[i].at /\ ops[i].state = "pending",
         op.seen \in {"included", "reverted"} => op.seen = op.state,
         op.seen = "left" => IF op.state = "pending" THEN time >= op.until
                             ELSE op.at >= op.until \/ "unread" \in happened'
  PROVE  SendsInv'
<1> USE DEF SendsInv
<1>1. /\ ops \in Seq(Ops) /\ ops' \in Seq(Ops) /\ DOMAIN ops' = DOMAIN ops /\ ops'[i] = op
      /\ \A j \in DOMAIN ops \ {i} : ops'[j] = ops[j]
  BY DEF SendsTyped
<1>2. SendsTyped'
  BY <1>1 DEF SendsTyped
<1>3. OpsFit'
  BY <1>1 DEF OpsFit
<1>4. TurnsFit'
  BY DEF TurnsFit, OnSpacer
<1>5. MarkFits'
  <2>1. \A j \in DOMAIN ops : /\ Sending!OnWallet(j)' = Sending!OnWallet(j)
                              /\ Sending!Pending(j)' => Sending!Pending(j) /\ ops'[j].at = ops[j].at
                              /\ ops'[j].slow = ops[j].slow /\ ops'[j].by = ops[j].by
                              /\ ops'[j].at \in {time, ops[j].at}
    BY <1>1 DEF Sending!OnWallet, Sending!Pending
  <2>2. time \in Nat
    BY DEF SendsTyped
  <2> QED BY <1>1, <2>1, <2>2 DEF MarkFits
<1>6. SeenFits'
  BY <1>1 DEF SeenFits, Sending!Pending
<1>7. EarlyFits'
  BY DEF EarlyFits
<1> QED BY <1>2, <1>3, <1>4, <1>5, <1>6, <1>7

LEMMA OperationLandsFit ==
  ASSUME Sending!SendsAssumption, SendsInv, NEW i \in DOMAIN ops, Sending!Lands(i)
  PROVE  SendsInv'
<1>1. ops[i] \in Ops /\ time \in Nat /\ SendsTyped
  BY OpTyped DEF SendsInv, SendsTyped
<1>2. PICK state \in {"included", "reverted"} : ops' = [ops EXCEPT ![i].state = state, ![i].at = time]
  BY DEF Sending!Lands
<1>3. UNCHANGED <<time, send, sends, lastEnd>> /\ ops[i].state = "pending"
  BY DEF Sending!Lands, Sending!Pending
<1>4. troubles' \in 0..SendTroubles /\ happened' \subseteq SendFaults /\ happened \subseteq happened'
  BY <1>1, TroubleFits DEF Sending!Lands
<1> DEFINE op == [ops[i] EXCEPT !.state = state, !.at = time]
<1>5. /\ op \in Ops /\ op.by = ops[i].by /\ op.slow = ops[i].slow /\ op.at = time /\ op.state = state
      /\ op.seen = ops[i].seen /\ op.until = ops[i].until
  BY <1>1, <1>2 DEF Ops
<1>6. ops' = [ops EXCEPT ![i] = op]
  BY <1>1, <1>2
<1>7. /\ ops[i].seen \notin {"included", "reverted"}
      /\ ops[i].seen = "left" => time >= ops[i].until
  BY <1>3 DEF SendsInv, SeenFits, Sending!Pending
<1> HIDE DEF op
<1> QED BY <1>2, <1>3, <1>4, <1>5, <1>6, <1>7, OpStepFits

LEMMA PollsFit ==
  ASSUME Sending!SendsAssumption, SendsInv, NEW i \in DOMAIN ops, Sending!Polls(i)
  PROVE  SendsInv'
<1>1. ops[i] \in Ops /\ time \in Nat /\ SendsTyped
  BY OpTyped DEF SendsInv, SendsTyped
<1>2. PICK seen \in {"included", "reverted", "left"} :
        /\ ops' = [ops EXCEPT ![i].seen = seen]
        /\ \/ seen = ops[i].state
           \/ /\ seen = "left" /\ time >= ops[i].until
              /\ ops[i].state = "pending" \/ Sending!Trouble("unread")
  BY <1>1 DEF Sending!Polls, Sending!Pending, Ops
<1>3. UNCHANGED <<time, send, sends, lastEnd>>
  BY DEF Sending!Polls
<1>4. troubles' \in 0..SendTroubles /\ happened' \subseteq SendFaults /\ happened \subseteq happened'
  BY <1>1, TroubleFits DEF Sending!Polls
<1> DEFINE op == [ops[i] EXCEPT !.seen = seen]
<1>5. /\ op \in Ops /\ op.by = ops[i].by /\ op.slow = ops[i].slow /\ op.at = ops[i].at
      /\ op.state = ops[i].state /\ op.seen = seen /\ op.until = ops[i].until
  BY <1>1, <1>2 DEF Ops
<1>6. ops' = [ops EXCEPT ![i] = op]
  BY <1>1, <1>2
<1>7. Sending!Trouble("unread") => "unread" \in happened'
  BY DEF Sending!Trouble
<1> HIDE DEF op
<1>8. ops[i].state \in {"pending", "included", "reverted"}
  BY <1>1 DEF Ops
<1>9. /\ op.seen \in {"included", "reverted"} => op.seen = op.state
      /\ op.seen = "left" => IF op.state = "pending" THEN time >= op.until
                             ELSE op.at >= op.until \/ "unread" \in happened'
  BY <1>2, <1>5, <1>7, <1>8
<1> QED BY <1>3, <1>4, <1>5, <1>6, <1>9, OpStepFits

LEMMA TickFits ==
  ASSUME Sending!SendsAssumption, SendsInv, Sending!Tick
  PROVE  SendsInv'
<1> USE DEF SendsInv
<1>1. /\ UNCHANGED <<send, ops, sends, lastEnd, happened, troubles>> /\ time \in Nat /\ time' = time + 1
      /\ time' \in 0..SendTime
  BY DEF Sending!Tick, SendsTyped, Sending!SendsAssumption
<1>2. SendsTyped'
  BY <1>1 DEF SendsTyped
<1>3. OpsFit'
  BY <1>1 DEF OpsFit
<1>4. TurnsFit'
  <2>1. \A s \in Sends : OnSpacer(s) /\ send[s].pc = "sending" /\ lastEnd # NoTime => time' >= lastEnd + Spacing
    BY <1>1 DEF TurnsFit, SendsTyped, Sending!SendsAssumption
  <2> QED BY <1>1, <2>1 DEF TurnsFit, OnSpacer
<1>5. MarkFits'
  <2>1. \A i \in DOMAIN ops : Sending!OnWallet(i) /\ Sending!Pending(i) /\ ~ops[i].slow => time' <= ops[i].at + Settling
    BY <1>1, OpTyped DEF Sending!Tick, Sending!SendsAssumption
  <2>2. \A i \in DOMAIN ops : ops[i].at <= time'
    BY <1>1, OpTyped DEF MarkFits
  <2>3. lastEnd # NoTime => lastEnd <= time'
    BY <1>1 DEF MarkFits, SendsTyped
  <2> QED BY <1>1, <2>1, <2>2, <2>3 DEF MarkFits, Sending!OnWallet, Sending!Pending
<1>6. SeenFits'
  <2>1. \A i \in DOMAIN ops : time >= ops[i].until => time' >= ops[i].until
    BY <1>1, OpTyped
  <2> QED BY <1>1, <2>1 DEF SeenFits, Sending!Pending
<1>7. EarlyFits'
  BY <1>1 DEF EarlyFits
<1> QED BY <1>2, <1>3, <1>4, <1>5, <1>6, <1>7

LEMMA SendsRestartFits ==
  ASSUME Sending!SendsAssumption, SendsInv, Sending!Restarts
  PROVE  SendsInv'
<1> USE DEF SendsInv
<1> DEFINE ended(s) == [send[s] EXCEPT !.pc = "over", !.told = "failed"]
           left(i)  == [ops[i] EXCEPT !.seen = "unfollowed"]
<1>1. /\ send \in [Sends -> SendCells] /\ time' = time /\ sends' = <<>> /\ lastEnd' = NoTime
      /\ send' = [s \in Sends |-> IF send[s].pc \in {"prepared", "queued", "sending", "answered"}
                                  THEN ended(s) ELSE send[s]]
      /\ ops' = [i \in DOMAIN ops |-> IF ops[i].seen = "pending" THEN left(i) ELSE ops[i]]
      /\ ops \in Seq(Ops) /\ "restart" \in happened'
  BY DEF SendsTyped, Sending!Restarts, Sending!Trouble
<1>2. troubles' \in 0..SendTroubles /\ happened' \subseteq SendFaults /\ happened \subseteq happened'
  BY TroubleFits DEF Sending!Restarts
<1>3. \A s \in Sends : /\ ended(s) \in SendCells /\ ended(s).path = send[s].path /\ ended(s).pc = "over"
                       /\ ended(s).told = "failed" /\ send[s] \in SendCells
  BY <1>1 DEF SendCells
<1>4. \A i \in DOMAIN ops : /\ left(i) \in Ops /\ left(i).by = ops[i].by /\ left(i).state = ops[i].state
                            /\ left(i).at = ops[i].at /\ left(i).slow = ops[i].slow
                            /\ left(i).until = ops[i].until /\ left(i).seen = "unfollowed"
  BY OpTyped DEF Ops
<1> HIDE DEF ended, left
<1>5. /\ send' \in [Sends -> SendCells]
      /\ \A s \in Sends : /\ send'[s].path = send[s].path
                          /\ \/ send'[s] = send[s] /\ send[s].pc \in {"unmade", "over"}
                             \/ send'[s].pc = "over" /\ send'[s].told = "failed"
  <2>1. \A s \in Sends : send[s].pc \in {"unmade", "prepared", "queued", "sending", "answered", "over"}
    BY <1>3 DEF SendCells
  <2> QED BY <1>1, <1>3, <2>1
<1>6. /\ ops' \in Seq(Ops) /\ DOMAIN ops' = DOMAIN ops
      /\ \A i \in DOMAIN ops : ops'[i] = ops[i] \/ ops'[i] = left(i)
  <2>1. \A i \in DOMAIN ops : ops'[i] \in Ops /\ (ops'[i] = ops[i] \/ ops'[i] = left(i))
    BY <1>1, <1>4, OpTyped
  <2>2. Len(ops) \in Nat /\ DOMAIN ops = 1..Len(ops) /\ DOMAIN ops' = DOMAIN ops
        /\ ops' = [i \in DOMAIN ops |-> ops'[i]]
    BY <1>1
  <2> QED BY <2>1, <2>2
<1>7. SendsTyped'
  BY <1>1, <1>2, <1>5, <1>6 DEF SendsTyped
<1>8. OpsFit'
  <2>1. \A i \in DOMAIN ops : ops'[i].by = ops[i].by /\ ops[i].by \in Sends
    BY <1>4, <1>6, OpTyped
  <2> QED BY <1>5, <1>6, <2>1 DEF OpsFit
<1>9. TurnsFit'
  <2>1. DOMAIN sends' = {} /\ \A s \in Sends : send'[s].pc \in {"unmade", "over"}
    BY <1>1, <1>5
  <2> QED BY <2>1 DEF TurnsFit
<1>10. MarkFits'
  <2>1. \A i \in DOMAIN ops : /\ Sending!OnWallet(i)' = Sending!OnWallet(i)
                              /\ Sending!Pending(i)' = Sending!Pending(i)
                              /\ ops'[i].slow = ops[i].slow /\ ops'[i].at = ops[i].at
    BY <1>4, <1>5, <1>6, OpTyped DEF Sending!OnWallet, Sending!Pending
  <2> QED BY <1>1, <1>2, <1>6, <2>1 DEF MarkFits
<1>11. SeenFits'
  BY <1>1, <1>2, <1>4, <1>6 DEF SeenFits, Sending!Pending
<1>12. EarlyFits'
  BY <1>1, <1>5 DEF EarlyFits
<1> QED BY <1>7, <1>8, <1>9, <1>10, <1>11, <1>12

LEMMA SendsKept ==
  ASSUME Sending!SendsAssumption, SendsInv, [Sending!SendsNext]_(Sending!sendVars)
  PROVE  SendsInv'
<1>1. CASE UNCHANGED Sending!sendVars
  BY <1>1 DEF SendsInv, Sending!sendVars, SendsTyped, OpsFit, TurnsFit, OnSpacer, MarkFits,
     SeenFits, EarlyFits,
              Sending!OnWallet, Sending!Pending
<1>2. CASE Sending!SendsNext
  BY <1>2, PreparesFit, TakesFit, QueuesFit, StartsFit, PrivyFits, BundlerFits, SendEndsFit,
     OperationLandsFit, PollsFit,
     TickFits, SendsRestartFits DEF Sending!SendsNext
<1> QED BY <1>1, <1>2

LEMMA SendsSaid ==
  ASSUME SendsInv
  PROVE  Sending!SendsTypeOK /\ Sending!TransfersAreTrue
<1> USE DEF SendsInv
<1>1. Sending!SendsTypeOK
  BY DEF SendsTyped, Sending!SendsTypeOK, SendCells, Ops
<1>2. \A s \in Sends : Sending!Cardinality(Sending!Of(s)) <= 1
  <2> SUFFICES ASSUME NEW s \in Sends PROVE Cardinality(Sending!Of(s)) <= 1
    BY SameCardinality
  <2>1. CASE Sending!Of(s) = {}
    BY <2>1, FS_EmptySet
  <2>2. CASE Sending!Of(s) # {}
    <3>1. PICK i \in DOMAIN ops : ops[i].by = s
      BY <2>2 DEF Sending!Of
    <3>2. Sending!Of(s) = {i}
      BY <3>1 DEF Sending!Of, OpsFit
    <3>3. Cardinality({i}) = 1
      BY FS_Singleton
    <3> QED BY <3>2, <3>3
  <2> QED BY <2>1, <2>2
<1>3. \A s \in Sends : send[s].told \in {"settling", "refused", "not_found"} => Sending!Of(s) = {}
  BY DEF OpsFit, Sending!Of
<1> QED BY <1>1, <1>2, <1>3 DEF Sending!TransfersAreTrue, EarlyFits, SeenFits

(* Transfers go once, are refused as too early only for a reason, and get the
   verdict of their own operation (user-wallet.service.ts:352,
   operation-tracker.ts:66): for any number of sends, times and faults. *)
THEOREM TransfersStayTrue ==
  ASSUME Sending!SendsAssumption
  PROVE  Sending!SendsSpec => [](Sending!SendsTypeOK /\ Sending!TransfersAreTrue)
<1>1. Sending!Init => SendsInv
  BY SendsStart
<1>2. SendsInv /\ [Sending!SendsNext]_(Sending!sendVars) => SendsInv'
  BY SendsKept
<1>3. SendsInv => Sending!SendsTypeOK /\ Sending!TransfersAreTrue
  BY SendsSaid
<1> QED BY <1>1, <1>2, <1>3, PTL DEF Sending!SendsSpec

-------------------------------------------------------------------------------
First   == <<"active", 0>>
Records == [terms : Anchoring!Texts, revoked : {"no", "unsent", "done"}, amends : 0..MaxAmends,
            token : BOOLEAN, anchor : Anchoring!Anchors \cup {Anchoring!NoValue}]
Hires   == [pc : {"new", "sent", "registered", "unregistered", "hired"}, tx : Nat]
Jobs    == [pc : {"sending", "waiting"}, sync : Anchoring!Syncs, want : Anchoring!Anchors, tx : Nat]
Writes  == [agent : Registrants, value : Anchoring!Anchors, state : {"pending", "landed", "reverted"},
            nth : Nat]

AnchorTyped ==
  /\ anchored \in [Registrants -> Records] /\ hire \in [Registrants -> Hires]
  /\ queue \in Seq(Anchoring!Syncs) /\ job \in {Anchoring!Idle} \cup Jobs
  /\ timers \in [Registrants \X (1..MaxRetries) -> Nat] /\ sent \in Seq(Writes)
  /\ failures \in 0..MaxFailures /\ boots \in 0..AnchorRestarts

(* What an owner asks for only moves on: to revoked, and, of an agent that is
   not amended back, to later terms. *)
Below(v, w) == /\ v[1] = "revoked" => w[1] = "revoked"
               /\ AmendsBack \/ v[2] <= w[2]

Landed(a) == {i \in DOMAIN sent : sent[i].agent = a /\ sent[i].state = "landed"}

(* Writes land in the order they were sent, and the last of an agent's is known. *)
OrderFits ==
  /\ \A i, j \in DOMAIN sent : i < j /\ sent[i].state = "pending" => sent[j].state = "pending"
  /\ \A i, j \in DOMAIN sent : i < j /\ sent[i].state = "landed" /\ sent[j].state = "landed" =>
                                 sent[i].nth < sent[j].nth
  /\ sent # <<>> => \E m \in DOMAIN sent : \A j \in DOMAIN sent : sent[j].nth <= sent[m].nth
  /\ \A a \in Registrants : Landed(a) # {} => \E l \in Landed(a) : \A j \in Landed(a) : j <= l

(* What an agent's writes say moves on with their order, up to what its record
   says now. *)
SentFits ==
  /\ \A i, j \in DOMAIN sent : i < j /\ sent[i].agent = sent[j].agent => Below(sent[i].value, sent[j].value)
  /\ \A i \in DOMAIN sent : Below(sent[i].value, Anchoring!Desired(sent[i].agent))

(* The rewrite that runs says no less than all that was sent before it. *)
JobFits ==
  job # Anchoring!Idle =>
    /\ anchored[job.sync.agent].token /\ Below(job.want, Anchoring!Desired(job.sync.agent))
    /\ job.pc = "sending" => \A i \in DOMAIN sent : sent[i].agent = job.sync.agent => Below(sent[i].value, job.want)
    /\ job.pc = "waiting" => /\ job.tx \in DOMAIN sent
                             /\ sent[job.tx].agent = job.sync.agent /\ sent[job.tx].value = job.want

(* Nothing of an agent is sent before its registration, and nothing is
   rewritten before the hire has stored it. *)
HireFits ==
  \A a \in Registrants :
    /\ hire[a].pc = "new" => \A i \in DOMAIN sent : sent[i].agent # a
    /\ anchored[a].token => hire[a].pc = "hired"
    /\ hire[a].pc = "sent" => /\ hire[a].tx \in DOMAIN sent
                              /\ sent[hire[a].tx].agent = a /\ sent[hire[a].tx].value = First
    /\ hire[a].pc = "registered" => \E i \in Landed(a) : sent[i].value = First

(* An anchor that is stored was seen to land. *)
StoredFits ==
  \A a \in Registrants : anchored[a].anchor # Anchoring!NoValue => \E i \in Landed(a) : sent[i].value = anchored[a].anchor

AnchorInv == AnchorTyped /\ OrderFits /\ SentFits /\ JobFits /\ HireFits /\ StoredFits

-----------------------------------------------------------------------------
LEMMA Parameters ==
  ASSUME Anchoring!AnchorAssumption
  PROVE  /\ MaxRetries \in Nat /\ MaxAmends \in Nat /\ MaxFailures \in Nat /\ AnchorRestarts \in Nat
         /\ AmendsBack \in BOOLEAN /\ IsFiniteSet(Registrants)
BY DEF Anchoring!AnchorAssumption, Anchoring!IsFiniteSet, IsFiniteSet

LEMMA BelowChains ==
  ASSUME Anchoring!AnchorAssumption, NEW u \in Anchoring!Anchors, NEW v \in Anchoring!Anchors,
         NEW w \in Anchoring!Anchors
  PROVE  Below(v, v) /\ (Below(u, v) /\ Below(v, w) => Below(u, w))
<1>1. u[2] \in Int /\ v[2] \in Int /\ w[2] \in Int
  BY Parameters DEF Anchoring!Anchors, Anchoring!Texts
<1> QED BY <1>1 DEF Below

LEMMA AnchorsStart ==
  ASSUME Anchoring!AnchorAssumption, Anchoring!Init
  PROVE  AnchorInv
<1>1. /\ anchored = [a \in Registrants |-> [terms |-> 0, revoked |-> "no", amends |-> 0,
                                            token |-> FALSE, anchor |-> Anchoring!NoValue]]
      /\ hire = [a \in Registrants |-> [pc |-> "new", tx |-> 0]]
      /\ queue = <<>> /\ job = Anchoring!Idle /\ sent = <<>> /\ DOMAIN sent = {}
      /\ timers = [t \in Registrants \X (1..MaxRetries) |-> 0] /\ failures = 0 /\ boots = 0
  BY DEF Anchoring!Init
<1>2. AnchorTyped
  BY <1>1, Parameters DEF AnchorTyped, Records, Hires, Anchoring!Texts
<1>3. \A a \in Registrants : Landed(a) = {}
  BY <1>1 DEF Landed
<1> QED BY <1>1, <1>2, <1>3 DEF AnchorInv, OrderFits, SentFits, JobFits, HireFits, StoredFits

LEMMA WriteTyped ==
  ASSUME AnchorTyped, NEW i \in DOMAIN sent
  PROVE  /\ i \in Nat \ {0} /\ sent[i] \in Writes /\ sent[i].agent \in Registrants
         /\ sent[i].value \in Anchoring!Anchors /\ sent[i].nth \in Nat
         /\ sent[i].state \in {"pending", "landed", "reverted"}
<1>1. sent[i] \in Writes /\ i \in Nat \ {0}
  BY DEF AnchorTyped
<1> QED BY <1>1 DEF Writes

LEMMA DesiredTyped ==
  ASSUME AnchorTyped, NEW a \in Registrants
  PROVE  /\ Anchoring!Desired(a) \in Anchoring!Anchors /\ anchored[a] \in Records
         /\ Anchoring!Desired(a)[2] = anchored[a].terms
         /\ Anchoring!Desired(a)[1] = (IF anchored[a].revoked = "no" THEN "active" ELSE "revoked")
<1>1. anchored[a] \in Records
  BY DEF AnchorTyped
<1>2. anchored[a].terms \in Anchoring!Texts
  BY <1>1 DEF Records
<1> QED BY <1>1, <1>2 DEF Anchoring!Desired, Anchoring!Anchors

LEMMA JobTyped ==
  ASSUME AnchorTyped, job # Anchoring!Idle
  PROVE  /\ job \in Jobs /\ job.sync.agent \in Registrants /\ job.want \in Anchoring!Anchors
         /\ job.sync.attempt \in 0..MaxRetries
<1>1. job \in Jobs
  BY DEF AnchorTyped
<1>2. job.sync \in Anchoring!Syncs /\ job.want \in Anchoring!Anchors
  BY <1>1 DEF Jobs
<1> QED BY <1>1, <1>2 DEF Anchoring!Syncs

(* Another write, behind all the others. *)
LEMMA BroadcastFits ==
  ASSUME Anchoring!AnchorAssumption, AnchorTyped, OrderFits,
         NEW a \in Registrants, NEW v \in Anchoring!Anchors, Anchoring!Broadcast(a, v)
  PROVE  \E n \in Nat :
           /\ n = Len(sent) + 1 /\ sent' \in Seq(Writes) /\ DOMAIN sent' = DOMAIN sent \cup {n}
           /\ n \notin DOMAIN sent /\ (\A i \in DOMAIN sent : i < n /\ sent'[i] = sent[i])
           /\ sent'[n].agent = a /\ sent'[n].value = v /\ sent'[n].state = "pending" /\ sent'[n].nth = 0
           /\ (\A b \in Registrants : Landed(b)' = Landed(b)) /\ OrderFits'
<1>1. PICK n \in Nat : n = Len(sent) + 1
  BY DEF AnchorTyped
<1> DEFINE new == [agent |-> a, value |-> v, state |-> "pending", nth |-> 0]
<1>2. new \in Writes
  BY DEF Writes
<1>3. /\ sent' \in Seq(Writes) /\ DOMAIN sent' = DOMAIN sent \cup {n} /\ n \notin DOMAIN sent
      /\ (\A i \in DOMAIN sent : i < n /\ sent'[i] = sent[i]) /\ sent'[n] = new
  BY <1>1, <1>2 DEF Anchoring!Broadcast, AnchorTyped
<1>4. \A b \in Registrants : Landed(b)' = Landed(b)
  BY <1>3 DEF Landed
<1>5. \A i \in DOMAIN sent : sent[i].nth \in Nat /\ i \in Nat
  BY WriteTyped
<1>6. OrderFits'
  <2>1. \A i, j \in DOMAIN sent' : i < j /\ sent'[i].state = "pending" => sent'[j].state = "pending"
    BY <1>3, <1>5 DEF OrderFits
  <2>2. \A i, j \in DOMAIN sent' : i < j /\ sent'[i].state = "landed" /\ sent'[j].state = "landed" =>
                                     sent'[i].nth < sent'[j].nth
    BY <1>3, <1>5 DEF OrderFits
  <2>3. \E m \in DOMAIN sent' : \A j \in DOMAIN sent' : sent'[j].nth <= sent'[m].nth
    <3>1. CASE sent = <<>>
      BY <1>3, <3>1
    <3>2. CASE sent # <<>>
      <4>1. PICK m \in DOMAIN sent : \A j \in DOMAIN sent : sent[j].nth <= sent[m].nth
        BY <3>2 DEF OrderFits
      <4>2. \A j \in DOMAIN sent' : sent'[j].nth <= sent'[m].nth
        BY <1>3, <1>5, <4>1
      <4> QED BY <1>3, <4>2
    <3> QED BY <3>1, <3>2
  <2> HIDE DEF new
  <2>4. \A b \in Registrants : Landed(b)' # {} => \E l \in Landed(b)' : \A j \in Landed(b)' : j <= l
    BY <1>4 DEF OrderFits
  <2> QED BY <2>1, <2>2, <2>3, <2>4 DEF OrderFits
<1> QED BY <1>1, <1>3, <1>4, <1>6

(* When nothing is sent and what is stored only moves on. *)
LEMMA QuietFits ==
  ASSUME Anchoring!AnchorAssumption, AnchorInv, AnchorTyped', sent' = sent,
         \A a \in Registrants : Below(Anchoring!Desired(a), Anchoring!Desired(a)') /\ (anchored[a].token => anchored'[a].token)
  PROVE  /\ OrderFits' /\ SentFits' /\ \A a \in Registrants : Landed(a)' = Landed(a)
         /\ job' = job => JobFits'
<1> USE DEF AnchorInv
<1>1. \A a \in Registrants : Landed(a)' = Landed(a)
  BY DEF Landed
<1>2. OrderFits'
  BY <1>1 DEF OrderFits
<1>3. \A a \in Registrants : Anchoring!Desired(a) \in Anchoring!Anchors /\ Anchoring!Desired(a)' \in Anchoring!Anchors
  <2>1. \A a \in Registrants : Anchoring!Desired(a) \in Anchoring!Anchors
    BY DesiredTyped
  <2>2. \A a \in Registrants : Anchoring!Desired(a)' \in Anchoring!Anchors
    <3> SUFFICES ASSUME NEW a \in Registrants PROVE Anchoring!Desired(a)' \in Anchoring!Anchors
      OBVIOUS
    <3>1. anchored'[a].terms \in Anchoring!Texts
      BY DEF AnchorTyped, Records
    <3> QED BY <3>1 DEF Anchoring!Desired, Anchoring!Anchors
  <2> QED BY <2>1, <2>2
<1>4. SentFits'
  <2>1. \A i \in DOMAIN sent : Below(sent[i].value, Anchoring!Desired(sent[i].agent)')
    <3> SUFFICES ASSUME NEW i \in DOMAIN sent PROVE Below(sent[i].value, Anchoring!Desired(sent[i].agent)')
      OBVIOUS
    <3>1. PICK a \in Registrants : sent[i].agent = a /\ sent[i].value \in Anchoring!Anchors
      BY WriteTyped
    <3>2. Below(sent[i].value, Anchoring!Desired(a))
      BY <3>1 DEF SentFits
    <3>3. Below(sent[i].value, Anchoring!Desired(a)')
      BY <1>3, <3>1, <3>2, BelowChains
    <3> QED BY <3>1, <3>3 DEF Anchoring!Desired
  <2> QED BY <2>1 DEF SentFits, Below, Anchoring!Desired
<1>5. ASSUME job' = job, job # Anchoring!Idle PROVE JobFits'
  <2>1. PICK a \in Registrants : job.sync.agent = a /\ job.want \in Anchoring!Anchors
    BY <1>5, JobTyped
  <2>2. Below(job.want, Anchoring!Desired(a)) /\ anchored[a].token
    BY <1>5, <2>1 DEF JobFits
  <2>3. Below(job.want, Anchoring!Desired(a)') /\ anchored'[a].token
    BY <1>3, <2>1, <2>2, BelowChains
  <2> QED BY <1>5, <2>1, <2>3 DEF JobFits, Below, Anchoring!Desired
<1>6. job' = job => JobFits'
  BY <1>5 DEF JobFits, Anchoring!Idle
<1> QED BY <1>1, <1>2, <1>4, <1>6

(* A queue with one more rewrite of an agent. *)
LEMMA QueueAdded ==
  ASSUME Anchoring!AnchorAssumption, AnchorTyped, NEW a \in Registrants, NEW n \in 0..MaxRetries
  PROVE  Append(queue, Anchoring!Sync(a, n)) \in Seq(Anchoring!Syncs)
<1>1. Anchoring!Sync(a, n) \in Anchoring!Syncs
  BY DEF Anchoring!Sync, Anchoring!Syncs
<1> QED BY <1>1 DEF AnchorTyped

LEMMA FailureTyped ==
  ASSUME Anchoring!AnchorAssumption, AnchorTyped,
         UNCHANGED failures \/ \E fault \in {"unsent", "late", "reverted"} : Anchoring!CanFail(fault)
  PROVE  failures' \in 0..MaxFailures
BY Parameters DEF AnchorTyped, Anchoring!CanFail

LEMMA RegistersFit ==
  ASSUME Anchoring!AnchorAssumption, AnchorInv, NEW a \in Registrants, Anchoring!Registers(a)
  PROVE  AnchorInv'
<1> USE DEF AnchorInv
<1>1. /\ hire[a].pc = "new" /\ UNCHANGED <<anchored, queue, job, timers, boots>>
      /\ hire \in [Registrants -> Hires] /\ ~anchored[a].token
  BY DEF Anchoring!Registers, AnchorTyped, HireFits
<1>2. failures' \in 0..MaxFailures
  BY FailureTyped DEF Anchoring!Registers
<1>3. CASE /\ Anchoring!Broadcast(a, First)
           /\ hire' = [hire EXCEPT ![a] = [pc |-> "sent", tx |-> Len(sent) + 1]]
  <2>0. First \in Anchoring!Anchors
    BY Parameters DEF First, Anchoring!Anchors, Anchoring!Texts
  <2>1. PICK n \in Nat :
           /\ n = Len(sent) + 1 /\ sent' \in Seq(Writes) /\ DOMAIN sent' = DOMAIN sent \cup {n}
           /\ n \notin DOMAIN sent /\ (\A i \in DOMAIN sent : i < n /\ sent'[i] = sent[i])
           /\ sent'[n].agent = a /\ sent'[n].value = First /\ sent'[n].state = "pending" /\ sent'[n].nth = 0
           /\ (\A b \in Registrants : Landed(b)' = Landed(b)) /\ OrderFits'
    BY <1>3, <2>0, BroadcastFits
  <2>2. [pc |-> "sent", tx |-> n] \in Hires
    BY DEF Hires
  <2>3. /\ hire' \in [Registrants -> Hires] /\ hire'[a] = [pc |-> "sent", tx |-> n]
        /\ \A b \in Registrants \ {a} : hire'[b] = hire[b]
    BY <1>1, <1>3, <2>1, <2>2
  <2>4. AnchorTyped'
    BY <1>1, <1>2, <2>1, <2>3 DEF AnchorTyped
  <2>5. SentFits'
    <3>1. \A i, j \in DOMAIN sent' : i < j /\ sent'[i].agent = sent'[j].agent => Below(sent'[i].value, sent'[j].value)
      <4> SUFFICES ASSUME NEW i \in DOMAIN sent', NEW j \in DOMAIN sent', i < j, sent'[i].agent = sent'[j].agent
                   PROVE  Below(sent'[i].value, sent'[j].value)
        OBVIOUS
      <4>1. CASE j \in DOMAIN sent
        <5>1. i \in DOMAIN sent
          BY <2>1, <4>1, WriteTyped
        <5> QED BY <2>1, <4>1, <5>1 DEF SentFits
      <4>2. CASE j = n
        <5>1. i \in DOMAIN sent
          BY <2>1, <4>2
        <5>2. sent[i].agent # a
          BY <1>1, <5>1 DEF HireFits
        <5> QED BY <2>1, <4>2, <5>1, <5>2
      <4> QED BY <2>1, <4>1, <4>2
    <3>2. Below(First, Anchoring!Desired(a))
      <4>1. anchored[a].terms \in 0..MaxAmends
        BY DEF AnchorTyped, Records, Anchoring!Texts
      <4> QED BY <4>1, DesiredTyped, Parameters DEF Below, First
    <3>3. \A i \in DOMAIN sent' : Below(sent'[i].value, Anchoring!Desired(sent'[i].agent))
      BY <2>1, <3>2 DEF SentFits
    <3> QED BY <1>1, <3>1, <3>3 DEF SentFits, Below, Anchoring!Desired
  <2>6. JobFits'
    <3>1. CASE job = Anchoring!Idle
      BY <1>1, <3>1 DEF JobFits, Anchoring!Idle
    <3>2. CASE job # Anchoring!Idle
      <4>1. job.sync.agent # a
        BY <1>1, <3>2 DEF JobFits
      <4>2. job.pc = "sending" => \A i \in DOMAIN sent' : sent'[i].agent = job.sync.agent => Below(sent'[i].value, job.want)
        BY <2>1, <3>2, <4>1 DEF JobFits
      <4>3. job.pc = "waiting" => /\ job.tx \in DOMAIN sent'
                                  /\ sent'[job.tx].agent = job.sync.agent /\ sent'[job.tx].value = job.want
        BY <2>1, <3>2 DEF JobFits
      <4>4. anchored[job.sync.agent].token /\ Below(job.want, Anchoring!Desired(job.sync.agent))
        BY <3>2 DEF JobFits
      <4> QED BY <1>1, <4>2, <4>3, <4>4 DEF JobFits, Below, Anchoring!Desired
    <3> QED BY <3>1, <3>2
  <2>7. HireFits'
    <3> SUFFICES ASSUME NEW b \in Registrants
                 PROVE  /\ hire'[b].pc = "new" => \A i \in DOMAIN sent' : sent'[i].agent # b
                        /\ anchored'[b].token => hire'[b].pc = "hired"
                        /\ hire'[b].pc = "sent" => /\ hire'[b].tx \in DOMAIN sent'
                                                   /\ sent'[hire'[b].tx].agent = b
                                                   /\ sent'[hire'[b].tx].value = First
                        /\ hire'[b].pc = "registered" => \E i \in Landed(b)' : sent'[i].value = First
      BY DEF HireFits
    <3>1. CASE b = a
      BY <1>1, <2>1, <2>3, <3>1
    <3>2. CASE b # a
      <4>1. \A i \in Landed(b) : i \in DOMAIN sent
        BY DEF Landed
      <4> QED BY <1>1, <2>1, <2>3, <3>2, <4>1 DEF HireFits
    <3> QED BY <3>1, <3>2
  <2>8. StoredFits'
    <3>1. \A b \in Registrants : \A i \in Landed(b) : i \in DOMAIN sent
      BY DEF Landed
    <3> QED BY <1>1, <2>1, <3>1 DEF StoredFits, Anchoring!NoValue
  <2> QED BY <2>1, <2>4, <2>5, <2>6, <2>7, <2>8
<1>4. CASE hire' = [hire EXCEPT ![a].pc = "unregistered"] /\ sent' = sent
  <2>1. /\ hire' \in [Registrants -> Hires] /\ hire'[a].pc = "unregistered"
        /\ \A b \in Registrants \ {a} : hire'[b] = hire[b]
    BY <1>1, <1>4 DEF Hires
  <2>2. AnchorTyped'
    BY <1>1, <1>2, <1>4, <2>1 DEF AnchorTyped
  <2>3. \A b \in Registrants : Below(Anchoring!Desired(b), Anchoring!Desired(b)')
    BY <1>1, DesiredTyped, BelowChains DEF Anchoring!Desired
  <2>4. /\ OrderFits' /\ SentFits' /\ JobFits' /\ \A b \in Registrants : Landed(b)' = Landed(b)
    BY <1>1, <1>4, <2>2, <2>3, QuietFits
  <2>5. HireFits'
    BY <1>1, <1>4, <2>1, <2>4 DEF HireFits
  <2>6. StoredFits'
    BY <1>1, <1>4, <2>4 DEF StoredFits, Anchoring!NoValue
  <2> QED BY <2>2, <2>4, <2>5, <2>6
<1> QED BY <1>3, <1>4 DEF Anchoring!Registers, First

LEMMA RegisterAnsweredFits ==
  ASSUME Anchoring!AnchorAssumption, AnchorInv, NEW a \in Registrants, Anchoring!RegisterAnswered(a)
  PROVE  AnchorInv'
<1> USE DEF AnchorInv
<1>1. /\ hire[a].pc = "sent" /\ UNCHANGED <<anchored, queue, job, timers, sent, boots>>
      /\ hire \in [Registrants -> Hires] /\ ~anchored[a].token
      /\ hire[a].tx \in DOMAIN sent /\ sent[hire[a].tx].agent = a /\ sent[hire[a].tx].value = First
  BY DEF Anchoring!RegisterAnswered, AnchorTyped, HireFits
<1>2. failures' \in 0..MaxFailures
  BY FailureTyped DEF Anchoring!RegisterAnswered
<1>3. PICK pc \in {"registered", "unregistered"} :
        /\ hire' = [hire EXCEPT ![a].pc = pc]
        /\ pc = "registered" => sent[hire[a].tx].state = "landed"
  BY DEF Anchoring!RegisterAnswered
<1>4. /\ hire' \in [Registrants -> Hires] /\ hire'[a].pc = pc
      /\ \A b \in Registrants \ {a} : hire'[b] = hire[b]
  BY <1>1, <1>3 DEF Hires
<1>5. AnchorTyped'
  BY <1>1, <1>2, <1>4 DEF AnchorTyped
<1>6. \A b \in Registrants : Below(Anchoring!Desired(b), Anchoring!Desired(b)')
  BY <1>1, DesiredTyped, BelowChains DEF Anchoring!Desired
<1>7. /\ OrderFits' /\ SentFits' /\ JobFits' /\ \A b \in Registrants : Landed(b)' = Landed(b)
  BY <1>1, <1>5, <1>6, QuietFits
<1>8. HireFits'
  <2>1. pc = "registered" => \E i \in Landed(a) : sent[i].value = First
    BY <1>1, <1>3 DEF Landed
  <2> QED BY <1>1, <1>4, <1>7, <2>1 DEF HireFits
<1>9. StoredFits'
  BY <1>1, <1>7 DEF StoredFits, Anchoring!NoValue
<1> QED BY <1>5, <1>7, <1>8, <1>9

(* What is stored of one agent moves on; its rewrite, if any, is queued. *)
LEMMA RecordMoves ==
  ASSUME Anchoring!AnchorAssumption, AnchorInv, NEW a \in Registrants,
         NEW rec \in Records, anchored' = [anchored EXCEPT ![a] = rec],
         queue' \in {queue, Append(queue, Anchoring!Sync(a, 0))},
         UNCHANGED <<job, timers, sent, failures, boots>>,
         hire' \in [Registrants -> Hires], \A b \in Registrants \ {a} : hire'[b] = hire[b],
         \/ hire'[a] = hire[a] /\ rec.token = anchored[a].token /\ rec.anchor = anchored[a].anchor
         \/ /\ hire[a].pc = "registered" /\ hire'[a].pc = "hired" /\ rec.token /\ rec.anchor = First,
         Below(Anchoring!Desired(a), Anchoring!Desired(a)')
  PROVE  AnchorInv'
<1> USE DEF AnchorInv
<1>1. /\ anchored \in [Registrants -> Records] /\ anchored' \in [Registrants -> Records] /\ anchored'[a] = rec
      /\ \A b \in Registrants \ {a} : anchored'[b] = anchored[b]
  BY DEF AnchorTyped
<1>2. queue' \in Seq(Anchoring!Syncs)
  <2>1. 0 \in 0..MaxRetries
    BY Parameters
  <2> QED BY <2>1, QueueAdded DEF AnchorTyped
<1>3. AnchorTyped'
  BY <1>1, <1>2 DEF AnchorTyped
<1>4. \A b \in Registrants : Below(Anchoring!Desired(b), Anchoring!Desired(b)')
  <2>1. \A b \in Registrants \ {a} : Anchoring!Desired(b)' = Anchoring!Desired(b)
    BY <1>1 DEF Anchoring!Desired
  <2>2. \A b \in Registrants : Anchoring!Desired(b) \in Anchoring!Anchors
    BY DesiredTyped
  <2> QED BY <2>1, <2>2, BelowChains
<1>5. \A b \in Registrants : anchored[b].token => anchored'[b].token
  BY <1>1 DEF HireFits
<1>6. /\ OrderFits' /\ SentFits' /\ JobFits' /\ \A b \in Registrants : Landed(b)' = Landed(b)
  BY <1>3, <1>4, <1>5, QuietFits
<1>7. HireFits'
  BY <1>1, <1>6 DEF HireFits
<1>8. StoredFits'
  <2>1. rec.anchor # Anchoring!NoValue => \E i \in Landed(a) : sent[i].value = rec.anchor
    BY <1>1 DEF StoredFits, HireFits
  <2> QED BY <1>1, <1>6, <2>1 DEF StoredFits, Anchoring!NoValue
<1> QED BY <1>3, <1>6, <1>7, <1>8

LEMMA HireStoresFit ==
  ASSUME Anchoring!AnchorAssumption, AnchorInv, NEW a \in Registrants, Anchoring!HireStores(a)
  PROVE  AnchorInv'
<1> USE DEF AnchorInv
<1>1. /\ hire' = [hire EXCEPT ![a].pc = "hired"] /\ UNCHANGED <<job, timers, sent, failures, boots>>
      /\ hire \in [Registrants -> Hires] /\ anchored \in [Registrants -> Records]
  BY DEF Anchoring!HireStores, AnchorTyped
<1>2. /\ hire' \in [Registrants -> Hires] /\ hire'[a].pc = "hired"
      /\ \A b \in Registrants \ {a} : hire'[b] = hire[b]
  BY <1>1 DEF Hires
<1>3. CASE /\ hire[a].pc = "registered"
           /\ anchored' = [anchored EXCEPT ![a].token = TRUE, ![a].anchor = First]
           /\ queue' = Append(queue, Anchoring!Sync(a, 0))
  <2>1. anchored[a] \in Records
    BY <1>1
  <2>2. First \in Anchoring!Anchors
    BY Parameters DEF First, Anchoring!Anchors, Anchoring!Texts
  <2>3. PICK rec \in Records : /\ rec = [anchored[a] EXCEPT !.token = TRUE, !.anchor = First]
                               /\ rec.token /\ rec.anchor = First /\ rec.terms = anchored[a].terms
                               /\ rec.revoked = anchored[a].revoked
    <3>1. [anchored[a] EXCEPT !.token = TRUE, !.anchor = First] \in Records
      BY <2>1, <2>2 DEF Records
    <3>2. PICK rec \in Records : rec = [anchored[a] EXCEPT !.token = TRUE, !.anchor = First]
      BY <3>1
    <3>3. /\ rec.token /\ rec.anchor = First /\ rec.terms = anchored[a].terms
          /\ rec.revoked = anchored[a].revoked
      BY <2>1, <3>2 DEF Records
    <3> QED BY <3>2, <3>3
  <2>4. anchored' = [anchored EXCEPT ![a] = rec]
    BY <1>1, <1>3, <2>3
  <2>5. Anchoring!Desired(a)' = Anchoring!Desired(a)
    BY <1>1, <2>3, <2>4 DEF Anchoring!Desired
  <2>6. Below(Anchoring!Desired(a), Anchoring!Desired(a)')
    BY <2>5, DesiredTyped, BelowChains
  <2> QED BY <1>1, <1>2, <1>3, <2>3, <2>4, <2>6, RecordMoves
<1>4. CASE hire[a].pc = "unregistered" /\ UNCHANGED <<anchored, queue>>
  <2>1. AnchorTyped'
    BY <1>1, <1>2, <1>4 DEF AnchorTyped
  <2>2. \A b \in Registrants : Below(Anchoring!Desired(b), Anchoring!Desired(b)')
    BY <1>4, DesiredTyped, BelowChains DEF Anchoring!Desired
  <2>3. /\ OrderFits' /\ SentFits' /\ JobFits' /\ \A b \in Registrants : Landed(b)' = Landed(b)
    BY <1>1, <1>4, <2>1, <2>2, QuietFits
  <2>4. HireFits'
    BY <1>1, <1>2, <1>4, <2>3 DEF HireFits
  <2>5. StoredFits'
    BY <1>1, <1>4, <2>3 DEF StoredFits, Anchoring!NoValue
  <2> QED BY <2>1, <2>3, <2>4, <2>5
<1> QED BY <1>3, <1>4 DEF Anchoring!HireStores, First

LEMMA AmendsFit ==
  ASSUME Anchoring!AnchorAssumption, AnchorInv, NEW a \in Registrants, NEW terms \in Anchoring!Texts,
         Anchoring!Amends(a, terms)
  PROVE  AnchorInv'
<1> USE DEF AnchorInv
<1>1. /\ anchored \in [Registrants -> Records] /\ anchored[a] \in Records /\ hire \in [Registrants -> Hires]
      /\ anchored[a].revoked = "no" /\ (AmendsBack \/ terms > anchored[a].terms)
      /\ anchored[a].amends < MaxAmends
      /\ anchored' = [anchored EXCEPT ![a].terms = terms, ![a].amends = @ + 1]
      /\ queue' = Append(queue, Anchoring!Sync(a, 0))
      /\ UNCHANGED <<hire, job, timers, sent, failures, boots>>
  BY DEF Anchoring!Amends, AnchorTyped
<1>2. anchored[a].amends + 1 \in 0..MaxAmends /\ anchored[a].terms \in 0..MaxAmends
  BY <1>1, Parameters DEF Records, Anchoring!Texts
<1>3. PICK rec \in Records : /\ rec = [anchored[a] EXCEPT !.terms = terms, !.amends = @ + 1]
                             /\ rec.token = anchored[a].token /\ rec.anchor = anchored[a].anchor
                             /\ rec.terms = terms /\ rec.revoked = "no"
  <2>1. [anchored[a] EXCEPT !.terms = terms, !.amends = @ + 1] \in Records
    BY <1>1, <1>2 DEF Records
  <2>2. PICK rec \in Records : rec = [anchored[a] EXCEPT !.terms = terms, !.amends = @ + 1]
    BY <2>1
  <2>3. /\ rec.token = anchored[a].token /\ rec.anchor = anchored[a].anchor
        /\ rec.terms = terms /\ rec.revoked = "no"
    BY <1>1, <2>2 DEF Records
  <2> QED BY <2>2, <2>3
<1>4. anchored' = [anchored EXCEPT ![a] = rec]
  BY <1>1, <1>3
<1>5. /\ Anchoring!Desired(a)'[1] = "active" /\ Anchoring!Desired(a)[1] = "active"
      /\ Anchoring!Desired(a)'[2] = terms /\ Anchoring!Desired(a)[2] = anchored[a].terms
  BY <1>1, <1>3, <1>4 DEF Anchoring!Desired
<1>6. terms \in Int
  BY Parameters DEF Anchoring!Texts
<1>7. Below(Anchoring!Desired(a), Anchoring!Desired(a)')
  BY <1>1, <1>2, <1>5, <1>6 DEF Below
<1> QED BY <1>1, <1>3, <1>4, <1>7, RecordMoves

LEMMA RevokeFits ==
  ASSUME Anchoring!AnchorAssumption, AnchorInv, NEW a \in Registrants,
         Anchoring!RevokeBegins(a) \/ Anchoring!RevokeCommits(a)
  PROVE  AnchorInv'
<1> USE DEF AnchorInv
<1>1. /\ anchored \in [Registrants -> Records] /\ anchored[a] \in Records /\ hire \in [Registrants -> Hires]
      /\ queue' \in {queue, Append(queue, Anchoring!Sync(a, 0))}
      /\ UNCHANGED <<hire, job, timers, sent, failures, boots>>
  BY DEF Anchoring!RevokeBegins, Anchoring!RevokeCommits, AnchorTyped
<1>2. PICK s \in {"unsent", "done"} : anchored' = [anchored EXCEPT ![a].revoked = s]
  BY DEF Anchoring!RevokeBegins, Anchoring!RevokeCommits
<1>3. PICK rec \in Records : /\ rec = [anchored[a] EXCEPT !.revoked = s]
                             /\ rec.token = anchored[a].token /\ rec.anchor = anchored[a].anchor
                             /\ rec.terms = anchored[a].terms /\ rec.revoked # "no"
  <2>1. [anchored[a] EXCEPT !.revoked = s] \in Records
    BY <1>1 DEF Records
  <2>2. PICK rec \in Records : rec = [anchored[a] EXCEPT !.revoked = s]
    BY <2>1
  <2>3. /\ rec.token = anchored[a].token /\ rec.anchor = anchored[a].anchor
        /\ rec.terms = anchored[a].terms /\ rec.revoked # "no"
    BY <1>1, <2>2 DEF Records
  <2> QED BY <2>2, <2>3
<1>4. anchored' = [anchored EXCEPT ![a] = rec]
  BY <1>1, <1>2, <1>3
<1>5. /\ Anchoring!Desired(a)'[1] = "revoked"
      /\ Anchoring!Desired(a)'[2] = anchored[a].terms /\ Anchoring!Desired(a)[2] = anchored[a].terms
  BY <1>1, <1>3, <1>4 DEF Anchoring!Desired
<1>6. anchored[a].terms \in Int
  BY <1>1, Parameters DEF Records, Anchoring!Texts
<1>7. Below(Anchoring!Desired(a), Anchoring!Desired(a)')
  BY <1>5, <1>6 DEF Below
<1> QED BY <1>1, <1>3, <1>4, <1>7, RecordMoves

(* A step that neither sends nor stores: of the queue, the timers, the job. *)
LEMMA QueueMoves ==
  ASSUME Anchoring!AnchorAssumption, AnchorInv, AnchorTyped', UNCHANGED <<anchored, hire, sent>>,
         job' = job \/ JobFits'
  PROVE  AnchorInv'
<1> USE DEF AnchorInv
<1>1. \A b \in Registrants : Below(Anchoring!Desired(b), Anchoring!Desired(b)')
  BY DesiredTyped, BelowChains DEF Anchoring!Desired
<1>2. /\ OrderFits' /\ SentFits' /\ (job' = job => JobFits') /\ \A b \in Registrants : Landed(b)' = Landed(b)
  BY <1>1, QuietFits
<1>3. HireFits'
  BY <1>2 DEF HireFits
<1>4. StoredFits'
  BY <1>2 DEF StoredFits, Anchoring!NoValue
<1> QED BY <1>2, <1>3, <1>4

LEMMA TimerFiresFit ==
  ASSUME Anchoring!AnchorAssumption, AnchorInv, NEW a \in Registrants, NEW n \in 1..MaxRetries,
         Anchoring!TimerFires(a, n)
  PROVE  AnchorInv'
<1> USE DEF AnchorInv
<1>1. /\ timers[<<a, n>>] > 0 /\ timers' = [timers EXCEPT ![<<a, n>>] = @ - 1]
      /\ queue' = Append(queue, Anchoring!Sync(a, n))
      /\ UNCHANGED <<anchored, hire, job, sent, failures, boots>>
  BY DEF Anchoring!TimerFires
<1>2. timers' \in [Registrants \X (1..MaxRetries) -> Nat]
  BY <1>1 DEF AnchorTyped
<1>3. queue' \in Seq(Anchoring!Syncs)
  <2>1. n \in 0..MaxRetries
    BY Parameters
  <2> QED BY <1>1, <2>1, QueueAdded
<1>4. AnchorTyped'
  BY <1>1, <1>2, <1>3 DEF AnchorTyped
<1> QED BY <1>1, <1>4, QueueMoves

LEMMA FailsTyped ==
  ASSUME Anchoring!AnchorAssumption, AnchorTyped, job # Anchoring!Idle, Anchoring!Fails
  PROVE  job' = Anchoring!Idle /\ timers' \in [Registrants \X (1..MaxRetries) -> Nat]
<1>1. job' = Anchoring!Idle
  BY DEF Anchoring!Fails
<1>2. PICK b \in Registrants, k \in 0..MaxRetries : job.sync.agent = b /\ job.sync.attempt = k
  BY JobTyped
<1>3. CASE timers' = timers
  BY <1>1, <1>3 DEF AnchorTyped
<1>4. CASE k + 1 <= MaxRetries /\ timers' = [timers EXCEPT ![<<b, k + 1>>] = @ + 1]
  <2>1. k + 1 \in 1..MaxRetries
    BY <1>4, Parameters
  <2>2. <<b, k + 1>> \in Registrants \X (1..MaxRetries)
    BY <2>1
  <2> QED BY <1>1, <1>4, <2>2 DEF AnchorTyped
<1> QED BY <1>2, <1>3, <1>4 DEF Anchoring!Fails

LEMMA BeginsFit ==
  ASSUME Anchoring!AnchorAssumption, AnchorInv, Anchoring!Begins
  PROVE  AnchorInv'
<1> USE DEF AnchorInv
<1>1. /\ job = Anchoring!Idle /\ queue # <<>> /\ queue' = Tail(queue)
      /\ UNCHANGED <<anchored, hire, timers, sent, failures, boots>>
  BY DEF Anchoring!Begins
<1>2. Head(queue) \in Anchoring!Syncs /\ queue' \in Seq(Anchoring!Syncs)
  BY <1>1 DEF AnchorTyped
<1>3. PICK s \in Anchoring!Syncs : s = Head(queue) /\ s.agent \in Registrants
  BY <1>2 DEF Anchoring!Syncs
<1>4. CASE job' = job
  <2>1. AnchorTyped'
    BY <1>1, <1>2, <1>4 DEF AnchorTyped
  <2> QED BY <1>1, <1>4, <2>1, QueueMoves
<1>5. CASE /\ anchored[s.agent].token
           /\ job' = [pc |-> "sending", sync |-> s, want |-> Anchoring!Desired(s.agent), tx |-> 0]
  <2>1. PICK a \in Registrants, w \in Anchoring!Anchors : a = s.agent /\ w = Anchoring!Desired(a)
    BY <1>3, DesiredTyped
  <2>2. [pc |-> "sending", sync |-> s, want |-> w, tx |-> 0] \in Jobs
    BY DEF Jobs
  <2>3. /\ job' \in Jobs /\ job'.pc = "sending" /\ job'.sync = s /\ job'.want = w
    BY <1>5, <2>1, <2>2
  <2>4. AnchorTyped'
    BY <1>1, <1>2, <2>3 DEF AnchorTyped
  <2>5. Below(w, w)
    BY BelowChains
  <2>6. \A i \in DOMAIN sent : sent[i].agent = a => Below(sent[i].value, w)
    BY <2>1 DEF SentFits
  <2>7. JobFits'
    <3>0. job'.sync.agent = a /\ job'.want = w /\ anchored'[a].token
      BY <1>1, <1>5, <2>1, <2>3
    <3>1. Below(w, Anchoring!Desired(a)')
      BY <1>1, <2>1, <2>5 DEF Anchoring!Desired
    <3>2. \A i \in DOMAIN sent' : sent'[i].agent = a => Below(sent'[i].value, w)
      BY <1>1, <2>6
    <3> QED BY <2>3, <3>0, <3>1, <3>2 DEF JobFits, Below, Anchoring!Desired
  <2> QED BY <1>1, <2>4, <2>7, QueueMoves
<1> QED BY <1>3, <1>4, <1>5 DEF Anchoring!Begins

LEMMA WritesFit ==
  ASSUME Anchoring!AnchorAssumption, AnchorInv, Anchoring!Writes
  PROVE  AnchorInv'
<1> USE DEF AnchorInv
<1>1. job.pc = "sending" /\ UNCHANGED <<anchored, hire, queue, boots>>
  BY DEF Anchoring!Writes
<1>2. job # Anchoring!Idle
  BY <1>1 DEF Anchoring!Idle
<1>3. failures' \in 0..MaxFailures
  BY FailureTyped DEF Anchoring!Writes
<1>4. PICK a \in Registrants, w \in Anchoring!Anchors :
        /\ job.sync.agent = a /\ job.want = w /\ anchored[a].token
        /\ Below(w, Anchoring!Desired(a))
        /\ \A i \in DOMAIN sent : sent[i].agent = a => Below(sent[i].value, w)
  BY <1>1, <1>2, JobTyped DEF JobFits
<1>5. CASE Anchoring!Fails /\ UNCHANGED sent
  <2>1. job' = Anchoring!Idle /\ timers' \in [Registrants \X (1..MaxRetries) -> Nat]
    BY <1>2, <1>5, FailsTyped
  <2>2. AnchorTyped'
    BY <1>1, <1>3, <1>5, <2>1 DEF AnchorTyped
  <2>3. JobFits'
    BY <2>1 DEF JobFits, Anchoring!Idle
  <2> QED BY <1>1, <1>5, <2>2, <2>3, QueueMoves
<1>6. CASE /\ Anchoring!Broadcast(a, w) /\ UNCHANGED timers
           /\ job' = [job EXCEPT !.pc = "waiting", !.tx = Len(sent) + 1]
  <2>1. PICK n \in Nat :
           /\ n = Len(sent) + 1 /\ sent' \in Seq(Writes) /\ DOMAIN sent' = DOMAIN sent \cup {n}
           /\ n \notin DOMAIN sent /\ (\A i \in DOMAIN sent : i < n /\ sent'[i] = sent[i])
           /\ sent'[n].agent = a /\ sent'[n].value = w /\ sent'[n].state = "pending" /\ sent'[n].nth = 0
           /\ (\A b \in Registrants : Landed(b)' = Landed(b)) /\ OrderFits'
    BY <1>6, BroadcastFits
  <2>2. job \in Jobs
    BY <1>2, JobTyped
  <2>3. /\ job' \in Jobs /\ job'.pc = "waiting" /\ job'.tx = n
        /\ job'.sync = job.sync /\ job'.want = job.want
    BY <1>6, <2>1, <2>2 DEF Jobs
  <2>4. AnchorTyped'
    BY <1>1, <1>3, <1>6, <2>1, <2>3 DEF AnchorTyped
  <2>5. SentFits'
    <3>1. \A i, j \in DOMAIN sent' : i < j /\ sent'[i].agent = sent'[j].agent => Below(sent'[i].value, sent'[j].value)
      <4> SUFFICES ASSUME NEW i \in DOMAIN sent', NEW j \in DOMAIN sent', i < j, sent'[i].agent = sent'[j].agent
                   PROVE  Below(sent'[i].value, sent'[j].value)
        OBVIOUS
      <4>1. CASE j \in DOMAIN sent
        <5>1. i \in DOMAIN sent
          BY <2>1, <4>1, WriteTyped
        <5> QED BY <2>1, <4>1, <5>1 DEF SentFits
      <4>2. CASE j = n
        <5>1. i \in DOMAIN sent
          BY <2>1, <4>2
        <5> QED BY <1>4, <2>1, <4>2, <5>1
      <4> QED BY <2>1, <4>1, <4>2
    <3>2. \A i \in DOMAIN sent' : Below(sent'[i].value, Anchoring!Desired(sent'[i].agent))
      BY <1>4, <2>1 DEF SentFits
    <3> QED BY <1>1, <3>1, <3>2 DEF SentFits, Below, Anchoring!Desired
  <2>6. JobFits'
    <3>1. Below(w, Anchoring!Desired(a)')
      BY <1>1, <1>4 DEF Anchoring!Desired
    <3> QED BY <1>1, <1>4, <2>1, <2>3, <3>1 DEF JobFits, Below, Anchoring!Desired
  <2>7. HireFits'
    <3> SUFFICES ASSUME NEW b \in Registrants
                 PROVE  /\ hire[b].pc = "new" => \A i \in DOMAIN sent' : sent'[i].agent # b
                        /\ hire[b].pc = "sent" => /\ hire[b].tx \in DOMAIN sent'
                                                  /\ sent'[hire[b].tx].agent = b
                                                  /\ sent'[hire[b].tx].value = First
                        /\ hire[b].pc = "registered" => \E i \in Landed(b)' : sent'[i].value = First
      BY <1>1 DEF HireFits
    <3>1. hire[a].pc # "new"
      BY <1>4 DEF HireFits
    <3>2. \A i \in Landed(b) : i \in DOMAIN sent
      BY DEF Landed
    <3> QED BY <2>1, <3>1, <3>2 DEF HireFits
  <2>8. StoredFits'
    <3>1. \A b \in Registrants : \A i \in Landed(b) : i \in DOMAIN sent
      BY DEF Landed
    <3> QED BY <1>1, <2>1, <3>1 DEF StoredFits, Anchoring!NoValue
  <2> QED BY <2>1, <2>4, <2>5, <2>6, <2>7, <2>8
<1> QED BY <1>4, <1>5, <1>6 DEF Anchoring!Writes

LEMMA AnsweredFits ==
  ASSUME Anchoring!AnchorAssumption, AnchorInv, Anchoring!Answered
  PROVE  AnchorInv'
<1> USE DEF AnchorInv
<1>1. job.pc = "waiting" /\ UNCHANGED <<hire, queue, sent, boots>>
  BY DEF Anchoring!Answered
<1>2. job # Anchoring!Idle
  BY <1>1 DEF Anchoring!Idle
<1>3. failures' \in 0..MaxFailures
  BY FailureTyped DEF Anchoring!Answered
<1>4. CASE Anchoring!Fails /\ UNCHANGED anchored
  <2>1. job' = Anchoring!Idle /\ timers' \in [Registrants \X (1..MaxRetries) -> Nat]
    BY <1>2, <1>4, FailsTyped
  <2>2. AnchorTyped'
    BY <1>1, <1>3, <1>4, <2>1 DEF AnchorTyped
  <2>3. JobFits'
    BY <2>1 DEF JobFits, Anchoring!Idle
  <2> QED BY <1>1, <1>4, <2>2, <2>3, QueueMoves
<1>5. CASE /\ sent[job.tx].state = "landed"
           /\ anchored' = [anchored EXCEPT ![job.sync.agent].anchor = job.want]
           /\ job' = Anchoring!Idle /\ UNCHANGED <<timers, failures>>
  <2>1. PICK a \in Registrants, w \in Anchoring!Anchors, t \in DOMAIN sent :
          /\ job.sync.agent = a /\ job.want = w /\ t = job.tx /\ anchored[a].token
          /\ sent[t].agent = a /\ sent[t].value = w /\ sent[t].state = "landed"
    BY <1>1, <1>2, <1>5, JobTyped DEF JobFits
  <2>2. anchored \in [Registrants -> Records] /\ anchored[a] \in Records
    BY DEF AnchorTyped
  <2>3. PICK rec \in Records : /\ rec = [anchored[a] EXCEPT !.anchor = w]
                               /\ rec.anchor = w /\ rec.terms = anchored[a].terms
                               /\ rec.revoked = anchored[a].revoked /\ rec.token = anchored[a].token
    <3>1. [anchored[a] EXCEPT !.anchor = w] \in Records
      BY <2>2 DEF Records
    <3>2. PICK rec \in Records : rec = [anchored[a] EXCEPT !.anchor = w]
      BY <3>1
    <3>3. /\ rec.anchor = w /\ rec.terms = anchored[a].terms
          /\ rec.revoked = anchored[a].revoked /\ rec.token = anchored[a].token
      BY <2>2, <3>2 DEF Records
    <3> QED BY <3>2, <3>3
  <2>4. /\ anchored' \in [Registrants -> Records] /\ anchored'[a] = rec
        /\ \A b \in Registrants \ {a} : anchored'[b] = anchored[b]
    BY <1>5, <2>1, <2>2, <2>3
  <2>5. AnchorTyped'
    BY <1>1, <1>5, <2>4 DEF AnchorTyped
  <2>6. \A b \in Registrants : /\ Anchoring!Desired(b)' = Anchoring!Desired(b)
                               /\ anchored'[b].token = anchored[b].token
    BY <2>3, <2>4 DEF Anchoring!Desired
  <2>7. \A b \in Registrants : Below(Anchoring!Desired(b), Anchoring!Desired(b)')
    BY <2>6, DesiredTyped, BelowChains
  <2>8. OrderFits' /\ SentFits' /\ \A b \in Registrants : Landed(b)' = Landed(b)
    BY <1>1, <2>5, <2>6, <2>7, QuietFits
  <2>9. JobFits'
    BY <1>5 DEF JobFits, Anchoring!Idle
  <2>10. HireFits'
    BY <1>1, <2>6, <2>8 DEF HireFits
  <2>11. StoredFits'
    <3>1. t \in Landed(a)
      BY <2>1 DEF Landed
    <3>2. \A b \in Registrants \ {a} :
            anchored'[b].anchor # Anchoring!NoValue => \E i \in Landed(b)' : sent'[i].value = anchored'[b].anchor
      BY <1>1, <2>4, <2>8 DEF StoredFits
    <3>3. t \in Landed(a)' /\ sent'[t].value = anchored'[a].anchor
      BY <1>1, <2>1, <2>3, <2>4, <2>8, <3>1
    <3> QED BY <3>2, <3>3 DEF StoredFits, Anchoring!NoValue
  <2> QED BY <2>5, <2>8, <2>9, <2>10, <2>11
<1> QED BY <1>4, <1>5 DEF Anchoring!Answered

(* What becomes of a write changes no other, and nothing that was landed. *)
LEMMA StatesMove ==
  ASSUME Anchoring!AnchorAssumption, AnchorInv, AnchorTyped', OrderFits', UNCHANGED <<anchored, hire, job>>,
         DOMAIN sent' = DOMAIN sent,
         \A i \in DOMAIN sent : /\ sent'[i].agent = sent[i].agent /\ sent'[i].value = sent[i].value
                                /\ sent[i].state = "landed" => sent'[i].state = "landed"
  PROVE  AnchorInv'
<1> USE DEF AnchorInv
<1>1. \A b \in Registrants : \A i \in Landed(b) : i \in DOMAIN sent /\ i \in Landed(b)'
  BY DEF Landed
<1>2. SentFits'
  <2>1. \A i \in DOMAIN sent : Below(sent'[i].value, Anchoring!Desired(sent'[i].agent))
    BY DEF SentFits
  <2>2. \A i, j \in DOMAIN sent : i < j /\ sent'[i].agent = sent'[j].agent => Below(sent'[i].value, sent'[j].value)
    BY DEF SentFits
  <2> QED BY <2>1, <2>2 DEF SentFits, Below, Anchoring!Desired
<1>3. JobFits'
  <2>1. CASE job = Anchoring!Idle
    BY <2>1 DEF JobFits, Anchoring!Idle
  <2>2. CASE job # Anchoring!Idle
    <3>1. /\ anchored[job.sync.agent].token /\ Below(job.want, Anchoring!Desired(job.sync.agent))
          /\ job.pc = "sending" => \A i \in DOMAIN sent : sent'[i].agent = job.sync.agent => Below(sent'[i].value, job.want)
          /\ job.pc = "waiting" => /\ job.tx \in DOMAIN sent
                                   /\ sent'[job.tx].agent = job.sync.agent /\ sent'[job.tx].value = job.want
      BY <2>2 DEF JobFits
    <3> QED BY <3>1 DEF JobFits, Below, Anchoring!Desired
  <2> QED BY <2>1, <2>2
<1>4. HireFits'
  <2> SUFFICES ASSUME NEW b \in Registrants
               PROVE  /\ hire[b].pc = "new" => \A i \in DOMAIN sent : sent'[i].agent # b
                      /\ hire[b].pc = "sent" => /\ hire[b].tx \in DOMAIN sent
                                                /\ sent'[hire[b].tx].agent = b
                                                /\ sent'[hire[b].tx].value = First
                      /\ hire[b].pc = "registered" => \E i \in Landed(b)' : sent'[i].value = First
    BY DEF HireFits
  <2> QED BY <1>1 DEF HireFits
<1>5. StoredFits'
  <2>1. \A b \in Registrants :
          anchored[b].anchor # Anchoring!NoValue => \E i \in Landed(b)' : sent'[i].value = anchored[b].anchor
    BY <1>1 DEF StoredFits
  <2> QED BY <2>1 DEF StoredFits, Anchoring!NoValue
<1> QED BY <1>2, <1>3, <1>4, <1>5

LEMMA HighestIs ==
  ASSUME AnchorTyped, OrderFits, sent # <<>>
  PROVE  \E k \in Nat : /\ k = Anchoring!Max({sent[j].nth : j \in DOMAIN sent})
                        /\ \A j \in DOMAIN sent : sent[j].nth <= k
<1> DEFINE S == {sent[j].nth : j \in DOMAIN sent}
<1>1. PICK m \in DOMAIN sent : \A j \in DOMAIN sent : sent[j].nth <= sent[m].nth
  BY DEF OrderFits
<1>2. \A x \in S : x \in Nat
  BY WriteTyped
<1>3. sent[m].nth \in S /\ \A y \in S : sent[m].nth >= y
  BY <1>1, <1>2
<1> HIDE DEF S
<1>4. PICK k \in S : k = Anchoring!Max(S) /\ \A y \in S : k >= y
  BY <1>3 DEF Anchoring!Max
<1>5. \A j \in DOMAIN sent : sent[j].nth \in S
  BY DEF S
<1> QED BY <1>2, <1>4, <1>5 DEF S

LEMMA LandsFit ==
  ASSUME Anchoring!AnchorAssumption, AnchorInv, Anchoring!Lands
  PROVE  AnchorInv'
<1> USE DEF AnchorInv
<1>1. UNCHANGED <<anchored, hire, queue, job, timers, boots>>
  BY DEF Anchoring!Lands
<1>2. failures' \in 0..MaxFailures
  BY Parameters DEF Anchoring!Lands, Anchoring!CanFail, AnchorTyped
<1>3. PICK i \in DOMAIN sent, s \in {"landed", "reverted"}, n \in Nat :
        /\ Anchoring!MayLand(i)
        /\ s = "landed" => (\A j \in DOMAIN sent : sent[j].nth < n) /\ sent' = [sent EXCEPT ![i].state = s, ![i].nth = n]
        /\ s = "reverted" => n = sent[i].nth /\ sent' = [sent EXCEPT ![i].state = s]
  <2>1. PICK i \in DOMAIN sent :
           /\ Anchoring!MayLand(i)
           /\ \/ sent' = [sent EXCEPT ![i].state = "landed",
                                      ![i].nth = 1 + Anchoring!Max({sent[j].nth : j \in DOMAIN sent})]
              \/ sent' = [sent EXCEPT ![i].state = "reverted"]
    BY DEF Anchoring!Lands
  <2>2. sent # <<>> /\ \A j \in DOMAIN sent : sent[j].nth \in Nat
    BY <2>1, WriteTyped
  <2>3. PICK k \in Nat : /\ k = Anchoring!Max({sent[j].nth : j \in DOMAIN sent})
                         /\ \A j \in DOMAIN sent : sent[j].nth <= k
    BY <2>2, HighestIs
  <2>4. CASE sent' = [sent EXCEPT ![i].state = "landed", ![i].nth = 1 + k]
    <3>1. \A j \in DOMAIN sent : sent[j].nth < 1 + k
      BY <2>2, <2>3
    <3>2. 1 + k \in Nat
      OBVIOUS
    <3> QED BY <2>1, <2>4, <3>1, <3>2
  <2>5. CASE sent' = [sent EXCEPT ![i].state = "reverted"]
    BY <2>1, <2>2, <2>5
  <2> QED BY <2>1, <2>3, <2>4, <2>5
<1>4. sent \in Seq(Writes) /\ sent[i] \in Writes /\ sent[i].state = "pending" /\ sent[i].nth \in Nat
  BY <1>3, WriteTyped DEF AnchorTyped, Anchoring!MayLand
<1>5. PICK w \in Writes : /\ w.state = s /\ w.nth = n /\ w.agent = sent[i].agent /\ w.value = sent[i].value
                          /\ sent' = [sent EXCEPT ![i] = w]
  <2>1. [sent[i] EXCEPT !.state = s, !.nth = n] \in Writes
    BY <1>4 DEF Writes
  <2>2. PICK w \in Writes : w = [sent[i] EXCEPT !.state = s, !.nth = n]
    BY <2>1
  <2>3. w.state = s /\ w.nth = n /\ w.agent = sent[i].agent /\ w.value = sent[i].value
    BY <1>4, <2>2 DEF Writes
  <2>4. CASE s = "landed"
    <3>1. sent' = [sent EXCEPT ![i] = w]
      BY <1>3, <1>4, <2>2, <2>4
    <3> QED BY <2>3, <3>1
  <2>5. CASE s = "reverted"
    <3>1. w = [sent[i] EXCEPT !.state = s]
      BY <1>3, <1>4, <2>2, <2>5 DEF Writes
    <3>2. sent' = [sent EXCEPT ![i] = w]
      BY <1>3, <1>4, <2>5, <3>1
    <3> QED BY <2>3, <3>2
  <2> QED BY <2>4, <2>5
<1>6. /\ sent' \in Seq(Writes) /\ DOMAIN sent' = DOMAIN sent /\ sent'[i] = w
      /\ \A j \in DOMAIN sent \ {i} : sent'[j] = sent[j]
  BY <1>3, <1>4, <1>5
<1>7. AnchorTyped'
  BY <1>1, <1>2, <1>6 DEF AnchorTyped
<1>8. \A j \in DOMAIN sent : j \in Nat \ {0} /\ sent[j].nth \in Nat
  BY WriteTyped
<1>9. \A j \in DOMAIN sent : j < i => sent[j].state # "pending"
  BY <1>3, <1>8 DEF Anchoring!MayLand
<1>10. \A j \in DOMAIN sent : j > i => sent[j].state = "pending"
  BY <1>4, <1>8 DEF OrderFits
<1>11. OrderFits'
  <2>1. \A h, j \in DOMAIN sent' : h < j /\ sent'[h].state = "pending" => sent'[j].state = "pending"
    BY <1>5, <1>6, <1>9 DEF OrderFits
  <2>2. \A h, j \in DOMAIN sent' : h < j /\ sent'[h].state = "landed" /\ sent'[j].state = "landed" =>
                                     sent'[h].nth < sent'[j].nth
    <3> SUFFICES ASSUME NEW h \in DOMAIN sent, NEW j \in DOMAIN sent, h < j,
                        sent'[h].state = "landed", sent'[j].state = "landed"
                 PROVE  sent'[h].nth < sent'[j].nth
      BY <1>6
    <3>1. CASE h = i
      BY <1>6, <1>8, <1>10, <3>1
    <3>2. CASE j = i
      BY <1>3, <1>5, <1>6, <3>2
    <3>3. CASE h # i /\ j # i
      BY <1>6, <3>3 DEF OrderFits
    <3> QED BY <3>1, <3>2, <3>3
  <2>3. \E m \in DOMAIN sent' : \A j \in DOMAIN sent' : sent'[j].nth <= sent'[m].nth
    <3>1. CASE s = "landed"
      <4>1. \A j \in DOMAIN sent' : sent'[j].nth <= sent'[i].nth
        BY <1>3, <1>5, <1>6, <1>8, <3>1
      <4> QED BY <1>6, <4>1
    <3>2. CASE s = "reverted"
      <4>1. \A j \in DOMAIN sent' : sent'[j].nth = sent[j].nth
        BY <1>3, <1>5, <1>6, <3>2
      <4>2. sent # <<>>
        BY <1>3, <1>4
      <4> QED BY <1>6, <4>1, <4>2 DEF OrderFits
    <3> QED BY <3>1, <3>2
  <2>4. \A b \in Registrants : Landed(b)' # {} => \E l \in Landed(b)' : \A j \in Landed(b)' : j <= l
    <3> SUFFICES ASSUME NEW b \in Registrants, Landed(b)' # {}
                 PROVE  \E l \in Landed(b)' : \A j \in Landed(b)' : j <= l
      OBVIOUS
    <3>1. CASE i \in Landed(b)'
      <4>1. \A j \in Landed(b)' : j <= i
        BY <1>6, <1>8, <1>10 DEF Landed
      <4> QED BY <3>1, <4>1
    <3>2. CASE i \notin Landed(b)'
      <4>1. Landed(b)' = Landed(b)
        BY <1>4, <1>6, <3>2 DEF Landed
      <4> QED BY <4>1 DEF OrderFits
    <3> QED BY <3>1, <3>2
  <2> QED BY <2>1, <2>2, <2>3, <2>4 DEF OrderFits
<1>12. \A j \in DOMAIN sent : /\ sent'[j].agent = sent[j].agent /\ sent'[j].value = sent[j].value
                              /\ sent[j].state = "landed" => sent'[j].state = "landed"
  BY <1>4, <1>5, <1>6
<1> QED BY <1>1, <1>6, <1>7, <1>11, <1>12, StatesMove

LEMMA AnchorRestartsFit ==
  ASSUME Anchoring!AnchorAssumption, AnchorInv, Anchoring!Restarts
  PROVE  AnchorInv'
<1> USE DEF AnchorInv
<1> DEFINE stale == {a \in Registrants : anchored[a].token /\ ~Anchoring!Current(a)}
<1>1. /\ boots < AnchorRestarts /\ boots' = boots + 1 /\ job' = Anchoring!Idle
      /\ timers' = [t \in DOMAIN timers |-> 0] /\ UNCHANGED <<anchored, sent, failures>>
      /\ hire' = [a \in Registrants |-> [pc |-> IF hire[a].pc = "new" THEN "new" ELSE "hired", tx |-> 0]]
      /\ queue' \in [1..Anchoring!Cardinality(stale) -> {Anchoring!Sync(a, 0) : a \in stale}]
  BY DEF Anchoring!Restarts
<1>2. queue' \in Seq(Anchoring!Syncs)
  <2>1. IsFiniteSet(stale)
    BY Parameters, FS_Subset
  <2>2. Anchoring!Cardinality(stale) = Cardinality(stale)
    BY DEF Anchoring!Cardinality, Cardinality
  <2>3. PICK k \in Nat : k = Anchoring!Cardinality(stale)
    BY <2>1, <2>2, FS_CardinalityType
  <2>4. 0 \in 0..MaxRetries
    BY Parameters
  <2>5. {Anchoring!Sync(a, 0) : a \in stale} \subseteq Anchoring!Syncs
    BY <2>4 DEF Anchoring!Sync, Anchoring!Syncs
  <2> HIDE DEF stale
  <2>6. queue' \in [1..k -> Anchoring!Syncs]
    BY <1>1, <2>3, <2>5
  <2> QED BY <2>6, SeqDef
<1>3. /\ hire' \in [Registrants -> Hires]
      /\ \A a \in Registrants : /\ hire'[a].pc \in {"new", "hired"}
                                /\ hire'[a].pc = "new" => hire[a].pc = "new"
                                /\ hire[a].pc = "hired" => hire'[a].pc = "hired"
  <2>1. hire \in [Registrants -> Hires]
    BY DEF AnchorTyped
  <2> QED BY <1>1, <2>1 DEF Hires
<1>4. AnchorTyped'
  BY <1>1, <1>2, <1>3, Parameters DEF AnchorTyped
<1>5. \A b \in Registrants : Below(Anchoring!Desired(b), Anchoring!Desired(b)')
  BY <1>1, DesiredTyped, BelowChains DEF Anchoring!Desired
<1>6. /\ OrderFits' /\ SentFits' /\ \A b \in Registrants : Landed(b)' = Landed(b)
  BY <1>1, <1>4, <1>5, QuietFits
<1>7. JobFits'
  BY <1>1 DEF JobFits, Anchoring!Idle
<1>8. HireFits'
  BY <1>1, <1>3 DEF HireFits
<1>9. StoredFits'
  BY <1>1, <1>6 DEF StoredFits, Anchoring!NoValue
<1> QED BY <1>4, <1>6, <1>7, <1>8, <1>9

LEMMA AnchorsKept ==
  ASSUME Anchoring!AnchorAssumption, AnchorInv, [Anchoring!AnchorNext]_(Anchoring!anchorVars)
  PROVE  AnchorInv'
<1>1. CASE UNCHANGED Anchoring!anchorVars
  <2>1. UNCHANGED <<anchored, hire, queue, job, timers, sent, failures, boots>>
    BY <1>1 DEF Anchoring!anchorVars
  <2>2. AnchorTyped'
    BY <2>1 DEF AnchorInv, AnchorTyped
  <2> QED BY <2>1, <2>2, QueueMoves
<1>2. CASE Anchoring!AnchorNext
  <2>1. CASE \E a \in Registrants : Anchoring!HireStep(a)
    BY <2>1, RegistersFit, RegisterAnsweredFits, HireStoresFit DEF Anchoring!HireStep
  <2>2. CASE \E a \in Registrants : Anchoring!RevokeBegins(a) \/ Anchoring!RevokeCommits(a)
    BY <2>2, RevokeFits
  <2>3. CASE \E a \in Registrants : \E terms \in Anchoring!Texts : Anchoring!Amends(a, terms)
    BY <2>3, AmendsFit
  <2>4. CASE \E a \in Registrants : \E n \in 1..MaxRetries : Anchoring!TimerFires(a, n)
    BY <2>4, TimerFiresFit
  <2>5. CASE Anchoring!QueueStep
    BY <2>5, BeginsFit, WritesFit, AnsweredFits DEF Anchoring!QueueStep
  <2>6. CASE Anchoring!Lands \/ Anchoring!Restarts
    BY <2>6, LandsFit, AnchorRestartsFit
  <2> QED BY <1>2, <2>1, <2>2, <2>3, <2>4, <2>5, <2>6 DEF Anchoring!AnchorNext
<1> QED BY <1>1, <1>2

(* The registry holds what was sent last of what landed. *)
RegistryFits ==
  \A a \in Registrants :
    /\ Landed(a) = {} => Anchoring!Registry(a) = Anchoring!NoValue
    /\ Landed(a) # {} => \E l \in Landed(a) : /\ Anchoring!Registry(a) = sent[l].value
                                              /\ \A j \in Landed(a) : j <= l

LEMMA RegistryIs ==
  ASSUME Anchoring!AnchorAssumption, AnchorInv
  PROVE  RegistryFits
<1> USE DEF AnchorInv
<1> SUFFICES ASSUME NEW a \in Registrants
             PROVE  /\ Landed(a) = {} => Anchoring!Registry(a) = Anchoring!NoValue
                    /\ Landed(a) # {} => \E l \in Landed(a) : /\ Anchoring!Registry(a) = sent[l].value
                                                              /\ \A j \in Landed(a) : j <= l
  BY DEF RegistryFits
<1>1. CASE Landed(a) = {}
  BY <1>1 DEF Landed, Anchoring!Registry
<1>2. CASE Landed(a) # {}
  <2>1. \A j \in Landed(a) : j \in DOMAIN sent /\ j \in Nat /\ sent[j].state = "landed" /\ sent[j].nth \in Nat
    BY WriteTyped DEF Landed
  <2>2. PICK l \in Landed(a) : \A j \in Landed(a) : j <= l
    BY <1>2 DEF OrderFits
  <2>3. \A j \in Landed(a) : j # l => sent[j].nth < sent[l].nth
    BY <2>1, <2>2 DEF OrderFits
  <2>4. \A j \in Landed(a) : sent[j].nth <= sent[l].nth
    BY <2>1, <2>3
  <2>5. \A k \in Landed(a) : (\A j \in Landed(a) : sent[j].nth <= sent[k].nth) => k = l
    BY <2>1, <2>3
  <2>6. l = CHOOSE k \in Landed(a) : \A j \in Landed(a) : sent[j].nth <= sent[k].nth
    BY <2>4, <2>5
  <2>7. Anchoring!Registry(a) = sent[l].value
    BY <1>2, <2>6 DEF Landed, Anchoring!Registry
  <2> QED BY <1>2, <2>2, <2>7
<1> QED BY <1>1, <1>2

LEMMA CurrentHolds ==
  ASSUME Anchoring!AnchorAssumption, AnchorInv, ~AmendsBack
  PROVE  Anchoring!CurrentIsOnChain
<1> USE DEF AnchorInv
<1> SUFFICES ASSUME NEW a \in Registrants, Anchoring!Current(a)
             PROVE  Anchoring!Registry(a) = Anchoring!Desired(a)
  BY DEF Anchoring!CurrentIsOnChain
<1>1. PICK d \in Anchoring!Anchors : d = Anchoring!Desired(a) /\ anchored[a].anchor = d
  BY DesiredTyped DEF Anchoring!Current
<1>2. d # Anchoring!NoValue
  BY <1>1 DEF Anchoring!Anchors, Anchoring!NoValue
<1>3. PICK i \in Landed(a) : sent[i].value = d
  BY <1>1, <1>2 DEF StoredFits
<1>4. PICK l \in Landed(a) : Anchoring!Registry(a) = sent[l].value /\ \A j \in Landed(a) : j <= l
  BY <1>3, RegistryIs DEF RegistryFits
<1>5. /\ i \in DOMAIN sent /\ l \in DOMAIN sent /\ sent[i].agent = a /\ sent[l].agent = a /\ i <= l
      /\ i \in Nat /\ l \in Nat
  BY <1>4, WriteTyped DEF Landed
<1>6. PICK v \in Anchoring!Anchors : v = sent[l].value
  BY <1>5, WriteTyped
<1>7. Below(v, d)
  BY <1>1, <1>5, <1>6 DEF SentFits
<1>8. Below(d, v)
  <2>1. CASE i = l
    BY <1>3, <1>6, <2>1, BelowChains
  <2>2. CASE i < l
    BY <1>3, <1>5, <1>6, <2>2 DEF SentFits
  <2> QED BY <1>5, <2>1, <2>2
<1>9. v = d
  <2>1. /\ v = <<v[1], v[2]>> /\ d = <<d[1], d[2]>> /\ {v[1], d[1]} \subseteq {"active", "revoked"}
        /\ v[2] \in Int /\ d[2] \in Int
    BY Parameters DEF Anchoring!Anchors, Anchoring!Texts
  <2>2. v[1] = d[1] /\ v[2] = d[2]
    BY <1>7, <1>8, <2>1 DEF Below
  <2> QED BY <2>1, <2>2
<1> QED BY <1>1, <1>4, <1>6, <1>9

LEMMA AnchorsSaid ==
  ASSUME AnchorInv
  PROVE  Anchoring!AnchorTypeOK
BY DEF AnchorInv, AnchorTyped, Anchoring!AnchorTypeOK, Records, Hires, Jobs, Writes

(* An anchor that is stored as current is on chain, whatever was sent late,
   failed or restarted (mandate-anchor.ts:315): of agents that are not amended
   back to terms they had. *)
THEOREM AnchorsStayCurrent ==
  ASSUME Anchoring!AnchorAssumption, ~AmendsBack
  PROVE  Anchoring!AnchorSpec => [](Anchoring!AnchorTypeOK /\ Anchoring!CurrentIsOnChain)
<1>1. Anchoring!Init => AnchorInv
  BY AnchorsStart
<1>2. AnchorInv /\ [Anchoring!AnchorNext]_(Anchoring!anchorVars) => AnchorInv'
  BY AnchorsKept
<1>3. AnchorInv => Anchoring!AnchorTypeOK
  BY AnchorsSaid
<1>4. AnchorInv => Anchoring!CurrentIsOnChain
  BY CurrentHolds
<1> QED BY <1>1, <1>2, <1>3, <1>4, PTL DEF Anchoring!AnchorSpec

LEMMA RevokedKept ==
  ASSUME Anchoring!AnchorAssumption, AnchorInv, AnchorInv', RegistryFits, RegistryFits',
         [Anchoring!AnchorNext]_(Anchoring!anchorVars),
         NEW a \in Registrants, Anchoring!Registry(a)[1] = "revoked"
  PROVE  Anchoring!Registry(a)'[1] = "revoked"
<1> USE DEF AnchorInv
<1>1. Landed(a) # {}
  BY DEF RegistryFits, Anchoring!NoValue
<1>2. PICK l \in Landed(a) : Anchoring!Registry(a) = sent[l].value /\ \A j \in Landed(a) : j <= l
  BY <1>1 DEF RegistryFits
<1>3. l \in DOMAIN sent /\ l \in Nat /\ sent[l].agent = a /\ sent[l].state = "landed"
  BY <1>2, WriteTyped DEF Landed
<1>4. l \in DOMAIN sent' /\ sent'[l].agent = a /\ sent'[l].state = "landed" /\ sent'[l].value = sent[l].value
  <2>0. sent \in Seq(Writes) /\ sent[l] \in Writes
    BY <1>3 DEF AnchorTyped
  <2>1. CASE sent' = sent
    BY <1>3, <2>1
  <2>2. CASE \E b \in Registrants, v \in Anchoring!Anchors : Anchoring!Broadcast(b, v)
    <3>1. PICK b \in Registrants, v \in Anchoring!Anchors : Anchoring!Broadcast(b, v)
      BY <2>2
    <3>2. PICK n \in Nat : /\ DOMAIN sent' = DOMAIN sent \cup {n}
                           /\ \A i \in DOMAIN sent : i < n /\ sent'[i] = sent[i]
      BY <3>1, BroadcastFits
    <3> QED BY <1>3, <3>2
  <2>3. CASE Anchoring!Lands
    <3>1. PICK i \in DOMAIN sent, n \in Nat \cup {Anchoring!Max({sent[j].nth : j \in DOMAIN sent}) + 1} :
             /\ sent[i].state = "pending"
             /\ \E f : sent' = [sent EXCEPT ![i] = f]
      BY <2>3 DEF Anchoring!Lands, Anchoring!MayLand
    <3>2. i # l
      BY <1>3, <3>1
    <3>3. sent'[l] = sent[l] /\ l \in DOMAIN sent'
      BY <1>3, <2>0, <3>1, <3>2
    <3> QED BY <1>3, <3>3
  <2>4. First \in Anchoring!Anchors
    BY Parameters DEF First, Anchoring!Anchors, Anchoring!Texts
  <2>5. Anchoring!Writes => sent' = sent \/ \E b \in Registrants, v \in Anchoring!Anchors : Anchoring!Broadcast(b, v)
    <3> SUFFICES ASSUME Anchoring!Writes, sent' # sent
                 PROVE  \E b \in Registrants, v \in Anchoring!Anchors : Anchoring!Broadcast(b, v)
      OBVIOUS
    <3>1. job # Anchoring!Idle /\ Anchoring!Broadcast(job.sync.agent, job.want)
      BY DEF Anchoring!Writes, Anchoring!Idle
    <3> QED BY <3>1, JobTyped
  <2>6. \A b \in Registrants : Anchoring!Registers(b) => sent' = sent \/ Anchoring!Broadcast(b, First)
    BY DEF Anchoring!Registers, First
  <2> QED BY <2>1, <2>2, <2>3, <2>4, <2>5, <2>6
          DEF Anchoring!AnchorNext, Anchoring!anchorVars, Anchoring!HireStep, Anchoring!QueueStep,
              Anchoring!RegisterAnswered, Anchoring!HireStores, Anchoring!RevokeBegins,
              Anchoring!RevokeCommits,
              Anchoring!Amends, Anchoring!TimerFires, Anchoring!Begins, Anchoring!Answered,
              Anchoring!Restarts
<1>5. l \in Landed(a)'
  BY <1>4 DEF Landed
<1>6. PICK m \in Landed(a)' : Anchoring!Registry(a)' = sent'[m].value /\ \A j \in Landed(a)' : j <= m
  BY <1>5 DEF RegistryFits
<1>7. m \in DOMAIN sent' /\ sent'[m].agent = a /\ l <= m /\ m \in Nat
  BY <1>5, <1>6 DEF Landed, AnchorTyped
<1>8. CASE l = m
  BY <1>2, <1>4, <1>6, <1>8
<1>9. CASE l < m
  <2>1. Below(sent'[l].value, sent'[m].value)
    BY <1>4, <1>7, <1>9 DEF SentFits, Below
  <2> QED BY <1>2, <1>4, <1>6, <2>1 DEF Below
<1> QED BY <1>3, <1>7, <1>8, <1>9

(* What the chain says is revoked never reads as active again, whatever was
   sent late, retried or queued before (mandate-anchor.ts:29). *)
THEOREM RevokedIsFinal ==
  ASSUME Anchoring!AnchorAssumption
  PROVE  Anchoring!AnchorSpec => Anchoring!RevokedStaysRevoked
<1> DEFINE Holds == \A a \in Registrants :
                      Anchoring!Registry(a)[1] = "revoked" => Anchoring!Registry(a)'[1] = "revoked"
<1>1. Anchoring!Init => AnchorInv
  BY AnchorsStart
<1>2. AnchorInv /\ [Anchoring!AnchorNext]_(Anchoring!anchorVars) => AnchorInv'
  BY AnchorsKept
<1>3. AnchorInv => RegistryFits
  BY RegistryIs
<1>4. /\ AnchorInv /\ AnchorInv' /\ RegistryFits /\ RegistryFits'
      /\ [Anchoring!AnchorNext]_(Anchoring!anchorVars)
      => [Holds]_(Anchoring!anchorVars)
  BY RevokedKept
<1>5. Anchoring!AnchorSpec => [][Holds]_(Anchoring!anchorVars)
  BY <1>1, <1>2, <1>3, <1>4, PTL DEF Anchoring!AnchorSpec
<1> QED BY <1>5 DEF Anchoring!RevokedStaysRevoked
-------------------------------------------------------------------------------
ServicesInv == AnchorInv /\ SendsInv /\ RegisterInv /\ CreditsInv

(* The four do not touch one another. *)
LEMMA ServicesKept ==
  ASSUME ServicesAssumption, ServicesInv, [ServicesNext]_servicesVars
  PROVE  ServicesInv'
<1> USE DEF ServicesAssumption, ServicesInv
<1>1. /\ [Anchoring!AnchorNext]_(Anchoring!anchorVars) /\ [Sending!SendsNext]_(Sending!sendVars)
      /\ [Registering!RegisterNext]_(Registering!registerVars) /\ [Crediting!CreditsNext]_(Crediting!creditVars)
  BY DEF ServicesNext, servicesVars, anchors, transfers, registers, credits, Anchoring!anchorVars,
         Sending!sendVars, Registering!registerVars, Crediting!creditVars
<1>2. AnchorInv'
  BY <1>1, AnchorsKept
<1>3. SendsInv'
  BY <1>1, SendsKept
<1>4. RegisterInv'
  BY <1>1, RegistersKept
<1>5. CreditsInv'
  BY <1>1, CreditsKept
<1> QED BY <1>2, <1>3, <1>4, <1>5

(* What is stored and told of the anchors, the transfers, the wallet and the
   budget is true (mandate-anchor.ts:315, user-wallet.service.ts:352 and :145,
   operation-tracker.ts:66, file-credit-key-store.ts:3, credits.service.ts:276):
   for any agents, sends, calls, times and faults. *)
THEOREM ServiceStaysTrue ==
  ASSUME ServicesAssumption
  PROVE  ServicesSpec => []ServiceIsTrue
<1>1. ServicesInit => ServicesInv
  BY AnchorsStart, SendsStart, RegisterStarts, CreditsStart DEF ServicesInit,
     ServicesAssumption, ServicesInv
<1>2. ServicesInv /\ [ServicesNext]_servicesVars => ServicesInv'
  BY ServicesKept
<1>3. ServicesInv => ServiceIsTrue
  <2> SUFFICES ASSUME ServicesInv PROVE ServiceIsTrue
    OBVIOUS
  <2>1. Anchoring!AnchorTypeOK /\ (~AmendsBack => Anchoring!CurrentIsOnChain)
    BY AnchorsSaid, CurrentHolds DEF ServicesInv, ServicesAssumption
  <2>2. Sending!SendsTypeOK /\ Sending!TransfersAreTrue
    BY SendsSaid DEF ServicesInv
  <2>3. /\ Registering!RegisterTypeOK /\ Registering!WalletIsOne
        /\ Crediting!CreditsTypeOK /\ Crediting!KeysAreOne
    BY DEF ServicesInv, RegisterInv, CreditsInv
  <2> QED BY <2>1, <2>2, <2>3 DEF ServiceIsTrue
<1> QED BY <1>1, <1>2, <1>3, PTL DEF ServicesSpec
===============================================================================
