----------------------------- MODULE MandatePolicy -----------------------------
(***************************************************************************)
(* What a mandate compiles to: the Privy rules of packages/mandate         *)
(* (policy.ts), which the enclave signs an agent's transactions by, and    *)
(* their relation to the checks the server makes first (enforce.ts), to    *)
(* what the record says of the rules, and to the agent's money.  One agent *)
(* from its hire to its revocation; AgentMandate has the same operations   *)
(* with their interleavings and failures, and a policy as a value.         *)
(***************************************************************************)
EXTENDS Naturals, FiniteSets

CONSTANTS
  KuruTokens, Native, Ausd,  \* Kuru's tokens, MON among them, and Perpl's collateral
  Markets,                   \* Kuru's order books
  Terms,                     \* mandates an owner may ask for, with no returnTo yet
  Nobody,                    \* no returnTo, no builder's fee
  Custodies,                 \* KURU_DEPLOYMENT.custody, of this deployment or another
  MostFee,                   \* the builder's fee, in 0..MostFee, where 0 is none
  MaxAmount, MaxTime,        \* bounds: amounts of a request, the clock
  MaxChanges                 \* bound: amends and redeployments of a behaviour

Tokens == KuruTokens \cup {Ausd}
Forever == MaxTime + 1
AnyAmount == MaxAmount + 1
AnyFee == MostFee + 1

PolicyAssumption ==
  /\ Native \in KuruTokens /\ Ausd \notin KuruTokens
  /\ Custodies \subseteq {"account-id", "address-keyed"}
  /\ {MostFee, MaxAmount, MaxTime, MaxChanges} \subseteq Nat
  /\ \A m \in Terms : /\ m.venues \subseteq {"kuru", "perpl"} /\ m.markets \subseteq Markets
                      /\ DOMAIN m.caps \subseteq KuruTokens
                      /\ \A t \in DOMAIN m.caps : m.caps[t] \in 0..MaxAmount
                      /\ m.collateral \in 0..MaxAmount /\ m.until \in 0..MaxTime

VARIABLES
  config,   \* the server's: Kuru's custody, the builder's fee, sponsoredSends
  agent,    \* the agent as stored
  rules,    \* the live policy
  at,       \* where the agent's holding of each token is
  now, changes

policyVars == <<config, agent, rules, at, now, changes>>

-------------------------------------------------------------------------------
(* A request is one call an agent's key is asked to sign: a function of the
   contract `to`, the address and the token among its arguments, an amount and
   the MON it carries; approveBuilder's amount is the approval's expiry, and it
   alone has a fee, the most the builder may take.
   The chain is the same in every request and rule.  A rule pins some of that
   and lets the rest be anything. *)
Parties  == {"core", "exchange", "self", "owner", "builder", "stranger"}
SigningRequest(fn, to, party, token, amount, value) ==
  [fn |-> fn, to |-> to, party |-> party, token |-> token, amount |-> amount, value |-> value,
   fee |-> 0]

Pin(party, token, atMost) ==
  [party |-> party, token |-> token, atMost |-> atMost, fee |-> AnyFee]
AnyPin == Pin(Parties, Tokens, AnyAmount)

Rule(fn, to, pin, value, until) ==
  [method |-> "sign", fn |-> fn, to |-> to, pin |-> pin, value |-> value, until |-> until]

Admits(r, method, q, time) ==
  /\ r.method = method /\ r.fn = q.fn /\ r.to = q.to
  /\ q.party \in r.pin.party /\ q.token \in r.pin.token
  /\ q.amount <= r.pin.atMost /\ q.fee <= r.pin.fee /\ q.value <= r.value
  /\ time <= r.until

(* Privy signs nothing that no rule allows. *)
Signs(policy, method, q, time) == \E r \in policy : Admits(r, method, q, time)

Approve(t, spender, a) == SigningRequest("approve", t, spender, t, a, 0)
Deposit(t, credited, a) ==
  SigningRequest("deposit", "core", credited, t, a, IF t = Native THEN a ELSE 0)
Withdraw(t, paid)      == SigningRequest("withdraw", "core", paid, t, 1, 0)
Transfer(t, paid)      == SigningRequest("transfer", t, paid, t, 1, 0)
OpenAccount(a)         == SigningRequest("createAccount", "exchange", "self", Ausd, a, 0)
Forward                == SigningRequest("allowOrderForwarding", "exchange", "self", Ausd, 0, 0)
Enroll                 == SigningRequest("enroll", "exchange", "self", Ausd, 0, 0)
Batch(m, value)        == SigningRequest("batch", m, "self", Native, 0, value)
FeeBatch(m)            == SigningRequest("feeBatch", m, "self", Native, 0, 0)
ApproveBuilder(until, fee) ==
  [SigningRequest("approveBuilder", "core", "builder", Native, until, 0) EXCEPT !.fee = fee]

SigningRequests ==
  {Approve(t, s, a) : t \in Tokens \ {Native}, s \in {"core", "exchange", "stranger"}, a \in 1..MaxAmount}
  \cup {Deposit(t, p, a) : t \in KuruTokens, p \in {"self", "stranger"}, a \in 1..MaxAmount}
  \cup {Withdraw(t, p) : t \in KuruTokens, p \in {"owner", "self", "stranger"}}
  \cup {Transfer(t, p) : t \in Tokens \ {Native}, p \in {"owner", "stranger"}}
  \cup {OpenAccount(a) : a \in 1..MaxAmount} \cup {Forward, Enroll}
  \cup {Batch(m, v) : m \in Markets, v \in {0, 1}} \cup {FeeBatch(m) : m \in Markets}
  \cup {ApproveBuilder(u, f) : u \in 0..Forever, f \in 1..AnyFee}

Admitted(policy, time) ==
  {sig \in {"sign", "send"} \X SigningRequests : Signs(policy, sig[1], sig[2], time)}

-------------------------------------------------------------------------------
(* A mandate that trades nothing taken for one that deposits nothing. *)
CompilesTradedDeposit(m, custody) ==
  custody = "account-id" /\ "kuru" \in m.venues /\ DOMAIN m.caps # {} /\ m.markets # {}

(* compileMandate.  Rules that take risk end with the mandate; the two that
   bring money home never do. *)
CompilesKuruDeposit(m, custody) ==
  custody = "account-id" /\ "kuru" \in m.venues /\ DOMAIN m.caps # {}

(* `pinned`: the wallet exists, and deposits can name it. *)
KuruRules(m, custody, pinned) ==
  LET credited == IF pinned /\ custody = "account-id" THEN {"self"} ELSE Parties
      deposit(t) == Rule("deposit", "core", Pin(credited, {t}, m.caps[t]),
                         IF t = Native THEN m.caps[t] ELSE 0, m.until)
      approve(t) == Rule("approve", t, Pin({"core"}, Tokens, m.caps[t]), 0, m.until)
  IN  {deposit(t) : t \in DOMAIN m.caps}
      \cup {approve(t) : t \in DOMAIN m.caps \ {Native}}
      \cup {Rule("batch", b, AnyPin, 0, m.until) : b \in m.markets}

BuilderRules(m, fee) ==
  {Rule("approveBuilder", "core", [Pin({"builder"}, Tokens, m.until) EXCEPT !.fee = fee],
        0, m.until)}
  \cup {Rule("feeBatch", b, AnyPin, 0, m.until) : b \in m.markets}

PerplRules(m) ==
  {Rule("approve", Ausd, Pin({"exchange"}, Tokens, m.collateral), 0, m.until),
   Rule("createAccount", "exchange", Pin(Parties, Tokens, m.collateral), 0, m.until),
   Rule("allowOrderForwarding", "exchange", AnyPin, 0, m.until),
   [Rule("enroll", "exchange", AnyPin, 0, m.until) EXCEPT !.method = "typed"]}

KuruWithdrawRule(m, custody) ==
  Rule("withdraw", "core",
       IF custody = "account-id" THEN Pin({m.returnTo}, Tokens, AnyAmount) ELSE AnyPin,
       0, Forever)

ReturnRules(m) ==
  {Rule("transfer", t, Pin({m.returnTo}, Tokens, AnyAmount), 0, Forever) :
     t \in Tokens \ {Native}}

WithSponsoredSends(policy, sponsored) ==
  policy \cup IF sponsored
              THEN {[r EXCEPT !.method = "send"] : r \in {s \in policy : s.method = "sign"}}
              ELSE {}

RecoveryRules(m, custody) ==
  IF m.returnTo = Nobody THEN {}
  ELSE ReturnRules(m) \cup IF "kuru" \in m.venues THEN {KuruWithdrawRule(m, custody)} ELSE {}

CompileMandate(m, custody, fee, pinned, sponsored) ==
  WithSponsoredSends(
    UNION { IF "kuru" \in m.venues THEN KuruRules(m, custody, pinned) ELSE {},
            IF "kuru" \in m.venues /\ fee # 0 /\ m.markets # {} THEN BuilderRules(m, fee) ELSE {},
            IF "perpl" \in m.venues THEN PerplRules(m) ELSE {},
            RecoveryRules(m, custody) },
    sponsored)

CompileRevocation(m, custody, sponsored) ==
  WithSponsoredSends(RecoveryRules(m, custody), sponsored)

(* The fee an agent's policy is compiled for, and its record keeps. *)
FeeFor(m) == IF "kuru" \in m.venues /\ m.markets # {} THEN config.fee ELSE 0

-------------------------------------------------------------------------------
(* checkIntent, layer 1: what the server lets the agent try.  Order sizes and
   leverage bind here alone and are left out. *)
RiskAllowed(m, venue)  == venue \in m.venues /\ now <= m.until
DepositAllowed(m, t, a) ==
  RiskAllowed(m, "kuru") /\ t \in DOMAIN m.caps /\ a \in 1..m.caps[t]
CollateralAllowed(m, a) == RiskAllowed(m, "perpl") /\ a \in 1..m.collateral
OrderAllowed(m, book)   == RiskAllowed(m, "kuru") /\ book \in m.markets
WithdrawAllowed(m)      == "kuru" \in m.venues

(* isKuruDepositPinned, which the deposit tool asks besides. *)
DepositsPinned == agent.pinned \/ ~CompilesKuruDeposit(agent.mandate, config.custody)

(* A grant taken as such, whatever it grants. *)
PaysFeeOfAnyGrant == config.fee # 0 /\ agent.fee # 0

(* agentKuruBuilder: orders pay the server's fee where the policy grants it,
   and their approval asks for that fee. *)
PaysFee == config.fee # 0 /\ agent.fee # 0 /\ config.fee <= agent.fee
OrderCalls(m, book) ==
  IF PaysFee THEN {ApproveBuilder(m.until, config.fee), FeeBatch(book)} ELSE {Batch(book, 0)}

(* desiredAnchor: the rules the agent's record says are live. *)
StatedRules ==
  IF agent.status = "revoked"
  THEN CompileRevocation(agent.mandate, config.custody, agent.sponsored)
  ELSE CompileMandate(agent.mandate, config.custody, agent.fee, DepositsPinned, agent.sponsored)

-------------------------------------------------------------------------------
(* The owner's mandate, with the wallet the server found for the owner. *)
ReturnTos == {Nobody, "owner"}
Resolved(m, returnTo) == [venues |-> m.venues, caps |-> m.caps, markets |-> m.markets,
                          collateral |-> m.collateral, until |-> m.until, returnTo |-> returnTo]

Configs == [custody : Custodies, fee : 0..MostFee, sponsored : BOOLEAN]

(* The hire: its policy is compiled before its wallet is known. *)
PolicyInit ==
  \E m \in Terms, returnTo \in ReturnTos :
    /\ config \in Configs
    /\ agent = [status |-> "active", cleared |-> FALSE, mandate |-> Resolved(m, returnTo),
                 fee |-> FeeFor(m), sponsored |-> config.sponsored,
                 pinned |-> ~CompilesKuruDeposit(m, config.custody)]
    /\ rules = CompileMandate(Resolved(m, returnTo), config.custody, FeeFor(m), FALSE, config.sponsored)
    /\ at = [t \in Tokens |-> "wallet"]
    /\ now = 0 /\ changes = 0

PolicyTypeOK ==
  /\ config \in Configs /\ now \in 0..MaxTime /\ changes \in 0..MaxChanges
  /\ agent.status \in {"active", "revoked"} /\ agent.fee \in 0..MostFee
  /\ {agent.cleared, agent.pinned, agent.sponsored} \subseteq BOOLEAN
  /\ agent.mandate \in {Resolved(m, returnTo) : m \in Terms, returnTo \in ReturnTos}
  /\ at \in [Tokens -> {"wallet", "kuru", "perpl", "home", "stranger"}]

(* pinKuruDeposit, by the process that hired. *)
PinKuruDeposit ==
  /\ agent.status = "active" /\ ~agent.pinned /\ changes = 0
  /\ rules' = CompileMandate(agent.mandate, config.custody, FeeFor(agent.mandate), TRUE, config.sponsored)
  /\ agent' = [agent EXCEPT !.pinned = TRUE, !.sponsored = config.sponsored]
  /\ UNCHANGED <<config, at, now, changes>>

(* The owner's wallet, once it is known, is never resolved to nothing. *)
AmendPolicy(m) ==
  /\ agent.status = "active" /\ changes < MaxChanges
  /\ \E returnTo \in ReturnTos :
       /\ agent.mandate.returnTo # Nobody => returnTo = agent.mandate.returnTo
       /\ rules' = CompileMandate(Resolved(m, returnTo), config.custody, FeeFor(m), TRUE, config.sponsored)
       /\ agent' = [agent EXCEPT !.mandate = Resolved(m, returnTo), !.fee = FeeFor(m),
                                   !.pinned = TRUE, !.sponsored = config.sponsored]
  /\ changes' = changes + 1
  /\ UNCHANGED <<config, at, now>>

(* The status is set although the PATCH fails. *)
RevokePolicy ==
  /\ ~agent.cleared
  /\ \/ /\ rules' = CompileRevocation(agent.mandate, config.custody, config.sponsored)
        /\ agent' = [agent EXCEPT !.status = "revoked", !.cleared = TRUE,
                                    !.sponsored = config.sponsored]
     \/ rules' = rules /\ agent' = [agent EXCEPT !.status = "revoked"]
  /\ UNCHANGED <<config, at, now, changes>>

(* The server is started with another fee or without sponsored sends. *)
Redeploy ==
  /\ changes < MaxChanges /\ changes' = changes + 1
  /\ config' \in {c \in Configs \ {config} : c.custody = config.custody}
  /\ UNCHANGED <<agent, rules, at, now>>

Tick ==
  /\ now < MaxTime /\ now' = now + 1
  /\ UNCHANGED <<config, agent, rules, at, changes>>

(* What the chain does with a signed call: where a holding goes. *)
Goes(q) ==
  CASE q.fn = "deposit"  -> IF q.party = "self" \/ config.custody = "address-keyed"
                            THEN "kuru" ELSE "stranger"
    [] q.fn = "withdraw" -> IF config.custody = "address-keyed" THEN "wallet"
                            ELSE IF q.party = "owner" THEN "home" ELSE "stranger"
    [] q.fn = "transfer" -> IF q.party = "owner" THEN "home" ELSE "stranger"
    [] q.fn = "createAccount" -> "perpl"
    [] OTHER -> "stranger"    \* a call that carries MON it has no use for

Moves(q) == q.fn \in {"deposit", "withdraw", "transfer", "createAccount"} \/ q.value > 0
From(q)  == IF q.fn = "withdraw" THEN "kuru" ELSE "wallet"

(* The agent's key asks for a signature, whatever the server would check. *)
Sign(q) ==
  /\ Moves(q) /\ at[q.token] = From(q)
  /\ \E method \in {"sign", "send"} : Signs(rules, method, q, now)
  /\ at' = [at EXCEPT ![q.token] = Goes(q)]
  /\ UNCHANGED <<config, agent, rules, now, changes>>

PolicyNext ==
  \/ PinKuruDeposit \/ RevokePolicy \/ Redeploy \/ Tick
  \/ \E m \in Terms : AmendPolicy(m)
  \/ \E q \in SigningRequests : Sign(q)

PolicySpec == PolicyInit /\ [][PolicyNext]_policyVars

-------------------------------------------------------------------------------
(* The two layers say the same thing (mandate.ts:5): what the gate lets an
   active agent do the enclave signs, by every call it is made of, the approval
   of today's fee included; it signs no funding the gate would refuse, and no
   approval of a builder above the fee of the record or past the mandate. *)
LayersAgree ==
  agent.status = "active" =>
    LET m == agent.mandate
        signed(q) == /\ Signs(rules, "sign", q, now)
                     /\ agent.sponsored => Signs(rules, "send", q, now)
    IN  /\ DepositsPinned =>
             \A t \in KuruTokens, a \in 1..MaxAmount :
               DepositAllowed(m, t, a) <=> /\ signed(Deposit(t, "self", a))
                                           /\ t # Native => signed(Approve(t, "core", a))
        /\ \A a \in 1..MaxAmount :
             CollateralAllowed(m, a) <=> /\ signed(OpenAccount(a))
                                         /\ signed(Approve(Ausd, "exchange", a))
        /\ \A b \in Markets :
             OrderAllowed(m, b) <=> \A q \in OrderCalls(m, b) : signed(q)
        /\ \A u \in 0..Forever, f \in 1..AnyFee :
             Signs(rules, "sign", ApproveBuilder(u, f), now) => f <= agent.fee /\ u <= m.until
        /\ WithdrawAllowed(m) /\ m.returnTo # Nobody =>
             \A t \in KuruTokens : signed(Withdraw(t, m.returnTo))

(* What the anchor publishes is recompiled from the record, under whatever
   configuration the server runs now, and it is what the enclave holds
   (mandate-anchor.ts:77), but while a revoke's PATCH is still to be done. *)
RecordTellsRules == agent.status = "active" \/ agent.cleared => StatedRules = rules

(* A revoked agent can be emptied (policy.ts:430): as long as its mandate names
   the owner and Kuru, whatever it holds there and in its wallet has a way home.
   An amend that drops Kuru closes it for what is on Kuru, and MON stays. *)
ExitStaysOpen ==
  agent.mandate.returnTo # Nobody =>
    \A t \in Tokens :
      /\ at[t] = "wallet" /\ t # Native => Signs(rules, "sign", Transfer(t, "owner"), now)
      /\ at[t] = "kuru" /\ "kuru" \in agent.mandate.venues =>
           Signs(rules, "sign", Withdraw(t, "owner"), now)

(* The types, the two layers, the record and the way home, together. *)
PolicyIsKept == PolicyTypeOK /\ LayersAgree /\ RecordTellsRules /\ ExitStaysOpen

(* Money leaves the agent's reach only toward its owner, but by a deposit of a
   hire whose record says it is not pinned (SEN-188); it reaches a venue only
   under a mandate in force, and not once a revoke is done. *)
MovesOnlyHome ==
  [][\A t \in Tokens : at'[t] # at[t] =>
       /\ at'[t] = "stranger" => ~DepositsPinned
       /\ at'[t] \in {"kuru", "perpl", "stranger"} => /\ now <= agent.mandate.until
                                                      /\ ~agent.cleared]_policyVars

(* A revoke widens nothing (policy.ts:417), unless the server was started with
   sponsored sends since the policy was compiled. *)
RevokeNarrows ==
  [][agent'.cleared /\ ~agent.cleared /\ (config.sponsored => agent.sponsored) =>
       Admitted(rules', now) \subseteq Admitted(rules, now)]_policyVars

(* Where money may go, and that a revoke leaves it fewer ways. *)
MoneyComesHome == MovesOnlyHome /\ RevokeNarrows
===============================================================================
