# Sente: a verification project

Sente lets a user hire trading agents on Monad. Each agent has a Privy server
wallet whose enclave-enforced policy is compiled from a mandate; a scheduler
runs it; the API also sends gas drips and starter kits, executes the user's own
trades, follows the chain and keeps sessions and credits. This directory holds
TLA+ models of that code, the TLC runs that check them, and proofs checked by
TLAPS. Paths are relative to the repository root, which is `src/` here; `api/`
stands for `services/api/src/`.

## Inventory

| Component | State it keeps | What is hard | What must hold | Modelled by |
|---|---|---|---|---|
| Agent mandate lifecycle: `api/agents/agents.service.ts`, `prepared-approval.ts`, `store/`, `privy/` | one record per agent (SQLite), prepared approvals and lock tails (memory), the policy in Privy's enclave (external) | calls interleave at every `await`; a PATCH may apply although its answer is lost; prepares are lost at a restart | the record never claims less authority is left than the enclave enforces; a revoke is final; a signature is used once | `AgentMandate`, `MandateAuthority` |
| Mandate package: `packages/mandate/src/` | none (pure) | rules against checks, across amends and redeployments | the policy admits what the server's checks admit; money has a way home and no other way out | `MandatePolicy` |
| Reputation, anchors: `api/agents/reputation/` | anchor tail, retries | lost and late transactions, order | the chain shows the newest mandate in the end | `MandateAnchor` |
| Run scheduler: `api/agents/runner/agent-run.scheduler.ts`, `schedule-guard.ts` | last start, last run, pending wake, claims, limiter, daily counts, pauses (memory); run events (durable) | overlapping polls, slots handed over, restarts, midnight, wakes held back | one turn and one run per agent, cap and cadence, no lost wake, no starvation | `AgentScheduler` |
| Agent runner, tools and gate, write spacer, keyed mutex: `api/agents/runner/`, `api/agents/tools/`, `api/spacing/` | open runs, a promise tail and a last end per key (memory), event log | a time-out against a late tool answer; a check that is stale when its write is sent; aborts while queued | every run ends; a run cut off or an agent revoked lets one write at most still sign; writes in order, spaced | `AgentRun` |
| Resting-fill watcher: `api/agents/fills/` | block cursors, logged fills | blocks read again, failed ranges, cancels | each fill logged once, none missed | `RestingFills` |
| Watchers: `api/agents/watchers/` | watcher sets and edges (durable) | a set changed while it is checked | an edge wakes once | `Watchers` |
| Event log: `api/agents/events/` | the events (memory, file) | eviction, compaction, torn lines, paging | a page misses nothing that is still listed | `EventLog` |
| Perpl account of an agent: `api/agents/venues/perpl-onboarding.ts`, `perpl-agent.ts` | the account, the key, one flight | partial failure between account and key | one account, one key | `PerplOnboarding` |
| Agent's wallet, return of funds: `api/agents/venues/agent-transactions.ts`, `api/agents/recovery/` | queue of the wallet, last nonce | lost answers, dropped transactions, two returns | nonces in order; what a return says is so | `AgentWallet` |
| Gas: `api/gas/` | claims, totals, key lanes and nonces (memory) | a broadcast whose answer is lost; shared pools; retries | one drip per user, caps kept, nonces in order | `GasDrip` |
| Starter kit: `api/starter-kit/` | a record per user (file) | as gas, with two tokens | one kit per user | `StarterKit` |
| Trade: `api/trade/` | prepared and committed trades (memory), wallet locks | two confirms; unknown outcomes; expiry | a trade is sent at most once; an unknown step is never reported as not sent | `TradeExecution` |
| The user's wallet: `api/wallet/` | the binding (file), prepared sends, tracked operations | double sends, expiry, two devices | a prepared send goes out once; one wallet per user | `WalletSends`, `UserWallet` |
| Credits: `api/credits/` | key per user (file) | two first runs mint twice | one key per user | `Credits` |
| Order books: `api/venues/perpl/perpl-book-feed.ts` | the socket, one book per market | gaps, reconnects, refused streams, a budget of requests | no book with a gap is called fresh, but for a refused one | `PerplBookFeed` |
| Sessions: `api/auth/`, `apps/mobile/src/session/` | challenges (memory), tokens (phones) | switches and reloads during a sign-in | no token used for another account | `SignIn` |
| Chain heads: `api/chain/` | one record per height | a socket and a poll that name blocks differently | no reorg told that did not happen | `ConsensusHeads` |
| Webhooks: `api/webhooks/` | remembered keys (memory) | repeated and overlapping deliveries | a transfer is logged once | `DepositWebhook` |
| State directory: `api/state/` | the lock file | two processes, kills | one writer | `StateDirLock` |
| Mobile app and venues package: `apps/mobile/src/trade/`, `packages/venues/src/perpl/` | a trade's flow, orders at Perpl | lost and late answers, time-outs | the user is told the truth, and told something | `TradeFollow`, `PerplOrders` |
| Trade planning, portfolio, value history, profiles, presets, fees, health, indexer, infrastructure | - | - | - | not modelled |

Agents call the mandate service only for their record; the scheduler calls the
runner, which calls the tools, which send through the venues and Privy; the
trade and wallet services share the spacing of the user's wallet. What the
parts share is the store, the event log and the wallets.

## The modules, and how they correspond to the code

In every module an action is the stretch of code between two moments at which
something else can run: an `await` on the network, a queue or a timer. The
stores (SQLite behind resolved promises, or maps) answer without letting
anything in, so a read followed by a write to them is one action unless the
code awaits something else in between. `map` in `PROJECT.json` gives the source
lines of every definition. Every module names its faults in a constant, and
every bound is a constant whose comment says so.

### What an owner has: AgentMandate, MandateAuthority, MandatePolicy, MandateAnchor

`AgentMandate`: `record` is the agent store, `enclave` the policy Privy
enforces, `prepared` the `PreparedApprovals` map, `locks` the promise tails of
`withAgentLock` in order, `call` the requests in progress. A request goes
through the points of its handler: `queued` for the lock, `sent` and `applied`
around the PATCH (the enclave takes it at one moment and answers at a later
one), `funds` while archive reads balances, `parsing`, `provisioned` and
`finishing` for the hire and the prepares. Faults: an applied PATCH whose answer
is lost (`lost`), and a crash, which empties `prepared`, `locks` and `call` and
leaves the store and the enclave. A policy keeps what the properties tell apart:
whether it lets the agent take risk, from which mandate, and whether each Kuru
deposit is pinned to the agent's wallet. `OwnerActsDuringHire` says whether the
owner may act on an agent whose hire has not returned: the code lists it already.

`MandateAuthority` is what an owner is promised and knows nothing of locks,
prepares or requests: a wallet and its trading rules, `active` in which they
may be replaced, `revoked` in which only an exit may be installed, `sealed`
once it is. The refinement maps `authority` to `enclave` and `stage` to the
record's status and `policyCleared`.

`MandatePolicy` opens the policy that `AgentMandate` has as a value: the rules of
`packages/mandate/src/policy.ts` and of the exit, the checks of `enforce.ts`,
what the record says of the rules, one agent's money, and a server that is
deployed again with another fee (an approval of the builder asks for one, its rule
caps it, and a record may hold any), another custody or without sponsored sends
between a hire and a revoke.

`MandateAnchor` has the stored mandate (`record`), the process's queue of
rewrites, the one that runs (`job`), retry `timers`, and the registrar's
transactions (`sent`), which land late, are reverted or never left.

### What an agent does: AgentScheduler, AgentRun, RestingFills, Watchers, EventLog

`AgentScheduler`: `seen` is the scheduler's `lastStart`, `lastRun` and
`pending`; `guard` the counts and pauses of `ScheduleGuard`; `limiter` its
active count and waiters; `running` the runner's map; `log` the durable run
events; `job` one scheduled turn from claim to release, `manual` one run asked
for by hand; `begun` is a history of the scheduled runs. A poll is one action
per agent (`PollRuns`, `PollWatches`), since it decides and claims with nothing
awaited in between. The model loop of a run is one step from open to ended, with
or without a log event, as the run's time budget guarantees.

`AgentRun` opens that step: `run` and `toolCall` are the loop's turn and each
call under way, of a run, a session or the fill watcher; `spacer` the queue of
`WriteSpacer` with the time since the last write, `lock` the queue of the keyed
mutex, `theses` and `runLog` what was logged, `agentNow` the stored record the gate
looks at, `signed` a history of what reached the enclave. A write waits for the
spacer, then for the lock, and keeps its place in the first while it is in the
second, as the nested promises do.

`RestingFills` has a poll that reads blocks range by range (`cursors`,
`readTo`), the sightings of orders that left the book, and the fills it writes
to the log. `Watchers` has the stored set, one check under way and the market it
reads. `EventLog` has the lists in memory with what was evicted, the file, and a
phone that pages.

### The agent's venues: PerplOnboarding, AgentWallet, PerplBookFeed

`PerplOnboarding`: one `flight` that opens, funds and forwards the account, one
`enrolling` of the key, the wallet's pending transactions. `AgentWallet`: the
wallet's `queue` of sends with `lastNonce`, the transactions (`txs`), and the two
legs of a return (`ret`). `PerplBookFeed`: the socket (`link`), its
subscriptions (`streams`), the frames that are on their way (`inbox`), and the
budget of requests. Perpl may refuse a market in any subscription, a refresh's too;
a refused one stays mapped, in `streams`, and is listed in `refused`.

### What the user does: TradeExecution, TradeFollow, PerplOrders, WalletSends, UserWallet, Credits

`TradeExecution`: `trade` is the store and, with status `planning`, the
`prepare` that is about to store it; `queue` the executor's `KeyedMutex` of the
wallet; `at` where the executor is with a trade; `read` a `status` or `list`
request in `reconcile`, which keeps the copy of the trade it took before it
awaited the bundler; `op` and `log` what Privy and the chain did with each step,
external. A request may be refused, dropped (and taken, or not, or later),
answered with an operation to follow or with none; an operation may land after
its time-out, and land without effect. A step with a hash is settled by its own
receipt; one with none is given up after `UNVERIFIABLE_AFTER_MS`. When the
executor stops at an unknown step, that status and the `not_sent` of the rest
are written by two calls a promise's resumption apart; they are one action here.
The intents' hash is left out: a `prepare` that finds its client id taken is
answered or refused, and changes nothing either way. The Perpl steps and
`approveBuilder` behave as `approve` does. `Settles` uses the stored result, not
the one read, which is the same since a plan places once (`kuru-planner.ts:331`).

`TradeFollow` is the phone's side of a trade (`apps/mobile/src/trade/flow.ts`)
with the server seen from outside; `PerplOrders` the orders the phone places at
Perpl itself and what it reads back; `WalletSends` the transfers, steps and
Kernel operations that leave the user's two accounts and the tracker that
answers for them; `UserWallet` the registration of the wallet; `Credits` the
one inference key of a user.

### What the service keeps: GasDrip, StarterKit, StateDirLock, SignIn, ConsensusHeads, DepositWebhook

`GasDrip`: `drip`, `total` and `funded` are the ledger's record per address,
daily totals and agent drips per user and day; `key` the dispatcher's lane of a
faucet key with its next nonce; `request` one `drip` or `dripToAgent` in
progress; `sent` the transactions a node has accepted, external. The code's
read-and-wait for a free key is folded into one step, as are simulation and
broadcast; balances are unconstrained. `StarterKit` has the same shape for two
tokens, with a record that is saved before each send.

`StateDirLock` has one step per system call on the lock file, for the processes
share nothing but the directory. `SignIn` has the phones' `token`, the sign-in
under way (`flight`), the browser's `seal`, and the server's `challenge` of each
account. `ConsensusHeads` folds the socket's pushes and the poll's readings into
one record a height. `DepositWebhook` has the requests (`handler`), the
remembered keys (`seen`) and the log; and, as history, why a key is not on it:
its append failed or found no active agent (`unlogged`), or a restart cut its
append off (`cutOff`).

### The MC modules

An MC module puts several components side by side. They share no state, a
behaviour takes one of them (`part`, which never changes) and leaves the
variables of the others alone, so that TLC explores the sum of their states and
not the product. Some components are extended and take their constants from the
cfg; the others are instances, whose bounds stand at each `INSTANCE`. `MCServer` has
twelve parts, so a state is known by its part's variables alone (`MCView`): the
others are as they began. `OwnerServices` is the same for four components with theorems,
`MandateAnchor`, `WalletSends`, `UserWallet` and `Credits`: one step of one of
them at a time, the others at rest. The components that do meet in the code
meet inside a module: the spacer, the lock and the gate in `AgentRun`, the
scheduler with the runner's admission in `AgentScheduler`, the queue of the wallet
with the returns in `AgentWallet`, the record with the enclave in `AgentMandate`.

## The runs

`tlc -config X.cfg M`; each takes between a few seconds and three minutes.

| Run | `M`, `X` | Parts and their bounds | What it shows |
|---|---|---|---|
| `mandate_server` | `MCMandateService`, `Mandate_server` | faulty: one agent, three calls, two mandates, lost answers, crashes; reliable: two agents, two calls, no faults; anchoring: two amends, two retries; compiling: three mandates, two changes; sending: two sends; registering: three calls, two devices; crediting: three provisions and a read | a cleared agent's enclave holds an exit; the pinned flag is true; a revoked agent's authority never widens; records change only after the enclave; the refinement of `MandateAuthority`; what is stored is enforced; a revoke installs nothing new; the rules agree with the checks; money comes home; sends, registrations and keys are once |
| `agent_live` | `MCAgentLive`, `Agent_live` | calling: one device-owned agent, two calls, two prepares, lost answers, crashes, the owner acts during the hire; anchoring: one amend, one restart; running: two turns, one change; recording: one order of two units, three blocks | approvals are spent once; every call returns; a run ends; the anchor and the log of fills converge |
| `mandate_rearm` | `MCAgentMandate`, `Mandate_rearm` | one agent, two calls, the owner acts during the hire, no faults | violation, finding 1 |
| `mandate_lost` | `MCAgentMandate`, `Mandate_lost` | one agent, two calls, lost answers | violation, finding 2 |
| `sched_shared` | `MCScheduledRuns`, `Sched_shared` | sharing: two agents, one watching, share one slot, a day and the first moment of the next; opening: one flight, one reader, one failure, one restart; feeding: one market, one trouble | due agents run, heartbeats too; one account, one key, opened in the end; a book comes to be fresh again |
| `sched_cap` | `MCAgentScheduler`, `Sched_cap` | one agent, two jobs, crashes | violation, finding 3 |
| `gas_drips` | `MCFunding`, `Gas_drips` | dripping: a user and three agents, two requests, two keys, two days, every fault; giving: two users, one IP or none, stock for one kit and a half, a restart | funded again only after a lost answer; caps, totals, owners of reservations, spacing, nonces; a kit's token goes out once |
| `gas_lost` | `MCGasDrip`, `Gas_lost` | one request, one key, lost answers | violation, finding 4 |
| `user_trades` | `MCUserTrades`, `User_trades` | executing: two prepares under one client id or two, plans of two steps and of one, a reader; following: one trade, three faults; ordering: two orders, one phone or two, one fault | requests in order and once; records true of the chain; what the phone tells is so; everyone is told |
| `server_keeps` | `MCServer`, `Server_keeps` | locking: three processes, two hosts, kills; returning: two returns, one write, one fault; pricing: two markets, one trouble; signing: a browser and a phone, two accounts, three switches, one mishap; heading: two heights, two blocks, two pushes on their way; crediting: three payloads, one illegible, three transfers, one that cannot be described, two mishaps; starting: one watching agent, a manual request, every fault, two days; closing: two runs of one turn, two calls; ordering: one run of two turns, two calls; filling: two orders, one restart; logging: two agents, four events, two restarts; waking: one watcher, two checks, two sets | one writer, nobody locked out; returns, books, sessions, heads and deposits are true; runs are rationed, wakes and pauses hold; writes keep their turn; a thesis has one verdict; fills are logged once and none is missed; the log and its pages are whole; a watcher fires when its condition came true |
| `book_refused` | `PerplBookFeed`, `Book_refused` | one market, one refusal | violation, finding 6 |
| `lock_race` | `MCStateDirLock`, `Lock_race` | three processes, two boot at once | violation, finding 5 |

**Bounds.** Calls, jobs, requests and readers bound what is in progress at
once, not how often: a finished one is reused. Two suffice for each race of two
handlers; `mandate_server` has three, for a hire, a revoke and an amend. Two
mandates tell an old from a new one and a pinned from an unpinned one. Clocks
stop at a last moment: two days for gas and for the scheduler, so that a claim
or a turn straddles midnight; in `TradeExecution` the last moment stands for any
later time, so a give-up is reachable at it. `MaxLog` stops manual runs,
unarchives and crashes after that many runs of an agent, and `MaxSent` new drips
after that many transactions. The gas cap of 3 with amounts as `MCAmount` is met
at its edge by two requests. Two trades are one behind the other for the lock,
or two of one client id; both plan shapes are there, a deposit followed by its
place and the atomic batch of both. In `AgentRun` two calls meet in either queue,
and two runs meet at a time-out. In `RestingFills` an order of two units fills in two
blocks, one read and one not. `EventLog` keeps two events of an agent, so the third
evicts. `DepositWebhook` remembers one of three transfers. A spacing, a cooldown and a
lifetime are one tick or two, the least that tells before from after. Faults of a
kind that can follow one another are bounded by a number (`MaxTroubles`,
`MaxMishaps`, `MaxFailures`), at least one with every kind to choose from.

**Symmetry** is used for safety alone (`mandate_server`, `gas_drips`,
`gas_lost`, `sched_cap`); the runs with a liveness property have none.
**Deadlock** is checked by `mandate_server`, whose parts that come to rest
stutter by an action of their own, and by `mandate_rearm` and `mandate_lost`. The other
runs set `CHECK_DEADLOCK FALSE`: their clocks stop at the bound, and every agent may be
archived, every address funded, every trade done, every process gone.

**Fairness**, and why the code justifies it:
- `AgentMandate`: weak fairness of each call's progress. A request's promise
  settles: Privy's client has no time-out of its own but undici gives up on a
  connection, and a lock tail runs on whether the call before it failed.
- `MandateAnchor`: weak fairness of the queue, its timers and the hire's tail, and of
  the landing of what was sent. Nobody has to amend, revoke or restart.
- `AgentScheduler`: weak fairness of the poll per agent (the poll timer), of a
  job's steps (watch checks, credit reads and runs settle; a run has a time
  budget) and of the clock. Nothing is assumed of manual requests.
- `AgentRun`: weak fairness of time, of the run's time-out timer, of the loop and
  of each call that can go on.
- `RestingFills`: weak fairness of the poll and of the chain's next block; strong
  fairness of the reads of the head and of a range, and of a write of what they
  found: the provider is not down for ever, and the poll tries again.
- `PerplOnboarding`, `PerplBookFeed`: weak fairness of the flight, the enrolment and the
  landing; of the socket's callbacks, its timers, the reads and the clock.
- `TradeExecution`: weak fairness of the executor (its polls have a deadline),
  of the clock, and of a landing; strong fairness of a phone's read of a trade
  and of the bundler's answer for an operation that has landed. The phone polls
  while a trade is executing; a trade nobody reads is not settled by the code,
  and an operation that no bundler includes keeps its trade executing.
- `TradeFollow`, `PerplOrders`: weak fairness of the flow's own steps and of the clock.

## Proofs

What TLAPS proves, for any sets and any values of the constants. Every theorem
module `XProofs` extends `X`, `AgentSchedulerProofs` `PerplOnboarding` too
and `AgentRunProofs` `Watchers`, `FundingProofs` `GasDrip` and `StarterKit`,
`ServerProofs` `StateDirLock`, `PerplBookFeed`, `SignIn`, `DepositWebhook` and
`ConsensusHeads`, `UserTradesProofs`
`TradeExecution`, `TradeFollow` and `PerplOrders`, and `OwnerServiceProofs` `MandatePolicy` and
`OwnerServices`; the last column says what its
invariant adds to the property, which is seldom inductive by itself.

| Theorem | Assumes | States | The inductive invariant |
|---|---|---|---|
| `AgentMandateProofs` | `MandateAssumption`, and | | |
| `TypeCorrect`, `MutualExclusion`, `CallsAreConsistent` | - | `[]TypeOK`, `[]LockIsExclusive`, `[]CallInv` | `CallInv`: which operation a call can be at each point (`CallShape`), that records and held prepares name a mandate (`RecordShape`), that a hire is alone in creating its agent (`HireShape`), that a call past the lock heads its agent's queue (`LockInv`) |
| `ApprovalsAreSpentOnce` | - | `[]ApprovalsAreSingleUse` | `CallInv` and `PreparesFit`: only a prepare or a commit carries an approval; the one a prepare carries is unused and no other call carries it, the one a commit carries is used |
| `PinnedFlagStaysTrue` | - | `[]PinnedFlagIsTrue` | `PinInv`: `CallInv`; before it is stored an agent has the policy it was provisioned with; a call whose PATCH was taken, or a hire that pinned, has the enclave pinned; a pinned record exists |
| `AuthorityIsConsistent`, `ClearedHoldsExit`, `RevokedNarrows` | `SafePins` | `[]AuthorityInv`, `[]ClearedMeansExitOnly`, `RevokedOnlyNarrows` | `AuthorityInv`: `CallInv`, and `HireAlone` (while owners wait for their hires, no other call works on the agent), `PatchInv` (a PATCH with trading rules is out only for an agent not revoked; an answered revoke has left the exit behind), `RevokedFirst` (a record is cleared only once it is revoked) |
| `AuthorityKept` | `SafePins` | `AuthorityIsPromised`: `AgentMandate` implements `MandateAuthority` | `AuthorityInv`; each action maps to a step or a stutter |
| `RecordsStayBehind` | `SafePins` | `RecordFollowsEnclave` | `FollowInv`: `AuthorityInv`; a PATCH that was taken and not answered yet is what the enclave has, and a pin compiles the record's mandate |
| `StoredMandateStaysEnforced` | `SafePins`, `Faults = {}` | `[]StoredMandateIsEnforced` | `FollowInv`, and that while no call's PATCH is taken and unanswered, an active agent's enclave has a trading policy of the stored mandate |
| `OwnerServiceProofs`: the rules | `PolicyAssumption` | | `PolicyInv`: the record is one that was granted, and the rules are those of it |
| `PolicyKept` (from `RecordStatesRules`, `TwoLayersAgree`, `ExitNeverCloses`) | - | `[]PolicyIsKept` | |
| `MoneyKept` (from `MoneyOnlyComesHome`, `RevokeOnlyNarrows`) | - | `MoneyComesHome` | |
| `OwnerServiceProofs`: the wallet | `WalletAssumption` | | `RegisterInv`: who provisions is the call in flight, nothing is bound until it ends, and whoever joined waits for it (`FlightIsOne`) |
| `WalletStaysOne` | - | `[]WalletIsOne` | |
| `OwnerServiceProofs`: the budget | `CreditsAssumption` | | `CreditsInv`: only the call in flight creates a key, and only while none is stored (`MintIsOne`) |
| `KeysStayOne` | - | `[]KeysAreOne` | |
| `OwnerServiceProofs`: the sends | `SendsAssumption` | | `SendsInv`: an operation is the only one of a send that was taken (`OpsFit`); the spacer's queue is the sends between commit and end, and its head alone is under way (`TurnsFit`); what has yet to land is no older than the mark, or slow, or of before a restart (`MarkFits`); what the tracker saw is so (`SeenFits`); a refusal as too early has its cause (`EarlyFits`) |
| `TransfersStayTrue` | - | `[]TransfersAreTrue` | |
| `OwnerServiceProofs`: the anchors | `AnchorAssumption`, and | | `AnchorInv`: an agent's writes are in the order of what its owner asked for, and of their nonces, which is the order they land in (`SentFits`, `JobFits`, `HireFits`, `OrderFits`); what is stored landed, and nothing that landed since is older (`StoredFits`) |
| `AnchorsStayCurrent` | `~AmendsBack` | `[]CurrentIsOnChain` | |
| `RevokedIsFinal` | - | `RevokedStaysRevoked` | |
| `ServiceStaysTrue` | `ServicesAssumption`: those of the four | `[]ServiceIsTrue` | `ServicesInv`: the four invariants, none of which another component's step disturbs |
| `AgentSchedulerProofs`: the runs | `ScheduleAssumption` | | `Inv`: `Admission` (claims, jobs, the limiter's count and the runner's map fit each other), and agent by agent `PastFits`, `GuardFits`, `OpenFits`, `StartsFit`, `JobFits`: the runs that began, the log, and what the scheduler and the guard remember of them |
| `InvHolds`, `RunsStayRationed` | - | `[]RunsAreRationed` | |
| `WakesAndPausesStayHeld` | - | `WakesAndPausesHold` | |
| `AgentSchedulerProofs`: the account a run sees to | `OnboardingAssumption` | | `OnboardInv`: what is remembered of forwarding is so on chain (`ChainFits`); no key is made beside one that is held (`EnrollFits`); what a flight has left to send ends in forwarding, and its receipt is of its own leg (`FlightFits`); while no read failed and nothing was given up on, what is out is the leg the flight awaits (`SeenFits`) |
| `OnboardingStaysTrue` | - | `[]OnboardingIsTrue` | |
| `AgentRunProofs`: the writes | `RunAssumption` | | `RunInv`: `QueuesFit` (which calls are in the spacer's queue and in the lock's, and that the one under way heads both), `LateFits` and `ForbiddenFits` (after a write of a run that was cut off, or that the agent forbids by now, none is to come), `GapsFit` (the wait that is left and the time since the last write are a spacing together) |
| `RunIsTyped`, `WritesKeepTheirTurnHolds` | - | `[]RunTypeOK`, `[]WritesKeepTheirTurn` | |
| `AgentRunProofs`: the watchers | `WatchAssumption` | | `WatchInv`: a stored edge is what the last recorded check that could read it saw (`EdgesFit`, with `LatestFit`: there is a last one), a stored firing the last one there was (`FiringsFit`), and a check under way has the set of its `updatedAt` (`CheckFits`) |
| `WatchersStayTrue` | - | `[]WatchersAreTrue` | |
| `UserTradesProofs`: the execution | `TradeAssumption` | | `Inv`: trade by trade the steps, the operations, the money and the executor's place fit (`StepsFit`, `StageFits`, `MoneyFits`, `QueueFits`), a reader's copy to the steps it will overwrite (`ReadsFit`), and the requests sent to the trades they were sent for (`LogFits`) |
| `TypeCorrect`, `RequestsStayOrdered`, `RecordsStayTrue` | - | `[]TypeOK`, `[]RequestsAreOrdered`, `[]RecordsAreTrue` | |
| `UserTradesProofs`: the phone that follows | `FollowAssumption` | | `FollowInv`: the server's record and its memory of one claim fit (`TradeFits`); what is asked fits the point the flow is at (`AskFits`); nothing runs, or may arrive late and run, before the phone commits (`FlowFits`); an answer on its way is so and stays so, and whatever runs of a flow that never lost an answer does so behind the one it waits for (`AnswerFits`); what was told stays so (`ToldFits`) |
| `ToldStaysTrue` | - | `[]ToldIsTrue` | |
| `UserTradesProofs`: the orders at Perpl | `OrdersAssumption` | | `OrdersInv`: an action's turn, number and frame fit its point (`PointFits`, `NumberFits`, `LastFits`); whatever is in an inbox, or was taken from it, is what became of the order its number names (`HeardFits`), and a failure of an order alone with its number is one, or its fill is behind it (`FailureFits`); two actions of a phone share a number only after a refusal or a lost outcome (`PairFits`); until something moves every screen shows the position (`StillFits`) |
| `OrdersStayTrue` | - | `[]OrdersAreTrue` | |
| `FundingProofs`: the drips | `DripAssumption` | | `Inv`: `Ledger` (drips and totals, and the requests that will settle them), `Paid` (the transactions, and the drips they are paid from), `Queue` (the transactions, and the keys that signed them) |
| `FundedOnceUnlessLost`, `LedgerStaysTrue` | - | `[]FundedAgainOnlyIfLost`, `[]LedgerIsTrue` | |
| `FundingProofs`: the kits | `KitAssumption` | | `KitInv`: a record is pending while its grant is under way, and the file is never ahead of what was sent (`KitsFit`); what of a kit is out at each point of its grant (`GrantFits`); transfers land in turn, and what a grant saw of the stock is gone only if a transfer landed since (`LandFits`) |
| `KitsAreSentOnce` | - | `[]KitsAreOnce` | |
| `AgentWalletProofs` | `WalletAssumption` | | `WalletInv`: the queue, the sender and the line of the returns fit (`Shape`); a leg is handed over once, and the one followed is alone in flight (`SentFits`, `PairFits`, `FlightFits`); a return's words, plan and amounts are the chain's (`WordFits`, `PlanFits`, `AloneFits`); what it counts on is there until a write of the agent's, or what was given up on, takes it (`RoomFits`, over the order of landings, `AtFits`); the nonces of one process follow each other (`Gapless`) |
| `ReturnsStayTrue` | - | `[]ReturnsAreTrue` | |
| `ServerProofs`: the lock | `LockAssumption`, and | | |
| `OneWriterAtATime` | `~Overlap` | `[]OneWriter` | `LockInv`: whoever writes is named by the lock, and one process at a time is between its start and its first write |
| `NobodyIsLockedOut` | - | `[]LockServes` | `RivalInv`: who is refused, or lost its lock, met a rival |
| `ServerProofs`: the sessions | `SignInAssumption` | | `Inv`: an attempt, its challenge and its token are its signer's (`FlightFits`), a seal and the token beside it its session's (`SealFits`), an open request its user's (`CallFits`), and a challenge that is outstanding was not swapped (`ChallengesFit`) |
| `SessionsStayTrue` | - | `[]SessionsAreTrue` | |
| `ServerProofs`: the deposits | `DepositAssumption` | | `DepositInv`: a key that the memory never lost has one append under way at most, and then is remembered and not logged (`MemoryFits`); what a request is past, if it could read it, is on the log, about to be, skipped, or known to be lost (`PassedFits`) |
| `DepositsStayTrue` | - | `[]DepositsAreTrue` | |
| `ServerProofs`: the order books | `FeedAssumption` | | `FeedInv`: no frame on its way is of older books than one before it, and no book is ahead of the last taken (`Forward`); from then on a market that is vouched for, mapped and not refused since, changes by the deltas that tell of it (`Chained`, `UpToDate`); a grant brings a snapshot before any delta (`GrantsBring`); a book that is vouched for follows, or waits for that snapshot (`Synced`); requests are kept oldest first (`OldestFirst`) |
| `BooksStayTrue` | - | `[]BooksAreTrue` | |
| `ServerProofs`: the heads | `HeadsAssumption` | | `HeadsInv`: what a push on its way, and a reading of a poll under way, name was and still is as far as they say (`PushesFit`, `ReadingFits`), for a block only gets further (`HeightsGrow`); a record names blocks that held its height, and one of them got as far as it says (`RecordFits`) |
| `HeadsStayTrue` | - | `[]HeadsAreTrue` | |

`SafePins` is `OwnerMode = "device" \/ ~OwnerActsDuringHire`. It is what run
`mandate_rearm` shows to be needed: with neither, the pin of a hire still
running re-arms a revoked agent, and `RecordFollowsEnclave` fails with it.
`~Overlap` is what `lock_race` shows to be needed, and `Faults = {}` of
`StoredMandateStaysEnforced` what `mandate_lost` does. `~AmendsBack` is needed because
the store compares what was anchored with what is to be by value: of an agent amended
from one mandate to another and back, a late write of the second may land behind the
stored first. The other assumptions are the
types of the constants.

`ClearedMeansExitOnly` alone is not inductive because a PATCH in flight could
still widen the enclave; `PatchInv` rules that out. `OneWriter` alone is not because a
process about to write need not be named by the lock. `WritesKeepTheirTurn`
alone is not because a write that was allowed when it was looked at may be queued
behind any number of others; `QueuesFit` says that they all look again when it
is their turn, and that one alone has looked and not sent. `RunsAreRationed`
needs what a restart reads back from the log. `ReturnsAreTrue` looks back from
a leg that fell short to what took its funds; `RoomFits` says of every return not
sent yet that its funds are there or were taken so. `ToldIsTrue` is not
inductive because a commit whose answer was lost may still reach the server after
its user was told; `FlowFits` and `AnswerFits` say for which flows none is on its way,
and `Dead` that one past its deadline comes too late. `OrdersAreTrue` is not because
the phone matches messages to orders by number alone: `HeardFits` speaks of the orders
of a number, and `PairFits` says when that is one. `OnboardingIsTrue` is not because
a flight says "ready" after the last of several receipts, each of which might be that
of an older leg: `FlightFits` follows the leg at the end of what is out. `WatchersAreTrue`
looks back over every check that was recorded, while the code keeps one edge; `EdgesFit`
says that it stands for them all. `BooksAreTrue` compares a book with the last frame
taken, and says nothing of the next: `FeedInv` links every frame on its way to the one
before, as long as none denies the market. `CurrentIsOnChain` compares
the store with the chain, and says nothing of a write that is late; `AnchorInv` orders
every write of an agent, landed or not. Every invariant was first
checked by TLC on the instance of its run.

**Only model-checked.** Every liveness property (`EveryCallReturns`, `RunsEnd`,
`RecordsConverge`, `DueAgentsRun`, `AccountIsOpened`, `BooksComeFresh`,
`EveryoneIsTold`): fairness and `ENABLED` are beyond the prover. `VerdictsMatch` folds over
the log of an agent, and what a recursive definition gives for every log is an
induction over data, which it cannot do either. `EventLog` is built from such
folds: `LogIsWhole`. `FillsAreAccounted` of
`RestingFills` reads a book back from a log in the same way. Of `LastWordHolds`, that a
revoke installs nothing new (as long as no answer is lost) is checked only; its other
two parts are `RevokedIsFinal` and `StoredMandateStaysEnforced`.

## Findings

Each is a run that TLC must find violated; `PROJECT.json` quotes the lines.

1. `mandate_rearm`: `pinKuruDeposit`'s PATCH is outside the agent's lock, and
   after the agent is listed. A revoke in between is undone in the enclave,
   while the record says `policyCleared`.
2. `mandate_lost`: an amend whose answer is lost is enforced although the
   record, and the error to the owner, name the old mandate.
3. `sched_cap`: runs are logged when they end; a restart forgets those it cut
   off, and the day's cap with them.
4. `gas_lost`: a broadcast that a node accepted and whose answer was lost has
   its claim released; the same user or agent is funded again.
5. `lock_race`: two processes that boot at once over the lock of a dead one may
   both hold it: the second removes the first's new lock.
6. `book_refused`: a refresh gives a stream up and asks for it anew; refused, its id
   stays mapped (`perpl-book-feed.ts:449`), and any frame makes the old book fresh,
   which is then not asked for again while frames come. `FreshIsTrue` exempts it
   as `LiveVouches` does not: `status().subscriptionErrors` names the market. It
   shows no change that was not (`NothingIsMadeUp`).

Observed while modelling, without a run of their own. Where a property would be
broken by one, it names the exemption.

- **Mandates.** `prepareRevoke` compiles the exit from a record read without the
  lock (`agents.service.ts:1123`): an amend committed meanwhile leaves an exit of
  the older mandate installed, although "every surviving rule was already in the
  live policy" (`:1013`). A revoke compiles with the server's current
  `sponsoredSends` (`:437`), which may differ from the live policy's. `unarchive`
  does not ask the limit on agents (`:917`). An archived, expired agent can be
  amended back to life (`:975`). An amend that drops Kuru leaves collateral there
  without a rule to withdraw it (`policy.ts:405`, `:444`), and MON and Perpl's collateral
  have no way home through the policy. Privy's PATCH has no time-out
  (`privy.client.ts:197`). An agent amended back to terms it had, with a late write
  under way, may be stored as anchored when it is not (`mandate-anchor.ts:209`).
- **Runs.** A watcher's edge is stored as used before its wake, which a restart
  loses (`watcher.service.ts:198`). An event the disk refuses is in memory and not
  in the file: pages miss it after a restart (`agent-event-log.ts:165`), and so do
  fills. Two agents' orders in one market, with an account that is not known yet, may
  leave a fill unwatched (`resting-fill.watcher.ts:28`).
- **Perpl accounts and feeds.** `perplAccountReader` answers any failed read with
  "no account" (`perpl-agent.ts:59`), and a second one is opened. A book kept
  across a reconnect counts as fresh from the subscription's acknowledgement to
  its snapshot (`perpl-book-feed.ts:489`), the other exemption of `FreshIsTrue`: it is
  old, not wrong; `lastRefreshAt` is set before a send the budget may refuse
  (`:367`); a stream refused at first is not asked for again before a reconnect.
- **Wallets.** A dropped transaction leaves an agent's `lastNonce` ahead until a
  restart (`agent-transactions.ts:409`), and one of a faucet key its counter
  (`nonce-managed-sender.ts:92`). A lost Privy answer to a registration leaves a
  wallet nobody owns up to; one to a send tells the user "failed" though it may
  land. An operation that lands after the tracker's time-out stays "pending"
  (`operation-tracker.ts:184`); one that was never submitted is "pending" as well
  (`wallet.service.ts:435`) where the tracker would say `unknown`. `raiseToFreeTier`
  PATCHes from a read that may be stale (`credits.service.ts:276`). Two concurrent
  grants may send half a kit each (`starter-kit.service.ts:65`).
- **Trades.** A trade whose operation has a hash but never lands stays executing
  (`trade.service.ts:442`). A restart forgets the ledger of drips and the trades
  (`trade-store.ts:167`). Any answer of Privy's, server errors included, makes a
  step `not_sent` (`step-executor.ts:255`). The phone takes a refusal of a retried
  commit as final although the lost one may run (`flow.ts:512`). Two phones, or an
  order after one that was lost, may seed one request number at Perpl: one order
  vanishes, and its watcher may take the other's event for its own. A failure
  contradicted after the grace is told as a failure.
- **Server.** A deposit whose append failed is answered 200 and not sent again,
  although `webhooks.service.ts:167` holds that it stays replayable; the log
  outlives a restart and the memory of it does not (`:99`). A delivery repeated while
  the first is appending finds the key reserved (`:171`) and is answered 200; if a
  restart then cuts the append off, the deposit is on no log and nobody sends it
  again. So it is, without a word in the log, of a transfer whose block number is
  not one (`:166`), and, with one, of a body that does not parse (`:146`).
  `NothingIsMislaid` names these four and a revoke as the only losses. A request made under one account
  is sent again under the next after a switch (`trade/api.ts:224`). A record read by
  the poll for a block that was replaced is merged with the socket's new id:
  the reorg is missed, and told later of a final block. Overlapping polls after
  fast flaps, and a backoff that is reset though the subscription is refused, are
  in the model and break no property.

## Not modelled, and why

Each component's `note` in `PROJECT.json` says so: calldata, amounts, catalogues
and configuration, which are data rather than control; the mobile app's screens,
the indexer's generated handlers and the deployment scripts, which hold no state
the properties speak of; the SQLite form of the stores, whose writes are each one
transaction. Privy, the bundler, the chain, Alchemy, Perpl and the model provider are
external, and modelled by what the code must expect of them.

Within what is modelled: the per-IP limit and the order in which faucet keys are
tried; Perpl's resting limits, leverage and the scaling of sizes; the switch of
Kuru's custody for an agent that has funds there; purchases of credits, which
have no payment behind them; a page's old request that arrives after a reload;
the queue of those who watch a block. Two devices of one user may abandon each
other's challenge for ever, so `SignIn` has no liveness property.

The models leave out a second API process, since the state directory's lock
admits one (`StateDirLock`, with the exception of finding 5).

## Running

    tlc -config Mandate_server.cfg MCMandateService
    tlapm AgentMandateProofs.tla

`PROJECT.json` lists module and configuration of every run, a mutant of the code
for every property that the property must catch, the hazards the properties are
aimed at, and the theorems. The longest run takes about two minutes on two
cores, the longest proofs (`AgentSchedulerProofs`, `AgentMandateProofs`) some
minutes more.
