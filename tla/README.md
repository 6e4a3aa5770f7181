# A formal model of the Infopunks radar

TLA+ modules, TLC configurations and TLAPS proofs about the program in this
repository: the parts of it that decide about money, keep durable records and
run concurrently. Paths below are relative to the root of the repository.

1. [The system](#1-the-system) - inventory of its components
2. [The modules](#2-the-modules) - how state and actions correspond to the code
3. [The runs](#3-the-runs) - what TLC checks, on which instances, and what it shows
4. [The proofs](#4-the-proofs) - what TLAPS proves, and how
5. [Abstractions and omissions](#5-abstractions-and-omissions)
6. [Plan](#6-plan)

## 1. The system

The program is a Node/Express server (`src/server.ts`, `src/api/app.ts`) with a
Postgres database, a set of periodic jobs, and a large number of read models.
One process runs one event loop; several processes can share the database. The
server keeps three kinds of state: durable records in Postgres (economic engine,
canonical receipts, purchase journal, reviewer workflow), an in-memory
intelligence store refreshed by timers, and caches.

### Components with logic worth modelling

| Component | State | Operations | What is hard | What makes it correct |
| --- | --- | --- | --- | --- |
| **Economic judgment engine** `src/services/economicJudgmentEngine.ts`, `judge.ts`, `jevWitness.ts`, `src/persistence/economicEngineStore.ts` | attempts, spend reservations, authorizations, revocations, cost entries (durable) | `decide`, `recoverAssessment`, `revoke` | five awaits between the first and the last transaction of a decision, each a point of interleaving, of a crash and of a retry; expiry sweeps done by other decisions | caps hold for all reservations together; the model is asked once per request; a capability exists only over an approved, published, reserved assessment; a revocation catches decisions under way; capacity is freed only when the capability is dead |
| **Execution gate** `src/services/economicExecutionGate.ts` | execution records (durable), the executor's rail (outside) | `execute`, `reconcile`, `revoke` | concurrent claims, timeouts with late side effects, crashes between claim and dispatch, two publishers of one receipt | one dispatch per capability; what a rail moved is covered by committed capacity; receipts equal records; one settlement proves one execution |
| **Judgment purchase** `src/services/judgmentService.ts`, `src/repositories/judgmentRequestRepository.ts`, `src/middleware/x402JudgmentMiddleware.ts` | the purchase journal (durable), the payment facilitator (outside) | `check` | a retry racing the first call; a crash or a failed save after the money was taken; whole-record overwrites of the journal | a quote is settled once; a purchase that was paid and recorded yields its receipt; a payment buys one judgment |
| **Canonical receipt spine** `src/persistence/canonicalReceiptStore.ts`, `receiptAuthorityService.ts`, `executionProofService.ts`, `evaluationService.ts`, `derivedScoreService.ts`, `economicAccountingService.ts` | append-only receipts, uniqueness indexes, the score projection | append of observations, judgments, executions, evaluations; projection | checks made before the append, uniqueness left to the database, projections read beside it | an execution proves one judgment once; evaluations rest on ancestry; the projection equals the fold of the receipts |
| **Database circuit** `src/persistence/databasePool.ts`, `postgresErrors.ts`, `retryablePostgresSchema.ts` | circuit state, failure count, probe timer, probe in flight | queries, `connect`, idle-client errors, `probeDatabaseRecovery` | late successes and failures of queries started under an older state; two ways to start a probe | single-flight probes; while open nothing but a probe reaches the database; an open circuit is probed again |
| **Store job coordinator** `src/services/storeJobCoordinator.ts` | a promise tail, per-timer guards, the closed flag | `run`, `schedule`, `close` | ticks between the settlement of a job and the microtask that resumes its drain loop; failures; shutdown | jobs are serial; ticks coalesce and are not lost; shutdown waits for what runs and starts nothing |
| **Response cache and deadlines** `src/services/responseCache.ts`, `requestDeadline.ts`, `rhChainSnapshotCache.ts` | cached value, refresh in flight | `get`, refresh, abort | staleness judged before a wait and used after it; a failed refresh shared by its waiters | single-flight; nothing older than the policy allows is answered |
| **Launch: contracts and services** `contracts/src/IPX*.sol`, `src/services/ipxGenesisService.ts`, `ipxRevenueLedger.ts` | balances, the cohort and its root, claims, contributions on chain; accepted calls and revenue receipts beside it | call/seal/claim; contribute, buy and burn; append | a handler held up beyond its window, rounding, dropped blocks under a ledger that went on | entitlements and reserves are always funded; a burn receipt has its burn |
| **Machine execution** `src/services/machineExecutionService.ts`, `machinePreflightService.ts`, `machinePolicyService.ts`, `machineMarketService.ts` | plan/preflight/execution records in memory, storage adapters | plan, preflight, dry run, execute | many guards on one record's life | an execution follows an unexpired, matching preflight |
| **RH-chain review** `src/services/rhChainReviewedClassificationService.ts`, `rhChainCrossLayerIntegrationService.ts` | reviewed classifications and their audit (durable), the cached public surface | propose, approve, reject, supersede; read | reviewers racing one another, a computation overtaken by a decision | the audit is the record's whole history; a decision is about what was seen; what was withdrawn disappears in bounded time |
| **RH-chain automation and drafts** `src/services/rhChainAutomationService.ts`, `rhChainDailyReceiptDraftService.ts`, `rhChainAttentionQualityService.ts` | job locks, runs, drafts (durable) | run, publish, reject | locks that never expire, reads and writes of a draft without a version | a job runs once at a time; a decision about a draft is not overwritten |
| **Intelligence store** `src/services/intelligenceStore.ts`, `endpointMonitorService.ts`, `src/ingestion/`, `src/persistence/postgresRepository.ts` | providers, endpoints, events in memory; checkpoints and monitor deltas (durable) | startup load, ingestion, monitor, shutdown | two ways of saving, failed and unanswered saves, other processes that save a stale store | one writer; no committed monitor run is lost; a restart changes nothing |

Not candidates: the pure read models and scorers (`hermes*`, `radar*`,
`signalGraph*`, `unicornRadar*`, `pulseService`, `preflightService`, `src/engines`),
the user interface (`src/web`, `index.html`, `public`), fixtures (`src/data`),
schemas, scripts and assets. They compute a response from their input, or lay it
out, and keep no state that outlives a request.

Stateful, but not modelled: the first campaign's services (`rh4663*`). They keep
genesis wallets, pulse calls, events, signals, editions and observations in tables of
their own; `src/services/rh4663Service.ts:362-405` gives out genesis ordinals and
replaces events under advisory locks, and saves signals without a version. Nor are the
other `rhChain*` services with tables: snapshots, each stored whole; submitted signals
(`rhChainSignalVault.ts`), project claims and their reviews
(`rhChainProjectClaimsService.ts`).

### How the components interact

An agent's request reaches `decide()` through `src/api/economicEngineRoutes.ts`.
The engine reads observations from the receipt spine, asks the model, judges,
reserves, publishes a judgment receipt through the receipt authority and issues
a signed capability. The gate takes the capability, binds it against the policy,
the revocations and the judgment receipt, claims the reservation, calls the
executor and publishes an execution receipt. Engine and gate share the
reservations; the spine is shared by everything that publishes. The purchase
service sells judgments over the same spine. All durable stores go through the
pool guarded by the database circuit. Timers and operators change the intelligence
store through the job coordinator only; another process on the same database, the
previous deploy while it drains, is outside that coordinator and meets it in the
repository's transactions. The launch services watch the chain: the ledger admits a
burn on a finalized event of the vault, and the cohort they accept is what the
distributor pays. Public reads come from caches above the reviewed records.

## 2. The modules

| Module | Models | Extends |
| --- | --- | --- |
| `EconomicEngine` | `decide`, `recoverAssessment`, `revoke`, the judge and the durable records | |
| `ExecutionGate` | `execute`, `reconcile`, the rail, composed with the engine | `EconomicEngine` |
| `SpendLedger` | abstract promise of engine and gate: hold, commit, pay, close | |
| `JudgmentPurchase` | `check()` over the purchase journal, the facilitator, the receipt authority; revenue reconciliation | |
| `JudgmentSale` | abstract promise of the sale: price, charge, deliver, book | |
| `ReceiptSpine` | execution proofs and evaluations, looked up and appended by concurrent handlers | |
| `ReceiptRegistry` | abstract promise of the spine: record once, repeat, refuse | |
| `DatabaseCircuit` | the circuit breaker around the pool, its clients, its recovery probe | |
| `StoreJobCoordinator` | the job queue, timer guards and shutdown drain | |
| `RadarStore` | the intelligence store and its persistence under that coordinator, with other processes | `StoreJobCoordinator` |
| `ReviewedClassification` | proposals and decisions about contracts, and their audit | |
| `CrossLayerReads` | the cached public surface over the reviewed records | `ReviewedClassification` |
| `IPXToken` | balances and supply, as the launch uses them | |
| `IPXGenesis` | the cohort: service, sealing, claims | `IPXToken` |
| `IPXContributions` | contribution vault and revenue ledger | `IPXToken` |
| `IPXLaunch` | the launch as a whole | `IPXGenesis`, `IPXContributions` |
| `ExecutionGateProofs` | theorems about the engine, and about engine and gate together | `ExecutionGate`, `FiniteSums` |
| `JudgmentPurchaseProofs` | theorems about the sale of judgments | `JudgmentPurchase` |
| `ReceiptSpineProofs` | theorems about the spine and its registry | `ReceiptSpine` |
| `DatabaseCircuitProofs` | theorems about the circuit | `DatabaseCircuit` |
| `RadarStoreProofs` | theorems about the job coordinator and the store | `RadarStore` |
| `CrossLayerReadsProofs` | theorems about the review workflow and its cached surface | `CrossLayerReads` |
| `IPXLaunchProofs` | theorems about the launch | `IPXLaunch`, `FiniteSums` |
| `FiniteSums` | lemmas about sums over finite sets | `TLAPS` |
| `MCEconomicEngine`, `MCExecutionGate`, `MCJudgmentPurchase`, `MCReceiptSpine`, `MCDatabaseCircuit`, `MCRadarStore`, `MCCrossLayerReads`, `MCIPXLaunch` | the instances given to TLC | the module they name |

In each module one action is what runs between two awaits: a transaction of the
economic store (one advisory lock, `economicEngineStore.ts`) is atomic, and
between two actions of a call every other call, the host, the clock and the rail
can step. An operator introduced as a *Variant* is a plausible slip in the
operator that follows it; no action uses it. The checks of the properties are
tested by putting a variant in the operator's place, which must break the property.

### StoreJobCoordinator

`tail` is the promise queue, `prev[j]` the promise job `j` was chained on, `guard` and
`pending` are the entries of the `scheduled` map and their flag. `Run`,
`ScheduleFirst`/`ScheduleCoalesced` (with and without an outstanding job), `Start`
(the callback of `tail.then`, which looks at `closed` again), `Finish`,
`DrainAgain`/`DrainDone` (the two ways on after `await this.run`), `Close` and
`CloseResolve` are the operations. `schedule()` and `close()` may fall between the
settlement of a job and the microtask of its drain loop.

### EconomicEngine

| Code | Model |
| --- | --- |
| attempt record (`status`, `envelope.expires_at`, `result`, `assessed_at`, `valid_until`) | `attempt`, `expiry`, `verdict`, `assessedAt`, `validUntil` |
| `SpendReservation` | `reservation`, `actual`; its amount, creation and expiry are `Cost`, `assessedAt`, `validUntil` |
| authorization and revocation records | `issued`, `revoked`, `disabled` |
| `inference_attempt_` cost entry | `costed` |
| published judgment receipt | `judged` |
| what a call has read so far, and whether it found or published a judgment | the record `caller[c]`, its field `judgment` |
| host policy resolver, receipt store, feature flags, clock | `policy`, `evidence`, `issuing`, `clock` |

A first `decide()` is `Decide` (transaction 1), `Observe` (observations read, cost
entry written), `Infer` (the model answered, `assessedAt` and the host policy read,
the judge applied), `Reserve` (transaction 2), `Publish` (judgment receipt
appended, issuance policy read) and one of `CompletePlain`, `CompleteReserved`
(issue, or release when issuing is no longer allowed) and `CompleteRefused` (the
reservation is gone: `reservation_invalid`). As in `resume()`, only a call whose judgment
was appended (`Appends`) looks for a reservation (`Reserving`, `Reserved`). A retry and `recoverAssessment()` enter
at `Resume`. `Abandon` is an error, a timeout or the death of the process at any
await. `RevokeAuthorization` and `RevokeProfile` are `revoke()`. `SingleAssessment` says that whoever is on its way to the
model is the only call of its request, over an attempt that is neither assessed nor costed:
the cost entry is written before the model is asked, so a call that was lost on the
way is not followed by another.

### ExecutionGate

`execution`, `submittedAt`, `outcome`, `latency` are the execution record, `receipt`
the published execution receipt, `dispatched` and `settled` what the executor was
asked and what its rail did, `gate[g]` a call in progress. `execute()` is `Execute`
(binding and record lookup), `Refresh` (second binding, observations), `ReadPolicy`,
`Submit` (the claim), `Dispatch`, `Reply`, then `verifyOutcome()` as
`VerifyFirst`/`VerifyAgain` and `finish()` as `PublishExecution` and `Finalize`.
`ExecuteAgain` and `ReconcileVerified` go straight to `finish()`; `Reconcile` and
`Query` ask the executor. `Settle` may happen at any time after dispatch, also after
the timeout. `Drop` ends a call anywhere.

### SpendLedger

The promise a reader of the code relies on: capacity is held within a limit, a
held amount is committed before anything is paid on it, only what is held can be
returned, what is paid is covered, and a committed amount is closed at what was
paid. `ExecutionGate!ImplementsLedger` is the refinement, with the mapping written
out there.

### JudgmentPurchase

| Code | Model |
| --- | --- |
| row of `judgment_requests` (`state`, `request_hash`, the frozen response, `payment_hash`, `settlement_ref`) | `journal[k]`, a record |
| published judgment receipt | `receipt[k]` |
| the call's own copy of the record, the `at` it read, its signature | `call[c]` |
| calls of `gateway.settle()`, transfers the rail made, terms answered with a 402 | `submissions`, `moved`, `offered` |
| settled revenue entry; what a `reconcile()` of the key has read | `booked`; `reconciling[k]` |
| issuer key configuration, clock | `signsFrom`, `clock` |

`check()` starts as `CheckNew`, `CheckQuoted` or `Replay` (what its first `get()`
found), then runs `Judge`, `InsertQuote` and `ReadQuote` (the two statements of
`quote()`), `Offer` or `Verify`, `Claim`, `Submit`, `SettleReply`, `SaveSettled`,
`Publish` (`appendJudgment`) and `Finish`. `Save` is the whole-record overwrite of the
journal. `Drop` ends a call anywhere: a refusal, a failed await, a timeout, the death
of the process. `RailMoves` transfers a submitted payment at any later time, also when
nobody waits for it any more. `reconcile()` is `Reconcile` (the judgment is read),
`MatchJournal` (the journal agrees with it), `Book` (the transfer is final and the entry
appended) or `DropReconcile`; calls go on between them.

`JudgmentSale` is what is left of it to a buyer: a key is priced, the price told, the
key charged once with a payment of its own, the judgment delivered at that price against
a transfer that paid for nothing else, revenue booked for it. A claim, a save or a retry
is no step of it. `ImplementsSale` is the refinement.

### DatabaseCircuit

`state`, `failures`, `due` are the circuit; `timer`, `inFlight` the module globals
`recoveryProbeTimer` and `recoveryProbeInFlight`; `follow` says that the timer's
callback awaits the probe in flight; `op[o]` is one operation with the client it
holds and that client's `CheckedOutClientState`; `idle` counts the pool's clients.
`Begin`, `CheckOut`, `Connected`, `ConnectedInVain`, `QueryHeld`, the ends of a query
(`QuerySucceeds`, `QueryRejected`, `QueryTimesOut`, `QueryBreaks`), `ClientError`,
`Release` and `IdleClientError` are the instrumented pool; `AskedProbe`,
`TimerProbes`, `TimerJoins`, `TimerIdles` the probe and its timer; `Outage`,
`Overload`, `Restored` the database.

### ReceiptSpine and ReceiptRegistry

`executions` and `evaluations` are the two tables, `calls[c]` a handler with the
receipt it has sealed and the error its append met. `submit()` and `evaluate()` are
`Begin`, `Lookup`, `Verify` or `ReadParent`, then the append as one of `Insert` (with
or without its acknowledgement), `Collide` (the id exists), `Violate` (another unique
constraint does) and `Disconnect`, and `Reread`, what a handler does about an error:
the two services differ there, and `Refusing` and `Rereads` say how. `answered` and
`refused` remember what clients were told, which is what the abstract
`ReceiptRegistry` is about: nothing is ever answered but the recorded receipt, and a
refusal has a recorded rival as its reason.

### RadarStore

| Code | Model |
| --- | --- |
| latest row of `intelligence_snapshots` | `checkpoint` |
| rows of `monitor_runs` with a delta, those that touch the endpoint, those tagged with that row | `deltas`, `touching`, `tagged` |
| the store object of each process | `memory` |
| a job's (or another process's) progress | `stage`, `drawn` |

A snapshot is abstracted to the runs it holds, the ingestion its catalog comes from
and the mark on one endpoint, the stamp of whatever set its status last. `Restore`,
`FirstCatalog` and `NothingNew` are the startup load, `Ingest` and `Observe` change
the store in memory as `runPayShIngestionWithOptions()` and `runEndpointMonitor()` do,
with the stamp they drew when they began,
`SnapshotSaved` folds pending deltas in, inserts, retags and gives the merge back to
the caller, `SnapshotUnanswered` is the same without an answer, `DeltaSaved` appends
a delta, `SaveFails` rolls back and leaves the store as it is. `Work` runs these in
the jobs of the coordinator, `PeerWork` in another process, outside of it.

### ReviewedClassification and CrossLayerReads

`record`, `audit` are the tables, `view[r]` what a reviewer last read and the proposal
in flight: `propose()` reads (`Propose`) and writes in a later transaction (`Create`,
`Replace`), guarded by the version the request names, not the one it read. `Decide` is
the transaction of `approve`, `reject` and `supersede`. Above it `cached` is the
surface's cache and `Miss`, `Read`, `Fill` one computation, `Hit` an answer from the
cache; concurrent computations fill it in any order.

The version comparison and the audit table's unique `(contract, version)` protect each
other: without the comparison a stale decision about an unchanged record still fails
on the audit. The memory store of the tests has only the first of the two.

### IPXToken, IPXGenesis, IPXContributions, IPXLaunch

`balance` and `supply` are the token. `admission`, `cohort` are the calls in flight and
accepted (`Build`, `Recheck`, `Admit`: the payload is rebuilt before and under the
advisory lock, and the clock read once more for the receipt), `cohortRoot`, `claimed` the
distributor (`Seal`, `Claim`). `Promised` is the service's `entitlement()`, which makes
receipts and leaves, `Entitlement` the contract's, which makes the leaf a claim has to
prove; neither calls the other. `usdg`,
`reserved`, `contributions`, `event` are the vault (`Fund`, `RecordContribution`,
`BuyAndBurn`, and `Finalize` or `Reorganize` for the block), to which the accountant
names any gross amount and costs, `stage`, `accounted`,
`proven` the ledger's chain of receipts (`Revenue`, `Account`, `Burn`). A reverted call
is no step. `IPXLaunch` interleaves the two halves over one token.

## 3. The runs

Bounds are set in the `.cfg` files; the state counts are what TLC reports.

| Run | Instance | Shows |
| --- | --- | --- |
| `decisions` | three requests of one principal (costs 1, 1, 2, budget 2), two callers, clock 0..2, issuing may stop; 3.8 M states | `LimitsRespected`, `SingleAssessment` under racing, retried, abandoned calls |
| `authority` | two requests retried for ever, two policy revisions, one caller, revocation, disabled profile, changed policy, superseded evidence; 0.13 M states | `AuthorizationGrounded`, `CapacityFollowsAuthority`; `AssessedSettles` (liveness) |
| `gate` | one request, two gate calls, revocation and superseded evidence, reconciled for ever; 0.1 M states | `DispatchedOnce`, `EffectCovered`, `ReceiptMatchesRecord`, `NegativeEvidenceWins`; `SettlementAccounted` (liveness) |
| `spending` | three requests (costs 1, 1, 2, budget 2), two gate calls, one settlement reference; 3.3 M states | `RealSpendWithinBudget`, `SettlementUnique`; `ImplementsLedger`, the refinement of `SpendLedger` |
| `purchases` | two keys, three payments of which two share a transfer, two interchangeable calls, a reconciliation of each key; 2.5 M states | `SettledOnce`, `MoneyTraced`, `RevenueIsEarned`; `ImplementsSale`, the refinement of `JudgmentSale` |
| `quotes` | one key, two conflicting requests, two payments, two calls, quotes that last one or two instants, key rotation, retries for ever; 0.9 M states | `OfferHonoured`, `ReceiptIsPaid`, `JournalMovesForward`; `RecordedIsDelivered` (liveness) |
| `spine` | three proofs and three evaluations that share keys, judgments, settlements and subjects in pairs, two handlers, lost acknowledgements; 0.9 M states | `ProvedOnce`, `EvaluatedOnce`; `ImplementsRegistry`, the refinement of `ReceiptRegistry` |
| `circuit` | two operations, two would-be probes, three failures open the circuit, one probe may be asked for; 0.2 M states | `LossCountedOnce`, `RecoverySupervised`, `FailsFast`; `RecoversByTimer` (liveness) |
| `unattended_doc` | one operation, one probe asked for by startup or `/health` | `RecoversUnattended` is violated (see Findings) |
| `radar` | two timers, manual jobs, three jobs and three ingestions or monitor runs, one other process; 0.6 M states | `OneWriter`, `NoRunLost`, `RestartEquivalent`; `TickServed`, `CloseDrains` (liveness) |
| `classification` | one contract of two possible layers beside a curated one, two reviewers, four versions, two requests, a time to live of two instants; 1.9 M states | `AuditTellsAll`, `ApprovedAsSeen`, `StalenessBounded` |
| `launch` | a cohort of two among three wallets with a remainder in the allocation, two windows, two admissions in flight, two revenues, of which less may be named to the vault, at a loss; 3.3 M states | `CohortSound`, `EntitlementsFunded`, `ReservesBacked`, `BurnsAreReal` |

Conjunctions are properties where the parts only mean something together:
`LimitsRespected` is budget and velocity, `CapacityFollowsAuthority` that capacity is
freed only with the authority it backs and a revoked authority holds none, `OneWriter`
that jobs are serial and none is left when `close()` resolved, `RecoverySupervised`
that probes are single-flight and an open circuit is probed again.

In `spending` the two cheap executions are in flight together and the rail may give both
the one settlement reference; the dear one is refused beside either.

Why these bounds are enough to meet the hazards: two calls suffice for every race in
the code, as no operation looks at more than its own copy and the store; a third
request lets an expiry sweep, a held reservation and a new one meet. A clock of three
instants separates *before*, *at* and *after* a deadline, which is what the
comparisons of the code can tell apart; the purchase needs *valid* and *expired*. In
`radar` a load, a job that changes the store and one queued behind it meet another
process that holds an older store; three stamps let a monitor run come before, between
and after two other changes. In `spine` every pair of rivals the unique constraints
know exists once. A computation that spans two instants can be overtaken by the expiry
of what it is about to replace, which is what `classification` needs. The cohort of
`launch` has a first call, a last one that takes the remainder, and a wallet too many; a
call can be held up into the next window, or past the end of the campaign.
The failure bound of the circuit is the threshold itself. Deadlock is not checked,
except in `spine`: the clocks, the counts of jobs, of versions and of probes are bounded,
and a system whose calls have all ended may stop.

Fairness. Where liveness is checked calls end (weak fairness of the steps that end
them): timeouts (`bounded`, the facilitator's client, the connection timeout) or the
death of the process end every await. Retries are given strong fairness where a property
is about retrying for ever, never as a fact about the code: an agent asks again, an
operator calls recover-assessment or reconcile. In `radar` the event loop runs ready
callbacks and jobs end, as their fetches and transactions carry timeouts; nothing makes
a timer fire, a peer save or an operator close. The probe's timer fires. No fairness is
given to ordinary traffic, to `/health`, to the host, or to the rail.

### Findings

**An open circuit without a timer** (`unattended_doc`). A probe started by startup
or `/health` whose failure opens the circuit leaves no timer behind, as
`scheduleRecoveryProbe` returns while a probe is in flight; against
`docs/reviews/visitor-qualification-2026-11-03.md:40`.

Three places where a document says more than the code does have no run of their own; the properties are stated with the exception the code makes:

- `resume()` refuses an attempt whose reservation is not `reserved`; the sweep of
  another decision may release it while the attempt is assessed, and it can never
  complete. `docs/economic-engine-implementation.md:33` promises recovery without a
  condition; `AssessedSettles` has it.
- `submitted_at` may reach the end of the judgment's window; the receipt authority then
  refuses the receipt for ever, against `docs/economic-engine-implementation.md:85`;
  `SettlementAccounted` has the exception.
- An execution proof that reuses an id another handler took after the lookup gets the
  error of the append (`executionProofService.ts:70`), which `app.ts` 4545-4548 answers
  with 503, against `docs/phase3-execution-proof.md:54` ("Conflicting reuse returns
  409."). A repeated request gets its 409; `ReceiptSpine!Reread` goes to `unavailable`.

## 4. The proofs

Every invariant, every action property and every refinement of the passing runs is also
a theorem: TLC shows it on a small instance, the proof for all values of the constants
that satisfy the modules' named assumptions: any number of requests, callers, gates,
handlers, timers, processes, reviewers, contracts, any costs, budgets, windows. The
assumptions say that parameters have their types, that the markers for *nothing* are
values of their own, and these few facts:

- `EngineAssumption`: the requests are finitely many, so that what a principal holds has
  a sum. `ContributionAssumption` says it of revenues, `CircuitAssumption` of operations.
- `RadarAssumption`: the timers are the two of `server.ts`, and at most a hundred changes
  are stamped, which is how many monitor runs the store keeps.
- `TokenAssumption`, `GenesisAssumption`, `ContributionAssumption`: the contracts have
  addresses of their own, the limit and the scale are positive, the allocation is at
  least one unit per wallet, a purchase buys something.
- `SpineAssumption`: an execution proof is not an evaluation request. `ReadAssumption`: the
  time to live is positive and the clock reaches it.

A property is seldom inductive. What had to be added to it is the content of each proof;
TLC checked every invariant below on the run of its module before it was proved.

**RadarStoreProofs, the coordinator.** `QueueInv`: the promises form one chain in the order of
the jobs (`QueueOrder`), so that a started job has every earlier one behind it
(`StartedInOrder`); a timer without a guard has no outstanding job (`GuardsHold`);
`close()` captured the last promise (`ClosedTail`). `SerialJobs` alone says nothing about
which of two queued jobs may start. `RoomKept` says that every pending round still fits
under the bound of jobs. Theorems: `CoordinatorTypeCorrect`, `JobsAreSerial`,
`TimersCoalesce`, `ShutdownIsQuiet`, and `WriterIsSingle` for `OneWriter`.

**RadarStoreProofs, the store.** Every step of the store is one of the coordinator or
leaves it alone (`StepsAreJobs`), so `RadarSpec` implements the coordinator's specification
(`StoreRunsUnderCoordinator`) and inherits `OneWriter` (`StoreHasOneWriter`). `NoRunIsLost`
rests on `DeltaInv`: every delta is tagged with the latest checkpoint, because a
snapshot retags what it folds in under the lock a delta is appended under; the runs
that touch the endpoint have a newest one; a store with a catalog has a mark.
`NoRunLost` alone does not say that the deltas behind a stale snapshot are still going to
be replayed. It is here that other processes matter: their memory is arbitrary, and the
proof never looks at it. `RestartChangesNothing` rests on `SyncInv`: only the active job
is in the middle of anything (`StagesActive`), stamps are drawn in order (`StampsPast`),
and what the store in memory is ahead of the database is exactly what the job under
way has drawn and not saved (`InSync`). `RestartEquivalent` alone is not inductive, as
it says nothing in the middle of a job, which is where everything happens.

**ExecutionGateProofs, the engine.** `EngineInv` adds to the types that a call in progress
has a request (`CallsHaveRequest`), that at most one call may still ask the model for a
request (`OneAssessor`), that what a call believes about its records is true, its
request not costed before it has written the cost included (`CallsGrounded`), that only
requests of attempts are costed, and that a reservation that is held belongs to an
assessed, approved attempt (`HeldGrounded`). `RevocationInv` adds that calls carry times of the
past (`CallsPast`). Theorems: `EngineTypeCorrect`, `AuthorizationsAreGrounded`,
`AssessedOnce`, `RevocationHolds`, `ReleaseIsSafe`, and `CapacityFollows` for
`CapacityFollowsAuthority`.

`LimitsAreRespected` proves the caps, principal by principal (`BudgetHolds`) and
reservation by reservation (`VelocityHolds`). A step other than `Reserve` adds nothing to what is held
and gives none of it a later time; `Reserve` adds one request to what its own transaction
has summed and swept. A reservation that was assessed later may already be there when a slow
call reserves; it is counted with the others, so every window the new one falls into
held less than the cap. `LimitsHoldThroughout` says the same of
engine and gate together.

**ExecutionGateProofs, the gate.** `GateInv` is `EngineInv` and `RecordsInv`: execution
record and reservation move together (`RecordFollowsReservation`), what was dispatched was
claimed and what settled was dispatched (`DispatchGrounded`), a verified outcome is
what the rail settled (`OutcomeGrounded`), calls in progress are right about their
record (`GatesGrounded`), and only one call is about to dispatch (`OneDispatcher`). The
engine's steps are covered by the engine's lemmas and one lemma that they leave
claimed reservations alone (`EngineKeepsSubmitted`). Theorems: `GateTypeCorrect`,
`DispatchIsSingle`, `EffectsAreCovered`, `SettlementsAreUnique`, `ReceiptsMatchRecords`,
and `SupersededNeverSubmits`, whose invariant is the state *doomed*: superseded and
not past the refresh. `RealSpendStaysInBudget` compares two sums request by request: what a
rail moved is covered by what is held. `EngineIsLedger` is the refinement of `SpendLedger`:
a reservation state maps to none, held or committed, a settled charge to what was
paid; one step of the engine may release several reservations at once, which the
ledger allows.

**JudgmentPurchaseProofs.** `PurchaseInv` has a part about the tables (`TablesSound`: the
payment and settlement of a record in each state, the unique columns, what was
submitted, moved, offered, what a reconciliation found and booked, which stays true while
calls go on) and one about the copies calls hold (`CallsSound`), phase by
phase: until the claim a copy is worth something only while the record is still
quoted (`QuoteOf`); from the claim on one call alone has it (`Holding`, `OneClaimer`); a copy of a
paid record differs from it in the last state only (`PaidCopy`). That a copy just
read is the record is false: between `quote()`'s two statements another call may have
claimed and even settled it. Theorems: `PurchaseTypes`, `NothingIsChargedTwice`, `TransferBuysOne`,
`MoneyLeavesTraces`, `RevenueStaysEarned`, `ReceiptsArePaid`, `OffersAreHonoured`,
`SavesMoveForward`, and `PurchaseIsSale`, the refinement of `JudgmentSale`.

**ReceiptSpineProofs.** `SpineInv`: what a table holds is held under its key and satisfies the unique
constraints (`TablesInv`); a handler's sealed receipt is the one its request seals
(`Sealed`), and what it met on its way, a lookup, a parent, an error, has its reason in
the tables for ever (`Founded`), because nothing is ever removed from them. Theorems:
`TypesHold`, `JudgmentsProvedOnce`, `ExecutionsEvaluatedOnce`, the refinement `SpineIsRegistry`, and
`AnswersAgree`, which proves the registry's own consistency and carries it over to the
spine by that refinement.

**DatabaseCircuitProofs.** `CircuitInv`: no more clients than operations (`PoolFits`), a
lost connection was counted when the process learned of it, and once (`LossKnown`), a
probe at work is the one in flight (`ProbesSingle`), and an open circuit has its timer or
its probe unless somebody has asked for one (`OpenIsScheduled`). Theorems: `CircuitTypes`,
`LossIsOneFailure`, `RecoveryIsSupervised`. `TrafficFailsFast` needs only that no more
than two steps send a statement and both ask the circuit first.

**CrossLayerReadsProofs.** `ReviewInv`: the audit has one event per version of a record, chained
(`AuditInv`); what a reviewer has seen under a version is what that version was
(`ViewsGrounded`): a version is a name for the content, which is why comparing versions
is enough. `CrossInv` adds that whatever a computation has read (`RequestGrounded`) or the
cache holds (`CacheGrounded`) was approved when that computation came, or was
withdrawn since. Theorems: `SurfaceTypes`, `AuditIsComplete`, `ApprovalIsInformed`, `WithdrawalIsSeen`.

**IPXLaunchProofs.** `GenesisInv`: a payload is what its caller signed (`AdmissionsBuilt`), the
cohort's ordinals are distinct and gapless (`CohortInv`), the root is the complete cohort and only
its leaves are claimed (`RootInv`); what is still to be claimed sums to at most what the
distributor has (`EntitlementsCovered`). That the contract takes every leaf not yet claimed
follows from all of these and from the two entitlements being one function
(`CoveredIsFunded`). `ContributionInv`: an event is an executed contribution's (`EventsExecuted`), a
purchase receipt has a final event (`Purchased`), and the supply is short by what the
events burned (`SupplyBurned`). Theorems: `LaunchTypes`, `CohortIsSound`,
`EntitlementsStayFunded`, `ReservesStayBacked`, `BurnsStayReal`.

**FiniteSums.** The sums of the models are folds. That the fold exists and is unique, that a
point can be taken out of it and that it is monotone are properties of all finite
sets, and induction is not available to these provers as a rule; the lemmas are proved from
a counterexample of least cardinality instead.

Only model-checked: liveness under fairness (`AssessedSettles`, `SettlementAccounted`,
`RecordedIsDelivered`, `RecoversByTimer`, `TickServed`, `CloseDrains`), which needs ENABLED
and is out of the prover's reach. Not proved either: that a refinement's abstract module has its
properties, except for `ReceiptRegistry`; for the others the concrete theorems say as much.

## 5. Abstractions and omissions

- **Engine and gate.** One asset per principal. Shadow mode, `deterministicSelect` and
  the static policy gates are left out or folded into the verdict; `DEGRADE` is
  treated as `ALLOW`. `issuing` stands for the flag, the issuer and a configured
  executor together. The envelope's expiry is computed at the time of the first
  transaction. `Infer` reads clock and policy in one step, `Publish` appends the receipt
  and reads the policy, `Execute` does the binding and the record lookup. Between the
  claim and its `submitted_at` the clock can pass. Key rotation is modelled in
  `JudgmentPurchase` only. Which host events happen is a constant of the instance:
  evidence is superseded in `authority` and `gate`, issuing stops in `decisions`.
- **Purchase.** The judge of the evidence is a choice of decision and validity; free
  answers end the call. The revenue table's own constraint on network and transaction
  is left out: `reconcile()` never comes to violate it (`TransferBuysOne`). Revocation of keys, changes of the threshold and of the asset
  between quote and receipt are left out, as are 409 answers, which change nothing. The
  facilitator is trusted when it reports success, and `moved` stands for finality on
  chain. `Reconcile` reads the judgment and its authority, `Book` asks the chain and appends,
  each in one step: receipts and finality do not go back. `docs/signed-judgment-permission.md` has keys drained before they are
  replaced; `RecordedIsDelivered` is stated with that escape. The memory journal is an
  instance of the same steps with `quote()` in one.
- **Spine.** Signatures, hashes and the finality of a transfer are those of a valid
  request: what is refused before the append is `GiveUp`. Observations and judgments
  have one author each and are appended by engine, gate and purchase. The score is a
  fold of the evaluations computed for every answer; nothing stores it.
- **Circuit.** Shutdown and the end of the pool, test hooks, memory mode and the
  length of the backoff are left out; time is *the delay passes* and *the timer
  fires*. A lost connection is seen by an event, a query, or both; failures without a
  loss happen while the database is overloaded.
- **Store.** One endpoint stands for all of them; events, pages and the limit of a
  hundred runs are left out, the last by the assumption that no more happen. Left out
  too: the guard against fixture data (`intelligenceStore.ts:102`) and the second attempt
  of the live bootstrap. Another process loads and saves at any time, at most one
  change at a time. A monitor run or an ingestion is one step on the store of its own
  process, stamped when it begins, and a step of its save: the jobs of a process are
  serial and its peers have stores of their own, so nothing the properties look at sees
  the awaits in between. Replay follows `started_at`, so where two processes monitor at
  once the endpoint shows the run that started last, which need not be the one that
  looked last; `NoRunLost` says no more.
- **Review.** The three undecided states are one. Curated records are a constant. The
  cache is the one of one process; every other process has its own and the same bound.
- **Launch.** `IPXGenesisCertificate` and the pulse commitment record a hash and change
  nothing else here. A tick of the clock opens the next window. `ipxGenesisService.ts:54-55`
  reads the clock to compare the window and again for `accepted_at`, which may therefore
  lie just after its window, or the campaign, has closed; `CohortSound` allows that one turn. The venue takes exactly
  the budget or reverts; a final block stays final. Identity mapping, the Solana index
  and the engine's summaries are left out.
- **Everywhere.** A transaction is atomic (the stores take an advisory lock or lock the
  row), one action is what runs between two awaits, hashes are injective, records parse.

Not modelled: the response cache (its mechanism is local to one function), machine
execution, the automation's job lock and the drafts of daily receipts, the attention
review, the first campaign's genesis calls and signals (`rh4663*`), submitted signals and
project claims, schema readiness, precedents and costs. Section 6 orders them. The read models
and surfaces listed below the table of section 1, most of the repository's lines, are
left out for good: they compute or lay out one response and have no protocol.

## 6. Plan

1. The automation's job lock, which never expires, with the lost answer of an
   acquisition or a release, and beside it the drafts of daily receipts, whose
   publication and rejection read and write without a version.
2. `ResponseCache`: single flight, staleness bounds, failed refreshes; then
   `MachineExecution`, the life of a preflight and of an execution record.
3. The first campaign (`rh4663Service.ts`): ordinals and calls under one lock, signals
   saved without a version.
4. Consistency of `SpendLedger` and `JudgmentSale` as theorems of their own, carried to
   the implementations as `AnswersAgree` is.
