# Verification of the trading core

TLA+ models of the parts of this repository that keep state while things run
concurrently, fail, restart or arrive twice: orders and the feeds behind them,
containment and recovery, approvals, recurring reports, and a candidate's way
from validation to live monitoring; TLC runs of small instances; and TLAPS
proofs for all instances. Paths are relative to the repository root; `EE` stands
for `services/execution-engine/src`, `GS` for `services/governance-service/src`,
`RG` for `services/research-gateway/src`.

## 1. Inventory

| Component | State it keeps | Operations | Interacts with |
|---|---|---|---|
| Order lifecycle, `EE/orders/mod.rs` over `crates/persistence/src/postgres/orders.rs`, `crates/domain/src/order.rs` | tables `orders` (one row per order) and `order_state_transitions` (history) | submit, cancel, batch cancel, cancel-all, apply user-stream event, hydrate, replay | reads the emergency mode; asks the risk engine's decision; called by the user stream |
| User stream, `EE/ingestion/user_stream.rs` over `.../postgres/user_stream.rs` | tables `user_stream_events`, `order_event_offsets` (a cursor per partition, and a row for the authentication state and the block on new intents); memory of the loop | connect, authenticate, subscribe, process a message, lose a stream, restart | venue channel; order lifecycle port; freshness signals; risk gate reads the block |
| Market stream, `EE/ingestion/mod.rs` | tables `market_ticks`, `market_stream_health` and a quarantine; memory of the loop (`IngestionRuntimeState`: last update, backlog, signature of the last health row) | connect, accept or quarantine a book, write a health row, lose the stream | venue channel; tells the freshness gate; runs in one process with it and with the user stream |
| Freshness gate, `EE/ingestion/freshness_gate.rs`, `crates/domain/src/risk.rs` | last update times of both streams (memory); gate state (memory) and table `freshness_gate_events` | record update, evaluate, persist, hydrate | both streams; recovery and risk engine read its table |
| Reconciliation, `EE/reconciliation` | exposure snapshots and evidence | compare venue and internal truth | order tables |
| Risk engine, `services/risk-engine` | a runtime state built once per start; gate decisions and safe-state signals | hydrate from each source, evaluate the pre-trade gates | tables of freshness, safety controls, recovery runs, limits, policies, health |
| Safety controls, `GS/safety_controls` | append-only table `safety_control_actions`; the latest effective one is the mode | pause, reduce-only, cancel-all, automatic triggers, current mode | control API; order lifecycle and risk engine read the mode |
| Recovery, `GS/recovery` | tables `recovery_gate_runs`, `restore_rehearsal_runs` | evaluate readiness, rehearse a restore, resume | reads freshness, reconciliation and limits; risk engine reads its runs |
| Approvals, `GS/approvals` | requests and votes | submit, vote, evaluate for execution | control API; profile changes |
| Governance profiles, RBAC, credentials, audit | versioned profiles, roles, audit log | create, activate, rotate, append | approvals; control API |
| Control API, operator BFF and console (`apps`) | none of their own | transport, authorisation, rendering | every service |
| Portfolio engine | recommendations and attributions | pure evaluations | read models |
| Reporting service, `services/reporting-service/src/exports/scheduling.rs` | tables `report_schedules`, `report_runs`, `export_jobs`, incident alerts | ticks of the reporting service: run, alert, export, move on; calls of the control API: create, pause, resume | two processes, each with a lock of its own, both writing back whole rows |
| Research gateway, `RG/validation`, `RG/promotion` | tables of validation runs and stages, shadow evaluations, replays, promotion decisions, health metrics and breaches, lifecycle actions | one request per table, in several statements | services in the control API, a lock each; the decision service has a replay service of its own; every service reads the tables of those before it |
| Other read models and registries (`reporting-service`, `research-gateway`) | dashboards, report views, research records | single reads and inserts | outside the trading path |

What is hard:

* *Concurrency.* Sessions of the order lifecycle run one transaction per command
  at READ COMMITTED, with one row lock and several statements; the emergency mode
  and the risk decision are read before it.
* *Failure.* Any statement may fail, the reply to a commit may be lost, a process
  may die between two transactions that belong together (store an event, apply
  it), and the engine ends whenever one of its loops ends.
* *Ordering.* The venue repeats, delays and reorders messages; their only order
  is a millisecond timestamp, with a lexical tie-break.
* *Time.* Reconnect limits, freshness thresholds, expiries, grace periods and
  validity of decisions.
* *Staleness.* Rows read before an await and written back whole after it
  (resumes, schedules), and evidence read from tables that others write.

What makes each part correct: an order's row always summarises its history, its
history is a run of the state machine of `order.rs` (which repeats `pending` and
`live`, as the operations guide does not), a key is applied once, terminal orders
rest, replies are true (order lifecycle); events are stored and handed over once
and in order, and a lost stream blocks intents until it has delivered again
(user stream); the gate opens only after a stable window (freshness); the mode in
force is the last one set, and resuming needs a fresh, approved run (safety
controls, recovery); a request is decided once, never by its proposer, and
executed only while approved (approvals); a window of a schedule is decided
once, exported and alerted as its decision says, left alone once passed, and a run
tells the time truly (reports); what a decision, a metric or
a lifecycle action rests on is on record, for the same candidate (research).

## 2. Modules

| Module | Models |
|---|---|
| `OrderStates` | the state machine of `order.rs`: states, terminal states, `validate_order_transition`, the state a venue status stands for |
| `OrderLedger` | abstract: what the order subsystem promises, an append-only history per order whose moves `order.rs` allows |
| `OrderLifecycle` | the runtime and its transactions, several sessions |
| `OrderLifecycleProofs` | theorems about it |
| `MCOrderLifecycle` | its instance for TLC, in two parts |
| `UserMessages` | what the user channel says and what is kept of it: the constants and record types of the next two |
| `UserStream` | the user stream loop, its tables and its hand-over to the lifecycle |
| `UserStreamProofs` | theorems about it |
| `MCUserStream` | its instance for the two runs that expect a violation |
| `ExecutionEngine` | the user stream's loop on top of the order lifecycle it calls: the composition of both |
| `ExecutionEngineProofs` | theorems about it |
| `MCExecutionEngine` | its instance for TLC: the two parts of `MCOrderLifecycle`, the composition, and the user stream alone |
| `ApprovalCalls` | what the approval service is asked and the rows it keeps: the constants and record types of the next two |
| `Approvals` | requests, votes and the execution gate under the process lock |
| `DualControl` | abstract: what the approval service promises, each vote and each decision a single step |
| `ApprovalsProofs` | theorems about `Approvals` |
| `FreshnessGate` | the gate's loop, its memory and its table; used by `MarketFeeds` and as the specification that `MarketFeeds` is shown to respect |
| `PauseRecord` | abstract: what the gate's table promises, the rows of a gate that never stopped |
| `MarketFeeds` | the market stream in one process with the gate it feeds |
| `MarketFeedsProofs` | theorems about `FreshnessGate` and `MarketFeeds` |
| `MCMarketFeeds` | their instance for TLC |
| `SafetyControls` | containment commands and the mode in force |
| `Recovery` | readiness runs, rehearsals and resumes, over the controls |
| `RecoveryRecord` | abstract: what recovery promises the readers of its tables, each evaluation, resume and rehearsal a single step |
| `RiskEngine` | the risk engine's start and its decision, over both: the composition |
| `RiskEngineProofs` | theorems about the three |
| `MCRiskEngine` | their instance for TLC, in four parts |
| `MCGovernance` | the instance of `MCRiskEngine` with two parts more, about `Approvals` |
| `ReportSchedule` | recurring reports: scheduler and control API |
| `ReportWindows` | abstract: what readers are promised of each window of a schedule |
| `ReportScheduleProofs` | theorems about `ReportSchedule` |
| `MCReportSchedule` | its instance for TLC |
| `AlphaPipeline` | six research services from validation to lifecycle actions |
| `AlphaPipelineProofs` | theorems about it |
| `MCAlphaPipeline` | its instance for TLC |

The abstract modules and what implements them:

| Abstract | Implemented by | Property |
|---|---|---|
| `OrderLedger` | `OrderLifecycle` | `LedgerSpec` |
| `UserStream` | `ExecutionEngine` | `LifecycleLooksAtomic` |
| `OrderLifecycle` | `ExecutionEngine` | theorem `EngineImplementsLifecycle` |
| `DualControl` | `Approvals` | `CallsLookAtomic` |
| `RecoveryRecord` | `Recovery`, within `RiskEngine` | `RecoveryLooksAtomic` |
| `PauseRecord` | `FreshnessGate` | `CrashesLeaveNoTrace` |
| `FreshnessGate` | `MarketFeeds` | `FeedsTheGate` |
| `ReportWindows` | `ReportSchedule` | `EachWindowIsDecidedOnce` |

Every MC module but `MCUserStream` adds a variable (`part` or `alone`) that splits
the instance into parts, each leaving out what another looks at; the parts are
named with the runs.

### OrderLifecycle

`orders` and `transitions` are the two tables; the transactions' uncommitted
writes are kept out of them until `Commit`. For each session: `pc` (which
statement comes next), `call` and `queue` (the call it serves and the commands
left, more than one in a batch), `seen` (the row the transaction read FOR UPDATE)
and `answers` (what the caller has been told). `safetyMode` is the effective
emergency mode, which the governance service may change at any time.

| Code | Action |
|---|---|
| `submit_order`, the mode check | `Submit`, guard `Admits` |
| the adjudication, its timeout and its consistency checks | `AdjudicationAllows`, `AdjudicationDenies` |
| `cancel_order`, `batch_cancel`, `cancel_all_orders` | `Cancel`, `CommandsOf`, `KeyOf`, `BlankOrderEndsCall`, `BatchOutcome` |
| `apply_user_stream_event`, with its unlocked read of the mode | `ApplyVenueEvent` |
| `validate_transition_command` | `RefuseBlankKey` |
| `SELECT ... FOR UPDATE` | `LockOrder`, `Holds` |
| `SELECT` by idempotency key, and the branches after it | `AnswerDuplicate`, `RefuseDuplicateOfMissing`, `AnswerTerminal`, `AnswerRejected`, `RefuseProjection`, `AcceptTransition` |
| the writes | `WriteOrder`, `LosesInsertRace`, `NextRow`, `NextTransition` |
| the commit | `Commit`, `CommitReplyLost` |
| `classify_query_error`, process death | `StatementFails`, `Crash` |

PostgreSQL is modelled as READ COMMITTED gives it: a statement sees what is
committed when it starts; FOR UPDATE waits for the row's owner and locks nothing
when there is no row; the INSERT of an order waits for an uncommitted INSERT of
the same primary key and fails once that is committed. The INSERTs and the
UPDATE of one transaction are one step, `WriteOrder`: nobody sees any of them
before the commit, and the row lock or the primary key taken by the first keeps
the others from waiting.

Abstracted: reason codes, correlation ids, messages, telemetry, the size of an
order (it only enters the adjudication, whose result is any decision), and the
characters of keys: `Fold` is trimming and lower-casing, a generated key is a
tuple of its kind and its parts. A caller that spells out a generated key, such
as `cancel::o1`, is not represented. Replaying and hydrating orders are reads.
The read of an order before a transaction that only fills `from_state` of the
reply is left out. The moves are those `can_transition_to` allows: besides what the
operations guide lists, an order may move from `pending` to `pending` and from `live`
to `live`, and each such move is an entry of its history. `TablesConsistent` and
`LedgerSpec` speak of the moves of the code; `FollowsTheGuardrails`, the guide's, is
violated. Nothing in the repository calls `submit_order`, `cancel_order`
or the batches in production yet (`EE/main.rs` wires the venue events only);
they are modelled as the public operations they are.

### UserStream

`events`, `cursor` and `auth` are the two tables, `auth` being the row of the
authentication partition; `lifecycle` is the state of each order. `pc` is where
the loop is, `memory` its `block_new_intents` and `recovery_pending_first_event`,
`attempts` its reconnect count, `current` the message at hand. `handed` and
`fresh` are history variables: the events given to the order lifecycle, and
whether an event was stored since the block was last set.

| Code | Action |
|---|---|
| `run_polymarket_user_ws_ingestion`: hydrate, client, authenticate, subscribe | `Start`, `Connect`, `Authenticate`, `Subscribe` |
| the nine places that persist `auth_expired` and count a reconnect | `LoseStream` |
| `process_order_message`, `process_trade_message` | `Receive` |
| `persist_user_stream_event`, `evaluate_user_stream_ordering` | `StoreEvent`, `IgnoreMessage`, `CollidingEventHalts`, `Ordering` |
| the order lifecycle port | `ApplyToOrder`; `ApplyReplyLost` when the order moved and the call fails all the same |
| clearing the block | `ClearBlock` |
| every `?` of the loop, the panic in `main.rs`, a kill | `Halt` |
| other users of the order lifecycle | `OrderCommand` |

A transaction of this loop is one step, since no other process writes its
tables; a commit whose reply is lost is that step followed by `Halt`, which is
what the loop does with the error. The order lifecycle is reduced to the outcome
of one call; its errors are `Halt`, or `ApplyReplyLost`. That the order lifecycle
really looks so to the loop is what `ExecutionEngine` shows. Abstracted:
the offset of the authentication partition (one engine increments it by one, so
its trigger never fires), latencies, telemetry, the freshness signal, and the
copies of the authentication state in the cursor rows, which nothing reads.

### ExecutionEngine

`EE/main.rs` attaches the order lifecycle to the user stream's runtime as its
port. The module takes every variable of `OrderLifecycle`, those of `UserStream`
(its `pc` is `loop` here), and lets one session, `Stream`, serve the loop: while
`loop` is "apply", the call of the port runs there, statement by statement, beside
the sessions of other callers. `lifecycle` is what the loop could read in the
order rows.

| Code | Action |
|---|---|
| everything the loop does between two calls of the port | `LoopStep`, made of the actions of `UserStream` |
| `apply_user_stream_event` is called and runs | `CallLifecycle`, `Statement`; `VenueRequest` |
| it returns an outcome, a rejection included | `CallReturns` |
| it returns an error, which ends the loop and the process | `CallFails` |
| its commit takes effect and it returns an error | `CallReplyLost` |
| the process dies with the call under way | `EngineCrash` |
| calls of everybody else | `OtherSession` |

The venue's keys are assumed to be nobody else's (`EngineAssumption`): the code
derives them from the event and the callers' from orders and requests, and
nothing checks it. Requests with empty fields do not occur, as `UserStream`'s
messages have passed the parser.

### Approvals

`requests` and `votes` are the two tables; `clock` is the time. For each
concurrent call: `pc` (waiting for the lock, holding it, or holding it with a vote
inserted), `call`, `now` (the time its route captured before it waited) and `seen`
(what it has read). `allowed` is a history variable: the allow answers given.

| Code | Action |
|---|---|
| the control API's routes, `lock_operations` | `Begin`, `Enter`, guard `LockFree` |
| `submit_request` | `DenySubmit`, `CreateRequest` |
| unknown request, other action, expiry (voting and executing) | `DenyUnusable`, `Expire` |
| `record_vote` | `RefuseVote`, `RecordVote`, then `ApproveByVote` or `RejectByVote` |
| `evaluate_execution` | `AllowApproved`, `RejectPending`, `ApprovePending`, `DenyPending`, `DenyClosed` |
| `update_approval_request` | `SetStatus` |
| a failed statement or lost reply, process death | `StatementFails`, `Crash` |

Every statement commits by itself. A call's reads are one step, taken with the
lock: nothing it reads later under the lock can differ. A write whose reply is
lost is the write with the call ended by the error (`Approve` leaves the allow
answer out, `StatementFails` ends a call whose vote is inserted). Only the voting
calls write twice. Abstracted: roles, validation, correlation ids, reason codes
and telemetry; actor ids are canonical; the reference keeps the parts of its text
that are not columns of the request, which are the approver and the time.
The lock is one process's: the model has one control API process. Nothing marks
an approval as used, so an approved request allows any number of executions until
it expires; that is what the code does and no document says otherwise.

`DualControl` has only the tables, the time and the answers. Its calls act at the
time they were stamped with, which is at most the clock's: what the lock delays is
the effect, never the time a window or a limit is judged by. What it allows and a
reader might not expect: a vote may stay without a decision, a later call of the
gate decides on the first approving vote unless somebody rejected, and a decided
request still expires.

### FreshnessGate and MarketFeeds

`signals` are the shared update times, `gate` where the loop is, `state` the
controller's state, `outcome` the transition about to be written, `log` the event
table in insertion order. Time is counted in evaluation intervals.

| Code | Action |
|---|---|
| `main.rs` starts the loops; `hydrate_latest_state` | `GateStart`, `Hydrate` |
| `evaluate_once`, `evaluate_freshness_gate` | `EvaluateBreach`, `EvaluateRecovery`, `EvaluateSafe`; operators `Breach`, `Recovery`, `StateOf` |
| the insert, and its lost reply | `Persist`, `PersistReplyLost` |
| `record_market_update`, `record_user_update` | `RecordUpdate` |
| a query fails, another loop ends | `GateCrash` |

`loop`, `attempts` and `memory` are the market loop's; `ticks` and `health` its
tables; `pending` is the health row to be written.

| Code | Action |
|---|---|
| connect and subscribe | `Subscribe` |
| `process_orderbook_event`, `update_runtime_state`, `assess_market_stream_health` | `AcceptTick`; operators `Sustained`, `Assess`, `Remembered` |
| the same tick again | `RepeatedTickHalts`: the key of the table refuses it and the error ends the process |
| `quarantine_book_event` | `Quarantine` |
| `persist_health_transition` | `WriteHealth` |
| `record_stream_disconnect` and the reconnect limit | `LoseStream`, `GivesUp` |
| `main.rs` ends with the first loop that returns | `Crash` |

Abstracted: prices and book levels; of the two ages an event keeps, the streams
that are late; the clock only moves at samples and between statements. The
update of the user stream is `RecordUpdate` of the gate; its loop is `UserStream`.
A tick is one step: its row, the gate's signal and the loop's memory are read by
nobody in between. Rows of the gate are read by the greatest time, which is the
insertion order as samples are taken in order; health rows are not, and
`LatestHealth` sorts them as the query does.

`PauseRecord` has nothing but the table. Each of its rows is decided by the row
before and by one sample taken after it: no memory, no process, no crash. That
`FreshnessGate` implements it says that hydrating from the last row loses nothing
a later row depends on.

### SafetyControls, Recovery and RiskEngine

A request is authorised first, which stamps it with an instant of its own
(`Authorize`, `clock`, `pending`), and executed later in any order. `actions`,
`runs` and `rehearsals` are the tables; `freshness`, `reconciled` and `bundle`
what other services write at any time; `evaluation` is the call that holds the
recovery's lock, `resumes` those under way without it. `engine`, `passing` and
`verdict` are how far the risk engine has come, the gates its sources let pass
and its decision.

| Code | Action |
|---|---|
| `execute_manual_control`, `handle_automatic_trigger`, the unique index on the dedupe key | `Manual`, `Automatic`; `IsRepeat`, `Accepts` |
| `evaluate_readiness`: three reads and a write | `EvaluateStart`, `EvaluateReconciliation`, `EvaluateFinish`, `EvaluateFails`; `FailingGates` |
| the restore rehearsal and its baseline | `Rehearse`, `Baseline`, `Deterministic` |
| `resume`: the run is read, the rehearsal, the whole run written back | `ResumeLoad`, `ResumeRehearsal`, `ResumeWrite`, `ResumeFails`; `Selected`, `Supports` |
| the control API's process dies | `ControlRestarts` |
| the engine's start from its environment | `Boot` |
| its queries, one after the other | `HydrateFreshness`, `HydrateMarket`, `HydrateMode`, `HydrateRun` |
| the gates in their order | `Decide`, `FirstFailing` |

Abstracted: ages and rates by which side of their thresholds they are on;
profiles (the engine reads the latest run of any profile, as the code does); the
sources other than freshness, mode and runs are healthy or not at will. Not in
the model: persisting the live intent and the safe-state signals of the engine.

`RecoveryRecord` has the two tables and the sources they are written from, and
neither calls nor a lock. A run is written once, with the rate of a reconciliation
run and the limits active at that step; the freshness it tells of is only known to
have been read at some time, and a reconciliation run may be reported as missing
that has ended since. A resume changes the resumption of an approved run, perhaps
again, and perhaps to an earlier time; a rehearsal that passes agrees with all
passed ones of its artifact, although the code compares it with one of them.

### ReportSchedule

`schedules`, `runs`, `alerts` and `exports` are the tables; `tick` and `due` the
scheduler's place and the rows it loaded; `api` the control API's call under its
lock; `passed` is a history variable: windows a schedule was moved over.

| Code | Action |
|---|---|
| `upsert_schedule`, `pause_schedule`, `resume_schedule` | `Upsert`, `Pause`, `Resume`, then `ApiSave` or `ApiFails` |
| `process_due_schedules`: load, then one by one | `StartTick`, `Take`, `EndOfBatch` |
| a window's run: create, missed, start | `CreateRun`, `MissRun`, `StartRun`; `OnTime` |
| hydrating the summary | `SummaryReady`, `SummaryFails` |
| the alert, its retry and its deadline | `SendAlert`, `SendAlertLate`, `AlertFails`, `RecordAlert`; `LacksAlert` |
| a window that was finished before | `SuppressDuplicate` |
| `dispatch_weekly_export` | `ExportStep` |
| moving the schedule on | `SaveSchedule`, `Advance` |
| any `?` and the end of the process | `TickFails` |

Abstracted: the limit of 64 schedules per tick and the order of equal times; a
reason nobody reads is "ready"; an alert is its incident and its delivery
attempt; an export's artifacts; one reporting process. A call of the control API
is stamped at any earlier time, as it may have waited for the lock.

`ReportWindows` has runs, exports, alerts and the windows passed, and neither
schedules nor ticks: each window goes its own way, is decided once, by a time
that fits the decision, and is left alone once passed. It does not promise that
every window is decided, in which order, or that a critical failure is alerted:
a decided run may be passed without an alert if nothing notes that it is missing.
The guide promises that alert; `CriticalFailuresAreAlerted` says so and is violated.

### AlphaPipeline

`used` are the instants requests were stamped with, which are the ids of all
rows; `call` is the call that holds each service's lock; the tables are by
instant. `"nested"` is the replay service that `PromotionDecisionService::postgres`
builds for itself: it shares no lock with the one behind the API.

| Code | Action |
|---|---|
| a request gets its service's lock, with an id made of its time | `Start`, `Request` |
| `RG/validation/workflow_runs.rs`: create, stages, finish, comparison | `CreateRun`, `RunStage`, `FinishRun`, `CompareRuns`, `MarkComparison`; `Verdict` |
| `RG/validation/shadow_mode.rs` | `ReadRun`, `ReadArtifacts`, `WriteShadow` |
| `RG/promotion/counterfactual_replay.rs` | `ReadRun`, `ReadArtifacts`, `ReadShadow`, `WriteReplay` |
| `RG/promotion/decisions.rs` | `DecisionReadsRun`, `DecisionReadsArtifacts`, `AskReplay`, `Decide` |
| `RG/promotion/alpha_health.rs` | `CheckDecision`, `CheckReplay`, `CheckShadow`, `RecordMetric`, `EmitAlert` |
| `RG/promotion/lifecycle_actions.rs` | `EvaluateDeallocation`, `ListPromotions`, `ListMorePromotions`, `EvaluateStopResearch`, `WriteAction`; `NewestBreaches`, `PromotionsListed`, `OtherPromotions`, `HasHistory` |
| `ORDER BY ... LIMIT` of the tables, and how a time is stored and read back | `Newest`, `ListedBefore`; `Micros`, `ReadBack` |
| `Ok`, an error or a refusal, process death | `Answer`, `Fails`, `Crash` |

Locks are got in any order, whatever instants the requests were stamped with. A
refusal and a failed statement are both `Fails`; a lost reply is `Fails` at
"reply". Choices of the model: whether packet, thresholds and gates allow
(`merits`), the approval (`reference`; `Approvals` is its detail), policies of
lifecycle actions. Assumed: instants (nanoseconds) are unique, and a request
names a run by the id of an earlier request. Left out: the order of alerts; an
alert's dedupe key contains the breach, so it never stands for another.

A time is stored in microseconds and read back in milliseconds, while a call has its
own in nanoseconds. Lists are sorted by the stored time, of equal ones by id.
`Comparable` compares a run's own time with one read back (`build_comparisons`), so
that of two runs of one millisecond the one stamped later may count as the earlier
when it got the lock first; `RunsTellTheirStages` says so. Of breaches, the newest are
told apart by the time read back (`NewestBreaches`).

Research is stopped on the last promotions under the alpha's name or its other one
(`Alternate`: `alpha::x` for `candidate::x` and the reverse). Two lists are read, one
after the other, of the length the caller asks for, and once more of 200 rows when
they hold too few promotions; each may change before the next is read. The second is
taken when the first is empty, and promotions under both names end the call with an
error (`HasHistory`, and `Fails` otherwise). `ActionsAreBacked` therefore counts the
promotions of one of the two names. A name alone decides which other name belongs to
it, so nothing shows that the two are one strategy.

## 3. Runs

| Run | Instance | Shows |
|---|---|---|
| `orders` | part `races`: 1 order, 2 sessions, 9 requests (two spellings of a key, two keys, cancels with and without a key, another market, another mode, three venue events of which one repeats the state, a batch with a blank id and an earlier time), modes normal and paused; part `batches`: 2 orders, a batch and a cancel-all listing them in opposite orders, a reduce-only submit, a fill; part `stream`: the loop with 3 messages about one order, one of them repeated or late at will, beside a session that submits and cancels; part `loop`: the user stream alone, 2 orders, 5 messages (two statuses of one order at one time, a trade at that time, a later and an earlier one), 2 reconnects | `TypeOK`, `TablesConsistent`, `DecisionsStillHold`, `AnswersAreTrue`, `LedgerSpec`; in the second part `EveryBatchEnds` under fairness; in the third `LifecycleLooksAtomic` and `VenueEntriesFollowTheStream`; in the third and fourth `LoopTypeOK`, `EachEventOnceInOrder`, `MemoryMatchesBlock`, `UnblocksAfterRecoveryEvent`; in the fourth `FlappingEnds` under fairness (about 587,000 states) |
| `order_pause` | parts `races` and `batches` of `orders` | `PauseBlocksSubmits` is violated |
| `order_retry` | as `order_pause` | `RetryIsNotRefused` is violated |
| `order_guardrails` | as `order_pause` | `FollowsTheGuardrails` is violated |
| `user_tie` | as part `loop` of `orders` | `TieWinnersAreStored` is violated |
| `user_replay` | as `user_tie` | `DuplicatesWereApplied` is violated |
| `governance` | `controls`: every command and trigger, 2 correlations, 4 requests; `readiness`: evaluations and resumes over moving sources, 3 requests; `rehearsals`: with severe resumes, 3 requests; `engine`: the engine over controls, evaluations and resumes, 4 requests; `voting`: 1 approval request, 3 actors who may all vote (the proposer too), executions for two actions; `submits`: submits of 3 approval requests by 3 proposers, limit 2, an hour of one tick; 2 concurrent approval calls, 3 times | of the first four parts `TypeOK`, `RetriesTakeEffectOnce`, `ResumedRunsHadPassed`, `RehearsalsAgree`, `SevereResumesAreRehearsed`, `AllowIsEarned`, `RecoveryLooksAtomic`; of the last two `ApprovalsTypeOK`, `OneReference`, `AllowsAreBacked`, `RateLimit`, `CallsLookAtomic` (about 1,205,000 states) |
| `approval_veto` | part `voting` of `governance` | `RejectVetoes` is violated |
| `market_feeds` | `alone`: the gate with every order of updates, clock to 5; together: 1 asset, 2 ticks late, repeated or ahead of the clock, 2 losses, 1 reconnect, clock to 3 | `FeedTypeOK`, `RecoveryIsEarned`, `LossIsVisible`, `MemoryMatchesTables`, `CrashesLeaveNoTrace`, `FeedsTheGate` (about 3,110,000 states) |
| `report_schedules` | one schedule to time 5, or two to time 3; windows of 2 and 4, grace 1, 3 calls of the control API | `TypeOK`, `OutcomesTellTheTime`, `EachWindowIsDecidedOnce`, `OnlyEarlierTicksUndoAPause` (about 2,300,000 states) |
| `report_alerts` | as `report_schedules` | `CriticalFailuresAreAlerted` is violated |
| `alpha_pipeline` | `chain`: one candidate, a request of each service, the direct replay racing the decision and its nested one, a lifecycle action after a metric, stages pass or are blocked; `races`: 3 requests of validation, shadow, replay and decision services in any order, runs of one candidate, requests of two, stages pass or fail; `names`: over evidence on record, a decision about one of an alpha's two names racing the end of research for either; 2 metric keys, a window of 1 promotion, lists of at most 2 rows | `TypeOK`, `EvidenceChainHolds`, `AnswersAreBacked`, `RecordsAreFinal` (about 650,000 states) |

*Bounds.* Two sessions are enough for every race over one row or one key: a
transaction's decision can be disturbed by one other transaction at a time. One
order is enough for the safety properties, which speak of one order each; two are
needed for lock cycles and for batches. In the third part the loop makes one call
at a time, so one other caller is every race it can meet; its three events are two
of one timestamp, which the tie-break orders, and an earlier one, and the process
may halt and restart anywhere between them. No history is cut off: a key is applied
once per order, so histories are as long as there are keys. In the fourth part
the cursors bound the events, and `MaxReconnects` = 2 makes both the reconnect
and the giving up happen.

For approvals, two calls are every race there can be over one lock; calls are
not limited in number. A limit of 2 with 3 requests and times on, inside and
outside an hour's ends is the smallest instance that can exceed it, and symmetry
of the calls is sound as no liveness is checked.

For the gate, a threshold of 1 and a window of 2 fit a breach, a pending and a
confirmed recovery, and a second breach, with crashes in between, into 5
intervals; with the market stream 3 are enough for a tick that is late, one that
is repeated after a reconnect and a loss after each. For the risk engine, a run
needs 2 requests (evaluate, resume), the mode a third and a racing command or
resume a fourth; the parts leave nothing out that two of them together would
show, except that the engine sees no severe resumes, which end in the same
write. For reports, the longer part has two windows of the short period and one
of the long one, so that a window is missed, retried and passed; in the shorter
two schedules share one tick. For the research pipeline, six instants are one
request of each service, and three racing requests make every pair of a
decision, a replay and another candidate's run meet. Their instants are chosen so
that two fall into one microsecond, a third into the same millisecond, and the first
of them is rounded up into that millisecond. A list of 1 or 2 rows is enough for one
that is cut off, one that is read again, and a promotion that a pause pushes out; a
promotion decided between the two lists makes both names have one.

The deadlock check is off where the instance really stops: requests used up
(`governance`, `alpha_pipeline`), clock and calls at their bounds
(`report_schedules`, `report_alerts`).

*Fairness.* `OrderLifecycle!FairSpec` has strong fairness on each session's
progress: tokio polls a started call, and PostgreSQL serves lock waiters from a
queue, so a waiter is not overtaken for ever by later calls; the run asks it of
the second part only, which is what `EveryBatchEnds` speaks of.
`UserStream!FairSpec`, and the run in its fourth part, have weak fairness on what the
loop does by itself. Calls,
messages, failures, crashes and restarts are never fair, and the other
specifications state no fairness.

*What the violations say.*

* `PauseBlocksSubmits`: the mode is read once, before the adjudication and the
  transaction; a submit that is past the check still creates its order after the
  pause.
* `RetryIsNotRefused`: order and key are looked up by two statements with a
  snapshot each; a retry that overlaps the commit of the creating call finds the
  key but not the order, and fails as `invalid_payload`.
* `TieWinnersAreStored`: `event_id` leaves out the status, so the winner of an
  equal-offset tie between two statuses of one order always collides with the
  primary key, which stops the engine.
* `DuplicatesWereApplied`: an event is stored in one transaction and applied in
  another; after a halt in between, its redelivery is a duplicate and the order
  never gets it.
* `RejectVetoes`: a vote and the status that follows from it are two committed
  statements. If the second fails after a reject vote, the execution gate would
  still reject, but `record_vote` does not look at other actors' votes, and the
  next approve vote approves the request.
* `FollowsTheGuardrails`: `can_transition_to` has self-loops for `pending` and `live`
  that the operations guide does not list. A placement and an update of the venue both
  mean `live`, so the second is an entry from `live` to `live`.
* `CriticalFailuresAreAlerted`: a critically failed run is stored before its alert is
  emitted, and only a failure of the alert itself, if its note is stored, is remembered.
  When the process dies in between, or alert and note both fail, the next tick takes
  the run for a duplicate and moves the schedule on; the reports guide says critical
  failures are alerted within 30 seconds or the execution fails closed.

*What else the models make visible*, with what the guides say of it:

* Approvals. Nothing marks an approval as used (see `Approvals`); no guide
  speaks of it.
* Reports. A pause is undone by a tick that had loaded the schedule before it
  (`OnlyEarlierTicksUndoAPause` says that nothing else does); the guide says of the
  endpoint only "pause schedule execution". A weekly export whose dispatch fails is not
  tried again, as the run has succeeded; the export guide says that a weekly replay is
  idempotent, not that there is one. A late alert ends the tick, so that later schedules
  wait for another; no guide speaks of them.
* Research. A run whose executor fails, or whose process dies, stays `running` for
  good; the workflow guide says that such a run "fails closed with explicit
  dependency/state reason codes", which the caller is told and the row is not. No
  property is about it: only completed runs count as evidence (`EvidenceChainHolds`).
  Monitoring takes the newest decision of any action, so an allowed pause or retire
  admits metrics as a promotion does. "Newest" is by the stamp of the request, which
  is not the order of execution, so that a run may finish without being marked
  comparable to one that was stamped before it and finished after it. The workflow
  guide calls the baseline the "latest completed run before current
  `started_at_utc`"; the code compares times of different precision, so the baseline
  may have been stamped later within one millisecond. `RunsTellTheirStages` claims no
  more than the millisecond.

Three hazards have no property. That callers may fill the worker threads while they
wait for a lock, whose holder needs one, depends on the scheduling inside tokio. That
several control API processes would share no lock is shown by the mutant `NoLock`, but
nothing in the repository runs several. That the gate can stay paused for want of user
events cannot be a violated liveness property, as the venue may stay silent under any
fairness the code justifies.

## 4. Proofs

Liveness under fairness is beyond the prover: `EveryBatchEnds` and `FlappingEnds`
are only model-checked, as are the runs that expect a violation. Every other
property of every run is proved. Some theorems state properties that no run
checks any more because another one says them too (`TerminalOrdersAreFinal`,
`DecisionsAreFinal`, `EveryPauseSurvives`, `TheMemoryMatchesHealth`, `RunsAreKept`,
`ExportsAndAlertsAreBacked`).

`OrderLifecycleProofs`, for any orders, sessions, requests, keys and times that
satisfy `ConstantsAssumption` and `AbsentAssumption`:

* `TypeInvariant`: `Spec => []TypeOK`.
* `TablesStayConsistent` (`TablesConsistent`): rows summarise their histories,
  histories are runs of the state machine of `order.rs`, repeats of a state
  included, no key is applied twice.
* `NoDecisionGoesStale` (`DecisionsStillHold`).
* `EveryAnswerIsTrue`: `AnswersAreTrue`.
* `TerminalOrdersAreFinal`: `TerminalIsFinal`.
* `TablesImplementLedger`: `Spec => LedgerSpec`, the refinement of `OrderLedger`.

The inductive invariant is `Inv`: the types, the three table properties, and
`DecisionsStillHold`. The table properties alone are not inductive, because a
commit uses what its transaction read some steps earlier; `DecisionsStillHold`
says that what it read is still so: whoever holds the row is the only one who
can have changed it, and of the sessions that create an order at most one is
between its INSERT and its commit. The proof goes by action: steps that leave
the tables alone keep the first part (`TablesUntouched`) and one lemma each keeps
the decisions; a commit changes one order in one of two ways (`CommitSituation`),
and nobody else's decision is about that order (`CommitKeepsDecisions`).
`AnswersAreTrue` needs two more conjuncts (`AnswersInv`): an answer, and an entry of
a batch report, is about something the call asked for. What a table shows of a
committed key never goes away, so an answer once true stays so.

`UserStreamProofs`, for any orders, messages and reconnect limit that satisfy
`MessagesAssumption` and `NoMessageAssumption`:

* `StreamTypeInvariant`: `Spec => []TypeOK`.
* `BlockIsDurable` (`MemoryMatchesBlock`) and `RecoveryNeedsAnEvent`
  (`UnblocksAfterRecoveryEvent`), from `BlockInv`, which adds that an event was
  stored since the block was set whenever the loop is about to clear it.
* `EventsKeepOrder` (`EachEventOnceInOrder`), from `OrderInv`: per partition the
  stored events increase and end at the cursor, what was handed over is a part
  of them, and while an event waits to be handed over it is the last one stored
  and nothing handed over is at or after it.

`ExecutionEngineProofs`, under `EngineAssumption` and the assumptions of both
modules, for any number of other sessions and callers:

* `EngineImplementsLifecycle`: `EngineSpec => Spec`, so the invariants of
  `OrderLifecycle` hold in the engine (`EngineTablesStayConsistent`);
* `TheLoopSeesAtomicCalls` (`LifecycleLooksAtomic`): the engine implements
  `UserStream`, whence the stream's promises hold in it too
  (`TheStreamKeepsItsPromises`);
* `EventsReachTheLedgerInOrder` (`VenueEntriesFollowTheStream`).

`EngineInv` puts the invariants of both parts side by side and adds what ties them
together. While the loop's call runs, its one command is the current event's
and nothing has been answered (`StreamInv`); nobody else's command carries a key
of the venue's (`CallersInv`); `lifecycle` is what the rows say. The step that
needs them is the end of the call. An answer "duplicate" or "already terminal" or
"rejected" must mean that the order was already where `UserStream` says it goes, and
this rests on `DecisionsStillHold` and on the entries property itself: an event
not yet handed over has no entry, so its key cannot be a duplicate. Two instances of
`UserStream` occur, `U` inside the module and `P` with the theorems of
`UserStreamProofs`; the first lemmas show that they define the same actions.

`ApprovalsProofs`, for any requests (finitely many), actors, concurrent calls,
limit, hour and times that satisfy `CallsAssumption` and `NoneAssumption`:

* `ApprovalsTypeInvariant`: `Spec => []TypeOK`.
* `ReferenceIsUnique` (`OneReference`), `NobodyApprovesAlone`
  (`AllowsAreBacked`), `DecisionsAreFinal` (`DecidedRequestsRest`), from `Inv`.
* `HourlyLimit` (`RateLimit`), from `Inv` and `RecentIsCurrent`.
* `ApprovalsImplementDualControl` (`CallsLookAtomic`): the refinement of
  `DualControl`.

`Inv` has two halves. `LockInv`: the types, at most one holder of the lock, what
the holder has read is still so, and a call about to decide a request has recorded
a vote it was entitled to. `RecordInv`: votes are by others than the proposer and
within the window, an approved request refers to a recorded vote, and what was
answered agrees with the request until it expires. The properties alone are not
inductive: that a decision is made once rests on what its maker read before, hence
on the lock. For the limit, a submit counts from an hour before its captured time,
so it has counted every request of any hour it could overfill; the cardinalities
come from the library's theorems on finite sets. For the refinement, `DualInv` adds
that a call arrived by now and that whoever is about to update a request has found
it (`CallsInv`). A step that only takes the lock, refuses or fails is a stutter; a
statement that writes is one abstract step, at the time its call was stamped with,
and what the abstract step finds in the tables is what the call read, by
`LockInv`. The gate looks only at the votes of others than
the proposer, `DualControl` at all votes: `AllVotesAreDistinct` closes the gap, as
the proposer never votes.

`MarketFeedsProofs`, for any assets, thresholds, windows, limits and lags that
satisfy `FreshnessAssumption` and `MarketAssumption`:

* of the gate alone, from an invariant of its loop and its table:
  `EveryRecoveryIsEarned` (`RecoveryIsEarned`), `EveryPauseSurvives`
  (`PausesSurvive`), `GateImplementsRecord` (`CrashesLeaveNoTrace`);
* `TheProcessFeedsTheGate` (`FeedsTheGate`): the process refines the gate's
  specification, whatever the market stream does; hence the process has what the
  gate has (`TheProcessEarnsRecovery`);
* `FeedTypeCorrect`, `TheMemoryMatchesTheTables` (`MemoryMatchesTables`) and
  `EveryLossIsVisible` (`LossIsVisible`). For the last, rows of the table are never
  ahead of the clock, so a row of a lost stream, stamped with the clock, is
  overtaken only by a row that ties with it, and among ties a healthy row comes
  last.

The refinement of `PauseRecord` needs `RecordInv`: the gate's invariant, which says
that state and table tell the same pause and the same window (`Continues`), and
that rows are written in the order of their samples, so that the row about to be
written is later than all there are. A gate that dies between the write and its
memory of it comes back with the row, one that dies before it with the row before.

`RiskEngineProofs`, for any number of requests, sources and ids that satisfy the
named assumptions of the three modules:

* `TypeCorrect`, `CommandsTakeEffectOnce` (`RetriesTakeEffectOnce`),
  `ResumedRunsPassed` (`ResumedRunsHadPassed`), `RunsAreKept` (`RunsStayTrue`),
  `PassedRehearsalsAgree` (`RehearsalsAgree`), `SevereResumesRehearsed`
  (`SevereResumesAreRehearsed`), `AllowingIsEarned` (`AllowIsEarned`).
* `RecoveryImplementsRecord` (`RecoveryLooksAtomic`): the refinement of
  `RecoveryRecord`.

`RunInv` carries the runs: an instant that is pending or not yet given out has
no row (so that an evaluation overwrites nothing), every run tells of its
evidence what its status says, and the copy a resume holds is the run but for
the resumption. The engine's invariant says that once the authentication gate
passes after the mode was read, recovery had released it; releases and
reduce-only commands are never taken back, so it is not disturbed by later
writes. That a latest row exists rests on the well-foundedness of the naturals.

The refinement rests on `RecoveryInv`: `RunInv`, `RehearsalsAgree`, and that the rate
an evaluation holds is still the one of its reconciliation run, or was missing
when it looked (`RateIsReported`); a run of the reconciliation ends once. The step
that writes is the abstract one, all other steps of recovery are stutters. A resume
writes back a copy taken earlier, and `RunInv` makes it the run itself but for the
resumption; the baseline a rehearsal is compared with stands for all passed ones
(`BaselineSpeaks`).

`ReportScheduleProofs`, for any schedules, cadences, periods and grace that
satisfy `SchedulesAssumption` and `AbsentAssumption`:

* `ReportTypeInvariant`, `OutcomesAreTrue` (`OutcomesTellTheTime`), `ExportsAndAlertsAreBacked`
  (`EvidenceIsBacked`), `PausesOutliveTicks` (`OnlyEarlierTicksUndoAPause`).
* `EveryWindowIsDecidedOnce` (`EachWindowIsDecidedOnce`): the refinement of
  `ReportWindows`.

The invariant relates the tick to the tables: the rows it loaded were active and
due at its time, and at each step of its work the run of the window at hand is as
far as that step needs; a window that was passed is finished, and no alert of it is
noted as missing (`PassedRunsRest`). Only the tick writes runs. The refinement adds `WindowInv`:
an undecided run has no alert on record, and while the tick alerts or exports, no
schedule has been moved past the window at hand; the latter is not of the step
but of the decision before it, since an undecided window has not been passed.

`AlphaPipelineProofs`, for any candidates and their other names, finitely many
instants, metric keys, window and longest list (`InstantsAssumption`,
`WindowAssumption`, `AlternateAssumption`, `AbsentAssumption`):

* `PipelineTypeCorrect`, `EveryRowIsBacked` (`EvidenceChainHolds`),
  `EveryAnswerIsBacked` (`AnswersAreBacked`), `EveryRecordIsFinal`
  (`RecordsAreFinal`).

`Inv` adds `CallInv`, which says of each service's call how far its work stands:
what it has written, and what it has seen that no later step takes back. A call
writes only at its own instant (`Keeps`), and no two calls share one except a
decision and the replay it waits for (`InstantsApart`, `NestingOK`); so rows stay
(`RowsStay`), what is on record stays on record (`EvidenceStays`), and what a call
has seen remains true while the others work (`WorkKept`), although no lock is held
over two tables. Of an action that stops research the chain promises promotions on
record under one of the names, which a list that was read may not show in full any
more, but which stay.

## 5. Plan

Done: `OrderLifecycle`, `UserStream` and their composition `ExecutionEngine`,
`Approvals` with `DualControl`, `FreshnessGate` with `PauseRecord` and
`MarketFeeds`, `SafetyControls` with `Recovery`, `RecoveryRecord` and `RiskEngine`,
`ReportSchedule` with `ReportWindows`, `AlphaPipeline`, each with the proofs of its
safety properties.

Next:

1. Abstract specifications of the other record keepers, as `DualControl` is of
   approvals, `RecoveryRecord` of recovery and `ReportWindows` of reports: the
   containment actions, the chain of evidence of the research pipeline.
2. The mode of `SafetyControls` as the one a submit reads, and the block of the
   user stream as the one the risk engine's gate reads.
3. `Reconciliation`: runs over the order tables while they change.
4. The risk engine's persistence of the live intent and of its safe state.

Not modelled, and why: the control API and the apps (transport, authorisation and
rendering; what they stamp and in which order they call is part of each module);
the portfolio engine (pure numeric evaluation); the read models of the reporting
service and the other services of the research gateway (single reads and inserts,
with no state between statements); governance profiles, RBAC, credentials and
audit (single inserts behind the approvals); reconciliation, and the parts of the
risk engine named above. The two largest files of the repository,
`services/control-api/src/routes/mod.rs` and `crates/domain/src/risk.rs`, are
request handlers around the modelled services and validation of single records;
what is mapped of them is what decides a step.
