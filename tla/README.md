# Shotgun in TLA+

Shotgun turns sources (documents, URLs, images) into reviewed knowledge. It is a
modular TypeScript program over PostgreSQL: modules exchange commands, events and
queries through a connector runtime, long work runs in claimed, leased jobs, and every
step whose outcome cannot be observed is recorded as `OUTCOME_UNKNOWN` and never
repeated on its own. This directory models that core, checks it with TLC and proves
parts of it with TLAPS.

## 1. Inventory

| Part | State | Operations | Interacts with | What is hard, what makes it correct |
|---|---|---|---|---|
| **Durable delivery** `packages/connector-runtime`, `adapters/connector-runtime-postgres` | `connector.dedup_records`, `jobs`, `job_attempts`; locals of a running call | `executeDeduplicatedDurable`: begin, run (enqueue, claim, attempt, handler under heartbeat and timeout, complete / retry / terminal), complete / fail / markOutcomeUnknown; recovery timer; reconcile | every module's handlers; ordering; dead letters | several processes on the same rows, one statement per transaction; lost acknowledgements; a timed-out handler that goes on; lease expiry racing completion; crash between two statements. One side effect per semantic key, truthful answers, terminal jobs final, one runner per job |
| **Ordering** same adapter | `connector.ordering_checkpoints` (last sequence, claim, fence, expiry) | acquireNext, renew, commit, release, recovery | runs inside the delivery's handler callback with a lease of its own | two leases with two heartbeats; commit ignores expiry; late commit after recovery. In-order effects, the checkpoint advances after a success only |
| **Dead letters and replay** same adapter | `connector.dead_letters`, `replays` | add, authorizeReplay, appendReplay, updateReplay, resolve | starts a delivery again | authorization read before use; two replays of one entry; replay of a redacted envelope. An unknown outcome is never replayed |
| **Durable queries** `queryDurable` | dedup and job rows of kind query | begin, run, complete | as above | rows of a query that never completes |
| **In-memory runtime** `stores.ts`, `packages/job-runtime`, `adapters/transport-in-memory` | maps and a FIFO queue of one process | runOnce, run, assertNext, commitLegacy, execute | ephemeral assemblies and tests | one event loop; shares an in-flight promise among duplicates |
| **VP relation jobs and provider budget** `adapters/vp-knowledge-postgres/src/relation-jobs.ts`, `adapters/vp-global-provider-budget-postgres` | relation jobs, attempts and stored outputs; budget claims and daily usage in another database | enqueueCurrentPairs, claim, storeOutput, completeDecision, markOutcomeUnknown, recoverExpired; reserveAttempt, authorizeExecution, releaseUnused, settle | two databases, one paid provider call | no shared transaction; crash between reservation, authorization and call. At most one paid call per authorization, never above the daily limit |
| **Discovery runtime** `modules/discovery-runtime`, `adapters/discovery-runtime-postgres` | jobs, runs, attempts, stages, leases, stage outputs, provider reservations | claimNext, renewLease, transition..WithLease, finalizeClaim/FailureWithLease, reserve/finalizeProviderCall, publishFindingReady | coordinator, AI providers, reentry | four revisioned rows under one lease; takeover with saved stage outputs; budget reservations of a dead attempt |
| **Discovery trigger, reentry, findings** | trigger inbox, reentry batches, finding lifecycle rows | coordinate, expand, transition | events from canonical knowledge | duplicate and late triggers, stale candidates |
| **Canonical knowledge and outbox** `modules/canonical-knowledge`, `adapters/postgres-stage6` | snapshot version, claims, commits, history, outbox | commit, commitFrontendDraft; claimOutbox, markOutboxPublished, releaseOutbox | change-set review, projections | optimistic versions; an outbox claim taken over while the first publisher still works |
| **Action execution and outbox** `modules/action-execution`, `adapters/postgres-stage11`, `modules/action-feedback-review` | the record of an action (`action.executions`), approvals, audit, feedback outbox, review work items | createPreview, approve, ExecuteApprovedAction, VerifyActionOutcome, ReconcileExecutingAction; claim, publish, mark and release of outbox rows | external connectors, connector runtime | two execute commands; a COMMIT whose outcome is resolved by reading back; an owner who gives up an executor that is alive; an effect that comes late; outbox claims taken over. The provider is asked once, a recorded outcome is true and final, each outcome is reviewed |
| **Ask execution** `modules/frontend-ask-execution`, `adapters/frontend-ask-execution-postgres` | `frontend_ask.answer_runs`, `answer_run_attempts`, `statements`; `active` and `inFlight` of each process | worker tick (recoverInterrupted, claimQueuedForWorker), executeClaimed (audit, provider, appendPartial, heartbeat, complete, fail), cancel, retry | command ledger, AI providers, SSE readers | a cancel or a takeover racing the answer; a worker that lost its attempt; a claim nobody executes; a retry sent twice. One live attempt, one answer, commands act once, no run stays active |
| **Source refresh** `adapters/source-refresh-postgres`, `modules/frontend-sources-write/src/source-refresh.ts`, `assemblies/shotgun-app/src/source-refresh-runtime.ts` | `url_refresh_jobs` (phase, lease, attempts, staged reference) | claimNext (recovery, new jobs, claim), transition; drainOnce | staging, command ledger, intake of the product service, Stage 3, the reset of the project | a fetch whose lease ends under it; a submission that may have committed; a user's version that overtakes the refresh; a job that is resumed. A fetch is not repeated silently, a reported outcome is true of the intake, no abandoned phase holds up a reset |
| **Stage 3 / stage 4 pipeline** `adapters/postgres-stage3` | progress rows, continuation claims | claim, finalize, markFailure, complete, recoverExpired | intake, transformation, candidates | resumable pipeline over several transactions |
| **Frontend command ledger** `modules/frontend-command-gateway`, `adapters/frontend-command-gateway-postgres` | `frontend_command.command_ledger` | accept, lockAcceptedForExecution, complete, reject, markOutcomeUnknown | every frontend command | two unique keys (request id, idempotency key); lost COMMIT answers; a replay of an ACCEPTED command goes on with it. Effect and completion in one transaction |
| **Source knowledge reset, maintenance lock** | knowledge epoch, reset journal; advisory lock | preview, execute, rebuild; acquire, release | every owner of project data | writers of every module against the reset |
| **Review, change sets, drafts, comparison, knowledge model, evidence, retrieval** | rows of each module | request handlers | canonical commit | stale bases; mostly per-request, single transaction |
| **Web application, API client, contracts, authentication, policy, kernel, module SDK, quality evaluation, AI provider adapters, parsers** | sessions; otherwise stateless | request handling, validation, wiring | all | I/O, formats and wording; no protocol of their own beyond the above |

The hazards found in the code that is modelled, at their lines, are in `PROJECT.json`.

## 2. Modules

| Module | Role |
|---|---|
| `ConnectorDelivery` | durable delivery of one semantic key, statement by statement |
| `SemanticOutcome` | what a delivery promises for one key (abstract specification of `ConnectorDelivery`) |
| `OrderedDelivery` | the same delivery for messages of one ordering key: checkpoint, claim, fence |
| `RelationExecution` | paid provider calls of relation jobs over two databases and a provider |
| `AskExecution` | an answer run: worker, executions, retry and cancel commands over the command ledger |
| `ActionExecution` | an external action: commands, provider, feedback outbox and its dispatchers |
| `SourceRefresh` | the refresh of a URL source: leased jobs, one fetch, one intake |
| `MCConnectorDelivery`, `MCOrderedDelivery`, `MCRelationExecution`, `MCAskExecution`, `MCActionExecution`, `MCSourceRefresh` | instances for TLC |
| `ConnectorDeliveryProofs`, `OrderedDeliveryProofs`, `RelationExecutionProofs`, `AskExecutionProofs`, `ActionExecutionProofs`, `SourceRefreshProofs` | theorems and their TLAPS proofs |
| `ConnectorOutcomeProofs` | the proof that `ConnectorDelivery` implements `SemanticOutcome`; it extends `ConnectorDeliveryProofs` |

Run TLC with `tlc -workers 2 -config <run>.cfg <MC module>.tla` and the prover with
`tlapm <module>Proofs.tla`. The runs, and for each property a mutant of the code
that breaks it, are listed in `PROJECT.json`.

### ConnectorDelivery

One delivery is one call of `executeDeduplicatedDurable`; all deliveries carry the same
project, scope, consumer, type and semantic key, so they meet on one dedup record.

| TLA+ | Code |
|---|---|
| `dedup` | the row of `connector.dedup_records`: state, job, fence, fingerprint |
| `jobs`, `attempts` | `connector.jobs` and `connector.job_attempts`, by job |
| `calls` | locals of a running call; `pc` is the statement it executes next |
| `effects`, `orphans` | handler invocations that acted; invocations left behind by a timeout or a lost lease |
| `Begin`, `BeginRead`, `BeginReopen` | `PostgresDedupStore.begin`: INSERT ON CONFLICT, SELECT, UPDATE of a FAILED record |
| `Poll` | a duplicate waiting for the owner |
| `LookupJob`, `EnqueueJob`, `FindJob`, `Claim`, `StartAttempt` | the head of `PostgresJobRuntime.run` and of its loop |
| `StartHandler`, `HandlerActs`, `HandlerReturns`, `HandlerFails`, `HandlerTimesOut`, `LoseLease` | the handler under heartbeat and timeout |
| `AttemptSucceeded`, `CompleteJob`, `ReadBackJob`, `PostOperationUnknown` | the successful end of an attempt |
| `AttemptFailed`, `ScheduleRetry`, `TerminateJob` | the failed end of an attempt |
| `CompleteRecord`, `MarkOutcomeUnknown`, `FailRecord` | the end of the delivery |
| `RecoverExpiredLeases`, `Reconcile`, `LeaseExpires`, `RetryDue`, `Crash` | the recovery timer, the operator, time, process death |

Decisions:

- Each statement the code commits on its own is one step. `SELECT .. FOR UPDATE` outside a
  transaction keeps no lock for the next statement.
- A fault is a statement whose connection fails, with or without its effect on the row
  (`Fault`): the caller then takes the path of the code's `catch`.
- `Poll` may give up in any round: how many rounds there are depends on the clock only.
- A handler that throws has not acted. A handler that acts and then throws would make the
  recorded failure wrong by the handler's own contract, not by the runtime's protocol.
- `Reconcile` assumes an operator who knows: a result only after the effect, a failure only
  when nothing that runs can still cause it.
- The recovery timer finds the record by the id every job of the key shares, so it marks
  the record whatever job the record names at the time.

### OrderedDelivery

All deliveries belong to one ordering key. The dedup and job statements, which
`ConnectorDelivery` takes apart, are merged here: `Begin` acquires record and job,
`EndJob` and `Complete` end them. `Acquire`, `Renewable`, `Commit`, `Release`,
`OuterRelease` and `Recover` are `PostgresOrderingStore` and its place in the delivery.

- The checkpoint's row exists from the start (the code inserts it before its first lock).
- `acquireNext` compares the claim's expiry with the worker's clock: a clock that runs ahead
  may end a live claim (`skews`).
- `commit` and `release` look at the token, not at the expiry.
- A driver error in `release` keeps `orderingFence` set and leads to `OuterRelease`; one in
  `OuterRelease` leaves the catch block before the record is failed.

### RelationExecution

A worker is one `dispatchOnce` at a time. `jobs` and `receipts` are in the workload's
database, `claims` and `usage` in the authority's, `paid` is the provider's view.

| TLA+ | Code |
|---|---|
| `RecoverExpired`, `ClaimNext` | `recoverExpiredExecutions` and `claimNext`, a transaction each |
| `ReadStored`, `ReadExecution`, `Retry` | `readStoredByJob`, `readExecution`, `retry` |
| `ReadPrior`, `ReleasePrior` | `reservedForJob` and the release of an earlier attempt's claim |
| `ReserveAttempt`, `AuthorizeExecution` | the count under the daily limit and the one-use fence |
| `Activate` | the receipt, inside the workload's transaction |
| `CallProvider`, `SettleAnswered`, `SettleFailed` | the paid call and the settlement of its claim |
| `StoreOutput`, `Finish` | `storeOutput`; `completeDecision` and `completeUnresolved` |
| `CheckActivated`, `GiveBack`, `MarkUnknown`, `Pause` | the catch block of the execution boundary, the dispatcher's catch and finally blocks |
| `LeaseExpires`, `NextDay`, `Crash`, `Restore`, `Supersede` | time, process death, a backup of the workload's database, retired assertions |

- A lease token is random: `Fresh` lets a token be used again only when no row, local or
  paid call refers to it, which keeps the set of tokens finite without changing behaviours.
- The provider configuration may be revised between attempts: `ReadExecution` picks the
  execution key of each attempt.
- A provider that fails may have billed: `paid` grows in both cases.
- Failures of the resolver and of the egress check count as failed statements.
- `next_attempt_at` is not modelled: a job may be claimed at any time after a retry.
- The status `FAILED` cannot be reached: `attempt_count` grows with a receipt, and a job
  with a receipt is not retried.
- `Restore` happens with the workload's processes stopped and brings a job back to the
  state before it ran.
- Retiring the assertions of a job and superseding the job is one step.

### AskExecution

One `AnswerRun`, the processes that may execute it and the commands on it. Every
mutation locks the run's row, so a transaction is one step.

| TLA+ | Code |
|---|---|
| `run`, `attempts`, `statements` | `answer_runs`, `answer_run_attempts` by number, the stored answers |
| `ledger`, `requests` | `command_ledger`, the `runAnswerCommand` calls |
| `executions`, `active` | the `executeClaimed` call of an attempt; the controllers of each process |
| `Tick`, `Quarantine`, `Recover` | `startWorker`, `claimQueuedForWorker`, `failQueuedContextWithClient`, `recoverInterrupted` |
| `Audit`, `Partial`, `ProviderEnds`, `Heartbeat`, `Check`, `Complete`, `Fail` | `executeClaimed` with `setAttemptAudit`, `appendPartial`, `heartbeatAttempt`, `complete`, `fail` |
| `Accept`, `Apply`, `AfterCommit`, `Settle` | `runAnswerCommand` over `accept`, `lockAcceptedForExecution`, `reject`, `markOutcomeUnknown` |
| `Retry`, `RequestCancel` | `retryAndClaimWithClient`, `requestCancelWithClient` |

- `STREAMING` is passed through inside one transaction on the way to `PARTIAL`.
- The owner column is left out: an attempt is executed by the call that claimed it.
- `fail` is returned and not awaited, so the `finally` block runs first (`FailWith`
  leaves `active`); an awaited `fail` or `complete` leaves it at its end.
- The reasons for which a retry, an audit or a completion refuses (policy, identity,
  context, image references) are one refusal or failure each, possible at any time.
- A cancel aborts whatever controller its process has for the run after the COMMIT,
  also that of a newer attempt: the aborted attempt then ends as cancelled.

### ActionExecution

One action from its preview. A transaction locks the action's row and is one step; the
readback that follows an ambiguous COMMIT is a step of its own.

| TLA+ | Code |
|---|---|
| `record`, `audit`, `outbox` | `action.executions`, the audit events of calls, `action_feedback_outbox` by semantic key |
| `effect`, `asked` | the provider: what was applied, who called `connector.execute` |
| `handed` | the semantic keys whose event the connector runtime has taken over |
| `calls` | the handlers under way, the outbox worker included |
| `ClaimForExecution`, `Preflight`, `Execute` | `ExecuteApprovedAction` |
| `StartVerify`, `Verify`, `StartReconcile` | `VerifyActionOutcome` and `verifyRecord`, `ReconcileExecutingAction` |
| `Transition`, `Readback` | `transition` with `insertFeedbackOutbox`; `reconcileClaim`, `reconcileTransition` |
| `ClaimFeedbackOutbox`, `Publish`, `Mark`, `Release` | `dispatchActionFeedbackOutbox`, by `publishFeedback` or by the worker |

- The last audit event and its writer stand for the whole record: two writes differ in
  their time. Two claims in one millisecond by one actor are left out.
- A provider may apply an action after its answer was lost (`LateEffect`). One that has
  already applied it answers so at preflight; that is an `Execute` without a new effect.
- The semantic key is the feedback status: `FAILED` and `VERIFICATION_FAILED` share one, and
  a second failed verification is refused as a conflict with the first.
- A user may give up an action at any time while it is `EXECUTING`, also one whose executor
  is alive.
- A handler of the runtime that ran too long is cancelled and may not publish (`Late`).

### SourceRefresh

One source, and a job per provenance receipt. Every call of the database, the ledger or
the network is a step.

| TLA+ | Code |
|---|---|
| `source` | the newest version of the source, its receipts, whether the newest version came from a URL |
| `jobs` | `url_refresh_jobs`, by receipt; `owner` is the worker that knows the lease token |
| `submissions`, `ledger` | the intake submission of a job and its row in `command_ledger` |
| `calls` | the `drainOnce` of each worker: its copy of the job's phase, and the outcome it is about to record |
| `fetched` | history: how the last fetch for a job ended |
| `ClaimJob`, `ClaimNothing` | `claimNext`: `Recovered`, `Candidates`, `Claimable`, `Resumed` |
| `Checkpoint`, `Settle` | `transition` under the lease, and the one that releases it |
| `Authorize`, `Prepare`, `Record` | the ports of `createSourceRefreshAuthorization` |
| `Fetch`, `Submit`, `Insert`, `Process`, `Readback`, `Reads` | `stageUrl`; `product.submit` with its transaction and Stage 3; `getSubmission`; `finalize` |
| `Intake`, `Edit`, `Expire`, `Crash` | Stage 3 recovery and the users of a submission, users who add to the source, time, process death |

- A worker drains one job at a time, so the owner's name stands for the random token; a
  claim whose acknowledgement is lost has a lease and no owner.
- A write that the reset fence refuses is a statement that fails; `next_attempt_at` that has
  not come is a claim that finds nothing. The five minutes between attempts are not modelled.
- A receipt becomes too old at any time.
- The failure codes nothing depends on are one.
- A submission whose items wait for a decision of the user (`ACTION_REQUIRED`, `PARTIAL`)
  does not occur: a refresh submits one item with automatic duplicate handling.
- Only a submission left indeterminate by Stage 3 can be cancelled: until then its only
  item counts as succeeded.

## 3. Runs

| Run | Instance | Question |
|---|---|---|
| `delivery_outcome` | 2 deliveries of a message, 1 of another with the same key, 2 processes, 2 attempts, 1 crash | Does the record implement `SemanticOutcome`? Does every call return, and does a record leave IN_PROGRESS? |
| `delivery_shared_job` | 3 deliveries of one message in one process, 1 attempt, 1 failed statement, 1 crash | Can a rotated record give a job two runners, or more attempts than the policy allows? Do evidence, answers and terminal jobs stay true when acknowledgements are lost? |
| `find_reopen_race` | 3 deliveries, no failure | finding, see 5 |
| `find_crash_after_success` | 2 deliveries, 1 crash, fairness | finding |
| `ordered_stream` | a message, its redelivery and its successor; 1 attempt, 1 failed statement, 1 crash, 1 fast clock | Does the checkpoint cover only what happened? Is there a gap in the effects, or one that comes late? Who may end a live claim? |
| `ordered_claims` | two successive messages, 2 attempts, 1 failed statement, 1 crash, fairness | Does a claim end? |
| `relation_budget` | 2 workers, 1 job, 2 configurations, 3 tokens, limit 1, 2 days, 1 failed statement, 1 crash, 1 restore, 1 slow dispatch | Is the counter exact, does every paid call stay counted, is a configuration paid for once? |
| `relation_progress` | 2 workers, 1 job, 1 configuration, 3 tokens, 1 failed statement, 1 crash, 1 slow dispatch, fairness | Is paid output used, and is an unused reservation returned? |
| `find_sent_again` | 2 workers, 1 job, 2 configurations, limit 2 | finding |
| `ask_execution` | 2 processes, a retry and a cancel, each sent by either process, 2 attempts, 1 failure or crash, fairness | Is there one live attempt and one answer? Does a command act once, is a cancel kept, is an unknown outcome left to the user? Does every active run end? |
| `action_execution` | 2 execute commands, 1 verification, 1 reconciliation, 1 outbox worker, 1 publication that throws, 1 failure, slow claim or crash, fairness | Is the provider asked once? Is a recorded outcome true? Is a published row final? Does each outcome have its outbox row, and does that reach the review? |
| `source_refresh` | 2 workers, 1 job, 1 edit of the source, 2 upsets (failed or lost statements, crashes, leases that end under a worker), fairness | Is an uncertain or successful fetch made again? Do the recorded outcomes agree with the intake and the command? Does a phase that holds up a reset end when nobody works in it? |

Why these bounds are enough for the cases that matter:

- *Deliveries.* Two deliveries of one message give an owner and a duplicate, in either
  order, and the reopening of a FAILED record; the third one has another fingerprint
  (conflict) or is the second runner of a rotated job. Three deliveries of the same message
  with two processes reach the reopen race (finding 1), which is why `DeliversAtMostOnce` is
  asked of two and a conflicting one, without failed statements (see 5, *seen without a run*).
- *Attempts.* Two attempts reach retry, the last attempt and the refusal after it. In
  `delivery_shared_job` the policy allows one: a second delivery of the rotated record uses
  up the job's attempts as a retry would, and leaves room for failures.
- *Faults.* A statement fails anywhere, with or without effect; every error
  path of the code is one failure away, except the readback that fails too, which ends
  like a readback that finds nothing. The faults of a run are chosen by TLC.
- *Sequences.* Gaps, late effects and lost claims need two successive sequences; the fence
  needs two deliveries on one sequence, here of one message. Different messages that claim
  one sequence are not in a run; `EffectsAreInOrder`, `CheckpointIsTruthful` and
  `ClaimIsFenced` are proved for any assignment of sequences.
- *Relation jobs.* The budget couples jobs through the counter only; two attempts of one
  job by two workers under a limit of one meet at the limit and at midnight, and two keys
  let a job be paid for twice. `relation_progress` has one key, since two stored outputs
  stop `readStoredByJob` for ever; with two tokens a dispatch could starve for a token.
- *Ask.* A claim by the worker and one by a retry, or a requeued one, need two attempts; a
  late execution meets the next one. A lease may expire under a live execution without using
  up the bound. The real `MaxAutomatic` is three; with two, one automatic rerun is allowed and
  the next refused.
- *Actions.* Two execute commands contend for the claim; the verification and the
  reconciliation contend with them and with the worker for the record and the outbox. One
  fault is an ambiguous COMMIT (with its readback), a claim whose dispatch became slow, a
  mark or a release that fails, or a crash.
- *Refresh.* The second upset matters: one ends the lease under a worker, the other is what
  the worker that takes over runs into. The edit makes the refresh stale, or gives it a newer
  receipt. Two jobs of one source are never open together; the invariants were also checked
  with two jobs, one after the other, without upsets, and are proved for any number.

`CHECK_DEADLOCK FALSE` in every run: the system stops when all deliveries have returned,
when jobs are decided and the bounds used up, when a run or an action has ended. Nothing waits for anything
inside the modelled code but timers, for which there are the liveness properties.

The symmetry sets (deliveries, swapped contenders, workers and tokens) are used in runs
without liveness properties only.

**Properties with conditions.** `NoLateEffect` asks for a sequence per message and no failed
statement: a driver error while a timed-out attempt is recorded makes its outcome a failure
and frees the claim although the orphan still runs (see 5).
`FencedOut` excepts a worker with a fast clock. `Settles` is asked until the first crash
(finding 2). `UnusedIsReturned` excepts a retired job and a job with a receipt: neither is
dispatched again, so nobody looks at its reservation. `StoredIsDecided` excepts jobs with
two receipts, restored and retired ones. `OnePaidCallPerExecution` and `NeverSentAgain`
except a restored database, which no longer knows of the call. `CancelIsKept` speaks of a
cancel that found the run active; `FeedbackIsPublished` of publications that succeed after a
bounded number of throws. `HeldEnds` leaves out a submission whose Stage 3 is not over, which
is Stage 3's to finish, and `OUTCOME_UNKNOWN`, which nothing in the code ends.

## 4. Fairness

`FairSpec` of both delivery modules: a delivery that has begun goes on (a Node process
executes its continuation), leases and due times pass, and the five-second recovery timer
runs in every process. Nothing is assumed of new deliveries, crashes, faults, the operator,
or orphans. `FairSpec` of `RelationExecution`: the dispatcher's timer calls `dispatchOnce`
again, so each worker's next step is taken, and leases expire. `FairSpec` of `AskExecution`:
an execution goes on (the provider's calls have a timeout), a lease that no heartbeat renews
expires, and the one-second tick of some worker recovers it; nothing is assumed of requests.
`FairSpec` of `ActionExecution`: dispatches go on and the worker's timer starts new ones,
and five minutes pass over a claim that nobody holds; nothing is assumed of commands, users
or the provider. `FairSpec` of `SourceRefresh`: a drain goes on (its calls have timeouts), the
worker's interval claims again, and a lease nobody works under expires; a job that is claimable
again and again is claimed (strong fairness: `claimNext` takes due jobs in the order of
`next_attempt_at`, so none is passed over for ever). Nothing is assumed of users, crashes or
Stage 3. All the rest is weak fairness.

## 5. Disagreements between code and documents

Each is a run that TLC ends with a counterexample, and an entry in `findings`.

1. `find_reopen_race`. `begin()` reopens a FAILED record in a statement of its own that names
   neither the state nor the fence it read; two deliveries that both read FAILED both own
   the key, and the side effect happens twice. ADR-155 says that two connections cannot
   execute one semantic key twice.
2. `find_crash_after_success`. The job and the record complete in two statements; after a crash
   between them recovery looks at running jobs only, and the record stays IN_PROGRESS.
3. `find_sent_again`. A lease that expires between `recoverExpiredExecutions` and the
   selection of `claimNext` makes a job selectable whose call is under way; after a
   revised configuration and a settled first claim the call is sent a second time.

*Seen without a run.* Two more, which the models contain and no run is spent on:

- A driver error while the failure of a timed-out attempt is recorded
  (`connector-runtime-postgres/src/index.ts:846`) replaces the unknown outcome: the record says
  FAILED while the handler still runs, although `runtime.ts:684` says that a timeout cannot
  make a second request eligible. It is why `NoLateEffect` and `DeliversAtMostOnce` are asked
  without failed statements.
- A refresh job that is `SUBMITTING` and denied authorization at its readback becomes FAILED
  with its staging reference kept, and the next claim resumes it as STAGED
  (`source-refresh-postgres/src/index.ts:124`): it is submitted again, which
  `source-refresh.ts:128` and the freshness audit exclude. `SourceRefresh` contains the step;
  `SucceededIsCommitted` and `FailedIsClean` hold all the same, because `submit` finds the
  first submission. If the command was completed already, `prepareSubmission` refuses it each
  time, and the job stays STAGED for ever: that is why `HeldEnds` does not speak of STAGED,
  which no reset waits for.

## 6. Proofs

`ASSUME`s of the modules are the only assumptions: finite or infinite sets of deliveries,
messages, workers, jobs, keys and tokens (the tokens are assumed finite, for their
cardinality), any bounds. All proofs are inductive invariants closed by temporal logic.

| Theorem | Property | Argument |
|---|---|---|
| `TypeCorrect` | `TypeOK` of `ConnectorDelivery` | `TypeInv` adds `RowsPresent`: a delivery under way has a record and, inside `run`, a job. Without it the rows a step indexes need not exist |
| `JobHasOneRunner` | `OneRunnerPerJob` | `RunInv`: a delivery between claim and end holds the job's current fence, and its job is not claimable. A claim raises the fence of a claimable job, so nobody else can be there |
| `JobOutcomeIsFinal` | `JobOutcomeFinal` | from `RunInv`: the statements that write a job ask for `running` or a claimable status |
| `AnswersAreTrue` | `AnsweredOnlyAfterEffect` | `EffectInv`: whoever stands between the handler's return and the completed record saw the effect |
| `BudgetIsKept` | `RetryBudget` | `BudgetInv`: the count a delivery planned with may be old (it is read once before the loop), but counts only grow, so the number it is to use is at most the next one (`Planned`). Every counted number is in the table (`CountedNumbers`); a number that can still be inserted is therefore the next one, and stays so until the end of the job's lease counts it (`Numbered`) |
| `EvidenceAgrees` | `AttemptEvidence` | `EvidenceInv`: only the attempt under the job's own fence may be open or have succeeded (`JobEvidence`), it is the runner's own, and it is where the runner's pc says (`RunnerEvidence`); with `BudgetInv` a fence has one attempt |
| `ImplementsOutcome`, `OnlyTheGapsRepeat` | `DeliversAtMostOnce`, `AtMostOneEffect` | see *The refinement* below |
| `PairsDeliverAtMostOnce` | `DeliversAtMostOnce` | see *The refinement* below |
| `EffectsAreInOrder`, `CheckpointIsTruthful` | `EffectsInOrder`, `CheckpointTruthful` | `OrderInv`: the claim is for the next sequence, the checkpoint covers sequences that took effect, and whoever runs, also as an orphan, was admitted at the next sequence or before |
| `ClaimIsFenced` | `FencedOut` | `FenceInv`: the token of a claim is known to its holder only |
| `NoEffectIsLate` | `NoLateEffect` | see *One effect per message* below |
| `OrderedTypes` | `TypeOK` of `OrderedDelivery` | `RowsOK` of the order proof, with the types of the leases and side effects (`TablesOK`) and of the counters (`Bounded`) |
| `RelationTypes` | `TypeOK` of `RelationExecution` | `TypeInv` adds `Held`: before its call a dispatch has a token, a job and soon a key |
| `PaidStaysCounted` | `PaidCallsAreCounted` | `PaidInv`: dispatches before their call share no token (`Apart`) and have not paid under theirs (`Unpaid`); past the fence the claim is armed, before it is not (`CallIsArmed`); an armed claim is counted (`ArmedIsCounted`), because a release asks for one that is not armed and settlement keeps it |
| `UsageStaysExact` | `UsageIsExact` | `UsageInv`: the equation itself and `TokensHeld` (a token is not counted before its reservation), with `PaidInv` for the claims that are armed. A step moves one claim at most, so the set of counted claims of one day gains or loses one element and its cardinality follows the counter; a second release finds the claim no longer as it asks and changes neither |
| `PaysOnce` | `OnePaidCallPerExecution` | `ReceiptInv`: while nothing was restored, a paid call has a receipt under its key that names its token, and a dispatch at the call has just written its own. A receipt keeps the token it was written with, so two paid calls of one key have the same |
| `SentAgainByTakeoverOnly` | `NeverSentAgain` | see *The second call* below |
| `TypesHold` of `AskExecution` | `TypeOK` | `TypeInv` adds what a pc says: a verdict is known where it is read, a request names its command, a completed entry its attempt |
| `OneLiveAttemptHolds`, `AnswerIsTheRunsHolds`, `AnswerIsFinalHolds`, `AutomaticRerunsAreKnownHold` | the properties of these names | `RowInv`: the two, with `FutureAbsent` (no attempt after the newest) and `QueuedIsKnown` (a queued run is new or its last attempt failed with attempts left). `RowsMove` says what any step may do to the three tables, so each property is one case analysis |
| `CommandActsOnceHolds`, `CancelIsKeptHolds` | `CommandActsOnce`, `CancelIsKept` | `CommandInv`: an entry completes in the transaction that starts or stops its attempt, and only an `ACCEPTED` one does |
| `FailedIsOverHolds` | `FailedIsOver` | `ExecutionInv`: an attempt ends as failed in the last step of its own execution only; an attempt nobody executes yet is still to be delivered by one request |
| `TypesHold` of `ActionExecution` | `TypeOK` | `Typed` for the calls, `Counted` for the bounds, the tables' types inside the other invariants |
| `AskedOnceHolds`, `OutcomeIsTrueHolds`, `EndIsFinalHolds` | the properties of these names | `RecordInv` and `CallInv`: the audit has one `EXECUTION_CLAIMED`, that of the only call that may ask the provider; what a call is to write follows from what it saw (`Planned`), and `transition` compares that with the record, so nothing is written over an end |
| `OutcomesHaveFeedbackHolds`, `PublishedIsHandedOverHolds`, `PublishedIsFinalHolds` | the properties of these names | `OutboxInv`: whoever stands at `mark` has handed its key over (`PublishInv`). Every step keeps the event a row was inserted for and a published row as it is (`Bound`), because a late mark or release no longer finds the attempts it claimed |
| `TypesHold` of `SourceRefresh` | `TypeOK` | `TablesTyped` with the types inside `JobInv` and `CallInv`: each pc knows its phase (`KnownPhases`) |
| `NeverRefetchedHolds`, `FailedIsCleanHolds`, `SucceededIsCommittedHolds` | the properties of these names | `JobInv` says what a phase and a code tell of fetch, submission and command; `CallInv` the same of a worker's copy, with the outcome it is about to record (`Records`). a worker that is not the owner may have an older copy, and what it has decided stays true until its `transition` refuses it; one whose acquisition lost the lease finds the job held. `Alone`: a job is acquired by one call at a time, without which a second fetch could end after the first was recorded |

The proof modules describe a step by what it does to a row (for instance `ClaimMoves`,
`GoesOn`, `Advances`) and derive the invariants from these descriptions, so that each
action is expanded once.

**The refinement.** `SemanticOutcome` is implemented by the record's state and the number of
side effects. `OutcomeInv` is what makes a step of the code a step of it: one delivery at a
time stands inside `run`; everything that acted or may still act is that delivery's
invocation; while a delivery is before its handler, or reports a failure that is known,
nothing has happened; a record that invites a new attempt (absent or `FAILED`) has nothing
behind it and nobody inside `run`. This is inductive but for two steps of the code: the
reopening `UPDATE`, which does not compare the state read before (finding 1), and the
failure recorded when a statement fails after the handler may have acted (section 5, *seen
without a run*). So
`ImplementsOutcome` has the absence of the two as its hypotheses, `[]ReopenOnlyFailed` and
`[]FailureIsKnown`, and says that these are the only ways in which the code departs from
its specification: crashes, expiring leases, lost answers, shared jobs and rotated records
are not. Both are predicates of the state before the step, `At(r, "reopen")` with another
state of the record and `At(r, "fail")` with an invocation that happened.
`OnlyTheGapsRepeat` says the same of the number of side effects.
`PairsDeliverAtMostOnce` has assumptions on the constants in their place. `InPairs` (no
message is delivered more than twice) suffices for the first, because of two deliveries that
read `FAILED` one is the owner that failed and has left; the second delivery of a pair is
alone at the reopening. A delivery with another fingerprint is refused before it gets there.
`MaxFaults = 0` suffices for the second. `PairInv` says so. The instance of
`delivery_outcome` satisfies both assumptions; crashes stay unbounded.

**The second call.** `NeverSentAgain` is false (finding 3); the theorem has the absence of the
gap as its hypothesis. `NoCallTakenOver`: when a dispatch claims a job whose lease has expired,
no receipt of the job is `RUNNING` or `OUTCOME_UNKNOWN`, as if `recoverExpiredExecutions` and
`claimNext` were one transaction. `SentInv` then is inductive while nothing was restored: a job
has one receipt at most (`OneReceipt`), it is not `PENDING` or `RETRYABLE` while its call is
under way (`KeptBack`), and a dispatch that holds the lease on its way to a call finds no receipt
of any key (`Seeks`). TLC checked `SentInv` under the hypothesis with two slow leases, a fault
and a crash before it was proved.

**One effect per message.** `NoLateEffect` follows from `NewEffect` (a new effect finds all
smaller sequences acted on) once no message can act twice. `OnceInv` says that while no
statement failed: a message has one trace at most, an effect or an orphan; a delivery that
stands before its handler with the claim finds no trace of its message; a record `FAILED` or
absent has none. A handler that timed out leaves its orphan, and its record goes to
`OUTCOME_UNKNOWN`, which nobody reopens. `StreamInv` states it, and that an effect has its
predecessors, with the condition `faults = 0`. The assumption on the constants, a sequence
per message, is what an ordering key means, but nothing in the runtime enforces it: the
envelope brings the sequence. Without it the theorem is false. One of two messages with one
sequence loses its claim to the other, the successor follows, and then the handler of the
first acts (TLC shows it in twelve states). The instance of `ordered_stream` satisfies the assumption.
TLC checked `OnceInv` on an instance with two attempts before it was proved.

**Model-checked only.** Liveness (`Settles`, `Returns`, `ClaimEnds`, `StoredIsDecided`,
`UnusedIsReturned`, `RunSettles`, `FeedbackIsPublished`, `HeldEnds`), because the prover
handles neither fairness nor ENABLED.
The invariants, action properties and the refinement that passing runs check are all
theorems, `DeliversAtMostOnce` and `NoLateEffect` under the hypotheses above.
`SucceededIsAnswerable`, which a run refutes, is liveness too.

**Proved only.** `AnswerIsFinal`, `PublishedIsHandedOver` and `EndIsFinal` are theorems for
every instance and are in no run.

## 7. Plan

In this order; the twelve runs above are merged where instances allow, so that each new
module gets a run of its own.

1. `DeadLetterReplay` on top of `ConnectorDelivery`: an unknown outcome is not replayed, an
   authorization is used once; the dead letter of a feedback consumer ends `ActionExecution`.
2. `DiscoveryRuntime`: four rows under one lease, takeover with saved stage outputs.
3. The claimed outbox of the canonical commit, whose protocol is that of the feedback outbox
   of `ActionExecution`.

## 8. Not modelled

The components marked `not_modelled` in `PROJECT.json` are either planned above or keep no
protocol state (user interface, contracts, validation, parsers, wiring). Of the modelled
components these parts are left out: `enqueue` and `cancel` of the job runtime (no caller),
authorization and tracing of deliveries, durable queries (one identity per message), the
unbound claim of relation jobs and its local daily ceiling (no caller under the global
authority), `status()`, the frontier and insertion of relation jobs, and the recorded
completion without edges. Of answer runs: their creation, `execute()` and `claimInitial`
(the inline path of assemblies without a worker), exports, feedback, transition seeds and
the event log that readers stream. Of actions: candidates and previews (one transaction
before the action exists), `SOURCE_RESET`, the backfill of outbox rows (no caller in the
product) and the replay of the review's dead letters. Of the refresh: the spacing of
attempts, the source security checks (a denial each) and the content of what is staged. Of
the command ledger: the commands of other resources, which use the same rows. Time is
abstract throughout: a lease is live or expired, a retry due or not.
