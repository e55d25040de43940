# Romeo: specifications and proofs

Romeo is a self-hosted AI workspace: a TypeScript server (`src/packages/core`,
Drizzle over PostgreSQL in `src/packages/db`, the agent loop in
`src/packages/ai-runtime`) that several processes run side by side on one
database. This directory holds TLA+ models of the part of it that is hardest to
get right: what happens to one *run*, an answer of an assistant in the making,
when processes crash, stall, race and retry.

| Module | What it is |
|---|---|
| `JobOwnership` | What a leased background job promises, with no clock and no optimistic update (abstract) |
| `JobLease` | The claim / renew / update protocol on one row of `background_jobs` that implements it |
| `JobLease_proofs` | Theorems of `JobLease`, among them the refinement of `JobOwnership` |
| `RunExecution` | One run across processes: execution, suspension, continuation, cancellation, recovery |
| `RunClaims` | What documents and tests say of a run and the code does not keep (properties of `RunExecution`) |
| `RunExecution_proofs` | Theorems of `RunExecution`: the types, then the invariants |
| `QueuedTurns` | The queued turns of a chat, drained by several processes beside direct starts |
| `ToolDispatch` | A tool operation dispatched to external workers: enqueue, claims, the four calls that settle it |
| `WebhookDelivery` | The event of an ended run on its way from the terminal outbox to the webhook subscribers |
| `CommandOnce` | What an idempotency key promises its callers (abstract) |
| `Idempotency` | The receipt of a keyed command, its lease, takeover and completion, which implements it |
| `EventFeed` | What a page is promised of a run's event stream (abstract) |
| `RunEventLog` | Sequence numbers, inserts, notices, the replay loop and the page's consumer, which implement it |
| `PolicyApproval` | The content-policy pause of a run beside execution, recovery and cancellation |
| `Quota` | The use of a metric, counted in rows that callers overwrite and in the coordinator's shared counters |
| `RunDelivery_proofs` | Theorems of `RunEventLog`, among them the refinement of `EventFeed`, and of `WebhookDelivery` |
| `Idempotency_proofs`, `Quota_proofs`, `ToolDispatch_proofs`, `QueuedTurns_proofs`, `PolicyApproval_proofs` | Theorems of these modules, among them the refinement of `CommandOnce` |
| `MC...` | The small instances TLC checks, one per module |

## 1. Inventory

### The core: a run and its jobs

| Component | State it keeps | Operations | Talks to |
|---|---|---|---|
| Background-job lease (`db/operational-repository.ts`, `operational-worker-lease.ts`) | a `background_jobs` row: status, `updatedAt`, `payload.workerLease` (worker, token, attempt, `expiresAt`) | create, list, claim (`FOR UPDATE SKIP LOCKED`), renew and leased update (SELECT, then an UPDATE guarded by `updatedAt`) | every worker of the system |
| Run execution and checkpoints (`run-streaming-execution-service.ts`, `run-execution-state-service.ts`) | in memory: the job as last written, the text so far, the tool-call count, the abort controller; in the database: job payload, checkpoint object | claim, execute, checkpoint per event, markWaiting, markQueued, markContinuing, finish, heartbeat | lease, event log, tools, terminal service |
| Run completion and cancellation (`run-terminal-service.ts`, `run-terminal-effects.ts`) | `runs.status`, terminal event, usage, audit row, assistant message, outbox job | complete, cancel; one transaction that compares the status | event log, dispatch requests, abort controllers of its own process |
| Run recovery (`run-recovery-coordinator.ts`, `run-recovery-service.ts`) | nothing of its own; reads run, events, jobs | close the job of a run that ended or waits; execute again before output; fail after output | lease, execution, terminal effects |
| Run continuation (`run-continuation-service.ts`) | nothing of its own | resume after an approved tool; wait for a dispatch request; resume after its answer | execution, event log |
| Run event log (`run-event-sequencer.ts`, `run-repository.ts`, `run-stream-service.ts`) | `run_events` with sequence numbers | assign, append, rebuild the text from the events | readers of the chat, continuation |
| Tool approval (`tool-approval-command-service.ts`) | the approval row | approve, deny, cancel | run status, continuation |
| Tool dispatch requests (`tool-operation-dispatch-requests.ts`) | a job of type `tool.operation.dispatch_request` | queue, claim, complete, fail, cancel, expire | continuation, cancel |
| Queued chat turns (`run-queue-service.ts`, `queued-chat-turn-repository.ts`) | `queued_chat_turns`: status, attempts, lease token | enqueue, cancel, drain (claim, start the run, finish) | run start, terminal service |
| Content-policy approval (`run-policy-approval-lifecycle.ts`, `run-policy-approval-resumption.ts`) | an answer held back, its approval | pause, approve, deny, expire, resume | execution, recovery, terminal service |
| Run event replay (`run-events.ts`, `run-event-sequencer.ts`, `valkey-run-event-transport.ts`, the page's `run-registry.ts`) | a cursor and a wake-up per reader; `afterSequence` per page | subscribe, read a page, wait or poll; apply, reconnect, attach again | event log, Pub/Sub |
| Terminal outbox and webhooks (`run-terminal-effects.ts`, `webhook-service.ts`, `webhook-delivery-engine.ts`) | the outbox job, `webhook_deliveries` with status, attempts and lease | drain, deliver, attempt, complete, retry, disable | lease, subscribers |
| Idempotency of API calls (`idempotency-service.ts`, `idempotency-repository.ts`) | `idempotency_receipts`: state, request hash, lease token, stored answer | claim, take over, replay, complete, fail | every keyed command |
| Quota (`consume-quota.ts`, `quota-resets.ts`, `valkey-quota-coordinator.ts`, `quota-service.ts`) | `quota_buckets` with `used` and `resetAt`; a counter per bucket and `resetAt` in Valkey | reset what is due, check, reserve, write back, alert; update and sync | run start, OpenAI endpoint, uploads, tools |

How they interact. A request starts a run in one transaction and calls
`execute` without waiting for it. `execute` claims the run's execution job,
takes the events of the provider stream one by one, and for each of them appends
to the event log and then checkpoints the job; a heartbeat in the same process
renews the lease meanwhile. A tool call is executed in line, or suspends the run
until an operator approves it or an external worker answers a dispatch request;
a later HTTP request, maybe in another process, continues the run as a new
execution. Whoever reads a chat calls `recover`, which is how an execution that
died with its process is found. Nothing but the database rows connects the
processes: an abort controller reaches only an execution in the same one.

What makes it hard, and what is right:

* *Lease.* Claims compare `updatedAt`, leased calls compare `expiresAt`, and the
  optimistic UPDATE compares a copy read earlier. Right means: exclusive
  ownership, no write of a former owner, an abandoned job is claimed again.
* *Execution.* Each event is two writes (log, checkpoint) with a crash possible
  between them. Right means: the job never says less than what a tool call or a
  reader has already seen, the checkpoint belongs to its owner, nothing is shown
  twice.
* *Terminal transition.* Completion, cancellation, denial, recovery and a resumed
  execution race. Right means: effects once, an ended run stays ended and has them.
* *Suspension.* The run is marked, the job checkpointed and closed, and the event
  appended, in four steps; the answer may arrive between any two. Right means:
  no job is closed while its run still runs, and every answer continues the run.
* *Recovery.* Acts on a snapshot some awaits old. Right means: it ends every
  orphan and disturbs no live run.
* *Queue.* A turn is leased (with three statements that a renewal may come between),
  started and finished in separate transactions, while users start runs of the same
  chat. Right means: in order, once unless something
  failed, none forgotten, none after it was cancelled.
* *Dispatch.* The calls that settle a request read it and write it back unguarded,
  and a lease names an account that several workers share. Right means: bounded
  executions, an outcome at last, the payload there while it is needed and gone
  afterwards unless its deletion failed.
* *Webhooks.* Two leases on top of each other, both shorter than a slow
  subscriber. Right means: everybody is told, and once unless something failed.
* *Idempotency.* The lease is not renewed and is taken over, by a read and a write
  that a completion may come between. Right means: one
  outcome, whatever was executed, and no caller told of another.
* *Event stream.* Numbers are taken before the insert and notices are best effort.
  Right means: in order, each once, and without waiting for a notice that was lost.
* *Policy approval.* Decisions in several processes, expiry, cancellation and
  recovery of a run that waits. Right means: the decision has its effect and the answer goes on where it
  was held.
* *Quota.* Callers check and overwrite whole rows they have read, inside and
  outside of transactions, over resets and updates. Right means: no more is given
  out than the limit, nothing less is refused, and the alert is raised.

### The rest of the system

Every component is in `PROJECT.json` with its reason for being modelled or not.
In short: the provider loop with its circuit breaker and the audit chain have
logic worth a module still (section 2). File lifecycle, knowledge
ingestion, data-connector synchronisation, governance exports, browser tasks and
image jobs are workers over the same lease, which `JobLease` covers once; what
they do under it is data transformation or I/O. Identity, access control, chats
and messages, channels, the OpenAI and OpenWebUI compatible endpoints, voice,
provider adapters, billing, notifications, secrets, storage, the libraries, the
web application, the CLI and the API client are request translation, pure
functions or presentation.

## 2. Plan

In the order of importance; steps 1 to 9 are done.

1. `JobOwnership`, `JobLease`: the lease every worker depends on. *Checked, proved.*
2. `RunExecution`: the run across processes, on leases taken at the level of
   `JobOwnership`. *Checked; types and the safety invariants proved.*
3. `RunClaims`: what the documents promise of a run and the code does not keep.
4. `QueuedTurns`: the queue of a chat, with the other runs of the chat reduced to
   their number. *Checked; the safety properties proved.*
5. `EventFeed`, `RunEventLog`: the log from the writers to the page. *Checked;
   the safety properties and the refinement proved.*
6. `ToolDispatch`: the dispatch job with its own lease and its payload. *Checked;
   the safety properties proved.*
7. `PolicyApproval`: the third way to suspend a run, with the part of
   `RunExecution` it meets (checkpoint, completion, cancellation, recovery).
   *Checked; the safety properties proved.*
8. `WebhookDelivery`, `CommandOnce`, `Idempotency`: redelivery under leases with
   stable ids, keyed requests. *Checked; the safety properties and the refinement
   proved.*
9. `Quota`: the limit of a metric under overwritten rows. *Checked; the safety
   properties proved.*
10. A registry of abort controllers in `RunExecution` (an execution that rejects
    after registering stays "active" in its process), `ProviderAttempts`,
    `AuditChain`.
11. A refinement for `RunExecution`: an abstract run (running, suspended, ended,
    effects) as the specification it implements, once the exceptions of section 4
    are stated in it.

There is one run for each module, three for `RunExecution`, and one for a refuted
claim. The other refuted claims have their definitions and configurations and are
run by hand (section 4).

## 3. How the modules correspond to the code

`PROJECT.json` maps each definition to the lines it stands for. An action is one
transaction or one statement of the database, with the memory of its process
that changes in the same turn of the event loop; two awaits of the code are two
actions with any interleaving between them. Logging, metrics, names, the content
of messages, paging and authorisation checks that do not depend on the run's
progress are left out.

### JobLease

| Model | Code |
|---|---|
| `status`, `owner`, `progress`, `writer` | `background_jobs.status`, `workerLease.workerId`, the checkpoints in the payload, and who wrote the last one |
| `idle`, `ttl` | `now - updatedAt` and `expiresAt - now`, in ticks, cut off at `LeaseTicks` where the code stops telling values apart |
| `main[w]` | the update the execution of process `w` has in flight: stamped (the record with its `updatedAt` is built), selected (the row was read) |
| `beat[w]` | the same for its heartbeat; `orphan` once the execution is over and only the call in flight is left |
| `fresh` | no write of the row since it was read: exactly when the guarded UPDATE finds its `updatedAt` |
| `Claim`, `BeginUpdate`, `UpdateSelect`, `UpdateWrite`, `RenewSelect`, `RenewWrite` | the calls of `operational-repository.ts`, split at their awaits |
| `Tick`, `Crash` | time; the death of a process with its memory |

Two writes of the row are taken to carry different `updatedAt` (millisecond
stamps). A claim by the process that already executes the job is left to
`RunExecution` (`ceded`).

### RunExecution

| Model | Code |
|---|---|
| `status` | `runs.status` |
| `effects` | how often `persistTerminalRunInRepository` committed usage, audit row, message and outbox job; the second commit throws, because the audit row and the outbox job have ids made of the run's |
| `log` | what readers take from `run_events`: the parts `assistantContentFromRunEvents` puts together (`shown`), the last part logged (`written`), whether the last event is terminal (`ended`), and which processes hold a number below that of the last event (`overtaken`) |
| `quiet` | the last event is older than `runRecoveryStaleMs` |
| `jobs` | the rows of type `run.execution:<run>`: lease (`live`), `assistantOutputStarted` (`started`), the `assistantContent` of the checkpoint (`text`) and what its messages tell the provider (`part`) |
| `exec[w]` | the call of `execute` in process `w`: `mark` is `assistantOutputStarted` in its copy of the job, `late` the copies heartbeats have yet to bring, `ceded` that the job was claimed since, `aborted` its abort controller |
| `request[w]` | the HTTP request on the run that `w` serves: cancel, resume, readback, wait for dispatch, reconcile, recover |
| `approval`, `dispatch` | the approval of a tool call, the dispatch request linked to the run |

What each group of actions stands for:

* `ClaimList`, `CreateJob`, `TakeJob`: `claim`, with a list, a create and a claim
  that other processes may come between.
* `Begin`, `Delta`, `ToolCall`, `Checkpoint`, `LoseCheckpoint`, `Complete`,
  `Finish`: the loop of `execute`. `Begin` is every `message.started`: the first,
  that of a provider retry before output, that after a tool call the model
  reasoned about. `LoseCheckpoint` is free for an execution that lost its job
  and a fault for its owner (which `JobLease` shows possible).
* `RunTool`, `Suspend`, `Announce`: a tool call, and the four steps of a
  suspension. The waiting event takes its sequence number in `RunTool` and is
  appended in `Announce`.
* `Renew`, `LateRenewal`: the heartbeat, whose answer replaces the execution's
  copy of the job, at once or late.
* `CancelRead`, `CancelCommit`: `cancel`, which reads the run, aborts in its own
  process, and commits; `Deny`, `Approve`, `ExecuteApproved`, `ResumeRead`,
  `Continue`, `AwaitRead`, `Requeue`, `AnnounceDispatch`: approvals and
  continuation; `ClaimDispatch`, `AnswerDispatch`, `WithdrawDispatch`: the
  dispatch request.
* `ReconcileRead`, `ReconcileEvents`, `ReconcileList`, `ReconcileClaim`,
  `RecoverRead`, `RecoverEvents`, `Examine`, `Seize`, `FailRun`, `CloseJob`:
  `recover`, whose reads of the runs, of the events and of the jobs are steps of
  their own. The claim by type takes the *oldest* claimable job, the
  list shows the *newest* active one, and both are modelled so.
* `Lapse`, `GoQuiet`, `Crash`: a lease runs out (free when nobody heartbeats it,
  a fault otherwise: a stall), the event log grows old, a process dies or a call
  rejects. `execute` is called with `void`, so a rejection ends the execution and
  may end the process.

Simplifications, each of which leaves the behaviours in question possible:

* One execution of the run per process at a time. The workerId is per process
  (`run-service.ts:67`), and leased calls pass no `leaseAttempt`, so a second claim
  by the same process is told apart only by `ceded`.
* The leased calls of `RunExecution` succeed for the owner of a running job and
  may fail even then; that is `JobOwnership`, which `JobLease` is proved to
  implement.
* A sequence number and the insert of its event are one action, except for the
  waiting event, where the gap spans several other calls.
* The two halves of `recover` (closing jobs, looking after the run) are separate
  requests.
* A part that is produced again has the identity of the part it repeats.
* An unreadable checkpoint, a missing model and a missing provider are one fault
  branch of `Examine`.
* Content-policy pauses are left out here; `PolicyApproval` has them.

### QueuedTurns

| Model | Code |
|---|---|
| `status`, `attempts`, `owner`, `live` | the rows of `queued_chat_turns`; the owner is the process that knows `leaseToken`, `live` that `leaseExpiresAt` is ahead |
| `sent` | how often the turn's user message and run were committed |
| `drain[p]` | the drain of the chat in process `p` (`drainingChats` admits one): reading the runs, claiming, checking, creating, completing, rejecting |
| `runs`, `direct` | the runs of the chat that are not terminal, and users' own starts between their check and their commit |
| `Count`, `Insert` | the transaction of `enqueue`, which counts and inserts with other commits in between |
| `ReadLeases`, `Select`, `SelectNothing`, `Claim`, `ClaimLost` | the transaction of a claim, statement by statement: is a lease live, the oldest claimable row, the UPDATE that finds it claimable still or not. The advisory lock (`Unlocked`) keeps claims and cancellations apart; renewals, finishes and enqueues do not take it |
| `Poll`, `List`, `Check`, `StartRejected`, `Create`, `Complete`, `Reject`, `Renew` | the rest of `drain`, and its heartbeat; the start of the run is a check and a commit |
| `DirectCheck`, `DirectCreate` | a start that does not come from the queue |
| `ExpireAbandoned`, `Stall`, `LateError`, `Crash` | a lease nobody renews, a drain paused past 60 s, an error after the run was created, the death of the process |

`before` in `drain[p]` is the set of older turns that had a row when the turn was
selected, and `stalled` the turns whose lease ran out under a working drain.
A run is only counted; that it ends is `RunExecution`'s matter. A lease token is
the process that drew it, because a process drains a chat once at a time.

### ToolDispatch

| Model | Code |
|---|---|
| `status`, `lease`, `ref` | the dispatch job: its status, the account and attempt of `payload.workerLease`, the object its payload refers to |
| `stored`, `left` | the dispatch payloads in the object store; those whose deletion will not be tried again |
| `enqueue`, `StorePayload`, `CommitEnqueue`, `FailEnqueue`, `DropPayload` | `enqueueToolOperationDispatch`: the object is written before the transaction, and deleted after it when the job is not its own |
| `worker`, `Claim`, `ReadPayload`, `Execute`, `LoseCompletion` | the loop of `tool-dispatch-worker.ts` over the API; a claim beyond the last attempt writes a dead letter |
| `call`, `ReadForCompletion`, `ReadForFailure`, `ReadForOperator`, `Write` | complete, fail, cancel and expire: a read and a check, then an UPDATE by id with the copy that was read |
| `cleanup`, `DeletePayload` | the deletion of the payload after the commit |
| `LoseEnqueue`, `LoseDeletion` | a deletion that fails, which the code swallows, or a server that dies before it; an enqueue also between the store and its transaction |

`Write` leaves the lease as it is: the status it writes is terminal, and nothing
reads the lease of a terminal job. Renewals are not steps: a lease that is
renewed is one that stays live, and `ExpireLease` may come at any time. A payload in
`left` is what the comments of the code leave to the lifecycle expiry of the bucket,
which is not in the model. An enqueue whose commit succeeds and whose answer is lost
is not modelled (its catch block would delete the payload of the job it has created).

### WebhookDelivery

| Model | Code |
|---|---|
| `job` | the outbox job and its lease, 60 s and never renewed |
| `delivery`, `lease` | the row of `webhook_deliveries`: status, attempts, `nextAttemptAt`; the token and expiry of its own lease |
| `drain`, `attempt` | where a drain and each of its concurrent deliveries are; the same for the batch of a retrier |
| `posts` | the requests a subscriber has received (a counter of the model) |
| `ClaimJob`, `CreateDelivery`, `ClaimDelivery`, `Post`, `CompleteAttempt`, `EndDrain` | `drainRunTerminalOutbox`, `emit`, `deliver`, `attemptDelivery`, `completeWebhookDeliveryAttempt` |
| `ClaimDue`, `FetchSubscription` | `retryDueDeliveries` |
| `Disable`, `ComeDue`, `ExpireAbandoned...`, `Outlast...`, `Crash` | an administrator; time; the faults |
| `Throw` | a delivery that throws: `emit` rejects at once, the other lanes of `mapWithConcurrency` go on without it, and what its own lane had still to take may be begun by nobody |

### CommandOnce, Idempotency

`receipt` is the row of `idempotency_receipts`, `call[c]` the call of
`IdempotencyService.execute`. `Claim` inserts the receipt; a takeover is `ReadExpired`
and `TakeOver`, a SELECT and an UPDATE by id alone: the advisory lock (`Unlocked`)
keeps other claims out, not the completion or failure of the old owner. `claims`
counts the tokens given out, `token` the lease token of a claim, which names an
execution because an owner works once. `executed` and `answered` are counted by
the model. The refinement takes an execution for (token, request), the key for
open while the receipt is absent or in progress, and the outcome for the body of a
completed receipt. A completion whose answer is lost settles and tells nobody.

### EventFeed, RunEventLog

| Model | Code |
|---|---|
| `next`, `log`, `writer` | `runs.nextEventSequence`, `run_events`, and the writers between number and insert |
| `status` | of the run, as far as the reader asks for it |
| `notices`, `lost` | Pub/Sub: a set, so that notices come in any order; any of them may be dropped |
| `reader` | the replay loop: its cursor, `woken` (`RunEventWakeup`), `untilCaughtUp` |
| `buffer` | what was sent over the connection and not applied |
| `page`, `applied` | `run-registry.ts`: `afterSequence`, reconnects, the resting events it has seen |
| `Query`, `Wait`, `WakeUp`, `Poll` | one turn of `replayRunEvents`: a page is read, sent, and the loop waits or returns |
| `Attach`, `Connect`, `Apply`, `StreamEnds`, `Reconnect`, `Disconnect`, `ObserveEnd` | the page: it subscribes, applies, reconnects, and asks for the status at the end |

The refinement takes the numbers in `log` for the committed events, `late` for the
overtaken, `applied` and `page.after` for what is shown. The waiting events of an
approval and of a dispatch are one kind, and one page is followed: pages share
nothing but the log.

### PolicyApproval

| Model | Code |
|---|---|
| `status`, `effects` | as in `RunExecution`, the settled states as one |
| `approvals`, `overdue`, `blocked` | the content-policy approval rows; `expiresAt` passed; `expireDue` does not get to it, because one that fell due before it throws |
| `contended` | two processes have granted one approval, or an execution opened a job of its own after the run's job was closed |
| `job` | the execution job, with the `policyApproval` of its payload |
| `exec[w]`, `request[w]` | as in `RunExecution`, with the reads each request keeps across its awaits |
| `PauseCheckpoint`, `PauseRead`, `PauseCommit` | `pause`: the checkpoint, the reads of the transaction, its commit (all or nothing) |
| `Decide`, `ApproveRead`, `ApproveCommit`, `Resume`, `Deny` | `resolveLocked`, `approve`, `resumeApproved`, `terminate` |
| `ApproveLate` | the approver whose transition finds no row: the approval that another process has granted is returned to it, and it resumes the run as well |
| `Expire`, `ExpireDue`, `Block` | an expiry, by a late decision or by `expireDue`, which goes through the approvals of the organisation in one loop without a catch; `Block` is an approval of another run that throws in it |
| `CancelRead`, `CancelCommit`, `RecoverRead`, `Examine`, `Seize`, `FailRun`, `ReconcileRead`, `Reconcile`, `CloseJob` | cancellation and the two halves of recovery, as far as they meet a run that waits |

Parts are numbers in the order of the answer, so that "goes on where it was held"
is a statement about numbers. Tool calls are left to `RunExecution`. A request of
the recovery takes its reads together here (`RunExecution` has them one by one), and
so does `Resume`. Without an active job `claim` opens one of its own (`Opened`).

### Quota

| Model | Code |
|---|---|
| `rows`, `lock` | `quota_buckets`; the row lock of a transaction that has written a row and not committed |
| `drawn`, `over` | the values of `resetAt` drawn by `nextResetAt`, numbered; those that have passed |
| `counters` | the key of `keyFor`, one for each bucket and `resetAt` |
| `call[c]` | a call of `consumeQuotas`: its copy of the rows, what `reserve` has answered, the UPDATEs it has yet to make |
| `admin` | `QuotaService.update` |
| `reserved`, `setBack`, `announced` | counted by the model: units given out, counters that were set from outside, alerts |
| `List`, `DrawPeriods`, `ResetRow`, `Refuse`, `Reserve`, `ConsumeRow`, `Announce`, `Commit`, `Throw` | the statements of `consumeQuotas` in order, and the end of the caller's transaction |
| `UpdateRead`, `UpdateWrite`, `Sync`, `Elapse` | an administrator; time |
| `LoseReservation`, `Break`, `LoseSync`, `Evict` | the faults |

The metric of the instance is `run.started`, which the start of a run consumes in
its transaction and the OpenAI endpoint without one.

## 4. What the runs check

All runs have two of what races (processes, workers, drains, writers), and
`idempotency` three callers. `execution` and `suspension` use the symmetry
of the processes; runs with a liveness property do not. Deadlock is checked in
`lease` and `queue`, where something can always happen. The other configurations
say `CHECK_DEADLOCK FALSE`: a run, a request, an event or a key settles, and then
nothing more happens to it.

| Run | Shows |
|---|---|
| `lease` | Two workers, unbounded time, a lease of two ticks, two checkpoints: 653,379 states. `FreshCopyIsOwners` (a copy no write has outdated is the owner's), `ImplementsOwnership` (the protocol implements `JobOwnership`: no write of a former owner, no heartbeat that revives a settled job), `AbandonedIsReclaimed` (liveness). |
| `execution` | Output, a tool call, two requests at a time, a fault, secrets that may be rejected, within `ReadsAlone` (below): 0.81 million states. `ToolRunIsMarked` (while a tool runs under the last claim, the database says that output has started, so recovery will not run it again) and `CheckpointIsCurrent` (the checkpoint of the last claim is the answer as its execution has it). |
| `suspension` | Approval and dispatch, cancel, deny, resume, recovery: 1.18 million states. `TerminalEffectsOnce`: effects at most once, and every ended run has them unless a tool approval was denied. `ClosedJobLeftRunning`: no execution job is closed while its run runs (unless it was continued since): recovery would fail such a run as one that never started. Both are proved with crashes too (section 5); `MCRunCrash.cfg` has the instance, by hand: a dispatch with a crash anywhere, 1.34 million states. |
| `orphan` | A fault and fair scheduling: 0.30 million states. `OrphanSettles`: a run that nobody executes any more is ended, or suspended, by somebody. |
| `queue` | Two turns, a direct start, one fault, two attempts instead of three: 186,000 states. `SentOncePerFault` (a message is repeated only for a crash, a stall or a late error), `AttemptsBounded`, `StartedInOrder` (no turn overtakes an older one that was there, unless the drain of that one was paused past its lease; `ClaimsInOrder`, without the exception, is refuted below), `SettledIsNotSent` (what the user has seen cancelled, failed or completed is not sent), `TurnsSettle` (liveness). |
| `dispatch` | Two workers of one account, cancel and expire, two enqueues with one key, two attempts: 58,000 states. `ExecutionsBounded`, `PayloadAvailable` (a job that may still run has its payload, whoever created it), `SettledStaysSettled`, and with fairness `RequestSettles` (even when every worker crashes) and `PayloadDeleted` (once the request is settled, the payloads go, its own and those of the enqueues that came second, but those whose deletion failed or died with its server). |
| `webhook` | Two drains, two retriers, one subscription, two attempts, two faults: 66,000 states. `PostsAccounted` (each request a subscriber receives is a counted attempt, one being recorded, or the price of a fault), `CompletedJobReachedAll`, `DeliveredNotRepeated`, `OutboxDrains`, `FailedIsRetried` (liveness). |
| `idempotency` | Three callers, two requests, two faults: 5,645 states. `ImplementsKey` (the receipt implements `CommandOnce`), `CompletedByOwner` (a receipt is completed with the answer of the call that owns it at that moment, and taken over once more at most, by a call that had read it before), `ExecutedOncePerFault` (for the request that has claimed the key only), `FaultFreeSettles`. |
| `event_log` | Two writers, three events, pages of two, one reconnect: 362,000 states. `ImplementsFeed` (the page is an `EventFeed`: in order, each once, only overtaken events left out), `NoLostWakeup`, `EventReachesPage` (liveness, although every notice may be lost). |
| `policy_approval` | One part, two pauses, one fault, within `OneTrouble` (below): 348,000 states. `EndedWithEffects`; without a fault and without an approval granted by two processes `HeldUntilDecided`, `RefusedHasEnded`, `NothingRepeated`, `OneExecution`; with fairness `RunGoesOn` and `ApprovalIsDecided` (but for a run that came back after its end, and an approval that `expireDue` does not get to). |
| `quota` | A run start, an OpenAI completion, two buckets, an update, the end of a period, a fault: 4.9 million states. `LimitKept` (no more units of a period are given out than its limit, unless its counter was set back), `RefusedWhenSpent` (a refused call finds a bucket spent and costs the others nothing), `SeverityAnnounced` (the level the use has reached was announced). |
| `terminal_final` | The refuted claim `TerminalIsFinal`, below. |

Why the bounds are enough. Two processes are the fewest that race, and every
conflict of the code is between an owner and one other. Two jobs are needed
because a continuation creates a second one, and enough because recovery looks
only at the newest and the oldest. One part of output and one tool call reach
every checkpoint and every suspension; the second part would only repeat the
first. One fault splits any two steps; `FreshCopyIsOwners` and the theorems below
do not depend on these numbers. In `JobLease` time is not bounded, and a lease of
two ticks separates "young", "old" and "expired". Two turns are the fewest that
have an order, and two attempts the fewest that leave both a retry and an end to
the retries. Three events with pages of two give a full page, a short one and a
number overtaken by a larger one. Three periods let two callers each draw the next
one. One subscription is enough for `webhook` because
subscriptions meet only where the job completes; two of them were checked once
(808,000 states, before the lanes of `Throw` were told apart). The second pause of
`policy_approval` is needed for two approvers of the first one to matter, and makes
the instance large: the constraint `OneTrouble` of `MCPolicyApproval` explores a
fault, a second pause and a run that came back one at a time. In `execution`
the constraint `ReadsAlone` keeps a recovery that still reads from other requests (not
from executions); without it the run has 5.6 million states and was done once. The
theorems of the safety properties have no such bounds. The two liveness
properties of `policy_approval` are checked for the behaviours that stay within the
constraint: a fault with one pause, two pauses without a fault, a return of the run
that is not followed by a recovery. Every other bound is a CONSTANT named `Max...` (and `AttemptLimit`,
`PageSize`), and a guard of the model names it.

Fairness, where it is assumed (`FairSpec`, `HookFairSpec`):

* `JobLease`: time passes; something keeps claiming (the pollers of the workers
  and the readers of chats); an UPDATE of a renewal that was begun returns.
  Nothing is assumed of executions: they may stop for ever.
* `RunExecution`: an execution and a request that can go on do (awaits return,
  with a result or a rejection); a lease nobody heartbeats runs out and a log
  nobody appends to grows old; somebody keeps reading the chat, in a process that
  does not execute the run, and its recovery reads on (`Look`). That is what the
  code relies on: `recover` has no timer of its own.
* `QueuedTurns`: the steps of a drain and of a commit return; runs of the chat end;
  time passes; a client that shows a waiting turn polls (its page does, while
  turns are queued).
* `ToolDispatch`: workers poll and their calls return, the server finishes what it
  has begun, a lease that nobody settles runs out. Crashes are not kept from
  happening; the attempts end them. A deletion is tried once, and may fail or be
  lost instead of being made.
* `WebhookDelivery`: drains are started every second and the retry job on its
  schedule, a request times out, time passes.
* `Idempotency`: a call that has begun goes on. Nobody has to call again.
* `RunEventLog`: the replay loop with its poll, and the page with its retries, go
  on. Nothing is assumed of notices or of writers.
* `PolicyApproval`: awaits return, a lease nobody renews runs out, the log grows
  old, somebody reads the chat, and an administrator opens the list of approvals,
  which is what expires them (`expireDue` has no timer). The fairness is that of the
  loop, which takes the approvals in the order in which they fell due and ends at
  the first that throws, not that of each approval.

`Crash`, `Stall`, `Throw` and their like are faults with a budget (`MaxFaults`),
never fair. Where a property holds only up to a fault it says which.

### Refuted claims

A refuted claim is a statement of a plan, a comment or a test that TLC shows the
code does not keep. The first one is the run `terminal_final`, and `PROJECT.json`
"findings" quotes it with its line. The others are in the named configuration, one
active and the others commented out, to be run by hand; each of them fails.

`RunExecution` (`RunClaims`; `MCRun_TerminalIsFinal.cfg`, `MCRunClaims_Safety.cfg`,
`MCRunClaims_Liveness.cfg`):

| Property | How it fails |
|---|---|
| `TerminalIsFinal` | a cancellation commits between a tool call and `markWaiting`; `updateRun` does not look, and the cancelled run waits for approval again |
| `EndedHasEffects` | a denied approval cancels the run on a path of its own: no usage, audit row, message or webhook job |
| `DispatchEndsWithRun` | `cancel` read the run as running, the run queues its tool call, the cancellation commits and leaves the dispatch request to the workers |
| `ShownOnce` | an execution whose lease lapsed appends its part after the retry of the run, in another process, has logged the same one; only its checkpoint finds the lease lost |
| `MarkIsKept` | the answer of a slow heartbeat brings back the job as it was before output, and the next checkpoint writes that |
| `TerminalTail` | an execution in another process appends after the terminal event |
| `TextOnce` | a retry takes its text from the checkpoint as claimed and its messages from the checkpoint as examined |
| `TextIsWhole` | a continuation rebuilds the text from the events after the last `message.started` |
| `RetriesOnlyRunning`, `RetriesBeforeOutput`, `LiveLeaseNotRecovered` | recovery acts on a status, a job or the absence of one that it read before somebody else went on |
| `AnswerContinues` | a worker answers before `markQueued`; the readback finds the run running and goes, and the run stays queued for ever |
| `RunningSettles` | secrets that cannot be resolved fail every retry in the same way before output, and nothing counts the retries |

The other modules (`MC<module>_Refuted.cfg`):

| Module | Property | How it fails |
|---|---|---|
| `JobLease` | `LostMeansLost` | the heartbeat of the same worker renews between the SELECT and the UPDATE of its checkpoint; the checkpoint reports a lost lease and the run is thrown away |
| | `LiveLeaseNotStolen` | an update stamps `updatedAt` before it reads the row, so it may move `updatedAt` behind a renewal, and a claim looks at `updatedAt` only |
| `QueuedTurns` | `TurnSentOnce` | a crash, a stall or a late error between the start of the run and the finish of the lease sends the message again |
| | `OneLiveLease` | a renewal does not look at the expiry: a drain that was paused revives its lease after an older turn, inserted late, was leased |
| | `ClaimsInOrder` ("Make claim atomic and ordered per chat.", `docs/plans/2026-07-16-openwebui-core-production-readiness.md:79`) | a drain that was paused renews its lease between the two SELECTs of a claim: the claim has seen no live lease, no longer finds that turn claimable, and starts the next one |
| | `QueueBound` | two enqueues count the waiting turns at once |
| | `OneActiveRun` | two starts check the chat at once |
| `ToolDispatch` | `OutcomeIsFinal` | two terminal calls overlap; both pass the check, the later one replaces the outcome |
| | `ExecutedOnce` | a request whose lease was lost is executed again |
| `WebhookDelivery` | `SentOncePerAttempt` | a crash between the answer and its record, or an attempt longer than its lease, sends the event again |
| | `PendingSettles` | a drain passes over a delivery under another drain's lease and completes the job; the answer is then discarded for its lease, and nothing retries a *pending* delivery |
| `Idempotency` | `OneOwner` | work longer than 15 minutes is joined by the work of the takeover |
| | `FailedHadNoEffect` | an error after the effect makes the receipt "failed, use a new key", and the new key repeats the effect |
| | `CompletedByLastOwner` ("preventing an expired worker from publishing over a takeover", `docs/architecture/common-idempotency.md:54`) | the old owner completes the receipt between the SELECT and the UPDATE of the takeover, which is by id: its answer stands under the new token, and the new owner works for nothing |
| `RunEventLog` | `NothingSkipped` | a number below the cursor that is inserted late is neither announced nor read |
| | `SuspendedAtWait` | a page that comes back to a continued run is sent the old waiting event, and its stream ends there |
| `Quota` | `OneLimitAtATime` | two calls that find a period over draw two `resetAt`, each with a counter of its own |
| | `RowIsCounter` | a transaction that is rolled back leaves its unit in the counter, and the later of two writes may have the smaller figure |
| | `LimitKept`, with the coordinator disabled | two calls check the same row, and each writes its own sum |
| `PolicyApproval` | `EndedStaysEnded` | a cancellation commits between the read and the commit of `approve`, or of `pause`, and is overwritten |
| | `ResumedOnce` | the recovery of a resumed execution starts over from the conversation |
| | `GrantedOnce` ("resumes or terminates the durable run exactly once", `docs/plans/2026-08-23-enterprise-remediation-plan.md:954`) | two processes grant one approval; the loser resumes the run as well, and goes on from the first pause when the run is past it |
| | `ExpiryComes` | an approval whose refusal throws ends the loop of `expireDue` every time, and those that fell due after it stay pending |
| | `WaitingIsNotExecuted` | a recovery that looked before the pause executes, or fails, the waiting run |

## 5. What is proved

The proofs hold for every set of processes and every value of the bounds, under
the assumptions on the constants that the modules name (`LeaseTicksAssumption`,
`MaxProgressAssumption`, `BoundsAssumption`, `SuspensionsAssumption`,
`NoneAssumption`, ...), which say that bounds are numbers, that `None` is none of
the things it stands in for, and, in `ToolDispatch` and `Quota`, that every worker
has an account and every call its buckets. `JobOwnership` and `CommandOnce` have
none. "Without faults" below is `faults = 0` (or `stalls = 0`) in the property itself.

### JobLease

`TypeCorrect`, `FreshCopies`, `LeaseImplementsOwnership`, `OwnerWritesAlone`. The
inductive invariant is `LeaseInv`: the types, `FreshCopyIsOwners`, and `CheckpointFits` (a checkpoint in
flight of the owner still fits the bound, which the type of `progress` needs).
`FreshCopyIsOwners` is what makes the optimistic UPDATE safe: the UPDATE looks at
nothing but `updatedAt`, so that the writer still owns a running job has to follow
from the freshness of the copy, and it does because every write of the row, a
renewal included, outdates every copy. Refinement is then one step per action: a
claim is a claim, a committed update a checkpoint or a release, all others
stutter. The clock plays no part in it, which is why a live job that is claimed
early (`LiveLeaseNotStolen`) still loses no write. `OwnerWritesAlone` is what this
comes to for code under a lease: a settled job never changes, progress is never
lost, every write and every release is the owner's, and ownership changes without a
write.

### RunExecution

`TypeCorrect`, `ToolCallsAreMarked`, `CheckpointsAreCurrent`, `ClosedMeansLeft`,
`EffectsOnce`. The first part of `RunExecution_proofs` shows that a step keeps the
types, one lemma per operation; the second adds the invariants. `RunInv` is
inductive:

| Conjunct | Why it is needed |
|---|---|
| `TypeOK`, `Placed` | an execution past the claim has a job |
| `ToolRunIsMarked` | theorem `ToolCallsAreMarked` |
| `CheckpointIsCurrent` | theorem `CheckpointsAreCurrent` |
| `ClosersLeft` | whoever is about to close a job (an execution that finishes, a reconciliation) knows that the run left the running state, or was continued since |
| `ClosedJobLeftRunning` | theorem `ClosedMeansLeft`, from `ClosersLeft` |
| `TerminalEffectsOnce` | theorem `EffectsOnce` |

The argument of the first two goes through four facts proved of single steps:
what a step may do to a job (`JobSteps`), where an execution may move
(`ExecMoves`), that an execution which has checkpointed under the last claim has
decided what the job says (`Decides`), and that a run which has left the running
state stays left in the sense of `Left` (`LeftIsStable`). "Under the last claim"
is `Owns` without `ceded`: the invariants are false without `ceded`, because a
process can claim a job its own stalled execution still holds.

`EffectsOnce` says what the code gives and no more: its exception, a denied
approval, is the refuted claim `EndedHasEffects`; and that effects stay at one although
the status does not (`TerminalIsFinal`) rests on the ids of the audit row and the
outbox job, which is what the mutant of that property removes.

### ToolDispatch

`TypeCorrect`, `ExecutionsAreBounded`, `PayloadStaysAvailable`, `SettledIsFinal`, from
`DispatchInv`:

| Conjunct | Why it is needed |
|---|---|
| `TypeOK` | |
| `Attempts` | workers that have claimed an attempt and not spent it, and the attempts spent, are no more than the attempts given out; the bound on executions follows by counting workers, not by looking at the lease, because a lease names an account that many workers share |
| `Payloads` | an enqueue that has stored its payload and not decided has it still, and no job refers to it nor to one that is to be deleted; a deletion is pending only of a settled job: with `PayloadAvailable`, two enqueues with one key cannot delete each other's |

`SettledIsFinal` is an action property: the four calls that settle a request all
write a terminal status, and a claim looks at the status in its UPDATE, so that
overlapping calls change the outcome (`OutcomeIsFinal` is refuted) and never reopen it.

### QueuedTurns

`TypeCorrect`, `SendsArePaid`, `ClaimsAreBounded`, `StartsAreInOrder`,
`SettledNeverSent`, from `QueueInv`:

| Conjunct | Why it is needed |
|---|---|
| `TypeOK`, `CountersAgree`, `WorkHasTurn` | a drain at work has a turn; stalls are faults |
| `ClaimAlone` | one process at most is in the transaction of a claim (the advisory lock); and once it has seen no live lease, a lease that is live was renewed by a drain that had been paused |
| `SelectedInOrder` | `StartedInOrder` from the moment the turn is selected: an older turn with a row was passed over because it was settled, or because its lease had come back, which `ClaimAlone` allows to a paused drain only |
| `OwnersWork` | whoever a leased row belongs to is at work on it |
| `StartsArePaid` | starts made, drains about to make one, and rows that wait for one are, for each turn, at most one and one for each fault: the sum that a claim, a commit, an expiry and a crash move around and only a fault increases |
| `ClaimsArePaid` | the same for the attempts |
| `UnstalledHold` | as long as no drain was paused past its lease, those at work hold theirs; `SettledNeverSent` follows |

### Idempotency

`TypeCorrect`, `CompletionIsOwners`, `ExecutionsArePaid`,
`ReceiptImplementsKey`, `CallersAreToldOne`, from `KeyInv`:

| Conjunct | Why it is needed |
|---|---|
| `TypeOK` | |
| `Tokens` | the token in the receipt is the last one given out, and all tokens in use were given out for the request of the receipt |
| `TakeoverIsPaid` | as many tokens were given out as there were faults, and one: a lease that may be taken over has cost a fault before |
| `OutcomeTookPlace` | a completion that is on its way, or committed, is of an execution that took place |
| `TakingAlone` | one takeover at a time is between its read and its write, and a token is left for it: the read saw a lapsed lease, which was paid for, and nothing makes it live before the write |
| `LateByOne` | a completed receipt holds its owner's answer, or was taken over since by the one takeover that had read it before; theorem `CompletionIsOwners` |

Executions have different tokens, so there are as many at most as tokens
(`ExecutionsAreTokens`), and `TakeoverIsPaid` counts those. The refinement of
`CommandOnce` is a step per action: work is an execution, a completion that still
has the token settles the key, whether or not its caller hears of it, a replay
answers, and claims, takeovers and failures stutter. From the refinement,
`CallersAreToldOne`: nobody is told of an execution other than the one the completed
receipt keeps.

### RunEventLog

`LogTypes`, `NoWakeupIsLost`, `LogImplementsFeed`, `PageShowsWhole` (in `RunDelivery_proofs`), from
`LogInv`:

| Conjunct | Why it is needed |
|---|---|
| `TypeOK` | |
| `NumbersFree` | numbers above `next` are unused, and each writer's number is its own with no event yet: an insert never replaces an event |
| `Stream` | the page and the reader are each at 0 or at a number whose event is committed, the page not ahead of the reader; a page without a connection has no reader and an empty buffer |
| `Buffered` | what was sent and not applied lies between the page and the reader, in ascending order |
| `NoGap` | between the page and the reader nothing is missing from the buffer but overtaken events |
| `Announced` | unless a notice was lost, what a resting reader has not read is announced by a notice that is still to come, or has woken it; `NoLostWakeup` is a case of it |

That the cursor is always at an *event* is what makes skipping exact: an event
committed at or below the cursor has a later one committed before it, so it is
overtaken in the sense of `EventFeed`, and `NoGap` survives the commit. A page that
is read continues the buffer: `PageRows` takes the smallest numbers ahead of the
cursor, each by its rank (how many numbers of the set are not larger), and
`RankOrders` and `PageOfRows` show with the pigeonhole theorem of the library that
every rank is taken once and that nothing between two rows is left out. No
induction over the page is needed, and any page size will do. The refinement is then
one step per action: an insert commits, an application shows the head of the
buffer, an attachment from the start restarts the feed, all others stutter. `PageShowsWhole`
follows from it: up to its position a page shows the whole log but for overtaken
events, which is the refuted `NothingSkipped` with its exception.

### WebhookDelivery

`HookTypesHold`, `PostsAreAccounted`, `PostsAreBounded`, `CompletedJobHasReachedAll`,
`DeliveredIsNotRepeated` (in `RunDelivery_proofs`, which extends both modules: what
a run sends out), from `HookInv`:

| Conjunct | Why it is needed |
|---|---|
| `HookTypeOK`, `overruns <= faults` | |
| `Emits` | a drain that emits without an error has made, or has yet to make, the row of each enabled subscription (one whose `emit` has rejected says nothing, whatever its detached lanes do); `CompletedJobReachedAll` follows when the drain completes the job, and stays because nothing enables a subscription or deletes a row |
| `Leased` | a live lease has an owner; while the owner is at work the delivery is neither delivered nor out of attempts |
| `Kept` | until an attempt outlasts its lease, whoever is at work on a delivery holds its lease; with `Leased`, `DeliveredNotRepeated` follows |
| `Account` | requests received, and attempts that lost their lease and may still post, are no more than attempts counted, an answer about to be recorded, and faults |

The account pays in advance. An attempt that loses its lease costs a fault at that
step, before it posts, so that the later request changes nothing on the right: it
moves from the attempts that may post to the requests received. `PostsAccounted`
itself, which counts every answer in flight, is not inductive: an answer that will
be discarded for its lease leaves the count and takes its request with it.
With `Leased`, whose last line keeps an attempt within the limit while its answer is
to be recorded, the account bounds the requests too (`PostsAreBounded`).
`Drain` and `Retrier` may be infinite; that the sets counted are finite is part of
`Account`.

### Quota

`TypeCorrect`, `CountersKeepLimits`, `RefusalsAreDue`, `AlertsAreRaised`. Each has
an invariant of its own over `TypeInv`:

| Invariant | Argument |
|---|---|
| `CounterKept` | the shared counter of a period that nobody set back covers what was given out and is at most the limit. The rows play no part: callers overwrite them from copies of any age. Needs `Coordinated`, the assumption of `CountersKeepLimits`: without the coordinator the claim is refuted (section 4) |
| `UseIsReserved` | the use in any row, any copy, any counter and any row a call is about to write was given out in its period, whatever fails; so a call that finds a bucket spent finds it rightly. (`RefusedWhenSpent` itself is stated without faults, because the unit may have been given to a call that failed later) |
| `SeveritySettled` | the severity of every row and every copy of it was announced, or a call that has written and not announced is about to: two calls that reach a level together do not each leave the alert to the other. Without faults, as the property says |

### PolicyApproval

`TypeCorrect`, `EndsHaveEffects`, `HeldTillDecided`, `RefusalsEnd`, `PartsOnce`,
`OneExecutes`, from `PauseInv`:

| Conjunct | Holds | Why it is needed |
|---|---|---|
| `TypeOK`, `EndedWithEffects` | always | theorem `EndsHaveEffects` |
| `ApprovalsLocked` | always | an approval that is being granted is pending and locked for one request, which has read the job with its id; unless an execution opened a job of its own, a run that waits has an approval in its job, which is what keeps a reconciliation off it |
| `HeldInOneHand` | until a fault, an approval granted by two processes, or the end of the run | a run that runs is in one hand: an execution that owns its job, or a request that is about to resume it; a run that waits has its job in the queue, for an approval that is pending; and no recovery is under way. `HeldTillDecided`, `PartsOnce` and `OneExecutes` are parts of it |
| `PendingIsAlone` | until a fault or such an approval | at most one approval is pending, the run then does not run, and no execution that still owns the job is about to ask for another |
| `EndedIsQuiet` | until a fault or such an approval | when a run ends, at most one execution is left of it, and none beside a pending or refused approval |
| `OvertakenIsIdle` | until a fault or such an approval | a reconciliation that saw an end which was overwritten since has no execution beside it that its claim would revive |
| `RefusedIsOver` | until a fault or such an approval | theorem `RefusalsEnd`; a refusal leaves no grant on its way |

The exception of an approval granted by two processes (`contended`) is the code's:
the loser of two approvers resumes the run as the winner does, and with a second
pause it may execute the run while it waits, or beside another execution
(`GrantedOnce` is refuted). Until two processes have granted one approval the
proofs hold for any number of pauses. `RefusedHasEnded` is stated for runs that come back after their end too
(`EndedStaysEnded` is refuted), where `HeldInOneHand` says nothing; the last four
conjuncts are what survives of it. Each action has a lemma that states its effect
on the parts of the state (`ClaimFacts`, ..., `CrashFacts`), and the preservation
of each conjunct is proved from those.

### Only model-checked

Liveness (`AbandonedIsReclaimed`, `OrphanSettles`, and the liveness properties of
the other modules) and ENABLED are outside what the installed provers do. Every
other property of a passing run is a theorem above; `OwnerWritesAlone`,
`CallersAreToldOne`, `PageShowsWhole` and `PostsAreBounded` are no properties of a run,
but TLC finds no violation of them on the instances of their modules either. No module declares a recursive
operator, so nothing is kept from proof on that account. Every inductive invariant
was checked by TLC on small instances before it was proved.

## 6. What is not modelled

Section 1 names the components left out, and section 3 the simplifications. Of the
components that are modelled, these parts are missing:

* of a run: paging of jobs and events, the deletion of checkpoint objects, the
  signature and expiry of tool approvals, the periodic check that the caller may
  still read the run, the registry of abort controllers (plan, step 10);
* of a chat: what its runs do to each other beyond one active run at a time (titles,
  branches, regenerated messages);
* of dispatch: the registry of controllers and the signing keys of workers;
* of webhooks: events that are not of a run, which are emitted in the request
  without an outbox, and the address check of each attempt;
* of the event stream: the reconnects of the Valkey client (a dropped notice covers
  what they cost) and the OpenAI compatible streams, which read the same loop;
* of idempotency: the deletion of expired receipts, which nothing in the server calls;
* of quota: creation and deletion of buckets, a change of the limit or of the
  interval, quantities other than one (uploads count bytes), two inputs of one call
  that meet in one bucket, and two resets that draw the same millisecond.

Outside of the components modelled, the circuit breaker and route choice of
providers and the audit chain keep state that races (plan, step 10). The rest of the repository (generated API clients, the web application,
provider adapters, evidence scripts, CRUD services) keeps no protocol of its own, or
keeps it in the same job leases.

## 7. Running it

    tlc -workers 2 -config MCJobLease.cfg MCJobLease.tla
    tlc -workers 2 -config MCRunExecution.cfg MCRunExecution.tla
    tlc -workers 2 -config MCRunCrash.cfg MCRunExecution.tla      (by hand)
    tlc -workers 2 -config MCPolicyApproval.cfg MCPolicyApproval.tla
    tlc -workers 2 -config MCRunClaims_Safety.cfg MCRunExecution.tla
    tlc -workers 2 -config MCPolicyApproval_Refuted.cfg MCPolicyApproval.tla
    tlapm JobLease_proofs.tla
    tlapm RunExecution_proofs.tla                          (and the other *_proofs)

`MCRunClaims_Safety.cfg` and `MCPolicyApproval_Refuted.cfg` show a refuted claim:
the one that is not commented out in the configuration. `PROJECT.json` lists which
run uses which configuration, and for each property of a passing run a mutant of
the model, marked "(Mutant)" in the modules, that it catches.
