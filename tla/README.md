# Avernet: a TLA+ verification project

This directory holds TLA+ specifications of three protocols of Avernet, TLC
configurations that model-check them on small instances, and proofs checked by
TLAPS that hold for every instance:

* **BCS Eventing** (`apps/bcs`, Rust): event subscriptions and webhook delivery;
* the **Backend task queue** (`apps/backend`, Python): durable background work
  shared by all pods of the backend;
* the **BaaS bot runs** (`apps/baas`, Python): the queue of requests to bots, the
  processes that serve it, and the distributed lock that serialises a session.

## 1. The system

Avernet is a platform for multi-agent collaboration. Its parts:

| Part | What it is | State and hard behaviour |
| --- | --- | --- |
| BCS (`apps/bcs`, Rust) | coordination server: groups, sessions, bots, messages, collaboration runs, events | several stores with leases, queues and compare-and-swap; background workers |
| BaaS (`apps/baas`, Python) | bot runtime: sandboxes, bot runs, scheduling, publishing | claims, heartbeats, locks, cancellation, periodic repair jobs |
| Backend (`apps/backend`, Python) | bot configuration, apply engine, genome promotion, task queue | leases, retries, deadlines; apply engine with drift detection |
| BCSFuse, EvolveRun | retrieval, team composition, evaluation | no protocol |
| Gateway, proxy | forwarding and authentication | I/O |
| Frontends, packages, engine adapter, singlebox, docker, devops | user interfaces, deployment | I/O |

The repository is far larger than one project can cover. What is modelled is
chosen by how much concurrent protocol it holds: each of the three subsystems is
a set of processes that share tables through single statements and repair each
other's crashes with leases, heartbeats or deadlines. Section 6 lists the rest.

### 1.1 BCS Eventing

Sources: `crates/services/bcs-event-store`, `crates/services/bcs-eventing`. The
contract is `apps/bcs/docs/superpowers/specs/2026-08-18-bcs-event-subscription-webhook-design.md`
(the *design*) and `apps/bcs/docs/event-webhook-integration-guide.md` (the *guide*).

* **Event repository** (`memory.rs`, `transaction_plan.rs`, `db/*.rs`). It keeps
  subscriptions with immutable numbered revisions, events with a sequence per
  stream, *fanout targets* (the outbox: what an event owes a subscription), the
  *deliveries* made of targets, and the *attempts* audited on each delivery. Each
  call runs under one write lock or in one transaction.
  Correct when: sequences grow; an event and its targets are stored together; a
  target becomes at most one delivery; a delivery in flight has one owner and one
  open attempt; closed attempts never change; an effect waits for its cause;
  purging never removes what something else refers to.
* **Subscription service and group provisioner** (`subscription.rs`). A patch or a
  delete *reads* the subscription, decides, and *writes* in a second call guarded
  by the revision. Correct when: a switched off subscription has nothing left to
  start; no event is lost between prepare and finalize of a group.
* **Fanout worker** (`fanout.rs`). Claims a batch of targets under a lease without
  heartbeat and materializes them one by one; a failed item does not stop the
  batch. Correct when every target eventually leaves the outbox.
* **Dispatcher** (`dispatcher.rs`). Claims a batch of eligible deliveries, runs one
  task per delivery with a heartbeat beside it, and stores the outcome fenced by
  owner, attempt number and lease. HTTP 410 disables the subscription first.
  Correct when the lane (one subscription, one stream) is delivered in order, no
  late worker changes a settled delivery, and no lane is blocked by a dead worker.
* **Retention worker** (`retention.rs`), **lifecycle** (`lifecycle.rs`), **retry
  policy** (`retry.rs`), **matcher, catalog, projection**, **webhook client**.

They interact only through the repository: producers append to the outbox in the
same transaction as their business change, workers poll, administrators and the
dispatcher race on the revision number of a subscription.

### 1.2 Backend task queue

Sources: `core/repository/implementations/platform/task_queue.py` (the table) and
`core/task_queue/` (worker, wake-up, service, types).

* **Repository.** One table row per task: status, app and type, idempotency key,
  the *live* key under a unique index, due time, deadline, lease, holder, number of
  attempts. Every operation is one guarded `UPDATE` or `INSERT`, except the claim
  (a scan, then one update per candidate).
* **Worker.** In each pod a loop scans, claims or retires candidates, runs the
  give-up hooks of those it retired, runs the claimed ones behind a semaphore with
  a heartbeat each, writes outcomes guarded by the holder, and sleeps until its
  poll interval or a wake-up.
* **Service.** `enqueue` inserts, or joins the live task of the key, or retries
  when that task ended in between; then wakes a pod.

Correct when: an accepted task ends, with one final result; at most one live task
has a key; while leases hold a task has one runner; a late worker never writes over
a later attempt; hooks report give-ups and nothing else; a wake-up is not lost.

### 1.3 BaaS bot runs and the distributed lock

Sources: `core/service/bot_run/` (worker, executors), `core/repository/bot_run_queue`,
`core/repository/bot_run`, `core/service/distributed_lock`,
`core/service/scheduler/_tasks` (timeout scan, recovery), `core/service/bcn/uplink`.

* **Two tables.** `baas_bot_run_queue` says who works on a run (PENDING, RUNNING
  with worker and heartbeat, DONE, an abort flag); `baas_bot_run` says how it ended.
  They are written by different statements.
* **Worker.** One asyncio loop per process: a tick counts the running rows and
  claims one; a task per claimed run goes through the executor layers (guard the
  result, lock the session, send); a *guardian* beats for the row and ends the run at
  its deadline; an *abort poll* watches the flag. `chat.abort` marks, flags, closes and cancels.
* **Periodic jobs.** The timeout scan closes overdue rows nobody beats for; the
  recovery task returns stale rows to PENDING and reaps expired lock rows.
* **Distributed lock.** A row per lock name with holder and expiry, a context per
  name in each process, a renewal thread per acquisition; release and forced unlock
  delete the row by its name.

Correct when: the requests of a session are served one at a time; the message of
a run is sent once; a closed row has a result or somebody about to write it; a
result is final; the caller (BCN) is told what the result says; every run ends and
is reported although bots never answer and processes die. The code does not provide all
of this: section 3 names the cases excepted from each property.

### 1.4 What is hard

Workers crash or outlive their leases between a claim and an outcome; batches and
statements fail in the middle; a snapshot is stale when it is written back; two
tables are updated one after the other; a task is cancelled at any await by several
parties; a lock row outlives, or is outlived by, its holder. `PROJECT.json` lists
each of these hazards at its line with the property that would catch it going wrong.

## 2. The modules

| Module | Contents |
| --- | --- |
| `EventStore` | the event repository: its state, helpers and one operator per call |
| `Eventing` | its callers, the faults, the clock; `Spec`, `FairSpec` and all properties |
| `TaskQueue` | the rows of the task table and what each statement does to one |
| `TaskWorker` | the pods: loop, jobs, heartbeats, enqueue, wake-ups, faults, the clock |
| `WorkSlots` | abstract specification: what a caller of the task queue is promised |
| `TaskQueueProperties` | the properties, and the refinement of `WorkSlots` |
| `DistributedLock` | the lock table and the lock service of each process |
| `BotRun` | both run tables, the processes, scan, recovery, abort, faults; extends `DistributedLock` |
| `BotRunProperties` | the properties of the bot runs |
| `MCEventing`, `MCTaskQueue`, `MCBotRun` | model values, constant functions and symmetry for TLC |
| `EventingTypeProofs`, `...AuditProofs`, `...CauseProofs`, `...TargetProofs`, `...OrderProofs` | proofs about Eventing, each module extending the one before it |
| `TaskQueueProofs` | proofs about the task queue |
| `BotRunProofs`, `BotRunFlowProofs` | proofs about the bot runs |

Operators named "Mutant" in a comment stand right before the operator they alter
and are not used by the specification: they are plausible bugs, each of which
makes TLC find the property it is listed with violated.

### 2.1 EventStore and Eventing

State of the store: `groups`, `subs` (with the sequence of revisions), `events` (by
commit number), `sequences` (`stream_sequences`), `targets`, `deliveries`,
`attempts`, and the two counters `appended` and `replays`.

| Operator | `memory.rs` |
| --- | --- |
| `AppendEvent`, `AppendTo` | `append_event`, `commit_mutation`, `append_event_to_state` |
| `ResolveCause`, `CauseConflict` | `resolve_causal_target` |
| `CreateSubscription`, `ReplaceRevision`, `CancelPendingSubscriptions` | the functions of those names |
| `FinalizeGroupProvisioning`, `Backfill`, `CommitGroupDeletion` | `finalize_group_provisioning`, `backfill_group_provisioning_targets`, `commit_group_deletion` |
| `ClaimFanoutTargets`, `MaterializeFanoutTarget` | the functions of those names |
| `ClaimDeliveries`, `RenewDeliveryLease`, `CompleteDeliveryAttempt` | the functions of those names |
| `CreateReplayTarget`, `SkipDeadLetteredDelivery`, `PurgeExpired` | the functions of those names |
| `Due`, `Eligible`, `DependencySatisfied`, `UnblocksLane`, `Purgeable`, `OpenReplays` | `delivery_is_due`, `delivery_is_eligible`, ... |

`Eventing` adds `drafts` (the snapshot a patch or delete works on), `batches`
(targets a fanout worker still has to materialize), `tasks` (what a dispatch worker
is sending, and at which stage) and `faults`; its actions are the operations of
section 1.1. Abstractions:

* A target id is what the code hashes (event, subscription, revision, purpose); a
  replay has a random id and gets a number. A target has at most one delivery, so
  the delivery carries the same identity.
* Deadlines are relative: `lease` and `wait` are ticks left. Only the comparison
  with the present is ever made. Retention takes weeks: it is the flag `expired`.
* Commit order stands for `recorded_at` and `created_at`. Two clock readings that
  disagree with commit order are not modelled (a listed hazard).
* Payloads, endpoints and filters: an endpoint is the revision that introduced
  it, a filter the set of types it matches, a projection succeeds or fails.
* One environment and group scopes only, which is all the service accepts.
  Authorization is reduced to the group existing and being active.
* The memory store and the SQL store differ in which targets may stand for a
  cause: the constant `ReplayAnswersCause` chooses.
* A *fault* is a crash, a failing repository call, or a lease that lapses while its
  worker still works under it, at most `MaxFaults` in a behaviour. A call that
  commits and whose answer is lost is a crash right after it. A lease owner is a
  worker name and a fresh UUID: a token nobody uses, since only equality matters.

### 2.2 TaskQueue and TaskWorker

`rows` is the table, times being seconds left. A pod has `pc` (where `_loop`
stands), `cand` (ids its scan read and has not tried), `retired` (retired, hook
not run), `won`, `jobs` (one coroutine per task: waiting for a slot, handling, writing,
reading back, running the hook; its attempt; whether its heartbeat still beats),
`call` (an `enqueue` in progress) and `signal`, `latch` (the wake-up on its way to
the loop, and the event). One action is one SQL statement, one await or one thread
hand-over. `Scan`, `ClaimRow`, `GiveUpRetired`, `BeginBatch`, `BatchDone`, `Wake`
are the loop; `StartHandler`, `Heartbeat`, `HandlerReturns`, `_apply`, `ApplyLost`,
`ReadBack`, `_give_up` a job; `Enqueue`, `_insert`, `InsertConflict`, `Lookup`,
`CheckStranded`, `Notify`, `Deliver` the service; `ClaimFault`, `HeartbeatFault`,
`ApplyFault`, `Stop` and `Tick` what happens to them. Abstractions:

* A handler is the set of outcomes it can return; it may take any time, and in
  `FairSpec` it returns.
* The update of a claim and the read-back of the claimed row are one step (the row is held by
  then). A statement commits by itself (AUTOCOMMIT engine).
* The order within one branch of the candidate scan is any order; the two branches
  and the batch limit are kept. `env` is folded into `app`.
* `Stop` is the death of the process; a worker id is never used again.
* History, read by no action: `ender`, `hookedBy`, `lapsed`, `owed`.

### 2.3 DistributedLock and BotRun

`lock` (a row per name: holder, and whether it ran out), `ctx` (`_lock_contexts` of
each process) and `threads` (live renewal threads) are the lock; `queue` and `result`
the two tables; `exec` the tasks of claimed runs with the await they are at,
whether cancellation is requested and which of guardian and poll still watch;
`tasks` is `_running_tasks`; `room` a tick that has counted below the limit and
not claimed yet; `scan` and `abort` the record the scan or an abort call is at.

One action is one statement or one await. Between two awaits a loop runs one
coroutine only: `Busy(p)` while a task of process `p` is between statements without
awaiting, and then nothing else of `p` moves, while other processes and the renewal
threads do. A cancelled task resumes with the cancellation, not with the answer.
Every statement and call of an execution, its guardian and poll, the abort and the scan
has a branch in which it fails (the parameter `fails`, or `ok` of a callback), a *fault*
bounded by `MaxFaults`. The code mostly suppresses the failure and goes on: an abort that could
not write `ABORTED` still flags the row, closes it and cancels; a scan that could not
write the result of a `RUNNING` record still closes the row, while for a `PENDING` one
it gives up. Suppressed failures of the heartbeat and of the poll's read are `GoesStale`
and the poll not moving. Abstractions:

* All runs belong to one bot and have a session. `insert_run` and `insert_queue` are one `Dispatch`.
* Stream chunks, the inject variant and the engine notifier are left out: they change neither table.
* An acquisition that fails on the database counts as busy, as in the code. Renewals
  come in time: a row runs out only when no thread renews it. The locks that make scan and
  recovery single-flight are assumed to hold.
* BCN deduplicates by run id; `told` is what it heard first. `sends` counts up to 2.
* A dead process is gone for good.
* History, read by no action: `told`; `sends`; `disturbed` (runs hit by a missed heartbeat,
  a crash, an outage or a failed statement on their queue row); `overtaken` (runs another
  process aborted before their execution wrote RUNNING); `lost` (runs whose result was not
  written, because the statement failed or its writer died); `overran` (holders
  whose row ran out under them).

## 3. The runs

Constants are model values; every bound is a constant named `Max...` or a set.

| Run | Instance | Shows |
| --- | --- | --- |
| `fencing` | 1 event, 2 dispatchers, 3 attempts, 2 faults, lease of 2 ticks, 1 replay | `OneOpenAttempt`, `OwnedWhileInFlight`, `SettledIsFinal`, `AuditIsImmutable`, `TypeOK` |
| `replays` | 2 events in 2 streams, 2 replays, 2 request ids, no faults | `ReplaysResolve`, `StrictLane`, `CauseBeforeEffect` |
| `causes` | 2 events, 2 revisions, 1 administrator, 1 replay, purging; SQL cause rule | `NoDanglingReference`, `CompletedMeansSettled`, `NoStrandedEffect`, `AppendNeverConflicts`, `SwitchedOffIsQuiet` |
| `provisioning` | a new group that may be deleted, 3 events, 2 types, 2 filters, purging | `NothingMissed`, `SequencesIncrease`, `SwitchedOffIsQuiet` |
| `liveness` | 2 events, 3 attempts, 1 fault, `FairSpec` | `FanoutCompletes`, `DeliveriesEnd` |
| `task_queue` | 2 tasks, 1 key, 2 pods of which 1 may stop, 1 slot each | `RunnerHolds`, `OutcomeOfLatestAttempt`, `LiveKeyIsExclusive`, `HookOnlyAfterGiveUp`, `KeepsItsPromise` (refinement), `TypeOK` |
| `task_queue_live` | 1 task, 2 types (one without handler), wake-ups, 1 stopping pod, 1 failing statement, `FairSpec` | `WakeIsNotLost`, `RunnerHolds`, `KeepsItsPromiseFairly` (refinement with fairness), `GiveUpIsReported` |
| `bot_run` | 2 runs of 1 session, 2 processes, 2 execution ids, limit 1, 1 fault | `SerialUntilLapse`, `LimitOvershoot`, `SentOnce`, `DoneIsSettled`, `ResultIsFinal`, `TypeOK` |
| `bot_run_live` | 1 run, 2 processes of which 1 may die, 1 abort call, 1 fault, `FairSpec` | `SentOnce`, `DoneIsSettled`, `ToldIsTrue`, `ResultIsFinal`, `EveryRunSettles`, `EveryRunIsTold` |

The Eventing and bot-run configurations switch the deadlock check off: a system in
which every event is delivered, or every run DONE, is idle, and the bounds end every behaviour.
In the task queue the loop of a living pod can always move, and the check is on.

Why the bounds are enough. In Eventing each protocol is about a pair (an event and
its cause, a delivery and the one ahead of it, a dead letter and its replay, two
workers with one delivery, a draft and one concurrent change): two events, two attempts
beyond a fault, two revisions and one replay per dead letter make every such pair
happen; the third event of `provisioning` lets one be purged while two follow. In
the task queue, one slot and two tasks make one wait behind the other; a lease of one
second lapses under a living holder; a deadline of two leaves room for a retry and for a
retirement; two tasks with one key make an `enqueue` conflict, join and retry. In the
bot runs, two processes that count at once overshoot a limit of 1; an execution id is
used again once it is finished and no lock names it, so that two of them give a requeued or
recovered run its next execution, in `bot_run` beside the other run's or beside its own
old one (a lock row or a renewal thread of an old holder keeps its id from being
used: `v_session_serial` has three). `bot_run_live` has one run and one id: what races there
is the execution, its guardian, its poll, the abort, the scan and the death of a process. One
fault is enough to kill a renewal thread, lose a heartbeat or fail one statement, after
which everything else is allowed to go right. What must hold for any number is what the
proofs are for.

`StrictLane` is about what a subscription is owed in order: the *normal* targets of the
earlier events. Replays and prerequisites are made on request, at any time after
their event, and take their place when they come. It holds in `replays`, where one
fanout worker makes no fault: claims are in creation order and a batch is worked off
in order, so an earlier event is a delivery before a later one (proved in section 4 for
every such instance). The fault that breaks it is the first finding. Two
fanout workers break it without any fault, as `v_strict_lane.cfg` shows with `ClaimLimit = 1`,
`MaxFaults = 0` and a second member of `FanoutWorkers`: one worker claims the earlier
target, the other claims and materializes the later one. Each process starts one
fanout worker (`lifecycle.rs`); processes that share a SQL store share the outbox.

What the bot-run properties except. The code does not provide for these cases, so
each property says of whom it does not speak; on the right is a way to get there.

| Property | Excepts | Because |
| --- | --- | --- |
| `SerialUntilLapse` | a session in which a holder's row ran out | finding `v_session_serial` |
| `SentOnce` | `disturbed` runs | a missed heartbeat, or a result written under a row that could not be closed, lets recovery return the row and another execution send again |
| `DoneIsSettled` | `lost` runs | guardian, poll, abort and scan close the row first; when writing the result then fails (`_executor.py` 117-145) or was suppressed (`_worker.py` 258, 333), or the writer dies, nobody looks at a DONE row again |
| | of `disturbed` runs: that the execution is cancelled | the execution that outlived its row ends by the bot's answer |
| `ToldIsTrue`, `ResultIsFinal` | `disturbed` runs | the scan writes `TIME_OUT` over a silent owner, whose `update_status` writes `RUNNING` over that |
| | `overtaken` runs | an abort of another process writes `ABORTED` while the owner has not bound, and the owner's `update_status` overwrites it: section 3.1 |
| `EveryRunSettles` | `lost` runs whose row is DONE | as above; a lost run whose row is open is looked at again, and not excepted |
| | runs with an execution whose guardian is gone without cancelling it (`Unguarded`) | after a lost heartbeat the run may be claimed again by the same process; the guardian cancels what `_running_tasks` names, the successor. It takes a second execution id: with one, as in `bot_run_live`, it does not arise |
| `EveryRunIsTold` | runs that were `disturbed` or aborted, and behaviours with a fault | nothing records that a callback failed, and abort and deadline together can cancel both callbacks |

### 3.1 Where the code and its documents disagree

Each of these runs checks one property that a document or a comment states, and TLC
shows a behaviour of the code that violates it.

* `v_strict_lane`: the lane check looks at deliveries only. After one failed item
  the fanout worker goes on, and the later event is sent first (design line 67, guide
  line 215).
* `v_run_after_end`: terminal tasks are "never claimed or run again" (`types.py`
  line 69) and "a task we receive is always still within deadline" (`worker.py` line
  303). A claimed task that waits for a slot has no heartbeat; its lease runs out, another pod
  claims and ends it, and then its handler runs (`worker.py` line 269).
  `TimelySpec` rules out slow pods: only handlers and hooks take time there.
* `v_session_serial`: only the holder of a lock may release it (`_service.py` line
  75), and forced unlock leaves the locks of others alone (`_executor.py` line 205). Both delete
  by name: a holder whose row ran out deletes its successor's row, and a third
  execution enters the session beside the second, whose own row never ran out.

Four more disagreements have no run of their own; they are the exceptions above, and the
property fails without the exception.

* Abort and timeout "converge on the same terminal state" (R1, `_worker.py` lines
  313-315). They do not, without any fault: process 1 claims the run and locks the session
  (`claim_pending_by_bot`, `LocksSession`); process 2 handles `chat.abort`, finds the row
  `RUNNING` and writes `ABORTED` (`AbortFinds`, `AbortMarks`); process 1 finds the binding
  and `update_status`, which has no guard, writes `RUNNING` over `ABORTED` (`Bind`).
  The message is sent, and the run ends as completed, failed or timed out, but not
  aborted. TLC finds it as the shortest behaviour against `ResultIsFinal` without `overtaken`.
* Timeout scan and guardian promise that queue and result table both converge and no callback
  is lost (`_worker.py` lines 255-257, 689-691, 716-718). Both close the row whether or not
  the result is written: a failing `update_timeout`, `get_by_run_id` or `update_error`
  leaves a DONE row with an open result for good (`lost`).
* `BcnUplinkCallback` promises a marker `meta.bcn_callback_sent`, set only after success,
  and redelivery by recovery until then (`_bcn_uplink_callback.py` lines 77-79). The
  code sets no marker, and a row is closed whether or not the report went through.
* The guardian "ends the task of this process" (line 688). It cancels the task registered
  for the run: after a lost heartbeat and a second claim by the same process that is
  the successor, and the old execution goes on with neither guardian nor deadline (`Unguarded`).

Other behaviours that documents do not foresee are recorded as hazards, without a violation
run: re-enabling a subscription past the limit per group, a retry written after the
subscription was disabled, work of an older revision sent to an abandoned URL, a patch that
re-activates a subscription of a deleted group, an effect stranded behind a skipped replay in the memory
store, a give-up hook run by two pods, a concurrency slot lost by a task cancelled before its first step.

### 3.2 Liveness and its fairness

* Eventing: weak fairness of a fanout worker's claim and its handling of the batch; of a
  dispatcher's claim, its handling of a task, and its noticing a lost lease; and of the
  clock. `worker_loop` polls for ever with a bounded back-off, every request has a
  timeout, every repository call returns or fails, and `for_each_concurrent` drives
  every task. Nothing is assumed of administrators, producers, retention, heartbeats
  or faults: an unresolved dead letter may stay for ever, which is why
  `DeliveriesEnd` excepts its subscription.
* Task queue: weak fairness of each pod's loop, of its jobs, of an `enqueue` in
  progress, and of the clock. A pod that stops is not helped: its actions are
  disabled. Nothing is assumed of heartbeats or callers, nor of which outcome a handler returns.
* Bot runs: weak fairness of the tasks' own steps, of guardian and poll, of the ticks, of
  an abort in progress, of the timeout scan, of deadlines passing and of heartbeats
  going stale once nobody beats. No bot is assumed to answer: `Bind` and `Send`
  have no fairness, the deadline ends the run. Recovery is not assumed to run.

## 4. The proofs

All theorems are about `Spec`, for every value of the constants that satisfies the
named assumptions (which only give the constants their types and, for the bot
runs, say that there are finitely many runs and processes): any number of groups, tasks,
pods, runs, sessions, executions, attempts and faults. Two theorems name a further
hypothesis in their statement, because the property fails without it.

**Eventing.**

* `TypeCorrect` (`EventingTypeProofs`). `TypeOK` is not inductive: what a step
  reads of a target's event or a task's subscription is typed only if it is still
  stored. `TypeInv` adds that targets refer to stored subscriptions and events, and
  tasks to stored subscriptions, which are never removed.
* `OneOpenAttemptAlways`, `OwnedWhileInFlightAlways`, `SettledIsFinalAlways`,
  `AuditIsImmutableAlways` (`EventingAuditProofs`) share the invariant `AuditInv`,
  the two state properties together and the fact that replays are numbered up to
  the counter: closing an abandoned attempt relies on the open attempt being the last
  one of a delivery in flight, and completing one relies on the fence of
  `HoldsDelivery`. Each operation preserves `AuditInv` and takes an allowed step on every delivery that
  remains; both action properties follow.
* `SequencesIncreaseAlways` (`EventingOrderProofs`). `OrderInv` adds that no stored
  sequence exceeds `stream_sequences` of its stream, which makes purging harmless.
* `CauseBeforeEffectAlways` (`EventingCauseProofs`). `CauseStep` says that a step
  keeps what was attempted settled: a settled cause stays settled, dependencies of a
  target never change, and `Purgeable` refuses an event whose target something
  depends on. A claim checks the rest.
* `NoDanglingReferenceAlways`, `ReplaysResolveAlways`, `CompletedMeansSettledAlways`,
  `SwitchedOffIsQuietAlways`, `AppendNeverConflictsAlways`, `NoStrandedEffectAlways`
  (`EventingTargetProofs`) share the invariant `TargetInv`.
  What it adds: a target is of a revision its subscription has reached, and of no pending
  subscription (`MadeForRevision`); a replay is of a dead letter of its own event
  (`ReplaysAreOfDeadLetters`); a dependency is stored and of the same revision
  (`DependsOnOwnRevision`); and on the current revision of an active subscription
  nothing but replays is cancelled (`CurrentIsLive`), which is why a
  publication never conflicts. `TargetStep` says what one step may do to targets,
  deliveries, events and subscriptions; the first half of the module shows that this preserves
  `TargetInv`, the second that every operation is such a step. Replays are where it
  is delicate: one that is still in flight may succeed after its dead letter was skipped
  and must then resolve nothing, and a purge takes a dead letter with all its replays.
  `NoStrandedEffectAlways` has the hypothesis `~ReplayAnswersCause` (the SQL store): in
  the memory store a replay may answer for a cause, skipping its dead letter cancels
  the replay, and what waits for it stays behind.
* `NothingMissedAlways` (`EventingOrderProofs`). Appends and the backfill are the steps
  it is about (`Covered`: a log owes each of a set of subscriptions every event since its
  creation). For the others, `UnpatchedStep` says that a subscription that is active and
  unpatched was so before, or is new; and targets go only with their event.
* `StrictLaneUndisturbed` (`EventingOrderProofs`): `faults = 0 => StrictLane`, given one
  fanout worker (`OneFanoutWorker`); dispatchers, administrators and all else are any number.
  It is inductive with `FanoutInv`: a target is dated not before its
  event, a normal one exactly then (`Dated`, through the backfill too); leased targets are those of the
  batch, and the batch holds its leases (`LeasedIsClaimed`, `ClaimedIsHeld`); whatever
  became a delivery, or was claimed, is no younger than a normal target of the
  subscription that is not there yet (`FannedOutInOrder`, `ClaimedInOrder`). Hence nothing
  normal is pending ahead of a delivery (`NothingPendingAhead`), and the eligibility check,
  which looks at deliveries only, sees all there is. The backfill could
  add an older target only for a pending subscription, which has no deliveries yet.

**Task queue.** The proofs cover two things no run does: several apps, and the
legacy unique index (`LegacyIndex`).

* `TypeCorrect`: with it, no remaining time of a row becomes negative.
* `KeysAreExclusive`, `QueueImplementsSlots`: every step is reduced to what it does
  to one row (`RowStep`: an insertion, a claim, a retirement, a renewal, an outcome, or
  the clock). `KeyInv` is inductive over these, and each maps to a
  step of `WorkSlots` or to a stutter under the mapping of `TaskQueueProperties`.
* `RunnersHold`, `OutcomesAreOfLatest`: `LeaseOnRecord` says that a lease has run out only when
  the task is in `lapsed`, so that no other pod can take the row before; every step is reduced
  to what it does to one coroutine (`JobMove`). That a pod never claims a task it still carries
  follows from the loop: it scans only with all its jobs done.
* `HooksFollowGiveUp`: terminal states are final, so what was true at the
  retirement, the failure or the read-back stays true until the hook runs.
* `WakesAreNotLost`: `OwedIsOnItsWay`, that except between the wait and the next scan an owed wake-up is
  queued on the loop or set in the event.

**Bot runs.**

* `TypeCorrect` (`BotRunProofs`), with `Placed`: a task that is not free has a
  process and a run.
* `SessionsAreSerial`: `SessionHeld` adds to the property the phase between the
  answer and the release, and that the row has not run out: only then is every
  takeover, release, reaping and forced unlock harmless to the holder.
* `OvershootIsBounded`: `LimitOvershoot` is inductive. `Addition` shows that a step either adds
  neither a running row nor a tick about to claim, or counts, or claims; the rest is cardinality.
* `MessagesAreSentOnce`, `ClosedRowsAreSettled`, `BcnIsToldTheTruth`,
  `ResultsAreFinal` (`BotRunFlowProofs`) hold for any number of faults and aborts, with
  the exceptions of section 3. They share one invariant per run, `Good(r)`, of four parts:
  `Flow` (an undisturbed run has one execution, which owns the row until it is
  DONE, beats for it, and is cancelled only then); `Settled` (where the
  result must be there already, and which phases an abort and a scan in progress can meet);
  `Answered` (of every run, the disturbed ones included: a row that is DONE or about
  to be closed has its result, or it is lost, or an execution is in a phase that ends by writing
  one); and `Final` (of a run neither disturbed nor overtaken: where the result cannot be
  there yet). They need each other: a result is final because the unguarded `update_status` runs
  only in a phase in which `Final` says there is none; that holds because the scan never
  meets that phase (`Settled`), because the row of a live execution is fresh (`Flow`), and because
  an abort by the process of the execution keeps it from moving until it is cancelled
  (`NotHeld`). `Answered` is what the failing branches are about: each either
  leaves the row open, or the result is there, or the run becomes lost.
  `TasksMatch` says that a registered task is the one of its run, so that a cancellation
  hits no other. A step touches at most one run; `UntouchedGood` carries `Good` over
  for the others, and a crash either leaves a run untouched or disturbs it.

### 4.1 Only model-checked

The liveness properties and the refinement with fairness (`FanoutCompletes`,
`DeliveriesEnd`, `KeepsItsPromiseFairly`, `GiveUpIsReported`, `EveryRunSettles`,
`EveryRunIsTold`): fairness and `ENABLED` are beyond the prover. Every other
property of a passing run is stated by a theorem. The model is what the
proofs are about: the bounds of section 3 (`MaxEvents`, `MaxRevision`, `MaxReplays`,
`MaxClaims`, `MaxFaults`, ...) are constants in them too, of any size.

## 5. Not modelled

* Of Eventing: reads, the test call, `recover_pending`, authorization rules, the
  per-host semaphore (it only delays), metrics, the statements inside one SQL
  transaction, HTTP itself, and the arithmetic of `retry_at_ms` (every outcome it
  allows is a choice in `Complete`).
* Of the task queue: listings, tracing, a reschedule with delay 0 (no instance uses
  it; the proofs allow it).
* Of the bot runs: runs without a session (they skip the lock), several bots
  (they share only the process's `max_concurrent`), late renewals, blocking and
  reentrant acquisition of the lock, the expiry of the scan's and recovery's own locks.
  Back pressure is in the model, and off in the runs.
* Of BCS: message flow and its managed delivery queue, speaking lease, chat runs,
  leader election, collaboration runtime, interactions, and the CRUD stores.
* The rest of BaaS and Backend and the other applications, listed in `PROJECT.json`
  with the reason. Most of their lines are request handlers, clients of external
  services, user interface and evaluation scripts, with no shared state to interleave on.

## 6. What would come next

1. `EventRetry`: `retry_at_ms` and the Retry-After cap as pure operators, against a
   reference definition over bounded inputs.
2. Clock readings taken before the write lock (`recorded_at`, `created_at`) and
   `recover_pending`, to cover the remaining provisioning hazards.
3. `ManagedDelivery`: admission, queue, run deadlines and aborts of
   `bcs-message-flow`; then the speaking lease, leader election, chat runs and
   interactions, composed with it.
4. The apply engine of the Backend with its drift detection.
5. `CollaborationRun`: progression of a state-machine run with loops, judging and
   recovery.
6. Proofs: what a single worker may rely on across several of its own steps (a claimed target
   is withdrawn or materialized by nobody else before its lease lapses), and an
   abstract specification of one event's delivery to one subscription that `Eventing` implements.
