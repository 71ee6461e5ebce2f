# Stellar Alerts in TLA+

Stellar Alerts watches Stellar wallets and tells their owners, over webhooks,
email, push and chat channels, that a payment arrived. This directory holds TLA+
models of the parts of the repository that carry that promise, the TLC
configurations that check them on small instances, and TLAPS proofs of the
properties that matter most. Paths below are relative to the repository root;
`api/` abbreviates `apps/api/src/`.

Contents: 1 the system, 2 the modules, 3 the runs, 4 bounds, 5 fairness,
6 proofs, 7 where the code and its documentation disagree, 8 what is not
modelled, 9 plan.

## 1. The system and its parts

A payment passes five stages. Each keeps its own durable state, and what joins
two stages is a database row or a queue entry, never a call that both must
survive.

```
 Horizon --poll/stream--> Ingestion --one transaction--> Payment + OutboxEvent rows
                                                               |
                                  Outbox relay (claim, relay, settle)
                                                               |
                             BullMQ queue payment-alerts / Redis channel
                                                               |
               processAlertDispatch --one deliverWithIdempotency per channel--> provider
                                                               |
                                        DeadLetter rows, operator replay
```

### Inventory

| Part | Durable and shared state | Operations | What is hard |
| --- | --- | --- | --- |
| **Ingestion** `api/workers/watcher.worker.ts`, `api/lib/redlock.ts`, `lock.ts`, `cursor-recovery.ts`, `stellar.ts` | `IngestionCursor`, `Payment`, Redis key `lock:wallet:<id>`; in memory: queue and generation of each stream | poll pass over pages, live stream with bounded queue, heartbeat reconnect, `processPaymentRecord`, gap backfill, lease and wallet lock | several processes, each with a poll and up to two streams, commit records of one wallet in any order; queue overflow; crash between records; expired leases; outages |
| **Outbox** `api/workers/outbox.worker.ts`, `api/modules/outbox` | `OutboxEvent` (status, availableAt, lockedAt) | record, reclaim stale claims, select a batch, claim, relay, settle | two relays select the same rows; crash after relaying; batches that outlast the lock; a lost database reply |
| **Alert queue** `api/lib/queue.ts` | BullMQ jobs and attempts, wallet slots | enqueue, dispatch of all channels in sequence, retry, `failedJobHandler` | a throw after some channels were sent; the failed event is handled in every process |
| **Delivery** `api/lib/delivery.ts` | `NotificationDelivery`, `NotificationDeliveryAttempt`, Redis gate | check, acquire gate, check again, record attempt, call provider, record result, release | check and act are separate awaits; crash between the provider's acceptance and its record; gate TTL; fail-open Redis |
| **Dead letters** `api/lib/dead-letter.ts`, `api/modules/dead-letters`, `api/modules/admin/dlq-replay.service.ts` | `DeadLetter` (pending, retried, suppressed) | persist, replay, suppress, bulk replay, purge | find-then-create; a status read before a whole dispatch and written after it |
| **Circuit breakers** `api/modules/alerts/circuit-breaker.ts` | three Redis keys per endpoint | execute, record success and failure, trip, probe, force, reset | keys written one by one by several processes |
| **Batching** `api/modules/alerts/batch-dispatcher.ts`, `api/workers/batch-dispatcher.worker.ts` | buffer and window in memory | enqueue, flush by count or time, post, drain on a signal | posts under way when the process exits |
| **Fairness** `api/lib/rate-budget.ts` | slots per wallet | acquire, forced entry, release | entries must balance releases although the limit can be exceeded |
| **Sessions, MFA recovery** `api/lib/session-manager.ts`, `api/modules/auth/mfa.service.ts` | `RefreshSession`, token history, Redis revocations, recovery codes, attempt counter | rotate, detect reuse, revoke; recover | two rotations or recoveries with the same secret |
| **Sign-in, Telegram linking** `api/modules/auth/auth.service.ts`, `api/modules/notifications/telegram-sync.service.ts` | link ids and challenges in Redis, sync codes | request, consume, expire; generate, confirm, unlink | read, check and delete in separate awaits |
| **Request idempotency, replay defence** `api/middleware/idempotency.middleware.ts`, `api/modules/webhooks/replay-defense.ts` | Redis entries with TTL, fallback map | look up, execute, store; check drift, store nonce | look-up and store around the handler; edges of the windows |
| **Webhook secrets** `api/modules/webhooks/webhooks.service.ts` | current and previous secret, grace period | rotate, decommission, sign | rows read before a rotation and used after it |
| **Failover** `api/lib/db-failover.ts`, `database-router.ts` | probe counters, mode, mutation buffer, read target | probe both databases, degrade, buffer, replay, recover, restart | two monitors write one read target; failing replays; a Redis list that outlives its process and that others replay too |
| **Lifecycle** `api/workers/supervisor.ts`, `api/lib/worker-lifecycle.ts` | children and timers, active tasks | spawn, ping, kill, respawn, stop; admit, drain | timers racing exits and a stop; drain timeout |
| **Streams** `api/lib/stellar.ts`, `startHorizonSSEStream`, `packages/cli` | votes of Horizon nodes; connection, heartbeat and timers; cursor file of the CLI | deliver, vote, emit, reconnect, close; resume, save | nodes that lag and repeat; connects that overlap; kills between handling and saving |
| **Soroban indexing, contract watchers** `api/workers/soroban-*.ts`, `staking-reward.worker.ts` | checkpoint, rows that are the cursor | page, store, notify, advance | pages that end inside a ledger; a row stored and its notice failed |
| **Multisig watcher** `api/workers/multisig-watcher.worker.ts` | pending transactions, reminded signers | track, poll, remind, record | overlapping polls around awaits |
| **Exports** `api/modules/exports` | job rows and files | create, claim, generate, complete, expire, fail stale jobs | file and row are written apart; two runners of a job |
| **Audit chain** `api/services/checksumChain.service.ts`, `packages/shared/src/merkle.ts` | checksum rows, daily roots | append, verify, roll up, prove | appenders that read one tail |
| **Alert registry contract** `contracts/alert_registry` | admin, signers, threshold, proposals | propose, approve, replace signers | approvals surviving a change of signers |

`PROJECT.json` lists every part with its sources, and under `hazards` what can go
wrong in it that a test would hardly reach, each at its line.

### What makes the modelled parts correct

* **Ingestion.** A payment the cursor has passed since the wallet's registration is
  stored, or was lost in one of two ways the code leaves open; the cursor never goes
  back; of the time before the registration less than one backfill window is ingested;
  two streams of a wallet overlap only while one of them has lost or released its lease.
* **Outbox.** An event is held by one relay at a time; it is marked processed only
  after it was relayed, and then stays so; each repeated relay is paid for by a
  fault; every event is finally processed.
* **Delivery.** Provider calls for one key are serialised; at most one success is
  recorded and nothing is sent after it; terminal rows are not rewritten; a
  completed job means that the key is delivered unless a gate was left behind; two
  executions overlap only when one of them outlived its gate; every job ends.
* **Alerts and dead letters.** No email or push failure vanishes without a letter;
  a gated channel is never called again after its success; letters tell the truth
  about what was delivered or queued again; a suppression is undone only by a replay
  that had read the letter before or that says `force`; every job ends and a failed one
  is quarantined.
* **Services.** One-time secrets, idempotency keys and nonces work once but for
  overlaps the code leaves open; buffers, chains and streams keep their order and
  lose nothing but what a named overlap lost; limits and counters balance; what
  waits on a timer goes on.

## 2. The modules

| Module | Models | State | Actions |
| --- | --- | --- | --- |
| `Delivery` | every execution of every job that addresses one delivery key, each await an action | the logical row, the attempt rows, the gate, and of each job its place, its locals and the outcome of its last execution | `Start`, the three idempotency checks, `Acquire*`, `Record*`, `Dispatch`, `MarkAttempt`, `MarkDelivery`, `Release`, `GateExpire`, `Crash` |
| `DeliveryAbstract` | what `deliverWithIdempotency` promises for a key, without gates, jobs and rows | attempts opened, the one being made, those accepted or waived, the one confirmed | `Open`, `Accept`, `Waive`, `Abandon`, `Confirm` |
| `Outbox` | the writer of events and the relay loop of every process | status, due and stale of each row; candidates, claims and place of each relay | `Record`, `Reclaim`, `Select`, `Claim`, `ClaimDone`, `RelayEvent`, `MarkProcessed`, `MarkFailed`, `BatchDone`, `BecomeDue`, `LockTimeout`, `Crash` |
| `Ingestion` | one wallet, watched by several processes | Horizon's tip, the cursor row, the stored payments, the Redis key, and of each poll and stream its position, its rest of page or queue, and its progress on a record | `StartStream`, `Connect`, `Emit`, `Heartbeat`, `AskLatest`, `CreateCursor`, `Ignore`, `Commit`, `Throw`, `FetchRecent`, `Backfill`, `ClearGap`, `PollStart`, `Fetch`, `PageDone`, `PollEnd`, `NewRecord`, `Crash`, `Drain`, `Stop`, `KeyExpire`, `LeaseLost` |
| `Alerts` | the alerts of one payment: its job and replay jobs, operators' replays, the failed-event handlers of every process, the admin API | place and attempts of each execution, gate and record of each channel, letters, failed events | `Start`, `Dispatch` (every channel in order), `Crash`, `GateExpire`, `Handle`, `Replay`, `Finish`, `Suppress`, `AdminSelect`, `AdminReplay`, `AdminRefused`, `AdminMark`, `PurgeSelect`, `PurgeDelete` |
| `Sessions` `Recovery` `SignIn` `TelegramLink` | one token family; one account's recovery codes; a magic link and a DID's challenges; one user's Telegram codes | rows, Redis keys, and of each request what it has read | one per await of each request, expiry, logout, unlink |
| `Requests` `Nonces` `SecretRotation` | requests of one idempotency key; copies of one signed request; one webhook's secrets and deliveries | cached answer; two nonce stores and a clock; current and previous secret | look up, handle, store; check drift, store; read, rotate, decommission, load, sign |
| `Failover` `Breaker` | both database monitors and the mutation buffer, which a restart and other processes meet; one endpoint's breaker | probe counters, read target, buffer; three Redis keys | probes, recovery, replay, buffering, restart, the other process; one per Redis command |
| `Batching` `WalletSlots` `Supervision` | one batch target through SIGTERM and SIGINT; one wallet's dispatches; one worker under its supervisor, with its task drain | buffer and posts; counter; child, timers, tasks | one per handler or timer |
| `SorobanIndex` `EventWatchers` `Multisig` | one contract's indexer; the allowance and staking watchers; one pending transaction | checkpoint and rows; rows and running sum; envelope, status, reminded signers | one per await of each pass, failures, restarts |
| `ChecksumChain` `DailyRoot` `Exports` | appenders of payment checksums; a day's Merkle tree; one user's export jobs | chain; rows and root; jobs, files, runners | read tail, append, abort, fail; roll up and again, edit; create, claim, generate, complete, expire |
| `QuorumStream` `StreamConnect` `CliStream` | the multi-node stream; the connections of a wallet's stream; the stream of the CLI | votes and feeds; connection, heartbeat, timers; cursor file and ids seen | deliver, fail, fall back; connect, restart, close; start at a cursor, receive, save, give up, kill |
| `Registry` | governance of the Soroban contract | admin, signers, threshold, proposals | `Initialize`, `SetAdmin`, `SetSigners`, `UpdateConfig`, `ProposeConfig`, `ApproveProposal` |
| `Pipeline` | one payment from its outbox event through the queue to its provider: `Outbox` and `Delivery` composed | both components' state, and the job BullMQ keeps under the payment's id | the steps of both, `AddJob` with what is relayed, `StartJob`, `DropJob` |
| `MCDelivery`, `MCOutbox`, `MCIngestion`, `MCAlerts` | the sets and functions the configurations use | | |
| `MCServices` | the twenty-two services of the rows above, side by side | | one service's steps, per behaviour |
| `DeliveryProofs`, `OutboxProofs`, `PipelineProofs`, `IngestionProofs`, `AlertsProofs` | theorems about each component and about the composition | | |
| `AccessProofs` | theorems about `Sessions`, `Requests`, `Nonces`, `Recovery`, `SignIn`, `TelegramLink`, `SecretRotation` | | |
| `ResilienceProofs` | theorems about `Supervision`, `Batching`, `WalletSlots`, `Breaker`, `Failover` | | |
| `LedgerProofs` | theorems about `Registry`, `Exports`, `ChecksumChain`, `DailyRoot`, `QuorumStream`, `StreamConnect`, `CliStream`, `SorobanIndex`, `EventWatchers`, `Multisig` | | |

How they compose. `Pipeline` extends `Outbox` and instantiates `Delivery`: a relay
that reaches the queue adds the job in the same step, unless a job of that id is
kept, and BullMQ starts executions of the kept job; finished jobs may be dropped, so
that a repeated event becomes a new job. `Delivery` implements `DeliveryAbstract` (the property
`ImplementsAbstract`, with `opened`, `current`, `accepted` and `confirmed` read off the
attempt rows, the places of the jobs and the provider's history). `Alerts` takes a
gated channel as that abstraction promises it, adds the channels the code leaves
ungated, and joins the queue, the dead letters and the admin API on one payment.
`QuorumStream` and `StreamConnect` detail what `Ingestion` takes as one step: which
record a stream is handed, and which connection it is handed on.

The services share no state with each other. `MCServices` instantiates all of
them; its variable `part` chooses at the start which one a behaviour belongs to,
and the others stay where they began, so that the state graph is the disjoint
union of theirs and one run explores each in full. Their properties are stated
in their own modules; `MCServices` joins those about one subject under the name
the configurations use.

Conventions. Every await on Postgres, Redis, Horizon or a provider ends an
action, since another process, a timer or a crash may come in between;
synchronous code between two awaits is one action. `Faults` names the kinds of
failure an instance allows, so that each property says under which of them it
holds, and `MaxFaults` bounds them where the state space needs it. History
variables (those the modules mark so, as `sent`, `relayed`, `used` and `seed`) are never read by a guard
that models code, except that `used` bounds the faults. Definitions with a name
of the form `Action_Variant` are mutations of the action after them; no
specification uses them.

Main abstractions:

* *Delivery.* Different keys share no row and no gate, so one key is the whole
  protocol. The provider accepts or refuses. `Channel` separates the webhook, whose
  `dispatchWebhookAndLog` returns normally after a failure, from email and push, which
  throw; and email, whose `sendPaymentReceipt` also returns normally without a request
  when the user has switched receipts off (`waived`). `lapsed` are the executions that
  go on without their gate, `stranded` says that a gate outlived its execution. A lost database or Redis reply may leave the
  statement applied or not.
* *Outbox.* An event is its idempotency key, ordered by `createdAt`. Times become
  two Booleans, due and stale. Backoff is an arbitrary delay (`BecomeDue`).
* *Ingestion.* A record is its paging token. Transactions and ledgers are functions
  of records, so that shared transactions and ledger gaps are parameters. What the
  transaction stores (payment, outbox events, cursor) is stored at once, as in the
  code. Exhausted lock retries are the `db` fault. A failed record is not caught in a
  poll, and its process dies; the stream reconnects from the persisted cursor with a
  new generation, while queued messages still run. `ensureCursor` is three awaits: find
  the row, ask Horizon for the newest token ('0' when it fails), create. A shutdown
  signal (`Drain`) releases the lease at once, and the stream runs on until the drain is
  over (`Stop`). What the code loses on its way is recorded when it is lost: `dropped`.
* *Alerts.* Executions of `processAlertDispatch` go through the user's channels in
  the order of the code. Webhook, email and push are gated; WhatsApp, Discord and
  Slack look at the log, send and write the log; Telegram just sends. A bulk replay
  reads its letters (with the suppressed ones when it says `force`) and then adds and
  marks them one by one. Which channels, how
  many attempts and which faults is a `setup` chosen at the start.
* *Services.* Tokens, codes and secrets are numbers or model values; signatures are
  genuine or not. Hashes are free terms: equal only when what was hashed is. Times
  are Booleans or small integers, as far as the code compares them. Where a property
  has an exception ("unless two overlapped"), a history variable records exactly
  the overlap that the code leaves open, and the property holds outside of it: such a
  race does happen in the code, and what is shown is that nothing else has its effect.
  Section 7 lists them.

## 3. The runs

| Run | Checks | Shows |
| --- | --- | --- |
| `delivery_safe` | `TypeOK` `OneDispatcher` `SingleDelivered` `DeliveredMeansSent` `ImplementsAbstract` | email, with crashes, lost provider replies, failing Postgres, receipts that are switched off, and gates that outlive their holders: provider calls are serialised, a recorded success is final, and all executions together behave like the one careful sender of `DeliveryAbstract` |
| `delivery_live` | `OverlapNeedsLapse` `CompletedMeansDelivered` `JobsEnd` | push, with a failing Redis, expiring gates and crashes: a late release never lets a third execution in, a job that gives up on a contended gate leaves the key undelivered only when a gate outlived its execution, every job ends |
| `outbox_live` | `ProcessedMeansRelayed` `DuplicatesAccounted` `EventuallyProcessed` | with slow batches and lost replies too: no event is lost, every duplicate is paid for by a fault, every event is processed for good |
| `pipeline` | `ClaimExclusive` `PipelineSafe` `PaymentSettles` | outbox, queue and delivery of one payment with crashing relays and failing Postgres and Redis: claims are exclusive, an event is settled only when the payment is or a job is there to settle it, the provider accepts one request however often the event is relayed, and every payment is delivered or quarantined |
| `ingestion_safe` | `OneStream` `HistoryBounded` `SkipsExplained` `CursorMonotonic` | a poll and two streams, two ledger gaps, a history, a record that is no payment, a queue of two and any two faults (crash, shutdown, failing store, outage, lost lease): streams overlap only without a lease, history stays out but for a window, every skipped payment was given up by a stream or leapt over by a backfill, the cursor never goes back |
| `alerts` | `NoSilentLoss` `SendsOnce` `LettersSound` `SuppressionSticks` `AlertJobsSettle` | nine setups of channels, attempts and faults: no throwing channel's failure is lost, sends repeat only by an overlap the code leaves open, letters tell the truth, suppressions stick unless forced, jobs end and failed ones are quarantined |
| `services_safe` | `SessionsSafe` `CredentialsOnce` `RequestsOnce` `FailoverSafe` `BreakerSafe` `DispatchSafe` `SupervisionSafe` `WatchersSafe` `ProposalsSafe` `AuditSafe` `ExportsSafe` `StreamsSafe` `SubscriberVerifies` | every interleaving of the twenty-two services: secrets and keys work once, buffers and streams keep their order, counters balance, chains do not fork, proposals have their quorum |
| `services_live` | `ReadsFollowReplica` `WorkEnds` | reads leave a lagging replica and come back; a dead or frozen worker returns unless its fork failed; buffers drain, dispatches enter, exports end, signed envelopes settle, and every record a node has shown is handed on |
| `delivery_email` (violation) | `DeliveredMeansAccepted` | a receipt that is switched off is recorded as delivered |
| `ingestion_skips` (violation) | `NothingSkipped` | a message queued behind a failed record moves the cursor past it |
| `ingestion_lease_blocks` (violation) | `EventuallyIngested` | the stream's own lease blocks the wallet lock |
| `degraded_reads` (violation) | `DegradedReadsReplica` | in degraded mode the lag monitor sends reads to the primary that is down |

A run is repeated with `tlc -config <file>.cfg <MC module>`, the pairs being listed
in `PROJECT.json`. For the properties of the passing runs `PROJECT.json` names
mutations of mapped definitions (a dropped guard, a missing condition, an
off-by-one) that violate the property under the same configuration; a property
that joins several statements has one for each of them.

## 4. Bounds and why they are enough

* *Delivery.* Two jobs with two executions each. The protocol compares a job with the
  gate's owner only, so two jobs reach every pairwise race; with the second execution a
  job fails and is retried after the other job's success, or meets the gate its own
  crash left. `GateRetry = 1` gives a contended caller both of its paths. Jobs are
  interchangeable: symmetry is used where no liveness property is checked.
* *Outbox.* Three events and `BatchSize = 2` leave one event outside the batch; two
  relays give every race for a row; two faults allow a fault during the recovery
  from a fault (a crash after relaying, then a failing settlement).
* *Ingestion.* One process is a poll and two streams, which overlap among themselves,
  and with their successors after a crash or a stop. Four records, two of them from
  before the registration and the last one no payment, with ledger gaps of about ten
  against `MaxLedgerJump = 5` (the code's value) behind the first, so that an unseeded
  cursor leaps, and behind the second, so that a seeded one sees a gap next to the
  history; a backfill of one, so that it is shorter than the gap and keeps the history
  out altogether (`HistoryBounded` allows a window less the record that showed the gap);
  pages of two and one page per pass, so that a pass ends at its limit; a queue of two,
  so that a message waits behind a failed one and the next overflows; two faults. The
  code's limits (pages of 50, 20 pages, 50 messages, 200 records of backfill) enter the
  model only through comparisons that the small values exercise on both sides. The
  theorems cover any number of processes, any limits and any faults.
* *Pipeline.* One event, two relays, two faults and hence at most three jobs of two
  executions: the event is relayed again while its job runs, after it finished, and
  after it was dropped. Executions have no faults of their own here; those, and their
  combination with overlapping jobs, are in the delivery runs.
* *Alerts.* The job of the payment, one replay job, one operator and two processes:
  two executions give every overlap of a job with a replay, two processes every race
  for a letter. The setups have no channel, gated and ungated ones in different
  orders, one and two attempts, and each of the faults (crash, lost reply, failing
  database) at least once; a second attempt is only combined with short routes.
* *Services.* Each has the smallest set in which every pair of its actors can
  overlap, and limits one below what its actors can reach, so that both sides of
  every comparison happen: three rotations over four tokens; three copies of a
  request at two processes, one unit of drift against a nonce life of four; two
  executions at a threshold of two; five events in batches of two; three dispatches
  for one slot; four appenders, two of one payment, with two attempts; three Horizon
  nodes with one of two records remembered; five connects; lists of two and three
  signers, one with a repetition; four leaves, of which three give an odd layer (the
  theorem covers every number); three payments against a memory of two ids in two runs of
  the CLI, each handled at most `MaxHandled` times; events of which two have the same row
  key and one has another worker's. In `services_safe` the replica does not lag
  (`Lags = {0}`), so that the mutation buffer can be explored with another process; the lag
  monitor is explored by `services_live` and `degraded_reads`.
  `MaxRuns`, `MaxPolls`, `MaxConnects`, `MaxTracks`, `MaxEdits`, `MaxWindows`, `Horizon`
  and the like bound what the code does without bound. `services_live` takes the
  seven services with timers and smaller sets, since liveness is checked without
  symmetry.

Services may stop (a stopped worker, all tokens spent), and so their runs do not
look for deadlock; in `alerts` the step `Quiescent` marks the states in which everything
is done, and any other state without a successor would be reported.

## 5. Fairness

Only what the platform does by itself is fair.

* A job that has started goes on (`WF` of its steps): Node resolves or rejects
  every await; provider calls and Postgres have timeouts. BullMQ starts waiting
  and stalled jobs again while attempts are left. Redis expires keys that have a
  TTL.
* A relay's steps are weakly fair because `runOutboxRelay` polls on an interval
  and restarts with its process. Time passes: due rows become due, locks become
  stale. No fault is fair.
* In `Ingestion` the processes' steps, connection, key expiry and the end of a drain
  (`Stop`, which a timeout forces) are weakly fair; the supervisor respawns a dead
  process and intervals restart the poll. New records and faults are not fair.
* In `Alerts` BullMQ runs waiting jobs, an execution that has started goes on, and
  each process hears the failed events. Operators, the admin API, crashes and the
  expiry of gates are not fair.
* `Pipeline` has the fairness of its two parts; that finished jobs are dropped is not
  assumed.
* In `MCServices` only timers and retries of the code are fair: the lag probe, the
  batch window, a waiting dispatch's next try or forced entry, the supervisor's fork,
  exit event, ping and pong timeout (a fork that fails is not repeated, and nothing is
  assumed of it), the multisig poll and its steps, the cleanup of
  stale exports and the quorum fallback. Pongs, posts, tasks, export runs and the
  recovery of a database are not assumed to happen.

Strong fairness is assumed in one place: a multisig pass is not broken off every
time before it has written its row (`FindNotified` and `UpdateProgress`); with weak
fairness a behaviour in which each pass fails between two awaits would refute
`MultisigSettles`, and the code can do nothing about that.

## 6. What is proved

Theorems hold for every set of jobs, relays, processes or calls, every number of
executions, events, records, pages and faults, under named assumptions on the
constants. Those assumptions (`ConstantsOK` of the first three components,
`FiniteRelays`, `PipelineOK`, `AlertsOK` with `SetupsOK`, and for the services
`AccessOK`, `NoncesOK`, `ResilienceOK`, `RegistryOK`, `ExportsOK`, `ChainOK`, `QuorumOK`,
`SorobanOK`, `WatchedOK` and `CliOK` in `MCServices`) say that sets are finite, that limits
are numbers and at least one, that special values are not members of the sets they
are special to, in `SorobanOK` and `WatchedOK` that the network's events come in the order
of their ledgers, and in `NoncesOK` that a nonce lives longer than twice the tolerated drift, as the
code's constants do. TLC evaluates them on every run. Hypotheses about faults are in
the theorems' statements.

**Delivery** (`DeliveryProofs`). Four theorems hold under every fault: `TypeCorrect`;
`OverlapsNeedLapse` (whoever is past the second check owns the gate or has lapsed);
`DeliveredWasSent`, for channels that throw (a delivered attempt was accepted, or was a
receipt switched off); and `CompletionDelivers`, for every channel. Its `HandoverInv` says
that a stored gate has a holder at work or is stranded, that a release which reports
success follows a recorded one, and that until then not every job has resigned.

The others assume `SafeGate`: no gate expires under a live holder and Redis does not
fail open. They rest on `GateInv`: whoever is between acquire and release owns the gate;
whoever is past the second check sees no recorded success; the logical row follows the
attempt rows; at most one attempt row is delivered. `OneDispatcher` alone is not
inductive: that two jobs are not both dispatching is known only because the gate has a
single value. `DispatchExclusive`, `DeliveredOnce`, `AcceptedRecordedOnce`, `TerminalFinal`
and `NothingSentAfterDelivered` follow.

`DeliveryRefines` is the refinement of `DeliveryAbstract`. It needs also that the dispatch
throws its failures, because a webhook's swallowed failure is confirmed without having
been accepted or waived. `SenderInv` adds to `GateInv` that an attempt marked as delivered
was accepted or waived and one about to be made was neither; then one attempt at most is
being made, and every step of a job is `Open`, `Accept`, `Waive`, `Abandon`, `Confirm` or
a stutter.

**Outbox** (`OutboxProofs`). `TypeCorrect` and `ProcessedWasRelayed` hold under every
fault. `ClaimInvHolds` (what a relay holds is processing, not stale, and held by it
alone) assumes `SoundLocks`: no batch outlasts its lock and no reply is lost. It gives
`ClaimsExclusive` and `ProcessedIsFinal`. Staleness has to be in the invariant: it is
what keeps `Reclaim` away from a held row. `DuplicatesPaidFor` needs none of this: it
counts, per event, the relays made and the claims that can still relay against the
faults used.

**Pipeline** (`PipelineProofs`). `PipelineComposes` shows that every behaviour of the
composition is one of `Outbox` and one of `Delivery`, so that their theorems are
theorems about the pipeline, as `PipelineClaimsExclusive` is. `PipelineIsSafe` adds
what neither has: between the relay and the provider an event is never without its
job, and a job id that is used again meets the delivery's own record. It holds for
every outbox fault, outlasted locks and lost replies included.

**Ingestion** (`IngestionProofs`). All theorems hold under every fault, for any number of
processes and records, any ledgers and transactions, and any limits: `TypeCorrect` and
`CursorNeverBack`;

* `StreamsExclusive`. `LeaseInv`: a live stream holds the Redis key, or is in `lapsed`
  because the key was not renewed in time or was given up by a shutdown that has not
  closed the stream; only a live stream has messages.
* `SkipsAreExplained`. `SkipInv` says of every actor that what it has read continues what
  is stored: every payment below an entry of its page, queue or backfill is stored, was
  `dropped`, or comes earlier in the same sequence; and what lies below the position of an
  open stream is stored, dropped or waits in its queue. `dropped` gets a member in two
  places only: a stream fails on a message while others are queued behind it, or a gap's
  backfill starts above records that were not read. The messages a full queue discards,
  crashed passes, overlapping streams and stale pages add none.
* `HistoryIsBounded`. `HistoryInv`: before there is a cursor row nobody reads; every page,
  queue and position starts above what existed at the registration, and every backfill
  less than one window below it, since its window holds the record that showed the gap
  (`Grown`). The exception is a cursor created from the token '0',
  because Horizon failed when it was asked.

**Alerts** (`AlertsProofs`). For every set of setups, executors and processes:

* `AlertsTyped` and `AlertsSendOnce`. `SendInv`: whoever sends through a gated channel
  holds its gate and no success is recorded; on a channel that only looks at its log,
  as long as no two executions were between look and write, one sends at most, and
  an accepted request is logged or about to be.
* `DeadLettersSound`. `LetterInv`: a replay under way works on a letter that exists or
  was purged, what it will write is backed by a delivery or a job, and a job's
  pending letter was created once unless two processes were between look and create.
* `SuppressionHolds`, an action property: a suppression ends only in a replay that had read
  the letter before it (`picked`) or that asks for suppressed letters with `force`.
  `FreshInv` carries it: the letter a step is about to create is none that exists, so
  that no row is written over.
* `NothingLostSilently`. `LossInv`, while no process or database was lost: a gate that
  is held has a holder who will record a success or a letter, and the payment's own
  job has, for every channel it has passed, a success, a letter or such a holder.

**Services.** `AccessProofs`, `ResilienceProofs` and `LedgerProofs` prove the invariants of
`services_safe` from one inductive invariant per service; since a behaviour of
`MCServices` belongs to one service, each proof has a step for that service's actions and
one for all others, which leave its state alone.

| Theorem | What the inductive invariant adds to the property |
| --- | --- |
| `SessionsAreSafe` | tokens are numbers up to the last one issued; what a request that began with a superseded token has read still shows that it is superseded, so it cannot reach its commit |
| `RequestsHaveEffectOnce` | while the cache did not fail, a request that runs without a crowd runs alone and finds no answer; a nonce's entry outlives every copy that is still within the drift, and accepted copies are counted by the stores that have the entry |
| `CredentialsWorkOnce` | of the calls that are not known to overlap, one at most is between reading a code, link or challenge and using it, and then it is gone for the others; a visit that holds an older challenge than the stored one read the key before it was stored |
| `SubscribersVerify` | while no rotations clashed, the row holds the newest secret and the one before it, and a delivery about to sign has read that row or was overtaken; the value `addWebhook` returned is a ciphertext, which no row signs with, and is excepted |
| `SupervisionIsSafe` | a pending respawn means that there is no child, and a stopped supervisor has no listener; who waits or cleans up is draining, so that no task begins |
| `DispatchIsSafe` | the counter is the cardinality of those inside; a stopping worker's buffer holds late events only, and its posts are the awaited one or were under way; the awaited one is cut only by the second of two signals |
| `BreakerIsSafe` | of each execution's list of commands the rest is known: a closed breaker at its threshold, or an open one without its time, has a list whose rest mends it |
| `FailoverIsSafe` | while no two processes replayed at once, applied mutations, the one in hand and the buffer are in order; with those dropped (without handler, or in the hands of a process that died) they are all that was pushed; a repetition has a handler that threw after its effect; what is replayed is replayed in read-only mode |
| `ProposalsAreSafe` | approvers are distinct; a proposal has written once if it was executed, with its quorum, else never |
| `ExportsAreSafe` | one runner at most holds a job, which it claimed; it finds the row as it left it or failed; a job being expired has no file |
| `ChainIsSafe` | an appender that tries again or gives up on a conflict was overtaken by as many rows since it began; a plain database error is an outcome of its own |
| `AuditIsSafe` | the root is that of `rolledUp`, the rows the last roll-up read, which are as many as the day's; see below |
| `WatchersAreSafe` | a Soroban pass has stored what lies before its next page and continues the checkpoint; an event of a row was told, missed, eclipsed by a row with the same key or is in one poll's hands, and nothing notable below a row, a poll's start or an alert is untold; who was reminded is in the row or in the hands of the only pass |
| `StreamsAreSafe` | each token below one that has votes was handed on or has an earlier entry with the same voters; a closed or reconnecting stream has the connection or timer it needs; the ids the CLI remembers are the last ones this run handled, and what it has left behind its position was handled or left out by the user or a live tail |

`AuditIsSafe` is about data: a tree of any height. Theorems of induction take a predicate
and cannot be used, but that a non-empty set of numbers has a least member (`LeastExists`,
from the well-foundedness of the naturals) is a statement about sets, and the set of
counterexamples is one. So `LayeringRec` and `PlacesRec` show that the recursive
functions exist and satisfy their equations; `LayersShrink` and `TreeExists`
that the layers get shorter until one node is left; `ProofReachesRoot` that a leaf's
own proof leads to the root, by the hash reached at each layer being the node above
the leaf; `RootsIdentifyLeaves` that as many leaves with the same root are the same
leaves, layer by layer downwards. The number of leaves has to be the same: since an odd
node is paired with itself, three leaves and the same with the last one repeated
have one root. That a payment has one checksum and that rows are edited, not
added, after the day excludes this case here.

The inductive invariants, the type invariants of `Outbox` and `Ingestion`, `AcceptedOnce`,
`TerminalIsFinal`, `NoSendAfterDelivered` and `ProcessedFinal` are proved and in no run; to see
one on a small instance, add it to a module that extends the proofs' component and to its
configuration.

Left to TLC:

* everything temporal beyond invariants and step properties (`JobsEnd`,
  `EventuallyProcessed`, `PaymentSettles`, `AlertJobsSettle`, `ReadsFollowReplica`,
  `WorkEnds`), since the prover handles neither fairness nor ENABLED.

Every safety property of a passing run is a theorem.

## 7. Where code and documentation disagree

Four disagreements are runs that end in a counterexample, with a finding in
`PROJECT.json` that quotes the documentation.

* A receipt the user has switched off is recorded as delivered: email is dispatched
  whatever `emailEnabled` says (`api/lib/queue.ts:892-906`), `sendPaymentReceipt` returns
  without a request (`api/services/email.service.ts:80-82`), and for
  `docs/DELIVERY_LIFECYCLE.md:109` `delivered` means that the provider answered 2xx
  (`delivery_email`).
* A message queued behind a failed record commits and moves the cursor past it
  (`api/workers/watcher.worker.ts:712`); ADR 0001, lines 14-15, asks for no silently
  skipped payments (`ingestion_skips`).
* Stream lease and wallet lock are one Redis key, so a live stream keeps every
  record from being processed (`api/lib/redlock.ts:161`, `api/lib/lock.ts:28`;
  `ingestion_lease_blocks`).
* In degraded mode "reads are rerouted to the replica"
  (`api/lib/db-failover.ts:8-9`), but the lag monitor, which knows nothing of the
  failover, points them at the primary again (`degraded_reads`).

The models show further behaviours that have no run of their own. Where a property
has an exception, it is one of these.

Pipeline:

* A webhook that fails is recorded as delivered: `dispatchWebhookAndLog` returns
  normally after a failure (`docs/DELIVERY_LIFECYCLE.md:109`; `DeliveredMeansSent`
  with `Channel = "webhook"`).
* A crashed holder's gate turns its own rerun, and every other job, into a
  completed `skipped` (`api/lib/delivery.ts:415-419`); `stranded` is this case.
* A gate that expires under a live holder lets a second execution in, and
  `recordDeliveryAttempt` reopen a delivered row (`api/lib/delivery.ts:273`); `lapsed` is
  this case.
* On SIGTERM the leases are released at once (`api/lib/redlock.ts:244-256`), the streams
  are closed after the drain (`api/lib/worker-lifecycle.ts:149-175`): meanwhile another
  process opens a second stream.
* Of two payments of one transaction only the first is stored
  (`api/workers/watcher.worker.ts:208`; a `Tx` that maps two records to one).
* A gap backfill moves the cursor past records that the poll has not read; when it
  is shorter than the gap and the pass ends at its page limit they are lost (`dropped`).
  ADR 0001 (lines 183-200) admits the bound.
* The first record after a quiet registration looks like a gap, and its backfill
  brings in payments older than the wallet, less than one window of them.
* A bulk replay reads its letters and adds them one by one
  (`api/modules/admin/dlq-replay.service.ts:136-161`): a suppression in between is undone,
  as is one during an operator's replay. With `force` it takes suppressed letters on
  purpose.
* WhatsApp failures leave no letter, although `docs/OPERATIONS_RUNBOOKS.md:63` looks
  for one.

Services:

* A Soroban page that ends inside a ledger cuts the rest of it off ("Indexes every
  contract event", `soroban-indexer.worker.ts:144`); the event watchers have the same
  gap, and an expiry warning is not given for an approval the start has passed.
* Two trips of a closed breaker whose writes cross leave it OPEN without `opened_at`,
  which never cools down (`circuit-breaker.ts:54`).
* The batch worker's "drain before exiting" (`batch-dispatcher.worker.ts:124`) does not
  await posts that were under way, and with SIGTERM and SIGINT together the second
  `stop()` returns at once and its `process.exit` cuts the awaited batch (148, 157).
* The mutation buffer is "replayed in order" (`db-failover.ts:11`) by one process; two
  that recover together interleave. A crash between LPOP (199) and the handler's end
  loses the mutation, a handler that throws after its effect has it again, and a
  restarted process is HEALTHY (82) over a list that is not empty.
* Approvals of removed signers keep counting in the registry contract.
* `EXTRACT(MILLISECONDS ...)` is the seconds field only, so the measured lag is taken
  modulo one minute (`database-router.ts:68`); `Lags` contains 61 seconds for that.
* The "single use" DID challenge is read and deleted in two commands
  (`auth.service.ts:177`); recovery codes and Telegram codes likewise. The DEL of an aged
  (198-202) or an older successful visit (214) goes by the key and takes a newer challenge
  with it.
* `addWebhook` returns the encrypted secret (`webhooks.service.ts:163`), with which no
  signature verifies; `rotateSecret` (283) says it returns the plaintext "like `addWebhook`".
* The key of the allowance snapshots has neither event id nor type (`schema.prisma:467`).
  So the comment in `soroban-allowance-watcher.worker.ts:153-157` does not hold (the second
  alert of an event is dropped), the second of two equal rewards of one ledger is taken
  for stored (`staking-reward.worker.ts:85`), and another worker's row hides an event.
* A plain database error makes `appendToChecksumChain` return null at once, without the
  retries a conflict gets (`checksumChain.service.ts:119-120`). A second roll-up of a day
  replaces its root (217; `docs/PAYMENT_CHECKSUM_CHAIN.md:89` offers it for backfills), and
  then an edit made in between verifies.
* A fork that fails without an exit is only logged (`supervisor.ts:80-82`) and never
  respawned; a respawn that is pending when `stopAll` runs is not cancelled (77).
* `connect` that awaits `ensureCursor` while the stream is closed or reconnects leaves
  a connection nobody closes (`watcher.worker.ts:779`).
* Overlapping `rotateSecret` calls return a secret that is then neither current nor
  previous.
* A `--cursor` below the saved one handles payments again; a server that ignores the
  cursor makes the CLI repeat what is older than the ids it remembers
  (`packages/cli/README.md:60`). Its live tail loses what came during a reconnection
  before its first payment (`resilient-stream.ts:98-103` says at least once).
* The leaves a, b, c and a, b, c, c have the same Merkle root.

## 8. What is not modelled

In the modelled parts: `markDeliveryFailed`, `markDeliverySuppressed` and
`getOrCreateDelivery`, which no production code calls; overlapping polls of one
process (those of two processes overlap in the theorems); removal of a wallet; passes that
see only records that are no payments up to `MAX_CATCHUP_PAGES`; the breaker object
that `lib/queue.ts:213` creates per process; token buckets of providers, which are
arithmetic over time; TOTP, signatures and XDR decoding; payload contents, metrics
and logging. `lib/queue-lanes.ts`, which `queue.ts` imports, is not in the repository;
the queue is modelled from how its callers use it; neither is a server for
`/payments/stream`, and `CliStream` takes any that the CLI's documentation admits. The
watcher's direct `enqueuePaymentAlert` (`watcher.worker.ts:352`, `399`), beside the outbox
event, and the dispatch within the process when the queue is down (`queue.ts:988-1019`)
are not in `Pipeline`: `PipelineSafe` and `PaymentSettles` are about the path through the
outbox. A failing deletion of an export's file, which the code ignores
(`exports.service.ts:310`), leaves a file no row names.

Parts left out, each with its reason in `PROJECT.json`: the Horizon pool and the
archival worker, which have no production caller; retention and partitions, bulk
deletions by date; rules, sentinels and analyses, which are pure functions of one
payment, event or envelope; digests, which read fields the schema lacks; provider
adapters; CRUD, routing, metrics and the web application, which keep no protocol
state.

Of the repository's lines by far the most are of such a kind: the generated Prisma
client alone is some 75 000 lines, and scripts, the web application, type
declarations, schemas and formatting make up most of the rest. The mapped share of
all lines is therefore small; of the files with durable state and concurrency the
parts above leave out little.

## 9. Plan

1. The inductive invariant of each liveness argument (who waits has someone to wait
   for), as a safety theorem beside the property TLC checks.
2. With `LeastExists`, other inductions over data: that a page by page walk of `Ingestion`
   visits every record, without the bound on its pages.

Worth modelling later: `Pipeline` with `Alerts` in the place of `Delivery`, and with the
faults of executions; the per-process breakers of `lib/queue.ts`; token buckets with
a clock.
