# A formal model of the huanxing cloud backend

This directory is a TLA+ development of the backend's own core logic: the event
spine of the instant messaging (IM) domain, the owner feeds that devices
synchronise from, the queues that carry commands and events into both, the
billing of orders, credits and subscriptions, and the cloud storage of an owner.
Modules are checked by TLC on small instances. The theorems in the `*Proofs`
modules are checked by TLAPS for every value of the constants. Paths below are
relative to `backend/app/`.

- [The system and its parts](#the-system-and-its-parts)
- [Modules](#modules)
- [Runs](#runs)
- [Proofs](#proofs)
- [What the code does otherwise](#what-the-code-does-otherwise)
- [What is not modelled](#what-is-not-modelled)
- [Plan](#plan)

## The system and its parts

The backend is one Python code base (FastAPI, SQLAlchemy, PostgreSQL, Redis) that
runs as API servers, as consumer workers (`hasn_im/consumer_worker.py`), as a
sync inbox worker and as Celery jobs. Processes share nothing but the databases:
every interleaving below is one of transactions, and every failure is a process
that stops, a call that raises, or a commit whose answer is lost.

```
 agents, devices ── send ──► message service ──┐ business transaction
 notification, community,                      ▼
 session, group ─► producer outboxes ─► integration event log (event_seq)
                    (OutboxRelay)              │ cursor per consumer
                                  ┌────────────┼──────────────┐
                                  ▼            ▼              ▼
                            SyncProjector  PushNotifier  RealtimeNotifier
                                  ▼
                        owner feeds (revision) ◄── business tables ◄── sync inbox ◄── sync/push
                                  │ pull with a cursor                        (daemons)
                                  ▼
                               devices

 payment channel ─ callbacks ─► orders, refunds ─► credit outbox ─► NewAPI (ledger of credits)
                                      └► contracts ◄── success of a command, sweeps

 upload, delete ─► reservations, objects, assets, counters ─► storage jobs ─► object store
```

| part | state it keeps | operations | what must be true of it |
|---|---|---|---|
| Integration event log (`hasn_im/application/event_appender.py`) | rows numbered by `event_seq`, one advisory lock per shard | `append_event` inside a business transaction, commit, rollback | numbers become visible in increasing order and without holes, so a cursor is enough to read everything |
| Event consumers (`hasn_im/consumers/`, `consumer_worker.py`) | per consumer: cursor, lease, failure rows | `tick`: lease, fetch, handle, retry, dead letter, skip | nothing passed over, nothing applied twice, a poisoned event parks a durable consumer visibly and never a best-effort one |
| Owner feed (`hasn_sync/`, PostgreSQL function `hasn_sync.append_event`) | per owner: events numbered by `revision` | append under owner locks, pull by cursor, retention | once per source event, revisions final, a device never steps over an event unasked |
| Sync inbox (`hasn_sync/application/push.py`, `hasn/sync_inbox_worker.py`) | inbox rows (status, attempts, lease) in one database, receipts in another | accept, claim, business transaction, acknowledge, fail | every accepted event applied at most once, settled in the end, acknowledged truthfully |
| Producer outboxes (`hasn_im/application/outbox_relay.py`, `adapters/sqlalchemy_producer_outbox.py`) | command rows (status, attempts, lease) | enqueue, claim a batch, send, complete, retry, dead letter | completed commands have an outcome, verdicts are final, every command is settled |
| Message service (`hasn_im/application/message_service.py`, `local_gateway.py`) | messages, suppression box, pending commitments | send under an idempotency key, suppress, release, ask for confirmation | one message per key; a row of the box is what it says; a pending answer is backed by a row |
| Node sessions, realtime notifier, history bootstrap | sessions, wake-up frames, snapshots | wake, snapshot and hand-over to the feed | a snapshot plus the feed after it is everything |
| Credit outbox (`billing/service/credit_outbox_service.py`) | command rows (status, attempts); the operations NewAPI has carried out | enqueue under a key, claim a batch, PUT, look up, settle, retry, dead letter, reconcile | what shows as settled was carried out, no command in two hands, every command is answered |
| Orders and refunds (`pay_order_service.py`, `refund_settlement_service.py`) | orders, refund rows, the channel's view | payment callback, cancel, request a refund, take credits back, ask the channel for the money, refund callback | what is paid has its command; credits go back before money does |
| Subscriptions (`subscription_contract_service.py`, `credit_grant_service.py`, `billing/tasks.py`) | contracts with their periods and epochs | activate, upgrade, renew, downgrade, cancel, refund, sweep, free grants and their backfill | each contract has its own command; what ends early is told; what is overdue ends |
| Owner storage (`hasn/service/owner_storage_service.py`, `owner_storage_maintenance_service.py`) | reservations, objects with reference counts, assets, counters, jobs; bytes in the object store | upload in two transactions, trash, restore, delete, purge and orphan jobs, sweeps, verification | counters and references are exact; nothing goes that its owner did not delete; what is there has its bytes |
| Task dispatch, sessions, groups (`hasn_task/`, `hasn/`) | runs, sessions, memberships, epochs | dispatch, lease, complete; join, leave | one runner at a time; readers see what their membership allows |
| Applications (community, growth, creator, knowledge, marketplace, ...) | their tables | create, read, update, delete with revisions | mostly single transactions |

`PROJECT.json` lists every part with its status, and under "hazards" what is
hard to test in this code, at the line where it bites, with the properties that
would notice it going wrong. The hard behaviours are: transactions that are
numbered in one order and commit in another; a ledger in another system that answers late or not at all; leases that are looked at once and
outlived; work that is committed although its answer is lost, and is done again;
one event's life in three transactions of two databases; batches under one lease;
locks taken in two orders; retention beside readers; bytes in one store and their rows in another.

## Modules

| module | stands for | state ↔ code |
|---|---|---|
| `EventLog` | what the log promises: one sequence that grows at its end, read in order by everyone | abstract |
| `OrderedDelivery` | what a durable consumer promises to the owners of feeds: one event after the other, once, to its whole audience at once; only what an operator waived may be passed over | abstract; `DurableConsumer` implements it with `cursor` its offset, `waived` the events whose dead letter was resolved as skipped, `feed` the feeds |
| `AtomicFeed` | what `hasn_sync` promises to whoever hands it an event: it enters the feeds of all its owners in one step, each at the revision after its head | abstract; `OwnerFeed` implements it with its tables as they are |
| `WorkQueue` | what a durable queue promises: an item takes effect once at the most, is done only by its effect, and a verdict is final | abstract; `SyncInbox` implements it with `effects` the committed business transactions, `ProducerOutbox` with the messages and suppression rows that a command led to |
| `IntegrationLog` | `append_event` in concurrent transactions, cursor reads | `table` is the table `integration_events`, `tx[w]` an open transaction between its three statements, `lock` the shard's `pg_advisory_xact_lock`, `cursor` a consumer's offset |
| `ConsumerLease` | what `ConsumerRunner.tick` does before it handles events | `offset` is the consumer's row in the offsets table, `run[i]` where the tick of process `i` is, `head` the highest committed number |
| `DurableConsumer` (extends `ConsumerLease`) | `_run_durable`, failure rows, `SyncProjector`, `resolve_dead_letter`, the probe | `failures[e]` is the failure row, `feed[o]` what `hasn_sync.append_event` has put into an owner's feed |
| `BestEffortConsumer` (extends `ConsumerLease`) | `_run_best_effort` with `PushNotifier` | `window` is the set of Redis dedup keys that are alive, `rest[i]` the owners still to be woken |
| `OwnerFeed` | `hasn_sync.append_event` for an audience, `pull_events`, `run_retention` | `rows` is the feed table, `lock[o]` the advisory lock of an owner, `device[d]` a cursor and a pull between its two statements |
| `SyncInbox` | `sync/push`, `SyncInboxWorker.process_one`, receipts | `inbox[e]` is the inbox row, `work[w]` what `process_one` has in its hands, `receipts` the committed rows of `hasn_sync_business_receipts` |
| `ImSend` | `send_message`/`route_message` under keys, the suppression box and its release, confirmations | `send[s]` is a call between its statements, `message` committed messages, `box` the suppression rows, `release` the locks of the owner's transaction |
| `ProducerOutbox` (extends `ImSend`) | enqueue, `claim_batch`, `OutboxRelay.drain_once`, `mark_*` | `outbox[c]` is the command row, `batch[r]` what relay `r` has claimed and not come to |
| `CreditOutbox` | `CreditOutboxService`: `claim_batch`, PUT and look-up of an operation, `_settle`, retry, dead letter, reconciliation | `event[e]` is the row of `credit_grant_event`, `ledger[e]` what NewAPI has under its `event_id`, `late` PUTs that were given up and are still on their way, `worker[w]` the place of a task in its batch |
| `RefundSaga` (extends `CreditOutbox`) | `handle_pay_notify`, `cancel_order`, `refund_order`, `_continue_refund_saga`, `settle_channel_refund`, `confirm_refund_notify` | `order[o]`, `refund[o]` are rows of `pay_order` and `pay_refund`, `channel[o]` what the payment channel has, `saga[w]` the place of a task between asking and booking, `cancelling` orders that `cancel_order` has read, `waiting` callbacks that wait for their own lock |
| `SubscriptionContract` | `activate_from_order`, `_terminate`, `cancel_auto_renew`, the free plan, `run_billing_lifecycle_sweep`, what a delivered command writes back | `contract` is the table `user_subscription` of one user, `command` the rows of `credit_grant_event` about it, `planOrder[o]` and `refunds` the documents, `now` the clock; `reading` is what calls of the free plan have read without a lock and may still write by, `overtaken` (history) the contracts that were written by a reading no longer true |
| `OwnerStorage` | `upload` in its transactions and calls of the object store, deletion by reference counting, `process_jobs`, the sweeps | `reservation`, `object`, `asset`, `used`, `reserved`, `job` are the tables, `blob` the places that hold bytes, `attempt[a]` and `worker[w]` how far a call and a job are |
| `StorageReconcile` (extends `OwnerStorage`) | the nightly `reconcile_owner(verify_objects=True)` | `scan` is the object whose bytes are being read |
| `*MC` | values of constants that a .cfg cannot write | |
| `*Proofs` | theorems about the module they extend | |

How they fit together: `IntegrationLog` shows that the events a consumer sees are
numbered 1, 2, 3, … in commit order. `ConsumerLease` takes exactly that as its
`head`. The `Projected` step of `DurableConsumer` is one transaction of `OwnerFeed`
(look-up of the source event, append, per owner of the audience), seen as atomic because
the owner locks are held until the commit. `OwnerFeed` opens it up, and implements `AtomicFeed`, in which it is
one step again: nothing that happens between its statements can be told from the outside. A
`WriteMessage` or `CommitRelease` of `ImSend` appends to the integration log in the
same transaction. `RefundSaga` puts the documents of an order on top of the outbox: each of
its steps is a step of `CreditOutbox` or leaves it alone. `SubscriptionContract` takes the outbox
as what `CreditOutbox` shows it to be: commands are delivered in any order, late, and now and then again. Its operations lock the rows they
read (or meet a unique index when they insert) and are one step each, except the free plan:
`ensure_free_contract` and `backfill_free_contract_fulfillment` read without a lock, await several
look-ups and write by what they have read, so reading and writing are steps of their own
(`BeginGrant`, `NumberGrant`, `GrantFree`; `BeginBackfill`, `BackfillFree`). A reading is never
taken back: any number of calls may have made it, each may write by it at any time later or die. The
sweep's SELECT and UPDATE stay one step: whatever happens in between leads to a state that it also
leads to before or after the sweep (a cancellation is overwritten, as if it had come too late).

What the models leave open on purpose: handlers, gates, gateways and commits may fail at any
call and succeed at the next. Gate verdicts may change between two calls. Rows
are claimed in any order, because `SKIP LOCKED` passes rows by that somebody is
updating. What NewAPI and the payment channel answer is open, within what the code relies on: an
operation is carried out at most once per id and answered with its first outcome.
History variables (`ever`, `got`, `told`, `waived`, `tried`, `seen`, `effects`, `answers`, `asked`, `overtaken`) record the past for properties and
guard nothing.

A definition called *Mutant of X* is a plausible mistake in X. It takes part in no
specification: `PROJECT.json` pairs it with the property that notices it when X
is replaced by it.

## Runs

All counts are distinct states. A fair specification is used where a liveness
property is among those listed.

| run | shows | bounds | states |
|---|---|---|---|
| `integration_log` | `NothingPassedOver`, `NoLateCommit`, refinement of `EventLog`, `EverythingIsRead` | 3 transactions at a time, 2 readers, 4 events, 2 per transaction | 2 472 |
| `durable_consumer` | `NothingPassedOver`, `ProjectedOnce`, `FeedInOrder`, refinement of `OrderedDelivery`, `BacklogConsumedOrReported`, `TakesUpAgain` | 2 workers, 2 events (the dead letter of one may be resolved as replayed, of the other as skipped), 2 owners, batches of 2, 2 attempts, 1 aborted tick | 104 340 |
| `best_effort_consumer` | `TriedBeforeAcknowledged`, `NothingBlocks` | 2 workers, 3 events, 1 conversation, batches of 2, 1 crash | 84 816 |
| `owner_feed` | `KeptIsNotMissed`, `SourceOnce`, `NoLockCycle`, `RevisionsAreFinal`, refinement of `AtomicFeed`, `EveryEventIsPulled` | 2 writers, 2 owners, 3 source events, 3 revisions, all rows may expire, 1 device, pages of 1 | 231 408 |
| `sync_inbox` | `AppliedAtMostOnce`, `VerdictsAreFinal`, `LeaseIsRespected`, refinement of `WorkQueue`, `EveryEventIsSettled` | 3 workers, 1 event under 2 payloads, 2 attempts, 2 mishaps | 77 889 |
| `producer_outbox` | `CompletedHasOutcome`, `BoxedOnlyIfUndelivered`, `NothingIsTakenBack`, refinement of `WorkQueue`, `EveryCommandSettled` | 2 relays, 2 commands, batches of 2, 2 attempts, 1 mishap | 352 986 |
| `refund_saga` | `SettledIsApplied`, `ClaimsAreExclusive`, `RevokedBeforeReturned`, `PaidIsAccounted`, `EveryCommandAnswered` | 1 order with its 2 commands, 2 dispatchers, 1 reconciler, batches of 2, 2 attempts, 1 mishap | 359 812 |
| `subscription_contract` | `EveryContractHasItsCommand`, `EarlyEndIsTold`, `OverdueEnds` | 2 orders of a smaller and a larger plan, 3 contracts, 2 numbers of a contract, any number of calls of the free plan, time 0 to 2 with cycles of 1, with or without a free contract from before the outbox | 1 592 473 |
| `owner_storage` | `CountersAreExact`, `ReferencesAreExact`, `DeletedOnRequest`, `LiveHasBlob` | 2 keys with one content, 2 calls and 2 job workers (all symmetric), a quota of 2, 2 attempts, 2 jobs | 1 883 620 |
| `confirmation_lost`, `failed_refund`, `merged_object` | counterexamples, see [below](#what-the-code-does-otherwise) | the smallest that show them | |

**Why these bounds.** Two processes are what it takes for one to outlive its
lease beside the other; `sync_inbox` has a third, which could profit from a row that a
stale worker frees. Two events are what order, passing over and batches need;
`owner_feed` has three revisions because a hole lies between two of them. Two
attempts separate a failure that is retried from the last one. One mishap (crash
or outlived lease) reaches every overlap of two processes, two mishaps allow a crash
after an overlap. One order has two commands, a grant and a revocation, which
is what batches, order and the saga need; two orders share nothing but a batch, as its two commands do. Three
contracts are a plan, what an upgrade or renewal puts after it, and the free
plan; a fourth would repeat one of them. Two keys of one content meet in one
object; two calls may share one key; a quota of 2 is reached.

**Bounds in guards.** `MaxEvents` (published events), `MaxPerTx`, `MaxRev`
(revisions per feed), `MaxAborts` and `MaxMishaps` (crashes, outlived leases and,
in `CreditOutbox`, exceptions that nobody expects), `MaxTime` (the clock), `MaxContracts` and `MaxJobs` (rows of a table), `MaxNumbers` (how often one contract is filled in)
are bounds of the models; `MaxAttempts`, `BatchLimit`, `PageLimit`, `Quota` are parameters of the code. In `DurableConsumer`
leases expire without bound, which is stronger than the code. In `SyncInbox` and
`ProducerOutbox` a lease expires freely when nobody is at the row any more, and at the price of a mishap
while somebody is: without a bound a handler that always takes longer than its
lease never settles anything, and no such promise is made. In `OwnerStorage` calls and workers die
without bound.

**Deadlock** is checked except where the system may really stop: all commands are
settled (`ProducerOutbox`, `RefundSaga`), no order is left and the clock has come to
its bound (`SubscriptionContract`), or all assets are deleted and no jobs are left (`OwnerStorage`).

**Fairness**, and where the code earns it:

- *a reader's, worker's or relay's own step* (weak): `run_forever`,
  `consumer_worker` and `drain_once` loop for ever in every process that is up,
  and catch and log what a round raises. Handlers are never assumed to succeed;
- *leases and back-offs end* (weak): time passes;
- *a pull of a device* (weak): assumed of a device that is on;
- *the owner's open transaction ends* (weak): a request ends, by commit or
  rollback; that an owner releases anything is not assumed;
- *the two steps of a call that wait for a lock* (strong, `ProducerOutbox`):
  PostgreSQL grants a lock to its waiters in their order, so a lock that becomes
  free again and again does not pass anyone by;
- *a task of the credit outbox* (weak, `RefundSaga`): Celery beat starts the dispatcher
  and the reconciler again and again, and a process that is up goes on; the
  channel finishes a refund that it has taken, and repeats a callback that is not
  answered, as payment channels do;
- *the sweep* (weak, `SubscriptionContract`): beat runs it daily; nothing is said of when;
- `TakesUpAgain` alone has a premise (`Recovery`): handlers that are tried again and again
  succeed in the end, and an operator resolves what the probe reports.

No run with a liveness property uses symmetry.

## Proofs

TLAPS checks, for every number of processes, events, owners, attempts and
mishaps:

| module | theorems | argument |
|---|---|---|
| `IntegrationLogProofs` | `TypesAreKept`, `CursorsMissNothing` (`NothingPassedOver`), `NoHoles` (`NumbersAreContiguous`), `NumbersStayFree` (`NoNumberConflict`), `CommitOrderIsNumberOrder` (`NoLateCommit`), `Refinement` (`ImplementsEventLog`) | The invariant says that only the holder of the shard lock has an open transaction with numbers, that what it sees (table and own rows) is numbered 1..n, that the number it has read is still the top, and that its own rows are above the table's. The lock is what keeps the second and third true between two statements; the properties alone are not inductive, because they do not speak of open transactions. The refinement adds that a reader's cursor counts what it has seen; a commit then appends the transaction's rows, whose numbers follow the log's, so that the log as a function of the table grows at its end. |
| `DurableConsumerProofs` | `TypesAreKept`, `NoEventIsPassedOver` (`NothingPassedOver`), `NoEventIsRepeated` (`ProjectedOnce`), `FeedsAreInOrder` (`FeedInOrder`), `Refinement` (`ImplementsOrderedDelivery`) | The invariant adds that a batch begins at most one beyond the cursor (a stale worker is behind it, never ahead), that a worker about to skip has seen a waiver, and that feeds hold nothing beyond the cursor. So a stale worker either finds its event in the feed or is the first to append it, right behind the cursor. The lease itself is not used: it is a matter of efficiency, not of safety. For the refinement, `WholeAudience` says that an event is in all feeds of its audience or in none: a stale worker that finds it in one feed appends it to no other. What a worker passes over had its waiver recorded before, and a waiver is never withdrawn. |
| `BestEffortConsumerProofs` | `TypeCorrect`, `TriedFirst` (`TriedBeforeAcknowledged`) | A worker, however stale, is at most one event ahead of the cursor, and acknowledges only what it was itself through with. The lease is not used here either. |
| `OwnerFeedProofs` | `TypeCorrect`, `RevisionsStay` (`RevisionsAreFinal`), `SourcesOnce` (`SourceOnce`), `KeptNotMissed` (`KeptIsNotMissed`), `LocksInOrder` (`NoLockCycle`), `NobodyIsAhead` (`NeverAhead`), `Refinement` (`ImplementsAtomicFeed`) | Whoever holds an owner's lock is alone in reading and numbering the feed until its commit (`Locking`), so the highest revision it has read stays the highest (`Numbered`) and its rows are beyond everything that was ever in the feed (`OwnRows`). Retention leaves a row as high as any there ever was (`HeadKept`): without that, numbers would be given out again. Locks are taken upwards (`LockOrder`), which excludes cycles. That a finite feed has a greatest revision is taken from the well-founded order on the subsets of a finite set. For the refinement, `AtHead` says that the number an open transaction has read or given is still the next one, whatever retention has deleted since, and `Served` that every owner whose turn is over has a row of the transaction or had the event before: at the commit both speak of the whole audience. |
| `SyncInboxProofs` | `TypeCorrect`, `AppliedOnce`, `AcknowledgedApplied`, `AcceptedKept`, `VerdictsFinal`, `LeaseRespected`, `RetriesBounded`, `Refinement` (`ImplementsQueue`) | `Applied`: receipts and effects agree, one open transaction at a time has inserted an event's receipt, and `first` is not stale, because the INSERT waits for the other transaction. `AppliedIsCommitted` and `AcceptedIsStored` carry that over to rows and answers. `Counted`: a worker that has its lease has the row's current count, and an event can be claimed beyond `MaxAttempts` only after a mishap. All of them rest on `RowStep`: the four ways in which a row changes. For the refinement, `WorkIsStored`: a worker is only ever at an event that was accepted, so that an effect never comes before its row; a row turns *applied* only over its effect, and never again after *dead*. |
| `ProducerOutboxProofs` | `TypeCorrect`, `CompletedIsTrue` (`CompletedHasOutcome`), `VerdictsStay` (`NothingIsTakenBack`), `BoxedUndelivered` (`BoxedOnlyIfUndelivered`), `Refinement` (`ImplementsQueue`) | `Answered`: an answer stays true however late its relay marks the command, because messages stay and a row of the box leaves *waiting* only with its message (`ReleasedIsSent`). `OneWrites`: past the look-up a call is alone with its key, so neither another call nor a release has delivered the message when it is boxed. `RecordsAreCurrent`: a relay that has its lease knows the row's count; without it a late mark could lower `attempts`. For the refinement, `RecordsAreEnqueued` and `ReleasesAreBoxed`: what a relay sends was enqueued, and a release turns a row of the box into its message, which is the same effect and not a second one. |
| `BillingProofs` | `OutboxInvariant`, `SagaImplementsOutbox`, `TypeCorrect`, `SettledCommands` (`SettledIsApplied`), `ExclusiveClaims` (`ClaimsAreExclusive`), `RefundOrder` (`RevokedBeforeReturned`), `PaidAccounted` (`PaidIsAccounted`); `ContractInvariant`, `ContractTypeCorrect`, `EveryCommand` (`EveryContractHasItsCommand`), `EarlyEnds` (`EarlyEndIsTold`) | The outbox is proved by itself, and every step of the saga is a step of it or leaves it alone. `Outcomes` says what a task that has come to some place knows (past the verdict, the ledger has the operation; what is carried out is no longer on its way), `HandsApart` and `HandsMatch` that the rows a dispatcher holds are marked and written by nobody else. A claim is exclusive without any lease because no row in *processing* is ever claimed: the price is that nobody takes it up after a crash. `PaidAccounted` adds that credits are only taken back for a refund that was requested (`Requested`): a retry may replace the mark of an order whose command could not be made only if there is a command after all, or a refund. For the contracts, `KeysName` says what a key tells of the contract it was made for (its id, an order, or the epoch of a free plan), and that the command carries the number the contract has. `enqueue` is silent when a key is taken, so a contract has a command of its own only if no other one can have its key. Ids and orders cannot be met again; a free grant whose number is still the next one takes an epoch above every other (`EpochsBounded`), and a backfill that comes in time uses epoch 1, which no other free contract has as long as the one from before the outbox is current and not filled in (`LegacyAlone`). `ReadingsKnown` says what remains true of a reading however late the call writes: the contract is there and free, its epoch is 0 or 1, the number is not beyond the next. Contracts that are written later than that are in `overtaken`; they are free ones (`OvertakenFree`), and nothing is claimed of them, because the code does not hold it. `EarlyEndsTold` speaks of the period that was cut short, whatever the status has become since: a late activation may turn an ended contract active again. |
| `OwnerStorageProofs` | `TypeCorrect`, `ExactCounters` (`CountersAreExact`), `QuotaRespected` (`WithinQuota`), `ExactReferences` (`ReferencesAreExact`), `DeletionOnRequest` (`DeletedOnRequest`), `LiveAssetsHaveBytes` (`LiveHasBlob`) | `RowInv` holds for the tables alone: counters and references add up, an object and its assets are active or deleting together. `PurgedForGood`: what a purge job is about never becomes active again. `Written`: a call that has written its bytes and still has its reservation finds them there, unless an orphan cleanup was recorded for the same place. Together they keep the bytes of active objects (`ActiveHasBlob`). |

Assumptions are those that the modules state and name (`BoundsAssumption`, `LeaseAssumption`, ...): positive
limits, and a value for "nobody" that is no process. TLC evaluates them in every
run.

Only model-checked: liveness, because fairness and ENABLED are beyond the prover. The
refinements of `OrderedDelivery`, `AtomicFeed` and `WorkQueue` are of their safety part: the abstract modules state
no fairness. The types of `BestEffortConsumer`, `OwnerFeed` and `SubscriptionContract` are
proved and no longer among the properties of their runs. No module uses a
RECURSIVE operator or induction over data.

## What the code does otherwise

Runs that expect a violation check one sentence of the repository against what
the code does:

- `confirmation_lost` (`hasn_im/application/message_service.py:1273`): when the
  gates ask for a confirmation, the pending row is flushed and the session closes without a commit;
  the caller is told that the owner will be asked.
- `failed_refund` (`billing/service/pay_order_service.py:1023`): the callback of a
  refund that failed updates the refund's row and then, in a second session, waits for the lock of that
  row. It waits for itself, and the credits are never given back.
- `merged_object` (`hasn/service/owner_storage_maintenance_service.py:1358`): the nightly verification
  merges an object into any other with the same bytes, also one under another access or one that is being deleted, and
  the live asset is purged with it.

Met while modelling and worth knowing. None of these contradicts a property
that is checked; where one bounds a property, the property says so.

In the event spine:

- retention deletes any expired row below the head, while the bounds check looks at the lowest
  revision left (`hasn_sync/domain/retention.py:17`): a row that expires before an older one leaves a hole, and a
  device below it steps over the deleted event without a full refresh. `KeptIsNotMissed` speaks of rows that are kept;
- an event that was resolved as *replayed* and fails again is dead-lettered with
  the old resolution (`hasn_im/consumers/store.py:201`): it is tried again at every poll without back-off, and the probe
  stays healthy;
- the dedup key of pushes is per conversation, but a fan-out leaves its sender out
  (`hasn_im/consumers/push_notifier.py:80`): whoever is answered within the second is not woken;
- `mark_completed` also matches completed rows (`hasn_im/adapters/sqlalchemy_producer_outbox.py:290`): a relay that
  outlived its lease overwrites the recorded message id with what it was told;
- a durable consumer's lease is not looked at in the transaction that handles
  an event (`framework.py:168`). Two workers may both commit "their" handling of one event; what makes
  this harmless is the look-up of the source event under the owner's lock, not
  the cursor, to which `sync_projector.py:8` gives the credit ("at most once");
- a dead letter can be written for an event that is already consumed
  (`framework.py:175`, after a lost commit answer). It shows in the probe and
  parks nothing, because the cursor is past it;
- the two statements of a pull (`pull.py:27`) see different snapshots; what retention deletes
  between them is stepped over;
- a release locks a row and then its key, a call that is suppressed again locks
  the key and then the row: PostgreSQL cancels one of them, and the outbox retries
  (`BreakDeadlock`);
- the gates run before the look-up of the key: the retry of a delivered command may be
  rejected and the command end as a dead letter;
- crashes are not counted as failures by the outbox, only by the inbox: a
  command on which every relay crashes is claimed for ever.

In billing:

- a dispatcher that dies after its claim leaves its commands in *processing*, which
  neither claims nor the reconciliation look for (`credit_outbox_service.py:86`): `EveryCommandAnswered` leaves
  them out by name (`Stranded`);
- a refund whose result at the channel is unknown is not asked for again, and the
  answer *processing* is booked as success (`refund_settlement_service.py`);
- the callback of a payment that is repeated after a refund or a close sets the
  order paid again, and a subscription gets a second contract with a second command, where
  `pay_callbacks.py:11` promises one; `cancel_order` reads without a lock and writes without a
  condition, and may close an order that was paid in between;
- the success of an activation sets its contract active, whatever became of it: delivered after an upgrade
  or a refund it brings the contract back, and delivered while another one is current it runs into the
  unique index, so that a scheduled contract does not take over until the current one has ended;
- the calls of the free plan write by readings that are no longer true
  (`credit_grant_service.py:73` and `:106` against `:156`, `tasks.py:369` against
  `credit_grant_service.py:225`). Four things come of it, each a behaviour of
  `SubscriptionContract`: an upgrade between the reading and the writing of a backfill ends a contract
  that NewAPI does not know yet, without a command (`subscription_contract_service.py:261`), and the
  backfill then enqueues its activation, against “旧合同当场终止（登记到期命令…）”
  (`subscription_contract_service.py:74`); if a refund and a new grant fall in between too, the
  backfill finds the key `free:…:1` taken and its activation is swallowed; two backfills that overlap
  give the contract two numbers, NewAPI is told the first and a later expiry names the second; a
  grant whose number was given out in the meantime gets a contract and no command, against
  “每次「失效 → 重新授予」都必须换一个新键” (`credit_grant_service.py:105`).
  `EveryContractHasItsCommand` and `EarlyEndIsTold` leave out exactly the free
  contracts that were written that way (`Spared`) and are violated without it;
- the sweep ends *active* contracts only: one in *cancel_at_period_end* stays current; a
  renewal that is paid after the end and before the sweep violates the unique index and is not booked;
- the command that ends a refunded subscription carries no order number, so its order
  never shows *reversed*.

In storage:

- an orphan cleanup looks for a live object and then deletes the bytes; an upload under the same
  key that finalizes in between loses them (`owner_storage_service.py:4632`). `LiveHasBlob` leaves out this one way;
- a job that is *running* when its worker dies is never taken up again, and bytes
  that are written before a crash have neither row nor job: both stay in the store;
- a key whose reservation was released or has expired can never upload again; content whose
  object is being deleted, or is missing, cannot be uploaded until that row is *deleted* (unique index);
- the verification marks an object *missing* whatever happened to it since it was
  read, and takes another advisory lock than uploads do.

## What is not modelled

Contents of messages, events and payloads; the gates' decision tables;
conversation sequence and unread projections; group sends; recall (for the log an event like any
other); classification before the inbox; what a device does after a full refresh; the
time that a turn of the worker's loop takes; collisions of 32-bit advisory lock
keys; appends to a feed without a producer, which are not deduplicated; prices, and goods that have no
command at NewAPI (applications, seats, lead packs); administrators' grants; `revoke_free_contract`,
which only tests call; paid contracts from before the outbox; multipart uploads, versions
and moves of files, and sizes other than one unit.
Whole parts that are not modelled yet are in `PROJECT.json` with the reason;
the applications around this core, administration and generated code (the largest
part of the repository by lines) stay outside: they create, read and update rows in single
transactions.

## Plan

Done: the spine from send to device, the way back through the inbox, billing from the
order to the ledger, the storage of an owner, and proofs for all of them. Next, in this order:

1. **HistoryBootstrap**: snapshot of a device and hand-over to the feed, over the
   log, the projector and the feed at once: snapshot plus feed is everything, nothing twice.
   Abstract specification: a device's view is a prefix of the owner's feed.
2. **TaskDispatch**: runs, leases and node answers; **ArtifactOutbox** and the
   relation outbox as variations on `ProducerOutbox`.
3. Group membership and read cursors (epochs), as a module beside `OwnerFeed`.

Constants, one action per operation, invariants as named parts and no RECURSIVE
operator keep these modules ready for proofs. Their runs are to stay at the sizes above: two
processes, two items, one mishap, at most two million states.
