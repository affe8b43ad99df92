# A TLA+ development of the order platform

This directory holds TLA+ modules for the NestJS order platform in `src/`, TLC
configurations that check them on small instances, and proofs checked by TLAPS for every
value of the constants. Paths and line numbers below are relative to the repository.

1. [The system](#1-the-system)
2. [Modules and code](#2-modules-and-code)
3. [What the runs check](#3-what-the-runs-check)
4. [Assumptions](#4-assumptions-database-broker-fairness)
5. [What is proved](#5-what-is-proved)
6. [Disagreements found](#6-where-code-and-documentation-disagree)
7. [Not modelled, and the plan](#7-not-modelled-and-the-plan)

## 1. The system

One Node.js image serves REST and GraphQL, consumes the queue `orders.process`, and
relays an outbox table to the broker. Several instances of it may run. They share one
PostgreSQL database and one RabbitMQ broker. Another build of the same sources serves
`Payments` over gRPC. There are no threads: interleaving comes from `await`, from timers,
and from other instances.

| Component | State | Operations | Interacts with | What is hard | What makes it correct |
|---|---|---|---|---|---|
| Order creation (`orders.service.ts:80-250`) | `orders`, `order_items`, `stocks` rows | `create`, `authorizePayment`, `remove` | PostgreSQL, queue `orders.process`, `Payments.Authorize` | key check outside the transaction; row locks taken in any order; effects after COMMIT | one order per key; no oversell; reservation exactly the order's demand; true answers; locks released |
| Worker (`orders-worker.service.ts`, `orders.service.ts:252-283`) | `processed_messages`, `orders` rows, unacknowledged deliveries | `handleMessage`, `processFromQueue` | queues `orders.process` and `orders.dlq`, outbox | redelivery after any crash point, copies of one message in parallel, lost COMMIT answers, DELETE in between | no message lost, effect at most once, dead-lettered only when exhausted, every message settles |
| Status PATCH (`orders.service.ts:334-344`) | `orders` rows | `updateStatus` | races the worker on the row | unlocked read; a save that compares in one step and writes the differing columns in another | `processed_at` set exactly when the status is processed, where no such save was overtaken |
| RabbitMQ client (`rabbitmq.service.ts`) | one connection, one channel | connect, publish, consume | everyone that publishes | connects once, never again; a throw in a handler becomes a nack with requeue | the consumer's loop survives a dead channel; no message is requeued for ever (it may be, section 6) |
| Outbox (`outbox/`) | `outbox_messages` rows, a timer | `add`, `tick` | written by the worker, read by the relay of every instance | overlapping ticks, batches in one transaction, crash between publish and COMMIT | no row in two ticks, SENT only after a publish, one copy and one more per rollback, the outbox drains |
| Stocks (`stocks.service.ts`) | `stocks` rows | reads, `updateByProductId` | races order creation | unlocked read-modify-write | reservations survive |
| Payments REST (`payments.service.ts`) | `payments` rows | `create`, `update`, `remove` | queue `status.changes` | unlocked read, whole-entity save, then a publish whose error is only logged | the announcements tell the rows' statuses |
| Payments gRPC (`payments-grpc.service.ts`) | the same rows | `Authorize`, `Capture`, `Refund`, `GetStatus` | called by `create`; runs in a process of its own | find-then-insert without a lock or a unique index; writes that announce nothing | one payment per idempotency key |
| Shipping (`shipping.service.ts`) | `shipping` rows | `create`, `update`, `remove` | queue `status.changes`, invoice service | as payments, and a date that is set once | date of receipt set by the first receipt, never moved |
| Auth (`auth/`) | JWTs, `token_blacklist` rows | `login`, guards, `logout`, hourly pruning | guards of every route | checks spread over several reads; clocks of several processes | a token that was logged out or revoked stays out; the blacklist does not grow for ever |
| Users (`user.service.ts`) | `users` rows with `role`, `token_version` | `create`, `update`, `updatePassword`, `setRole`, `revokeAllSessions`, `remove` | Auth; cascades to `token_blacklist` and `files` | a whole-entity save next to an increment in place | roles and revocations are not written back by a stale save |
| Files (`files/`) | `files` rows, S3 objects | `presign`, `complete`, `remove`, hourly cleanup | Products, Users, S3 | two stores without a transaction; cleanup racing `complete`; uploads later than the row | READY rows have an object, deleted rows leave none |
| Products (`products.service.ts`) | `products` rows with `image_file_id` | `create`, `update`, `remove` | Files, through `complete` and a foreign key | stale entity saves over the image | the image is a READY file, the one last completed |
| Orders' reads, GraphQL, Audit log, Health, Config, Migrations, Seed, Carrier clients | rows of their own or none | reads, start-up | - | little | - |

How they interact on the main path: `create` commits an order and its reservation
(PostgreSQL), publishes `{messageId: randomUUID(), orderId, attempt: 1}` (RabbitMQ; there is
one such message for an order, which the model therefore identifies with it), and calls
`Payments.Authorize` (gRPC with a deadline). A consumer slot of some instance receives the
message, and in one transaction inserts `processed_messages`, sets the order to
`PROCESSED` and adds an outbox row. On failure it republishes with `attempt + 1` or
dead-letters, and acknowledges last. The relay of some instance later publishes the outbox
row to `domain.events`.

Beside it, payments and shipments of an order are created and PATCHed, each change of
status is announced on `status.changes`, and removing the order removes them by cascade.
Users log in and out, and every guarded route reads the blacklist and the user's row anew.
A product's image is presigned, uploaded by the client to S3 itself, completed, and
removed or cleaned up.

## 2. Modules and code

| Module | Models | Lines of the code |
|---|---|---|
| `OrderCreate` | concurrent `create` calls, stock PATCHes, `remove` | `orders.service.ts:80-250, 346-349`, `stocks.service.ts:22-37` |
| `OrderPlacement` | abstract specification of `create`: a request takes effect in one step, on the stock of that moment | implemented by `OrderCreate` |
| `OrderProcessing` | publish, consumption, retries, dead letters, PATCH and DELETE | `orders-worker.service.ts:32-79`, `orders.service.ts:252-283, 334-349`, `rabbitmq.service.ts` |
| `OrderEffects` | abstract specification of the pipeline: a message, once sent, takes effect at most once or is dead-lettered, and one of the two happens | implemented by `OrderProcessing` |
| `OutboxRelay` | `OutboxService.add`, overlapping relay ticks, the wire to the broker | `outbox-relay.service.ts`, `outbox.service.ts` |
| `OutboxDelivery` | abstract specification of the outbox: an event is handed over, at the price of a rollback once more, and then closed; only interrupted work may hand over a closed event | implemented by `OutboxRelay` |
| `StatusFeed` | what payments and shipments share: rows, calls, a `save` in its steps, announcements, connections | `rabbitmq.service.ts:80-96`, the tables and cascades of `1700000000000-init.ts` |
| `Payments` | both services over the payments table (extends `StatusFeed`) | `payments.service.ts:22-122`, `payments-grpc.service.ts:28-101` |
| `Shipping` | shipments (extends `StatusFeed`) | `shipping.service.ts:27-150` |
| `Fulfilment` | `Payments` and `Shipping` composed, with the removal of their orders | `orders.service.ts:346-349` |
| `Sessions` | users, tokens, guards, blacklist | `auth.service.ts:21-61`, `jwt.strategy.ts`, `roles.guard.ts`, `user.service.ts:24-80`, `token-blacklist-cleanup.task.ts`, `1700000006000-*.ts` |
| `SessionAccess` | abstract specification of the guards: who is let in with which token | implemented by `Sessions` |
| `Media` | uploads, their cleanup, product images | `files.service.ts:38-152`, `storage.service.ts`, `file-cleanup.task.ts`, `products.service.ts:21-101`, `1700000004000-create-files.ts` |
| `*MC` | the instances for TLC | - |
| `*Proofs` | theorems and proofs | - |

`PROJECT.json` maps every definition to its lines.

**OrderCreate.** A request walks `new → locking → checked → inserted → committed →
published → done`; `reread` is the catch block after a unique violation. The variable
`stock` holds committed rows; `work[r]` is the transaction's private copy, read when the
row lock is granted. `LockStockRow` takes one row at a time because the code's query has no
ORDER BY and so fixes no order; a cycle of waits is resolved by `BreakDeadlock`, as
PostgreSQL does. `Interrupt` stands for a failing statement, or the death of the process,
at any point. `KeyHeld` is the wait of an INSERT behind an open transaction with the same
idempotency key, `InsertDuplicate` is error 23505. A PATCH has three steps because
TypeORM's `save` does: read by the service, re-select inside `save` to find which columns
differ, UPDATE of those. `OrderPlacement` sees `stock`, `placed`, `present` and `answer`
only: `CommitOrder` is its `Place`, a rejection its `Refuse`, either replay its `Replay`, and
locks, waits, the open transaction and the error paths are invisible or a `Fail`.

**OrderProcessing.** A consumer slot (one of the `prefetch` deliveries of a process) walks
`received → inserted → found → loaded → settled`, or `failed`, which leads to `Retry` or
`DeadLetter`. `settled` still has to `Ack`. `save` compares at `loaded` and writes later: if
the row was processed before, only `processed_at` differs (`again`). A PATCH walks `read →
update` in the same way and writes the columns `cols` that differed. A save that writes one of
the two columns and is overtaken in between leaves status and stamp of two different writers;
`torn` records the orders to which that happened. `chan[p]` is a process's channel and whether
the process lives. `due` is the window between the order's COMMIT and the publish. The backoff
is not a state of its own: it is the time a slot stays `failed`. A queue is a bag of copies
`<<message, attempt>>`, so redelivery and republish reorder and multiply copies freely, as
several consumers over one queue do. `Extra` are messages published by hand as the
repository's demo scenarios do, one that always fails (`Poison`) and one that is not JSON
(`Garbled`) among them, and beyond these one whose body is `null` (`Bodiless`) and one whose
`messageId` is a number (`OddId`). When a handler throws, `consume` answers with a nack: on an
open channel the copy is requeued (`Nack`), on a closed one nothing is left to do (`Abandon`).
A null body always throws, a numeric `messageId` when a failed run is to be republished or
dead-lettered.

**OutboxRelay.** A tick holds the rows it locked: `todo`, and those it has marked `sent`
or `failed` in its open transaction. `status` is what is committed. `attempts` and the
exponential backoff are reduced to `due`: a FAILED row is not due until time passes.
`wire[p]` holds what `sendToQueue` wrote and the broker has not read yet. The database may end
the session of a tick (`EndSession`): its locks are free and its marks are gone, but the tick
may publish one more row before its next statement tells it so (`stray`, `PublishStray`,
`EndStray`). Nobody in the repository declares `domain.events`; `Declare` is somebody else,
at any time or never, and until then the broker drops what it receives (`dropped`).
In `OutboxDelivery` a row is `recorded`, then handed over (`PublishRow`), then `closed` together
with the other rows of its tick (`CommitTick`). A crash and an ended session are a
`RollBack`; what the tick may still publish is `interrupted`, until it does or gives up.

**StatusFeed, Payments, Shipping, Fulfilment.** `call[r].pc` says where a call stands: it has
read what it needs and will `insert`, `authorize` (an insert for user 0), `ship` or `delete`;
or it holds an entity it read and walks `save → update → announce`. A `save` has three steps,
read, re-select and compare, UPDATE, because TypeORM's has: `cols` are the columns that
differed at the second. An id is given out once (`made`); a transaction number is a key,
`NoNumber`, or the id of the row whose UUID it is. An announcement goes to the `wire` of the
call's process, from there to `latest`, the last status the broker has of a row, or to `lost`
when the connection or the process goes, or when the answer to the COMMIT before it is lost
and the call ends without announcing (`SaveUnanswered`). Payments and shipments differ in
their ids, so that one set of save steps serves both and a single `RemoveOrder` cascades to
both tables. History variables record what the code does not prevent: `overlapped` (two saves
of a row overlapped, or one began before the announcement of the other had left its process),
`silent` (saved by `Capture`, which announces nothing), `raced` (two `Authorize` calls under
one key overlapped, or a PATCH took the key off its row). The properties say that nothing else
goes wrong.

**Sessions.** A guarded request walks `blocked? → user? → accepted`: passport checks
signature and expiry, `isBlocked` reads the blacklist, `validate` the user's row, and
`RolesGuard` uses the role of that read; the handler runs on what they found. `expired[p]`
is the clock of a process, which also decides which blacklist rows it prunes.
`revokeAllSessions` is one UPDATE; `setRole` and `update` save an entity read before, in the
three steps above. `assigned`, `loggedOut`, `revoked` and `overtaken` are history: the
last role given, tokens a logout of which was answered, tokens older than a revocation, and
users whose saves overlapped one another or a revocation. `SessionAccess` sees a request
at the door, in the hall or inside (`blocked?`, `user?`, `accepted`) and five sets of tokens
that only grow; the blacklist and its pruning, the versions and the saves are invisible.

**Media.** A row of `files` and its S3 `object` change in different steps, and the client's
`Put` comes at any time while its `url` is valid, also after a deletion. `complete` is
`head → commit`, `remove` is `deleteObject → deleteRow`, a cleanup reads its whole batch
(`sweep`) and then deletes object and row of one file after the other (`swept`). A
transaction is one step. `ON DELETE SET NULL` and `CASCADE` are part of the actions that
delete. History: `latest` (the file last completed for a product), `contested` (held by a
cleanup during a `complete`, or being removed), `leaked` (files whose object may
survive the row: a failed cleanup, a late upload, the row's owner removed), `overtaken`
(the product's image changed under a save).

## 3. What the runs check

| Run | Instance | Checks | Distinct states |
|---|---|---|---|
| `pipeline_safety` | 1 order; 1 message by hand for the same order: always failing, unparsable, or with a numeric id; 2 processes with a slot each, 1 PATCH client, 2 attempts, 1 crash or lost channel | `TypeOK`, `NoMessageLost`, `ExactlyOnce`, `DeadLetterExhausted`, `NoDuplicationWithoutLoss`, `StampedIffProcessed`, `NoDuplicateUpdate` | 1,311,275 |
| `pipeline_live` | 1 order; 1 message by hand for the same order: with a null body or a numeric id; 2 processes, 2 attempts, 1 crash, 1 lost channel | `EveryMessageSettles`, `QueueDrains`, `ImplementsEffects` | 123,942 |
| `create` | 3 requests over 3 products: 2 over A and B, the third over C under the key of the first; 1 PATCH of a stock column | `TypeOK`, `OneOrderPerKey`, `AnswersAreTrue`, `NoStrandedLocks`, `ReservationsAddUp`, `CommitNeverOversells`, `ImplementsPlacement`, `EveryRequestAnswered` | 135,137 |
| `outbox` | 2 rows, batches of 2, a tick in each of 2 processes, 1 crash, 1 lost connection, 1 transaction that the database ends, a queue declared at any time or never | `TypeOK`, `TicksAreDisjoint`, `SentArrives`, `CopiesArePaid`, `ImplementsDelivery`, `OutboxDrains` | 247,961 |
| `fulfilment` | 1 order with a shipment, room for 3 payments and 3 more shipments, 3 calls in 2 processes, 1 idempotency key, 1 fault | `TypeInvariant`, `FeedConverges`, `OnePaymentPerKey`, `ReceivedIsStamped`, `FirstReceiptStands` | 230,569 |
| `sessions` | 1 administrator with a token, 1 user to be created, 1 token to be issued, 3 requests in 2 processes, versions up to 3 | `TypeOK`, `RoleFollowsAssignment`, `LogoutIsFinal`, `ImplementsAccess`, `EntriesArePruned` | 351,266 |
| `media` | 1 product with an image, a second upload for it, 1 product to be created, 3 requests and the cleanups of 2 processes, 1 failing S3 request or stopped cleanup | `TypeOK`, `ReadyHasObject`, `GoneFromBoth`, `ImagesAreReady`, `ImageIsLatest`, `PendingIsSettled` | 282,389 |
| `pipeline_terminal`, `pipeline_requeue`, `create_lines`, `create_patch`, `fulfilment_authorize` | see section 6 | one property each, violated | - |

What the properties say that their names do not:

* `ImplementsPlacement`: `create` is atomic to everyone who sees rows and answers only; in
  particular a 409 or a replay is true of the moment in which it was decided.
  `ReservationsAddUp`: until a PATCH writes, the reserved columns are the sum of the lines of
  all orders placed. `NoDuplicationWithoutLoss`: without a crash or a lost channel a message
  is in one place at most, retried or not.
* `StampedIffProcessed`: status and `processed_at` go together in every order that is not
  `torn`; `torn` is the one race that the code leaves open, and every other order of PATCH,
  run and DELETE is covered, also a PATCH that read before a run committed.
* `EveryMessageSettles`, `QueueDrains` and the fairness half of `ImplementsEffects` are about
  behaviours without a `Livelock`. That name stands for one thing only: from some point on,
  there is always a copy in the queue or in a slot of a message that the nack requeues. Such a
  copy can take every delivery, as the queue has no order here. Everything else (crashes, dead
  channels, failing runs, a message with a numeric id whose run succeeds at last) must settle.
  That the livelock itself is possible is `pipeline_requeue`.
* `SentArrives`: a SENT event is on the queue or on the way, or was lost with a connection or
  process, or came when there was no queue. `CopiesArePaid`: each copy of an event but the
  first costs a crash or a transaction that the database ended, one each. `ImplementsDelivery`
  implies `SentIsFinal`: what is SENT is never changed, and published again only by a tick
  that was thrown out and does not know it yet.

* `FeedConverges`: once nothing about a row is under way, the last announcement is the
  row's status. `OnePaymentPerKey`: `Authorize` leaves one payment under a key.
  `ReceivedIsStamped`, `FirstReceiptStands`: a shipment that an update made RECEIVED has
  its date, and the date is never moved or cleared. Each holds of the rows and keys that the
  history variables above do not name; the exceptions are the price of missing locks.
* `LogoutIsFinal`: a token passes no blacklist check after the answer to its logout, unless
  it has expired on some clock (and may be pruned) or its user is gone.
  `ImplementsAccess`: a request is let in only with a token that was not logged out at a
  moment of the request and was not revoked at the moment it was let in; what passes is
  what two checks at two moments can promise, and the two holes (some clock called the token
  expired; a save may have written the version back) are named in `SessionAccess`. It implies
  `RevocationIsFinal`: nothing passes the version check after a revocation, unless the user
  is `overtaken`.
  `RoleFollowsAssignment`: with the same exception, no save but `setRole`'s changes a role.
  `EntriesArePruned`: no blacklist row stays for ever.
* `ReadyHasObject`, `GoneFromBoth`: the two stores agree, except for `contested` and `leaked`
  files. `ImagesAreReady`, without an exception, and `ImageIsLatest`, unless `overtaken`: so
  do products and files. `PendingIsSettled`: an upload that is not completed is cleaned up,
  whatever single step fails.

Each property has a mutant in `PROJECT.json`: a plausible bug of the code, written next to
the definition it replaces and marked `mutant` there, that makes the property fail.

Why these bounds are enough for the cases of interest:

* *Pipeline.* Two slots in two processes are what it takes to run two copies of one message
  at once, and to lose one while the other lives. A second copy needs one crash or one lost
  channel. Two attempts separate "retry" from "exhausted" (the code has three,
  `orders-worker.service.ts`, `maxAttempts`); the theorems hold for every number. One PATCH
  client suffices to race the worker inside its save and to be raced, and the message by
  hand, of any of the kinds, targets the same order so that two messages meet on one row.
  `MaxByHand` is 1: one such message at a time. `MaxLosses` bounds crashes and lost channels
  together: 1 where the state space is largest, 2 in the liveness run, which has no clients.
* *Creation.* Two requests over the same two products can deadlock and compete for the
  last piece; the third shares a key with the first and orders another product, so that no
  stock lock keeps the two apart and the unchecked window, the waiting INSERT, the 23505
  path and the reread after a removal all happen.
* *Outbox.* Batches of two rows let a tick end between them and let two ticks split the
  table; ticks of two processes overlap, each fault happens once. `Limit` is 2 like the number
  of rows, so the LIMIT cuts nothing off in this run. With `Limit = 1` and otherwise the
  same configuration every property holds as well (127,998 states), and the theorems hold for
  every limit.
* *Fulfilment.* Three calls in two processes are two savers of one row and an insert, a
  removal or a third announcement next to them; two of them share a process, so that
  announcements of one connection keep their order and those of two may not. One key is
  what two `Authorize` calls compete for, and there are ids enough for every call to insert.
  The two calls of one process are interchangeable, hence the symmetry; the run checks no
  liveness.
* *Sessions.* Three requests are a logout or revocation, a save of the same user and a
  third request that presents a token between their steps; two processes have two clocks. Two
  revocations fit below the bound on versions.
* *Media.* The second upload replaces the image of the first; three requests are its presign,
  its `complete`, and a PATCH, a `remove` or a second `complete` between their steps; two
  cleanups may hold the same file.

All bounds are CONSTANTS (`MaxAttempts`, `MaxCrashes`, `MaxDisconnects`, `MaxLosses`,
`MaxByHand`, `MaxErrors`, `Limit`, `PatchValues`, `MaxFaults`, `MaxVersion`, `MaxFailures`,
and the finite sets of calls, ids and tokens); bags and counters are otherwise unbounded in
the modules, and the proofs hold for every bound. Deadlock checking is off: a platform without
requests stops.

## 4. Assumptions: database, broker, fairness

*Database.* PostgreSQL under READ COMMITTED: an uncommitted write is invisible to others;
an INSERT of a unique key waits for an open transaction that inserted the same one; `FOR
UPDATE` waits and then reads the latest committed row; `SKIP LOCKED` does not return locked
rows; a deadlock aborts one member. `save` in TypeORM re-selects by id, updates the
columns that differ, and inserts or fails if the row is gone. An UPDATE that meets no row
raises no error; an INSERT with an explicit id fails, because the identity columns are
GENERATED ALWAYS. Foreign keys refuse, cascade or set null as the migrations declare.

*Inputs.* REST clients create payments and shipments for users that exist. Idempotency keys
are not empty: `Authorize` does not look up an empty one (`if (idempotencyKey)`) and does
not replace it either (`idempotencyKey ?? …`), so such payments share the number `''`. In
the run `fulfilment` a user 0 exists (`UserZero`), which only a statement by hand can add:
without it `Authorize` never inserts (section 6), and `OnePaymentPerKey` would hold for
that reason alone.

*Clocks.* Every process compares expiry times with its own clock, and no bound on their
differences is assumed. A token or a file may therefore be expired for one and live for
another.

*Broker.* Durable queues lose nothing they have received. A closed channel requeues what
was unacknowledged on it. A message for an undeclared queue is dropped silently; the
model assumes neither that `domain.events` is declared nor that it is not. What
`sendToQueue` wrote may be lost with the connection: `OutboxRelay` models that wire; in
`OrderProcessing` a publish counts as sent when the broker has it, and `NoMessageLost`
speaks of those messages.

*Failures.* `Crash` kills a process, rolls back its transactions and forgets what it had
in memory. `Disconnect` closes the channel and leaves the process alive: `RabbitmqService`
connects once, in `onModuleInit`, and never again, and `/health` is a constant answer, so
such a process stays deaf until it is restarted. Nothing enables the shutdown hooks, so
`onModuleDestroy` does not run on SIGTERM and a stop is a crash. A database error may hit
any statement; a lost answer to COMMIT makes a committed run look failed, and a
saved payment or shipment go unannounced. The database may end a session; a tick learns of
that by its next statement and not before. A handler that throws is answered by a nack with
requeue.

*Fairness.* Weak fairness is assumed of: delivery to a free slot, a slot's next step, the
publish that follows the commit, a request's next step, a tick's next step (the interval keeps
firing, and a tick that was thrown out ends), time, and `Restart` (`compose.yml`, `restart:
unless-stopped`). Nothing is assumed of clients, of faults, or of a closed channel, which
never reopens. Because the number of faults is bounded, each liveness property says what
happens once they stop. In `pipeline_live` one lost channel leaves one process that works, and
in general messages settle only while some process has an open channel. `OutboxDrains` states
that condition itself. `EveryRequestAnswered` is about requests that are sent. In `Sessions`
and `Media` clocks go on and the hourly jobs keep running (`@Cron` in both task files): of
what they can do, something is done. That is all `EntriesArePruned` and `PendingIsSettled`
need; requests may stop anywhere.

## 5. What is proved

For every value of the constants that satisfies the named assumptions of each module.

**`OrderProcessingProofs`.** `TypeCorrect`, then `Inductive` for `IInv`. None of the safety
properties is inductive alone:

* `ExactlyOnce` needs `OneOpenTx` and `OpenTxIsFresh`: the unique `message_id` keeps two
  open transactions off one message and off processed ones.
* `DeadLetterExhausted` needs `CopiesTriedBefore`: a copy at attempt *n* exists only after
  failed runs at every smaller number, however copies multiplied.
* `NoMessageLost` needs `NothingUnsent`, and counts a `settled` slot for nothing: by then
  the outcome is durable elsewhere.
* `StampedIffProcessed` needs three facts about half-done saves of orders that are not torn. No
  transition starts or ends at `PROCESSED`, so a PATCH carries no `processed_at`
  (`PatchIsUnstamped`); one that is about to write the status alone finds the row still
  without a stamp (`PatchIsCurrent`); a run about to write `processed_at` alone finds the row
  still processed, or gone (`RunIsCurrent`).

* `NoDuplicationWithoutLoss` needs an invariant of its own, `SingleInv`. Its `OneHolder` says
  without cardinalities that the queue, the slots that work (a `settled` one has handed its
  message on) and the dead-letter queue exclude one another for a message; the sums follow
  at the end. `DueOnce` keeps a second publish of an order away. Each step that moves a
  message takes it from one place to one other (`DeliverHolds`, `RetryHolds`,
  `DeadLetterHolds`, `PublishHolds`).

From it follow `NoMessageLost`, `ExactlyOnce`, `DeadLetterExhausted`, `StampedIffProcessed`,
`NoDuplicationWithoutLoss`, the action property `NoDuplicateUpdate`, and `RefinesEffects`:
every behaviour of the pipeline implements `OrderEffects!SafeSpec`.

**`OrderCreateProofs`.** `TypeCorrect` and `Inductive`, whose added parts say that a
transaction past its check holds the lock of every row it read (`ChecksHoldLocks`), that
its copy of those rows is current (`WorkMirrorsStock`), that an INSERT is alone with its
key (`KeysAreFree`) and that an uncommitted order left no trace (`TracesFollowCommit`).
From these: `NoStrandedLocks`, `OneOrderPerKey`, `AnswersAreTrue`, and `CommitNeverOversells`
under the assumption `DistinctLines` that no request names a product twice. Without that
assumption it is false (section 6).

A second invariant, `AtomicInv`, holds for any lines: between the check and the COMMIT every
line still fits the committed rows (`FitsCommitted`), and the transaction's copy is ahead of
them by exactly the lines reserved so far (`ReservedSoFar`). A sum over lines is the
cardinality of a set of pieces (`Pieces`), which turns induction over the lines into a lemma
on disjoint unions. From `AtomicInv` follow `ReservesExactly`, then `ReservationsAddUp`, and
`RefinesPlacement`: `OrderCreate` implements `OrderPlacement`, step by step.

**`OutboxRelayProofs`.** `TypeCorrect`, `TicksAreDisjoint`, `CopiesArePaid`,
`SentIsFinal`, `SentArrives` and `RefinesDelivery`: the relay implements `OutboxDelivery`. None
of them assumes a queue: a message that came without one counts as `dropped`, so that `SENT`
promises a publish and no more (section 6). The strengthening says that what a tick has
marked SENT is on its way (`MarkedArrives`), that a thrown-out tick holds nothing
(`StraysAreIdle`), that a row has at most as many copies as there were rollbacks, and one more
if it is SENT or marked so, where a publish that a thrown-out tick has still to make is
counted in advance (`CopiesMatch`), and keeps a tick's three sets apart (`MarksAreApart`).

**`FulfilmentProofs`.** Three invariants, proved one on top of the other. Most of the many
actions touch little, so steps are first sorted into kinds (`Removing`, `Adding`, `Reading`,
`Comparing`, `Writing`, then `Keeping` and `Hushed`), and each invariant is shown for the
kinds rather than for every action of either service again.

* `ReceiptInv` gives `ReceivedIsStamped` and `FirstReceiptStands`. It adds that nobody saves
  an id not given out yet (`UnknownIds`), that a row that is not overlapped has one saver
  (`SaversApart`), and that this saver's entity keeps the row's date and dates a receipt
  (`EntityDated`): without it, an UPDATE could write whatever was read.
* `KeyInv` gives `OnePaymentPerKey`. A payment keeps the key it was authorized under
  (`KeyHeld`), and between a lookup and its INSERT no other call and no payment has the key
  (`KeyPending`), unless the key raced.
* `FeedInv` gives `FeedConverges`, which speaks of quiet rows only. It carries what is true
  while calls and announcements are under way: the last announcement on the wire, or failing
  that at the broker, is the row's status unless a call is about to announce or the row is one
  of the exceptions, a lost COMMIT answer among them (`AllTold`), a saver changes the status
  only if it will announce it (`EntityNews`), and announcements of a row are on one wire
  (`OneWire`, `WireOfSaver`), which keeps their order.

**`SessionsProofs`.** `TypeCorrect`, and one invariant for `RoleFollowsAssignment`,
`RevocationIsFinal`, `LogoutIsFinal` and `RefinesAccess`. A revoked token is behind its user's
version (`RevokedOld`), which stays true because no token or login is ever ahead of it
(`Versions`) and because a save that is not overtaken writes no version (`SaverCurrent`, with
`Apart`); a token that is logged out is in the blacklist, or expired on some clock, or its
user is gone (`LoggedOutBlocked`): pruning deletes only what some clock calls expired.
`AbsentClean` covers users that do not exist yet. `RefinesAccess` maps every step to one of
`SessionAccess` or to none; `Lasting` (issued tokens, removed and overtaken users and expired
tokens stay so) is what makes its sets grow.

**`MediaProofs`.** `TypeCorrect`, then three invariants.

* `ImageInv`, for `ImagesAreReady`: what a PATCH read was a READY file of that product,
  and may be gone by now, which the foreign key then refuses (`EntitiesAreReady`); a key
  belongs to one presign (`KeysAreFresh`).
* `StoreInv`, for `ReadyHasObject` and `GoneFromBoth`: between HeadObject and COMMIT the
  object stays (`SeenIsThere`), what a cleanup holds is not READY (`HeldIsPending`), between
  the deletion of an object and of its row the object stays away (`DeletedIsGone`).
* `LatestInv`, for `ImageIsLatest`: a PATCH that was not overtaken writes no image
  (`EntityIsCurrent`).

**Only model-checked.** Liveness (`EveryMessageSettles`, `QueueDrains`,
`EveryRequestAnswered`, `OutboxDrains`, `EntriesArePruned`, `PendingIsSettled`) and the
fairness half of `ImplementsEffects`: the prover does not handle ENABLED. Every safety
invariant and action property of a passing run has its theorem.

## 6. Where code and documentation disagree

* `pipeline_terminal`: the transition table gives canceled and completed orders no
  successor, and `processFromQueue` sets `PROCESSED` without consulting it
  (`orders.service.ts:41-48` and `277`).
* `create_lines`: the availability check looks at each line alone, so two lines of one
  request oversell a product (`orders.service.ts:77` and `121`).
* `create_patch`: the stock PATCH takes no lock and writes back the reserved count it read,
  which undoes a reservation committed in between (`orders.service.ts:103`,
  `stocks.service.ts:36`).
* `pipeline_requeue`: a message whose body is the JSON value `null` makes `handleMessage`
  throw outside its try blocks (`orders-worker.service.ts:43`), and `consume` requeues it for
  ever (`rabbitmq.service.ts:116`), where `homework-rabbitmq.md:7` and `97` promise a retry that
  never requeues and a handler that always acknowledges.
* `fulfilment_authorize`: `Authorize` inserts a payment of user 0
  (`payments-grpc.service.ts:48`), which the foreign key of `payments.user_id` refuses
  (`1700000003000-create-users.ts:28-32`), while `README.md:470` and `490` describe a happy
  path that ends AUTHORIZED.

Four more disagreements are modelled or noted without a run of their own, because a property
about them would restate one line:

* Nothing declares `domain.events` (`rabbitmq.service.ts:73-78`), while
  `homework-rabbitmq.md:242` says "guaranteeing at-least-once delivery": until somebody else
  declares it, the broker drops every event that the table calls SENT (`OutboxRelay!Receive`,
  `dropped`).
* `complete` tests `!returning.length` to notice that the product is gone
  (`files.service.ts:109`), but TypeORM's PostgreSQL driver answers `UPDATE … RETURNING`
  with `[rows, count]`, whose length is 2; the unit test mocks `[]`. `Media!CompleteCommit`
  leaves such a file READY without a product.
* `jwt.strategy.ts:35` says that a password change revokes all sessions; `updatePassword`
  leaves `token_version` as it is (`Sessions!UpdatePassword`).
* In `orders.service.ts:318` and `audit-logs.service.ts:41-42`, `dateTo` replaces the
  condition that `dateFrom` set.

Two losses are visible in the models and contradict no promise: an order whose publish
throws, or whose process dies before it, stays pending for ever (`OrderProcessing!Publish`,
`Crash`); and no path returns a reservation (`OrderCreate!RemoveOrder`).

## 7. Not modelled, and the plan

* *Orders' reads* (`findAll`, `buildWhere`), `GetStatus` and every other read: they change
  no state.
* *GraphQL*: the schema has no mutation; resolvers and DataLoaders read through the same
  services.
* *Carrier clients*: exported by `shipping.module.ts`, called by nobody, without state.
* *Invoice service*: outside the repository. The request that a shipment's creation sends it,
  which may or may not arrive, is part of `Shipping!InsertShipping`.
* *Audit log*: an insert after the response, whose failure is ignored; nothing reads it but
  its own query.
* *Health, configuration, bootstrap, migrations, seed*: constant, or over before the system
  runs. The indexes, keys and cascades that the migrations declare are modelled where they
  act.
* *RabbitMQ client*: the connection attempts at start-up; a process that gives up is one that
  is down and restarts. The *gRPC client* of `create` is the call with a deadline: any
  outcome, at any time before it.
* *Data*: amounts, currencies, profiles, titles, formatting, DTO validation and logging, on
  which no branch that the properties see depends.

The modules built from this plan, in order: order creation, the pipeline with its
abstract specification, the outbox, then fulfilment (payments, shipments and their feed),
sessions, media. What is left, most important first:

1. The composition of `OrderProcessing` with `OutboxRelay`: an event reaches
   `domain.events` only for a processed message.
2. An abstract specification for `Fulfilment` (a register per row and its subscriber) that the
   detailed modules implement on the behaviours without overlaps.
3. `buildWhere` as an operator against a reference filter.
