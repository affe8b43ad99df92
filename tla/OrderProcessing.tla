-------------------------- MODULE OrderProcessing --------------------------
(***************************************************************************)
(* The life of an order after OrdersService.create committed it: the API   *)
(* process publishes one orders.process message, consumer slots of the     *)
(* worker (OrdersWorkerService over RabbitmqService.consume) run           *)
(* OrdersService.processFromQueue on it, and retry, dead-letter and        *)
(* acknowledge it, while clients PATCH and DELETE the same order row.      *)
(*                                                                         *)
(* The database is PostgreSQL under READ COMMITTED: a transaction's writes *)
(* appear at its commit, and an INSERT of a unique message_id waits for an *)
(* open transaction that inserted the same one.  The broker is RabbitMQ    *)
(* with durable queues: it redelivers what a lost channel left             *)
(* unacknowledged and loses nothing it has received.                       *)
(***************************************************************************)
EXTENDS Naturals, FiniteSets

CONSTANTS
  Orders,          \* ids of the orders, each also the messageId of its message
  Extra,           \* messages published by hand (README scenarios 2-4)
  OrderOf,         \* the orderId an Extra message carries
  Poison,          \* Extra messages with simulate = 'alwaysFail'
  Garbled,         \* Extra messages whose body is not JSON
  Bodiless,        \* Extra messages whose body is the JSON value null
  OddId,           \* Extra messages whose messageId is a number
  Processes,       \* instances of the api image: REST handlers and a worker each
  Handlers,        \* consumer slots: prefetch deliveries per process
  HostOf,          \* the process a consumer slot runs in
  Clients,         \* concurrent PATCH /orders/:id/status requests
  MaxAttempts,     \* OrdersWorkerService.maxAttempts
  MaxCrashes,      \* bound: process crashes explored
  MaxDisconnects,  \* bound: broker-side channel closures explored
  MaxLosses,       \* bound: the two together
  MaxByHand,       \* bound: messages published by hand
  NoMsg            \* the message of an idle consumer slot

Messages == Orders \cup Extra

ASSUME MessagesAssumption == /\ Orders \cap Extra = {}
                             /\ NoMsg \notin Messages
                             /\ OrderOf \in [Extra -> Orders]
                             /\ Poison \subseteq Extra
                             /\ Garbled \subseteq Extra
                             /\ Bodiless \subseteq Extra
                             /\ OddId \subseteq Extra
                             /\ Garbled \cap Bodiless = {}
ASSUME HandlersAssumption == /\ IsFiniteSet(Handlers)
                             /\ HostOf \in [Handlers -> Processes]
ASSUME BoundsAssumption == /\ MaxAttempts \in Nat \ {0}
                           /\ MaxCrashes \in Nat
                           /\ MaxDisconnects \in Nat
                           /\ MaxLosses \in Nat
                           /\ MaxByHand \in Nat

VARIABLES
  order,        \* orders rows: [status, stamped], stamped iff processed_at is set
  processed,    \* messageIds of the committed processed_messages rows
  events,       \* ORDER_PROCESSED outbox rows committed on behalf of a message
  queue,        \* orders.process: ready copies of <<message, attempt>>
  dlq,          \* orders.dlq: copies of a message
  hs,           \* consumer slots: [pc, msg, attempt]
  chan,         \* a process and its AMQP channel: "open", "closed" or "down"
  due,          \* messages a process has committed an order for, not yet published
  sent,         \* history: messages that were ever published
  failedRuns,   \* history: attempt numbers at which a run of a message failed
  patch,        \* PATCH requests between their read and their UPDATE
  torn,         \* history: orders written between the two steps of a half save
  crashes,      \* crashes so far
  disconnects   \* channel closures so far

vars == <<order, processed, events, queue, dlq, hs, chan, due, sent,
          failedRuns, patch, torn, crashes, disconnects>>

----------------------------------------------------------------------------
(* Types *)

Statuses == {"PENDING", "PROCESSING", "COMPLETE", "CANCELED", "PROCESSED"}

\* The rows of the orders table; "NONE" is an id not used yet and "REMOVED"
\* a deleted row.
Rows    == [status : Statuses \cup {"NONE", "REMOVED"}, stamped : BOOLEAN]
Columns == {"status", "processed_at"}

Attempts == 1..MaxAttempts
Copies   == Messages \X Attempts

\* Where a consumer slot stands in handleMessage / processFromQueue:
\*   received  message parsed, transaction not begun
\*   inserted  processed_messages row inserted, not committed
\*   found     order entity loaded by findOne
\*   loaded    save() re-selected the row, about to UPDATE both columns and commit
\*   again     the same, but the row was 'processed': only processed_at differs
\*   failed    the transaction rolled back (or its commit's answer was lost)
\*   settled   outcome durable, acknowledgement not yet with the broker
InTx == {"inserted", "found", "loaded", "again"}
PCs  == {"idle", "received", "failed", "settled"} \cup InTx

IdleSlot == [pc |-> "idle", msg |-> NoMsg, attempt |-> 0]
Slots    == {IdleSlot} \cup [pc : PCs \ {"idle"}, msg : Messages, attempt : Attempts]

NoPatch  == [pc |-> "idle"]
Patches  == [pc : {"read", "update"}, id : Orders, cols : SUBSET Columns,
             entity : [status : Statuses, stamped : BOOLEAN]]

TypeOK ==
  /\ order \in [Orders -> Rows]
  /\ processed \subseteq Messages
  /\ events \in [Messages -> Nat]
  /\ queue \in [Copies -> Nat]
  /\ dlq \in [Messages -> Nat]
  /\ hs \in [Handlers -> Slots]
  /\ chan \in [Processes -> {"open", "closed", "down"}]
  /\ due \in [Processes -> SUBSET Orders]
  /\ sent \subseteq Messages
  /\ failedRuns \in [Messages -> SUBSET Attempts]
  /\ patch \in [Clients -> {NoPatch} \cup Patches]
  /\ torn \subseteq Orders
  /\ crashes \in 0..MaxCrashes
  /\ disconnects \in 0..MaxDisconnects

----------------------------------------------------------------------------
(* Helpers *)

Target(m) == IF m \in Extra THEN OrderOf[m] ELSE m

Exists(o) == order[o].status \in Statuses

\* Valid status transitions: from -> allowed targets.
STATUS_TRANSITIONS(s) ==
  CASE s = "PENDING"    -> {"PROCESSING", "CANCELED"}
    [] s = "PROCESSING" -> {"COMPLETE", "CANCELED"}
    [] OTHER            -> {}

Alive(p) == chan[p] # "down"
Live(h)  == chan[HostOf[h]] = "open"

\* The broker still counts the slot's delivery as unacknowledged.
Unacked(h) == hs[h].pc # "idle" /\ Live(h)

Step(h, pc) == hs' = [hs EXCEPT ![h].pc = pc]

\* The slot forgets its delivery.
KeepDelivery(h) == hs' = [hs EXCEPT ![h].pc = "idle"]   \* mutant: a stale slot
Free(h)         == hs' = [hs EXCEPT ![h] = IdleSlot]

\* The ready copies once the broker has taken back what the slots S held.
Requeued(S) ==
  [c \in Copies |-> queue[c] +
     Cardinality({h \in S : hs[h].msg = c[1] /\ hs[h].attempt = c[2]})]

SlotsOf(p) == {h \in Handlers : HostOf[h] = p}

\* A save that has chosen to write one of the two columns and not the other.
HalfPatch(c, o) ==
  patch[c] # NoPatch /\ patch[c].pc = "update" /\ patch[c].id = o /\ patch[c].cols # Columns
HalfRun(h, o) == hs[h].pc = "again" /\ Target(hs[h].msg) = o

\* The row o changes.  torn notes it when a half save of o, of the clients C or
\* the slots H, is between its re-select and its UPDATE.
WriteRow(o, row, C, H) ==
  /\ order' = [order EXCEPT ![o] = row]
  /\ torn' = IF row # order[o]
                /\ ((\E c \in C : HalfPatch(c, o)) \/ (\E h \in H : HalfRun(h, o)))
             THEN torn \cup {o} ELSE torn

----------------------------------------------------------------------------
Init ==
  /\ order = [o \in Orders |-> [status |-> "NONE", stamped |-> FALSE]]
  /\ processed = {}
  /\ events = [m \in Messages |-> 0]
  /\ queue = [c \in Copies |-> 0]
  /\ dlq = [m \in Messages |-> 0]
  /\ hs = [h \in Handlers |-> IdleSlot]
  /\ chan = [p \in Processes |-> "open"]
  /\ due = [p \in Processes |-> {}]
  /\ sent = {}
  /\ failedRuns = [m \in Messages |-> {}]
  /\ patch = [c \in Clients |-> NoPatch]
  /\ torn = {}
  /\ crashes = 0
  /\ disconnects = 0

----------------------------------------------------------------------------
(* The API side: OrdersService.create after its transaction, updateStatus  *)
(* and remove.                                                             *)

\* create() commits the order row; the message is still in this process only.
CommitOrder(p, o) ==
  /\ Alive(p)
  /\ order[o].status = "NONE"
  /\ order' = [order EXCEPT ![o].status = "PENDING"]
  /\ due' = [due EXCEPT ![p] = @ \cup {o}]
  /\ UNCHANGED <<processed, events, queue, dlq, hs, chan, sent, failedRuns,
                 patch, torn, crashes, disconnects>>

\* publishToQueue('orders.process', ..., attempt 1).  On a closed channel
\* sendToQueue throws: create() answers 500 and the message is gone.
Publish(p, o) ==
  /\ Alive(p)
  /\ o \in due[p]
  /\ due' = [due EXCEPT ![p] = @ \ {o}]
  /\ \/ /\ chan[p] = "open"
        /\ queue' = [queue EXCEPT ![<<o, 1>>] = @ + 1]
        /\ sent' = sent \cup {o}
     \/ /\ chan[p] = "closed"
        /\ UNCHANGED <<queue, sent>>
  /\ UNCHANGED <<order, processed, events, dlq, hs, chan, failedRuns, patch, torn,
                 crashes, disconnects>>

\* A message put on the queue with rabbitmqadmin; its order need not exist.
PublishByHand(m) ==
  /\ m \in Extra \ sent
  /\ Cardinality(sent \cap Extra) < MaxByHand
  /\ queue' = [queue EXCEPT ![<<m, 1>>] = @ + 1]
  /\ sent' = sent \cup {m}
  /\ UNCHANGED <<order, processed, events, dlq, hs, chan, due, failedRuns,
                 patch, torn, crashes, disconnects>>

\* updateStatus: findOne and the STATUS_TRANSITIONS check, without a lock.  The
\* entity is a snapshot of the row with the new status.
PatchRead(c, o, target) ==
  /\ patch[c] = NoPatch
  /\ Exists(o)
  /\ target \in STATUS_TRANSITIONS(order[o].status)
  /\ patch' = [patch EXCEPT ![c] =
       [pc |-> "read", id |-> o, cols |-> {},
        entity |-> [status |-> target, stamped |-> order[o].stamped]]]
  /\ UNCHANGED <<order, processed, events, queue, dlq, hs, chan, due, sent,
                 failedRuns, torn, crashes, disconnects>>

\* The columns of the row o that differ from the entity.
ForgetsStamp(o, entity) ==   \* mutant: processed_at is not compared
  {k \in {"status"} : order[o].status # entity.status}
Differing(o, entity) ==
  {k \in Columns : \/ k = "status" /\ order[o].status # entity.status
                   \/ k = "processed_at" /\ order[o].stamped # entity.stamped}

\* save() re-selects the row to find the columns to write.  On a row deleted
\* meanwhile it fails, and with no difference it writes nothing.
PatchDiff(c) ==
  LET o    == patch[c].id
      cols == Differing(o, patch[c].entity)
  IN /\ patch[c] # NoPatch
     /\ patch[c].pc = "read"
     /\ \/ /\ Exists(o) /\ cols # {}
           /\ patch' = [patch EXCEPT ![c] = [pc |-> "update", id |-> o, cols |-> cols,
                                             entity |-> patch[c].entity]]
        \/ /\ ~Exists(o) \/ cols = {}
           /\ patch' = [patch EXCEPT ![c] = NoPatch]
     /\ UNCHANGED <<order, processed, events, queue, dlq, hs, chan, due, sent,
                    failedRuns, torn, crashes, disconnects>>

\* What the UPDATE makes of the row: only the columns that differed.
PatchedRow(c) ==
  LET row == order[patch[c].id]
      new == patch[c].entity
  IN [status  |-> IF "status" \in patch[c].cols THEN new.status ELSE row.status,
      stamped |-> IF "processed_at" \in patch[c].cols THEN new.stamped ELSE row.stamped]

\* UPDATE orders SET <cols>, in a statement of its own; it meets no row if the
\* order was deleted since the re-select.
PatchUpdate(c) ==
  LET o == patch[c].id IN
  /\ patch[c] # NoPatch
  /\ patch[c].pc = "update"
  /\ patch' = [patch EXCEPT ![c] = NoPatch]
  /\ \/ Exists(o) /\ WriteRow(o, PatchedRow(c), Clients \ {c}, Handlers)
     \/ ~Exists(o) /\ UNCHANGED <<order, torn>>
  /\ UNCHANGED <<processed, events, queue, dlq, hs, chan, due, sent,
                 failedRuns, crashes, disconnects>>

\* remove: findOne, then DELETE.
Remove(o) ==
  /\ Exists(o)
  /\ order' = [order EXCEPT ![o] = [status |-> "REMOVED", stamped |-> FALSE]]
  /\ UNCHANGED <<processed, events, queue, dlq, hs, chan, due, sent,
                 failedRuns, patch, torn, crashes, disconnects>>

----------------------------------------------------------------------------
(* The worker side: RabbitmqService.consume, handleMessage,                *)
(* processFromQueue.                                                       *)

\* The broker delivers a ready copy to a free consumer slot.
Deliver(h, c) ==
  /\ Live(h)
  /\ hs[h] = IdleSlot
  /\ queue[c] > 0
  /\ queue' = [queue EXCEPT ![c] = @ - 1]
  /\ hs' = [hs EXCEPT ![h] = [pc |-> "received", msg |-> c[1], attempt |-> c[2]]]
  /\ UNCHANGED <<order, processed, events, dlq, chan, due, sent, failedRuns,
                 patch, torn, crashes, disconnects>>

\* A JSON message whose handler gets as far as processFromQueue.
Readable(h) == hs[h].msg \notin Garbled \cup Bodiless

\* attempt >= this.maxAttempts.
LastButOneExhausts(h) == hs[h].attempt >= MaxAttempts - 1   \* mutant: off by one
AttemptsExhausted(h)  == hs[h].attempt >= MaxAttempts

\* handleMessage throws outside its try blocks: null has no attempt to read,
\* and amqplib refuses to publish the retry under a messageId that is no string.
Throws(h) ==
  \/ hs[h].pc = "received" /\ hs[h].msg \in Bodiless
  \/ hs[h].pc = "failed" /\ ~AttemptsExhausted(h) /\ hs[h].msg \in OddId

\* consume() catches it, ch.nack(msg, false, true): the broker takes the copy
\* back as it was.
Nack(h) ==
  /\ Throws(h)
  /\ Live(h)
  /\ queue' = [queue EXCEPT ![<<hs[h].msg, hs[h].attempt>>] = @ + 1]
  /\ Free(h)
  /\ UNCHANGED <<order, processed, events, dlq, chan, due, sent, failedRuns,
                 patch, torn, crashes, disconnects>>

\* A call on a channel the broker closed throws as well; the nack throws too and
\* is swallowed.  The broker requeued the copy long ago.
Abandon(h) ==
  /\ hs[h].pc # "idle"
  /\ chan[HostOf[h]] = "closed"
  /\ \/ hs[h].pc = "received" /\ ~Readable(h)
     \/ hs[h].pc \in {"failed", "settled"}
  /\ Free(h)
  /\ UNCHANGED <<order, processed, events, queue, dlq, chan, due, sent,
                 failedRuns, patch, torn, crashes, disconnects>>

\* JSON.parse fails: the raw body goes to the DLQ.
DeadLetterGarbled(h) ==
  /\ hs[h].pc = "received"
  /\ hs[h].msg \in Garbled
  /\ Live(h)
  /\ dlq' = [dlq EXCEPT ![hs[h].msg] = @ + 1]
  /\ Step(h, "settled")
  /\ UNCHANGED <<order, processed, events, queue, chan, due, sent, failedRuns,
                 patch, torn, crashes, disconnects>>

\* Another transaction has inserted m's processed_messages row and is open:
\* the unique index makes this INSERT wait for its outcome.
NeverHeld(h) == FALSE   \* mutant: message_id without its unique index
HeldByOther(h) ==
  \E g \in Handlers \ {h} : hs[g].pc \in InTx /\ hs[g].msg = hs[h].msg

\* BEGIN; INSERT INTO processed_messages.
InsertProcessed(h) ==
  /\ hs[h].pc = "received"
  /\ Readable(h)
  /\ ~HeldByOther(h)
  /\ hs[h].msg \notin processed
  /\ Step(h, "inserted")
  /\ UNCHANGED <<order, processed, events, queue, dlq, chan, due, sent,
                 failedRuns, patch, torn, crashes, disconnects>>

\* The INSERT answers 23505: already processed, skip.
SkipProcessed(h) ==
  /\ hs[h].pc = "received"
  /\ Readable(h)
  /\ hs[h].msg \in processed
  /\ Step(h, "settled")
  /\ UNCHANGED <<order, processed, events, queue, dlq, chan, due, sent,
                 failedRuns, patch, torn, crashes, disconnects>>

\* findOne returns the order.
FindOrder(h) ==
  /\ hs[h].pc = "inserted"
  /\ hs[h].msg \notin Poison
  /\ Exists(Target(hs[h].msg))
  /\ Step(h, "found")
  /\ UNCHANGED <<order, processed, events, queue, dlq, chan, due, sent,
                 failedRuns, patch, torn, crashes, disconnects>>

\* save() re-selects the row by id to find the columns to write.  The new
\* processed_at always differs, the status does unless it is 'processed' by now.
LoadForSave(h) ==
  /\ hs[h].pc = "found"
  /\ Exists(Target(hs[h].msg))
  /\ Step(h, IF order[Target(hs[h].msg)].status = "PROCESSED" THEN "again" ELSE "loaded")
  /\ UNCHANGED <<order, processed, events, queue, dlq, chan, due, sent,
                 failedRuns, patch, torn, crashes, disconnects>>

\* The committed processed_messages rows once m's transaction is in.
MarkNothing(m)   == processed   \* mutant: the dedupe row is not written
MarkProcessed(m) == processed \cup {m}

\* The row o after the UPDATE of slot h.
ProcessedRow(h, o) ==
  [status  |-> IF hs[h].pc = "loaded" THEN "PROCESSED" ELSE order[o].status,
   stamped |-> TRUE]

\* UPDATE orders, INSERT the outbox row, COMMIT.  The UPDATE of a row deleted
\* since the re-select changes no row and raises no error.  If the answer to
\* COMMIT is lost the slot takes the run for failed although it took effect.
CommitProcessed(h) ==
  LET m == hs[h].msg
      o == Target(m)
  IN /\ hs[h].pc \in {"loaded", "again"}
     /\ processed' = MarkProcessed(m)
     /\ events' = [events EXCEPT ![m] = @ + 1]
     /\ \/ Exists(o) /\ WriteRow(o, ProcessedRow(h, o), Clients, Handlers \ {h})
        \/ ~Exists(o) /\ UNCHANGED <<order, torn>>
     /\ \/ /\ Step(h, "settled")
           /\ UNCHANGED failedRuns
        \/ /\ Step(h, "failed")
           /\ failedRuns' = [failedRuns EXCEPT ![m] = @ \cup {hs[h].attempt}]
     /\ UNCHANGED <<queue, dlq, chan, due, sent, patch, crashes, disconnects>>

\* processFromQueue throws and its transaction rolls back.
RollBack(h) ==
  /\ Step(h, "failed")
  /\ failedRuns' = [failedRuns EXCEPT ![hs[h].msg] = @ \cup {hs[h].attempt}]
  /\ UNCHANGED <<order, processed, events, queue, dlq, chan, due, sent, patch, torn,
                 crashes, disconnects>>

\* The runs the code makes fail: simulate = 'alwaysFail', an order that
\* findOne does not find, a save() that finds its row gone.
FailRun(h) ==
  /\ \/ hs[h].pc = "inserted" /\ hs[h].msg \in Poison
     \/ hs[h].pc \in {"inserted", "found"} /\ ~Exists(Target(hs[h].msg))
  /\ RollBack(h)

\* Any statement of the transaction may fail in the database.
DatabaseError(h) ==
  /\ \/ hs[h].pc = "received" /\ Readable(h)
     \/ hs[h].pc \in InTx
  /\ RollBack(h)

\* Publish to orders.dlq.
DeadLetter(h) ==
  /\ hs[h].pc = "failed"
  /\ AttemptsExhausted(h)
  /\ Live(h)
  /\ dlq' = [dlq EXCEPT ![hs[h].msg] = @ + 1]
  /\ Step(h, "settled")
  /\ UNCHANGED <<order, processed, events, queue, chan, due, sent, failedRuns,
                 patch, torn, crashes, disconnects>>

\* The queue after publishToQueue('orders.process', {...payload, attempt + 1}).
RepublishSame(h) ==       \* mutant: the attempt is not counted
  [queue EXCEPT ![<<hs[h].msg, hs[h].attempt>>] = @ + 1]
RepublishAndRequeue(h) == \* mutant: nack(requeue) on top of the republished copy
  [queue EXCEPT ![<<hs[h].msg, hs[h].attempt + 1>>] = @ + 1,
                ![<<hs[h].msg, hs[h].attempt>>] = @ + 1]
Republished(h) ==
  [queue EXCEPT ![<<hs[h].msg, hs[h].attempt + 1>>] = @ + 1]

\* After the backoff: publish attempt + 1 under the same messageId.
Retry(h) ==
  /\ hs[h].pc = "failed"
  /\ ~AttemptsExhausted(h)
  /\ ~Throws(h)
  /\ Live(h)
  /\ queue' = Republished(h)
  /\ Step(h, "settled")
  /\ UNCHANGED <<order, processed, events, dlq, chan, due, sent, failedRuns,
                 patch, torn, crashes, disconnects>>

\* handleMessage acknowledges last, on every path.
AckBeforeRetry(h) == hs[h].pc \in {"failed", "settled"}   \* mutant: ack, then back off
AckOfFailures(h)  ==                                     \* mutant: success is not acked
  hs[h].pc = "settled" /\ hs[h].msg \notin processed
MayAck(h)         == hs[h].pc = "settled"

\* ch.ack(msg).
Ack(h) ==
  /\ MayAck(h)
  /\ Live(h)
  /\ Free(h)
  /\ UNCHANGED <<order, processed, events, queue, dlq, chan, due, sent,
                 failedRuns, patch, torn, crashes, disconnects>>

----------------------------------------------------------------------------
(* Failures                                                                *)

\* The broker closes the channel and the process lives on: RabbitmqService
\* never reconnects.  What the slots held goes back to the queue; the slots
\* run on until their next call on the channel.
Disconnect(p) ==
  /\ disconnects < MaxDisconnects
  /\ crashes + disconnects < MaxLosses
  /\ chan[p] = "open"
  /\ chan' = [chan EXCEPT ![p] = "closed"]
  /\ queue' = Requeued(SlotsOf(p))
  /\ disconnects' = disconnects + 1
  /\ UNCHANGED <<order, processed, events, dlq, hs, due, sent, failedRuns,
                 patch, torn, crashes>>

\* The process dies: open transactions roll back, unacknowledged copies go
\* back to the queue, messages not yet published are lost.
Crash(p) ==
  /\ crashes < MaxCrashes
  /\ crashes + disconnects < MaxLosses
  /\ Alive(p)
  /\ chan' = [chan EXCEPT ![p] = "down"]
  /\ hs' = [h \in Handlers |-> IF HostOf[h] = p THEN IdleSlot ELSE hs[h]]
  /\ queue' = IF chan[p] = "open" THEN Requeued(SlotsOf(p)) ELSE queue
  /\ due' = [due EXCEPT ![p] = {}]
  /\ crashes' = crashes + 1
  /\ UNCHANGED <<order, processed, events, dlq, sent, failedRuns, patch, torn,
                 disconnects>>

\* compose.yml: restart: unless-stopped.
Restart(p) ==
  /\ chan[p] = "down"
  /\ chan' = [chan EXCEPT ![p] = "open"]
  /\ UNCHANGED <<order, processed, events, queue, dlq, hs, due, sent,
                 failedRuns, patch, torn, crashes, disconnects>>

----------------------------------------------------------------------------
\* What a slot does on its own once it holds a message.
Work(h) ==
  \/ Nack(h) \/ Abandon(h) \/ DeadLetterGarbled(h)
  \/ InsertProcessed(h) \/ SkipProcessed(h)
  \/ FindOrder(h) \/ LoadForSave(h) \/ CommitProcessed(h) \/ FailRun(h)
  \/ DeadLetter(h) \/ Retry(h) \/ Ack(h)

Api ==
  \/ \E p \in Processes, o \in Orders : CommitOrder(p, o) \/ Publish(p, o)
  \/ \E m \in Extra : PublishByHand(m)
  \/ \E c \in Clients, o \in Orders, s \in Statuses : PatchRead(c, o, s)
  \/ \E c \in Clients : PatchDiff(c) \/ PatchUpdate(c)
  \/ \E o \in Orders : Remove(o)

Faults ==
  \/ \E h \in Handlers : DatabaseError(h)
  \/ \E p \in Processes : Disconnect(p) \/ Crash(p)

Next ==
  \/ Api
  \/ \E h \in Handlers, c \in Copies : Deliver(h, c)
  \/ \E h \in Handlers : Work(h)
  \/ \E p \in Processes : Restart(p)
  \/ Faults

Spec == Init /\ [][Next]_vars

\* The broker keeps delivering, an async handler keeps running, docker
\* restarts what died, and create() goes on to its publish.  Nothing makes a
\* client send a request, a fault happen or a closed channel come back.
Fairness ==
  /\ \A h \in Handlers : WF_vars(Work(h)) /\ WF_vars(\E c \in Copies : Deliver(h, c))
  /\ \A p \in Processes : WF_vars(Restart(p)) /\ WF_vars(\E o \in Orders : Publish(p, o))

LiveSpec == Spec /\ Fairness

----------------------------------------------------------------------------
(* Properties                                                              *)

\* A message the broker or a worker still has to deal with, or whose outcome
\* is durable.  A settled slot does not count: its acknowledgement must never
\* be the last trace of the message.
WorkedOn(m) == {h \in Handlers :
                  hs[h].msg = m /\ hs[h].pc \notin {"idle", "settled"} /\ Live(h)}
ReadyCopies(m) == {c \in Copies : c[1] = m /\ queue[c] > 0}
Accounted(m) ==
  m \in processed \/ dlq[m] > 0 \/ ReadyCopies(m) # {} \/ WorkedOn(m) # {}

\* handleMessage acknowledges a delivery only after its outcome is durable:
\* whatever crashes, closed channels and failed transactions do, a published
\* message is processed, dead-lettered, on the queue or being worked on.
NoMessageLost == \A m \in sent : Accounted(m)

\* processFromQueue: the processed_messages row and the ORDER_PROCESSED outbox
\* row stand or fall together, and redelivered copies add no second outbox
\* row (README, Scenario 4: "order processed exactly once").
ExactlyOnce ==
  \A m \in Messages : events[m] = IF m \in processed THEN 1 ELSE 0

\* orders.dlq "receives messages that failed all retry attempts": a JSON
\* message is dead-lettered only after a failed run at every attempt number,
\* even when crashes multiplied its copies.
DeadLetterExhausted ==
  \A m \in Messages \ Garbled : dlq[m] > 0 => failedRuns[m] = Attempts

\* Retrying republishes and then acknowledges: without a crash or a closed
\* channel in that window there is never a second copy of a message.
NoDuplicationWithoutLoss ==
  crashes = 0 /\ disconnects = 0 =>
    /\ \A m \in Messages :
         Cardinality(ReadyCopies(m)) + Cardinality(WorkedOn(m)) + dlq[m] <= 1
    /\ \A c \in Copies : queue[c] <= 1

\* updateStatus and processFromQueue race on one row without a lock, and each
\* UPDATE writes only the columns that differed at a re-select before it.
\* processed_at is still set exactly on the rows whose status is 'processed', in
\* whatever order the saves run, unless one that writes a single column had the
\* row change between its re-select and its UPDATE (torn).
StampedIffProcessed ==
  \A o \in Orders \ torn : order[o].stamped <=> order[o].status = "PROCESSED"

\* The inductive invariant behind the safety properties: the unique index
\* keeps two open transactions off the same message and off processed ones,
\* a copy at attempt n follows failed runs at every smaller number, nothing
\* circulates that was not published.  While an order is not torn, a pending PATCH
\* carries neither 'processed' nor a processed_at, and what a half save found at
\* its re-select is still so.
OneOpenTx ==
  \A g, h \in Handlers :
    hs[g].pc \in InTx /\ hs[h].pc \in InTx /\ hs[g].msg = hs[h].msg => g = h
OpenTxIsFresh ==
  \A h \in Handlers : hs[h].pc \in InTx => hs[h].msg \notin processed
TriedBefore(m, n) == m \notin Garbled => 1..(n - 1) \subseteq failedRuns[m]
CopiesTriedBefore ==
  /\ \A c \in Copies : queue[c] > 0 => TriedBefore(c[1], c[2])
  /\ \A h \in Handlers : hs[h].pc # "idle" =>
       /\ TriedBefore(hs[h].msg, hs[h].attempt)
       /\ hs[h].pc = "failed" => hs[h].attempt \in failedRuns[hs[h].msg]
NothingUnsent ==
  /\ \A c \in Copies : queue[c] > 0 => c[1] \in sent
  /\ \A h \in Handlers : hs[h].pc # "idle" => hs[h].msg \in sent
PatchIsUnstamped ==
  \A c \in Clients : patch[c] # NoPatch =>
    /\ patch[c].entity.status # "PROCESSED"
    /\ patch[c].id \notin torn => ~patch[c].entity.stamped
PatchIsCurrent ==
  \A c \in Clients :
    patch[c] # NoPatch /\ patch[c].pc = "update" /\ patch[c].id \notin torn =>
      /\ "status" \in patch[c].cols
      /\ patch[c].cols # Columns => ~order[patch[c].id].stamped
RunIsCurrent ==
  \A h \in Handlers : LET o == Target(hs[h].msg) IN
    hs[h].pc = "again" /\ o \notin torn => order[o].status \in {"PROCESSED", "REMOVED"}
IInv ==
  /\ TypeOK
  /\ NoMessageLost /\ ExactlyOnce /\ DeadLetterExhausted /\ StampedIffProcessed
  /\ OneOpenTx /\ OpenTxIsFresh /\ CopiesTriedBefore /\ NothingUnsent
  /\ PatchIsUnstamped /\ PatchIsCurrent /\ RunIsCurrent

\* What keeps a message single as long as nothing was lost: create() publishes
\* once, for a row that exists; every copy stems from a publish; and from
\* there exactly one of the queue, one slot and orders.dlq holds the message.
Working(h) == hs[h].pc \notin {"idle", "settled"}
DueOnce ==
  /\ \A p \in Processes : \A o \in due[p] : o \notin sent /\ order[o].status # "NONE"
  /\ \A p, q \in Processes : due[p] \cap due[q] # {} => p = q
SentWasCommitted == \A o \in Orders \cap sent : order[o].status # "NONE"
DeadWasSent      == \A m \in Messages : dlq[m] > 0 => m \in sent
OneHolder ==
  /\ \A c, d \in Copies : queue[c] > 0 /\ queue[d] > 0 /\ c[1] = d[1] => c = d
  /\ \A g, h \in Handlers : Working(g) /\ Working(h) /\ hs[g].msg = hs[h].msg => g = h
  /\ \A c \in Copies, h \in Handlers : queue[c] > 0 /\ Working(h) => hs[h].msg # c[1]
  /\ \A c \in Copies : queue[c] > 0 => queue[c] = 1 /\ dlq[c[1]] = 0
  /\ \A h \in Handlers : Working(h) => dlq[hs[h].msg] = 0
  /\ \A m \in Messages : dlq[m] <= 1
SingleInv ==
  /\ DueOnce /\ SentWasCommitted /\ DeadWasSent
  /\ crashes = 0 /\ disconnects = 0 =>
       OneHolder /\ \A p \in Processes : chan[p] = "open"

\* "Second delivery ... skip -> ACK (no duplicate update)": an order becomes
\* 'processed' only in the step that records a message of its own as processed
\* for the first time, also when a PATCH moved it on in between.
NoDuplicateUpdate ==
  [][\A o \in Orders :
       order[o].status # "PROCESSED" /\ order'[o].status = "PROCESSED" =>
         \E m \in processed' \ processed : Target(m) = o]_vars

\* A copy that consume() requeues each time its run fails, null every time.
Circulating(m) ==
  m \in Bodiless \cup OddId /\ (ReadyCopies(m) # {} \/ WorkedOn(m) # {})
Livelock == <>[](\E m \in Messages : Circulating(m))

\* Retries are bounded and redelivery ends: every published message is
\* eventually processed or dead-lettered, unless from some point on a copy that
\* the nack requeues is always there: it can take every delivery.
EveryMessageSettles ==
  Livelock \/ \A m \in Messages : m \in sent ~> (m \in processed \/ dlq[m] > 0)

\* From some point on the queue is empty and no slot holds a delivery, after
\* every crash, lost channel and failed run, and unless a message circulates.
QueueDrains ==
  Livelock \/ <>[](/\ \A c \in Copies : queue[c] = 0
                  /\ \A h \in Handlers : ~Unacked(h))

\* The pipeline with its retries, redeliveries and failures implements the
\* at-most-once-or-dead-letter promise of OrderEffects, and its fairness unless a
\* message circulates.
Effects == INSTANCE OrderEffects WITH
  done <- processed, effects <- events, dead <- {m \in Messages : dlq[m] > 0}
ImplementsEffects == Effects!SafeSpec /\ (Livelock \/ Effects!Fairness)

\* "Variant A retry: republish + ACK (never NACK+requeue, avoids infinite loops)":
\* no published message stays without an outcome.
NoInfiniteLoop ==
  \A m \in Messages : m \in sent ~> (m \in processed \/ dlq[m] > 0)

\* STATUS_TRANSITIONS gives COMPLETE and CANCELED no successor: an order that
\* reached one of them leaves it only by being deleted.
TerminalStatusIsFinal ==
  [][\A o \in Orders :
       order[o].status \in {"COMPLETE", "CANCELED"} =>
         order'[o].status \in {order[o].status, "REMOVED"}]_vars
=============================================================================
