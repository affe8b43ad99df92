---------------------------- MODULE OutboxRelay ----------------------------
(***************************************************************************)
(* OutboxRelayService: every second each process starts a tick without     *)
(* waiting for the previous one.  A tick is one transaction that takes the *)
(* oldest due rows nobody has locked, publishes them to domain.events one  *)
(* by one, marks each SENT or FAILED, and commits at the end.  The rows    *)
(* come from OutboxService.add inside processFromQueue's transaction.      *)
(*                                                                         *)
(* sendToQueue only writes to the connection: what is on the wire reaches  *)
(* the broker later, or never if the connection or the process ends.  The  *)
(* broker drops a message for a queue that is not declared, and nothing in *)
(* the repository declares domain.events: someone else may (Declare).      *)
(*                                                                         *)
(* A transaction lives in the database.  When the database ends the        *)
(* session of a tick its locks are free, and the tick, which learns of it  *)
(* by its next statement, may publish one more row first (stray).          *)
(***************************************************************************)
EXTENDS Naturals, FiniteSets

CONSTANTS
  Events,          \* outbox rows, ordered by created_at
  Processes,       \* instances of the api image with WORKERS_ENABLED
  Ticks,           \* ticks that may be running at once
  HostOf,          \* the process of a tick
  Limit,           \* .limit(50)
  MaxCrashes,      \* bound: process crashes explored
  MaxDisconnects,  \* bound: connection losses explored
  MaxErrors        \* bound: transactions that the database ends

ASSUME EventsAssumption == Events \subseteq Nat
ASSUME TicksAssumption == HostOf \in [Ticks -> Processes]
ASSUME BoundsAssumption == /\ Limit \in Nat \ {0}
                           /\ MaxCrashes \in Nat
                           /\ MaxDisconnects \in Nat
                           /\ MaxErrors \in Nat

VARIABLES
  status,       \* committed status of a row, "NONE" before its INSERT
  due,          \* next_attempt_at has passed
  tk,           \* a tick's transaction: rows to publish, and rows it has marked
  stray,        \* ticks whose session has ended, with the row they publish next
  chan,         \* a process and its AMQP channel: "open", "closed" or "down"
  wire,         \* events a process has written to its connection (copies counts them)
  declared,     \* the queue domain.events exists
  received,     \* messages the broker has put on domain.events
  dropped,      \* history: messages for a queue that did not exist
  lost,         \* history: messages on a wire when its connection or process ended
  copies,       \* history: how often a row was handed to sendToQueue
  crashes,      \* crashes so far
  disconnects,  \* connection losses so far
  errors        \* transactions the database has ended so far

broker == <<declared, received, dropped>>
vars == <<status, due, tk, stray, chan, wire, broker, lost, copies, crashes, disconnects,
          errors>>

----------------------------------------------------------------------------
Idle == [todo |-> {}, sent |-> {}, failed |-> {}]

TypeOK ==
  /\ status \in [Events -> {"NONE", "PENDING", "FAILED", "SENT"}]
  /\ due \in [Events -> BOOLEAN]
  /\ tk \in [Ticks -> [todo : SUBSET Events, sent : SUBSET Events, failed : SUBSET Events]]
  /\ stray \subseteq [tick : Ticks, row : Events]
  /\ IsFiniteSet(stray)
  /\ chan \in [Processes -> {"open", "closed", "down"}]
  /\ wire \in [Processes -> SUBSET Events]
  /\ declared \in BOOLEAN
  /\ received \subseteq Events
  /\ dropped \subseteq Events
  /\ lost \subseteq Events
  /\ copies \in [Events -> Nat]
  /\ crashes \in 0..MaxCrashes
  /\ disconnects \in 0..MaxDisconnects
  /\ errors \in 0..MaxErrors

\* The rows a tick's transaction has locked.
Held(t) == tk[t].todo \cup tk[t].sent \cup tk[t].failed

\* The rows the query would return if nobody had locked any.
PendingOnly == {e \in Events : status[e] = "PENDING"}   \* mutant: FAILED is not retried
Eligible    == {e \in Events : status[e] \in {"PENDING", "FAILED"} /\ due[e]}

\* FOR UPDATE SKIP LOCKED.
LockNothing == {}                      \* mutant: a plain SELECT
Locked      == UNION {Held(t) : t \in Ticks}

\* ORDER BY created_at LIMIT n.
IsOldest(S, R) ==
  /\ S \subseteq R
  /\ Cardinality(S) <= Limit
  /\ \A e \in S, f \in R \ S : e < f
  /\ S = R \/ Cardinality(S) = Limit

----------------------------------------------------------------------------
Init ==
  /\ status = [e \in Events |-> "NONE"]
  /\ due = [e \in Events |-> FALSE]
  /\ tk = [t \in Ticks |-> Idle]
  /\ stray = {}
  /\ chan = [p \in Processes |-> "open"]
  /\ wire = [p \in Processes |-> {}]
  /\ declared = FALSE
  /\ received = {}
  /\ dropped = {}
  /\ lost = {}
  /\ copies = [e \in Events |-> 0]
  /\ crashes = 0
  /\ disconnects = 0
  /\ errors = 0

\* add: nextAttemptAt is the inserting process's clock, which another
\* process's clock may not have reached.
Add(e) ==
  /\ status[e] = "NONE"
  /\ status' = [status EXCEPT ![e] = "PENDING"]
  /\ \E b \in BOOLEAN : due' = [due EXCEPT ![e] = b]
  /\ UNCHANGED <<tk, stray, chan, wire, broker, lost, copies, crashes, disconnects, errors>>

\* Time passes next_attempt_at.
BecomeDue(e) ==
  /\ status[e] \in {"PENDING", "FAILED"}
  /\ ~due[e]
  /\ due' = [due EXCEPT ![e] = TRUE]
  /\ UNCHANGED <<status, tk, stray, chan, wire, broker, lost, copies, crashes, disconnects,
                 errors>>

\* A tick selects and locks its rows.
SelectRows(t) ==
  /\ chan[HostOf[t]] # "down"
  /\ tk[t] = Idle
  /\ \A x \in stray : x.tick # t
  /\ \E S \in SUBSET (Eligible \ Locked) :
       /\ S # {}
       /\ IsOldest(S, Eligible \ Locked)
       /\ tk' = [tk EXCEPT ![t].todo = S]
  /\ UNCHANGED <<status, due, stray, chan, wire, broker, lost, copies, crashes, disconnects,
                 errors>>

IsNext(t, e) == e \in tk[t].todo /\ \A f \in tk[t].todo : e <= f

\* A tick marks a row within its transaction.
MarkSent(t, e) ==
  [tk EXCEPT ![t] = [todo |-> tk[t].todo \ {e}, sent |-> tk[t].sent \cup {e},
                     failed |-> tk[t].failed]]
MarkAnyway(t, e) == MarkSent(t, e)   \* mutant: the publish's error is ignored
MarkFailed(t, e) ==
  [tk EXCEPT ![t] = [todo |-> tk[t].todo \ {e}, sent |-> tk[t].sent,
                     failed |-> tk[t].failed \cup {e}]]

\* publishToQueue succeeds; the row becomes SENT in the transaction.
PublishRow(t, e) ==
  /\ IsNext(t, e)
  /\ chan[HostOf[t]] = "open"
  /\ wire' = [wire EXCEPT ![HostOf[t]] = @ \cup {e}]
  /\ copies' = [copies EXCEPT ![e] = @ + 1]
  /\ tk' = MarkSent(t, e)
  /\ UNCHANGED <<status, due, stray, chan, broker, lost, crashes, disconnects, errors>>

\* publishToQueue throws: FAILED, attempts + 1, backoff.
FailRow(t, e) ==
  /\ IsNext(t, e)
  /\ chan[HostOf[t]] = "closed"
  /\ tk' = MarkFailed(t, e)
  /\ UNCHANGED <<status, due, stray, chan, wire, broker, lost, copies, crashes, disconnects,
                 errors>>

\* The rows once the transaction of a tick is in.
MarkPublished(t) ==   \* mutant: the status homework-rabbitmq.md names
  [e \in Events |-> IF e \in tk[t].sent THEN "PUBLISHED"
                     ELSE IF e \in tk[t].failed THEN "FAILED" ELSE status[e]]
ForgetSent(t) ==   \* mutant: the UPDATE to SENT is not part of the transaction
  [e \in Events |-> IF e \in tk[t].failed THEN "FAILED" ELSE status[e]]
CommittedStatus(t) ==
  [e \in Events |-> IF e \in tk[t].sent THEN "SENT"
                     ELSE IF e \in tk[t].failed THEN "FAILED" ELSE status[e]]

\* COMMIT.
CommitTick(t) ==
  /\ Held(t) # {}
  /\ tk[t].todo = {}
  /\ status' = CommittedStatus(t)
  /\ due' = [e \in Events |-> due[e] /\ e \notin tk[t].failed]
  /\ tk' = [tk EXCEPT ![t] = Idle]
  /\ UNCHANGED <<stray, chan, wire, broker, lost, copies, crashes, disconnects, errors>>

\* Any statement may fail.  A save() that throws inside the try is followed by
\* another in the catch, which throws as well: the whole tick rolls back,
\* including the rows it has already published.
AbortTick(t) ==
  /\ errors < MaxErrors
  /\ Held(t) # {}
  /\ tk' = [tk EXCEPT ![t] = Idle]
  /\ errors' = errors + 1
  /\ UNCHANGED <<status, due, stray, chan, wire, broker, lost, copies, crashes, disconnects>>

\* The database ends the session while the tick is about to publish a row: the
\* transaction is rolled back, and the tick does not know.
EndSession(t, e) ==
  /\ errors < MaxErrors
  /\ IsNext(t, e)
  /\ tk' = [tk EXCEPT ![t] = Idle]
  /\ stray' = stray \cup {[tick |-> t, row |-> e]}
  /\ errors' = errors + 1
  /\ UNCHANGED <<status, due, chan, wire, broker, lost, copies, crashes, disconnects>>

\* It publishes the row; save() throws, and save() in the catch.
PublishStray(x) ==
  /\ x \in stray
  /\ chan[HostOf[x.tick]] = "open"
  /\ wire' = [wire EXCEPT ![HostOf[x.tick]] = @ \cup {x.row}]
  /\ copies' = [copies EXCEPT ![x.row] = @ + 1]
  /\ stray' = stray \ {x}
  /\ UNCHANGED <<status, due, tk, chan, broker, lost, crashes, disconnects, errors>>

\* It has noticed before, or publishToQueue throws.
EndStray(x) ==
  /\ x \in stray
  /\ stray' = stray \ {x}
  /\ UNCHANGED <<status, due, tk, chan, wire, broker, lost, copies, crashes, disconnects,
                 errors>>

\* Not in the repository: a consumer or an operator declares domain.events.
Declare ==
  /\ ~declared
  /\ declared' = TRUE
  /\ UNCHANGED <<status, due, tk, stray, chan, wire, received, dropped, lost, copies, crashes,
                 disconnects, errors>>

\* The broker reads what a process wrote; it goes to the queue if there is one.
Receive(p, e) ==
  /\ e \in wire[p]
  /\ wire' = [wire EXCEPT ![p] = @ \ {e}]
  /\ \/ declared /\ received' = received \cup {e} /\ UNCHANGED dropped
     \/ ~declared /\ dropped' = dropped \cup {e} /\ UNCHANGED received
  /\ UNCHANGED <<status, due, tk, stray, chan, declared, lost, copies, crashes, disconnects,
                 errors>>

\* The connection ends and the process lives on; RabbitmqService never
\* reconnects.
Disconnect(p) ==
  /\ disconnects < MaxDisconnects
  /\ chan[p] = "open"
  /\ chan' = [chan EXCEPT ![p] = "closed"]
  /\ wire' = [wire EXCEPT ![p] = {}]
  /\ lost' = lost \cup wire[p]
  /\ disconnects' = disconnects + 1
  /\ UNCHANGED <<status, due, tk, stray, broker, copies, crashes, errors>>

\* The process dies, its ticks' transactions roll back.
Crash(p) ==
  /\ crashes < MaxCrashes
  /\ chan[p] # "down"
  /\ chan' = [chan EXCEPT ![p] = "down"]
  /\ wire' = [wire EXCEPT ![p] = {}]
  /\ lost' = lost \cup wire[p]
  /\ tk' = [t \in Ticks |-> IF HostOf[t] = p THEN Idle ELSE tk[t]]
  /\ stray' = {x \in stray : HostOf[x.tick] # p}
  /\ crashes' = crashes + 1
  /\ UNCHANGED <<status, due, broker, copies, disconnects, errors>>

\* compose.yml: restart: unless-stopped.
Restart(p) ==
  /\ chan[p] = "down"
  /\ chan' = [chan EXCEPT ![p] = "open"]
  /\ UNCHANGED <<status, due, tk, stray, wire, broker, lost, copies, crashes, disconnects,
                 errors>>

----------------------------------------------------------------------------
Tick(t) ==
  \/ SelectRows(t)
  \/ \E e \in Events : PublishRow(t, e) \/ FailRow(t, e)
  \/ CommitTick(t)
  \/ \E x \in stray : x.tick = t /\ (PublishStray(x) \/ EndStray(x))

Next ==
  \/ \E e \in Events : Add(e) \/ BecomeDue(e)
  \/ \E t \in Ticks : Tick(t) \/ AbortTick(t) \/ \E e \in Events : EndSession(t, e)
  \/ Declare
  \/ \E p \in Processes, e \in Events : Receive(p, e)
  \/ \E p \in Processes : Disconnect(p) \/ Crash(p) \/ Restart(p)

Spec == Init /\ [][Next]_vars

\* The interval timer keeps starting ticks and a tick keeps running, time
\* passes, docker restarts what died.
Fairness ==
  /\ \A e \in Events : WF_vars(BecomeDue(e))
  /\ \A t \in Ticks : WF_vars(Tick(t))
  /\ \A p \in Processes : WF_vars(Restart(p))

LiveSpec == Spec /\ Fairness

----------------------------------------------------------------------------
(* Properties                                                              *)

\* The row locks keep overlapping ticks, of one process or of several, off
\* each other's rows, and a tick never works on a row that is already SENT.
TicksAreDisjoint ==
  /\ \A t, u \in Ticks : t # u => Held(t) \cap Held(u) = {}
  /\ \A t \in Ticks : \A e \in Held(t) : status[e] \in {"PENDING", "FAILED"}

\* "guaranteeing at-least-once delivery": a row is SENT only if its message is
\* on the queue or on the way there, or was on the way when a connection or a
\* process ended or when the queue did not exist.  The broker's answer is not
\* waited for, so nothing stronger holds.
Arrives(e) ==
  e \in received \cup dropped \cup lost \/ \E p \in Processes : e \in wire[p]
SentArrives == \A e \in Events : status[e] = "SENT" => Arrives(e)

\* A second copy of an event is the price of a crash or of a transaction that
\* the database ends, and each of them buys one, stray publishes included:
\* overlapping ticks, retries and lost connections never publish an event
\* twice.
Rollbacks     == crashes + errors
CopiesArePaid == \A e \in Events : copies[e] <= 1 + Rollbacks

\* Once a row is committed as SENT its status stays and no tick publishes it
\* again, not even one that selected its rows before that commit, except a tick
\* that the database has thrown out without its knowing.
Strays(e) == {x \in stray : x.row = e}
SentIsFinal ==
  [][\A e \in Events : status[e] = "SENT" =>
       status'[e] = "SENT" /\ (copies'[e] = copies[e] \/ Strays(e) # {})]_vars

\* Once every process keeps an open channel, the relay works off the outbox:
\* FAILED rows are retried and rows of rolled-back ticks are found again.
OutboxDrains ==
  <>[](\A p \in Processes : chan[p] = "open") =>
    \A e \in Events : status[e] \in {"PENDING", "FAILED"} ~> status[e] = "SENT"

\* The inductive invariant behind the safety properties: what a tick has
\* marked SENT is on the way; a row not yet SENT was published by the tick that
\* holds it, or once for each rollback at most, and of these a stray publish
\* still to come has one.
InFlight(e) == \E t \in Ticks : e \in tk[t].sent
MarkedArrives == \A e \in Events : InFlight(e) => Arrives(e)
CopiesMatch ==
  \A e \in Events :
    copies[e] + Cardinality(Strays(e)) <=
      Rollbacks + (IF status[e] = "SENT" \/ InFlight(e) THEN 1 ELSE 0)
MarksAreApart ==
  \A t \in Ticks : tk[t].todo \cap (tk[t].sent \cup tk[t].failed) = {}
StraysAreIdle == \A x \in stray : tk[x.tick] = Idle
IInv ==
  /\ TypeOK
  /\ TicksAreDisjoint /\ MarksAreApart /\ StraysAreIdle
  /\ SentArrives /\ MarkedArrives
  /\ CopiesMatch

\* With its batches, locks, overlapping ticks and retries the relay implements
\* OutboxDelivery, where an event is handed over, at the price of a rollback
\* once more, and then closed.
Recorded  == {e \in Events : status[e] # "NONE"}
Closed    == {e \in Events : status[e] = "SENT"}
OnTheWay  == UNION {wire[p] : p \in Processes}
CutOff    == {e \in Events : Strays(e) # {}}
Delivery == INSTANCE OutboxDelivery WITH
  recorded <- Recorded, closed <- Closed, travelling <- OnTheWay, interrupted <- CutOff,
  rollbacks <- Rollbacks
ImplementsDelivery == Delivery!Spec
=============================================================================
