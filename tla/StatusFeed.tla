----------------------------- MODULE StatusFeed -----------------------------
(***************************************************************************)
(* The rows whose status changes are announced on the queue status.changes:*)
(* payments and shipments.  This module holds what the two services share: *)
(* the rows, the calls the processes are running, what TypeORM's save does *)
(* with an entity that was read earlier, and the announcement after it,    *)
(* which RabbitmqService writes to the connection of its process.          *)
(*                                                                         *)
(* Payments and Shipping say which calls there are.                        *)
(***************************************************************************)
EXTENDS Naturals, Sequences

CONSTANTS
  Orders,
  PaymentIds,    \* ids the payments table may give out, in that order
  ShippingIds,   \* ids the shipping table may give out
  Keys,          \* idempotency keys of Payments.Authorize
  NoNumber,      \* transaction_number IS NULL, and the column of a shipment
  Fresh,         \* a transaction number to be made from a UUID
  NoDate,        \* received_at IS NULL, and the column of a payment
  Undef,         \* a property the DTO of a PATCH does not have
  Statuses,      \* the statuses clients send
  Processes,     \* instances of the api image
  Requests,      \* calls of the two services
  HostOf,        \* the process that runs a call
  Existing,      \* the rows there are at the start, as earlier calls left them
  UserZero,      \* whether users has a row 0, which only a statement by hand can add
  MaxFaults      \* bound: connection losses, process crashes and failing statements

Ids == PaymentIds \cup ShippingIds

ASSUME IdsAssumption == /\ PaymentIds \subseteq Nat /\ ShippingIds \subseteq Nat
                        /\ PaymentIds \cap ShippingIds = {}
                        /\ Keys \cap Ids = {} /\ NoNumber \notin Keys \cup Ids
                        /\ Fresh \notin Keys \cup Ids \cup {NoNumber}
                        /\ NoDate \notin Requests
                        /\ Undef \notin Keys \cup Statuses
ASSUME StatusesAssumption == {"pending", "received"} \subseteq Statuses /\ "none" \notin Statuses
ASSUME HostsAssumption == HostOf \in [Requests -> Processes]
ASSUME FaultsAssumption == MaxFaults \in Nat /\ UserZero \in BOOLEAN

\* transaction_number: a key, or a number made from a fresh UUID, which is
\* known by the row it was made for.
Numbers == Keys \cup PaymentIds \cup {NoNumber}

Row   == [order : Orders, status : Statuses, number : Numbers, stamp : Requests \cup {NoDate}]
NoRow == [order |-> "none"]

ASSUME ExistingAssumption ==
  /\ Existing \in [Ids -> Row \cup {NoRow}]
  /\ \A i \in Ids : Existing[i] # NoRow => Existing[i].stamp = NoDate
  /\ "none" \notin Orders

VARIABLES
  orders,      \* orders rows
  row,         \* payments and shipping rows
  made,        \* history: the status a row was inserted with, "none" before that
  call,        \* calls under way
  chan,        \* a process's channel: "open", "closed"
  wire,        \* announcements a process wrote and the broker has not read yet
  latest,      \* the last status announced of a row, "none" before the first
  overlapped,  \* history: rows two saves of which overlapped, see Overlaps
  silent,      \* history: rows saved by Capture, which announces nothing
  lost,        \* history: rows an announcement of which was lost or never made
  faults       \* faults so far

feedVars == <<chan, wire, latest, lost, faults>>

----------------------------------------------------------------------------
Columns == {"status", "number", "stamp"}
Present(i) == row[i] # NoRow

\* Where a call stands: it has read what it needs and will insert an entity
\* ("insert", "authorize", "ship"), save one back ("save", and "update" once the columns
\* are known), announce it ("announce") or delete a row ("delete").
Inserting == {"insert", "authorize", "ship"}
Saving    == {"save", "update", "announce"}
Draft == [order : Orders, status : Statuses, number : Keys \cup {NoNumber, Fresh}, stamp : {NoDate}]
Call  == [pc : Inserting, entity : Draft]
         \cup [pc : {"delete"}, id : Ids]
         \cup [pc : Saving, id : Ids, entity : Row, cols : SUBSET Columns, news : BOOLEAN]
         \cup [pc : {"new", "done", "refused"}]
Idle == [pc |-> "new"]
End(r, pc) == call' = [call EXCEPT ![r] = [pc |-> pc]]

TypeOK ==
  /\ orders \subseteq Orders
  /\ row \in [Ids -> Row \cup {NoRow}]
  /\ \A i \in Ids : Present(i) => row[i].order \in orders
  /\ made \in [Ids -> Statuses \cup {"none"}]
  /\ call \in [Requests -> Call]
  /\ chan \in [Processes -> {"open", "closed"}]
  /\ wire \in [Processes -> Seq([id : Ids, status : Statuses])]
  /\ latest \in [Ids -> Statuses \cup {"none"}]
  /\ overlapped \subseteq Ids
  /\ silent \subseteq Ids
  /\ lost \subseteq Ids
  /\ faults \in 0..MaxFaults

InitFeed ==
  /\ orders = Orders
  /\ row = Existing
  /\ made = [i \in Ids |-> IF Existing[i] = NoRow THEN "none" ELSE Existing[i].status]
  /\ call = [r \in Requests |-> Idle]
  /\ chan = [p \in Processes |-> "open"]
  /\ wire = [p \in Processes |-> <<>>]
  /\ latest = [i \in Ids |-> "none"]
  /\ overlapped = {}
  /\ silent = {}
  /\ lost = {}
  /\ faults = 0

----------------------------------------------------------------------------
(* Inserts and deletes *)

\* Identity columns: the next id of a table.
IsNextId(i, T) == i \in T /\ made[i] = "none" /\ \A j \in T : j < i => made[j] # "none"

\* The foreign keys of both tables: order_id, and user_id, which is 0 in a
\* payment that Authorize makes.
Accepted(r) ==
  /\ call[r].entity.order \in orders
  /\ call[r].pc = "authorize" => UserZero

\* INSERT of a call's entity.
Stored(r, i) ==
  [order |-> call[r].entity.order, status |-> call[r].entity.status, stamp |-> NoDate,
   number |-> IF call[r].entity.number = Fresh THEN i ELSE call[r].entity.number]
InsertRow(r, i) ==
  /\ Accepted(r)
  /\ row' = [row EXCEPT ![i] = Stored(r, i)]
  /\ made' = [made EXCEPT ![i] = call[r].entity.status]
  /\ End(r, "done")

\* Error 23503: the order has been removed, or the user does not exist.
RefuseInsert(r) ==
  /\ call[r].pc \in Inserting
  /\ ~Accepted(r)
  /\ End(r, "refused")
  /\ UNCHANGED <<orders, row, made, overlapped, silent, feedVars>>

\* remove(entity): a row that is gone by now is no error.
DeleteRow(r) ==
  /\ call[r].pc = "delete"
  /\ row' = [row EXCEPT ![call[r].id] = NoRow]
  /\ End(r, "done")
  /\ UNCHANGED <<orders, made, overlapped, silent, feedVars>>

----------------------------------------------------------------------------
(* save(entity) of an entity that was read before *)

\* A call reads row i while another one is between its read and its
\* announcement of i, or while an announcement of i is still on the wire of
\* another process.
Overlaps(r, i) ==
  \/ \E s \in Requests \ {r} : call[s].pc \in Saving /\ call[s].id = i
  \/ \E p \in Processes \ {HostOf[r]} : \E n \in 1..Len(wire[p]) : wire[p][n].id = i

\* findOne, and the assignments to the entity.
ReadForSave(r, i, entity, news) ==
  /\ call[r] = Idle
  /\ Present(i)
  /\ call' = [call EXCEPT ![r] = [pc |-> "save", id |-> i, entity |-> entity, cols |-> {},
                                  news |-> news]]
  /\ overlapped' = overlapped \cup {j \in {i} : Overlaps(r, i)}
  /\ UNCHANGED <<orders, row, made, feedVars>>

\* save re-selects the row and keeps the columns in which the entity differs.
SaveDiff(r) ==
  LET i == call[r].id IN
  /\ call[r].pc = "save"
  /\ Present(i)
  /\ call' = [call EXCEPT ![r] = [pc |-> "update", id |-> i, entity |-> call[r].entity,
                                  cols |-> {c \in Columns : call[r].entity[c] # row[i][c]},
                                  news |-> call[r].news]]
  /\ UNCHANGED <<orders, row, made, overlapped, silent, feedVars>>

\* It finds nothing and inserts the entity with the id it has, which a
\* GENERATED ALWAYS identity refuses.
SaveRemoved(r) ==
  /\ call[r].pc = "save"
  /\ ~Present(call[r].id)
  /\ End(r, "done")
  /\ UNCHANGED <<orders, row, made, overlapped, silent, feedVars>>

\* The row after UPDATE ... SET of the columns that differed.
New(r, c) == IF c \in call[r].cols THEN call[r].entity[c] ELSE row[call[r].id][c]
UpdatedRow(r) ==
  [order |-> row[call[r].id].order, status |-> New(r, "status"),
   number |-> New(r, "number"), stamp |-> New(r, "stamp")]

\* UPDATE, which meets no row if it was removed after the re-select.
WriteBack(r) ==
  row' = IF Present(call[r].id) THEN [row EXCEPT ![call[r].id] = UpdatedRow(r)] ELSE row
SaveUpdate(r) ==
  /\ call[r].pc = "update"
  /\ WriteBack(r)
  /\ IF call[r].news
       THEN call' = [call EXCEPT ![r] = [pc |-> "announce", id |-> call[r].id, entity |-> call[r].entity,
                                        cols |-> call[r].cols, news |-> TRUE]]
       ELSE End(r, "done")
  /\ UNCHANGED <<orders, made, overlapped, silent, feedVars>>

\* COMMIT takes effect and its answer is lost: save throws, the call answers 500
\* and never comes to its announcement.  Without one it ends as if answered.
SaveUnanswered(r) ==
  /\ faults < MaxFaults
  /\ call[r].pc = "update"
  /\ call[r].news
  /\ WriteBack(r)
  /\ End(r, "done")
  /\ lost' = lost \cup {call[r].id}
  /\ faults' = faults + 1
  /\ UNCHANGED <<orders, made, chan, wire, latest, overlapped, silent>>

----------------------------------------------------------------------------
(* RabbitmqService.publishStatusChange and the connection *)

\* StatusChangeEvent, built from the saved entity.
Event(r) == [id |-> call[r].id, status |-> call[r].entity.status]

\* publishToQueue, whose error is caught and logged.
Announce(r) ==
  LET i == call[r].id
      p == HostOf[r]
  IN /\ call[r].pc = "announce"
     /\ IF chan[p] = "open"
          THEN wire' = [wire EXCEPT ![p] = Append(@, Event(r))] /\ UNCHANGED lost
          ELSE lost' = lost \cup {i} /\ UNCHANGED wire
     /\ End(r, "done")
     /\ UNCHANGED <<orders, row, made, chan, latest, overlapped, silent, faults>>

\* The broker reads what a process wrote; assertInfrastructure has declared
\* the queue.
Deliver(p) ==
  /\ wire[p] # <<>>
  /\ latest' = [latest EXCEPT ![Head(wire[p]).id] = Head(wire[p]).status]
  /\ wire' = [wire EXCEPT ![p] = Tail(wire[p])]
  /\ UNCHANGED <<orders, row, made, call, chan, overlapped, silent, lost, faults>>

OnWire(p) == {wire[p][n].id : n \in 1..Len(wire[p])}

\* The connection ends, the process lives on and never connects again.
Disconnect(p) ==
  /\ faults < MaxFaults
  /\ chan[p] = "open"
  /\ chan' = [chan EXCEPT ![p] = "closed"]
  /\ wire' = [wire EXCEPT ![p] = <<>>]
  /\ lost' = lost \cup OnWire(p)
  /\ faults' = faults + 1
  /\ UNCHANGED <<orders, row, made, call, latest, overlapped, silent>>

Hosted(p, pcs) == {r \in Requests : HostOf[r] = p /\ call[r].pc \in pcs}

\* The process dies and is restarted, with a new connection; its calls end
\* where they stand.
Crash(p) ==
  LET dying == Hosted(p, {"delete"} \cup Inserting \cup Saving) IN
  /\ faults < MaxFaults
  /\ chan' = [chan EXCEPT ![p] = "open"]
  /\ wire' = [wire EXCEPT ![p] = <<>>]
  /\ lost' = lost \cup OnWire(p) \cup {call[r].id : r \in Hosted(p, {"announce"})}
  /\ call' = [r \in Requests |-> IF r \in dying THEN [pc |-> "done"] ELSE call[r]]
  /\ faults' = faults + 1
  /\ UNCHANGED <<orders, row, made, latest, overlapped, silent>>

\* A statement fails without effect: the call answers 500.  (The answer lost to an
\* INSERT or a DELETE that took effect leaves what the answered one leaves.)
StatementFails(r) ==
  /\ faults < MaxFaults
  /\ call[r].pc \in {"delete", "save", "update"} \cup Inserting
  /\ End(r, "done")
  /\ faults' = faults + 1
  /\ UNCHANGED <<orders, row, made, chan, wire, latest, overlapped, silent, lost>>

----------------------------------------------------------------------------
(* Properties *)

Quiet(i) ==
  /\ \A r \in Requests : call[r].pc \in Saving => call[r].id # i
  /\ \A p \in Processes : i \notin OnWire(p)

\* Whoever follows status.changes knows the status of every row: once nothing
\* about a row is under way, the last announcement is its status, unless two
\* saves of the row overlapped, one was made by Capture, or an announcement was
\* lost with a connection, a process or the answer to the save before it.
FeedConverges ==
  \A i \in Ids :
    Present(i) /\ Quiet(i) /\ i \notin overlapped \cup silent \cup lost =>
      row[i].status = IF latest[i] = "none" THEN made[i] ELSE latest[i]
=============================================================================
