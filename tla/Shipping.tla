------------------------------ MODULE Shipping ------------------------------
(***************************************************************************)
(* ShippingService over the shipping table: create with its invoice        *)
(* request, update with the date of receipt, remove.                       *)
(***************************************************************************)
EXTENDS StatusFeed

VARIABLE invoiced   \* shipments for which invoice.create was sent

TypeOKShipping == invoiced \subseteq {i \in ShippingIds : made[i] # "none"}
InitShipping   == invoiced = {}

----------------------------------------------------------------------------
\* The entity of a create, which has no date even if its status is RECEIVED.
Shipment(o, s) == [order |-> o, status |-> s, number |-> NoNumber, stamp |-> NoDate]

\* create up to its save: the order and its items are looked up.
CreateShipping(r) ==
  /\ call[r] = Idle
  /\ \E o \in orders, s \in Statuses :
       call' = [call EXCEPT ![r] = [pc |-> "ship", entity |-> Shipment(o, s)]]
  /\ UNCHANGED <<orders, row, made, overlapped, silent, feedVars, invoiced>>

\* The invoice service is asked for an invoice on a connection of its own; an
\* error is only logged.
InvoicedNext(i) == {invoiced, invoiced \cup {i}}

InsertShipping(r, i) ==
  /\ call[r].pc = "ship"
  /\ IsNextId(i, ShippingIds)
  /\ InsertRow(r, i)
  /\ invoiced' \in InvoicedNext(i)
  /\ UNCHANGED <<orders, overlapped, silent, feedVars>>

\* receivedAt of the entity: set once, by the first PATCH to RECEIVED.
StampEveryReceipt(r, i, status) ==   \* mutant: no !shipping.receivedAt
  IF status = "received" THEN r ELSE row[i].stamp
StampIfStamped(r, i, status) ==      \* mutant: the test of receivedAt is not negated
  IF status = "received" /\ row[i].stamp # NoDate THEN r ELSE row[i].stamp
StampOf(r, i, status) ==
  IF status = "received" /\ row[i].stamp = NoDate THEN r ELSE row[i].stamp

\* The entity after the assignments of update.
PatchedShipment(r, i, status) ==
  [order |-> row[i].order, status |-> IF status = Undef THEN row[i].status ELSE status,
   number |-> row[i].number, stamp |-> StampOf(r, i, status)]

\* update up to its save.
PatchShipping(r, i) ==
  \E status \in Statuses \cup {Undef} :
    /\ ReadForSave(r, i, PatchedShipment(r, i, status), status # Undef /\ status # row[i].status)
    /\ UNCHANGED <<silent, invoiced>>

\* remove up to its DELETE.
RemoveShipping(r, i) ==
  /\ call[r] = Idle
  /\ Present(i)
  /\ call' = [call EXCEPT ![r] = [pc |-> "delete", id |-> i]]
  /\ UNCHANGED <<orders, row, made, overlapped, silent, feedVars, invoiced>>

ShippingCall(r) ==
  \/ CreateShipping(r)
  \/ \E i \in ShippingIds : InsertShipping(r, i) \/ PatchShipping(r, i) \/ RemoveShipping(r, i)

----------------------------------------------------------------------------
(* Properties *)

\* "When status changes to 'received', set receivedAt": a shipment that an
\* update made RECEIVED has its date, unless two updates of it overlapped.
ReceivedIsStamped ==
  \A i \in ShippingIds :
    Present(i) /\ row[i].status = "received" /\ made[i] # "received" /\ i \notin overlapped =>
      row[i].stamp # NoDate

\* The date of receipt is that of the first receipt: without overlapping
\* updates it is never moved and never cleared, however the status changes.
FirstReceiptStands ==
  [][\A i \in ShippingIds \ overlapped' :
       Present(i) /\ Present(i)' /\ row[i].stamp # NoDate => row'[i].stamp = row[i].stamp]_row
=============================================================================
