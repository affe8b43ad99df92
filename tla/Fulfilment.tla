----------------------------- MODULE Fulfilment -----------------------------
(***************************************************************************)
(* Payments and shipments of the same orders: the calls of both services   *)
(* run in several processes next to OrdersService.remove, whose DELETE     *)
(* cascades to both tables.                                                *)
(***************************************************************************)
EXTENDS Payments, Shipping

vars == <<orders, row, made, call, overlapped, silent, feedVars, ledger, invoiced>>

Init == InitFeed /\ InitPayments /\ InitShipping

\* ON DELETE CASCADE in payments and shipping.
PaymentsOnly(o) ==   \* mutant: no cascade in shipping
  [i \in Ids |-> IF i \in PaymentIds /\ Present(i) /\ row[i].order = o THEN NoRow ELSE row[i]]
Cascade(o) == [i \in Ids |-> IF Present(i) /\ row[i].order = o THEN NoRow ELSE row[i]]

\* DELETE of an order.
RemoveOrder(o) ==
  /\ o \in orders
  /\ orders' = orders \ {o}
  /\ row' = Cascade(o)
  /\ UNCHANGED <<made, call, overlapped, silent, feedVars, ledger, invoiced>>

Next ==
  \/ \E r \in Requests :
       \/ PaymentCall(r) /\ UNCHANGED invoiced
       \/ Update(r) /\ UNCHANGED invoiced
       \/ ShippingCall(r) /\ UNCHANGED ledger
       \/ /\ \/ RefuseInsert(r) \/ DeleteRow(r) \/ SaveDiff(r) \/ SaveRemoved(r) \/ Announce(r)
             \/ StatementFails(r)
          /\ UNCHANGED <<ledger, invoiced>>
  \/ \E p \in Processes : (Deliver(p) \/ Disconnect(p) \/ Crash(p)) /\ UNCHANGED <<ledger, invoiced>>
  \/ \E o \in Orders : RemoveOrder(o)

Spec == Init /\ [][Next]_vars

----------------------------------------------------------------------------
(* Properties *)

TypeInvariant == TypeOK /\ TypeOKPayments /\ TypeOKShipping

\* "Happy path: Orders -> Payments.Authorize": the database refuses no payment
\* of an order that exists.
PaymentsAreAccepted ==
  \A r \in Requests : call[r].pc = "refused" => orders # Orders
=============================================================================
