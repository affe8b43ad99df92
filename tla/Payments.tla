------------------------------ MODULE Payments ------------------------------
(***************************************************************************)
(* The payments table behind its two services: PaymentsService (REST) and  *)
(* PaymentsGrpcService (Authorize, Capture, Refund), which run in          *)
(* different processes over the same rows.  A payment is addressed by its  *)
(* id in REST and by its transaction number, which no index keeps unique,  *)
(* in gRPC.                                                                *)
(***************************************************************************)
EXTENDS StatusFeed

VARIABLES
  authorized,  \* history: the key a row was inserted for by Authorize, or NoNumber
  raced        \* history: keys of overlapping Authorize calls, and keys taken off a row

ledger == <<authorized, raced>>

TypeOKPayments ==
  /\ authorized \in [PaymentIds -> Keys \cup {NoNumber}]
  /\ raced \subseteq Keys

InitPayments ==
  /\ authorized = [i \in PaymentIds |-> NoNumber]
  /\ raced = {}

----------------------------------------------------------------------------
(* PaymentsService *)

\* create: the order is looked up, then the row inserted.
CreatePayment(r) ==
  /\ call[r] = Idle
  /\ \E o \in orders, s \in Statuses, n \in Keys \cup {NoNumber} :
       call' = [call EXCEPT ![r] =
         [pc |-> "insert",
          entity |-> [order |-> o, status |-> s, number |-> n, stamp |-> NoDate]]]
  /\ UNCHANGED <<orders, row, made, overlapped, silent, feedVars, ledger>>

InsertPayment(r, i) ==
  /\ call[r].pc = "insert"
  /\ IsNextId(i, PaymentIds)
  /\ InsertRow(r, i)
  /\ UNCHANGED <<orders, overlapped, silent, feedVars, ledger>>

\* The entity after the assignments of update: Undef leaves a column as read.
OrRead(new, old) == IF new = Undef THEN old ELSE new
PatchedPayment(i, status, number) ==
  [order |-> row[i].order, status |-> OrRead(status, row[i].status),
   number |-> OrRead(number, row[i].number), stamp |-> row[i].stamp]

\* dto.status !== undefined && dto.status !== prevStatus
NewsAfterAssignment(i, status) ==   \* mutant: prevStatus is read off the patched entity
  status # Undef /\ status # PatchedPayment(i, status, Undef).status
IsNews(i, status) == status # Undef /\ status # row[i].status

\* update up to its save.  A DTO with neither property sets other columns.
PatchPayment(r, i) ==
  \E status \in Statuses \cup {Undef}, number \in Keys \cup {Undef} :
    /\ ReadForSave(r, i, PatchedPayment(i, status, number), IsNews(i, status))
    /\ UNCHANGED <<silent, ledger>>

\* remove up to its DELETE.
RemovePayment(r, i) ==
  /\ call[r] = Idle
  /\ Present(i)
  /\ call' = [call EXCEPT ![r] = [pc |-> "delete", id |-> i]]
  /\ UNCHANGED <<orders, row, made, overlapped, silent, feedVars, ledger>>

----------------------------------------------------------------------------
(* PaymentsGrpcService *)

Numbered(n) == {i \in PaymentIds : Present(i) /\ row[i].number = n}

\* authorize finds a payment with the key, whatever payment that is.
NothingFound(key) == FALSE   \* mutant: no lookup by idempotencyKey
Found(key) == key # NoNumber /\ Numbered(key) # {}

AuthorizeAgain(r, key) ==
  /\ call[r] = Idle
  /\ Found(key)
  /\ End(r, "done")
  /\ UNCHANGED <<orders, row, made, overlapped, silent, feedVars, ledger>>

\* It finds none, or there is no key: a PENDING entity of user 0 with the key
\* or a fresh UUID for its number.  No check that the order exists.
\* Keys are not empty: an empty one is not looked up and is stored as it is.
IsAuthorizing(s, key) == call[s].pc = "authorize" /\ call[s].entity.number = key
Authorize(r, key) ==
  /\ call[r] = Idle
  /\ ~Found(key)
  /\ \E o \in Orders :
       call' = [call EXCEPT ![r] =
         [pc |-> "authorize",
          entity |-> [order |-> o, status |-> "pending", stamp |-> NoDate,
                      number |-> IF key = NoNumber THEN Fresh ELSE key]]]
  /\ raced' = raced \cup {k \in Keys \cap {key} : \E s \in Requests : IsAuthorizing(s, k)}
  /\ UNCHANGED <<orders, row, made, overlapped, silent, feedVars, authorized>>

InsertAuthorized(r, i) ==
  /\ call[r].pc = "authorize"
  /\ IsNextId(i, PaymentIds)
  /\ InsertRow(r, i)
  /\ authorized' = [authorized EXCEPT
       ![i] = IF call[r].entity.number = Fresh THEN NoNumber ELSE call[r].entity.number]
  /\ UNCHANGED <<orders, overlapped, silent, feedVars, raced>>

\* capture: RECEIVED, whatever the payment was, and no announcement.  Of several
\* payments with the number the query returns any.
Capture(r, i) ==
  /\ i \in PaymentIds
  /\ ReadForSave(r, i, PatchedPayment(i, "received", Undef), FALSE)
  /\ row[i].number # NoNumber
  /\ silent' = silent \cup {i}
  /\ UNCHANGED ledger

\* refund: an OUT row, RECEIVED, for the order of the payment with the number,
\* whatever its status and amount.
Refund(r, i) ==
  /\ call[r] = Idle
  /\ Present(i)
  /\ row[i].number # NoNumber
  /\ call' = [call EXCEPT ![r] =
       [pc |-> "insert", entity |-> [order |-> row[i].order, status |-> "received",
                                     number |-> Fresh, stamp |-> NoDate]]]
  /\ UNCHANGED <<orders, row, made, overlapped, silent, feedVars, ledger>>

\* No payment has the number: capture answers NOT_FOUND, and refund inserts for
\* order 0, which the foreign key refuses.
NotFound(r) ==
  /\ call[r] = Idle
  /\ End(r, "done")
  /\ UNCHANGED <<orders, row, made, overlapped, silent, feedVars, ledger>>

----------------------------------------------------------------------------
\* The key that the UPDATE of a call takes off a payment.
TakesOff(r) ==
  {k \in Keys : Present(call[r].id) /\ row[call[r].id].number = k /\ New(r, "number") # k}

Update(r) ==
  /\ SaveUpdate(r) \/ SaveUnanswered(r)
  /\ raced' = raced \cup TakesOff(r)
  /\ UNCHANGED authorized

RestCall(r) ==
  \/ CreatePayment(r)
  \/ \E i \in PaymentIds : InsertPayment(r, i) \/ PatchPayment(r, i) \/ RemovePayment(r, i)

\* The REST routes of the same name do nothing but forward to these.
GrpcCall(r) ==
  \/ \E key \in Keys \cup {NoNumber} : AuthorizeAgain(r, key) \/ Authorize(r, key)
  \/ \E i \in PaymentIds : InsertAuthorized(r, i) \/ Capture(r, i) \/ Refund(r, i)
  \/ NotFound(r)

PaymentCall(r) == RestCall(r) \/ GrpcCall(r)

----------------------------------------------------------------------------
(* Properties *)

\* "Idempotency: check if a payment with this transaction_number already
\* exists": Authorize leaves one payment under a key, unless two calls under it
\* overlapped or a PATCH took the key off the first payment.
OnePaymentPerKey ==
  \A i, j \in PaymentIds :
    /\ i # j /\ authorized[i] = authorized[j] /\ authorized[i] # NoNumber
    /\ Present(i) /\ Present(j)
    => authorized[i] \in raced
=============================================================================
