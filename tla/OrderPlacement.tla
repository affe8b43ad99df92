--------------------------- MODULE OrderPlacement ---------------------------
(***************************************************************************)
(* What OrdersService.create promises: a request takes effect in one step, *)
(* its order and its reservation together, on the stock of that moment,    *)
(* and is answered with what is true of a single moment.  Nothing of the   *)
(* row locks, the waits, the open transactions and the retries under an    *)
(* idempotency key can be seen from outside.                               *)
(***************************************************************************)
EXTENDS Naturals

CONSTANTS
  Requests,   \* POST /orders requests
  Products,
  Stocked,    \* products that have a stock row
  LinesOf,    \* the lines of a request, with their ProductOf and AmountOf
  ProductOf,
  AmountOf,
  Asked,      \* what a request asks of a product, all its lines together
  Rivals      \* the other requests under a request's idempotency key

VARIABLES
  stock,      \* the stock rows: [stock, reserved]
  placed,     \* requests whose order was ever there
  present,    \* requests whose order is there
  answer      \* what the client was told

placementVars == <<stock, placed, present, answer>>

\* Every line of the request fits what is on hand and not reserved.
Available(r) ==
  \A l \in LinesOf[r] :
    /\ ProductOf[l] \in Stocked
    /\ stock[ProductOf[l]].stock - stock[ProductOf[l]].reserved >= AmountOf[l]

\* An order under the request's key is there.
Taken(r) == present \cap Rivals[r] # {}

Open(r)      == answer[r] = "none"
Tell(r, a)   == answer' = [answer EXCEPT ![r] = a] /\ UNCHANGED <<stock, placed, present>>

Init == /\ stock \in [Products -> [stock : Nat, reserved : {0}]]
        /\ placed = {}
        /\ present = {}
        /\ answer = [r \in Requests |-> "none"]

\* The order appears and its whole demand is reserved.
Place(r) ==
  /\ Open(r) /\ r \notin placed
  /\ ~Taken(r)
  /\ Available(r)
  /\ stock' = [p \in Products |-> [stock[p] EXCEPT !.reserved = @ + Asked[r][p]]]
  /\ placed' = placed \cup {r}
  /\ present' = present \cup {r}
  /\ UNCHANGED answer

\* 409: at this moment a line does not fit, and nothing was done.
Refuse(r) == Open(r) /\ r \notin placed /\ ~Available(r) /\ Tell(r, "conflict")

\* 200: at this moment another order is there under the key.
Replay(r) == Open(r) /\ r \notin placed /\ Taken(r) /\ Tell(r, "replayed")

\* 201, or 503/504 from the payment: the order was placed.
Confirm(r) == Open(r) /\ r \in placed /\ \E a \in {"created", "unpaid"} : Tell(r, a)

\* 500 says nothing about the order.
Fail(r) == Open(r) /\ Tell(r, "error")

\* DELETE /orders/:id
Remove(r) ==
  /\ r \in present
  /\ present' = present \ {r}
  /\ UNCHANGED <<stock, placed, answer>>

\* PATCH /stocks/:productId writes what it likes, to one row.
Overwrite(p) ==
  /\ stock' \in [Products -> [stock : Nat, reserved : Nat]]
  /\ \A q \in Products \ {p} : stock'[q] = stock[q]
  /\ UNCHANGED <<placed, present, answer>>

Next ==
  \/ \E r \in Requests :
       Place(r) \/ Refuse(r) \/ Replay(r) \/ Confirm(r) \/ Fail(r) \/ Remove(r)
  \/ \E p \in Stocked : Overwrite(p)

Spec == Init /\ [][Next]_placementVars
=============================================================================
