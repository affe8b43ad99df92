-------------------------- MODULE FulfilmentProofs --------------------------
(* Theorems about Fulfilment for every set of orders, ids, keys, statuses, *)
(* calls and processes and every number of faults, with their proofs.      *)
EXTENDS Fulfilment, TLAPS

----------------------------------------------------------------------------
(* Calls                                                                   *)

InsertCall == [pc : Inserting, entity : Draft]
DeleteCall == [pc : {"delete"}, id : Ids]
SaveCall   == [pc : Saving, id : Ids, entity : Row, cols : SUBSET Columns, news : BOOLEAN]

\* The step a call stands at tells the fields it has.
LEMMA CallShape ==
  ASSUME NEW x \in Call
  PROVE  /\ x.pc \in Inserting => x \in InsertCall
         /\ x.pc = "delete" => x \in DeleteCall
         /\ x.pc \in Saving => x \in SaveCall
  BY DEF Call, InsertCall, DeleteCall, SaveCall, Inserting, Saving

\* The kinds of call are calls.
LEMMA CallKinds ==
  /\ Idle \in Call /\ Idle.pc = "new"
  /\ [pc |-> "done"] \in Call /\ [pc |-> "refused"] \in Call
  /\ InsertCall \subseteq Call /\ DeleteCall \subseteq Call /\ SaveCall \subseteq Call
<1>1. Idle \in Call /\ Idle.pc = "new" /\ [pc |-> "done"] \in Call /\ [pc |-> "refused"] \in Call
  BY DEF Call, Idle
<1>2. InsertCall \subseteq Call /\ DeleteCall \subseteq Call
  BY DEF Call, InsertCall, DeleteCall
<1>3. SaveCall \subseteq Call
  BY DEF Call, SaveCall
<1> QED BY <1>1, <1>2, <1>3

\* A call's step changes that call.
LEMMA CallMoves ==
  ASSUME call \in [Requests -> Call], NEW r \in Requests, NEW state, call' = [call EXCEPT ![r] = state]
  PROVE  /\ call'[r] = state
         /\ \A s \in Requests \ {r} : call'[s] = call[s]
         /\ state \in Call => call' \in [Requests -> Call]
  OBVIOUS

\* The ends and the elements of a sequence.
LEMMA SeqParts ==
  ASSUME NEW S, NEW w \in Seq(S)
  PROVE  /\ \A n \in 1..Len(w) : w[n] \in S
         /\ w # <<>> => Head(w) \in S /\ Tail(w) \in Seq(S)
         /\ \A e \in S : Append(w, e) \in Seq(S)
         /\ <<>> \in Seq(S)
  OBVIOUS

\* What is not there is no row.
LEMMA NotARow == NoRow \notin Row
<1>1. ASSUME NoRow \in Row PROVE FALSE
  BY <1>1, ExistingAssumption DEF NoRow, Row
<1> QED BY <1>1

----------------------------------------------------------------------------
(* Type correctness                                                        *)

\* The draft of a shipment has no number.
ShipDrafts == \A r \in Requests : call[r].pc = "ship" => call[r].entity.number # Fresh

Types == TypeOK /\ TypeOKPayments /\ TypeOKShipping /\ ShipDrafts

\* The initial state is well-typed.
LEMMA InitTypes == Init => Types
<1> SUFFICES ASSUME Init PROVE Types
  OBVIOUS
<1> USE DEF Init, InitFeed, InitPayments, InitShipping
<1>1. row \in [Ids -> Row \cup {NoRow}]
  BY ExistingAssumption
<1>2. \A i \in Ids : Present(i) => row[i] \in Row /\ row[i].order \in orders /\ row[i].status \in Statuses
  BY ExistingAssumption DEF Present, Row
<1>3. made \in [Ids -> Statuses \cup {"none"}]
  BY <1>2 DEF Present
<1>4. call \in [Requests -> Call] /\ ShipDrafts
  BY CallKinds DEF ShipDrafts
<1>5. wire \in [Processes -> Seq([id : Ids, status : Statuses])]
  OBVIOUS
<1>6. faults \in 0..MaxFaults
  BY FaultsAssumption
<1> QED BY <1>1, <1>2, <1>3, <1>4, <1>5, <1>6 DEF Types, TypeOK, TypeOKPayments, TypeOKShipping

\* A step that only moves a call.
LEMMA MoveTypes ==
  ASSUME Types, NEW r \in Requests, NEW state \in Call, call' = [call EXCEPT ![r] = state],
         state.pc # "ship" \/ state.entity.number # Fresh,
         overlapped' \subseteq Ids, silent' \subseteq Ids, raced' \subseteq Keys,
         UNCHANGED <<orders, row, made, feedVars, authorized, invoiced>>
  PROVE  Types'
<1>1. call' \in [Requests -> Call] /\ call'[r] = state /\ \A s \in Requests \ {r} : call'[s] = call[s]
  BY CallMoves DEF Types, TypeOK
<1>2. ShipDrafts'
  BY <1>1 DEF Types, ShipDrafts
<1>3. TypeOK'
  BY <1>1 DEF Types, TypeOK, feedVars, Present
<1> QED BY <1>2, <1>3 DEF Types, TypeOKPayments, TypeOKShipping

\* INSERT gives the types of rows.
LEMMA InsertTypes ==
  ASSUME Types, NEW r \in Requests, call[r].pc \in Inserting, NEW i \in Ids, InsertRow(r, i),
         call[r].entity.number = Fresh => i \in PaymentIds,
         authorized' \in [PaymentIds -> Keys \cup {NoNumber}], raced' \subseteq Keys,
         invoiced' \subseteq invoiced \cup (ShippingIds \cap {i}),
         UNCHANGED <<orders, overlapped, silent, feedVars>>
  PROVE  Types' /\ row'[i] \in Row /\ made'[i] \in Statuses
<1>1. call[r] \in InsertCall
  BY CallShape DEF Types, TypeOK
<1>2. call[r].entity.status \in Statuses /\ call[r].entity.order \in orders
  BY <1>1 DEF InsertCall, Draft, InsertRow, Accepted
<1>3. Stored(r, i) \in Row /\ Stored(r, i).order \in orders
  BY <1>1, <1>2 DEF Stored, Row, InsertCall, Draft, Numbers, InsertRow, Accepted
<1>4. /\ row'[i] = Stored(r, i) /\ \A j \in Ids \ {i} : row'[j] = row[j]
      /\ row' \in [Ids -> Row \cup {NoRow}]
  BY <1>3 DEF Types, TypeOK, InsertRow
<1>5. /\ made' \in [Ids -> Statuses \cup {"none"}]
      /\ made'[i] = call[r].entity.status /\ \A j \in Ids \ {i} : made'[j] = made[j]
  BY <1>2 DEF Types, TypeOK, InsertRow
<1>6. call' = [call EXCEPT ![r] = [pc |-> "done"]]
  BY DEF InsertRow, End
<1>7. call' \in [Requests -> Call] /\ call'[r].pc = "done" /\ \A s \in Requests \ {r} : call'[s] = call[s]
  BY <1>6, CallKinds, CallMoves DEF Types, TypeOK
<1>8. ShipDrafts'
  BY <1>7 DEF Types, ShipDrafts
<1>9. TypeOK'
  BY <1>3, <1>4, <1>5, <1>7 DEF Types, TypeOK, feedVars, Present
<1>10. TypeOKShipping'
  BY <1>2, <1>5, StatusesAssumption DEF Types, TypeOK, TypeOKShipping, Ids
<1> QED BY <1>2, <1>3, <1>4, <1>5, <1>8, <1>9, <1>10 DEF Types, TypeOKPayments

\* findOne and the assignments give an entity with the types of a row.
LEMMA ReadTypes ==
  ASSUME Types, NEW r \in Requests, NEW i \in Ids, NEW entity \in Row, NEW news \in BOOLEAN,
         ReadForSave(r, i, entity, news),
         silent' \subseteq Ids, UNCHANGED <<ledger, invoiced>>
  PROVE  Types'
<1> DEFINE state == [pc |-> "save", id |-> i, entity |-> entity, cols |-> {}, news |-> news]
<1>1. state \in SaveCall /\ state.pc = "save"
  BY DEF SaveCall, Saving
<1>2. state \in Call /\ call' = [call EXCEPT ![r] = state]
  BY <1>1, CallKinds DEF ReadForSave
<1> HIDE DEF state
<1>3. overlapped' \subseteq Ids /\ UNCHANGED <<orders, row, made, feedVars>>
  BY DEF ReadForSave, Types, TypeOK
<1>4. raced' \subseteq Keys /\ UNCHANGED <<authorized, invoiced>>
  BY DEF ledger, Types, TypeOKPayments
<1> QED BY <1>1, <1>2, <1>3, <1>4, MoveTypes

\* The entities of the three saves are rows.
LEMMA EntityTypes ==
  ASSUME Types, NEW i \in Ids, Present(i)
  PROVE  /\ row[i] \in Row
         /\ \A status \in Statuses \cup {Undef}, number \in Keys \cup {Undef} :
              PatchedPayment(i, status, number) \in Row
         /\ \A r \in Requests, status \in Statuses \cup {Undef} : PatchedShipment(r, i, status) \in Row
<1>1. row[i] \in Row
  BY DEF Types, TypeOK, Present
<1>2. ASSUME NEW status \in Statuses \cup {Undef}, NEW number \in Keys \cup {Undef}
      PROVE  PatchedPayment(i, status, number) \in Row
  BY <1>1, IdsAssumption DEF PatchedPayment, OrRead, Row, Numbers
<1>3. ASSUME NEW r \in Requests, NEW status \in Statuses \cup {Undef}
      PROVE  PatchedShipment(r, i, status) \in Row
  BY <1>1, IdsAssumption DEF PatchedShipment, StampOf, Row
<1> QED BY <1>1, <1>2, <1>3

\* Calls of the payment services keep the types.
LEMMA PaymentTypes ==
  ASSUME Types, NEW r \in Requests, PaymentCall(r), UNCHANGED invoiced
  PROVE  Types'
<1>0. /\ call \in [Requests -> Call] /\ overlapped \subseteq Ids /\ silent \subseteq Ids
      /\ raced \subseteq Keys /\ authorized \in [PaymentIds -> Keys \cup {NoNumber}] /\ PaymentIds \subseteq Ids
  BY DEF Types, TypeOK, TypeOKPayments, Ids
<1> USE DEF ledger
<1>1. ASSUME CreatePayment(r) PROVE Types'
  <2>1. PICK o \in orders, s \in Statuses, n \in Keys \cup {NoNumber} :
          call' = [call EXCEPT ![r] = [pc |-> "insert", entity |-> [order |-> o, status |-> s, number |-> n,
                                                                    stamp |-> NoDate]]]
    BY <1>1 DEF CreatePayment
  <2> DEFINE state == [pc |-> "insert", entity |-> [order |-> o, status |-> s, number |-> n, stamp |-> NoDate]]
  <2>2. state \in InsertCall /\ state.pc = "insert"
    BY DEF InsertCall, Draft, Numbers, Inserting, Types, TypeOK
  <2>3. call' = [call EXCEPT ![r] = state]
    BY <2>1
  <2> HIDE DEF state
  <2> QED BY <1>0, <1>1, <2>2, <2>3, CallKinds, MoveTypes DEF CreatePayment
<1>2. ASSUME NEW i \in PaymentIds, InsertPayment(r, i) PROVE Types'
  BY <1>0, <1>2, InsertTypes DEF InsertPayment, Inserting
<1>3. ASSUME NEW i \in PaymentIds, PatchPayment(r, i) PROVE Types'
  <2>1. PICK status \in Statuses \cup {Undef}, number \in Keys \cup {Undef} :
          ReadForSave(r, i, PatchedPayment(i, status, number), IsNews(i, status)) /\ UNCHANGED <<silent, ledger>>
    BY <1>3 DEF PatchPayment
  <2>2. PatchedPayment(i, status, number) \in Row /\ IsNews(i, status) \in BOOLEAN
    BY <1>0, <2>1, EntityTypes DEF ReadForSave, IsNews
  <2> QED BY <1>0, <2>1, <2>2, ReadTypes
<1>4. ASSUME NEW i \in PaymentIds, RemovePayment(r, i) PROVE Types'
  <2> DEFINE state == [pc |-> "delete", id |-> i]
  <2>1. state \in Call /\ state.pc = "delete"
    BY <1>0, CallKinds DEF DeleteCall
  <2>2. call' = [call EXCEPT ![r] = state]
    BY <1>4 DEF RemovePayment
  <2> HIDE DEF state
  <2> QED BY <1>0, <1>4, <2>1, <2>2, MoveTypes DEF RemovePayment
<1>5. ASSUME NEW key \in Keys \cup {NoNumber}, AuthorizeAgain(r, key) \/ NotFound(r) PROVE Types'
  BY <1>0, <1>5, CallKinds, MoveTypes DEF AuthorizeAgain, NotFound, End
<1>6. ASSUME NEW key \in Keys \cup {NoNumber}, Authorize(r, key) PROVE Types'
  <2>1. PICK o \in Orders :
          call' = [call EXCEPT ![r] = [pc |-> "authorize",
                     entity |-> [order |-> o, status |-> "pending", stamp |-> NoDate,
                                 number |-> IF key = NoNumber THEN Fresh ELSE key]]]
    BY <1>6 DEF Authorize
  <2> DEFINE state == [pc |-> "authorize",
                       entity |-> [order |-> o, status |-> "pending", stamp |-> NoDate,
                                   number |-> IF key = NoNumber THEN Fresh ELSE key]]
  <2>2. state \in InsertCall /\ state.pc = "authorize"
    BY StatusesAssumption DEF InsertCall, Draft, Numbers, Inserting
  <2>3. call' = [call EXCEPT ![r] = state]
    BY <2>1
  <2> HIDE DEF state
  <2>4. raced' \subseteq Keys
    BY <1>0, <1>6 DEF Authorize
  <2> QED BY <1>0, <1>6, <2>2, <2>3, <2>4, CallKinds, MoveTypes DEF Authorize
<1>7. ASSUME NEW i \in PaymentIds, InsertAuthorized(r, i) PROVE Types'
  <2>1. call[r] \in InsertCall
    BY <1>0, <1>7, CallShape DEF InsertAuthorized, Inserting
  <2>2. authorized' \in [PaymentIds -> Keys \cup {NoNumber}]
    BY <1>0, <1>7, <2>1 DEF InsertCall, Draft, InsertAuthorized
  <2> QED BY <1>0, <1>7, <2>2, InsertTypes DEF InsertAuthorized, Inserting
<1>8. ASSUME NEW i \in PaymentIds, Capture(r, i) PROVE Types'
  <2>1. PatchedPayment(i, "received", Undef) \in Row
    BY <1>0, <1>8, EntityTypes, StatusesAssumption DEF Capture, ReadForSave
  <2>2. ReadForSave(r, i, PatchedPayment(i, "received", Undef), FALSE) /\ silent' \subseteq Ids
    BY <1>0, <1>8 DEF Capture
  <2> QED BY <1>0, <1>8, <2>1, <2>2, ReadTypes DEF Capture
<1>9. ASSUME NEW i \in PaymentIds, Refund(r, i) PROVE Types'
  <2> DEFINE state == [pc |-> "insert", entity |-> [order |-> row[i].order, status |-> "received",
                                                    number |-> Fresh, stamp |-> NoDate]]
  <2>1. row[i].order \in Orders
    BY <1>0, <1>9, EntityTypes DEF Refund, Row
  <2>2. state \in InsertCall /\ state.pc = "insert"
    BY <2>1, StatusesAssumption DEF InsertCall, Draft, Inserting
  <2>3. call' = [call EXCEPT ![r] = state]
    BY <1>9 DEF Refund
  <2> HIDE DEF state
  <2> QED BY <1>0, <1>9, <2>2, <2>3, CallKinds, MoveTypes DEF Refund
<1> QED BY <1>1, <1>2, <1>3, <1>4, <1>5, <1>6, <1>7, <1>8, <1>9 DEF PaymentCall, RestCall, GrpcCall

\* Calls of the shipping service keep the types.
LEMMA ShippingTypes ==
  ASSUME Types, NEW r \in Requests, ShippingCall(r), UNCHANGED ledger
  PROVE  Types'
<1>0. /\ call \in [Requests -> Call] /\ overlapped \subseteq Ids /\ silent \subseteq Ids
      /\ raced \subseteq Keys /\ authorized \in [PaymentIds -> Keys \cup {NoNumber}] /\ ShippingIds \subseteq Ids
  BY DEF Types, TypeOK, TypeOKPayments, Ids
<1> USE DEF ledger
<1>1. ASSUME CreateShipping(r) PROVE Types'
  <2>1. PICK o \in orders, s \in Statuses : call' = [call EXCEPT ![r] = [pc |-> "ship", entity |-> Shipment(o, s)]]
    BY <1>1 DEF CreateShipping
  <2> DEFINE state == [pc |-> "ship", entity |-> Shipment(o, s)]
  <2>2. state \in InsertCall /\ state.entity.number # Fresh
    BY IdsAssumption DEF InsertCall, Draft, Shipment, Inserting, Types, TypeOK
  <2>3. call' = [call EXCEPT ![r] = state]
    BY <2>1
  <2> HIDE DEF state
  <2> QED BY <1>0, <1>1, <2>2, <2>3, CallKinds, MoveTypes DEF CreateShipping
<1>2. ASSUME NEW i \in ShippingIds, InsertShipping(r, i) PROVE Types'
  BY <1>0, <1>2, InsertTypes DEF InsertShipping, InvoicedNext, Inserting, Types, ShipDrafts
<1>3. ASSUME NEW i \in ShippingIds, PatchShipping(r, i) PROVE Types'
  <2>1. PICK status \in Statuses \cup {Undef} :
          ReadForSave(r, i, PatchedShipment(r, i, status), status # Undef /\ status # row[i].status)
          /\ UNCHANGED <<silent, invoiced>>
    BY <1>3 DEF PatchShipping
  <2>2. PatchedShipment(r, i, status) \in Row /\ (status # Undef /\ status # row[i].status) \in BOOLEAN
    BY <1>0, <2>1, EntityTypes DEF ReadForSave
  <2> QED BY <1>0, <2>1, <2>2, ReadTypes
<1>4. ASSUME NEW i \in ShippingIds, RemoveShipping(r, i) PROVE Types'
  <2> DEFINE state == [pc |-> "delete", id |-> i]
  <2>1. state \in Call /\ state.pc = "delete"
    BY <1>0, CallKinds DEF DeleteCall
  <2>2. call' = [call EXCEPT ![r] = state]
    BY <1>4 DEF RemoveShipping
  <2> HIDE DEF state
  <2> QED BY <1>0, <1>4, <2>1, <2>2, MoveTypes DEF RemoveShipping
<1> QED BY <1>1, <1>2, <1>3, <1>4 DEF ShippingCall

\* The steps of a save keep the types.
LEMMA SaveTypes ==
  ASSUME Types, NEW r \in Requests, UNCHANGED <<authorized, invoiced>>, raced' \subseteq Keys,
         SaveDiff(r) \/ SaveRemoved(r) \/ SaveUpdate(r) \/ SaveUnanswered(r)
  PROVE  Types'
<1>0. /\ call \in [Requests -> Call] /\ overlapped \subseteq Ids /\ silent \subseteq Ids
  BY DEF Types, TypeOK
<1>1. CASE SaveDiff(r)
  <2> DEFINE state == [pc |-> "update", id |-> call[r].id, entity |-> call[r].entity,
                       cols |-> {c \in Columns : call[r].entity[c] # row[call[r].id][c]},
                       news |-> call[r].news]
  <2>1. call[r] \in SaveCall
    BY <1>0, <1>1, CallShape DEF SaveDiff, Saving
  <2>2. state \in SaveCall /\ state.pc = "update"
    BY <2>1 DEF SaveCall, Saving
  <2>3. call' = [call EXCEPT ![r] = state]
    BY <1>1 DEF SaveDiff
  <2> HIDE DEF state
  <2> QED BY <1>0, <1>1, <2>2, <2>3, CallKinds, MoveTypes DEF SaveDiff
<1>2. CASE SaveRemoved(r)
  BY <1>0, <1>2, CallKinds, MoveTypes DEF SaveRemoved, End
<1>3. CASE SaveUpdate(r) \/ SaveUnanswered(r)
  <2>1. call[r] \in SaveCall
    BY <1>0, <1>3, CallShape DEF SaveUpdate, SaveUnanswered, Saving
  <2>2. row' \in [Ids -> Row \cup {NoRow}] /\ \A i \in Ids : Present(i)' => row'[i].order \in orders
    <3>0. WriteBack(r)
      BY <1>3 DEF SaveUpdate, SaveUnanswered
    <3>1. CASE ~Present(call[r].id)
      BY <3>0, <3>1 DEF WriteBack, Types, TypeOK, Present
    <3>2. CASE Present(call[r].id)
      <4>1. row[call[r].id] \in Row /\ row[call[r].id].order \in orders
        BY <2>1, <3>2 DEF SaveCall, Types, TypeOK, Present
      <4>2. UpdatedRow(r) \in Row /\ UpdatedRow(r).order \in orders
        BY <2>1, <4>1 DEF UpdatedRow, New, Row, SaveCall
      <4> QED BY <3>0, <2>1, <3>2, <4>2 DEF WriteBack, SaveCall, Types, TypeOK, Present
    <3> QED BY <3>1, <3>2
  <2>3. PICK state \in Call : call' = [call EXCEPT ![r] = state] /\ state.pc \in {"done", "announce"}
    <3> DEFINE told == [pc |-> "announce", id |-> call[r].id, entity |-> call[r].entity,
                        cols |-> call[r].cols, news |-> TRUE]
    <3>1. told \in SaveCall /\ told.pc = "announce"
      BY <2>1 DEF SaveCall, Saving
    <3>2. call' = [call EXCEPT ![r] = told] \/ call' = [call EXCEPT ![r] = [pc |-> "done"]]
      BY <1>3 DEF SaveUpdate, SaveUnanswered, End
    <3> HIDE DEF told
    <3> QED BY <3>1, <3>2, CallKinds
  <2>4. call' \in [Requests -> Call] /\ call'[r] = state /\ \A s \in Requests \ {r} : call'[s] = call[s]
    BY <1>0, <2>3, CallMoves
  <2>5. ShipDrafts'
    BY <2>3, <2>4 DEF Types, ShipDrafts
  <2>6. /\ lost' \subseteq Ids /\ faults' \in 0..MaxFaults
        /\ UNCHANGED <<orders, made, chan, wire, latest, overlapped, silent>>
    <3>1. CASE SaveUpdate(r)
      BY <3>1 DEF Types, TypeOK, SaveUpdate, feedVars
    <3>2. CASE SaveUnanswered(r)
      BY <2>1, <3>2, FaultsAssumption DEF Types, TypeOK, SaveUnanswered, SaveCall
    <3> QED BY <1>3, <3>1, <3>2
  <2>7. TypeOK'
    BY <2>2, <2>4, <2>6 DEF Types, TypeOK
  <2>8. TypeOKPayments' /\ TypeOKShipping'
    BY <2>6 DEF Types, TypeOKPayments, TypeOKShipping
  <2> QED BY <2>5, <2>7, <2>8 DEF Types
<1> QED BY <1>1, <1>2, <1>3

\* The other steps of a call keep the types.
LEMMA OtherTypes ==
  ASSUME Types, NEW r \in Requests, UNCHANGED <<ledger, invoiced>>,
         RefuseInsert(r) \/ DeleteRow(r) \/ Announce(r) \/ StatementFails(r)
  PROVE  Types'
<1>0. /\ call \in [Requests -> Call] /\ overlapped \subseteq Ids /\ silent \subseteq Ids /\ raced \subseteq Keys
  BY DEF Types, TypeOK, TypeOKPayments
<1> USE DEF ledger
<1>1. CASE RefuseInsert(r)
  BY <1>0, <1>1, CallKinds, MoveTypes DEF RefuseInsert, End
<1>2. \A state \in {[pc |-> "done"]} : call' = [call EXCEPT ![r] = state] =>
         call' \in [Requests -> Call] /\ ShipDrafts'
  <2>1. ASSUME NEW state \in {[pc |-> "done"]}, call' = [call EXCEPT ![r] = state]
        PROVE  call' \in [Requests -> Call] /\ ShipDrafts'
    <3>1. call' \in [Requests -> Call] /\ call'[r].pc = "done" /\ \A s \in Requests \ {r} : call'[s] = call[s]
      BY <1>0, <2>1, CallKinds, CallMoves
    <3> QED BY <3>1 DEF Types, ShipDrafts
  <2> QED BY <2>1
<1>3. CASE DeleteRow(r)
  <2>1. call[r].id \in Ids
    BY <1>0, <1>3, CallShape DEF DeleteRow, DeleteCall
  <2>2. row' \in [Ids -> Row \cup {NoRow}] /\ \A i \in Ids : Present(i)' => row'[i] = row[i]
    BY <1>3, <2>1 DEF DeleteRow, Types, TypeOK, Present
  <2>3. \A i \in Ids : Present(i)' => row'[i].order \in orders'
    BY <1>3, <2>2 DEF DeleteRow, Types, TypeOK, Present
  <2>4. TypeOK' /\ ShipDrafts'
    BY <1>2, <1>3, <2>2, <2>3 DEF DeleteRow, End, Types, TypeOK, feedVars
  <2> QED BY <1>3, <2>4 DEF DeleteRow, Types, TypeOKPayments, TypeOKShipping
<1>4. CASE Announce(r)
  <2>1. call[r] \in SaveCall /\ HostOf[r] \in Processes
    BY <1>0, <1>4, CallShape, HostsAssumption DEF Announce, Saving
  <2>2. Event(r) \in [id : Ids, status : Statuses] /\ call[r].id \in Ids
    BY <2>1 DEF SaveCall, Row, Event
  <2> DEFINE Events == [id : Ids, status : Statuses]
  <2> HIDE DEF Events
  <2>5. Event(r) \in Events /\ wire \in [Processes -> Seq(Events)]
    BY <2>2 DEF Events, Types, TypeOK
  <2>6. Append(wire[HostOf[r]], Event(r)) \in Seq(Events)
    BY <2>1, <2>5, SeqParts
  <2>7. wire' \in [Processes -> Seq(Events)]
    BY <1>4, <2>1, <2>5, <2>6 DEF Announce
  <2>8. lost' \subseteq Ids
    BY <1>4, <2>2 DEF Announce, Types, TypeOK
  <2>3. wire' \in [Processes -> Seq([id : Ids, status : Statuses])] /\ lost' \subseteq Ids
    BY <2>7, <2>8 DEF Events
  <2>4. TypeOK' /\ ShipDrafts'
    BY <1>2, <1>4, <2>3 DEF Announce, End, Types, TypeOK, Present
  <2> QED BY <1>4, <2>4 DEF Announce, Types, TypeOKPayments, TypeOKShipping
<1>5. CASE StatementFails(r)
  <2>1. faults' \in 0..MaxFaults
    BY <1>5, FaultsAssumption DEF StatementFails, Types, TypeOK
  <2>2. TypeOK' /\ ShipDrafts'
    BY <1>2, <1>5, <2>1 DEF StatementFails, End, Types, TypeOK, Present
  <2> QED BY <1>5, <2>2 DEF StatementFails, Types, TypeOKPayments, TypeOKShipping
<1> QED BY <1>1, <1>3, <1>4, <1>5

\* The steps of the broker, the connections and the processes keep the types.
LEMMA ProcessTypes ==
  ASSUME Types, NEW p \in Processes, Deliver(p) \/ Disconnect(p) \/ Crash(p), UNCHANGED <<ledger, invoiced>>
  PROVE  Types'
<1> DEFINE Events == [id : Ids, status : Statuses]
<1> HIDE DEF Events
<1>0. wire \in [Processes -> Seq(Events)] /\ wire[p] \in Seq(Events)
  BY DEF Events, Types, TypeOK
<1>1. OnWire(p) \subseteq Ids
  <2>1. \A n \in 1..Len(wire[p]) : wire[p][n] \in Events
    BY <1>0, SeqParts
  <2>2. \A n \in 1..Len(wire[p]) : wire[p][n].id \in Ids
    BY <2>1 DEF Events
  <2> QED BY <2>2 DEF OnWire
<1>5. <<>> \in Seq(Events)
  BY SeqParts
<1>2. CASE Deliver(p)
  <2>1. Head(wire[p]) \in Events /\ Tail(wire[p]) \in Seq(Events)
    BY <1>0, <1>2, SeqParts DEF Deliver
  <2>2. wire' \in [Processes -> Seq(Events)]
    BY <1>0, <1>2, <2>1 DEF Deliver
  <2>3. latest' \in [Ids -> Statuses \cup {"none"}]
    <3>1. Head(wire[p]).status \in Statuses
      BY <2>1 DEF Events
    <3>2. latest' = [latest EXCEPT ![Head(wire[p]).id] = Head(wire[p]).status]
      BY <1>2 DEF Deliver
    <3>3. latest \in [Ids -> Statuses \cup {"none"}]
      BY DEF Types, TypeOK
    <3> QED BY <3>1, <3>2, <3>3
  <2>4. TypeOK'
    BY <1>2, <2>2, <2>3 DEF Events, Deliver, Types, TypeOK, Present
  <2> QED BY <1>2, <2>4 DEF Deliver, Types, TypeOKPayments, TypeOKShipping, ShipDrafts, ledger
<1>3. CASE Disconnect(p)
  <2>1. wire' \in [Processes -> Seq(Events)]
    BY <1>0, <1>3, <1>5 DEF Disconnect
  <2>2. lost' \subseteq Ids /\ faults' \in 0..MaxFaults
    BY <1>1, <1>3, FaultsAssumption DEF Disconnect, Types, TypeOK
  <2>3. TypeOK'
    BY <1>3, <2>1, <2>2 DEF Events, Disconnect, Types, TypeOK, Present
  <2> QED BY <1>3, <2>3 DEF Disconnect, Types, TypeOKPayments, TypeOKShipping, ShipDrafts, ledger
<1>4. CASE Crash(p)
  <2>1. wire' \in [Processes -> Seq(Events)]
    BY <1>0, <1>4, <1>5 DEF Crash
  <2>8. faults' \in 0..MaxFaults
    BY <1>4, FaultsAssumption DEF Crash, Types, TypeOK
  <2>2. {call[r].id : r \in Hosted(p, {"announce"})} \subseteq Ids
    <3>1. \A r \in Hosted(p, {"announce"}) : call[r] \in SaveCall
      BY CallShape DEF Hosted, Types, TypeOK, Saving
    <3> QED BY <3>1 DEF SaveCall
  <2>3. lost' \subseteq Ids
    BY <1>1, <1>4, <2>2 DEF Crash, Types, TypeOK
  <2>4. \A r \in Requests : call'[r] = call[r] \/ call'[r] = [pc |-> "done"]
    BY <1>4 DEF Crash
  <2>5. call' \in [Requests -> Call]
    BY <1>4, <2>4, CallKinds DEF Crash, Types, TypeOK
  <2>6. ShipDrafts'
    BY <2>4 DEF Types, ShipDrafts
  <2>7. TypeOK'
    BY <1>4, <2>1, <2>3, <2>5, <2>8 DEF Events, Crash, Types, TypeOK, Present
  <2> QED BY <1>4, <2>6, <2>7 DEF Crash, Types, TypeOKPayments, TypeOKShipping, ledger
<1> QED BY <1>2, <1>3, <1>4

\* The cascade keeps the types, and no payment or shipment outlives its order.
LEMMA CascadeTypes ==
  ASSUME Types, NEW o \in Orders, RemoveOrder(o)
  PROVE  Types'
<1>1. /\ row' \in [Ids -> Row \cup {NoRow}]
      /\ \A i \in Ids : row'[i] = NoRow \/ (row'[i] = row[i] /\ row[i].order # o)
  BY DEF RemoveOrder, Cascade, Types, TypeOK, Present
<1>2. orders' \subseteq Orders /\ \A i \in Ids : Present(i)' => row'[i].order \in orders'
  BY <1>1 DEF RemoveOrder, Types, TypeOK, Present
<1>3. TypeOK'
  BY <1>1, <1>2 DEF RemoveOrder, Types, TypeOK, feedVars
<1> QED BY <1>3 DEF RemoveOrder, Types, TypeOKPayments, TypeOKShipping, ShipDrafts, ledger

\* Every step keeps the types.
LEMMA NextTypes == Types /\ [Next]_vars => Types'
<1> SUFFICES ASSUME Types, [Next]_vars PROVE Types'
  OBVIOUS
<1>1. CASE UNCHANGED vars
  BY <1>1 DEF vars, feedVars, ledger, Types, TypeOK, TypeOKPayments, TypeOKShipping, ShipDrafts, Present
<1>2. ASSUME NEW r \in Requests, Update(r), UNCHANGED invoiced PROVE Types'
  <2>1. raced' \subseteq Keys
    BY <1>2 DEF Update, TakesOff, Types, TypeOKPayments
  <2> QED BY <1>2, <2>1, SaveTypes DEF Update
<1>3. ASSUME NEW r \in Requests, SaveDiff(r) \/ SaveRemoved(r), UNCHANGED <<ledger, invoiced>> PROVE Types'
  BY <1>3, SaveTypes DEF ledger, Types, TypeOKPayments
<1> QED BY <1>1, <1>2, <1>3, PaymentTypes, ShippingTypes, OtherTypes, ProcessTypes, CascadeTypes DEF Next

\* TypeInvariant: the variables have their types, and in particular no payment
\* or shipment outlives the order it belongs to.
THEOREM TypeCorrect == Spec => []TypeInvariant
<1>1. Types => TypeInvariant
  BY DEF Types, TypeInvariant
<1> QED BY <1>1, InitTypes, NextTypes, PTL DEF Spec

\* Types in every state.
LEMMA AlwaysTypes == Spec => []Types
  BY InitTypes, NextTypes, PTL DEF Spec

----------------------------------------------------------------------------
(* What a step does to rows and to the saves under way                     *)

Saves(r, i) == call[r].pc \in Saving /\ call[r].id = i

\* No call enters a save; some may leave theirs.
NoNewSaves == \A s \in Requests : call'[s] = call[s] \/ call'[s].pc \notin Saving

\* Rows stay as they are or go.
Removing ==
  /\ NoNewSaves
  /\ \A i \in Ids : row'[i] = row[i] \/ row'[i] = NoRow
  /\ UNCHANGED <<made, overlapped>>

\* A new row.
Adding(i) ==
  /\ made[i] = "none"
  /\ NoNewSaves
  /\ row'[i] \in Row /\ row'[i].stamp = NoDate /\ made'[i] = row'[i].status
  /\ \A j \in Ids \ {i} : row'[j] = row[j] /\ made'[j] = made[j]
  /\ UNCHANGED overlapped

\* A call reads a row.
Reading(r, i) ==
  /\ Present(i) /\ call[r].pc \notin Saving
  /\ \E entity \in Row, news \in BOOLEAN :
       /\ call'[r] = [pc |-> "save", id |-> i, entity |-> entity, cols |-> {}, news |-> news]
       /\ i \in ShippingIds => \E status \in Statuses \cup {Undef} : entity = PatchedShipment(r, i, status)
       /\ i \in silent' \/ news \/ entity.status = row[i].status
  /\ \A s \in Requests \ {r} : call'[s] = call[s]
  /\ overlapped' = overlapped \cup {j \in {i} : Overlaps(r, i)}
  /\ UNCHANGED <<row, made>>

\* A call compares what it read with the row.
Comparing(r) ==
  /\ call[r].pc = "save" /\ Present(call[r].id)
  /\ call'[r] = [pc |-> "update", id |-> call[r].id, entity |-> call[r].entity,
                 cols |-> {c \in Columns : call[r].entity[c] # row[call[r].id][c]},
                 news |-> call[r].news]
  /\ \A s \in Requests \ {r} : call'[s] = call[s]
  /\ UNCHANGED <<row, made, overlapped>>

\* A call writes the row; news it goes on to announce, or they are lost.
Writing(r) ==
  /\ call[r].pc = "update"
  /\ WriteBack(r)
  /\ \/ /\ call[r].news
        /\ call'[r] = [pc |-> "announce", id |-> call[r].id, entity |-> call[r].entity,
                       cols |-> call[r].cols, news |-> TRUE]
     \/ /\ call'[r].pc \notin Saving
        /\ call[r].news => call[r].id \in lost'
  /\ \A s \in Requests \ {r} : call'[s] = call[s]
  /\ UNCHANGED <<made, overlapped>>

Kinds ==
  \/ Removing
  \/ \E i \in Ids : Adding(i)
  \/ \E r \in Requests, i \in Ids : Reading(r, i)
  \/ \E r \in Requests : Comparing(r) \/ Writing(r)

\* A move of a call that is not to a save.
Ends(r) == call'[r].pc \notin Saving /\ \A s \in Requests \ {r} : call'[s] = call[s]

\* An INSERT adds a row.
LEMMA InsertKind ==
  ASSUME Types, Types', NEW r \in Requests, call[r].pc \in Inserting, NEW i \in Ids, made[i] = "none",
         InsertRow(r, i), UNCHANGED overlapped
  PROVE  Adding(i)
<1>1. call'[r].pc = "done" /\ \A s \in Requests \ {r} : call'[s] = call[s]
  BY CallMoves DEF Types, TypeOK, InsertRow, End
<1>2. call[r] \in InsertCall
  BY CallShape DEF Types, TypeOK
<1>3. row'[i] = Stored(r, i) /\ made'[i] = call[r].entity.status
  BY DEF InsertRow, Types, TypeOK
<1>4. Stored(r, i).stamp = NoDate /\ Stored(r, i).status = call[r].entity.status
  BY DEF Stored
<1>5. row'[i] # NoRow /\ row'[i] \in Row \cup {NoRow}
  BY <1>2, <1>3, ExistingAssumption DEF Types, TypeOK, Stored, NoRow, InsertCall, Draft
<1>6. \A j \in Ids \ {i} : row'[j] = row[j] /\ made'[j] = made[j]
  BY DEF InsertRow, Types, TypeOK
<1>7. NoNewSaves
  BY <1>1 DEF NoNewSaves, Saving
<1> QED BY <1>3, <1>4, <1>5, <1>6, <1>7 DEF Adding

\* A findOne reads a row.
LEMMA ReadKind ==
  ASSUME Types, NEW r \in Requests, NEW i \in Ids, NEW entity \in Row, NEW news \in BOOLEAN,
         ReadForSave(r, i, entity, news),
         i \in ShippingIds => \E status \in Statuses \cup {Undef} : entity = PatchedShipment(r, i, status),
         i \in silent' \/ news \/ entity.status = row[i].status
  PROVE  Reading(r, i)
<1>1. /\ call'[r] = [pc |-> "save", id |-> i, entity |-> entity, cols |-> {}, news |-> news]
      /\ \A s \in Requests \ {r} : call'[s] = call[s]
  BY CallMoves DEF ReadForSave, Types, TypeOK
<1>2. call[r].pc \notin Saving
  BY DEF ReadForSave, Idle, Saving
<1> QED BY <1>1, <1>2 DEF Reading, ReadForSave

\* Every step is of one of these kinds.
LEMMA StepKinds ==
  ASSUME Types, Types', [Next]_vars
  PROVE  Kinds
<1>0. /\ call \in [Requests -> Call] /\ PaymentIds \subseteq Ids /\ ShippingIds \subseteq Ids
      /\ PaymentIds \cap ShippingIds = {}
  BY IdsAssumption DEF Types, TypeOK, Ids
<1>1. CASE UNCHANGED vars
  BY <1>1 DEF Kinds, Removing, NoNewSaves, vars
<1>2. ASSUME NEW r \in Requests, PaymentCall(r) PROVE Kinds
  <2>1. ASSUME \/ CreatePayment(r) \/ NotFound(r)
               \/ \E i \in PaymentIds : RemovePayment(r, i) \/ Refund(r, i)
               \/ \E key \in Keys \cup {NoNumber} : AuthorizeAgain(r, key) \/ Authorize(r, key)
        PROVE  Removing
    <3>1. Ends(r)
      <4>1. CASE CreatePayment(r)
        BY <1>0, <4>1 DEF CreatePayment, Saving, Ends
      <4>2. CASE NotFound(r)
        BY <1>0, <4>2 DEF NotFound, End, Saving, Ends
      <4>3. ASSUME NEW i \in PaymentIds, RemovePayment(r, i) PROVE Ends(r)
        BY <1>0, <4>3 DEF RemovePayment, Saving, Ends
      <4>4. ASSUME NEW i \in PaymentIds, Refund(r, i) PROVE Ends(r)
        BY <1>0, <4>4 DEF Refund, Saving, Ends
      <4>5. ASSUME NEW key, AuthorizeAgain(r, key) \/ Authorize(r, key) PROVE Ends(r)
        BY <1>0, <4>5 DEF AuthorizeAgain, Authorize, End, Saving, Ends
      <4> QED BY <2>1, <4>1, <4>2, <4>3, <4>4, <4>5
    <3>2. UNCHANGED <<row, made, overlapped>>
      BY <2>1 DEF CreatePayment, NotFound, RemovePayment, Refund, AuthorizeAgain, Authorize
    <3> QED BY <3>1, <3>2 DEF Ends, Removing, NoNewSaves
  <2>2. ASSUME NEW i \in PaymentIds, InsertPayment(r, i) \/ InsertAuthorized(r, i) PROVE Adding(i)
    BY <1>0, <2>2, InsertKind DEF InsertPayment, InsertAuthorized, Inserting, IsNextId
  <2>3. ASSUME NEW i \in PaymentIds, PatchPayment(r, i) PROVE Reading(r, i)
    <3>1. PICK status \in Statuses \cup {Undef}, number \in Keys \cup {Undef} :
            ReadForSave(r, i, PatchedPayment(i, status, number), IsNews(i, status))
      BY <2>3 DEF PatchPayment
    <3>2. PatchedPayment(i, status, number) \in Row /\ IsNews(i, status) \in BOOLEAN
      BY <1>0, <3>1, EntityTypes DEF ReadForSave, IsNews
    <3>3. IsNews(i, status) \/ PatchedPayment(i, status, number).status = row[i].status
      BY DEF IsNews, PatchedPayment, OrRead
    <3> QED BY <1>0, <3>1, <3>2, <3>3, ReadKind
  <2>4. ASSUME NEW i \in PaymentIds, Capture(r, i) PROVE Reading(r, i)
    <3>1. PatchedPayment(i, "received", Undef) \in Row
      BY <1>0, <2>4, EntityTypes, StatusesAssumption DEF Capture, ReadForSave
    <3>2. ReadForSave(r, i, PatchedPayment(i, "received", Undef), FALSE)
      BY <2>4 DEF Capture
    <3>3. i \in silent'
      BY <2>4 DEF Capture
    <3> QED BY <1>0, <3>1, <3>2, <3>3, ReadKind
  <2> QED BY <1>0, <1>2, <2>1, <2>2, <2>3, <2>4 DEF PaymentCall, RestCall, GrpcCall, Kinds
<1>3. ASSUME NEW r \in Requests, ShippingCall(r) PROVE Kinds
  <2>1. ASSUME CreateShipping(r) \/ \E i \in ShippingIds : RemoveShipping(r, i) PROVE Removing
    <3>1. Ends(r)
      <4>1. CASE CreateShipping(r)
        BY <1>0, <4>1 DEF CreateShipping, Saving, Ends
      <4>2. ASSUME NEW i \in ShippingIds, RemoveShipping(r, i) PROVE Ends(r)
        BY <1>0, <4>2 DEF RemoveShipping, Saving, Ends
      <4> QED BY <2>1, <4>1, <4>2
    <3>2. UNCHANGED <<row, made, overlapped>>
      BY <2>1 DEF CreateShipping, RemoveShipping
    <3> QED BY <3>1, <3>2 DEF Ends, Removing, NoNewSaves
  <2>2. ASSUME NEW i \in ShippingIds, InsertShipping(r, i) PROVE Adding(i)
    BY <1>0, <2>2, InsertKind DEF InsertShipping, Inserting, IsNextId
  <2>3. ASSUME NEW i \in ShippingIds, PatchShipping(r, i) PROVE Reading(r, i)
    <3>1. PICK status \in Statuses \cup {Undef} :
            ReadForSave(r, i, PatchedShipment(r, i, status), status # Undef /\ status # row[i].status)
      BY <2>3 DEF PatchShipping
    <3>2. PatchedShipment(r, i, status) \in Row
      BY <1>0, <3>1, EntityTypes DEF ReadForSave
    <3>3. PICK news \in BOOLEAN : /\ ReadForSave(r, i, PatchedShipment(r, i, status), news)
                                  /\ news = (status # Undef /\ status # row[i].status)
      BY <3>1
    <3>4. news \/ PatchedShipment(r, i, status).status = row[i].status
      BY <3>3 DEF PatchedShipment
    <3> QED BY <1>0, <3>2, <3>3, <3>4, ReadKind
  <2> QED BY <1>0, <1>3, <2>1, <2>2, <2>3 DEF ShippingCall, Kinds
<1>4. ASSUME NEW r \in Requests, Update(r) PROVE Kinds
  <2> DEFINE told == [pc |-> "announce", id |-> call[r].id, entity |-> call[r].entity,
                      cols |-> call[r].cols, news |-> TRUE]
  <2>1. PICK state : /\ call' = [call EXCEPT ![r] = state]
                     /\ \/ call[r].news /\ state = told
                        \/ state.pc \notin Saving /\ (call[r].news => call[r].id \in lost')
    <3>1. \/ call' = [call EXCEPT ![r] = told] /\ call[r].news
          \/ /\ call' = [call EXCEPT ![r] = [pc |-> "done"]]
             /\ call[r].news => call[r].id \in lost'
      BY <1>4 DEF Update, SaveUpdate, SaveUnanswered, End
    <3>2. [pc |-> "done"].pc \notin Saving
      BY DEF Saving
    <3> QED BY <3>1, <3>2
  <2>2. call'[r] = state /\ \A s \in Requests \ {r} : call'[s] = call[s]
    BY <1>0, <2>1, CallMoves
  <2>3. call[r].pc = "update" /\ WriteBack(r) /\ UNCHANGED <<made, overlapped>>
    BY <1>4 DEF Update, SaveUpdate, SaveUnanswered
  <2> QED BY <2>1, <2>2, <2>3 DEF Writing, Kinds
<1>5. ASSUME NEW r \in Requests, SaveDiff(r) PROVE Kinds
  <2>1. /\ call'[r] = [pc |-> "update", id |-> call[r].id, entity |-> call[r].entity,
                       cols |-> {c \in Columns : call[r].entity[c] # row[call[r].id][c]},
                       news |-> call[r].news]
        /\ \A s \in Requests \ {r} : call'[s] = call[s]
    BY <1>0, <1>5, CallMoves DEF SaveDiff
  <2> QED BY <1>5, <2>1 DEF SaveDiff, Comparing, Kinds
<1>6. ASSUME NEW r \in Requests,
             RefuseInsert(r) \/ DeleteRow(r) \/ SaveRemoved(r) \/ Announce(r) \/ StatementFails(r)
      PROVE  Removing
  <2>1. Ends(r)
    BY <1>0, <1>6 DEF RefuseInsert, DeleteRow, SaveRemoved, Announce, StatementFails, End, Saving, Ends
  <2>2. UNCHANGED <<made, overlapped>> /\ \A i \in Ids : row'[i] = row[i] \/ row'[i] = NoRow
    BY <1>6 DEF RefuseInsert, DeleteRow, SaveRemoved, Announce, StatementFails, Types, TypeOK
  <2> QED BY <2>1, <2>2 DEF Ends, Removing, NoNewSaves
<1>7. ASSUME NEW p \in Processes, Deliver(p) \/ Disconnect(p) \/ Crash(p) PROVE Removing
  <2>1. NoNewSaves
    BY <1>7 DEF NoNewSaves, Deliver, Disconnect, Crash, Saving
  <2> QED BY <1>7, <2>1 DEF Removing, Deliver, Disconnect, Crash
<1>8. ASSUME NEW o \in Orders, RemoveOrder(o) PROVE Removing
  BY <1>8 DEF RemoveOrder, Cascade, Removing, NoNewSaves
<1> QED BY <1>1, <1>2, <1>3, <1>4, <1>5, <1>6, <1>7, <1>8 DEF Next, Kinds

----------------------------------------------------------------------------
(* Receipts                                                                *)

\* An id not given out yet names no row and nobody saves it.
UnknownIds == \A i \in Ids : made[i] = "none" => ~Present(i) /\ \A r \in Requests : ~Saves(r, i)

\* One save at a time of a row that is not overlapped.
SaversApart == \A i \in Ids \ overlapped : \A r, s \in Requests : Saves(r, i) /\ Saves(s, i) => r = s

\* What a call is about to write to a shipment: the date the row has if it has
\* one, a date if it makes the shipment RECEIVED, and, once the columns are
\* known, whatever differs from the row.
Dated(r, i) ==
  /\ row[i].stamp # NoDate => call[r].entity.stamp = row[i].stamp
  /\ call[r].entity.status = "received" /\ made[i] # "received" => call[r].entity.stamp # NoDate
  /\ call[r].pc = "update" =>
       /\ "stamp" \in call[r].cols \/ call[r].entity.stamp = row[i].stamp
       /\ "status" \in call[r].cols \/ call[r].entity.status = row[i].status
EntityDated ==
  \A r \in Requests : \A i \in ShippingIds \ overlapped :
    Saves(r, i) /\ call[r].pc # "announce" /\ Present(i) => Dated(r, i)

ReceiptInv == UnknownIds /\ SaversApart /\ EntityDated /\ ReceivedIsStamped

\* The initial state satisfies it: no call has read anything.
LEMMA InitReceipts == Init => ReceiptInv
<1> SUFFICES ASSUME Init PROVE ReceiptInv
  OBVIOUS
<1>1. \A r \in Requests : call[r].pc \notin Saving
  BY DEF Init, InitFeed, Idle, Saving
<1>2. \A i \in Ids : /\ made[i] = "none" => ~Present(i)
                     /\ Present(i) => made[i] = row[i].status
  BY ExistingAssumption, StatusesAssumption DEF Init, InitFeed, Present, Row
<1> QED BY <1>1, <1>2 DEF ReceiptInv, UnknownIds, SaversApart, EntityDated, ReceivedIsStamped, Saves, Ids

\* A save that is under way after the step was under way before it, unless the
\* step read the row.
LEMMA OldSaves ==
  ASSUME NoNewSaves, NEW r \in Requests, NEW i, Saves(r, i)'
  PROVE  Saves(r, i) /\ call'[r] = call[r]
  BY DEF NoNewSaves, Saves

\* Removing rows and ending saves disturbs none of it.
LEMMA RemovingReceipts ==
  ASSUME Types, Types', ReceiptInv, Removing
  PROVE  ReceiptInv'
<1>1. \A r \in Requests, i \in Ids : Saves(r, i)' => Saves(r, i) /\ call'[r] = call[r]
  BY OldSaves DEF Removing
<1>2. \A i \in Ids : Present(i)' => Present(i) /\ row'[i] = row[i]
  BY DEF Removing, Present
<1>3. UNCHANGED <<made, overlapped>> /\ ShippingIds \subseteq Ids
  BY DEF Removing, Ids
<1>4. UnknownIds'
  BY <1>1, <1>2, <1>3 DEF ReceiptInv, UnknownIds
<1>5. SaversApart'
  BY <1>1, <1>3 DEF ReceiptInv, SaversApart
<1>6. EntityDated'
  <2> SUFFICES ASSUME NEW r \in Requests, NEW i \in ShippingIds \ overlapped',
                      Saves(r, i)', (call[r].pc # "announce")', Present(i)'
               PROVE  Dated(r, i)'
    BY DEF EntityDated
  <2> QED BY <1>1, <1>2, <1>3 DEF ReceiptInv, EntityDated, Dated
<1>7. ReceivedIsStamped'
  BY <1>2, <1>3 DEF ReceiptInv, ReceivedIsStamped
<1> QED BY <1>4, <1>5, <1>6, <1>7 DEF ReceiptInv

\* A new row is saved by nobody and has the status it was made with.
LEMMA AddingReceipts ==
  ASSUME Types, Types', ReceiptInv, NEW i \in Ids, Adding(i)
  PROVE  ReceiptInv'
<1>1. \A r \in Requests, j \in Ids : Saves(r, j)' => Saves(r, j) /\ call'[r] = call[r]
  BY OldSaves DEF Adding
<1>2. \A r \in Requests : ~Saves(r, i)'
  BY <1>1 DEF Adding, ReceiptInv, UnknownIds
<1>3. made'[i] # "none" /\ made'[i] = row'[i].status
  BY StatusesAssumption DEF Adding, Row
<1>4. \A j \in Ids \ {i} : row'[j] = row[j] /\ made'[j] = made[j] /\ (Present(j)' <=> Present(j))
  BY DEF Adding, Present
<1>5. overlapped' = overlapped /\ ShippingIds \subseteq Ids
  BY DEF Adding, Ids
<1>6. UnknownIds'
  BY <1>1, <1>3, <1>4 DEF ReceiptInv, UnknownIds
<1>7. SaversApart'
  BY <1>1, <1>5 DEF ReceiptInv, SaversApart
<1>8. EntityDated'
  <2> SUFFICES ASSUME NEW r \in Requests, NEW j \in ShippingIds \ overlapped',
                      Saves(r, j)', (call[r].pc # "announce")', Present(j)'
               PROVE  Dated(r, j)'
    BY DEF EntityDated
  <2>1. j # i
    BY <1>2
  <2> QED BY <1>1, <1>4, <1>5, <2>1 DEF ReceiptInv, EntityDated, Dated
<1>9. ReceivedIsStamped'
  BY <1>3, <1>4, <1>5 DEF ReceiptInv, ReceivedIsStamped
<1> QED BY <1>6, <1>7, <1>8, <1>9 DEF ReceiptInv

\* A call that reads a row overlaps the saver there is, or takes over the date.
LEMMA ReadingReceipts ==
  ASSUME Types, Types', ReceiptInv, NEW r \in Requests, NEW i \in Ids, Reading(r, i)
  PROVE  ReceiptInv'
<1>0. UNCHANGED <<row, made>> /\ ShippingIds \subseteq Ids /\ \A j \in Ids : Present(j)' <=> Present(j)
  BY DEF Reading, Present, Ids
<1>1. \A s \in Requests \ {r}, j \in Ids : (Saves(s, j)' <=> Saves(s, j)) /\ call'[s] = call[s]
  BY DEF Reading, Saves
<1>2. call'[r].pc = "save" /\ call'[r].id = i /\ \A j \in Ids : Saves(r, j)' <=> j = i
  BY DEF Reading, Saves, Saving
<1>3. overlapped \subseteq overlapped'
  BY DEF Reading
<1>4. i \notin overlapped' => \A s \in Requests \ {r} : ~Saves(s, i)
  BY DEF Reading, Overlaps, Saves
<1>5. UnknownIds'
  BY <1>0, <1>1, <1>2 DEF ReceiptInv, UnknownIds, Reading
<1>6. SaversApart'
  BY <1>1, <1>2, <1>3, <1>4 DEF ReceiptInv, SaversApart
<1>7. EntityDated'
  <2> SUFFICES ASSUME NEW s \in Requests, NEW j \in ShippingIds \ overlapped',
                      Saves(s, j)', (call[s].pc # "announce")', Present(j)'
               PROVE  Dated(s, j)'
    BY DEF EntityDated
  <2>1. CASE s # r
    BY <1>0, <1>1, <1>3, <2>1 DEF ReceiptInv, EntityDated, Dated
  <2>2. CASE s = r
    <3>1. j = i /\ i \in ShippingIds
      BY <1>0, <1>2, <2>2
    <3>2. PICK status \in Statuses \cup {Undef} : call'[r].entity = PatchedShipment(r, i, status)
      BY <3>1 DEF Reading
    <3>3. Present(i) /\ (row[i].status = "received" /\ made[i] # "received" => row[i].stamp # NoDate)
      BY <1>0, <1>3, <3>1 DEF ReceiptInv, ReceivedIsStamped
    <3>4. /\ call'[r].entity.stamp = StampOf(r, i, status)
          /\ call'[r].entity.status = IF status = Undef THEN row[i].status ELSE status
      BY <3>2 DEF PatchedShipment
    <3>5. r # NoDate /\ Undef # "received"
      BY IdsAssumption, StatusesAssumption
    <3> QED BY <1>0, <1>2, <2>2, <3>1, <3>3, <3>4, <3>5 DEF Dated, StampOf
  <2> QED BY <2>1, <2>2
<1>8. ReceivedIsStamped'
  BY <1>0, <1>3 DEF ReceiptInv, ReceivedIsStamped
<1> QED BY <1>5, <1>6, <1>7, <1>8 DEF ReceiptInv

\* A call that compares keeps what it will write.
LEMMA ComparingReceipts ==
  ASSUME Types, Types', ReceiptInv, NEW r \in Requests, Comparing(r)
  PROVE  ReceiptInv'
<1>0. UNCHANGED <<row, made, overlapped>> /\ ShippingIds \subseteq Ids /\ \A j \in Ids : Present(j)' <=> Present(j)
  BY DEF Comparing, Present, Ids
<1>1. \A s \in Requests \ {r}, j \in Ids : (Saves(s, j)' <=> Saves(s, j)) /\ call'[s] = call[s]
  BY DEF Comparing, Saves
<1>2. /\ call'[r].pc = "update" /\ call'[r].id = call[r].id /\ call'[r].entity = call[r].entity
      /\ call'[r].cols = {c \in Columns : call[r].entity[c] # row[call[r].id][c]}
  BY DEF Comparing
<1>3. \A j \in Ids : Saves(r, j)' <=> Saves(r, j)
  BY <1>2 DEF Comparing, Saves, Saving
<1>4. UnknownIds' /\ SaversApart' /\ ReceivedIsStamped'
  BY <1>0, <1>1, <1>3 DEF ReceiptInv, UnknownIds, SaversApart, ReceivedIsStamped
<1>5. EntityDated'
  <2> SUFFICES ASSUME NEW s \in Requests, NEW j \in ShippingIds \ overlapped',
                      Saves(s, j)', (call[s].pc # "announce")', Present(j)'
               PROVE  Dated(s, j)'
    BY DEF EntityDated
  <2>1. CASE s # r
    BY <1>0, <1>1, <2>1 DEF ReceiptInv, EntityDated, Dated
  <2>2. CASE s = r
    <3>1. Saves(r, j) /\ call[r].pc = "save" /\ j = call[r].id /\ Present(j)
      BY <1>0, <1>3, <2>2 DEF Comparing, Saves
    <3>2. Dated(r, j)
      BY <1>0, <3>1 DEF ReceiptInv, EntityDated
    <3>3. /\ "stamp" \in call'[r].cols \/ call[r].entity.stamp = row[j].stamp
          /\ "status" \in call'[r].cols \/ call[r].entity.status = row[j].status
      BY <1>2, <3>1 DEF Columns
    <3> QED BY <1>0, <1>2, <2>2, <3>2, <3>3 DEF Dated
  <2> QED BY <2>1, <2>2
<1> QED BY <1>4, <1>5 DEF ReceiptInv

\* A call that writes an unoverlapped shipment leaves it with the date and the
\* status of its entity.
LEMMA Written ==
  ASSUME Types, Types', ReceiptInv, NEW r \in Requests, Writing(r),
         NEW i \in ShippingIds \ overlapped, Present(i), call[r].id = i
  PROVE  row'[i].stamp = call[r].entity.stamp /\ row'[i].status = call[r].entity.status /\ Dated(r, i)
<1>1. Saves(r, i) /\ call[r].pc = "update"
  BY DEF Writing, Saves, Saving
<1>2. Dated(r, i)
  BY <1>1 DEF ReceiptInv, EntityDated
<1>3. row'[i] = UpdatedRow(r)
  BY DEF Writing, WriteBack, Types, TypeOK, Ids
<1>4. row'[i].stamp = New(r, "stamp") /\ row'[i].status = New(r, "status")
  BY <1>3 DEF UpdatedRow
<1> QED BY <1>1, <1>2, <1>4 DEF Dated, New

\* A call that writes disturbs none of it.
LEMMA WritingReceipts ==
  ASSUME Types, Types', ReceiptInv, NEW r \in Requests, Writing(r)
  PROVE  ReceiptInv'
<1>0. UNCHANGED <<made, overlapped>> /\ ShippingIds \subseteq Ids
  BY DEF Writing, WriteBack, Ids
<1>1. \A s \in Requests \ {r}, j \in Ids : (Saves(s, j)' <=> Saves(s, j)) /\ call'[s] = call[s]
  BY DEF Writing, Saves
<1>2. /\ call[r].pc = "update"
      /\ (call'[r].pc = "announce" /\ call'[r].id = call[r].id) \/ call'[r].pc \notin Saving
      /\ \A j \in Ids : Saves(r, j)' => Saves(r, j)
  BY DEF Writing, Saves, Saving
<1>3. \A j \in Ids : j # call[r].id => row'[j] = row[j]
  BY DEF Writing, WriteBack
<1>4. call[r].id \in Ids
  BY <1>2, CallShape DEF Types, TypeOK, SaveCall, Saving
<1>5. \A j \in Ids : Present(j)' => Present(j)
  BY <1>3, <1>4 DEF Writing, WriteBack, Present
<1>6. UnknownIds'
  BY <1>0, <1>1, <1>2, <1>5 DEF ReceiptInv, UnknownIds
<1>7. SaversApart'
  BY <1>0, <1>1, <1>2 DEF ReceiptInv, SaversApart
<1>8. EntityDated'
  <2> SUFFICES ASSUME NEW s \in Requests, NEW j \in ShippingIds \ overlapped',
                      Saves(s, j)', (call[s].pc # "announce")', Present(j)'
               PROVE  Dated(s, j)'
    BY DEF EntityDated
  <2>1. s # r
    BY <1>2 DEF Saves
  <2>2. Saves(s, j) /\ j \in Ids
    BY <1>0, <1>1, <2>1
  <2>3. j # call[r].id
    <3>1. CASE j = call[r].id
      <4>1. Saves(r, j)
        BY <1>2, <3>1 DEF Saves, Saving
      <4> QED BY <1>0, <2>1, <2>2, <4>1 DEF ReceiptInv, SaversApart
    <3> QED BY <3>1
  <2> QED BY <1>0, <1>1, <1>3, <1>5, <2>1, <2>2, <2>3 DEF ReceiptInv, EntityDated, Dated
<1>9. ReceivedIsStamped'
  <2> SUFFICES ASSUME NEW i \in ShippingIds, Present(i)', row'[i].status = "received", made[i] # "received",
                      i \notin overlapped
               PROVE  row'[i].stamp # NoDate
    BY <1>0 DEF ReceivedIsStamped
  <2>1. Present(i)
    BY <1>0, <1>5
  <2>2. CASE i = call[r].id
    BY <2>1, <2>2, Written DEF Dated
  <2>3. CASE i # call[r].id
    BY <1>0, <1>3, <2>1, <2>3 DEF ReceiptInv, ReceivedIsStamped
  <2> QED BY <2>2, <2>3
<1> QED BY <1>6, <1>7, <1>8, <1>9 DEF ReceiptInv

\* Every step keeps it.
LEMMA NextReceipts == Types /\ Types' /\ ReceiptInv /\ [Next]_vars => ReceiptInv'
<1> SUFFICES ASSUME Types, Types', ReceiptInv, [Next]_vars PROVE ReceiptInv'
  OBVIOUS
<1>1. Kinds
  BY StepKinds
<1> QED BY <1>1, RemovingReceipts, AddingReceipts, ReadingReceipts, ComparingReceipts, WritingReceipts DEF Kinds

\* The invariant of receipts in every state.
LEMMA AlwaysReceipts == Spec => []ReceiptInv
  BY InitReceipts, NextReceipts, AlwaysTypes, PTL DEF Spec

\* ReceivedIsStamped: a shipment that an update made RECEIVED has its date of
\* receipt, unless two updates of it overlapped (ShippingService.update).
THEOREM ReceiptsAreStamped == Spec => []ReceivedIsStamped
<1>1. ReceiptInv => ReceivedIsStamped
  BY DEF ReceiptInv
<1> QED BY <1>1, AlwaysReceipts, PTL

\* A step keeps the date of receipt of every row that is not overlapped.
LEMMA DatesStay ==
  ASSUME Types, Types', ReceiptInv, [Next]_vars, NEW i \in ShippingIds \ overlapped',
         Present(i), Present(i)', row[i].stamp # NoDate
  PROVE  row'[i].stamp = row[i].stamp
<1>0. i \in Ids
  BY DEF Ids
<1>1. CASE Removing
  BY <1>0, <1>1 DEF Removing, Present
<1>2. ASSUME NEW j \in Ids, Adding(j) PROVE row'[i].stamp = row[i].stamp
  <2>1. i # j
    BY <1>2 DEF Adding, ReceiptInv, UnknownIds
  <2> QED BY <1>0, <1>2, <2>1 DEF Adding
<1>3. ASSUME NEW r \in Requests, NEW j \in Ids, Reading(r, j) PROVE row'[i].stamp = row[i].stamp
  BY <1>3 DEF Reading
<1>4. ASSUME NEW r \in Requests, Comparing(r) PROVE row'[i].stamp = row[i].stamp
  BY <1>4 DEF Comparing
<1>5. ASSUME NEW r \in Requests, Writing(r) PROVE row'[i].stamp = row[i].stamp
  <2>1. i \notin overlapped
    BY <1>5 DEF Writing, WriteBack
  <2>2. CASE call[r].id = i
    BY <1>5, <2>1, <2>2, Written DEF Dated
  <2>3. CASE call[r].id # i
    BY <1>0, <1>5, <2>3 DEF Writing, WriteBack
  <2> QED BY <2>2, <2>3
<1>6. Kinds
  BY StepKinds
<1> QED BY <1>1, <1>2, <1>3, <1>4, <1>5, <1>6 DEF Kinds

\* FirstReceiptStands: the date of receipt is never moved and never cleared,
\* unless two updates of the shipment overlapped (ShippingService.update).
THEOREM FirstReceiptsStand == Spec => FirstReceiptStands
<1> DEFINE Stands ==
      \A i \in ShippingIds \ overlapped' :
        Present(i) /\ Present(i)' /\ row[i].stamp # NoDate => row'[i].stamp = row[i].stamp
<1>1. Types /\ Types' /\ ReceiptInv /\ [Next]_vars => [Stands]_row
  BY DatesStay
<1>2. Spec => [][Stands]_row
  BY <1>1, AlwaysTypes, AlwaysReceipts, PTL DEF Spec
<1> QED BY <1>2 DEF FirstReceiptStands

----------------------------------------------------------------------------
(* Idempotency keys                                                        *)

\* An id not given out yet was authorized by nobody.
FreshIds == \A i \in PaymentIds : made[i] = "none" => authorized[i] = NoNumber

\* A payment keeps the key it was authorized under, unless the key raced.
KeyHeld == \A i \in PaymentIds : Present(i) /\ authorized[i] \in Keys \ raced => row[i].number = authorized[i]

\* While a call is between its lookup of a key and its INSERT, no other call is
\* and no payment was authorized under it, unless the key raced.
KeyPending ==
  \A k \in Keys \ raced : \A r \in Requests : IsAuthorizing(r, k) =>
    /\ \A s \in Requests : IsAuthorizing(s, k) => r = s
    /\ \A i \in PaymentIds : Present(i) => authorized[i] # k

KeyInv == FreshIds /\ KeyHeld /\ KeyPending /\ OnePaymentPerKey

\* The initial state satisfies it: nothing was authorized yet.
LEMMA InitKeys == Init => KeyInv
<1> SUFFICES ASSUME Init PROVE KeyInv
  OBVIOUS
<1>1. \A i \in PaymentIds : authorized[i] = NoNumber
  BY DEF Init, InitPayments
<1>2. \A r \in Requests : call[r].pc = "new"
  BY DEF Init, InitFeed, Idle
<1> QED BY <1>1, <1>2, IdsAssumption DEF KeyInv, FreshIds, KeyHeld, KeyPending, OnePaymentPerKey, IsAuthorizing

\* No call starts to authorize, no payment appears, and a payment that loses a
\* key races it.
Keeping ==
  /\ \A s \in Requests : call'[s] = call[s] \/ call'[s].pc # "authorize"
  /\ \A i \in PaymentIds : Present(i)' =>
       /\ Present(i)
       /\ \A k \in Keys : row[i].number = k => row'[i].number = k \/ k \in raced'
  /\ \A i \in PaymentIds : made'[i] = made[i]
  /\ raced \subseteq raced'
  /\ authorized' = authorized

\* Such a step keeps the invariant.
LEMMA KeepingKeys ==
  ASSUME Types, Types', KeyInv, Keeping
  PROVE  KeyInv'
<1>1. \A s \in Requests, k \in Keys : IsAuthorizing(s, k)' => IsAuthorizing(s, k)
  BY DEF Keeping, IsAuthorizing
<1>2. FreshIds'
  BY DEF KeyInv, FreshIds, Keeping
<1>3. KeyHeld'
  BY DEF KeyInv, KeyHeld, Keeping
<1>4. KeyPending'
  BY <1>1 DEF KeyInv, KeyPending, Keeping
<1>5. OnePaymentPerKey'
  BY DEF KeyInv, OnePaymentPerKey, Keeping
<1> QED BY <1>2, <1>3, <1>4, <1>5 DEF KeyInv

\* A payment made by create or refund was authorized under no key.
LEMMA InsertedKeys ==
  ASSUME Types, Types', KeyInv, NEW r \in Requests, NEW i \in PaymentIds, InsertPayment(r, i)
  PROVE  KeyInv'
<1>1. authorized[i] = NoNumber /\ NoNumber \notin Keys
  BY IdsAssumption DEF InsertPayment, IsNextId, KeyInv, FreshIds
<1>2. \A j \in PaymentIds \ {i} : row'[j] = row[j] /\ made'[j] = made[j] /\ (Present(j)' <=> Present(j))
  BY DEF InsertPayment, InsertRow, Types, TypeOK, Present, Ids
<1>3. UNCHANGED <<authorized, raced>>
  BY DEF InsertPayment, ledger
<1>4. \A s \in Requests, k \in Keys : IsAuthorizing(s, k)' => IsAuthorizing(s, k)
  BY CallMoves DEF InsertPayment, InsertRow, End, IsAuthorizing, Types, TypeOK
<1>5. FreshIds'
  BY <1>1, <1>2, <1>3 DEF KeyInv, FreshIds
<1>6. KeyHeld'
  BY <1>1, <1>2, <1>3 DEF KeyInv, KeyHeld
<1>7. KeyPending'
  BY <1>1, <1>2, <1>3, <1>4 DEF KeyInv, KeyPending
<1>8. OnePaymentPerKey'
  BY <1>1, <1>2, <1>3 DEF KeyInv, OnePaymentPerKey
<1> QED BY <1>5, <1>6, <1>7, <1>8 DEF KeyInv

\* authorize finds no payment with the key: then none was authorized under it,
\* or the key raced.
LEMMA AuthorizeKeys ==
  ASSUME Types, Types', KeyInv, NEW r \in Requests, NEW key \in Keys \cup {NoNumber}, Authorize(r, key)
  PROVE  KeyInv'
<1>1. /\ UNCHANGED <<row, made, authorized>> /\ raced \subseteq raced'
      /\ \A i \in PaymentIds : Present(i)' <=> Present(i)
  BY DEF Authorize, Present
<1>2. /\ \A s \in Requests \ {r} : call'[s] = call[s]
      /\ call'[r].entity.number = IF key = NoNumber THEN Fresh ELSE key
  BY CallMoves DEF Authorize, Types, TypeOK
<1>3. Fresh \notin Keys /\ NoNumber \notin Keys
  BY IdsAssumption
<1>4. FreshIds' /\ KeyHeld' /\ OnePaymentPerKey'
  BY <1>1 DEF KeyInv, FreshIds, KeyHeld, OnePaymentPerKey
<1>5. ASSUME NEW k \in Keys \ raced', NEW s \in Requests, IsAuthorizing(s, k)'
      PROVE  /\ \A t \in Requests : IsAuthorizing(t, k)' => s = t
             /\ \A i \in PaymentIds : Present(i)' => authorized'[i] # k
  <2>1. k \notin raced
    BY <1>1
  <2>2. \A t \in Requests \ {r} : IsAuthorizing(t, k)' <=> IsAuthorizing(t, k)
    BY <1>2 DEF IsAuthorizing
  <2>3. CASE k = key
    <3>1. \A t \in Requests : ~IsAuthorizing(t, k)
      BY <2>1, <2>3 DEF Authorize
    <3>2. \A i \in PaymentIds : Present(i) => row[i].number # k
      BY <1>3, <2>3 DEF Authorize, Found, Numbered
    <3>3. \A i \in PaymentIds : Present(i) => authorized[i] # k
      BY <2>1, <3>2 DEF KeyInv, KeyHeld
    <3> QED BY <1>1, <1>5, <2>2, <3>1, <3>3
  <2>4. CASE k # key
    <3>1. ~IsAuthorizing(r, k)'
      BY <1>2, <1>3, <2>4 DEF IsAuthorizing
    <3> QED BY <1>1, <1>5, <2>1, <2>2, <3>1 DEF KeyInv, KeyPending
  <2> QED BY <2>3, <2>4
<1>6. KeyPending'
  BY <1>5 DEF KeyPending
<1> QED BY <1>4, <1>6 DEF KeyInv

\* The payment that authorize inserts is the only one of its key, or the key
\* raced.
LEMMA AuthorizedKeys ==
  ASSUME Types, Types', KeyInv, NEW r \in Requests, NEW i \in PaymentIds, InsertAuthorized(r, i)
  PROVE  KeyInv'
<1>1. PICK n : n = call[r].entity.number
  OBVIOUS
<1>2. \A j \in PaymentIds \ {i} :
        row'[j] = row[j] /\ made'[j] = made[j] /\ authorized'[j] = authorized[j] /\ (Present(j)' <=> Present(j))
  BY DEF InsertAuthorized, InsertRow, Types, TypeOK, TypeOKPayments, Present, Ids
<1>3. /\ row'[i].number = IF n = Fresh THEN i ELSE n
      /\ authorized'[i] = IF n = Fresh THEN NoNumber ELSE n
  <2>1. authorized'[i] = IF n = Fresh THEN NoNumber ELSE n
    BY <1>1 DEF InsertAuthorized, Types, TypeOKPayments
  <2>2. row'[i] = Stored(r, i)
    BY DEF InsertAuthorized, InsertRow, Types, TypeOK, Ids
  <2> QED BY <1>1, <2>1, <2>2 DEF Stored
<1>4. raced' = raced /\ NoNumber \notin Keys /\ Fresh \notin Keys
  BY IdsAssumption DEF InsertAuthorized
<1>5. /\ \A s \in Requests, k \in Keys : IsAuthorizing(s, k)' => s # r /\ IsAuthorizing(s, k)
      /\ \A k \in Keys : k = n => IsAuthorizing(r, k)
  <2>1. call'[r].pc = "done" /\ \A s \in Requests \ {r} : call'[s] = call[s]
    BY CallMoves DEF InsertAuthorized, InsertRow, End, Types, TypeOK
  <2> QED BY <1>1, <2>1 DEF IsAuthorizing, InsertAuthorized
<1>6. FreshIds'
  <2>1. call[r] \in InsertCall
    BY CallShape DEF InsertAuthorized, Inserting, Types, TypeOK
  <2>2. made'[i] # "none"
    BY <2>1, StatusesAssumption DEF InsertAuthorized, InsertRow, Types, TypeOK, Ids, InsertCall, Draft
  <2> QED BY <1>2, <2>2 DEF KeyInv, FreshIds
<1>7. KeyHeld'
  BY <1>2, <1>3, <1>4 DEF KeyInv, KeyHeld
<1>8. KeyPending'
  <2> SUFFICES ASSUME NEW k \in Keys \ raced, NEW s \in Requests, IsAuthorizing(s, k)'
               PROVE  /\ \A t \in Requests : IsAuthorizing(t, k)' => s = t
                      /\ \A j \in PaymentIds : Present(j)' => authorized'[j] # k
    BY <1>4 DEF KeyPending
  <2>1. k # n
    BY <1>5 DEF KeyInv, KeyPending
  <2>2. authorized'[i] # k
    BY <1>3, <1>4, <2>1
  <2> QED BY <1>2, <1>5, <2>2 DEF KeyInv, KeyPending
<1>9. OnePaymentPerKey'
  <2>1. ASSUME n \in Keys \ raced
        PROVE  \A j \in PaymentIds \ {i} : Present(j) => authorized[j] # n
    BY <1>5, <2>1 DEF KeyInv, KeyPending
  <2>2. authorized'[i] = NoNumber \/ authorized'[i] \in raced \/ n \in Keys \ raced
    BY <1>3 DEF Types, TypeOKPayments
  <2> QED BY <1>2, <1>3, <1>4, <2>1, <2>2 DEF KeyInv, OnePaymentPerKey
<1> QED BY <1>6, <1>7, <1>8, <1>9 DEF KeyInv

\* A key that an UPDATE takes off a payment races.
LEMMA UpdateKeeps ==
  ASSUME Types, NEW r \in Requests, Update(r)
  PROVE  Keeping
<1>0. call \in [Requests -> Call] /\ PaymentIds \subseteq Ids
  BY DEF Types, TypeOK, Ids
<1>1. /\ call'[r].pc # "authorize" /\ \A s \in Requests \ {r} : call'[s] = call[s]
  BY <1>0, CallMoves DEF Update, SaveUpdate, SaveUnanswered, End
<1>2. raced' = raced \cup TakesOff(r) /\ UNCHANGED <<made, authorized>>
  BY DEF Update, SaveUpdate, SaveUnanswered
<1>6. WriteBack(r)
  BY DEF Update, SaveUpdate, SaveUnanswered
<1>3. \A i \in Ids : i # call[r].id => row'[i] = row[i]
  BY <1>6 DEF WriteBack
<1>4. ASSUME NEW i \in PaymentIds, i = call[r].id, Present(i), NEW k \in Keys, row[i].number = k
      PROVE  row'[i].number = k \/ k \in raced'
  <2>1. row'[i].number = New(r, "number")
    <3>1. row'[i] = UpdatedRow(r)
      BY <1>0, <1>4, <1>6 DEF WriteBack, Types, TypeOK
    <3> QED BY <3>1 DEF UpdatedRow
  <2> QED BY <1>2, <1>4, <2>1 DEF TakesOff
<1>5. \A i \in PaymentIds : Present(i)' => Present(i)
  BY <1>0, <1>3, <1>6 DEF WriteBack, Present
<1> QED BY <1>0, <1>1, <1>2, <1>3, <1>4, <1>5 DEF Keeping

\* The steps of calls that neither insert nor authorize nor update.
LEMMA CallsKeep ==
  ASSUME Types, NEW r \in Requests,
         \/ CreatePayment(r) \/ NotFound(r)
         \/ \E i \in PaymentIds : PatchPayment(r, i) \/ RemovePayment(r, i) \/ Capture(r, i) \/ Refund(r, i)
         \/ \E key \in Keys \cup {NoNumber} : AuthorizeAgain(r, key)
         \/ ShippingCall(r) /\ UNCHANGED ledger
         \/ /\ \/ RefuseInsert(r) \/ DeleteRow(r) \/ SaveDiff(r) \/ SaveRemoved(r) \/ Announce(r)
               \/ StatementFails(r)
            /\ UNCHANGED <<ledger, invoiced>>
  PROVE  Keeping
<1>0. call \in [Requests -> Call] /\ PaymentIds \subseteq Ids /\ PaymentIds \cap ShippingIds = {}
  BY IdsAssumption DEF Types, TypeOK, Ids
<1> USE DEF ledger
<1> DEFINE Moved == call'[r].pc # "authorize" /\ \A s \in Requests \ {r} : call'[s] = call[s]
<1>1. CASE CreatePayment(r) \/ NotFound(r)
  <2>1. Moved
    BY <1>0, <1>1, CallMoves DEF CreatePayment, NotFound, End
  <2> QED BY <1>1, <2>1 DEF Keeping, CreatePayment, NotFound, Present
<1>2. ASSUME NEW i \in PaymentIds, PatchPayment(r, i) \/ Capture(r, i) PROVE Keeping
  <2>1. Moved
    BY <1>0, <1>2 DEF PatchPayment, Capture, ReadForSave
  <2> QED BY <1>2, <2>1 DEF Keeping, PatchPayment, Capture, ReadForSave, Present
<1>3. ASSUME NEW i \in PaymentIds, RemovePayment(r, i) \/ Refund(r, i) PROVE Keeping
  <2>1. Moved
    BY <1>0, <1>3 DEF RemovePayment, Refund
  <2> QED BY <1>3, <2>1 DEF Keeping, RemovePayment, Refund, Present
<1>4. ASSUME NEW key, AuthorizeAgain(r, key) PROVE Keeping
  <2>1. Moved
    BY <1>0, <1>4 DEF AuthorizeAgain, End
  <2> QED BY <1>4, <2>1 DEF Keeping, AuthorizeAgain, Present
<1>5. CASE CreateShipping(r) /\ UNCHANGED ledger
  <2>1. Moved
    BY <1>0, <1>5 DEF CreateShipping
  <2> QED BY <1>5, <2>1 DEF Keeping, CreateShipping, Present
<1>6. ASSUME NEW i \in ShippingIds, InsertShipping(r, i), UNCHANGED ledger PROVE Keeping
  <2>1. Moved
    BY <1>0, <1>6 DEF InsertShipping, InsertRow, End
  <2>2. \A j \in PaymentIds : row'[j] = row[j] /\ made'[j] = made[j]
    BY <1>0, <1>6 DEF InsertShipping, InsertRow, Types, TypeOK
  <2> QED BY <1>6, <2>1, <2>2 DEF Keeping, Present
<1>7. ASSUME NEW i \in ShippingIds, PatchShipping(r, i) \/ RemoveShipping(r, i), UNCHANGED ledger PROVE Keeping
  <2>1. Moved
    BY <1>0, <1>7 DEF PatchShipping, RemoveShipping, ReadForSave
  <2> QED BY <1>7, <2>1 DEF Keeping, PatchShipping, RemoveShipping, ReadForSave, Present
<1>8. CASE (RefuseInsert(r) \/ SaveDiff(r) \/ SaveRemoved(r) \/ Announce(r) \/ StatementFails(r)) /\ UNCHANGED ledger
  <2>1. Moved
    BY <1>0, <1>8 DEF RefuseInsert, SaveDiff, SaveRemoved, Announce, StatementFails, End
  <2> QED BY <1>8, <2>1 DEF Keeping, RefuseInsert, SaveDiff, SaveRemoved, Announce, StatementFails, Present
<1>9. CASE DeleteRow(r) /\ UNCHANGED ledger
  <2>1. Moved
    BY <1>0, <1>9 DEF DeleteRow, End
  <2>2. \A j \in Ids : row'[j] = row[j] \/ row'[j] = NoRow
    BY <1>9 DEF DeleteRow, Types, TypeOK
  <2> QED BY <1>0, <1>9, <2>1, <2>2 DEF Keeping, DeleteRow, Present
<1> QED BY <1>1, <1>2, <1>3, <1>4, <1>5, <1>6, <1>7, <1>8, <1>9 DEF ShippingCall

\* The broker, the processes, and the removal of an order.
LEMMA OthersKeep ==
  ASSUME Types, \/ \E p \in Processes : (Deliver(p) \/ Disconnect(p) \/ Crash(p)) /\ UNCHANGED <<ledger, invoiced>>
                \/ \E o \in Orders : RemoveOrder(o)
  PROVE  Keeping
<1>1. ASSUME NEW p \in Processes, Deliver(p) \/ Disconnect(p) \/ Crash(p), UNCHANGED ledger PROVE Keeping
  <2>1. \A s \in Requests : call'[s] = call[s] \/ call'[s].pc # "authorize"
    BY <1>1 DEF Deliver, Disconnect, Crash
  <2> QED BY <1>1, <2>1 DEF Keeping, Deliver, Disconnect, Crash, ledger, Present
<1>2. ASSUME NEW o \in Orders, RemoveOrder(o) PROVE Keeping
  <2>1. \A j \in Ids : row'[j] = row[j] \/ row'[j] = NoRow
    BY <1>2 DEF RemoveOrder, Cascade
  <2> QED BY <1>2, <2>1 DEF Keeping, RemoveOrder, Present, ledger, Ids
<1> QED BY <1>1, <1>2

\* Every step keeps it.
LEMMA NextKeys == Types /\ Types' /\ KeyInv /\ [Next]_vars => KeyInv'
<1> SUFFICES ASSUME Types, Types', KeyInv, [Next]_vars PROVE KeyInv'
  OBVIOUS
<1>1. CASE UNCHANGED vars
  <2>1. Keeping
    BY <1>1 DEF vars, ledger, Keeping, Present
  <2> QED BY <2>1, KeepingKeys
<1>2. ASSUME NEW r \in Requests, PaymentCall(r) PROVE KeyInv'
  <2>1. ASSUME NEW i \in PaymentIds, InsertPayment(r, i) PROVE KeyInv'
    BY <2>1, InsertedKeys
  <2>2. ASSUME NEW i \in PaymentIds, InsertAuthorized(r, i) PROVE KeyInv'
    BY <2>2, AuthorizedKeys
  <2>3. ASSUME NEW key \in Keys \cup {NoNumber}, Authorize(r, key) PROVE KeyInv'
    BY <2>3, AuthorizeKeys
  <2> QED BY <1>2, <2>1, <2>2, <2>3, CallsKeep, KeepingKeys DEF PaymentCall, RestCall, GrpcCall
<1>3. ASSUME NEW r \in Requests, Update(r) PROVE KeyInv'
  BY <1>3, UpdateKeeps, KeepingKeys
<1> QED BY <1>1, <1>2, <1>3, CallsKeep, OthersKeep, KeepingKeys DEF Next

\* OnePaymentPerKey: Authorize leaves one payment under an idempotency key,
\* unless two calls under it overlapped or a PATCH took the key off the first
\* payment (PaymentsGrpcService.authorize).
THEOREM KeysAreUnique == Spec => []OnePaymentPerKey
<1>1. KeyInv => OnePaymentPerKey
  BY DEF KeyInv
<1>2. Spec => []KeyInv
  BY InitKeys, NextKeys, AlwaysTypes, PTL DEF Spec
<1> QED BY <1>1, <1>2, PTL

----------------------------------------------------------------------------
(* The feed                                                                *)

\* What is written on a wire.
On(w) == {w[n].id : n \in 1..Len(w)}

\* The last event about i on a wire says s.
LastOn(w, i, s) ==
  \E n \in 1..Len(w) : w[n].id = i /\ w[n].status = s /\ \A m \in 1..Len(w) : m > n => w[m].id # i

\* An event written to a wire is the last one of its row, and the others stay
\* what they are.
LEMMA AppendOn ==
  ASSUME NEW S, NEW w \in Seq(S), NEW e \in S
  PROVE  /\ On(Append(w, e)) = On(w) \cup {e.id}
         /\ LastOn(Append(w, e), e.id, e.status)
         /\ \A i, s : i # e.id /\ LastOn(w, i, s) => LastOn(Append(w, e), i, s)
<1> DEFINE v == Append(w, e)
<1>1. Len(v) = Len(w) + 1 /\ Len(w) \in Nat /\ v[Len(w) + 1] = e /\ \A n \in 1..Len(w) : v[n] = w[n]
  OBVIOUS
<1> HIDE DEF v
<1>2. On(v) = On(w) \cup {e.id}
  <2>1. ASSUME NEW x \in On(v) PROVE x \in On(w) \cup {e.id}
    <3>1. PICK n \in 1..Len(v) : x = v[n].id
      BY DEF On
    <3>2. n \in 1..Len(w) \/ n = Len(w) + 1
      BY <1>1
    <3> QED BY <1>1, <3>1, <3>2 DEF On
  <2>2. ASSUME NEW x \in On(w) PROVE x \in On(v)
    <3>1. PICK n \in 1..Len(w) : x = w[n].id
      BY DEF On
    <3>2. n \in 1..Len(v) /\ v[n].id = x
      BY <1>1, <3>1
    <3> QED BY <3>2 DEF On
  <2>3. e.id \in On(v)
    <3>1. Len(w) + 1 \in 1..Len(v)
      BY <1>1
    <3> QED BY <1>1, <3>1 DEF On
  <2> QED BY <2>1, <2>2, <2>3
<1>3. LastOn(v, e.id, e.status)
  <2>1. Len(w) + 1 \in 1..Len(v) /\ \A m \in 1..Len(v) : ~(m > Len(w) + 1)
    BY <1>1
  <2> QED BY <1>1, <2>1 DEF LastOn
<1>4. ASSUME NEW i, NEW s, i # e.id, LastOn(w, i, s) PROVE LastOn(v, i, s)
  <2>1. PICK n \in 1..Len(w) : w[n].id = i /\ w[n].status = s /\ \A m \in 1..Len(w) : m > n => w[m].id # i
    BY <1>4 DEF LastOn
  <2>2. n \in 1..Len(v) /\ v[n].id = i /\ v[n].status = s
    BY <1>1, <2>1
  <2>3. ASSUME NEW m \in 1..Len(v), m > n PROVE v[m].id # i
    <3>1. m \in 1..Len(w) \/ m = Len(w) + 1
      BY <1>1
    <3> QED BY <1>1, <1>4, <2>1, <2>3, <3>1
  <2> QED BY <2>2, <2>3 DEF LastOn
<1> QED BY <1>2, <1>3, <1>4 DEF v

\* When the first event is read, the last one of a row stays, and if none of
\* the row stays it was the first.
LEMMA TailOn ==
  ASSUME NEW S, NEW w \in Seq(S), w # <<>>
  PROVE  /\ On(w) = {Head(w).id} \cup On(Tail(w))
         /\ \A i, s : i \in On(Tail(w)) /\ LastOn(w, i, s) => LastOn(Tail(w), i, s)
         /\ \A i, s : i \notin On(Tail(w)) /\ LastOn(w, i, s) => Head(w).id = i /\ Head(w).status = s
<1> DEFINE v == Tail(w)
<1>1. /\ Len(w) \in Nat \ {0} /\ Len(v) = Len(w) - 1 /\ Head(w) = w[1]
      /\ \A n \in 1..Len(v) : v[n] = w[n + 1]
  OBVIOUS
<1> HIDE DEF v
<1>2. \A n \in 2..Len(w) : n - 1 \in 1..Len(v) /\ v[n - 1] = w[n]
  <2> TAKE n \in 2..Len(w)
  <2>1. n - 1 \in 1..Len(v) /\ (n - 1) + 1 = n
    BY <1>1
  <2>2. v[n - 1] = w[(n - 1) + 1]
    BY <1>1, <2>1
  <2> QED BY <2>1, <2>2
<1>3. \A n \in 1..Len(v) : n + 1 \in 2..Len(w) /\ v[n] = w[n + 1]
  BY <1>1
<1>4. 1 \in 1..Len(w) /\ \A n \in 1..Len(w) : n = 1 \/ n \in 2..Len(w)
  BY <1>1
<1>5. \A n \in 2..Len(w) : n \in 1..Len(w)
  BY <1>1
<1>6. On(w) = {w[1].id} \cup On(v)
  <2>1. ASSUME NEW x \in On(w) PROVE x \in {w[1].id} \cup On(v)
    <3>1. PICK n \in 1..Len(w) : x = w[n].id
      BY DEF On
    <3> QED BY <1>2, <1>4, <3>1 DEF On
  <2>2. ASSUME NEW x \in On(v) PROVE x \in On(w)
    <3>1. PICK n \in 1..Len(v) : x = v[n].id
      BY DEF On
    <3>2. n + 1 \in 1..Len(w) /\ x = w[n + 1].id
      BY <1>3, <1>5, <3>1
    <3> QED BY <3>2 DEF On
  <2>3. w[1].id \in On(w)
    BY <1>4 DEF On
  <2> QED BY <2>1, <2>2, <2>3
<1>7. ASSUME NEW i, NEW s, LastOn(w, i, s)
      PROVE  /\ i \in On(v) => LastOn(v, i, s)
             /\ i \notin On(v) => w[1].id = i /\ w[1].status = s
  <2>1. PICK n \in 1..Len(w) : w[n].id = i /\ w[n].status = s /\ \A m \in 1..Len(w) : m > n => w[m].id # i
    BY <1>7 DEF LastOn
  <2>2. CASE n = 1
    <3>1. \A m \in 1..Len(v) : v[m].id # i
      <4> TAKE m \in 1..Len(v)
      <4>1. m + 1 \in 1..Len(w) /\ m + 1 > 1 /\ v[m] = w[m + 1]
        BY <1>1, <1>3, <1>5
      <4> QED BY <2>1, <2>2, <4>1
    <3> QED BY <2>1, <2>2, <3>1 DEF On
  <2>3. CASE n \in 2..Len(w)
    <3>1. n - 1 \in 1..Len(v) /\ v[n - 1].id = i /\ v[n - 1].status = s
      BY <1>2, <2>1, <2>3
    <3>2. ASSUME NEW m \in 1..Len(v), m > n - 1 PROVE v[m].id # i
      <4>1. m + 1 \in 1..Len(w) /\ m + 1 > n /\ v[m] = w[m + 1]
        BY <1>1, <1>3, <1>5, <2>3, <3>2
      <4> QED BY <2>1, <4>1
    <3>3. LastOn(v, i, s)
      BY <3>1, <3>2 DEF LastOn
    <3>4. i \in On(v)
      BY <3>1 DEF On
    <3> QED BY <3>3, <3>4
  <2> QED BY <1>4, <2>2, <2>3
<1> QED BY <1>1, <1>6, <1>7 DEF v

\* Rows whose announcements are neither overlapped, left out nor lost.
Clean == Ids \ (overlapped \cup silent \cup lost)

\* Of an id not given out yet nothing was announced.
UnknownNews == \A i \in Ids : made[i] = "none" => latest[i] = "none" /\ \A p \in Processes : i \notin On(wire[p])

\* Announcements of a clean row are on the wire of one process, and of the
\* process of the call that saves it, if there is one.
OneWire == \A i \in Clean : \A p, q \in Processes : i \in On(wire[p]) /\ i \in On(wire[q]) => p = q
WireOfSaver ==
  \A i \in Clean : \A r \in Requests : Saves(r, i) => \A p \in Processes \ {HostOf[r]} : i \notin On(wire[p])

\* Unless a call is about to announce it, the last announcement of a clean row
\* is its status.
Announcing(i) == \E r \in Requests : Saves(r, i) /\ call[r].pc = "announce"
Told(i) ==
  /\ \A p \in Processes : i \in On(wire[p]) => LastOn(wire[p], i, row[i].status)
  /\ (\A p \in Processes : i \notin On(wire[p])) =>
       row[i].status = IF latest[i] = "none" THEN made[i] ELSE latest[i]
AllTold == \A i \in Clean : Present(i) /\ ~Announcing(i) => Told(i)

\* What a call has read of a clean row: it changes the status only if it will
\* announce it.
Newsworthy(r, i) ==
  /\ ~call[r].news => call[r].entity.status = row[i].status
  /\ call[r].pc = "update" => "status" \in call[r].cols \/ call[r].entity.status = row[i].status
  /\ call[r].pc = "announce" => call[r].entity.status = row[i].status
EntityNews == \A i \in Clean : \A r \in Requests : Saves(r, i) /\ Present(i) => Newsworthy(r, i)

FeedInv == UnknownNews /\ OneWire /\ WireOfSaver /\ AllTold /\ EntityNews

\* The initial state satisfies it: nothing was announced and nothing is read.
LEMMA InitFeedInv == Init => FeedInv
<1> SUFFICES ASSUME Init PROVE FeedInv
  OBVIOUS
<1>1. \A r \in Requests : call[r].pc \notin Saving
  BY DEF Init, InitFeed, Idle, Saving
<1>2. \A p \in Processes : On(wire[p]) = {}
  BY DEF Init, InitFeed, On
<1>3. \A i \in Ids : latest[i] = "none" /\ (Present(i) => row[i].status = made[i])
  BY ExistingAssumption DEF Init, InitFeed, Present, Row
<1> QED BY <1>1, <1>2, <1>3
        DEF FeedInv, UnknownNews, OneWire, WireOfSaver, AllTold, Told, EntityNews, Saves, Clean

\* No announcing call ends, and nothing is written or read.
Hushed ==
  /\ \A r \in Requests : call[r].pc = "announce" => call'[r] = call[r]
  /\ UNCHANGED <<wire, latest>>
  /\ silent \subseteq silent' /\ lost \subseteq lost'

\* Such a step keeps what was announced; what remains are the row and the saves.
LEMMA HushedFeed ==
  ASSUME Types, Types', ReceiptInv, FeedInv, Hushed, overlapped \subseteq overlapped',
         \A i \in Ids : made'[i] = "none" => made[i] = "none"
  PROVE  /\ Clean' \subseteq Clean /\ UnknownNews' /\ OneWire'
         /\ \A i \in Ids : Announcing(i) => Announcing(i)'
<1>1. Clean' \subseteq Clean
  BY DEF Clean, Hushed
<1>2. UnknownNews' /\ OneWire'
  BY <1>1 DEF FeedInv, UnknownNews, OneWire, Hushed
<1>3. \A i \in Ids : Announcing(i) => Announcing(i)'
  BY DEF Announcing, Hushed, Saves
<1> QED BY <1>1, <1>2, <1>3

\* Removing rows and ending other saves.
LEMMA RemovingFeed ==
  ASSUME Types, Types', ReceiptInv, FeedInv, Hushed, Removing
  PROVE  FeedInv'
<1>1. Clean' \subseteq Clean /\ UnknownNews' /\ OneWire' /\ \A i \in Ids : Announcing(i) => Announcing(i)'
  BY HushedFeed DEF Removing
<1>2. \A r \in Requests, i \in Ids : Saves(r, i)' => Saves(r, i) /\ call'[r] = call[r]
  BY OldSaves DEF Removing
<1>3. \A i \in Ids : Present(i)' => Present(i) /\ row'[i] = row[i]
  BY DEF Removing, Present
<1>4. Clean \subseteq Ids /\ UNCHANGED <<made, wire, latest>>
  BY DEF Clean, Removing, Hushed
<1>5. WireOfSaver'
  BY <1>1, <1>2, <1>4 DEF FeedInv, WireOfSaver
<1>6. AllTold'
  BY <1>1, <1>3, <1>4 DEF FeedInv, AllTold, Told
<1>7. EntityNews'
  BY <1>1, <1>2, <1>3, <1>4 DEF FeedInv, EntityNews, Newsworthy
<1> QED BY <1>1, <1>5, <1>6, <1>7 DEF FeedInv

\* A new row, of which nothing was announced.
LEMMA AddingFeed ==
  ASSUME Types, Types', ReceiptInv, FeedInv, Hushed, NEW i \in Ids, Adding(i)
  PROVE  FeedInv'
<1>0. made'[i] # "none" /\ made'[i] = row'[i].status
  BY StatusesAssumption DEF Adding, Row
<1>1. Clean' \subseteq Clean /\ UnknownNews' /\ OneWire' /\ \A j \in Ids : Announcing(j) => Announcing(j)'
  BY <1>0, HushedFeed DEF Adding
<1>2. \A r \in Requests, j \in Ids : Saves(r, j)' => Saves(r, j) /\ call'[r] = call[r] /\ j # i
  BY OldSaves DEF Adding, ReceiptInv, UnknownIds
<1>3. \A j \in Ids \ {i} : row'[j] = row[j] /\ made'[j] = made[j] /\ (Present(j)' <=> Present(j))
  BY DEF Adding, Present
<1>4. Clean \subseteq Ids /\ UNCHANGED <<wire, latest>>
  BY DEF Clean, Hushed
<1>5. WireOfSaver'
  BY <1>1, <1>2, <1>4 DEF FeedInv, WireOfSaver
<1>6. AllTold'
  <2> SUFFICES ASSUME NEW j \in Clean', Present(j)', ~Announcing(j)' PROVE Told(j)'
    BY DEF AllTold
  <2>1. CASE j = i
    <3>1. latest[i] = "none" /\ \A p \in Processes : i \notin On(wire[p])
      BY DEF Adding, FeedInv, UnknownNews
    <3> QED BY <1>0, <1>4, <2>1, <3>1 DEF Told
  <2>2. CASE j # i
    BY <1>1, <1>3, <1>4, <2>2 DEF FeedInv, AllTold, Told
  <2> QED BY <2>1, <2>2
<1>7. EntityNews'
  BY <1>1, <1>2, <1>3, <1>4 DEF FeedInv, EntityNews, Newsworthy
<1> QED BY <1>1, <1>5, <1>6, <1>7 DEF FeedInv

\* A call that reads a clean row reads its last announced status.
LEMMA ReadingFeed ==
  ASSUME Types, Types', ReceiptInv, FeedInv, Hushed, NEW r \in Requests, NEW i \in Ids, Reading(r, i)
  PROVE  FeedInv'
<1>1. Clean' \subseteq Clean /\ UnknownNews' /\ OneWire' /\ \A j \in Ids : Announcing(j) => Announcing(j)'
  BY HushedFeed DEF Reading
<1>2. \A s \in Requests \ {r}, j \in Ids : (Saves(s, j)' <=> Saves(s, j)) /\ call'[s] = call[s]
  BY DEF Reading, Saves
<1>3. call'[r].pc = "save" /\ \A j \in Ids : Saves(r, j)' <=> j = i
  BY DEF Reading, Saves, Saving
<1>4. Clean \subseteq Ids /\ UNCHANGED <<row, made, wire, latest>> /\ \A j \in Ids : Present(j)' <=> Present(j)
  BY DEF Clean, Reading, Hushed, Present
<1>5. WireOfSaver'
  <2> SUFFICES ASSUME NEW j \in Clean', NEW s \in Requests, Saves(s, j)', NEW p \in Processes \ {HostOf[s]}
               PROVE  j \notin On(wire[p])
    BY <1>4 DEF WireOfSaver
  <2>1. CASE s # r
    BY <1>1, <1>2, <1>4, <2>1 DEF FeedInv, WireOfSaver
  <2>2. CASE s = r
    <3>1. j = i /\ ~Overlaps(r, i)
      BY <1>1, <1>3, <1>4, <2>2 DEF Clean, Reading
    <3> QED BY <2>2, <3>1 DEF Overlaps, On
  <2> QED BY <2>1, <2>2
<1>6. AllTold'
  BY <1>1, <1>4 DEF FeedInv, AllTold, Told
<1>7. EntityNews'
  <2> SUFFICES ASSUME NEW j \in Clean', NEW s \in Requests, Saves(s, j)', Present(j)' PROVE Newsworthy(s, j)'
    BY DEF EntityNews
  <2>1. CASE s # r
    BY <1>1, <1>2, <1>4, <2>1 DEF FeedInv, EntityNews, Newsworthy
  <2>2. CASE s = r
    <3>1. j = i /\ i \notin silent'
      BY <1>1, <1>3, <1>4, <2>2 DEF Clean
    <3>2. ~call'[r].news => call'[r].entity.status = row[i].status
      BY <3>1 DEF Reading
    <3> QED BY <1>3, <1>4, <2>2, <3>1, <3>2 DEF Newsworthy
  <2> QED BY <2>1, <2>2
<1> QED BY <1>1, <1>5, <1>6, <1>7 DEF FeedInv

\* A call that compares keeps what it will write.
LEMMA ComparingFeed ==
  ASSUME Types, Types', ReceiptInv, FeedInv, Hushed, NEW r \in Requests, Comparing(r)
  PROVE  FeedInv'
<1>1. Clean' \subseteq Clean /\ UnknownNews' /\ OneWire' /\ \A j \in Ids : Announcing(j) => Announcing(j)'
  BY HushedFeed DEF Comparing
<1>2. \A s \in Requests \ {r}, j \in Ids : (Saves(s, j)' <=> Saves(s, j)) /\ call'[s] = call[s]
  BY DEF Comparing, Saves
<1>3. /\ call'[r].pc = "update" /\ call'[r].entity = call[r].entity /\ call'[r].news = call[r].news
      /\ call'[r].cols = {c \in Columns : call[r].entity[c] # row[call[r].id][c]}
      /\ \A j \in Ids : Saves(r, j)' => Saves(r, j) /\ j = call[r].id
  BY DEF Comparing, Saves, Saving
<1>4. Clean \subseteq Ids /\ UNCHANGED <<row, made, wire, latest>> /\ \A j \in Ids : Present(j)' <=> Present(j)
  BY DEF Clean, Comparing, Hushed, Present
<1>5. WireOfSaver'
  BY <1>1, <1>2, <1>3, <1>4 DEF FeedInv, WireOfSaver
<1>6. AllTold'
  BY <1>1, <1>4 DEF FeedInv, AllTold, Told
<1>7. EntityNews'
  <2> SUFFICES ASSUME NEW j \in Clean', NEW s \in Requests, Saves(s, j)', Present(j)' PROVE Newsworthy(s, j)'
    BY DEF EntityNews
  <2>1. CASE s # r
    BY <1>1, <1>2, <1>4, <2>1 DEF FeedInv, EntityNews, Newsworthy
  <2>2. CASE s = r
    <3>1. Saves(r, j) /\ Present(j) /\ j = call[r].id /\ j \in Clean
      BY <1>1, <1>3, <1>4, <2>2
    <3>2. Newsworthy(r, j)
      BY <3>1 DEF FeedInv, EntityNews
    <3>3. "status" \in call'[r].cols \/ call[r].entity.status = row[j].status
      BY <1>3, <3>1 DEF Columns
    <3> QED BY <1>3, <1>4, <2>2, <3>2, <3>3 DEF Newsworthy
  <2> QED BY <2>1, <2>2
<1> QED BY <1>1, <1>5, <1>6, <1>7 DEF FeedInv

\* A call that writes a new status goes on to announce it.
LEMMA WritingFeed ==
  ASSUME Types, Types', ReceiptInv, FeedInv, Hushed, NEW r \in Requests, Writing(r)
  PROVE  FeedInv'
<1>0. UNCHANGED made
  BY DEF Writing, WriteBack
<1>1. Clean' \subseteq Clean /\ UnknownNews' /\ OneWire' /\ \A j \in Ids : Announcing(j) => Announcing(j)'
  BY <1>0, HushedFeed DEF Writing, WriteBack
<1>2. \A s \in Requests \ {r}, j \in Ids : (Saves(s, j)' <=> Saves(s, j)) /\ call'[s] = call[s]
  BY DEF Writing, Saves
<1>13. PICK i \in Ids : i = call[r].id
  BY CallShape DEF Writing, WriteBack, Types, TypeOK, Saving, SaveCall
<1>3. call[r].pc = "update" /\ Saves(r, i)
  BY <1>13 DEF Writing, Saving, Saves
<1>4. Clean \subseteq Ids /\ UNCHANGED <<wire, latest>>
  BY DEF Clean, Hushed
<1>5. \A j \in Ids \ {i} : row'[j] = row[j] /\ (Present(j)' <=> Present(j))
  BY <1>13 DEF Writing, WriteBack, Present
<1>6. Present(i)' => Present(i) /\ row'[i].status = New(r, "status")
  <2>1. CASE Present(i)
    <3>1. row'[i] = UpdatedRow(r)
      BY <1>13, <2>1 DEF Writing, WriteBack, Types, TypeOK
    <3> QED BY <1>13, <2>1, <3>1 DEF UpdatedRow
  <2>2. CASE ~Present(i)
    <3>1. row' = row
      BY <1>13, <2>2 DEF Writing, WriteBack
    <3> QED BY <2>2, <3>1 DEF Present
  <2> QED BY <2>1, <2>2
<1>7. \A j \in Ids : Saves(r, j)' => j = i
  BY <1>13 DEF Writing, Saves
<1>8. ASSUME i \in Clean, Present(i)'
      PROVE  row'[i].status = call[r].entity.status
  BY <1>3, <1>6, <1>8, <1>13 DEF FeedInv, EntityNews, Newsworthy, New
<1>9. \A s \in Requests \ {r} : i \in Clean => ~Saves(s, i)'
  BY <1>2, <1>3 DEF ReceiptInv, SaversApart, Clean
<1>10. WireOfSaver'
  BY <1>1, <1>2, <1>3, <1>4, <1>7 DEF FeedInv, WireOfSaver
<1>11. AllTold'
  <2> SUFFICES ASSUME NEW j \in Clean', Present(j)', ~Announcing(j)' PROVE Told(j)'
    BY DEF AllTold
  <2>1. j \in Clean /\ j \in Ids /\ ~Announcing(j)
    BY <1>1, <1>4
  <2>2. CASE j # i
    BY <1>0, <1>4, <1>5, <2>1, <2>2 DEF FeedInv, AllTold, Told
  <2>3. CASE j = i
    <3>1. ~call[r].news
      <4>1. CASE call[r].news
        <5>2. call[r].id \notin lost'
          BY <1>13, <2>3 DEF Clean
        <5>1. Saves(r, j)' /\ call'[r].pc = "announce"
          BY <1>13, <2>3, <4>1, <5>2 DEF Writing, Saves, Saving
        <5> QED BY <5>1 DEF Announcing
      <4> QED BY <4>1
    <3>2. Present(j)
      BY <1>6, <2>3
    <3>3. call[r].entity.status = row[j].status
      BY <1>3, <2>1, <2>3, <3>1, <3>2 DEF FeedInv, EntityNews, Newsworthy
    <3>4. row'[j].status = row[j].status
      BY <1>8, <2>1, <2>3, <3>3
    <3> QED BY <1>0, <1>4, <2>1, <3>2, <3>4 DEF FeedInv, AllTold, Told
  <2> QED BY <2>2, <2>3
<1>12. EntityNews'
  <2> SUFFICES ASSUME NEW j \in Clean', NEW s \in Requests, Saves(s, j)', Present(j)' PROVE Newsworthy(s, j)'
    BY DEF EntityNews
  <2>1. j \in Clean /\ j \in Ids
    BY <1>1, <1>4
  <2>2. CASE s # r
    <3>1. j # i
      BY <1>9, <2>1, <2>2
    <3> QED BY <1>2, <1>5, <2>1, <2>2, <3>1 DEF FeedInv, EntityNews, Newsworthy
  <2>3. CASE s = r
    <3>1. j = i
      BY <1>7, <2>1, <2>3
    <3>2. row'[j].status = call[r].entity.status
      BY <1>8, <2>1, <3>1
    <3>3. call'[r].pc = "announce" /\ call'[r].news = TRUE /\ call'[r].entity = call[r].entity
      BY <2>3 DEF Writing, Saves
    <3> QED BY <2>3, <3>2, <3>3 DEF Newsworthy
  <2> QED BY <2>2, <2>3
<1> QED BY <1>1, <1>10, <1>11, <1>12 DEF FeedInv

\* A wire is a sequence of events.
Events == [id : Ids, status : Statuses]
LEMMA Wires ==
  ASSUME Types
  PROVE  wire \in [Processes -> Seq(Events)]
  BY DEF Types, TypeOK, Events

\* A call announces the status of its row, or loses the announcement.
LEMMA AnnounceFeed ==
  ASSUME Types, Types', ReceiptInv, FeedInv, NEW r \in Requests, Announce(r)
  PROVE  FeedInv'
<1>1. PICK i \in Ids, p \in Processes, e \in Events :
        i = call[r].id /\ p = HostOf[r] /\ e = Event(r) /\ e.id = i /\ e.status = call[r].entity.status
  <2>1. call[r] \in SaveCall
    BY CallShape DEF Announce, Saving, Types, TypeOK
  <2>2. Event(r) \in Events /\ Event(r).id = call[r].id /\ Event(r).status = call[r].entity.status
    BY <2>1 DEF SaveCall, Row, Event, Events
  <2> QED BY <2>1, <2>2, HostsAssumption DEF SaveCall
<1>2. /\ Saves(r, i) /\ call[r].pc = "announce" /\ call'[r].pc = "done"
      /\ \A s \in Requests \ {r} : call'[s] = call[s]
  BY <1>1, CallMoves DEF Announce, End, Types, TypeOK, Saves, Saving
<1>3. UNCHANGED <<row, made, latest, overlapped, silent>> /\ \A j \in Ids : Present(j)' <=> Present(j)
  BY DEF Announce, Present
<1>4. \/ /\ wire' = wire /\ lost' = lost \cup {i}
      \/ /\ wire' = [wire EXCEPT ![p] = Append(@, e)] /\ lost' = lost
  BY <1>1 DEF Announce
<1>5. Clean' \subseteq Clean /\ Clean \subseteq Ids
  BY <1>3, <1>4 DEF Clean
<1>6. /\ \A q \in Processes \ {p} : wire'[q] = wire[q]
      /\ \/ wire' = wire /\ i \notin Clean'
         \/ /\ On(wire'[p]) = On(wire[p]) \cup {i}
            /\ LastOn(wire'[p], i, call[r].entity.status)
            /\ \A j \in Ids \ {i}, s \in Statuses : LastOn(wire[p], j, s) => LastOn(wire'[p], j, s)
  <2>1. CASE wire' = wire /\ lost' = lost \cup {i}
    BY <2>1 DEF Clean
  <2>2. CASE wire' = [wire EXCEPT ![p] = Append(@, e)] /\ lost' = lost
    <3>1. wire'[p] = Append(wire[p], e) /\ \A q \in Processes \ {p} : wire'[q] = wire[q]
      BY <2>2, Wires
    <3>2. wire[p] \in Seq(Events)
      BY Wires
    <3>3. /\ On(Append(wire[p], e)) = On(wire[p]) \cup {e.id}
          /\ LastOn(Append(wire[p], e), e.id, e.status)
          /\ \A j, s : j # e.id /\ LastOn(wire[p], j, s) => LastOn(Append(wire[p], e), j, s)
      BY <3>2, AppendOn
    <3> QED BY <1>1, <3>1, <3>3
  <2> QED BY <1>4, <2>1, <2>2
<1>7. \A j \in Ids \ {i}, q \in Processes : j \in On(wire'[q]) <=> j \in On(wire[q])
  BY <1>6
<1>8. \A s \in Requests, j \in Ids : Saves(s, j)' => s # r /\ Saves(s, j) /\ call'[s] = call[s]
  BY <1>2 DEF Saves, Saving
<1>9. i \in Clean => \A s \in Requests : ~Saves(s, i)'
  BY <1>2, <1>8 DEF ReceiptInv, SaversApart, Clean
<1>10. i \in Clean => \A q \in Processes \ {p} : i \notin On(wire[q])
  BY <1>1, <1>2 DEF FeedInv, WireOfSaver
<1>11. UnknownNews'
  <2>1. made[i] # "none"
    BY <1>2 DEF ReceiptInv, UnknownIds
  <2> QED BY <1>3, <1>7, <2>1 DEF FeedInv, UnknownNews
<1>12. OneWire'
  BY <1>5, <1>6, <1>7, <1>10 DEF FeedInv, OneWire
<1>13. WireOfSaver'
  BY <1>5, <1>7, <1>8, <1>9 DEF FeedInv, WireOfSaver
<1>14. AllTold'
  <2> SUFFICES ASSUME NEW j \in Clean', Present(j)', ~Announcing(j)' PROVE Told(j)'
    BY DEF AllTold
  <2>1. j \in Clean /\ j \in Ids /\ Present(j)
    BY <1>3, <1>5
  <2>2. CASE j = i
    <3>1. row[i].status = call[r].entity.status
      BY <1>2, <2>1, <2>2 DEF FeedInv, EntityNews, Newsworthy
    <3>2. /\ i \in On(wire'[p]) /\ LastOn(wire'[p], i, row[i].status)
          /\ \A q \in Processes \ {p} : i \notin On(wire'[q])
      BY <1>6, <1>10, <2>1, <2>2, <3>1
    <3> QED BY <1>3, <2>2, <3>2 DEF Told
  <2>3. CASE j # i
    <3>1. ~Announcing(j)
      BY <1>2, <2>3 DEF Announcing, Saves
    <3>2. Told(j) /\ row[j].status \in Statuses
      BY <2>1, <3>1, EntityTypes DEF FeedInv, AllTold, Row
    <3>3. \A q \in Processes : LastOn(wire[q], j, row[j].status) => LastOn(wire'[q], j, row[j].status)
      BY <1>6, <2>1, <2>3, <3>2
    <3> QED BY <1>3, <1>7, <2>1, <2>3, <3>2, <3>3 DEF Told
  <2> QED BY <2>2, <2>3
<1>15. EntityNews'
  BY <1>3, <1>5, <1>8 DEF FeedInv, EntityNews, Newsworthy
<1> QED BY <1>11, <1>12, <1>13, <1>14, <1>15 DEF FeedInv

\* The broker reads the oldest announcement of a process.
LEMMA DeliverFeed ==
  ASSUME Types, Types', ReceiptInv, FeedInv, NEW p \in Processes, Deliver(p)
  PROVE  FeedInv'
<1>1. PICK e \in Events : e = Head(wire[p])
  BY Wires, SeqParts DEF Deliver
<1>2. /\ wire'[p] = Tail(wire[p]) /\ \A q \in Processes \ {p} : wire'[q] = wire[q]
  BY Wires DEF Deliver
<1>3. /\ latest'[e.id] = e.status /\ e.id \in Ids /\ e.status \in Statuses
      /\ \A j \in Ids \ {e.id} : latest'[j] = latest[j]
  BY <1>1 DEF Deliver, Types, TypeOK, Events
<1>4. UNCHANGED <<row, made, call, overlapped, silent, lost>>
  BY DEF Deliver
<1>5. /\ On(wire[p]) = {e.id} \cup On(wire'[p])
      /\ \A j, s : j \in On(wire'[p]) /\ LastOn(wire[p], j, s) => LastOn(wire'[p], j, s)
      /\ \A j, s : j \notin On(wire'[p]) /\ LastOn(wire[p], j, s) => e.id = j /\ e.status = s
  <2>1. wire[p] \in Seq(Events) /\ wire[p] # <<>>
    BY Wires DEF Deliver
  <2>2. /\ On(wire[p]) = {Head(wire[p]).id} \cup On(Tail(wire[p]))
        /\ \A j, s : j \in On(Tail(wire[p])) /\ LastOn(wire[p], j, s) => LastOn(Tail(wire[p]), j, s)
        /\ \A j, s : j \notin On(Tail(wire[p])) /\ LastOn(wire[p], j, s) =>
             Head(wire[p]).id = j /\ Head(wire[p]).status = s
    BY <2>1, TailOn
  <2> QED BY <1>1, <1>2, <2>2
<1>6. Clean' = Clean /\ Clean \subseteq Ids
  BY <1>4 DEF Clean
<1>7. \A j \in Ids, q \in Processes : j \in On(wire'[q]) => j \in On(wire[q])
  BY <1>2, <1>5
<1>8. UnknownNews'
  <2>1. made[e.id] # "none"
    BY <1>3, <1>5 DEF FeedInv, UnknownNews
  <2> QED BY <1>3, <1>4, <1>7, <2>1 DEF FeedInv, UnknownNews
<1>9. OneWire' /\ WireOfSaver' /\ EntityNews'
  BY <1>4, <1>6, <1>7 DEF FeedInv, OneWire, WireOfSaver, EntityNews, Saves, Present, Newsworthy
<1>10. AllTold'
  <2> SUFFICES ASSUME NEW j \in Clean', Present(j)', ~Announcing(j)' PROVE Told(j)'
    BY DEF AllTold
  <2>1. j \in Clean /\ j \in Ids /\ Told(j)
    BY <1>4, <1>6 DEF FeedInv, AllTold, Present, Announcing, Saves
  <2>2. ASSUME NEW q \in Processes, j \in On(wire'[q]) PROVE LastOn(wire'[q], j, row[j].status)
    BY <1>2, <1>5, <1>7, <2>1, <2>2 DEF Told
  <2>3. ASSUME \A q \in Processes : j \notin On(wire'[q])
        PROVE  row[j].status = IF latest'[j] = "none" THEN made[j] ELSE latest'[j]
    <3>1. CASE j = e.id
      <4>1. LastOn(wire[p], j, row[j].status)
        BY <1>5, <2>1, <3>1 DEF Told
      <4>2. e.status = row[j].status
        BY <1>5, <2>3, <4>1
      <4> QED BY <1>3, <3>1, <4>2, StatusesAssumption
    <3>2. CASE j # e.id
      <4>1. \A q \in Processes : j \notin On(wire[q])
        BY <1>2, <1>5, <2>3, <3>2
      <4> QED BY <1>3, <2>1, <3>2, <4>1 DEF Told
    <3> QED BY <3>1, <3>2
  <2> QED BY <1>4, <2>2, <2>3 DEF Told
<1> QED BY <1>8, <1>9, <1>10 DEF FeedInv

\* With a connection or a process go the announcements it had not sent, and
\* with a process those its calls had not made.
LEMMA LossFeed ==
  ASSUME Types, Types', ReceiptInv, FeedInv, NEW p \in Processes, Disconnect(p) \/ Crash(p)
  PROVE  FeedInv'
<1>1. UNCHANGED <<row, made, latest, overlapped, silent>> /\ \A j \in Ids : Present(j)' <=> Present(j)
  BY DEF Disconnect, Crash, Present
<1>2. On(wire[p]) \subseteq lost' /\ lost \subseteq lost'
  BY DEF Disconnect, Crash, OnWire, On
<1>3. Clean' \subseteq Clean /\ Clean \subseteq Ids /\ \A i \in Clean' : i \notin On(wire[p])
  BY <1>1, <1>2 DEF Clean
<1>4. On(wire'[p]) = {} /\ \A q \in Processes \ {p} : wire'[q] = wire[q]
  <2>1. wire'[p] = <<>> /\ \A q \in Processes \ {p} : wire'[q] = wire[q]
    BY Wires DEF Disconnect, Crash
  <2> QED BY <2>1 DEF On
<1>5. \A r \in Requests, i \in Ids : Saves(r, i)' => Saves(r, i) /\ call'[r] = call[r]
  <2>1. NoNewSaves
    BY DEF NoNewSaves, Disconnect, Crash, Saving
  <2> QED BY <2>1, OldSaves
<1>6. \A i \in Clean' : Announcing(i) => Announcing(i)'
  <2> SUFFICES ASSUME NEW i \in Clean', NEW r \in Requests, Saves(r, i), call[r].pc = "announce"
               PROVE  Saves(r, i)' /\ (call[r].pc = "announce")'
    BY DEF Announcing
  <2>1. call'[r] = call[r]
    <3>1. CASE Disconnect(p)
      BY <3>1 DEF Disconnect
    <3>2. CASE Crash(p)
      <4>1. HostOf[r] # p
        <5>1. CASE HostOf[r] = p
          <6>1. call[r].id \in lost'
            BY <3>2, <5>1 DEF Crash, Hosted
          <6> QED BY <6>1 DEF Clean, Saves
        <5> QED BY <5>1
      <4> QED BY <3>2, <4>1 DEF Crash, Hosted
    <3> QED BY <3>1, <3>2
  <2> QED BY <2>1 DEF Saves
<1>7. \A i \in Ids, q \in Processes : i \in On(wire'[q]) => i \in On(wire[q])
  BY <1>4
<1>8. \A i \in Clean', q \in Processes : i \in On(wire[q]) => wire'[q] = wire[q]
  BY <1>3, <1>4
<1>9. UnknownNews' /\ OneWire' /\ WireOfSaver'
  BY <1>1, <1>3, <1>5, <1>7 DEF FeedInv, UnknownNews, OneWire, WireOfSaver
<1>10. AllTold'
  <2> SUFFICES ASSUME NEW i \in Clean', Present(i)', ~Announcing(i)' PROVE Told(i)'
    BY DEF AllTold
  <2>1. i \in Ids /\ Told(i)
    BY <1>1, <1>3, <1>6 DEF FeedInv, AllTold
  <2>2. \A q \in Processes : i \in On(wire[q]) <=> i \in On(wire'[q])
    BY <1>7, <1>8, <2>1
  <2>3. \A q \in Processes : i \in On(wire'[q]) => LastOn(wire'[q], i, row[i].status)
    BY <1>8, <2>1, <2>2 DEF Told
  <2> QED BY <1>1, <2>1, <2>2, <2>3 DEF Told
<1>11. EntityNews'
  BY <1>1, <1>3, <1>5 DEF FeedInv, EntityNews, Newsworthy
<1> QED BY <1>9, <1>10, <1>11 DEF FeedInv

\* Every other step is hushed.
LEMMA OthersHush ==
  ASSUME Types, [Next]_vars,
         \A r \in Requests : ~Announce(r), \A p \in Processes : ~Deliver(p) /\ ~Disconnect(p) /\ ~Crash(p)
  PROVE  Hushed
<1>0. call \in [Requests -> Call]
  BY DEF Types, TypeOK
<1>1. CASE UNCHANGED vars
  BY <1>1 DEF vars, feedVars, Hushed
<1>2. ASSUME NEW r \in Requests, PaymentCall(r) PROVE Hushed
  BY <1>0, <1>2 DEF PaymentCall, RestCall, GrpcCall, CreatePayment, InsertPayment, PatchPayment, RemovePayment,
     AuthorizeAgain, Authorize, InsertAuthorized, Capture, Refund, NotFound, ReadForSave, InsertRow, End, Idle,
     feedVars, Hushed
<1>3. ASSUME NEW r \in Requests, ShippingCall(r) PROVE Hushed
  BY <1>0, <1>3 DEF ShippingCall, CreateShipping, InsertShipping, PatchShipping, RemoveShipping, ReadForSave,
     InsertRow, End, Idle, feedVars, Hushed
<1>4. ASSUME NEW r \in Requests, Update(r) PROVE Hushed
  BY <1>0, <1>4 DEF Update, SaveUpdate, SaveUnanswered, End, feedVars, Hushed
<1>5. ASSUME NEW r \in Requests,
             RefuseInsert(r) \/ DeleteRow(r) \/ SaveDiff(r) \/ SaveRemoved(r) \/ StatementFails(r)
      PROVE  Hushed
  BY <1>0, <1>5 DEF RefuseInsert, DeleteRow, SaveDiff, SaveRemoved, StatementFails, End, Inserting, feedVars, Hushed
<1>6. ASSUME NEW o \in Orders, RemoveOrder(o) PROVE Hushed
  BY <1>6 DEF RemoveOrder, feedVars, Hushed
<1> QED BY <1>1, <1>2, <1>3, <1>4, <1>5, <1>6 DEF Next

\* Every step keeps it.
LEMMA NextFeed == Types /\ Types' /\ ReceiptInv /\ FeedInv /\ [Next]_vars => FeedInv'
<1> SUFFICES ASSUME Types, Types', ReceiptInv, FeedInv, [Next]_vars PROVE FeedInv'
  OBVIOUS
<1>1. CASE \E r \in Requests : Announce(r)
  BY <1>1, AnnounceFeed
<1>2. CASE \E p \in Processes : Deliver(p) \/ Disconnect(p) \/ Crash(p)
  BY <1>2, DeliverFeed, LossFeed
<1>3. CASE /\ \A r \in Requests : ~Announce(r)
           /\ \A p \in Processes : ~Deliver(p) /\ ~Disconnect(p) /\ ~Crash(p)
  <2>1. Hushed /\ Kinds
    BY <1>3, OthersHush, StepKinds
  <2> QED BY <2>1, RemovingFeed, AddingFeed, ReadingFeed, ComparingFeed, WritingFeed DEF Kinds
<1> QED BY <1>1, <1>2, <1>3

\* FeedConverges: once nothing about a payment or a shipment is under way, the
\* last announcement is its status, unless two saves of it overlapped, one was
\* made by Capture, or an announcement was lost with a connection, a process or
\* the answer to the save before it (PaymentsService.update,
\* ShippingService.update, RabbitmqService.publishStatusChange).
THEOREM TheFeedConverges == Spec => []FeedConverges
<1>1. FeedInv => FeedConverges
  <2> SUFFICES ASSUME FeedInv, NEW i \in Ids, Present(i), Quiet(i), i \notin overlapped \cup silent \cup lost
               PROVE  row[i].status = IF latest[i] = "none" THEN made[i] ELSE latest[i]
    BY DEF FeedConverges
  <2>1. i \in Clean /\ ~Announcing(i)
    BY DEF Clean, Announcing, Saves, Quiet
  <2>2. \A p \in Processes : i \notin On(wire[p])
    BY DEF Quiet, OnWire, On
  <2> QED BY <2>1, <2>2 DEF FeedInv, AllTold, Told
<1>2. Spec => []FeedInv
  BY InitFeedInv, NextFeed, AlwaysTypes, AlwaysReceipts, PTL DEF Spec
<1> QED BY <1>1, <1>2, PTL
=============================================================================
