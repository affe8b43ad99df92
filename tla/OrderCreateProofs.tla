------------------------- MODULE OrderCreateProofs -------------------------
(* Theorems about OrderCreate for every set of requests, products, lines   *)
(* and administrators, with their proofs.                                  *)
EXTENDS OrderCreate, FiniteSetTheorems, TLAPS

----------------------------------------------------------------------------
(* Type correctness                                                        *)

\* The initial state is well-typed.
LEMMA InitTypeOK == Init => TypeOK
  BY StockAssumption, RequestsAssumption
  DEF Init, TypeOK, Row, NoRow, PCs, OpenTx, Answers

\* The steps of create() keep the types.
LEMMA AdvanceTypeOK ==
  ASSUME TypeOK, NEW r \in Requests, Advance(r) \/ Interrupt(r)
  PROVE  TypeOK'
<1> USE DEF TypeOK
<1>0. NoRow \in Row
  BY DEF Row, NoRow
<1>1. CASE ReplayExisting(r)
  BY <1>1 DEF ReplayExisting, Reply, PCs, Answers
<1>2. CASE BeginTransaction(r)
  BY <1>2 DEF BeginTransaction, Goto, PCs, OpenTx
<1>3. ASSUME NEW p \in Products, LockStockRow(r, p)
      PROVE  TypeOK'
  BY <1>3 DEF LockStockRow
<1>4. CASE CheckStock(r)
  BY <1>4, RequestsAssumption DEF CheckStock, Goto, PCs, OpenTx
<1>5. ASSUME RollBack(r)
      PROVE  /\ stock' \in [Products -> Row]
             /\ lock' \in [Products -> Requests \cup {Free}]
             /\ placed' \subseteq Requests /\ present' \subseteq placed'
             /\ work' \in [Requests -> [Products -> Row]]
             /\ todo' \in [Requests -> SUBSET Lines]
             /\ charged' \subseteq Requests /\ sent' \subseteq Requests
             /\ patch' \in [Patchers -> {NoPatch, PatchDone} \cup Patch]
  BY <1>0, <1>5 DEF RollBack, ReleaseLocks
<1>6. CASE RejectOrder(r)
  BY <1>5, <1>6 DEF RejectOrder, Reply, PCs, Answers
<1>7. CASE InsertOrder(r)
  BY <1>7 DEF InsertOrder, SeenOnInsert, Goto, PCs, OpenTx
<1>8. CASE InsertDuplicate(r)
  BY <1>5, <1>8 DEF InsertDuplicate, Goto, PCs
<1>9. CASE RereadExisting(r)
  BY <1>9 DEF RereadExisting, Reply, PCs, Answers
<1>10. ASSUME NEW l \in Lines, ReserveLine(r, l)
       PROVE  TypeOK'
  <2>1. ProductOf[l] \in Products /\ AmountOf[l] \in Nat
    BY RequestsAssumption
  <2>2. work[r][ProductOf[l]] \in Row
    BY <2>1
  <2> DEFINE w == work[r][ProductOf[l]]
             n == w.reserved + AmountOf[l]
  <2>3. w.reserved + AmountOf[l] \in Nat
    BY <2>1, <2>2 DEF Row
  <2>5. [w EXCEPT !.reserved = n] \in Row
    <3> HIDE DEF n, w
    <3>1. w \in Row /\ n \in Nat
      BY <2>2, <2>3 DEF n, w
    <3> QED BY <3>1 DEF Row
  <2>4. work' \in [Requests -> [Products -> Row]]
    BY <1>10, <2>1, <2>5 DEF ReserveLine
  <2> QED BY <1>10, <2>4 DEF ReserveLine
<1>11. CASE CommitOrder(r)
  <2>1. CommittedRows(r) \in [Products -> Row]
    <3>1. ASSUME NEW p \in Products
          PROVE  [stock[p] EXCEPT !.reserved = work[r][p].reserved] \in Row
      <4>1. stock[p] \in Row /\ work[r][p] \in Row
        BY DEF TypeOK
      <4> QED BY <4>1 DEF Row
    <3>2. stock \in [Products -> Row]
      BY DEF TypeOK
    <3> QED BY <3>1, <3>2 DEF CommittedRows
  <2> QED BY <1>0, <1>11, <2>1 DEF CommitOrder, ReleaseLocks, Goto, PCs
<1>12. CASE PublishMessage(r)
  BY <1>12 DEF PublishMessage, PublishFailed, Goto, Reply, PCs, Answers
<1>13. CASE AuthorizePayment(r)
  BY <1>13 DEF AuthorizePayment, Reply, PCs, Answers
<1>14. CASE BreakDeadlock(r)
  BY <1>5, <1>14 DEF BreakDeadlock, Reply, PCs, Answers
<1>15. CASE Interrupt(r)
  BY <1>5, <1>15 DEF Interrupt, Reply, PCs, Answers
<1> QED
  BY <1>1, <1>2, <1>3, <1>4, <1>6, <1>7, <1>8, <1>9, <1>10, <1>11, <1>12,
     <1>13, <1>14, <1>15 DEF Advance

\* The steps of a stock PATCH keep the types.
LEMMA PatchTypeOK ==
  ASSUME TypeOK, NEW a \in Patchers, PatchStock(a)
  PROVE  TypeOK'
<1> USE DEF TypeOK
<1>1. ASSUME NEW p \in Stocked, PatchRead(a, p)
      PROVE  TypeOK'
  <2>1. PICK cols \in SUBSET PatchColumns, v \in PatchValues :
          patch' = [patch EXCEPT ![a] =
            [pc |-> "read", product |-> p, cols |-> {},
             row |-> [stock    |-> IF "stock" \in cols THEN v ELSE stock[p].stock,
                      reserved |-> IF "reserved" \in cols THEN v ELSE stock[p].reserved]]]
    BY <1>1 DEF PatchRead
  <2>2. v \in Nat /\ stock[p] \in Row
    BY StockAssumption, RequestsAssumption
  <2>3. [stock    |-> IF "stock" \in cols THEN v ELSE stock[p].stock,
         reserved |-> IF "reserved" \in cols THEN v ELSE stock[p].reserved] \in Row
    BY <2>2 DEF Row
  <2>4. patch' \in [Patchers -> {NoPatch, PatchDone} \cup Patch]
    BY <2>1, <2>3 DEF Patch
  <2> QED BY <1>1, <2>4 DEF PatchRead
<1>2. ASSUME patch[a].pc \in {"read", "diffed"}
      PROVE  patch[a] \in Patch
  BY <1>2 DEF NoPatch, PatchDone
<1>3. CASE PatchDiff(a)
  <2> DEFINE differ == {c \in {"stock", "reserved"} :
                          patch[a].row[c] # stock[patch[a].product][c]}
  <2>1. patch[a] \in Patch
    BY <1>2, <1>3 DEF PatchDiff
  <2>2. differ \in SUBSET {"stock", "reserved"}
    OBVIOUS
  <2>3. patch' = [patch EXCEPT ![a] = [patch[a] EXCEPT !.pc = "diffed", !.cols = differ]]
    BY <1>3 DEF PatchDiff
  <2> HIDE DEF differ
  <2>4. [patch[a] EXCEPT !.pc = "diffed", !.cols = differ] \in Patch
    BY <2>1, <2>2 DEF Patch
  <2>5. patch' \in [Patchers -> {NoPatch, PatchDone} \cup Patch]
    BY <2>3, <2>4
  <2> QED BY <1>3, <2>5 DEF PatchDiff
<1>4. CASE PatchUpdate(a)
  <2>1. patch[a] \in Patch
    BY <1>2, <1>4 DEF PatchUpdate
  <2>2. PICK p \in Stocked : p = patch[a].product
    BY <2>1 DEF Patch
  <2>3. p \in Products
    BY <2>2, RequestsAssumption
  <2>4. patch[a].row.stock \in Nat /\ patch[a].row.reserved \in Nat
        /\ patch[a].row["stock"] \in Nat /\ patch[a].row["reserved"] \in Nat
    BY <2>1 DEF Patch, Row
  <2>5. stock[p].stock \in Nat /\ stock[p].reserved \in Nat
        /\ stock[p]["stock"] \in Nat /\ stock[p]["reserved"] \in Nat
    BY <2>3 DEF Row
  <2>6. stock' \in [Products -> Row]
    BY <1>4, <2>2, <2>3, <2>4, <2>5 DEF PatchUpdate, Row
  <2> QED BY <1>4, <2>6 DEF PatchUpdate
<1> QED BY <1>1, <1>3, <1>4 DEF PatchStock

\* Every step keeps the types.
LEMMA NextTypeOK == TypeOK /\ [Next]_vars => TypeOK'
<1> SUFFICES ASSUME TypeOK, [Next]_vars PROVE TypeOK'
  OBVIOUS
<1>1. ASSUME NEW r \in Requests, RemoveOrder(r)
      PROVE  TypeOK'
  BY <1>1 DEF TypeOK, RemoveOrder
<1>2. CASE UNCHANGED vars
  BY <1>2 DEF TypeOK, vars
<1> QED BY <1>1, <1>2, AdvanceTypeOK, PatchTypeOK DEF Next

\* Every variable keeps its type, whatever requests and administrators do.
THEOREM TypeCorrect == Spec => []TypeOK
  BY InitTypeOK, NextTypeOK, PTL DEF Spec

----------------------------------------------------------------------------
(* What a step of one request leaves alone                                 *)

\* A request's step touches no other request: its place, its copies of rows,
\* its locks, its order and its answer stay.
LEMMA OthersUntouched ==
  ASSUME TypeOK, NEW r \in Requests, Advance(r) \/ Interrupt(r),
         NEW s \in Requests, s # r
  PROVE  /\ pc'[s] = pc[s] /\ work'[s] = work[s] /\ todo'[s] = todo[s]
         /\ answer'[s] = answer[s]
         /\ s \in placed' <=> s \in placed
         /\ s \in present' <=> s \in present
         /\ s \in sent' <=> s \in sent
         /\ s \in charged' <=> s \in charged
         /\ \A p \in Products : lock'[p] = s <=> lock[p] = s
<1> USE DEF TypeOK
<1>0. s # Free
  BY RequestsAssumption
<1>1. ASSUME RollBack(r)
      PROVE  /\ work'[s] = work[s] /\ todo'[s] = todo[s]
             /\ placed' = placed /\ present' = present
             /\ sent' = sent /\ charged' = charged
             /\ \A p \in Products : lock'[p] = s <=> lock[p] = s
  BY <1>0, <1>1 DEF RollBack, ReleaseLocks
<1>2. ASSUME NEW l, Goto(r, l)
      PROVE  pc'[s] = pc[s]
  BY <1>2 DEF Goto
<1>3. ASSUME NEW a, Reply(r, a)
      PROVE  pc'[s] = pc[s] /\ answer'[s] = answer[s]
  BY <1>3 DEF Reply
<1>4. CASE ReplayExisting(r) \/ RereadExisting(r) \/ AuthorizePayment(r)
  BY <1>3, <1>4 DEF ReplayExisting, RereadExisting, AuthorizePayment
<1>5. CASE BeginTransaction(r) \/ CheckStock(r) \/ InsertOrder(r)
  BY <1>2, <1>5 DEF BeginTransaction, CheckStock, InsertOrder, SeenOnInsert
<1>6. ASSUME NEW p \in Products, LockStockRow(r, p)
      PROVE  /\ work'[s] = work[s]
             /\ \A q \in Products : lock'[q] = s <=> lock[q] = s
             /\ UNCHANGED <<pc, placed, present, todo, answer, charged, sent>>
  BY <1>0, <1>6 DEF LockStockRow, MayLock
<1>7. CASE RejectOrder(r) \/ BreakDeadlock(r) \/ Interrupt(r)
  BY <1>1, <1>3, <1>7 DEF RejectOrder, BreakDeadlock, Interrupt
<1>8. CASE InsertDuplicate(r)
  BY <1>1, <1>2, <1>8 DEF InsertDuplicate
<1>9. ASSUME NEW l \in Lines, ReserveLine(r, l)
      PROVE  /\ work'[s] = work[s] /\ todo'[s] = todo[s]
             /\ UNCHANGED <<lock, pc, placed, present, answer, charged, sent>>
  BY <1>9 DEF ReserveLine
<1>10. CASE CommitOrder(r)
  BY <1>0, <1>2, <1>10 DEF CommitOrder, ReleaseLocks
<1>11. CASE PublishMessage(r)
  BY <1>2, <1>3, <1>11 DEF PublishMessage, PublishFailed
<1> QED
  BY <1>4, <1>5, <1>6, <1>7, <1>8, <1>9, <1>10, <1>11 DEF Advance

----------------------------------------------------------------------------
(* The parts of the inductive invariant, one lemma each for the steps of a *)
(* request.                                                                *)

\* COMMIT and ROLLBACK are the only ways out of an open transaction, and both
\* release its locks.
LEMMA LocksStep ==
  ASSUME TypeOK, TypeOK', NoStrandedLocks, NEW r \in Requests, Advance(r) \/ Interrupt(r)
  PROVE  NoStrandedLocks'
<1> SUFFICES ASSUME NEW p \in Products, lock'[p] # Free
             PROVE  pc'[lock'[p]] \in OpenTx /\ p \in ProductsOf(lock'[p])
  BY DEF NoStrandedLocks, ProductsOf
<1>1. CASE lock'[p] # r
  BY <1>1, OthersUntouched DEF NoStrandedLocks, TypeOK
<1>2. CASE lock'[p] = r
  <2>1. r # Free
    BY RequestsAssumption
  <2>2. ~ReleaseLocks(r)
    BY <1>2, <2>1 DEF ReleaseLocks
  <2>3. CASE lock[p] = r
    <3>1. pc[r] \in OpenTx /\ p \in ProductsOf(r)
      BY <2>1, <2>3 DEF NoStrandedLocks
    <3>2. pc'[r] \in OpenTx
      BY <2>2, <3>1 DEF Advance, Interrupt, ReplayExisting, BeginTransaction, LockStockRow,
         CheckStock, RejectOrder, InsertOrder, InsertDuplicate, RereadExisting, ReserveLine,
         CommitOrder, PublishMessage, AuthorizePayment, BreakDeadlock, RollBack, Goto,
         OpenTx, TypeOK
    <3> QED BY <1>2, <3>1, <3>2
  <2>4. CASE lock[p] # r
    <3>1. LockStockRow(r, p)
      BY <1>2, <2>2, <2>4 DEF Advance, Interrupt, ReplayExisting, BeginTransaction, LockStockRow,
         CheckStock, RejectOrder, InsertOrder, InsertDuplicate, RereadExisting, ReserveLine,
         CommitOrder, PublishMessage, AuthorizePayment, BreakDeadlock, RollBack, TypeOK
    <3> QED BY <1>2, <3>1 DEF LockStockRow, Wanted, OpenTx
  <2> QED BY <2>3, <2>4
<1> QED BY <1>1, <1>2

\* The unique index: an INSERT waits for a rival's outcome and fails if it
\* committed, so two requests never stand after the INSERT with one key.
LEMMA KeysStep ==
  ASSUME TypeOK, TypeOK', KeysAreFree, OneOrderPerKey,
         NEW r \in Requests, Advance(r) \/ Interrupt(r)
  PROVE  KeysAreFree' /\ OneOrderPerKey'
<1>1. \A s \in Requests \ {r} : pc'[s] = pc[s] /\ (s \in present' <=> s \in present)
  BY OthersUntouched
<1>2. \A s, t \in Requests : SameKey(s, t) => s # t /\ SameKey(t, s)
  BY DEF SameKey
<1>3. (present' = present /\ (pc'[r] # "inserted" \/ pc[r] = "inserted"))
      \/ InsertOrder(r) \/ CommitOrder(r)
  <2>1. pc \in [Requests -> PCs]
    BY DEF TypeOK
  <2>2. \A a : /\ Goto(r, a) => pc'[r] = a
               /\ Reply(r, a) => pc'[r] = "done"
    BY <2>1 DEF Goto, Reply
  <2>3. CASE BeginTransaction(r) \/ CheckStock(r) \/ InsertDuplicate(r)
             \/ PublishMessage(r) \/ ReplayExisting(r) \/ RejectOrder(r)
             \/ RereadExisting(r) \/ AuthorizePayment(r) \/ BreakDeadlock(r) \/ Interrupt(r)
    BY <2>2, <2>3 DEF BeginTransaction, CheckStock, InsertDuplicate, PublishMessage,
       PublishFailed, ReplayExisting, RejectOrder, RereadExisting, AuthorizePayment,
       BreakDeadlock, Interrupt, RollBack
  <2>4. CASE (\E p \in Products : LockStockRow(r, p)) \/ (\E l \in Lines : ReserveLine(r, l))
    BY <2>4 DEF LockStockRow, ReserveLine
  <2> QED BY <2>3, <2>4 DEF Advance
<1>4. CASE present' = present /\ (pc'[r] # "inserted" \/ pc[r] = "inserted")
  BY <1>1, <1>4 DEF KeysAreFree, OneOrderPerKey, SameKey, TypeOK
<1>5. CASE InsertOrder(r)
  <2>1. present' = present /\ ~KeyHeld(r) /\ ~Existing(r)
    BY <1>5 DEF InsertOrder, SeenOnInsert
  <2>2. \A s \in Requests : SameKey(r, s) => s \notin present /\ pc[s] # "inserted"
    BY <2>1 DEF KeyHeld, Existing
  <2>3. r \notin present \/ \A s \in Requests : ~SameKey(s, r) \/ pc[s] # "inserted"
    BY <1>2, <2>2
  <2> QED BY <1>1, <1>2, <2>1, <2>2, <2>3 DEF KeysAreFree, OneOrderPerKey, SameKey, TypeOK
<1>6. CASE CommitOrder(r)
  <2>1. pc[r] = "inserted" /\ pc'[r] = "committed" /\ present' = present \cup {r}
    BY <1>6 DEF CommitOrder, Goto, TypeOK
  <2> QED BY <1>1, <1>2, <2>1 DEF KeysAreFree, OneOrderPerKey, SameKey, TypeOK
<1> QED BY <1>3, <1>4, <1>5, <1>6

\* Past the check a request holds the lock of every row its lines name.
LEMMA ChecksStep ==
  ASSUME TypeOK, TypeOK', ChecksHoldLocks, NEW r \in Requests, Advance(r) \/ Interrupt(r)
  PROVE  ChecksHoldLocks'
<1> SUFFICES ASSUME NEW s \in Requests, pc'[s] \in {"checked", "inserted"}
             PROVE  /\ \A l \in LinesOf[s] :
                         ProductOf[l] \in Stocked /\ lock'[ProductOf[l]] = s
                    /\ todo'[s] \subseteq LinesOf[s]
                    /\ pc'[s] = "checked" => todo'[s] = LinesOf[s]
  BY DEF ChecksHoldLocks
<1>0. \A l \in LinesOf[s] : ProductOf[l] \in Products
  BY RequestsAssumption
<1>1. CASE s # r
  BY <1>0, <1>1, OthersUntouched DEF ChecksHoldLocks
<1>2. CASE s = r
  <2>1. CheckStock(r) \/ InsertOrder(r) \/ \E l \in Lines : ReserveLine(r, l)
    BY <1>2 DEF Advance, Interrupt, ReplayExisting, BeginTransaction, LockStockRow,
       RejectOrder, InsertDuplicate, RereadExisting, CommitOrder,
       PublishMessage, PublishFailed, AuthorizePayment, BreakDeadlock, Goto, Reply, TypeOK
  <2>2. CASE CheckStock(r)
    BY <1>2, <2>2 DEF CheckStock, EveryLineFits, Wanted, Locked, ProductsOf, TypeOK
  <2>3. CASE InsertOrder(r)
    BY <1>2, <2>3 DEF InsertOrder, Goto, ChecksHoldLocks, TypeOK
  <2>4. ASSUME NEW l \in Lines, ReserveLine(r, l)
        PROVE  todo'[r] \subseteq todo[r] /\ lock' = lock /\ pc' = pc /\ pc[r] = "inserted"
    BY <2>4 DEF ReserveLine, TypeOK
  <2> QED BY <1>2, <2>1, <2>2, <2>3, <2>4 DEF ChecksHoldLocks
<1> QED BY <1>1, <1>2

\* A request changes committed rows only when it commits, and then only rows
\* whose lock it holds.
LEMMA LockedRowStays ==
  ASSUME TypeOK, ChecksHoldLocks, NEW r \in Requests, Advance(r) \/ Interrupt(r),
         NEW p \in Products, lock[p] # r
  PROVE  stock'[p] = stock[p]
<1>1. CASE CommitOrder(r)
  <2>1. p \notin ProductsOf(r)
    BY <1>1 DEF CommitOrder, ChecksHoldLocks, ProductsOf
  <2> QED BY <1>1, <2>1 DEF CommitOrder, CommittedRows
<1>2. CASE ~CommitOrder(r)
  <2>1. stock' = stock
    BY <1>2 DEF Advance, Interrupt, ReplayExisting, BeginTransaction, LockStockRow,
       CheckStock, RejectOrder, InsertOrder, InsertDuplicate, RereadExisting, ReserveLine,
       PublishMessage, AuthorizePayment, BreakDeadlock, RollBack
  <2> QED BY <2>1
<1> QED BY <1>1, <1>2

\* A row whose lock a request holds changes for nobody else, so what the
\* request read under the lock stays true.
LEMMA MirrorStep ==
  ASSUME TypeOK, TypeOK', ChecksHoldLocks, WorkMirrorsStock, NoStrandedLocks,
         NEW r \in Requests, Advance(r) \/ Interrupt(r)
  PROVE  WorkMirrorsStock'
<1> SUFFICES ASSUME NEW s \in Requests, NEW p \in Products, lock'[p] = s
             PROVE  /\ work'[s][p].stock = stock'[p].stock
                    /\ pc'[s] # "inserted" => work'[s][p].reserved = stock'[p].reserved
  BY DEF WorkMirrorsStock
<1>0. s # Free /\ r # Free
  BY RequestsAssumption
<1>1. CASE s # r
  <2>1. lock[p] = s /\ work'[s] = work[s] /\ pc'[s] = pc[s]
    BY <1>1, OthersUntouched
  <2>2. stock'[p] = stock[p]
    BY <1>1, <2>1, LockedRowStays
  <2> QED BY <2>1, <2>2 DEF WorkMirrorsStock
<1>2. CASE s = r
  <2>1. ~ReleaseLocks(r)
    BY <1>0, <1>2 DEF ReleaseLocks
  <2>2. lock[p] = r => pc[r] \in OpenTx
    BY <1>0 DEF NoStrandedLocks
  <2>3. ASSUME NEW q \in Products, LockStockRow(r, q)
        PROVE  /\ work'[r][p].stock = stock'[p].stock
               /\ pc'[r] # "inserted" => work'[r][p].reserved = stock'[p].reserved
    <3>1. CASE q = p
      BY <2>3, <3>1 DEF LockStockRow, TypeOK
    <3>2. CASE q # p
      BY <1>2, <2>3, <3>2 DEF LockStockRow, WorkMirrorsStock, TypeOK
    <3> QED BY <3>1, <3>2
  <2>4. ASSUME NEW l \in Lines, ReserveLine(r, l)
        PROVE  pc'[r] = "inserted" /\ stock' = stock /\ lock' = lock
               /\ work'[r][p].stock = work[r][p].stock
    <3>1. ProductOf[l] \in Products
      BY RequestsAssumption
    <3>2. work[r][p] \in Row /\ work[r][ProductOf[l]] \in Row
      BY <3>1 DEF TypeOK
    <3>3. work' = [work EXCEPT ![r] =
                     [work[r] EXCEPT ![ProductOf[l]] =
                        [work[r][ProductOf[l]] EXCEPT
                           !.reserved = work[r][ProductOf[l]].reserved + AmountOf[l]]]]
      BY <2>4 DEF ReserveLine
    <3>4. work'[r][p].stock = work[r][p].stock
      <4>1. work \in [Requests -> [Products -> Row]]
        BY DEF TypeOK
      <4>2. work'[r][p] = IF p = ProductOf[l]
                            THEN [work[r][p] EXCEPT !.reserved = work[r][p].reserved + AmountOf[l]]
                            ELSE work[r][p]
        BY <3>1, <3>3, <4>1
      <4>3. \A n : [work[r][p] EXCEPT !.reserved = n].stock = work[r][p].stock
        BY <3>2 DEF Row
      <4> QED BY <4>2, <4>3
    <3> QED BY <2>4, <3>4 DEF ReserveLine
  <2>5. CASE ReplayExisting(r) \/ BeginTransaction(r) \/ RereadExisting(r)
             \/ PublishMessage(r) \/ AuthorizePayment(r)
    BY <1>2, <2>2, <2>5 DEF ReplayExisting, BeginTransaction, RereadExisting, PublishMessage,
       AuthorizePayment, OpenTx
  <2>6. CASE CheckStock(r) \/ InsertOrder(r)
    BY <1>2, <2>6 DEF CheckStock, InsertOrder, Goto, WorkMirrorsStock, TypeOK
  <2>7. (\E q \in Products : LockStockRow(r, q)) \/ (\E l \in Lines : ReserveLine(r, l))
        \/ ReplayExisting(r) \/ BeginTransaction(r) \/ RereadExisting(r) \/ PublishMessage(r)
        \/ AuthorizePayment(r) \/ CheckStock(r) \/ InsertOrder(r)
    BY <2>1 DEF Advance, Interrupt, RejectOrder, InsertDuplicate, CommitOrder, BreakDeadlock,
       RollBack
  <2> QED BY <1>2, <2>3, <2>4, <2>5, <2>6, <2>7 DEF WorkMirrorsStock
<1> QED BY <1>1, <1>2

\* A request answers once, at its last step, and its traces are complete by
\* then.
LEMMA AnswersStep ==
  ASSUME TypeOK, TypeOK', TracesFollowCommit, AnswersAreTrue,
         NEW r \in Requests, Advance(r) \/ Interrupt(r)
  PROVE  TracesFollowCommit' /\ AnswersAreTrue'
<1> USE DEF TracesFollowCommit, AnswersAreTrue, Uncommitted, OpenTx
<1>1. placed \subseteq placed'
  BY DEF Advance, Interrupt, ReplayExisting, BeginTransaction, LockStockRow, CheckStock,
     RejectOrder, InsertOrder, InsertDuplicate, RereadExisting, ReserveLine, CommitOrder,
     PublishMessage, AuthorizePayment, BreakDeadlock, RollBack
<1>2. pc[r] # "done" /\ answer[r] = "none"
  BY DEF Advance, Interrupt, ReplayExisting, BeginTransaction, LockStockRow, CheckStock,
     RejectOrder, InsertOrder, InsertDuplicate, RereadExisting, ReserveLine, CommitOrder,
     PublishMessage, AuthorizePayment, BreakDeadlock, Deadlocked
<1> DEFINE Traces(s) ==
             /\ pc'[s] \in Uncommitted => s \notin placed'
             /\ pc'[s] # "done" => answer'[s] = "none"
             /\ pc'[s] \in {"committed", "published"} => s \in placed'
             /\ pc'[s] = "published" => s \in sent'
           True(s) ==
             /\ answer'[s] = "conflict" => s \notin placed'
             /\ answer'[s] = "replayed" =>
                  s \notin placed' /\ \E t \in placed' : SameKey(s, t)
             /\ answer'[s] \in {"created", "unpaid"} =>
                  s \in placed' /\ s \in charged' /\ s \in sent'
<1>3. ASSUME NEW s \in Requests, s # r
      PROVE  Traces(s) /\ True(s)
  BY <1>1, <1>3, OthersUntouched
<1>4. Traces(r) /\ True(r)
  <2>1. CASE ReplayExisting(r) \/ RereadExisting(r)
    <3>1. placed' = placed /\ pc[r] \in Uncommitted /\ pc'[r] = "done"
          /\ (answer'[r] = "error" \/ (answer'[r] = "replayed" /\ Existing(r)))
      BY <2>1 DEF ReplayExisting, RereadExisting, Reply, TypeOK
    <3>2. Existing(r) => \E t \in placed : SameKey(r, t)
      BY DEF Existing, TypeOK
    <3> QED BY <3>1, <3>2
  <2>2. ASSUME NEW p \in Products, LockStockRow(r, p)
        PROVE  UNCHANGED <<pc, placed, answer, sent>>
    BY <2>2 DEF LockStockRow
  <2>3. ASSUME NEW l \in Lines, ReserveLine(r, l)
        PROVE  UNCHANGED <<pc, placed, answer, sent>>
    BY <2>3 DEF ReserveLine
  <2>4. CASE BeginTransaction(r) \/ CheckStock(r) \/ InsertOrder(r)
    BY <1>2, <2>4 DEF BeginTransaction, CheckStock, InsertOrder, Goto, TypeOK
  <2>5. CASE RejectOrder(r)
    BY <2>5 DEF RejectOrder, RollBack, Reply, TypeOK
  <2>6. CASE InsertDuplicate(r)
    BY <1>2, <2>6 DEF InsertDuplicate, RollBack, Goto, TypeOK
  <2>7. CASE CommitOrder(r)
    BY <1>2, <2>7 DEF CommitOrder, Goto, TypeOK
  <2>8. CASE PublishMessage(r)
    BY <1>2, <2>8 DEF PublishMessage, PublishFailed, Goto, Reply, TypeOK
  <2>9. CASE AuthorizePayment(r)
    BY <2>9 DEF AuthorizePayment, Reply, TypeOK
  <2>10. CASE BreakDeadlock(r) \/ Interrupt(r)
    BY <2>10 DEF BreakDeadlock, Interrupt, Reply, TypeOK
  <2> QED BY <1>2, <2>1, <2>2, <2>3, <2>4, <2>5, <2>6, <2>7, <2>8, <2>9, <2>10 DEF Advance
<1> HIDE DEF Traces, True
<1>5. \A s \in Requests : Traces(s) /\ True(s)
  BY <1>3, <1>4
<1> QED BY <1>5 DEF Traces, True

----------------------------------------------------------------------------
(* The inductive invariant                                                 *)

\* DELETE of an order row keeps the invariant.
LEMMA RemoveStep ==
  ASSUME IInv, TypeOK', NEW r \in Requests, RemoveOrder(r)
  PROVE  IInv'
<1>1. present' \subseteq present
      /\ UNCHANGED <<stock, lock, placed, pc, work, todo, answer, charged, sent, patch>>
  BY DEF RemoveOrder
<1> QED BY <1>1 DEF IInv, NoStrandedLocks, OneOrderPerKey, AnswersAreTrue, ChecksHoldLocks,
  WorkMirrorsStock, KeysAreFree, TracesFollowCommit

\* A PATCH writes a stock row only while nobody holds its lock.
LEMMA LockedRowIsNotPatched ==
  ASSUME TypeOK, NEW a \in Patchers, PatchStock(a), NEW p \in Products, lock[p] # Free
  PROVE  stock'[p] = stock[p]
<1>1. CASE PatchUpdate(a)
  <2> DEFINE q == patch[a].product
             New(c) == IF c \in patch[a].cols THEN patch[a].row[c] ELSE stock[q][c]
  <2>1. stock' = [stock EXCEPT ![q] = [stock |-> New("stock"), reserved |-> New("reserved")]]
        /\ (patch[a].cols # {} => lock[q] = Free)
    BY <1>1 DEF PatchUpdate
  <2>2. CASE q = p
    <3>1. patch[a].cols = {}
      BY <2>1, <2>2
    <3>2. New("stock") = stock[p].stock /\ New("reserved") = stock[p].reserved
      BY <2>2, <3>1
    <3>3. stock[p] \in Row
      BY DEF TypeOK
    <3> HIDE DEF New, q
    <3>4. stock'[p] = [stock |-> stock[p].stock, reserved |-> stock[p].reserved]
      BY <2>1, <2>2, <3>2 DEF TypeOK
    <3> QED BY <3>3, <3>4 DEF Row
  <2>3. CASE q # p
    BY <2>1, <2>3 DEF TypeOK
  <2> QED BY <2>2, <2>3
<1>2. CASE ~PatchUpdate(a)
  BY <1>2 DEF PatchStock, PatchRead, PatchDiff
<1> QED BY <1>1, <1>2

\* So it leaves what open transactions have read as it is.
LEMMA PatchStep ==
  ASSUME IInv, TypeOK', NEW a \in Patchers, PatchStock(a)
  PROVE  IInv'
<1>1. UNCHANGED <<lock, placed, present, pc, work, todo, answer, charged, sent>>
  BY DEF PatchStock, PatchRead, PatchDiff, PatchUpdate
<1>2. \A p \in Products : lock[p] # Free => stock'[p] = stock[p]
  BY LockedRowIsNotPatched DEF IInv
<1>3. WorkMirrorsStock'
  <2>1. \A r \in Requests : r # Free
    BY RequestsAssumption
  <2> QED BY <1>1, <1>2, <2>1 DEF IInv, WorkMirrorsStock
<1> QED BY <1>1, <1>3 DEF IInv, NoStrandedLocks, OneOrderPerKey, AnswersAreTrue,
  ChecksHoldLocks, KeysAreFree, TracesFollowCommit

\* The initial state satisfies the inductive invariant.
LEMMA InitIInv == Init => IInv
<1> SUFFICES ASSUME Init PROVE IInv
  OBVIOUS
<1>1. TypeOK
  BY InitTypeOK
<1>2. \A r \in Requests : r # Free
  BY RequestsAssumption
<1> QED BY <1>1, <1>2 DEF Init, IInv, NoStrandedLocks, OneOrderPerKey, AnswersAreTrue,
  ChecksHoldLocks, WorkMirrorsStock, KeysAreFree, TracesFollowCommit

\* Every step keeps the inductive invariant.
LEMMA NextIInv == IInv /\ [Next]_vars => IInv'
<1> SUFFICES ASSUME IInv, [Next]_vars PROVE IInv'
  OBVIOUS
<1>0. TypeOK /\ TypeOK' /\ NoStrandedLocks /\ OneOrderPerKey /\ AnswersAreTrue
      /\ ChecksHoldLocks /\ WorkMirrorsStock /\ KeysAreFree /\ TracesFollowCommit
  BY NextTypeOK DEF IInv
<1>1. ASSUME NEW r \in Requests, Advance(r) \/ Interrupt(r)
      PROVE  IInv'
  BY <1>0, <1>1, LocksStep, KeysStep, ChecksStep, MirrorStep, AnswersStep DEF IInv
<1>2. CASE UNCHANGED vars
  BY <1>0, <1>2 DEF vars, IInv, NoStrandedLocks, OneOrderPerKey, AnswersAreTrue,
     ChecksHoldLocks, WorkMirrorsStock, KeysAreFree, TracesFollowCommit
<1> QED BY <1>0, <1>1, <1>2, RemoveStep, PatchStep DEF Next

\* The invariant holds in every behaviour.
THEOREM Inductive == Spec => []IInv
  BY InitIInv, NextIInv, PTL DEF Spec

\* "rollback on error, release() always": only an open transaction that wants
\* a stock row holds its lock.
THEOREM LocksAreReleased == Spec => []NoStrandedLocks
<1>1. IInv => NoStrandedLocks
  BY DEF IInv
<1> QED BY <1>1, Inductive, PTL

\* However many requests race under one idempotency key, they leave one order.
THEOREM Idempotent == Spec => []OneOrderPerKey
<1>1. IInv => OneOrderPerKey
  BY DEF IInv
<1> QED BY <1>1, Inductive, PTL

\* What create() tells its client is what happened.
THEOREM TruthfulAnswers == Spec => []AnswersAreTrue
<1>1. IInv => AnswersAreTrue
  BY DEF IInv
<1> QED BY <1>1, Inductive, PTL

----------------------------------------------------------------------------
(* Pieces: adding up amounts as cardinalities                              *)

\* Finitely many lines ask for finitely many pieces, and none for none.
LEMMA PiecesFinite ==
  ASSUME NEW L \in SUBSET Lines, IsFiniteSet(L)
  PROVE  IsFiniteSet(Pieces(L)) /\ Cardinality(Pieces(L)) \in Nat
<1> DEFINE of == [l \in L |-> {l} \X (1..AmountOf[l])]
           All == {of[l] : l \in L}
<1>1. ASSUME NEW l \in L
      PROVE  IsFiniteSet(of[l])
  <2>1. AmountOf[l] \in Int
    BY RequestsAssumption
  <2>2. IsFiniteSet(1..AmountOf[l])
    BY <2>1, FS_Interval
  <2>3. IsFiniteSet({l})
    BY FS_Singleton
  <2>4. IsFiniteSet({l} \X (1..AmountOf[l]))
    BY <2>2, <2>3, FS_Product
  <2> QED BY <2>4
<1>2. UNION All = Pieces(L)
  BY DEF Pieces
<1>3. of \in Surjection(L, All)
  BY DEF Surjection
<1> HIDE DEF of
<1>4. IsFiniteSet(All)
  BY <1>3, FS_Surjection
<1>5. \A T \in All : IsFiniteSet(T)
  BY <1>1
<1> HIDE DEF All
<1>6. IsFiniteSet(Pieces(L))
  BY <1>2, <1>4, <1>5, FS_UNION
<1> QED BY <1>6, FS_CardinalityType

LEMMA NoPieces == Cardinality(Pieces({})) = 0
<1>1. Pieces({}) = {}
  BY DEF Pieces
<1> QED BY <1>1, FS_EmptySet

\* Lines without a common member ask for the sum.
LEMMA PiecesUnion ==
  ASSUME NEW K \in SUBSET Lines, IsFiniteSet(K),
         NEW L \in SUBSET Lines, IsFiniteSet(L), K \cap L = {}
  PROVE  Cardinality(Pieces(K \cup L)) = Cardinality(Pieces(K)) + Cardinality(Pieces(L))
<1>1. Pieces(K \cup L) = Pieces(K) \cup Pieces(L)
  BY DEF Pieces
<1>2. Pieces(K) \cap Pieces(L) = {}
  BY DEF Pieces
<1>3. /\ IsFiniteSet(Pieces(K)) /\ Cardinality(Pieces(K)) \in Nat
      /\ IsFiniteSet(Pieces(L)) /\ Cardinality(Pieces(L)) \in Nat
  BY PiecesFinite
<1>4. Cardinality(Pieces(K) \cap Pieces(L)) = 0
  BY <1>2, FS_EmptySet
<1>5. Cardinality(Pieces(K) \cup Pieces(L))
        = Cardinality(Pieces(K)) + Cardinality(Pieces(L)) - Cardinality(Pieces(K) \cap Pieces(L))
  BY <1>3, FS_Union
<1>6. Cardinality(Pieces(K \cup L)) = Cardinality(Pieces(K) \cup Pieces(L))
  BY <1>1
<1> QED BY <1>3, <1>4, <1>5, <1>6

\* A further line adds its amount.
LEMMA PiecesAdd ==
  ASSUME NEW L \in SUBSET Lines, IsFiniteSet(L), NEW l \in Lines \ L
  PROVE  Cardinality(Pieces(L \cup {l})) = Cardinality(Pieces(L)) + AmountOf[l]
<1>1. AmountOf[l] \in Nat
  BY RequestsAssumption
<1>2. IsFiniteSet({l}) /\ Cardinality({l}) = 1
  BY FS_Singleton
<1>3. IsFiniteSet(1..AmountOf[l]) /\ Cardinality(1..AmountOf[l]) = AmountOf[l]
  BY <1>1, FS_Interval
<1>4. Cardinality({l} \X (1..AmountOf[l])) = 1 * AmountOf[l]
  BY <1>2, <1>3, FS_Product
<1>5. Pieces({l}) = {l} \X (1..AmountOf[l])
  BY DEF Pieces
<1>6. {l} \in SUBSET Lines /\ L \cap {l} = {}
  OBVIOUS
<1>7. Cardinality(Pieces(L \cup {l})) = Cardinality(Pieces(L)) + Cardinality(Pieces({l}))
  BY <1>2, <1>6, PiecesUnion
<1>8. Cardinality(Pieces({l})) = AmountOf[l]
  <2>1. Cardinality(Pieces({l})) = 1 * AmountOf[l]
    BY <1>4, <1>5, Zenon
  <2> QED BY <1>1, <2>1
<1> QED BY <1>7, <1>8

\* The lines of a request on a product are finitely many.
LEMMA LinesOnFinite ==
  ASSUME NEW r \in Requests, NEW p, NEW T
  PROVE  /\ LinesOn(r, p) \ T \in SUBSET Lines
         /\ IsFiniteSet(LinesOn(r, p) \ T)
<1>1. LinesOn(r, p) \ T \in SUBSET LinesOf[r]
  BY DEF LinesOn
<1>2. IsFiniteSet(LinesOf[r]) /\ LinesOf[r] \subseteq Lines
  BY RequestsAssumption
<1> QED BY <1>1, <1>2, FS_Subset

----------------------------------------------------------------------------
(* Atomicity: from the check to the commit                                 *)

\* Another request's step disturbs nothing between the check and the commit.
LEMMA AtomicOther ==
  ASSUME IInv, AtomicInv, NEW s \in Requests, pc[s] \in {"checked", "inserted"},
         pc'[s] = pc[s], work'[s] = work[s], todo'[s] = todo[s],
         \A p \in Products : lock[p] = s => stock'[p] = stock[p]
  PROVE  FitsCommitted(s)' /\ ReservedSoFar(s)'
<1>1. \A l \in LinesOf[s] : stock'[ProductOf[l]] = stock[ProductOf[l]]
  BY RequestsAssumption DEF IInv, ChecksHoldLocks
<1>2. \A p \in ProductsOf(s) : stock'[p] = stock[p]
  BY <1>1 DEF ProductsOf
<1>3. FitsCommitted(s) /\ ReservedSoFar(s)
  BY DEF AtomicInv
<1>4. FitsCommitted(s)'
  BY <1>1, <1>3 DEF FitsCommitted
<1>5. ReservedSoFar(s)'
  BY <1>2, <1>3 DEF ReservedSoFar
<1> QED BY <1>4, <1>5

\* A request's own steps: the check establishes it, each reserved line counts
\* once.
LEMMA AtomicOwn ==
  ASSUME IInv, IInv', AtomicInv, NEW r \in Requests, Advance(r) \/ Interrupt(r),
         pc'[r] \in {"checked", "inserted"}
  PROVE  FitsCommitted(r)' /\ ReservedSoFar(r)'
<1>0. TypeOK /\ ChecksHoldLocks /\ WorkMirrorsStock
  BY DEF IInv
<1>1. CheckStock(r) \/ InsertOrder(r) \/ \E l \in Lines : ReserveLine(r, l)
  BY <1>0 DEF Advance, Interrupt, ReplayExisting, BeginTransaction, LockStockRow,
     RejectOrder, InsertDuplicate, RereadExisting, CommitOrder,
     PublishMessage, PublishFailed, AuthorizePayment, BreakDeadlock, Goto, Reply, TypeOK
<1>2. CASE CheckStock(r)
  <2>1. /\ pc[r] = "locking" /\ EveryLineFits(r) /\ todo'[r] = LinesOf[r]
        /\ stock' = stock /\ work' = work /\ lock' = lock
    BY <1>0, <1>2 DEF CheckStock, TypeOK
  <2>2. \A l \in LinesOf[r] : lock[ProductOf[l]] = r
    BY <2>1 DEF IInv, ChecksHoldLocks
  <2>3. \A l \in LinesOf[r] : ProductOf[l] \in Products
    BY RequestsAssumption
  <2>4. \A l \in LinesOf[r] :
          /\ work[r][ProductOf[l]].stock = stock[ProductOf[l]].stock
          /\ work[r][ProductOf[l]].reserved = stock[ProductOf[l]].reserved
    BY <1>0, <2>1, <2>2, <2>3 DEF WorkMirrorsStock
  <2>5. FitsCommitted(r)'
    BY <2>1, <2>4 DEF EveryLineFits, FitsCommitted
  <2>6. ReservedSoFar(r)'
    <3> SUFFICES ASSUME NEW p \in ProductsOf(r)
                 PROVE  work[r][p].reserved = stock[p].reserved
                          + Cardinality(Pieces(LinesOn(r, p) \ LinesOf[r]))
      BY <2>1 DEF ReservedSoFar
    <3>1. LinesOn(r, p) \ LinesOf[r] = {}
      BY DEF LinesOn
    <3>2. p \in Products /\ work[r][p].reserved = stock[p].reserved
      BY <2>3, <2>4 DEF ProductsOf
    <3>3. stock[p].reserved \in Nat
      BY <1>0, <3>2 DEF TypeOK, Row
    <3> QED BY <3>1, <3>2, <3>3, NoPieces
  <2> QED BY <2>5, <2>6
<1>3. CASE InsertOrder(r)
  BY <1>3 DEF InsertOrder, AtomicInv, FitsCommitted, ReservedSoFar
<1>4. ASSUME NEW l \in Lines, ReserveLine(r, l)
      PROVE  FitsCommitted(r)' /\ ReservedSoFar(r)'
  <2>1. /\ pc[r] = "inserted" /\ l \in todo[r] /\ l \in LinesOf[r] /\ stock' = stock
        /\ todo'[r] = todo[r] \ {l}
    BY <1>0, <1>4 DEF ReserveLine, ChecksHoldLocks, TypeOK
  <2>2. FitsCommitted(r) /\ ReservedSoFar(r)
    BY <2>1 DEF AtomicInv
  <2>3. FitsCommitted(r)'
    BY <2>1, <2>2 DEF FitsCommitted
  <2> DEFINE q == ProductOf[l]
  <2>4. q \in Products /\ q \in ProductsOf(r) /\ AmountOf[l] \in Nat
    BY <2>1, RequestsAssumption DEF ProductsOf
  <2>5. work' = [work EXCEPT ![r] =
                   [work[r] EXCEPT ![q] =
                      [work[r][q] EXCEPT !.reserved = work[r][q].reserved + AmountOf[l]]]]
    BY <1>4 DEF ReserveLine
  <2>6. /\ work'[r][q].reserved = work[r][q].reserved + AmountOf[l]
        /\ \A p \in Products \ {q} : work'[r][p] = work[r][p]
    <3>1. work[r][q] \in Row
      BY <1>0, <2>4 DEF TypeOK
    <3> HIDE DEF q
    <3> QED BY <1>0, <2>4, <2>5, <3>1 DEF TypeOK, Row
  <2>7. ReservedSoFar(r)'
    <3> SUFFICES ASSUME NEW p \in ProductsOf(r)
                 PROVE  work'[r][p].reserved = stock[p].reserved
                          + Cardinality(Pieces(LinesOn(r, p) \ todo'[r]))
      BY <2>1 DEF ReservedSoFar
    <3>1. work[r][p].reserved = stock[p].reserved
            + Cardinality(Pieces(LinesOn(r, p) \ todo[r]))
      BY <2>2 DEF ReservedSoFar
    <3>2. p \in Products
      BY RequestsAssumption DEF ProductsOf
    <3>3. CASE p = q
      <4> DEFINE L == LinesOn(r, p) \ todo[r]
      <4>1. L \in SUBSET Lines /\ IsFiniteSet(L) /\ l \in Lines \ L
        BY <2>1, LinesOnFinite
      <4>2. LinesOn(r, p) \ todo'[r] = L \cup {l}
        BY <2>1, <3>3 DEF LinesOn
      <4> HIDE DEF L
      <4>3. Cardinality(Pieces(L \cup {l})) = Cardinality(Pieces(L)) + AmountOf[l]
        BY <4>1, PiecesAdd
      <4>4. Cardinality(Pieces(L)) \in Nat
        BY <4>1, PiecesFinite
      <4>5. stock[p].reserved \in Nat
        BY <1>0, <3>2 DEF TypeOK, Row
      <4>6. work[r][p].reserved = stock[p].reserved + Cardinality(Pieces(L))
        BY <3>1 DEF L
      <4>7. work'[r][p].reserved = work[r][p].reserved + AmountOf[l]
        BY <2>6, <3>3
      <4> DEFINE before == Cardinality(Pieces(L))
      <4>8. /\ Cardinality(Pieces(LinesOn(r, p) \ todo'[r])) = before + AmountOf[l]
            /\ before \in Nat
            /\ work'[r][p].reserved = (stock[p].reserved + before) + AmountOf[l]
        BY <4>2, <4>3, <4>4, <4>6, <4>7
      <4> HIDE DEF before
      <4> QED BY <2>4, <4>5, <4>8
    <3>4. CASE p # q
      <4>1. LinesOn(r, p) \ todo'[r] = LinesOn(r, p) \ todo[r]
        BY <2>1, <3>4 DEF LinesOn
      <4> QED BY <2>6, <3>1, <3>2, <3>4, <4>1
    <3> QED BY <3>3, <3>4
  <2> QED BY <2>3, <2>7
<1> QED BY <1>1, <1>2, <1>3, <1>4

\* Between its check and its commit a request sees no stock but what it
\* checked.
LEMMA NextAtomicInv == IInv /\ AtomicInv /\ [Next]_vars => AtomicInv'
<1> SUFFICES ASSUME IInv, AtomicInv, [Next]_vars,
                    NEW s \in Requests, pc'[s] \in {"checked", "inserted"}
             PROVE  FitsCommitted(s)' /\ ReservedSoFar(s)'
  BY DEF AtomicInv
<1>0. IInv' /\ TypeOK /\ ChecksHoldLocks /\ s # Free
  BY NextIInv, RequestsAssumption DEF IInv
<1>1. ASSUME NEW r \in Requests, Advance(r) \/ Interrupt(r)
      PROVE  FitsCommitted(s)' /\ ReservedSoFar(s)'
  <2>1. CASE r = s
    BY <1>0, <1>1, <2>1, AtomicOwn
  <2>2. CASE r # s
    <3>1. pc'[s] = pc[s] /\ work'[s] = work[s] /\ todo'[s] = todo[s]
      BY <1>0, <1>1, <2>2, OthersUntouched
    <3>2. \A p \in Products : lock[p] = s => stock'[p] = stock[p]
      BY <1>0, <1>1, <2>2, LockedRowStays
    <3> QED BY <3>1, <3>2, AtomicOther
  <2> QED BY <2>1, <2>2
<1>2. ASSUME NEW a \in Patchers, PatchStock(a)
      PROVE  FitsCommitted(s)' /\ ReservedSoFar(s)'
  <2>1. pc' = pc /\ work' = work /\ todo' = todo
    BY <1>2 DEF PatchStock, PatchRead, PatchDiff, PatchUpdate
  <2>2. \A p \in Products : lock[p] = s => stock'[p] = stock[p]
    BY <1>0, <1>2, LockedRowIsNotPatched
  <2> QED BY <2>1, <2>2, AtomicOther
<1>3. CASE UNCHANGED vars \/ \E r \in Requests : RemoveOrder(r)
  <2>1. pc' = pc /\ work' = work /\ todo' = todo /\ stock' = stock
    BY <1>3 DEF vars, RemoveOrder
  <2> QED BY <2>1, AtomicOther
<1> QED BY <1>1, <1>2, <1>3 DEF Next

\* The invariant holds in every behaviour.
LEMMA AtomicInductive == Spec => []AtomicInv
<1>1. Init => AtomicInv
  BY DEF Init, AtomicInv
<1> QED BY <1>1, NextAtomicInv, Inductive, PTL DEF Spec

\* A commit publishes the demand of its request, no more and no less, on top
\* of what is reserved at that moment.
LEMMA CommitReserves ==
  ASSUME IInv, AtomicInv, NEW r \in Requests, CommitOrder(r)
  PROVE  /\ stock' = [p \in Products |-> [stock[p] EXCEPT !.reserved = @ + Demand(r, p)]]
         /\ \A p \in Products : stock'[p].reserved = stock[p].reserved + Demand(r, p)
<1>0. /\ TypeOK /\ pc[r] = "inserted" /\ todo[r] = {} /\ stock' = CommittedRows(r)
      /\ ReservedSoFar(r)
  BY DEF IInv, AtomicInv, CommitOrder, AllReserved
<1>1. ASSUME NEW p \in Products
      PROVE  /\ CommittedRows(r)[p] = [stock[p] EXCEPT !.reserved = @ + Demand(r, p)]
             /\ CommittedRows(r)[p].reserved = stock[p].reserved + Demand(r, p)
  <2>1. stock[p] \in Row
    BY <1>0 DEF TypeOK
  <2>2. CASE p \in ProductsOf(r)
    <3>1. LinesOn(r, p) \ todo[r] = LinesOn(r, p)
      BY <1>0
    <3>2. work[r][p].reserved = stock[p].reserved + Demand(r, p)
      BY <1>0, <2>2, <3>1 DEF ReservedSoFar, Demand
    <3>3. CommittedRows(r)[p] = [stock[p] EXCEPT !.reserved = work[r][p].reserved]
      BY <2>2 DEF CommittedRows
    <3> QED BY <2>1, <3>2, <3>3 DEF Row
  <2>3. CASE p \notin ProductsOf(r)
    <3>1. LinesOn(r, p) = {}
      BY <2>3 DEF LinesOn, ProductsOf
    <3>2. Demand(r, p) = 0
      BY <3>1, NoPieces DEF Demand
    <3>3. CommittedRows(r)[p] = stock[p]
      BY <2>3 DEF CommittedRows
    <3> QED BY <2>1, <3>2, <3>3 DEF Row
  <2> QED BY <2>2, <2>3
<1>2. CommittedRows(r) = [p \in Products |-> CommittedRows(r)[p]]
  BY DEF CommittedRows
<1> QED BY <1>0, <1>1, <1>2

\* Only COMMIT places an order.
LEMMA PlacedByCommit ==
  ASSUME [Next]_vars, NEW r \in placed' \ placed
  PROVE  r \in Requests /\ CommitOrder(r)
<1>1. ASSUME NEW s \in Requests, Advance(s) \/ Interrupt(s)
      PROVE  placed' = placed \/ (CommitOrder(s) /\ placed' = placed \cup {s})
  BY <1>1 DEF Advance, Interrupt, ReplayExisting, BeginTransaction, LockStockRow, CheckStock,
     RejectOrder, InsertOrder, InsertDuplicate, RereadExisting, ReserveLine, CommitOrder,
     PublishMessage, AuthorizePayment, BreakDeadlock, RollBack
<1>2. ASSUME NEW s \in Requests, RemoveOrder(s)
      PROVE  placed' = placed
  BY <1>2 DEF RemoveOrder
<1>3. ASSUME NEW a \in Patchers, PatchStock(a)
      PROVE  placed' = placed
  BY <1>3 DEF PatchStock, PatchRead, PatchDiff, PatchUpdate
<1> QED BY <1>1, <1>2, <1>3 DEF Next, vars

\* "Atomic: order + items + stock reservation in single transaction": for any
\* number of lines on any products and whatever runs next to it, the step that
\* places an order adds its demand to what is reserved.
THEOREM ReservationIsExact == Spec => ReservesExactly
<1> DEFINE Exact == \A r \in placed' \ placed : \A p \in Products :
                      stock'[p].reserved = stock[p].reserved + Demand(r, p)
<1>1. IInv /\ AtomicInv /\ [Next]_vars => [Exact]_vars
  BY CommitReserves, PlacedByCommit
<1> QED BY <1>1, Inductive, AtomicInductive, PTL DEF Spec, ReservesExactly

----------------------------------------------------------------------------
(* The books                                                               *)

\* What is reserved of a product, as long as no PATCH has written.
Balanced == \A p \in Products : stock[p].reserved = Cardinality(Pieces(PlacedOn(p)))

\* The lines of the orders placed so far are finitely many.
LEMMA PlacedOnFinite ==
  ASSUME TypeOK, NEW p
  PROVE  PlacedOn(p) \in SUBSET Lines /\ IsFiniteSet(PlacedOn(p))
<1> DEFINE of == [r \in placed |-> LinesOf[r]]
           All == {of[r] : r \in placed}
<1>1. IsFiniteSet(placed)
  BY RequestsAssumption, FS_Subset DEF TypeOK
<1>2. \A T \in All : IsFiniteSet(T)
  BY RequestsAssumption DEF TypeOK
<1>3. of \in Surjection(placed, All)
  BY DEF Surjection
<1>4. PlacedOn(p) \subseteq UNION All
  BY DEF PlacedOn
<1> HIDE DEF of
<1>5. IsFiniteSet(All)
  BY <1>1, <1>3, FS_Surjection
<1> HIDE DEF All
<1>6. IsFiniteSet(UNION All)
  BY <1>2, <1>5, FS_UNION
<1>7. IsFiniteSet(PlacedOn(p))
  BY <1>4, <1>6, FS_Subset
<1> QED BY <1>7 DEF PlacedOn

\* A commit enters its demand and its lines together.
LEMMA CommitBalances ==
  ASSUME IInv, AtomicInv, Balanced, NEW r \in Requests, CommitOrder(r)
  PROVE  Balanced'
<1> SUFFICES ASSUME NEW p \in Products
             PROVE  stock'[p].reserved = Cardinality(Pieces(PlacedOn(p)'))
  BY DEF Balanced, Pieces
<1>0. TypeOK /\ r \notin placed /\ placed' = placed \cup {r} /\ placed \subseteq Requests
  BY DEF IInv, CommitOrder, TracesFollowCommit, Uncommitted, OpenTx, TypeOK
<1>1. PlacedOn(p)' = PlacedOn(p) \cup LinesOn(r, p)
  BY <1>0, RequestsAssumption DEF PlacedOn, LinesOn
<1>2. PlacedOn(p) \cap LinesOn(r, p) = {}
  BY <1>0, RequestsAssumption DEF PlacedOn, LinesOn
<1>3. LinesOn(r, p) \in SUBSET Lines /\ IsFiniteSet(LinesOn(r, p))
  <2>1. LinesOn(r, p) \ {} = LinesOn(r, p)
    OBVIOUS
  <2> QED BY <2>1, LinesOnFinite
<1>4. Cardinality(Pieces(PlacedOn(p) \cup LinesOn(r, p)))
        = Cardinality(Pieces(PlacedOn(p))) + Demand(r, p)
  BY <1>0, <1>2, <1>3, PlacedOnFinite, PiecesUnion DEF Demand
<1>5. stock[p].reserved = Cardinality(Pieces(PlacedOn(p)))
  BY DEF Balanced
<1>6. stock'[p].reserved = stock[p].reserved + Demand(r, p)
  BY CommitReserves
<1> QED BY <1>1, <1>4, <1>5, <1>6

\* No other step of create(), and no removal, touches stock or adds an order.
LEMMA NextBalances ==
  ASSUME IInv, AtomicInv, ReservationsAddUp, [Next]_vars
  PROVE  ReservationsAddUp'
<1> SUFFICES ASSUME \A a \in Patchers : patch'[a] # PatchDone
             PROVE  Balanced'
  BY DEF ReservationsAddUp, Balanced, Pieces
<1>1. CASE UNCHANGED <<stock, placed, patch>>
  BY <1>1 DEF ReservationsAddUp, Balanced, PlacedOn, Pieces
<1>2. ASSUME NEW r \in Requests, CommitOrder(r)
      PROVE  Balanced'
  <2>1. Balanced
    BY <1>2 DEF CommitOrder, ReservationsAddUp, Balanced
  <2> QED BY <1>2, <2>1, CommitBalances
<1>3. ASSUME NEW a \in Patchers, PatchStock(a)
      PROVE  Balanced'
  <2>1. UNCHANGED <<stock, placed>> /\ \A b \in Patchers : patch[b] # PatchDone
    BY <1>3 DEF PatchStock, PatchRead, PatchDiff, PatchUpdate, IInv, TypeOK, PatchDone, NoPatch
  <2> QED BY <2>1 DEF ReservationsAddUp, Balanced, PlacedOn, Pieces
<1>4. \/ UNCHANGED <<stock, placed, patch>>
      \/ \E r \in Requests : CommitOrder(r)
      \/ \E a \in Patchers : PatchStock(a)
  BY DEF Next, vars, Advance, Interrupt, ReplayExisting, BeginTransaction, LockStockRow,
     CheckStock, RejectOrder, InsertOrder, InsertDuplicate, RereadExisting, ReserveLine,
     PublishMessage, AuthorizePayment, BreakDeadlock, RollBack, RemoveOrder
<1> QED BY <1>1, <1>2, <1>3, <1>4

\* However requests race, fail and are retried, the reserved columns are the
\* sum of the lines of the orders placed, until a PATCH writes a stock row.
THEOREM BooksBalance == Spec => []ReservationsAddUp
<1>1. Init => ReservationsAddUp
  <2> SUFFICES ASSUME Init, NEW p \in Products
               PROVE  stock[p].reserved = Cardinality(Pieces(PlacedOn(p)))
    BY DEF ReservationsAddUp
  <2>1. PlacedOn(p) = {}
    BY DEF Init, PlacedOn
  <2> QED BY <2>1, NoPieces DEF Init
<1> QED BY <1>1, NextBalances, Inductive, AtomicInductive, PTL DEF Spec

----------------------------------------------------------------------------
(* create() implements OrderPlacement                                      *)

\* What a request that has not answered knows of itself.
LEMMA StillOpen ==
  ASSUME IInv, NEW r \in Requests, pc[r] # "done"
  PROVE  /\ answer[r] = "none"
         /\ pc[r] \in Uncommitted => r \notin placed
         /\ pc[r] = "published" => r \in placed
  BY DEF IInv, TracesFollowCommit

\* Both replays return an order that is there.
LEMMA ReplayIsTrue ==
  ASSUME IInv, NEW r \in Requests, ReplayExisting(r) \/ RereadExisting(r)
  PROVE  Placement!Replay(r) \/ Placement!Fail(r)
<1>1. /\ pc[r] \in {"new", "reread"} /\ UNCHANGED <<stock, placed, present>>
      /\ \/ Existing(r) /\ answer' = [answer EXCEPT ![r] = "replayed"]
         \/ answer' = [answer EXCEPT ![r] = "error"]
  BY DEF ReplayExisting, RereadExisting, Reply
<1>2. answer[r] = "none" /\ r \notin placed
  BY <1>1, StillOpen DEF Uncommitted
<1>3. Existing(r) => Placement!Taken(r)
  BY DEF Existing, Placement!Taken, IInv, TypeOK
<1> QED BY <1>1, <1>2, <1>3
    DEF Placement!Replay, Placement!Fail, Placement!Open, Placement!Tell

\* A conflict is decided on locked rows, which are the committed ones.
LEMMA RefusalIsTrue ==
  ASSUME IInv, NEW r \in Requests, RejectOrder(r)
  PROVE  Placement!Refuse(r)
<1>1. /\ pc[r] = "locking" /\ Wanted(r) = {} /\ ~EveryLineFits(r)
      /\ UNCHANGED <<stock, placed, present>>
      /\ answer' = [answer EXCEPT ![r] = "conflict"]
  BY DEF RejectOrder, Reply, RollBack
<1>2. answer[r] = "none" /\ r \notin placed
  BY <1>1, StillOpen DEF Uncommitted, OpenTx
<1>3. ~Placement!Available(r)
  <2>1. PICK l \in LinesOf[r] :
          ~(/\ ProductOf[l] \in Stocked
            /\ work[r][ProductOf[l]].stock - work[r][ProductOf[l]].reserved >= AmountOf[l])
    BY <1>1 DEF EveryLineFits
  <2>2. CASE ProductOf[l] \notin Stocked
    BY <2>2 DEF Placement!Available
  <2>3. CASE ProductOf[l] \in Stocked
    <3>1. ProductOf[l] \in Products /\ lock[ProductOf[l]] = r
      BY <1>1, <2>3, RequestsAssumption DEF Wanted, ProductsOf, Locked
    <3>2. /\ work[r][ProductOf[l]].stock = stock[ProductOf[l]].stock
          /\ work[r][ProductOf[l]].reserved = stock[ProductOf[l]].reserved
      BY <1>1, <3>1 DEF IInv, WorkMirrorsStock
    <3> QED BY <2>1, <2>3, <3>2 DEF Placement!Available
  <2> QED BY <2>2, <2>3
<1> QED BY <1>1, <1>2, <1>3 DEF Placement!Refuse, Placement!Open, Placement!Tell

\* A commit is a placement: the check still holds, the key is still free, and
\* the reserved columns it publishes are its demand.
LEMMA CommitPlaces ==
  ASSUME IInv, AtomicInv, NEW r \in Requests, CommitOrder(r)
  PROVE  Placement!Place(r)
<1>1. pc[r] = "inserted" /\ placed' = placed \cup {r} /\ present' = present \cup {r}
      /\ answer' = answer
  BY DEF CommitOrder
<1>2. answer[r] = "none" /\ r \notin placed
  BY <1>1, StillOpen DEF Uncommitted, OpenTx
<1>3. ~Placement!Taken(r)
  BY <1>1 DEF IInv, KeysAreFree, Placement!Taken
<1>4. Placement!Available(r)
  BY <1>1 DEF AtomicInv, FitsCommitted, Placement!Available
<1>5. stock' = [p \in Products |-> [stock[p] EXCEPT !.reserved = @ + Demand(r, p)]]
  BY CommitReserves
<1> QED BY <1>1, <1>2, <1>3, <1>4, <1>5 DEF Placement!Place, Placement!Open

\* The other steps of create() do not touch orders, stock or answers, or they
\* are an answer that promises nothing.
LEMMA RequestRefines ==
  ASSUME IInv, AtomicInv, NEW r \in Requests, Advance(r) \/ Interrupt(r)
  PROVE  (\E s \in Requests : \/ Placement!Place(s) \/ Placement!Refuse(s)
                              \/ Placement!Replay(s) \/ Placement!Confirm(s)
                              \/ Placement!Fail(s))
         \/ UNCHANGED <<stock, placed, present, answer>>
<1>1. CASE ReplayExisting(r) \/ RereadExisting(r)
  BY <1>1, ReplayIsTrue
<1>2. CASE RejectOrder(r)
  BY <1>2, RefusalIsTrue
<1>3. CASE CommitOrder(r)
  BY <1>3, CommitPlaces
<1>4. CASE PublishMessage(r) \/ Interrupt(r) \/ BreakDeadlock(r)
  <2>1. pc[r] # "done"
    <3>1. CASE PublishMessage(r) \/ Interrupt(r)
      BY <3>1 DEF PublishMessage, Interrupt
    <3>2. CASE BreakDeadlock(r)
      BY <3>2 DEF BreakDeadlock, Deadlocked
    <3> QED BY <1>4, <3>1, <3>2
  <2>2. UNCHANGED <<stock, placed, present>>
        /\ (answer' = answer \/ answer' = [answer EXCEPT ![r] = "error"])
    BY <1>4 DEF PublishMessage, PublishFailed, Interrupt, BreakDeadlock, RollBack, Reply
  <2>3. answer[r] = "none"
    BY <2>1, StillOpen
  <2> QED BY <2>2, <2>3 DEF Placement!Fail, Placement!Open, Placement!Tell
<1>5. CASE AuthorizePayment(r)
  <2>1. PICK a \in {"created", "unpaid", "error"} :
          answer' = [answer EXCEPT ![r] = a] /\ UNCHANGED <<stock, placed, present>>
    BY <1>5 DEF AuthorizePayment, Reply
  <2>2. answer[r] = "none" /\ r \in placed
    BY <1>5, StillOpen DEF AuthorizePayment
  <2> QED BY <2>1, <2>2
      DEF Placement!Confirm, Placement!Fail, Placement!Open, Placement!Tell
<1>6. \/ ReplayExisting(r) \/ RereadExisting(r) \/ RejectOrder(r) \/ CommitOrder(r)
      \/ PublishMessage(r) \/ Interrupt(r) \/ BreakDeadlock(r) \/ AuthorizePayment(r)
      \/ UNCHANGED <<stock, placed, present, answer>>
  BY DEF Advance, BeginTransaction, LockStockRow, CheckStock, InsertOrder, SeenOnInsert,
     InsertDuplicate, RollBack, ReserveLine
<1> QED BY <1>1, <1>2, <1>3, <1>4, <1>5, <1>6

\* A stock PATCH overwrites one row.
LEMMA PatchRefines ==
  ASSUME IInv, IInv', NEW a \in Patchers, PatchStock(a)
  PROVE  \/ \E p \in Stocked : Placement!Overwrite(p)
         \/ UNCHANGED <<stock, placed, present, answer>>
<1>1. CASE PatchUpdate(a)
  <2>1. patch[a].product \in Stocked
    BY <1>1 DEF PatchUpdate, IInv, TypeOK, Patch, NoPatch, PatchDone
  <2>2. stock' \in [Products -> [stock : Nat, reserved : Nat]]
    BY DEF IInv, TypeOK, Row
  <2>3. \A q \in Products \ {patch[a].product} : stock'[q] = stock[q]
    BY <1>1 DEF PatchUpdate, IInv, TypeOK
  <2>4. UNCHANGED <<placed, present, answer>>
    BY <1>1 DEF PatchUpdate
  <2> QED BY <2>1, <2>2, <2>3, <2>4 DEF Placement!Overwrite
<1>2. CASE ~PatchUpdate(a)
  BY <1>2 DEF PatchStock, PatchRead, PatchDiff
<1> QED BY <1>1, <1>2

\* Every step of the system is a step of OrderPlacement or invisible there.
LEMMA StepRefinesPlacement ==
  IInv /\ IInv' /\ AtomicInv /\ [Next]_vars => [Placement!Next]_(Placement!placementVars)
<1> SUFFICES ASSUME IInv, IInv', AtomicInv, [Next]_vars
             PROVE  Placement!Next \/ UNCHANGED <<stock, placed, present, answer>>
  BY DEF Placement!placementVars
<1>1. ASSUME NEW r \in Requests, Advance(r) \/ Interrupt(r)
      PROVE  Placement!Next \/ UNCHANGED <<stock, placed, present, answer>>
  BY <1>1, RequestRefines DEF Placement!Next
<1>2. ASSUME NEW r \in Requests, RemoveOrder(r)
      PROVE  Placement!Next
  BY <1>2 DEF RemoveOrder, Placement!Next, Placement!Remove
<1>3. ASSUME NEW a \in Patchers, PatchStock(a)
      PROVE  Placement!Next \/ UNCHANGED <<stock, placed, present, answer>>
  BY <1>3, PatchRefines DEF Placement!Next
<1> QED BY <1>1, <1>2, <1>3 DEF Next, vars

\* create() is atomic: locks, waits, rollbacks and retries included, every
\* behaviour is one in which a request takes effect in a single step on the
\* stock of that moment, and is answered with what was true of one.
THEOREM RefinesPlacement == Spec => ImplementsPlacement
<1>1. Init => Placement!Init
  BY StockAssumption, RequestsAssumption DEF Init, Placement!Init
<1> QED BY <1>1, StepRefinesPlacement, Inductive, AtomicInductive, PTL
    DEF Spec, ImplementsPlacement, Placement!Spec

----------------------------------------------------------------------------
(* Oversell                                                                *)

\* When no request names a product twice, reserving one line takes nothing
\* from what another line of the request was promised.
LEMMA LinesFitStep ==
  ASSUME DistinctLines, IInv, LinesFit, TypeOK',
         NEW r \in Requests, Advance(r) \/ Interrupt(r)
  PROVE  LinesFit'
<1> SUFFICES ASSUME NEW s \in Requests, pc'[s] \in {"checked", "inserted"},
                    NEW m \in LinesOf[s]
             PROVE  work'[s][ProductOf[m]].reserved
                      + (IF m \in todo'[s] THEN AmountOf[m] ELSE 0)
                    <= work'[s][ProductOf[m]].stock
  BY DEF LinesFit
<1>0. m \in Lines /\ ProductOf[m] \in Products /\ AmountOf[m] \in Nat
      /\ TypeOK /\ ChecksHoldLocks
  BY RequestsAssumption DEF IInv
<1>1. CASE s # r
  BY <1>0, <1>1, OthersUntouched DEF LinesFit
<1>2. CASE s = r
  <2>1. CheckStock(r) \/ InsertOrder(r) \/ \E l \in Lines : ReserveLine(r, l)
    BY <1>0, <1>2 DEF Advance, Interrupt, ReplayExisting, BeginTransaction, LockStockRow,
       RejectOrder, InsertDuplicate, RereadExisting, CommitOrder,
       PublishMessage, PublishFailed, AuthorizePayment, BreakDeadlock, Goto, Reply, TypeOK
  <2>2. CASE CheckStock(r)
    <3>1. work[r][ProductOf[m]].stock - work[r][ProductOf[m]].reserved >= AmountOf[m]
          /\ work' = work
      BY <1>2, <2>2 DEF CheckStock, EveryLineFits
    <3>2. work[r][ProductOf[m]].stock \in Nat /\ work[r][ProductOf[m]].reserved \in Nat
      BY <1>0 DEF TypeOK, Row
    <3> QED BY <1>0, <1>2, <3>1, <3>2
  <2>3. CASE InsertOrder(r)
    BY <1>2, <2>3 DEF InsertOrder, LinesFit
  <2>4. ASSUME NEW l \in Lines, ReserveLine(r, l)
        PROVE  work'[r][ProductOf[m]].reserved
                 + (IF m \in todo'[r] THEN AmountOf[m] ELSE 0)
               <= work'[r][ProductOf[m]].stock
    <3>1. pc[r] = "inserted" /\ l \in todo[r] /\ l \in LinesOf[r]
      BY <1>0, <2>4 DEF ReserveLine, ChecksHoldLocks
    <3>2. ProductOf[l] \in Products /\ AmountOf[l] \in Nat
      BY RequestsAssumption
    <3>3. work' = [work EXCEPT ![r] =
                     [work[r] EXCEPT ![ProductOf[l]] =
                        [work[r][ProductOf[l]] EXCEPT
                           !.reserved = work[r][ProductOf[l]].reserved + AmountOf[l]]]]
          /\ todo' = [todo EXCEPT ![r] = todo[r] \ {l}]
      BY <2>4 DEF ReserveLine
    <3>4. todo'[r] = todo[r] \ {l}
      BY <1>0, <3>3 DEF TypeOK
    <3>5. work[r][ProductOf[m]].reserved + (IF m \in todo[r] THEN AmountOf[m] ELSE 0)
            <= work[r][ProductOf[m]].stock
      BY <1>2, <3>1 DEF LinesFit
    <3>6. CASE m = l
      <4>1. work[r][ProductOf[l]] \in Row
        BY <1>0, <3>2 DEF TypeOK
      <4>2. /\ work'[r][ProductOf[l]].reserved = work[r][ProductOf[l]].reserved + AmountOf[l]
            /\ work'[r][ProductOf[l]].stock = work[r][ProductOf[l]].stock
        BY <1>0, <3>2, <3>3, <4>1 DEF TypeOK, Row
      <4>3. m \notin todo'[r] /\ work[r][ProductOf[l]].reserved \in Nat
            /\ work[r][ProductOf[l]].stock \in Nat
        BY <3>4, <3>6, <4>1 DEF Row
      <4> QED BY <3>1, <3>2, <3>5, <3>6, <4>2, <4>3
    <3>7. CASE m # l
      <4>1. ProductOf[m] # ProductOf[l]
        BY <1>2, <3>1, <3>7 DEF DistinctLines
      <4>2. work'[r][ProductOf[m]] = work[r][ProductOf[m]]
        BY <1>0, <3>2, <3>3, <4>1 DEF TypeOK
      <4> QED BY <3>4, <3>5, <3>7, <4>2
    <3> QED BY <3>6, <3>7
  <2> QED BY <1>2, <2>1, <2>2, <2>3, <2>4
<1> QED BY <1>1, <1>2

\* LinesFit joins the inductive invariant.
LEMMA NextLinesFit ==
  ASSUME DistinctLines
  PROVE  IInv /\ LinesFit /\ [Next]_vars => LinesFit'
<1> SUFFICES ASSUME IInv, LinesFit, [Next]_vars PROVE LinesFit'
  OBVIOUS
<1>0. TypeOK'
  BY NextIInv DEF IInv
<1>1. ASSUME UNCHANGED <<pc, work, todo>>
      PROVE  LinesFit'
  BY <1>1 DEF LinesFit
<1>2. ASSUME NEW r \in Requests, RemoveOrder(r)
      PROVE  UNCHANGED <<pc, work, todo>>
  BY <1>2 DEF RemoveOrder
<1>3. ASSUME NEW a \in Patchers, PatchStock(a)
      PROVE  UNCHANGED <<pc, work, todo>>
  BY <1>3 DEF PatchStock, PatchRead, PatchDiff, PatchUpdate
<1>4. CASE UNCHANGED vars
  BY <1>1, <1>4 DEF vars
<1> QED BY <1>0, <1>1, <1>2, <1>3, <1>4, LinesFitStep DEF Next

\* Commits publish what fits.
LEMMA CommitFits ==
  ASSUME IInv, LinesFit, [Next]_vars, NEW r \in placed' \ placed, NEW p \in ProductsOf(r)
  PROVE  stock'[p].reserved <= stock'[p].stock
<1>0. TypeOK /\ ChecksHoldLocks /\ WorkMirrorsStock
  BY DEF IInv
<1>1. CommitOrder(r) /\ r \in Requests
  BY PlacedByCommit
<1>2. PICK l \in LinesOf[r] : ProductOf[l] = p
  BY DEF ProductsOf
<1>3. p \in Products
  BY <1>1, <1>2, RequestsAssumption
<1>4. pc[r] = "inserted" /\ todo[r] = {} /\ stock' = CommittedRows(r)
  BY <1>1 DEF CommitOrder, AllReserved
<1>5. lock[p] = r
  BY <1>0, <1>1, <1>2, <1>4 DEF ChecksHoldLocks
<1>6. work[r][p] \in Row /\ stock[p] \in Row
  BY <1>0, <1>1, <1>3 DEF TypeOK
<1>7. work[r][p].stock = stock[p].stock
  BY <1>0, <1>1, <1>3, <1>5 DEF WorkMirrorsStock
<1>8. work[r][p].reserved + 0 <= work[r][p].stock
  BY <1>1, <1>2, <1>4 DEF LinesFit
<1>9. stock'[p] = [stock[p] EXCEPT !.reserved = work[r][p].reserved]
  BY <1>3, <1>4 DEF CommittedRows
<1>10. stock'[p].reserved = work[r][p].reserved /\ stock'[p].stock = stock[p].stock
  BY <1>6, <1>9 DEF Row
<1> QED BY <1>6, <1>7, <1>8, <1>10 DEF Row

\* "Pessimistic locking on stocks ... to prevent oversell", for every number of
\* concurrent requests and PATCHes, as long as no request names a product on
\* two of its lines.
THEOREM NoOversell ==
  ASSUME DistinctLines
  PROVE  Spec => CommitNeverOversells
<1> DEFINE Fits == \A r \in placed' \ placed : \A p \in ProductsOf(r) :
                     stock'[p].reserved <= stock'[p].stock
<1>1. Init => IInv /\ LinesFit
  <2>1. Init => LinesFit
    BY DEF Init, LinesFit
  <2> QED BY <2>1, InitIInv
<1>2. IInv /\ LinesFit /\ [Next]_vars => (IInv /\ LinesFit)'
  BY NextIInv, NextLinesFit
<1>3. IInv /\ LinesFit /\ [Next]_vars => [Fits]_vars
  BY CommitFits
<1> QED BY <1>1, <1>2, <1>3, PTL DEF Spec, CommitNeverOversells
=============================================================================
