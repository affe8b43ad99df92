---------------------------- MODULE OrderCreate ----------------------------
(***************************************************************************)
(* Concurrent POST /orders requests running OrdersService.create: the      *)
(* unlocked idempotency check, the transaction that locks the stock rows,  *)
(* checks availability, inserts the order and reserves stock, then the     *)
(* publish and the payment authorization after the commit; next to them    *)
(* StocksService.updateByProductId (PATCH of a stock row, which takes no   *)
(* lock) and OrdersService.remove.                                         *)
(*                                                                         *)
(* The database is PostgreSQL under READ COMMITTED: SELECT ... FOR UPDATE  *)
(* waits for the rows' locks and then reads their latest committed         *)
(* versions, an INSERT waits for an open transaction that inserted the     *)
(* same unique key, and a cycle of lock waits costs one transaction of the *)
(* cycle its life.                                                         *)
(***************************************************************************)
EXTENDS Integers, FiniteSets

LOCAL INSTANCE FiniteSetsExt

CONSTANTS
  Requests,     \* POST /orders requests; an order is known by its request
  Products,
  Stocked,      \* products that have a stock row
  Lines,        \* order lines: dto.items of all requests
  LinesOf,      \* the lines of a request
  ProductOf,    \* the product of a line
  AmountOf,     \* the amount of a line
  KeyOf,        \* dto.idempotencyKey of a request, or NoKey
  NoKey,
  InitialStock, \* stock on hand of every product at the start
  Patchers,     \* PATCH /stocks/:productId requests
  PatchColumns, \* columns a PATCH may set: "stock", "reserved"
  PatchValues,  \* values it may give them
  Free          \* the holder of a row lock nobody holds

ASSUME RequestsAssumption ==
  /\ IsFiniteSet(Requests) /\ Free \notin Requests
  /\ Stocked \subseteq Products
  /\ LinesOf \in [Requests -> SUBSET Lines]
  /\ \A r \in Requests : IsFiniteSet(LinesOf[r])
  /\ ProductOf \in [Lines -> Products]
  /\ AmountOf \in [Lines -> Nat \ {0}]
  /\ \A r, s \in Requests : r # s => LinesOf[r] \cap LinesOf[s] = {}
ASSUME StockAssumption ==
  /\ InitialStock \in [Products -> Nat]
  /\ PatchColumns \subseteq {"stock", "reserved"}
  /\ PatchValues \subseteq Nat
ASSUME KeyAssumption == DOMAIN KeyOf = Requests

VARIABLES
  stock,    \* committed stock rows: [stock, reserved]
  lock,     \* holder of a stock row's lock
  placed,   \* history: requests whose order was committed
  present,  \* orders rows that exist
  pc,       \* where a request stands in create()
  work,     \* a transaction's copy of the stock rows it has locked
  todo,     \* the lines a transaction has still to reserve
  answer,   \* what the client was told
  charged,  \* orders for which Payments.Authorize was called
  sent,     \* orders whose orders.process message was published
  patch     \* stock PATCHes under way: [pc, product, row, cols]

vars == <<stock, lock, placed, present, pc, work, todo, answer, charged, sent, patch>>

----------------------------------------------------------------------------
(* Types *)

Row == [stock : Nat, reserved : Nat]
NoRow == [stock |-> 0, reserved |-> 0]

\* Where create() stands:
\*   new       not started            locking   BEGIN done, taking row locks
\*   checked   availability verified  inserted  order and items inserted
\*   reread    23505 rolled back      committed COMMIT done
\*   published message handed over    done      answered
OpenTx == {"locking", "checked", "inserted"}
PCs == {"new", "reread", "committed", "published", "done"} \cup OpenTx

\* 201 and 200, 409, 503/504 from the payment call, 500.
Answers == {"none", "created", "replayed", "conflict", "unpaid", "error"}

NoPatch   == [pc |-> "new"]
PatchDone == [pc |-> "done"]
Patch   == [pc : {"read", "diffed"}, product : Stocked, row : Row,
            cols : SUBSET {"stock", "reserved"}]

TypeOK ==
  /\ stock \in [Products -> Row]
  /\ lock \in [Products -> Requests \cup {Free}]
  /\ placed \subseteq Requests
  /\ present \subseteq placed
  /\ pc \in [Requests -> PCs]
  /\ work \in [Requests -> [Products -> Row]]
  /\ todo \in [Requests -> SUBSET Lines]
  /\ answer \in [Requests -> Answers]
  /\ charged \subseteq Requests
  /\ sent \subseteq Requests
  /\ patch \in [Patchers -> {NoPatch, PatchDone} \cup Patch]

----------------------------------------------------------------------------
(* Helpers *)

ProductsOf(r) == {ProductOf[l] : l \in LinesOf[r]}
Locked(r)     == {p \in Products : lock[p] = r}
Wanted(r)     == (ProductsOf(r) \cap Stocked) \ Locked(r)

SameKey(r, s) == r # s /\ KeyOf[r] # NoKey /\ KeyOf[r] = KeyOf[s]

\* An orders row with r's idempotency key that other statements can see.
Existing(r) == \E s \in present : SameKey(r, s)

\* An open transaction has inserted an order with r's key: the partial unique
\* index makes r's INSERT wait.
NoKeyHeld(r) == FALSE   \* mutant: idempotency_key without its unique index
KeyHeld(r)   == \E s \in Requests : SameKey(r, s) /\ pc[s] = "inserted"

\* stock - reserved >= amount, line by line, on the rows as they were locked.
FitsStockOnHand(r) ==   \* mutant: stock >= amount
  \A l \in LinesOf[r] : /\ ProductOf[l] \in Stocked
                         /\ work[r][ProductOf[l]].stock >= AmountOf[l]
EveryLineFits(r) ==
  \A l \in LinesOf[r] :
    LET p == ProductOf[l] IN
      /\ p \in Stocked
      /\ work[r][p].stock - work[r][p].reserved >= AmountOf[l]

Goto(r, l)   == pc' = [pc EXCEPT ![r] = l]
Reply(r, a)  == pc' = [pc EXCEPT ![r] = "done"] /\ answer' = [answer EXCEPT ![r] = a]

\* COMMIT and ROLLBACK release the row locks of the transaction.
KeepLocks(r)    == UNCHANGED lock   \* mutant: the connection keeps its transaction open
ReleaseLocks(r) == lock' = [p \in Products |-> IF lock[p] = r THEN Free ELSE lock[p]]

----------------------------------------------------------------------------
Init ==
  /\ stock = [p \in Products |-> [stock |-> IF p \in Stocked THEN InitialStock[p] ELSE 0,
                                  reserved |-> 0]]
  /\ lock = [p \in Products |-> Free]
  /\ placed = {}
  /\ present = {}
  /\ pc = [r \in Requests |-> "new"]
  /\ work = [r \in Requests |-> [p \in Products |-> NoRow]]
  /\ todo = [r \in Requests |-> {}]
  /\ answer = [r \in Requests |-> "none"]
  /\ charged = {}
  /\ sent = {}
  /\ patch = [a \in Patchers |-> NoPatch]

----------------------------------------------------------------------------
(* OrdersService.create *)

\* The idempotency check outside the transaction finds the key: 200.
ReplayExisting(r) ==
  /\ pc[r] = "new"
  /\ Existing(r)
  /\ Reply(r, "replayed")
  /\ UNCHANGED <<stock, lock, placed, present, work, todo, charged, sent, patch>>

\* It does not: BEGIN.
BeginTransaction(r) ==
  /\ pc[r] = "new"
  /\ ~Existing(r)
  /\ Goto(r, "locking")
  /\ UNCHANGED <<stock, lock, placed, present, work, todo, answer, charged, sent, patch>>

\* SELECT ... WHERE product_id IN (...) FOR UPDATE, one row at a time and in
\* no order the code chooses.  The row is read once its lock is held.
IgnoreLock(r, p) == TRUE             \* mutant: a plain SELECT
MayLock(r, p)    == lock[p] = Free

LockStockRow(r, p) ==
  /\ pc[r] = "locking"
  /\ p \in Wanted(r)
  /\ MayLock(r, p)
  /\ lock' = [lock EXCEPT ![p] = r]
  /\ work' = [work EXCEPT ![r][p] = stock[p]]
  /\ UNCHANGED <<stock, placed, present, pc, todo, answer, charged, sent, patch>>

\* All rows locked and every line fits.
CheckStock(r) ==
  /\ pc[r] = "locking"
  /\ Wanted(r) = {}
  /\ EveryLineFits(r)
  /\ Goto(r, "checked")
  /\ todo' = [todo EXCEPT ![r] = LinesOf[r]]
  /\ UNCHANGED <<stock, lock, placed, present, work, answer, charged, sent, patch>>

\* ROLLBACK, whatever follows it.
RollBack(r) ==
  /\ ReleaseLocks(r)
  /\ work' = [work EXCEPT ![r] = [p \in Products |-> NoRow]]
  /\ todo' = [todo EXCEPT ![r] = {}]
  /\ UNCHANGED <<stock, placed, present, charged, sent, patch>>

\* ConflictException: no stock row, or not enough.
RejectOrder(r) ==
  /\ pc[r] = "locking"
  /\ Wanted(r) = {}
  /\ ~EveryLineFits(r)
  /\ Reply(r, "conflict")
  /\ RollBack(r)

\* The orders rows other statements see after the INSERT.
SeenAtOnce(r)   == present \cup {r}   \* mutant: saved outside the transaction
SeenOnInsert(r) == present

\* INSERT INTO orders, order_items: status PENDING, r's idempotency key.
InsertOrder(r) ==
  /\ pc[r] = "checked"
  /\ ~KeyHeld(r)
  /\ ~Existing(r)
  /\ Goto(r, "inserted")
  /\ present' = SeenOnInsert(r)
  /\ UNCHANGED <<stock, lock, placed, work, todo, answer, charged, sent, patch>>

\* 23505: another request committed the same key meanwhile.
InsertDuplicate(r) ==
  /\ pc[r] = "checked"
  /\ ~KeyHeld(r)
  /\ Existing(r)
  /\ Goto(r, "reread")
  /\ RollBack(r)
  /\ UNCHANGED answer

\* The catch block reads the other order; it may have been removed by now.
RereadExisting(r) ==
  /\ pc[r] = "reread"
  /\ Reply(r, IF Existing(r) THEN "replayed" ELSE "error")
  /\ UNCHANGED <<stock, lock, placed, present, work, todo, charged, sent, patch>>

\* stock.reserved += item.amount on the entity of the locked row, and save.
ReserveLine(r, l) ==
  /\ pc[r] = "inserted"
  /\ l \in todo[r]
  /\ work' = [work EXCEPT ![r][ProductOf[l]].reserved = @ + AmountOf[l]]
  /\ todo' = [todo EXCEPT ![r] = @ \ {l}]
  /\ UNCHANGED <<stock, lock, placed, present, pc, answer, charged, sent, patch>>

\* The stock rows a commit publishes: only the reserved column was written.
CommittedRows(r) ==
  [p \in Products |-> IF p \in ProductsOf(r)
                        THEN [stock[p] EXCEPT !.reserved = work[r][p].reserved]
                        ELSE stock[p]]

\* The loop has awaited the save of every line's stock row.
CommitEarly(r) == TRUE   \* mutant: the saves are not awaited
AllReserved(r) == todo[r] = {}

\* COMMIT.
CommitOrder(r) ==
  /\ pc[r] = "inserted"
  /\ AllReserved(r)
  /\ stock' = CommittedRows(r)
  /\ ReleaseLocks(r)
  /\ placed' = placed \cup {r}
  /\ present' = present \cup {r}
  /\ work' = [work EXCEPT ![r] = [p \in Products |-> NoRow]]
  /\ Goto(r, "committed")
  /\ UNCHANGED <<todo, answer, charged, sent, patch>>

\* What a publish that throws makes of the request.
SwallowPublishError(r) == Goto(r, "published") /\ UNCHANGED answer   \* mutant
PublishFailed(r)       == Reply(r, "error")

\* publishToQueue('orders.process', ...), which throws on a dead channel: the
\* order stays, the client gets 500 and nothing is charged.
PublishMessage(r) ==
  /\ pc[r] = "committed"
  /\ \/ /\ Goto(r, "published")
        /\ sent' = sent \cup {r}
        /\ UNCHANGED answer
     \/ /\ PublishFailed(r)
        /\ UNCHANGED sent
  /\ UNCHANGED <<stock, lock, placed, present, work, todo, charged, patch>>

\* Payments.Authorize with its deadline: 201 with the payment, 503/504, 500.
AuthorizePayment(r) ==
  /\ pc[r] = "published"
  /\ charged' = charged \cup {r}
  /\ \E a \in {"created", "unpaid", "error"} : Reply(r, a)
  /\ UNCHANGED <<stock, lock, placed, present, work, todo, sent, patch>>

\* A statement fails, or the process dies: what is open rolls back, what is
\* committed stays, and the rest of create() does not happen.
Interrupt(r) ==
  /\ pc[r] # "done"
  /\ Reply(r, "error")
  /\ RollBack(r)

\* Requests that wait for each other's rows: every member of the cycle wants
\* a row another member holds.
Deadlocked(r) ==
  \E C \in SUBSET Requests :
    /\ r \in C
    /\ \A s \in C : pc[s] = "locking" /\ \E p \in Wanted(s) : lock[p] \in C

\* 40P01: PostgreSQL aborts one transaction of the cycle, create() answers 500.
BreakDeadlock(r) ==
  /\ Deadlocked(r)
  /\ Reply(r, "error")
  /\ RollBack(r)

----------------------------------------------------------------------------
(* OrdersService.remove and StocksService.updateByProductId *)

\* DELETE of the order row; its reservation stays in the stock rows.
RemoveOrder(r) ==
  /\ r \in present
  /\ present' = present \ {r}
  /\ UNCHANGED <<stock, lock, placed, pc, work, todo, answer, charged, sent, patch>>

\* findByProductId, then Object.assign(stock, dto) on the entity.
PatchRead(a, p) ==
  /\ patch[a] = NoPatch
  /\ \E cols \in SUBSET PatchColumns, v \in PatchValues :
       patch' = [patch EXCEPT ![a] =
         [pc |-> "read", product |-> p, cols |-> {},
          row |-> [stock    |-> IF "stock" \in cols THEN v ELSE stock[p].stock,
                   reserved |-> IF "reserved" \in cols THEN v ELSE stock[p].reserved]]]
  /\ UNCHANGED <<stock, lock, placed, present, pc, work, todo, answer, charged, sent>>

\* save() re-selects the row and keeps the columns in which the entity differs.
PatchDiff(a) ==
  /\ patch[a].pc = "read"
  /\ patch' = [patch EXCEPT
       ![a].pc = "diffed",
       ![a].cols = {c \in {"stock", "reserved"} :
                      patch[a].row[c] # stock[patch[a].product][c]}]
  /\ UNCHANGED <<stock, lock, placed, present, pc, work, todo, answer, charged, sent>>

\* UPDATE of those columns, once the row is not locked.
PatchUpdate(a) ==
  LET p == patch[a].product
      New(c) == IF c \in patch[a].cols THEN patch[a].row[c] ELSE stock[p][c]
  IN /\ patch[a].pc = "diffed"
     /\ patch[a].cols # {} => lock[p] = Free
     /\ stock' = [stock EXCEPT ![p] = [stock |-> New("stock"), reserved |-> New("reserved")]]
     /\ patch' = [patch EXCEPT ![a] = PatchDone]
     /\ UNCHANGED <<lock, placed, present, pc, work, todo, answer, charged, sent>>

----------------------------------------------------------------------------
Advance(r) ==
  \/ ReplayExisting(r) \/ BeginTransaction(r)
  \/ \E p \in Products : LockStockRow(r, p)
  \/ CheckStock(r) \/ RejectOrder(r)
  \/ InsertOrder(r) \/ InsertDuplicate(r) \/ RereadExisting(r)
  \/ \E l \in Lines : ReserveLine(r, l)
  \/ CommitOrder(r) \/ PublishMessage(r) \/ AuthorizePayment(r)
  \/ BreakDeadlock(r)

PatchStock(a) ==
  \/ \E p \in Stocked : PatchRead(a, p)
  \/ PatchDiff(a)
  \/ PatchUpdate(a)

Next ==
  \/ \E r \in Requests : Advance(r) \/ Interrupt(r) \/ RemoveOrder(r)
  \/ \E a \in Patchers : PatchStock(a)

Spec == Init /\ [][Next]_vars

\* Some request keeps running as long as one can: statements are answered, a
\* freed lock is granted, a deadlock is broken, the payment call has a deadline.
LiveSpec == Spec /\ WF_vars(\E r \in Requests : Advance(r))

----------------------------------------------------------------------------
(* Properties *)

\* What a request asks of a product, all its lines together: as many pieces as
\* the amounts of its lines on the product add up to.
LinesOn(r, p) == {l \in LinesOf[r] : ProductOf[l] = p}
Pieces(L)     == UNION {{l} \X (1..AmountOf[l]) : l \in L}
Demand(r, p)  == Cardinality(Pieces(LinesOn(r, p)))

\* "Pessimistic locking on stocks ... to prevent oversell": no commit leaves a
\* product it reserved with more reserved than there is in stock, whatever
\* other requests and stock PATCHes do.
CommitNeverOversells ==
  [][\A r \in placed' \ placed : \A p \in ProductsOf(r) :
       stock'[p].reserved <= stock'[p].stock]_vars

\* "Atomic: order + items + stock reservation in single transaction": the step
\* that makes an order visible adds its demand, no more and no less, to what
\* is reserved at that moment, and nothing else reserves stock for it.
ReservesExactly ==
  [][\A r \in placed' \ placed : \A p \in Products :
       stock'[p].reserved = stock[p].reserved + Demand(r, p)]_vars

\* Until a stock PATCH writes, the reserved columns add up to what the orders
\* placed so far asked for: no retry, rollback, deadlock or death of a process
\* leaves a reservation without its order or an order without its reservation,
\* and removing an order gives nothing back.
PlacedOn(p) == {l \in Lines : ProductOf[l] = p /\ \E r \in placed : l \in LinesOf[r]}
ReservationsAddUp ==
  (\A a \in Patchers : patch[a] # PatchDone) =>
    \A p \in Products : stock[p].reserved = Cardinality(Pieces(PlacedOn(p)))

\* "duplicate POST returns existing order": two orders never exist under one
\* idempotency key, though the check that prevents it is outside the
\* transaction.
OneOrderPerKey == \A r, s \in present : ~SameKey(r, s)

\* What create() answers is what happened: 409 and 200 left no order of this
\* request, 200 had one to return, 201 has its order and its payment, 503/504
\* has its order.
AnswersAreTrue ==
  \A r \in Requests :
    /\ answer[r] = "conflict" => r \notin placed
    /\ answer[r] = "replayed" => r \notin placed /\ \E s \in placed : SameKey(r, s)
    /\ answer[r] \in {"created", "unpaid"} => r \in placed /\ r \in charged /\ r \in sent

\* "rollback on error, release() always": a stock row is locked only by a
\* request whose transaction is open and that has a line for it.
NoStrandedLocks ==
  \A p \in Products : lock[p] # Free =>
    pc[lock[p]] \in OpenTx /\ p \in ProductsOf(lock[p])

\* The inductive invariant behind the safety properties: a transaction works
\* on rows that only it can change, its INSERT is alone with its key, and an
\* order that is not committed has left no trace.
Uncommitted == {"new", "reread"} \cup OpenTx
ChecksHoldLocks ==
  \A r \in Requests : pc[r] \in {"checked", "inserted"} =>
    /\ \A l \in LinesOf[r] : ProductOf[l] \in Stocked /\ lock[ProductOf[l]] = r
    /\ todo[r] \subseteq LinesOf[r]
    /\ pc[r] = "checked" => todo[r] = LinesOf[r]
WorkMirrorsStock ==
  \A r \in Requests, p \in Products : lock[p] = r =>
    /\ work[r][p].stock = stock[p].stock
    /\ pc[r] # "inserted" => work[r][p].reserved = stock[p].reserved
KeysAreFree ==
  \A r, s \in Requests : pc[r] = "inserted" /\ SameKey(r, s) =>
    s \notin present /\ pc[s] # "inserted"
TracesFollowCommit ==
  \A r \in Requests :
    /\ pc[r] \in Uncommitted => r \notin placed
    /\ pc[r] # "done" => answer[r] = "none"
    /\ pc[r] \in {"committed", "published"} => r \in placed
    /\ pc[r] = "published" => r \in sent
IInv ==
  /\ TypeOK /\ NoStrandedLocks /\ OneOrderPerKey /\ AnswersAreTrue
  /\ ChecksHoldLocks /\ WorkMirrorsStock /\ KeysAreFree /\ TracesFollowCommit

\* What makes the whole of create() one step on the stock of one moment: until
\* it commits, every line fits the committed rows, and its copy of them is
\* ahead by the lines it has reserved so far.
FitsCommitted(r) ==
  \A l \in LinesOf[r] :
    LET p == ProductOf[l] IN
      p \in Stocked /\ stock[p].stock - stock[p].reserved >= AmountOf[l]
ReservedSoFar(r) ==
  \A p \in ProductsOf(r) :
    work[r][p].reserved = stock[p].reserved + Cardinality(Pieces(LinesOn(r, p) \ todo[r]))
AtomicInv ==
  \A r \in Requests : pc[r] \in {"checked", "inserted"} =>
    FitsCommitted(r) /\ ReservedSoFar(r)

\* No request names a product twice, and then: every line not yet reserved
\* still fits, and every reserved one did.
DistinctLines ==
  \A r \in Requests : \A l, m \in LinesOf[r] : ProductOf[l] = ProductOf[m] => l = m
LinesFit ==
  \A r \in Requests : pc[r] \in {"checked", "inserted"} =>
    \A l \in LinesOf[r] :
      work[r][ProductOf[l]].reserved + (IF l \in todo[r] THEN AmountOf[l] ELSE 0)
        <= work[r][ProductOf[l]].stock

\* create() is atomic: with all its locks, waits and retries it implements
\* OrderPlacement, where an order appears with its reservation in one step, 409
\* and 200 are true when they are decided, and a request answered otherwise
\* than with its order leaves none behind.
Placement == INSTANCE OrderPlacement WITH
  Asked  <- [r \in Requests |-> [p \in Products |-> Demand(r, p)]],
  Rivals <- [r \in Requests |-> {s \in Requests : SameKey(r, s)}]
ImplementsPlacement == Placement!Spec

\* Concurrent orders, some for the same rows in opposite order and some under
\* the same key, all get an answer.
EveryRequestAnswered == <>(\A r \in Requests : answer[r] # "none")

\* "prevents concurrent stock modification": while only the stock column is
\* PATCHed, every committed order stays reserved.
ReservationsAreKept ==
  \A p \in Products :
    stock[p].reserved >= MapThenSumSet(LAMBDA r : Demand(r, p), placed)
=============================================================================
