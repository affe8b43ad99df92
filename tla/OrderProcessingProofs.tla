----------------------- MODULE OrderProcessingProofs -----------------------
(* Theorems about OrderProcessing for every set of orders, messages,       *)
(* processes and consumer slots and every bound, with their proofs.        *)
EXTENDS OrderProcessing, FiniteSetTheorems, TLAPS

----------------------------------------------------------------------------
(* Lemmas about slots, transitions and requeueing                          *)

\* A slot that is not idle holds a message and an attempt number.
LEMMA BusySlot ==
  ASSUME TypeOK, NEW h \in Handlers, hs[h].pc # "idle"
  PROVE  /\ hs[h] \in [pc : PCs \ {"idle"}, msg : Messages, attempt : Attempts]
         /\ hs[h].msg \in Messages
         /\ hs[h].attempt \in Attempts
  BY DEF TypeOK, Slots, IdleSlot

\* Moving a busy slot to another busy pc leaves it well-formed.
LEMMA StepTyped ==
  ASSUME TypeOK, NEW h \in Handlers, hs[h].pc # "idle",
         NEW pc \in PCs \ {"idle"}, Step(h, pc)
  PROVE  /\ hs' \in [Handlers -> Slots]
         /\ \A g \in Handlers \ {h} : hs'[g] = hs[g]
         /\ hs'[h].pc = pc
         /\ hs'[h].msg = hs[h].msg
         /\ hs'[h].attempt = hs[h].attempt
<1>1. hs[h] \in [pc : PCs \ {"idle"}, msg : Messages, attempt : Attempts]
  BY BusySlot
<1>2. hs' = [hs EXCEPT ![h].pc = pc] /\ hs \in [Handlers -> Slots]
  BY DEF Step, TypeOK
<1>3. [hs[h] EXCEPT !.pc = pc] \in [pc : PCs \ {"idle"}, msg : Messages, attempt : Attempts]
  BY <1>1
<1>4. hs' \in [Handlers -> Slots]
  BY <1>2, <1>3 DEF Slots
<1> QED
  BY <1>1, <1>2, <1>4

\* The re-select of save() leads to one of two steps of the transaction.
LEMMA LoadSteps ==
  ASSUME TypeOK, NEW h \in Handlers, LoadForSave(h)
  PROVE  /\ hs' \in [Handlers -> Slots]
         /\ \A g \in Handlers \ {h} : hs'[g] = hs[g]
         /\ hs[h].pc = "found" /\ hs'[h].pc \in {"loaded", "again"}
         /\ hs'[h].pc = "again" <=> order[Target(hs[h].msg)].status = "PROCESSED"
         /\ hs'[h].msg = hs[h].msg
         /\ hs'[h].attempt = hs[h].attempt
<1>1. CASE order[Target(hs[h].msg)].status = "PROCESSED" /\ Step(h, "again")
  BY <1>1, StepTyped DEF LoadForSave, PCs, InTx
<1>2. CASE order[Target(hs[h].msg)].status # "PROCESSED" /\ Step(h, "loaded")
  BY <1>2, StepTyped DEF LoadForSave, PCs, InTx
<1> QED BY <1>1, <1>2 DEF LoadForSave

\* What Retry publishes is a copy: its attempt number is still in range.
LEMMA NextCopy ==
  ASSUME TypeOK, NEW h \in Handlers, hs[h].pc # "idle", ~AttemptsExhausted(h)
  PROVE  /\ <<hs[h].msg, hs[h].attempt + 1>> \in Copies
         /\ hs[h].attempt + 1 \in Attempts
<1>1. hs[h].msg \in Messages /\ hs[h].attempt \in 1..MaxAttempts
  BY BusySlot DEF Attempts
<1>2. hs[h].attempt + 1 \in 1..MaxAttempts
  BY <1>1, BoundsAssumption DEF AttemptsExhausted
<1> QED BY <1>1, <1>2 DEF Copies, Attempts

\* What Nack gives back is a copy.
LEMMA HeldCopy ==
  ASSUME TypeOK, NEW h \in Handlers, hs[h].pc # "idle"
  PROVE  /\ <<hs[h].msg, hs[h].attempt>> \in Copies
         /\ queue[<<hs[h].msg, hs[h].attempt>>] \in Nat
  BY BusySlot DEF Copies, TypeOK

\* Freeing a slot leaves it well-formed.
LEMMA FreeTyped ==
  ASSUME TypeOK, NEW h \in Handlers, Free(h)
  PROVE  /\ hs' \in [Handlers -> Slots]
         /\ \A g \in Handlers \ {h} : hs'[g] = hs[g]
         /\ hs'[h] = IdleSlot
  BY DEF TypeOK, Free, Slots

\* STATUS_TRANSITIONS names statuses only, and never PROCESSED.
LEMMA TransitionTargets ==
  ASSUME NEW s
  PROVE  STATUS_TRANSITIONS(s) \subseteq Statuses \ {"PROCESSED"}
  BY DEF STATUS_TRANSITIONS, Statuses

\* Writing a row changes that row only, and tears no other.
LEMMA RowWritten ==
  ASSUME TypeOK, NEW o \in Orders, NEW row \in Rows, NEW C, NEW H, WriteRow(o, row, C, H)
  PROVE  /\ order' \in [Orders -> Rows]
         /\ order'[o] = row
         /\ \A i \in Orders \ {o} : order'[i] = order[i]
         /\ torn \subseteq torn' /\ torn' \subseteq torn \cup {o}
         /\ torn' \subseteq Orders
         /\ o \notin torn' /\ row # order[o] =>
              (\A c \in C : ~HalfPatch(c, o)) /\ (\A h \in H : ~HalfRun(h, o))
  BY DEF WriteRow, TypeOK

\* A message is about an order.
LEMMA TargetTyped ==
  ASSUME NEW m \in Messages
  PROVE  Target(m) \in Orders
  BY MessagesAssumption DEF Target, Messages

\* What a PATCH and a run make of a row is a row.
LEMMA PatchedRowTyped ==
  ASSUME TypeOK, NEW c \in Clients, patch[c] # NoPatch
  PROVE  /\ patch[c] \in Patches /\ patch[c].id \in Orders
         /\ PatchedRow(c) \in Rows
<1>1. patch[c] \in Patches
  BY DEF TypeOK
<1>2. order[patch[c].id] \in Rows
  BY <1>1 DEF Patches, TypeOK
<1> QED BY <1>1, <1>2 DEF Patches, PatchedRow, Rows
LEMMA ProcessedRowTyped ==
  ASSUME TypeOK, NEW h \in Handlers, NEW o \in Orders
  PROVE  ProcessedRow(h, o) \in Rows
<1>1. order[o] \in Rows
  BY DEF TypeOK
<1> QED BY <1>1 DEF ProcessedRow, Rows, Statuses

\* Requeueing loses no ready copy and puts back what the slots held.
LEMMA RequeuedTyped ==
  ASSUME TypeOK, NEW S \in SUBSET Handlers
  PROVE  /\ Requeued(S) \in [Copies -> Nat]
         /\ \A c \in Copies : Requeued(S)[c] >= queue[c]
         /\ \A h \in S : hs[h].pc # "idle" =>
              Requeued(S)[<<hs[h].msg, hs[h].attempt>>] > 0
         /\ \A c \in Copies : Requeued(S)[c] > 0 =>
              queue[c] > 0 \/ \E h \in S : hs[h].msg = c[1] /\ hs[h].attempt = c[2]
<1> DEFINE Held(c) == {h \in S : hs[h].msg = c[1] /\ hs[h].attempt = c[2]}
<1>1. ASSUME NEW c \in Copies
      PROVE  /\ IsFiniteSet(Held(c))
             /\ Cardinality(Held(c)) \in Nat
             /\ Held(c) # {} <=> Cardinality(Held(c)) > 0
  <2>1. IsFiniteSet(Held(c))
    BY HandlersAssumption, FS_Subset DEF Held
  <2>2. Cardinality(Held(c)) \in Nat
    BY <2>1, FS_CardinalityType
  <2>3. Cardinality(Held(c)) = 0 <=> Held(c) = {}
    BY <2>1, FS_EmptySet
  <2> QED BY <2>1, <2>2, <2>3
<1> HIDE DEF Held
<1>2. queue \in [Copies -> Nat]
  BY DEF TypeOK
<1>3. \A c \in Copies : Requeued(S)[c] = queue[c] + Cardinality(Held(c))
  BY DEF Requeued, Held
<1>4. Requeued(S) \in [Copies -> Nat]
  <2>1. \A c \in Copies : queue[c] + Cardinality(Held(c)) \in Nat
    BY <1>1, <1>2
  <2> QED BY <2>1 DEF Requeued, Held
<1>5. \A c \in Copies : Requeued(S)[c] >= queue[c]
  BY <1>1, <1>2, <1>3
<1>6. ASSUME NEW h \in S, hs[h].pc # "idle"
      PROVE  Requeued(S)[<<hs[h].msg, hs[h].attempt>>] > 0
  <2> DEFINE c == <<hs[h].msg, hs[h].attempt>>
  <2>1. c \in Copies
    BY <1>6, BusySlot DEF Copies
  <2>2. h \in Held(c)
    BY DEF Held
  <2>3. Cardinality(Held(c)) > 0
    BY <1>1, <2>1, <2>2
  <2>4. Requeued(S)[c] = queue[c] + Cardinality(Held(c)) /\ queue[c] \in Nat
    BY <1>2, <1>3, <2>1
  <2>5. Cardinality(Held(c)) \in Nat
    BY <1>1, <2>1
  <2> QED BY <2>3, <2>4, <2>5
<1>7. ASSUME NEW c \in Copies, Requeued(S)[c] > 0
      PROVE  queue[c] > 0 \/ \E h \in S : hs[h].msg = c[1] /\ hs[h].attempt = c[2]
  <2>1. CASE Held(c) = {}
    BY <1>1, <1>2, <1>3, <1>7, <2>1
  <2>2. CASE Held(c) # {}
    BY <2>2 DEF Held
  <2> QED BY <2>1, <2>2
<1> QED BY <1>4, <1>5, <1>6, <1>7

----------------------------------------------------------------------------
(* Type correctness                                                        *)

\* The initial state is well-typed.
LEMMA InitTypeOK == Init => TypeOK
  BY MessagesAssumption, BoundsAssumption
  DEF Init, TypeOK, Rows, Statuses, Slots, Copies

\* The API's actions keep the types.
LEMMA ApiTypeOK == TypeOK /\ Api => TypeOK'
<1> SUFFICES ASSUME TypeOK, Api PROVE TypeOK'
  OBVIOUS
<1>1. ASSUME NEW p \in Processes, NEW o \in Orders, CommitOrder(p, o)
      PROVE  TypeOK'
  BY <1>1 DEF CommitOrder, TypeOK, Rows, Statuses
<1>2. ASSUME NEW p \in Processes, NEW o \in Orders, Publish(p, o)
      PROVE  TypeOK'
  <2>1. <<o, 1>> \in Copies /\ o \in Messages
    BY BoundsAssumption DEF Copies, Messages, Attempts
  <2> QED BY <1>2, <2>1 DEF Publish, TypeOK
<1>3. ASSUME NEW m \in Extra, PublishByHand(m)
      PROVE  TypeOK'
  <2>1. <<m, 1>> \in Copies /\ m \in Messages
    BY BoundsAssumption DEF Copies, Messages, Attempts
  <2> QED BY <1>3, <2>1 DEF PublishByHand, TypeOK
<1>4. ASSUME NEW c \in Clients, NEW o \in Orders, NEW s \in Statuses, PatchRead(c, o, s)
      PROVE  TypeOK'
  <2>1. order[o].stamped \in BOOLEAN
    BY DEF TypeOK, Rows
  <2>2. [pc |-> "read", id |-> o, cols |-> {},
         entity |-> [status |-> s, stamped |-> order[o].stamped]] \in Patches
    BY <2>1 DEF Patches
  <2> QED BY <1>4, <2>2 DEF PatchRead, TypeOK
<1>5. ASSUME NEW c \in Clients, PatchDiff(c)
      PROVE  TypeOK'
  <2>1. patch[c] \in Patches
    BY <1>5 DEF PatchDiff, TypeOK
  <2>2. [pc |-> "update", id |-> patch[c].id, cols |-> Differing(patch[c].id, patch[c].entity),
         entity |-> patch[c].entity] \in Patches
    BY <2>1 DEF Patches, Differing
  <2> QED BY <1>5, <2>2 DEF PatchDiff, TypeOK
<1>7. ASSUME NEW c \in Clients, PatchUpdate(c)
      PROVE  TypeOK'
  <2>1. patch[c].id \in Orders /\ PatchedRow(c) \in Rows
    BY <1>7, PatchedRowTyped DEF PatchUpdate
  <2>2. order' \in [Orders -> Rows] /\ torn' \subseteq Orders
    BY <1>7, <2>1, RowWritten DEF PatchUpdate, TypeOK
  <2> QED BY <1>7, <2>2 DEF PatchUpdate, TypeOK
<1>6. ASSUME NEW o \in Orders, Remove(o)
      PROVE  TypeOK'
  BY <1>6 DEF Remove, TypeOK, Rows
<1> QED BY <1>1, <1>2, <1>3, <1>4, <1>5, <1>6, <1>7 DEF Api

\* A rollback keeps the types.
LEMMA RollBackTypeOK ==
  ASSUME TypeOK, NEW h \in Handlers, hs[h].pc # "idle", RollBack(h)
  PROVE  TypeOK'
<1>1. hs' \in [Handlers -> Slots]
  BY StepTyped DEF RollBack, PCs
<1>2. failedRuns' \in [Messages -> SUBSET Attempts]
  BY BusySlot DEF RollBack, TypeOK
<1> QED BY <1>1, <1>2 DEF RollBack, TypeOK

\* The worker's actions keep the types.
LEMMA WorkTypeOK ==
  ASSUME TypeOK, NEW h \in Handlers, Work(h)
  PROVE  TypeOK'
<1>1. CASE Abandon(h)
  <2>1. hs' \in [Handlers -> Slots]
    BY <1>1, FreeTyped DEF Abandon
  <2> QED BY <1>1, <2>1 DEF Abandon, TypeOK
<1>2. CASE DeadLetterGarbled(h)
  <2>1. hs[h].msg \in Messages
    BY <1>2, BusySlot DEF DeadLetterGarbled
  <2>2. hs' \in [Handlers -> Slots]
    BY <1>2, StepTyped DEF DeadLetterGarbled, PCs
  <2> QED BY <1>2, <2>1, <2>2 DEF DeadLetterGarbled, TypeOK
<1>3. CASE InsertProcessed(h)
  <2>1. hs' \in [Handlers -> Slots]
    BY <1>3, StepTyped DEF InsertProcessed, PCs, InTx
  <2> QED BY <1>3, <2>1 DEF InsertProcessed, TypeOK
<1>4. CASE SkipProcessed(h)
  <2>1. hs' \in [Handlers -> Slots]
    BY <1>4, StepTyped DEF SkipProcessed, PCs
  <2> QED BY <1>4, <2>1 DEF SkipProcessed, TypeOK
<1>5. CASE FindOrder(h)
  <2>1. hs' \in [Handlers -> Slots]
    BY <1>5, StepTyped DEF FindOrder, PCs, InTx
  <2> QED BY <1>5, <2>1 DEF FindOrder, TypeOK
<1>6. CASE LoadForSave(h)
  <2>1. hs' \in [Handlers -> Slots]
    BY <1>6, LoadSteps
  <2> QED BY <1>6, <2>1 DEF LoadForSave, TypeOK
<1>7. CASE CommitProcessed(h)
  <2>1. hs[h].msg \in Messages /\ hs[h].attempt \in Attempts
    BY <1>7, BusySlot DEF CommitProcessed
  <2>2. hs' \in [Handlers -> Slots]
    BY <1>7, StepTyped DEF CommitProcessed, PCs
  <2>3. Target(hs[h].msg) \in Orders
    BY <2>1, TargetTyped
  <2>4. order' \in [Orders -> Rows] /\ torn' \subseteq Orders
    BY <1>7, <2>3, ProcessedRowTyped, RowWritten DEF CommitProcessed, TypeOK
  <2>5. /\ processed' \subseteq Messages
        /\ events' \in [Messages -> Nat]
        /\ failedRuns' \in [Messages -> SUBSET Attempts]
    BY <1>7, <2>1 DEF CommitProcessed, MarkProcessed, TypeOK
  <2> QED BY <1>7, <2>2, <2>4, <2>5 DEF CommitProcessed, TypeOK
<1>8. CASE FailRun(h)
  BY <1>8, RollBackTypeOK DEF FailRun
<1>9. CASE DeadLetter(h)
  <2>1. hs[h].msg \in Messages
    BY <1>9, BusySlot DEF DeadLetter
  <2>2. hs' \in [Handlers -> Slots]
    BY <1>9, StepTyped DEF DeadLetter, PCs
  <2> QED BY <1>9, <2>1, <2>2 DEF DeadLetter, TypeOK
<1>10. CASE Retry(h)
  <2>1. hs' \in [Handlers -> Slots]
    BY <1>10, StepTyped DEF Retry, PCs
  <2>2. <<hs[h].msg, hs[h].attempt + 1>> \in Copies
    BY <1>10, NextCopy DEF Retry
  <2>3. queue' \in [Copies -> Nat]
    BY <1>10, <2>2 DEF Retry, Republished, TypeOK
  <2> QED BY <1>10, <2>1, <2>3 DEF Retry, TypeOK
<1>11. CASE Ack(h)
  <2>1. hs' \in [Handlers -> Slots]
    BY <1>11, FreeTyped DEF Ack
  <2> QED BY <1>11, <2>1 DEF Ack, TypeOK
<1>12. CASE Nack(h)
  <2>1. hs' \in [Handlers -> Slots]
    BY <1>12, FreeTyped DEF Nack
  <2>2. queue' \in [Copies -> Nat]
    BY <1>12, HeldCopy DEF Nack, Throws, TypeOK
  <2> QED BY <1>12, <2>1, <2>2 DEF Nack, TypeOK
<1> QED
  BY <1>1, <1>2, <1>3, <1>4, <1>5, <1>6, <1>7, <1>8, <1>9, <1>10, <1>11, <1>12 DEF Work

\* Delivery keeps the types.
LEMMA DeliverTypeOK ==
  ASSUME TypeOK, NEW h \in Handlers, NEW c \in Copies, Deliver(h, c)
  PROVE  TypeOK'
<1>1. c[1] \in Messages /\ c[2] \in Attempts
  BY DEF Copies
<1>2. [pc |-> "received", msg |-> c[1], attempt |-> c[2]] \in Slots
  BY <1>1 DEF Slots, PCs
<1>3. hs' \in [Handlers -> Slots]
  BY <1>2 DEF Deliver, TypeOK
<1>4. queue' \in [Copies -> Nat]
  BY DEF Deliver, TypeOK
<1> QED BY <1>3, <1>4 DEF Deliver, TypeOK

\* Crashes, closed channels and database errors keep the types.
LEMMA FaultsTypeOK == TypeOK /\ Faults => TypeOK'
<1> SUFFICES ASSUME TypeOK, Faults PROVE TypeOK'
  OBVIOUS
<1>1. ASSUME NEW h \in Handlers, DatabaseError(h)
      PROVE  TypeOK'
  <2>1. hs[h].pc # "idle"
    BY <1>1 DEF DatabaseError, InTx
  <2> QED BY <1>1, <2>1, RollBackTypeOK DEF DatabaseError
<1>2. ASSUME NEW p \in Processes, Disconnect(p)
      PROVE  TypeOK'
  <2>1. Requeued(SlotsOf(p)) \in [Copies -> Nat]
    BY RequeuedTyped DEF SlotsOf
  <2>2. queue' \in [Copies -> Nat] /\ chan' \in [Processes -> {"open", "closed", "down"}]
    BY <1>2, <2>1 DEF Disconnect, TypeOK
  <2>3. disconnects' \in 0..MaxDisconnects
    BY <1>2, BoundsAssumption DEF Disconnect, TypeOK
  <2> QED BY <1>2, <2>2, <2>3 DEF Disconnect, TypeOK
<1>3. ASSUME NEW p \in Processes, Crash(p)
      PROVE  TypeOK'
  <2>1. Requeued(SlotsOf(p)) \in [Copies -> Nat]
    BY RequeuedTyped DEF SlotsOf
  <2>2. queue' \in [Copies -> Nat]
    BY <1>3, <2>1 DEF Crash, TypeOK
  <2>3. hs' \in [Handlers -> Slots]
    BY <1>3 DEF Crash, TypeOK, Slots
  <2>4. /\ chan' \in [Processes -> {"open", "closed", "down"}]
        /\ due' \in [Processes -> SUBSET Orders]
    BY <1>3 DEF Crash, TypeOK
  <2>5. crashes' \in 0..MaxCrashes
    BY <1>3, BoundsAssumption DEF Crash, TypeOK
  <2> QED BY <1>3, <2>2, <2>3, <2>4, <2>5 DEF Crash, TypeOK
<1> QED BY <1>1, <1>2, <1>3 DEF Faults

\* Every step keeps the types.
LEMMA NextTypeOK == TypeOK /\ [Next]_vars => TypeOK'
<1> SUFFICES ASSUME TypeOK, [Next]_vars PROVE TypeOK'
  OBVIOUS
<1>1. CASE Api
  BY <1>1, ApiTypeOK
<1>2. CASE \E h \in Handlers, c \in Copies : Deliver(h, c)
  BY <1>2, DeliverTypeOK
<1>3. CASE \E h \in Handlers : Work(h)
  BY <1>3, WorkTypeOK
<1>4. CASE \E p \in Processes : Restart(p)
  BY <1>4 DEF Restart, TypeOK
<1>5. CASE Faults
  BY <1>5, FaultsTypeOK
<1>6. CASE UNCHANGED vars
  BY <1>6 DEF vars, TypeOK
<1> QED BY <1>1, <1>2, <1>3, <1>4, <1>5, <1>6 DEF Next

\* Every reachable state is well-typed.
THEOREM TypeCorrect == Spec => []TypeOK
<1>1. Init => TypeOK
  BY InitTypeOK
<1>2. TypeOK /\ [Next]_vars => TypeOK'
  BY NextTypeOK
<1> QED BY <1>1, <1>2, PTL DEF Spec

----------------------------------------------------------------------------
(* The unique index: open transactions                                     *)

\* A slot that begins a transaction is alone with its message, and a
\* transaction that ends leaves no other one open for it.
LEMMA TxInv == IInv /\ [Next]_vars => OneOpenTx' /\ OpenTxIsFresh'
<1> SUFFICES ASSUME IInv, [Next]_vars PROVE OneOpenTx' /\ OpenTxIsFresh'
  OBVIOUS
<1> USE DEF IInv, OneOpenTx, OpenTxIsFresh
<1>t. TypeOK /\ TypeOK'
  BY NextTypeOK
<1>1. CASE Api \/ (\E p \in Processes : Restart(p)) \/ UNCHANGED vars
  <2>1. hs' = hs /\ processed' = processed
    BY <1>1 DEF Api, CommitOrder, Publish, PublishByHand, PatchRead, PatchDiff, PatchUpdate,
                Remove, Restart, vars
  <2> QED BY <2>1
<1>2. ASSUME NEW h \in Handlers, NEW c \in Copies, Deliver(h, c)
      PROVE  OneOpenTx' /\ OpenTxIsFresh'
  BY <1>2, <1>t DEF Deliver, TypeOK, InTx
<1>3. ASSUME NEW h \in Handlers, Work(h)
      PROVE  OneOpenTx' /\ OpenTxIsFresh'
  <2>1. CASE InsertProcessed(h)
    <3>1. /\ \A g \in Handlers \ {h} : hs'[g] = hs[g]
          /\ hs'[h].pc = "inserted" /\ hs'[h].msg = hs[h].msg
      BY <2>1, <1>t, StepTyped DEF InsertProcessed, PCs, InTx
    <3> QED BY <2>1, <3>1 DEF InsertProcessed, HeldByOther
  <2>2. CASE FindOrder(h) \/ LoadForSave(h)
    <3>1. /\ \A g \in Handlers \ {h} : hs'[g] = hs[g]
          /\ hs[h].pc \in InTx /\ hs'[h].msg = hs[h].msg
          /\ processed' = processed
      BY <2>2, <1>t, StepTyped, LoadSteps DEF FindOrder, LoadForSave, PCs, InTx
    <3> QED BY <3>1
  <2>3. CASE CommitProcessed(h)
    <3>1. /\ \A g \in Handlers \ {h} : hs'[g] = hs[g]
          /\ hs[h].pc \in InTx /\ hs'[h].pc \notin InTx
          /\ processed' = processed \cup {hs[h].msg}
      BY <2>3, <1>t, StepTyped DEF CommitProcessed, MarkProcessed, PCs, InTx
    <3> QED BY <3>1
  <2>4. CASE Nack(h) \/ Abandon(h) \/ Ack(h)
    <3>1. /\ \A g \in Handlers \ {h} : hs'[g] = hs[g]
          /\ hs'[h].pc \notin InTx
          /\ processed' = processed
      BY <2>4, <1>t, FreeTyped DEF Nack, Abandon, Ack, IdleSlot, InTx
    <3> QED BY <3>1
  <2>5. CASE DeadLetterGarbled(h) \/ SkipProcessed(h) \/ FailRun(h) \/ DeadLetter(h) \/ Retry(h)
    <3>1. hs[h].pc # "idle" /\ (Step(h, "settled") \/ Step(h, "failed"))
      BY <2>5 DEF DeadLetterGarbled, SkipProcessed, FailRun, RollBack, DeadLetter, Retry
    <3>2. /\ \A g \in Handlers \ {h} : hs'[g] = hs[g]
          /\ hs'[h].pc \notin InTx
      BY <3>1, <1>t, StepTyped DEF InTx, PCs
    <3>3. processed' = processed
      BY <2>5 DEF DeadLetterGarbled, SkipProcessed, FailRun, RollBack, DeadLetter, Retry
    <3> QED BY <3>2, <3>3
  <2> QED BY <1>3, <2>1, <2>2, <2>3, <2>4, <2>5 DEF Work
<1>4. ASSUME NEW h \in Handlers, DatabaseError(h)
      PROVE  OneOpenTx' /\ OpenTxIsFresh'
  <2>1. /\ \A g \in Handlers \ {h} : hs'[g] = hs[g]
        /\ hs'[h].pc \notin InTx
        /\ processed' = processed
    BY <1>4, <1>t, StepTyped DEF DatabaseError, RollBack, InTx, PCs
  <2> QED BY <2>1
<1>5. ASSUME NEW p \in Processes, Disconnect(p) \/ Crash(p)
      PROVE  OneOpenTx' /\ OpenTxIsFresh'
  <2>1. \A g \in Handlers : hs'[g] = hs[g] \/ hs'[g] = IdleSlot
    BY <1>5, <1>t DEF Disconnect, Crash, TypeOK
  <2>2. processed' = processed
    BY <1>5 DEF Disconnect, Crash
  <2> QED BY <2>1, <2>2 DEF IdleSlot, InTx
<1> QED BY <1>1, <1>2, <1>3, <1>4, <1>5 DEF Next, Faults

\* Only a commit touches the dedupe table and the outbox, and it commits a
\* message that was not processed.
LEMMA ExactlyOnceInv == IInv /\ [Next]_vars => ExactlyOnce'
<1> SUFFICES ASSUME IInv, [Next]_vars PROVE ExactlyOnce'
  OBVIOUS
<1> USE DEF ExactlyOnce
<1>0. TypeOK /\ ExactlyOnce /\ OpenTxIsFresh
  BY DEF IInv
<1>1. ASSUME NEW h \in Handlers, CommitProcessed(h)
      PROVE  ExactlyOnce'
  <2>1. hs[h].msg \in Messages /\ hs[h].msg \notin processed
    BY <1>0, <1>1, BusySlot DEF CommitProcessed, OpenTxIsFresh, InTx
  <2>2. /\ processed' = processed \cup {hs[h].msg}
        /\ events' = [events EXCEPT ![hs[h].msg] = events[hs[h].msg] + 1]
    BY <1>1 DEF CommitProcessed, MarkProcessed
  <2> QED BY <1>0, <2>1, <2>2 DEF TypeOK
<1>2. CASE ~\E h \in Handlers : CommitProcessed(h)
  <2>1. processed' = processed /\ events' = events
    BY <1>2 DEF Next, Api, CommitOrder, Publish, PublishByHand, PatchRead, PatchDiff, PatchUpdate,
       Remove, Deliver, Work, Nack, Abandon, DeadLetterGarbled, InsertProcessed, SkipProcessed,
       FindOrder, LoadForSave, FailRun, RollBack, DeadLetter, Retry, Ack, Restart,
       Faults, DatabaseError, Disconnect, Crash, vars
  <2> QED BY <1>0, <2>1
<1> QED BY <1>1, <1>2

----------------------------------------------------------------------------
(* Half saves: processed_at and the status of the rows that were not torn  *)

Stamps == StampedIffProcessed /\ PatchIsUnstamped /\ PatchIsCurrent /\ RunIsCurrent

\* A step that touches neither the rows nor the PATCH requests and lets no run
\* into its half save.
LEMMA StampsFrame ==
  ASSUME Stamps, UNCHANGED <<order, patch, torn>>,
         \A h \in Handlers :
           hs'[h].pc = "again" => hs[h].pc = "again" /\ hs'[h].msg = hs[h].msg
  PROVE  Stamps'
  BY DEF Stamps, StampedIffProcessed, PatchIsUnstamped, PatchIsCurrent, RunIsCurrent

\* A step that changes the row o only, and leaves it consistent: every half save
\* of o that is still to come found the row as it is, or the row is torn.
LEMMA StampsWrite ==
  ASSUME TypeOK, Stamps, NEW o \in Orders, NEW row \in Rows, NEW C, NEW H,
         WriteRow(o, row, C, H),
         o \notin torn => (row.stamped <=> row.status = "PROCESSED"),
         \A c \in Clients : patch'[c] # NoPatch => c \in C /\ patch'[c] = patch[c],
         \A h \in Handlers :
           hs'[h].pc = "again" => h \in H /\ hs[h].pc = "again" /\ hs'[h].msg = hs[h].msg
  PROVE  Stamps'
<1>1. /\ order'[o] = row
      /\ \A i \in Orders \ {o} : order'[i] = order[i]
      /\ torn \subseteq torn'
      /\ o \notin torn' /\ row # order[o] =>
           (\A c \in C : ~HalfPatch(c, o)) /\ (\A h \in H : ~HalfRun(h, o))
  BY RowWritten
<1>2. StampedIffProcessed'
  BY <1>1 DEF Stamps, StampedIffProcessed
<1>3. PatchIsUnstamped'
  BY <1>1 DEF Stamps, PatchIsUnstamped
<1>4. PatchIsCurrent'
  <2> SUFFICES ASSUME NEW c \in Clients, patch'[c] # NoPatch, patch'[c].pc = "update",
                      patch'[c].id \notin torn'
               PROVE  /\ "status" \in patch'[c].cols
                      /\ patch'[c].cols # Columns => ~order'[patch'[c].id].stamped
    BY DEF PatchIsCurrent
  <2>1. c \in C /\ patch'[c] = patch[c] /\ patch[c].id \notin torn
    BY <1>1
  <2>2. patch[c].id \in Orders
    BY <2>1 DEF TypeOK, Patches
  <2>3. /\ "status" \in patch[c].cols
        /\ patch[c].cols # Columns => ~order[patch[c].id].stamped
    BY <2>1 DEF Stamps, PatchIsCurrent
  <2>4. CASE patch[c].id # o
    BY <1>1, <2>1, <2>2, <2>3, <2>4
  <2>5. CASE patch[c].id = o
    <3>1. patch[c].cols # Columns => row = order[o]
      BY <1>1, <2>1, <2>5 DEF HalfPatch
    <3> QED BY <1>1, <2>1, <2>3, <2>5, <3>1
  <2> QED BY <2>4, <2>5
<1>5. RunIsCurrent'
  <2> SUFFICES ASSUME NEW h \in Handlers, hs'[h].pc = "again", Target(hs'[h].msg) \notin torn'
               PROVE  order'[Target(hs'[h].msg)].status \in {"PROCESSED", "REMOVED"}
    BY DEF RunIsCurrent, Target
  <2>1. h \in H /\ hs[h].pc = "again" /\ hs'[h].msg = hs[h].msg
    OBVIOUS
  <2>2. Target(hs[h].msg) \in Orders
    BY <2>1, BusySlot, TargetTyped
  <2>3. order[Target(hs[h].msg)].status \in {"PROCESSED", "REMOVED"}
    BY <1>1, <2>1 DEF Stamps, RunIsCurrent
  <2>4. Target(hs[h].msg) = o => row = order[o]
    BY <1>1, <2>1 DEF HalfRun
  <2> QED BY <1>1, <2>1, <2>2, <2>3, <2>4
<1> QED BY <1>2, <1>3, <1>4, <1>5 DEF Stamps

\* A PATCH starts from an unstamped row, and its re-select on an untorn row
\* finds a new status and takes processed_at along when it is set by then.
LEMMA StampsPatch ==
  ASSUME TypeOK, Stamps, NEW c \in Clients,
         (\E o \in Orders, s \in Statuses : PatchRead(c, o, s)) \/ PatchDiff(c)
  PROVE  Stamps'
<1> USE DEF Stamps
<1>1. order' = order /\ torn' = torn /\ hs' = hs
  BY DEF PatchRead, PatchDiff
<1>2. \A d \in Clients \ {c} : patch'[d] = patch[d]
  BY DEF PatchRead, PatchDiff, TypeOK
<1>3. StampedIffProcessed' /\ RunIsCurrent'
  BY <1>1 DEF StampedIffProcessed, RunIsCurrent
<1>4. ASSUME NEW o \in Orders, NEW s \in Statuses, PatchRead(c, o, s)
      PROVE  PatchIsUnstamped' /\ PatchIsCurrent'
  <2>1. patch'[c] = [pc |-> "read", id |-> o, cols |-> {},
                     entity |-> [status |-> s, stamped |-> order[o].stamped]]
    BY <1>4 DEF PatchRead, TypeOK
  <2>2. s # "PROCESSED" /\ order[o].status # "PROCESSED"
    BY <1>4 DEF PatchRead, STATUS_TRANSITIONS
  <2>3. o \notin torn => ~order[o].stamped
    BY <2>2 DEF StampedIffProcessed, TypeOK, Rows
  <2>4. PatchIsUnstamped'
    BY <1>1, <1>2, <2>1, <2>2, <2>3 DEF PatchIsUnstamped
  <2>5. PatchIsCurrent'
    BY <1>1, <1>2, <2>1 DEF PatchIsCurrent
  <2> QED BY <2>4, <2>5
<1>5. ASSUME PatchDiff(c)
      PROVE  PatchIsUnstamped' /\ PatchIsCurrent'
  <2> DEFINE o    == patch[c].id
             cols == Differing(o, patch[c].entity)
  <2>1. /\ patch[c] # NoPatch /\ o \in Orders
        /\ patch[c].entity.status \in Statuses /\ patch[c].entity.stamped \in BOOLEAN
    BY <1>5 DEF PatchDiff, TypeOK, Patches
  <2>2. \/ patch'[c] = NoPatch
        \/ /\ cols # {}
           /\ patch'[c] = [pc |-> "update", id |-> o, cols |-> cols, entity |-> patch[c].entity]
    BY <1>5 DEF PatchDiff, TypeOK
  <2>3. PatchIsUnstamped'
    BY <1>1, <1>2, <2>1, <2>2 DEF PatchIsUnstamped
  <2>4. ASSUME o \notin torn, cols # {}
        PROVE  /\ "status" \in cols
               /\ cols # Columns => ~order[o].stamped
    <3>1. patch[c].entity.status # "PROCESSED" /\ ~patch[c].entity.stamped
      BY <2>1, <2>4 DEF PatchIsUnstamped
    <3>2. order[o].stamped <=> order[o].status = "PROCESSED"
      BY <2>1, <2>4 DEF StampedIffProcessed
    <3>3. order[o].stamped \in BOOLEAN
      BY <2>1 DEF TypeOK, Rows
    <3>4. /\ "status" \in cols <=> order[o].status # patch[c].entity.status
          /\ "processed_at" \in cols <=> order[o].stamped # patch[c].entity.stamped
          /\ cols \subseteq Columns
      BY DEF Differing, Columns
    <3>5. order[o].stamped # patch[c].entity.stamped <=> order[o].stamped
      BY <2>1, <3>1, <3>3
    <3> HIDE DEF cols
    <3>6. "status" \in cols
      BY <2>4, <3>1, <3>2, <3>4, <3>5 DEF Columns
    <3>7. cols # Columns => "processed_at" \notin cols
      BY <3>4, <3>6 DEF Columns
    <3> QED BY <3>4, <3>5, <3>6, <3>7
  <2>5. PatchIsCurrent'
    <3> HIDE DEF cols, o
    <3> SUFFICES ASSUME NEW d \in Clients, patch'[d] # NoPatch, patch'[d].pc = "update",
                        patch'[d].id \notin torn
                 PROVE  /\ "status" \in patch'[d].cols
                        /\ patch'[d].cols # Columns => ~order[patch'[d].id].stamped
      BY <1>1 DEF PatchIsCurrent
    <3>1. CASE d # c
      BY <1>2, <3>1 DEF PatchIsCurrent
    <3>2. CASE d = c
      BY <2>2, <2>4, <3>2
    <3> QED BY <3>1, <3>2
  <2> QED BY <2>3, <2>5
<1> QED BY <1>3, <1>4, <1>5

\* The UPDATE of a PATCH on an untorn row leaves it without the stamp, and that
\* of a run leaves it stamped and 'processed'.
LEMMA StampsUpdate ==
  ASSUME TypeOK, Stamps, NEW c \in Clients, PatchUpdate(c)
  PROVE  Stamps'
<1> DEFINE o == patch[c].id
<1>1. /\ patch[c] # NoPatch /\ patch[c].pc = "update"
      /\ o \in Orders /\ PatchedRow(c) \in Rows
  BY PatchedRowTyped DEF PatchUpdate
<1>2. /\ hs' = hs /\ patch'[c] = NoPatch
      /\ \A d \in Clients \ {c} : patch'[d] = patch[d]
  BY DEF PatchUpdate, TypeOK
<1>3. CASE WriteRow(o, PatchedRow(c), Clients \ {c}, Handlers)
  <2>1. ASSUME o \notin torn
        PROVE  ~PatchedRow(c).stamped /\ PatchedRow(c).status # "PROCESSED"
    <3>1. /\ "status" \in patch[c].cols
          /\ patch[c].cols # Columns => ~order[o].stamped
          /\ patch[c].entity.status # "PROCESSED" /\ ~patch[c].entity.stamped
      BY <1>1, <2>1 DEF Stamps, PatchIsCurrent, PatchIsUnstamped
    <3>2. "processed_at" \notin patch[c].cols => patch[c].cols # Columns
      BY DEF Columns
    <3> QED BY <3>1, <3>2 DEF PatchedRow
  <2>2. \A d \in Clients : patch'[d] # NoPatch => d \in Clients \ {c} /\ patch'[d] = patch[d]
    BY <1>2
  <2> QED BY <1>1, <1>2, <1>3, <2>1, <2>2, StampsWrite
<1>4. CASE UNCHANGED <<order, torn>>
  BY <1>2, <1>4 DEF Stamps, StampedIffProcessed, PatchIsUnstamped, PatchIsCurrent, RunIsCurrent
<1> QED BY <1>3, <1>4 DEF PatchUpdate
LEMMA StampsCommit ==
  ASSUME TypeOK, Stamps, NEW h \in Handlers, CommitProcessed(h)
  PROVE  Stamps'
<1> DEFINE o == Target(hs[h].msg)
<1>1. /\ hs[h].pc \in {"loaded", "again"} /\ patch' = patch
      /\ o \in Orders /\ ProcessedRow(h, o) \in Rows
  BY BusySlot, TargetTyped, ProcessedRowTyped DEF CommitProcessed
<1>2. /\ \A g \in Handlers \ {h} : hs'[g] = hs[g]
      /\ hs'[h].pc # "again"
  BY StepTyped DEF CommitProcessed, PCs
<1>3. CASE Exists(o) /\ WriteRow(o, ProcessedRow(h, o), Clients, Handlers \ {h})
  <2>1. ASSUME o \notin torn
        PROVE  ProcessedRow(h, o).stamped /\ ProcessedRow(h, o).status = "PROCESSED"
    <3>1. hs[h].pc = "again" => order[o].status = "PROCESSED"
      BY <1>3, <2>1 DEF Stamps, RunIsCurrent, Exists, Statuses
    <3> QED BY <1>1, <3>1 DEF ProcessedRow
  <2>2. \A g \in Handlers :
          hs'[g].pc = "again" => g \in Handlers \ {h} /\ hs[g].pc = "again" /\ hs'[g].msg = hs[g].msg
    BY <1>2
  <2> HIDE DEF o
  <2> QED BY <1>1, <1>3, <2>1, <2>2, StampsWrite
<1>4. CASE UNCHANGED <<order, torn>>
  BY <1>1, <1>2, <1>4, StampsFrame
<1> QED BY <1>3, <1>4 DEF CommitProcessed

\* So every step keeps the stamp and the status of an untorn row together.
LEMMA StampedInv == IInv /\ [Next]_vars => Stamps'
<1> SUFFICES ASSUME IInv, [Next]_vars PROVE Stamps'
  OBVIOUS
<1>0. TypeOK /\ Stamps
  BY DEF IInv, Stamps
<1>1. CASE UNCHANGED <<order, patch, torn, hs>>
  BY <1>0, <1>1, StampsFrame
<1>2. ASSUME NEW p \in Processes, NEW o \in Orders, CommitOrder(p, o)
      PROVE  Stamps'
  <2>1. /\ order[o].status = "NONE" /\ order'[o].status = "PENDING"
        /\ order'[o].stamped = order[o].stamped
        /\ \A i \in Orders \ {o} : order'[i] = order[i]
        /\ hs' = hs /\ patch' = patch /\ torn' = torn
    BY <1>0, <1>2 DEF CommitOrder, TypeOK, Rows
  <2>2. StampedIffProcessed' /\ PatchIsUnstamped'
    BY <1>0, <2>1 DEF Stamps, StampedIffProcessed, PatchIsUnstamped
  <2>3. \A c \in Clients : patch[c] # NoPatch => order'[patch[c].id].stamped = order[patch[c].id].stamped
    <3>1. \A c \in Clients : patch[c] # NoPatch => patch[c].id \in Orders
      BY <1>0 DEF TypeOK, Patches
    <3> QED BY <2>1, <3>1
  <2>4. PatchIsCurrent'
    BY <1>0, <2>1, <2>3 DEF Stamps, PatchIsCurrent
  <2>5. \A h \in Handlers : hs[h].pc = "again" => Target(hs[h].msg) \in Orders
    BY <1>0, BusySlot, TargetTyped
  <2>6. RunIsCurrent'
    BY <1>0, <2>1, <2>5 DEF Stamps, RunIsCurrent, Target
  <2> QED BY <2>2, <2>4, <2>6 DEF Stamps
<1>3. CASE Api
  <2>1. ASSUME NEW o \in Orders, Remove(o)
        PROVE  Stamps'
    <3>1. /\ order'[o] = [status |-> "REMOVED", stamped |-> FALSE]
          /\ \A i \in Orders \ {o} : order'[i] = order[i]
          /\ hs' = hs /\ patch' = patch /\ torn' = torn
      BY <1>0, <2>1 DEF Remove, TypeOK
    <3>2. StampedIffProcessed' /\ PatchIsUnstamped'
      BY <1>0, <3>1 DEF Stamps, StampedIffProcessed, PatchIsUnstamped
    <3>3. \A c \in Clients : patch[c] # NoPatch => patch[c].id \in Orders
      BY <1>0 DEF TypeOK, Patches
    <3>4. PatchIsCurrent'
      BY <1>0, <3>1, <3>3 DEF Stamps, PatchIsCurrent
    <3>5. \A h \in Handlers : hs[h].pc = "again" => Target(hs[h].msg) \in Orders
      BY <1>0, BusySlot, TargetTyped
    <3>6. RunIsCurrent'
      BY <1>0, <3>1, <3>5 DEF Stamps, RunIsCurrent, Target
    <3> QED BY <3>2, <3>4, <3>6 DEF Stamps
  <2> QED
    BY <1>0, <1>1, <1>2, <1>3, <2>1, StampsPatch, StampsUpdate DEF Api, Publish, PublishByHand
<1>4. ASSUME NEW h \in Handlers, LoadForSave(h)
      PROVE  Stamps'
  <2>1. /\ order' = order /\ patch' = patch /\ torn' = torn
        /\ \A g \in Handlers \ {h} : hs'[g] = hs[g]
        /\ hs'[h].msg = hs[h].msg
        /\ hs'[h].pc = "again" => order[Target(hs[h].msg)].status = "PROCESSED"
    BY <1>0, <1>4, LoadSteps DEF LoadForSave
  <2> QED
    BY <1>0, <2>1 DEF Stamps, StampedIffProcessed, PatchIsUnstamped, PatchIsCurrent, RunIsCurrent,
       Target
<1>5. ASSUME NEW h \in Handlers, Work(h) \/ DatabaseError(h), ~CommitProcessed(h), ~LoadForSave(h)
      PROVE  Stamps'
  <2>1. UNCHANGED <<order, patch, torn>>
    BY <1>5 DEF Work, Nack, Abandon, DeadLetterGarbled, InsertProcessed, SkipProcessed,
       FindOrder, FailRun, DatabaseError, RollBack, DeadLetter, Retry, Ack
  <2>2. \/ Free(h)
        \/ hs[h].pc # "idle" /\ \E pc \in {"settled", "inserted", "found", "failed"} : Step(h, pc)
    BY <1>5 DEF Work, Nack, Abandon, DeadLetterGarbled, InsertProcessed, SkipProcessed,
       FindOrder, FailRun, DatabaseError, RollBack, DeadLetter, Retry, Ack, InTx
  <2>3. \A g \in Handlers \ {h} : hs'[g] = hs[g]
    BY <1>0, <2>2 DEF Free, Step, TypeOK
  <2>4. hs'[h].pc # "again"
    <3>1. CASE Free(h)
      BY <1>0, <3>1, FreeTyped DEF IdleSlot
    <3>2. ASSUME hs[h].pc # "idle", NEW pc \in {"settled", "inserted", "found", "failed"}, Step(h, pc)
          PROVE  hs'[h].pc # "again"
      BY <1>0, <3>2, StepTyped DEF PCs, InTx
    <3> QED BY <2>2, <3>1, <3>2
  <2> QED BY <1>0, <2>1, <2>3, <2>4, StampsFrame
<1>6. ASSUME NEW h \in Handlers, NEW c \in Copies, Deliver(h, c)
      PROVE  Stamps'
  <2>1. \A g \in Handlers : hs'[g] = hs[g] \/ hs'[g].pc = "received"
    BY <1>0, <1>6 DEF Deliver, TypeOK
  <2> QED BY <1>0, <1>6, <2>1, StampsFrame DEF Deliver
<1>7. ASSUME NEW p \in Processes, Restart(p) \/ Disconnect(p) \/ Crash(p)
      PROVE  Stamps'
  <2>1. \A h \in Handlers : hs'[h] = hs[h] \/ hs'[h] = IdleSlot
    BY <1>7 DEF Restart, Disconnect, Crash
  <2>2. UNCHANGED <<order, patch, torn>>
    BY <1>7 DEF Restart, Disconnect, Crash
  <2> QED BY <1>0, <2>1, <2>2, StampsFrame DEF IdleSlot
<1>8. CASE UNCHANGED vars
  BY <1>1, <1>8 DEF vars
<1> QED
  BY <1>0, <1>3, <1>4, <1>5, <1>6, <1>7, <1>8, StampsCommit DEF Next, Faults

----------------------------------------------------------------------------
(* Retries: a copy at attempt n follows failures at every smaller number   *)

Tried == CopiesTriedBefore /\ DeadLetterExhausted

\* failedRuns only grows, so what was tried before stays tried.
LEMMA TriedMonotonic ==
  ASSUME NEW m \in Messages, NEW n, TriedBefore(m, n),
         failedRuns[m] \subseteq failedRuns'[m]
  PROVE  TriedBefore(m, n)'
  BY DEF TriedBefore

\* A step that adds no copy, no busy slot and no dead letter.
LEMMA TriedFrame ==
  ASSUME TypeOK, Tried,
         \A m \in Messages : failedRuns'[m] = failedRuns[m],
         \A c \in Copies : queue'[c] > 0 => queue[c] > 0,
         \A m \in Messages : dlq'[m] = dlq[m],
         \A h \in Handlers : \/ hs'[h].pc = "idle"
                             \/ /\ hs[h].pc # "idle" /\ hs'[h].pc # "failed"
                                /\ hs'[h].msg = hs[h].msg
                                /\ hs'[h].attempt = hs[h].attempt
                             \/ hs'[h] = hs[h]
  PROVE  Tried'
<1> USE DEF Tried, CopiesTriedBefore, TriedBefore, DeadLetterExhausted
<1>1. \A c \in Copies : c[1] \in Messages
  BY DEF Copies
<1>2. \A h \in Handlers : hs[h].pc # "idle" => hs[h].msg \in Messages
  BY BusySlot
<1> QED BY <1>1, <1>2

\* A run fails: its attempt number is recorded.
LEMMA TriedFailure ==
  ASSUME TypeOK, Tried, NEW h \in Handlers, hs[h].pc # "idle", Step(h, "failed"),
         failedRuns' = [failedRuns EXCEPT ![hs[h].msg] = @ \cup {hs[h].attempt}],
         queue' = queue, dlq' = dlq
  PROVE  Tried'
<1>1. /\ \A g \in Handlers \ {h} : hs'[g] = hs[g]
      /\ hs'[h].pc = "failed" /\ hs'[h].msg = hs[h].msg /\ hs'[h].attempt = hs[h].attempt
  BY StepTyped DEF PCs
<1>2. hs[h].msg \in Messages /\ hs[h].attempt \in Attempts
  BY BusySlot
<1>3. \A m \in Messages : failedRuns[m] \subseteq failedRuns'[m] /\ failedRuns'[m] \subseteq Attempts
  BY <1>2 DEF TypeOK
<1>4. hs[h].attempt \in failedRuns'[hs[h].msg]
  BY <1>2 DEF TypeOK
<1>5. \A c \in Copies : c[1] \in Messages
  BY DEF Copies
<1>6. \A g \in Handlers : hs[g].pc # "idle" => hs[g].msg \in Messages
  BY BusySlot
<1>7. CopiesTriedBefore'
  BY <1>1, <1>2, <1>3, <1>4, <1>5, <1>6 DEF Tried, CopiesTriedBefore, TriedBefore
<1>8. DeadLetterExhausted'
  BY <1>3 DEF Tried, DeadLetterExhausted
<1> QED BY <1>7, <1>8 DEF Tried

\* A worker step puts a copy at attempt n into circulation only after runs at
\* every smaller number failed, and dead-letters only after the last one failed.
LEMMA TriedWork ==
  ASSUME TypeOK, Tried, NEW h \in Handlers, Work(h)
  PROVE  Tried'
<1>1. CASE Abandon(h) \/ Ack(h) \/ Nack(h)
  <2>1. /\ \A g \in Handlers \ {h} : hs'[g] = hs[g]
        /\ hs'[h].pc = "idle"
    BY <1>1, FreeTyped DEF Abandon, Ack, Nack, IdleSlot
  <2>2. dlq' = dlq /\ failedRuns' = failedRuns
    BY <1>1 DEF Abandon, Ack, Nack
  <2>3. \A c \in Copies : queue'[c] > 0 =>
          queue[c] > 0 \/ (hs[h].pc # "idle" /\ c = <<hs[h].msg, hs[h].attempt>>)
    BY <1>1 DEF Abandon, Ack, Nack, Throws, TypeOK
  <2>4. \A c \in Copies : queue'[c] > 0 => TriedBefore(c[1], c[2])
    BY <2>3 DEF Tried, CopiesTriedBefore
  <2>5. CopiesTriedBefore'
    BY <2>1, <2>2, <2>4 DEF Tried, CopiesTriedBefore, TriedBefore
  <2>6. DeadLetterExhausted'
    BY <2>2 DEF Tried, DeadLetterExhausted
  <2> QED BY <2>5, <2>6 DEF Tried
<1>2. CASE InsertProcessed(h) \/ SkipProcessed(h) \/ FindOrder(h) \/ LoadForSave(h)
  <2>1. /\ \A g \in Handlers \ {h} : hs'[g] = hs[g]
        /\ hs[h].pc # "idle" /\ hs'[h].pc # "failed"
        /\ hs'[h].msg = hs[h].msg /\ hs'[h].attempt = hs[h].attempt
    BY <1>2, StepTyped, LoadSteps DEF InsertProcessed, SkipProcessed, FindOrder, PCs, InTx
  <2>2. queue' = queue /\ dlq' = dlq /\ failedRuns' = failedRuns
    BY <1>2 DEF InsertProcessed, SkipProcessed, FindOrder, LoadForSave
  <2> QED BY <2>1, <2>2, TriedFrame
<1>3. CASE DeadLetterGarbled(h)
  <2>1. /\ \A g \in Handlers \ {h} : hs'[g] = hs[g]
        /\ hs[h].pc # "idle" /\ hs'[h].pc = "settled"
        /\ hs'[h].msg = hs[h].msg /\ hs'[h].attempt = hs[h].attempt
    BY <1>3, StepTyped DEF DeadLetterGarbled, PCs
  <2>2. /\ queue' = queue /\ failedRuns' = failedRuns /\ hs[h].msg \in Garbled
        /\ dlq' = [dlq EXCEPT ![hs[h].msg] = @ + 1]
    BY <1>3 DEF DeadLetterGarbled
  <2>3. CopiesTriedBefore'
    BY <2>1, <2>2 DEF Tried, CopiesTriedBefore, TriedBefore
  <2>4. DeadLetterExhausted'
    BY <2>2 DEF Tried, DeadLetterExhausted, TypeOK
  <2> QED BY <2>3, <2>4 DEF Tried
<1>4. CASE CommitProcessed(h)
  <2>1. hs[h].pc # "idle" /\ queue' = queue /\ dlq' = dlq
    BY <1>4 DEF CommitProcessed
  <2>2. CASE Step(h, "settled") /\ failedRuns' = failedRuns
    <3>1. /\ \A g \in Handlers \ {h} : hs'[g] = hs[g]
          /\ hs'[h].pc = "settled"
          /\ hs'[h].msg = hs[h].msg /\ hs'[h].attempt = hs[h].attempt
      BY <2>1, <2>2, StepTyped DEF PCs
    <3> QED BY <2>1, <2>2, <3>1, TriedFrame
  <2>3. CASE /\ Step(h, "failed")
             /\ failedRuns' = [failedRuns EXCEPT ![hs[h].msg] = @ \cup {hs[h].attempt}]
    BY <2>1, <2>3, TriedFailure
  <2> QED BY <1>4, <2>2, <2>3 DEF CommitProcessed
<1>5. CASE FailRun(h)
  BY <1>5, TriedFailure DEF FailRun, RollBack
<1>6. CASE DeadLetter(h)
  <2>1. /\ \A g \in Handlers \ {h} : hs'[g] = hs[g]
        /\ hs[h].pc = "failed" /\ hs'[h].pc = "settled"
        /\ hs'[h].msg = hs[h].msg /\ hs'[h].attempt = hs[h].attempt
    BY <1>6, StepTyped DEF DeadLetter, PCs
  <2>2. /\ queue' = queue /\ failedRuns' = failedRuns
        /\ dlq' = [dlq EXCEPT ![hs[h].msg] = @ + 1]
    BY <1>6 DEF DeadLetter
  <2>3. CopiesTriedBefore'
    BY <2>1, <2>2 DEF Tried, CopiesTriedBefore, TriedBefore
  <2>4. hs[h].attempt = MaxAttempts
    BY <1>6, <2>1, BusySlot, BoundsAssumption DEF DeadLetter, AttemptsExhausted, Attempts
  <2>5. hs[h].msg \notin Garbled => failedRuns[hs[h].msg] = Attempts
    <3>1. hs[h].msg \notin Garbled =>
            /\ 1..(MaxAttempts - 1) \subseteq failedRuns[hs[h].msg]
            /\ MaxAttempts \in failedRuns[hs[h].msg]
      BY <2>1, <2>4 DEF Tried, CopiesTriedBefore, TriedBefore
    <3>2. failedRuns[hs[h].msg] \subseteq Attempts
      BY <2>1, BusySlot DEF TypeOK
    <3>3. \A i \in Attempts : i \in 1..(MaxAttempts - 1) \/ i = MaxAttempts
      BY BoundsAssumption DEF Attempts
    <3> QED BY <3>1, <3>2, <3>3
  <2>6. DeadLetterExhausted'
    BY <2>2, <2>5 DEF Tried, DeadLetterExhausted, TypeOK
  <2> QED BY <2>3, <2>6 DEF Tried
<1>7. CASE Retry(h)
  <2>1. /\ \A g \in Handlers \ {h} : hs'[g] = hs[g]
        /\ hs[h].pc = "failed" /\ hs'[h].pc = "settled"
        /\ hs'[h].msg = hs[h].msg /\ hs'[h].attempt = hs[h].attempt
    BY <1>7, StepTyped DEF Retry, PCs
  <2> DEFINE n == <<hs[h].msg, hs[h].attempt + 1>>
  <2>2. n \in Copies /\ hs[h].attempt \in Attempts
    BY <1>7, <2>1, NextCopy, BusySlot DEF Retry
  <2>3. /\ \A c \in Copies \ {n} : queue'[c] = queue[c]
        /\ failedRuns' = failedRuns /\ dlq' = dlq
    BY <1>7 DEF Retry, Republished, TypeOK
  <2>4. TriedBefore(hs[h].msg, hs[h].attempt + 1)
    <3>1. hs[h].msg \notin Garbled =>
            /\ 1..(hs[h].attempt - 1) \subseteq failedRuns[hs[h].msg]
            /\ hs[h].attempt \in failedRuns[hs[h].msg]
      BY <2>1 DEF Tried, CopiesTriedBefore, TriedBefore
    <3>2. \A i \in 1..((hs[h].attempt + 1) - 1) :
            i \in 1..(hs[h].attempt - 1) \/ i = hs[h].attempt
      BY <2>2 DEF Attempts
    <3> QED BY <3>1, <3>2 DEF TriedBefore
  <2>5. CopiesTriedBefore'
    <3>1. \A c \in Copies : queue'[c] > 0 => TriedBefore(c[1], c[2])
      BY <2>3, <2>4 DEF Tried, CopiesTriedBefore
    <3>2. \A g \in Handlers : hs'[g].pc # "idle" => TriedBefore(hs'[g].msg, hs'[g].attempt)
      BY <2>1 DEF Tried, CopiesTriedBefore
    <3>3. \A g \in Handlers : hs'[g].pc = "failed" => hs'[g].attempt \in failedRuns[hs'[g].msg]
      BY <2>1 DEF Tried, CopiesTriedBefore
    <3> QED BY <2>3, <3>1, <3>2, <3>3 DEF CopiesTriedBefore, TriedBefore
  <2>6. DeadLetterExhausted'
    BY <2>3 DEF Tried, DeadLetterExhausted
  <2> QED BY <2>5, <2>6 DEF Tried
<1> QED BY <1>1, <1>2, <1>3, <1>4, <1>5, <1>6, <1>7 DEF Work

\* So does every step.
LEMMA TriedInv == IInv /\ [Next]_vars => CopiesTriedBefore' /\ DeadLetterExhausted'
<1> SUFFICES ASSUME IInv, [Next]_vars PROVE Tried'
  BY DEF Tried
<1>0. TypeOK /\ TypeOK' /\ Tried
  BY NextTypeOK DEF IInv, Tried
<1>1. CASE UNCHANGED <<queue, hs, dlq, failedRuns>>
  BY <1>0, <1>1, TriedFrame
<1>2. ASSUME NEW m \in Messages, queue' = [queue EXCEPT ![<<m, 1>>] = @ + 1],
             UNCHANGED <<hs, dlq, failedRuns>>
      PROVE  Tried'
  <2>1. \A c \in Copies : c # <<m, 1>> => queue'[c] = queue[c]
    BY <1>0, <1>2 DEF TypeOK
  <2>2. TriedBefore(m, 1)
    BY DEF TriedBefore
  <2>3. CopiesTriedBefore'
    BY <1>0, <1>2, <2>1, <2>2 DEF Tried, CopiesTriedBefore, TriedBefore
  <2>4. DeadLetterExhausted'
    BY <1>0, <1>2 DEF Tried, DeadLetterExhausted
  <2> QED BY <2>3, <2>4 DEF Tried
<1>3. CASE Api
  <2>1. ASSUME NEW p \in Processes, NEW o \in Orders, Publish(p, o)
        PROVE  Tried'
    BY <1>1, <1>2, <2>1 DEF Publish, Messages
  <2>2. ASSUME NEW m \in Extra, PublishByHand(m)
        PROVE  Tried'
    BY <1>2, <2>2 DEF PublishByHand, Messages
  <2> QED
    BY <1>1, <1>3, <2>1, <2>2 DEF Api, CommitOrder, PatchRead, PatchDiff, PatchUpdate, Remove
<1>4. ASSUME NEW h \in Handlers, NEW c \in Copies, Deliver(h, c)
      PROVE  Tried'
  <2>1. /\ \A g \in Handlers \ {h} : hs'[g] = hs[g]
        /\ hs'[h] = [pc |-> "received", msg |-> c[1], attempt |-> c[2]]
        /\ queue[c] > 0 /\ failedRuns' = failedRuns /\ dlq' = dlq
    BY <1>0, <1>4 DEF Deliver, TypeOK
  <2>2. \A d \in Copies : queue'[d] > 0 => queue[d] > 0
    BY <1>0, <1>4 DEF Deliver, TypeOK
  <2>3. CopiesTriedBefore'
    BY <1>0, <2>1, <2>2 DEF Tried, CopiesTriedBefore, TriedBefore
  <2>4. DeadLetterExhausted'
    BY <1>0, <2>1 DEF Tried, DeadLetterExhausted
  <2> QED BY <2>3, <2>4 DEF Tried
<1>5. ASSUME NEW h \in Handlers, DatabaseError(h)
      PROVE  Tried'
  BY <1>0, <1>5, TriedFailure DEF DatabaseError, RollBack, InTx
<1>6. ASSUME NEW p \in Processes, Disconnect(p) \/ Crash(p)
      PROVE  Tried'
  <2>1. /\ \A h \in Handlers : hs'[h] = hs[h] \/ hs'[h] = IdleSlot
        /\ failedRuns' = failedRuns /\ dlq' = dlq
    BY <1>0, <1>6 DEF Disconnect, Crash, TypeOK
  <2>2. queue' = queue \/ queue' = Requeued(SlotsOf(p))
    BY <1>6 DEF Disconnect, Crash
  <2>3. \A c \in Copies : queue'[c] > 0 => TriedBefore(c[1], c[2])
    <3> SUFFICES ASSUME NEW c \in Copies, queue'[c] > 0
                 PROVE  TriedBefore(c[1], c[2])
      OBVIOUS
    <3>1. CASE queue[c] > 0
      BY <1>0, <3>1 DEF Tried, CopiesTriedBefore
    <3>2. CASE ~(queue[c] > 0)
      <4>1. \E h \in SlotsOf(p) : hs[h].msg = c[1] /\ hs[h].attempt = c[2]
        BY <1>0, <2>2, <3>2, RequeuedTyped DEF SlotsOf
      <4>2. \A h \in Handlers : hs[h].msg = c[1] => hs[h].pc # "idle"
        BY <1>0, MessagesAssumption DEF TypeOK, Slots, IdleSlot, Copies
      <4> QED BY <1>0, <4>1, <4>2 DEF Tried, CopiesTriedBefore, SlotsOf
    <3> QED BY <3>1, <3>2
  <2>4. CopiesTriedBefore'
    BY <1>0, <2>1, <2>3 DEF Tried, CopiesTriedBefore, TriedBefore, IdleSlot
  <2>5. DeadLetterExhausted'
    BY <1>0, <2>1 DEF Tried, DeadLetterExhausted
  <2> QED BY <2>4, <2>5 DEF Tried
<1>7. CASE \E h \in Handlers : Work(h)
  BY <1>0, <1>7, TriedWork
<1>8. CASE \E p \in Processes : Restart(p)
  BY <1>1, <1>8 DEF Restart
<1>9. CASE UNCHANGED vars
  BY <1>1, <1>9 DEF vars
<1> QED BY <1>3, <1>4, <1>5, <1>6, <1>7, <1>8, <1>9 DEF Next, Faults

----------------------------------------------------------------------------
(* No published message is lost                                            *)

\* A slot's step concerns no message but the one it holds, provided it takes
\* away no ready copy, dead letter or processed row.
LEMMA OthersStayAccounted ==
  ASSUME TypeOK, TypeOK', NEW h \in Handlers, NEW m \in Messages, Accounted(m),
         hs[h].msg = m => hs[h].pc = "settled",
         \A g \in Handlers \ {h} : hs'[g] = hs[g],
         \A c \in Copies : queue'[c] >= queue[c],
         dlq'[m] >= dlq[m], processed \subseteq processed', chan' = chan
  PROVE  Accounted(m)'
<1>1. CASE m \in processed \/ dlq[m] > 0
  <2>1. dlq[m] \in Nat /\ dlq'[m] \in Nat
    BY DEF TypeOK
  <2>2. m \in processed' \/ dlq'[m] > 0
    BY <1>1, <2>1
  <2> QED BY <2>2 DEF Accounted
<1>2. CASE ReadyCopies(m) # {}
  <2>1. PICK c \in Copies : c[1] = m /\ queue[c] > 0
    BY <1>2 DEF ReadyCopies
  <2>2. queue'[c] > 0
    <3>1. queue[c] \in Nat /\ queue'[c] \in Nat
      BY DEF TypeOK
    <3> QED BY <2>1, <3>1
  <2> QED BY <2>1, <2>2 DEF Accounted, ReadyCopies
<1>3. CASE WorkedOn(m) # {}
  <2>1. PICK g \in Handlers : hs[g].msg = m /\ hs[g].pc \notin {"idle", "settled"} /\ Live(g)
    BY <1>3 DEF WorkedOn
  <2>2. g # h
    BY <2>1
  <2>3. hs'[g] = hs[g] /\ Live(g)'
    BY <2>1, <2>2 DEF Live
  <2> QED BY <2>1, <2>3 DEF Accounted, WorkedOn
<1> QED BY <1>1, <1>2, <1>3 DEF Accounted

\* No worker step loses the last trace of a published message.
LEMMA NoLossWork ==
  ASSUME TypeOK, TypeOK', NoMessageLost, NEW h \in Handlers, Work(h)
  PROVE  NoMessageLost'
<1>m. PICK m : m = hs[h].msg
  OBVIOUS
<1>0. hs[h].pc # "idle"
  BY DEF Work, Nack, Throws, Abandon, DeadLetterGarbled, InsertProcessed, SkipProcessed,
     FindOrder, LoadForSave, CommitProcessed, FailRun, DeadLetter, Retry, Ack, MayAck, InTx
<1>1. m \in Messages /\ sent \subseteq Messages
  BY <1>0, <1>m, BusySlot DEF TypeOK
<1>2. /\ \A g \in Handlers \ {h} : hs'[g] = hs[g]
      /\ chan' = chan /\ sent' = sent
      /\ processed \subseteq processed'
      /\ \A k \in Messages : dlq'[k] >= dlq[k]
      /\ \A c \in Copies : queue'[c] >= queue[c]
  <2>1. chan' = chan /\ sent' = sent
    BY DEF Work, Nack, Abandon, DeadLetterGarbled, InsertProcessed, SkipProcessed, FindOrder,
       LoadForSave, CommitProcessed, FailRun, RollBack, DeadLetter, Retry, Ack
  <2>2. processed \subseteq processed'
    BY DEF Work, Nack, Abandon, DeadLetterGarbled, InsertProcessed, SkipProcessed, FindOrder,
       LoadForSave, CommitProcessed, MarkProcessed, FailRun, RollBack, DeadLetter, Retry, Ack
  <2>3. \/ dlq' = dlq
        \/ dlq' = [dlq EXCEPT ![m] = @ + 1]
    BY <1>m DEF Work, Nack, Abandon, DeadLetterGarbled, InsertProcessed, SkipProcessed, FindOrder,
       LoadForSave, CommitProcessed, FailRun, RollBack, DeadLetter, Retry, Ack
  <2>4. \A k \in Messages : dlq'[k] >= dlq[k]
    BY <1>1, <2>3 DEF TypeOK
  <2>5. \A c \in Copies : queue'[c] >= queue[c]
    <3>1. \/ queue' = queue
          \/ queue' = [queue EXCEPT ![<<m, hs[h].attempt + 1>>] = @ + 1]
          \/ queue' = [queue EXCEPT ![<<m, hs[h].attempt>>] = @ + 1]
      BY <1>m DEF Work, Nack, Abandon, DeadLetterGarbled, InsertProcessed, SkipProcessed, FindOrder,
         LoadForSave, CommitProcessed, FailRun, RollBack, DeadLetter, Retry, Republished, Ack
    <3>2. queue \in [Copies -> Nat]
      BY DEF TypeOK
    <3>3. ASSUME NEW d, queue' = [queue EXCEPT ![d] = @ + 1], NEW c \in Copies
          PROVE  queue'[c] >= queue[c]
      BY ONLY <3>2, <3>3
    <3>4. CASE queue' = queue
      BY <3>2, <3>4
    <3> QED BY <3>1, <3>3, <3>4
  <2>6. \A g \in Handlers \ {h} : hs'[g] = hs[g]
    BY DEF TypeOK, Work, Nack, Abandon, DeadLetterGarbled, InsertProcessed, SkipProcessed, FindOrder,
       LoadForSave, CommitProcessed, FailRun, RollBack, DeadLetter, Retry, Ack, Step, Free
  <2> QED BY <2>1, <2>2, <2>4, <2>5, <2>6
<1>3. ASSUME NEW k \in sent, k # m \/ hs[h].pc = "settled"
      PROVE  Accounted(k)'
  <2>1. Accounted(k) /\ k \in Messages
    BY <1>1 DEF NoMessageLost
  <2> QED BY <1>2, <1>3, <1>m, <2>1, OthersStayAccounted
<1>4. ASSUME m \in sent, hs[h].pc # "settled"
      PROVE  Accounted(m)'
  <2>1. CASE Abandon(h)
    \* The channel is closed: this slot was not what accounted for m.
    <3>1. Accounted(m)
      BY <1>4 DEF NoMessageLost
    <3>2. ~Live(h) /\ processed' = processed /\ dlq' = dlq /\ queue' = queue
      BY <2>1 DEF Abandon, Live
    <3>3. \A g \in WorkedOn(m) : g \in WorkedOn(m)'
      BY <1>2, <1>m, <3>2 DEF WorkedOn, Live
    <3> QED BY <3>1, <3>2, <3>3 DEF Accounted, ReadyCopies
  <2>2. CASE DeadLetterGarbled(h) \/ DeadLetter(h)
    <3>1. dlq'[m] = dlq[m] + 1 /\ dlq[m] \in Nat
      BY <1>1, <1>m, <2>2 DEF DeadLetterGarbled, DeadLetter, TypeOK
    <3> QED BY <3>1 DEF Accounted
  <2>3. CASE SkipProcessed(h) \/ CommitProcessed(h)
    <3>1. m \in processed'
      BY <1>m, <2>3 DEF SkipProcessed, CommitProcessed, MarkProcessed
    <3> QED BY <3>1 DEF Accounted
  <2>4. CASE InsertProcessed(h) \/ FindOrder(h) \/ LoadForSave(h) \/ FailRun(h)
    <3>1. /\ hs'[h].msg = m /\ hs'[h].pc \notin {"idle", "settled"}
          /\ queue' = queue /\ dlq' = dlq /\ processed' = processed
      BY <1>0, <1>m, <2>4, StepTyped, LoadSteps
      DEF InsertProcessed, FindOrder, LoadForSave, FailRun, RollBack, PCs, InTx
    <3>2. CASE Live(h)
      <4>1. h \in WorkedOn(m)'
        BY <1>2, <3>1, <3>2 DEF WorkedOn, Live
      <4> QED BY <4>1 DEF Accounted
    <3>3. CASE ~Live(h)
      <4>1. Accounted(m)
        BY <1>4 DEF NoMessageLost
      <4>2. \A g \in WorkedOn(m) : g \in WorkedOn(m)'
        BY <1>2, <1>m, <3>3 DEF WorkedOn, Live
      <4> QED BY <3>1, <4>1, <4>2 DEF Accounted, ReadyCopies
    <3> QED BY <3>2, <3>3
  <2>5. CASE Retry(h)
    <3> DEFINE n == <<m, hs[h].attempt + 1>>
    <3>1. n \in Copies
      BY <1>0, <1>m, <2>5, NextCopy DEF Retry
    <3>2. queue'[n] = queue[n] + 1 /\ queue[n] \in Nat
      BY <1>m, <2>5, <3>1 DEF Retry, Republished, TypeOK
    <3>3. n \in ReadyCopies(m)'
      BY <3>1, <3>2 DEF ReadyCopies
    <3> QED BY <3>3 DEF Accounted
  <2>6. CASE Ack(h)
    BY <1>4, <2>6 DEF Ack, MayAck
  <2>7. CASE Nack(h)
    <3> DEFINE n == <<m, hs[h].attempt>>
    <3>1. n \in Copies /\ queue[n] \in Nat
      BY <1>0, <1>m, HeldCopy
    <3>2. queue'[n] = queue[n] + 1
      BY <1>m, <2>7, <3>1 DEF Nack, TypeOK
    <3>3. n \in ReadyCopies(m)'
      BY <3>1, <3>2 DEF ReadyCopies
    <3> QED BY <3>3 DEF Accounted
  <2> QED BY <2>1, <2>2, <2>3, <2>4, <2>5, <2>6, <2>7 DEF Work
<1> QED BY <1>2, <1>3, <1>4 DEF NoMessageLost

\* Closing a channel or killing a process turns what its slots were working
\* on into ready copies.
LEMMA NoLossRequeue ==
  ASSUME TypeOK, NoMessageLost, NEW p \in Processes, Disconnect(p) \/ Crash(p)
  PROVE  NoMessageLost'
<1>1. /\ processed' = processed /\ dlq' = dlq /\ sent' = sent
      /\ \A g \in Handlers : HostOf[g] # p => hs'[g] = hs[g] /\ Live(g)' = Live(g)
  BY HandlersAssumption DEF Disconnect, Crash, TypeOK, Live
<1>2. chan[p] = "open" => queue' = Requeued(SlotsOf(p))
  BY DEF Disconnect, Crash
<1>3. chan[p] # "open" => queue' = queue
  BY DEF Disconnect, Crash
<1>4. SUFFICES ASSUME NEW m \in sent PROVE Accounted(m)'
  BY <1>1 DEF NoMessageLost
<1>5. Accounted(m) /\ m \in Messages
  BY DEF NoMessageLost, TypeOK
<1>6. CASE m \in processed \/ dlq[m] > 0
  BY <1>1, <1>6 DEF Accounted
<1>7. CASE ReadyCopies(m) # {}
  <2>1. PICK c \in Copies : c[1] = m /\ queue[c] > 0
    BY <1>7 DEF ReadyCopies
  <2>2. queue'[c] > 0
    <3>1. /\ Requeued(SlotsOf(p))[c] >= queue[c]
          /\ queue[c] \in Nat /\ Requeued(SlotsOf(p))[c] \in Nat
      BY RequeuedTyped DEF SlotsOf, TypeOK
    <3> QED BY <1>2, <1>3, <2>1, <3>1
  <2> QED BY <2>1, <2>2 DEF Accounted, ReadyCopies
<1>8. CASE WorkedOn(m) # {}
  <2>1. PICK g \in Handlers : hs[g].msg = m /\ hs[g].pc \notin {"idle", "settled"} /\ Live(g)
    BY <1>8 DEF WorkedOn
  <2>2. CASE HostOf[g] # p
    BY <1>1, <2>1, <2>2 DEF Accounted, WorkedOn
  <2>3. CASE HostOf[g] = p
    <3> DEFINE c == <<hs[g].msg, hs[g].attempt>>
    <3>1. c \in Copies /\ c[1] = m
      BY <2>1, BusySlot DEF Copies
    <3>2. queue'[c] > 0
      BY <1>2, <2>1, <2>3, RequeuedTyped DEF SlotsOf, Live
    <3>3. PICK d : d = c
      OBVIOUS
    <3>4. d \in ReadyCopies(m)'
      BY <3>1, <3>2, <3>3 DEF ReadyCopies
    <3> QED BY <3>4 DEF Accounted
  <2> QED BY <2>2, <2>3
<1> QED BY <1>5, <1>6, <1>7, <1>8 DEF Accounted

\* A step that publishes at most one more copy and leaves the slots alone.
LEMMA NoLossPublish ==
  ASSUME TypeOK, TypeOK', NoMessageLost, NEW M \in SUBSET Messages,
         sent' = sent \cup M,
         \A m \in M : queue'[<<m, 1>>] > 0,
         \A c \in Copies : queue'[c] >= queue[c],
         UNCHANGED <<processed, dlq, hs, chan>>
  PROVE  NoMessageLost'
<1> SUFFICES ASSUME NEW m \in sent' PROVE Accounted(m)'
  BY DEF NoMessageLost
<1>1. CASE m \in sent
  <2>1. Accounted(m)
    BY <1>1 DEF NoMessageLost
  <2>2. WorkedOn(m)' = WorkedOn(m)
    BY DEF WorkedOn, Live
  <2>3. ReadyCopies(m) \subseteq ReadyCopies(m)'
    BY DEF ReadyCopies, TypeOK
  <2> QED BY <2>1, <2>2, <2>3 DEF Accounted
<1>2. CASE m \in M
  <2>1. <<m, 1>> \in Copies
    BY <1>2, BoundsAssumption DEF Copies, Attempts
  <2>2. <<m, 1>> \in ReadyCopies(m)'
    BY <1>2, <2>1 DEF ReadyCopies
  <2> QED BY <2>2 DEF Accounted
<1> QED BY <1>1, <1>2

\* No step does.
LEMMA NoLossInv == IInv /\ [Next]_vars => NoMessageLost'
<1> SUFFICES ASSUME IInv, [Next]_vars PROVE NoMessageLost'
  OBVIOUS
<1>0. TypeOK /\ TypeOK' /\ NoMessageLost
  BY NextTypeOK DEF IInv
<1>1. CASE UNCHANGED <<sent, queue, processed, dlq, hs, chan>>
  <2>1. \A m : WorkedOn(m)' = WorkedOn(m) /\ ReadyCopies(m)' = ReadyCopies(m)
    BY <1>1 DEF WorkedOn, ReadyCopies, Live
  <2> QED BY <1>0, <1>1, <2>1 DEF NoMessageLost, Accounted
<1>2. CASE Api
  <2>1. ASSUME NEW p \in Processes, NEW o \in Orders, Publish(p, o)
        PROVE  NoMessageLost'
    <3>1. CASE UNCHANGED <<queue, sent>>
      BY <1>1, <2>1, <3>1 DEF Publish
    <3>2. CASE queue' = [queue EXCEPT ![<<o, 1>>] = @ + 1] /\ sent' = sent \cup {o}
      <4>1. <<o, 1>> \in Copies /\ {o} \in SUBSET Messages
        BY BoundsAssumption DEF Copies, Messages, Attempts
      <4>3. queue \in [Copies -> Nat]
        BY <1>0 DEF TypeOK
      <4>2. queue'[<<o, 1>>] > 0 /\ \A c \in Copies : queue'[c] >= queue[c]
        BY ONLY <3>2, <4>1, <4>3
      <4> QED BY <1>0, <2>1, <3>2, <4>1, <4>2, NoLossPublish DEF Publish
    <3> QED BY <2>1, <3>1, <3>2 DEF Publish
  <2>2. ASSUME NEW x \in Extra, PublishByHand(x)
        PROVE  NoMessageLost'
    <3>1. <<x, 1>> \in Copies /\ {x} \in SUBSET Messages
      BY BoundsAssumption DEF Copies, Messages, Attempts
    <3>3. queue \in [Copies -> Nat] /\ queue' = [queue EXCEPT ![<<x, 1>>] = @ + 1]
      BY <1>0, <2>2 DEF TypeOK, PublishByHand
    <3>2. queue'[<<x, 1>>] > 0 /\ \A c \in Copies : queue'[c] >= queue[c]
      BY ONLY <3>1, <3>3
    <3> QED BY <1>0, <2>2, <3>1, <3>2, NoLossPublish DEF PublishByHand
  <2> QED
    BY <1>1, <1>2, <2>1, <2>2 DEF Api, CommitOrder, PatchRead, PatchDiff, PatchUpdate, Remove
<1>3. ASSUME NEW h \in Handlers, NEW c \in Copies, Deliver(h, c)
      PROVE  NoMessageLost'
  <2>1. /\ \A g \in Handlers \ {h} : hs'[g] = hs[g]
        /\ hs'[h] = [pc |-> "received", msg |-> c[1], attempt |-> c[2]]
        /\ hs[h].pc = "idle" /\ Live(h) /\ chan' = chan
        /\ processed' = processed /\ dlq' = dlq /\ sent' = sent
        /\ \A d \in Copies \ {c} : queue'[d] = queue[d]
    BY <1>0, <1>3 DEF Deliver, TypeOK, IdleSlot
  <2>2. SUFFICES ASSUME NEW m \in sent PROVE Accounted(m)'
    BY <2>1 DEF NoMessageLost
  <2>3. Accounted(m)
    BY <1>0 DEF NoMessageLost
  <2>4. CASE c[1] = m
    <3>1. h \in WorkedOn(m)'
      BY <2>1, <2>4 DEF WorkedOn, Live
    <3> QED BY <3>1 DEF Accounted
  <2>5. CASE c[1] # m
    <3>1. ReadyCopies(m) \subseteq ReadyCopies(m)'
      BY <2>1, <2>5 DEF ReadyCopies
    <3>2. WorkedOn(m) \subseteq WorkedOn(m)'
      BY <2>1 DEF WorkedOn, Live
    <3> QED BY <2>1, <2>3, <3>1, <3>2 DEF Accounted
  <2> QED BY <2>4, <2>5
<1>4. CASE \E h \in Handlers : Work(h)
  BY <1>0, <1>4, NoLossWork
<1>5. ASSUME NEW p \in Processes, Restart(p)
      PROVE  NoMessageLost'
  <2>1. \A m : WorkedOn(m) \subseteq WorkedOn(m)' /\ ReadyCopies(m)' = ReadyCopies(m)
    BY <1>0, <1>5 DEF Restart, WorkedOn, ReadyCopies, Live, TypeOK
  <2> QED BY <1>0, <1>5, <2>1 DEF Restart, NoMessageLost, Accounted
<1>6. ASSUME NEW h \in Handlers, DatabaseError(h)
      PROVE  NoMessageLost'
  <2>1. hs[h].pc # "idle" /\ hs[h].pc # "settled"
    BY <1>6 DEF DatabaseError, InTx
  <2>2. /\ \A g \in Handlers \ {h} : hs'[g] = hs[g]
        /\ hs'[h].pc = "failed" /\ hs'[h].msg = hs[h].msg
        /\ UNCHANGED <<processed, dlq, sent, queue, chan>>
    BY <1>0, <1>6, <2>1, StepTyped DEF DatabaseError, RollBack, PCs
  <2>3. \A m : WorkedOn(m) \subseteq WorkedOn(m)' /\ ReadyCopies(m)' = ReadyCopies(m)
    BY <2>1, <2>2 DEF WorkedOn, ReadyCopies, Live
  <2> QED BY <1>0, <2>2, <2>3 DEF NoMessageLost, Accounted
<1>7. ASSUME NEW p \in Processes, Disconnect(p) \/ Crash(p)
      PROVE  NoMessageLost'
  BY <1>0, <1>7, NoLossRequeue
<1>8. CASE UNCHANGED vars
  BY <1>1, <1>8 DEF vars
<1> QED BY <1>2, <1>3, <1>4, <1>5, <1>6, <1>7, <1>8 DEF Next, Faults

----------------------------------------------------------------------------
(* Nothing circulates that was not published                               *)

\* Nothing circulates that was not published.
LEMMA UnsentInv == IInv /\ [Next]_vars => NothingUnsent'
<1> SUFFICES ASSUME IInv, [Next]_vars PROVE NothingUnsent'
  OBVIOUS
<1>0. TypeOK /\ TypeOK' /\ NothingUnsent
  BY NextTypeOK DEF IInv
<1> USE DEF NothingUnsent
<1>1. CASE UNCHANGED <<sent, queue, hs>>
  BY <1>0, <1>1
<1>2. ASSUME NEW m \in Messages, queue' = [queue EXCEPT ![<<m, 1>>] = @ + 1],
             sent' = sent \cup {m}, hs' = hs
      PROVE  NothingUnsent'
  <2>1. \A c \in Copies : c # <<m, 1>> => queue'[c] = queue[c]
    BY <1>0, <1>2 DEF TypeOK
  <2> QED BY <1>0, <1>2, <2>1
<1>3. CASE Api
  <2>1. ASSUME NEW p \in Processes, NEW o \in Orders, Publish(p, o)
        PROVE  NothingUnsent'
    BY <1>1, <1>2, <2>1 DEF Publish, Messages
  <2>2. ASSUME NEW m \in Extra, PublishByHand(m)
        PROVE  NothingUnsent'
    BY <1>2, <2>2 DEF PublishByHand, Messages
  <2> QED
    BY <1>1, <1>3, <2>1, <2>2 DEF Api, CommitOrder, PatchRead, PatchDiff, PatchUpdate, Remove
<1>4. ASSUME NEW h \in Handlers, NEW c \in Copies, Deliver(h, c)
      PROVE  NothingUnsent'
  <2>1. /\ \A g \in Handlers \ {h} : hs'[g] = hs[g]
        /\ hs'[h] = [pc |-> "received", msg |-> c[1], attempt |-> c[2]]
        /\ queue[c] > 0 /\ sent' = sent
        /\ \A d \in Copies : queue'[d] > 0 => queue[d] > 0
    BY <1>0, <1>4 DEF Deliver, TypeOK
  <2> QED BY <1>0, <2>1
<1>5. ASSUME NEW h \in Handlers, Work(h) \/ DatabaseError(h)
      PROVE  NothingUnsent'
  <2>1. /\ hs[h].pc # "idle" /\ sent' = sent
        /\ \/ queue' = queue
           \/ queue' = [queue EXCEPT ![<<hs[h].msg, hs[h].attempt + 1>>] = @ + 1]
           \/ queue' = [queue EXCEPT ![<<hs[h].msg, hs[h].attempt>>] = @ + 1]
        /\ Free(h) \/ \E pc \in PCs \ {"idle"} : Step(h, pc)
    BY <1>5 DEF Work, Nack, Abandon, DeadLetterGarbled, InsertProcessed, SkipProcessed, FindOrder,
       LoadForSave, CommitProcessed, FailRun, DatabaseError, RollBack, DeadLetter, Retry,
       Republished, Ack, MayAck, Throws, InTx, PCs
  <2>2. \A g \in Handlers : hs'[g].pc # "idle" => hs[g].pc # "idle" /\ hs'[g].msg = hs[g].msg
    BY <1>0, <2>1, StepTyped, FreeTyped DEF IdleSlot
  <2>3. \A c \in Copies : queue'[c] > 0 => queue[c] > 0 \/ c[1] = hs[h].msg
    BY <1>0, <2>1 DEF TypeOK
  <2> QED BY <1>0, <2>1, <2>2, <2>3
<1>6. ASSUME NEW p \in Processes, Disconnect(p) \/ Crash(p)
      PROVE  NothingUnsent'
  <2>1. /\ \A h \in Handlers : hs'[h] = hs[h] \/ hs'[h] = IdleSlot
        /\ sent' = sent
    BY <1>0, <1>6 DEF Disconnect, Crash, TypeOK
  <2>2. queue' = queue \/ queue' = Requeued(SlotsOf(p))
    BY <1>6 DEF Disconnect, Crash
  <2>3. ASSUME NEW c \in Copies, queue'[c] > 0
        PROVE  c[1] \in sent
    <3>1. CASE ~(queue[c] > 0)
      <4>1. \E h \in SlotsOf(p) : hs[h].msg = c[1] /\ hs[h].attempt = c[2]
        BY <1>0, <2>2, <2>3, <3>1, RequeuedTyped DEF SlotsOf
      <4>2. \A h \in Handlers : hs[h].msg = c[1] => hs[h].pc # "idle"
        BY <1>0, MessagesAssumption DEF TypeOK, Slots, IdleSlot, Copies
      <4> QED BY <1>0, <4>1, <4>2 DEF SlotsOf
    <3> QED BY <1>0, <3>1
  <2> QED BY <1>0, <2>1, <2>3 DEF IdleSlot
<1>7. CASE \E p \in Processes : Restart(p)
  BY <1>1, <1>7 DEF Restart
<1>8. CASE UNCHANGED vars
  BY <1>1, <1>8 DEF vars
<1> QED BY <1>3, <1>4, <1>5, <1>6, <1>7, <1>8 DEF Next, Faults

----------------------------------------------------------------------------
(* The inductive invariant and the theorems                                *)

\* The inductive invariant holds initially.
LEMMA InitIInv == Init => IInv
<1> SUFFICES ASSUME Init PROVE IInv
  OBVIOUS
<1>1. TypeOK
  BY InitTypeOK
<1>2. NoMessageLost /\ ExactlyOnce
  BY DEF Init, NoMessageLost, ExactlyOnce
<1>3. DeadLetterExhausted /\ CopiesTriedBefore
  BY DEF Init, DeadLetterExhausted, CopiesTriedBefore, IdleSlot
<1>4. Stamps
  BY DEF Init, Stamps, StampedIffProcessed, PatchIsUnstamped, PatchIsCurrent, RunIsCurrent,
         IdleSlot
<1>5. OneOpenTx /\ OpenTxIsFresh
  BY DEF Init, OneOpenTx, OpenTxIsFresh, IdleSlot, InTx
<1>6. NothingUnsent
  BY DEF Init, NothingUnsent, IdleSlot
<1> QED BY <1>1, <1>2, <1>3, <1>4, <1>5, <1>6 DEF IInv, Stamps

\* Every step preserves the inductive invariant.
LEMMA NextIInv == IInv /\ [Next]_vars => IInv'
<1> SUFFICES ASSUME IInv, [Next]_vars PROVE IInv'
  OBVIOUS
<1>1. TypeOK'
  BY NextTypeOK DEF IInv
<1>2. OneOpenTx' /\ OpenTxIsFresh'
  BY TxInv
<1>3. ExactlyOnce'
  BY ExactlyOnceInv
<1>4. Stamps'
  BY StampedInv
<1>5. CopiesTriedBefore' /\ DeadLetterExhausted'
  BY TriedInv
<1>6. NoMessageLost'
  BY NoLossInv
<1>7. NothingUnsent'
  BY UnsentInv
<1> QED BY <1>1, <1>2, <1>3, <1>4, <1>5, <1>6, <1>7 DEF IInv, Stamps

\* IInv holds in every reachable state.
THEOREM Inductive == Spec => []IInv
<1>1. Init => IInv
  BY InitIInv
<1>2. IInv /\ [Next]_vars => IInv'
  BY NextIInv
<1> QED BY <1>1, <1>2, PTL DEF Spec

\* A published message is never lost, however many processes crash or lose
\* their channel and whatever the database does.
THEOREM NoLoss == Spec => []NoMessageLost
<1>1. IInv => NoMessageLost
  BY DEF IInv
<1> QED BY <1>1, Inductive, PTL

\* Any number of redelivered copies, worked on concurrently, leave exactly
\* one outbox row per processed message.
THEOREM EffectExactlyOnce == Spec => []ExactlyOnce
<1>1. IInv => ExactlyOnce
  BY DEF IInv
<1> QED BY <1>1, Inductive, PTL

\* A JSON message reaches orders.dlq only after MaxAttempts failed runs.
THEOREM DeadLettersAreExhausted == Spec => []DeadLetterExhausted
<1>1. IInv => DeadLetterExhausted
  BY DEF IInv
<1> QED BY <1>1, Inductive, PTL

\* processed_at and the status 'processed' drift apart only on a row that changed
\* between the re-select and the UPDATE of a save that writes one column of it.
THEOREM StampMatchesStatus == Spec => []StampedIffProcessed
<1>1. IInv => StampedIffProcessed
  BY DEF IInv
<1> QED BY <1>1, Inductive, PTL

\* An order becomes 'processed' only together with the first processing of a
\* message of its own.
THEOREM RedeliveryChangesNothing == Spec => NoDuplicateUpdate
<1> DEFINE A == \A o \in Orders :
       order[o].status # "PROCESSED" /\ order'[o].status = "PROCESSED" =>
         \E m \in processed' \ processed : Target(m) = o
<1>1. IInv /\ [Next]_vars => A
  <2> SUFFICES ASSUME IInv, [Next]_vars,
                      NEW o \in Orders,
                      order[o].status # "PROCESSED", order'[o].status = "PROCESSED"
               PROVE  \E m \in processed' \ processed : Target(m) = o
    OBVIOUS
  <2>0. TypeOK /\ PatchIsUnstamped /\ OpenTxIsFresh
    BY DEF IInv
  <2>1. ASSUME NEW h \in Handlers, CommitProcessed(h)
        PROVE  \E m \in processed' \ processed : Target(m) = o
    <3>1. hs[h].msg \notin processed /\ hs[h].msg \in processed'
      BY <2>0, <2>1 DEF CommitProcessed, MarkProcessed, OpenTxIsFresh, InTx
    <3>2. Target(hs[h].msg) = o
      <4>1. Target(hs[h].msg) \in Orders
        BY <2>0, <2>1, BusySlot, TargetTyped DEF CommitProcessed
      <4> QED BY <2>0, <2>1, <4>1, ProcessedRowTyped, RowWritten DEF CommitProcessed
    <3> QED BY <3>1, <3>2
  <2>2. CASE ~\E h \in Handlers : CommitProcessed(h)
    <3>1. \/ order' = order
          \/ \E p \in Processes, i \in Orders : CommitOrder(p, i)
          \/ \E c \in Clients : PatchUpdate(c)
          \/ \E i \in Orders : Remove(i)
      BY <2>2 DEF Next, Api, Publish, PublishByHand, PatchRead, PatchDiff, Deliver, Work, Nack, Abandon,
         DeadLetterGarbled, InsertProcessed, SkipProcessed, FindOrder, LoadForSave, FailRun,
         RollBack, DeadLetter, Retry, Ack, Restart, Faults, DatabaseError, Disconnect, Crash,
         vars
    <3>2. ASSUME NEW p \in Processes, NEW i \in Orders, CommitOrder(p, i)
          PROVE  FALSE
      BY <2>0, <3>2 DEF CommitOrder, TypeOK, Rows
    <3>3. ASSUME NEW c \in Clients, PatchUpdate(c)
          PROVE  FALSE
      <4>1. patch[c].id \in Orders /\ PatchedRow(c) \in Rows
        BY <2>0, <3>3, PatchedRowTyped DEF PatchUpdate
      <4>2. order'[o] = order[o] \/ (order'[o] = PatchedRow(c) /\ o = patch[c].id)
        BY <2>0, <3>3, <4>1, RowWritten DEF PatchUpdate
      <4>3. patch[c].entity.status # "PROCESSED"
        BY <2>0, <3>3 DEF PatchUpdate, PatchIsUnstamped
      <4> QED BY <4>2, <4>3 DEF PatchedRow
    <3>4. ASSUME NEW i \in Orders, Remove(i)
          PROVE  FALSE
      BY <2>0, <3>4 DEF Remove, TypeOK
    <3> QED BY <3>1, <3>2, <3>3, <3>4
  <2> QED BY <2>1, <2>2
<1>2. Spec => [][A]_vars
  BY <1>1, Inductive, PTL DEF Spec
<1> QED BY <1>2 DEF NoDuplicateUpdate

----------------------------------------------------------------------------
(* One holder per message while nothing is lost                            *)

\* A step that adds no copy and no dead letter and puts no slot to work on
\* another message keeps every message with one holder.
LEMMA HolderFrame ==
  ASSUME OneHolder, queue' = queue, dlq' = dlq,
         \A h \in Handlers : Working(h)' => Working(h) /\ hs'[h].msg = hs[h].msg
  PROVE  OneHolder'
  BY DEF OneHolder

\* What becomes of a slot that works on: the others stay as they were.
LEMMA SlotMoves ==
  ASSUME TypeOK, NEW h \in Handlers, Working(h),
         NEW pc \in PCs \ {"idle"}, Step(h, pc)
  PROVE  /\ \A g \in Handlers \ {h} : hs'[g] = hs[g]
         /\ hs'[h].msg = hs[h].msg
         /\ Working(h)' <=> pc # "settled"
  BY StepTyped DEF Working

\* A slot that settles and puts its message on orders.dlq hands it over.
LEMMA DeadLetterHolds ==
  ASSUME TypeOK, OneHolder, NEW h \in Handlers, Working(h), Step(h, "settled"),
         queue' = queue, dlq' = [dlq EXCEPT ![hs[h].msg] = @ + 1]
  PROVE  OneHolder'
<1>1. /\ \A g \in Handlers \ {h} : hs'[g] = hs[g]
      /\ ~Working(h)'
  BY SlotMoves DEF PCs
<1>2. hs[h].msg \in Messages /\ dlq[hs[h].msg] = 0
  BY BusySlot DEF Working, OneHolder
<1>3. /\ dlq'[hs[h].msg] = 1
      /\ \A m \in Messages \ {hs[h].msg} : dlq'[m] = dlq[m]
  BY <1>2 DEF TypeOK
<1>4. \A g \in Handlers : Working(g)' =>
        /\ Working(g) /\ hs'[g].msg = hs[g].msg
        /\ hs[g].msg # hs[h].msg /\ hs[g].msg \in Messages
  <2> SUFFICES ASSUME NEW g \in Handlers, Working(g)'
               PROVE  /\ Working(g) /\ hs'[g].msg = hs[g].msg
                      /\ hs[g].msg # hs[h].msg /\ hs[g].msg \in Messages
    OBVIOUS
  <2>1. g # h /\ hs'[g] = hs[g] /\ Working(g)
    BY <1>1 DEF Working
  <2> QED BY <2>1, BusySlot DEF Working, OneHolder
<1>5. \A c \in Copies : queue'[c] > 0 => c[1] # hs[h].msg /\ c[1] \in Messages
  BY DEF OneHolder, Copies
<1> QED BY <1>3, <1>4, <1>5 DEF OneHolder

\* A slot that settles and publishes the next attempt hands the message over
\* to the queue.
LEMMA RetryHolds ==
  ASSUME TypeOK, OneHolder, NEW h \in Handlers, Retry(h)
  PROVE  OneHolder'
<1> DEFINE n == <<hs[h].msg, hs[h].attempt + 1>>
<1>1. Working(h) /\ hs[h].pc # "idle"
  BY DEF Retry, Working
<1>2. /\ \A g \in Handlers \ {h} : hs'[g] = hs[g]
      /\ ~Working(h)'
  BY <1>1, SlotMoves DEF Retry, PCs
<1>3. n \in Copies /\ n[1] = hs[h].msg /\ hs[h].msg \in Messages
  BY <1>1, NextCopy, BusySlot DEF Retry
<1>4. \A c \in Copies : queue[c] > 0 => c[1] # hs[h].msg
  BY <1>1 DEF OneHolder
<1>5. queue[n] = 0
  BY <1>3, <1>4 DEF TypeOK
<1>6. /\ queue'[n] = 1
      /\ \A c \in Copies \ {n} : queue'[c] = queue[c]
  BY <1>3, <1>5 DEF Retry, Republished, TypeOK
<1>7. \A g \in Handlers : Working(g)' =>
        Working(g) /\ hs'[g].msg = hs[g].msg /\ hs[g].msg # hs[h].msg
  <2> SUFFICES ASSUME NEW g \in Handlers, Working(g)'
               PROVE  Working(g) /\ hs'[g].msg = hs[g].msg /\ hs[g].msg # hs[h].msg
    OBVIOUS
  <2>1. g # h /\ hs'[g] = hs[g] /\ Working(g)
    BY <1>2 DEF Working
  <2> QED BY <1>1, <2>1 DEF OneHolder
<1>8. dlq' = dlq /\ dlq[hs[h].msg] = 0
  BY <1>1 DEF Retry, OneHolder
<1>9. \A c \in Copies : queue'[c] > 0 => c = n \/ (queue[c] > 0 /\ c[1] # hs[h].msg /\ queue'[c] = queue[c])
  BY <1>4, <1>6
<1> HIDE DEF n
<1>10. \A c, d \in Copies : queue'[c] > 0 /\ queue'[d] > 0 /\ c[1] = d[1] => c = d
  BY <1>3, <1>9 DEF OneHolder
<1>11. \A f, g \in Handlers : Working(f)' /\ Working(g)' /\ hs'[f].msg = hs'[g].msg => f = g
  BY <1>7 DEF OneHolder
<1>12. \A c \in Copies, g \in Handlers : queue'[c] > 0 /\ Working(g)' => hs'[g].msg # c[1]
  BY <1>3, <1>7, <1>9 DEF OneHolder
<1>13. \A c \in Copies : queue'[c] > 0 => queue'[c] = 1 /\ dlq'[c[1]] = 0
  BY <1>3, <1>6, <1>8, <1>9 DEF OneHolder
<1>14. /\ \A g \in Handlers : Working(g)' => dlq'[hs'[g].msg] = 0
       /\ \A m \in Messages : dlq'[m] <= 1
  BY <1>7, <1>8 DEF OneHolder
<1> QED BY <1>10, <1>11, <1>12, <1>13, <1>14 DEF OneHolder

\* So does a slot whose copy the nack gives back.
LEMMA NackHolds ==
  ASSUME TypeOK, OneHolder, NEW h \in Handlers, Nack(h)
  PROVE  OneHolder'
<1> DEFINE n == <<hs[h].msg, hs[h].attempt>>
<1>1. Working(h) /\ hs[h].pc # "idle"
  BY DEF Nack, Throws, Working
<1>2. /\ \A g \in Handlers \ {h} : hs'[g] = hs[g]
      /\ ~Working(h)'
  BY FreeTyped DEF Nack, Working, IdleSlot
<1>3. n \in Copies /\ n[1] = hs[h].msg /\ hs[h].msg \in Messages
  BY <1>1, HeldCopy, BusySlot
<1>4. \A c \in Copies : queue[c] > 0 => c[1] # hs[h].msg
  BY <1>1 DEF OneHolder
<1>5. queue[n] = 0
  BY <1>3, <1>4 DEF TypeOK
<1>6. /\ queue'[n] = 1
      /\ \A c \in Copies \ {n} : queue'[c] = queue[c]
  BY <1>3, <1>5 DEF Nack, TypeOK
<1>7. \A g \in Handlers : Working(g)' =>
        Working(g) /\ hs'[g].msg = hs[g].msg /\ hs[g].msg # hs[h].msg
  <2> SUFFICES ASSUME NEW g \in Handlers, Working(g)'
               PROVE  Working(g) /\ hs'[g].msg = hs[g].msg /\ hs[g].msg # hs[h].msg
    OBVIOUS
  <2>1. g # h /\ hs'[g] = hs[g] /\ Working(g)
    BY <1>2 DEF Working
  <2> QED BY <1>1, <2>1 DEF OneHolder
<1>8. dlq' = dlq /\ dlq[hs[h].msg] = 0
  BY <1>1 DEF Nack, OneHolder
<1>9. \A c \in Copies : queue'[c] > 0 => c = n \/ (queue[c] > 0 /\ c[1] # hs[h].msg /\ queue'[c] = queue[c])
  BY <1>4, <1>6
<1> HIDE DEF n
<1>10. \A c, d \in Copies : queue'[c] > 0 /\ queue'[d] > 0 /\ c[1] = d[1] => c = d
  BY <1>3, <1>9 DEF OneHolder
<1>11. \A f, g \in Handlers : Working(f)' /\ Working(g)' /\ hs'[f].msg = hs'[g].msg => f = g
  BY <1>7 DEF OneHolder
<1>12. \A c \in Copies, g \in Handlers : queue'[c] > 0 /\ Working(g)' => hs'[g].msg # c[1]
  BY <1>3, <1>7, <1>9 DEF OneHolder
<1>13. \A c \in Copies : queue'[c] > 0 => queue'[c] = 1 /\ dlq'[c[1]] = 0
  BY <1>3, <1>6, <1>8, <1>9 DEF OneHolder
<1>14. /\ \A g \in Handlers : Working(g)' => dlq'[hs'[g].msg] = 0
       /\ \A m \in Messages : dlq'[m] <= 1
  BY <1>7, <1>8 DEF OneHolder
<1> QED BY <1>10, <1>11, <1>12, <1>13, <1>14 DEF OneHolder

\* The first publish of a message gives it its first holder.
LEMMA PublishHolds ==
  ASSUME TypeOK, OneHolder, NothingUnsent, DeadWasSent,
         NEW m \in Messages, m \notin sent,
         queue' = [queue EXCEPT ![<<m, 1>>] = @ + 1], hs' = hs, dlq' = dlq
  PROVE  OneHolder'
<1> DEFINE n == <<m, 1>>
<1>1. n \in Copies /\ n[1] = m
  BY BoundsAssumption DEF Copies, Attempts
<1>2. /\ \A c \in Copies : queue[c] > 0 => c[1] # m
      /\ \A h \in Handlers : Working(h) => hs[h].msg # m
      /\ dlq[m] = 0
  BY DEF NothingUnsent, DeadWasSent, Working, TypeOK
<1>3. queue[n] = 0
  BY <1>1, <1>2 DEF TypeOK
<1>4. /\ queue'[n] = 1
      /\ \A c \in Copies \ {n} : queue'[c] = queue[c]
  BY <1>1, <1>3 DEF TypeOK
<1>5. \A c \in Copies : queue'[c] > 0 => c = n \/ (queue[c] > 0 /\ c[1] # m /\ queue'[c] = queue[c])
  BY <1>2, <1>4
<1>6. \A h \in Handlers : Working(h)' => Working(h) /\ hs'[h].msg = hs[h].msg
  BY DEF Working
<1> HIDE DEF n
<1>7. \A c, d \in Copies : queue'[c] > 0 /\ queue'[d] > 0 /\ c[1] = d[1] => c = d
  BY <1>1, <1>5 DEF OneHolder
<1>8. \A g, h \in Handlers : Working(g)' /\ Working(h)' /\ hs'[g].msg = hs'[h].msg => g = h
  BY <1>6 DEF OneHolder
<1>9. \A c \in Copies, h \in Handlers : queue'[c] > 0 /\ Working(h)' => hs'[h].msg # c[1]
  BY <1>1, <1>2, <1>5, <1>6 DEF OneHolder
<1>10. \A c \in Copies : queue'[c] > 0 => queue'[c] = 1 /\ dlq'[c[1]] = 0
  BY <1>1, <1>2, <1>4, <1>5 DEF OneHolder
<1>11. /\ \A h \in Handlers : Working(h)' => dlq'[hs'[h].msg] = 0
       /\ \A k \in Messages : dlq'[k] <= 1
  BY <1>6 DEF OneHolder
<1> QED BY <1>7, <1>8, <1>9, <1>10, <1>11 DEF OneHolder

\* A delivery moves the message from the queue to a slot.
LEMMA DeliverHolds ==
  ASSUME TypeOK, OneHolder, NEW h \in Handlers, NEW c \in Copies, Deliver(h, c)
  PROVE  OneHolder'
<1>1. queue[c] = 1 /\ dlq[c[1]] = 0 /\ dlq' = dlq
  BY DEF Deliver, OneHolder
<1>2. /\ queue'[c] = 0
      /\ \A d \in Copies \ {c} : queue'[d] = queue[d]
  BY <1>1 DEF Deliver, TypeOK
<1>3. /\ \A g \in Handlers \ {h} : hs'[g] = hs[g]
      /\ hs'[h].msg = c[1] /\ hs'[h].pc = "received"
  BY DEF Deliver, TypeOK
<1>4. \A g \in Handlers : Working(g)' =>
        g = h \/ (Working(g) /\ hs'[g].msg = hs[g].msg /\ hs[g].msg # c[1])
  <2> SUFFICES ASSUME NEW g \in Handlers, Working(g)', g # h
               PROVE  Working(g) /\ hs'[g].msg = hs[g].msg /\ hs[g].msg # c[1]
    OBVIOUS
  <2>1. hs'[g] = hs[g] /\ Working(g)
    BY <1>3 DEF Working
  <2> QED BY <1>1, <2>1 DEF OneHolder
<1>5. \A d \in Copies : queue'[d] > 0 => queue[d] > 0 /\ queue'[d] = queue[d] /\ d[1] # c[1]
  BY <1>1, <1>2 DEF OneHolder
<1>6. \A f, g \in Handlers : Working(f)' /\ Working(g)' /\ hs'[f].msg = hs'[g].msg => f = g
  BY <1>3, <1>4 DEF OneHolder
<1>7. \A d \in Copies, g \in Handlers : queue'[d] > 0 /\ Working(g)' => hs'[g].msg # d[1]
  BY <1>3, <1>4, <1>5 DEF OneHolder
<1>8. \A g \in Handlers : Working(g)' => dlq'[hs'[g].msg] = 0
  BY <1>1, <1>3, <1>4 DEF OneHolder
<1>9. /\ \A d, e \in Copies : queue'[d] > 0 /\ queue'[e] > 0 /\ d[1] = e[1] => d = e
      /\ \A d \in Copies : queue'[d] > 0 => queue'[d] = 1 /\ dlq'[d[1]] = 0
      /\ \A m \in Messages : dlq'[m] <= 1
  BY <1>1, <1>5 DEF OneHolder
<1> QED BY <1>6, <1>7, <1>8, <1>9 DEF OneHolder

\* Whatever a slot does, its message keeps one holder.
LEMMA WorkHolds ==
  ASSUME TypeOK, OneHolder, NEW h \in Handlers, Work(h) \/ DatabaseError(h)
  PROVE  OneHolder'
<1>1. CASE DeadLetterGarbled(h) \/ DeadLetter(h)
  <2>1. Working(h)
    BY <1>1 DEF DeadLetterGarbled, DeadLetter, Working
  <2> QED BY <1>1, <2>1, DeadLetterHolds DEF DeadLetterGarbled, DeadLetter
<1>2. CASE Retry(h)
  BY <1>2, RetryHolds
<1>3. CASE \/ InsertProcessed(h) \/ SkipProcessed(h) \/ FindOrder(h) \/ LoadForSave(h)
           \/ CommitProcessed(h) \/ FailRun(h) \/ DatabaseError(h)
  <2>1. Working(h) /\ \E pc \in PCs \ {"idle"} : Step(h, pc)
    BY <1>3 DEF InsertProcessed, SkipProcessed, FindOrder, LoadForSave, CommitProcessed,
       FailRun, DatabaseError, RollBack, Working, InTx, PCs
  <2>2. queue' = queue /\ dlq' = dlq
    BY <1>3 DEF InsertProcessed, SkipProcessed, FindOrder, LoadForSave, CommitProcessed,
       FailRun, DatabaseError, RollBack
  <2>3. \A g \in Handlers : Working(g)' => Working(g) /\ hs'[g].msg = hs[g].msg
    BY <2>1, SlotMoves DEF Working
  <2> QED BY <2>2, <2>3, HolderFrame
<1>5. CASE Nack(h)
  BY <1>5, NackHolds
<1>4. CASE Abandon(h) \/ Ack(h)
  <2>1. \A g \in Handlers : Working(g)' => Working(g) /\ hs'[g].msg = hs[g].msg
    BY <1>4, FreeTyped DEF Abandon, Ack, IdleSlot, Working
  <2> QED BY <1>4, <2>1, HolderFrame DEF Abandon, Ack
<1> QED BY <1>1, <1>2, <1>3, <1>4, <1>5 DEF Work

\* create() publishes an order once, after its row is there, and every dead
\* letter was once published.
LEMMA OriginInv ==
  ASSUME IInv, SingleInv, [Next]_vars
  PROVE  DueOnce' /\ SentWasCommitted' /\ DeadWasSent'
<1>0. /\ TypeOK /\ TypeOK' /\ NothingUnsent
      /\ DueOnce /\ SentWasCommitted /\ DeadWasSent
  BY NextTypeOK DEF IInv, SingleInv
<1> USE DEF DueOnce, SentWasCommitted, DeadWasSent
<1>1. ASSUME NEW p \in Processes, NEW o \in Orders, CommitOrder(p, o)
      PROVE  DueOnce' /\ SentWasCommitted' /\ DeadWasSent'
  <2>1. o \notin sent /\ \A q \in Processes : o \notin due[q]
    BY <1>0, <1>1 DEF CommitOrder
  <2>2. \A q \in Processes : \A x : x \in due'[q] <=> x \in due[q] \/ (q = p /\ x = o)
    <3>1. due'[p] = due[p] \cup {o} /\ \A q \in Processes \ {p} : due'[q] = due[q]
      BY <1>0, <1>1 DEF CommitOrder, TypeOK
    <3> QED BY <3>1
  <2>3. order'[o].status = "PENDING" /\ \A x \in Orders \ {o} : order'[x] = order[x]
    BY <1>0, <1>1 DEF CommitOrder, TypeOK, Rows
  <2>4. \A q \in Processes : due[q] \subseteq Orders
    BY <1>0 DEF TypeOK
  <2>5. sent' = sent /\ dlq' = dlq
    BY <1>1 DEF CommitOrder
  <2>6. \A q \in Processes : \A x \in due'[q] : x \notin sent' /\ order'[x].status # "NONE"
    BY <1>0, <2>1, <2>2, <2>3, <2>4, <2>5
  <2>7. \A q, r \in Processes : due'[q] \cap due'[r] # {} => q = r
    <3> SUFFICES ASSUME NEW q \in Processes, NEW r \in Processes,
                        NEW x, x \in due'[q], x \in due'[r]
                 PROVE  q = r
      OBVIOUS
    <3>1. CASE x = o
      BY <2>1, <2>2, <3>1
    <3>2. CASE x # o
      <4>1. x \in due[q] /\ x \in due[r]
        BY <2>2, <3>2
      <4>2. due[q] \cap due[r] # {}
        BY <4>1
      <4> QED BY <1>0, <4>2
    <3> QED BY <3>1, <3>2
  <2>8. SentWasCommitted' /\ DeadWasSent'
    BY <1>0, <2>3, <2>5
  <2> QED BY <2>6, <2>7, <2>8
<1>2. ASSUME NEW p \in Processes, NEW o \in Orders, Publish(p, o)
      PROVE  DueOnce' /\ SentWasCommitted' /\ DeadWasSent'
  <2>1. /\ \A q \in Processes : due'[q] = IF q = p THEN due[q] \ {o} ELSE due[q]
        /\ o \in due[p]
    BY <1>0, <1>2 DEF Publish, TypeOK
  <2>2. sent \subseteq sent' /\ sent' \subseteq sent \cup {o} /\ order' = order /\ dlq' = dlq
    BY <1>2 DEF Publish
  <2>3. \A q \in Processes : o \notin due'[q]
    BY <1>0, <2>1
  <2> QED BY <1>0, <2>1, <2>2, <2>3
<1>3. ASSUME NEW m \in Extra, PublishByHand(m)
      PROVE  DueOnce' /\ SentWasCommitted' /\ DeadWasSent'
  <2>1. /\ m \notin Orders /\ sent' = sent \cup {m}
        /\ order' = order /\ due' = due /\ dlq' = dlq
    BY <1>3, MessagesAssumption DEF PublishByHand
  <2>2. \A p \in Processes : due[p] \subseteq Orders
    BY <1>0 DEF TypeOK
  <2> QED BY <1>0, <2>1, <2>2
<1>4. CASE /\ UNCHANGED <<due, sent, dlq>>
           /\ \A o \in Orders : order'[o].status = "NONE" => order[o].status = "NONE"
  <2>1. \A p \in Processes : due[p] \subseteq Orders
    BY <1>0 DEF TypeOK
  <2> QED BY <1>0, <1>4, <2>1
<1>5. ASSUME NEW c \in Clients, NEW o \in Orders, NEW s \in Statuses, PatchRead(c, o, s)
      PROVE  DueOnce' /\ SentWasCommitted' /\ DeadWasSent'
  BY <1>4, <1>5 DEF PatchRead
<1>6. ASSUME NEW c \in Clients, PatchDiff(c) \/ PatchUpdate(c)
      PROVE  DueOnce' /\ SentWasCommitted' /\ DeadWasSent'
  <2>1. \A o \in Orders : order'[o].status = "NONE" => order[o].status = "NONE"
    <3>1. CASE UNCHANGED order
      BY <3>1
    <3>2. CASE WriteRow(patch[c].id, PatchedRow(c), Clients \ {c}, Handlers) /\ patch[c] # NoPatch
      <4>1. /\ patch[c].id \in Orders /\ PatchedRow(c) \in Rows
            /\ patch[c].entity.status \in Statuses
        BY <1>0, <3>2, PatchedRowTyped DEF Patches
      <4>2. /\ order'[patch[c].id] = PatchedRow(c)
            /\ \A i \in Orders \ {patch[c].id} : order'[i] = order[i]
        BY <1>0, <3>2, <4>1, RowWritten
      <4>3. PatchedRow(c).status = "NONE" => order[patch[c].id].status = "NONE"
        BY <4>1 DEF PatchedRow, Statuses
      <4> QED BY <4>2, <4>3
    <3> QED BY <1>6, <3>1, <3>2 DEF PatchDiff, PatchUpdate
  <2> QED BY <1>4, <1>6, <2>1 DEF PatchDiff, PatchUpdate
<1>7. ASSUME NEW o \in Orders, Remove(o)
      PROVE  DueOnce' /\ SentWasCommitted' /\ DeadWasSent'
  BY <1>0, <1>4, <1>7 DEF Remove, TypeOK
<1>8. CASE (\E h \in Handlers, c \in Copies : Deliver(h, c)) \/ UNCHANGED vars
           \/ \E p \in Processes : Restart(p) \/ Disconnect(p)
  BY <1>4, <1>8 DEF Deliver, Restart, Disconnect, vars
<1>9. ASSUME NEW p \in Processes, Crash(p)
      PROVE  DueOnce' /\ SentWasCommitted' /\ DeadWasSent'
  <2>1. \A q \in Processes : due'[q] \subseteq due[q]
    BY <1>0, <1>9 DEF Crash, TypeOK
  <2>2. order' = order /\ sent' = sent /\ dlq' = dlq
    BY <1>9 DEF Crash
  <2> QED BY <1>0, <2>1, <2>2
<1>10. ASSUME NEW h \in Handlers, Work(h) \/ DatabaseError(h)
       PROVE  DueOnce' /\ SentWasCommitted' /\ DeadWasSent'
  <2>1. /\ due' = due /\ sent' = sent /\ hs[h].pc # "idle"
        /\ dlq' = dlq \/ dlq' = [dlq EXCEPT ![hs[h].msg] = @ + 1]
    BY <1>10 DEF Throws, Work, Nack, Abandon, DeadLetterGarbled, InsertProcessed, SkipProcessed, FindOrder,
       LoadForSave, CommitProcessed, FailRun, DatabaseError, RollBack, DeadLetter, Retry,
       Ack, MayAck, InTx
  <2>2. hs[h].msg \in Messages /\ hs[h].msg \in sent
    BY <1>0, <2>1, BusySlot DEF NothingUnsent
  <2>3. DeadWasSent'
    BY <1>0, <2>1, <2>2 DEF TypeOK
  <2>4. \A o \in Orders : order'[o].status = "NONE" => order[o].status = "NONE"
    <3>1. CASE CommitProcessed(h)
      <4> DEFINE o == Target(hs[h].msg)
      <4>1. o \in Orders /\ ProcessedRow(h, o) \in Rows
        BY <1>0, <2>2, TargetTyped, ProcessedRowTyped
      <4>2. CASE WriteRow(o, ProcessedRow(h, o), Clients, Handlers \ {h})
        <5>1. /\ order'[o] = ProcessedRow(h, o)
              /\ \A i \in Orders \ {o} : order'[i] = order[i]
          BY <1>0, <4>1, <4>2, RowWritten
        <5> QED BY <5>1 DEF ProcessedRow
      <4> QED BY <3>1, <4>2 DEF CommitProcessed
    <3>2. CASE ~CommitProcessed(h)
      BY <1>10, <3>2 DEF Work, Nack, Abandon, DeadLetterGarbled, InsertProcessed, SkipProcessed,
         FindOrder, LoadForSave, FailRun, DatabaseError, RollBack, DeadLetter, Retry, Ack
    <3> QED BY <3>1, <3>2
  <2>5. \A p \in Processes : due[p] \subseteq Orders
    BY <1>0 DEF TypeOK
  <2> QED BY <1>0, <2>1, <2>3, <2>4, <2>5
<1> QED BY <1>1, <1>2, <1>3, <1>5, <1>6, <1>7, <1>8, <1>9, <1>10 DEF Next, Api, Faults

\* While nothing crashed and no channel closed, every step keeps one holder
\* per message.
LEMMA HolderInv ==
  ASSUME IInv, SingleInv, [Next]_vars, crashes' = 0, disconnects' = 0
  PROVE  OneHolder' /\ \A p \in Processes : chan'[p] = "open"
<1>0. TypeOK /\ NothingUnsent /\ DeadWasSent /\ DueOnce
  BY DEF IInv, SingleInv
<1>1. ASSUME NEW p \in Processes
      PROVE  ~Disconnect(p) /\ ~Crash(p)
  <2>1. crashes \in Nat /\ disconnects \in Nat
    BY <1>0, BoundsAssumption DEF TypeOK
  <2> QED BY <2>1 DEF Disconnect, Crash
<1>2. crashes' = crashes /\ disconnects' = disconnects
  BY <1>1 DEF Next, Api, CommitOrder, Publish, PublishByHand, PatchRead, PatchDiff, PatchUpdate,
     Remove, Deliver, Work, Nack, Abandon, DeadLetterGarbled, InsertProcessed, SkipProcessed,
     FindOrder, LoadForSave, CommitProcessed, FailRun, RollBack, DeadLetter, Retry, Ack,
     Restart, Faults, DatabaseError, vars
<1>3. OneHolder /\ \A p \in Processes : chan[p] = "open"
  BY <1>2 DEF SingleInv
<1>4. ASSUME NEW p \in Processes
      PROVE  ~Restart(p)
  BY <1>3 DEF Restart
<1>5. chan' = chan
  BY <1>1, <1>4 DEF Next, Api, CommitOrder, Publish, PublishByHand, PatchRead, PatchDiff, PatchUpdate,
     Remove, Deliver, Work, Nack, Abandon, DeadLetterGarbled, InsertProcessed, SkipProcessed,
     FindOrder, LoadForSave, CommitProcessed, FailRun, RollBack, DeadLetter, Retry, Ack,
     Faults, DatabaseError, vars
<1>6. CASE UNCHANGED <<queue, hs, dlq>>
  BY <1>3, <1>5, <1>6, HolderFrame DEF Working
<1>7. CASE Api
  <2>1. ASSUME NEW p \in Processes, NEW o \in Orders, Publish(p, o)
        PROVE  OneHolder'
    <3>1. o \in Messages /\ o \notin sent /\ chan[p] = "open"
      BY <1>0, <1>3, <2>1 DEF Publish, DueOnce, Messages
    <3> QED BY <1>0, <1>3, <2>1, <3>1, PublishHolds DEF Publish
  <2>2. ASSUME NEW m \in Extra, PublishByHand(m)
        PROVE  OneHolder'
    <3>1. m \in Messages /\ m \notin sent
      BY <2>2 DEF PublishByHand, Messages
    <3> QED BY <1>0, <1>3, <2>2, <3>1, PublishHolds DEF PublishByHand
  <2> QED
    BY <1>3, <1>5, <1>6, <1>7, <2>1, <2>2 DEF Api, CommitOrder, PatchRead, PatchDiff, PatchUpdate, Remove
<1>8. CASE \E h \in Handlers, c \in Copies : Deliver(h, c)
  BY <1>0, <1>3, <1>5, <1>8, DeliverHolds
<1>9. CASE \E h \in Handlers : Work(h) \/ DatabaseError(h)
  BY <1>0, <1>3, <1>5, <1>9, WorkHolds
<1>10. CASE UNCHANGED vars
  BY <1>3, <1>5, <1>6, <1>10 DEF vars
<1> QED BY <1>1, <1>4, <1>7, <1>8, <1>9, <1>10 DEF Next, Faults

\* The strengthened invariant is inductive, relative to IInv.
LEMMA SingleInductive == Spec => []SingleInv
<1>1. Init => SingleInv
  BY DEF Init, SingleInv, DueOnce, SentWasCommitted, DeadWasSent, OneHolder, Working, IdleSlot
<1>2. IInv /\ SingleInv /\ [Next]_vars => SingleInv'
  BY OriginInv, HolderInv DEF SingleInv
<1> QED BY <1>1, <1>2, Inductive, PTL DEF Spec

\* One holder per message, counted: the queue, the slots and orders.dlq hold
\* at most one copy of it together.
LEMMA SingleCounts ==
  ASSUME TypeOK, OneHolder, NEW m \in Messages
  PROVE  Cardinality(ReadyCopies(m)) + Cardinality(WorkedOn(m)) + dlq[m] <= 1
<1>1. ASSUME NEW S, \A x, y \in S : x = y
      PROVE  /\ Cardinality(S) \in {0, 1}
             /\ Cardinality(S) = 1 => S # {}
  <2>1. CASE S = {}
    BY <2>1, FS_EmptySet
  <2>2. CASE S # {}
    <3> PICK x \in S : TRUE
      BY <2>2
    <3>1. S = {x}
      BY <1>1
    <3> QED BY <3>1, FS_Singleton
  <2> QED BY <2>1, <2>2
<1>2. \A c, d \in ReadyCopies(m) : c = d
  BY DEF ReadyCopies, OneHolder
<1>3. \A g, h \in WorkedOn(m) : g = h
  BY DEF WorkedOn, OneHolder, Working
<1>4. ReadyCopies(m) = {} \/ WorkedOn(m) = {}
  BY DEF ReadyCopies, WorkedOn, OneHolder, Working
<1>5. ReadyCopies(m) # {} \/ WorkedOn(m) # {} => dlq[m] = 0
  BY DEF ReadyCopies, WorkedOn, OneHolder, Working
<1>6. dlq[m] \in {0, 1}
  BY DEF OneHolder, TypeOK
<1>7. /\ Cardinality(ReadyCopies(m)) \in {0, 1}
      /\ Cardinality(ReadyCopies(m)) = 1 => ReadyCopies(m) # {}
      /\ Cardinality(WorkedOn(m)) \in {0, 1}
      /\ Cardinality(WorkedOn(m)) = 1 => WorkedOn(m) # {}
  BY <1>1, <1>2, <1>3
<1> QED BY <1>4, <1>5, <1>6, <1>7

\* handleMessage republishes and then acknowledges, so without a crash or a
\* closed channel the retries of a message never multiply it: it is once on
\* the queue, at one slot or in orders.dlq, however many runs fail.
THEOREM RetriesDoNotMultiply == Spec => []NoDuplicationWithoutLoss
<1>1. TypeOK /\ SingleInv => NoDuplicationWithoutLoss
  <2> SUFFICES ASSUME TypeOK, SingleInv, crashes = 0, disconnects = 0
               PROVE  /\ \A m \in Messages :
                           Cardinality(ReadyCopies(m)) + Cardinality(WorkedOn(m)) + dlq[m] <= 1
                      /\ \A c \in Copies : queue[c] <= 1
    BY DEF NoDuplicationWithoutLoss
  <2>1. OneHolder
    BY DEF SingleInv
  <2>2. \A c \in Copies : queue[c] <= 1
    BY <2>1 DEF OneHolder, TypeOK
  <2> QED BY <2>1, <2>2, SingleCounts
<1> QED BY <1>1, TypeCorrect, SingleInductive, PTL

----------------------------------------------------------------------------
(* The pipeline implements OrderEffects                                    *)

\* One step of the pipeline seen abstractly: it sends one message, applies
\* one, buries one, or is invisible.
LEMMA StepRefines ==
  ASSUME IInv, IInv', [Next]_vars
  PROVE  [Effects!Next]_(Effects!effectVars)
<1> DEFINE Dead == {m \in Messages : dlq[m] > 0}
<1> USE DEF Effects!Next, Effects!Send, Effects!Apply, Effects!Bury, Effects!effectVars
<1>0. TypeOK /\ TypeOK' /\ OpenTxIsFresh /\ NothingUnsent
  BY DEF IInv
<1>1. CASE UNCHANGED <<sent, processed, events, dlq>>
  BY <1>1
<1>2. CASE /\ UNCHANGED <<processed, events, dlq>>
           /\ \E m \in Messages : sent' = sent \cup {m}
  <2>1. PICK m \in Messages : sent' = sent \cup {m}
    BY <1>2
  <2>2. CASE m \in sent
    <3>1. sent' = sent
      BY <2>1, <2>2
    <3> QED BY <1>1, <1>2, <3>1
  <2>3. CASE m \notin sent
    <3>1. Dead' = Dead
      BY <1>2
    <3> QED BY <1>2, <2>1, <2>3, <3>1
  <2> QED BY <2>2, <2>3
<1>3. ASSUME NEW h \in Handlers, CommitProcessed(h)
      PROVE  [Effects!Next]_(Effects!effectVars)
  <2>1. hs[h].msg \in Messages /\ hs[h].msg \in sent \ processed
    BY <1>0, <1>3, BusySlot DEF CommitProcessed, OpenTxIsFresh, NothingUnsent, InTx
  <2>2. /\ processed' = processed \cup {hs[h].msg}
        /\ events' = [events EXCEPT ![hs[h].msg] = @ + 1]
        /\ sent' = sent /\ dlq' = dlq
    BY <1>3 DEF CommitProcessed, MarkProcessed
  <2>3. Dead' = Dead
    BY <2>2
  <2> QED BY <2>1, <2>2, <2>3
<1>4. ASSUME NEW m \in sent, dlq' = [dlq EXCEPT ![m] = @ + 1],
             UNCHANGED <<sent, processed, events>>
      PROVE  [Effects!Next]_(Effects!effectVars)
  <2>1. m \in Messages /\ dlq[m] \in Nat
    BY <1>0 DEF TypeOK
  <2>2. Dead' = Dead \cup {m}
    BY <1>0, <1>4, <2>1 DEF TypeOK
  <2>3. CASE m \in Dead
    <3>1. Dead' = Dead
      BY <2>2, <2>3
    <3> QED BY <1>4, <3>1
  <2>4. CASE m \notin Dead
    BY <1>4, <2>1, <2>2, <2>4
  <2> QED BY <2>3, <2>4
<1>5. ASSUME NEW h \in Handlers, DeadLetterGarbled(h) \/ DeadLetter(h)
      PROVE  [Effects!Next]_(Effects!effectVars)
  <2>1. hs[h].msg \in sent
    BY <1>0, <1>5 DEF DeadLetterGarbled, DeadLetter, NothingUnsent
  <2> QED BY <1>4, <1>5, <2>1 DEF DeadLetterGarbled, DeadLetter
<1>6. ASSUME NEW p \in Processes, NEW o \in Orders, Publish(p, o)
      PROVE  [Effects!Next]_(Effects!effectVars)
  BY <1>1, <1>2, <1>6 DEF Publish, Messages
<1>7. ASSUME NEW x \in Extra, PublishByHand(x)
      PROVE  [Effects!Next]_(Effects!effectVars)
  BY <1>2, <1>7 DEF PublishByHand, Messages
<1>8. \/ UNCHANGED <<sent, processed, events, dlq>>
      \/ \E h \in Handlers : CommitProcessed(h)
      \/ \E h \in Handlers : DeadLetterGarbled(h) \/ DeadLetter(h)
      \/ \E p \in Processes, o \in Orders : Publish(p, o)
      \/ \E x \in Extra : PublishByHand(x)
  BY DEF Next, Api, CommitOrder, PatchRead, PatchDiff, PatchUpdate, Remove, Deliver, Work, Nack, Abandon,
     InsertProcessed, SkipProcessed, FindOrder, LoadForSave, FailRun, RollBack, Retry, Ack,
     Restart, Faults, DatabaseError, Disconnect, Crash, vars
<1> QED BY <1>1, <1>3, <1>5, <1>6, <1>7, <1>8

\* Every behaviour of the pipeline is one of the abstract specification:
\* messages are sent once, have their effect at most once and for good, and
\* may be buried.  (Its fairness is checked by TLC, not proved.)
THEOREM RefinesEffects == Spec => Effects!SafeSpec
<1>1. Init => Effects!Init
  BY DEF Init, Effects!Init
<1>2. IInv /\ IInv' /\ [Next]_vars => [Effects!Next]_(Effects!effectVars)
  BY StepRefines
<1> QED BY <1>1, <1>2, Inductive, PTL DEF Spec, Effects!SafeSpec

=============================================================================
