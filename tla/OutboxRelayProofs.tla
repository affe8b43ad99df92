------------------------- MODULE OutboxRelayProofs -------------------------
(* Theorems about OutboxRelay for every set of rows, processes and ticks   *)
(* and every batch size, with their proofs.                                *)
EXTENDS OutboxRelay, FiniteSetTheorems, TLAPS

----------------------------------------------------------------------------
(* What a tick's steps do to the rows it holds                             *)

Tx == [todo : SUBSET Events, sent : SUBSET Events, failed : SUBSET Events]

\* Publishing or failing a row moves it within its transaction and touches no
\* other tick.
LEMMA PublishMarks ==
  ASSUME TypeOK, NEW t \in Ticks, NEW e \in Events, PublishRow(t, e)
  PROVE  /\ tk' \in [Ticks -> Tx]
         /\ tk'[t].todo = tk[t].todo \ {e} /\ tk'[t].sent = tk[t].sent \cup {e}
         /\ tk'[t].failed = tk[t].failed
         /\ \A u \in Ticks \ {t} : tk'[u] = tk[u]
<1>1. tk[t] \in Tx /\ tk \in [Ticks -> Tx]
  BY DEF TypeOK, Tx
<1> QED BY <1>1 DEF PublishRow, MarkSent, Tx

\* The same for a row whose publish throws.
LEMMA FailMarks ==
  ASSUME TypeOK, NEW t \in Ticks, NEW e \in Events, FailRow(t, e)
  PROVE  /\ tk' \in [Ticks -> Tx]
         /\ tk'[t].todo = tk[t].todo \ {e} /\ tk'[t].sent = tk[t].sent
         /\ tk'[t].failed = tk[t].failed \cup {e}
         /\ \A u \in Ticks \ {t} : tk'[u] = tk[u]
<1>1. tk[t] \in Tx /\ tk \in [Ticks -> Tx]
  BY DEF TypeOK, Tx
<1> QED BY <1>1 DEF FailRow, MarkFailed, Tx

----------------------------------------------------------------------------
(* Type correctness                                                        *)

\* The initial state is well-typed.
LEMMA InitTypeOK == Init => TypeOK
<1> SUFFICES ASSUME Init PROVE TypeOK
  OBVIOUS
<1>1. IsFiniteSet({})
  BY FS_EmptySet
<1>2. IsFiniteSet(stray)
  BY <1>1, Zenon DEF Init
<1>3. /\ status \in [Events -> {"NONE", "PENDING", "FAILED", "SENT"}]
      /\ due \in [Events -> BOOLEAN] /\ copies \in [Events -> Nat]
      /\ tk \in [Ticks -> [todo : SUBSET Events, sent : SUBSET Events, failed : SUBSET Events]]
      /\ chan \in [Processes -> {"open", "closed", "down"}]
      /\ wire \in [Processes -> SUBSET Events]
  BY DEF Init, Idle
<1>4. /\ declared \in BOOLEAN /\ stray \subseteq [tick : Ticks, row : Events]
      /\ received \subseteq Events /\ dropped \subseteq Events /\ lost \subseteq Events
  BY DEF Init
<1>5. crashes \in 0..MaxCrashes /\ disconnects \in 0..MaxDisconnects /\ errors \in 0..MaxErrors
  BY BoundsAssumption DEF Init
<1> QED BY <1>2, <1>3, <1>4, <1>5, Zenon DEF TypeOK

\* The steps of a tick that the database has thrown out touch no transaction.
LEMMA StrayTypeOK ==
  ASSUME TypeOK, NEW x \in stray, PublishStray(x) \/ EndStray(x)
  PROVE  TypeOK'
<1>1. stray' = stray \ {x}
  BY DEF PublishStray, EndStray
<1>2. stray' \subseteq [tick : Ticks, row : Events] /\ IsFiniteSet(stray')
  BY <1>1, FS_Subset DEF TypeOK
<1>3. x.tick \in Ticks /\ x.row \in Events /\ HostOf[x.tick] \in Processes
  BY TicksAssumption DEF TypeOK
<1>4. wire' \in [Processes -> SUBSET Events] /\ copies' \in [Events -> Nat]
  BY <1>3 DEF PublishStray, EndStray, TypeOK
<1> QED BY <1>2, <1>4 DEF PublishStray, EndStray, TypeOK, broker

\* A tick's own steps keep the types.
LEMMA TickTypeOK ==
  ASSUME TypeOK, NEW t \in Ticks, Tick(t)
  PROVE  TypeOK'
<1> USE DEF TypeOK, broker
<1>0. HostOf[t] \in Processes
  BY TicksAssumption
<1>1. CASE SelectRows(t)
  <2>1. PICK S \in SUBSET (Eligible \ Locked) : tk' = [tk EXCEPT ![t].todo = S]
    BY <1>1 DEF SelectRows
  <2>2. S \in SUBSET Events
    BY DEF Eligible
  <2> QED BY <1>1, <2>1, <2>2 DEF SelectRows
<1>2. ASSUME NEW e \in Events, PublishRow(t, e)
      PROVE  TypeOK'
  <2>1. tk' \in [Ticks -> Tx]
    BY <1>2, PublishMarks
  <2> QED BY <1>0, <1>2, <2>1 DEF PublishRow, Tx
<1>3. ASSUME NEW e \in Events, FailRow(t, e)
      PROVE  TypeOK'
  <2>1. tk' \in [Ticks -> Tx]
    BY <1>3, FailMarks
  <2> QED BY <1>3, <2>1 DEF FailRow, Tx
<1>4. CASE CommitTick(t)
  <2>1. CommittedStatus(t) \in [Events -> {"NONE", "PENDING", "FAILED", "SENT"}]
    BY DEF CommittedStatus
  <2>2. Idle \in [todo : SUBSET Events, sent : SUBSET Events, failed : SUBSET Events]
    BY DEF Idle
  <2>3. due' \in [Events -> BOOLEAN]
    BY <1>4, Zenon DEF CommitTick
  <2> QED BY <1>4, <2>1, <2>2, <2>3 DEF CommitTick
<1> QED BY <1>1, <1>2, <1>3, <1>4, StrayTypeOK DEF Tick

\* Every step keeps the types.
LEMMA NextTypeOK == TypeOK /\ [Next]_vars => TypeOK'
<1> SUFFICES ASSUME TypeOK, [Next]_vars PROVE TypeOK'
  OBVIOUS
<1> USE DEF TypeOK, broker
<1>0. Idle \in [todo : SUBSET Events, sent : SUBSET Events, failed : SUBSET Events]
  BY DEF Idle
<1>1. ASSUME NEW e \in Events, Add(e) PROVE TypeOK'
  BY <1>1 DEF Add
<1>2. ASSUME NEW e \in Events, BecomeDue(e) PROVE TypeOK'
  BY <1>2 DEF BecomeDue
<1>3. ASSUME NEW t \in Ticks, AbortTick(t) PROVE TypeOK'
  BY <1>0, <1>3, BoundsAssumption DEF AbortTick
<1>4. ASSUME NEW p \in Processes, NEW e \in Events, Receive(p, e) PROVE TypeOK'
  BY <1>4 DEF Receive
<1>5. ASSUME NEW p \in Processes, Disconnect(p) PROVE TypeOK'
  BY <1>5, BoundsAssumption DEF Disconnect
<1>6. ASSUME NEW p \in Processes, Crash(p) PROVE TypeOK'
  <2>1. stray' \subseteq [tick : Ticks, row : Events] /\ IsFiniteSet(stray')
    BY <1>6, FS_Subset DEF Crash
  <2>2. tk' \in [Ticks -> [todo : SUBSET Events, sent : SUBSET Events, failed : SUBSET Events]]
    BY <1>0, <1>6 DEF Crash
  <2> QED BY <1>6, <2>1, <2>2, BoundsAssumption DEF Crash
<1>7. ASSUME NEW p \in Processes, Restart(p) PROVE TypeOK'
  BY <1>7 DEF Restart
<1>8. ASSUME NEW t \in Ticks, NEW e \in Events, EndSession(t, e) PROVE TypeOK'
  <2>1. stray' \subseteq [tick : Ticks, row : Events] /\ IsFiniteSet(stray')
    <3>1. stray' = stray \cup {[tick |-> t, row |-> e]}
      BY <1>8 DEF EndSession
    <3>2. IsFiniteSet(stray \cup {[tick |-> t, row |-> e]})
      BY FS_AddElement
    <3> QED BY <3>1, <3>2
  <2> QED BY <1>0, <1>8, <2>1, BoundsAssumption DEF EndSession
<1>9. CASE Declare
  BY <1>9 DEF Declare
<1>10. CASE UNCHANGED vars
  BY <1>10 DEF vars
<1> QED BY <1>1, <1>2, <1>3, <1>4, <1>5, <1>6, <1>7, <1>8, <1>9, <1>10, TickTypeOK DEF Next

\* Every variable keeps its type.
THEOREM TypeCorrect == Spec => []TypeOK
  BY InitTypeOK, NextTypeOK, PTL DEF Spec

----------------------------------------------------------------------------
(* Row locks                                                               *)

RowLocks == TicksAreDisjoint /\ MarksAreApart

\* SELECT ... FOR UPDATE SKIP LOCKED takes rows nobody holds; publishing and
\* marking move a row within its tick; COMMIT changes the committer's rows.
LEMMA TickRowLocks ==
  ASSUME TypeOK, TypeOK', RowLocks, NEW t \in Ticks, Tick(t)
  PROVE  RowLocks'
<1> USE DEF RowLocks, TicksAreDisjoint, MarksAreApart, Held
<1>1. CASE SelectRows(t)
  <2>1. PICK S \in SUBSET (Eligible \ Locked) : tk' = [tk EXCEPT ![t].todo = S]
    BY <1>1 DEF SelectRows
  <2>2. tk'[t].todo = S /\ tk'[t].sent = {} /\ tk'[t].failed = {} /\ status' = status
        /\ \A u \in Ticks \ {t} : tk'[u] = tk[u]
    BY <1>1, <2>1 DEF SelectRows, Idle, TypeOK
  <2>3. \A e \in S : status[e] \in {"PENDING", "FAILED"}
    BY DEF Eligible
  <2>4. \A u \in Ticks : S \cap Held(u) = {}
    BY DEF Locked
  <2> QED BY <2>2, <2>3, <2>4
<1>2. ASSUME NEW e \in Events, PublishRow(t, e) \/ FailRow(t, e)
      PROVE  RowLocks'
  <2>1. e \in tk[t].todo /\ status' = status
        /\ \A u \in Ticks \ {t} : tk'[u] = tk[u]
    BY <1>2, PublishMarks, FailMarks DEF PublishRow, FailRow, IsNext
  <2>2. tk'[t].todo = tk[t].todo \ {e}
        /\ tk'[t].sent \cup tk'[t].failed = tk[t].sent \cup tk[t].failed \cup {e}
    BY <1>2, PublishMarks, FailMarks
  <2> QED BY <2>1, <2>2
<1>3. CASE CommitTick(t)
  <2>1. tk'[t] = Idle /\ \A u \in Ticks \ {t} : tk'[u] = tk[u]
    BY <1>3 DEF CommitTick, TypeOK
  <2>2. \A e \in Events \ Held(t) : status'[e] = status[e]
    BY <1>3 DEF CommitTick, CommittedStatus
  <2>3. \A u \in Ticks : Held(u) \subseteq Events
    BY DEF TypeOK
  <2> QED BY <2>1, <2>2, <2>3 DEF Idle
<1>4. CASE UNCHANGED <<tk, status>>
  BY <1>4
<1> QED BY <1>1, <1>2, <1>3, <1>4 DEF Tick, PublishStray, EndStray

\* Every step keeps the row locks apart.
LEMMA NextRowLocks == TypeOK /\ RowLocks /\ [Next]_vars => RowLocks'
<1> SUFFICES ASSUME TypeOK, RowLocks, [Next]_vars PROVE RowLocks'
  OBVIOUS
<1> USE DEF RowLocks, TicksAreDisjoint, MarksAreApart, Held
<1>0. TypeOK'
  BY NextTypeOK
<1>1. ASSUME NEW e \in Events, Add(e)
      PROVE  RowLocks'
  BY <1>1 DEF Add, TypeOK
<1>2. ASSUME \A u \in Ticks : tk'[u] = tk[u] \/ tk'[u] = Idle, status' = status
      PROVE  RowLocks'
  BY <1>2 DEF Idle
<1>3. ASSUME NEW t \in Ticks, AbortTick(t)
      PROVE  RowLocks'
  BY <1>2, <1>3 DEF AbortTick, TypeOK
<1>4. ASSUME NEW p \in Processes, Crash(p)
      PROVE  RowLocks'
  BY <1>2, <1>4 DEF Crash, TypeOK
<1>5. ASSUME NEW t \in Ticks, NEW e \in Events, EndSession(t, e)
      PROVE  RowLocks'
  BY <1>2, <1>5 DEF EndSession, TypeOK
<1>6. CASE UNCHANGED <<tk, status>>
  BY <1>2, <1>6
<1> QED BY <1>0, <1>1, <1>3, <1>4, <1>5, <1>6, TickRowLocks
  DEF Next, vars, BecomeDue, Receive, Disconnect, Restart, Declare

\* A tick starts no transaction while it is still at work on one that the
\* database has ended.
LEMMA StraysStayIdle == TypeOK /\ StraysAreIdle /\ [Next]_vars => StraysAreIdle'
<1> SUFFICES ASSUME TypeOK, StraysAreIdle, [Next]_vars, NEW x \in stray'
             PROVE  tk'[x.tick] = Idle
  BY DEF StraysAreIdle
<1> USE DEF TypeOK, StraysAreIdle
<1>1. CASE x \in stray
  <2>1. tk[x.tick] = Idle /\ x.tick \in Ticks
    BY <1>1
  <2>2. ASSUME NEW t \in Ticks, Tick(t) PROVE tk'[x.tick] = Idle
    <3>1. ASSUME SelectRows(t) PROVE t # x.tick /\ tk'[x.tick] = tk[x.tick]
      BY <1>1, <2>1, <3>1 DEF SelectRows
    <3>2. ASSUME NEW e \in Events, PublishRow(t, e) \/ FailRow(t, e)
          PROVE  tk'[x.tick] = tk[x.tick]
      BY <2>1, <3>2, PublishMarks, FailMarks DEF PublishRow, FailRow, IsNext, Idle
    <3>3. ASSUME CommitTick(t) PROVE tk'[x.tick] = Idle
      BY <2>1, <3>3 DEF CommitTick
    <3> QED BY <2>1, <2>2, <3>1, <3>2, <3>3 DEF Tick, PublishStray, EndStray
  <2>3. ASSUME NEW t \in Ticks, AbortTick(t) \/ \E e \in Events : EndSession(t, e)
        PROVE  tk'[x.tick] = Idle
    BY <2>1, <2>3 DEF AbortTick, EndSession
  <2>4. ASSUME NEW p \in Processes, Crash(p) PROVE tk'[x.tick] = Idle
    BY <2>1, <2>4 DEF Crash
  <2>5. CASE tk' = tk
    BY <2>1, <2>5
  <2> QED BY <2>2, <2>3, <2>4, <2>5
      DEF Next, vars, Add, BecomeDue, Receive, Disconnect, Restart, Declare
<1>2. CASE x \notin stray
  <2>1. PICK t \in Ticks, e \in Events : EndSession(t, e)
    BY <1>2 DEF Next, Tick, vars, Add, BecomeDue, SelectRows, PublishRow, FailRow, CommitTick,
        PublishStray, EndStray, AbortTick, Receive, Disconnect, Crash, Restart, Declare
  <2>2. x = [tick |-> t, row |-> e]
    BY <1>2, <2>1 DEF EndSession
  <2> QED BY <2>1, <2>2 DEF EndSession
<1> QED BY <1>1, <1>2

----------------------------------------------------------------------------
(* Delivery                                                                *)

\* What is on the way stays on the way, arrives, or is counted as dropped or
\* lost.
LEMMA ArrivesStays ==
  ASSUME TypeOK, [Next]_vars, NEW e \in Events, Arrives(e)
  PROVE  Arrives(e)'
<1> USE DEF TypeOK, Arrives, broker
<1>1. ASSUME NEW t \in Ticks, Tick(t) PROVE Arrives(e)'
  <2>0. HostOf[t] \in Processes
    BY TicksAssumption
  <2>1. ASSUME NEW f \in Events, PublishRow(t, f) PROVE Arrives(e)'
    BY <2>0, <2>1 DEF PublishRow
  <2>2. ASSUME NEW x \in stray, PublishStray(x) PROVE Arrives(e)'
    <3>1. HostOf[x.tick] \in Processes
      BY TicksAssumption
    <3> QED BY <2>2, <3>1 DEF PublishStray
  <2> QED BY <1>1, <2>1, <2>2 DEF Tick, SelectRows, FailRow, CommitTick, EndStray
<1>2. ASSUME NEW p \in Processes, NEW f \in Events, Receive(p, f) PROVE Arrives(e)'
  BY <1>2 DEF Receive
<1>3. ASSUME NEW p \in Processes, Disconnect(p) PROVE Arrives(e)'
  BY <1>3 DEF Disconnect
<1>4. ASSUME NEW p \in Processes, Crash(p) PROVE Arrives(e)'
  BY <1>4 DEF Crash
<1>5. CASE UNCHANGED <<wire, received, dropped, lost>>
  BY <1>5
<1> QED BY <1>1, <1>2, <1>3, <1>4, <1>5
  DEF Next, vars, Add, BecomeDue, AbortTick, EndSession, Restart, Declare

\* A row gets into a tick's sent rows by a publish only, and becomes SENT only
\* from there.
LEMMA SentComesFromPublish ==
  ASSUME TypeOK, [Next]_vars, NEW e \in Events
  PROVE  /\ InFlight(e)' => InFlight(e) \/ \E t \in Ticks : PublishRow(t, e)
         /\ status'[e] = "SENT" => status[e] = "SENT" \/ InFlight(e)
<1> USE DEF TypeOK, InFlight
<1>1. ASSUME NEW t \in Ticks, Tick(t)
      PROVE  /\ InFlight(e)' => InFlight(e) \/ PublishRow(t, e)
             /\ status'[e] = "SENT" => status[e] = "SENT" \/ InFlight(e)
  <2>1. CASE SelectRows(t)
    <3>1. status' = status /\ \A u \in Ticks : tk'[u].sent = tk[u].sent
      BY <2>1 DEF SelectRows
    <3> QED BY <3>1
  <2>2. ASSUME NEW f \in Events, PublishRow(t, f)
        PROVE  /\ InFlight(e)' => InFlight(e) \/ PublishRow(t, e)
               /\ status'[e] = "SENT" => status[e] = "SENT" \/ InFlight(e)
    <3>1. status' = status /\ tk'[t].sent = tk[t].sent \cup {f}
          /\ \A u \in Ticks \ {t} : tk'[u] = tk[u]
      BY <2>2, PublishMarks DEF PublishRow
    <3> QED BY <2>2, <3>1
  <2>3. ASSUME NEW f \in Events, FailRow(t, f)
        PROVE  status' = status /\ \A u \in Ticks : tk'[u].sent = tk[u].sent
    BY <2>3, FailMarks DEF FailRow
  <2>4. CASE CommitTick(t)
    BY <2>4 DEF CommitTick, CommittedStatus, Idle
  <2> QED BY <1>1, <2>1, <2>2, <2>3, <2>4 DEF Tick, PublishStray, EndStray
<1>2. ASSUME NEW f \in Events, Add(f)
      PROVE  tk' = tk /\ (status'[e] = "SENT" => status[e] = "SENT")
  BY <1>2 DEF Add
<1>3. ASSUME NEW t \in Ticks, AbortTick(t) \/ \E f \in Events : EndSession(t, f)
      PROVE  status' = status /\ (InFlight(e)' => InFlight(e))
  BY <1>3 DEF AbortTick, EndSession, Idle
<1>4. ASSUME NEW p \in Processes, Crash(p)
      PROVE  status' = status /\ (InFlight(e)' => InFlight(e))
  BY <1>4 DEF Crash, Idle
<1>5. CASE UNCHANGED <<tk, status>>
  BY <1>5
<1> QED BY <1>1, <1>2, <1>3, <1>4, <1>5
  DEF Next, vars, BecomeDue, Receive, Disconnect, Restart, Declare

\* What is SENT, or marked SENT in an open transaction, is on the way.
LEMMA DeliveryStep ==
  ASSUME TypeOK, TypeOK', SentArrives, MarkedArrives, [Next]_vars
  PROVE  SentArrives' /\ MarkedArrives'
<1>1. ASSUME NEW e \in Events, NEW t \in Ticks, PublishRow(t, e)
      PROVE  Arrives(e)'
  BY <1>1, TicksAssumption DEF PublishRow, Arrives, TypeOK
<1>2. ASSUME NEW e \in Events, InFlight(e)'
      PROVE  Arrives(e)'
  BY <1>1, <1>2, ArrivesStays, SentComesFromPublish DEF MarkedArrives
<1>3. ASSUME NEW e \in Events, status'[e] = "SENT"
      PROVE  Arrives(e)'
  BY <1>3, ArrivesStays, SentComesFromPublish DEF MarkedArrives, SentArrives
<1> QED BY <1>2, <1>3 DEF SentArrives, MarkedArrives

----------------------------------------------------------------------------
(* Duplicates                                                              *)

\* The database ends a tick's transaction, or the tick's process dies.
RollsBack ==
  \/ \E t \in Ticks : AbortTick(t) \/ \E e \in Events : EndSession(t, e)
  \/ \E p \in Processes : Crash(p)

\* Each of them counts as one rollback.
LEMMA RollbackCounts ==
  ASSUME TypeOK, RollsBack
  PROVE  Rollbacks' = Rollbacks + 1
<1>1. crashes \in Nat /\ errors \in Nat
  BY BoundsAssumption DEF TypeOK
<1>2. \/ crashes' = crashes + 1 /\ errors' = errors
      \/ crashes' = crashes /\ errors' = errors + 1
  BY DEF RollsBack, AbortTick, EndSession, Crash
<1> QED BY <1>1, <1>2 DEF Rollbacks

\* The row a tick is to publish is not SENT, nor marked SENT by any tick.
LEMMA NextIsOpen ==
  ASSUME RowLocks, NEW t \in Ticks, NEW e \in Events, IsNext(t, e)
  PROVE  status[e] \in {"PENDING", "FAILED"} /\ ~InFlight(e)
<1>1. e \in tk[t].todo /\ e \in Held(t)
  BY DEF IsNext, Held
<1> QED BY <1>1 DEF RowLocks, TicksAreDisjoint, MarksAreApart, InFlight, Held

\* A row that is SENT or marked SENT stays so, unless the transaction of its
\* tick ends without a COMMIT, which is a further rollback.
LEMMA SentStays ==
  ASSUME TypeOK, [Next]_vars, NEW e \in Events,
         status[e] = "SENT" \/ InFlight(e), RowLocks
  PROVE  status'[e] = "SENT" \/ InFlight(e)'
         \/ Rollbacks' = Rollbacks + 1
<1> USE DEF InFlight
<1>1. ASSUME NEW t \in Ticks, Tick(t)
      PROVE  status'[e] = "SENT" \/ InFlight(e)'
  <2>1. CASE SelectRows(t)
    <3>1. status' = status /\ \A u \in Ticks : tk'[u].sent = tk[u].sent
      BY <2>1 DEF SelectRows, TypeOK
    <3> QED BY <3>1
  <2>2. ASSUME NEW f \in Events, PublishRow(t, f) \/ FailRow(t, f)
        PROVE  status'[e] = "SENT" \/ InFlight(e)'
    <3>1. status' = status
      BY <2>2 DEF PublishRow, FailRow
    <3>2. \A u \in Ticks : tk[u].sent \subseteq tk'[u].sent
      BY <2>2, PublishMarks, FailMarks
    <3> QED BY <3>1, <3>2
  <2>3. CASE CommitTick(t)
    <3>1. \A u \in Ticks \ {t} : tk'[u] = tk[u]
      BY <2>3 DEF CommitTick, TypeOK
    <3>2. e \in tk[t].sent => status'[e] = "SENT"
      BY <2>3 DEF CommitTick, CommittedStatus
    <3>3. status[e] = "SENT" => e \notin Held(t)
      BY DEF RowLocks, TicksAreDisjoint
    <3>4. e \notin Held(t) => status'[e] = status[e]
      BY <2>3 DEF CommitTick, CommittedStatus, Held
    <3> QED BY <3>1, <3>2, <3>3, <3>4
  <2> QED BY <1>1, <2>1, <2>2, <2>3 DEF Tick, PublishStray, EndStray
<1>2. ASSUME NEW f \in Events, Add(f)
      PROVE  tk' = tk /\ (status[e] = "SENT" => status'[e] = "SENT")
  BY <1>2 DEF Add, TypeOK
<1>3. CASE RollsBack
  BY <1>3, RollbackCounts
<1>4. CASE UNCHANGED <<tk, status>>
  BY <1>4
<1> QED BY <1>1, <1>2, <1>3, <1>4
  DEF Next, vars, RollsBack, BecomeDue, Receive, Disconnect, Restart, Declare

\* The stray publishes of one row: a finite number, counted.
LEMMA StraysCounted ==
  ASSUME TypeOK, NEW e \in Events
  PROVE  IsFiniteSet(Strays(e)) /\ Cardinality(Strays(e)) \in Nat
<1>1. IsFiniteSet(Strays(e))
  BY FS_Subset DEF Strays, TypeOK
<1> QED BY <1>1, FS_CardinalityType

\* The same after a step.
LEMMA StraysCountedThen ==
  ASSUME TypeOK', NEW e \in Events
  PROVE  IsFiniteSet(Strays(e)') /\ Cardinality(Strays(e)') \in Nat
<1>1. IsFiniteSet(stray') /\ Strays(e)' \subseteq stray'
  BY DEF Strays, TypeOK
<1>2. IsFiniteSet(Strays(e)')
  BY <1>1, FS_Subset
<1> QED BY <1>2, FS_CardinalityType

\* What a row has cost so far: its copies and the strays that may add to them.
Cost(e) == copies[e] + Cardinality(Strays(e))

\* It is a number, before and after a step.
LEMMA CostIsNat ==
  ASSUME TypeOK, TypeOK', NEW e \in Events
  PROVE  Cost(e) \in Nat /\ Cost(e)' \in Nat
<1>1. copies[e] \in Nat /\ copies'[e] \in Nat
  BY DEF TypeOK
<1>2. Cardinality(Strays(e)) \in Nat /\ Cardinality(Strays(e)') \in Nat
  BY StraysCounted, StraysCountedThen
<1> QED BY <1>1, <1>2 DEF Cost

\* A step that adds no stray of a row and copies it at most in place of one
\* does not raise its cost.
LEMMA StrayCost ==
  ASSUME TypeOK, TypeOK', NEW e \in Events, stray' \subseteq stray,
         \/ copies'[e] = copies[e]
         \/ copies'[e] = copies[e] + 1 /\ \E x \in Strays(e) : x \notin stray'
  PROVE  Cost(e)' <= Cost(e)
<1> DEFINE n == Cardinality(Strays(e))
           m == Cardinality(Strays(e)')
<1>1. IsFiniteSet(Strays(e)) /\ n \in Nat /\ m \in Nat /\ Strays(e)' \subseteq Strays(e)
  BY StraysCounted, StraysCountedThen DEF Strays
<1>2. m <= n
  BY <1>1, FS_Subset
<1>3. copies[e] \in Nat /\ copies'[e] \in Nat
  BY DEF TypeOK
<1>4. ASSUME NEW x \in Strays(e), x \notin stray'
      PROVE  m + 1 <= n
  <2>1. Strays(e)' \subseteq Strays(e) \ {x}
    BY <1>1, <1>4 DEF Strays
  <2>2. IsFiniteSet(Strays(e) \ {x}) /\ Cardinality(Strays(e) \ {x}) = n - 1
    BY <1>1, FS_RemoveElement
  <2>3. m <= n - 1
    BY <2>1, <2>2, FS_Subset
  <2> QED BY <1>1, <2>3
<1>5. Cost(e) = copies[e] + n /\ Cost(e)' = copies'[e] + m
  BY DEF Cost
<1> HIDE DEF n, m
<1> QED BY <1>1, <1>2, <1>3, <1>4, <1>5

\* One more stray costs one at most.
LEMMA NewStrayCost ==
  ASSUME TypeOK, TypeOK', NEW e \in Events, NEW t \in Ticks, NEW f \in Events,
         EndSession(t, f)
  PROVE  Cost(e)' <= Cost(e) + 1
<1> DEFINE s == [tick |-> t, row |-> f]
           n == Cardinality(Strays(e))
           m == Cardinality(Strays(e)')
<1>1. IsFiniteSet(Strays(e)) /\ n \in Nat /\ m \in Nat
  BY StraysCounted, StraysCountedThen
<1>2. Strays(e)' \subseteq Strays(e) \cup {s}
  BY DEF EndSession, Strays
<1>3. /\ IsFiniteSet(Strays(e) \cup {s})
      /\ Cardinality(Strays(e) \cup {s}) \in {n, n + 1}
  BY <1>1, FS_AddElement
<1>4. m <= Cardinality(Strays(e) \cup {s})
  BY <1>2, <1>3, FS_Subset
<1>5. copies' = copies /\ copies[e] \in Nat
  BY DEF EndSession, TypeOK
<1>6. Cost(e) = copies[e] + n /\ Cost(e)' = copies[e] + m
  BY <1>5 DEF Cost
<1> HIDE DEF n, m, s
<1> QED BY <1>1, <1>3, <1>4, <1>5, <1>6

\* A row's cost rises by one when a tick publishes it from an open transaction,
\* or when it becomes a stray with a rollback.
LEMMA CostStep ==
  ASSUME TypeOK, TypeOK', [Next]_vars, NEW e \in Events
  PROVE  \/ Cost(e)' <= Cost(e) /\ Rollbacks' \in {Rollbacks, Rollbacks + 1}
         \/ /\ \E t \in Ticks : EndSession(t, e)
            /\ Cost(e)' <= Cost(e) + 1 /\ Rollbacks' = Rollbacks + 1
         \/ /\ \E t \in Ticks : PublishRow(t, e)
            /\ Cost(e)' = Cost(e) + 1 /\ Rollbacks' = Rollbacks
<1>0. Cost(e) \in Nat /\ Cost(e)' \in Nat
  BY CostIsNat
<1>1. ASSUME NEW t \in Ticks, NEW f \in Events, PublishRow(t, f)
      PROVE  /\ Cost(e)' = Cost(e) \/ (f = e /\ Cost(e)' = Cost(e) + 1)
             /\ Rollbacks' = Rollbacks
  <2>1. copies'[e] = copies[e] \/ (f = e /\ copies'[e] = copies[e] + 1)
    BY <1>1 DEF PublishRow, TypeOK
  <2>2. Strays(e)' = Strays(e)
    BY <1>1 DEF PublishRow, Strays
  <2>3. copies[e] \in Nat /\ Cardinality(Strays(e)) \in Nat
    BY StraysCounted DEF TypeOK
  <2> QED BY <1>1, <2>1, <2>2, <2>3 DEF Cost, PublishRow, Rollbacks
<1>2. ASSUME NEW x \in stray, PublishStray(x)
      PROVE  Cost(e)' <= Cost(e) /\ Rollbacks' = Rollbacks
  <2>1. stray' = stray \ {x}
        /\ (copies'[e] = copies[e] \/ (x.row = e /\ copies'[e] = copies[e] + 1))
    BY <1>2 DEF PublishStray, TypeOK
  <2>2. x.row = e => x \in Strays(e)
    BY DEF Strays
  <2> QED BY <1>2, <2>1, <2>2, StrayCost DEF PublishStray, Rollbacks
<1>3. ASSUME NEW t \in Ticks, NEW f \in Events, EndSession(t, f)
      PROVE  /\ Cost(e)' <= Cost(e) \/ (f = e /\ Cost(e)' <= Cost(e) + 1)
             /\ Rollbacks' = Rollbacks + 1
  <2>1. Rollbacks' = Rollbacks + 1
    BY <1>3, RollbackCounts DEF RollsBack
  <2>2. CASE f # e
    <3>1. Strays(e)' = Strays(e) /\ copies' = copies
      BY <1>3, <2>2 DEF EndSession, Strays
    <3> QED BY <1>0, <2>1, <3>1 DEF Cost
  <2>3. CASE f = e
    BY <1>3, <2>1, <2>3, NewStrayCost
  <2> QED BY <2>2, <2>3
<1>4. CASE (\E t \in Ticks : AbortTick(t)) \/ (\E p \in Processes : Crash(p))
  <2>1. Rollbacks' = Rollbacks + 1
    BY <1>4, RollbackCounts DEF RollsBack
  <2>2. stray' \subseteq stray /\ copies' = copies
    BY <1>4 DEF AbortTick, Crash
  <2> QED BY <1>0, <2>1, <2>2, StrayCost
<1>5. ASSUME copies' = copies, stray' \subseteq stray, UNCHANGED <<crashes, errors>>
      PROVE  Cost(e)' <= Cost(e) /\ Rollbacks' = Rollbacks
  <2>1. Cost(e)' <= Cost(e)
    BY <1>5, StrayCost
  <2> QED BY <1>5, <2>1 DEF Rollbacks
<1>6. \/ \E t \in Ticks, f \in Events : PublishRow(t, f)
      \/ \E x \in stray : PublishStray(x)
      \/ \E t \in Ticks, f \in Events : EndSession(t, f)
      \/ (\E t \in Ticks : AbortTick(t)) \/ (\E p \in Processes : Crash(p))
      \/ copies' = copies /\ stray' \subseteq stray /\ UNCHANGED <<crashes, errors>>
  BY DEF Next, vars, Tick, SelectRows, FailRow, CommitTick, EndStray, Add, BecomeDue, Receive,
      Declare, Disconnect, Restart
<1> QED BY <1>0, <1>1, <1>2, <1>3, <1>4, <1>5, <1>6

\* A row is published by the tick that holds it or by one that has lost it with
\* its transaction, so that each copy but one is paid for by a rollback.
LEMMA CopiesStep ==
  ASSUME TypeOK, TypeOK', RowLocks, CopiesMatch, [Next]_vars
  PROVE  CopiesMatch'
<1> SUFFICES ASSUME NEW e \in Events
             PROVE  Cost(e)' <= Rollbacks'
                      + (IF status'[e] = "SENT" \/ InFlight(e)' THEN 1 ELSE 0)
  BY DEF CopiesMatch, Cost
<1>1. Cost(e) <= Rollbacks + (IF status[e] = "SENT" \/ InFlight(e) THEN 1 ELSE 0)
  BY DEF CopiesMatch, Cost
<1>2. Cost(e) \in Nat /\ Cost(e)' \in Nat /\ Rollbacks \in Nat
  BY BoundsAssumption, CostIsNat DEF TypeOK, Rollbacks
<1>3. CASE Cost(e)' <= Cost(e) /\ Rollbacks' \in {Rollbacks, Rollbacks + 1}
  BY <1>1, <1>2, <1>3, SentStays
<1>4. ASSUME NEW t \in Ticks, EndSession(t, e), Cost(e)' <= Cost(e) + 1,
             Rollbacks' = Rollbacks + 1
      PROVE  Cost(e)' <= Rollbacks'
                      + (IF status'[e] = "SENT" \/ InFlight(e)' THEN 1 ELSE 0)
  <2>1. status[e] # "SENT" /\ ~InFlight(e)
    BY <1>4, NextIsOpen DEF EndSession
  <2> QED BY <1>1, <1>2, <1>4, <2>1
<1>5. ASSUME NEW t \in Ticks, PublishRow(t, e), Cost(e)' = Cost(e) + 1,
             Rollbacks' = Rollbacks
      PROVE  Cost(e)' <= Rollbacks'
                      + (IF status'[e] = "SENT" \/ InFlight(e)' THEN 1 ELSE 0)
  <2>1. status[e] # "SENT" /\ ~InFlight(e)
    BY <1>5, NextIsOpen DEF PublishRow
  <2>2. InFlight(e)'
    BY <1>5, PublishMarks DEF InFlight
  <2> QED BY <1>1, <1>2, <1>5, <2>1, <2>2
<1> QED BY <1>3, <1>4, <1>5, CostStep

----------------------------------------------------------------------------
(* The inductive invariant and the theorems                                *)

\* The initial state satisfies the inductive invariant.
LEMMA InitIInv == Init => IInv
<1> SUFFICES ASSUME Init PROVE IInv
  OBVIOUS
<1>1. \A e \in Events : Strays(e) = {} /\ Cardinality(Strays(e)) = 0
  BY FS_EmptySet DEF Init, Strays
<1>2. CopiesMatch
  BY <1>1 DEF Init, CopiesMatch, Rollbacks
<1> QED BY <1>2, InitTypeOK DEF Init, IInv, TicksAreDisjoint, SentArrives, MarkedArrives,
     MarksAreApart, StraysAreIdle, InFlight, Held, Idle

\* Every step keeps the inductive invariant.
LEMMA NextIInv == IInv /\ [Next]_vars => IInv'
<1> SUFFICES ASSUME IInv, [Next]_vars PROVE IInv'
  OBVIOUS
<1>0. /\ TypeOK /\ TypeOK' /\ RowLocks /\ StraysAreIdle
      /\ SentArrives /\ MarkedArrives /\ CopiesMatch
  BY NextTypeOK DEF IInv, RowLocks
<1> QED BY <1>0, NextRowLocks, StraysStayIdle, DeliveryStep, CopiesStep DEF IInv, RowLocks

\* Overlapping ticks never hold the same row, nor a row already SENT.
THEOREM LocksKeepTicksApart == Spec => []TicksAreDisjoint
<1>1. Init => TypeOK /\ RowLocks
  BY InitTypeOK DEF Init, RowLocks, TicksAreDisjoint, MarksAreApart, Held, Idle
<1>2. TypeOK /\ RowLocks /\ [Next]_vars => (TypeOK /\ RowLocks)'
  BY NextTypeOK, NextRowLocks
<1>3. TypeOK /\ RowLocks => TicksAreDisjoint
  BY DEF RowLocks
<1> QED BY <1>1, <1>2, <1>3, PTL DEF Spec

\* A SENT event has reached the broker, which drops it if there is no queue, or
\* is on the way, or was on the way when a connection or a process ended.
THEOREM AtLeastOnce == Spec => []SentArrives
<1>1. IInv => SentArrives
  BY DEF IInv
<1> QED BY <1>1, InitIInv, NextIInv, PTL DEF Spec

\* Each copy of an event but the first costs a crash or a transaction that the
\* database ends, however many ticks and processes there are, and a tick that
\* does not know of the end of its transaction makes one copy at most.
THEOREM CopiesCostRollbacks == Spec => []CopiesArePaid
<1> DEFINE J == TypeOK /\ RowLocks /\ CopiesMatch
<1>1. Init => J
  BY InitIInv DEF IInv, RowLocks
<1>2. J /\ [Next]_vars => J'
  BY NextTypeOK, NextRowLocks, CopiesStep
<1>3. J => CopiesArePaid
  <2> SUFFICES ASSUME J, NEW e \in Events
               PROVE  copies[e] <= 1 + Rollbacks
    BY DEF CopiesArePaid
  <2>1. copies[e] \in Nat /\ Rollbacks \in Nat /\ Cardinality(Strays(e)) \in Nat
    BY BoundsAssumption, StraysCounted DEF TypeOK, Rollbacks
  <2> QED BY <2>1 DEF CopiesMatch
<1> QED BY <1>1, <1>2, <1>3, PTL DEF Spec

\* Once SENT is committed no tick changes the row or publishes it again, except
\* one that was thrown out by the database and does not know.
THEOREM SentOnceForAll == Spec => SentIsFinal
<1> DEFINE J == TypeOK /\ RowLocks
           Final == \A e \in Events : status[e] = "SENT" =>
                      status'[e] = "SENT" /\ (copies'[e] = copies[e] \/ Strays(e) # {})
<1>1. Init => J
  BY InitTypeOK DEF Init, RowLocks, TicksAreDisjoint, MarksAreApart, Held, Idle
<1>2. J /\ [Next]_vars => J'
  BY NextTypeOK, NextRowLocks
<1>3. J /\ [Next]_vars => [Final]_vars
  <2> SUFFICES ASSUME J, Next, NEW e \in Events, status[e] = "SENT"
               PROVE  status'[e] = "SENT" /\ (copies'[e] = copies[e] \/ Strays(e) # {})
    OBVIOUS
  <2>1. \A t \in Ticks : e \notin Held(t)
    BY DEF RowLocks, TicksAreDisjoint
  <2>2. copies'[e] = copies[e] \/ Strays(e) # {}
    <3>1. ASSUME NEW t \in Ticks, NEW f \in Events, PublishRow(t, f)
          PROVE  copies'[e] = copies[e]
      BY <2>1, <3>1 DEF PublishRow, IsNext, Held, TypeOK
    <3>2. ASSUME NEW x \in stray, PublishStray(x)
          PROVE  copies'[e] = copies[e] \/ x \in Strays(e)
      BY <3>2 DEF PublishStray, Strays, TypeOK
    <3>3. CASE copies' = copies
      BY <3>3
    <3> QED BY <3>1, <3>2, <3>3 DEF Next, Tick, SelectRows, FailRow, CommitTick, EndStray, Add,
            BecomeDue, AbortTick, EndSession, Declare, Receive, Disconnect, Crash, Restart
  <2>3. ASSUME NEW t \in Ticks, CommitTick(t)
        PROVE  status'[e] = "SENT"
    BY <2>1, <2>3 DEF CommitTick, CommittedStatus, Held
  <2>4. ASSUME NEW f \in Events, Add(f)
        PROVE  status'[e] = "SENT"
    BY <2>4 DEF Add, TypeOK
  <2>5. status' = status \/ (\E t \in Ticks : CommitTick(t)) \/ (\E f \in Events : Add(f))
    BY DEF Next, Tick, SelectRows, PublishRow, FailRow, PublishStray, EndStray, BecomeDue,
        AbortTick, EndSession, Declare, Receive, Disconnect, Crash, Restart
  <2> QED BY <2>2, <2>3, <2>4, <2>5
<1> QED BY <1>1, <1>2, <1>3, PTL DEF Spec, SentIsFinal
----------------------------------------------------------------------------
(* The relay implements OutboxDelivery                                     *)

\* What the mapping takes from the rows, the wires and the strays.
LEMMA MappedStutter ==
  ASSUME TypeOK
  PROVE  /\ status' = status => Recorded' = Recorded /\ Closed' = Closed
         /\ wire' = wire => OnTheWay' = OnTheWay
         /\ stray' = stray => CutOff' = CutOff
         /\ crashes' = crashes /\ errors' = errors => Rollbacks' = Rollbacks
  BY DEF Recorded, Closed, OnTheWay, CutOff, Strays, Rollbacks

\* A step that lets go of strays leaves no event interrupted that was not.
LEMMA FewerStrays ==
  ASSUME stray' \subseteq stray
  PROVE  CutOff' \subseteq CutOff
  BY DEF CutOff, Strays

\* A tick that publishes hands over a copy that is paid for.
LEMMA PublishHandsOver ==
  ASSUME IInv, NEW t \in Ticks, NEW e \in Events, PublishRow(t, e)
  PROVE  Delivery!HandOver(e)
<1>0. TypeOK /\ RowLocks /\ CopiesMatch
  BY DEF IInv, RowLocks
<1>1. status[e] \in {"PENDING", "FAILED"} /\ ~InFlight(e)
  BY <1>0, NextIsOpen DEF PublishRow
<1>2. e \in Recorded \ Closed
  BY <1>1 DEF Recorded, Closed
<1>3. copies[e] <= Rollbacks
  <2>1. Rollbacks \in Nat /\ copies[e] \in Nat /\ Cardinality(Strays(e)) \in Nat
    BY <1>0, BoundsAssumption, StraysCounted DEF TypeOK, Rollbacks
  <2> QED BY <1>0, <1>1, <2>1 DEF CopiesMatch
<1>4. OnTheWay' = OnTheWay \cup {e}
  BY <1>0, TicksAssumption DEF PublishRow, OnTheWay, TypeOK
<1>5. UNCHANGED <<status, stray, broker, lost, crashes, errors>>
  BY DEF PublishRow
<1>6. copies' = [copies EXCEPT ![e] = @ + 1]
  BY DEF PublishRow
<1> QED BY <1>0, <1>2, <1>3, <1>4, <1>5, <1>6, MappedStutter
    DEF Delivery!HandOver, Delivery!outbox, Delivery!broker, broker

\* So does a tick that publishes after the end of its transaction.
LEMMA StrayHandsOver ==
  ASSUME IInv, NEW x \in stray, PublishStray(x)
  PROVE  Delivery!HandOver(x.row)
<1> DEFINE e == x.row
<1>0. TypeOK /\ CopiesMatch /\ x.tick \in Ticks /\ e \in Events
  BY DEF IInv, TypeOK
<1>1. x \in Strays(e) /\ e \in CutOff
  BY <1>0 DEF Strays, CutOff
<1>2. copies[e] <= Rollbacks
  <2> DEFINE n == Cardinality(Strays(e))
  <2>1. IsFiniteSet(Strays(e)) /\ n \in Nat
    BY <1>0, StraysCounted
  <2>2. n # 0
    BY <1>1, <2>1, FS_EmptySet
  <2>3. Rollbacks \in Nat /\ copies[e] \in Nat
    BY <1>0, BoundsAssumption DEF TypeOK, Rollbacks
  <2>4. copies[e] + n <= Rollbacks + 1
    <3>1. copies[e] + n <= Rollbacks + (IF status[e] = "SENT" \/ InFlight(e) THEN 1 ELSE 0)
      BY <1>0 DEF CopiesMatch
    <3> HIDE DEF n, e
    <3> QED BY <2>1, <2>3, <3>1
  <2> HIDE DEF n, e
  <2> QED BY <2>1, <2>2, <2>3, <2>4
<1>3. OnTheWay' = OnTheWay \cup {e}
  <2>1. HostOf[x.tick] \in Processes
    BY <1>0, TicksAssumption
  <2> QED BY <1>0, <2>1 DEF PublishStray, OnTheWay, TypeOK
<1>4. CutOff' \in {CutOff, CutOff \ {e}}
  <2>1. stray' = stray \ {x}
    BY DEF PublishStray
  <2>2. \A f \in Events \ {e} : Strays(f)' = Strays(f)
    BY <2>1 DEF Strays
  <2>3. CutOff' \subseteq CutOff /\ CutOff \ {e} \subseteq CutOff'
    BY <2>1, <2>2, FewerStrays DEF CutOff
  <2> QED BY <2>3
<1>5. UNCHANGED <<status, broker, lost, crashes, errors>>
  BY DEF PublishStray
<1>6. copies' = [copies EXCEPT ![e] = @ + 1]
  BY DEF PublishStray
<1> QED BY <1>0, <1>1, <1>2, <1>3, <1>4, <1>5, <1>6, MappedStutter
    DEF Delivery!HandOver, Delivery!outbox, Delivery!broker, broker

\* A commit closes what its tick has handed over; its failed rows stay open.
LEMMA CommitCloses ==
  ASSUME IInv, NEW t \in Ticks, CommitTick(t)
  PROVE  Delivery!Close(tk[t].sent)
<1>0. TypeOK /\ TicksAreDisjoint /\ MarkedArrives
  BY DEF IInv
<1>1. tk[t].sent \subseteq Events /\ tk[t].failed \subseteq Events
  BY <1>0 DEF TypeOK
<1>2. \A e \in tk[t].sent \cup tk[t].failed : status[e] \in {"PENDING", "FAILED"}
  BY <1>0 DEF TicksAreDisjoint, Held
<1>3. tk[t].sent \subseteq Recorded \ Closed
  BY <1>1, <1>2 DEF Recorded, Closed
<1>4. tk[t].sent \subseteq OnTheWay \cup received \cup dropped \cup lost
  BY <1>0, <1>1 DEF MarkedArrives, InFlight, Arrives, OnTheWay
<1>5. \A e \in Events :
        status'[e] = IF e \in tk[t].sent THEN "SENT"
                     ELSE IF e \in tk[t].failed THEN "FAILED" ELSE status[e]
  BY DEF CommitTick, CommittedStatus
<1>6. Recorded' = Recorded
  BY <1>2, <1>5 DEF Recorded
<1>7. Closed' = Closed \cup tk[t].sent
  BY <1>1, <1>2, <1>5 DEF Closed
<1>8. UNCHANGED <<stray, wire, broker, lost, copies, crashes, errors>>
  BY DEF CommitTick
<1> QED BY <1>0, <1>3, <1>4, <1>6, <1>7, <1>8, MappedStutter
    DEF Delivery!Close, Delivery!broker, broker

\* What the broker reads is on the queue or dropped, unless a copy is left on
\* another wire.
LEMMA ReceiveArrives ==
  ASSUME TypeOK, NEW p \in Processes, NEW e \in Events, Receive(p, e)
  PROVE  Delivery!Arrive(e)
<1>1. e \in OnTheWay
  BY DEF Receive, OnTheWay
<1>2. OnTheWay' \subseteq OnTheWay /\ OnTheWay \ {e} \subseteq OnTheWay'
  BY DEF Receive, OnTheWay, TypeOK
<1>3. OnTheWay' \in {OnTheWay, OnTheWay \ {e}}
  BY <1>2
<1>4. UNCHANGED <<status, stray, declared, lost, copies, crashes, errors>>
  BY DEF Receive
<1>5. \/ declared /\ received' = received \cup {e} /\ UNCHANGED dropped
      \/ ~declared /\ dropped' = dropped \cup {e} /\ UNCHANGED received
  BY DEF Receive
<1> QED BY <1>1, <1>3, <1>4, <1>5, MappedStutter DEF Delivery!Arrive, Delivery!outbox

\* The end of a connection or of a process loses what is on its wire.
LEMMA WireIsLost ==
  ASSUME TypeOK, NEW p \in Processes, Disconnect(p) \/ Crash(p)
  PROVE  Delivery!Lose(wire[p])
<1>1. wire[p] \subseteq OnTheWay /\ lost' = lost \cup wire[p]
  BY DEF Disconnect, Crash, OnTheWay
<1>2. OnTheWay' \subseteq OnTheWay /\ OnTheWay \ wire[p] \subseteq OnTheWay'
  BY DEF Disconnect, Crash, OnTheWay, TypeOK
<1>3. UNCHANGED <<status, broker, copies>>
  BY DEF Disconnect, Crash
<1> QED BY <1>1, <1>2, <1>3, MappedStutter
    DEF Delivery!Lose, Delivery!outbox, Delivery!broker, broker

\* Whatever ends a transaction without a COMMIT is a rollback of open events.
LEMMA RollsBackOpen ==
  ASSUME IInv, RollsBack
  PROVE  Delivery!RollBack
<1>0. TypeOK /\ RowLocks
  BY DEF IInv, RowLocks
<1>1. Rollbacks' = Rollbacks + 1
  BY <1>0, RollbackCounts
<1>2. ASSUME NEW t \in Ticks, NEW e \in Events, EndSession(t, e)
      PROVE  \E I \in SUBSET (Recorded \ Closed) : CutOff' \subseteq CutOff \cup I
  <2>1. status[e] \in {"PENDING", "FAILED"}
    BY <1>0, <1>2, NextIsOpen DEF EndSession
  <2>2. {e} \in SUBSET (Recorded \ Closed)
    BY <2>1 DEF Recorded, Closed
  <2>3. CutOff' \subseteq CutOff \cup {e}
    BY <1>2 DEF EndSession, CutOff, Strays
  <2> QED BY <2>2, <2>3
<1>3. CASE (\E t \in Ticks : AbortTick(t)) \/ (\E p \in Processes : Crash(p))
  <2>1. CutOff' \subseteq CutOff \cup {}
    BY <1>3, FewerStrays DEF AbortTick, Crash
  <2>2. {} \in SUBSET (Recorded \ Closed)
    OBVIOUS
  <2>3. \E I \in SUBSET (Recorded \ Closed) : CutOff' \subseteq CutOff \cup I
    BY <2>1, <2>2, Zenon
  <2> QED BY <1>1, <2>3 DEF Delivery!RollBack
<1> QED BY <1>1, <1>2, <1>3 DEF RollsBack, Delivery!RollBack

\* A transaction that ends takes nothing off the wires.
LEMMA EndLosesNothing ==
  ASSUME TypeOK, NEW t \in Ticks, AbortTick(t) \/ \E e \in Events : EndSession(t, e)
  PROVE  Delivery!Lose({})
<1>1. UNCHANGED <<status, wire, broker, lost, copies>>
  BY DEF AbortTick, EndSession
<1> QED BY <1>1, MappedStutter DEF Delivery!Lose, Delivery!outbox, Delivery!broker, broker

\* Every step of the relay is a step of OutboxDelivery or invisible there.
LEMMA StepRefines ==
  ASSUME IInv, [Next]_vars
  PROVE  [Delivery!Next]_(Delivery!deliveryVars)
<1> DEFINE Still == UNCHANGED <<Recorded, Closed, declared, received, dropped, CutOff, OnTheWay,
                                lost, copies, Rollbacks>>
<1> SUFFICES Delivery!Next \/ Still
  BY DEF Delivery!deliveryVars, Delivery!outbox, Delivery!broker
<1>0. TypeOK
  BY DEF IInv
<1>1. ASSUME NEW e \in Events, Add(e)
      PROVE  Delivery!Record(e)
  <2>1. e \notin Recorded /\ Recorded' = Recorded \cup {e} /\ Closed' = Closed
    BY <1>0, <1>1 DEF Add, Recorded, Closed, TypeOK
  <2>2. UNCHANGED <<stray, wire, broker, lost, copies, crashes, errors>>
    BY <1>1 DEF Add
  <2> QED BY <1>0, <2>1, <2>2, MappedStutter DEF Delivery!Record, Delivery!broker, broker
<1>2. ASSUME NEW t \in Ticks, AbortTick(t) \/ \E e \in Events : EndSession(t, e)
      PROVE  Delivery!Lose({}) /\ Delivery!RollBack
  BY <1>0, <1>2, EndLosesNothing, RollsBackOpen DEF RollsBack
<1>3. ASSUME NEW p \in Processes, Disconnect(p)
      PROVE  Delivery!Lose(wire[p]) /\ UNCHANGED <<CutOff, Rollbacks>>
  BY <1>0, <1>3, WireIsLost, MappedStutter DEF Disconnect
<1>4. ASSUME NEW p \in Processes, Crash(p)
      PROVE  Delivery!Lose(wire[p]) /\ Delivery!RollBack
  BY <1>0, <1>4, WireIsLost, RollsBackOpen DEF RollsBack
<1>5. ASSUME NEW x \in stray, EndStray(x)
      PROVE  Delivery!GiveUp
  <2>1. UNCHANGED <<status, wire, broker, lost, copies, crashes, errors>> /\ stray' \subseteq stray
    BY <1>5 DEF EndStray
  <2> QED BY <1>0, <2>1, MappedStutter, FewerStrays
      DEF Delivery!GiveUp, Delivery!outbox, Delivery!broker, broker
<1>6. CASE Declare
  <2>1. UNCHANGED <<status, stray, wire, received, dropped, lost, copies, crashes, errors>>
        /\ ~declared /\ declared' = TRUE
    BY <1>6 DEF Declare
  <2>2. Delivery!Declare
    BY <1>0, <2>1, MappedStutter DEF Delivery!Declare, Delivery!outbox
  <2> QED BY <2>2 DEF Delivery!Next
<1>7. CASE UNCHANGED <<status, stray, wire, broker, lost, copies, crashes, errors>>
  BY <1>0, <1>7, MappedStutter DEF broker
<1>8. \/ UNCHANGED <<status, stray, wire, broker, lost, copies, crashes, errors>>
      \/ Declare
      \/ \E e \in Events : Add(e)
      \/ \E t \in Ticks, e \in Events : PublishRow(t, e)
      \/ \E t \in Ticks : CommitTick(t)
      \/ \E t \in Ticks : AbortTick(t) \/ \E e \in Events : EndSession(t, e)
      \/ \E x \in stray : PublishStray(x) \/ EndStray(x)
      \/ \E p \in Processes, e \in Events : Receive(p, e)
      \/ \E p \in Processes : Disconnect(p) \/ Crash(p)
  BY DEF Next, Tick, BecomeDue, SelectRows, FailRow, Restart, vars
<1>9. /\ {} \in SUBSET Events /\ (\A t \in Ticks : tk[t].sent \in SUBSET Events)
      /\ (\A p \in Processes : wire[p] \in SUBSET Events) /\ \A x \in stray : x.row \in Events
  BY <1>0 DEF TypeOK
<1> QED BY <1>0, <1>1, <1>2, <1>3, <1>4, <1>5, <1>6, <1>7, <1>8, <1>9, PublishHandsOver,
     StrayHandsOver, CommitCloses, ReceiveArrives DEF Delivery!Next

\* Every behaviour of the relay is one in which events are handed over, at the
\* price of a rollback once more, and then closed, whether or not the queue
\* exists.
THEOREM RefinesDelivery == Spec => ImplementsDelivery
<1>1. Init => Delivery!Init
  BY DEF Init, Delivery!Init, Recorded, Closed, OnTheWay, CutOff, Strays, Rollbacks
<1> QED BY <1>1, InitIInv, NextIInv, StepRefines, PTL
    DEF Spec, ImplementsDelivery, Delivery!Spec

=============================================================================
