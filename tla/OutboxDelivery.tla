--------------------------- MODULE OutboxDelivery ---------------------------
(***************************************************************************)
(* What the transactional outbox promises about a recorded event: a copy   *)
(* of it is handed to the broker before the event is closed, a closed      *)
(* event is not handed over again except by work that was interrupted      *)
(* before, and every copy but the first is paid for by work that was       *)
(* rolled back.  A copy on its way may be lost, and the broker drops it    *)
(* while there is no queue.  Batches, row locks, overlapping ticks,        *)
(* retries and backoff cannot be seen from outside.                        *)
(***************************************************************************)
EXTENDS Naturals

CONSTANT Events

VARIABLES
  recorded,     \* events whose transaction committed
  closed,       \* events the outbox is done with
  interrupted,  \* events that rolled-back work may still hand over
  travelling,   \* events with a copy on its way
  declared,     \* there is a queue
  received,     \* events the queue has got
  dropped,      \* events that came when there was no queue
  lost,         \* events that lost a copy on its way
  copies,       \* how many copies of an event were handed over
  rollbacks     \* rolled-back work so far

outbox == <<recorded, closed>>
broker == <<declared, received, dropped>>
deliveryVars == <<outbox, broker, interrupted, travelling, lost, copies, rollbacks>>

Init == /\ recorded = {} /\ closed = {} /\ interrupted = {}
        /\ declared = FALSE
        /\ travelling = {} /\ received = {} /\ dropped = {} /\ lost = {}
        /\ copies = [e \in Events |-> 0]
        /\ rollbacks = 0

Record(e) == /\ e \in Events \ recorded
             /\ recorded' = recorded \cup {e}
             /\ UNCHANGED <<closed, broker, interrupted, travelling, lost, copies, rollbacks>>

\* No more copies than one and the rollbacks, and none of a closed event unless
\* by interrupted work.
HandOver(e) == /\ e \in recorded \ closed \/ e \in interrupted
               /\ copies[e] <= rollbacks
               /\ copies' = [copies EXCEPT ![e] = @ + 1]
               /\ travelling' = travelling \cup {e}
               /\ interrupted' \in {interrupted, interrupted \ {e}}
               /\ UNCHANGED <<outbox, broker, lost, rollbacks>>

\* Some events are closed at once.
Close(S) == /\ S \subseteq recorded \ closed
            /\ S \subseteq travelling \cup received \cup dropped \cup lost
            /\ closed' = closed \cup S
            /\ UNCHANGED <<recorded, broker, interrupted, travelling, lost, copies, rollbacks>>

\* Somebody creates the queue.
Declare == /\ ~declared
           /\ declared' = TRUE
           /\ UNCHANGED <<outbox, received, dropped, interrupted, travelling, lost, copies,
                          rollbacks>>

\* One of the copies arrives, others may still be on their way.
Arrive(e) == /\ e \in travelling
             /\ \/ declared /\ received' = received \cup {e} /\ UNCHANGED dropped
                \/ ~declared /\ dropped' = dropped \cup {e} /\ UNCHANGED received
             /\ travelling' \in {travelling, travelling \ {e}}
             /\ UNCHANGED <<outbox, declared, interrupted, lost, copies, rollbacks>>

\* A connection or a process ends and with it some of the copies.
Lose(S) == /\ S \subseteq travelling
           /\ lost' = lost \cup S
           /\ travelling \ S \subseteq travelling' /\ travelling' \subseteq travelling
           /\ UNCHANGED <<outbox, broker, copies>>

\* Work on open events is rolled back, and may be left interrupted.
RollBack == /\ rollbacks' = rollbacks + 1
            /\ \E I \in SUBSET (recorded \ closed) : interrupted' \subseteq interrupted \cup I

\* Interrupted work comes to nothing.
GiveUp == /\ interrupted' \subseteq interrupted
          /\ UNCHANGED <<outbox, broker, travelling, lost, copies, rollbacks>>

Next ==
  \/ \E e \in Events : Record(e) \/ HandOver(e) \/ Arrive(e)
  \/ Declare \/ GiveUp
  \/ \E S \in SUBSET Events :
       Close(S) \/ (Lose(S) /\ (RollBack \/ UNCHANGED <<interrupted, rollbacks>>))

Spec == Init /\ [][Next]_deliveryVars
=============================================================================
