---------------------------- MODULE FulfilmentMC ----------------------------
(* Small instances of Fulfilment for TLC. *)
EXTENDS Fulfilment, TLC

CONSTANTS o1, k, p1, p2, q1, q2, q3

\* q1 and q3 run in one process, q2 in the other.
MCHostOf == [r \in Requests |-> IF r = q2 THEN p2 ELSE p1]

\* A shipment of the order; its payments are made on the way.
MCExisting ==
  [i \in Ids |->
     IF i = 11 THEN [order |-> o1, status |-> "pending", number |-> NoNumber, stamp |-> NoDate]
     ELSE NoRow]
\* q1 and q3 are interchangeable.
MCSymmetry == Permutations({q1, q3})
=============================================================================
