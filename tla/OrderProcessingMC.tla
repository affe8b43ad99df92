------------------------- MODULE OrderProcessingMC -------------------------
(* Small instances of OrderProcessing for TLC. *)
EXTENDS OrderProcessing, TLC

CONSTANTS o1, x1, x2, x3, p1, p2, h1, h2, c1

\* Every Extra message is about the order.
MCOrderOf == [m \in Extra |-> o1]

\* Each process has one consumer slot (prefetch 1).
MCHostEach == h1 :> p1 @@ h2 :> p2

\* The two processes are interchangeable, each with its slot.
MCSymmetry == {h1 :> h2 @@ h2 :> h1 @@ p1 :> p2 @@ p2 :> p1}
======================================================================
