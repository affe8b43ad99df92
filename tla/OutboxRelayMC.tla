--------------------------- MODULE OutboxRelayMC ---------------------------
(* Small instances of OutboxRelay for TLC. *)
EXTENDS OutboxRelay, TLC

CONSTANTS p1, p2, t1, t2, t3

\* Two ticks overlap in p1, a third runs in p2.
MCHostOf == [t \in Ticks |-> IF t = t3 THEN p2 ELSE p1]
=============================================================================
