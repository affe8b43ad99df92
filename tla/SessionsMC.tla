----------------------------- MODULE SessionsMC -----------------------------
(* Small instances of Sessions for TLC. *)
EXTENDS Sessions, TLC

CONSTANTS u1, u2, t1, t2, p1, p2, c1, c2, c3

MCHostOf == c1 :> p1 @@ c2 :> p2 @@ c3 :> p1

\* The administrator holds a token.
MCHolder == t1 :> u1 @@ t2 :> Nobody
=============================================================================
