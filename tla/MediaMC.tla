------------------------------ MODULE MediaMC ------------------------------
(* Small instances of Media for TLC. *)
EXTENDS Media, TLC

CONSTANTS f1, f2, x1, x2, o1, p1, p2, c1, c2, c3

MCHostOf == c1 :> p1 @@ c2 :> p2 @@ c3 :> p1
MCProductOf == [f \in Files |-> x1]
MCOwnerOf == [f \in Files |-> o1]
=============================================================================
