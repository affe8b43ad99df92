---------------------------- MODULE OrderCreateMC ----------------------------
(* Small instances of OrderCreate for TLC. *)
EXTENDS OrderCreate, TLC

CONSTANTS r1, r2, r3, pA, pB, pC, l1, l2, l3, l4, l5, k, a1

\* r1 and r2 order A and B.  r3 shares r1's key and no row of r1's, so the
\* stock locks do not keep their INSERTs apart.
MCLinesOf   == r1 :> {l1, l2} @@ r2 :> {l3, l4} @@ r3 :> {l5}
MCProductOf == l1 :> pA @@ l2 :> pB @@ l3 :> pB @@ l4 :> pA @@ l5 :> pC
MCAmountOf  == [l \in Lines |-> 1]
MCKeyOf     == r1 :> k @@ r2 :> NoKey @@ r3 :> k

\* Two of A, one of B and C.
MCStock == pA :> 2 @@ pB :> 1 @@ pC :> 1

\* One request with two lines for the same product, one piece in stock.
MCTwoLines   == [r \in Requests |-> {l1, l2}]
MCSameProduct == [l \in Lines |-> pA]
MCOneEach     == [p \in Products |-> 1]
MCNoKeys == [r \in Requests |-> NoKey]
=============================================================================
