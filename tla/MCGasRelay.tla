---------------------------- MODULE MCGasRelay ----------------------------
(* GasRelay on small instances: two identical downloads, another URL, and  *)
(* the kinds of requests that take the other paths.                        *)
EXTENDS RelayRefinement, TLC
CONSTANTS g1, g2, g3, h1, s1, v1, v2, l1, ka, kb, ra, rb

MCKeys == {ka, kb}
MCKind == [r \in Requests |->
  CASE r \in {g1, g2, g3} -> "get"
    [] r = h1 -> "head"
    [] r = s1 -> "stateful"
    [] r \in {v1, v2} -> "ranged"
    [] OTHER -> "large"]
MCKey == [r \in Requests |-> IF r \in {g3, h1} THEN kb ELSE ka]
MCRange == [r \in Requests |-> CASE r = v1 -> ra [] r = v2 -> rb [] OTHER -> NoRange]

\* The two identical downloads are interchangeable.
Symmetry == Permutations({g1, g2})
=============================================================================
