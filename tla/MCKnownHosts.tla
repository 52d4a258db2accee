---------------------------- MODULE MCKnownHosts ----------------------------
(* A small instance of KnownHosts: three checks of one process and one of  *)
(* another; two hosts, each with two keys it may present.                  *)
EXTENDS KnownHosts, TLC

CONSTANTS c1, c2, c3, c4, p1, p2, h1, h2, k1, k2

FourChecks == {c1, c2, c3, c4}
TwoProcesses == {p1, p2}
TwoHosts == {h1, h2}
TwoKeys == {k1, k2}
ThreeInOne == c1 :> p1 @@ c2 :> p1 @@ c3 :> p1 @@ c4 :> p2
OneOther == c1 :> h1 @@ c2 :> h1 @@ c3 :> h2 @@ c4 :> h1
\* The two checks of p1 to h1, and the two keys, are alike.
Alike == Permutations({c1, c2}) \cup Permutations(TwoKeys)
=============================================================================
