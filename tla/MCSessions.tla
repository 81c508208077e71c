------------------------------ MODULE MCSessions ------------------------------
(* An instance of Sessions for TLC: one device sends two requests at once,     *)
(* another one at a time.                                                      *)
EXTENDS Sessions, TLC

CONSTANTS t1, t2, t3, d1, d2, r1, r2, r3

ThreeTokens   == {t1, t2, t3}
TwoDevices    == {d1, d2}
ThreeRequests == {r1, r2, r3}

TwoAtOnce == (r1 :> d1) @@ (r2 :> d1) @@ (r3 :> d2)

Symmetry == Permutations(Tokens) \cup Permutations({r1, r2})
===============================================================================
