------------------------------ MODULE MCCatalog ------------------------------
(* The catalog for TLC.  Sizes and overlaps stand for the ranges 100..8000 and *)
(* 0..2000 of the request bodies, in which the defaults 1000 and 200 lie       *)
(* between smaller and larger values.                                          *)
EXTENDS Catalog, TLC

CONSTANTS p1, p2, null

SmallSizes    == {1, 3, 4}
SmallOverlaps == {0, 2, 3}
TwoUpdaters   == {p1, p2}
Symmetry      == Permutations(TwoUpdaters)
=============================================================================
