------------------------------ MODULE MCChunking ------------------------------
(* An instance of Chunking for TLC: every text of up to 9 characters, every   *)
(* chunk size up to 4 and every overlap up to 5, in batches of 3.             *)
EXTENDS Chunking

SmallLengths  == 1..9
SmallSizes    == 1..4
SmallOverlaps == 0..5
=============================================================================
