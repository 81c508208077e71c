-------------------------- MODULE MCDocumentIndexing --------------------------
(* Instances of DocumentIndexing for TLC.                                   *)
EXTENDS DocumentIndexing

CONSTANTS d1, w1, w2, k1, k2, none

OneDoc     == {d1}
TwoKBs     == {k1, k2}
TwoWorkers == {w1, w2}

\* Every fault but a worker that loses its lock while it works, and a database that
\* refuses a write.
Answering == AllFaults \ {"lockLoss", "dbError"}
=============================================================================
