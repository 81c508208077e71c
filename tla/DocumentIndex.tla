---------------------------- MODULE DocumentIndex ----------------------------
(***************************************************************************)
(* What the platform promises about a document and its searchable chunks.  *)
(* The chunks of a document appear and disappear as one set, a new set     *)
(* only after the old one is gone and only while the document is           *)
(* PROCESSING; INDEXED means that exactly one set is there; chunks vanish  *)
(* with their document.                                                    *)
(***************************************************************************)
EXTENDS Naturals

CONSTANT Docs

VARIABLES
    status,     \* the status of each document
    shown       \* how many chunk sets of it a search can find

vars == <<status, shown>>

\* Before its row is inserted a document is "NONE"; after its deletion "GONE".
Indexable == {"PENDING", "PROCESSING", "INDEXED", "FAILED"}
Statuses  == Indexable \cup {"NONE", "GONE"}

Init ==
    /\ status = [d \in Docs |-> "NONE"]
    /\ shown = [d \in Docs |-> 0]

Turn(d, s) == status' = [status EXCEPT ![d] = s]
Show(d, n) == shown' = [shown EXCEPT ![d] = n]

Create(d) == status[d] = "NONE" /\ Turn(d, "PENDING") /\ UNCHANGED shown

\* A delivered job starts over, whatever an earlier attempt left behind.
Begin(d) == status[d] \in Indexable /\ Turn(d, "PROCESSING") /\ UNCHANGED shown

Clear(d)   == status[d] = "PROCESSING" /\ Show(d, 0) /\ UNCHANGED status
Publish(d) == status[d] = "PROCESSING" /\ shown[d] = 0 /\ Show(d, 1) /\ UNCHANGED status

Finish(d) ==
    /\ status[d] = "PROCESSING" /\ shown[d] = 1
    /\ Turn(d, "INDEXED")
    /\ UNCHANGED shown

Fail(d) == status[d] \in Indexable /\ Turn(d, "FAILED") /\ UNCHANGED shown

\* Deleting a knowledge base deletes all of its documents.
Delete(D) ==
    /\ \A d \in D : status[d] \in Indexable
    /\ status' = [d \in Docs |-> IF d \in D THEN "GONE" ELSE status[d]]
    /\ shown' = [d \in Docs |-> IF d \in D THEN 0 ELSE shown[d]]

Next ==
    \/ \E d \in Docs : \/ Create(d) \/ Begin(d) \/ Clear(d) \/ Publish(d)
                       \/ Finish(d) \/ Fail(d)
    \/ \E D \in SUBSET Docs : Delete(D)

Spec == Init /\ [][Next]_vars
=============================================================================
