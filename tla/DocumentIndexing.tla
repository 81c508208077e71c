--------------------------- MODULE DocumentIndexing ---------------------------
(***************************************************************************)
(* Documents end to end: the request that creates a document and queues    *)
(* its text, the workers that chunk, embed and store it, the deletion of   *)
(* documents and knowledge bases, and the faults of the environment.       *)
(*                                                                         *)
(* One step is one awaited call.  The chunks of a document are abstracted  *)
(* to how many complete sets of them the chunk table holds, since the      *)
(* inserts of one attempt are one transaction.                             *)
(***************************************************************************)
EXTENDS Naturals

CONSTANTS
    Docs,       \* document ids; the request that creates d is named d, too
    KBs,        \* knowledge bases
    Workers,    \* the slots in which workers process document jobs
    None,       \* no document, no worker, no knowledge base
    Faults      \* the faults the environment may inject

AllFaults ==
    { "embedError",   \* the embedding provider throws or returns unusable vectors
      "dbError",      \* a database call fails
      "queueError",   \* Redis refuses queue.add or the ack of a job
      "lostReply",    \* a write commits but its caller sees an error
      "crash",        \* an API or worker process dies
      "lockLoss" }    \* a live worker loses the lock of its job

ASSUME DocsAssumption == None \notin Docs \cup Workers \cup KBs /\ Docs \cap Workers = {}
ASSUME DocFaultsAssumption == Faults \subseteq AllFaults

Indexable == {"PENDING", "PROCESSING", "INDEXED", "FAILED"}
Statuses  == Indexable \cup {"NONE", "GONE"}

Procs == Docs \cup Workers

VARIABLES
    kb, kbOf,                   \* the KnowledgeBase table, and a document's base
    status, chunkSets,          \* the Document table, and its sets of chunks
    pc, task,                   \* where a process stands, and its document
    jobState, failures, stalls, owner   \* the BullMQ job of a document

bases == <<kb, kbOf>>
docs  == <<status, chunkSets>>
jobs  == <<jobState, failures, stalls, owner>>
vars  == <<bases, docs, pc, task, jobs>>

Queue == INSTANCE JobQueue WITH Jobs <- Docs

RequestPc == {"idle", "check", "create", "add", "rejected", "done", "crashed"}
TryPc     == {"begin", "config", "embed", "wipe", "insert", "finish"}
WorkerPc  == TryPc \cup {"idle", "catch", "ack", "nack"}

TypeOK ==
    /\ kb \in [KBs -> {"absent", "present", "deleted"}]
    /\ kbOf \in [Docs -> KBs \cup {None}]
    /\ status \in [Docs -> Statuses] /\ chunkSets \in [Docs -> Nat]
    /\ pc \in [Procs -> RequestPc \cup WorkerPc]
    /\ task \in [Workers -> Docs \cup {None}]
    /\ Queue!TypeOK

Init ==
    /\ kb = [k \in KBs |-> "absent"] /\ kbOf = [d \in Docs |-> None]
    /\ status = [d \in Docs |-> "NONE"] /\ chunkSets = [d \in Docs |-> 0]
    /\ pc = [p \in Procs |-> "idle"]
    /\ task = [w \in Workers |-> None]
    /\ Queue!Init

Goto(p, l) == pc' = [pc EXCEPT ![p] = l]
Present(d) == status[d] \in Indexable
Turn(d, s) == status' = [status EXCEPT ![d] = s]

-----------------------------------------------------------------------------
(* Knowledge bases, and the request that creates a document.               *)

CreateKb(k) ==
    /\ kb[k] = "absent"
    /\ kb' = [kb EXCEPT ![k] = "present"]
    /\ UNCHANGED <<kbOf, docs, pc, task, jobs>>

\* Documents and chunks of a deleted base go by cascade.
DeleteKb(k) ==
    /\ kb[k] = "present"
    /\ kb' = [kb EXCEPT ![k] = "deleted"]
    /\ status' = [d \in Docs |-> IF kbOf[d] = k /\ Present(d) THEN "GONE" ELSE status[d]]
    /\ chunkSets' = [d \in Docs |-> IF kbOf[d] = k THEN 0 ELSE chunkSets[d]]
    /\ UNCHANGED <<kbOf, pc, task, jobs>>

\* A client posts a text to a knowledge base.
Submit(d, k) ==
    /\ pc[d] = "idle"
    /\ kbOf' = [kbOf EXCEPT ![d] = k]
    /\ Goto(d, "check")
    /\ UNCHANGED <<kb, docs, task, jobs>>

RequireKb(d) ==
    /\ pc[d] = "check"
    /\ kb[kbOf[d]] = "present"
    /\ Goto(d, "create")
    /\ UNCHANGED <<bases, docs, task, jobs>>

\* 404, or a row that cannot be inserted.
Reject(d) ==
    /\ pc[d] \in {"check", "create"}
    /\ kb[kbOf[d]] # "present" \/ "dbError" \in Faults
    /\ Goto(d, "rejected")
    /\ UNCHANGED <<bases, docs, task, jobs>>

InsertDocument(d, l) ==
    /\ pc[d] = "create"
    /\ kb[kbOf[d]] = "present"
    /\ Turn(d, "PENDING")
    /\ Goto(d, l)
    /\ UNCHANGED <<bases, chunkSets, task, jobs>>

Create(d) == InsertDocument(d, "add")
CreateLost(d) == "lostReply" \in Faults /\ InsertDocument(d, "rejected")

Enqueue(d) ==
    /\ pc[d] = "add"
    /\ Queue!Add(d)
    /\ Goto(d, "done")
    /\ UNCHANGED <<bases, docs, task>>

EnqueueFails(d) ==
    /\ "queueError" \in Faults
    /\ pc[d] = "add"
    /\ Goto(d, "done")
    /\ UNCHANGED <<bases, docs, task, jobs>>

DeleteDocument(d) ==
    /\ Present(d)
    /\ Turn(d, "GONE")
    /\ chunkSets' = [chunkSets EXCEPT ![d] = 0]
    /\ UNCHANGED <<bases, pc, task, jobs>>

-----------------------------------------------------------------------------
(* The worker.  Inside its try block a call either succeeds and the worker *)
(* goes on at l, or commits unseen and the worker goes to the catch block. *)

Commits(w, l) ==
    \/ Goto(w, l)
    \/ "lostReply" \in Faults /\ Goto(w, "catch")

TakeJob(w, d) ==
    /\ pc[w] = "idle"
    /\ Queue!Take(w, d)
    /\ task' = [task EXCEPT ![w] = d]
    /\ Goto(w, "begin")
    /\ UNCHANGED <<bases, docs>>

\* Mutants: the status is not written, and the row is created when it is missing.
BeginSilently(w) ==
    /\ pc[w] = "begin"
    /\ Present(task[w])
    /\ Commits(w, "config")
    /\ UNCHANGED <<bases, docs, task, jobs>>

BeginUpserting(w) ==
    /\ pc[w] = "begin"
    /\ Turn(task[w], "PROCESSING")
    /\ Commits(w, "config")
    /\ UNCHANGED <<bases, chunkSets, task, jobs>>

Begin(w) ==
    /\ pc[w] = "begin"
    /\ Present(task[w])
    /\ Turn(task[w], "PROCESSING")
    /\ Commits(w, "config")
    /\ UNCHANGED <<bases, chunkSets, task, jobs>>

LoadKb(w) ==
    /\ pc[w] = "config"
    /\ kb[kbOf[task[w]]] = "present"
    /\ Goto(w, "embed")
    /\ UNCHANGED <<bases, docs, task, jobs>>

\* The text is chunked and embedded, in batches, before the table is touched.
Embed(w) ==
    /\ pc[w] = "embed"
    /\ Goto(w, "wipe")
    /\ UNCHANGED <<bases, docs, task, jobs>>

\* Mutant: the chunks of an earlier attempt stay.
WipeNothing(w) ==
    /\ pc[w] = "wipe"
    /\ Commits(w, "insert")
    /\ UNCHANGED <<bases, docs, task, jobs>>

Wipe(w) ==
    /\ pc[w] = "wipe"
    /\ chunkSets' = [chunkSets EXCEPT ![task[w]] = 0]
    /\ Commits(w, "insert")
    /\ UNCHANGED <<bases, status, task, jobs>>

\* One transaction inserts all chunks; it needs the document's row.
InsertChunks(w) ==
    /\ pc[w] = "insert"
    /\ Present(task[w])
    /\ chunkSets' = [chunkSets EXCEPT ![task[w]] = @ + 1]
    /\ Commits(w, "finish")
    /\ UNCHANGED <<bases, status, task, jobs>>

Finish(w) ==
    /\ pc[w] = "finish"
    /\ Present(task[w])
    /\ Turn(task[w], "INDEXED")
    /\ Commits(w, "ack")
    /\ UNCHANGED <<bases, chunkSets, task, jobs>>

\* A call of the try block throws: its row is gone, or the environment fails it.
Throw(w) ==
    /\ \/ pc[w] \in {"begin", "insert", "finish"} /\ ~Present(task[w])
       \/ pc[w] = "config" /\ kb[kbOf[task[w]]] # "present"
       \/ pc[w] \in {"embed", "insert"} /\ "embedError" \in Faults
       \/ pc[w] \in TryPc \ {"embed"} /\ "dbError" \in Faults
    /\ Goto(w, "catch")
    /\ UNCHANGED <<bases, docs, task, jobs>>

\* The catch block writes FAILED, swallows an error of that write, and rethrows.
\* Mutants: it only rethrows; it does not rethrow.
Rethrow(w) ==
    /\ pc[w] = "catch"
    /\ Goto(w, "nack")
    /\ UNCHANGED <<bases, docs, task, jobs>>

SwallowFailure(w) ==
    /\ pc[w] = "catch"
    /\ \/ Present(task[w]) /\ Turn(task[w], "FAILED")
       \/ (~Present(task[w]) \/ "dbError" \in Faults) /\ UNCHANGED status
    /\ Goto(w, "ack")
    /\ UNCHANGED <<bases, chunkSets, task, jobs>>

RecordFailure(w) ==
    /\ pc[w] = "catch"
    /\ \/ Present(task[w]) /\ Turn(task[w], "FAILED")
       \/ (~Present(task[w]) \/ "dbError" \in Faults) /\ UNCHANGED status
    /\ Goto(w, "nack")
    /\ UNCHANGED <<bases, chunkSets, task, jobs>>

Release(w) ==
    /\ Goto(w, "idle")
    /\ task' = [task EXCEPT ![w] = None]

Ack(w) ==
    /\ pc[w] = "ack"
    /\ Queue!Complete(w, task[w])
    /\ Release(w)
    /\ UNCHANGED <<bases, docs>>

Nack(w) ==
    /\ pc[w] = "nack"
    /\ Queue!Fail(w, task[w])
    /\ Release(w)
    /\ UNCHANGED <<bases, docs>>

\* Redis does not take the result: the job stays active until it stalls.
ResultLost(w) ==
    /\ "queueError" \in Faults
    /\ pc[w] \in {"ack", "nack"}
    /\ Release(w)
    /\ UNCHANGED <<bases, docs, jobs>>

-----------------------------------------------------------------------------
(* The environment.                                                        *)

BackoffEnds(d) ==
    /\ Queue!BackoffEnds(d)
    /\ UNCHANGED <<bases, docs, pc, task>>

\* A job stalls when its worker has died or let go of it, or has lost the lock.
Stall(d) ==
    /\ Queue!Stall(d)
    /\ task[owner[d]] # d \/ "lockLoss" \in Faults
    /\ UNCHANGED <<bases, docs, pc, task>>

Crash(p) ==
    /\ "crash" \in Faults
    /\ pc[p] \notin {"idle", "done", "rejected", "crashed"}
    /\ IF p \in Workers THEN Release(p) ELSE Goto(p, "crashed") /\ UNCHANGED task
    /\ UNCHANGED <<bases, docs, jobs>>

-----------------------------------------------------------------------------
Request(d) ==
    \/ RequireKb(d) \/ Reject(d) \/ Create(d) \/ CreateLost(d)
    \/ Enqueue(d) \/ EnqueueFails(d)

Work(w) ==
    \/ Begin(w) \/ LoadKb(w) \/ Embed(w) \/ Wipe(w) \/ InsertChunks(w) \/ Finish(w)
    \/ Throw(w) \/ RecordFailure(w) \/ Ack(w) \/ Nack(w) \/ ResultLost(w)

Timers(d) == BackoffEnds(d) \/ Stall(d)

Next ==
    \/ \E k \in KBs : CreateKb(k) \/ DeleteKb(k)
    \/ \E d \in Docs, k \in KBs : Submit(d, k)
    \/ \E d \in Docs : Request(d) \/ DeleteDocument(d) \/ Timers(d)
    \/ \E w \in Workers, d \in Docs : TakeJob(w, d)
    \/ \E w \in Workers : Work(w)
    \/ \E p \in Procs : Crash(p)

Spec == Init /\ [][Next]_vars

\* Node runs every continuation, BullMQ delivers waiting jobs and looks for
\* stalled ones on a timer.  Clients, deletions and faults are never fair.
Fairness ==
    /\ \A d \in Docs : WF_vars(Request(d)) /\ WF_vars(Timers(d))
    /\ \A d \in Docs : WF_vars(\E w \in Workers : TakeJob(w, d))
    /\ \A w \in Workers : WF_vars(Work(w))

FairSpec == Spec /\ Fairness

-----------------------------------------------------------------------------
(* Safety.                                                                 *)

\* Every attempt wipes what earlier ones stored, so however often a job is
\* retried or redelivered a search never finds a chunk twice.
NoDuplicateChunks == \A d \in Docs : chunkSets[d] \in {0, 1}

\* INDEXED means that the chunks are there, also while a job that has indexed the
\* document but was not acknowledged is delivered again.
IndexedHasChunks == \A d \in Docs : status[d] = "INDEXED" => chunkSets[d] > 0

\* A job that BullMQ reports completed has indexed its document for good.
CompletedJobIndexed ==
    \A d \in Docs : jobState[d] = "completed" => status[d] \in {"INDEXED", "GONE"}

\* The indexing pipeline implements what DocumentIndex promises.
Index == INSTANCE DocumentIndex WITH shown <- chunkSets
RefinesIndex == Index!Spec

-----------------------------------------------------------------------------
(* Liveness.                                                               *)

\* The failure of a document whose status says nothing of it is known elsewhere: its
\* client got an error instead of an id, or BullMQ has failed its job as stalled.
KnownToFail(d) ==
    \/ pc[d] \in {"rejected", "done", "crashed"} /\ jobState[d] = "none"
    \/ jobState[d] = "failed" /\ failures[d] < Queue!Attempts

\* Whatever fails or crashes, a document is finally INDEXED, FAILED or deleted, or
\* its failure is known elsewhere: none is ever waited for in vain.  Needs database
\* writes that succeed, since the catch block does not repeat its own.
DocumentsSettle ==
    \A d \in Docs : status[d] \in {"PENDING", "PROCESSING"} ~>
                    status[d] \in {"INDEXED", "FAILED", "GONE"} \/ KnownToFail(d)

-----------------------------------------------------------------------------
(* The inductive invariant, while no live worker loses a lock.             *)

\* A request has a job only when it is done, and only before that no document.
RequestsSound ==
    \A d \in Docs :
        /\ pc[d] # "done" => jobState[d] = "none"
        /\ pc[d] \in {"idle", "check", "create"} => status[d] = "NONE"
        /\ pc[d] = "add" => status[d] \in {"PENDING", "GONE"}
        /\ pc[d] # "idle" => kbOf[d] \in KBs
        /\ status[d] \in {"NONE", "PENDING"} => chunkSets[d] = 0

\* A job that may still be delivered has attempts left.
JobsSound ==
    \A d \in Docs :
        /\ jobState[d] = "none" => failures[d] = 0
        /\ jobState[d] \in {"waiting", "active", "delayed"} => failures[d] < Queue!Attempts
        /\ jobState[d] # "none" => status[d] # "NONE"

LocksHeld ==
    \A w \in Workers : /\ pc[w] = "idle" => task[w] = None
                       /\ pc[w] # "idle" => task[w] \in Docs /\ Queue!Owns(w, task[w])

\* What a worker at point l relies on: the status s and the chunk sets n of its
\* document, unless it was deleted under its hands.
Fits(l, s, n) ==
    /\ l \in {"config", "embed", "wipe", "insert", "finish"} => s \in {"PROCESSING", "GONE"}
    /\ l = "insert" => n = 0
    /\ l = "finish" /\ s # "GONE" => n = 1
    /\ l = "ack" => s \in {"INDEXED", "GONE"}

WorkersSound ==
    \A w \in Workers : task[w] \in Docs => Fits(pc[w], status[task[w]], chunkSets[task[w]])

\* What a reader of the tables finds.
TableSound ==
    \A d \in Docs :
        /\ chunkSets[d] \in {0, 1}
        /\ status[d] = "INDEXED" => chunkSets[d] = 1
        /\ status[d] = "GONE" => chunkSets[d] = 0
        /\ jobState[d] = "completed" => status[d] \in {"INDEXED", "GONE"}

Indexed ==
    /\ TypeOK
    /\ RequestsSound /\ JobsSound /\ LocksHeld /\ WorkersSound
    /\ TableSound
=============================================================================
