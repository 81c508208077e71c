# A verification project for the Agentify orchestration platform

Agentify (TypeScript: NestJS, Prisma on PostgreSQL with pgvector, Redis, BullMQ)
lets the members of a workspace define agents, attach tools and knowledge bases
to them, and run them: synchronously, as a stream of events, or through a queue.
This directory holds TLA+ models of the parts that keep state or run
concurrently, the TLC configurations that check them on small instances, and
proofs that TLAPS checks for every value of the constants.

Everything is translated from the code. `PROJECT.json` says for each definition
which lines it stands for, for each hazard which property guards it, and for each
checked property a *mutant*: a small change of one definition, the kind of slip a
change of that code could make, under which TLC finds the property violated. The
mutants are the operators marked "Mutant" in front of the definition they vary;
no specification uses them.

Line numbers below are short for these files: `runs.service.ts` and
`http-tool.executor.ts` in `libs/runtime/src`, the `*.service.ts` of a resource in
`apps/api/src/modules/<resource>`, the processors in `apps/worker/src/processors`.

## 1. Inventory

### Components

| Part | State it keeps | Operations | Model |
|---|---|---|---|
| Run execution: `RunsService`, the runs controller, `AsyncRunsService`, `AgentRunProcessor` | `Run` rows (status, stepCount, totals, errors), `Message` rows, locals of the reasoning loop | open a run (sync, stream, async), pick a job up, the loop (poll the cancel flag, call the model, save the answer, run the tools), settle, fail, cancel | `AgentRuns`, abstract `RunLifecycle` |
| Queues `agent-run`, `document-processing` (BullMQ) | job state, attempts, stall count, lock | add, take, complete, fail with backoff, stall check | `JobQueue` (external, used by two modules) |
| Redis cancel flag | key `run:cancel:<id>` with a TTL | set, poll, expire | `AgentRuns` |
| Documents and their indexing: `DocumentsService`, `DocumentProcessor` | `Document.status`, `DocumentChunk` rows | create, index step by step, delete with the document or its base | `DocumentIndexing`, abstract `DocumentIndex` |
| Chunking and embedding | none | cut the text, embed in batches, pair vectors with chunks | `Chunking` |
| Auth sessions: `AuthService` | `RefreshToken` rows | login, refresh (rotate), logout, expiry | `Sessions` |
| Signup, workspaces, members, guards | `User`, `Workspace`, `WorkspaceMember` rows | signup, create, invite, change a role, remove, soft-delete | `Workspaces` |
| Knowledge base and tool rows | chunking configuration; type and shape of a tool | create with defaults, partial update, delete | `Catalog` |
| HTTP tool executor and the address check | one call: hop, timer | check, request, follow a redirect, time out | `ToolFetch`, composed with `Agents` in `AgentsAtWork` |
| SSE parser, OpenAI and Anthropic adapters | buffer; text, call fragments, usage | read, emit, assemble, finish | `EventStream`, `Completion`, composed in `StreamedCompletion` |
| Agents and attachments: `AgentsService` | `Agent`, `AgentTool`, `AgentKnowledgeBase` rows | create, switch on or off, soft-delete, attach, detach | `Agents` |
| Threads and messages | `Thread`, `Message` rows | create, delete, append, list; a run reads them as its history | `Agents` (threads), `Conversations` (messages and prompts); renaming is left out |
| Search | none | check the base's workspace, one SQL query | its check and its failure, in `Agents`; ranking is left out |
| Crypto, configuration, bootstrap, health, DTO decorators | none | | not modelled (no state, or pure I/O) |

### How they interact

A request of the runs controller checks the agent and the thread, inserts a `Run`
row and either drives the loop itself (sync, stream) or adds a job. A worker takes
the job, reads the row, skips it unless it is PENDING, and drives the same loop.
The loop and `POST /runs/:id/cancel` share only the row and the flag in Redis: the
canceller reads the status, then sets the flag; the loop polls the flag before
each model call. A stream whose socket closes cancels in the same way. Deleting a
thread removes its runs and messages under the loop's hands, by cascade.
Documents go the same way: a row, a job, a worker that writes the row by its id,
and a deletion that may come at any time. The chunker reads the configuration
that `Catalog` keeps valid. The loop calls `ToolFetch` for each tool call and
`StreamedCompletion` for each model answer of a streamed run.
A run reads its agent with everything that is attached to it once, and works with
that snapshot while members attach, detach and delete; a queued run reads it again
when a worker takes it up, by the agent's id alone. The runs of a thread share its
messages: each begins with all that the others have written so far.

### What is hard about it

- *No row is ever locked.* Every service reads, awaits, and writes by id alone.
  What it read may be stale (runs.service.ts:84, 163, 170 and 550,
  agents.service.ts:96, auth.service.ts:152,
  workspaces.service.ts:178, knowledge-bases.service.ts:58, tools.service.ts:69).
- *A job may run more than once.* BullMQ retries failed attempts, redelivers
  stalled ones, and loses the lock of a worker that is slow to renew it.
- *A row is committed before the step that follows it.* `queue.add`, `issueTokens`
  or the process may fail in between (async-runs.service.ts:37,
  documents.service.ts:60, auth.service.ts:83).
- *Errors inside the error path.* A failing catch block is swallowed; a write whose
  reply is lost is reported as failed although it happened (runs.service.ts:274).
- *A thread has no turns.* Two runs append to it at once, rows of one millisecond
  have no order, and a run that fails leaves its half of a conversation behind
  (runs.service.ts:194, 252 and 530).
- *Pieces arrive in any cut.* Network reads end anywhere; fragments of several tool
  calls interleave; a timer fires between any two awaits.

The 40 hazards in `PROJECT.json` name each at its line.

### What makes each part correct

- Runs: one executor at a time, no repeated conversation, totals that match the
  messages, final statuses that stay, CANCELLED only on request, every call
  answered, every run and job ends.
- Documents: chunks at most once, INDEXED means searchable, completed means
  INDEXED, nobody waits in vain. Chunker: no text lost, progress, exact overlap,
  own vectors.
- Sessions: one live token per login, a logout that ends it, nobody else signs a
  device out.
- Workspaces: one owner for ever, whole signups, writes that the roles allow.
- Catalog: every row stays usable; a partial update is really partial.
- Agents: nothing crosses workspaces, a run uses what was attached, and editing
  an agent fails none of its runs.
- Conversations: a prompt answers every call right after it, a run never loses its
  own turn, and a stream tells how its run ended.
- Tool calls: bounded redirects, a result for every call, a timer that neither
  leaks nor is outlived.
- Streams: nothing early, late, lost or doubled; the message is what a call
  without a stream would return.

## 2. Modules

One step of a module is what runs between two awaits of the source. A `pc` value
names the await a process stands at. Requests are entered from small sets with
`\E`; faults are disjuncts of their own that a constant `Faults` switches on.

| Module | Uses | What it is |
|---|---|---|
| `RunLifecycle` | | abstract: the status column of a run and who asked to cancel it |
| `AgentRuns` | `JobQueue`, `RunLifecycle` | runs end to end. `status`, `stepCount`, `tokens`, `log` are the tables; `pc`, `task`, `step`, `spent`, `calls`, `verdict` a process; `flag`, `cancel` the cancellation |
| `AgentRunsInvariants` | `AgentRuns` | the inductive invariants |
| `JobQueue` | | jobs of one BullMQ queue as far as the code relies on it |
| `DocumentIndex` | | abstract: status of a document and how many sets of its chunks can be found |
| `DocumentIndexing` | `JobQueue`, `DocumentIndex` | documents and their worker, step by step; inductive invariant `Indexed` |
| `Chunking` | | `chunkText`, the batches, and the order of vectors |
| `Sessions` | | refresh tokens, devices that keep one, requests that overlap; inductive invariant `Rotation` |
| `Workspaces` | | signup, workspaces and members; what a request has read is part of its record |
| `Catalog` | | rows that are updated in part, and the check of a body against the row |
| `Agents` | | agents, attachments and threads, edited by requests that look up and then write, and the runs that use them: `loaded` is a run's snapshot, `since` what it may rightly use; inductive invariant `Sound` (in `AgentsProofs`) |
| `ToolFetch` | | the steps of one call of an HTTP tool; no specification of its own |
| `AgentsAtWork` | `Agents`, `ToolFetch` | the loop awaits a tool call while everybody else goes on; fairness and liveness |
| `Conversations` | `Subsequences` | the rows of a thread, the prompts of its runs, their two wire forms, the events of a stream |
| `EventStream`, `Completion`, `StreamedCompletion` | `Subsequences` | the parser, the adapter, and both composed: the adapter pulls, the parser appends to what it has handed on |
| `Subsequences` | | the elements of a sequence at a set of its positions (`Only`), told by rank and without recursion |
| `MC*` | | instances for TLC |
| `*Proofs` | | the theorems of a module and their proofs. `KnowledgeProofs` holds those of `DocumentIndexing`, `Chunking` and `Catalog` together, which is why the names of the latter two carry a prefix (`ChunkInit`, `CatalogSpec`); `SubsequencesProofs` has the lemmas on positions that `ConversationsProofs` and `StreamedCompletionProofs` share |

Abstractions worth knowing. Prompts, answers and tool results are counts in
`AgentRuns`; an answer is how many tool calls it asks for. A document's chunks are
a set that is there or not (its content is `Chunking`). A refresh token carries the
login it descends from, which the code does not store: it is what the properties
speak about. A slug is the number appended to one base that everybody wants, and
the random suffixes after 50 attempts are not reached. A transaction is one step,
and the unique indices decide in it. In `Catalog`, fields no check reads are left
out, so that the empty body is one that changes only those. A line of an event
stream is one symbol, its line end one or two. A host name keeps the address it
was checked with. A provider's body is any finite sequence of such lines that keeps to
the provider's protocol (`Protocol`: a call is announced once and before its arguments,
the arguments of a call come after it, nothing follows the sentinel).

In `Agents` a tool or a base starts out live: for all that happens there, one that is
not created yet is like one that was deleted; and what a deleted thread's runs are,
and whether the request of a run may retry, is left to `AgentRuns`. In
`Conversations` a message is its role and its calls, the poll finds the flag or
not, and any await may throw.

History variables, which no action of the code reads: `ended`, `cut`, `raced`
(`Sessions`), `overlapped` (`Workspaces`), `overtaken`, `doubt` (`Catalog`),
`since` (`Agents`), `upset` (`Conversations`), `sent` (`ToolFetch`).

## 3. What is checked

| Run | Instance | Shows |
|---|---|---|
| `RunsAccounting` | 1 run, 2 workers, 2 threads, 3 steps, 2 calls an answer; all faults but a lost job lock | `OneExecutor`, `InputSavedOnce`, `TotalsMatchMessages`, `CancelledOnlyWhenAsked` |
| `RunsProgress` | 1 run, 2 workers; errors anywhere in the loop; fair | `RunsEnd`, `JobsEnd`, `CompletedJobEndedRun`, `CallsAnswered`; `AgentRuns` implements `RunLifecycle`; an ended run's row is never written again |
| `CancelBeforePickup` | 1 run, no faults | a violation, see section 5 |
| `DocumentsIndexed` | 1 document, 2 bases, 2 workers; all faults but a lost lock and a refused write; fair | `NoDuplicateChunks`, `IndexedHasChunks`, `CompletedJobIndexed`, `DocumentsSettle`; implements `DocumentIndex` |
| `Chunks` | texts of 1 to 9 characters, sizes 1 to 4, overlaps 0 to 5, batches of 3 | `WholeTextIsStored`, `ChunksAdvance`, `NeighboursOverlap`, `OwnVectors`, `ChunkCount` |
| `SessionsRotate` | 3 tokens; one device with 2 requests at once, one with 1; requests cut off anywhere | `OneLiveToken`, `LogoutEnds`, `HeldTokenWorks` |
| `StreamedAnswers` | both providers' bodies with up to 3 pieces, whole, given up or cut off after any line, every cut of the reads | `NothingEarly`, `NothingLate`, `MessageAssembled` |
| `RowsValid` | 1 row of either kind, 2 updaters, 3 sizes and overlaps around the defaults | `RowValid` |
| `PartialUpdate` | the same | a violation, see section 5 |
| `Workspaces` | 3 users, 3 workspaces of which one is managed, 2 requests | `OwnerStays`, `SignupWhole`, `Authorised` |
| `AgentsAtWork` | 2 workspaces; 1 agent, a tool and a base of its own, a foreign tool, 1 thread, 1 request of a member, 1 run; `MAX_REDIRECTS` as in the code; fair | `TenantsApart`, `UsedWasAttached`, `OnlyThreadsTakeRuns`, `RedirectsCounted`, `NoTimerLeft`, `NothingAfterTimeout`, `CallsReturn` |
| `Conversations` | 2 runs of a thread, 1 of them streamed; 2 steps, 2 calls an answer; 1 pair of neighbouring rows may change places in a history | `PromptsPaired`, `OwnTurnKept`, `StreamTellsRun` |

The type invariants and the inductive invariants (`Accounted`, `Indexed`, `Rotation`,
`Sound`, `Edited`, `ParserSound`, `Assembling`) were checked with TLC before they were proved. Where a theorem establishes
them, no run repeats them.

### Bounds, and why they are enough

Two workers and one job are what a retry, a redelivery and two deliveries at once
need; runs influence each other only through a worker slot, a queue and a thread,
and the thread's rows, where they really meet, are in `Conversations` with two runs.
The refinement is checked with the errors of the loop and proved for every fault
(`ImplementsLifecycle`). `MaxSteps` 3 has a first, a
middle and a last step; two calls an answer tell "the last" from "any". The queue's
own limits (3 attempts, one stall) are those of the code and of BullMQ. For
documents two bases tell whether a deletion hits the right one. Chunk sizes and
overlaps include zero, one, equal, and overlaps above the size; the batch of three
is filled, half filled and missed. Three tokens are a login, its successor and one
that must not be there. Three users are an actor, a target and a second actor; one
user may join a workspace twice (`MaxJoins`), which is what makes the row id in
`WriteTarget` matter. Redirects are checked with the real limit. A foreign tool is what `TenantsApart`
needs to fail; one request and one run interleave at every await, and more of them
are covered by the theorems. Two runs and two steps give a prompt that holds a
whole turn of another run, with answered calls, before its own; one pair of swapped
rows is enough to separate a call from its result. What does not fit
into small numbers is proved (section 4).

Symmetry is used where the sets are interchangeable and no liveness is checked.
`CHECK_DEADLOCK FALSE` stands where the system may really be done: runs that have
ended, a text that is stored, tokens used up, a deleted row, a finished call or
stream. `Workspaces` checks deadlock.

### Fairness

- Node runs every continuation of an `await` that is answered: weak fairness for
  the steps of a request, of a worker and of the loop.
- BullMQ delivers a waiting job whenever a worker is free, ends backoffs and looks
  for stalled jobs on timers: weak fairness for `TakeJob` and `Timers`.
- In `AgentsAtWork` a name server answers, a Node timer fires, and the loop goes on
  with a result: weak fairness for `Execute`, `Expire` and `Return`.

Never fair are clients (requests, cancellations, closed sockets), deletions, the
expiry of a flag, faults, and the server of a tool, which may answer never.

## 4. What is proved

`tlapm` checks these for every number of runs, workers, threads, documents, tokens,
devices, agents, attachments, users, workspaces, members, updates and requests, every
`MaxSteps`, text length, chunk size and batch, and every body of a stream, of whatever
length and read in whatever pieces. The only assumptions on constants are the named ones in the modules (disjoint sets, naturals,
a `None` outside, bodies that are finite and keep to the protocol), which TLC evaluates on the instances.

| Theorem | Condition | Invariant behind it |
|---|---|---|
| `TypesCorrect`: types, and no job or loop exceeds its bounds | none | `Sound` |
| `CancellationSafe`: CANCELLED only after a request that found the run unfinished | none | `CancelJustified` |
| `Exclusion`: no two processes execute one run | no lost lock | `Exclusive` |
| `InputOnce`, `TotalsRight` | no lost lock | `Accounted` |
| `CompletedJobsAreDone`: a completed job has a run that ended | no lost lock, no crash, no status write that fails or loses its reply | `Tended` |
| `NoDanglingCalls`: every call is answered | no lost lock; no answer that has calls but another finish reason | `Accounted` |
| `ImplementsLifecycle`, `EndedRunsAreFinal` | no lost lock, no lost reply | `Exclusive`, `CancelJustified` |
| `ChunksOnce`, `IndexedMeansSearchable`, `CompletedMeansIndexed`, `ImplementsIndex` | no lost lock | `Indexed` |
| `NothingIsLost`, `ChunksAlwaysAdvance`, `OverlapIsExact`, `VectorsMatchChunks` | none | `Cutting` and its companions of `KnowledgeProofs` |
| `RowsAreCounted`: how many rows a text takes | none | `Counted` of `KnowledgeProofs` |
| `RotationIsExclusive`: one live token per login | none | `Rotation` |
| `LogoutIsFinal`, `DevicesStaySignedIn` | none | `Rotation` and `Custody` |
| `TenantsStayApart`, `RunsUseWhatWasAttached`, `RunsOutliveEdits` | none | `Sound` of `AgentsProofs` |
| `AtWorkImplementsAgents`: the composition with tool calls implements `Agents` | none | |
| `RedirectsBounded`, `TimersCleared`, `TimeoutsAreFinal` | none | `CallSound` |
| `OwnersStay`, `SignupsWhole` | none | `Membership` (`MembershipHolds`) |
| `WritesAuthorised`: what a request nobody overlapped may write | none | `Membership` |
| `RowsStayValid`: a base or a tool is valid unless its last write was overtaken | none | `Edited` |
| `StreamsTellTheirRuns`, `TurnsStayWhole`, `PromptsStayPaired` | none | `Dialogue` |
| `EventsNotEarly`: no event is handed on before its end was read | none | `ParserSound` |
| `EventsNotLate`: what has been read to its end is handed on | line ends of one character | `ParserSound` |
| `DoneChunk`: a stream assembles the message a call without a stream returns | line ends of one character | `ParserSound`, `Assembling` |

The arguments in short.

*Runs.* `OneExecutor` alone is not inductive: it says nothing of a worker that is
about to start. `Exclusive` adds that a worker at work owns the job of its run
(`LocksHeld`) and which statuses a run can have at each await (`StatusKnown`). Two
workers cannot both own a job, and a worker and the run's own request cannot meet,
because a job exists only when its request is done (`JobsSound`). `Accounted` then
relates the executor's counters to the messages (`Recorded`), which holds since
nobody else writes them. The refinement maps every step to a step of
`RunLifecycle` or a stutter; `CancelJustified` supplies what `Settle` needs.

*Completed jobs.* `Tended` says that a run that is IN_PROGRESS has a process at work on it
and that a worker about to report a job completed has seen its run end. With it,
`runQueued` skips only a run that has ended: one at work has its worker, which owns the
job (`LocksHeld`). After a crash nobody may be at work on such a run, which is why the
theorem excludes crashes.

*Documents.* `Indexed` says the same of a worker and its document, with the number
of chunk sets at each await: zero between the wipe and the insert, one after it.

*Chunks.* The chunks so far are a prefix of the cut: the first starts at zero,
neighbours are a stride apart, and only the last may reach the end. `Counted`
adds where the loop stands after so many chunks, which gives their number when it ends.

*Sessions.* A login that did not race has one token that is not revoked or one
request that is about to issue its successor, never both and never two (`OneOpen`).
Revoking turns the first into the second, issuing back. `Custody` adds where the
tokens are: those of a login are all with one device and its requests (`OneDevice`),
a token on its way to or from the device is nowhere else (`InTransit`), a login that
was logged out has nothing open (`LoggedOut`), and a device whose token is revoked
has a request that brings it the successor (`Kept`).

*Agents.* That an attachment is at home with its agent depends on what a request
found before it writes (`EditSound`: past its lookups, its agent and its item are of
its workspace), and is kept by the cascade, which takes attachments with their item
(`AttachedSound`). A run's snapshot is what was attached when it loaded its agent
(`RunSound`), so its members are of its workspace even when their rows are gone; a
row's workspace never changes. `AtWork` implements `Agents` step by step: a step of
`ToolFetch` is a stutter, `Call` and `Return` are `CallTool` and `FinishCall`.

*Workspaces.* `OwnerStays` needs what a request knows when it writes. `Sensible` has what
stays so whatever others do: nobody is to be made OWNER, and the member to be written
is not the owner, whose role no request can change. `Fresh` has what is so until
another request overlaps: the role it acts with is still that of its user, and not
both are ADMIN. `Standing` is about the rows alone: slugs differ, and each user who
signed up owns a workspace. `WritesAuthorised` reads off `Fresh` at the moment of the
write.

*Catalog.* Of an update that has passed its check, and was not overtaken, the row that
was checked is still the row (`Checked`), and its body is of the row's kind (`Suited`).
That an accepted tool is valid is not obvious (`AcceptedIsValid`): the check reads the
spread row, in which missing fields are undefined, and the write the merged one. It
holds because the check is the stricter of the two, which is the finding of section 5.

*Conversations.* `Dialogue` has three layers. `Counted` and `Told` relate a stream to
its run: one answer a step but the awaited one, and what the last event may be at each
await. `RowsSound`, `Alone`, `Opened` and `Served` are about the thread: a result is
behind its call, runs that are not upset work one after the other, a run that is about
to read has in front of it only what is over, and a call in a stretch of rows no run
upset is answered by the row as far behind it as its place, or still to be made.
`Taken` is about a prompt: behind some place `b` it is the run's own turn, in the order
of the rows (`Turn`), each answer followed by its results as far as they are made
(`Replied`), and before `b` is the whole thread up to the input, or an upset run
(`Recalled`). `OwnTurnKept` follows from the first two, `PromptsPaired` from `Served`
for the history and `Replied` for the turn. Both forms of a prompt keep the calls and
the results at their places, shifted by one where the system prompt is taken out
(`OpenAIList`, `AnthropicList`, `Shifted`). That a history is ascending rests on lemmas
about ranks in finite sets (`Ranks`, `AscendingLists`, `AscendingOnly` of
`SubsequencesProofs`), which is why `Ascending` is defined by rank and not as a fold.

The proof found a mistake of the model, not of the code: two guards of the CASE in
`Verdict` overlapped, so that the verdict of a run whose final answer came in its last
step was not determined. TLC takes the first; the guards now exclude each other.

*Tool calls.* `CallSound` counts requests against redirects at each await (equal in
the lookup, one more at the request), and says where a timer may have fired without
ending the call: in the lookup only, the one await the abort does not reach.

*Streams.* What a parser makes of a body asks for induction over the body, which the
provers cannot do over data. So `EventStream` and `Completion` say it by positions: the
normalised text is the body at the positions the parser keeps (`Kept`), the events end at
the blank lines among them, and the calls and their arguments are those of the events at
certain positions. The induction left is the one over the behaviour. `ParserSound` says
which positions of what was read the parser has kept, that it has handed on the data up to
a blank line among them, and that the buffer is what lies behind it. What is handed on is then the beginning of the payloads of any longer
part of the body (`Begins`), which is `NothingEarly`; and with line ends of one character
no blank line can hide in the buffer (`NothingHeldBack`), which is `NothingLate`.
`Assembling` says that the adapter's message is at any time `MessageOf` the events it has
seen, and that these are the first ones of the whole body. Its step is `MessageGrows`: how
a message changes with one more event, from lemmas on how each part of it does
(`ValuesAppend`, `IndicesAppend`, `ArgsAppend`, `LatestAppend`). It needs the protocol:
a call that came up twice would be in the list twice, with the second id in both places.

### Only model-checked

Liveness (`RunsEnd`, `JobsEnd`, `DocumentsSettle`, `CallsReturn`) is out of the
prover's reach with its `ENABLED`. Every other property of a passing run is a theorem.

## 5. Findings

- `CancelBeforePickup`: a run that is cancelled while it waits in the queue is
  started all the same. `requestCancel` only sets the flag, and `runQueued`
  (runs.service.ts:158) looks only at the status; its comment (149) says that a run
  "cancelled before being picked up" is skipped. The user's message is saved before
  the loop polls the flag and ends the run.
- `PartialUpdate`: `PATCH /tools/:id` refuses bodies that leave out `parameters`,
  or for an HTTP tool its method or URL. tools.service.ts:71 spreads the body over
  the row; compiled for ES2022, the body's class declares all of its fields, so the
  missing ones are there as `undefined` and hide the row's.

### What holds only under a condition

The properties above name their exceptions. These are the behaviours behind
them; TLC shows most of them when the condition is dropped from the property or
the fault is added to the instance:

- A live worker that loses its job lock: two executors of one run, an ended run set
  IN_PROGRESS again (runs.service.ts:170), chunks stored twice
  (document.processor.ts:54 wipes outside the transaction of line 59).
- A crash, or a refused `queue.add` after the row was committed: the run stays
  PENDING or IN_PROGRESS for ever (async-runs.service.ts:37, runs.service.ts:158);
  a document stays PENDING or PROCESSING (documents.service.ts:60,
  document.processor.ts:82), which `DocumentsSettle` accepts only where the client
  or the queue knows of it.
- A reply lost after the final update: COMPLETED is overwritten with FAILED
  (runs.service.ts:274).
- A run that throws keeps its answers and is charged nothing (runs.service.ts:296).
- A run that throws between two tool calls, or an answer that asks for tools with
  another finish reason, leaves calls without results in the thread, which every
  later prompt repeats (runs.service.ts:252 and 257). So do two runs of a thread at
  once, or rows of one millisecond that come back in another order
  (runs.service.ts:194 and 530): `PromptsPaired` excepts prompts with such runs.
- A queued run of an agent that was switched off or soft-deleted meanwhile runs all
  the same, with what is attached when a worker takes it up (runs.service.ts:163); a
  tool that is detached or deleted during a run is still called (550).
- The Anthropic adapter joins several text blocks with a line break without a stream
  (anthropic.provider.ts:126) and with nothing in one (199), so `MessageAssembled` is
  stated with what the OpenAI adapter returns.
- A client that hangs up before `run.created` cancels nothing (runs.controller.ts:83).
- Two refreshes at once with one token leave two that work (auth.service.ts:152); a
  refresh that is cut off signs the device out.
- Two partial updates of one base can leave an overlap that is not smaller than the
  size, and so can a creation with one of the fields (knowledge-bases.service.ts:31
  and 58).
- An ADMIN's request can change a member who was made ADMIN after the check
  (workspaces.service.ts:178). A signup that loses a race for a slug is told that
  its email exists (auth.service.ts:94).
- A read that ends between CR and LF hides the end of an event (sse-stream.util.ts:24).
- A provider that gives up with an error report in the stream yields a `done` chunk
  with finish reason `stop` (openai.provider.ts:203).

## 6. Plan

Done in this order: runs and their queue; documents and chunking; sessions; streams;
the catalog's rows; workspaces; tool calls; agents and attachments, composed with
tool calls; threads, histories and prompts.

Proved, in this order: runs, their totals and their lifecycle; documents and chunks;
sessions; agents with tool calls; completed jobs; workspaces; conversations; the
catalog; streams.

Next, prove: `TypeOK` of the modules where it is part of an invariant but not a theorem
of its own.

Not composed yet: the cascade of a base over documents while their jobs run, composed with
`Agents` (today `DocumentIndexing` and `Agents` each have their half of it), and
`Conversations` composed with `AgentRuns`' faults.

Not modelled, and why: ranking and the similarity filter (one read-only query),
password hashing and JWT signatures (no state), configuration and health checks (I/O),
the mock providers (stubs for development), templates and headers of tool calls
(pure conversions), wording, logging and layout of answers.
