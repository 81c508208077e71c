-------------------------------- MODULE Agents --------------------------------
(***************************************************************************)
(* Agents, what is attached to them, their threads, and the runs that use  *)
(* all three while members go on editing.  A run reads its agent with the  *)
(* attachments once and works with that snapshot; a queued run reads them  *)
(* again when a worker picks it up.                                        *)
(*                                                                         *)
(* The two lookups and the insert of an attachment, and those of a run,    *)
(* are steps of their own.  An edit whose outcome depends on its last      *)
(* statement alone is one step.  AgentRuns has the faults, the queue and   *)
(* the status of a run; here its faults are edits only.                    *)
(***************************************************************************)
EXTENDS Naturals

CONSTANTS
    Workspaces, Agents, Tools, Bases, Threads,
    Home,       \* the workspace in which an agent, a tool or a base is created
    Editors,    \* bound: the workspaces whose members send requests
    Edits,      \* the requests that may be under way at once
    Runs, None

Items == Tools \cup Bases

ASSUME AgentsAssumption ==
    /\ Home \in [Agents \cup Items -> Workspaces]
    /\ Editors \subseteq Workspaces
    /\ Tools \cap Bases = {} /\ None \notin Threads \cup Agents \cup Workspaces

VARIABLES
    agent,      \* isActive and deletedAt of the Agent row
    live,       \* the Tool and KnowledgeBase rows
    attached,   \* the AgentTool and AgentKnowledgeBase rows
    thread,     \* the Thread row, with its agent and its workspace
    edit,       \* the requests to attach, detach or create a thread
    pc, run,    \* a run: where it stands and what it was asked for
    loaded,     \* its snapshot of the attachments
    todo, used, \* bases to search yet; what it has searched and called
    since       \* history: what was attached at some time since it loaded its agent

catalog == <<agent, live, attached>>
running == <<pc, run, loaded, todo, used>>
vars    == <<catalog, thread, edit, running, since>>

Usable == {"on", "off"}     \* not deleted

NoThread == [state |-> "absent", agent |-> None, ws |-> None]
NoEdit   == [pc |-> "idle", op |-> "attach", ws |-> None, agent |-> None, on |-> None]
NoRun    == [ws |-> None, agent |-> None, thread |-> None, queued |-> FALSE]

TypeOK ==
    /\ agent \in [Agents -> {"absent", "on", "off", "deleted"}]
    /\ live \subseteq Items /\ attached \subseteq Agents \X Items
    /\ thread \in [Threads -> {NoThread}
            \cup [state : {"live", "deleted"}, agent : Agents, ws : Workspaces]]
    /\ edit \in [Edits -> {NoEdit}
            \cup [pc : {"item", "write"}, op : {"attach", "detach", "thread"},
                  ws : Workspaces, agent : Agents, on : Items \cup {None}]]
    /\ pc \in [Runs -> {"idle", "thread", "open", "queued", "loop", "call",
                        "done", "refused", "failed"}]
    /\ run \in [Runs -> {NoRun} \cup [ws : Workspaces, agent : Agents,
                                      thread : Threads \cup {None}, queued : BOOLEAN]]
    /\ loaded \in [Runs -> SUBSET Items] /\ since \in [Runs -> SUBSET Items]
    /\ used \in [Runs -> SUBSET Items] /\ todo \in [Runs -> SUBSET Bases]

Init ==
    /\ agent = [a \in Agents |-> "absent"] /\ live = Items /\ attached = {}
    /\ thread = [t \in Threads |-> NoThread]
    /\ edit = [e \in Edits |-> NoEdit]
    /\ pc = [r \in Runs |-> "idle"] /\ run = [r \in Runs |-> NoRun]
    /\ loaded = [r \in Runs |-> {}] /\ since = [r \in Runs |-> {}]
    /\ used = [r \in Runs |-> {}] /\ todo = [r \in Runs |-> {}]

-----------------------------------------------------------------------------
\* An agent is created, switched on or off, or soft-deleted: its row and what is
\* attached to it stay.
CreateAgent(a) ==
    /\ agent[a] = "absent"
    /\ \E s \in Usable : agent' = [agent EXCEPT ![a] = s]
    /\ UNCHANGED <<live, attached, thread, edit, running, since>>

UpdateAgent(a) ==
    /\ agent[a] \in Usable
    /\ \E s \in Usable \ {agent[a]} : agent' = [agent EXCEPT ![a] = s]
    /\ UNCHANGED <<live, attached, thread, edit, running, since>>

SoftDelete(a) ==
    /\ agent[a] \in Usable
    /\ agent' = [agent EXCEPT ![a] = "deleted"]
    /\ UNCHANGED <<live, attached, thread, edit, running, since>>

\* A tool or a base is deleted, and by cascade detached from every agent.  (For all that
\* happens here one that is not created yet is like one that was deleted.)
DeleteItem(i) ==
    /\ i \in live
    /\ live' = live \ {i}
    /\ attached' = {p \in attached : p[2] # i}
    /\ UNCHANGED <<agent, thread, edit, running, since>>

\* A thread is deleted, with its runs and messages.
DeleteThread(t) ==
    /\ thread[t].state = "live"
    /\ thread' = [thread EXCEPT ![t].state = "deleted"]
    /\ UNCHANGED <<catalog, edit, running, since>>

-----------------------------------------------------------------------------
\* A request of workspace w has found its agent there.  (One that has not is refused,
\* and has read only.)
FindAgent(e, op, w, a, x) ==
    /\ edit[e] = NoEdit
    /\ agent[a] \in Usable /\ Home[a] = w
    /\ edit' = [edit EXCEPT ![e] =
          [pc |-> IF op = "attach" THEN "item" ELSE "write",
           op |-> op, ws |-> w, agent |-> a, on |-> x]]
    /\ UNCHANGED <<catalog, thread, running, since>>

\* It looks for the item in the same workspace.  Mutant: anywhere.
FindAnyItem(e) ==
    /\ edit[e].pc = "item"
    /\ edit' = [edit EXCEPT ![e] =
          IF edit[e].on \in live THEN [@ EXCEPT !.pc = "write"] ELSE NoEdit]
    /\ UNCHANGED <<catalog, thread, running, since>>

FindItem(e) ==
    /\ edit[e].pc = "item"
    /\ edit' = [edit EXCEPT ![e] =
          IF edit[e].on \in live /\ Home[edit[e].on] = edit[e].ws
          THEN [@ EXCEPT !.pc = "write"] ELSE NoEdit]
    /\ UNCHANGED <<catalog, thread, running, since>>

\* The last statement of request e, with which it ends.
Write(e, op) ==
    /\ edit[e].pc = "write" /\ edit[e].op = op
    /\ edit' = [edit EXCEPT ![e] = NoEdit]

\* The insert fails when the row is there already, and when the item is gone.
Attach(e) ==
    LET a == edit[e].agent
        i == edit[e].on
    IN  /\ Write(e, "attach")
        /\ IF i \in live
           THEN /\ attached' = attached \cup {<<a, i>>}
                /\ since' = [r \in Runs |->
                      IF run[r].agent = a THEN since[r] \cup {i} ELSE since[r]]
           ELSE UNCHANGED <<attached, since>>
        /\ UNCHANGED <<agent, live, thread, running>>

Detach(e) ==
    /\ Write(e, "detach")
    /\ attached' = attached \ {<<edit[e].agent, edit[e].on>>}
    /\ UNCHANGED <<agent, live, thread, running, since>>

Opened(a, w) == [state |-> "live", agent |-> a, ws |-> w]

CreateThread(e, t) ==
    /\ Write(e, "thread")
    /\ thread[t] = NoThread
    /\ thread' = [thread EXCEPT ![t] = Opened(edit[e].agent, edit[e].ws)]
    /\ UNCHANGED <<catalog, running, since>>

-----------------------------------------------------------------------------
Attached(a) == {i \in Items : <<a, i>> \in attached}

Goto(r, l) == pc' = [pc EXCEPT ![r] = l]

\* The snapshot of the agent that run r is about.
Load(r, a) ==
    /\ loaded' = [loaded EXCEPT ![r] = Attached(a)]
    /\ since' = [since EXCEPT ![r] = Attached(a)]

\* Run r of agent a is asked for, in thread t or (None) in a new one.
ResolveAgent(r, w, a, t, q) ==
    /\ pc[r] = "idle"
    /\ agent[a] = "on" /\ Home[a] = w
    /\ run' = [run EXCEPT ![r] = [ws |-> w, agent |-> a, thread |-> t, queued |-> q]]
    /\ Load(r, a) /\ Goto(r, "thread")
    /\ UNCHANGED <<catalog, thread, edit, todo, used>>

\* The thread is there, in the workspace, and the agent's.
Fits(r, t) == thread[t] = Opened(run[r].agent, run[r].ws)

FindThread(r) ==
    /\ pc[r] = "thread" /\ run[r].thread \in Threads
    /\ Goto(r, IF Fits(r, run[r].thread) THEN "open" ELSE "refused")
    /\ UNCHANGED <<catalog, thread, edit, run, loaded, todo, used, since>>

NewThread(r, t) ==
    /\ pc[r] = "thread" /\ run[r].thread = None
    /\ thread[t] = NoThread
    /\ thread' = [thread EXCEPT ![t] = Opened(run[r].agent, run[r].ws)]
    /\ run' = [run EXCEPT ![r].thread = t]
    /\ Goto(r, "open")
    /\ UNCHANGED <<catalog, edit, loaded, todo, used, since>>

Alive(r) == run[r].thread \in Threads /\ thread[run[r].thread].state = "live"

\* The loop begins with a search of every base of the snapshot.
Begin(r, snapshot) == Goto(r, "loop") /\ todo' = [todo EXCEPT ![r] = snapshot \cap Bases]

\* The Run row is inserted, which fails when the thread has gone meanwhile.
Open(r) ==
    /\ pc[r] = "open"
    /\ IF Alive(r) /\ ~run[r].queued THEN Begin(r, loaded[r])
       ELSE Goto(r, IF Alive(r) THEN "queued" ELSE "refused") /\ UNCHANGED todo
    /\ UNCHANGED <<catalog, thread, edit, run, loaded, used, since>>

\* A worker reads the run, its agent by the id alone, and its thread.  Mutant: what was
\* attached when the run was asked for is good enough.
Found(r) == agent[run[r].agent] # "absent" /\ Alive(r)

PickUpStale(r) ==
    /\ pc[r] = "queued" /\ Found(r)
    /\ loaded' = loaded /\ since' = [since EXCEPT ![r] = Attached(run[r].agent)]
    /\ Begin(r, loaded[r])
    /\ UNCHANGED <<catalog, thread, edit, run, used>>

PickUp(r) ==
    /\ pc[r] = "queued" /\ Found(r)
    /\ Load(r, run[r].agent) /\ Begin(r, Attached(run[r].agent))
    /\ UNCHANGED <<catalog, thread, edit, run, used>>

\* A search that finds no base in the agent's workspace throws, and is passed over.
\* Mutant: the run fails with it.
SearchOrFail(r, k) ==
    /\ pc[r] = "loop" /\ k \in todo[r]
    /\ todo' = [todo EXCEPT ![r] = @ \ {k}]
    /\ IF k \in live /\ Home[k] = Home[run[r].agent]
       THEN used' = [used EXCEPT ![r] = @ \cup {k}] /\ UNCHANGED pc
       ELSE Goto(r, "failed") /\ UNCHANGED used
    /\ UNCHANGED <<catalog, thread, edit, run, loaded, since>>

Search(r, k) ==
    /\ pc[r] = "loop" /\ k \in todo[r]
    /\ todo' = [todo EXCEPT ![r] = @ \ {k}]
    /\ IF k \in live /\ Home[k] = Home[run[r].agent]
       THEN used' = [used EXCEPT ![r] = @ \cup {k}] ELSE UNCHANGED used
    /\ UNCHANGED <<catalog, thread, edit, pc, run, loaded, since>>

\* The model asks for tool t.  One that is not in the snapshot is answered with an
\* error text; one that is gets called, whatever has become of its row.
CallTool(r, t) ==
    /\ pc[r] = "loop" /\ todo[r] = {} /\ t \in loaded[r] \cap Tools
    /\ used' = [used EXCEPT ![r] = @ \cup {t}]
    /\ Goto(r, "call")
    /\ UNCHANGED <<catalog, thread, edit, run, loaded, todo, since>>

FinishCall(r) ==
    /\ pc[r] = "call"
    /\ Goto(r, "loop")
    /\ UNCHANGED <<catalog, thread, edit, run, loaded, todo, used, since>>

Finish(r) ==
    /\ pc[r] = "loop" /\ todo[r] = {} /\ Alive(r)
    /\ Goto(r, "done")
    /\ UNCHANGED <<catalog, thread, edit, run, loaded, todo, used, since>>

\* A worker misses a row, or the messages and the status cannot be written any more.
Fail(r) ==
    /\ pc[r] \in {"queued", "loop"} /\ ~Found(r)
    /\ Goto(r, "failed")
    /\ UNCHANGED <<catalog, thread, edit, run, loaded, todo, used, since>>

-----------------------------------------------------------------------------
EditAgents == \E a \in Agents : CreateAgent(a) \/ UpdateAgent(a) \/ SoftDelete(a)

Request ==
    \E e \in Edits, w \in Editors, a \in Agents :
        \/ \E op \in {"attach", "detach"}, i \in Items : FindAgent(e, op, w, a, i)
        \/ FindAgent(e, "thread", w, a, None)

FinishRequest ==
    \E e \in Edits :
        \/ FindItem(e) \/ Attach(e) \/ Detach(e)
        \/ \E t \in Threads : CreateThread(e, t)

StartRun ==
    \E r \in Runs :
        \/ \E w \in Editors, a \in Agents, t \in Threads \cup {None}, q \in BOOLEAN :
              ResolveAgent(r, w, a, t, q)
        \/ FindThread(r) \/ \E t \in Threads : NewThread(r, t)
        \/ Open(r) \/ PickUp(r)

\* What a run does beside calling tools.
GoOn == \E r \in Runs : (\E k \in Bases : Search(r, k)) \/ Finish(r) \/ Fail(r)

Edit ==
    \/ EditAgents \/ (\E i \in Items : DeleteItem(i)) \/ (\E t \in Threads : DeleteThread(t))
    \/ Request \/ FinishRequest

Next ==
    \/ Edit \/ StartRun \/ GoOn
    \/ \E r \in Runs : (\E t \in Tools : CallTool(r, t)) \/ FinishCall(r)

Spec == Init /\ [][Next]_vars

-----------------------------------------------------------------------------
Ready(r) == pc[r] \in {"open", "queued", "loop", "call", "done", "failed"}

\* Nothing crosses the border of a workspace, whatever is edited, moved or deleted
\* between the lookups and the insert of a request: what is attached is there and at
\* home with its agent; a run, its agent, its thread and all that it uses are of the
\* workspace that asked for it, and the thread is its agent's.
TenantsApart ==
    /\ \A a \in Agents : \A i \in Attached(a) : i \in live /\ Home[i] = Home[a]
    /\ \A r \in Runs : Ready(r) =>
          /\ Home[run[r].agent] = run[r].ws
          /\ thread[run[r].thread].agent = run[r].agent
          /\ thread[run[r].thread].ws = run[r].ws
          /\ \A i \in used[r] : Home[i] = run[r].ws

\* A run uses what was attached to its agent at some time since it loaded the agent
\* for the loop, also when it waited in the queue for long.  (It may go on using what
\* is detached or deleted later.)
UsedWasAttached == \A r \in Runs : used[r] \subseteq since[r]

\* A run that was accepted does not fail because an agent is switched off or deleted,
\* or a tool or a base goes: only with its thread.
OnlyThreadsTakeRuns ==
    \A r \in Runs : pc[r] = "failed" => thread[run[r].thread].state = "deleted"
===============================================================================
