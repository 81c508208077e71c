----------------------------- MODULE AgentsProofs -----------------------------
(***************************************************************************)
(* No workspace reaches into another one, a run uses what was attached     *)
(* since it loaded its agent, and only the deletion of its thread takes an *)
(* accepted run away: for any workspaces, agents, attachments, requests    *)
(* and runs.                                                               *)
(*                                                                         *)
(* What a request or a run has found is kept by what it holds: agents and  *)
(* items never move, and a row of a thread never changes hands.            *)
(***************************************************************************)
EXTENDS AgentsAtWork, TLAPS

AttachedSound ==
    \A a \in Agents, i \in Items : <<a, i>> \in attached => i \in live /\ Home[i] = Home[a]

\* A request past its first lookup is about an agent of its workspace; before its
\* insert, about an item of it, too.
EditSound(e) ==
    edit[e] # NoEdit =>
        /\ Home[edit[e].agent] = edit[e].ws
        /\ edit[e].op # "thread" => edit[e].on \in Items
        /\ edit[e].pc = "write" /\ edit[e].op = "attach" => Home[edit[e].on] = edit[e].ws

\* A run past its first lookup, and one that has its thread.
RunSound(r) ==
    /\ pc[r] # "idle" =>
          /\ run[r] # NoRun /\ agent[run[r].agent] # "absent"
          /\ Home[run[r].agent] = run[r].ws
          /\ \A i \in loaded[r] : Home[i] = run[r].ws
    /\ pc[r] \in {"idle", "thread", "open", "queued"} => used[r] = {} /\ todo[r] = {}
    /\ used[r] \subseteq loaded[r] /\ todo[r] \subseteq loaded[r] /\ loaded[r] \subseteq since[r]
    /\ Ready(r) =>
          /\ run[r].thread \in Threads /\ thread[run[r].thread] # NoThread
          /\ thread[run[r].thread].agent = run[r].agent
          /\ thread[run[r].thread].ws = run[r].ws
    /\ pc[r] = "failed" => thread[run[r].thread].state = "deleted"

Sound ==
    TypeOK /\ AttachedSound /\ (\A e \in Edits : EditSound(e)) /\ (\A r \in Runs : RunSound(r))

\* No row of an agent or a thread is taken back: agents are never deleted in earnest,
\* threads keep their owner and stay deleted.
RowsStay ==
    /\ \A a \in Agents : agent[a] # "absent" => agent'[a] # "absent"
    /\ \A t \in Threads : thread[t] # NoThread =>
          /\ thread'[t] # NoThread
          /\ thread'[t].agent = thread[t].agent /\ thread'[t].ws = thread[t].ws
          /\ thread[t].state = "deleted" => thread'[t].state = "deleted"

\* What others do leaves a run sound.
LEMMA RunKept ==
    ASSUME TypeOK, RowsStay, NEW r \in Runs, RunSound(r),
           pc'[r] = pc[r], run'[r] = run[r], loaded'[r] = loaded[r],
           todo'[r] = todo[r], used'[r] = used[r], since[r] \subseteq since'[r]
    PROVE  RunSound(r)'
<1>1. run[r] # NoRun => run[r].agent \in Agents
  BY DEF TypeOK
<1> QED
  BY <1>1 DEF RunSound, RowsStay, Ready, TypeOK

\* Edits of agents, items and threads.
LEMMA EditSteps ==
    ASSUME Sound,
           \/ \E a \in Agents : CreateAgent(a) \/ UpdateAgent(a) \/ SoftDelete(a)
           \/ \E i \in Items : DeleteItem(i)
           \/ \E t \in Threads : DeleteThread(t)
    PROVE  Sound'
<1> USE DEF Sound
<1>1. TypeOK'
  <2>1. ASSUME NEW a \in Agents, CreateAgent(a) \/ UpdateAgent(a) \/ SoftDelete(a) PROVE TypeOK'
    BY <2>1 DEF CreateAgent, UpdateAgent, SoftDelete, Usable, running, TypeOK
  <2>2. ASSUME NEW i \in Items, DeleteItem(i) PROVE TypeOK'
    BY <2>2 DEF DeleteItem, running, TypeOK
  <2>3. ASSUME NEW t \in Threads, DeleteThread(t) PROVE TypeOK'
    <3>1. thread[t] \in [state : {"live", "deleted"}, agent : Agents, ws : Workspaces]
      BY <2>3 DEF DeleteThread, NoThread, TypeOK
    <3>2. [thread[t] EXCEPT !.state = "deleted"]
            \in [state : {"live", "deleted"}, agent : Agents, ws : Workspaces]
      BY <3>1
    <3> QED
      BY <2>3, <3>2 DEF DeleteThread, catalog, running, TypeOK
  <2> QED
    BY <2>1, <2>2, <2>3
<1>2. AttachedSound'
  BY DEF AttachedSound, CreateAgent, UpdateAgent, SoftDelete, DeleteItem, DeleteThread, catalog
<1>3. edit' = edit /\ UNCHANGED <<running, since>>
  BY DEF CreateAgent, UpdateAgent, SoftDelete, DeleteItem, DeleteThread
<1>4. \A e \in Edits : EditSound(e)'
  BY <1>3 DEF EditSound
<1>5. RowsStay
  BY DEF RowsStay, CreateAgent, UpdateAgent, SoftDelete, DeleteItem, DeleteThread, catalog,
         Usable, NoThread, TypeOK
<1>6. \A r \in Runs : RunSound(r)'
  BY <1>3, <1>5, RunKept DEF running
<1> QED
  BY <1>1, <1>2, <1>4, <1>6

\* The steps of a request.
LEMMA RequestSteps ==
    ASSUME Sound, Request \/ FinishRequest
    PROVE  Sound'
<1> USE DEF Sound
<1>1. ASSUME NEW e \in Edits, NEW op \in {"attach", "detach", "thread"}, NEW w \in Editors,
             NEW a \in Agents, NEW x \in Items \cup {None}, FindAgent(e, op, w, a, x),
             op # "thread" => x \in Items
      PROVE  Sound'
  <2>1. TypeOK'
    BY <1>1, AgentsAssumption DEF FindAgent, catalog, running, TypeOK
  <2>2. \A d \in Edits : EditSound(d)'
    BY <1>1 DEF FindAgent, EditSound, TypeOK
  <2>3. AttachedSound' /\ RowsStay
    BY <1>1 DEF FindAgent, AttachedSound, RowsStay, catalog
  <2>4. \A r \in Runs : RunSound(r)'
    BY <1>1, <2>3, RunKept DEF FindAgent, running
  <2> QED
    BY <2>1, <2>2, <2>3, <2>4
<1>2. ASSUME NEW e \in Edits, FindItem(e) PROVE Sound'
  <2>1. edit[e] # NoEdit
    BY <1>2 DEF FindItem, NoEdit
  <2>2. TypeOK'
    BY <1>2, <2>1 DEF FindItem, catalog, running, TypeOK
  <2>3. \A d \in Edits : EditSound(d)'
    BY <1>2, <2>1 DEF FindItem, EditSound, TypeOK
  <2>4. AttachedSound' /\ RowsStay
    BY <1>2 DEF FindItem, AttachedSound, RowsStay, catalog
  <2>5. \A r \in Runs : RunSound(r)'
    BY <1>2, <2>4, RunKept DEF FindItem, running
  <2> QED
    BY <2>2, <2>3, <2>4, <2>5
<1>3. ASSUME NEW e \in Edits, NEW op \in {"attach", "detach", "thread"}, Write(e, op)
      PROVE  /\ edit[e] # NoEdit /\ edit' \in [Edits -> {NoEdit}
                  \cup [pc : {"item", "write"}, op : {"attach", "detach", "thread"},
                        ws : Workspaces, agent : Agents, on : Items \cup {None}]]
             /\ edit[e].agent \in Agents /\ edit[e].ws \in Workspaces
             /\ \A d \in Edits : EditSound(d)'
  BY <1>3 DEF Write, EditSound, NoEdit, TypeOK
<1>4. ASSUME NEW e \in Edits, Attach(e) PROVE Sound'
  <2> DEFINE a == edit[e].agent
             i == edit[e].on
  <2>1. /\ a \in Agents /\ i \in Items /\ Home[i] = Home[a]
        /\ \A d \in Edits : EditSound(d)'
    BY <1>3, <1>4 DEF Attach, Write, EditSound
  <2>2. \A r \in Runs : since'[r] \in SUBSET Items /\ since[r] \subseteq since'[r]
    BY <1>4, <2>1 DEF Attach, TypeOK
  <2>3. TypeOK'
    <3>1. since' \in [Runs -> SUBSET Items]
      BY <1>4, <2>1 DEF Attach, TypeOK
    <3> QED
      BY <1>3, <1>4, <2>1, <3>1 DEF Attach, running, TypeOK
  <2>4. AttachedSound' /\ RowsStay
    BY <1>4, <2>1 DEF Attach, AttachedSound, RowsStay
  <2>5. \A r \in Runs : RunSound(r)'
    BY <1>4, <2>2, <2>4, RunKept DEF Attach, running
  <2> QED
    BY <2>1, <2>3, <2>4, <2>5
<1>5. ASSUME NEW e \in Edits, Detach(e) PROVE Sound'
  <2>1. TypeOK' /\ \A d \in Edits : EditSound(d)'
    BY <1>3, <1>5 DEF Detach, running, TypeOK
  <2>2. AttachedSound' /\ RowsStay
    BY <1>5 DEF Detach, AttachedSound, RowsStay
  <2>3. \A r \in Runs : RunSound(r)'
    BY <1>5, <2>2, RunKept DEF Detach, running
  <2> QED
    BY <2>1, <2>2, <2>3
<1>6. ASSUME NEW e \in Edits, NEW t \in Threads, CreateThread(e, t) PROVE Sound'
  <2>1. TypeOK' /\ \A d \in Edits : EditSound(d)'
    BY <1>3, <1>6 DEF CreateThread, Opened, catalog, running, TypeOK
  <2>2. AttachedSound' /\ RowsStay
    BY <1>6 DEF CreateThread, AttachedSound, RowsStay, catalog, TypeOK
  <2>3. \A r \in Runs : RunSound(r)'
    BY <1>6, <2>2, RunKept DEF CreateThread, running
  <2> QED
    BY <2>1, <2>2, <2>3
<1> QED
  BY <1>1, <1>2, <1>4, <1>5, <1>6 DEF Request, FinishRequest

\* What a step of run r leaves alone.
OthersStay(r) ==
    /\ UNCHANGED <<agent, live, attached, edit>>
    /\ \A q \in Runs \ {r} :
          /\ pc'[q] = pc[q] /\ run'[q] = run[q] /\ loaded'[q] = loaded[q]
          /\ todo'[q] = todo[q] /\ used'[q] = used[q] /\ since'[q] = since[q]

\* A step of one run disturbs nothing that is known of the others.
LEMMA OneRunMoves ==
    ASSUME Sound, NEW r \in Runs, OthersStay(r), RowsStay, TypeOK', RunSound(r)'
    PROVE  Sound'
<1> USE DEF Sound
<1>1. ASSUME NEW q \in Runs \ {r} PROVE RunSound(q)'
  BY RunKept DEF OthersStay
<1>2. AttachedSound' /\ \A e \in Edits : EditSound(e)'
  BY DEF AttachedSound, EditSound, OthersStay
<1> QED
  BY <1>1, <1>2

\* When no row of an agent or a thread changes, none is taken back.
LEMMA TablesKept ==
    ASSUME UNCHANGED <<catalog, thread>>
    PROVE  RowsStay
BY DEF RowsStay, catalog

\* A run past its first lookup has a full record.
LEMMA RunRecord ==
    ASSUME Sound, NEW r \in Runs, pc[r] # "idle"
    PROVE  run[r] \in [ws : Workspaces, agent : Agents,
                       thread : Threads \cup {None}, queued : BOOLEAN]
BY DEF Sound, RunSound, TypeOK

\* What an agent has is of its workspace.
LEMMA SnapshotHome ==
    ASSUME Sound, NEW a \in Agents
    PROVE  Attached(a) \subseteq Items /\ \A i \in Attached(a) : Home[i] = Home[a]
BY DEF Sound, AttachedSound, Attached

\* A run resolves its agent, and takes the snapshot.
LEMMA ResolveStep ==
    ASSUME Sound, NEW r \in Runs, NEW w \in Editors, NEW a \in Agents,
           NEW t \in Threads \cup {None}, NEW q \in BOOLEAN, ResolveAgent(r, w, a, t, q)
    PROVE  Sound'
<1> USE DEF Sound
<1> DEFINE n == [ws |-> w, agent |-> a, thread |-> t, queued |-> q]
<1>1. n \in [ws : Workspaces, agent : Agents, thread : Threads \cup {None}, queued : BOOLEAN]
  BY AgentsAssumption
<1>2. /\ UNCHANGED <<catalog, thread, edit, todo, used>> /\ Goto(r, "thread")
      /\ run' = [run EXCEPT ![r] = n]
      /\ loaded' = [loaded EXCEPT ![r] = Attached(a)]
      /\ since' = [since EXCEPT ![r] = Attached(a)]
      /\ pc[r] = "idle" /\ agent[a] = "on" /\ Home[a] = w
  BY DEF ResolveAgent, Load
<1>3. TypeOK'
  <2> HIDE DEF n
  <2> QED
    BY <1>1, <1>2, SnapshotHome DEF Goto, catalog, TypeOK
<1>4. RunSound(r)'
  <2>1. n # NoRun /\ n.agent = a /\ n.ws = w
    BY AgentsAssumption DEF NoRun
  <2>2. used'[r] = {} /\ todo'[r] = {}
    BY <1>2 DEF RunSound
  <2>3. /\ run'[r] = n /\ pc'[r] = "thread" /\ agent' = agent
        /\ loaded'[r] = Attached(a) /\ since'[r] = Attached(a)
    BY <1>2 DEF Goto, catalog, TypeOK
  <2>4. \A i \in Attached(a) : Home[i] = w
    BY <1>2, SnapshotHome
  <2> HIDE DEF n
  <2> QED
    BY <1>2, <2>1, <2>2, <2>3, <2>4 DEF RunSound, Ready
<1>5. OthersStay(r)
  BY <1>2 DEF OthersStay, Goto, catalog, TypeOK
<1> QED
  BY <1>2, <1>3, <1>4, <1>5, TablesKept, OneRunMoves

\* A run finds or creates its thread, and its row is inserted.
LEMMA ThreadSteps ==
    ASSUME Sound, NEW r \in Runs,
           FindThread(r) \/ Open(r) \/ \E t \in Threads : NewThread(r, t)
    PROVE  Sound'
<1> USE DEF Sound
<1>1. run[r] \in [ws : Workspaces, agent : Agents, thread : Threads \cup {None}, queued : BOOLEAN]
  BY RunRecord DEF FindThread, NewThread, Open
<1>2. CASE FindThread(r)
  <2>1. TypeOK' /\ OthersStay(r) /\ RowsStay
    BY <1>2, TablesKept DEF FindThread, OthersStay, Goto, catalog, TypeOK
  <2>2. RunSound(r)'
    BY <1>1, <1>2 DEF FindThread, RunSound, Ready, Goto, Fits, Opened, NoThread, catalog, TypeOK
  <2> QED
    BY <2>1, <2>2, OneRunMoves
<1>3. ASSUME NEW t \in Threads, NewThread(r, t) PROVE Sound'
  <2> DEFINE n == [run[r] EXCEPT !.thread = t]
  <2>1. /\ n \in [ws : Workspaces, agent : Agents, thread : Threads \cup {None}, queued : BOOLEAN]
        /\ n.thread = t /\ n.ws = run[r].ws /\ n.agent = run[r].agent
    BY <1>1
  <2>2. n # NoRun
    BY <2>1, AgentsAssumption DEF NoRun
  <2>3. /\ UNCHANGED <<catalog, edit, loaded, todo, used, since>>
        /\ run' = [run EXCEPT ![r] = n] /\ Goto(r, "open")
        /\ thread' = [thread EXCEPT ![t] = Opened(run[r].agent, run[r].ws)]
        /\ pc[r] = "thread" /\ thread[t] = NoThread
    BY <1>3 DEF NewThread, TypeOK
  <2> HIDE DEF n
  <2>4. TypeOK'
    <3>1. Opened(run[r].agent, run[r].ws)
            \in [state : {"live", "deleted"}, agent : Agents, ws : Workspaces]
      BY <1>1 DEF Opened
    <3> QED
      BY <2>1, <2>3, <3>1 DEF Goto, catalog, TypeOK
  <2>5. OthersStay(r) /\ RowsStay
    BY <2>3 DEF OthersStay, RowsStay, Goto, catalog, TypeOK
  <2>6. RunSound(r)'
    BY <1>1, <2>1, <2>2, <2>3 DEF RunSound, Ready, Goto, Opened, NoThread, catalog, TypeOK
  <2> QED
    BY <2>4, <2>5, <2>6, OneRunMoves
<1>4. CASE Open(r)
  <2>1. /\ UNCHANGED <<catalog, thread, edit, run, loaded, used, since>> /\ pc[r] = "open"
        /\ pc' = [pc EXCEPT ![r] = pc'[r]] /\ pc'[r] \in {"loop", "queued", "refused"}
        /\ pc'[r] # "refused" => Alive(r)
    BY <1>4 DEF Open, Begin, Goto, TypeOK
  <2>2. /\ todo' = [todo EXCEPT ![r] = todo'[r]] /\ todo'[r] \subseteq loaded[r] \cap Bases
        /\ pc'[r] \in {"queued"} => todo'[r] = {}
    BY <1>4 DEF Open, Begin, Goto, RunSound, TypeOK
  <2>3. TypeOK' /\ OthersStay(r) /\ RowsStay
    BY <2>1, <2>2, TablesKept DEF OthersStay, catalog, TypeOK
  <2>4. RunSound(r)'
    BY <1>1, <2>1, <2>2 DEF RunSound, Ready, catalog, TypeOK
  <2> QED
    BY <2>3, <2>4, OneRunMoves
<1> QED
  BY <1>2, <1>3, <1>4

\* A worker picks a run up, and takes the snapshot anew.
LEMMA PickUpStep ==
    ASSUME Sound, NEW r \in Runs, PickUp(r)
    PROVE  Sound'
<1> USE DEF Sound
<1> DEFINE s == Attached(run[r].agent)
<1>1. run[r] \in [ws : Workspaces, agent : Agents, thread : Threads \cup {None}, queued : BOOLEAN]
  BY RunRecord DEF PickUp
<1>2. /\ UNCHANGED <<catalog, thread, edit, run, used>> /\ pc[r] = "queued" /\ Goto(r, "loop")
      /\ loaded' = [loaded EXCEPT ![r] = s] /\ since' = [since EXCEPT ![r] = s]
      /\ todo' = [todo EXCEPT ![r] = s \cap Bases]
  BY DEF PickUp, Load, Begin
<1>3. s \subseteq Items /\ \A i \in s : Home[i] = run[r].ws
  BY <1>1, <1>2, SnapshotHome DEF RunSound
<1> HIDE DEF s
<1>4. TypeOK' /\ OthersStay(r) /\ RowsStay
  BY <1>2, <1>3, TablesKept DEF OthersStay, Goto, catalog, TypeOK
<1>5. RunSound(r)'
  BY <1>1, <1>2, <1>3 DEF RunSound, Ready, Goto, catalog, TypeOK
<1> QED
  BY <1>4, <1>5, OneRunMoves

\* The steps of the loop use up what is to be searched and use what was loaded.
LEMMA LoopSteps ==
    ASSUME Sound,
           \/ GoOn
           \/ \E r \in Runs : (\E t \in Tools : CallTool(r, t)) \/ FinishCall(r)
    PROVE  Sound'
<1> USE DEF Sound
<1>1. PICK r \in Runs :
        \/ \E k \in Bases : Search(r, k)
        \/ \E t \in Tools : CallTool(r, t)
        \/ FinishCall(r) \/ Finish(r) \/ Fail(r)
  BY DEF GoOn
<1>2. /\ UNCHANGED <<catalog, thread, edit, run, loaded, since>>
      /\ pc[r] \in {"queued", "loop", "call"}
      /\ pc' = [pc EXCEPT ![r] = pc'[r]] /\ pc'[r] \in {"loop", "call", "done", "failed"}
      /\ pc'[r] = "failed" => ~Found(r)
  BY <1>1 DEF Search, CallTool, FinishCall, Finish, Fail, Goto, TypeOK
<1>3. todo' = [todo EXCEPT ![r] = todo'[r]] /\ todo'[r] \subseteq todo[r]
  BY <1>1 DEF Search, CallTool, FinishCall, Finish, Fail, TypeOK
<1>4. used' = [used EXCEPT ![r] = used'[r]] /\ used'[r] \subseteq loaded[r]
  <2>1. used[r] \subseteq loaded[r] /\ todo[r] \subseteq loaded[r]
    BY DEF RunSound
  <2>2. CASE \E k \in Bases : Search(r, k)
    BY <2>1, <2>2 DEF Search, TypeOK
  <2>3. CASE \E t \in Tools : CallTool(r, t)
    BY <2>1, <2>3 DEF CallTool, TypeOK
  <2>4. CASE FinishCall(r) \/ Finish(r) \/ Fail(r)
    BY <2>1, <2>4 DEF FinishCall, Finish, Fail, TypeOK
  <2> QED
    BY <1>1, <2>2, <2>3, <2>4
<1>5. TypeOK' /\ OthersStay(r) /\ RowsStay
  BY <1>2, <1>3, <1>4, TablesKept DEF OthersStay, catalog, TypeOK
<1>6. run[r] \in [ws : Workspaces, agent : Agents, thread : Threads \cup {None}, queued : BOOLEAN]
  BY <1>2, RunRecord
<1>7. pc'[r] = "failed" => thread[run[r].thread].state = "deleted"
  BY <1>2, <1>6 DEF Found, Alive, RunSound, Ready, TypeOK
<1>8. RunSound(r)'
  BY <1>2, <1>3, <1>4, <1>6, <1>7 DEF RunSound, Ready, catalog, TypeOK
<1> QED
  BY <1>5, <1>8, OneRunMoves

\* Initially there is nothing.
LEMMA InitSound == Init => Sound
<1> SUFFICES ASSUME Init PROVE Sound
  OBVIOUS
<1>1. TypeOK
  BY DEF Init, TypeOK
<1>2. AttachedSound /\ \A e \in Edits : EditSound(e)
  BY DEF Init, AttachedSound, EditSound
<1>3. \A r \in Runs : RunSound(r)
  BY DEF Init, RunSound, Ready
<1> QED
  BY <1>1, <1>2, <1>3 DEF Sound

\* Every step keeps what was found.
LEMMA NextSound == Sound /\ [Next]_vars => Sound'
<1> SUFFICES ASSUME Sound, [Next]_vars PROVE Sound'
  OBVIOUS
<1>1. CASE Edit
  BY <1>1, EditSteps, RequestSteps DEF Edit, EditAgents
<1>2. CASE StartRun
  BY <1>2, ResolveStep, ThreadSteps, PickUpStep DEF StartRun
<1>3. CASE GoOn \/ \E r \in Runs : (\E t \in Tools : CallTool(r, t)) \/ FinishCall(r)
  BY <1>3, LoopSteps
<1>4. CASE UNCHANGED vars
  <2>1. TypeOK' /\ AttachedSound'
    BY <1>4 DEF vars, catalog, running, Sound, TypeOK, AttachedSound
  <2>2. \A e \in Edits : EditSound(e)'
    BY <1>4 DEF vars, Sound, EditSound
  <2>3. \A r \in Runs : RunSound(r)'
    BY <1>4 DEF vars, catalog, running, Sound, RunSound, Ready
  <2> QED
    BY <2>1, <2>2, <2>3 DEF Sound
<1> QED
  BY <1>1, <1>2, <1>3, <1>4 DEF Next

\* The invariant of all the theorems of this module.
THEOREM AgentsSound == Spec => []Sound
BY InitSound, NextSound, PTL DEF Spec

\* Every row, request and run keeps its type.
THEOREM AgentsTyped == Spec => []TypeOK
<1>1. Sound => TypeOK
  BY DEF Sound
<1> QED
  BY <1>1, AgentsSound, PTL

\* What is attached is at home with its agent, and a run stays in the workspace that
\* asked for it: agents.service.ts checks the item before the insert, not with it, and a
\* worker loads the agent by its id alone.
THEOREM TenantsStayApart == Spec => []TenantsApart
<1>1. ASSUME Sound PROVE TenantsApart
  <2>1. \A a \in Agents : \A i \in Attached(a) : i \in live /\ Home[i] = Home[a]
    BY <1>1 DEF Sound, AttachedSound, Attached
  <2>2. ASSUME NEW r \in Runs, Ready(r)
        PROVE  /\ Home[run[r].agent] = run[r].ws
               /\ thread[run[r].thread].agent = run[r].agent
               /\ thread[run[r].thread].ws = run[r].ws
               /\ \A i \in used[r] : Home[i] = run[r].ws
    BY <1>1, <2>2 DEF Sound, RunSound, Ready
  <2> QED
    BY <2>1, <2>2 DEF TenantsApart
<1> QED
  BY <1>1, AgentsSound, PTL

\* A run uses the attachments of its snapshot, which is read anew when a worker picks
\* the run up.
THEOREM RunsUseWhatWasAttached == Spec => []UsedWasAttached
<1>1. Sound => UsedWasAttached
  BY DEF Sound, RunSound, UsedWasAttached
<1> QED
  BY <1>1, AgentsSound, PTL

\* Deleting an agent is soft, and the loop passes over a base that is gone, so that an
\* accepted run can only lose its thread.
THEOREM RunsOutliveEdits == Spec => []OnlyThreadsTakeRuns
<1>1. Sound => OnlyThreadsTakeRuns
  BY DEF Sound, RunSound, OnlyThreadsTakeRuns
<1> QED
  BY <1>1, AgentsSound, PTL

\* Composed with the executor of its tool calls, a run is still a run: all that was
\* proved holds while calls are under way.
THEOREM AtWorkImplementsAgents == AtWork => Spec
<1>1. StartsAtWork => Init
  BY DEF StartsAtWork
<1>2. [Call \/ Return \/ Others \/ Execute \/ Expire \/ Serve]_everyone => [Next]_vars
  <2> SUFFICES ASSUME Call \/ Return \/ Others \/ Execute \/ Expire \/ Serve \/ UNCHANGED everyone
               PROVE  Next \/ UNCHANGED vars
    OBVIOUS
  <2>1. CASE Call \/ Return
    BY <2>1 DEF Call, Return, Next
  <2>2. CASE Others
    BY <2>2 DEF Others, Next
  <2>3. CASE Execute \/ Expire \/ Serve \/ UNCHANGED everyone
    BY <2>3 DEF Execute, Expire, Serve, everyone
  <2> QED
    BY <2>1, <2>2, <2>3
<1> QED
  BY <1>1, <1>2, PTL DEF AtWork, Spec

\* A call sends one request more than it has followed redirects while it awaits one; its
\* timer is armed from the first lookup until the call ends, or has fired in a lookup.
CallSound ==
    /\ tool \in Http!Defects /\ target \in Targets \cup {"public"}
    /\ timer \in {"off", "armed", "fired"} /\ hop \in 0..MAX_REDIRECTS
    /\ \/ at \in {"idle", "start"} /\ timer = "off" /\ sent = 0 /\ hop = 0 /\ result = "none"
       \/ at = "check" /\ timer # "off" /\ sent = hop /\ result = "none"
       \/ at \in {"wait", "read"} /\ timer = "armed" /\ sent = hop + 1 /\ result = "none"
       \/ /\ at = "done" /\ timer # "armed" /\ sent \in Nat /\ sent <= hop + 1
          /\ result \in Http!Results \ {"none"}
          /\ result = "redirects" => sent = MAX_REDIRECTS + 1

\* The counters and the timer of a call agree at each of its awaits.
LEMMA CallsStayBounded == AtWork => []CallSound
<1> USE ToolFetchAssumption
<1>1. StartsAtWork => CallSound
  BY DEF StartsAtWork, Http!Idle, Http!Defects, CallSound
<1>2. CallSound /\ [Call \/ Return \/ Others \/ Execute \/ Expire \/ Serve]_everyone => CallSound'
  <2> SUFFICES ASSUME CallSound,
                      Call \/ Return \/ Others \/ Execute \/ Expire \/ Serve \/ UNCHANGED everyone
               PROVE  CallSound'
    OBVIOUS
  <2>1. CASE Call
    BY <2>1 DEF Call, Http!Begin, CallSound
  <2>2. CASE Return
    <3>1. /\ tool' = "usable" /\ target' = "public" /\ timer' = "off"
          /\ at' = "idle" /\ result' = "none" /\ hop' = 0 /\ sent' = 0
      BY <2>2 DEF Return, Http!Return
    <3> QED
      <4>1. tool' \in Http!Defects /\ hop' \in 0..MAX_REDIRECTS
        BY <3>1 DEF Http!Defects
      <4> QED
        BY <3>1, <4>1 DEF CallSound
  <2>3. CASE Others \/ UNCHANGED everyone
    BY <2>3 DEF Others, everyone, call, CallSound
  <2>4. CASE Expire
    BY <2>4 DEF Expire, Http!Expire, Http!Await, Http!Results, CallSound
  <2>5. CASE Execute
    <3>1. CASE Http!Reject
      BY <3>1 DEF Http!Reject, Http!End, Http!Results, CallSound
    <3>2. CASE Http!Arm
      BY <3>2 DEF Http!Arm, Http!Await, CallSound
    <3>3. CASE Http!Unsafe \/ Http!FetchAborted
      BY <3>3 DEF Http!Unsafe, Http!FetchAborted, Http!End, Http!Results, CallSound
    <3>4. CASE Http!Fetch
      BY <3>4 DEF Http!Fetch, Http!Await, CallSound
    <3> QED
      BY <2>5, <3>1, <3>2, <3>3, <3>4 DEF Execute, Http!Execute
  <2>6. CASE Serve
    <3>1. CASE Http!Redirect
      BY <3>1 DEF Http!Redirect, Http!LastHop, Http!Await, CallSound
    <3>2. CASE Http!GiveUp
      BY <3>2 DEF Http!GiveUp, Http!LastHop, Http!End, Http!Results, CallSound
    <3>3. CASE Http!Respond
      BY <3>3 DEF Http!Respond, Http!Await, CallSound
    <3>4. CASE Http!Break \/ Http!Read
      BY <3>4 DEF Http!Break, Http!Read, Http!End, Http!Results, CallSound
    <3> QED
      BY <2>6, <3>1, <3>2, <3>3, <3>4 DEF Serve, Http!Serve
  <2> QED
    BY <2>1, <2>2, <2>3, <2>4, <2>5, <2>6
<1> QED
  BY <1>1, <1>2, PTL DEF AtWork

\* A call sends at most one request more than redirects are allowed, and gives up for
\* redirects only when it has sent them all: for every bound.
THEOREM RedirectsBounded == AtWork => []RedirectsCounted
<1>1. CallSound => RedirectsCounted
  BY ToolFetchAssumption DEF CallSound, RedirectsCounted, Http!RedirectsCounted
<1> QED
  BY <1>1, CallsStayBounded, PTL

\* Whichever way a call ends, its timer is not left behind.
THEOREM TimersCleared == AtWork => []NoTimerLeft
<1>1. CallSound => NoTimerLeft
  BY DEF CallSound, NoTimerLeft, Http!NoTimerLeft
<1> QED
  BY <1>1, CallsStayBounded, PTL

\* A call whose time is up sends nothing and returns no response.
THEOREM TimeoutsAreFinal == AtWork => NothingAfterTimeout
<1>1. CallSound /\ [Call \/ Return \/ Others \/ Execute \/ Expire \/ Serve]_everyone
        => [timer = "fired" /\ at # "done" => sent' = sent /\ result' # "response"]_(Http!vars)
  <2> SUFFICES ASSUME CallSound, timer = "fired", at # "done",
                      Call \/ Return \/ Others \/ Execute \/ Expire \/ Serve \/ UNCHANGED everyone
               PROVE  \/ sent' = sent /\ result' # "response"
                      \/ UNCHANGED Http!vars
    OBVIOUS
  <2>1. at = "check" /\ result = "none"
    BY DEF CallSound
  <2>2. CASE Call \/ Return \/ Serve \/ Expire
    BY <2>1, <2>2 DEF Call, Return, Serve, Expire, Http!Begin, Http!Return, Http!Expire,
       Http!Serve, Http!Redirect, Http!GiveUp, Http!Respond, Http!Break, Http!Read
  <2>3. CASE Others \/ UNCHANGED everyone
    BY <2>3 DEF Others, everyone, call, Http!vars
  <2>4. CASE Execute
    BY <2>1, <2>4 DEF Execute, Http!Execute, Http!Reject, Http!Arm, Http!Unsafe, Http!Fetch,
       Http!FetchAborted, Http!End
  <2> QED
    BY <2>2, <2>3, <2>4
<1> QED
  BY <1>1, CallsStayBounded, PTL DEF AtWork, NothingAfterTimeout, Http!NothingAfterTimeout
===============================================================================
