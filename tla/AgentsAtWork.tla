----------------------------- MODULE AgentsAtWork -----------------------------
(***************************************************************************)
(* Agents composed with ToolFetch: the loop of a run awaits the call of a  *)
(* tool while members edit the agent, its tools and its threads.           *)
(***************************************************************************)
EXTENDS Agents

CONSTANTS MAX_REDIRECTS, Targets

ASSUME ToolFetchAssumption == MAX_REDIRECTS \in Nat /\ Targets \subseteq {"public", "internal"}

VARIABLES tool, target, timer, at, result, hop, sent

call     == <<tool, target, timer, at, result, hop, sent>>
everyone == <<vars, call>>

\* Bound: one call at a time.  The calls of a run follow one another anyway.
Http == INSTANCE ToolFetch WITH pc <- at

StartsAtWork == Init /\ Http!Idle

Call   == Http!Begin /\ \E r \in Runs, t \in Tools : CallTool(r, t)
Return == Http!Return /\ \E r \in Runs : FinishCall(r)
Others == (Edit \/ StartRun \/ GoOn) /\ UNCHANGED call

Execute == Http!Execute /\ UNCHANGED vars
Expire  == Http!Expire /\ UNCHANGED vars
Serve   == Http!Serve /\ UNCHANGED vars

\* A name server answers, a timer fires, and the loop goes on with the result.  The
\* server of the tool owes nothing.
AtWork ==
    /\ StartsAtWork
    /\ [][Call \/ Return \/ Others \/ Execute \/ Expire \/ Serve]_everyone
    /\ WF_everyone(Execute) /\ WF_everyone(Expire) /\ WF_everyone(Return)

-----------------------------------------------------------------------------
RedirectsCounted    == Http!RedirectsCounted
NoTimerLeft         == Http!NoTimerLeft
NothingAfterTimeout == Http!NothingAfterTimeout

\* The loop gets a result for every call, also from a server that never answers or
\* stops in the middle of the body, and whatever happens to the tool's row meanwhile.
CallsReturn == \A r \in Runs : pc[r] = "call" ~> pc[r] = "loop"
===============================================================================
