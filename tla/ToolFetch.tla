------------------------------ MODULE ToolFetch ------------------------------
(***************************************************************************)
(* HttpToolExecutor.execute: one call of an HTTP tool, from its arguments  *)
(* through the redirects of the server to a result for the model, under a  *)
(* timer that aborts the request under way.  A step is what runs between   *)
(* two awaits.  AgentsAtWork has the runs that make the calls.             *)
(*                                                                         *)
(* The server answers as it likes, or never.  Templates, headers and the   *)
(* truncation of the body are left out, and a name keeps the address that  *)
(* it was checked with.                                                    *)
(***************************************************************************)
EXTENDS Naturals

CONSTANTS
    MAX_REDIRECTS,
    Targets         \* what a URL may name

Defects == {"usable", "bad arguments", "unsupported", "incomplete"}
Results == {"none", "response", "rejected", "redirects", "failed", "timeout"}

VARIABLES
    tool,       \* the defect of the call, or "usable"
    target,     \* the current URL
    timer, pc, result,
    hop,        \* redirects followed
    sent        \* history: requests sent

vars == <<tool, target, timer, pc, result, hop, sent>>

Idle ==
    /\ tool = "usable" /\ target = "public"
    /\ timer = "off" /\ pc = "idle" /\ result = "none"
    /\ hop = 0 /\ sent = 0

Begin ==
    /\ pc = "idle"
    /\ pc' = "start" /\ tool' \in Defects /\ target' \in Targets
    /\ UNCHANGED <<timer, result, hop, sent>>

\* The caller has the result, and the locals of the call are gone.
Return ==
    /\ pc = "done"
    /\ tool' = "usable" /\ target' = "public"
    /\ timer' = "off" /\ pc' = "idle" /\ result' = "none"
    /\ hop' = 0 /\ sent' = 0

\* Return or catch, with the finally clause in the same turn.  Mutant: the timer is
\* cleared only when there is a response.
EndUncleared(r) ==
    /\ result' = r /\ pc' = "done"
    /\ timer' = IF timer = "armed" /\ r = "response" THEN "off" ELSE timer

End(r) ==
    /\ result' = r /\ pc' = "done"
    /\ timer' = IF timer = "armed" THEN "off" ELSE timer

Await(p) == pc' = p /\ UNCHANGED result

-----------------------------------------------------------------------------
Reject ==
    /\ pc = "start" /\ tool # "usable"
    /\ End("rejected")
    /\ UNCHANGED <<tool, target, hop, sent>>

Arm ==
    /\ pc = "start" /\ tool = "usable"
    /\ Await("check") /\ timer' = "armed"
    /\ UNCHANGED <<tool, target, hop, sent>>

\* The timer does not abort assertUrlIsSafe.  It throws for an unsafe URL, and when a
\* name does not resolve.
Unsafe ==
    /\ pc = "check"
    /\ End("failed")
    /\ UNCHANGED <<tool, target, hop, sent>>

\* fetch rejects at once when its signal was aborted.  Mutant: it has no signal.
FetchAnyway ==
    /\ pc = "check" /\ target = "public"
    /\ Await("wait") /\ sent' = sent + 1
    /\ UNCHANGED <<tool, target, timer, hop>>

Fetch ==
    /\ pc = "check" /\ target = "public" /\ timer = "armed"
    /\ Await("wait") /\ sent' = sent + 1
    /\ UNCHANGED <<tool, target, timer, hop>>

FetchAborted ==
    /\ pc = "check" /\ target = "public" /\ timer = "fired"
    /\ End("timeout")
    /\ UNCHANGED <<tool, target, hop, sent>>

\* The loop counts requests from 0 to MAX_REDIRECTS.  Mutant: it stops before.
LastHopEarly == hop + 1 >= MAX_REDIRECTS
LastHop      == hop = MAX_REDIRECTS

Redirect ==
    /\ pc = "wait" /\ ~LastHop
    /\ target' \in Targets
    /\ Await("check") /\ hop' = hop + 1
    /\ UNCHANGED <<tool, timer, sent>>

GiveUp ==
    /\ pc = "wait" /\ LastHop
    /\ End("redirects")
    /\ UNCHANGED <<tool, target, hop, sent>>

\* A response that is no redirect, or names no location.
Respond ==
    /\ pc = "wait"
    /\ Await("read")
    /\ UNCHANGED <<tool, target, timer, hop, sent>>

\* The connection fails, or the location of a redirect is no URL.
Break ==
    /\ pc = "wait"
    /\ End("failed")
    /\ UNCHANGED <<tool, target, hop, sent>>

\* res.text()
Read ==
    /\ pc = "read"
    /\ End("response") \/ End("failed")
    /\ UNCHANGED <<tool, target, hop, sent>>

\* The abort rejects the request or the reading of its body.  Mutant: of the request
\* only.
ExpireUnread ==
    /\ timer = "armed"
    /\ timer' = "fired"
    /\ IF pc = "wait" THEN result' = "timeout" /\ pc' = "done" ELSE Await(pc)
    /\ UNCHANGED <<tool, target, hop, sent>>

Expire ==
    /\ timer = "armed"
    /\ timer' = "fired"
    /\ IF pc \in {"wait", "read"} THEN result' = "timeout" /\ pc' = "done" ELSE Await(pc)
    /\ UNCHANGED <<tool, target, hop, sent>>

\* What the executor does on its own, and what depends on the server of the tool.
Execute == Reject \/ Arm \/ Unsafe \/ Fetch \/ FetchAborted
Serve   == Redirect \/ GiveUp \/ Respond \/ Break \/ Read

-----------------------------------------------------------------------------
\* The third redirect is followed and the fourth is not: a call is given up for
\* redirects only after one request more than redirects are allowed, and never sends
\* more.
RedirectsCounted ==
    sent <= MAX_REDIRECTS + 1 /\ (result = "redirects" => sent = MAX_REDIRECTS + 1)

\* No timer is left behind to hold the process, whichever way the call ended.
NoTimerLeft == pc = "done" => timer # "armed"

\* After its time is up a call sends nothing and returns no response, also when the
\* time ran out in a lookup that the abort does not reach.
NothingAfterTimeout ==
    [][timer = "fired" /\ pc # "done" => sent' = sent /\ result' # "response"]_vars
=============================================================================
