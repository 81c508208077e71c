---------------------------- MODULE MCAgentsAtWork ----------------------------
(* Agents and tool calls for TLC: members of workspace A edit an agent and its *)
(* attachments; there is a tool of workspace B, too.                           *)
EXTENDS AgentsAtWork, TLC

CONSTANTS A, B, a1, t1, t2, k1, x1, e1, r1

TwoWorkspaces == {A, B}
OneEditor     == {A}
OneAgent      == {a1}
TwoTools      == {t1, t2}
OneBase       == {k1}
OneThread     == {x1}
OneEdit       == {e1}
OneRun        == {r1}
Homes         == (a1 :> A) @@ (t1 :> A) @@ (t2 :> B) @@ (k1 :> A)
EveryTarget   == {"public", "internal"}
===============================================================================
