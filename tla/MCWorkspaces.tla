---------------------------- MODULE MCWorkspaces ----------------------------
(* An instance of Workspaces for TLC: three users who sign up for the same    *)
(* slug, and one workspace whose members two requests at a time change.       *)
EXTENDS Workspaces, TLC

CONSTANTS u1, u2, u3, w1, w2, w3, r1, r2, none

ThreeUsers      == {u1, u2, u3}
ThreeWorkspaces == {w1, w2, w3}
OneWorkspace    == {w1}
TwoRequests     == {r1, r2}
AskedRoles      == {"OWNER", "ADMIN", "MEMBER"}

Symmetry == Permutations(ThreeUsers) \cup Permutations({w2, w3}) \cup Permutations(TwoRequests)
=============================================================================
