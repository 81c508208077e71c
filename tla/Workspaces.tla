----------------------------- MODULE Workspaces -----------------------------
(***************************************************************************)
(* Users, their workspaces and the members of each: signups and creations  *)
(* that look for a free slug, invitations, changes of role, removals and   *)
(* the soft deletion of a workspace, as requests that interleave at every  *)
(* await.                                                                  *)
(*                                                                         *)
(* Every request asks for the same slug: slug n is "base-n", and slug 0    *)
(* the base itself.  A transaction commits in one step, when the unique    *)
(* indices decide.  A request that is refused before its first await does  *)
(* nothing and is left out.                                                *)
(***************************************************************************)
EXTENDS Naturals

CONSTANTS
    Users,          \* a user is its email address
    Workspaces,
    Managed,        \* bound: the workspaces whose members are changed
    Grants,         \* the roles that requests ask for
    Requests,       \* the requests under way
    MaxJoins,       \* bound: how often a user joins a workspace
    None

Roles    == {"OWNER", "ADMIN", "MEMBER", "VIEWER"}
Managers == {"OWNER", "ADMIN"}

ASSUME WorkspacesAssumption ==
    /\ Managed \subseteq Workspaces /\ Grants \subseteq Roles
    /\ None \notin Users \cup Workspaces \cup Roles /\ MaxJoins \in Nat \ {0}

VARIABLES
    users,          \* who has signed up
    owner, slug,    \* of each workspace
    deleted,        \* the workspaces with a deletedAt
    role, joined,   \* of each workspace and user: the role, and the number of rows so far
    req,            \* what each request is about and has read
    overlapped      \* history: requests since whose start their workspace was changed

accounts == <<users, owner, slug>>
vars     == <<accounts, deleted, role, joined, req, overlapped>>

Idle == [op |-> "none", pc |-> "idle", user |-> None, ws |-> None, target |-> None,
         grant |-> None, as |-> None, row |-> 0, try |-> 0]

Queries ==
    [op : {"none", "signup", "create", "invite", "update", "remove", "delete"},
     pc : {"idle", "probe", "insert", "look", "write"},
     user : Users \cup {None}, ws : Workspaces \cup {None}, target : Users \cup {None},
     grant : Roles \cup {None}, as : Roles \cup {None}, row : 0..MaxJoins, try : Nat]

Created   == {w \in Workspaces : owner[w] # None}
Taken(n)  == \E w \in Created : slug[w] = n
At(r, pc) == req[r].pc = pc
Answer(r) == req' = [req EXCEPT ![r] = Idle]
Goto(r, pc) == req' = [req EXCEPT ![r].pc = pc]

Receive(r, q) ==
    /\ At(r, "idle")
    /\ req' = [req EXCEPT ![r] = q]
    /\ overlapped' = overlapped \ {r}

\* Others that are under way in w have read what may no longer be so.
Overlap(r, w) ==
    overlapped' = overlapped \cup {s \in Requests \ {r} : req[s].ws = w}

TypeOK ==
    /\ users \subseteq Users /\ deleted \subseteq Created
    /\ owner \in [Workspaces -> Users \cup {None}] /\ slug \in [Workspaces -> Nat]
    /\ role \in [Workspaces -> [Users -> Roles \cup {None}]]
    /\ joined \in [Workspaces -> [Users -> 0..MaxJoins]]
    /\ req \in [Requests -> Queries]
    /\ overlapped \subseteq Requests

Init ==
    /\ users = {} /\ deleted = {} /\ overlapped = {}
    /\ owner = [w \in Workspaces |-> None] /\ slug = [w \in Workspaces |-> 0]
    /\ role = [w \in Workspaces |-> [u \in Users |-> None]]
    /\ joined = [w \in Workspaces |-> [u \in Users |-> 0]]
    /\ req = [r \in Requests |-> Idle]

-----------------------------------------------------------------------------
\* signup finds nobody with the email.
Signup(r, u) ==
    /\ u \notin users
    /\ Receive(r, [Idle EXCEPT !.op = "signup", !.pc = "probe", !.user = u])
    /\ UNCHANGED <<accounts, deleted, role, joined>>

Create(r, u) ==
    /\ u \in users
    /\ Receive(r, [Idle EXCEPT !.op = "create", !.pc = "probe", !.user = u])
    /\ UNCHANGED <<accounts, deleted, role, joined>>

\* One lookup of resolveSlug or uniqueSlug.
Probe(r) ==
    /\ At(r, "probe")
    /\ IF Taken(req[r].try) THEN req' = [req EXCEPT ![r].try = @ + 1]
                            ELSE Goto(r, "insert")
    /\ UNCHANGED <<accounts, deleted, role, joined, overlapped>>

Signing(r)  == req[r].op = "signup"
Collides(r) == Taken(req[r].try) \/ (Signing(r) /\ req[r].user \in users)

Commit(r, w) ==
    /\ users' = users \cup {req[r].user}
    /\ owner' = [owner EXCEPT ![w] = req[r].user]
    /\ slug' = [slug EXCEPT ![w] = req[r].try]
    /\ role' = [role EXCEPT ![w][req[r].user] = "OWNER"]
    /\ joined' = [joined EXCEPT ![w][req[r].user] = 1]

\* The transaction: user, workspace and member, or a conflict and nothing.
\* Mutant: the user stays when the slug collides.
InsertUserFirst(r) ==
    /\ At(r, "insert") /\ Answer(r)
    /\ IF Collides(r)
       THEN users' = users \cup {req[r].user} /\ UNCHANGED <<owner, slug, role, joined>>
       ELSE \E w \in Workspaces \ Created : Commit(r, w)
    /\ UNCHANGED <<deleted, overlapped>>

Insert(r) ==
    /\ At(r, "insert") /\ Answer(r)
    /\ IF Collides(r)
       THEN UNCHANGED <<accounts, role, joined>>
       ELSE \E w \in Workspaces \ Created : Commit(r, w)
    /\ UNCHANGED <<deleted, overlapped>>

-----------------------------------------------------------------------------
\* requireMembership: the role with which u acts in w.
MayAct(u, w, roles) == u \in users /\ w \in Created \ deleted /\ role[w][u] \in roles

\* WorkspaceGuard and RolesGuard read the actor's role once, the service refuses to
\* grant OWNER.  Mutant: it grants what it is asked for.
ManageAnything(r, op, u, w, t, g) ==
    /\ MayAct(u, w, Managers)
    /\ Receive(r, [op |-> op, pc |-> "look", user |-> u, ws |-> w, target |-> t,
                   grant |-> g, as |-> role[w][u], row |-> 0, try |-> 0])
    /\ UNCHANGED <<accounts, deleted, role, joined>>

Manage(r, op, u, w, t, g) ==
    /\ MayAct(u, w, Managers) /\ g # "OWNER"
    /\ Receive(r, [op |-> op, pc |-> "look", user |-> u, ws |-> w, target |-> t,
                   grant |-> g, as |-> role[w][u], row |-> 0, try |-> 0])
    /\ UNCHANGED <<accounts, deleted, role, joined>>

ReceiveDeletion(r, u, w) ==
    /\ MayAct(u, w, {"OWNER"})
    /\ Receive(r, [Idle EXCEPT !.op = "delete", !.pc = "write", !.user = u, !.ws = w])
    /\ UNCHANGED <<accounts, deleted, role, joined>>

Current(r) == role[req[r].ws][req[r].target]

\* inviteMember looks up the user and an existing membership.
FindInvitee(r) ==
    /\ At(r, "look") /\ req[r].op = "invite"
    /\ IF req[r].target \in users /\ Current(r) = None THEN Goto(r, "write") ELSE Answer(r)
    /\ UNCHANGED <<accounts, deleted, role, joined, overlapped>>

\* The rules of updateMemberRole and removeMember.
MayTouch(r) ==
    /\ Current(r) \notin {None, "OWNER"}
    /\ ~(req[r].as = "ADMIN" /\ Current(r) = "ADMIN")

\* Mutant: any member may be changed but the owner.
FindAnyTarget(r) ==
    /\ At(r, "look") /\ req[r].op \in {"update", "remove"}
    /\ IF Current(r) \notin {None, "OWNER"}
       THEN req' = [req EXCEPT ![r].pc = "write", ![r].row = joined[req[r].ws][req[r].target]]
       ELSE Answer(r)
    /\ UNCHANGED <<accounts, deleted, role, joined, overlapped>>

FindTarget(r) ==
    /\ At(r, "look") /\ req[r].op \in {"update", "remove"}
    /\ IF MayTouch(r)
       THEN req' = [req EXCEPT ![r].pc = "write", ![r].row = joined[req[r].ws][req[r].target]]
       ELSE Answer(r)
    /\ UNCHANGED <<accounts, deleted, role, joined, overlapped>>

-----------------------------------------------------------------------------
\* The unique index refuses a second row.
Invite(r) ==
    /\ At(r, "write") /\ req[r].op = "invite" /\ Answer(r)
    /\ LET w == req[r].ws  t == req[r].target IN
        IF Current(r) # None
        THEN UNCHANGED <<role, joined, overlapped>>
        ELSE /\ joined[w][t] < MaxJoins
             /\ role' = [role EXCEPT ![w][t] = req[r].grant]
             /\ joined' = [joined EXCEPT ![w][t] = @ + 1]
             /\ Overlap(r, w)
    /\ UNCHANGED <<accounts, deleted>>

\* update and delete name the row that was read, which may be gone by now, and with
\* it what another row of the same user says.
WriteTarget(r) ==
    /\ At(r, "write") /\ req[r].op \in {"update", "remove"} /\ Answer(r)
    /\ LET w == req[r].ws  t == req[r].target IN
        IF Current(r) = None \/ joined[w][t] # req[r].row
        THEN UNCHANGED <<role, overlapped>>
        ELSE role' = [role EXCEPT ![w][t] = req[r].grant] /\ Overlap(r, w)
    /\ UNCHANGED <<accounts, deleted, joined>>

SoftDelete(r) ==
    /\ At(r, "write") /\ req[r].op = "delete" /\ Answer(r)
    /\ deleted' = deleted \cup {req[r].ws}
    /\ Overlap(r, req[r].ws)
    /\ UNCHANGED <<accounts, role, joined>>

\* A crash, a lost connection or a database error.
Abandon(r) ==
    /\ ~At(r, "idle") /\ Answer(r)
    /\ UNCHANGED <<accounts, deleted, role, joined, overlapped>>

Next == \E r \in Requests :
    \/ \E u \in Users :
        \/ Signup(r, u) \/ Create(r, u)
        \/ \E w \in Managed :
            \/ ReceiveDeletion(r, u, w)
            \/ \E t \in Users :
                \/ Manage(r, "remove", u, w, t, None)
                \/ \E op \in {"invite", "update"}, g \in Grants : Manage(r, op, u, w, t, g)
    \/ Probe(r) \/ Insert(r)
    \/ FindInvitee(r) \/ FindTarget(r)
    \/ Invite(r) \/ WriteTarget(r) \/ SoftDelete(r)
    \/ Abandon(r)

Spec == Init /\ [][Next]_vars

-----------------------------------------------------------------------------
\* The creator of a workspace is its one OWNER, whatever its managers do at once.
OwnerStays ==
    \A w \in Created : \A u \in Users : role[w][u] = "OWNER" <=> owner[w] = u

\* A signup leaves a user with a workspace to work in, or nothing, also when it loses
\* a race for its email or its slug or is cut off; no two workspaces share a slug.
SignupWhole ==
    /\ \A v, w \in Created : slug[v] = slug[w] => v = w
    /\ \A w \in Created : owner[w] \in users
    /\ \A u \in users : \E w \in Created : owner[w] = u /\ role[w][u] = "OWNER"

\* What the table of roles allows q to do at this moment.
Allowed(q) ==
    /\ q.ws \notin deleted /\ role[q.ws][q.user] \in Managers
    /\ q.op = "delete" => role[q.ws][q.user] = "OWNER"
    /\ q.op # "delete" =>
        /\ role[q.ws][q.target] # "OWNER"
        /\ ~(role[q.ws][q.user] = "ADMIN" /\ role[q.ws][q.target] = "ADMIN")

\* The roles are checked in three reads before a write.  A request during which nobody
\* else changed its workspace does only what it is allowed at the moment it writes.
Authorised == [][
    \A r \in Requests :
        At(r, "write") /\ req'[r] = Idle /\ r \notin overlapped
            /\ (role' # role \/ deleted' # deleted) => Allowed(req[r])
    ]_vars
=============================================================================
