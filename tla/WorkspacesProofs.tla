--------------------------- MODULE WorkspacesProofs ---------------------------
(***************************************************************************)
(* For any number of users, workspaces and requests: the creator of a      *)
(* workspace stays its one owner, a signup leaves both of its rows or      *)
(* none, and a request that nobody overlaps does only what its roles       *)
(* allow.  Membership is the inductive invariant: what the rows of the     *)
(* tables have in common, and what a request under way knows of them.      *)
(***************************************************************************)
EXTENDS Workspaces, TLAPS

USE WorkspacesAssumption

\* Rows: whoever creates a workspace is its owner, and has signed up.
Standing ==
    /\ \A v, w \in Created : slug[v] = slug[w] => v = w
    /\ \A w \in Created : owner[w] \in users
    /\ \A u \in users : \E w \in Created : owner[w] = u
    /\ \A w \in Workspaces \ Created, u \in Users : role[w][u] = None
    /\ OwnerStays

\* What a request knows for good: the workspace it is about does not go away, and
\* neither the role of the owner nor the one to be given is ever OWNER's to change.
Sensible(q) ==
    /\ q.pc \in {"probe", "insert"} =>
          /\ q.op \in {"signup", "create"} /\ q.user \in Users /\ q.ws = None
          /\ q.op = "create" => q.user \in users
    /\ q.pc \in {"look", "write"} =>
          /\ q.user \in Users /\ q.ws \in Created /\ q.grant # "OWNER"
          /\ q.op \in {"invite", "update", "remove"} => q.target \in Users
          /\ q.op \in {"invite", "update", "remove", "delete"}
    /\ q.pc = "look" => q.op # "delete"
    /\ q.pc = "write" /\ q.op \in {"update", "remove"} => q.target # owner[q.ws]

\* What it has read and what is so until somebody else changes the workspace.
Fresh(q) ==
    q.pc \in {"look", "write"} =>
        /\ q.ws \notin deleted
        /\ q.op = "delete" => role[q.ws][q.user] = "OWNER"
        /\ q.op # "delete" => role[q.ws][q.user] = q.as /\ q.as \in Managers
        /\ q.pc = "write" /\ q.op \in {"update", "remove"} =>
              ~(q.as = "ADMIN" /\ role[q.ws][q.target] = "ADMIN")

Membership ==
    /\ TypeOK /\ Standing
    /\ \A r \in Requests : Sensible(req[r])
    /\ \A r \in Requests \ overlapped : Fresh(req[r])

-----------------------------------------------------------------------------
\* The record of an idle request is a query, and says nothing.
LEMMA IdleQuery == Idle \in Queries /\ Idle.pc = "idle"
BY DEF Idle, Queries

\* There are no rows at first.
LEMMA MembershipInit == Init => Membership
<1> SUFFICES ASSUME Init PROVE Membership
  OBVIOUS
<1>1. Created = {}
  BY DEF Init, Created
<1>2. TypeOK
  BY <1>1, IdleQuery DEF Init, TypeOK
<1>3. Standing
  BY <1>1 DEF Init, Standing, OwnerStays
<1>4. \A r \in Requests : req[r].pc = "idle"
  BY IdleQuery DEF Init
<1> QED BY <1>2, <1>3, <1>4 DEF Membership, Sensible, Fresh

-----------------------------------------------------------------------------
\* A step that only changes what one request knows.
Moves(r, q) ==
    /\ req' = [req EXCEPT ![r] = q]
    /\ UNCHANGED <<users, owner, slug, deleted, role, joined>>
    /\ overlapped' \in SUBSET overlapped /\ overlapped \subseteq overlapped' \cup {r}

\* A request that goes on from one await to the next leaves the rows alone.
LEMMA MoveStep ==
  ASSUME Membership, NEW r \in Requests, NEW q \in Queries, Moves(r, q),
         Sensible(q), r \notin overlapped' => Fresh(q)
  PROVE  Membership'
<1> USE DEF Membership
<1>1. /\ req \in [Requests -> Queries] /\ req' = [req EXCEPT ![r] = q]
      /\ UNCHANGED <<users, owner, slug, deleted, role, joined>>
      /\ overlapped' \subseteq overlapped /\ overlapped \subseteq overlapped' \cup {r}
  BY DEF Moves, TypeOK
<1>2. Created' = Created
  BY <1>1 DEF Created
<1>3. TypeOK'
  BY <1>1, <1>2 DEF TypeOK
<1>4. Standing'
  BY <1>1, <1>2 DEF Standing, OwnerStays
<1>5. ASSUME NEW s \in Requests PROVE Sensible(req[s])'
  <2>1. Sensible(req'[s])
    BY <1>1
  <2> QED BY <2>1, <1>1, <1>2 DEF Sensible
<1>6. ASSUME NEW s \in Requests \ overlapped' PROVE Fresh(req[s])'
  <2>1. Fresh(req'[s])
    BY <1>1
  <2> QED BY <2>1, <1>1 DEF Fresh
<1> QED BY <1>3, <1>4, <1>5, <1>6

\* A request that is answered knows nothing.
LEMMA AnswerStep ==
  ASSUME Membership, NEW r \in Requests, Answer(r),
         UNCHANGED <<users, owner, slug, deleted, role, joined, overlapped>>
  PROVE  Membership'
<1>1. Moves(r, Idle)
  BY DEF Moves, Answer
<1>2. Sensible(Idle) /\ Fresh(Idle)
  BY IdleQuery DEF Sensible, Fresh
<1> QED BY <1>1, <1>2, IdleQuery, MoveStep

\* A request is received with what it has read.
LEMMA ReceiveStep ==
  ASSUME Membership, NEW r \in Requests, NEW q \in Queries, Receive(r, q),
         UNCHANGED <<accounts, deleted, role, joined>>, Sensible(q), Fresh(q)
  PROVE  Membership'
<1>1. Moves(r, q)
  BY DEF Moves, Receive, accounts
<1> QED BY <1>1, MoveStep

\* A signup has read nothing yet.
LEMMA SignupStep ==
  ASSUME Membership, NEW r \in Requests, NEW u \in Users, Signup(r, u)
  PROVE  Membership'
<1> DEFINE q == [Idle EXCEPT !.op = "signup", !.pc = "probe", !.user = u]
<1>1. /\ q.op = "signup" /\ q.pc = "probe" /\ q.user = u /\ q.ws = None
      /\ q \in Queries
  BY IdleQuery DEF Idle, Queries
<1>2. Sensible(q) /\ Fresh(q)
  BY <1>1 DEF Sensible, Fresh, Signup
<1> QED BY <1>1, <1>2, ReceiveStep DEF Signup

\* A request to create comes from a user.
LEMMA CreateStep ==
  ASSUME Membership, NEW r \in Requests, NEW u \in Users, Create(r, u)
  PROVE  Membership'
<1> DEFINE q == [Idle EXCEPT !.op = "create", !.pc = "probe", !.user = u]
<1>1. /\ q.op = "create" /\ q.pc = "probe" /\ q.user = u /\ q.ws = None
      /\ q \in Queries
  BY IdleQuery DEF Idle, Queries
<1>2. Sensible(q) /\ Fresh(q)
  BY <1>1 DEF Sensible, Fresh, Create
<1> QED BY <1>1, <1>2, ReceiveStep DEF Create

\* The search for a slug reads only.
LEMMA ProbeStep ==
  ASSUME Membership, NEW r \in Requests, Probe(r)
  PROVE  Membership'
<1> USE DEF Membership
<1>1. req[r] \in Queries /\ Sensible(req[r]) /\ req[r].pc = "probe"
  BY DEF TypeOK, Probe, At
<1> DEFINE n == [req[r] EXCEPT !.try = @ + 1]
           i == [req[r] EXCEPT !.pc = "insert"]
<1>2. n \in Queries /\ Sensible(n) /\ Fresh(n)
  BY <1>1 DEF Queries, Sensible, Fresh
<1>3. i \in Queries /\ Sensible(i) /\ Fresh(i)
  BY <1>1 DEF Queries, Sensible, Fresh
<1>4. Moves(r, n) \/ Moves(r, i)
  BY DEF Moves, Probe, Goto, accounts
<1> QED BY <1>2, <1>3, <1>4, MoveStep

\* The guards let a manager begin what does not grant OWNER.
LEMMA ManageStep ==
  ASSUME Membership, NEW r \in Requests, NEW op \in {"invite", "update", "remove"},
         NEW u \in Users, NEW w \in Workspaces, NEW t \in Users,
         NEW g \in Roles \cup {None}, Manage(r, op, u, w, t, g)
  PROVE  Membership'
<1> DEFINE q == [op |-> op, pc |-> "look", user |-> u, ws |-> w, target |-> t,
                 grant |-> g, as |-> role[w][u], row |-> 0, try |-> 0]
<1>1. /\ w \in Created /\ w \notin deleted /\ role[w][u] \in Managers /\ g # "OWNER"
      /\ role[w][u] \in Roles \cup {None}
  BY DEF Manage, MayAct, Membership, TypeOK
<1>2. q \in Queries
  BY <1>1 DEF Queries
<1>3. Sensible(q) /\ Fresh(q)
  BY <1>1 DEF Sensible, Fresh
<1> QED BY <1>2, <1>3, ReceiveStep DEF Manage

\* A deletion comes from an owner.
LEMMA ReceiveDeletionStep ==
  ASSUME Membership, NEW r \in Requests, NEW u \in Users, NEW w \in Workspaces,
         ReceiveDeletion(r, u, w)
  PROVE  Membership'
<1> DEFINE q == [Idle EXCEPT !.op = "delete", !.pc = "write", !.user = u, !.ws = w]
<1>1. w \in Created /\ w \notin deleted /\ role[w][u] = "OWNER"
  BY DEF ReceiveDeletion, MayAct
<1>2. /\ q.op = "delete" /\ q.pc = "write" /\ q.user = u /\ q.ws = w
      /\ q.grant = None /\ q \in Queries
  BY IdleQuery DEF Idle, Queries
<1>3. Sensible(q) /\ Fresh(q)
  BY <1>1, <1>2 DEF Sensible, Fresh, Roles
<1> QED BY <1>2, <1>3, ReceiveStep DEF ReceiveDeletion

\* The lookups before a write: the target is not the owner, and an administrator does
\* not touch another one.
LEMMA FindInviteeStep ==
  ASSUME Membership, NEW r \in Requests, FindInvitee(r)
  PROVE  Membership'
<1> USE DEF Membership
<1>1. req[r] \in Queries /\ Sensible(req[r]) /\ req[r].pc = "look" /\ req[r].op = "invite"
  BY DEF TypeOK, FindInvitee, At
<1> DEFINE q == [req[r] EXCEPT !.pc = "write"]
<1>2. q \in Queries /\ Sensible(q)
  BY <1>1 DEF Queries, Sensible
<1>3. r \notin overlapped => Fresh(q)
  <2>1. r \notin overlapped => Fresh(req[r])
    OBVIOUS
  <2> QED BY <1>1, <2>1 DEF Fresh, Queries
<1>4. CASE Goto(r, "write")
  <2>1. Moves(r, q) /\ overlapped' = overlapped
    BY <1>4 DEF Moves, FindInvitee, Goto, accounts
  <2> QED BY <1>2, <1>3, <2>1, MoveStep
<1>5. CASE Answer(r)
  BY <1>5, AnswerStep DEF FindInvitee, accounts
<1> QED BY <1>4, <1>5 DEF FindInvitee

\* A member that is found is not the owner, and not an equal of the actor.
LEMMA FindTargetStep ==
  ASSUME Membership, NEW r \in Requests, FindTarget(r)
  PROVE  Membership'
<1> USE DEF Membership
<1>1. /\ req[r] \in Queries /\ Sensible(req[r]) /\ req[r].pc = "look"
      /\ req[r].op \in {"update", "remove"}
      /\ UNCHANGED <<users, owner, slug, deleted, role, joined, overlapped>>
  BY DEF TypeOK, FindTarget, At, accounts
<1> DEFINE w == req[r].ws
           t == req[r].target
           q == [req[r] EXCEPT !.pc = "write", !.row = joined[w][t]]
<1>2. w \in Created /\ w \in Workspaces /\ t \in Users
  BY <1>1 DEF Sensible, Created
<1>3. CASE MayTouch(r)
  <2>1. /\ req' = [req EXCEPT ![r] = q]
        /\ role[w][t] \notin {None, "OWNER"}
        /\ ~(req[r].as = "ADMIN" /\ role[w][t] = "ADMIN")
    BY <1>3, <1>1 DEF FindTarget, MayTouch, Current
  <2>2. t # owner[w]
    BY <1>2, <2>1 DEF Standing, OwnerStays
  <2>3. joined[w][t] \in 0..MaxJoins
    BY <1>2 DEF TypeOK
  <2>4. q \in Queries
    BY <1>1, <2>3 DEF Queries
  <2>5. /\ q.pc = "write" /\ q.op = req[r].op /\ q.user = req[r].user /\ q.ws = w
        /\ q.target = t /\ q.grant = req[r].grant /\ q.as = req[r].as
    BY <1>1 DEF Queries
  <2>6. Sensible(q)
    BY <1>1, <2>2, <2>5 DEF Sensible
  <2>7. ASSUME r \notin overlapped PROVE Fresh(q)
    <3>1. Fresh(req[r])
      BY <2>7
    <3> QED BY <1>1, <2>1, <2>5, <3>1 DEF Fresh
  <2>8. Moves(r, q)
    BY <1>1, <2>1 DEF Moves
  <2> QED BY <1>1, <2>4, <2>6, <2>7, <2>8, MoveStep
<1>4. CASE Answer(r)
  BY <1>4, <1>1, AnswerStep
<1> QED BY <1>3, <1>4 DEF FindTarget

-----------------------------------------------------------------------------
\* The transaction of a signup or creation adds a workspace that no request knows.
LEMMA CommitStep ==
  ASSUME Membership, NEW r \in Requests, At(r, "insert"), Answer(r), ~Collides(r),
         NEW w \in Workspaces \ Created, Commit(r, w), UNCHANGED <<deleted, overlapped>>
  PROVE  Membership'
<1> USE DEF Membership
<1> DEFINE u == req[r].user
           n == req[r].try
<1>1. /\ req[r] \in Queries /\ Sensible(req[r]) /\ req[r].pc = "insert"
      /\ req \in [Requests -> Queries] /\ req' = [req EXCEPT ![r] = Idle]
  BY DEF TypeOK, At, Answer
<1>2. /\ u \in Users /\ n \in Nat /\ u # None
  BY <1>1 DEF Sensible, Queries
<1>3. ~Taken(n)
  BY DEF Collides
<1> HIDE DEF u, n
<1>4. /\ users' = users \cup {u} /\ owner' = [owner EXCEPT ![w] = u]
      /\ slug' = [slug EXCEPT ![w] = n]
      /\ role' = [role EXCEPT ![w] = [@ EXCEPT ![u] = "OWNER"]]
      /\ joined' = [joined EXCEPT ![w] = [@ EXCEPT ![u] = 1]]
      /\ deleted' = deleted /\ overlapped' = overlapped
  BY DEF Commit, u, n
<1>5. /\ users \subseteq Users /\ deleted \subseteq Created
      /\ owner \in [Workspaces -> Users \cup {None}] /\ slug \in [Workspaces -> Nat]
      /\ role \in [Workspaces -> [Users -> Roles \cup {None}]]
      /\ joined \in [Workspaces -> [Users -> 0..MaxJoins]]
      /\ overlapped \subseteq Requests
  BY DEF TypeOK
<1>6. Created' = Created \cup {w} /\ w \in Workspaces /\ w \notin Created
  BY <1>2, <1>4, <1>5 DEF Created
<1>7. /\ \A v \in Created : v \in Workspaces /\ v # w
      /\ \A v \in Workspaces : v # w =>
            owner'[v] = owner[v] /\ slug'[v] = slug[v] /\ role'[v] = role[v]
      /\ owner'[w] = u /\ slug'[w] = n
      /\ role'[w] = [role[w] EXCEPT ![u] = "OWNER"]
  BY <1>4, <1>5, <1>6 DEF Created
<1>8. TypeOK'
  <2>1. owner' \in [Workspaces -> Users \cup {None}] /\ slug' \in [Workspaces -> Nat]
    BY <1>2, <1>4, <1>5
  <2>2. role' \in [Workspaces -> [Users -> Roles \cup {None}]]
    <3>1. [role[w] EXCEPT ![u] = "OWNER"] \in [Users -> Roles \cup {None}]
      BY <1>2, <1>5 DEF Roles
    <3> QED BY <1>4, <1>5, <3>1
  <2>3. joined' \in [Workspaces -> [Users -> 0..MaxJoins]]
    <3>1. [joined[w] EXCEPT ![u] = 1] \in [Users -> 0..MaxJoins]
      BY <1>2, <1>5
    <3> QED BY <1>4, <1>5, <3>1
  <2>4. req' \in [Requests -> Queries]
    BY <1>1, IdleQuery
  <2> QED BY <1>2, <1>4, <1>5, <1>6, <2>1, <2>2, <2>3, <2>4 DEF TypeOK
<1>9. Standing'
  <2>1. (\A v, x \in Created : slug[v] = slug[x] => v = x)'
    BY <1>3, <1>6, <1>7 DEF Standing, Taken
  <2>2. (\A v \in Created : owner[v] \in users)'
    BY <1>4, <1>6, <1>7 DEF Standing
  <2>3. (\A x \in users : \E v \in Created : owner[v] = x)'
    BY <1>4, <1>6, <1>7 DEF Standing
  <2>4. (\A v \in Workspaces \ Created, x \in Users : role[v][x] = None)'
    BY <1>6, <1>7 DEF Standing
  <2>5. OwnerStays'
    <3>1. ASSUME NEW x \in Users PROVE role'[w][x] = "OWNER" <=> owner'[w] = x
      <4>1. role[w][x] = None
        BY <1>6 DEF Standing
      <4> QED BY <4>1, <1>2, <1>5, <1>6, <1>7 DEF Roles
    <3>2. ASSUME NEW v \in Created, NEW x \in Users
          PROVE  role'[v][x] = "OWNER" <=> owner'[v] = x
      BY <1>7 DEF Standing, OwnerStays
    <3> QED BY <1>6, <3>1, <3>2 DEF OwnerStays
  <2> QED BY <2>1, <2>2, <2>3, <2>4, <2>5 DEF Standing
<1>10. ASSUME NEW s \in Requests PROVE Sensible(req[s])'
  <2>1. Sensible(req'[s]) /\ req'[s] \in Queries
    BY <1>1, IdleQuery DEF Sensible
  <2>2. req'[s].ws \in Created => owner'[req'[s].ws] = owner[req'[s].ws]
    BY <1>7
  <2> QED BY <2>1, <2>2, <1>4, <1>6 DEF Sensible
<1>11. ASSUME NEW s \in Requests \ overlapped' PROVE Fresh(req[s])'
  <2>1. Fresh(req'[s]) /\ Sensible(req'[s])
    BY <1>1, <1>4, IdleQuery DEF Sensible, Fresh
  <2>2. req'[s].pc \in {"look", "write"} => role'[req'[s].ws] = role[req'[s].ws]
    BY <1>7, <2>1 DEF Sensible
  <2> QED BY <2>1, <2>2, <1>4 DEF Fresh
<1> QED BY <1>8, <1>9, <1>10, <1>11

\* An insert commits or answers with a conflict.
LEMMA InsertStep ==
  ASSUME Membership, NEW r \in Requests, Insert(r)
  PROVE  Membership'
<1>1. CASE Collides(r)
  BY <1>1, AnswerStep DEF Insert, accounts
<1>2. CASE ~Collides(r)
  BY <1>2, CommitStep DEF Insert
<1> QED BY <1>1, <1>2

-----------------------------------------------------------------------------
\* A write to the members of a workspace, or to the workspace, leaves stale what every
\* other request about it has read.
LEMMA WriteStep ==
  ASSUME Membership, NEW r \in Requests, At(r, "write"), Answer(r),
         Overlap(r, req[r].ws), UNCHANGED accounts,
         deleted' \subseteq deleted \cup {req[r].ws},
         \A v \in Workspaces \ {req[r].ws} : role'[v] = role[v],
         TypeOK', OwnerStays'
  PROVE  Membership'
<1> USE DEF Membership
<1> DEFINE w == req[r].ws
<1>1. /\ req[r] \in Queries /\ Sensible(req[r]) /\ req[r].pc = "write"
      /\ req \in [Requests -> Queries] /\ req' = [req EXCEPT ![r] = Idle]
      /\ UNCHANGED <<users, owner, slug>>
  BY DEF TypeOK, At, Answer, accounts
<1>2. w \in Created
  BY <1>1 DEF Sensible
<1>3. Created' = Created /\ Created \subseteq Workspaces
  BY <1>1 DEF Created
<1>4. Standing'
  BY <1>1, <1>2, <1>3 DEF Standing
<1>5. ASSUME NEW s \in Requests PROVE Sensible(req[s])'
  <2>1. Sensible(req'[s])
    BY <1>1, IdleQuery DEF Sensible
  <2> QED BY <2>1, <1>1, <1>3 DEF Sensible
<1>6. ASSUME NEW s \in Requests \ overlapped' PROVE Fresh(req[s])'
  <2>1. CASE s = r
    BY <2>1, <1>1, IdleQuery DEF Fresh
  <2>2. CASE s # r
    <3>1. req'[s] = req[s] /\ req[s].ws # w /\ s \notin overlapped
      BY <2>2, <1>1, <1>6 DEF Overlap
    <3>2. Fresh(req[s]) /\ Sensible(req[s])
      BY <3>1
    <3>3. req[s].pc \in {"look", "write"} =>
              role'[req[s].ws] = role[req[s].ws] /\ req[s].ws \notin deleted'
      BY <3>1, <3>2, <1>3 DEF Sensible, Fresh
    <3> QED BY <3>1, <3>2, <3>3 DEF Fresh
  <2> QED BY <2>1, <2>2
<1> QED BY <1>4, <1>5, <1>6

\* Nobody who is a member already, least of all the owner, is invited.
LEMMA InviteStep ==
  ASSUME Membership, NEW r \in Requests, Invite(r)
  PROVE  Membership'
<1> USE DEF Membership
<1> DEFINE w == req[r].ws
           t == req[r].target
           g == req[r].grant
<1>1. /\ req[r] \in Queries /\ Sensible(req[r]) /\ req[r].pc = "write" /\ req[r].op = "invite"
      /\ req \in [Requests -> Queries] /\ req' = [req EXCEPT ![r] = Idle]
      /\ UNCHANGED <<users, owner, slug, deleted>>
  BY DEF TypeOK, Invite, At, Answer, accounts
<1>2. w \in Created /\ w \in Workspaces /\ t \in Users /\ g # "OWNER" /\ g \in Roles \cup {None}
  BY <1>1 DEF Sensible, Queries, Created
<1>3. CASE Current(r) # None
  BY <1>3, AnswerStep DEF Invite, accounts
<1>4. CASE Current(r) = None
  <2> HIDE DEF w, t, g
  <2>1. /\ role[w][t] = None /\ joined[w][t] < MaxJoins
        /\ role' = [role EXCEPT ![w] = [@ EXCEPT ![t] = g]]
        /\ joined' = [joined EXCEPT ![w] = [@ EXCEPT ![t] = joined[w][t] + 1]]
        /\ Overlap(r, w)
    BY <1>4 DEF Invite, Current, w, t, g
  <2>2. /\ role \in [Workspaces -> [Users -> Roles \cup {None}]]
        /\ joined \in [Workspaces -> [Users -> 0..MaxJoins]]
        /\ overlapped \subseteq Requests
    BY DEF TypeOK
  <2>3. /\ role' \in [Workspaces -> [Users -> Roles \cup {None}]]
        /\ \A v \in Workspaces \ {w} : role'[v] = role[v]
        /\ role'[w] = [role[w] EXCEPT ![t] = g]
    <3>1. [role[w] EXCEPT ![t] = g] \in [Users -> Roles \cup {None}]
      BY <1>2, <2>2
    <3> QED BY <1>2, <2>1, <2>2, <3>1
  <2>4. joined' \in [Workspaces -> [Users -> 0..MaxJoins]]
    <3>1. joined[w][t] + 1 \in 0..MaxJoins
      BY <1>2, <2>1, <2>2
    <3>2. [joined[w] EXCEPT ![t] = joined[w][t] + 1] \in [Users -> 0..MaxJoins]
      BY <1>2, <2>2, <3>1
    <3> QED BY <1>2, <2>1, <2>2, <3>2
  <2>5. Created' = Created
    BY <1>1 DEF Created
  <2>6. TypeOK'
    BY <1>1, <2>1, <2>2, <2>3, <2>4, <2>5, IdleQuery DEF TypeOK, Overlap
  <2>7. OwnerStays'
    BY <1>1, <1>2, <2>1, <2>2, <2>3, <2>5 DEF Standing, OwnerStays, Roles
  <2> QED BY <1>1, <2>1, <2>3, <2>6, <2>7, WriteStep DEF Invite, w
<1> QED BY <1>3, <1>4

\* The member whose row is changed or removed is not the owner, who was not when the
\* row was read.
LEMMA WriteTargetStep ==
  ASSUME Membership, NEW r \in Requests, WriteTarget(r)
  PROVE  Membership'
<1> USE DEF Membership
<1> DEFINE w == req[r].ws
           t == req[r].target
           g == req[r].grant
<1>1. /\ req[r] \in Queries /\ Sensible(req[r]) /\ req[r].pc = "write"
      /\ req[r].op \in {"update", "remove"}
      /\ req \in [Requests -> Queries] /\ req' = [req EXCEPT ![r] = Idle]
      /\ UNCHANGED <<users, owner, slug, deleted, joined>>
  BY DEF TypeOK, WriteTarget, At, Answer, accounts
<1>2. /\ w \in Created /\ w \in Workspaces /\ t \in Users /\ t # owner[w]
      /\ g # "OWNER" /\ g \in Roles \cup {None}
  BY <1>1 DEF Sensible, Queries, Created
<1>3. CASE Current(r) = None \/ joined[w][t] # req[r].row
  BY <1>3, AnswerStep DEF WriteTarget, accounts
<1>4. CASE ~(Current(r) = None \/ joined[w][t] # req[r].row)
  <2>1. role' = [role EXCEPT ![w] = [@ EXCEPT ![t] = g]] /\ Overlap(r, w)
    BY <1>4 DEF WriteTarget
  <2> HIDE DEF w, t, g
  <2>2. /\ role \in [Workspaces -> [Users -> Roles \cup {None}]]
        /\ overlapped \subseteq Requests
    BY DEF TypeOK
  <2>3. /\ role' \in [Workspaces -> [Users -> Roles \cup {None}]]
        /\ \A v \in Workspaces \ {w} : role'[v] = role[v]
        /\ role'[w] = [role[w] EXCEPT ![t] = g]
    <3>1. [role[w] EXCEPT ![t] = g] \in [Users -> Roles \cup {None}]
      BY <1>2, <2>2
    <3> QED BY <1>2, <2>1, <2>2, <3>1
  <2>5. Created' = Created
    BY <1>1 DEF Created
  <2>6. TypeOK'
    BY <1>1, <2>1, <2>2, <2>3, <2>5, IdleQuery DEF TypeOK, Overlap
  <2>7. OwnerStays'
    BY <1>1, <1>2, <2>1, <2>2, <2>3, <2>5 DEF Standing, OwnerStays
  <2> QED BY <1>1, <2>1, <2>3, <2>6, <2>7, WriteStep DEF WriteTarget, w
<1> QED BY <1>3, <1>4

\* A deleted workspace keeps its members.
LEMMA SoftDeleteStep ==
  ASSUME Membership, NEW r \in Requests, SoftDelete(r)
  PROVE  Membership'
<1> USE DEF Membership
<1>1. /\ req[r] \in Queries /\ Sensible(req[r]) /\ req[r].pc = "write"
      /\ req \in [Requests -> Queries] /\ req' = [req EXCEPT ![r] = Idle]
      /\ UNCHANGED <<users, owner, slug, role, joined>>
      /\ deleted' = deleted \cup {req[r].ws} /\ Overlap(r, req[r].ws)
  BY DEF TypeOK, SoftDelete, At, Answer, accounts
<1>2. req[r].ws \in Created /\ Created' = Created
  BY <1>1 DEF Sensible, Created
<1>3. TypeOK'
  BY <1>1, <1>2, IdleQuery DEF TypeOK, Overlap
<1>4. OwnerStays'
  BY <1>1, <1>2 DEF Standing, OwnerStays
<1> QED BY <1>1, <1>3, <1>4, WriteStep DEF SoftDelete

-----------------------------------------------------------------------------
\* Every step keeps the rows and what requests know of them.
LEMMA MembershipStep == Membership /\ [Next]_vars => Membership'
<1> SUFFICES ASSUME Membership, [Next]_vars PROVE Membership'
  OBVIOUS
<1>1. ASSUME NEW r \in Requests, NEW u \in Users, Signup(r, u) \/ Create(r, u)
      PROVE  Membership'
  BY <1>1, SignupStep, CreateStep
<1>2. ASSUME NEW r \in Requests, NEW u \in Users, NEW w \in Managed, ReceiveDeletion(r, u, w)
      PROVE  Membership'
  BY <1>2, ReceiveDeletionStep
<1>3. ASSUME NEW r \in Requests, NEW u \in Users, NEW w \in Managed, NEW t \in Users,
             Manage(r, "remove", u, w, t, None)
      PROVE  Membership'
  BY <1>3, ManageStep
<1>4. ASSUME NEW r \in Requests, NEW u \in Users, NEW w \in Managed, NEW t \in Users,
             NEW op \in {"invite", "update"}, NEW g \in Grants, Manage(r, op, u, w, t, g)
      PROVE  Membership'
  BY <1>4, ManageStep
<1>5. ASSUME NEW r \in Requests, Probe(r) \/ Insert(r) PROVE Membership'
  BY <1>5, ProbeStep, InsertStep
<1>6. ASSUME NEW r \in Requests, FindInvitee(r) \/ FindTarget(r) PROVE Membership'
  BY <1>6, FindInviteeStep, FindTargetStep
<1>7. ASSUME NEW r \in Requests, Invite(r) \/ WriteTarget(r) \/ SoftDelete(r)
      PROVE  Membership'
  BY <1>7, InviteStep, WriteTargetStep, SoftDeleteStep
<1>8. ASSUME NEW r \in Requests, Abandon(r) PROVE Membership'
  BY <1>8, AnswerStep DEF Abandon, accounts
<1>9. ASSUME UNCHANGED vars PROVE Membership'
  <2>1. UNCHANGED <<users, owner, slug, deleted, role, joined, req, overlapped>>
    BY <1>9 DEF vars, accounts
  <2>2. Created' = Created
    BY <2>1 DEF Created
  <2>3. TypeOK' /\ Standing'
    BY <2>1, <2>2 DEF Membership, TypeOK, Standing, OwnerStays
  <2> QED BY <2>1, <2>2, <2>3 DEF Membership, Sensible, Fresh
<1> QED BY <1>1, <1>2, <1>3, <1>4, <1>5, <1>6, <1>7, <1>8, <1>9 DEF Next

\* The rows have their types, the ones that requests under way keep, too.
THEOREM MembershipHolds == Spec => []Membership
BY MembershipInit, MembershipStep, PTL DEF Spec

\* Whatever managers invite, change and remove at once, a workspace has one OWNER, and
\* it is who created it.
THEOREM OwnersStay == Spec => []OwnerStays
<1>1. Membership => OwnerStays
  BY DEF Membership, Standing
<1> QED BY <1>1, MembershipHolds, PTL

\* A signup that loses its race leaves nothing, and one that wins it leaves a user with
\* a workspace whose slug no other has.
THEOREM SignupsWhole == Spec => []SignupWhole
<1>1. Membership => SignupWhole
  <2> SUFFICES ASSUME Membership PROVE SignupWhole
    OBVIOUS
  <2>1. TypeOK /\ Standing /\ OwnerStays
    BY DEF Membership, Standing
  <2>2. \A u \in users : \E w \in Created : owner[w] = u /\ role[w][u] = "OWNER"
    BY <2>1 DEF Standing, OwnerStays, TypeOK
  <2> QED BY <2>1, <2>2 DEF SignupWhole, Standing
<1> QED BY <1>1, MembershipHolds, PTL

-----------------------------------------------------------------------------
\* A request that writes is the one that is answered.
LEMMA WriterAnswered ==
  ASSUME Membership, Next, NEW r \in Requests, At(r, "write"), req'[r] = Idle,
         role' # role \/ deleted' # deleted
  PROVE  Invite(r) \/ WriteTarget(r) \/ SoftDelete(r)
<1>1. /\ req \in [Requests -> Queries] /\ req[r].pc = "write"
  BY DEF Membership, TypeOK, At
<1>2. req'[r] # req[r]
  BY <1>1, IdleQuery
<1>3. ASSUME NEW s \in Requests, Invite(s) \/ WriteTarget(s) \/ SoftDelete(s)
      PROVE  Invite(r) \/ WriteTarget(r) \/ SoftDelete(r)
  <2>1. s = r
    BY <1>1, <1>2, <1>3 DEF Invite, WriteTarget, SoftDelete, Answer
  <2> QED BY <2>1, <1>3
<1>4. ASSUME NEW s \in Requests, Insert(s) PROVE FALSE
  <2>1. s = r
    BY <1>1, <1>2, <1>4 DEF Insert, Answer
  <2> QED BY <2>1, <1>1, <1>4 DEF Insert, At
<1>5. ASSUME NEW s \in Requests, NEW u \in Users,
             \/ Signup(s, u) \/ Create(s, u)
             \/ \E w \in Managed : ReceiveDeletion(s, u, w)
      PROVE  FALSE
  BY <1>5 DEF Signup, Create, ReceiveDeletion
<1>6. ASSUME NEW s \in Requests, NEW u \in Users, NEW w \in Managed, NEW t \in Users,
             \/ Manage(s, "remove", u, w, t, None)
             \/ \E op \in {"invite", "update"}, g \in Grants : Manage(s, op, u, w, t, g)
      PROVE  FALSE
  BY <1>6 DEF Manage
<1>7. ASSUME NEW s \in Requests, Probe(s) \/ FindInvitee(s) \/ FindTarget(s) \/ Abandon(s)
      PROVE  FALSE
  BY <1>7 DEF Probe, FindInvitee, FindTarget, Abandon
<1> QED BY <1>3, <1>4, <1>5, <1>6, <1>7 DEF Next

\* A request that nobody overlapped may do what it does.
LEMMA WriterAllowed ==
  ASSUME Membership, Next, NEW r \in Requests, At(r, "write"), req'[r] = Idle,
         r \notin overlapped, role' # role \/ deleted' # deleted
  PROVE  Allowed(req[r])
<1> DEFINE q == req[r]
           w == q.ws
           t == q.target
<1>1. Sensible(q) /\ Fresh(q) /\ q.pc = "write" /\ OwnerStays
  BY DEF Membership, Standing, At
<1>2. /\ w \in Created /\ q.user \in Users /\ w \notin deleted
      /\ role[w][q.user] \in Managers
      /\ q.op = "delete" => role[w][q.user] = "OWNER"
      /\ q.op # "delete" => role[w][q.user] = q.as
  BY <1>1 DEF Sensible, Fresh, Managers
<1>3. q.op # "delete" => t \in Users
  BY <1>1 DEF Sensible
<1>4. CASE Invite(r)
  <2>1. role[w][t] = None
    BY <1>4 DEF Invite, Current
  <2> QED BY <1>2, <1>4, <2>1 DEF Allowed, Roles, Invite
<1>5. CASE WriteTarget(r)
  <2>1. q.op \in {"update", "remove"}
    BY <1>5 DEF WriteTarget
  <2>2. role[w][t] # "OWNER" /\ ~(q.as = "ADMIN" /\ role[w][t] = "ADMIN")
    BY <1>1, <1>2, <1>3, <2>1 DEF Sensible, Fresh, OwnerStays
  <2> QED BY <1>2, <2>1, <2>2 DEF Allowed
<1>6. CASE SoftDelete(r)
  BY <1>2, <1>6 DEF SoftDelete, Allowed
<1> QED BY <1>4, <1>5, <1>6, WriterAnswered

\* A request that nobody overlapped changes a role, a membership or a workspace only as
\* the table of roles allows at the moment it writes.
THEOREM WritesAuthorised == Spec => Authorised
<1>1. Membership /\ [Next]_vars =>
          [\A r \in Requests :
              At(r, "write") /\ req'[r] = Idle /\ r \notin overlapped
                  /\ (role' # role \/ deleted' # deleted) => Allowed(req[r])]_vars
  <2> SUFFICES ASSUME Membership, Next, NEW r \in Requests, At(r, "write"),
                      req'[r] = Idle, r \notin overlapped, role' # role \/ deleted' # deleted
               PROVE  Allowed(req[r])
    OBVIOUS
  <2> QED BY WriterAllowed
<1> QED BY <1>1, MembershipHolds, PTL DEF Spec, Authorised

===============================================================================
