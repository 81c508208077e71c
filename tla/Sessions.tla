------------------------------ MODULE Sessions ------------------------------
(***************************************************************************)
(* Refresh tokens: logins issue them, refreshes rotate them, logouts       *)
(* revoke them, and time expires them.  One step is one awaited call.      *)
(*                                                                         *)
(* A device keeps the last token it was given and sends it with its        *)
(* requests.  Access tokens are not modelled: no state of the server       *)
(* depends on them.  Users are not either: no code deletes one, and a      *)
(* password that does not match changes nothing.                           *)
(***************************************************************************)

CONSTANTS
    Tokens,         \* the refresh tokens the server may issue, a bound of the model
    Devices,        \* the places where a client stores its token
    Requests,       \* one auth request at a time each
    DeviceOf,       \* the device a request is sent by
    Aborts,         \* whether requests may end half-way
    None

ASSUME SessionsAssumption ==
    /\ None \notin Tokens
    /\ DeviceOf \in [Requests -> Devices]
    /\ Aborts \in BOOLEAN

VARIABLES
    origin,             \* the token of the login that a token descends from
    revoked, expired,   \* tokens with revokedAt set, with expiresAt in the past
    held,               \* the token a device keeps
    pc, hand,           \* where a request stands, and the token it works with
    ended, cut, raced   \* history: the logins that were logged out, those of requests
                        \* that were cut off, and those of a refresh or logout whose
                        \* token another request had revoked in the meantime

table == <<origin, revoked, expired>>
vars  == <<table, held, pc, hand, ended, cut, raced>>

Pc == {"idle", "find", "revoke", "issue", "reply", "logout"}

TypeOK ==
    /\ origin \in [Tokens -> Tokens \cup {None}]
    /\ revoked \subseteq Tokens /\ expired \subseteq Tokens /\ ended \subseteq Tokens
    /\ cut \subseteq Tokens /\ raced \subseteq Tokens
    /\ held \in [Devices -> Tokens \cup {None}]
    /\ pc \in [Requests -> Pc]
    /\ hand \in [Requests -> Tokens \cup {None}]

Issued(t) == origin[t] # None
Live(t)   == Issued(t) /\ t \notin revoked \cup expired

Init ==
    /\ origin = [t \in Tokens |-> None]
    /\ revoked = {} /\ expired = {}
    /\ ended = {} /\ cut = {} /\ raced = {}
    /\ held = [d \in Devices |-> None]
    /\ pc = [r \in Requests |-> "idle"]
    /\ hand = [r \in Requests |-> None]

\* Request r goes on at l with token t.
Goto(r, l, t) == pc' = [pc EXCEPT ![r] = l] /\ hand' = [hand EXCEPT ![r] = t]
End(r) == Goto(r, "idle", None)

\* A signup or a login with the right password; it is about to issue a token.
Login(r) ==
    /\ pc[r] = "idle"
    /\ Goto(r, "issue", None)
    /\ UNCHANGED <<table, held, ended, cut, raced>>

Refresh(r) ==
    /\ pc[r] = "idle" /\ held[DeviceOf[r]] # None
    /\ Goto(r, "find", held[DeviceOf[r]])
    /\ UNCHANGED <<table, held, ended, cut, raced>>

Find(r) ==
    /\ pc[r] = "find" /\ Live(hand[r])
    /\ Goto(r, "revoke", hand[r])
    /\ UNCHANGED <<table, held, ended, cut, raced>>

Refuse(r) ==
    /\ pc[r] = "find" /\ ~Live(hand[r])
    /\ End(r)
    /\ UNCHANGED <<table, held, ended, cut, raced>>

\* Request r revokes its token; another one may have done so before.
RevokeHand(r) ==
    /\ revoked' = revoked \cup {hand[r]}
    /\ raced' = IF hand[r] \in revoked THEN raced \cup {origin[hand[r]]} ELSE raced

\* Mutant: the old token stays.
RevokeNothing(r) ==
    /\ pc[r] = "revoke"
    /\ Goto(r, "issue", hand[r])
    /\ UNCHANGED <<table, held, ended, cut, raced>>

\* The update is by id alone: it succeeds on a token that was revoked meanwhile.
Revoke(r) ==
    /\ pc[r] = "revoke"
    /\ RevokeHand(r)
    /\ Goto(r, "issue", hand[r])
    /\ UNCHANGED <<origin, expired, held, ended, cut>>

Issue(r) ==
    /\ pc[r] = "issue"
    /\ \E t \in Tokens :
        /\ ~Issued(t)
        /\ origin' = [origin EXCEPT ![t] = IF hand[r] = None THEN t ELSE origin[hand[r]]]
        /\ Goto(r, "reply", t)
    /\ UNCHANGED <<revoked, expired, held, ended, cut, raced>>

Reply(r) ==
    /\ pc[r] = "reply"
    /\ held' = [held EXCEPT ![DeviceOf[r]] = hand[r]]
    /\ End(r)
    /\ UNCHANGED <<table, ended, cut, raced>>

\* The device forgets its token and asks the server to revoke it.
Logout(r) ==
    /\ pc[r] = "idle" /\ held[DeviceOf[r]] # None
    /\ Goto(r, "logout", held[DeviceOf[r]])
    /\ held' = [held EXCEPT ![DeviceOf[r]] = None]
    /\ UNCHANGED <<table, ended, cut, raced>>

\* Mutants: nothing is revoked; the update is not limited to the token.
RevokeLoggedOutNothing(r) ==
    /\ pc[r] = "logout"
    /\ ended' = ended \cup {origin[hand[r]]}
    /\ End(r)
    /\ UNCHANGED <<table, held, cut, raced>>

RevokeLoggedOutAll(r) ==
    /\ pc[r] = "logout"
    /\ revoked' = {t \in Tokens : Issued(t)}
    /\ ended' = ended \cup {origin[hand[r]]}
    /\ End(r)
    /\ UNCHANGED <<origin, expired, held, cut, raced>>

RevokeLoggedOut(r) ==
    /\ pc[r] = "logout"
    /\ RevokeHand(r)
    /\ ended' = ended \cup {origin[hand[r]]}
    /\ End(r)
    /\ UNCHANGED <<origin, expired, held, cut>>

Expire(t) ==
    /\ Live(t)
    /\ expired' = expired \cup {t}
    /\ UNCHANGED <<origin, revoked, held, pc, hand, ended, cut, raced>>

\* A crash, a database error, or an answer that never reaches the device: whatever
\* was committed stays, nothing else happens.
Abort(r) ==
    /\ Aborts /\ pc[r] # "idle"
    /\ cut' = cut \cup {origin[t] : t \in {hand[r]} \ {None}}
    /\ End(r)
    /\ UNCHANGED <<table, held, ended, raced>>

Next ==
    \/ \E r \in Requests :
          \/ Login(r) \/ Refresh(r) \/ Logout(r)
          \/ Find(r) \/ Refuse(r) \/ Revoke(r) \/ Issue(r) \/ Reply(r)
          \/ RevokeLoggedOut(r) \/ Abort(r)
    \/ \E t \in Tokens : Expire(t)

Spec == Init /\ [][Next]_vars

-----------------------------------------------------------------------------
\* A login has at most one refresh token that works: what was rotated away is dead,
\* wherever a refresh is cut off.  Only a request whose token was revoked between its
\* check and its own update can leave a second one.
OneLiveToken ==
    \A s, t \in Tokens :
        Live(s) /\ Live(t) /\ origin[s] = origin[t] /\ origin[s] \notin raced => s = t

\* When a logout is through, no token of its login works any more, the ones that
\* earlier refreshes issued included; unless the token that the device knew, or one
\* that another request of the login held, had been revoked before its own update.
LogoutEnds == \A t \in Tokens : origin[t] \in ended \ raced => ~Live(t)

\* A device that waits for no answer holds a token that nobody has revoked, unless
\* requests of its login raced or were cut off: neither rotations nor the logouts of
\* other devices sign it out.
HeldTokenWorks ==
    \A d \in Devices :
        /\ held[d] # None /\ origin[held[d]] \notin cut \cup raced
        /\ \A r \in Requests : DeviceOf[r] = d => pc[r] = "idle"
        => held[d] \notin revoked

-----------------------------------------------------------------------------
(* The inductive invariants.                                               *)

HandsSound ==
    /\ \A r \in Requests :
        /\ pc[r] \in {"find", "revoke", "reply", "logout"} => hand[r] # None
        /\ hand[r] # None => Issued(hand[r])
    /\ \A d \in Devices : held[d] # None => Issued(held[d])
    /\ \A t \in Tokens : Issued(t) => Issued(origin[t])

\* Request r is about to issue the successor of its token.
Succeeds(r) == pc[r] = "issue" /\ hand[r] # None

\* A login that did not race has one token that is not revoked, or one request that is
\* about to issue it.
OneOpen ==
    /\ \A s, t \in Tokens \ revoked :
        Issued(s) /\ Issued(t) /\ origin[s] = origin[t] /\ origin[s] \notin raced => s = t
    /\ \A r \in Requests : Succeeds(r) /\ origin[hand[r]] \notin raced =>
        \A t \in Tokens : origin[t] = origin[hand[r]] => t \in revoked
    /\ \A q, r \in Requests :
        Succeeds(q) /\ Succeeds(r) /\ origin[hand[q]] = origin[hand[r]]
            /\ origin[hand[q]] \notin raced => q = r

Rotation == TypeOK /\ HandsSound /\ OneOpen

\* Device d, or a request that it sent, has a token of login o.
Keeps(d, o) ==
    \/ held[d] # None /\ origin[held[d]] = o
    \/ \E r \in Requests : DeviceOf[r] = d /\ hand[r] # None /\ origin[hand[r]] = o

OneDevice ==
    \A o \in Tokens, d, e \in Devices : Keeps(d, o) /\ Keeps(e, o) => d = e

\* Nobody else has the token that a request is about to hand out, and no device keeps
\* the token that a request is about to log out.
InTransit ==
    \A r \in Requests :
        /\ pc[r] = "reply" =>
              hand[r] \notin revoked /\ \A q \in Requests \ {r} : hand[q] # hand[r]
        /\ pc[r] \in {"reply", "logout"} => \A d \in Devices : held[d] # hand[r]

LoggedOut ==
    \A o \in ended \ raced :
        /\ \A t \in Tokens : origin[t] = o => t \in revoked
        /\ \A r \in Requests : Succeeds(r) => origin[hand[r]] # o

\* Request r brings device d the successor of the token it holds.
Brings(r, d) ==
    /\ DeviceOf[r] = d /\ pc[r] \in {"issue", "reply"}
    /\ hand[r] # None /\ origin[hand[r]] = origin[held[d]]

Kept ==
    \A d \in Devices :
        held[d] # None /\ origin[held[d]] \notin cut \cup raced /\ held[d] \in revoked
            => \E r \in Requests : Brings(r, d)

Custody ==
    /\ \A t \in revoked \cup ended : Issued(t)
    /\ OneDevice /\ InTransit /\ LoggedOut /\ Kept
=============================================================================
