---------------------------- MODULE SessionsProofs ----------------------------
(***************************************************************************)
(* A login has at most one refresh token that works, a logout ends its     *)
(* login, and a device keeps a token that works, unless two requests of a  *)
(* login raced for the same token: for any number of tokens, devices and   *)
(* requests, and wherever requests are cut off.                            *)
(***************************************************************************)
EXTENDS Sessions, TLAPS

\* Initially no token exists.
LEMMA InitRotation == Init => Rotation
<1> SUFFICES ASSUME Init PROVE Rotation
  OBVIOUS
<1>1. TypeOK
  BY DEF Init, TypeOK, Pc
<1>2. HandsSound /\ OneOpen
  BY DEF Init, HandsSound, OneOpen, Succeeds, Issued
<1> QED
  BY <1>1, <1>2 DEF Rotation

\* A request that goes on with its token or one that exists, or that ends, issues and
\* revokes nothing.
LEMMA MoveRotation ==
    ASSUME Rotation, origin' = origin, revoked' = revoked, raced' = raced,
           expired' \subseteq Tokens, ended' \subseteq Tokens, cut' \subseteq Tokens,
           held' \in [Devices -> Tokens \cup {None}],
           \A d \in Devices : held'[d] # None => Issued(held'[d]),
           NEW r \in Requests, NEW l \in Pc, NEW t \in Tokens \cup {None},
           Goto(r, l, t), t # None => Issued(t),
           l \in {"find", "revoke", "reply", "logout"} => t # None,
           l = "issue" => t = None
    PROVE  Rotation'
<1> USE SessionsAssumption DEF Rotation
<1>1. pc' = [pc EXCEPT ![r] = l] /\ hand' = [hand EXCEPT ![r] = t]
  BY DEF Goto
<1>2. TypeOK'
  BY <1>1 DEF TypeOK
<1>3. HandsSound'
  BY <1>1 DEF HandsSound, TypeOK, Issued
<1>4. \A q \in Requests : Succeeds(q)' => Succeeds(q) /\ hand'[q] = hand[q]
  BY <1>1 DEF Succeeds, TypeOK
<1>5. OneOpen'
  BY <1>4 DEF OneOpen, Issued
<1> QED
  BY <1>2, <1>3, <1>5

\* Revoking the token of a request: the request of a login that did not race was the
\* only one that could.
LEMMA RevokeRotation ==
    ASSUME Rotation, NEW r \in Requests, Revoke(r) \/ RevokeLoggedOut(r)
    PROVE  Rotation'
<1> USE SessionsAssumption DEF Rotation
<1> DEFINE h == hand[r]
           l == pc'[r]
<1>1. /\ h \in Tokens /\ h # None /\ Issued(h) /\ origin[h] \in Tokens
      /\ origin' = origin /\ expired' = expired /\ held' = held /\ cut' = cut
      /\ revoked' = revoked \cup {h}
      /\ raced' = IF h \in revoked THEN raced \cup {origin[h]} ELSE raced
  BY DEF Revoke, RevokeLoggedOut, RevokeHand, HandsSound, TypeOK, Issued
<1>2. /\ pc' = [pc EXCEPT ![r] = l] /\ hand' = [hand EXCEPT ![r] = hand'[r]]
      /\ \/ l = "issue" /\ hand'[r] = h
         \/ l = "idle" /\ hand'[r] = None
  BY DEF Revoke, RevokeLoggedOut, Goto, End, TypeOK
<1>3. ended' \subseteq Tokens /\ raced' \subseteq Tokens
  BY <1>1 DEF Revoke, RevokeLoggedOut, TypeOK
<1>4. TypeOK'
  BY <1>1, <1>2, <1>3 DEF TypeOK, Pc
<1>5. HandsSound'
  BY <1>1, <1>2 DEF HandsSound, TypeOK, Issued
<1>6. raced \subseteq raced' /\ revoked \subseteq revoked'
  BY <1>1
<1>7. /\ \A q \in Requests : q # r => hand'[q] = hand[q] /\ pc'[q] = pc[q]
      /\ \A q \in Requests \ {r} : Succeeds(q)' => Succeeds(q)
  BY <1>2 DEF Succeeds, TypeOK
<1>8. ASSUME origin[h] \notin raced' PROVE
        /\ \A t \in Tokens : origin[t] = origin[h] => t \in revoked'
        /\ \A q \in Requests : Succeeds(q) => origin[hand[q]] # origin[h]
  <2>1. h \notin revoked /\ origin[h] \notin raced
    BY <1>8, <1>1
  <2>2. \A t \in Tokens : origin[t] = origin[h] => Issued(t)
    BY <1>1 DEF Issued
  <2>3. \A t \in Tokens : origin[t] = origin[h] => t \in revoked \/ t = h
    BY <2>1, <2>2, <1>1 DEF OneOpen
  <2>4. \A q \in Requests : Succeeds(q) => origin[hand[q]] # origin[h]
    BY <2>1, <1>1 DEF OneOpen
  <2> QED
    BY <2>3, <2>4, <1>1
<1>9. OneOpen'
  <2>1. \A s, t \in Tokens \ revoked' :
            Issued(s)' /\ Issued(t)' /\ origin'[s] = origin'[t] /\ origin'[s] \notin raced' => s = t
    BY <1>1, <1>6 DEF OneOpen, Issued
  <2>2. \A q \in Requests : Succeeds(q)' /\ origin'[hand'[q]] \notin raced' =>
            \A t \in Tokens : origin'[t] = origin'[hand'[q]] => t \in revoked'
    <3> SUFFICES ASSUME NEW q \in Requests, Succeeds(q)', origin'[hand'[q]] \notin raced',
                        NEW t \in Tokens, origin'[t] = origin'[hand'[q]]
                 PROVE  t \in revoked'
      OBVIOUS
    <3>1. CASE q = r
      BY <3>1, <1>1, <1>2, <1>8 DEF Succeeds
    <3>2. CASE q # r
      BY <3>2, <1>1, <1>6, <1>7 DEF OneOpen
    <3> QED
      BY <3>1, <3>2
  <2>3. \A p, q \in Requests :
            Succeeds(p)' /\ Succeeds(q)' /\ origin'[hand'[p]] = origin'[hand'[q]]
                /\ origin'[hand'[p]] \notin raced' => p = q
    <3> SUFFICES ASSUME NEW p \in Requests, NEW q \in Requests, Succeeds(p)', Succeeds(q)',
                        origin'[hand'[p]] = origin'[hand'[q]],
                        origin'[hand'[p]] \notin raced', p # q
                 PROVE  FALSE
      OBVIOUS
    <3>1. CASE p # r /\ q # r
      BY <3>1, <1>1, <1>6, <1>7 DEF OneOpen
    <3>2. CASE p = r
      BY <3>2, <1>1, <1>2, <1>7, <1>8 DEF Succeeds
    <3>3. CASE q = r
      BY <3>3, <1>1, <1>2, <1>7, <1>8 DEF Succeeds
    <3> QED
      BY <3>1, <3>2, <3>3
  <2> QED
    BY <2>1, <2>2, <2>3 DEF OneOpen
<1> QED
  BY <1>4, <1>5, <1>9

\* A token is issued to a login that is new, or whose tokens are all revoked.
LEMMA IssueRotation ==
    ASSUME Rotation, NEW r \in Requests, Issue(r)
    PROVE  Rotation'
<1> USE SessionsAssumption DEF Rotation
<1>1. PICK t \in Tokens :
        /\ ~Issued(t)
        /\ origin' = [origin EXCEPT ![t] = IF hand[r] = None THEN t ELSE origin[hand[r]]]
        /\ pc' = [pc EXCEPT ![r] = "reply"] /\ hand' = [hand EXCEPT ![r] = t]
        /\ pc[r] = "issue"
  BY DEF Issue, Goto
<1> DEFINE o == IF hand[r] = None THEN t ELSE origin[hand[r]]
<1>2. /\ revoked' = revoked /\ expired' = expired /\ held' = held
      /\ ended' = ended /\ cut' = cut /\ raced' = raced
      /\ hand[r] \in Tokens \cup {None} /\ t # None
  BY DEF Issue, TypeOK
<1>3. o \in Tokens /\ o # None
  BY <1>2 DEF HandsSound, TypeOK, Issued
<1>4. /\ origin'[t] = o
      /\ \A s \in Tokens : s # t => origin'[s] = origin[s]
  BY <1>1 DEF TypeOK
<1>5. TypeOK'
  BY <1>1, <1>2, <1>3 DEF TypeOK, Pc
<1>6. \A s \in Tokens : Issued(s) => s # t /\ origin'[s] = origin[s] /\ Issued(origin[s])
  BY <1>1, <1>4 DEF HandsSound
<1>7. /\ \A q \in Requests : q # r => hand'[q] = hand[q] /\ pc'[q] = pc[q]
      /\ hand'[r] = t /\ pc'[r] = "reply"
  BY <1>1 DEF TypeOK
<1>8. /\ \A q \in Requests : hand[q] # None =>
            hand[q] \in Tokens /\ Issued(hand[q]) /\ hand[q] # t /\ origin'[hand[q]] = origin[hand[q]]
      /\ \A d \in Devices : held[d] # None =>
            held[d] \in Tokens /\ Issued(held[d]) /\ held[d] # t /\ origin'[held[d]] = origin[held[d]]
  BY <1>6 DEF HandsSound, TypeOK
<1>9. HandsSound'
  <2>1. \A s \in Tokens : origin'[s] # None <=> Issued(s) \/ s = t
    BY <1>2, <1>3, <1>4, <1>6 DEF Issued
  <2>2. Issued(o) \/ o = t
    BY <1>2 DEF HandsSound
  <2>3. \A s \in Tokens : origin'[s] # None => origin'[origin'[s]] # None
    <3>1. \A s \in Tokens : Issued(s) => origin[s] \in Tokens /\ origin'[origin[s]] # None
      BY <1>6, <2>1 DEF TypeOK, Issued
    <3>2. origin'[o] # None
      BY <1>3, <2>1, <2>2
    <3> QED
      BY <1>4, <1>6, <2>1, <3>1, <3>2
  <2>4. \A q \in Requests : hand'[q] # None => origin'[hand'[q]] # None
    BY <1>7, <1>8, <2>1
  <2>5. \A d \in Devices : held'[d] # None => origin'[held'[d]] # None
    BY <1>2, <1>8, <2>1
  <2>6. \A q \in Requests :
            pc'[q] \in {"find", "revoke", "reply", "logout"} => hand'[q] # None
    BY <1>2, <1>7 DEF HandsSound
  <2> QED
    BY <2>3, <2>4, <2>5, <2>6 DEF HandsSound, Issued
<1>10. \A s \in Tokens : Issued(s) /\ hand[r] = None => origin[s] # o
  BY <1>1, <1>6
<1>11. \A q \in Requests : Succeeds(q)' => q # r /\ Succeeds(q) /\ hand'[q] = hand[q]
  BY <1>7 DEF Succeeds
\* What is open in the login of t: t alone, unless the login raced.
<1>12. \A s \in Tokens : s \notin revoked /\ Issued(s) /\ o \notin raced => origin[s] # o
  <2>1. hand[r] # None => Succeeds(r)
    BY <1>1 DEF Succeeds
  <2> QED
    BY <2>1, <1>10 DEF OneOpen
<1>13. \A q \in Requests : q # r /\ Succeeds(q) /\ o \notin raced => origin[hand[q]] # o
  <2>1. hand[r] # None => Succeeds(r)
    BY <1>1 DEF Succeeds
  <2>2. \A q \in Requests : Succeeds(q) => hand[q] # None
    BY DEF Succeeds
  <2> QED
    BY <2>1, <2>2, <1>8, <1>10 DEF OneOpen
<1>14. OneOpen'
  <2>1. ASSUME NEW a \in Tokens \ revoked', NEW b \in Tokens \ revoked',
               Issued(a)', Issued(b)', origin'[a] = origin'[b], origin'[a] \notin raced'
        PROVE  a = b
    <3>1. \A s \in Tokens : Issued(s)' => Issued(s) \/ s = t
      BY <1>4 DEF Issued
    <3>2. CASE a = t \/ b = t
      BY <2>1, <3>1, <3>2, <1>2, <1>4, <1>6, <1>12
    <3>3. CASE a # t /\ b # t
      BY <2>1, <3>1, <3>3, <1>2, <1>4 DEF OneOpen
    <3> QED
      BY <3>2, <3>3
  <2>2. ASSUME NEW q \in Requests, Succeeds(q)', origin'[hand'[q]] \notin raced',
               NEW s \in Tokens, origin'[s] = origin'[hand'[q]]
        PROVE  s \in revoked'
    <3>1. /\ q # r /\ Succeeds(q) /\ hand'[q] = hand[q] /\ hand[q] # None
          /\ origin'[hand[q]] = origin[hand[q]]
      BY <2>2, <1>8, <1>11 DEF Succeeds
    <3>2. s # t
      BY <2>2, <3>1, <1>2, <1>4, <1>13
    <3> QED
      BY <2>2, <3>1, <3>2, <1>2, <1>4 DEF OneOpen
  <2>3. ASSUME NEW p \in Requests, NEW q \in Requests, Succeeds(p)', Succeeds(q)',
               origin'[hand'[p]] = origin'[hand'[q]], origin'[hand'[p]] \notin raced'
        PROVE  p = q
    <3>1. /\ Succeeds(p) /\ hand'[p] = hand[p] /\ hand[p] # None
          /\ Succeeds(q) /\ hand'[q] = hand[q] /\ hand[q] # None
      BY <2>3, <1>11 DEF Succeeds
    <3>2. origin'[hand[p]] = origin[hand[p]] /\ origin'[hand[q]] = origin[hand[q]]
      BY <3>1, <1>8
    <3> QED
      BY <2>3, <3>1, <3>2, <1>2 DEF OneOpen
  <2> QED
    BY <2>1, <2>2, <2>3 DEF OneOpen
<1> QED
  BY <1>5, <1>9, <1>14

\* Every step keeps the invariant, one case per action.
LEMMA NextRotation == Rotation /\ [Next]_vars => Rotation'
<1> SUFFICES ASSUME Rotation, [Next]_vars PROVE Rotation'
  OBVIOUS
<1> USE SessionsAssumption
<1>1. CASE UNCHANGED vars
  BY <1>1 DEF vars, table, Rotation, TypeOK, HandsSound, OneOpen, Succeeds, Issued
<1>2. ASSUME NEW r \in Requests, Login(r) PROVE Rotation'
  BY <1>2, MoveRotation DEF Login, table, Rotation, TypeOK, HandsSound, Pc
<1>3. ASSUME NEW r \in Requests, Refresh(r) PROVE Rotation'
  <2>1. held[DeviceOf[r]] \in Tokens /\ Issued(held[DeviceOf[r]])
    BY <1>3 DEF Refresh, Rotation, TypeOK, HandsSound
  <2> QED
    BY <1>3, <2>1, MoveRotation DEF Refresh, table, Rotation, TypeOK, HandsSound, Pc
<1>4. ASSUME NEW r \in Requests, Find(r) PROVE Rotation'
  <2>1. hand[r] \in Tokens /\ hand[r] # None /\ Issued(hand[r])
    BY <1>4 DEF Find, Rotation, TypeOK, HandsSound
  <2> QED
    BY <1>4, <2>1, MoveRotation DEF Find, table, Rotation, TypeOK, HandsSound, Pc
<1>5. ASSUME NEW r \in Requests, Refuse(r) PROVE Rotation'
  BY <1>5, MoveRotation DEF Refuse, End, table, Rotation, TypeOK, HandsSound, Pc
<1>6. ASSUME NEW r \in Requests, Revoke(r) \/ RevokeLoggedOut(r) PROVE Rotation'
  BY <1>6, RevokeRotation
<1>7. ASSUME NEW r \in Requests, Issue(r) PROVE Rotation'
  BY <1>7, IssueRotation
<1>8. ASSUME NEW r \in Requests, Reply(r) PROVE Rotation'
  <2>1. hand[r] \in Tokens /\ Issued(hand[r])
    BY <1>8 DEF Reply, Rotation, TypeOK, HandsSound
  <2>2. /\ held' \in [Devices -> Tokens \cup {None}]
        /\ \A d \in Devices : held'[d] # None => Issued(held'[d])
    BY <1>8, <2>1 DEF Reply, Rotation, TypeOK, HandsSound
  <2> QED
    BY <1>8, <2>2, MoveRotation DEF Reply, End, table, Rotation, TypeOK, Pc
<1>9. ASSUME NEW r \in Requests, Logout(r) PROVE Rotation'
  <2>1. held[DeviceOf[r]] \in Tokens /\ Issued(held[DeviceOf[r]])
    BY <1>9 DEF Logout, Rotation, TypeOK, HandsSound
  <2>2. /\ held' \in [Devices -> Tokens \cup {None}]
        /\ \A d \in Devices : held'[d] # None => Issued(held'[d])
    BY <1>9 DEF Logout, Rotation, TypeOK, HandsSound
  <2> QED
    BY <1>9, <2>1, <2>2, MoveRotation DEF Logout, table, Rotation, TypeOK, Pc
<1>10. ASSUME NEW r \in Requests, Abort(r) PROVE Rotation'
  <2>1. cut' \subseteq Tokens
    <3>1. hand[r] # None => origin[hand[r]] \in Tokens
      BY DEF Rotation, HandsSound, TypeOK, Issued
    <3> QED
      BY <1>10, <3>1 DEF Abort, Rotation, TypeOK
  <2> QED
    BY <1>10, <2>1, MoveRotation DEF Abort, End, table, Rotation, TypeOK, HandsSound, Pc
<1>11. ASSUME NEW t \in Tokens, Expire(t) PROVE Rotation'
  BY <1>11 DEF Expire, Rotation, TypeOK, HandsSound, OneOpen, Succeeds, Issued
<1> QED
  BY <1>1, <1>2, <1>3, <1>4, <1>5, <1>6, <1>7, <1>8, <1>9, <1>10, <1>11 DEF Next

\* A login has at most one refresh token that works, unless requests of it raced,
\* however many devices and requests there are and wherever they are cut off.
THEOREM RotationIsExclusive == Spec => []OneLiveToken
<1>1. Init => Rotation
  BY InitRotation
<1>2. Rotation /\ [Next]_vars => Rotation'
  BY NextRotation
<1>3. Rotation => OneLiveToken
  BY DEF Rotation, OneOpen, OneLiveToken, Live
<1> QED
  BY <1>1, <1>2, <1>3, PTL DEF Spec

-----------------------------------------------------------------------------
(* Who has the tokens of a login.                                          *)

\* Nobody has a token at first.
LEMMA InitCustody == Init => Custody
  BY DEF Init, Custody, OneDevice, Keeps, InTransit, LoggedOut, Kept, Issued

\* A step that issues nothing, and leaves no token where none of its login was, keeps
\* the tokens of a login at one device.
LEMMA NoNewKeeper ==
    ASSUME OneDevice, origin' = origin,
           \A d \in Devices, o \in Tokens : Keeps(d, o)' => Keeps(d, o)
    PROVE  OneDevice'
  BY DEF OneDevice

\* A request that stays away from "reply" and "logout", or ends, while the table and
\* the devices stay as they are: all that can go wrong is that it was bringing a token.
LEMMA MoveCustody ==
    ASSUME Rotation, Custody, table' = table, held' = held, ended' = ended, raced' = raced,
           cut \subseteq cut',
           NEW r \in Requests, NEW l \in Pc \ {"reply", "logout"},
           NEW t \in Tokens \cup {None}, Goto(r, l, t),
           t = None \/ t = hand[r] \/ t = held[DeviceOf[r]],
           l = "issue" => t = None,
           \A q \in Requests \ {r} : pc[q] = "reply" => t # hand[q] \/ t = None,
           \A d \in Devices : Brings(r, d) => origin[held[d]] \in cut'
    PROVE  Custody'
<1> USE SessionsAssumption DEF Custody
<1>1. /\ pc' = [pc EXCEPT ![r] = l] /\ hand' = [hand EXCEPT ![r] = t]
      /\ origin' = origin /\ revoked' = revoked
  BY DEF Goto, table
<1>2. /\ \A q \in Requests : q # r => hand'[q] = hand[q] /\ pc'[q] = pc[q]
      /\ hand'[r] = t /\ pc'[r] = l
      /\ DeviceOf[r] \in Devices
  BY <1>1 DEF Rotation, TypeOK
<1>3. OneDevice'
  <2>1. \A d \in Devices, o \in Tokens : Keeps(d, o)' => Keeps(d, o)
    <3> SUFFICES ASSUME NEW d \in Devices, NEW o \in Tokens, Keeps(d, o)' PROVE Keeps(d, o)
      OBVIOUS
    <3>1. CASE held'[d] # None /\ origin'[held'[d]] = o
      BY <3>1, <1>1 DEF Keeps
    <3>2. CASE \E q \in Requests : DeviceOf[q] = d /\ hand'[q] # None /\ origin'[hand'[q]] = o
      <4>1. PICK q \in Requests : DeviceOf[q] = d /\ hand'[q] # None /\ origin[hand'[q]] = o
        BY <3>2, <1>1
      <4>2. CASE q # r
        BY <4>1, <4>2, <1>2 DEF Keeps
      <4>3. CASE q = r
        BY <4>1, <4>3, <1>2 DEF Keeps
      <4> QED
        BY <4>2, <4>3
    <3> QED
      BY <3>1, <3>2 DEF Keeps
  <2> QED
    BY <2>1, <1>1, NoNewKeeper
<1>4. InTransit'
  BY <1>1, <1>2 DEF InTransit, Rotation, HandsSound
<1>5. LoggedOut'
  <2>1. \A q \in Requests : Succeeds(q)' => Succeeds(q) /\ hand'[q] = hand[q]
    BY <1>2 DEF Succeeds
  <2> QED
    BY <2>1, <1>1 DEF LoggedOut
<1>6. Kept'
  <2> SUFFICES ASSUME NEW d \in Devices, held[d] # None, held[d] \in revoked,
                      origin[held[d]] \notin cut' \cup raced
               PROVE  \E q \in Requests : Brings(q, d)'
    BY <1>1 DEF Kept
  <2>1. PICK q \in Requests : Brings(q, d)
    BY DEF Kept
  <2>2. q # r
    BY <2>1
  <2>3. Brings(q, d)'
    BY <2>1, <2>2, <1>1, <1>2 DEF Brings
  <2> QED
    BY <2>3
<1>7. (\A s \in revoked \cup ended : Issued(s))'
  BY <1>1 DEF Issued
<1> QED
  BY <1>3, <1>4, <1>5, <1>6, <1>7

\* Revoking the token of a request: the device that may keep it is its own.
LEMMA RevokeCustody ==
    ASSUME Rotation, Rotation', Custody, NEW r \in Requests, Revoke(r) \/ RevokeLoggedOut(r)
    PROVE  Custody'
<1> USE SessionsAssumption DEF Custody
<1> DEFINE h == hand[r]
           l == pc'[r]
<1>1. /\ h \in Tokens /\ h # None /\ Issued(h) /\ origin[h] \in Tokens
      /\ origin' = origin /\ held' = held /\ cut' = cut
      /\ revoked' = revoked \cup {h}
      /\ raced' = IF h \in revoked THEN raced \cup {origin[h]} ELSE raced
      /\ DeviceOf[r] \in Devices
  BY DEF Revoke, RevokeLoggedOut, RevokeHand, Rotation, HandsSound, TypeOK, Issued
<1>2. /\ pc' = [pc EXCEPT ![r] = l] /\ hand' = [hand EXCEPT ![r] = hand'[r]]
      /\ \/ pc[r] = "revoke" /\ l = "issue" /\ hand'[r] = h /\ ended' = ended
         \/ /\ pc[r] = "logout" /\ l = "idle" /\ hand'[r] = None
            /\ ended' = ended \cup {origin[h]}
  BY DEF Revoke, RevokeLoggedOut, Goto, End, Rotation, TypeOK
<1>3. \A q \in Requests : q # r => hand'[q] = hand[q] /\ pc'[q] = pc[q]
  BY <1>2 DEF Rotation, TypeOK
<1>4. (\A s \in revoked \cup ended : Issued(s))'
  <2>1. Issued(origin[h])
    BY <1>1 DEF Rotation, HandsSound
  <2> QED
    BY <2>1, <1>1, <1>2 DEF Issued
<1>5. OneDevice'
  <2>1. \A d \in Devices, o \in Tokens : Keeps(d, o)' => Keeps(d, o)
    <3>1. \A q \in Requests : hand'[q] # None => hand'[q] = hand[q]
      BY <1>2, <1>3
    <3> QED
      BY <3>1, <1>1 DEF Keeps
  <2> QED
    BY <2>1, <1>1, NoNewKeeper
<1>6. InTransit'
  <2> SUFFICES ASSUME NEW q \in Requests, pc'[q] \in {"reply", "logout"}
               PROVE  /\ pc'[q] = "reply" =>
                            /\ hand'[q] \notin revoked'
                            /\ \A p \in Requests \ {q} : hand'[p] # hand'[q]
                      /\ \A d \in Devices : held'[d] # hand'[q]
    BY DEF InTransit
  <2>1. q # r /\ hand'[q] = hand[q] /\ pc'[q] = pc[q] /\ hand[q] # None
    BY <1>2, <1>3 DEF Rotation, HandsSound
  <2>2. \A d \in Devices : held'[d] # hand'[q]
    BY <2>1, <1>1 DEF InTransit
  <2>3. ASSUME pc[q] = "reply" PROVE
          /\ hand[q] \notin revoked /\ hand[q] # h
          /\ \A p \in Requests \ {q} : hand[p] # hand[q]
    BY <2>1, <2>3 DEF InTransit
  <2> QED
    BY <2>1, <2>2, <2>3, <1>1, <1>2, <1>3
<1>7. LoggedOut'
  <2> SUFFICES ASSUME NEW o \in ended' \ raced'
               PROVE  /\ \A t \in Tokens : origin[t] = o => t \in revoked'
                      /\ \A q \in Requests : Succeeds(q)' => origin[hand'[q]] # o
    BY <1>1 DEF LoggedOut
  <2>1. o \notin raced
    BY <1>1
  <2>2. CASE o \in ended
    <3>1. origin[h] # o
      BY <2>1, <2>2, <1>1 DEF LoggedOut
    <3> QED
      BY <2>1, <2>2, <3>1, <1>1, <1>2, <1>3 DEF LoggedOut, Succeeds
  <2>3. CASE o \notin ended
    <3>1. o = origin[h] /\ l = "idle" /\ hand'[r] = None
      BY <2>3, <1>2
    <3>2. h \notin revoked
      BY <3>1, <1>1
    <3>3. \A t \in Tokens : origin[t] = o => t \in revoked \/ t = h
      BY <3>1, <3>2, <2>1, <1>1 DEF Rotation, OneOpen, Issued
    <3>4. \A q \in Requests : Succeeds(q) => origin[hand[q]] # o
      BY <3>1, <3>2, <2>1, <1>1 DEF Rotation, OneOpen
    <3> QED
      BY <3>1, <3>3, <3>4, <1>1, <1>3 DEF Succeeds
  <2> QED
    BY <2>2, <2>3
<1>8. Kept'
  <2> SUFFICES ASSUME NEW d \in Devices, held[d] # None, held[d] \in revoked',
                      origin[held[d]] \notin cut \cup raced'
               PROVE  \E q \in Requests : Brings(q, d)'
    BY <1>1 DEF Kept
  <2>1. CASE held[d] \in revoked
    <3>1. PICK q \in Requests : Brings(q, d)
      BY <2>1, <1>1 DEF Kept
    <3>2. q # r
      BY <3>1, <1>2 DEF Brings
    <3>3. Brings(q, d)'
      BY <3>1, <3>2, <1>1, <1>3 DEF Brings
    <3> QED
      BY <3>3
  <2>2. CASE held[d] \notin revoked
    <3>1. held[d] = h
      BY <2>2, <1>1
    <3>2. l = "issue" /\ hand'[r] = h
      BY <3>1, <1>2 DEF InTransit
    <3>3. Keeps(d, origin[h]) /\ Keeps(DeviceOf[r], origin[h])
      BY <3>1, <1>1 DEF Keeps
    <3>4. DeviceOf[r] = d
      BY <3>3, <1>1 DEF OneDevice
    <3>5. Brings(r, d)'
      BY <3>1, <3>2, <3>4, <1>1 DEF Brings
    <3> QED
      BY <3>5
  <2> QED
    BY <2>1, <2>2
<1> QED
  BY <1>4, <1>5, <1>6, <1>7, <1>8

\* A new token goes to the device of its request, which is the one of its login.
LEMMA IssueCustody ==
    ASSUME Rotation, Custody, NEW r \in Requests, Issue(r)
    PROVE  Custody'
<1> USE SessionsAssumption DEF Custody
<1>1. PICK t \in Tokens :
        /\ ~Issued(t)
        /\ origin' = [origin EXCEPT ![t] = IF hand[r] = None THEN t ELSE origin[hand[r]]]
        /\ pc' = [pc EXCEPT ![r] = "reply"] /\ hand' = [hand EXCEPT ![r] = t]
        /\ pc[r] = "issue"
  BY DEF Issue, Goto
<1> DEFINE o == IF hand[r] = None THEN t ELSE origin[hand[r]]
<1>2. /\ revoked' = revoked /\ held' = held
      /\ ended' = ended /\ cut' = cut /\ raced' = raced
      /\ hand[r] \in Tokens \cup {None} /\ t # None /\ DeviceOf[r] \in Devices
  BY DEF Issue, Rotation, TypeOK
<1>3. /\ origin'[t] = o
      /\ \A s \in Tokens : s # t => origin'[s] = origin[s]
      /\ o \in Tokens /\ o # None
  BY <1>1, <1>2 DEF Rotation, TypeOK, HandsSound, Issued
<1>4. /\ \A q \in Requests : q # r => hand'[q] = hand[q] /\ pc'[q] = pc[q]
      /\ hand'[r] = t /\ pc'[r] = "reply"
  BY <1>1 DEF Rotation, TypeOK
<1>5. \A s \in Tokens : Issued(s) =>
          s # t /\ origin'[s] = origin[s] /\ Issued(origin[s]) /\ origin[s] # t
  BY <1>1, <1>3 DEF Rotation, HandsSound
<1>6. /\ \A q \in Requests : hand[q] # None => hand[q] \in Tokens /\ Issued(hand[q])
      /\ \A d \in Devices : held[d] # None => held[d] \in Tokens /\ Issued(held[d])
      /\ revoked \subseteq Tokens /\ ended \subseteq Tokens
  BY DEF Rotation, HandsSound, TypeOK
<1>7. (\A s \in revoked \cup ended : Issued(s))'
  BY <1>2, <1>5, <1>6 DEF Issued
<1>8. OneDevice'
  <2>1. \A d \in Devices, x \in Tokens :
            Keeps(d, x)' => Keeps(d, x) \/ (x = o /\ d = DeviceOf[r])
    <3> SUFFICES ASSUME NEW d \in Devices, NEW x \in Tokens, Keeps(d, x)'
                 PROVE  Keeps(d, x) \/ (x = o /\ d = DeviceOf[r])
      OBVIOUS
    <3>1. CASE held'[d] # None /\ origin'[held'[d]] = x
      BY <3>1, <1>2, <1>5, <1>6 DEF Keeps
    <3>2. CASE \E q \in Requests : DeviceOf[q] = d /\ hand'[q] # None /\ origin'[hand'[q]] = x
      <4>1. PICK q \in Requests : DeviceOf[q] = d /\ hand'[q] # None /\ origin'[hand'[q]] = x
        BY <3>2
      <4>2. CASE q # r
        BY <4>1, <4>2, <1>4, <1>5, <1>6 DEF Keeps
      <4>3. CASE q = r
        BY <4>1, <4>3, <1>3, <1>4
      <4> QED
        BY <4>2, <4>3
    <3> QED
      BY <3>1, <3>2 DEF Keeps
  <2>2. \A d \in Devices : ~Keeps(d, t)
    BY <1>5, <1>6 DEF Keeps
  <2>3. hand[r] # None => Keeps(DeviceOf[r], o)
    BY DEF Keeps
  <2>4. CASE hand[r] # None
    BY <2>1, <2>3, <2>4, <1>2, <1>3 DEF OneDevice
  <2>5. CASE hand[r] = None
    BY <2>1, <2>2, <2>5, <1>2 DEF OneDevice
  <2> QED
    BY <2>4, <2>5
<1>9. InTransit'
  <2>1. /\ t \notin revoked /\ \A d \in Devices : held[d] # t
        /\ \A q \in Requests : hand[q] # t
    BY <1>1, <1>2, <1>6
  <2>2. \A q \in Requests : pc[q] = "reply" => hand[q] # t
    BY <2>1
  <2> QED
    BY <2>1, <2>2, <1>2, <1>4 DEF InTransit
<1>10. LoggedOut'
  <2> SUFFICES ASSUME NEW x \in ended \ raced
               PROVE  /\ \A s \in Tokens : origin'[s] = x => s \in revoked
                      /\ \A q \in Requests : Succeeds(q)' => origin'[hand'[q]] # x
    BY <1>2 DEF LoggedOut
  <2>1. o # x
    <3>1. hand[r] # None => Succeeds(r)
      BY <1>1 DEF Succeeds
    <3>2. x # t
      BY <1>1
    <3> QED
      BY <3>1, <3>2 DEF LoggedOut
  <2>2. \A s \in Tokens : origin'[s] = x => s \in revoked
    BY <2>1, <1>3 DEF LoggedOut
  <2>3. ASSUME NEW q \in Requests, Succeeds(q)' PROVE origin'[hand'[q]] # x
    <3>1. q # r /\ Succeeds(q) /\ hand'[q] = hand[q] /\ hand[q] # None
      BY <2>3, <1>4 DEF Succeeds
    <3> QED
      BY <3>1, <1>5, <1>6 DEF LoggedOut
  <2> QED
    BY <2>2, <2>3
<1>11. Kept'
  <2> SUFFICES ASSUME NEW d \in Devices, held[d] # None, held[d] \in revoked,
                      origin'[held[d]] \notin cut \cup raced
               PROVE  \E q \in Requests : Brings(q, d)'
    BY <1>2 DEF Kept
  <2>1. origin'[held[d]] = origin[held[d]]
    BY <1>5, <1>6
  <2>2. PICK q \in Requests : Brings(q, d)
    BY <2>1 DEF Kept
  <2>3. CASE q = r
    BY <2>1, <2>2, <2>3, <1>2, <1>3, <1>4 DEF Brings
  <2>4. CASE q # r
    BY <2>1, <2>2, <2>4, <1>2, <1>4, <1>5, <1>6 DEF Brings
  <2> QED
    BY <2>3, <2>4
<1> QED
  BY <1>7, <1>8, <1>9, <1>10, <1>11

\* A device takes over the token of its request, which nobody else has.
LEMMA ReplyCustody ==
    ASSUME Rotation, Custody, NEW r \in Requests, Reply(r)
    PROVE  Custody'
<1> USE SessionsAssumption DEF Custody
<1> DEFINE d0 == DeviceOf[r]
<1>1. /\ origin' = origin /\ revoked' = revoked /\ ended' = ended
      /\ cut' = cut /\ raced' = raced
      /\ d0 \in Devices /\ pc[r] = "reply" /\ hand[r] # None
      /\ held'[d0] = hand[r] /\ \A d \in Devices : d # d0 => held'[d] = held[d]
  BY DEF Reply, table, Rotation, TypeOK, HandsSound
<1>2. /\ \A q \in Requests : q # r => hand'[q] = hand[q] /\ pc'[q] = pc[q]
      /\ hand'[r] = None /\ pc'[r] = "idle"
  BY DEF Reply, End, Goto, Rotation, TypeOK
<1>3. (\A s \in revoked \cup ended : Issued(s))'
  BY <1>1 DEF Issued
<1>4. OneDevice'
  <2>1. \A q \in Requests : hand'[q] # None => hand'[q] = hand[q]
    BY <1>2
  <2>2. \A d \in Devices, o \in Tokens : Keeps(d, o)' => Keeps(d, o)
    <3> SUFFICES ASSUME NEW d \in Devices, NEW o \in Tokens, Keeps(d, o)' PROVE Keeps(d, o)
      OBVIOUS
    <3>1. CASE held'[d] # None /\ origin'[held'[d]] = o
      BY <3>1, <1>1 DEF Keeps
    <3>2. CASE \E q \in Requests : DeviceOf[q] = d /\ hand'[q] # None /\ origin'[hand'[q]] = o
      BY <3>2, <2>1, <1>1 DEF Keeps
    <3> QED
      BY <3>1, <3>2 DEF Keeps
  <2> QED
    BY <2>2, <1>1, NoNewKeeper
<1>5. InTransit'
  <2>1. \A q \in Requests \ {r} : hand[q] # hand[r]
    BY <1>1 DEF InTransit
  <2>2. \A q \in Requests \ {r} : pc[q] \in {"reply", "logout"} => hand[q] # None
    BY DEF Rotation, HandsSound
  <2> QED
    BY <2>1, <2>2, <1>1, <1>2 DEF InTransit
<1>6. LoggedOut'
  BY <1>1, <1>2 DEF LoggedOut, Succeeds
<1>7. Kept'
  <2> SUFFICES ASSUME NEW d \in Devices, held'[d] # None, held'[d] \in revoked,
                      origin[held'[d]] \notin cut \cup raced
               PROVE  \E q \in Requests : Brings(q, d)'
    BY <1>1 DEF Kept
  <2>1. d # d0 /\ held'[d] = held[d]
    BY <1>1 DEF InTransit
  <2>2. PICK q \in Requests : Brings(q, d)
    BY <2>1 DEF Kept
  <2>3. q # r
    BY <2>1, <2>2 DEF Brings
  <2>4. Brings(q, d)'
    BY <2>1, <2>2, <2>3, <1>1, <1>2 DEF Brings
  <2> QED
    BY <2>4
<1> QED
  BY <1>3, <1>4, <1>5, <1>6, <1>7

\* A device gives its token away to be logged out: no other device has it.
LEMMA LogoutCustody ==
    ASSUME Rotation, Custody, NEW r \in Requests, Logout(r)
    PROVE  Custody'
<1> USE SessionsAssumption DEF Custody
<1> DEFINE d0 == DeviceOf[r]
<1>1. /\ origin' = origin /\ revoked' = revoked /\ ended' = ended
      /\ cut' = cut /\ raced' = raced
      /\ d0 \in Devices /\ pc[r] = "idle" /\ held[d0] # None /\ held[d0] \in Tokens
      /\ origin[held[d0]] \in Tokens
      /\ held'[d0] = None /\ \A d \in Devices : d # d0 => held'[d] = held[d]
  BY DEF Logout, table, Rotation, TypeOK, HandsSound, Issued
<1>2. /\ \A q \in Requests : q # r => hand'[q] = hand[q] /\ pc'[q] = pc[q]
      /\ hand'[r] = held[d0] /\ pc'[r] = "logout"
  BY DEF Logout, Goto, Rotation, TypeOK
<1>3. (\A s \in revoked \cup ended : Issued(s))'
  BY <1>1 DEF Issued
<1>4. OneDevice'
  <2>1. \A d \in Devices, o \in Tokens : Keeps(d, o)' => Keeps(d, o)
    <3> SUFFICES ASSUME NEW d \in Devices, NEW o \in Tokens, Keeps(d, o)' PROVE Keeps(d, o)
      OBVIOUS
    <3>1. CASE held'[d] # None /\ origin'[held'[d]] = o
      BY <3>1, <1>1 DEF Keeps
    <3>2. CASE \E q \in Requests : DeviceOf[q] = d /\ hand'[q] # None /\ origin'[hand'[q]] = o
      <4>1. PICK q \in Requests : DeviceOf[q] = d /\ hand'[q] # None /\ origin[hand'[q]] = o
        BY <3>2, <1>1
      <4>2. CASE q # r
        BY <4>1, <4>2, <1>2 DEF Keeps
      <4>3. CASE q = r
        BY <4>1, <4>3, <1>1, <1>2 DEF Keeps
      <4> QED
        BY <4>2, <4>3
    <3> QED
      BY <3>1, <3>2 DEF Keeps
  <2> QED
    BY <2>1, <1>1, NoNewKeeper
<1>5. InTransit'
  <2>1. ASSUME NEW d \in Devices, d # d0 PROVE held[d] # held[d0]
    <3>1. SUFFICES ASSUME held[d] = held[d0] PROVE FALSE
      OBVIOUS
    <3>2. Keeps(d, origin[held[d0]]) /\ Keeps(d0, origin[held[d0]])
      BY <3>1, <1>1 DEF Keeps
    <3> QED
      BY <2>1, <3>2, <1>1 DEF OneDevice
  <2>2. \A q \in Requests : pc[q] \in {"reply", "logout"} => hand[q] # None
    BY DEF Rotation, HandsSound
  <2> QED
    BY <2>1, <2>2, <1>1, <1>2 DEF InTransit
<1>6. LoggedOut'
  BY <1>1, <1>2 DEF LoggedOut, Succeeds
<1>7. Kept'
  <2> SUFFICES ASSUME NEW d \in Devices, held'[d] # None, held'[d] \in revoked,
                      origin[held'[d]] \notin cut \cup raced
               PROVE  \E q \in Requests : Brings(q, d)'
    BY <1>1 DEF Kept
  <2>1. held'[d] = held[d]
    BY <1>1
  <2>2. PICK q \in Requests : Brings(q, d)
    BY <2>1 DEF Kept
  <2>3. q # r
    BY <2>2, <1>1 DEF Brings
  <2>4. Brings(q, d)'
    BY <2>1, <2>2, <2>3, <1>1, <1>2 DEF Brings
  <2> QED
    BY <2>4
<1> QED
  BY <1>3, <1>4, <1>5, <1>6, <1>7

\* Every step keeps the tokens where they belong, one case per action.
LEMMA NextCustody == Rotation /\ Rotation' /\ Custody /\ [Next]_vars => Custody'
<1> SUFFICES ASSUME Rotation, Rotation', Custody, [Next]_vars PROVE Custody'
  OBVIOUS
<1> USE SessionsAssumption
<1>1. CASE UNCHANGED vars
  BY <1>1 DEF vars, table, Custody, OneDevice, Keeps, InTransit, LoggedOut, Kept, Brings,
              Succeeds, Issued
<1>2. ASSUME NEW r \in Requests, Login(r) PROVE Custody'
  BY <1>2, MoveCustody DEF Login, Brings, Pc
<1>3. ASSUME NEW r \in Requests, Refresh(r) PROVE Custody'
  <2>1. held[DeviceOf[r]] \in Tokens /\ DeviceOf[r] \in Devices
    BY <1>3 DEF Refresh, Rotation, TypeOK
  <2>2. \A q \in Requests \ {r} : pc[q] = "reply" => held[DeviceOf[r]] # hand[q]
    BY <2>1 DEF Custody, InTransit
  <2> QED
    BY <1>3, <2>1, <2>2, MoveCustody DEF Refresh, Brings, Pc
<1>4. ASSUME NEW r \in Requests, Find(r) PROVE Custody'
  <2>1. hand[r] \in Tokens
    BY <1>4 DEF Find, Rotation, TypeOK, HandsSound
  <2>2. \A q \in Requests \ {r} : pc[q] = "reply" => hand[r] # hand[q]
    BY DEF Custody, InTransit
  <2> QED
    BY <1>4, <2>1, <2>2, MoveCustody DEF Find, Brings, Pc
<1>5. ASSUME NEW r \in Requests, Refuse(r) PROVE Custody'
  BY <1>5, MoveCustody DEF Refuse, End, Brings, Pc
<1>6. ASSUME NEW r \in Requests, Revoke(r) \/ RevokeLoggedOut(r) PROVE Custody'
  BY <1>6, RevokeCustody
<1>7. ASSUME NEW r \in Requests, Issue(r) PROVE Custody'
  BY <1>7, IssueCustody
<1>8. ASSUME NEW r \in Requests, Reply(r) PROVE Custody'
  BY <1>8, ReplyCustody
<1>9. ASSUME NEW r \in Requests, Logout(r) PROVE Custody'
  BY <1>9, LogoutCustody
<1>10. ASSUME NEW r \in Requests, Abort(r) PROVE Custody'
  <2>1. \A d \in Devices : Brings(r, d) => origin[held[d]] \in cut'
    BY <1>10 DEF Abort, Brings
  <2>2. cut \subseteq cut'
    BY <1>10 DEF Abort
  <2> QED
    BY <1>10, <2>1, <2>2, MoveCustody DEF Abort, End, Pc
<1>11. ASSUME NEW t \in Tokens, Expire(t) PROVE Custody'
  BY <1>11 DEF Expire, Custody, OneDevice, Keeps, InTransit, LoggedOut, Kept, Brings,
               Succeeds, Issued
<1> QED
  BY <1>1, <1>2, <1>3, <1>4, <1>5, <1>6, <1>7, <1>8, <1>9, <1>10, <1>11 DEF Next

\* Both invariants hold in every reachable state.
LEMMA CustodyHolds == Spec => [](Rotation /\ Custody)
<1>1. Init => Rotation /\ Custody
  BY InitRotation, InitCustody
<1>2. Rotation /\ Custody /\ [Next]_vars => Rotation' /\ Custody'
  BY NextRotation, NextCustody
<1> QED
  BY <1>1, <1>2, PTL DEF Spec

\* When a logout is through, no token of its login works any more, unless the token it
\* revoked was revoked already: for any number of requests beside it.
THEOREM LogoutIsFinal == Spec => []LogoutEnds
<1>1. Custody => LogoutEnds
  BY DEF Custody, LoggedOut, LogoutEnds, Live
<1> QED
  BY <1>1, CustodyHolds, PTL

\* A device that waits for no answer keeps a token that nobody has revoked, unless
\* requests of its login raced or were cut off.
THEOREM DevicesStaySignedIn == Spec => []HeldTokenWorks
<1>1. Custody => HeldTokenWorks
  BY DEF Custody, Kept, Brings, HeldTokenWorks
<1> QED
  BY <1>1, CustodyHolds, PTL
====
