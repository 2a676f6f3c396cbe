---------------------------- MODULE AccessProofs ----------------------------
(***************************************************************************)
(* Proofs about Accounts and IdempotentRequests, for any users, tokens,    *)
(* requests and keys, and with Redis losing copies at any time.            *)
(***************************************************************************)
EXTENDS IdempotentRequests, TLAPS

User == [status : {"ACTIVE", "LOCKED", "DISABLED", "ABSENT"}, role : {"ADMIN", "OTHER"},
         password : Nat \ {0}]
Session == [user : Users \cup {"none"}, version : Nat, revoked : BOOLEAN]
Login == [at : {"none", "verified", "done"}, user : Users \cup {"none"}, version : Nat]
Request == [at : {"idle", "looked", "checked", "live", "accepted", "changed", "disable", "role",
                  "handling"},
            token : Tokens \cup {"none"}, version : Nat, role : {"ADMIN", "OTHER"},
            withdrawn : BOOLEAN, target : Users \cup {"none"}, key : Keys \cup {"none"}]

Types ==
    /\ users \in [Users -> User]
    /\ sessions \in [Tokens -> Session]
    /\ cache \in [Tokens -> Nat]
    /\ logins \in [Tokens -> Login]
    /\ requests \in [Requests -> Request]
    /\ evicted \in BOOLEAN

Known(u) == u \in Users /\ Exists(u)

\* What a login has read is of a user who is there, and no newer than the password.
LoginOK(t) ==
    logins[t].at = "verified" =>
        /\ Known(logins[t].user)
        /\ logins[t].version \in 1 .. users[logins[t].user].password

\* So is a session; and as long as it is good and Redis has lost nothing, there is a copy
\* of it, of its version or an earlier one.
SessionOK(t) ==
    logins[t].at = "done" =>
        /\ Known(sessions[t].user)
        /\ sessions[t].version \in 1 .. users[sessions[t].user].password
        /\ ~evicted /\ ~sessions[t].revoked => cache[t] \in 1 .. sessions[t].version

\* The version a request carries is no newer than that of its session, so the copy it
\* writes back is none either; and a request that was withdrawn when it began fails at
\* the user, or at the session.
RequestOK(r) ==
    LET q == requests[r] IN
    /\ q.at \notin {"idle", "handling"} => q.token \in Tokens /\ logins[q.token].at = "done"
    /\ q.at \in {"looked", "checked", "live"} /\ ~evicted /\ ~sessions[q.token].revoked =>
          q.version \in 1 .. sessions[q.token].version
    /\ q.at = "changed" => q.version \in 1 .. sessions[q.token].version
    /\ q.at = "looked" /\ q.withdrawn =>
          sessions[q.token].revoked \/ q.version < users[sessions[q.token].user].password
    /\ q.at = "checked" /\ q.withdrawn => sessions[q.token].revoked
    /\ q.at \in {"live", "accepted"} => ~q.withdrawn

AccessInv ==
    /\ Types
    /\ \A t \in Tokens : LoginOK(t) /\ SessionOK(t)
    /\ \A r \in Requests : RequestOK(r)

-----------------------------------------------------------------------------
(* What no step takes back *)

\* Users stay, and their passwords only get newer.
Grown ==
    \A u \in Users : Exists(u) =>
        users'[u].status # "ABSENT" /\ users[u].password <= users'[u].password

\* A session stays its user's, a revoked one stays revoked, its version only gets newer.
SessionsKept ==
    \A t \in Tokens : logins[t].at = "done" =>
        /\ logins'[t].at = "done"
        /\ sessions'[t].user = sessions[t].user
        /\ sessions[t].revoked => sessions'[t].revoked
        /\ sessions[t].version <= sessions'[t].version

\* A request that does not move keeps what it relies on.
LEMMA RequestKept ==
    ASSUME AccessInv, Types', Grown, SessionsKept, evicted => evicted',
           NEW r \in Requests, requests'[r] = requests[r]
    PROVE  RequestOK(r)'
<1>1. PICK q : q = requests[r]
  OBVIOUS
<1>2. q \in Request /\ RequestOK(r)
  BY <1>1 DEF AccessInv, Types
<1>3. CASE q.at \in {"idle", "handling"}
  BY <1>1, <1>3 DEF RequestOK
<1>4. CASE q.at \notin {"idle", "handling"}
  <2>1. PICK t \in Tokens : t = q.token /\ logins[t].at = "done"
    BY <1>1, <1>2, <1>4 DEF RequestOK
  <2>2. /\ logins'[t].at = "done" /\ sessions'[t].user = sessions[t].user
        /\ sessions[t].revoked => sessions'[t].revoked
        /\ sessions[t].version <= sessions'[t].version
    BY <2>1 DEF SessionsKept
  <2>3. /\ Known(sessions[t].user)
        /\ sessions[t] \in Session /\ sessions'[t] \in Session
    BY <2>1 DEF AccessInv, Types, SessionOK
  <2>4. PICK u \in Users : u = sessions[t].user /\ Exists(u)
    BY <2>3 DEF Known
  <2>5. /\ users[u].password <= users'[u].password
        /\ users[u].password \in Nat /\ users'[u].password \in Nat
    BY <2>4 DEF Grown, AccessInv, Types, User
  <2>6. /\ sessions[t].version \in Nat /\ sessions'[t].version \in Nat /\ q.version \in Nat
    BY <1>2, <2>3 DEF Session, Request
  <2>7. q.version \in 1 .. sessions[t].version => q.version \in 1 .. sessions'[t].version
    BY <2>2, <2>6
  <2>8. q.version < users[u].password => q.version < users'[u].password
    BY <2>5, <2>6
  <2> QED
    BY <1>1, <1>2, <2>1, <2>2, <2>4, <2>7, <2>8 DEF RequestOK
<1> QED
  BY <1>3, <1>4

\* A step of one request that leaves users, sessions and copies alone.
LEMMA RequestStep ==
    ASSUME AccessInv, UNCHANGED <<users, sessions, cache, logins, evicted>>,
           NEW r \in Requests, NEW q \in Request, requests' = [requests EXCEPT ![r] = q],
           RequestOK(r)'
    PROVE  AccessInv'
<1>1. Types'
  BY DEF AccessInv, Types
<1>2. Grown /\ SessionsKept
  <2>1. \A u \in Users : users[u].password \in Nat
    BY DEF AccessInv, Types, User
  <2>2. \A t \in Tokens : sessions[t].version \in Nat
    BY DEF AccessInv, Types, Session
  <2> QED
    BY <2>1, <2>2 DEF Grown, SessionsKept, Exists
<1>3. \A t \in Tokens : LoginOK(t)' /\ SessionOK(t)'
  BY DEF AccessInv, LoginOK, SessionOK, Known, Exists
<1>4. ASSUME NEW s \in Requests
      PROVE  RequestOK(s)'
  <2>1. CASE s = r
    BY <2>1
  <2>2. CASE s # r
    BY <1>1, <1>2, <2>2, RequestKept DEF AccessInv, Types
  <2> QED
    BY <2>1, <2>2
<1> QED
  BY <1>1, <1>3, <1>4 DEF AccessInv

\* The request is over.
LEMMA EndStep ==
    ASSUME AccessInv, UNCHANGED <<users, sessions, cache, logins, evicted>>,
           NEW r \in Requests, End(r)
    PROVE  AccessInv'
<1>1. Idle \in Request /\ Idle.at = "idle"
  BY DEF Idle, Request
<1>2. requests'[r] = Idle
  BY DEF End, AccessInv, Types
<1>3. RequestOK(r)'
  BY <1>1, <1>2 DEF RequestOK
<1> QED
  BY <1>1, <1>3, RequestStep DEF End

-----------------------------------------------------------------------------
(* validate *)

\* What is withdrawn is revoked, or of a version older than the password.
LEMMA LookPreserves ==
    ASSUME AccessInv, NEW r \in Requests, NEW t \in Tokens, Look(r, t)
    PROVE  AccessInv'
<1>1. /\ logins[t].at = "done" /\ Known(sessions[t].user)
      /\ sessions[t].version \in 1 .. users[sessions[t].user].password
      /\ ~evicted /\ ~sessions[t].revoked => cache[t] \in 1 .. sessions[t].version
      /\ cache[t] \in Nat /\ sessions[t] \in Session
  BY DEF Look, AccessInv, SessionOK, Types
<1>2. PICK u \in Users : u = sessions[t].user
  BY <1>1 DEF Known
<1>3. users[u].password \in Nat \ {0} /\ sessions[t].version \in Nat
  BY <1>1, <1>2 DEF AccessInv, Types, User, Session
<1>4. PICK v : v = IF cache[t] # 0 THEN cache[t] ELSE users[u].password
  OBVIOUS
<1>5. v \in Nat
  BY <1>1, <1>3, <1>4
<1>6. PICK w \in BOOLEAN : w = Withdrawn(t)
  BY <1>1 DEF Withdrawn, Session
<1> DEFINE q == [Idle EXCEPT !.at = "looked", !.token = t, !.withdrawn = w, !.version = v]
<1>7. /\ q \in Request /\ q.at = "looked" /\ q.token = t /\ q.withdrawn = w /\ q.version = v
  BY <1>5 DEF Idle, Request
<1>8. requests' = [requests EXCEPT ![r] = q]
  BY <1>2, <1>4, <1>6 DEF Look
<1>9. requests'[r] = q
  BY <1>8 DEF AccessInv, Types
<1>10. UNCHANGED <<users, sessions, cache, logins, evicted>>
  BY DEF Look
<1>11. w => sessions[t].revoked \/ v < users[u].password
  <2>1. w => sessions[t].revoked \/ (~evicted /\ sessions[t].version # users[u].password)
    BY <1>2, <1>6, Zenon DEF Withdrawn
  <2> QED
    BY <1>1, <1>2, <1>3, <1>4, <2>1
<1>12. ~evicted /\ ~sessions[t].revoked => v \in 1 .. sessions[t].version
  BY <1>1, <1>3, <1>4
<1> HIDE DEF q
<1>13. RequestOK(r)'
  BY <1>1, <1>2, <1>7, <1>9, <1>10, <1>11, <1>12 DEF RequestOK
<1> QED
  BY <1>7, <1>8, <1>10, <1>13, RequestStep

\* Who passes the check of the user has the version of the password, and was not
\* withdrawn for an older one.
LEMMA CheckUserPreserves ==
    ASSUME AccessInv, NEW r \in Requests, CheckUser(r)
    PROVE  AccessInv'
<1>1. PICK q \in Request : q = requests[r]
  BY DEF AccessInv, Types
<1>2. /\ q.at = "looked" /\ q.token \in Tokens /\ logins[q.token].at = "done"
      /\ RequestOK(r) /\ UNCHANGED <<users, sessions, cache, logins, evicted>>
  BY <1>1 DEF CheckUser, AccessInv, RequestOK
<1>3. PICK u : u = sessions[q.token].user
  OBVIOUS
<1>4. u \in Users /\ users[u] \in User
  BY <1>2, <1>3 DEF AccessInv, SessionOK, Known, Types
<1>5. CASE users[u].status = "ACTIVE" /\ users[u].password = q.version
  <2> DEFINE p == [q EXCEPT !.at = "checked", !.role = users[u].role]
  <2>1. /\ p \in Request /\ p.at = "checked" /\ p.token = q.token /\ p.version = q.version
        /\ p.withdrawn = q.withdrawn
    BY <1>1, <1>4 DEF Request, User
  <2>2. requests' = [requests EXCEPT ![r] = p]
    BY <1>1, <1>3, <1>5 DEF CheckUser, Actor
  <2>3. requests'[r] = p
    BY <2>2 DEF AccessInv, Types
  <2> HIDE DEF p
  <2>4. q.version \in Nat /\ users[u].password \in Nat
    BY <1>1, <1>4 DEF Request, User
  <2>5. p.withdrawn => sessions[p.token].revoked
    BY <1>1, <1>2, <1>3, <1>5, <2>1, <2>4 DEF RequestOK
  <2>6. RequestOK(r)'
    BY <1>1, <1>2, <2>1, <2>3, <2>5 DEF RequestOK
  <2> QED
    BY <1>2, <2>1, <2>2, <2>6, RequestStep
<1>6. CASE ~(users[u].status = "ACTIVE" /\ users[u].password = q.version)
  <2>1. End(r)
    BY <1>1, <1>3, <1>6 DEF CheckUser, Actor
  <2> QED
    BY <1>2, <2>1, EndStep
<1> QED
  BY <1>5, <1>6

\* Who passes the check of the session was not withdrawn at all.
LEMMA CheckSessionPreserves ==
    ASSUME AccessInv, NEW r \in Requests, CheckSession(r)
    PROVE  AccessInv'
<1>1. PICK q \in Request : q = requests[r]
  BY DEF AccessInv, Types
<1>2. /\ q.at = "checked" /\ q.token \in Tokens /\ logins[q.token].at = "done"
      /\ RequestOK(r) /\ UNCHANGED <<users, sessions, cache, logins, evicted>>
  BY <1>1 DEF CheckSession, AccessInv, RequestOK
<1>3. CASE sessions[q.token].revoked
  BY <1>1, <1>2, <1>3, EndStep DEF CheckSession
<1>4. CASE ~sessions[q.token].revoked
  <2> DEFINE p == [q EXCEPT !.at = "live"]
  <2>1. /\ p \in Request /\ p.at = "live" /\ p.token = q.token /\ p.version = q.version
        /\ p.withdrawn = q.withdrawn
    BY <1>1 DEF Request
  <2>2. requests' = [requests EXCEPT ![r] = p]
    BY <1>1, <1>4 DEF CheckSession
  <2>3. requests'[r] = p
    BY <2>2 DEF AccessInv, Types
  <2> HIDE DEF p
  <2>4. RequestOK(r)'
    BY <1>1, <1>2, <1>4, <2>1, <2>3 DEF RequestOK
  <2> QED
    BY <1>2, <2>1, <2>2, <2>4, RequestStep
<1> QED
  BY <1>3, <1>4

-----------------------------------------------------------------------------
(* Steps that change users, sessions or copies *)

\* What such a step owes.
LEMMA StateStep ==
    ASSUME AccessInv, Types', Grown, SessionsKept, evicted => evicted',
           \A t \in Tokens : LoginOK(t)' /\ SessionOK(t)',
           \A r \in Requests : requests'[r] = requests[r] \/ RequestOK(r)'
    PROVE  AccessInv'
BY RequestKept DEF AccessInv

\* A request that is over relies on nothing.
LEMMA OverIsOK ==
    ASSUME NEW r \in Requests, requests'[r] = Idle
    PROVE  RequestOK(r)'
BY DEF RequestOK, Idle

\* Users change, and the request that does it is over.
LEMMA UserStep ==
    ASSUME AccessInv, users' \in [Users -> User], Grown,
           UNCHANGED <<sessions, cache, logins, evicted>>,
           requests' \in [Requests -> Request],
           \A r \in Requests : requests'[r] = requests[r] \/ requests'[r] = Idle
    PROVE  AccessInv'
<1>1. Types'
  BY DEF AccessInv, Types
<1>2. SessionsKept
  BY DEF SessionsKept, AccessInv, Types, Session
<1>3. ASSUME NEW t \in Tokens
      PROVE  LoginOK(t)' /\ SessionOK(t)'
  <2>1. LoginOK(t) /\ SessionOK(t) /\ logins[t] \in Login /\ sessions[t] \in Session
    BY DEF AccessInv, Types
  <2>2. \A u \in Users : Exists(u) =>
            /\ Exists(u)' /\ users[u].password <= users'[u].password
            /\ users[u].password \in Nat /\ users'[u].password \in Nat
    BY DEF Grown, Exists, AccessInv, Types, User
  <2>3. logins[t].version \in Nat /\ sessions[t].version \in Nat
    BY <2>1 DEF Login, Session
  <2> QED
    BY <2>1, <2>2, <2>3 DEF LoginOK, SessionOK, Known
<1> QED
  BY <1>1, <1>2, <1>3, StateStep, OverIsOK

\* Sessions are revoked, and the request that does it is over.
LEMMA RevokeStep ==
    ASSUME AccessInv, UNCHANGED <<users, logins, evicted>>,
           sessions' \in [Tokens -> Session], cache' \in [Tokens -> Nat],
           \A t \in Tokens :
              /\ sessions'[t].user = sessions[t].user
              /\ sessions'[t].version = sessions[t].version
              /\ sessions'[t].revoked \/ (sessions'[t] = sessions[t] /\ cache'[t] = cache[t]),
           requests' \in [Requests -> Request],
           \A r \in Requests : requests'[r] = requests[r] \/ requests'[r] = Idle
    PROVE  AccessInv'
<1>1. Types'
  BY DEF AccessInv, Types
<1>2. Grown
  BY DEF Grown, Exists, AccessInv, Types, User
<1>3. SessionsKept
  <2>1. \A t \in Tokens : sessions[t].version \in Nat
    BY DEF AccessInv, Types, Session
  <2> QED
    BY <2>1 DEF SessionsKept
<1>4. ASSUME NEW t \in Tokens
      PROVE  LoginOK(t)' /\ SessionOK(t)'
  BY DEF AccessInv, LoginOK, SessionOK, Known, Exists
<1> QED
  BY <1>1, <1>2, <1>3, <1>4, StateStep, OverIsOK

\* A new password is later than all.
LEMMA LaterIsNew ==
    ASSUME AccessInv, NEW now \in Later
    PROVE  now \in Nat \ {0} /\ \A u \in Users : users[u].password <= now
<1>1. now \in 1 .. MaxTime /\ MaxTime \in Nat
  BY AccountsAssumption DEF Later
<1>2. \A u \in Users : users[u].password < now /\ users[u].password \in Nat
  BY DEF Later, AccessInv, Types, User
<1> QED
  BY <1>1, <1>2

\* No request moves, or one is over.
LEMMA EndEffect ==
    ASSUME AccessInv, NEW r \in Requests, UNCHANGED requests \/ End(r)
    PROVE  /\ requests' \in [Requests -> Request]
           /\ \A s \in Requests : requests'[s] = requests[s] \/ requests'[s] = Idle
<1>1. Idle \in Request
  BY DEF Idle, Request
<1>2. PICK idle \in Request : idle = Idle
  BY <1>1
<1>3. UNCHANGED requests \/ requests' = [requests EXCEPT ![r] = idle]
  BY <1>2 DEF End
<1> QED
  BY <1>2, <1>3 DEF AccessInv, Types

\* One user's row is written; the password is kept, or new.
LEMMA RowStep ==
    ASSUME AccessInv, NEW u \in Users, NEW row \in User,
           users' = [users EXCEPT ![u] = row],
           Exists(u) => row.status # "ABSENT" /\ users[u].password <= row.password,
           UNCHANGED <<sessions, cache, logins, evicted>>,
           NEW r \in Requests, UNCHANGED requests \/ End(r)
    PROVE  AccessInv'
<1>1. users' \in [Users -> User]
  BY DEF AccessInv, Types
<1>2. Grown
  BY DEF Grown, Exists, AccessInv, Types, User
<1>3. /\ requests' \in [Requests -> Request]
      /\ \A s \in Requests : requests'[s] = requests[s] \/ requests'[s] = Idle
  BY EndEffect
<1> QED
  BY <1>1, <1>2, <1>3, UserStep

\* The lockout, its end, and what administrators do to an account.
LEMMA AccountPreserves ==
    ASSUME AccessInv, NEW u \in Users, NEW r \in Requests,
           \/ LockOut(u) \/ AutoUnlock(u) \/ Restore(r, u) \/ SetPassword(r, u)
           \/ \E role \in {"ADMIN", "OTHER"} : CreateUser(r, u, role)
    PROVE  AccessInv'
<1>1. users[u] \in User /\ users[u].password \in Nat \ {0}
  BY DEF AccessInv, Types, User
<1>2. CASE LockOut(u)
  <2> DEFINE row == [users[u] EXCEPT !.status = "LOCKED"]
  <2>1. row \in User /\ row.status = "LOCKED" /\ row.password = users[u].password
    BY <1>1 DEF User
  <2>2. users' = [users EXCEPT ![u] = row] /\ users[u].password <= row.password
    BY <1>1, <1>2, <2>1 DEF LockOut
  <2>3. UNCHANGED <<sessions, cache, logins, requests, evicted>>
    BY <1>2 DEF LockOut
  <2> HIDE DEF row
  <2> QED
    BY <2>1, <2>2, <2>3, RowStep
<1>3. CASE AutoUnlock(u) \/ Restore(r, u)
  <2>1. [users[u] EXCEPT !.status = "ACTIVE"] \in User
    BY <1>1 DEF User
  <2> QED
    BY <1>1, <1>3, <2>1, RowStep DEF AutoUnlock, Restore, User
<1>4. CASE SetPassword(r, u)
  <2>1. PICK now \in Later : users' = [users EXCEPT ![u].password = now]
    BY <1>4 DEF SetPassword
  <2>2. now \in Nat \ {0} /\ users[u].password <= now
    BY <2>1, LaterIsNew
  <2>3. [users[u] EXCEPT !.password = now] \in User
    BY <1>1, <2>2 DEF User
  <2> QED
    BY <1>1, <1>4, <2>1, <2>2, <2>3, RowStep DEF SetPassword, Exists, User
<1>5. CASE \E role \in {"ADMIN", "OTHER"} : CreateUser(r, u, role)
  <2>1. PICK role \in {"ADMIN", "OTHER"} : CreateUser(r, u, role)
    BY <1>5
  <2>2. [status |-> "ACTIVE", role |-> role, password |-> 1] \in User
    BY <2>1 DEF User
  <2> QED
    BY <2>1, <2>2, RowStep DEF CreateUser
<1> QED
  BY <1>2, <1>3, <1>4, <1>5

\* Removals: the request keeps its token from the count to the commit.
LEMMA RemovalPreserves ==
    ASSUME AccessInv, NEW r \in Requests,
           \/ \E u \in Users, what \in {"disable", "role"} : BeginRemoval(r, u, what)
           \/ CommitRemoval(r)
    PROVE  AccessInv'
<1>1. PICK q \in Request : q = requests[r]
  BY DEF AccessInv, Types
<1>2. CASE \E u \in Users, what \in {"disable", "role"} : BeginRemoval(r, u, what)
  <2>1. PICK u \in Users, what \in {"disable", "role"} : BeginRemoval(r, u, what)
    BY <1>2
  <2> DEFINE p == [GoOn(r, what) EXCEPT !.target = u]
  <2>2. p \in Request /\ p.at = what /\ p.token = q.token
    BY <1>1 DEF GoOn, Idle, Request
  <2>3. requests' = [requests EXCEPT ![r] = p] /\ requests'[r] = p
    BY <2>1 DEF BeginRemoval, AccessInv, Types
  <2>4. q.token \in Tokens /\ logins[q.token].at = "done"
    BY <1>1, <2>1 DEF BeginRemoval, Admin, AccessInv, RequestOK
  <2>5. UNCHANGED <<users, sessions, cache, logins, evicted>>
    BY <2>1 DEF BeginRemoval
  <2> HIDE DEF p
  <2>6. RequestOK(r)'
    BY <2>2, <2>3, <2>4, <2>5 DEF RequestOK
  <2> QED
    BY <2>2, <2>3, <2>5, <2>6, RequestStep
<1>3. CASE CommitRemoval(r)
  <2>1. PICK u : u = q.target
    OBVIOUS
  <2>2. CASE u \in Users
    <3>1. users[u] \in User
      BY <2>2 DEF AccessInv, Types
    <3>2. PICK row \in User :
              /\ users' = [users EXCEPT ![u] = row] /\ row.password = users[u].password
              /\ row.status \in {users[u].status, "DISABLED"}
      <4>1. CASE q.at = "disable"
        <5>1. [users[u] EXCEPT !.status = "DISABLED"] \in User
          BY <3>1 DEF User
        <5> QED
          BY <1>1, <1>3, <2>1, <3>1, <4>1, <5>1 DEF CommitRemoval, User
      <4>2. CASE q.at # "disable"
        <5>1. [users[u] EXCEPT !.role = IF @ = "ADMIN" THEN "OTHER" ELSE "ADMIN"] \in User
          BY <3>1 DEF User
        <5> QED
          BY <1>1, <1>3, <2>1, <3>1, <4>2, <5>1 DEF CommitRemoval, User
      <4> QED
        BY <4>1, <4>2
    <3>3. /\ Exists(u) => row.status # "ABSENT" /\ users[u].password <= row.password
          /\ UNCHANGED <<sessions, cache, logins, evicted>> /\ End(r)
      BY <1>3, <3>1, <3>2 DEF CommitRemoval, Exists, User
    <3> QED
      BY <2>2, <3>2, <3>3, RowStep
  <2>3. CASE u \notin Users
    <3>1. users' = users
      BY <1>1, <1>3, <2>1, <2>3 DEF CommitRemoval, AccessInv, Types
    <3> QED
      BY <1>3, <3>1, EndStep DEF CommitRemoval
  <2> QED
    BY <2>2, <2>3
<1> QED
  BY <1>2, <1>3

\* Logging out, and ending the sessions of others.
LEMMA RevocationPreserves ==
    ASSUME AccessInv, NEW r \in Requests, Logout(r) \/ LogoutAll(r) \/ RevokeOthers(r)
    PROVE  AccessInv'
<1>1. \A t \in Tokens : [sessions[t] EXCEPT !.revoked = TRUE] \in Session
  BY DEF AccessInv, Types, Session
<1>2. /\ requests' \in [Requests -> Request]
      /\ \A s \in Requests : requests'[s] = requests[s] \/ requests'[s] = Idle
  BY EndEffect DEF Logout, LogoutAll, RevokeOthers
<1>3. ASSUME NEW t \in Tokens, Revoke(t)
      PROVE  /\ sessions' \in [Tokens -> Session] /\ cache' \in [Tokens -> Nat]
             /\ \A s \in Tokens :
                  /\ sessions'[s].user = sessions[s].user
                  /\ sessions'[s].version = sessions[s].version
                  /\ sessions'[s].revoked \/ (sessions'[s] = sessions[s] /\ cache'[s] = cache[s])
  BY <1>1, <1>3 DEF Revoke, AccessInv, Types, Session
<1>4. ASSUME NEW u, sessions' = RevokeSessions(u, {}), cache' = cache
      PROVE  /\ sessions' \in [Tokens -> Session] /\ cache' \in [Tokens -> Nat]
             /\ \A s \in Tokens :
                  /\ sessions'[s].user = sessions[s].user
                  /\ sessions'[s].version = sessions[s].version
                  /\ sessions'[s].revoked \/ (sessions'[s] = sessions[s] /\ cache'[s] = cache[s])
  BY <1>1, <1>4 DEF RevokeSessions, AccessInv, Types, Session
<1>5. CASE Logout(r)
  <2>1. requests[r].token \in Tokens
    BY <1>5 DEF Logout, AccessInv, RequestOK
  <2> QED
    BY <1>2, <1>3, <1>5, <2>1, RevokeStep DEF Logout
<1>6. CASE LogoutAll(r)
  BY <1>2, <1>4, <1>6, RevokeStep DEF LogoutAll
<1>7. CASE RevokeOthers(r)
  <2>1. UNCHANGED <<users, logins, evicted>>
    BY <1>7 DEF RevokeOthers
  <2>2. CASE \E u \in Users : sessions' = RevokeSessions(u, {}) /\ cache' = cache
    BY <1>2, <1>4, <2>1, <2>2, RevokeStep
  <2>3. CASE \E t \in Tokens : Revoke(t)
    BY <1>2, <1>3, <2>1, <2>3, RevokeStep
  <2> QED
    BY <1>7, <2>2, <2>3 DEF RevokeOthers
<1> QED
  BY <1>5, <1>6, <1>7

-----------------------------------------------------------------------------
(* Tokens and copies *)

\* A user who logs in is there, and the password has only become newer since it was read.
LEMMA LoginPreserves ==
    ASSUME AccessInv, NEW t \in Tokens, CreateSession(t) \/ \E u \in Users : LoginRead(t, u)
    PROVE  AccessInv'
<1>1. /\ logins[t] \in Login /\ LoginOK(t)
      /\ \A u \in Users : users[u] \in User /\ users[u].password \in Nat \ {0}
  BY DEF AccessInv, Types, User
<1>2. CASE \E u \in Users : LoginRead(t, u)
  <2>1. PICK u \in Users : LoginRead(t, u)
    BY <1>2
  <2> DEFINE l == [at |-> "verified", user |-> u, version |-> users[u].password]
  <2>2. l \in Login /\ l.at = "verified" /\ l.user = u /\ l.version = users[u].password
    BY <1>1 DEF Login
  <2>3. /\ logins' = [logins EXCEPT ![t] = l] /\ logins[t].at = "none"
        /\ users[u].status = "ACTIVE"
        /\ UNCHANGED <<users, sessions, cache, requests, evicted>>
    BY <2>1 DEF LoginRead
  <2> HIDE DEF l
  <2>4. Types' /\ Grown
    BY <1>1, <2>2, <2>3 DEF AccessInv, Types, Grown, Exists
  <2>5. SessionsKept
    <3>1. \A s \in Tokens : sessions[s].version \in Nat
      BY DEF AccessInv, Types, Session
    <3> QED
      BY <2>3, <3>1 DEF SessionsKept, AccessInv, Types
  <2>6. ASSUME NEW s \in Tokens
        PROVE  LoginOK(s)' /\ SessionOK(s)'
    <3>1. CASE s = t
      <4>1. logins'[s] = l
        BY <2>3, <3>1 DEF AccessInv, Types
      <4> QED
        BY <1>1, <2>2, <2>3, <4>1 DEF LoginOK, SessionOK, Known, Exists
    <3>2. CASE s # t
      BY <2>3, <3>2 DEF AccessInv, Types, LoginOK, SessionOK, Known, Exists
    <3> QED
      BY <3>1, <3>2
  <2> QED
    BY <2>3, <2>4, <2>5, <2>6, StateStep
<1>3. CASE CreateSession(t)
  <2>1. PICK u \in Users : u = logins[t].user /\ Exists(u)
    BY <1>1, <1>3 DEF CreateSession, LoginOK, Known
  <2>2. PICK version \in {users[u].password} \cup Later : users' = [users EXCEPT ![u].password = version]
    BY <1>3, <2>1 DEF CreateSession
  <2>3. version \in Nat \ {0} /\ users[u].password <= version
    BY <1>1, <2>2, LaterIsNew
  <2>4. PICK v : v = logins[t].version
    OBVIOUS
  <2>5. v \in 1 .. users[u].password /\ v \in Nat /\ logins[t].at = "verified"
    BY <1>1, <1>3, <2>1, <2>4 DEF CreateSession, LoginOK
  <2> DEFINE row == [users[u] EXCEPT !.password = version]
             session == [user |-> u, version |-> v, revoked |-> FALSE]
             l == [NoLogin EXCEPT !.at = "done"]
  <2>6. /\ row \in User /\ row.password = version /\ row.status = users[u].status
        /\ session \in Session /\ session.user = u /\ session.version = v
        /\ l \in Login /\ l.at = "done"
    BY <1>1, <2>3, <2>5 DEF User, Session, Login, NoLogin
  <2>7. /\ users' = [users EXCEPT ![u] = row]
        /\ sessions' = [sessions EXCEPT ![t] = session]
        /\ cache' = [cache EXCEPT ![t] = v]
        /\ logins' = [logins EXCEPT ![t] = l]
        /\ UNCHANGED <<requests, evicted>>
    BY <1>3, <2>1, <2>2, <2>4 DEF CreateSession
  <2> HIDE DEF row, session, l
  <2>8. Types'
    BY <2>5, <2>6, <2>7 DEF AccessInv, Types
  <2>9. Grown /\ users'[u] = row
    BY <1>1, <2>1, <2>3, <2>6, <2>7 DEF Grown, Exists, AccessInv, Types
  <2>10. SessionsKept
    <3>1. \A s \in Tokens : sessions[s].version \in Nat
      BY DEF AccessInv, Types, Session
    <3> QED
      BY <2>5, <2>7, <3>1 DEF SessionsKept, AccessInv, Types
  <2>11. ASSUME NEW s \in Tokens
         PROVE  LoginOK(s)' /\ SessionOK(s)'
    <3>1. CASE s = t
      <4>1. logins'[s] = l /\ sessions'[s] = session /\ cache'[s] = v
        BY <2>7, <3>1 DEF AccessInv, Types
      <4>2. users'[u].status # "ABSENT" /\ v \in 1 .. users'[u].password
        BY <1>1, <2>1, <2>3, <2>5, <2>6, <2>9 DEF Exists
      <4>3. v \in 1 .. v
        BY <2>5
      <4> QED
        BY <2>6, <4>1, <4>2, <4>3 DEF LoginOK, SessionOK, Known, Exists
    <3>2. CASE s # t
      <4>1. /\ logins'[s] = logins[s] /\ sessions'[s] = sessions[s] /\ cache'[s] = cache[s]
            /\ logins[s].version \in Nat /\ sessions[s].version \in Nat
        BY <2>7, <3>2 DEF AccessInv, Types, Login, Session
      <4>2. \A x \in Users : Exists(x) =>
                /\ Exists(x)' /\ users[x].password <= users'[x].password
                /\ users[x].password \in Nat /\ users'[x].password \in Nat
        BY <1>1, <2>8, <2>9 DEF Grown, Exists, Types, User
      <4>3. LoginOK(s) /\ SessionOK(s)
        BY DEF AccessInv
      <4> QED
        BY <2>7, <4>1, <4>2, <4>3 DEF LoginOK, SessionOK, Known
    <3> QED
      BY <3>1, <3>2
  <2> QED
    BY <2>7, <2>8, <2>9, <2>10, <2>11, StateStep
<1> QED
  BY <1>2, <1>3

\* A copy is lost, written back, or follows the password.
LEMMA CopyPreserves ==
    ASSUME AccessInv,
           \/ \E t \in Tokens : Evict(t)
           \/ \E r \in Requests : WriteBack(r) \/ FollowPassword(r)
    PROVE  AccessInv'
<1>1. \A t \in Tokens : sessions[t].version \in Nat /\ cache[t] \in Nat
  BY DEF AccessInv, Types, Session
<1>2. ASSUME UNCHANGED <<users, sessions, logins>>
      PROVE  SessionsKept /\ Grown
  <2>1. \A u \in Users : users[u].password \in Nat
    BY DEF AccessInv, Types, User
  <2> QED
    BY <1>1, <1>2, <2>1 DEF SessionsKept, Grown, Exists
<1>3. CASE \E t \in Tokens : Evict(t)
  <2>1. Types'
    BY <1>3 DEF Evict, AccessInv, Types
  <2>2. \A s \in Tokens : LoginOK(s)' /\ SessionOK(s)'
    BY <1>3 DEF Evict, AccessInv, LoginOK, SessionOK, Known, Exists
  <2>3. UNCHANGED <<users, sessions, logins, requests>> /\ evicted'
    BY <1>3 DEF Evict
  <2> QED
    BY <1>2, <2>1, <2>2, <2>3, StateStep
<1>4. ASSUME NEW r \in Requests, WriteBack(r)
      PROVE  AccessInv'
  <2>1. PICK q \in Request : q = requests[r]
    BY DEF AccessInv, Types
  <2>2. /\ q.at = "live" /\ q.token \in Tokens /\ logins[q.token].at = "done" /\ ~q.withdrawn
        /\ RequestOK(r) /\ UNCHANGED <<users, sessions, logins, evicted>>
    BY <1>4, <2>1 DEF WriteBack, AccessInv, RequestOK
  <2> DEFINE p == [q EXCEPT !.at = "accepted", !.version = 0]
  <2>3. /\ p \in Request /\ p.at = "accepted" /\ p.token = q.token /\ p.withdrawn = q.withdrawn
        /\ q.version \in Nat
    BY <2>1 DEF Request
  <2>4. requests' = [requests EXCEPT ![r] = p] /\ cache' = [cache EXCEPT ![q.token] = q.version]
    BY <1>4, <2>1 DEF WriteBack
  <2>5. requests'[r] = p /\ \A s \in Requests : s # r => requests'[s] = requests[s]
    BY <2>4 DEF AccessInv, Types
  <2> HIDE DEF p
  <2>6. Types'
    BY <2>2, <2>3, <2>4 DEF AccessInv, Types
  <2>7. RequestOK(r)'
    BY <2>2, <2>3, <2>5 DEF RequestOK
  <2>8. ~evicted /\ ~sessions[q.token].revoked => q.version \in 1 .. sessions[q.token].version
    BY <2>1, <2>2 DEF RequestOK
  <2>9. \A s \in Tokens : LoginOK(s)' /\ SessionOK(s)'
    BY <2>2, <2>4, <2>8 DEF AccessInv, Types, LoginOK, SessionOK, Known, Exists
  <2> QED
    BY <1>2, <2>2, <2>5, <2>6, <2>7, <2>9, StateStep
<1>5. ASSUME NEW r \in Requests, FollowPassword(r)
      PROVE  AccessInv'
  <2>1. PICK q \in Request : q = requests[r]
    BY DEF AccessInv, Types
  <2>2. /\ q.at = "changed" /\ q.token \in Tokens
        /\ q.version \in 1 .. sessions[q.token].version /\ q.version \in Nat
        /\ UNCHANGED <<users, sessions, logins, evicted>> /\ End(r)
    BY <1>5, <2>1 DEF FollowPassword, AccessInv, RequestOK, Request
  <2>3. cache' = [cache EXCEPT ![q.token] = IF @ = 0 THEN 0 ELSE q.version]
    BY <1>5, <2>1 DEF FollowPassword
  <2>4. /\ requests' \in [Requests -> Request]
        /\ \A s \in Requests : requests'[s] = requests[s] \/ requests'[s] = Idle
    BY <2>2, EndEffect
  <2>5. Types'
    BY <2>2, <2>3, <2>4 DEF AccessInv, Types
  <2>6. \A s \in Tokens : LoginOK(s)' /\ SessionOK(s)'
    BY <1>1, <2>2, <2>3 DEF AccessInv, Types, LoginOK, SessionOK, Known, Exists
  <2> QED
    BY <1>2, <2>2, <2>4, <2>5, <2>6, StateStep, OverIsOK
<1> QED
  BY <1>3, <1>4, <1>5

\* A new password: the session it is changed from follows, the others are revoked.
LEMMA PasswordPreserves ==
    ASSUME AccessInv, NEW r \in Requests, ChangePassword(r)
    PROVE  AccessInv'
<1>1. PICK q \in Request : q = requests[r]
  BY DEF AccessInv, Types
<1>2. /\ q.at = "accepted" /\ q.token \in Tokens /\ logins[q.token].at = "done"
      /\ UNCHANGED <<cache, logins, evicted>>
  BY <1>1 DEF ChangePassword, AccessInv, RequestOK
<1>3. PICK t \in Tokens : t = q.token
  BY <1>2
<1>4. PICK u \in Users : u = sessions[t].user /\ Exists(u)
  BY <1>2, <1>3 DEF AccessInv, SessionOK, Known
<1>5. PICK now \in Later :
          /\ users' = [users EXCEPT ![u].password = now]
          /\ sessions' = [RevokeSessions(u, {t}) EXCEPT ![t].version = now]
          /\ requests' = [requests EXCEPT ![r] = [GoOn(r, "changed") EXCEPT !.version = now]]
  BY <1>1, <1>3, <1>4 DEF ChangePassword, Actor
<1>6. now \in Nat \ {0} /\ \A x \in Users : users[x].password <= now
  BY LaterIsNew
<1>7. /\ \A x \in Users : users[x] \in User /\ users[x].password \in Nat
      /\ \A s \in Tokens : sessions[s] \in Session /\ sessions[s].version \in Nat
  BY DEF AccessInv, Types, User, Session
<1> DEFINE row == [users[u] EXCEPT !.password = now]
           p == [GoOn(r, "changed") EXCEPT !.version = now]
<1>8. /\ row \in User /\ row.password = now /\ row.status = users[u].status
      /\ p \in Request /\ p.at = "changed" /\ p.token = t /\ p.version = now
  BY <1>1, <1>3, <1>6, <1>7 DEF User, GoOn, Idle, Request
<1>9. users' = [users EXCEPT ![u] = row] /\ requests' = [requests EXCEPT ![r] = p]
  BY <1>5
<1> HIDE DEF row, p
<1>10. /\ users'[u] = row /\ \A x \in Users : x # u => users'[x] = users[x]
       /\ requests'[r] = p /\ \A s \in Requests : s # r => requests'[s] = requests[s]
  BY <1>9 DEF AccessInv, Types
<1>11. ASSUME NEW s \in Tokens
       PROVE  [sessions[s] EXCEPT !.revoked = TRUE] \in Session
  BY <1>7 DEF Session
<1>12. PICK revoked : revoked = RevokeSessions(u, {t})
  OBVIOUS
<1>13. /\ revoked \in [Tokens -> Session]
       /\ revoked[t] = sessions[t]
       /\ \A s \in Tokens : revoked[s] \in {sessions[s], [sessions[s] EXCEPT !.revoked = TRUE]}
       /\ \A s \in Tokens \ {t} : sessions[s].user = u => revoked[s].revoked = TRUE
  BY <1>7, <1>11, <1>12 DEF RevokeSessions, Session
<1>14. [sessions[t] EXCEPT !.version = now] \in Session
  BY <1>6, <1>7 DEF Session
<1>15. sessions' = [revoked EXCEPT ![t] = [sessions[t] EXCEPT !.version = now]]
  BY <1>5, <1>12, <1>13
<1>16. /\ sessions' \in [Tokens -> Session]
       /\ sessions'[t] = [sessions[t] EXCEPT !.version = now]
       /\ \A s \in Tokens \ {t} : sessions'[s] = revoked[s]
  BY <1>13, <1>14, <1>15
<1>17. \A s \in Tokens \ {t} : /\ sessions'[s].user = sessions[s].user
                               /\ sessions'[s].version = sessions[s].version
                               /\ sessions[s].revoked => sessions'[s].revoked
                               /\ sessions'[s].revoked \/ sessions'[s] = sessions[s]
  BY <1>7, <1>13, <1>16 DEF Session
<1>18. /\ sessions'[t].user = u /\ sessions'[t].version = now
       /\ sessions'[t].revoked = sessions[t].revoked
  BY <1>4, <1>7, <1>16 DEF Session
<1>19. sessions[t].version \in 1 .. users[u].password
  BY <1>2, <1>3, <1>4 DEF AccessInv, SessionOK
<1>20. Types'
  BY <1>2, <1>8, <1>9, <1>16 DEF AccessInv, Types
<1>21. Grown
  BY <1>6, <1>7, <1>8, <1>10 DEF Grown, Exists
<1>22. SessionsKept
  <2>1. \A s \in Tokens : sessions[s].version <= sessions'[s].version
    BY <1>6, <1>7, <1>17, <1>18, <1>19
  <2> QED
    BY <1>2, <1>4, <1>17, <1>18, <2>1 DEF SessionsKept
<1>23. RequestOK(r)'
  <2>1. now \in 1 .. now
    BY <1>6
  <2> QED
    BY <1>2, <1>3, <1>8, <1>10, <1>18, <2>1 DEF RequestOK
<1>24. ASSUME NEW s \in Tokens
       PROVE  LoginOK(s)' /\ SessionOK(s)'
  <2>1. \A x \in Users : Exists(x) =>
            /\ Exists(x)' /\ users[x].password <= users'[x].password
            /\ users[x].password \in Nat /\ users'[x].password \in Nat
    BY <1>6, <1>7, <1>8, <1>10, <1>21 DEF Grown, Exists
  <2>2. LoginOK(s) /\ SessionOK(s) /\ logins[s] \in Login /\ logins[s].version \in Nat
    BY DEF AccessInv, Types, Login
  <2>3. LoginOK(s)'
    BY <1>2, <2>1, <2>2 DEF LoginOK, Known
  <2>4. CASE s = t
    <3>1. users'[u].password = now /\ now \in 1 .. now
      BY <1>6, <1>8, <1>10
    <3>2. ~evicted /\ ~sessions[t].revoked => cache[t] \in 1 .. now
      BY <1>2, <1>3, <1>6, <1>19, <2>2, <2>4, <1>7 DEF SessionOK
    <3> QED
      BY <1>2, <1>4, <1>18, <2>1, <2>3, <2>4, <3>1, <3>2 DEF SessionOK, Known
  <2>5. CASE s # t
    BY <1>2, <1>7, <1>17, <2>1, <2>2, <2>3, <2>5 DEF SessionOK, Known
  <2> QED
    BY <2>4, <2>5
<1> QED
  BY <1>2, <1>10, <1>20, <1>21, <1>22, <1>23, <1>24, StateStep

\* A request that goes through the interceptor has no more to do with its session.
LEMMA KeyedPreserves ==
    ASSUME AccessInv, NEW r \in Requests,
           (\E k \in Keys : Reserve(r, k)) \/ Persist(r) \/ Release(r)
    PROVE  AccessInv'
<1>1. CASE End(r)
  BY <1>1, EndStep DEF Reserve, Persist, Release, OthersUnchanged
<1>2. CASE \E k \in Keys : requests' = [requests EXCEPT ![r] = [Idle EXCEPT !.at = "handling", !.key = k]]
  <2>1. PICK k \in Keys : requests' = [requests EXCEPT ![r] = [Idle EXCEPT !.at = "handling", !.key = k]]
    BY <1>2
  <2> DEFINE q == [Idle EXCEPT !.at = "handling", !.key = k]
  <2>2. q \in Request /\ q.at = "handling"
    BY DEF Idle, Request
  <2>3. requests' = [requests EXCEPT ![r] = q] /\ requests'[r] = q
    BY <2>1 DEF AccessInv, Types
  <2> HIDE DEF q
  <2>4. RequestOK(r)'
    BY <2>2, <2>3 DEF RequestOK
  <2>5. UNCHANGED <<users, sessions, cache, logins, evicted>>
    BY DEF Reserve, Persist, Release, OthersUnchanged
  <2> QED
    BY <2>2, <2>3, <2>4, <2>5, RequestStep
<1> QED
  BY <1>1, <1>2 DEF Reserve, Persist, Release

\* A crash forgets what was under way.
LEMMA CrashPreserves ==
    ASSUME AccessInv, Crash
    PROVE  AccessInv'
<1>1. Idle \in Request /\ NoLogin \in Login /\ NoLogin.at = "none"
  BY DEF Idle, Request, NoLogin, Login
<1>2. \A t \in Tokens : logins'[t] \in {logins[t], NoLogin} /\ (logins[t].at = "done" => logins'[t] = logins[t])
  BY DEF Crash
<1>3. Types'
  BY <1>1 DEF Crash, AccessInv, Types
<1>4. Grown /\ SessionsKept
  <2>1. \A u \in Users : users[u].password \in Nat
    BY DEF AccessInv, Types, User
  <2>2. \A t \in Tokens : sessions[t].version \in Nat
    BY DEF AccessInv, Types, Session
  <2> QED
    BY <1>2, <2>1, <2>2 DEF Crash, Grown, SessionsKept, Exists
<1>5. \A t \in Tokens : LoginOK(t)' /\ SessionOK(t)'
  BY <1>1, <1>2 DEF Crash, AccessInv, LoginOK, SessionOK, Known, Exists
<1>6. \A r \in Requests : requests'[r] = Idle
  BY DEF Crash
<1>7. \A r \in Requests : RequestOK(r)'
  BY <1>6, OverIsOK
<1>8. evicted => evicted'
  BY DEF Crash
<1> QED
  BY <1>3, <1>4, <1>5, <1>7, <1>8, StateStep

-----------------------------------------------------------------------------
(* The theorems about sessions *)

\* The seeded administrator is the only user, and nobody is logged in.
LEMMA InitAccess == Init => AccessInv
<1> SUFFICES ASSUME Init PROVE AccessInv
  OBVIOUS
<1>1. Idle \in Request /\ NoLogin \in Login /\ Idle.at = "idle" /\ NoLogin.at = "none"
  BY DEF Idle, Request, NoLogin, Login
<1>2. Types
  <2>1. users \in [Users -> User] /\ sessions \in [Tokens -> Session]
    BY DEF Init, AccountInit, User, Session
  <2>2. cache \in [Tokens -> Nat] /\ evicted \in BOOLEAN
    BY DEF Init, AccountInit
  <2>3. logins \in [Tokens -> Login] /\ requests \in [Requests -> Request]
    BY <1>1 DEF Init, AccountInit
  <2> QED
    BY <2>1, <2>2, <2>3 DEF Types
<1>3. \A t \in Tokens : LoginOK(t) /\ SessionOK(t)
  BY <1>1 DEF Init, AccountInit, LoginOK, SessionOK
<1>4. \A r \in Requests : RequestOK(r)
  BY <1>1 DEF Init, AccountInit, RequestOK
<1> QED
  BY <1>2, <1>3, <1>4 DEF AccessInv

\* Every step keeps it.
LEMMA NextAccess == AccessInv /\ [Next]_vars => AccessInv'
<1> SUFFICES ASSUME AccessInv, [Next]_vars PROVE AccessInv'
  OBVIOUS
<1>1. CASE UNCHANGED vars
  BY <1>1 DEF vars, accountVars, AccessInv, Types, LoginOK, SessionOK, RequestOK, Known, Exists
<1>2. CASE AccountNext
  <2>1. CASE \E t \in Tokens : CreateSession(t) \/ \E u \in Users : LoginRead(t, u)
    BY <2>1, LoginPreserves
  <2>2. CASE \E t \in Tokens, r \in Requests : Look(r, t)
    BY <2>2, LookPreserves
  <2>3. CASE \E t \in Tokens : Evict(t)
    BY <2>3, CopyPreserves
  <2>4. CASE \E r \in Requests : WriteBack(r) \/ FollowPassword(r)
    BY <2>4, CopyPreserves
  <2>5. CASE \E u \in Users : LockOut(u) \/ AutoUnlock(u)
    <3>1. CASE Requests = {}
      <4>1. ASSUME NEW u \in Users, LockOut(u) \/ AutoUnlock(u)
            PROVE  AccessInv'
        <5>1. users' \in [Users -> User] /\ Grown
          BY <4>1 DEF LockOut, AutoUnlock, Grown, Exists, AccessInv, Types, User
        <5>2. UNCHANGED <<sessions, cache, logins, requests, evicted>>
          BY <4>1 DEF LockOut, AutoUnlock
        <5> QED
          BY <5>1, <5>2, UserStep DEF AccessInv, Types
      <4> QED
        BY <2>5, <4>1
    <3>2. CASE Requests # {}
      BY <2>5, <3>2, AccountPreserves
    <3> QED
      BY <3>1, <3>2
  <2>6. CASE \E r \in Requests : Expired(r) \/ CheckUser(r) \/ CheckSession(r)
    BY <2>6, EndStep, CheckUserPreserves, CheckSessionPreserves DEF Expired
  <2>7. CASE \E r \in Requests : Logout(r) \/ LogoutAll(r) \/ RevokeOthers(r)
    BY <2>7, RevocationPreserves
  <2>8. CASE \E r \in Requests : ChangePassword(r)
    BY <2>8, PasswordPreserves
  <2>9. CASE \E r \in Requests : CommitRemoval(r) \/ \E u \in Users, what \in {"disable", "role"} : BeginRemoval(r, u, what)
    BY <2>9, RemovalPreserves
  <2>10. CASE \E r \in Requests, u \in Users :
                 Restore(r, u) \/ SetPassword(r, u) \/ \E role \in {"ADMIN", "OTHER"} : CreateUser(r, u, role)
    BY <2>10, AccountPreserves
  <2> QED
    BY <1>2, <2>1, <2>2, <2>3, <2>4, <2>5, <2>6, <2>7, <2>8, <2>9, <2>10 DEF AccountNext
<1>3. CASE Crash
  BY <1>3, CrashPreserves
<1>4. CASE \E r \in Requests : (\E k \in Keys : Reserve(r, k)) \/ Persist(r) \/ Release(r)
  BY <1>4, KeyedPreserves
<1> QED
  BY <1>1, <1>2, <1>3, <1>4 DEF Next

\* Whoever is accepted had not been logged out when the request began, nor - as long as Redis
\* has lost no copy - left with an old password: for any number of users, sessions and requests.
THEOREM WithdrawnIsRefused == Spec => []WithdrawnStaysOut
<1>1. AccessInv => WithdrawnStaysOut
  BY DEF AccessInv, RequestOK, WithdrawnStaysOut
<1> QED
  BY <1>1, InitAccess, NextAccess, PTL DEF Spec
-----------------------------------------------------------------------------
(* Idempotency keys *)

\* A handler runs for a key that is reserved and has not been answered; no two run for
\* one key; a key that is free again has not been answered.
Handling(r) == requests[r].at = "handling"
HandlerOK(r) ==
    LET k == requests[r].key IN
    Handling(r) => k \in Keys /\ keys[k] = "reserved" /\ answered[k] = 0
KeyOK(k) ==
    /\ keys[k] = "free" => answered[k] = 0
    /\ answered[k] <= 1
KeyInv ==
    /\ keys \in [Keys -> {"free", "reserved", "answered"}]
    /\ answered \in [Keys -> Nat]
    /\ \A r \in Requests : HandlerOK(r)
    /\ \A r, s \in Requests : Handling(r) /\ Handling(s) /\ requests[r].key = requests[s].key => r = s
    /\ \A k \in Keys : KeyOK(k)

\* Where a handler runs after the step, it ran before.
HandlersKept == \A r \in Requests : Handling(r)' => requests'[r] = requests[r]

\* A request set to something that is no handler.
LEMMA NoHandlerBegins ==
    ASSUME AccessInv, NEW r \in Requests, NEW q, q.at # "handling",
           requests' = [requests EXCEPT ![r] = q]
    PROVE  HandlersKept
BY DEF AccessInv, Types, HandlersKept, Handling

\* Neither does a request that ends.
LEMMA EndHandles ==
    ASSUME AccessInv, NEW r \in Requests, End(r)
    PROVE  HandlersKept
<1>1. Idle.at # "handling"
  BY DEF Idle
<1> QED
  BY <1>1, NoHandlerBegins DEF End

\* No step of the accounts begins a handler or touches one.
LEMMA AccountKeepsHandlers ==
    ASSUME AccessInv, AccountNext
    PROVE  HandlersKept
<1>1. CASE UNCHANGED requests
  BY <1>1 DEF HandlersKept
<1>2. CASE \E r \in Requests : End(r)
  BY <1>2, EndHandles
<1>3. CASE \E r \in Requests : \E t \in Tokens : Look(r, t)
  <2>1. PICK r \in Requests, t \in Tokens : Look(r, t)
    BY <1>3
  <2> DEFINE version == IF cache[t] # 0 THEN cache[t] ELSE users[sessions[t].user].password
             q == [Idle EXCEPT !.at = "looked", !.token = t, !.withdrawn = Withdrawn(t), !.version = version]
  <2>2. requests' = [requests EXCEPT ![r] = q]
    BY <2>1 DEF Look
  <2> HIDE DEF version
  <2>3. q.at # "handling"
    BY DEF Idle
  <2> HIDE DEF q
  <2> QED
    BY <2>2, <2>3, NoHandlerBegins
<1>4. CASE \E r \in Requests : CheckUser(r) \/ CheckSession(r) \/ WriteBack(r)
  <2>1. PICK r \in Requests : CheckUser(r) \/ CheckSession(r) \/ WriteBack(r)
    BY <1>4
  <2>2. requests \in [Requests -> Request]
    BY DEF AccessInv, Types
  <2>3. CASE End(r)
    BY <2>3, <1>2
  <2>4. CASE ~End(r)
    <3>1. PICK q : q = requests'[r]
      OBVIOUS
    <3>2. /\ \A s \in Requests : s # r => requests'[s] = requests[s]
          /\ q.at \in {"checked", "live", "accepted"}
      BY <2>1, <2>2, <2>4, <3>1 DEF CheckUser, CheckSession, WriteBack, Request
    <3> QED
      BY <3>1, <3>2 DEF HandlersKept, Handling
  <2> QED
    BY <2>3, <2>4
<1>5. CASE \E r \in Requests : ChangePassword(r)
  <2>1. PICK r \in Requests : ChangePassword(r)
    BY <1>5
  <2>2. PICK now : requests' = [requests EXCEPT ![r] = [GoOn(r, "changed") EXCEPT !.version = now]]
    BY <2>1 DEF ChangePassword
  <2> DEFINE q == [GoOn(r, "changed") EXCEPT !.version = now]
  <2>3. q.at # "handling"
    BY DEF GoOn, Idle
  <2> HIDE DEF q
  <2> QED
    BY <2>2, <2>3, NoHandlerBegins DEF q
<1>6. CASE \E r \in Requests, u \in Users, what \in {"disable", "role"} : BeginRemoval(r, u, what)
  <2>1. PICK r \in Requests, u \in Users, what \in {"disable", "role"} : BeginRemoval(r, u, what)
    BY <1>6
  <2> DEFINE q == [GoOn(r, what) EXCEPT !.target = u]
  <2>2. requests' = [requests EXCEPT ![r] = q]
    BY <2>1 DEF BeginRemoval
  <2>3. q.at # "handling"
    BY DEF GoOn, Idle
  <2> HIDE DEF q
  <2> QED
    BY <2>2, <2>3, NoHandlerBegins
<1>7. \/ UNCHANGED requests
      \/ \E r \in Requests : End(r)
      \/ \E r \in Requests : \E t \in Tokens : Look(r, t)
      \/ \E r \in Requests : CheckUser(r) \/ CheckSession(r) \/ WriteBack(r) \/ ChangePassword(r)
      \/ \E r \in Requests, u \in Users, what \in {"disable", "role"} : BeginRemoval(r, u, what)
  BY DEF AccountNext, LoginRead, CreateSession, Evict, LockOut, AutoUnlock, Expired, Logout,
         LogoutAll, FollowPassword, RevokeOthers, CommitRemoval, CreateUser, Restore, SetPassword
<1> QED
  BY <1>1, <1>2, <1>3, <1>4, <1>5, <1>6, <1>7

\* Handlers that go on, and keys as they were.
LEMMA KeysKept ==
    ASSUME KeyInv, HandlersKept, UNCHANGED keyVars
    PROVE  KeyInv'
<1>1. \A r \in Requests : HandlerOK(r)'
  BY DEF KeyInv, HandlersKept, HandlerOK, Handling, keyVars
<1>2. \A r, s \in Requests : Handling(r)' /\ Handling(s)' /\ requests'[r].key = requests'[s].key => r = s
  BY DEF KeyInv, HandlersKept, Handling
<1>3. \A k \in Keys : KeyOK(k)'
  BY DEF KeyInv, KeyOK, keyVars
<1> QED
  BY <1>1, <1>2, <1>3 DEF KeyInv, keyVars

\* A reservation takes a free key, for which no handler runs.
LEMMA ReservePreserves ==
    ASSUME AccessInv, KeyInv, NEW r \in Requests, NEW k \in Keys, Reserve(r, k)
    PROVE  KeyInv'
<1>1. CASE keys[k] # "free"
  <2>1. End(r) /\ UNCHANGED keyVars
    BY <1>1 DEF Reserve, keyVars
  <2> QED
    BY <2>1, EndHandles, KeysKept
<1>2. CASE keys[k] = "free"
  <2> DEFINE q == [Idle EXCEPT !.at = "handling", !.key = k]
  <2>1. q.at = "handling" /\ q.key = k
    BY DEF Idle
  <2>2. requests' = [requests EXCEPT ![r] = q]
    BY <1>2 DEF Reserve
  <2> HIDE DEF q
  <2>3. requests'[r] = q /\ \A s \in Requests : s # r => requests'[s] = requests[s]
    BY <2>2 DEF AccessInv, Types
  <2>4. keys' = [keys EXCEPT ![k] = "reserved"] /\ answered' = answered
    BY <1>2 DEF Reserve
  <2>5. \A s \in Requests : Handling(s) => requests[s].key # k
    BY <1>2 DEF KeyInv, HandlerOK
  <2>6. /\ keys' \in [Keys -> {"free", "reserved", "answered"}] /\ keys'[k] = "reserved"
        /\ \A l \in Keys : l # k => keys'[l] = keys[l]
    BY <2>4 DEF KeyInv
  <2>7. \A s \in Requests : HandlerOK(s)'
    BY <1>2, <2>1, <2>3, <2>4, <2>5, <2>6 DEF KeyInv, HandlerOK, Handling, KeyOK
  <2>8. \A s, p \in Requests : Handling(s)' /\ Handling(p)' /\ requests'[s].key = requests'[p].key => s = p
    BY <2>1, <2>3, <2>5 DEF KeyInv, Handling
  <2>9. \A l \in Keys : KeyOK(l)'
    BY <2>4, <2>6 DEF KeyInv, KeyOK
  <2> QED
    BY <2>4, <2>6, <2>7, <2>8, <2>9 DEF KeyInv
<1> QED
  BY <1>1, <1>2

\* A handler that returns or throws was the only one of its key; other keys are as before.
LEMMA HandlerEnds ==
    ASSUME AccessInv, KeyInv, NEW r \in Requests, Persist(r) \/ Release(r)
    PROVE  KeyInv'
<1>1. PICK k \in Keys : k = requests[r].key /\ keys[k] = "reserved" /\ answered[k] = 0 /\ Handling(r)
  BY DEF Persist, Release, At, KeyInv, HandlerOK, Handling
<1>2. /\ \A l \in Keys : l # k => keys'[l] = keys[l] /\ answered'[l] = answered[l]
      /\ keys' \in [Keys -> {"free", "reserved", "answered"}]
      /\ answered' \in [Keys -> Nat]
      /\ answered'[k] \in {0, 1} /\ (keys'[k] = "free" => answered'[k] = 0)
  BY <1>1 DEF Persist, Release, KeyInv
<1>3. End(r)
  BY DEF Persist, Release
<1>4. HandlersKept /\ ~Handling(r)'
  BY <1>3, EndHandles DEF End, AccessInv, Types, Idle, Handling
<1>5. \A s \in Requests : Handling(s)' => /\ requests'[s] = requests[s] /\ Handling(s)
                                          /\ s # r /\ requests[s].key # k
  BY <1>1, <1>4 DEF HandlersKept, Handling, KeyInv
<1>6. \A s \in Requests : HandlerOK(s)'
  BY <1>2, <1>5 DEF KeyInv, HandlerOK, Handling
<1>7. \A s, p \in Requests : Handling(s)' /\ Handling(p)' /\ requests'[s].key = requests'[p].key => s = p
  BY <1>5 DEF KeyInv
<1>8. \A l \in Keys : KeyOK(l)'
  BY <1>2 DEF KeyInv, KeyOK
<1> QED
  BY <1>2, <1>6, <1>7, <1>8 DEF KeyInv

\* All that keeps the invariant of the keys.
LEMMA NextKeys == AccessInv /\ KeyInv /\ [Next]_vars => KeyInv'
<1> SUFFICES ASSUME AccessInv, KeyInv, [Next]_vars PROVE KeyInv'
  OBVIOUS
<1>1. CASE UNCHANGED vars
  BY <1>1, KeysKept DEF vars, accountVars, HandlersKept
<1>2. CASE AccountNext /\ UNCHANGED keyVars
  BY <1>2, AccountKeepsHandlers, KeysKept
<1>3. CASE Crash
  <2>1. HandlersKept
    BY <1>3 DEF Crash, HandlersKept, Handling, Idle
  <2> QED
    BY <1>3, <2>1, KeysKept DEF Crash
<1>4. CASE \E r \in Requests, k \in Keys : Reserve(r, k)
  BY <1>4, ReservePreserves
<1>5. CASE \E r \in Requests : Persist(r) \/ Release(r)
  BY <1>5, HandlerEnds
<1> QED
  BY <1>1, <1>2, <1>3, <1>4, <1>5 DEF Next

\* For any number of requests with any keys, crashes and failed writes: no two runs of a
\* handler are answered under one key.
THEOREM AnsweredAtMostOnce == Spec => []AnsweredOnce
<1>1. Init => KeyInv
  BY DEF Init, AccountInit, KeyInv, HandlerOK, KeyOK, Handling, Idle
<1>2. KeyInv => AnsweredOnce
  BY DEF KeyInv, KeyOK, AnsweredOnce
<1> QED
  BY <1>1, <1>2, InitAccess, NextAccess, NextKeys, PTL DEF Spec
=============================================================================
