------------------------------- MODULE Accounts -------------------------------
(***************************************************************************)
(* Users, their sessions and the check every request passes.  PostgreSQL   *)
(* holds users and sessions, Redis a copy of each session; validate reads  *)
(* the copy, then the two rows, and writes the copy back.  A step is one   *)
(* statement or transaction, or several whose order against the steps of   *)
(* others makes no difference to what is accepted.                         *)
(***************************************************************************)
EXTENDS Integers, FiniteSets

CONSTANTS
    Users, Tokens, Requests,
    Seeded,    \* the administrator the installation begins with
    MaxTime    \* bound: moments at which passwords are set

ASSUME AccountsAssumption == Seeded \in Users /\ MaxTime \in Nat \ {0}

VARIABLES
    users,      \* users: status, role, password_updated_at (counted)
    sessions,   \* user_sessions by token: user, created_password_version, revoked_at
    cache,      \* password version in the Redis copy of a session, 0 without a copy
    logins,     \* the login that is making a token, and what it has read
    requests,   \* where a request stands in validate and in its handler
    evicted     \* Redis has lost a copy of a session

accountVars == <<users, sessions, cache, logins, requests, evicted>>

Idle == [at |-> "idle", token |-> "none", version |-> 0, role |-> "OTHER",
         withdrawn |-> FALSE, target |-> "none", key |-> "none"]
NoLogin == [at |-> "none", user |-> "none", version |-> 0]

\* now() as password_updated_at: later than any so far.
Later == {now \in 1 .. MaxTime : \A u \in Users : users[u].password < now}

ActiveAdmins == {u \in Users : users[u].status = "ACTIVE" /\ users[u].role = "ADMIN"}
Exists(u) == users[u].status # "ABSENT"

\* Removals hold the row lock of their target from the count to the commit.
RowLocked(u) == \E r \in Requests : requests[r].at \in {"disable", "role"} /\ requests[r].target = u

Actor(r) == sessions[requests[r].token].user

-----------------------------------------------------------------------------
(* Logging in *)

\* login up to verify: the user is ACTIVE and the password is right.
LoginRead(t, u) ==
    /\ logins[t].at = "none" /\ users[u].status = "ACTIVE"
    /\ logins' = [logins EXCEPT ![t] = [at |-> "verified", user |-> u, version |-> users[u].password]]
    /\ UNCHANGED <<users, sessions, cache, requests, evicted>>

\* An old hash is renewed with a new password_updated_at, whatever the status is by now;
\* then SessionService.create makes the row and its copy, with the version read before.
\* The client knows the token only from here on.
CreateSession(t) ==
    LET u == logins[t].user IN
    /\ logins[t].at = "verified" /\ ~RowLocked(u)
    /\ \E version \in {users[u].password} \cup Later :
          users' = [users EXCEPT ![u].password = version]
    /\ sessions' = [sessions EXCEPT ![t] = [user |-> u, version |-> logins[t].version, revoked |-> FALSE]]
    /\ cache' = [cache EXCEPT ![t] = logins[t].version]
    /\ logins' = [logins EXCEPT ![t] = [NoLogin EXCEPT !.at = "done"]]
    /\ UNCHANGED <<requests, evicted>>

\* incrementFailedLogin, of a wrong password or a user who is not ACTIVE: the count has
\* reached the threshold, and any status but LOCKED is overwritten.
LockOut(u) ==
    /\ Exists(u) /\ users[u].status # "LOCKED" /\ ~RowLocked(u)
    /\ users' = [users EXCEPT ![u].status = "LOCKED"]
    /\ UNCHANGED <<sessions, cache, logins, requests, evicted>>

\* A login after locked_until.
AutoUnlock(u) ==
    /\ users[u].status = "LOCKED" /\ ~RowLocked(u)
    /\ users' = [users EXCEPT ![u].status = "ACTIVE"]
    /\ UNCHANGED <<sessions, cache, logins, requests, evicted>>

-----------------------------------------------------------------------------
(* validate: the check of AuthGuard *)

\* The session is revoked or of an earlier password (Redis not having lost a copy).
Withdrawn(t) ==
    \/ sessions[t].revoked
    \/ ~evicted /\ sessions[t].version # users[sessions[t].user].password

\* The copy, or without one the rows: the version is then the user's, not the session's.
Look(r, t) ==
    /\ requests[r].at = "idle" /\ logins[t].at = "done"
    /\ requests' = [requests EXCEPT ![r] =
          [Idle EXCEPT !.at = "looked", !.token = t, !.withdrawn = Withdrawn(t),
             !.version = IF cache[t] # 0 THEN cache[t] ELSE users[sessions[t].user].password]]
    /\ UNCHANGED <<users, sessions, cache, logins, evicted>>

\* The request ends, refused or answered.
End(r) == requests' = [requests EXCEPT ![r] = Idle]

\* Either expiry has passed.
Expired(r) ==
    /\ requests[r].at = "looked" /\ End(r)
    /\ UNCHANGED <<users, sessions, cache, logins, evicted>>

\* Mutant of CheckUser: the status alone.
CheckUserStatus(r) ==
    LET u == Actor(r) IN
    /\ requests[r].at = "looked"
    /\ IF users[u].status = "ACTIVE"
       THEN requests' = [requests EXCEPT ![r].at = "checked", ![r].role = users[u].role]
       ELSE End(r)
    /\ UNCHANGED <<users, sessions, cache, logins, evicted>>

CheckUser(r) ==
    LET u == Actor(r) IN
    /\ requests[r].at = "looked"
    /\ IF users[u].status = "ACTIVE" /\ users[u].password = requests[r].version
       THEN requests' = [requests EXCEPT ![r].at = "checked", ![r].role = users[u].role]
       ELSE End(r)
    /\ UNCHANGED <<users, sessions, cache, logins, evicted>>

CheckSession(r) ==
    /\ requests[r].at = "checked"
    /\ IF sessions[requests[r].token].revoked THEN End(r)
       ELSE requests' = [requests EXCEPT ![r].at = "live"]
    /\ UNCHANGED <<users, sessions, cache, logins, evicted>>

\* The idle expiry is moved and the copy written back as it was read.
WriteBack(r) ==
    /\ requests[r].at = "live"
    /\ cache' = [cache EXCEPT ![requests[r].token] = requests[r].version]
    /\ requests' = [requests EXCEPT ![r].at = "accepted", ![r].version = 0]
    /\ UNCHANGED <<users, sessions, logins, evicted>>

\* The request goes on; what the check has read is of no more use.
GoOn(r, where) == [Idle EXCEPT !.at = where, !.token = requests[r].token]

-----------------------------------------------------------------------------
(* What an accepted request does with its own account *)

\* The sessions of u but those of keep.
RevokeSessions(u, keep) ==
    [t \in Tokens |-> IF sessions[t].user = u /\ t \notin keep
                      THEN [sessions[t] EXCEPT !.revoked = TRUE] ELSE sessions[t]]

\* revoke and revokeSessionById: the row and, in parallel, the copy.
Revoke(t) ==
    /\ sessions' = [sessions EXCEPT ![t].revoked = TRUE]
    /\ cache' = [cache EXCEPT ![t] = 0]

Logout(r) ==
    /\ requests[r].at = "accepted"
    /\ Revoke(requests[r].token)
    /\ End(r)
    /\ UNCHANGED <<users, logins, evicted>>

LogoutAll(r) ==
    /\ requests[r].at = "accepted"
    /\ sessions' = RevokeSessions(Actor(r), {})
    /\ End(r)
    /\ UNCHANGED <<users, cache, logins, evicted>>

\* The transaction of changePassword: the other sessions are revoked, this one keeps up.
ChangePassword(r) ==
    LET u == Actor(r)  t == requests[r].token IN
    /\ requests[r].at = "accepted" /\ ~RowLocked(u)
    /\ \E now \in Later :
          /\ users' = [users EXCEPT ![u].password = now]
          /\ sessions' = [RevokeSessions(u, {t}) EXCEPT ![t].version = now]
          /\ requests' = [requests EXCEPT ![r] = [GoOn(r, "changed") EXCEPT !.version = now]]
    /\ UNCHANGED <<cache, logins, evicted>>

\* updateSessionPasswordVersion: the copy follows, if there is one.
FollowPassword(r) ==
    LET t == requests[r].token IN
    /\ requests[r].at = "changed"
    /\ cache' = [cache EXCEPT ![t] = IF @ = 0 THEN 0 ELSE requests[r].version]
    /\ End(r)
    /\ UNCHANGED <<users, sessions, logins, evicted>>

-----------------------------------------------------------------------------
(* What an accepted request of an administrator does; the role is the one read *)
(* in validate.                                                               *)

Admin(r) == requests[r].at = "accepted" /\ requests[r].role = "ADMIN"

CreateUser(r, u, role) ==
    /\ Admin(r) /\ ~Exists(u)
    /\ users' = [users EXCEPT ![u] = [status |-> "ACTIVE", role |-> role, password |-> 1]]
    /\ End(r)
    /\ UNCHANGED <<sessions, cache, logins, evicted>>

\* assertNotLastActiveAdmin: only the row of u is locked.
LastAdmin(u) == users[u].role = "ADMIN" /\ Cardinality(ActiveAdmins) <= 1

\* disable, or update with another role, up to the count.
BeginRemoval(r, u, what) ==
    /\ Admin(r) /\ u # Actor(r) /\ Exists(u) /\ ~RowLocked(u)
    /\ what = "disable" => users[u].status # "DISABLED"
    /\ ~LastAdmin(u)
    /\ requests' = [requests EXCEPT ![r] = [GoOn(r, what) EXCEPT !.target = u]]
    /\ UNCHANGED <<users, sessions, cache, logins, evicted>>

CommitRemoval(r) ==
    LET u == requests[r].target IN
    /\ requests[r].at \in {"disable", "role"}
    /\ users' = IF requests[r].at = "disable" THEN [users EXCEPT ![u].status = "DISABLED"]
                ELSE [users EXCEPT ![u].role = IF @ = "ADMIN" THEN "OTHER" ELSE "ADMIN"]
    /\ End(r)
    /\ UNCHANGED <<sessions, cache, logins, evicted>>

\* enable from DISABLED, unlock from LOCKED.
Restore(r, u) ==
    /\ Admin(r) /\ users[u].status \in {"DISABLED", "LOCKED"} /\ ~RowLocked(u)
    /\ users' = [users EXCEPT ![u].status = "ACTIVE"]
    /\ End(r)
    /\ UNCHANGED <<sessions, cache, logins, evicted>>

SetPassword(r, u) ==
    /\ Admin(r) /\ Exists(u) /\ ~RowLocked(u)
    /\ \E now \in Later : users' = [users EXCEPT ![u].password = now]
    /\ End(r)
    /\ UNCHANGED <<sessions, cache, logins, evicted>>

\* deleteSession and revokeAllSessions, of any user for an administrator; a user deletes
\* any of its own sessions but the one it uses.
RevokeOthers(r) ==
    /\ requests[r].at = "accepted"
    /\ \/ /\ Admin(r)
          /\ \E u \in Users : Exists(u) /\ sessions' = RevokeSessions(u, {})
          /\ UNCHANGED cache
       \/ \E t \in Tokens :
             /\ sessions[t].user # "none"
             /\ Admin(r) \/ (sessions[t].user = Actor(r) /\ t # requests[r].token)
             /\ Revoke(t)
    /\ End(r)
    /\ UNCHANGED <<users, logins, evicted>>

-----------------------------------------------------------------------------
(* Redis loses a copy. *)
Evict(t) ==
    /\ cache[t] # 0
    /\ cache' = [cache EXCEPT ![t] = 0]
    /\ evicted' = TRUE
    /\ UNCHANGED <<users, sessions, logins, requests>>

AccountInit ==
    /\ users = [u \in Users |->
          [status |-> IF u = Seeded THEN "ACTIVE" ELSE "ABSENT",
           role |-> IF u = Seeded THEN "ADMIN" ELSE "OTHER", password |-> 1]]
    /\ sessions = [t \in Tokens |-> [user |-> "none", version |-> 0, revoked |-> FALSE]]
    /\ cache = [t \in Tokens |-> 0]
    /\ logins = [t \in Tokens |-> NoLogin]
    /\ requests = [r \in Requests |-> Idle]
    /\ evicted = FALSE

AccountNext ==
    \/ \E t \in Tokens :
          \/ \E u \in Users : LoginRead(t, u)
          \/ CreateSession(t) \/ Evict(t)
          \/ \E r \in Requests : Look(r, t)
    \/ \E u \in Users : LockOut(u) \/ AutoUnlock(u)
    \/ \E r \in Requests :
          \/ Expired(r) \/ CheckUser(r) \/ CheckSession(r) \/ WriteBack(r)
          \/ Logout(r) \/ LogoutAll(r) \/ ChangePassword(r) \/ FollowPassword(r)
          \/ RevokeOthers(r) \/ CommitRemoval(r)
          \/ \E u \in Users :
                \/ \E role \in {"ADMIN", "OTHER"} : CreateUser(r, u, role)
                \/ \E what \in {"disable", "role"} : BeginRemoval(r, u, what)
                \/ Restore(r, u) \/ SetPassword(r, u)

\* A request that is accepted was not withdrawn when it began: its session had not been
\* revoked, and (unless Redis lost a copy) belonged to the current password.  Copies that
\* a concurrent check writes back after the revocation or the change make no difference.
WithdrawnStaysOut ==
    \A r \in Requests : requests[r].at = "accepted" => ~requests[r].withdrawn
=============================================================================
