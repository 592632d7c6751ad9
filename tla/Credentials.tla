---------------------------- MODULE Credentials ----------------------------
(***************************************************************************)
(* The credentials of one tenant: the users of routers/v1/admin/users.py,  *)
(* their sessions (routers/v1/auth.py), the API keys they mint, rotate and *)
(* revoke (routers/v1/admin/keys.py), the hourly key expiry of             *)
(* retention_service.py, and the rules of security.get_tenant_context.     *)
(*                                                                         *)
(* No handler awaits between its reads and its commit, so each is one      *)
(* step.  A request that is refused changes no row and is no step.  What   *)
(* the code compares with the clock is kept exactly: a token is good while *)
(* now < exp, a refresh token while now < expires_at, a key is refused     *)
(* once expires_at or grace_period_ends_at < now.                          *)
(***************************************************************************)
EXTENDS Integers, Sequences, FiniteSets

CONSTANTS Users,        \* the ids the rows of users may have
          FirstAdmin,   \* the admin the tenant was set up with
          Never,        \* a column that is NULL
          AccessTTL,    \* JWT_ACCESS_TOKEN_EXPIRE_MINUTES
          RefreshTTL,   \* JWT_REFRESH_TOKEN_EXPIRE_DAYS
          Grace,        \* _GRACE_HOURS
          Expiries,     \* the instants requests name as expires_at of a key
          MaxTime,      \* bound: the last instant
          MaxSessions,  \* bound: rows of refresh_tokens
          MaxKeys       \* bound: rows of api_keys

ASSUME CredentialsAssumption ==
  /\ FirstAdmin \in Users
  /\ Never \notin Int
  /\ AccessTTL \in Nat \ {0} /\ RefreshTTL \in Nat \ {0} /\ Grace \in Nat \ {0}
  /\ Expiries \subseteq Nat
  /\ MaxTime \in Nat /\ MaxSessions \in Nat /\ MaxKeys \in Nat

VARIABLES
  now,
  users,     \* the table users
  sessions,  \* the table refresh_tokens, in the order of the log-ins
  keys       \* the table api_keys, in the order they were minted

vars == <<now, users, sessions, keys>>

Time == 0..MaxTime
Role == {"admin", "operator"}

\* A row of users; role "none" stands for a row that does not exist.
User == [role : Role \cup {"none"}, active : BOOLEAN, deleted : Time \cup {Never}]

\* A row of refresh_tokens, with the instant its latest access token was issued.
Session == [user : Users, expires : Nat, revoked : Time \cup {Never}, issued : Time]

\* A row of api_keys.  Of revoked_at the code only asks whether it is NULL; the
\* model keeps apart who has set it.
NoKey == 0
Key == [owner : Users, expires : Expiries \cup {Never}, grace : Nat \cup {Never},
        revoked : {"no", "by request", "by sweep"}, successor : Nat]

-----------------------------------------------------------------------------
(* security.py *)

\* The latest access token of a session has not reached its exp.
GoodToken(s) == now < sessions[s].issued + AccessTTL

\* A user with an access token that get_tenant_context accepts.
Authenticated(u) ==
  /\ users[u].active /\ users[u].deleted = Never
  /\ \E s \in DOMAIN sessions : sessions[s].user = u /\ GoodToken(s)

\* require_role(Role.TENANT_ADMIN)
IsAdmin(u) == Authenticated(u) /\ users[u].role = "admin"

\* The two filters on a deadline, the one of get_tenant_context and the one of
\* the hourly expiry.
Past(deadline) == deadline # Never /\ deadline < now

\* Fault: the expiry looks at one of the two columns.
LapsedByExpiry(k) == Past(keys[k].expires)

Lapsed(k) == Past(keys[k].expires) \/ Past(keys[k].grace)

\* A key get_tenant_context accepts.
Accepted(k) == /\ keys[k].revoked = "no"
               /\ ~Past(keys[k].expires)
               /\ ~Past(keys[k].grace)

-----------------------------------------------------------------------------
Init ==
  /\ now = 0
  /\ users = [u \in Users |->
                [role    |-> IF u = FirstAdmin THEN "admin" ELSE "none",
                 active  |-> u = FirstAdmin,
                 deleted |-> Never]]
  /\ sessions = <<>> /\ keys = <<>>

Tick == /\ now < MaxTime
        /\ now' = now + 1
        /\ UNCHANGED <<users, sessions, keys>>

-----------------------------------------------------------------------------
(* auth.py *)

Login(u) ==
  /\ users[u].active /\ users[u].deleted = Never
  /\ Len(sessions) < MaxSessions
  /\ sessions' = Append(sessions, [user |-> u, expires |-> now + RefreshTTL,
                                   revoked |-> Never, issued |-> now])
  /\ UNCHANGED <<now, users, keys>>

Logout(s) ==
  /\ sessions[s].revoked = Never
  /\ sessions' = [sessions EXCEPT ![s].revoked = now]
  /\ UNCHANGED <<now, users, keys>>

\* Fault: exp is stored where iat belongs.
ExpiryForIssue(s) ==
  /\ sessions[s].revoked = Never
  /\ now < sessions[s].expires
  /\ users[sessions[s].user].active
  /\ sessions' = [sessions EXCEPT ![s].issued = now + AccessTTL]
  /\ UNCHANGED <<now, users, keys>>

\* The refresh token is not rotated.  Of the user only the active flag is read.
Refresh(s) ==
  /\ sessions[s].revoked = Never
  /\ now < sessions[s].expires
  /\ users[sessions[s].user].active
  /\ sessions' = [sessions EXCEPT ![s].issued = now]
  /\ UNCHANGED <<now, users, keys>>

-----------------------------------------------------------------------------
(* users.py; c is the admin who calls. *)

\* _get_or_404
Found(u) == users[u].role # "none" /\ users[u].deleted = Never

CreateUser(c, u) ==
  /\ IsAdmin(c)
  /\ users[u].role = "none"
  /\ \E r \in Role :
       users' = [users EXCEPT ![u] = [role |-> r, active |-> TRUE, deleted |-> Never]]
  /\ UNCHANGED <<now, sessions, keys>>

\* Fault: one may deactivate oneself.
UpdateAnyone(c, u) ==
  /\ IsAdmin(c) /\ Found(u)
  /\ \E a \in BOOLEAN, r \in Role :
       users' = [users EXCEPT ![u] = [role |-> r, active |-> a, deleted |-> Never]]
  /\ UNCHANGED <<now, sessions, keys>>

UpdateUser(c, u) ==
  /\ IsAdmin(c) /\ Found(u)
  /\ \E a \in BOOLEAN, r \in Role :
       /\ u = c => a
       /\ users' = [users EXCEPT ![u] = [role |-> r, active |-> a, deleted |-> Never]]
  /\ UNCHANGED <<now, sessions, keys>>

\* Fault: a deleted user stays active.
DeletedButActive(c, u) ==
  /\ IsAdmin(c) /\ Found(u)
  /\ u # c
  /\ users' = [users EXCEPT ![u].deleted = now]
  /\ UNCHANGED <<now, sessions, keys>>

DeleteUser(c, u) ==
  /\ IsAdmin(c) /\ Found(u)
  /\ u # c
  /\ users' = [users EXCEPT ![u].active = FALSE, ![u].deleted = now]
  /\ UNCHANGED <<now, sessions, keys>>

-----------------------------------------------------------------------------
(* keys.py; creating and rotating is for users, revoking for keys as well. *)

NewKey(u, e) == [owner |-> u, expires |-> e, grace |-> Never,
                 revoked |-> "no", successor |-> NoKey]

CreateKey(u) ==
  /\ Authenticated(u)
  /\ Len(keys) < MaxKeys
  /\ \E e \in Expiries \cup {Never} : keys' = Append(keys, NewKey(u, e))
  /\ UNCHANGED <<now, users, sessions>>

\* _get_or_403: an operator finds only keys of their own, and nobody finds a
\* key that is marked as revoked.  Whether it has lapsed is not looked at.
Finds(u, k) ==
  /\ keys[k].revoked = "no"
  /\ users[u].role = "operator" => keys[k].owner = u

\* Fault: the new key inherits the expiry of the old one.
ExpiryInherited(u, k) ==
  /\ Authenticated(u) /\ Finds(u, k)
  /\ Len(keys) < MaxKeys
  /\ keys' = [Append(keys, NewKey(u, keys[k].expires)) EXCEPT
                ![k].successor = Len(keys) + 1, ![k].grace = now + Grace]
  /\ UNCHANGED <<now, users, sessions>>

\* The old key gets the grace period, also when it has one already.
RotateKey(u, k) ==
  /\ Authenticated(u) /\ Finds(u, k)
  /\ Len(keys) < MaxKeys
  /\ keys' = [Append(keys, NewKey(u, Never)) EXCEPT
                ![k].successor = Len(keys) + 1, ![k].grace = now + Grace]
  /\ UNCHANGED <<now, users, sessions>>

RevokeKey(k) ==
  /\ \/ \E u \in Users : Authenticated(u) /\ Finds(u, k)
     \/ keys[k].revoked = "no" /\ \E j \in DOMAIN keys : Accepted(j)
  /\ keys' = [keys EXCEPT ![k].revoked = "by request"]
  /\ UNCHANGED <<now, users, sessions>>

\* _run_key_expiry: what has lapsed is marked, in one commit.
Sweep ==
  /\ keys' = [k \in DOMAIN keys |->
                IF keys[k].revoked = "no" /\ Lapsed(k)
                THEN [keys[k] EXCEPT !.revoked = "by sweep"] ELSE keys[k]]
  /\ UNCHANGED <<now, users, sessions>>

-----------------------------------------------------------------------------
SessionStep == \/ \E u \in Users : Login(u)
               \/ \E s \in DOMAIN sessions : Logout(s) \/ Refresh(s)

UserStep == \E c, u \in Users : CreateUser(c, u) \/ UpdateUser(c, u) \/ DeleteUser(c, u)

KeyStep == \/ \E u \in Users : CreateKey(u)
           \/ \E u \in Users, k \in DOMAIN keys : RotateKey(u, k)
           \/ \E k \in DOMAIN keys : RevokeKey(k)

Next == Tick \/ SessionStep \/ UserStep \/ KeyStep \/ Sweep

Spec == Init /\ [][Next]_vars

\* key_expiry_loop runs every hour and survives its own errors.
FairSpec == Spec /\ WF_vars(Sweep)

-----------------------------------------------------------------------------
\* Types.
TypeOK ==
  /\ now \in Time
  /\ users \in [Users -> User]
  /\ sessions \in Seq(Session)
  /\ keys \in Seq(Key)

\* No access token is issued for a session after its log-out, from the expiry
\* of its refresh token on, or after its user was deleted ("the user can no
\* longer log in or use existing tokens"), although /refresh reads only the
\* active flag of the user and delete_user leaves the refresh tokens alone.
NoTokenAfterEnd ==
  \A s \in DOMAIN sessions :
    LET row  == sessions[s]
        gone == users[row.user].deleted
    IN  /\ row.issued < row.expires
        /\ row.revoked # Never => row.issued <= row.revoked
        /\ gone # Never => row.issued <= gone

\* The checks on one's own account suffice: whatever the admins do to each
\* other, deactivating and deleting never leaves the tenant without a user
\* who can log in.
SomeoneStaysActive ==
  \E u \in Users : users[u].active /\ users[u].deleted = Never

\* "Zero-downtime rotation": the successor of a rotated key works until somebody
\* revokes it or rotates it in turn; neither the expiry of the old key nor the
\* hourly sweep takes it away.
RotationNeverStrands ==
  \A k \in DOMAIN keys : keys[k].successor # NoKey =>
    LET j == keys[k].successor
    IN  /\ j \in DOMAIN keys
        /\ \/ Accepted(j)
           \/ keys[j].successor # NoKey
           \/ keys[j].revoked = "by request"

\* A key that has lapsed is marked as revoked in the end, unless a rotation that
\* came before the sweep gave it a new grace period.
LapsedIsMarked ==
  \A k \in 1..MaxKeys :
    (k \in DOMAIN keys /\ ~Accepted(k))
      ~> (k \in DOMAIN keys /\ (keys[k].revoked # "no" \/ Accepted(k)))
=============================================================================
