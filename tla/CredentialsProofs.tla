------------------------- MODULE CredentialsProofs -------------------------
(***************************************************************************)
(* Proofs about Credentials, for any number of users, sessions and keys,   *)
(* any lifetimes and any length of history.  Two independent arguments:    *)
(* one about users and their sessions, one about the chains of rotated     *)
(* keys.                                                                   *)
(***************************************************************************)
EXTENDS Credentials, TLAPS

-----------------------------------------------------------------------------
(* The inductive invariants. *)

\* A deleted user is inactive, which is all that /refresh looks at, and nothing
\* is dated in the future.
UsersOK ==
  /\ \A u \in Users : users[u].deleted # Never =>
        ~users[u].active /\ users[u].deleted <= now
  /\ \A s \in DOMAIN sessions : sessions[s].issued <= now

\* A successor has no expiry; a key that has none and was not rotated has no
\* deadline at all, so that the sweep never takes it.
ChainsOK ==
  /\ \A k \in DOMAIN keys : keys[k].successor # NoKey =>
        /\ keys[k].successor \in DOMAIN keys
        /\ keys[keys[k].successor].expires = Never
  /\ \A k \in DOMAIN keys :
        /\ keys[k].successor = NoKey => keys[k].grace = Never
        /\ keys[k].revoked = "by sweep" => keys[k].expires # Never \/ keys[k].grace # Never

SessionInv == TypeOK /\ UsersOK /\ NoTokenAfterEnd
KeyInv     == TypeOK /\ ChainsOK

-----------------------------------------------------------------------------
(* The tables. *)

LEMMA AppendKey ==
  ASSUME NEW K \in Seq(Key), NEW n \in Key
  PROVE  /\ Append(K, n) \in Seq(Key)
         /\ Len(Append(K, n)) = Len(K) + 1
         /\ \A i \in 1..Len(K) : Append(K, n)[i] = K[i]
         /\ Append(K, n)[Len(K) + 1] = n
OBVIOUS

LEMMA AppendSession ==
  ASSUME NEW S \in Seq(Session), NEW n \in Session
  PROVE  /\ Append(S, n) \in Seq(Session)
         /\ Len(Append(S, n)) = Len(S) + 1
         /\ \A i \in 1..Len(S) : Append(S, n)[i] = S[i]
         /\ Append(S, n)[Len(S) + 1] = n
OBVIOUS

\* A row with one field changed.
WithSuccessor(r, j) == [r EXCEPT !.successor = j]
WithGrace(r, g)     == [r EXCEPT !.grace = g]

LEMMA RowChanges ==
  ASSUME NEW r \in Key, NEW j \in Nat, NEW g \in Nat
  PROVE  /\ WithSuccessor(r, j) \in Key
         /\ WithSuccessor(r, j).successor = j /\ WithSuccessor(r, j).grace = r.grace
         /\ WithSuccessor(r, j).expires = r.expires
         /\ WithSuccessor(r, j).revoked = r.revoked
         /\ WithGrace(r, g) \in Key
         /\ WithGrace(r, g).grace = g /\ WithGrace(r, g).successor = r.successor
         /\ WithGrace(r, g).expires = r.expires
         /\ WithGrace(r, g).revoked = r.revoked
BY DEF Key, WithSuccessor, WithGrace

LEMMA KeysTyped ==
  ASSUME TypeOK, NEW k \in DOMAIN keys
  PROVE  keys \in Seq(Key) /\ keys[k] \in Key /\ k \in 1..Len(keys)
BY DEF TypeOK

LEMMA NewKeyType ==
  ASSUME NEW u \in Users, NEW e \in Expiries \cup {Never}
  PROVE  /\ NewKey(u, e) \in Key
         /\ NewKey(u, e).expires = e /\ NewKey(u, e).grace = Never
         /\ NewKey(u, e).revoked = "no" /\ NewKey(u, e).successor = NoKey
BY DEF NewKey, Key, NoKey

\* The rows after the sweep.
LEMMA SweepRows ==
  ASSUME TypeOK, Sweep
  PROVE  /\ keys' \in Seq(Key) /\ Len(keys') = Len(keys)
         /\ \A k \in DOMAIN keys :
              /\ keys'[k].expires = keys[k].expires /\ keys'[k].grace = keys[k].grace
              /\ keys'[k].successor = keys[k].successor
              /\ keys'[k].revoked = IF keys[k].revoked = "no" /\ Lapsed(k)
                                    THEN "by sweep" ELSE keys[k].revoked
<1> DEFINE row(k) == IF keys[k].revoked = "no" /\ Lapsed(k)
                     THEN [keys[k] EXCEPT !.revoked = "by sweep"] ELSE keys[k]
<1>1. keys \in Seq(Key) /\ DOMAIN keys = 1..Len(keys) /\ Len(keys) \in Nat
  BY DEF TypeOK
<1>2. \A k \in 1..Len(keys) :
        /\ row(k) \in Key
        /\ row(k).expires = keys[k].expires /\ row(k).grace = keys[k].grace
        /\ row(k).successor = keys[k].successor
        /\ row(k).revoked = IF keys[k].revoked = "no" /\ Lapsed(k)
                            THEN "by sweep" ELSE keys[k].revoked
  <2> TAKE k \in 1..Len(keys)
  <2>1. keys[k] \in Key
    BY <1>1
  <2>2. CASE keys[k].revoked = "no" /\ Lapsed(k)
    BY <2>1, <2>2 DEF Key
  <2>3. CASE ~(keys[k].revoked = "no" /\ Lapsed(k))
    BY <2>1, <2>3
  <2> QED  BY <2>2, <2>3
<1>3. keys' = [k \in 1..Len(keys) |-> row(k)]
  BY <1>1 DEF Sweep
<1> HIDE DEF row
<1>4. keys' \in Seq(Key) /\ Len(keys') = Len(keys)
  <2>1. keys' \in [1..Len(keys) -> Key]
    BY <1>2, <1>3
  <2> QED  BY <1>1, <2>1
<1> QED  BY <1>1, <1>2, <1>3, <1>4

\* What a rotation does to the rows: k gets a successor and a grace period, the
\* new key is the last row, every other row stays.
LEMMA RotateRows ==
  ASSUME TypeOK, NEW u \in Users, NEW k \in DOMAIN keys, RotateKey(u, k)
  PROVE  /\ keys' \in Seq(Key)
         /\ Len(keys') = Len(keys) + 1
         /\ keys'[Len(keys) + 1] = NewKey(u, Never)
         /\ keys'[k].successor = Len(keys) + 1 /\ keys'[k].grace = now + Grace
         /\ keys'[k].expires = keys[k].expires /\ keys'[k].revoked = keys[k].revoked
         /\ \A i \in 1..Len(keys) : i # k => keys'[i] = keys[i]
<1> DEFINE K  == keys
           n  == NewKey(u, Never)
           g  == now + Grace
           A  == Append(K, n)
           r1 == WithSuccessor(A[k], Len(K) + 1)
           B  == [A EXCEPT ![k] = r1]
           r2 == WithGrace(B[k], g)
           C  == [B EXCEPT ![k] = r2]
<1>0. K \in Seq(Key) /\ k \in 1..Len(K) /\ n \in Key /\ g \in Nat
  <2>1. keys \in Seq(Key) /\ k \in 1..Len(keys) /\ now + Grace \in Nat
    BY CredentialsAssumption DEF TypeOK, Time
  <2>2. NewKey(u, Never) \in Key
    BY NewKeyType
  <2> QED  BY <2>1, <2>2
<1>7. keys' = C
  BY DEF RotateKey, WithSuccessor, WithGrace
<1> HIDE DEF n, g, K
<1>1. /\ A \in Seq(Key) /\ Len(A) = Len(K) + 1 /\ A[Len(K) + 1] = n
      /\ \A i \in 1..Len(K) : A[i] = K[i]
  BY <1>0, AppendKey
<1>2. Len(K) \in Nat /\ k \in 1..Len(A) /\ k # Len(K) + 1 /\ A[k] = K[k] /\ K[k] \in Key
  BY <1>0, <1>1
<1> HIDE DEF A
<1>3. r1 \in Key /\ r1.successor = Len(K) + 1 /\ r1.expires = K[k].expires
      /\ r1.revoked = K[k].revoked
  <2>1. Len(K) + 1 \in Nat /\ A[k] \in Key
    BY <1>2
  <2>2. /\ r1 \in Key /\ r1.successor = Len(K) + 1
        /\ r1.expires = A[k].expires /\ r1.revoked = A[k].revoked
    BY <1>0, <2>1, RowChanges
  <2> QED  BY <1>2, <2>2
<1> HIDE DEF r1
<1>4. /\ B \in Seq(Key) /\ Len(B) = Len(A) /\ B[k] = r1
      /\ \A i \in 1..Len(A) : i # k => B[i] = A[i]
  BY <1>1, <1>2, <1>3
<1> HIDE DEF B
<1>5. r2 \in Key /\ r2.successor = Len(K) + 1 /\ r2.grace = g /\ r2.expires = K[k].expires
      /\ r2.revoked = K[k].revoked
  BY <1>0, <1>3, <1>4, RowChanges
<1> HIDE DEF r2
<1>6. /\ C \in Seq(Key) /\ Len(C) = Len(B) /\ C[k] = r2
      /\ \A i \in 1..Len(B) : i # k => C[i] = B[i]
  BY <1>1, <1>2, <1>4, <1>5
<1> HIDE DEF C
<1>8. /\ C \in Seq(Key) /\ Len(C) = Len(K) + 1 /\ C[Len(K) + 1] = n
      /\ C[k].successor = Len(K) + 1 /\ C[k].grace = g
      /\ C[k].expires = K[k].expires /\ C[k].revoked = K[k].revoked
      /\ \A i \in 1..Len(K) : i # k => C[i] = K[i]
  <2>1. C \in Seq(Key) /\ Len(C) = Len(K) + 1 /\ C[k] = r2
    BY <1>1, <1>4, <1>6
  <2>2. \A i \in 1..(Len(K) + 1) : i # k => C[i] = A[i]
    BY <1>1, <1>4, <1>6
  <2> QED  BY <1>1, <1>2, <1>5, <2>1, <2>2
<1> QED  BY <1>7, <1>8 DEF K, n, g

-----------------------------------------------------------------------------
(* Type correctness. *)

LEMMA InitType == Init => TypeOK
BY CredentialsAssumption DEF Init, TypeOK, User, Role, Time, Session, Key

LEMMA SessionType ==
  ASSUME TypeOK, SessionStep
  PROVE  sessions' \in Seq(Session)
<1> USE CredentialsAssumption
<1>1. ASSUME NEW u \in Users, Login(u)
      PROVE  sessions' \in Seq(Session)
  <2>1. [user |-> u, expires |-> now + RefreshTTL, revoked |-> Never, issued |-> now] \in Session
    BY DEF TypeOK, Session, Time
  <2> QED  BY <1>1, <2>1, AppendSession DEF Login, TypeOK
<1>2. ASSUME NEW s \in DOMAIN sessions, Logout(s)
      PROVE  sessions' \in Seq(Session)
  <2>1. sessions \in Seq(Session) /\ sessions[s] \in Session /\ now \in Time
    BY DEF TypeOK
  <2>2. [sessions[s] EXCEPT !.revoked = now] \in Session
    BY <2>1 DEF Session
  <2>3. sessions' = [sessions EXCEPT ![s] = [sessions[s] EXCEPT !.revoked = now]]
    BY <1>2 DEF Logout
  <2> QED  BY <2>1, <2>2, <2>3
<1>3. ASSUME NEW s \in DOMAIN sessions, Refresh(s)
      PROVE  sessions' \in Seq(Session)
  <2>1. sessions \in Seq(Session) /\ sessions[s] \in Session /\ now \in Time
    BY DEF TypeOK
  <2>2. [sessions[s] EXCEPT !.issued = now] \in Session
    BY <2>1 DEF Session
  <2>3. sessions' = [sessions EXCEPT ![s] = [sessions[s] EXCEPT !.issued = now]]
    BY <1>3 DEF Refresh
  <2> QED  BY <2>1, <2>2, <2>3
<1> QED  BY <1>1, <1>2, <1>3 DEF SessionStep

LEMMA UserType ==
  ASSUME TypeOK, UserStep
  PROVE  users' \in [Users -> User]
<1> USE CredentialsAssumption DEF User, Role
<1> PICK c \in Users, u \in Users : CreateUser(c, u) \/ UpdateUser(c, u) \/ DeleteUser(c, u)
  BY DEF UserStep
<1>1. CASE CreateUser(c, u)
  BY <1>1 DEF CreateUser, TypeOK
<1>2. CASE UpdateUser(c, u)
  BY <1>2 DEF UpdateUser, TypeOK
<1>3. CASE DeleteUser(c, u)
  <2>1. users[u] \in User /\ now \in Time
    BY DEF TypeOK
  <2>2. [users[u] EXCEPT !.active = FALSE, !.deleted = now] \in User
    BY <2>1
  <2>3. users' = [users EXCEPT ![u] = [users[u] EXCEPT !.active = FALSE, !.deleted = now]]
    BY <1>3 DEF DeleteUser, TypeOK
  <2> QED  BY <2>2, <2>3 DEF TypeOK
<1> QED  BY <1>1, <1>2, <1>3

LEMMA KeyType ==
  ASSUME TypeOK, KeyStep \/ Sweep
  PROVE  keys' \in Seq(Key)
<1> USE CredentialsAssumption
<1>1. ASSUME NEW u \in Users, CreateKey(u)
      PROVE  keys' \in Seq(Key)
  <2>1. PICK e \in Expiries \cup {Never} : keys' = Append(keys, NewKey(u, e))
    BY <1>1 DEF CreateKey
  <2>2. keys \in Seq(Key) /\ NewKey(u, e) \in Key
    BY NewKeyType DEF TypeOK
  <2> QED  BY <2>1, <2>2, AppendKey
<1>2. ASSUME NEW u \in Users, NEW k \in DOMAIN keys, RotateKey(u, k)
      PROVE  keys' \in Seq(Key)
  BY <1>2, RotateRows
<1>3. ASSUME NEW k \in DOMAIN keys, RevokeKey(k)
      PROVE  keys' \in Seq(Key)
  <2>1. keys \in Seq(Key) /\ keys[k] \in Key
    BY DEF TypeOK
  <2> DEFINE row == [keys[k] EXCEPT !.revoked = "by request"]
  <2>2. row \in Key
    BY <2>1 DEF Key
  <2>3. keys' = [keys EXCEPT ![k] = row]
    BY <1>3 DEF RevokeKey
  <2> HIDE DEF row
  <2> QED  BY <2>1, <2>2, <2>3
<1>4. CASE Sweep
  BY <1>4, SweepRows
<1> QED  BY <1>1, <1>2, <1>3, <1>4 DEF KeyStep

\* Which tables a step leaves alone.
LEMMA Untouched ==
  /\ Tick => UNCHANGED <<users, sessions, keys>>
  /\ SessionStep => UNCHANGED <<now, users, keys>>
  /\ UserStep => UNCHANGED <<now, sessions, keys>>
  /\ KeyStep => UNCHANGED <<now, users, sessions>>
  /\ Sweep => UNCHANGED <<now, users, sessions>>
BY DEF Tick, SessionStep, Login, Logout, Refresh, UserStep, CreateUser, UpdateUser,
       DeleteUser, KeyStep, CreateKey, RotateKey, RevokeKey, Sweep

LEMMA TypeStep == TypeOK /\ [Next]_vars => TypeOK'
<1> SUFFICES ASSUME TypeOK, [Next]_vars PROVE TypeOK'
  OBVIOUS
<1>1. CASE Tick
  <2>1. now' \in Time
    BY <1>1, CredentialsAssumption DEF Tick, TypeOK, Time
  <2> QED  BY <1>1, <2>1, Untouched DEF TypeOK
<1>2. CASE SessionStep
  BY <1>2, Untouched, SessionType DEF TypeOK
<1>3. CASE UserStep
  BY <1>3, Untouched, UserType DEF TypeOK
<1>4. CASE KeyStep \/ Sweep
  BY <1>4, Untouched, KeyType DEF TypeOK
<1>5. CASE UNCHANGED vars
  BY <1>5 DEF TypeOK, vars
<1> QED  BY <1>1, <1>2, <1>3, <1>4, <1>5 DEF Next

\* The type invariant: the rows of users, sessions and keys keep their shape.
THEOREM TypeCorrect == Spec => []TypeOK
BY InitType, TypeStep, PTL DEF Spec

-----------------------------------------------------------------------------
(* Sessions end. *)

\* The invariant for one session row and the user it belongs to.
Ended(row, user, t) ==
  /\ row.issued < row.expires
  /\ row.revoked # Never => row.issued <= row.revoked
  /\ user.deleted # Never => row.issued <= user.deleted
  /\ row.issued <= t

LEMMA SessionInvByRow ==
  SessionInv <=> /\ TypeOK
                 /\ \A u \in Users : users[u].deleted # Never =>
                       ~users[u].active /\ users[u].deleted <= now
                 /\ \A s \in DOMAIN sessions : Ended(sessions[s], users[sessions[s].user], now)
BY DEF SessionInv, UsersOK, NoTokenAfterEnd, Ended

LEMMA RowTypes ==
  ASSUME TypeOK
  PROVE  /\ now \in Nat
         /\ Never \notin Nat
         /\ DOMAIN sessions = 1..Len(sessions) /\ Len(sessions) \in Nat
         /\ \A u \in Users : users[u].deleted \in Nat \cup {Never}
         /\ \A s \in DOMAIN sessions :
              /\ sessions[s].user \in Users /\ sessions[s].expires \in Nat
              /\ sessions[s].revoked \in Nat \cup {Never} /\ sessions[s].issued \in Nat
<1> USE CredentialsAssumption
<1>1. now \in Nat /\ Never \notin Nat /\ Time \subseteq Nat
  BY DEF TypeOK, Time
<1>2. \A u \in Users : users[u].deleted \in Nat \cup {Never}
  <2> TAKE u \in Users
  <2>1. users[u] \in User
    BY DEF TypeOK
  <2> QED  BY <1>1, <2>1 DEF User
<1>3. DOMAIN sessions = 1..Len(sessions) /\ Len(sessions) \in Nat
  BY DEF TypeOK
<1>4. \A s \in DOMAIN sessions :
        /\ sessions[s].user \in Users /\ sessions[s].expires \in Nat
        /\ sessions[s].revoked \in Nat \cup {Never} /\ sessions[s].issued \in Nat
  <2> TAKE s \in DOMAIN sessions
  <2>1. sessions[s] \in Session
    BY DEF TypeOK
  <2> QED  BY <1>1, <2>1 DEF Session
<1> QED  BY <1>1, <1>2, <1>3, <1>4

LEMMA SessionStepInv == SessionInv /\ [Next]_vars => SessionInv'
<1> SUFFICES ASSUME SessionInv, [Next]_vars PROVE SessionInv'
  OBVIOUS
<1> USE CredentialsAssumption
<1>t. TypeOK /\ TypeOK'
  BY TypeStep DEF SessionInv
<1>r. /\ now \in Nat /\ Never \notin Nat
      /\ DOMAIN sessions = 1..Len(sessions) /\ Len(sessions) \in Nat
      /\ \A u \in Users : users[u].deleted \in Nat \cup {Never}
      /\ \A s \in DOMAIN sessions :
              /\ sessions[s].user \in Users /\ sessions[s].expires \in Nat
              /\ sessions[s].revoked \in Nat \cup {Never} /\ sessions[s].issued \in Nat
  BY <1>t, RowTypes
<1>i. /\ \A u \in Users : users[u].deleted # Never =>
            ~users[u].active /\ users[u].deleted <= now
      /\ \A s \in DOMAIN sessions : Ended(sessions[s], users[sessions[s].user], now)
  BY SessionInvByRow
<1>g. SUFFICES /\ \A u \in Users : users'[u].deleted # Never =>
                     ~users'[u].active /\ users'[u].deleted <= now'
               /\ \A s \in DOMAIN sessions' : Ended(sessions'[s], users'[sessions'[s].user], now')
  BY <1>t DEF SessionInv, UsersOK, NoTokenAfterEnd, Ended
<1>1. CASE Tick
  BY <1>1, <1>r, <1>i DEF Tick, Ended
<1>2. CASE SessionStep
  <2>0. now' = now /\ users' = users
    BY <1>2, Untouched
  <2>1. ASSUME NEW u \in Users, Login(u)
        PROVE  \A s \in DOMAIN sessions' : Ended(sessions'[s], users[sessions'[s].user], now)
    <3> DEFINE new == [user |-> u, expires |-> now + RefreshTTL, revoked |-> Never, issued |-> now]
    <3>1. /\ new.user = u /\ new.expires = now + RefreshTTL /\ new.revoked = Never
          /\ new.issued = now /\ new \in Session
      BY <1>t DEF Session, TypeOK, Time
    <3>2. Ended(new, users[new.user], now)
      BY <2>1, <1>r, <3>1 DEF Login, Ended
    <3> HIDE DEF new
    <3>3. sessions' = Append(sessions, new) /\ sessions \in Seq(Session)
      BY <2>1, <1>t DEF Login, TypeOK, new
    <3>4. /\ Len(sessions') = Len(sessions) + 1 /\ sessions' \in Seq(Session)
          /\ \A i \in 1..Len(sessions) : sessions'[i] = sessions[i]
          /\ sessions'[Len(sessions) + 1] = new
      BY <3>1, <3>3, AppendSession
    <3>5. DOMAIN sessions' = 1..(Len(sessions) + 1)
      BY <3>4
    <3> QED  BY <1>r, <1>i, <3>2, <3>4, <3>5
  <2>2. ASSUME NEW s \in DOMAIN sessions, Logout(s)
        PROVE  \A q \in DOMAIN sessions' : Ended(sessions'[q], users[sessions'[q].user], now)
    <3>1. sessions[s] \in Session /\ sessions \in Seq(Session)
      BY <1>t DEF TypeOK
    <3> DEFINE row == [sessions[s] EXCEPT !.revoked = now]
    <3>2. /\ row.user = sessions[s].user /\ row.expires = sessions[s].expires
          /\ row.revoked = now /\ row.issued = sessions[s].issued
      BY <3>1 DEF Session
    <3>3. Ended(row, users[row.user], now)
      BY <1>i, <1>r, <3>2 DEF Ended
    <3>4. sessions' = [sessions EXCEPT ![s] = row]
      BY <2>2 DEF Logout
    <3> HIDE DEF row
    <3>5. /\ DOMAIN sessions' = DOMAIN sessions /\ sessions'[s] = row
          /\ \A q \in DOMAIN sessions : q # s => sessions'[q] = sessions[q]
      BY <3>1, <3>4
    <3> QED  BY <1>i, <3>3, <3>5
  <2>3. ASSUME NEW s \in DOMAIN sessions, Refresh(s)
        PROVE  \A q \in DOMAIN sessions' : Ended(sessions'[q], users[sessions'[q].user], now)
    <3>1. sessions[s] \in Session /\ sessions \in Seq(Session)
      BY <1>t DEF TypeOK
    <3> DEFINE row == [sessions[s] EXCEPT !.issued = now]
    <3>2. /\ row.user = sessions[s].user /\ row.expires = sessions[s].expires
          /\ row.revoked = sessions[s].revoked /\ row.issued = now
      BY <3>1 DEF Session
    <3>3. Ended(row, users[row.user], now)
      BY <1>i, <1>r, <2>3, <3>2 DEF Ended, Refresh
    <3>4. sessions' = [sessions EXCEPT ![s] = row]
      BY <2>3 DEF Refresh
    <3> HIDE DEF row
    <3>5. /\ DOMAIN sessions' = DOMAIN sessions /\ sessions'[s] = row
          /\ \A q \in DOMAIN sessions : q # s => sessions'[q] = sessions[q]
      BY <3>1, <3>4
    <3> QED  BY <1>i, <3>3, <3>5
  <2> QED  BY <1>2, <1>i, <2>0, <2>1, <2>2, <2>3 DEF SessionStep
<1>3. CASE UserStep
  <2>0. now' = now /\ sessions' = sessions
    BY <1>3, Untouched
  <2>1. PICK c \in Users, u \in Users : CreateUser(c, u) \/ UpdateUser(c, u) \/ DeleteUser(c, u)
    BY <1>3 DEF UserStep
  <2>2. users \in [Users -> User] /\ users[u] \in User
    BY <1>t DEF TypeOK
  <2>3. /\ \A v \in Users : v # u => users'[v] = users[v]
        /\ \/ users'[u].deleted = Never
           \/ users'[u].deleted = now /\ ~users'[u].active
    <3>1. CASE CreateUser(c, u)
      BY <2>2, <3>1 DEF CreateUser
    <3>2. CASE UpdateUser(c, u)
      BY <2>2, <3>2 DEF UpdateUser
    <3>3. CASE DeleteUser(c, u)
      <4>1. users' = [users EXCEPT ![u] = [users[u] EXCEPT !.active = FALSE, !.deleted = now]]
        BY <2>2, <3>3 DEF DeleteUser
      <4>2. users'[u] = [users[u] EXCEPT !.active = FALSE, !.deleted = now]
        BY <2>2, <4>1
      <4> QED  BY <2>2, <4>1, <4>2 DEF User
    <3> QED  BY <2>1, <3>1, <3>2, <3>3
  <2> QED  BY <1>i, <1>r, <2>0, <2>3 DEF Ended
<1>4. CASE KeyStep \/ Sweep
  BY <1>4, <1>i, Untouched
<1>5. CASE UNCHANGED vars
  BY <1>5, <1>i DEF vars
<1> QED  BY <1>1, <1>2, <1>3, <1>4, <1>5 DEF Next

\* No access token is issued for a session after its log-out, its expiry or the
\* deletion of its user.
THEOREM SessionsEnd == Spec => []NoTokenAfterEnd
<1>1. Init => SessionInv
  BY InitType, CredentialsAssumption DEF SessionInv, Init, UsersOK, NoTokenAfterEnd
<1>2. SessionInv => NoTokenAfterEnd
  BY DEF SessionInv
<1> QED  BY <1>1, <1>2, SessionStepInv, PTL DEF Spec

-----------------------------------------------------------------------------
(* The tenant keeps a user. *)

\* The caller of an admin endpoint is active and stays so, whatever is done to
\* the user called for.
LEMMA CallerStays ==
  ASSUME TypeOK, NEW c \in Users, NEW u \in Users,
         CreateUser(c, u) \/ UpdateUser(c, u) \/ DeleteUser(c, u)
  PROVE  users'[c].active /\ users'[c].deleted = Never
<1>1. users \in [Users -> User] /\ users[c].active /\ users[c].deleted = Never
  BY DEF TypeOK, CreateUser, UpdateUser, DeleteUser, IsAdmin, Authenticated
<1>2. CASE CreateUser(c, u)
  BY <1>1, <1>2 DEF CreateUser
<1>3. CASE UpdateUser(c, u)
  <2>1. PICK a \in BOOLEAN, r \in Role :
          /\ u = c => a
          /\ users' = [users EXCEPT ![u] = [role |-> r, active |-> a, deleted |-> Never]]
    BY <1>3 DEF UpdateUser
  <2> QED  BY <1>1, <2>1
<1>4. CASE DeleteUser(c, u)
  BY <1>1, <1>4 DEF DeleteUser
<1> QED  BY <1>2, <1>3, <1>4

\* Whatever the admins do to each other, somebody can log in.
THEOREM TenantKeepsUser == Spec => []SomeoneStaysActive
<1>1. Init => TypeOK /\ SomeoneStaysActive
  <2> SUFFICES ASSUME Init PROVE SomeoneStaysActive
    BY InitType
  <2>1. users[FirstAdmin].active /\ users[FirstAdmin].deleted = Never
    BY CredentialsAssumption DEF Init
  <2> QED  BY <2>1, CredentialsAssumption DEF SomeoneStaysActive
<1>2. TypeOK /\ SomeoneStaysActive /\ [Next]_vars => (TypeOK /\ SomeoneStaysActive)'
  <2> SUFFICES ASSUME TypeOK, SomeoneStaysActive, [Next]_vars
               PROVE  TypeOK' /\ SomeoneStaysActive'
    OBVIOUS
  <2>1. CASE UserStep
    BY <2>1, CallerStays, TypeStep DEF UserStep, SomeoneStaysActive
  <2>2. CASE ~UserStep
    <3>1. users' = users
      BY <2>2, Untouched DEF Next, vars
    <3> QED  BY <3>1, TypeStep DEF SomeoneStaysActive
  <2> QED  BY <2>1, <2>2
<1> QED  BY <1>1, <1>2, PTL DEF Spec

-----------------------------------------------------------------------------
(* The chains of rotated keys. *)

\* What ChainsOK says of one row of the table K.
Chained(K, k) ==
  /\ K[k].successor # NoKey =>
        K[k].successor \in DOMAIN K /\ K[K[k].successor].expires = Never
  /\ K[k].successor = NoKey => K[k].grace = Never
  /\ K[k].revoked = "by sweep" => K[k].expires # Never \/ K[k].grace # Never

LEMMA ChainsByRow == ChainsOK <=> \A k \in DOMAIN keys : Chained(keys, k)
BY DEF ChainsOK, Chained

\* A row stays chained in a table that has grown and kept every expiry.
LEMMA StaysChained ==
  ASSUME NEW K, NEW M, DOMAIN K \subseteq DOMAIN M,
         \A j \in DOMAIN K : M[j].expires = K[j].expires,
         NEW i \in DOMAIN K, Chained(K, i),
         M[i].successor = K[i].successor, M[i].grace = K[i].grace,
         M[i].revoked = "by sweep" =>
           K[i].revoked = "by sweep" \/ K[i].expires # Never \/ K[i].grace # Never
  PROVE  Chained(M, i)
<1> DEFINE j == K[i].successor
<1>1. j # NoKey => j \in DOMAIN K /\ K[j].expires = Never
  BY DEF Chained
<1>2. j \in DOMAIN K => M[j].expires = K[j].expires /\ j \in DOMAIN M
  OBVIOUS
<1>3. M[i].successor = j /\ M[i].expires = K[i].expires
  OBVIOUS
<1>4. j = NoKey => K[i].grace = Never
  BY DEF Chained
<1>5. K[i].revoked = "by sweep" => K[i].expires # Never \/ K[i].grace # Never
  BY DEF Chained
<1> HIDE DEF j
<1>6. M[i].successor # NoKey => M[i].successor \in DOMAIN M /\ M[M[i].successor].expires = Never
  BY <1>1, <1>2, <1>3
<1> QED  BY <1>3, <1>4, <1>5, <1>6 DEF Chained

\* So is a row just minted.
LEMMA NewKeyChained ==
  ASSUME NEW M, NEW i, NEW u \in Users, NEW e \in Expiries \cup {Never}, M[i] = NewKey(u, e)
  PROVE  Chained(M, i)
BY NewKeyType DEF Chained

\* The rows of a table that has one row more.
LEMMA GrownTable ==
  ASSUME NEW K \in Seq(Key), NEW M \in Seq(Key), Len(M) = Len(K) + 1
  PROVE  /\ DOMAIN K = 1..Len(K) /\ DOMAIN K \subseteq DOMAIN M
         /\ Len(K) + 1 \in DOMAIN M /\ Len(K) + 1 # NoKey
         /\ \A i \in DOMAIN M : i \in DOMAIN K \/ i = Len(K) + 1
BY DEF NoKey

LEMMA KeyInvStep == KeyInv /\ [Next]_vars => KeyInv'
<1> SUFFICES ASSUME KeyInv, [Next]_vars PROVE KeyInv'
  OBVIOUS
<1>t. /\ TypeOK /\ TypeOK'
      /\ keys \in Seq(Key) /\ keys' \in Seq(Key)
  BY TypeStep DEF KeyInv, TypeOK
<1>i. \A k \in DOMAIN keys : Chained(keys, k)
  BY ChainsByRow DEF KeyInv
<1>g. SUFFICES \A k \in DOMAIN keys' : Chained(keys', k)
  BY <1>t DEF KeyInv, ChainsOK, Chained
<1>1. ASSUME NEW u \in Users, CreateKey(u)
      PROVE  \A k \in DOMAIN keys' : Chained(keys', k)
  <2>1. PICK e \in Expiries \cup {Never} : keys' = Append(keys, NewKey(u, e))
    BY <1>1 DEF CreateKey
  <2>2. NewKey(u, e) \in Key
    BY NewKeyType
  <2>3. /\ Len(keys') = Len(keys) + 1
        /\ \A i \in 1..Len(keys) : keys'[i] = keys[i]
        /\ keys'[Len(keys) + 1] = NewKey(u, e)
    BY <1>t, <2>1, <2>2, AppendKey
  <2>4. /\ DOMAIN keys = 1..Len(keys) /\ DOMAIN keys \subseteq DOMAIN keys'
        /\ \A i \in DOMAIN keys' : i \in DOMAIN keys \/ i = Len(keys) + 1
    BY <1>t, <2>3, GrownTable
  <2>5. \A i \in DOMAIN keys : keys'[i] = keys[i]
    BY <2>3, <2>4
  <2>6. ASSUME NEW i \in DOMAIN keys PROVE Chained(keys', i)
    BY <1>i, <2>4, <2>5, StaysChained
  <2>7. Chained(keys', Len(keys) + 1)
    BY <2>3, NewKeyChained
  <2> QED  BY <2>4, <2>6, <2>7
<1>2. ASSUME NEW u \in Users, NEW k \in DOMAIN keys, RotateKey(u, k)
      PROVE  \A i \in DOMAIN keys' : Chained(keys', i)
  <2>1. now + Grace \in Nat /\ now + Grace # Never
    BY <1>t, CredentialsAssumption DEF TypeOK, Time
  <2>2. /\ Len(keys') = Len(keys) + 1
        /\ keys'[Len(keys) + 1] = NewKey(u, Never)
        /\ keys'[k].successor = Len(keys) + 1 /\ keys'[k].grace = now + Grace
        /\ keys'[k].expires = keys[k].expires
        /\ \A i \in 1..Len(keys) : i # k => keys'[i] = keys[i]
    BY <1>t, <1>2, RotateRows
  <2>3. /\ DOMAIN keys = 1..Len(keys) /\ DOMAIN keys \subseteq DOMAIN keys'
        /\ Len(keys) + 1 \in DOMAIN keys' /\ Len(keys) + 1 # NoKey
        /\ \A i \in DOMAIN keys' : i \in DOMAIN keys \/ i = Len(keys) + 1
    BY <1>t, <2>2, GrownTable
  <2>4. /\ \A i \in DOMAIN keys : i # k => keys'[i] = keys[i]
        /\ \A i \in DOMAIN keys : keys'[i].expires = keys[i].expires
    BY <2>2, <2>3
  <2>5. ASSUME NEW i \in DOMAIN keys, i # k PROVE Chained(keys', i)
    BY <1>i, <2>3, <2>4, <2>5, StaysChained
  <2>6. Chained(keys', Len(keys) + 1)
    BY <2>2, NewKeyChained
  <2>7. Chained(keys', k)
    <3>1. NewKey(u, Never).expires = Never
      BY NewKeyType
    <3>2. keys'[keys'[k].successor].expires = Never
      BY <2>2, <3>1
    <3> QED  BY <2>1, <2>2, <2>3, <3>2 DEF Chained
  <2> QED  BY <2>3, <2>5, <2>6, <2>7
<1>3. ASSUME NEW k \in DOMAIN keys, RevokeKey(k)
      PROVE  \A i \in DOMAIN keys' : Chained(keys', i)
  <2> DEFINE row == [keys[k] EXCEPT !.revoked = "by request"]
  <2>1. /\ row.successor = keys[k].successor /\ row.grace = keys[k].grace
        /\ row.expires = keys[k].expires /\ row.revoked = "by request"
    <3>1. keys[k] \in Key
      BY <1>t
    <3> QED  BY <3>1 DEF Key
  <2>2. keys' = [keys EXCEPT ![k] = row]
    BY <1>3 DEF RevokeKey
  <2> HIDE DEF row
  <2>3. /\ DOMAIN keys' = DOMAIN keys /\ keys'[k] = row
        /\ \A i \in DOMAIN keys : i # k => keys'[i] = keys[i]
    BY <1>t, <2>2
  <2>4. \A i \in DOMAIN keys : keys'[i].expires = keys[i].expires
    BY <2>1, <2>3
  <2>5. ASSUME NEW i \in DOMAIN keys, i # k PROVE Chained(keys', i)
    BY <1>i, <2>3, <2>4, <2>5, StaysChained
  <2>6. Chained(keys', k)
    BY <1>i, <2>1, <2>3, <2>4, StaysChained
  <2> QED  BY <2>3, <2>5, <2>6
<1>4. CASE Sweep
  <2>1. /\ DOMAIN keys' = DOMAIN keys
        /\ \A k \in DOMAIN keys :
              /\ keys'[k].expires = keys[k].expires /\ keys'[k].grace = keys[k].grace
              /\ keys'[k].successor = keys[k].successor
              /\ keys'[k].revoked = IF keys[k].revoked = "no" /\ Lapsed(k)
                                    THEN "by sweep" ELSE keys[k].revoked
    BY <1>t, <1>4, SweepRows DEF Sweep
  <2>2. \A k \in DOMAIN keys : Lapsed(k) => keys[k].expires # Never \/ keys[k].grace # Never
    BY DEF Lapsed, Past
  <2>3. ASSUME NEW i \in DOMAIN keys PROVE Chained(keys', i)
    <3>1. keys'[i].revoked = "by sweep" =>
            keys[i].revoked = "by sweep" \/ keys[i].expires # Never \/ keys[i].grace # Never
      BY <2>1, <2>2
    <3> QED  BY <1>i, <2>1, <3>1, StaysChained
  <2> QED  BY <2>1, <2>3
<1>5. CASE keys' = keys
  BY <1>i, <1>5
<1> QED  BY <1>1, <1>2, <1>3, <1>4, <1>5, Untouched DEF Next, KeyStep, vars

\* The successor of a rotated key is lost by a request only.
THEOREM RotationIsSeamless == Spec => []RotationNeverStrands
<1>1. Init => KeyInv
  BY InitType DEF KeyInv, ChainsOK, Init
<1>2. KeyInv => RotationNeverStrands
  <2> SUFFICES ASSUME KeyInv, NEW k \in DOMAIN keys, keys[k].successor # NoKey
               PROVE  LET j == keys[k].successor
                      IN  /\ j \in DOMAIN keys
                          /\ \/ Accepted(j)
                             \/ keys[j].successor # NoKey
                             \/ keys[j].revoked = "by request"
    BY DEF RotationNeverStrands
  <2> DEFINE j == keys[k].successor
  <2>1. j \in DOMAIN keys /\ keys[j].expires = Never
    BY DEF KeyInv, ChainsOK
  <2>2. keys[j].revoked \in {"no", "by request", "by sweep"}
    <3>1. keys \in Seq(Key) /\ j \in DOMAIN keys
      BY <2>1 DEF KeyInv, TypeOK
    <3> HIDE DEF j
    <3>2. keys[j] \in Key
      BY <3>1
    <3> QED  BY <3>2 DEF Key
  <2>3. keys[j].successor = NoKey => keys[j].grace = Never /\ keys[j].revoked # "by sweep"
    BY <2>1 DEF KeyInv, ChainsOK
  <2> QED  BY <2>1, <2>2, <2>3 DEF Accepted, Past
<1> QED  BY <1>1, <1>2, KeyInvStep, PTL DEF Spec

=============================================================================
