---------------------- MODULE WebhookDispatcherProofs ----------------------
(***************************************************************************)
(* Proofs about WebhookDispatcher: the attempts of a delivery are in       *)
(* order, and only failed sessions lose or repeat one, for any number of   *)
(* keys, alerts, rounds and failures.                                      *)
(***************************************************************************)
EXTENDS WebhookDispatcher, TLAPS

-----------------------------------------------------------------------------
(* The inductive invariant. *)

\* One delivery: attempts 1, 2, ..., only the last one scheduled, below the limit.
InOrder(L) ==
    /\ Len(L) <= MaxAttempts
    /\ \A i \in 1 .. Len(L) :
          /\ L[i].attempt = i
          /\ i < Len(L) => ~L[i].ok
          /\ L[i].retry # "none" => ~L[i].ok /\ i = Len(L) /\ i < MaxAttempts

\* The session has yet to handle deliveries without an attempt, or whose last is
\* due; one it has handled has at most one attempt more than the committed table.
SessionOK ==
    session # None =>
        /\ \A a \in Alerts, k \in Keys :
              /\ InOrder(session.log[a][k])
              /\ Len(session.log[a][k]) \in {Len(log[a][k]), Len(log[a][k]) + 1}
        /\ \A a \in Alerts, k \in Keys, i \in Nat : <<a, k, i>> \in session.todo =>
              /\ i = Len(session.log[a][k]) /\ i = Len(log[a][k])
              /\ a \in dispatched
              /\ i >= 1 => session.log[a][k][i].retry # "none"
              /\ i = 0 => keys[k].url \in Urls

\* An alert has no attempts, in the table or in the session, before it is dispatched.
Undispatched ==
    \A a \in Alerts \ dispatched, k \in Keys : log[a][k] = <<>> /\ View[a][k] = <<>>

IInv ==
    /\ TypeOK
    /\ \A a \in Alerts, k \in Keys : InOrder(log[a][k])
    /\ SessionOK
    /\ Undispatched
    /\ DuplicatesOnlyByAbort

-----------------------------------------------------------------------------
(* Lemmas about one delivery. *)

LEMMA AppendAttempt ==
    ASSUME NEW L \in Seq(Attempt), NEW e \in Attempt
    PROVE  /\ Append(L, e) \in Seq(Attempt)
           /\ Len(Append(L, e)) = Len(L) + 1
           /\ \A i \in 1 .. Len(L) : Append(L, e)[i] = L[i]
           /\ Append(L, e)[Len(L) + 1] = e
OBVIOUS

\* A new last attempt keeps the order when nothing before it is scheduled.
LEMMA AppendInOrder ==
    ASSUME NEW L \in Seq(Attempt), NEW e \in Attempt, InOrder(L),
           Len(L) < MaxAttempts, e.attempt = Len(L) + 1,
           \A i \in 1 .. Len(L) : ~L[i].ok /\ L[i].retry = "none",
           e.retry # "none" => ~e.ok /\ Len(L) + 1 < MaxAttempts
    PROVE  InOrder(Append(L, e))
<1> DEFINE M == Append(L, e)
<1>1. /\ Len(M) = Len(L) + 1 /\ Len(L) \in Nat
      /\ \A i \in 1 .. Len(L) : M[i] = L[i]
      /\ M[Len(L) + 1] = e
  BY AppendAttempt
<1> HIDE DEF M
<1>2. ASSUME NEW i \in 1 .. Len(M)
      PROVE  /\ M[i].attempt = i
             /\ i < Len(M) => ~M[i].ok
             /\ M[i].retry # "none" => ~M[i].ok /\ i = Len(M) /\ i < MaxAttempts
  <2>1. CASE i = Len(L) + 1
    BY <1>1, <2>1
  <2>2. CASE i # Len(L) + 1
    <3>1. i \in 1 .. Len(L)
      BY <1>1, <2>2
    <3> QED  BY <1>1, <3>1 DEF InOrder
  <2> QED  BY <2>1, <2>2
<1>3. Len(M) <= MaxAttempts
  BY <1>1, DispatcherAssumption
<1> QED  BY <1>2, <1>3 DEF InOrder, M

\* Delivery L with attempt i rescheduled.
Resched(L, i, r) == [L EXCEPT ![i].retry = r]

\* Changing the schedule of an attempt keeps its number and outcome.
LEMMA Rescheduled ==
    ASSUME NEW L \in Seq(Attempt), NEW i \in 1 .. Len(L), NEW r \in {"none", "later", "due"}
    PROVE  LET M == Resched(L, i, r)
           IN  /\ M \in Seq(Attempt)
               /\ Len(M) = Len(L)
               /\ \A j \in 1 .. Len(L) :
                     /\ M[j].attempt = L[j].attempt /\ M[j].ok = L[j].ok
                     /\ M[j].target = L[j].target /\ M[j].at = L[j].at
                     /\ M[j].retry = IF j = i THEN r ELSE L[j].retry
<1> DEFINE e == [L[i] EXCEPT !.retry = r]
           M == [L EXCEPT ![i] = e]
<1>1. L[i] \in Attempt
  OBVIOUS
<1>2. /\ e \in Attempt /\ e.attempt = L[i].attempt /\ e.ok = L[i].ok
      /\ e.target = L[i].target /\ e.at = L[i].at /\ e.retry = r
  BY <1>1 DEF Attempt
<1> HIDE DEF e
<1>3. /\ M \in Seq(Attempt) /\ Len(M) = Len(L)
      /\ \A j \in 1 .. Len(L) : M[j] = IF j = i THEN e ELSE L[j]
  BY <1>2
<1> QED  BY <1>2, <1>3 DEF e, Resched

LEMMA RescheduledInOrder ==
    ASSUME NEW L \in Seq(Attempt), NEW i \in 1 .. Len(L), NEW r \in {"none", "later", "due"},
           InOrder(L), L[i].retry # "none"
    PROVE  InOrder(Resched(L, i, r))
BY Rescheduled DEF InOrder

-----------------------------------------------------------------------------
(* The types of what the actions write. *)

LEMMA MaybeDisableType ==
    ASSUME NEW K \in [Keys -> KeyRow], NEW L, NEW k \in Keys, NEW K2 \in MaybeDisable(K, L, k)
    PROVE  K2 \in [Keys -> KeyRow]
<1>1. K2 = K \/ K2 = [K EXCEPT ![k].url = None]
  BY DEF MaybeDisable
<1>2. [K EXCEPT ![k].url = None] \in [Keys -> KeyRow]
  BY DEF KeyRow
<1> QED  BY <1>1, <1>2

\* Log M with one attempt rescheduled.
WithRetry(M, a, k, i, r) == [M EXCEPT ![a][k][i].retry = r]

\* Log M with an attempt more.
WithAttempt(M, a, k, e) == [M EXCEPT ![a][k] = Append(@, e)]

\* Rescheduling one attempt of a log.
LEMMA LogRetry ==
    ASSUME NEW M \in Log, NEW a \in Alerts, NEW k \in Keys,
           NEW i \in 1 .. Len(M[a][k]), NEW r \in {"none", "later", "due"}
    PROVE  /\ WithRetry(M, a, k, i, r) \in Log
           /\ WithRetry(M, a, k, i, r)[a][k] = Resched(M[a][k], i, r)
           /\ \A b \in Alerts, l \in Keys :
                 <<b, l>> # <<a, k>> => WithRetry(M, a, k, i, r)[b][l] = M[b][l]
<1> DEFINE D == Resched(M[a][k], i, r)
           N == [M EXCEPT ![a][k] = D]
<1>1. M[a][k] \in Seq(Attempt)
  BY DEF Log
<1>2. D \in Seq(Attempt)
  BY <1>1, Rescheduled
<1> HIDE DEF D
<1>3. /\ N \in Log /\ N[a][k] = D
      /\ \A b \in Alerts, l \in Keys : <<b, l>> # <<a, k>> => N[b][l] = M[b][l]
  BY <1>2 DEF Log
<1> QED  BY <1>3 DEF D, WithRetry, Resched

\* Appending an attempt to one delivery of a log.
LEMMA LogAppend ==
    ASSUME NEW M \in Log, NEW a \in Alerts, NEW k \in Keys, NEW e \in Attempt
    PROVE  /\ WithAttempt(M, a, k, e) \in Log
           /\ WithAttempt(M, a, k, e)[a][k] = Append(M[a][k], e)
           /\ \A b \in Alerts, l \in Keys :
                 <<b, l>> # <<a, k>> => WithAttempt(M, a, k, e)[b][l] = M[b][l]
<1> DEFINE D == Append(M[a][k], e)
           N == [M EXCEPT ![a][k] = D]
<1>1. M[a][k] \in Seq(Attempt)
  BY DEF Log
<1>2. D \in Seq(Attempt)
  BY <1>1
<1> HIDE DEF D
<1>3. /\ N \in Log /\ N[a][k] = D
      /\ \A b \in Alerts, l \in Keys : <<b, l>> # <<a, k>> => N[b][l] = M[b][l]
  BY <1>2 DEF Log
<1> QED  BY <1>3 DEF D, WithAttempt

LEMMA AttemptTypes ==
    /\ \A e \in Attempt, ok \in BOOLEAN : now \in Nat => NextAttempt(e, ok) \in Attempt
    /\ \A k \in Keys, ok \in BOOLEAN :
          now \in Nat /\ keys[k].url \in Urls => FirstAttempt(k, ok) \in Attempt
    /\ \A n \in Nat, ok \in BOOLEAN : Count(n, ok) \in Nat
BY DEF Attempt, NextAttempt, FirstAttempt, Count

\* What the invariant says while no round is in progress.
LEMMA AtRest ==
    ASSUME IInv, session = None
    PROVE  /\ View = log /\ keys \in [Keys -> KeyRow] /\ log \in Log
           /\ posts \in [Alerts -> [Keys -> Nat]]
BY DEF IInv, TypeOK, View

\* What it says while one is.
LEMMA InSession ==
    ASSUME IInv, session # None
    PROVE  /\ session \in Session
           /\ session.keys \in [Keys -> KeyRow] /\ session.log \in Log
           /\ session.todo \subseteq Alerts \X Keys \X Nat
           /\ View = session.log
BY DEF IInv, TypeOK, View, Session

-----------------------------------------------------------------------------
(* Every action preserves the invariant. *)

THEOREM InitInv == Init => IInv
<1> SUFFICES ASSUME Init PROVE IInv
  OBVIOUS
<1>1. log \in Log /\ \A a \in Alerts, k \in Keys : log[a][k] = <<>> /\ Len(log[a][k]) = 0
  BY DEF Init, Log
<1>2. keys \in [Keys -> KeyRow]
  BY DispatcherAssumption DEF Init, KeyRow
<1>3. TypeOK
  BY <1>1, <1>2 DEF Init, TypeOK
<1>4. \A a \in Alerts, k \in Keys : InOrder(log[a][k])
  BY <1>1, DispatcherAssumption DEF InOrder
<1>5. SessionOK /\ Undispatched
  BY <1>1 DEF Init, SessionOK, Undispatched, View
<1>6. DuplicatesOnlyByAbort
  BY <1>1 DEF Init, DuplicatesOnlyByAbort, View
<1> QED  BY <1>3, <1>4, <1>5, <1>6 DEF IInv

\* The endpoints that manage a webhook do not touch the log.
LEMMA AdminInv ==
    ASSUME IInv, NEW k \in Keys,
           (\E u \in Urls, f \in Filters : Attach(k, u, f)) \/ Detach(k) \/ Revoke(k)
    PROVE  IInv'
<1>1. keys' \in [Keys -> KeyRow]
  <2>1. keys \in [Keys -> KeyRow]
    BY DEF IInv, TypeOK
  <2>2. ASSUME NEW u \in Urls, NEW f \in Filters, Attach(k, u, f)
        PROVE  keys' \in [Keys -> KeyRow]
    <3>1. keys' = [keys EXCEPT ![k] = [@ EXCEPT !.url = u, !.filter = f]]
      BY <2>2 DEF Attach
    <3> QED  BY <2>1, <3>1 DEF KeyRow
  <2>3. CASE Detach(k)
    <3>1. keys' = [keys EXCEPT ![k] = [@ EXCEPT !.url = None, !.filter = None]]
      BY <2>3 DEF Detach
    <3> QED  BY <2>1, <3>1, DispatcherAssumption DEF KeyRow
  <2>4. CASE Revoke(k)
    <3>1. keys' = [keys EXCEPT ![k] = [@ EXCEPT !.revoked = TRUE]]
      BY <2>4 DEF Revoke
    <3> QED  BY <2>1, <3>1 DEF KeyRow
  <2> QED  BY <2>2, <2>3, <2>4
<1>2. streak' \in [Keys -> Nat] /\ attached' \in Nat
  <2>1. /\ streak' = streak \/ streak' = [streak EXCEPT ![k] = 0]
        /\ attached' = attached \/ attached' = attached + 1
    BY DEF Attach, Detach, Revoke
  <2> QED  BY <2>1 DEF IInv, TypeOK
<1>3. UNCHANGED <<log, session, dispatched, posts, aborts, now>> /\ session = None
  BY DEF Attach, Detach, Revoke
<1>4. TypeOK'
  BY <1>1, <1>2, <1>3 DEF IInv, TypeOK
<1> QED
  BY <1>3, <1>4 DEF IInv, SessionOK, Undispatched, DuplicatesOnlyByAbort, View

LEMMA StartInv ==
    ASSUME IInv, StartRound
    PROVE  IInv'
<1>1. /\ session = None /\ session' = [todo |-> Due, keys |-> keys, log |-> log]
      /\ UNCHANGED <<keys, log, dispatched, posts, streak, attached, aborts, now>>
  BY DEF StartRound
<1>2. View = log /\ keys \in [Keys -> KeyRow] /\ log \in Log
  BY <1>1, AtRest
<1>3. ASSUME NEW a \in Alerts, NEW k \in Keys, NEW i \in Nat, <<a, k, i>> \in Due
      PROVE  i = Len(log[a][k]) /\ i # 0 /\ a \in dispatched /\ log[a][k][i].retry # "none"
  <2>1. i \in 1 .. MaxAttempts /\ i <= Len(log[a][k]) /\ log[a][k][i].retry = "due"
    BY <1>3 DEF Due
  <2>2. InOrder(log[a][k]) /\ log[a][k] \in Seq(Attempt)
    BY <1>2 DEF IInv, Log
  <2>3. i = Len(log[a][k]) /\ Len(log[a][k]) # 0 /\ i # 0
    BY <2>1, <2>2 DEF InOrder
  <2>4. a \in dispatched
    <3>1. a \notin dispatched => log[a][k] = <<>>
      BY DEF IInv, Undispatched
    <3> QED  BY <2>3, <3>1
  <2> QED  BY <2>1, <2>3, <2>4
<1>4. Due \subseteq Alerts \X Keys \X Nat
  BY DEF Due
<1>5. session' \in Session /\ session' # None
  BY <1>1, <1>2, <1>4, DispatcherAssumption DEF Session
<1>6. session'.log = log /\ session'.todo = Due
  BY <1>1
<1>7. TypeOK'
  BY <1>1, <1>5 DEF IInv, TypeOK
<1>8. SessionOK'
  BY <1>1, <1>3, <1>6 DEF IInv, SessionOK
<1>9. View' = View
  BY <1>2, <1>5, <1>6 DEF View
<1>10. DuplicatesOnlyByAbort'
  BY <1>1, <1>9 DEF IInv, DuplicatesOnlyByAbort
<1> QED
  BY <1>1, <1>7, <1>8, <1>9, <1>10 DEF IInv, Undispatched

LEMMA AbortInv ==
    ASSUME IInv, Abort
    PROVE  IInv'
<1>1. /\ session # None /\ session' = None /\ aborts' = aborts + 1
      /\ UNCHANGED <<keys, log, dispatched, posts, streak, attached, now>>
  BY DEF Abort
<1>2. TypeOK'
  BY <1>1 DEF IInv, TypeOK
<1>3. View = session.log /\ View' = log /\ log \in Log
  BY <1>1, InSession DEF View, IInv, TypeOK
<1>4. ASSUME NEW a \in Alerts, NEW k \in Keys
      PROVE  /\ Len(log[a][k]) <= posts[a][k]
             /\ posts[a][k] <= Len(log[a][k]) + (aborts + 1)
  <2>1. Len(log[a][k]) \in Nat /\ posts[a][k] \in Nat /\ aborts \in Nat
    BY <1>3 DEF IInv, TypeOK, Log
  <2>2. Len(session.log[a][k]) \in {Len(log[a][k]), Len(log[a][k]) + 1}
    BY <1>1 DEF IInv, SessionOK
  <2>3. /\ Len(session.log[a][k]) <= posts[a][k]
        /\ posts[a][k] <= Len(session.log[a][k]) + aborts
    BY <1>3 DEF IInv, DuplicatesOnlyByAbort
  <2>4. Len(session.log[a][k]) \in Nat
    BY <2>1, <2>2
  <2>5. Len(log[a][k]) <= posts[a][k]
    BY <2>1, <2>2, <2>3, <2>4
  <2>6. posts[a][k] <= Len(log[a][k]) + (aborts + 1)
    <3>1. posts[a][k] <= Len(session.log[a][k]) + aborts
      BY <2>3
    <3>2. \A p, l, m, n \in Nat : m \in {l, l + 1} /\ p <= m + n => p <= l + (n + 1)
      OBVIOUS
    <3> QED  BY <2>1, <2>2, <2>4, <3>1, <3>2
  <2> QED  BY <2>5, <2>6
<1>5. DuplicatesOnlyByAbort'
  BY <1>1, <1>3, <1>4 DEF DuplicatesOnlyByAbort
<1> QED
  BY <1>1, <1>2, <1>3, <1>5 DEF IInv, SessionOK, Undispatched

LEMMA CommitInv ==
    ASSUME IInv, Commit
    PROVE  IInv'
<1>1. /\ session # None /\ session' = None /\ now' = now + 1
      /\ keys' = session.keys /\ log' = session.log
      /\ UNCHANGED <<dispatched, posts, streak, attached, aborts>>
  BY DEF Commit
<1>2. /\ session.keys \in [Keys -> KeyRow] /\ session.log \in Log
      /\ View = session.log /\ View' = session.log
  BY <1>1, InSession DEF View
<1>3. TypeOK'
  BY <1>1, <1>2 DEF IInv, TypeOK
<1>4. \A a \in Alerts, k \in Keys : InOrder(log[a][k])'
  BY <1>1 DEF IInv, SessionOK, InOrder
<1>5. DuplicatesOnlyByAbort'
  BY <1>1, <1>2 DEF IInv, DuplicatesOnlyByAbort
<1>6. Undispatched'
  BY <1>1, <1>2 DEF IInv, Undispatched
<1> QED
  BY <1>1, <1>3, <1>4, <1>5, <1>6 DEF IInv, SessionOK

\* The back-off of an attempt ends: one schedule changes.
LEMMA DueInv ==
    ASSUME IInv, NEW a \in Alerts, NEW k \in Keys, ComeDue(a, k)
    PROVE  IInv'
<1> DEFINE i == Len(log[a][k])
           N == WithRetry(log, a, k, i, "due")
<1>1. /\ session = None /\ i > 0 /\ log[a][k][i].retry = "later"
      /\ log' = N
      /\ UNCHANGED <<keys, session, dispatched, posts, streak, attached, aborts, now>>
  BY DEF ComeDue, WithRetry
<1>2. View = log /\ View' = N /\ log \in Log /\ log[a][k] \in Seq(Attempt)
  BY <1>1, AtRest DEF View, Log
<1>3. i \in 1 .. Len(log[a][k])
  BY <1>1, <1>2
<1> HIDE DEF i
<1>4. /\ N \in Log
      /\ N[a][k] = Resched(log[a][k], i, "due")
      /\ \A b \in Alerts, l \in Keys : <<b, l>> # <<a, k>> => N[b][l] = log[b][l]
  <2>1. log \in Log
    BY <1>2
  <2> QED  BY <2>1, <1>3, LogRetry
<1>5. Len(N[a][k]) = Len(log[a][k]) /\ InOrder(N[a][k])
  <2>1. InOrder(log[a][k]) /\ log[a][k][i].retry # "none"
    BY <1>1 DEF IInv
  <2>2. "due" \in {"none", "later", "due"}
    OBVIOUS
  <2> DEFINE D == Resched(log[a][k], i, "due")
  <2>3. InOrder(D)
    BY <1>2, <1>3, <2>1, <2>2, RescheduledInOrder, Zenon
  <2>4. Len(D) = Len(log[a][k])
    BY <1>2, <1>3, <2>2, Rescheduled, Zenon
  <2> QED  BY <1>4, <2>3, <2>4, Zenon
<1> HIDE DEF N
<1>6. \A b \in Alerts, l \in Keys : Len(N[b][l]) = Len(log[b][l]) /\ InOrder(N[b][l])
  BY <1>4, <1>5 DEF IInv
<1>7. TypeOK'
  BY <1>1, <1>4 DEF IInv, TypeOK
<1>8. Undispatched'
  <2>1. a \in dispatched
    BY <1>1, <1>2 DEF IInv, Undispatched, i
  <2>2. \A b \in Alerts \ dispatched, l \in Keys : N[b][l] = log[b][l]
    BY <1>4, <2>1
  <2> QED  BY <1>1, <1>2, <2>2 DEF IInv, Undispatched
<1>9. DuplicatesOnlyByAbort'
  BY <1>1, <1>2, <1>6 DEF IInv, DuplicatesOnlyByAbort
<1> QED
  BY <1>1, <1>6, <1>7, <1>8, <1>9 DEF IInv, SessionOK

\* The session of a request starts: every matching delivery has no attempt yet.
LEMMA RaiseInv ==
    ASSUME IInv, NEW A \in SUBSET Alerts, Raise(A)
    PROVE  IInv'
<1> DEFINE T == {x \in A \X Keys \X {0} : x[2] \in Targets(x[1])}
<1>1. /\ session = None /\ session' = [todo |-> T, keys |-> keys, log |-> log]
      /\ A \cap dispatched = {} /\ dispatched' = dispatched \cup A
      /\ UNCHANGED <<keys, log, posts, streak, attached, aborts, now>>
  BY DEF Raise
<1>2. View = log /\ keys \in [Keys -> KeyRow] /\ log \in Log
  BY <1>1, AtRest
<1>3. ASSUME NEW a \in Alerts, NEW k \in Keys, NEW i \in Nat, <<a, k, i>> \in T
      PROVE  i = 0 /\ i = Len(log[a][k]) /\ a \in dispatched' /\ keys[k].url \in Urls
  <2>1. a \in A /\ i = 0 /\ k \in Targets(a)
    BY <1>3
  <2>2. log[a][k] = <<>>
    BY <1>1, <2>1 DEF IInv, Undispatched
  <2>3. keys[k].url \in Urls
    BY <1>2, <2>1 DEF Targets, KeyRow
  <2> QED  BY <1>1, <2>1, <2>2, <2>3
<1>4. T \subseteq Alerts \X Keys \X Nat
  OBVIOUS
<1> HIDE DEF T
<1>5. session' \in Session /\ session' # None
  BY <1>1, <1>2, <1>4, DispatcherAssumption DEF Session
<1>6. session'.log = log /\ session'.todo = T
  BY <1>1
<1>7. TypeOK'
  BY <1>1, <1>5 DEF IInv, TypeOK
<1>8. SessionOK'
  <2>1. \A a \in Alerts, k \in Keys : InOrder(log[a][k]) /\ Len(log[a][k]) \in Nat
    BY <1>2 DEF IInv, Log
  <2> QED  BY <1>1, <1>3, <1>6, <2>1 DEF SessionOK
<1>9. View' = View
  BY <1>2, <1>5, <1>6 DEF View
<1>10. DuplicatesOnlyByAbort'
  BY <1>1, <1>9 DEF IInv, DuplicatesOnlyByAbort
<1> QED
  BY <1>1, <1>7, <1>8, <1>9, <1>10 DEF IInv, Undispatched

\* Leaving out deliveries changes nothing but the list of them.
LEMMA CutInv ==
    ASSUME IInv, NEW a \in Alerts, DispatchCut(a)
    PROVE  IInv'
<1> DEFINE T == session.todo \ ({a} \X Keys \X {0})
<1>1. /\ session # None
      /\ UNCHANGED <<keys, log, dispatched, posts, streak, attached, aborts, now>>
  BY DEF DispatchCut
<1>2. session \in Session /\ View = session.log
  BY <1>1, InSession
<1>3. session' = [session EXCEPT !.todo = T]
  BY DEF DispatchCut
<1>4. T \subseteq session.todo
  OBVIOUS
<1> HIDE DEF T
<1>5. /\ session' \in Session
      /\ session'.log = session.log /\ session'.keys = session.keys /\ session'.todo = T
  BY <1>2, <1>3, <1>4 DEF Session
<1>6. session' # None
  BY <1>5, DispatcherAssumption
<1>7. TypeOK'
  BY <1>1, <1>5 DEF IInv, TypeOK
<1>8. SessionOK'
  BY <1>1, <1>4, <1>5, <1>6 DEF IInv, SessionOK
<1>9. View' = View
  BY <1>2, <1>5, <1>6 DEF View
<1> QED
  BY <1>1, <1>7, <1>8, <1>9 DEF IInv, Undispatched, DuplicatesOnlyByAbort

\* An attempt the round has yet to handle is the last of its delivery, failed,
\* and below the limit; the committed table has as many attempts.
LEMMA Pending ==
    ASSUME IInv, session # None, NEW a \in Alerts, NEW k \in Keys, NEW i \in Nat \ {0},
           <<a, k, i>> \in session.todo
    PROVE  LET L == session.log[a][k]
           IN  /\ L \in Seq(Attempt) /\ InOrder(L) /\ i \in 1 .. Len(L)
               /\ i = Len(L) /\ i = Len(log[a][k])
               /\ L[i] \in Attempt /\ L[i].attempt = i /\ i < MaxAttempts
               /\ L[i].retry # "none"
               /\ \A j \in 1 .. Len(L) : ~L[j].ok /\ (j # i => L[j].retry = "none")
<1> DEFINE L == session.log[a][k]
<1>1. L \in Seq(Attempt)
  BY InSession DEF Log
<1>2. InOrder(L) /\ i = Len(L) /\ i = Len(log[a][k]) /\ i >= 1 /\ L[i].retry # "none"
  BY DEF IInv, SessionOK
<1> HIDE DEF L
<1>3. i \in 1 .. Len(L)
  BY <1>2
<1>4. L[i] \in Attempt
  BY <1>1, <1>3
<1>5. L[i].attempt = i /\ i < MaxAttempts /\ ~L[i].ok
  BY <1>2, <1>3 DEF InOrder
<1>6. \A j \in 1 .. Len(L) : ~L[j].ok /\ (j # i => L[j].retry = "none")
  BY <1>1, <1>2, <1>5 DEF InOrder
<1> QED  BY <1>1, <1>2, <1>3, <1>4, <1>5, <1>6 DEF L

\* Clearing its schedule leaves a delivery in order, with nothing scheduled.
LEMMA ClearedOK ==
    ASSUME IInv, session # None, NEW a \in Alerts, NEW k \in Keys, NEW i \in Nat \ {0},
           <<a, k, i>> \in session.todo
    PROVE  LET C == Cleared(a, k, i)
           IN  /\ C \in Log /\ InOrder(C[a][k]) /\ Len(C[a][k]) = i
               /\ \A j \in 1 .. i : ~C[a][k][j].ok /\ C[a][k][j].retry = "none"
               /\ \A b \in Alerts, l \in Keys :
                     <<b, l>> # <<a, k>> => C[b][l] = session.log[b][l]
<1> DEFINE L == session.log[a][k]
           C == Cleared(a, k, i)
<1>1. /\ L \in Seq(Attempt) /\ InOrder(L) /\ i \in 1 .. Len(L) /\ i = Len(L)
      /\ L[i].retry # "none"
      /\ \A j \in 1 .. Len(L) : ~L[j].ok /\ (j # i => L[j].retry = "none")
  BY Pending
<1>2. C = WithRetry(session.log, a, k, i, "none") /\ session.log \in Log
  BY InSession DEF Cleared, WithRetry
<1> DEFINE M == session.log
<1> HIDE DEF C
<1>3. /\ C \in Log /\ C[a][k] = Resched(L, i, "none")
      /\ \A b \in Alerts, l \in Keys : <<b, l>> # <<a, k>> => C[b][l] = session.log[b][l]
  <2>1. M \in Log /\ i \in 1 .. Len(M[a][k]) /\ C = WithRetry(M, a, k, i, "none")
    BY <1>1, <1>2
  <2> HIDE DEF M
  <2>2. /\ C \in Log /\ C[a][k] = Resched(M[a][k], i, "none")
        /\ \A b \in Alerts, l \in Keys : <<b, l>> # <<a, k>> => C[b][l] = M[b][l]
    BY <2>1, LogRetry
  <2> QED  BY <2>2 DEF M
<1> HIDE DEF L
<1>4. InOrder(C[a][k]) /\ Len(C[a][k]) = i
  BY <1>1, <1>3, Rescheduled, RescheduledInOrder
<1>5. \A j \in 1 .. Len(L) : ~C[a][k][j].ok /\ C[a][k][j].retry = "none"
  <2> DEFINE R == Resched(L, i, "none")
  <2>1. \A j \in 1 .. Len(L) : /\ R[j].ok = L[j].ok
                               /\ R[j].retry = IF j = i THEN "none" ELSE L[j].retry
    BY <1>1, Rescheduled
  <2> HIDE DEF R
  <2>2. \A j \in 1 .. Len(L) : ~R[j].ok /\ R[j].retry = "none"
    BY <1>1, <2>1
  <2> QED  BY <1>3, <2>2 DEF R
<1> QED  BY <1>1, <1>3, <1>4, <1>5 DEF C

\* What a step of the session has to establish for the parts about the session.
LEMMA SessionStep ==
    ASSUME IInv, session # None, NEW a \in Alerts, NEW k \in Keys, NEW i \in Nat,
           <<a, k, i>> \in session.todo,
           NEW N \in Log, NEW K \in [Keys -> KeyRow],
           InOrder(N[a][k]), Len(N[a][k]) \in {i, i + 1},
           \A b \in Alerts, l \in Keys : <<b, l>> # <<a, k>> => N[b][l] = session.log[b][l],
           session' = [todo |-> session.todo \ {<<a, k, i>>}, keys |-> K, log |-> N],
           keys' = keys, log' = log, dispatched' = dispatched
    PROVE  /\ session' \in Session /\ SessionOK' /\ Undispatched' /\ View' = N
<1>1. /\ session'.todo = session.todo \ {<<a, k, i>>} /\ session'.log = N
      /\ session'.keys = K
  OBVIOUS
<1>2. session' \in Session
  BY InSession DEF Session
<1>3. session' # None
  BY <1>2, DispatcherAssumption
<1>4. View' = N
  BY <1>1, <1>3 DEF View
<1>5. i = Len(session.log[a][k]) /\ i = Len(log[a][k]) /\ a \in dispatched
  BY DEF IInv, SessionOK
<1>6. ASSUME NEW b \in Alerts, NEW l \in Keys
      PROVE  InOrder(N[b][l]) /\ Len(N[b][l]) \in {Len(log[b][l]), Len(log[b][l]) + 1}
  <2>1. CASE <<b, l>> = <<a, k>>
    BY <1>5, <2>1
  <2>2. CASE <<b, l>> # <<a, k>>
    <3>1. N[b][l] = session.log[b][l]
      BY <2>2
    <3> QED  BY <3>1 DEF IInv, SessionOK
  <2> QED  BY <2>1, <2>2
<1>7. ASSUME NEW b \in Alerts, NEW l \in Keys, NEW j \in Nat,
             <<b, l, j>> \in session.todo \ {<<a, k, i>>}
      PROVE  /\ j = Len(N[b][l]) /\ j = Len(log[b][l]) /\ b \in dispatched
             /\ j >= 1 => N[b][l][j].retry # "none"
             /\ j = 0 => keys[l].url \in Urls
  <2>1. /\ j = Len(session.log[b][l]) /\ j = Len(log[b][l]) /\ b \in dispatched
        /\ j >= 1 => session.log[b][l][j].retry # "none"
        /\ j = 0 => keys[l].url \in Urls
    BY <1>7 DEF IInv, SessionOK
  <2>2. <<b, l>> # <<a, k>>
    BY <1>5, <1>7, <2>1
  <2> QED  BY <2>1, <2>2
<1>8. SessionOK'
  BY <1>1, <1>6, <1>7 DEF SessionOK
<1>9. Undispatched'
  <2> SUFFICES ASSUME NEW b \in Alerts \ dispatched, NEW l \in Keys
               PROVE  log[b][l] = <<>> /\ N[b][l] = <<>>
    BY <1>4 DEF Undispatched
  <2>1. N[b][l] = session.log[b][l]
    BY <1>5
  <2> QED  BY <2>1, InSession DEF IInv, Undispatched
<1> QED  BY <1>2, <1>4, <1>8, <1>9

LEMMA DroppedInv ==
    ASSUME IInv, NEW a \in Alerts, NEW k \in Keys, NEW i \in 1 .. MaxAttempts,
           RetryDropped(a, k, i)
    PROVE  IInv'
<1> DEFINE C == Cleared(a, k, i)
<1>1. /\ session # None /\ <<a, k, i>> \in session.todo
      /\ UNCHANGED <<keys, log, dispatched, posts, streak, attached, aborts, now>>
  BY DEF RetryDropped
<1>2. i \in Nat /\ i \in Nat \ {0} /\ session \in Session /\ session.keys \in [Keys -> KeyRow]
  BY <1>1, InSession, DispatcherAssumption
<1>3. session' = [todo |-> session.todo \ {<<a, k, i>>}, keys |-> session.keys, log |-> C]
  <2>1. session' = [session EXCEPT !.todo = session.todo \ {<<a, k, i>>}, !.log = C]
    BY DEF RetryDropped
  <2> HIDE DEF C
  <2> QED  BY <1>2, <2>1 DEF Session
<1>4. /\ C \in Log /\ InOrder(C[a][k]) /\ Len(C[a][k]) = i
      /\ \A b \in Alerts, l \in Keys : <<b, l>> # <<a, k>> => C[b][l] = session.log[b][l]
  BY <1>1, <1>2, ClearedOK
<1> HIDE DEF C
<1>5. session' \in Session /\ SessionOK' /\ Undispatched' /\ View' = C
  <2>1. Len(C[a][k]) \in {i, i + 1} /\ keys' = keys /\ log' = log
        /\ dispatched' = dispatched
    BY <1>1, <1>4
  <2>2. i \in Nat /\ session.keys \in [Keys -> KeyRow]
    BY <1>2
  <2> QED  BY <1>1, <1>3, <1>4, <2>1, <2>2, SessionStep, Zenon
<1>6. TypeOK'
  BY <1>1, <1>5 DEF IInv, TypeOK
<1>7. \A b \in Alerts, l \in Keys : Len(C[b][l]) = Len(session.log[b][l])
  <2>1. Len(session.log[a][k]) = i
    BY <1>1, <1>2, Pending
  <2> QED  BY <1>4, <2>1
<1>8. DuplicatesOnlyByAbort'
  BY <1>1, <1>5, <1>7, InSession DEF IInv, DuplicatesOnlyByAbort
<1> QED
  BY <1>1, <1>5, <1>6, <1>8 DEF IInv

\* A retry: the pending attempt is cleared, and followed by a new one.
LEMMA PostInv ==
    ASSUME IInv, NEW a \in Alerts, NEW k \in Keys, NEW i \in 1 .. MaxAttempts,
           NEW ok \in BOOLEAN, RetryPost(a, k, i, ok)
    PROVE  IInv'
<1> DEFINE e == session.log[a][k][i]
           n == NextAttempt(e, ok)
           C == Cleared(a, k, i)
           N == WithAttempt(C, a, k, n)
           P == [posts EXCEPT ![a][k] = @ + 1]
<1>1. /\ session # None /\ <<a, k, i>> \in session.todo
      /\ session.keys[k].url # None
      /\ posts' = P
      /\ streak' = [streak EXCEPT ![k] = Count(@, ok)]
      /\ UNCHANGED <<keys, log, dispatched, attached, aborts, now>>
  BY DEF RetryPost
<1>2. /\ i \in Nat /\ i \in Nat \ {0} /\ session \in Session /\ session.keys \in [Keys -> KeyRow]
      /\ now \in Nat /\ posts \in [Alerts -> [Keys -> Nat]] /\ streak \in [Keys -> Nat]
      /\ View = session.log /\ session.log \in Log
  BY <1>1, InSession, DispatcherAssumption DEF IInv, TypeOK
<1>3. PICK K \in [Keys -> KeyRow] :
        session' = [todo |-> session.todo \ {<<a, k, i>>}, keys |-> K, log |-> N]
  <2>1. PICK K2 \in IF ~ok /\ e.attempt + 1 >= MaxAttempts
                    THEN MaybeDisable(session.keys, N, k) ELSE {session.keys} :
          session' = [todo |-> session.todo \ {<<a, k, i>>}, keys |-> K2, log |-> N]
    BY DEF RetryPost, WithAttempt
  <2> HIDE DEF N
  <2>2. K2 = session.keys \/ K2 \in MaybeDisable(session.keys, N, k)
    BY <2>1
  <2>3. K2 \in [Keys -> KeyRow]
    BY <1>2, <2>2, MaybeDisableType
  <2> QED  BY <2>1, <2>3
<1>4. /\ e \in Attempt /\ e.attempt = i /\ i < MaxAttempts
      /\ Len(session.log[a][k]) = i
  BY <1>1, <1>2, Pending
<1>5. /\ C \in Log /\ InOrder(C[a][k]) /\ Len(C[a][k]) = i
      /\ \A j \in 1 .. i : ~C[a][k][j].ok /\ C[a][k][j].retry = "none"
      /\ \A b \in Alerts, l \in Keys : <<b, l>> # <<a, k>> => C[b][l] = session.log[b][l]
  BY <1>1, <1>2, ClearedOK
<1> HIDE DEF e
<1>6. /\ n \in Attempt /\ n.attempt = i + 1
      /\ n.retry # "none" => ~n.ok /\ i + 1 < MaxAttempts
  <2>1. n \in Attempt
    BY <1>2, <1>4, AttemptTypes
  <2>2. n.attempt = i + 1 /\ n.ok = ok
        /\ n.retry = IF ok \/ i + 1 >= MaxAttempts THEN "none" ELSE "later"
    BY <1>4 DEF NextAttempt
  <2> QED  BY <1>2, <2>1, <2>2, DispatcherAssumption
<1> HIDE DEF C, n
<1>7. /\ N \in Log /\ N[a][k] = Append(C[a][k], n)
      /\ \A b \in Alerts, l \in Keys : <<b, l>> # <<a, k>> => N[b][l] = C[b][l]
  BY <1>5, <1>6, LogAppend
<1> HIDE DEF N
<1>8. InOrder(N[a][k]) /\ Len(N[a][k]) = i + 1
  <2> DEFINE L == C[a][k]
  <2>1. L \in Seq(Attempt) /\ InOrder(L) /\ Len(L) = i
        /\ \A j \in 1 .. Len(L) : ~L[j].ok /\ L[j].retry = "none"
    BY <1>5 DEF Log
  <2>2. N[a][k] = Append(L, n)
    BY <1>7
  <2> HIDE DEF L
  <2>3. InOrder(Append(L, n)) /\ Len(Append(L, n)) = i + 1
    BY <1>4, <1>6, <2>1, AppendInOrder, AppendAttempt
  <2> QED  BY <2>2, <2>3
<1>9. \A b \in Alerts, l \in Keys : <<b, l>> # <<a, k>> => N[b][l] = session.log[b][l]
  BY <1>5, <1>7
<1>10. session' \in Session /\ SessionOK' /\ Undispatched' /\ View' = N
  <2>1. Len(N[a][k]) \in {i, i + 1} /\ keys' = keys /\ log' = log
        /\ dispatched' = dispatched
    BY <1>1, <1>8
  <2>2. i \in Nat /\ session # None /\ <<a, k, i>> \in session.todo
    BY <1>1, <1>2
  <2> QED  BY <1>3, <1>7, <1>8, <1>9, <2>1, <2>2, SessionStep, Zenon
<1>11. /\ P \in [Alerts -> [Keys -> Nat]] /\ P[a][k] = posts[a][k] + 1
       /\ \A b \in Alerts, l \in Keys : <<b, l>> # <<a, k>> => P[b][l] = posts[b][l]
  BY <1>2
<1> HIDE DEF P
<1>12. TypeOK'
  <2>1. streak' \in [Keys -> Nat]
    BY <1>1, <1>2, AttemptTypes
  <2> QED  BY <1>1, <1>10, <1>11, <2>1 DEF IInv, TypeOK
<1>13. DuplicatesOnlyByAbort'
  <2> SUFFICES ASSUME NEW b \in Alerts, NEW l \in Keys
               PROVE  /\ Len(N[b][l]) <= P[b][l]
                      /\ P[b][l] <= Len(N[b][l]) + aborts
    BY <1>1, <1>10 DEF DuplicatesOnlyByAbort
  <2>1. /\ Len(session.log[b][l]) <= posts[b][l]
        /\ posts[b][l] <= Len(session.log[b][l]) + aborts
    BY <1>2 DEF IInv, DuplicatesOnlyByAbort
  <2>2. CASE <<b, l>> # <<a, k>>
    BY <1>9, <1>11, <2>1, <2>2
  <2>3. CASE <<b, l>> = <<a, k>>
    <3>1. \A p, q, m \in Nat : /\ m <= p => m + 1 <= p + 1
                               /\ p <= m + q => p + 1 <= (m + 1) + q
      OBVIOUS
    <3>2. posts[a][k] \in Nat /\ aborts \in Nat
      BY <1>2 DEF IInv, TypeOK
    <3> QED  BY <1>2, <1>4, <1>8, <1>11, <2>1, <2>3, <3>1, <3>2
  <2> QED  BY <2>2, <2>3
<1> QED
  BY <1>1, <1>10, <1>12, <1>13 DEF IInv

\* A first attempt: the delivery had none.
LEMMA FirstInv ==
    ASSUME IInv, NEW a \in Alerts, NEW k \in Keys, NEW ok \in BOOLEAN, FirstPost(a, k, ok)
    PROVE  IInv'
<1> DEFINE n == FirstAttempt(k, ok)
           M == session.log
           N == WithAttempt(M, a, k, n)
           P == [posts EXCEPT ![a][k] = @ + 1]
<1>1. /\ session # None /\ <<a, k, 0>> \in session.todo
      /\ posts' = P
      /\ streak' = [streak EXCEPT ![k] = Count(@, ok)]
      /\ UNCHANGED <<keys, log, dispatched, attached, aborts, now>>
  BY DEF FirstPost
<1>2. /\ 0 \in Nat /\ session \in Session /\ session.keys \in [Keys -> KeyRow]
      /\ now \in Nat /\ posts \in [Alerts -> [Keys -> Nat]] /\ streak \in [Keys -> Nat]
      /\ View = session.log /\ M \in Log
  BY <1>1, InSession DEF IInv, TypeOK
<1>3. session' = [todo |-> session.todo \ {<<a, k, 0>>}, keys |-> session.keys, log |-> N]
  <2>1. session' = [session EXCEPT !.todo = session.todo \ {<<a, k, 0>>}, !.log = N]
    BY <1>2 DEF FirstPost, WithAttempt, Session
  <2> HIDE DEF N
  <2> QED  BY <1>2, <2>1 DEF Session
<1>4. Len(M[a][k]) = 0 /\ M[a][k] \in Seq(Attempt) /\ InOrder(M[a][k])
  BY <1>1, <1>2 DEF IInv, SessionOK, Log
<1>5. n \in Attempt /\ n.attempt = 1 /\ (n.retry # "none" => ~n.ok /\ 1 < MaxAttempts)
  <2>1. keys[k].url \in Urls
    BY <1>1 DEF IInv, SessionOK
  <2>2. n \in Attempt
    BY <1>2, <2>1, AttemptTypes
  <2> QED  BY <2>2, DispatcherAssumption DEF FirstAttempt
<1> HIDE DEF n
<1>6. /\ N \in Log /\ N[a][k] = Append(M[a][k], n)
      /\ \A b \in Alerts, l \in Keys : <<b, l>> # <<a, k>> => N[b][l] = M[b][l]
  BY <1>2, <1>5, LogAppend
<1> HIDE DEF N
<1>7. InOrder(N[a][k]) /\ Len(N[a][k]) = 1
  <2> DEFINE L == M[a][k]
  <2>1. /\ L \in Seq(Attempt) /\ InOrder(L) /\ Len(L) = 0 /\ N[a][k] = Append(L, n)
        /\ Len(L) < MaxAttempts /\ n.attempt = Len(L) + 1 /\ n \in Attempt
        /\ n.retry # "none" => ~n.ok /\ Len(L) + 1 < MaxAttempts
    BY <1>4, <1>5, <1>6, DispatcherAssumption
  <2> HIDE DEF L
  <2>4. \A j \in 1 .. Len(L) : ~L[j].ok /\ L[j].retry = "none"
    BY <2>1
  <2>2. InOrder(Append(L, n))
    BY <2>1, <2>4, AppendInOrder
  <2>3. Len(Append(L, n)) = 1
    BY <1>5, <2>1, AppendAttempt
  <2> QED  BY <2>1, <2>2, <2>3
<1>8. session' \in Session /\ SessionOK' /\ Undispatched' /\ View' = N
  <2>1. \A b \in Alerts, l \in Keys : <<b, l>> # <<a, k>> => N[b][l] = session.log[b][l]
    BY <1>6
  <2>2. Len(N[a][k]) \in {0, 0 + 1}
    BY <1>7
  <2> QED  BY <1>1, <1>2, <1>3, <1>6, <1>7, <2>1, <2>2, SessionStep
<1>9. /\ P \in [Alerts -> [Keys -> Nat]] /\ P[a][k] = posts[a][k] + 1
      /\ \A b \in Alerts, l \in Keys : <<b, l>> # <<a, k>> => P[b][l] = posts[b][l]
  BY <1>2
<1> HIDE DEF P
<1>10. TypeOK'
  <2>1. streak' \in [Keys -> Nat]
    BY <1>1, <1>2, AttemptTypes
  <2> QED  BY <1>1, <1>8, <1>9, <2>1 DEF IInv, TypeOK
<1>11. DuplicatesOnlyByAbort'
  <2> SUFFICES ASSUME NEW b \in Alerts, NEW l \in Keys
               PROVE  Len(N[b][l]) <= P[b][l] /\ P[b][l] <= Len(N[b][l]) + aborts
    BY <1>1, <1>8 DEF DuplicatesOnlyByAbort
  <2>1. Len(M[b][l]) <= posts[b][l] /\ posts[b][l] <= Len(M[b][l]) + aborts
    BY <1>2 DEF IInv, DuplicatesOnlyByAbort
  <2>2. CASE <<b, l>> # <<a, k>>
    BY <1>6, <1>9, <2>1, <2>2
  <2>3. CASE <<b, l>> = <<a, k>>
    <3>1. b = a /\ l = k
      BY <2>3
    <3>2. posts[a][k] \in Nat /\ aborts \in Nat
      BY <1>2 DEF IInv, TypeOK
    <3>3. posts[a][k] <= 0 + aborts
      BY <1>4, <2>1, <3>1
    <3>4. \A x, y \in Nat : x <= 0 + y => 1 <= x + 1 /\ x + 1 <= 1 + y
      OBVIOUS
    <3>5. 1 <= posts[a][k] + 1 /\ posts[a][k] + 1 <= 1 + aborts
      BY <3>2, <3>3, <3>4
    <3> QED  BY <1>7, <1>9, <3>1, <3>5
  <2> QED  BY <2>2, <2>3
<1> QED
  BY <1>1, <1>8, <1>10, <1>11 DEF IInv

-----------------------------------------------------------------------------
(* The invariant, and what follows from it. *)

LEMMA NextInv ==
    ASSUME IInv, [Next]_vars
    PROVE  IInv'
<1>1. CASE UNCHANGED vars
  BY <1>1 DEF vars, IInv, TypeOK, InOrder, SessionOK, Undispatched, DuplicatesOnlyByAbort, View
<1>2. ASSUME NEW A \in SUBSET Alerts, Raise(A) PROVE IInv'
  BY <1>2, RaiseInv
<1>3. ASSUME NEW a \in Alerts, NEW k \in Keys, ComeDue(a, k) PROVE IInv'
  BY <1>3, DueInv
<1>4. ASSUME StartRound PROVE IInv'
  BY <1>4, StartInv
<1>5. ASSUME RetryOne PROVE IInv'
  <2>1. PICK a \in Alerts, k \in Keys, i \in 1 .. MaxAttempts :
          RetryDropped(a, k, i) \/ \E ok \in BOOLEAN : RetryPost(a, k, i, ok)
    BY <1>5 DEF RetryOne
  <2>2. CASE RetryDropped(a, k, i)
    BY <2>2, DroppedInv
  <2>3. CASE \E ok \in BOOLEAN : RetryPost(a, k, i, ok)
    BY <2>3, PostInv
  <2> QED  BY <2>1, <2>2, <2>3
<1>6. ASSUME Commit PROVE IInv'
  BY <1>6, CommitInv
<1>7. ASSUME Abort PROVE IInv'
  BY <1>7, AbortInv
<1>8. ASSUME NEW k \in Keys,
             (\E u \in Urls, f \in Filters : Attach(k, u, f)) \/ Detach(k) \/ Revoke(k)
      PROVE  IInv'
  BY <1>8, AdminInv
<1>9. ASSUME NEW a \in Alerts, NEW k \in Keys, NEW ok \in BOOLEAN, FirstPost(a, k, ok)
      PROVE  IInv'
  BY <1>9, FirstInv
<1>10. ASSUME NEW a \in Alerts, DispatchCut(a) PROVE IInv'
  BY <1>10, CutInv
<1> QED
  BY <1>1, <1>2, <1>3, <1>4, <1>5, <1>6, <1>7, <1>8, <1>9, <1>10 DEF Next, Working

THEOREM Invariant == Spec => []IInv
<1>1. Init => IInv
  BY InitInv
<1>2. IInv /\ [Next]_vars => IInv'
  BY NextInv
<1> QED  BY <1>1, <1>2, PTL DEF Spec

\* Every variable has its type in every reachable state (webhook_dispatcher.py and
\* the tables it writes).
THEOREM TypeCorrect == Spec => []TypeOK
<1>1. IInv => TypeOK
  BY DEF IInv
<1> QED  BY <1>1, Invariant, PTL

\* A delivery is attempted at most MaxAttempts times as the log tells it, in order,
\* with at most one retry pending, whatever rounds fail (retry_pending_webhooks).
THEOREM AttemptsStayInOrder == Spec => []AttemptsInOrder
<1>1. IInv => AttemptsInOrder
  <2> SUFFICES ASSUME IInv, NEW a \in Alerts, NEW k \in Keys
               PROVE  InOrder(View[a][k])
    BY DEF AttemptsInOrder, InOrder
  <2> QED  BY DEF IInv, SessionOK, View
<1> QED  BY <1>1, Invariant, PTL

\* A failed session is the only thing that makes an endpoint receive an alert more
\* often than the log tells, and once per failed session at most (the POSTs of
\* dispatch and of retry_pending_webhooks come before the commit).
THEOREM DuplicatesNeedAborts == Spec => []DuplicatesOnlyByAbort
<1>1. IInv => DuplicatesOnlyByAbort
  BY DEF IInv
<1> QED  BY <1>1, Invariant, PTL
=============================================================================
