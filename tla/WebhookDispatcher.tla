------------------------- MODULE WebhookDispatcher -------------------------
(***************************************************************************)
(* Delivery of alerts to webhooks (src/services/webhook_dispatcher.py) and *)
(* the endpoints that attach, detach and revoke the key a webhook hangs on *)
(* (src/routers/v1/admin/keys.py).                                         *)
(*                                                                         *)
(* The first attempts are made in the request that raised the alerts, in   *)
(* the database session of the request.  Failed attempts are retried by a  *)
(* background round, one session for all that are due.  A POST cannot be   *)
(* rolled back, a session can: both are therefore modelled attempt by      *)
(* attempt, with the session's view apart from the tables.  Nothing else   *)
(* runs meanwhile (neither awaits), but the session can fail, or the       *)
(* process stop, after any attempt.                                        *)
(***************************************************************************)
EXTENDS Integers, Sequences, FiniteSets

CONSTANTS
    Keys,               \* API keys of one tenant
    Urls,               \* webhook endpoints
    Alerts,             \* alerts to deliver
    SeverityOf,         \* severity of each alert
    Filters,            \* severity filters a webhook is attached with, or None
    MaxAttempts,        \* _MAX_ATTEMPTS
    DisableThreshold,   \* _AUTO_DISABLE_THRESHOLD
    MaxAttach, MaxAborts,      \* bounds of the model, not of the code
    None                \* Python's None

VARIABLES
    keys,       \* table api_keys: key -> [url, filter, revoked]
    log,        \* table webhook_events: alert -> key -> its attempts, oldest first
    session,    \* the session of the request or retry round in progress, or None
    dispatched, \* the alerts raised so far
    posts,      \* alert -> key -> number of POSTs ever made (observer)
    streak,     \* key -> failed POSTs in a row since its webhook was attached (observer)
    attached,   \* number of attachments so far (bound)
    aborts,     \* number of sessions that failed so far (bound)
    now         \* number of the last session that wrote the log: order of created_at

vars == <<keys, log, session, dispatched, posts, streak, attached, aborts, now>>

KeyRow == [url : Urls \cup {None}, filter : Filters, revoked : BOOLEAN]

\* retry: next_retry_at is NULL, lies ahead, or has passed.
Attempt == [attempt : Nat, target : Urls, ok : BOOLEAN,
            retry : {"none", "later", "due"}, at : Nat]

Log == [Alerts -> [Keys -> Seq(Attempt)]]

\* todo: the attempts still to make; <<a, k, i>> follows attempt i, 0 is none.
Session == [todo : SUBSET (Alerts \X Keys \X Nat),
            keys : [Keys -> KeyRow], log : Log]

ASSUME DispatcherAssumption ==
    /\ None \notin Urls /\ None \in Filters
    /\ None \notin Session
    /\ MaxAttempts \in Nat \ {0, 1}
    /\ DisableThreshold \in Nat \ {0}
    /\ MaxAttach \in Nat /\ MaxAborts \in Nat

-----------------------------------------------------------------------------

MatchesFilters(key, a) == key.filter = None \/ key.filter = SeverityOf[a]

\* The keys dispatch posts alert a to.
Targets(a) == {k \in Keys : /\ keys[k].url # None
                            /\ ~keys[k].revoked
                            /\ MatchesFilters(keys[k], a)}

FirstAttempt(k, ok) ==
    [attempt |-> 1, target |-> keys[k].url, ok |-> ok,
     retry |-> IF ok THEN "none" ELSE "later", at |-> now + 1]

\* The row a retry adds: under the target recorded first, whatever was posted to.
NextAttempt(e, ok) ==
    [attempt |-> e.attempt + 1, target |-> e.target, ok |-> ok,
     retry |-> IF ok \/ e.attempt + 1 >= MaxAttempts THEN "none" ELSE "later",
     at |-> now + 1]

Count(n, ok) == IF ok THEN 0 ELSE IF n < DisableThreshold THEN n + 1 ELSE n

\* The ids of the attempts logged for key k, in the table L.
AttemptsFor(L, k) == {x \in Alerts \X (1 .. MaxAttempts) : x[2] <= Len(L[x[1]][k])}

\* The most recent events: created_at is the start of the transaction, so attempts
\* of one session are equally recent and any of them may be picked.
Recent(L, k) ==
    LET all == AttemptsFor(L, k)
        At(x) == L[x[1]][k][x[2]].at
    IN  {R \in SUBSET all :
            /\ Cardinality(R) = IF Cardinality(all) < DisableThreshold
                                THEN Cardinality(all) ELSE DisableThreshold
            /\ \A x \in R, y \in all \ R : At(x) >= At(y)}

\* _maybe_disable_webhook: the key tables it may leave behind.
MaybeDisable(K, L, k) ==
    {IF /\ Cardinality(R) >= DisableThreshold
        /\ \A x \in R : ~L[x[1]][k][x[2]].ok
     THEN [K EXCEPT ![k].url = None] ELSE K : R \in Recent(L, k)}

-----------------------------------------------------------------------------

Init ==
    /\ keys = [k \in Keys |-> [url |-> None, filter |-> None, revoked |-> FALSE]]
    /\ log = [a \in Alerts |-> [k \in Keys |-> <<>>]]
    /\ session = None
    /\ dispatched = {}
    /\ posts = [a \in Alerts |-> [k \in Keys |-> 0]]
    /\ streak = [k \in Keys |-> 0]
    /\ attached = 0 /\ aborts = 0 /\ now = 0

\* A batch raises the alerts A: the request calls dispatch for each, once.
Raise(A) ==
    /\ session = None
    /\ A \cap dispatched = {}
    /\ dispatched' = dispatched \cup A
    /\ session' = [todo |-> {x \in A \X Keys \X {0} : x[2] \in Targets(x[1])},
                   keys |-> keys, log |-> log]
    /\ UNCHANGED <<keys, log, posts, streak, attached, aborts, now>>

\* Post to one matching webhook, and add the event to the session of the request.
FirstPost(a, k, ok) ==
    /\ session # None
    /\ <<a, k, 0>> \in session.todo
    /\ session' = [session EXCEPT !.todo = @ \ {<<a, k, 0>>},
                                  !.log[a][k] = Append(@, FirstAttempt(k, ok))]
    /\ posts' = [posts EXCEPT ![a][k] = @ + 1]
    /\ streak' = [streak EXCEPT ![k] = Count(@, ok)]
    /\ UNCHANGED <<keys, log, dispatched, attached, aborts, now>>

\* An exception that dispatch swallows and the session survives: the webhooks not
\* yet served never hear of the alert, what was added before stays.
DispatchCut(a) ==
    /\ session # None
    /\ session.todo \cap ({a} \X Keys \X {0}) # {}
    /\ session' = [session EXCEPT !.todo = @ \ ({a} \X Keys \X {0})]
    /\ UNCHANGED <<keys, log, dispatched, posts, streak, attached, aborts, now>>

\* The back-off of an attempt ends.
ComeDue(a, k) ==
    LET i == Len(log[a][k])
    IN  /\ session = None
        /\ i > 0 /\ log[a][k][i].retry = "later"
        /\ log' = [log EXCEPT ![a][k][i].retry = "due"]
        /\ UNCHANGED <<keys, session, dispatched, posts, streak, attached, aborts, now>>

\* Fault: off by one, as if the attempt to come were counted already.
DueTooStrict ==
    {x \in Alerts \X Keys \X (1 .. MaxAttempts) :
        LET L == log[x[1]][x[2]]
        IN  /\ x[3] <= Len(L) /\ x[3] + 1 < MaxAttempts
            /\ ~L[x[3]].ok /\ L[x[3]].retry = "due"}

Due ==
    {x \in Alerts \X Keys \X (1 .. MaxAttempts) :
        LET L == log[x[1]][x[2]]
        IN  /\ x[3] <= Len(L)
            /\ ~L[x[3]].ok /\ L[x[3]].retry = "due"}

StartRound ==
    /\ session = None
    /\ Due # {}
    /\ session' = [todo |-> Due, keys |-> keys, log |-> log]
    /\ UNCHANGED <<keys, log, dispatched, posts, streak, attached, aborts, now>>

\* Fault: the pending attempt keeps its schedule.
NotCleared(a, k, i) == session.log

\* The scheduling of a pending attempt is cleared, whatever follows.
Cleared(a, k, i) == [session.log EXCEPT ![a][k][i].retry = "none"]

\* (An attempt at the limit is never scheduled: AttemptsInOrder.  The branch of the
\* loop that handles one is unreachable and has no action.)

\* The key has lost its webhook meanwhile: the delivery is dropped.
RetryDropped(a, k, i) ==
    /\ session # None
    /\ <<a, k, i>> \in session.todo
    /\ session.log[a][k][i].attempt < MaxAttempts
    /\ session.keys[k].url = None
    /\ session' = [session EXCEPT !.todo = @ \ {<<a, k, i>>}, !.log = Cleared(a, k, i)]
    /\ UNCHANGED <<keys, log, dispatched, posts, streak, attached, aborts, now>>

\* Post again, to the webhook the key has now, and log the attempt.  The key's
\* revocation and filter are not looked at.
RetryPost(a, k, i, ok) ==
    LET e == session.log[a][k][i]
        L == [Cleared(a, k, i) EXCEPT ![a][k] = Append(@, NextAttempt(e, ok))]
        K == session.keys
    IN  /\ session # None
        /\ <<a, k, i>> \in session.todo
        /\ e.attempt < MaxAttempts
        /\ K[k].url # None
        /\ \E K2 \in IF ~ok /\ e.attempt + 1 >= MaxAttempts
                     THEN MaybeDisable(K, L, k) ELSE {K} :
              session' = [todo |-> session.todo \ {<<a, k, i>>}, keys |-> K2, log |-> L]
        /\ posts' = [posts EXCEPT ![a][k] = @ + 1]
        /\ streak' = [streak EXCEPT ![k] = Count(@, ok)]
        /\ UNCHANGED <<keys, log, dispatched, attached, aborts, now>>

\* Fault: the session is closed without a commit.
NotCommitted ==
    /\ session # None
    /\ session.todo = {}
    /\ keys' = keys
    /\ log' = log
    /\ session' = None
    /\ now' = now + 1
    /\ UNCHANGED <<dispatched, posts, streak, attached, aborts>>

\* The caller of dispatch commits, as its docstring asks; the retry loop does.
Commit ==
    /\ session # None
    /\ session.todo = {}
    /\ keys' = session.keys
    /\ log' = session.log
    /\ session' = None
    /\ now' = now + 1
    /\ UNCHANGED <<dispatched, posts, streak, attached, aborts>>

\* A database error (of a flush, too), a caller that does not commit, or the end of
\* the process: the session is rolled back, the endpoints keep what they received.
Abort ==
    /\ session # None
    /\ aborts < MaxAborts
    /\ aborts' = aborts + 1
    /\ session' = None
    /\ UNCHANGED <<keys, log, dispatched, posts, streak, attached, now>>

\* The endpoints refuse a revoked key (404).
Attach(k, u, f) ==
    /\ session = None
    /\ attached < MaxAttach
    /\ ~keys[k].revoked
    /\ keys' = [keys EXCEPT ![k].url = u, ![k].filter = f]
    /\ attached' = attached + 1
    /\ streak' = [streak EXCEPT ![k] = 0]
    /\ UNCHANGED <<log, session, dispatched, posts, aborts, now>>

\* Fault: an empty URL instead of NULL.
DetachToEmpty(k) ==
    /\ session = None
    /\ ~keys[k].revoked
    /\ keys' = [keys EXCEPT ![k].url = "", ![k].filter = None]
    /\ UNCHANGED <<log, session, dispatched, posts, streak, attached, aborts, now>>

Detach(k) ==
    /\ session = None
    /\ ~keys[k].revoked
    /\ keys' = [keys EXCEPT ![k].url = None, ![k].filter = None]
    /\ UNCHANGED <<log, session, dispatched, posts, streak, attached, aborts, now>>

Revoke(k) ==
    /\ session = None
    /\ ~keys[k].revoked
    /\ keys' = [keys EXCEPT ![k].revoked = TRUE]
    /\ UNCHANGED <<log, session, dispatched, posts, streak, attached, aborts, now>>

RetryOne ==
    \E a \in Alerts, k \in Keys, i \in 1 .. MaxAttempts :
        \/ RetryDropped(a, k, i)
        \/ \E ok \in BOOLEAN : RetryPost(a, k, i, ok)

\* The dispatcher at work: time passes, a round starts, a request or round goes on,
\* and is committed.
Working ==
    \/ \E a \in Alerts, k \in Keys : ComeDue(a, k)
    \/ StartRound
    \/ RetryOne
    \/ \E a \in Alerts, k \in Keys, ok \in BOOLEAN : FirstPost(a, k, ok)
    \/ \E a \in Alerts : DispatchCut(a)
    \/ Commit

Next ==
    \/ \E A \in SUBSET Alerts \ {{}} : Raise(A)
    \/ Working
    \/ Abort
    \/ \E k \in Keys, u \in Urls, f \in Filters : Attach(k, u, f)
    \/ \E k \in Keys : Detach(k) \/ Revoke(k)

Spec == Init /\ [][Next]_vars

\* The loop wakes every 30 seconds for as long as the process lives, survives any
\* error of a round; requests and rounds end; only finitely many fail (the bound of
\* Abort).
Fairness == WF_vars(Working)

FairSpec == Spec /\ Fairness

-----------------------------------------------------------------------------

\* The type invariant.
TypeOK ==
    /\ keys \in [Keys -> KeyRow]
    /\ log \in Log
    /\ session \in Session \cup {None}
    /\ dispatched \subseteq Alerts
    /\ posts \in [Alerts -> [Keys -> Nat]]
    /\ streak \in [Keys -> Nat]
    /\ attached \in Nat /\ aborts \in Nat /\ now \in Nat

\* The table as the session in progress, if any, sees it.
View == IF session = None THEN log ELSE session.log

\* The attempts of a delivery are numbered 1, 2, ... without gap or repetition, at
\* most MaxAttempts; all but the last failed; and only a failed last attempt below
\* the limit is ever scheduled, so no delivery has two retries pending.  (README.md:
\* "Maximum 3 delivery attempts per alert per webhook key", as the table tells it.)
AttemptsInOrder ==
    \A a \in Alerts, k \in Keys : LET L == View[a][k] IN
        /\ Len(L) <= MaxAttempts
        /\ \A i \in 1 .. Len(L) :
              /\ L[i].attempt = i
              /\ i < Len(L) => ~L[i].ok
              /\ L[i].retry # "none" => ~L[i].ok /\ i = Len(L) /\ i < MaxAttempts

\* Every logged attempt was posted; and an endpoint receives an alert at most once
\* more than the log tells for each session that failed, be it a round or the
\* request that raised the alert: nothing else can lose or repeat an attempt.
DuplicatesOnlyByAbort ==
    \A a \in Alerts, k \in Keys :
        /\ Len(View[a][k]) <= posts[a][k]
        /\ posts[a][k] <= Len(View[a][k]) + aborts

Scheduled(a, k) == \E i \in 1 .. Len(log[a][k]) : log[a][k][i].retry # "none"

\* No delivery stays scheduled for ever: it is attempted again or dropped.
ScheduledIsSettled ==
    \A a \in Alerts, k \in Keys : []<>~Scheduled(a, k)

\* What README.md:1827 says: the URL is set to null "after 10 consecutive
\* delivery failures" (of the webhook that is attached).
DisabledOnlyAfterThreshold ==
    [][Commit => \A k \in Keys :
          keys[k].url # None /\ keys'[k].url = None => streak[k] >= DisableThreshold]_vars
=============================================================================
