--------------------------- MODULE AnomalyEngine ---------------------------
(***************************************************************************)
(* The anomaly engine (src/services/anomaly_engine.py) together with the   *)
(* writers of the alert table it shares: the acknowledge endpoint and the  *)
(* hourly clean-up.                                                        *)
(*                                                                         *)
(* One batch of log entries is handled in one atomic step: the request     *)
(* handlers are coroutines without an await in their body, so the event    *)
(* loop runs each to its end.  What does interleave is everything around   *)
(* a batch: other batches, operators, the clean-up, the clock, and the     *)
(* loss of the in-memory state when the process stops.                     *)
(*                                                                         *)
(* A batch is abstracted to what the detectors tell apart: where its error *)
(* rate and mean latency lie relative to the baseline of the source BEFORE *)
(* the batch, the error patterns in it, and the ages of its oldest and     *)
(* newest entry.                                                           *)
(***************************************************************************)
EXTENDS Integers, FiniteSets, FiniteSetsExt

CONSTANTS
    Tenants,            \* tenant ids
    Sources,            \* (tenant_id, source_id) pairs: the engine's cache keys
    TenantOf,           \* the tenant of each source
    Registered,         \* sources whose rows the database accepts: those in log_sources
                        \* where it enforces foreign keys, all where it does not (SQLite)
    Services,           \* service names
    UnknownService,     \* the service name of an alert built without entries
    Fingerprints,       \* normalised error messages
    Batches,            \* the batches that may arrive
    CallerCommits,      \* does the caller of ingest commit the session?
    WarmupRequired,     \* _EwmaState.warmup_required
    PersistEvery,       \* PERSIST_EVERY
    SustainedWarning, SustainedCritical,    \* _SUSTAINED_*_S
    SilenceWindow,      \* _SILENCE_WINDOW_S
    CascadeWindow, CascadeMinServices,      \* _CASCADE_*
    FingerprintTTL, MaxFingerprints,
    RetentionAge,       \* tenants.retention_days
    MaxTime, MaxAlerts, MaxBoots,           \* bounds of the model, not of the code
    MaxFailedPersists,                      \* the same: failed writes of registered sources
    None                \* Python's None

VARIABLES
    cache,          \* in-process cache: source -> _EwmaState, or None
    rows,           \* table ewma_state: source -> persisted columns, or None
    cascadeFired,   \* in-memory guard: tenant -> time of the last CASCADE
    alerts,         \* table anomaly_alerts: alert -> status
    nextSeq,        \* number of the next batch that raises alerts
    reported,       \* the alerts the last step handed to the webhook dispatcher
    failures,       \* writes of registered sources' rows that failed in a batch
    boot,           \* number of the running process (stamped on alerts to observe)
    now             \* wall clock

vars == <<cache, rows, cascadeFired, alerts, nextSeq, reported, failures, boot, now>>

ErrorClass == {"below", "above", "warn", "crit"}
LatencyClass == {"none", "normal", "warn", "crit"}
Spiking == {"warn", "crit"}
AnomalyType == {"ERROR_RATE_SPIKE", "SUSTAINED_ELEVATION", "SERVICE_SILENCE",
                "LATENCY_SPIKE", "NOVEL_ERROR", "CASCADE"}
Severity == {"WARNING", "CRITICAL"}
Status == {"open", "acknowledged", "resolved"}
MaybeTime == Int \cup {None}

\* "below": at most the baseline; "above": over it but within the warning bound.
\* oldest and newest are ages; a client may stamp an entry in the future.
Batch == [src : Sources, svc : Services, err : ErrorClass, lat : LatencyClass,
          fps : SUBSET Fingerprints, oldest : Int, newest : Int]

ASSUME EngineAssumption ==
    /\ TenantOf \in [Sources -> Tenants]
    /\ Registered \subseteq Sources
    /\ IsFiniteSet(Fingerprints)
    /\ UnknownService \in Services
    /\ CallerCommits \in BOOLEAN
    /\ WarmupRequired \in Nat
    /\ PersistEvery \in Nat \ {0}
    /\ SustainedWarning \in Nat /\ SustainedCritical \in Nat
    /\ SilenceWindow \in Nat \ {0}
    /\ CascadeWindow \in Nat \ {0} /\ CascadeMinServices \in Nat \ {0}
    /\ FingerprintTTL \in Nat \ {0} /\ MaxFingerprints \in Nat
    /\ RetentionAge \in Nat
    /\ MaxTime \in Nat /\ MaxAlerts \in Nat /\ MaxBoots \in Nat /\ MaxFailedPersists \in Nat
    /\ None \notin Int /\ None \notin Severity

ASSUME BatchAssumption ==
    /\ Batches \subseteq Batch
    /\ \A b \in Batches :
          /\ b.oldest >= b.newest
          /\ b.err # "below" => b.fps # {}   \* a positive error rate has an error

-----------------------------------------------------------------------------
(* The state of one source. *)

Row == [warm : Nat, fps : [Fingerprints -> MaybeTime], last : MaybeTime]

ASSUME NoRowAssumption == None \notin Row

SourceState ==
    [warm : Nat, fps : [Fingerprints -> MaybeTime], last : MaybeTime,
     latWarm : Nat, clean : Nat, latClean : Nat,
     aboveSince : MaybeTime, sustained : Severity \cup {None},
     silenceAlerted : BOOLEAN, since : Nat]

ASSUME NoStateAssumption == None \notin SourceState

\* The columns _persist_state writes; everything else is lost with the process.
Persisted(st) == [warm |-> st.warm, fps |-> st.fps, last |-> st.last]

FromRow(r) ==
    [warm |-> r.warm, fps |-> r.fps, last |-> r.last,
     latWarm |-> 0, clean |-> 0, latClean |-> 0,
     aboveSince |-> None, sustained |-> None,
     silenceAlerted |-> FALSE, since |-> 0]

EmptyRow == [warm |-> 0, fps |-> [f \in Fingerprints |-> None], last |-> None]

LoadState(s) ==
    IF cache[s] # None THEN cache[s]
    ELSE FromRow(IF rows[s] # None THEN rows[s] ELSE EmptyRow)

\* Counters the code only compares with a threshold are kept up to it.
Bump(n, threshold) == IF n < threshold THEN n + 1 ELSE n

-----------------------------------------------------------------------------
(* The session of one batch: the source's state, the two tables as the      *)
(* session sees them, the in-memory cascade guard, whether an exception has *)
(* ended the batch, and whether the row of the source could not be written. *)

AlertId == [seq : Nat, src : Sources, type : AnomalyType, sev : Severity,
            svc : Services, fp : Fingerprints \cup {None}, at : Int, boot : Nat]

Begin(s) == [st |-> LoadState(s), tbl |-> alerts, rows |-> rows,
             fired |-> cascadeFired, ok |-> TRUE, failed |-> FALSE]

\* The rest of a batch is skipped once an alert could not be written.
Then(c, d) == IF c.ok THEN d ELSE c

Put(T, a, st) == [x \in DOMAIN T \cup {a} |-> IF x = a THEN st ELSE T[x]]

NewAlert(b, type, sev, svc, fp) ==
    [seq |-> nextSeq, src |-> b.src, type |-> type, sev |-> sev,
     svc |-> svc, fp |-> fp, at |-> now, boot |-> boot]

\* _build_alert: insert and flush; a violated foreign key rolls the session back.
BuildAlert(c, b, type, sev, svc, fp) ==
    IF b.src \in Registered
    THEN [c EXCEPT !.tbl = Put(@, NewAlert(b, type, sev, svc, fp), "open")]
    ELSE [c EXCEPT !.tbl = alerts, !.rows = rows, !.ok = FALSE]

OpenAlerts(T, s, type) ==
    {a \in DOMAIN T : a.src = s /\ a.type = type /\ T[a] = "open"}

\* _try_auto_resolve: the newest open alert of this source and type, no other.
TryAutoResolve(c, b, type) ==
    LET open == OpenAlerts(c.tbl, b.src, type)
    IN  IF open = {} THEN c
        ELSE LET a == CHOOSE a \in open : \A o \in open : o.seq <= a.seq
             IN  [c EXCEPT !.tbl[a] = "resolved"]

-----------------------------------------------------------------------------
(* The detectors, in the order ingest runs them. *)

\* Fault: the open alert is looked for before the new one is written.
SilenceResolvedTooEarly(c, b) ==
    LET c1 == TryAutoResolve([c EXCEPT !.st.silenceAlerted = TRUE], b, "SERVICE_SILENCE")
    IN  IF \/ c.st.last = None \/ c.st.silenceAlerted
           \/ (now - b.oldest) - c.st.last < SilenceWindow
        THEN c
        ELSE BuildAlert(c1, b, "SERVICE_SILENCE", "CRITICAL", b.svc, None)

CheckServiceSilence(c, b) ==
    LET gap == (now - b.oldest) - c.st.last
        c1  == [c EXCEPT !.st.silenceAlerted = TRUE]
        c2  == BuildAlert(c1, b, "SERVICE_SILENCE", "CRITICAL", b.svc, None)
    IN  IF c.st.last = None \/ c.st.silenceAlerted THEN c
        ELSE IF gap < SilenceWindow THEN c
        ELSE Then(c2, TryAutoResolve(c2, b, "SERVICE_SILENCE"))

UpdateBaselines(c, b) ==
    [c EXCEPT !.st.warm = Bump(@, WarmupRequired),
              !.st.latWarm = IF b.lat = "none" THEN @ ELSE Bump(@, WarmupRequired),
              !.st.last = now - b.newest,
              !.st.silenceAlerted = FALSE]

\* Fault: a spike does not restart the count of clean windows.
CleanWindowsNotReset(c, b) ==
    IF b.err \in Spiking
    THEN BuildAlert(c, b, "ERROR_RATE_SPIKE",
                    IF b.err = "crit" THEN "CRITICAL" ELSE "WARNING", b.svc, None)
    ELSE LET c1 == [c EXCEPT !.st.clean = Bump(@, 2)]
         IN  IF c1.st.clean >= 2 THEN TryAutoResolve(c1, b, "ERROR_RATE_SPIKE") ELSE c1

\* Fault: resolve in the second clean window only, not in the later ones.
ResolveAtExactlyTwo(c, b) ==
    IF b.err \in Spiking
    THEN BuildAlert([c EXCEPT !.st.clean = 0], b, "ERROR_RATE_SPIKE",
                    IF b.err = "crit" THEN "CRITICAL" ELSE "WARNING", b.svc, None)
    ELSE LET c1 == [c EXCEPT !.st.clean = Bump(@, 2)]
         IN  IF c.st.clean = 1 THEN TryAutoResolve(c1, b, "ERROR_RATE_SPIKE") ELSE c1

CheckErrorRateSpike(c, b) ==
    IF b.err \in Spiking
    THEN BuildAlert([c EXCEPT !.st.clean = 0], b, "ERROR_RATE_SPIKE",
                    IF b.err = "crit" THEN "CRITICAL" ELSE "WARNING", b.svc, None)
    ELSE LET c1 == [c EXCEPT !.st.clean = Bump(@, 2)]
         IN  IF c1.st.clean >= 2 THEN TryAutoResolve(c1, b, "ERROR_RATE_SPIKE") ELSE c1

\* Fault: the query has no tenant filter.
SpikingServicesOfAnyone(T, t) ==
    {a.svc : a \in {x \in DOMAIN T :
        x.type = "ERROR_RATE_SPIKE" /\ T[x] = "open" /\ x.at >= now - CascadeWindow}}

\* The services of tenant t with an open spike inside the correlation window.
SpikingServices(T, t) ==
    {a.svc : a \in {x \in DOMAIN T :
        /\ x.type = "ERROR_RATE_SPIKE" /\ TenantOf[x.src] = t
        /\ T[x] = "open" /\ x.at >= now - CascadeWindow}}

\* Fault: the guard is tested against a shorter window than the query.
CascadeGuardTooShort(c, b) ==
    LET t == TenantOf[b.src]
    IN  IF \/ b.err \notin Spiking
           \/ c.fired[t] # None /\ now - c.fired[t] < CascadeWindow - 1
           \/ Cardinality(SpikingServices(c.tbl, t)) < CascadeMinServices
        THEN c
        ELSE BuildAlert([c EXCEPT !.fired[t] = now], b, "CASCADE", "CRITICAL",
                        UnknownService, None)

\* The guard is set before the alert is written.
CheckCascade(c, b) ==
    LET t == TenantOf[b.src]
    IN  IF \/ b.err \notin Spiking
           \/ c.fired[t] # None /\ now - c.fired[t] < CascadeWindow
           \/ Cardinality(SpikingServices(c.tbl, t)) < CascadeMinServices
        THEN c
        ELSE BuildAlert([c EXCEPT !.fired[t] = now], b, "CASCADE", "CRITICAL",
                        UnknownService, None)

\* Fault: a return to the baseline does not clear the start of the elevation.
ElevationStartKept(c, b) ==
    LET duration == now - c.st.aboveSince
        Fire(sev) == BuildAlert([c EXCEPT !.st.sustained = sev], b,
                                "SUSTAINED_ELEVATION", sev, UnknownService, None)
    IN  IF b.err = "below"
        THEN TryAutoResolve([c EXCEPT !.st.sustained = None], b, "SUSTAINED_ELEVATION")
        ELSE IF c.st.aboveSince = None THEN [c EXCEPT !.st.aboveSince = now]
        ELSE IF duration >= SustainedCritical /\ c.st.sustained # "CRITICAL"
             THEN Fire("CRITICAL")
        ELSE IF duration >= SustainedWarning /\ c.st.sustained = None
             THEN Fire("WARNING")
        ELSE c

CheckSustainedElevation(c, b) ==
    LET duration == now - c.st.aboveSince
        Fire(sev) == BuildAlert([c EXCEPT !.st.sustained = sev], b,
                                "SUSTAINED_ELEVATION", sev, UnknownService, None)
    IN  IF b.err = "below"
        THEN TryAutoResolve([c EXCEPT !.st.aboveSince = None, !.st.sustained = None],
                            b, "SUSTAINED_ELEVATION")
        ELSE IF c.st.aboveSince = None THEN [c EXCEPT !.st.aboveSince = now]
        ELSE IF duration >= SustainedCritical /\ c.st.sustained # "CRITICAL"
             THEN Fire("CRITICAL")
        ELSE IF duration >= SustainedWarning /\ c.st.sustained = None
             THEN Fire("WARNING")
        ELSE c

CheckLatencySpike(c, b) ==
    IF b.lat = "none" \/ c.st.latWarm < WarmupRequired THEN c
    ELSE IF b.lat \in Spiking
    THEN BuildAlert([c EXCEPT !.st.latClean = 0], b, "LATENCY_SPIKE",
                    IF b.lat = "crit" THEN "CRITICAL" ELSE "WARNING", b.svc, None)
    ELSE LET c1 == [c EXCEPT !.st.latClean = Bump(@, 2)]
         IN  IF c1.st.latClean >= 2 THEN TryAutoResolve(c1, b, "LATENCY_SPIKE") ELSE c1

\* Patterns first seen less than the TTL ago.
Known(st) == {f \in Fingerprints : st.fps[f] # None /\ st.fps[f] > now - FingerprintTTL}

\* The patterns of b that are new and find room: with several new ones near the
\* cap, which of them depends on their order in the batch.  When the first alert
\* cannot be written, only the first pattern has been remembered.
Remembered(b) ==
    LET known == Known(LoadState(b.src))
        new   == b.fps \ known
        room  == MaxFingerprints - Cardinality(known)
        tried == IF b.src \in Registered THEN Cardinality(new) ELSE 1
    IN  {K \in SUBSET new : Cardinality(K) = Min({Cardinality(new), room, tried})}

\* Fault: the list is replaced by the patterns of the batch.
OnlyLatestPatterns(c, b, keep) ==
    LET known == Known(c.st) \cap b.fps
        new   == b.fps \ known
        st    == [c.st EXCEPT !.fps = [f \in Fingerprints |->
                     IF f \in known THEN @[f] ELSE IF f \in keep THEN now ELSE None]]
        ids   == {NewAlert(b, "NOVEL_ERROR", "WARNING", b.svc, f) : f \in new}
    IN  [c EXCEPT !.st = st,
                  !.tbl = [a \in DOMAIN c.tbl \cup ids |->
                              IF a \in ids THEN "open" ELSE c.tbl[a]]]

CheckNovelError(c, b, keep) ==
    LET known == Known(c.st)
        new   == b.fps \ known
        st    == [c.st EXCEPT !.fps = [f \in Fingerprints |->
                     IF f \in known THEN @[f] ELSE IF f \in keep THEN now ELSE None]]
        ids   == {NewAlert(b, "NOVEL_ERROR", "WARNING", b.svc, f) : f \in new}
    IN  IF new = {} THEN [c EXCEPT !.st = st]
        ELSE IF b.src \in Registered
        THEN [c EXCEPT !.st = st,
                       !.tbl = [a \in DOMAIN c.tbl \cup ids |->
                                   IF a \in ids THEN "open" ELSE c.tbl[a]]]
        ELSE [c EXCEPT !.st = st, !.tbl = alerts, !.rows = rows, !.ok = FALSE]

RunDetectors(c, b, keep) ==
    LET c1 == CheckErrorRateSpike(c, b)
        c2 == Then(c1, CheckCascade(c1, b))
        c3 == Then(c2, CheckSustainedElevation(c2, b))
        c4 == Then(c3, CheckLatencySpike(c3, b))
    IN  Then(c4, CheckNovelError(c4, b, keep))

\* What _persist_state may come to.  It swallows every error: a violated foreign
\* key and a failed flush cost the whole session, a failed query nothing else.
PersistOutcome == {"written", "refused", "rolledback"}

Outcomes(s) ==
    IF s \notin Registered THEN PersistOutcome \ {"written"}
    ELSE IF failures < MaxFailedPersists THEN PersistOutcome ELSE {"written"}

PersistState(c, b, outcome) ==
    IF outcome = "written" THEN [c EXCEPT !.rows[b.src] = Persisted(c.st)]
    ELSE IF outcome = "refused" THEN [c EXCEPT !.failed = TRUE]
    ELSE [c EXCEPT !.tbl = alerts, !.rows = rows, !.failed = TRUE]

\* Fault: one batch too many between two writes.
PersistOneLate(c, b, outcome) ==
    LET c1 == [c EXCEPT !.st.since = @ + 1]
    IN  IF c1.st.since <= PersistEvery THEN c1
        ELSE PersistState([c EXCEPT !.st.since = 0], b, outcome)

\* The counter restarts even when the row could not be written.
PersistEveryN(c, b, outcome) ==
    LET c1 == [c EXCEPT !.st.since = @ + 1]
    IN  IF c1.st.since < PersistEvery THEN c1
        ELSE PersistState([c EXCEPT !.st.since = 0], b, outcome)

\* Fault: the warm-up ends one batch early.
WarmOneEarly(st) == st.warm + 1 >= WarmupRequired

\* Every batch counts towards the warm-up, the one that completes it included.
Warm(st) == st.warm >= WarmupRequired

Process(b, keep, outcome) ==
    LET c1 == CheckServiceSilence(Begin(b.src), b)
        c2 == Then(c1, UpdateBaselines(c1, b))
        c3 == IF c2.ok /\ Warm(c2.st) THEN RunDetectors(c2, b, keep) ELSE c2
    IN  Then(c3, PersistEveryN(c3, b, outcome))

-----------------------------------------------------------------------------
(* Actions. *)

Init ==
    /\ cache = [s \in Sources |-> None]
    /\ rows = [s \in Sources |-> None]
    /\ cascadeFired = [t \in Tenants |-> None]
    /\ alerts = [a \in {} |-> "open"]
    /\ nextSeq = 1
    /\ reported = {}
    /\ failures = 0
    /\ boot = 1
    /\ now = 0

\* The end of a batch.  The cached state is mutated in place and survives
\* whatever becomes of the session; the tables change only if it is committed.
\* The alerts returned by ingest go to the webhooks before that is known; in a
\* session that a failed write has rolled back, looking up the webhooks fails.
Finish(b, c) ==
    /\ cache' = [cache EXCEPT ![b.src] = c.st]
    /\ cascadeFired' = c.fired
    /\ alerts' = IF CallerCommits THEN c.tbl ELSE alerts
    /\ rows' = IF CallerCommits THEN c.rows ELSE rows
    /\ reported' = DOMAIN c.tbl \ DOMAIN alerts
    /\ nextSeq' = IF reported' = {} THEN nextSeq ELSE nextSeq + 1
    /\ nextSeq' <= MaxAlerts + 1
    /\ failures' = IF c.failed /\ b.src \in Registered THEN failures + 1 ELSE failures
    /\ UNCHANGED <<boot, now>>

Ingest(b) ==
    \E keep \in Remembered(b), outcome \in Outcomes(b.src) :
        Finish(b, Process(b, keep, outcome))

\* Fault: the status written is not one of the three.
AcknowledgeMisspelt(a) ==
    /\ alerts[a] = "open"
    /\ alerts' = [alerts EXCEPT ![a] = "acked"]
    /\ reported' = {}
    /\ UNCHANGED <<cache, rows, cascadeFired, nextSeq, failures, boot, now>>

\* Fault: no check for a resolved alert.
AcknowledgeAny(a) ==
    /\ alerts[a] # "acknowledged"
    /\ alerts' = [alerts EXCEPT ![a] = "acknowledged"]
    /\ reported' = {}
    /\ UNCHANGED <<cache, rows, cascadeFired, nextSeq, failures, boot, now>>

\* POST /alerts/{id}/acknowledge; a resolved alert is refused with 409.
Acknowledge(a) ==
    /\ alerts[a] = "open"
    /\ alerts' = [alerts EXCEPT ![a] = "acknowledged"]
    /\ reported' = {}
    /\ UNCHANGED <<cache, rows, cascadeFired, nextSeq, failures, boot, now>>

\* The hourly clean-up never deletes an open alert.
Expired(t) == {a \in DOMAIN alerts : /\ TenantOf[a.src] = t
                                     /\ alerts[a] \in {"resolved", "acknowledged"}
                                     /\ a.at < now - RetentionAge}

CleanTenant(t) ==
    /\ Expired(t) # {}
    /\ alerts' = [a \in DOMAIN alerts \ Expired(t) |-> alerts[a]]
    /\ reported' = {}
    /\ UNCHANGED <<cache, rows, cascadeFired, nextSeq, failures, boot, now>>

LoseMemory ==
    /\ boot < MaxBoots
    /\ boot' = boot + 1
    /\ cache' = [s \in Sources |-> None]
    /\ cascadeFired' = [t \in Tenants |-> None]
    /\ reported' = {}
    /\ UNCHANGED <<alerts, nextSeq, failures, now>>

Crash == LoseMemory /\ UNCHANGED rows

\* flush() writes every cached state in one session, and goes on when one cannot
\* be written.  A violated foreign key rolls back the ones written before it, a
\* failed query loses its own row, a failed flush all of them.
FlushOutcomes == SUBSET {s \in Registered : cache[s] # None}

Shutdown ==
    /\ LoseMemory
    /\ \E saved \in FlushOutcomes :
          rows' = [s \in Sources |-> IF s \in saved THEN Persisted(cache[s]) ELSE rows[s]]

Tick ==
    /\ now < MaxTime
    /\ now' = now + 1
    /\ reported' = {}
    /\ UNCHANGED <<cache, rows, cascadeFired, alerts, nextSeq, failures, boot>>

Next ==
    \/ \E b \in Batches : Ingest(b)
    \/ \E a \in DOMAIN alerts : Acknowledge(a)
    \/ \E t \in Tenants : CleanTenant(t)
    \/ Crash
    \/ Shutdown
    \/ Tick

Spec == Init /\ [][Next]_vars

-----------------------------------------------------------------------------
(* Properties that need no history; AnomalyMonitor adds the others. *)

\* The type invariant.
TypeOK ==
    /\ cache \in [Sources -> SourceState \cup {None}]
    /\ rows \in [Sources -> Row \cup {None}]
    /\ cascadeFired \in [Tenants -> MaybeTime]
    /\ DOMAIN alerts \subseteq AlertId
    /\ \A a \in DOMAIN alerts : alerts[a] \in Status /\ a.seq < nextSeq /\ a.at <= now
    /\ reported \subseteq AlertId
    /\ nextSeq \in Nat /\ boot \in Nat /\ now \in Nat
    /\ failures \in 0 .. MaxFailedPersists

\* The evidence of a CASCADE lies in the alert table itself: when it is raised,
\* its tenant (and no other) has open spikes of enough services in the window.
CascadeIsBacked ==
    \A c \in reported \cap DOMAIN alerts : c.type = "CASCADE" =>
        Cardinality({a.svc : a \in {x \in DOMAIN alerts :
            /\ x.type = "ERROR_RATE_SPIKE" /\ alerts[x] = "open"
            /\ TenantOf[x.src] = TenantOf[c.src]
            /\ c.at - x.at <= CascadeWindow}}) >= CascadeMinServices

\* One process raises no second CASCADE for a tenant within the window, whatever
\* its sources, spikes and acknowledgements do meanwhile.
CascadeSpacing ==
    \A c, d \in DOMAIN alerts :
        /\ c.type = "CASCADE" /\ d.type = "CASCADE" /\ c.seq < d.seq
        /\ TenantOf[c.src] = TenantOf[d.src] /\ c.boot = d.boot
        => d.at - c.at >= CascadeWindow

\* A silence alert is closed in the batch that reveals it, so none is ever open.
SilenceNeverOpen ==
    \A a \in DOMAIN alerts : a.type = "SERVICE_SILENCE" => alerts[a] # "open"

\* An alert handed to the webhooks is in the alert table when the batch is over.
ReportedIsStored == reported \subseteq DOMAIN alerts

Lifecycle == INSTANCE AlertLifecycle WITH status <- alerts, next <- nextSeq

\* Every step of the engine, of an operator and of the clean-up is a step of the
\* alert life cycle.
ImplementsLifecycle == Lifecycle!Spec
=============================================================================
