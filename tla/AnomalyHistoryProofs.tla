------------------------ MODULE AnomalyHistoryProofs ------------------------
(***************************************************************************)
(* Proofs about the detectors that remember earlier batches: a             *)
(* SUSTAINED_ELEVATION is true and not repeated, a NOVEL_ERROR is raised   *)
(* once per pattern, process and TTL, and a SERVICE_SILENCE is real when   *)
(* batches come in order and restarts keep last_log_at.                    *)
(*                                                                         *)
(* Each detector keeps its memory in the source state: the start and the   *)
(* severity of the elevation, and the list of patterns.  SameMemory says   *)
(* that the other detectors leave it alone; Elevation and Recognition say  *)
(* what the two owners do with it, and SameClock and ClockSet the same of  *)
(* the time of the latest log.                                             *)
(***************************************************************************)
EXTENDS AnomalyMonitorProofs

Elevated(x) == x.type = "SUSTAINED_ELEVATION"
Novel(x)    == x.type = "NOVEL_ERROR"

-----------------------------------------------------------------------------
(* What most detectors leave alone. *)

NothingNew(T, U) == \A x \in DOMAIN U \ DOMAIN T : ~Elevated(x) /\ ~Novel(x)

SameElevation(p, q) == q.aboveSince = p.aboveSince /\ q.sustained = p.sustained

SameMemory(c, d) ==
    /\ SameElevation(c.st, d.st) /\ d.st.fps = c.st.fps
    /\ NothingNew(c.tbl, d.tbl)

\* The time of the latest log is as it was, and no silence has been reported.
SameClock(c, d) ==
    /\ d.st.last = c.st.last
    /\ \A x \in DOMAIN d.tbl \ DOMAIN c.tbl : x.type # "SERVICE_SILENCE"

SameHistory(c, d) == SameMemory(c, d) /\ SameClock(c, d)

LEMMA SameRefl ==
    ASSUME NEW c, NEW d, SameElevation(c.st, d.st), d.st.fps = c.st.fps, d.tbl = c.tbl
    PROVE  SameMemory(c, d)
BY DEF SameMemory, NothingNew

LEMMA SameTrans ==
    ASSUME NEW c, NEW d, NEW e, SameMemory(c, d), SameMemory(d, e)
    PROVE  SameMemory(c, e)
BY DEF SameMemory, NothingNew, SameElevation

LEMMA HistoryRefl ==
    ASSUME NEW c, NEW d, SameElevation(c.st, d.st), d.st.fps = c.st.fps,
           d.st.last = c.st.last, d.tbl = c.tbl
    PROVE  SameHistory(c, d)
BY SameRefl DEF SameHistory, SameClock

LEMMA HistoryTrans ==
    ASSUME NEW c, NEW d, NEW e, SameHistory(c, d), SameHistory(d, e)
    PROVE  SameHistory(c, e)
BY SameTrans DEF SameHistory, SameClock

LEMMA SameState ==
    ASSUME NEW b, NEW w, NEW c, Good(c, b, w), NEW st,
           SameElevation(c.st, st), st.fps = c.st.fps
    PROVE  /\ SameMemory(c, [c EXCEPT !.st = st])
           /\ st.last = c.st.last => SameHistory(c, [c EXCEPT !.st = st])
<1>1. [c EXCEPT !.st = st].st = st /\ [c EXCEPT !.st = st].tbl = c.tbl
  BY DEF Good, Session
<1> QED  BY <1>1, SameRefl, HistoryRefl

\* Resolving an alert adds none and leaves the source state alone.
LEMMA ResolveSame ==
    ASSUME IInv, NEW b \in Batches, NEW w, NEW c, Good(c, b, w), NEW type
    PROVE  /\ TryAutoResolve(c, b, type).st = c.st
           /\ DOMAIN TryAutoResolve(c, b, type).tbl = DOMAIN c.tbl
<1> DEFINE d == TryAutoResolve(c, b, type)
<1>1. c \in Session
  BY DEF Good
<1>2. CASE d = c
  BY <1>2
<1>3. ASSUME NEW a, d = [c EXCEPT !.tbl[a] = "resolved"]
      PROVE  d.st = c.st /\ DOMAIN d.tbl = DOMAIN c.tbl
  BY <1>1, <1>3 DEF Session
<1> HIDE DEF d
<1>4. d = c \/ \E a : d = [c EXCEPT !.tbl[a] = "resolved"]
  BY ResolveEffect DEF d
<1> QED  BY <1>2, <1>3, <1>4 DEF d

LEMMA ResolveSameHistory ==
    ASSUME IInv, NEW b \in Batches, NEW w, NEW c, Good(c, b, w), NEW type
    PROVE  SameHistory(c, TryAutoResolve(c, b, type))
BY ResolveSame DEF SameHistory, SameClock, SameMemory, NothingNew, SameElevation

\* A written alert is the only new one.
LEMMA BuildWrites ==
    ASSUME IInv, NEW b \in Batches, NEW w, NEW c, Good(c, b, w), b.src \in Registered,
           NEW type, NEW sev, NEW svc, NEW fp
    PROVE  LET d == BuildAlert(c, b, type, sev, svc, fp)
           IN  /\ d.st = c.st
               /\ \A x \in DOMAIN d.tbl \ DOMAIN c.tbl :
                     x.type = type /\ x.sev = sev /\ x.fp = fp
<1> DEFINE x == NewAlert(b, type, sev, svc, fp)
           d == BuildAlert(c, b, type, sev, svc, fp)
<1>1. x.type = type /\ x.sev = sev /\ x.fp = fp
  BY DEF NewAlert
<1>2. d = [c EXCEPT !.tbl = Put(c.tbl, x, "open")]
  BY DEF BuildAlert, Good, Session
<1> HIDE DEF x
<1>3. d.st = c.st /\ d.tbl = Put(c.tbl, x, "open")
  BY <1>2 DEF Good, Session
<1>4. DOMAIN d.tbl = DOMAIN c.tbl \cup {x}
  BY <1>3 DEF Put
<1> HIDE DEF d
<1>5. d.st = c.st /\ \A y \in DOMAIN d.tbl \ DOMAIN c.tbl : y.type = type /\ y.sev = sev /\ y.fp = fp
  BY <1>1, <1>3, <1>4
<1> QED  BY <1>5 DEF d

LEMMA BuildSameHistory ==
    ASSUME IInv, NEW b \in Batches, NEW w, NEW c, Good(c, b, w), b.src \in Registered,
           NEW type, NEW sev, NEW svc, NEW fp,
           type \notin {"SUSTAINED_ELEVATION", "NOVEL_ERROR", "SERVICE_SILENCE"}
    PROVE  SameHistory(c, BuildAlert(c, b, type, sev, svc, fp))
BY BuildWrites DEF SameHistory, SameClock, SameMemory, NothingNew, SameElevation, Elevated, Novel

-----------------------------------------------------------------------------
(* The detectors that SameMemory describes. *)

LEMMA SilenceSame ==
    ASSUME IInv, NEW b \in Batches, NEW w, NEW c, Good(c, b, w), b.src \in Registered
    PROVE  SameMemory(c, CheckServiceSilence(c, b))
<1> DEFINE x  == NewAlert(b, "SERVICE_SILENCE", "CRITICAL", b.svc, None)
           c1 == SilenceFlagged(c)
           d  == CheckServiceSilence(c, b)
<1>1. c \in Session /\ c.st \in SourceState
  BY SessionType
<1>2. c1 \in Session /\ c1.tbl = c.tbl /\ SameElevation(c.st, c1.st) /\ c1.st.fps = c.st.fps
  BY <1>1, FlaggedGood DEF SilenceFlagged, Session, SourceState, Good, SameElevation
<1>3. x.type = "SERVICE_SILENCE"
  BY DEF NewAlert
<1> HIDE DEF c1, x
<1>4. CASE d = c
  BY <1>4, SameRefl DEF SameElevation
<1>5. ASSUME d = [c1 EXCEPT !.tbl = WithAlerts(c1.tbl, {x}, "resolved")]
      PROVE  SameMemory(c, d)
  <2>1. d.st = c1.st /\ d.tbl = WithAlerts(c.tbl, {x}, "resolved")
    BY <1>2, <1>5 DEF Session
  <2> HIDE DEF d
  <2>2. DOMAIN d.tbl = DOMAIN c.tbl \cup {x}
    BY <2>1 DEF WithAlerts
  <2> QED  BY <1>2, <1>3, <2>1, <2>2 DEF SameMemory, NothingNew, Elevated, Novel
<1> HIDE DEF d
<1>6. d = c \/ d = [c1 EXCEPT !.tbl = WithAlerts(c1.tbl, {x}, "resolved")]
  BY SilenceWrites DEF d, c1, x
<1> QED  BY <1>4, <1>5, <1>6 DEF d

LEMMA UpdateBaselinesSame ==
    ASSUME IInv, NEW b \in Batches, NEW w, NEW c, Good(c, b, w)
    PROVE  SameMemory(c, UpdateBaselines(c, b))
<1> DEFINE st == [c.st EXCEPT !.warm = Bump(@, WarmupRequired),
                              !.latWarm = IF b.lat = "none" THEN @ ELSE Bump(@, WarmupRequired),
                              !.last = now - b.newest,
                              !.silenceAlerted = FALSE]
<1>1. c \in Session /\ c.st \in SourceState
  BY SessionType
<1>2. SameElevation(c.st, st) /\ st.fps = c.st.fps
  BY <1>1 DEF SourceState, SameElevation
<1>3. UpdateBaselines(c, b) = [c EXCEPT !.st = st]
  BY <1>1 DEF UpdateBaselines, Session
<1> HIDE DEF st
<1> QED  BY <1>2, <1>3, SameState

LEMMA SpikeSame ==
    ASSUME IInv, NEW b \in Batches, NEW w, NEW c, Good(c, b, w), b.src \in Registered
    PROVE  SameHistory(c, CheckErrorRateSpike(c, b))
<1> DEFINE With(n) == [c EXCEPT !.st = [c.st EXCEPT !.clean = n]]
<1>1. c \in Session /\ c.st \in SourceState /\ c.st.warm = w
  BY SessionType DEF Good
<1>2. ASSUME NEW n \in Nat
      PROVE  /\ Good(With(n), b, w) /\ SameHistory(c, With(n))
             /\ [c EXCEPT !.st.clean = n] = With(n)
  <2> DEFINE st == [c.st EXCEPT !.clean = n]
  <2>1. /\ st \in SourceState /\ st.warm = w /\ st.since = c.st.since
        /\ SameElevation(c.st, st) /\ st.fps = c.st.fps /\ st.last = c.st.last
    BY <1>1 DEF SourceState, SameElevation
  <2> HIDE DEF st
  <2>2. Good([c EXCEPT !.st = st], b, w) /\ SameHistory(c, [c EXCEPT !.st = st])
    BY <2>1, NewState, SameState
  <2>3. [c EXCEPT !.st.clean = n] = With(n)
    BY <1>1 DEF Session
  <2> QED  BY <2>2, <2>3 DEF st
<1> DEFINE m == Bump(c.st.clean, 2)
<1>3. m \in Nat /\ [c EXCEPT !.st.clean = Bump(@, 2)] = [c EXCEPT !.st.clean = m]
  BY <1>1, BumpType DEF SourceState, Session
<1> HIDE DEF With, m
<1>4. SameHistory(c, With(m)) /\ SameHistory(c, TryAutoResolve(With(m), b, "ERROR_RATE_SPIKE"))
  BY <1>2, <1>3, ResolveSameHistory, HistoryTrans
<1>5. ASSUME NEW sev
      PROVE  SameHistory(c, BuildAlert(With(0), b, "ERROR_RATE_SPIKE", sev, b.svc, None))
  <2>1. SameHistory(With(0), BuildAlert(With(0), b, "ERROR_RATE_SPIKE", sev, b.svc, None))
    BY <1>2, BuildSameHistory
  <2> QED  BY <1>2, <2>1, HistoryTrans
<1> QED  BY <1>2, <1>3, <1>4, <1>5 DEF CheckErrorRateSpike

LEMMA CascadeSame ==
    ASSUME IInv, NEW b \in Batches, NEW w, NEW c, Good(c, b, w), b.src \in Registered
    PROVE  SameHistory(c, CheckCascade(c, b))
<1> DEFINE t  == TenantOf[b.src]
           c1 == [c EXCEPT !.fired[t] = now]
           x  == NewAlert(b, "CASCADE", "CRITICAL", UnknownService, None)
           d  == BuildAlert(c1, b, "CASCADE", "CRITICAL", UnknownService, None)
<1>1. c1.st = c.st /\ c1.tbl = c.tbl
  BY DEF Good, Session
<1>2. d = [c1 EXCEPT !.tbl = Put(c1.tbl, x, "open")]
  BY DEF BuildAlert, Good, Session
<1>3. x.type = "CASCADE"
  BY DEF NewAlert
<1>4. d.st = c.st /\ d.tbl = Put(c.tbl, x, "open")
  BY <1>1, <1>2 DEF Good, Session
<1> HIDE DEF x, d
<1>5. DOMAIN d.tbl = DOMAIN c.tbl \cup {x}
  BY <1>4 DEF Put
<1>6. SameHistory(c, d)
  BY <1>3, <1>4, <1>5 DEF SameHistory, SameClock, SameMemory, NothingNew, SameElevation, Elevated, Novel
<1>7. SameHistory(c, c)
  BY HistoryRefl DEF SameElevation
<1>8. CheckCascade(c, b) = c \/ CheckCascade(c, b) = d
  BY DEF CheckCascade, d
<1> QED  BY <1>6, <1>7, <1>8

LEMMA LatencySame ==
    ASSUME IInv, NEW b \in Batches, NEW w, NEW c, Good(c, b, w), b.src \in Registered
    PROVE  SameHistory(c, CheckLatencySpike(c, b))
<1> DEFINE With(n) == [c EXCEPT !.st = [c.st EXCEPT !.latClean = n]]
<1>1. c \in Session /\ c.st \in SourceState /\ c.st.warm = w
  BY SessionType DEF Good
<1>2. ASSUME NEW n \in Nat
      PROVE  /\ Good(With(n), b, w) /\ SameHistory(c, With(n))
             /\ [c EXCEPT !.st.latClean = n] = With(n)
  <2> DEFINE st == [c.st EXCEPT !.latClean = n]
  <2>1. /\ st \in SourceState /\ st.warm = w /\ st.since = c.st.since
        /\ SameElevation(c.st, st) /\ st.fps = c.st.fps /\ st.last = c.st.last
    BY <1>1 DEF SourceState, SameElevation
  <2> HIDE DEF st
  <2>2. Good([c EXCEPT !.st = st], b, w) /\ SameHistory(c, [c EXCEPT !.st = st])
    BY <2>1, NewState, SameState
  <2>3. [c EXCEPT !.st.latClean = n] = With(n)
    BY <1>1 DEF Session
  <2> QED  BY <2>2, <2>3 DEF st
<1> DEFINE m == Bump(c.st.latClean, 2)
<1>3. m \in Nat /\ [c EXCEPT !.st.latClean = Bump(@, 2)] = [c EXCEPT !.st.latClean = m]
  BY <1>1, BumpType DEF SourceState, Session
<1> HIDE DEF With, m
<1>4. SameHistory(c, With(m)) /\ SameHistory(c, TryAutoResolve(With(m), b, "LATENCY_SPIKE"))
  BY <1>2, <1>3, ResolveSameHistory, HistoryTrans
<1>5. ASSUME NEW sev
      PROVE  SameHistory(c, BuildAlert(With(0), b, "LATENCY_SPIKE", sev, b.svc, None))
  <2>1. SameHistory(With(0), BuildAlert(With(0), b, "LATENCY_SPIKE", sev, b.svc, None))
    BY <1>2, BuildSameHistory
  <2> QED  BY <1>2, <2>1, HistoryTrans
<1>6. SameHistory(c, c)
  BY HistoryRefl DEF SameElevation
<1> QED  BY <1>2, <1>3, <1>4, <1>5, <1>6 DEF CheckLatencySpike

\* Counting the batch and writing the row, whatever the write comes to: a session
\* that is rolled back is left with fewer alerts, never with other ones.
LEMMA PersistSame ==
    ASSUME IInv, NEW b \in Batches, NEW w, NEW c, Good(c, b, w), b.src \in Registered,
           NEW outcome
    PROVE  SameHistory(c, PersistEveryN(c, b, outcome))
<1> DEFINE With(n) == [c EXCEPT !.st = [c.st EXCEPT !.since = n]]
           d == PersistEveryN(c, b, outcome)
<1>1. c \in Session /\ c.st \in SourceState /\ DOMAIN alerts \subseteq DOMAIN c.tbl
  BY SessionType DEF Good, Grown
<1>2. ASSUME NEW n
      PROVE  /\ SameHistory(c, With(n)) /\ With(n).tbl = c.tbl
             /\ [c EXCEPT !.st.since = n] = With(n)
  <2> DEFINE st == [c.st EXCEPT !.since = n]
  <2>1. SameElevation(c.st, st) /\ st.fps = c.st.fps /\ st.last = c.st.last
    BY <1>1 DEF SourceState, SameElevation
  <2> HIDE DEF st
  <2>2. SameHistory(c, [c EXCEPT !.st = st]) /\ [c EXCEPT !.st = st].tbl = c.tbl
    BY <1>1, <2>1, SameState DEF Session
  <2>3. [c EXCEPT !.st.since = n] = With(n)
    BY <1>1 DEF Session
  <2> QED  BY <2>2, <2>3 DEF st
<1>3. [c EXCEPT !.st.since = @ + 1] = [c EXCEPT !.st.since = c.st.since + 1]
  BY <1>1 DEF Session
<1> DEFINE c1 == With(c.st.since + 1)
           c2 == With(0)
           r  == Persisted(c2.st)
<1>4. \/ d = c1
      \/ d = [c2 EXCEPT !.rows[b.src] = r]
      \/ d = [c2 EXCEPT !.failed = TRUE]
      \/ d = [c2 EXCEPT !.tbl = alerts, !.rows = rows, !.failed = TRUE]
  <2>1. [c EXCEPT !.st.since = @ + 1] = c1 /\ [c EXCEPT !.st.since = 0] = c2
    BY <1>2, <1>3
  <2> HIDE DEF c1, c2
  <2>2. d = c1 \/ d = PersistState(c2, b, outcome)
    BY <2>1, Zenon DEF PersistEveryN
  <2>3. \/ PersistState(c2, b, outcome) = [c2 EXCEPT !.rows[b.src] = r]
        \/ PersistState(c2, b, outcome) = [c2 EXCEPT !.failed = TRUE]
        \/ PersistState(c2, b, outcome)
              = [c2 EXCEPT !.tbl = alerts, !.rows = rows, !.failed = TRUE]
    BY Zenon DEF PersistState
  <2> QED  BY <2>2, <2>3, Zenon
<1>5. SameHistory(c, c1) /\ SameHistory(c, c2) /\ c2.tbl = c.tbl
  BY <1>2
<1>6. DOMAIN c2 = {"st", "tbl", "rows", "fired", "ok", "failed"}
  BY <1>1 DEF Session
<1> SUFFICES SameHistory(c, d)
  OBVIOUS
<1> HIDE DEF c1, c2, d, r
<1>7. CASE d = c1
  BY <1>5, <1>7
<1>8. CASE d = [c2 EXCEPT !.rows[b.src] = r] \/ d = [c2 EXCEPT !.failed = TRUE]
  <2>1. d.st = c2.st /\ d.tbl = c2.tbl
    BY <1>6, <1>8
  <2> QED  BY <1>5, <2>1 DEF SameHistory, SameClock, SameMemory
<1>9. CASE d = [c2 EXCEPT !.tbl = alerts, !.rows = rows, !.failed = TRUE]
  <2>1. d.st = c2.st /\ d.tbl = alerts
    BY <1>6, <1>9
  <2>2. DOMAIN d.tbl \subseteq DOMAIN c.tbl
    BY <1>1, <2>1
  <2> QED  BY <1>5, <2>1, <2>2 DEF SameHistory, SameClock, SameMemory, NothingNew
<1> QED  BY <1>4, <1>7, <1>8, <1>9

-----------------------------------------------------------------------------
(* The two detectors that own a memory. *)

Duration(sev) == IF sev = "CRITICAL" THEN SustainedCritical ELSE SustainedWarning

\* The elevation in state p becomes that in q: a batch at the baseline ends it, any
\* other starts it or keeps its start, and the severity kept never falls.
Elevation(p, q, b) ==
    /\ b.err = "below" => q.aboveSince = None /\ q.sustained = None
    /\ b.err # "below" =>
          /\ q.aboveSince = IF p.aboveSince = None THEN now ELSE p.aboveSince
          /\ p.sustained # None => q.sustained # None
          /\ p.sustained = "CRITICAL" => q.sustained = "CRITICAL"

\* The grounds of a new SUSTAINED_ELEVATION.
Founded(x, p, q, b) ==
    /\ b.err # "below" /\ p.aboveSince # None
    /\ x.sev \in Severity /\ x.sev = q.sustained
    /\ now - p.aboveSince >= Duration(x.sev)
    /\ x.sev = "CRITICAL" => p.sustained # "CRITICAL"
    /\ x.sev = "WARNING" => p.sustained = None

\* The list in state p becomes that in q.
Recognition(p, q) ==
    \A f \in Fingerprints : IF f \in Known(p) THEN q.fps[f] = p.fps[f]
                                              ELSE q.fps[f] \in {now, None}

SustainedDone(c, d, b) ==
    /\ Elevation(c.st, d.st, b) /\ d.st.fps = c.st.fps /\ SameClock(c, d)
    /\ \A x \in DOMAIN d.tbl \ DOMAIN c.tbl :
          ~Novel(x) /\ (Elevated(x) => Founded(x, c.st, d.st, b))

NovelDone(c, d, b) ==
    /\ SameElevation(c.st, d.st) /\ Recognition(c.st, d.st) /\ SameClock(c, d)
    /\ \A x \in DOMAIN d.tbl \ DOMAIN c.tbl :
          ~Elevated(x) /\ (Novel(x) => x.fp \in b.fps \ Known(c.st))

LEMMA SustainedEffect ==
    ASSUME IInv, NEW b \in Batches, NEW w, NEW c, Good(c, b, w), b.src \in Registered
    PROVE  SustainedDone(c, CheckSustainedElevation(c, b), b)
<1> DEFINE With(since, sev) ==
              [c EXCEPT !.st = [c.st EXCEPT !.aboveSince = since, !.sustained = sev]]
           d == CheckSustainedElevation(c, b)
           p == c.st
<1>1. c \in Session /\ p \in SourceState /\ p.warm = w /\ now \in Int
  BY SessionType DEF Good, IInv, TypeOK
<1>2. ASSUME NEW since \in MaybeTime, NEW sev \in Severity \cup {None}
      PROVE  /\ Good(With(since, sev), b, w)
             /\ With(since, sev).tbl = c.tbl
             /\ With(since, sev).st.fps = p.fps /\ With(since, sev).st.last = p.last
             /\ With(since, sev).st.aboveSince = since /\ With(since, sev).st.sustained = sev
  <2> DEFINE st == [p EXCEPT !.aboveSince = since, !.sustained = sev]
  <2>1. /\ st \in SourceState /\ st.warm = w /\ st.since = p.since
        /\ st.fps = p.fps /\ st.last = p.last
        /\ st.aboveSince = since /\ st.sustained = sev
    BY <1>1 DEF SourceState
  <2> HIDE DEF st
  <2>2. Good([c EXCEPT !.st = st], b, w)
    BY <2>1, NewState
  <2>3. [c EXCEPT !.st = st].st = st /\ [c EXCEPT !.st = st].tbl = c.tbl
    BY <1>1 DEF Session
  <2> QED  BY <2>1, <2>2, <2>3 DEF st
<1>3. p.aboveSince \in MaybeTime /\ p.sustained \in Severity \cup {None}
  BY <1>1 DEF SourceState
<1>4. [c EXCEPT !.st.aboveSince = None, !.st.sustained = None] = With(None, None)
  BY <1>1 DEF Session, SourceState
<1>5. [c EXCEPT !.st.aboveSince = now] = With(now, p.sustained)
  BY <1>1 DEF Session, SourceState
<1>6. ASSUME NEW sev \in Severity
      PROVE  [c EXCEPT !.st.sustained = sev] = With(p.aboveSince, sev)
  BY <1>1 DEF Session, SourceState
<1> HIDE DEF With
<1>7. CASE b.err = "below"
  <2> DEFINE c1 == With(None, None)
  <2>1. d = TryAutoResolve(c1, b, "SUSTAINED_ELEVATION")
    BY <1>4, <1>7 DEF CheckSustainedElevation
  <2>2. /\ Good(c1, b, w) /\ c1.tbl = c.tbl /\ c1.st.fps = p.fps /\ c1.st.last = p.last
        /\ c1.st.aboveSince = None /\ c1.st.sustained = None
    <3>1. None \in MaybeTime /\ None \in Severity \cup {None}
      BY DEF MaybeTime
    <3> QED  BY <1>2, <3>1
  <2> HIDE DEF c1, d
  <2>3. d.st = c1.st /\ DOMAIN d.tbl = DOMAIN c1.tbl
    BY <2>1, <2>2, ResolveSame
  <2>4. SustainedDone(c, d, b)
    BY <1>7, <2>2, <2>3 DEF SustainedDone, SameClock, Elevation
  <2> QED  BY <2>4 DEF d
<1>8. CASE b.err # "below" /\ p.aboveSince = None
  <2> DEFINE c1 == With(now, p.sustained)
  <2>1. d = c1
    BY <1>5, <1>8 DEF CheckSustainedElevation
  <2>2. /\ c1.tbl = c.tbl /\ c1.st.fps = p.fps /\ c1.st.last = p.last
        /\ c1.st.aboveSince = now /\ c1.st.sustained = p.sustained
    BY <1>1, <1>2, <1>3 DEF MaybeTime
  <2> HIDE DEF c1, d
  <2>3. SustainedDone(c, d, b)
    BY <1>8, <2>1, <2>2 DEF SustainedDone, SameClock, Elevation
  <2> QED  BY <2>3 DEF d
<1>9. ASSUME b.err # "below", p.aboveSince # None,
             NEW sev \in Severity, now - p.aboveSince >= Duration(sev),
             sev = "CRITICAL" => p.sustained # "CRITICAL",
             sev = "WARNING" => p.sustained = None,
             d = BuildAlert(With(p.aboveSince, sev), b, "SUSTAINED_ELEVATION",
                            sev, UnknownService, None)
      PROVE  SustainedDone(c, d, b)
  <2> DEFINE c1 == With(p.aboveSince, sev)
  <2>1. /\ Good(c1, b, w) /\ c1.tbl = c.tbl /\ c1.st.fps = p.fps /\ c1.st.last = p.last
        /\ c1.st.aboveSince = p.aboveSince /\ c1.st.sustained = sev
    BY <1>2, <1>3
  <2> HIDE DEF c1
  <2>2. /\ d.st = c1.st
        /\ \A x \in DOMAIN d.tbl \ DOMAIN c.tbl : x.type = "SUSTAINED_ELEVATION" /\ x.sev = sev
    BY <1>9, <2>1, BuildWrites DEF c1
  <2> HIDE DEF d
  <2>3. sev # None /\ (p.sustained = "CRITICAL" => sev = "CRITICAL")
    BY <1>9, EngineAssumption DEF Severity
  <2>4. Elevation(p, d.st, b)
    BY <1>9, <2>1, <2>2, <2>3 DEF Elevation
  <2>5. \A x \in DOMAIN d.tbl \ DOMAIN c.tbl : ~Novel(x) /\ Founded(x, p, d.st, b)
    BY <1>9, <2>1, <2>2 DEF Founded, Novel
  <2>6. SameClock(c, d)
    BY <2>1, <2>2 DEF SameClock
  <2> QED  BY <2>1, <2>2, <2>4, <2>5, <2>6 DEF SustainedDone
<1>10. CASE b.err # "below" /\ p.aboveSince # None /\ d = c
  BY <1>10 DEF SustainedDone, SameClock, Elevation
<1>11. ASSUME b.err # "below", p.aboveSince # None, d # c
       PROVE  \E sev \in Severity :
                /\ now - p.aboveSince >= Duration(sev)
                /\ sev = "CRITICAL" => p.sustained # "CRITICAL"
                /\ sev = "WARNING" => p.sustained = None
                /\ d = BuildAlert(With(p.aboveSince, sev), b, "SUSTAINED_ELEVATION",
                                  sev, UnknownService, None)
  <2> DEFINE Fire(sev) == BuildAlert(With(p.aboveSince, sev), b, "SUSTAINED_ELEVATION",
                                     sev, UnknownService, None)
  <2>1. \/ /\ now - p.aboveSince >= SustainedCritical /\ p.sustained # "CRITICAL"
           /\ d = Fire("CRITICAL")
        \/ /\ now - p.aboveSince >= SustainedWarning /\ p.sustained = None
           /\ d = Fire("WARNING")
    BY <1>6, <1>11 DEF CheckSustainedElevation, Severity
  <2> HIDE DEF d, Fire
  <2>2. \E sev \in Severity :
                /\ now - p.aboveSince >= Duration(sev)
                /\ sev = "CRITICAL" => p.sustained # "CRITICAL"
                /\ sev = "WARNING" => p.sustained = None
                /\ d = Fire(sev)
    BY <2>1 DEF Duration, Severity
  <2> QED  BY <2>2 DEF Fire, d
<1> QED  BY <1>7, <1>8, <1>9, <1>10, <1>11

LEMMA NovelEffect ==
    ASSUME IInv, NEW b \in Batches, NEW w, NEW c, Good(c, b, w), b.src \in Registered, NEW keep
    PROVE  NovelDone(c, CheckNovelError(c, b, keep), b)
<1> DEFINE known == Known(c.st)
           new   == b.fps \ known
           fps   == [f \in Fingerprints |->
                        IF f \in known THEN c.st.fps[f] ELSE IF f \in keep THEN now ELSE None]
           st    == [c.st EXCEPT !.fps = fps]
           ids   == {NewAlert(b, "NOVEL_ERROR", "WARNING", b.svc, f) : f \in new}
           T     == WithAlerts(c.tbl, ids, "open")
           d     == CheckNovelError(c, b, keep)
<1>1. c \in Session /\ c.st \in SourceState
  BY SessionType
<1>2. SameElevation(c.st, st) /\ st.fps = fps /\ st.last = c.st.last
  BY <1>1 DEF SourceState, SameElevation
<1>3. \A x \in ids : x.type = "NOVEL_ERROR" /\ x.fp \in new
  BY DEF NewAlert
<1>4. \A f \in Fingerprints : fps[f] = IF f \in known THEN c.st.fps[f]
                                       ELSE IF f \in keep THEN now ELSE None
  OBVIOUS
<1> HIDE DEF known, new, fps, ids, st
<1>5. d = IF new = {} THEN [c EXCEPT !.st = st] ELSE [c EXCEPT !.st = st, !.tbl = T]
  BY DEF CheckNovelError, WithAlerts, known, new, ids, st, fps
<1> HIDE DEF d
<1>6. d.st = st /\ (d.tbl = c.tbl \/ d.tbl = T)
  BY <1>1, <1>5 DEF Session
<1>7. DOMAIN T = DOMAIN c.tbl \cup ids
  BY DEF WithAlerts
<1> HIDE DEF T
<1>8. Recognition(c.st, d.st)
  BY <1>2, <1>4, <1>6 DEF Recognition, known
<1>9. \A x \in DOMAIN d.tbl \ DOMAIN c.tbl : x.type = "NOVEL_ERROR" /\ x.fp \in new
  BY <1>3, <1>6, <1>7
<1>10. NovelDone(c, d, b)
  BY <1>2, <1>6, <1>8, <1>9 DEF NovelDone, SameClock, Elevated, new, known
<1> QED  BY <1>10 DEF d

-----------------------------------------------------------------------------
(* The whole session. *)

\* What a batch of detection does to the two memories, and the alerts it raises.
Noticed(c, d, b) ==
    /\ Elevation(c.st, d.st, b) /\ Recognition(c.st, d.st)
    /\ \A x \in DOMAIN d.tbl \ DOMAIN c.tbl :
          /\ Elevated(x) => Founded(x, c.st, d.st, b)
          /\ Novel(x) => x.fp \in b.fps \ Known(c.st)

LEMMA ThenGoesOn ==
    ASSUME NEW b, NEW w, NEW c, Good(c, b, w), b.src \in Registered, NEW d
    PROVE  Then(c, d) = d
BY DEF Then, Good

LEMMA DetectorsNotice ==
    ASSUME IInv, NEW b \in Batches, NEW w, NEW c, Good(c, b, w), b.src \in Registered, NEW keep
    PROVE  Noticed(c, RunDetectors(c, b, keep), b) /\ SameClock(c, RunDetectors(c, b, keep))
<1> DEFINE c1 == CheckErrorRateSpike(c, b)
           c2 == CheckCascade(c1, b)
           c3 == CheckSustainedElevation(c2, b)
           c4 == CheckLatencySpike(c3, b)
           c5 == CheckNovelError(c4, b, keep)
<1>1. Good(c1, b, w) /\ SameHistory(c, c1)
  BY SpikeGood, SpikeSame
<1> HIDE DEF c1
<1>2. Good(c2, b, w) /\ SameHistory(c1, c2)
  BY <1>1, CascadeGood, CascadeSame
<1> HIDE DEF c2
<1>3. Good(c3, b, w) /\ SustainedDone(c2, c3, b)
  BY <1>2, SustainedGood, SustainedEffect
<1> HIDE DEF c3
<1>4. Good(c4, b, w) /\ SameHistory(c3, c4)
  BY <1>3, LatencyGood, LatencySame
<1> HIDE DEF c4
<1>5. NovelDone(c4, c5, b)
  BY <1>4, NovelEffect
<1> HIDE DEF c5
<1>6. RunDetectors(c, b, keep) = c5
  BY <1>1, <1>2, <1>3, <1>4, ThenGoesOn DEF RunDetectors, c1, c2, c3, c4, c5
<1>7. SameHistory(c, c2)
  BY <1>1, <1>2, HistoryTrans
<1>8. Known(c4.st) = Known(c.st) /\ c4.st.fps = c.st.fps
  BY <1>3, <1>4, <1>7 DEF SameHistory, SameMemory, SustainedDone, Known
<1>9. Elevation(c.st, c5.st, b)
  BY <1>3, <1>4, <1>5, <1>7 DEF SameHistory, SameMemory, SameElevation, SustainedDone, NovelDone, Elevation
<1>10. Recognition(c.st, c5.st)
  BY <1>5, <1>8 DEF NovelDone, Recognition
<1>11. ASSUME NEW x \in DOMAIN c5.tbl \ DOMAIN c.tbl
       PROVE  /\ Elevated(x) => Founded(x, c.st, c5.st, b)
              /\ Novel(x) => x.fp \in b.fps \ Known(c.st)
  <2>1. Novel(x) => x.fp \in b.fps \ Known(c.st)
    BY <1>3, <1>4, <1>5, <1>7, <1>8 DEF SameHistory, SameMemory, NothingNew, SustainedDone, NovelDone
  <2>2. Elevated(x) => Founded(x, c2.st, c3.st, b)
    BY <1>3, <1>4, <1>5, <1>7 DEF SameHistory, SameMemory, NothingNew, SustainedDone, NovelDone
  <2>3. SameElevation(c.st, c2.st) /\ SameElevation(c3.st, c5.st)
    BY <1>4, <1>5, <1>7 DEF SameHistory, SameMemory, SameElevation, NovelDone
  <2> QED  BY <2>1, <2>2, <2>3 DEF Founded, SameElevation
<1>12. SameClock(c, c5)
  BY <1>3, <1>4, <1>5, <1>7 DEF SameHistory, SameClock, SustainedDone, NovelDone
<1> QED  BY <1>6, <1>9, <1>10, <1>11, <1>12 DEF Noticed

\* A silence that is reported was as long as the window, from the last log the
\* state remembers to the oldest entry of the batch.
SilenceGrounds(c, d, b) ==
    \A x \in DOMAIN d.tbl \ DOMAIN c.tbl : x.type = "SERVICE_SILENCE" =>
        c.st.last # None /\ ~((now - b.oldest) - c.st.last < SilenceWindow)

ClockSet(c, d, b) == d.st.last = now - b.newest /\ SilenceGrounds(c, d, b)

LEMMA SilenceEffect ==
    ASSUME NEW b, NEW c
    PROVE  SilenceGrounds(c, CheckServiceSilence(c, b), b)
<1>1. CASE c.st.last = None \/ (now - b.oldest) - c.st.last < SilenceWindow
  <2>1. CheckServiceSilence(c, b) = c
    BY <1>1 DEF CheckServiceSilence
  <2> QED  BY <2>1 DEF SilenceGrounds
<1> QED  BY <1>1 DEF SilenceGrounds

LEMMA UpdateBaselinesClock ==
    ASSUME IInv, NEW b \in Batches, NEW w, NEW c, Good(c, b, w)
    PROVE  /\ UpdateBaselines(c, b).tbl = c.tbl
           /\ UpdateBaselines(c, b).st.last = now - b.newest
<1> DEFINE st == [c.st EXCEPT !.warm = Bump(@, WarmupRequired),
                              !.latWarm = IF b.lat = "none" THEN @ ELSE Bump(@, WarmupRequired),
                              !.last = now - b.newest,
                              !.silenceAlerted = FALSE]
<1>1. c \in Session /\ c.st \in SourceState
  BY SessionType
<1>2. st.last = now - b.newest
  BY <1>1 DEF SourceState
<1>3. UpdateBaselines(c, b) = [c EXCEPT !.st = st]
  BY <1>1 DEF UpdateBaselines, Session
<1> HIDE DEF st
<1>4. UpdateBaselines(c, b).tbl = c.tbl /\ UpdateBaselines(c, b).st = st
  BY <1>1, <1>3 DEF Session
<1> QED  BY <1>2, <1>4

LEMMA ProcessNotices ==
    ASSUME IInv, NEW b \in Batches, b.src \in Registered, NEW keep,
           NEW outcome \in Outcomes(b.src)
    PROVE  LET c == Begin(b.src)
               d == Process(b, keep, outcome)
           IN  /\ IF Warm(d.st) THEN Noticed(c, d, b) ELSE SameMemory(c, d)
               /\ ClockSet(c, d, b)
<1> DEFINE L  == LoadState(b.src)
           W  == Bump(L.warm, WarmupRequired)
           c0 == Begin(b.src)
           c1 == CheckServiceSilence(c0, b)
           c2 == UpdateBaselines(c1, b)
           c3 == IF c2.ok /\ Warm(c2.st) THEN RunDetectors(c2, b, keep) ELSE c2
           c4 == PersistEveryN(c3, b, outcome)
<1>0. L.warm \in Nat /\ W \in Nat
  BY LoadStateType, BatchType, BumpType, EngineAssumption DEF IInv, Batch, SourceState
<1>1. Good(c0, b, L.warm)
  BY BeginGood
<1> HIDE DEF c0, L
<1>2. Good(c1, b, L.warm) /\ SameMemory(c0, c1) /\ SilenceGrounds(c0, c1, b)
  BY <1>1, SilenceGood, SilenceSame, SilenceEffect
<1> HIDE DEF c1
<1>3. Good(c2, b, W) /\ SameMemory(c1, c2) /\ c2 = Then(c1, UpdateBaselines(c1, b))
      /\ c2.tbl = c1.tbl /\ c2.st.last = now - b.newest
  BY <1>0, <1>2, UpdateBaselinesGood, UpdateBaselinesSame, UpdateBaselinesClock, ThenGoesOn
<1> HIDE DEF c2, W
<1>4. Good(c3, b, W) /\ c2.ok
  BY <1>3, RunDetectorsGood DEF Good
<1>5. c3.st.warm = W /\ c2.st.warm = W
  BY <1>3, <1>4 DEF Good
<1>6. /\ IF Warm(c3.st) THEN Noticed(c2, c3, b) ELSE SameMemory(c2, c3)
      /\ SameClock(c2, c3)
  <2>1. CASE Warm(c2.st)
    <3>1. c3 = RunDetectors(c2, b, keep)
      BY <1>4, <2>1
    <3>2. Noticed(c2, c3, b) /\ SameClock(c2, c3)
      BY <1>3, <3>1, DetectorsNotice
    <3> HIDE DEF c3
    <3> QED  BY <1>5, <2>1, <3>2 DEF Warm
  <2>2. CASE ~Warm(c2.st)
    <3>1. c3 = c2
      BY <2>2
    <3> HIDE DEF c3
    <3> QED  BY <2>2, <3>1, HistoryRefl DEF SameElevation, SameHistory
  <2> QED  BY <2>1, <2>2
<1> HIDE DEF c3
<1>7. SameMemory(c3, c4) /\ SameClock(c3, c4) /\ c4.st.warm = W
      /\ c4 = Then(c3, PersistEveryN(c3, b, outcome))
  <2>1. Working(c3, b, W)
    BY <1>4 DEF Working
  <2>2. c4.st.warm = c3.st.warm
    BY <2>1, PersistEffect
  <2> QED  BY <1>4, <1>5, <2>2, PersistSame, ThenGoesOn DEF SameHistory
<1> HIDE DEF c4
<1>8. c4 = Process(b, keep, outcome)
  BY <1>3, <1>7 DEF Process, c0, c1, c2, c3
<1>9. SameMemory(c0, c2)
  BY <1>2, <1>3, SameTrans
<1>10. Warm(c4.st) <=> Warm(c3.st)
  BY <1>5, <1>7 DEF Warm
<1>13. ClockSet(c0, c4, b)
  BY <1>2, <1>3, <1>6, <1>7 DEF ClockSet, SilenceGrounds, SameClock
<1>11. CASE ~Warm(c4.st)
  BY <1>13, <1>6, <1>7, <1>8, <1>9, <1>10, <1>11, SameTrans DEF c0
<1>12. CASE Warm(c4.st)
  <2>1. Noticed(c2, c3, b)
    BY <1>6, <1>10, <1>12
  <2>2. Elevation(c0.st, c4.st, b)
    BY <1>7, <1>9, <2>1 DEF Noticed, SameMemory, SameElevation, Elevation
  <2>3. Known(c2.st) = Known(c0.st) /\ Recognition(c0.st, c4.st)
    BY <1>7, <1>9, <2>1 DEF Noticed, SameMemory, Recognition, Known
  <2>4. \A x \in DOMAIN c4.tbl \ DOMAIN c0.tbl :
           /\ Elevated(x) => Founded(x, c0.st, c4.st, b)
           /\ Novel(x) => x.fp \in b.fps \ Known(c0.st)
    BY <1>7, <1>9, <2>1, <2>3 DEF Noticed, SameMemory, SameElevation, NothingNew, Founded
  <2>5. Noticed(c0, c4, b)
    BY <2>2, <2>3, <2>4 DEF Noticed
  <2> QED  BY <1>8, <1>12, <1>13, <2>5 DEF c0
<1> QED  BY <1>11, <1>12

-----------------------------------------------------------------------------
(* What the source state remembers of the alerts already raised. *)

\* The start of an elevation is not before the last batch at the baseline, and
\* the severity kept is no lower than that of any alert raised since.
ElevationKnown ==
    \A s \in Registered :
        /\ sent[s].lastBelow \in Nat /\ sent[s].lastBelow <= now
        /\ sent[s].belowMark \in Nat /\ sent[s].belowMark <= nextSeq
        /\ cache[s] # None /\ cache[s].aboveSince # None =>
              Warm(cache[s]) /\ sent[s].lastBelow <= cache[s].aboveSince
        /\ \A x \in DOMAIN alerts :
              Elevated(x) /\ x.src = s /\ x.boot = boot /\ x.seq >= sent[s].belowMark =>
                  /\ cache[s] # None /\ cache[s].sustained # None
                  /\ x.sev = "CRITICAL" => cache[s].sustained = "CRITICAL"

\* A pattern alerted on in this process is still in the list, with a first time
\* no earlier than the alert, unless the TTL is over or the list was full.
PatternsKnown ==
    \A x \in DOMAIN alerts : Novel(x) =>
        /\ x.fp \in Fingerprints
        /\ x.boot = boot /\ x.fp \notin sent[x.src].dropped =>
              /\ cache[x.src] # None
              /\ \/ cache[x.src].fps[x.fp] # None /\ x.at <= cache[x.src].fps[x.fp]
                 \/ now - x.at >= FingerprintTTL

HistoryInv ==
    /\ MonitorInv
    /\ ElevationKnown /\ SustainedIsSustained
    /\ PatternsKnown /\ NovelOnce

\* What a step that handles a batch of source s shows: its state was L, and is q.
Ran(b, s, L, q) ==
    /\ s \in Sources /\ L \in SourceState /\ q \in SourceState /\ q # None
    /\ cache[s] # None => L = cache[s]
    /\ cache[s] = None => L.aboveSince = None
    /\ cache'[s] = q /\ sent'[s] = Observe(sent[s], b)
    /\ \A r \in Sources \ {s} : cache'[r] = cache[r] /\ sent'[r] = sent[r]
    /\ boot' = boot /\ now' = now /\ now \in Nat
    /\ nextSeq \in Nat /\ nextSeq' \in Nat /\ nextSeq <= nextSeq'
    /\ Warm(L) => Warm(q)
    /\ \A x \in reported' : x.src = s /\ x.seq = nextSeq /\ x.at = now /\ x.boot = boot
    /\ \A x \in DOMAIN alerts' : x \in reported' \/ x \in DOMAIN alerts
    /\ \A x \in DOMAIN alerts : x.seq \in Nat /\ x.seq < nextSeq /\ x.at \in Int
    /\ \A x \in DOMAIN alerts' : x.seq < nextSeq'
    /\ IF Warm(q)
       THEN /\ Elevation(L, q, b) /\ Recognition(L, q)
            /\ \A x \in reported' : /\ Elevated(x) => Founded(x, L, q, b)
                                    /\ Novel(x) => x.fp \in b.fps \ Known(L)
       ELSE /\ SameElevation(L, q) /\ q.fps = L.fps
            /\ \A x \in reported' : ~Elevated(x) /\ ~Novel(x)

LEMMA IngestRan ==
    ASSUME MonitorInv, IInv', NEW b \in Batches, b.src \in Registered, MIngest(b)
    PROVE  Ran(b, b.src, LoadState(b.src), cache'[b.src])
<1> DEFINE s == b.src
           L == LoadState(s)
<1>1. PICK keep \in Remembered(b), outcome \in Outcomes(b.src) :
         Finish(b, Process(b, keep, outcome))
  BY DEF MIngest, Ingest
<1> DEFINE c == Process(b, keep, outcome)
<1>2. /\ Done(c, b) /\ Told(c, b)
      /\ IF Warm(c.st) THEN Noticed(Begin(s), c, b) ELSE SameMemory(Begin(s), c)
  BY ProcessDone, ProcessTold, ProcessNotices DEF MonitorInv, EngineInv
<1>3. Begin(s).st = L /\ Begin(s).tbl = alerts
  BY DEF Begin
<1>4. Finish(b, c)
  BY <1>1
<1> HIDE DEF c
<1>5. /\ s \in Sources /\ L \in SourceState /\ c.st \in SourceState
      /\ cache \in [Sources -> SourceState \cup {None}] /\ DOMAIN sent = Sources
      /\ now \in Nat /\ nextSeq \in Nat /\ nextSeq' \in Nat
  BY <1>2, EngineAssumption, LoadStateType
  DEF MonitorInv, EngineInv, IInv, TypeOK, CountsAreReal, Done, Session
<1>6. /\ cache' = [cache EXCEPT ![s] = c.st]
      /\ reported' = DOMAIN c.tbl \ DOMAIN alerts
      /\ alerts' = c.tbl \/ alerts' = alerts
      /\ boot' = boot /\ now' = now
      /\ nextSeq' = nextSeq \/ nextSeq' = nextSeq + 1
      /\ sent' = [sent EXCEPT ![s] = Observe(sent[s], b)]
  BY <1>4 DEF Finish, MIngest
<1>7. /\ cache'[s] = c.st /\ sent'[s] = Observe(sent[s], b) /\ c.st # None
      /\ \A r \in Sources \ {s} : cache'[r] = cache[r] /\ sent'[r] = sent[r]
  BY <1>5, <1>6, NoStateAssumption
<1>8. /\ cache[s] # None => L = cache[s]
      /\ cache[s] = None => L.aboveSince = None
  BY DEF LoadState, FromRow
<1>9. Warm(L) => Warm(c.st)
  <2>1. c.st.warm \in {L.warm, Bump(L.warm, WarmupRequired)}
    BY <1>2 DEF Told
  <2> DEFINE m == L.warm
             W == WarmupRequired
  <2>2. m \in Nat /\ W \in Nat
    BY <1>5, EngineAssumption DEF SourceState
  <2>3. c.st.warm \in {m, Bump(m, W)}
    BY <2>1
  <2>4. SUFFICES m >= W => c.st.warm >= W
    BY DEF Warm
  <2> HIDE DEF m, W
  <2>5. m >= W => Bump(m, W) = m
    BY <2>2 DEF Bump
  <2> QED  BY <2>2, <2>3, <2>5
<1>10. \A x \in reported' : x.src = s /\ x.seq = nextSeq /\ x.at = now /\ x.boot = boot
  BY <1>2, <1>6 DEF Done, Grown
<1>11. \A x \in DOMAIN alerts' : x \in reported' \/ x \in DOMAIN alerts
  BY <1>6
<1>12. /\ \A x \in DOMAIN alerts : x.seq \in Nat /\ x.seq < nextSeq /\ x.at \in Int
       /\ \A x \in DOMAIN alerts' : x.seq < nextSeq'
  BY DEF MonitorInv, EngineInv, IInv, TypeOK, AlertId
<1>13. IF Warm(c.st)
       THEN /\ Elevation(L, c.st, b) /\ Recognition(L, c.st)
            /\ \A x \in reported' : /\ Elevated(x) => Founded(x, L, c.st, b)
                                    /\ Novel(x) => x.fp \in b.fps \ Known(L)
       ELSE /\ SameElevation(L, c.st) /\ c.st.fps = L.fps
            /\ \A x \in reported' : ~Elevated(x) /\ ~Novel(x)
  BY <1>2, <1>3, <1>6 DEF Noticed, SameMemory, NothingNew
<1>14. nextSeq <= nextSeq'
  BY <1>5, <1>6
<1> HIDE DEF L, s
<1>15. Ran(b, s, L, c.st)
  BY <1>5, <1>6, <1>7, <1>8, <1>9, <1>10, <1>11, <1>12, <1>13, <1>14 DEF Ran
<1> QED  BY <1>7, <1>15 DEF L, s

-----------------------------------------------------------------------------
(* The batch that keeps the history. *)

LEMMA IngestElevation ==
    ASSUME HistoryInv, IInv', NEW b \in Batches, b.src \in Registered, MIngest(b)
    PROVE  ElevationKnown' /\ SustainedIsSustained'
<1> DEFINE s == b.src
           L == LoadState(s)
           q == cache'[s]
           h == sent[s]
           g == sent'[s]
           Since(x, mark) == Elevated(x) /\ x.src = s /\ x.boot = boot /\ x.seq >= mark
           Held(x, st) == st.sustained # None /\ (x.sev = "CRITICAL" => st.sustained = "CRITICAL")
<1>1. Ran(b, s, L, q)
  BY IngestRan DEF HistoryInv
<1>2. /\ h.lastBelow \in Nat /\ h.lastBelow <= now
      /\ h.belowMark \in Nat /\ h.belowMark <= nextSeq
      /\ g.lastBelow = IF b.err = "below" THEN now ELSE h.lastBelow
      /\ g.belowMark = IF b.err = "below" THEN nextSeq' ELSE h.belowMark
  BY <1>1 DEF HistoryInv, ElevationKnown, Ran, Observe
<1>3. L.aboveSince # None => Warm(L) /\ h.lastBelow <= L.aboveSince
  BY <1>1 DEF HistoryInv, ElevationKnown, Ran
<1>4. \A x \in DOMAIN alerts : Since(x, h.belowMark) => Held(x, L)
  BY <1>1 DEF HistoryInv, ElevationKnown, Ran
<1>5. L.aboveSince \in Int \cup {None} /\ now \in Nat
  BY <1>1 DEF Ran, SourceState, MaybeTime
<1> HIDE DEF L, q, h, g, s
<1>6. q.aboveSince # None => Warm(q) /\ g.lastBelow <= q.aboveSince
  <2>1. CASE Warm(q)
    BY <1>1, <1>2, <1>3, <1>5, <2>1 DEF Ran, Elevation
  <2>2. CASE ~Warm(q)
    BY <1>1, <1>3, <2>2 DEF Ran, SameElevation
  <2> QED  BY <2>1, <2>2
<1>7. ASSUME NEW a \in reported', Elevated(a)
      PROVE  Warm(q) /\ Founded(a, L, q, b) /\ a.src = s /\ a.seq = nextSeq /\ a.at = now /\ a.boot = boot
  BY <1>1, <1>7 DEF Ran
<1>8. ASSUME NEW x \in DOMAIN alerts', Since(x, g.belowMark)
      PROVE  Held(x, q)
  <2>1. b.err # "below"
    BY <1>1, <1>2, <1>8 DEF Ran
  <2>2. CASE x \in reported'
    <3>1. x.sev = q.sustained /\ x.sev \in Severity
      BY <1>7, <1>8, <2>2 DEF Founded
    <3> QED  BY <3>1, EngineAssumption
  <2>3. CASE x \in DOMAIN alerts
    <3>1. Held(x, L)
      BY <1>2, <1>4, <1>8, <2>1, <2>3
    <3>2. CASE Warm(q)
      BY <1>1, <2>1, <3>1, <3>2 DEF Ran, Elevation
    <3>3. CASE ~Warm(q)
      BY <1>1, <3>1, <3>3 DEF Ran, SameElevation
    <3> QED  BY <3>2, <3>3
  <2> QED  BY <1>1, <2>2, <2>3 DEF Ran
<1>9. ElevationKnown'
  <2> SUFFICES ASSUME NEW r \in Registered
               PROVE  /\ sent'[r].lastBelow \in Nat /\ sent'[r].lastBelow <= now'
                      /\ sent'[r].belowMark \in Nat /\ sent'[r].belowMark <= nextSeq'
                      /\ cache'[r] # None /\ cache'[r].aboveSince # None =>
                            Warm(cache'[r]) /\ sent'[r].lastBelow <= cache'[r].aboveSince
                      /\ \A x \in DOMAIN alerts' :
                            Elevated(x) /\ x.src = r /\ x.boot = boot' /\ x.seq >= sent'[r].belowMark =>
                                /\ cache'[r] # None /\ cache'[r].sustained # None
                                /\ x.sev = "CRITICAL" => cache'[r].sustained = "CRITICAL"
    BY DEF ElevationKnown, Warm
  <2>0. r \in Sources
    BY EngineAssumption
  <2>1. CASE r = s
    <3>1. /\ g.lastBelow \in Nat /\ g.lastBelow <= now'
          /\ g.belowMark \in Nat /\ g.belowMark <= nextSeq'
      BY <1>1, <1>2 DEF Ran
    <3>2. q # None /\ boot' = boot
      BY <1>1 DEF Ran
    <3> QED  BY <2>1, <3>1, <3>2, <1>6, <1>8 DEF q, g
  <2>2. CASE r # s
    <3>1. /\ cache'[r] = cache[r] /\ sent'[r] = sent[r] /\ boot' = boot /\ now' = now
          /\ nextSeq \in Nat /\ nextSeq' \in Nat /\ nextSeq <= nextSeq'
          /\ \A x \in DOMAIN alerts' : x.src = r => x \in DOMAIN alerts
      BY <1>1, <2>0, <2>2 DEF Ran
    <3>2. /\ sent[r].lastBelow \in Nat /\ sent[r].lastBelow <= now
          /\ sent[r].belowMark \in Nat /\ sent[r].belowMark <= nextSeq
          /\ cache[r] # None /\ cache[r].aboveSince # None =>
                Warm(cache[r]) /\ sent[r].lastBelow <= cache[r].aboveSince
          /\ \A x \in DOMAIN alerts :
                Elevated(x) /\ x.src = r /\ x.boot = boot /\ x.seq >= sent[r].belowMark =>
                    /\ cache[r] # None /\ cache[r].sustained # None
                    /\ x.sev = "CRITICAL" => cache[r].sustained = "CRITICAL"
      BY DEF HistoryInv, ElevationKnown
    <3> QED  BY <3>1, <3>2
  <2> QED  BY <2>1, <2>2
<1>10. SustainedIsSustained'
  <2> SUFFICES ASSUME NEW a \in reported', Elevated(a)
               PROVE  /\ a.at - sent'[a.src].lastBelow >= Duration(a.sev)
                      /\ \A x \in DOMAIN alerts' :
                            /\ x.type = a.type /\ x.src = a.src /\ x.sev = a.sev
                            /\ x.boot = a.boot /\ x.seq < a.seq
                            => x.seq < sent'[a.src].belowMark
    BY DEF SustainedIsSustained, Elevated, Duration
  <2>1. Warm(q) /\ Founded(a, L, q, b) /\ a.src = s /\ a.seq = nextSeq /\ a.at = now /\ a.boot = boot
    BY <1>7
  <2>2. Duration(a.sev) \in Nat
    BY EngineAssumption DEF Duration
  <2>3. a.at - g.lastBelow >= Duration(a.sev)
    BY <1>2, <1>3, <1>5, <2>1, <2>2 DEF Founded
  <2>4. ASSUME NEW x \in DOMAIN alerts', x.type = a.type, x.src = a.src, x.sev = a.sev,
               x.boot = a.boot, x.seq < a.seq, ~(x.seq < g.belowMark)
        PROVE  FALSE
    <3>1. x \in DOMAIN alerts /\ x.seq \in Nat
      BY <1>1, <2>1, <2>4 DEF Ran
    <3>2. g.belowMark = h.belowMark
      BY <1>2, <2>1 DEF Founded
    <3>3. Held(x, L)
      BY <1>2, <1>4, <2>1, <2>4, <3>1, <3>2 DEF Elevated
    <3> QED  BY <2>1, <2>4, <3>3 DEF Founded, Severity
  <2> QED  BY <2>1, <2>3, <2>4 DEF g
<1> QED  BY <1>9, <1>10

LEMMA IngestPatterns ==
    ASSUME HistoryInv, IInv', NEW b \in Batches, b.src \in Registered, MIngest(b)
    PROVE  PatternsKnown' /\ NovelOnce'
<1> DEFINE s == b.src
           L == LoadState(s)
           q == cache'[s]
           h == sent[s]
           g == sent'[s]
           Listed(x, st) == \/ st.fps[x.fp] # None /\ x.at <= st.fps[x.fp]
                            \/ now - x.at >= FingerprintTTL
<1>1. Ran(b, s, L, q)
  BY IngestRan DEF HistoryInv
<1>2. /\ h.dropped \subseteq g.dropped
      /\ \A a \in reported' : Novel(a) /\ a.fp \in b.fps /\ q.fps[a.fp] = None => a.fp \in g.dropped
  BY <1>1 DEF Ran, Observe, Novel
<1>3. \A x \in DOMAIN alerts : Novel(x) /\ x.src = s /\ x.boot = boot /\ x.fp \notin h.dropped
         => Listed(x, L)
  BY <1>1 DEF HistoryInv, PatternsKnown, Ran
<1>4. /\ \A x \in DOMAIN alerts : Novel(x) => x.fp \in Fingerprints
      /\ b.fps \subseteq Fingerprints
      /\ L.fps \in [Fingerprints -> MaybeTime] /\ q.fps \in [Fingerprints -> MaybeTime]
  BY <1>1, BatchType DEF HistoryInv, PatternsKnown, Ran, SourceState, Batch
<1> HIDE DEF L, q, h, g, s
<1>5. ASSUME NEW a \in reported', Novel(a)
      PROVE  /\ Warm(q) /\ a.fp \in b.fps \ Known(L) /\ a.fp \in Fingerprints
             /\ a.src = s /\ a.seq = nextSeq /\ a.at = now /\ a.boot = boot
  BY <1>1, <1>4, <1>5 DEF Ran
<1>6. ASSUME NEW x \in DOMAIN alerts, Novel(x), Listed(x, L)
      PROVE  Listed(x, q) /\ (x.fp \notin Known(L) => now - x.at >= FingerprintTTL)
  <2>1. x.fp \in Fingerprints /\ x.at \in Int /\ now \in Nat /\ FingerprintTTL \in Nat
    BY <1>1, <1>4, <1>6, EngineAssumption DEF Ran
  <2>2. x.fp \in Known(L) => q.fps[x.fp] = L.fps[x.fp]
    BY <1>1, <2>1 DEF Ran, Recognition
  <2>3. L.fps[x.fp] \in Int \cup {None}
    BY <1>4, <2>1 DEF MaybeTime
  <2>4. x.fp \notin Known(L) => now - x.at >= FingerprintTTL
    BY <1>6, <2>1, <2>3 DEF Known
  <2> QED  BY <1>6, <2>2, <2>4
<1>7. ASSUME NEW x \in DOMAIN alerts', Novel(x), x.src = s, x.boot = boot, x.fp \notin g.dropped
      PROVE  Listed(x, q)
  <2>1. CASE x \in reported'
    <3>1. /\ Warm(q) /\ x.fp \in b.fps \ Known(L) /\ x.fp \in Fingerprints /\ x.at = now
      BY <1>5, <1>7, <2>1
    <3>2. q.fps[x.fp] # None
      BY <1>2, <1>7, <2>1, <3>1
    <3>3. q.fps[x.fp] = now
      BY <1>1, <3>1, <3>2 DEF Ran, Recognition
    <3> QED  BY <1>1, <3>1, <3>2, <3>3 DEF Ran
  <2>2. CASE x \in DOMAIN alerts
    BY <1>2, <1>3, <1>6, <1>7, <2>2
  <2> QED  BY <1>1, <2>1, <2>2 DEF Ran
<1>8. PatternsKnown'
  <2> SUFFICES ASSUME NEW x \in DOMAIN alerts', Novel(x)
               PROVE  /\ x.fp \in Fingerprints
                      /\ x.boot = boot' /\ x.fp \notin sent'[x.src].dropped =>
                            /\ cache'[x.src] # None
                            /\ \/ cache'[x.src].fps[x.fp] # None /\ x.at <= cache'[x.src].fps[x.fp]
                               \/ now' - x.at >= FingerprintTTL
    BY DEF PatternsKnown
  <2>1. q # None /\ boot' = boot /\ now' = now
    BY <1>1 DEF Ran
  <2>2. CASE x.src = s
    <3>1. x.fp \in Fingerprints
      BY <1>1, <1>4, <1>5 DEF Ran
    <3> QED  BY <1>7, <2>1, <2>2, <3>1 DEF q, g
  <2>3. CASE x.src # s
    <3>1. x \in DOMAIN alerts
      BY <1>1, <2>3 DEF Ran
    <3>2. x.src \in Sources
      BY <3>1, EngineAssumption DEF HistoryInv, MonitorInv, EngineInv, RegisteredOnly
    <3>3. cache'[x.src] = cache[x.src] /\ sent'[x.src] = sent[x.src]
      BY <1>1, <2>3, <3>2 DEF Ran
    <3> QED  BY <2>1, <3>1, <3>3 DEF HistoryInv, PatternsKnown
  <2> QED  BY <2>2, <2>3
<1>9. NovelOnce'
  <2> SUFFICES ASSUME NEW a \in DOMAIN alerts', NEW x \in DOMAIN alerts',
                      Novel(a), Novel(x), x.seq < a.seq, a.src = x.src, a.fp = x.fp,
                      a.boot = boot, x.boot = boot, a.fp \notin sent'[a.src].dropped
               PROVE  a.at - x.at >= FingerprintTTL
    <3>1. boot' = boot
      BY <1>1 DEF Ran
    <3> QED  BY <3>1 DEF NovelOnce, Novel
  <2>1. x \in DOMAIN alerts
    BY <1>1, <1>5 DEF Ran
  <2>2. CASE a \in DOMAIN alerts
    <3>1. a.fp \notin sent[a.src].dropped
      <4>1. CASE a.src = s
        BY <1>2, <4>1 DEF g, h
      <4>2. CASE a.src # s
        <5>1. a.src \in Sources
          BY <2>2, EngineAssumption DEF HistoryInv, MonitorInv, EngineInv, RegisteredOnly
        <5> QED  BY <1>1, <4>2, <5>1 DEF Ran
      <4> QED  BY <4>1, <4>2
    <3> QED  BY <2>1, <2>2, <3>1 DEF HistoryInv, NovelOnce, Novel
  <2>3. CASE a \in reported'
    <3>1. a.fp \notin Known(L) /\ a.src = s /\ a.at = now
      BY <1>5, <2>3
    <3>2. a.fp \notin h.dropped
      BY <1>2, <3>1 DEF g
    <3>3. Listed(x, L)
      BY <1>3, <2>1, <3>1, <3>2
    <3> QED  BY <1>6, <2>1, <3>1, <3>3
  <2> QED  BY <1>1, <2>2, <2>3 DEF Ran
<1> QED  BY <1>8, <1>9

\* A step that raises no alert and leaves the memories of the registered sources
\* as they are, however far the clock goes on.
LEMMA QuietHistory ==
    ASSUME HistoryInv,
           \A s \in Registered : cache'[s] = cache[s] /\ sent'[s] = sent[s],
           DOMAIN alerts' \in SUBSET DOMAIN alerts, reported' = {}, boot' = boot,
           now' \in Nat, now <= now', nextSeq' \in Nat, nextSeq <= nextSeq'
    PROVE  ElevationKnown' /\ SustainedIsSustained' /\ PatternsKnown' /\ NovelOnce'
<1>1. \A x \in DOMAIN alerts : x.src \in Registered /\ x.at \in Int
  BY DEF HistoryInv, MonitorInv, EngineInv, RegisteredOnly, IInv, TypeOK, AlertId
<1>2. now \in Nat /\ nextSeq \in Nat /\ FingerprintTTL \in Nat
  BY EngineAssumption DEF HistoryInv, MonitorInv, EngineInv, IInv, TypeOK
<1>3. ElevationKnown'
  <2> SUFFICES ASSUME NEW r \in Registered
               PROVE  /\ sent'[r].lastBelow \in Nat /\ sent'[r].lastBelow <= now'
                      /\ sent'[r].belowMark \in Nat /\ sent'[r].belowMark <= nextSeq'
                      /\ cache'[r] # None /\ cache'[r].aboveSince # None =>
                            Warm(cache'[r]) /\ sent'[r].lastBelow <= cache'[r].aboveSince
                      /\ \A x \in DOMAIN alerts' :
                            Elevated(x) /\ x.src = r /\ x.boot = boot' /\ x.seq >= sent'[r].belowMark =>
                                /\ cache'[r] # None /\ cache'[r].sustained # None
                                /\ x.sev = "CRITICAL" => cache'[r].sustained = "CRITICAL"
    BY DEF ElevationKnown, Warm
  <2>1. /\ sent[r].lastBelow \in Nat /\ sent[r].lastBelow <= now
        /\ sent[r].belowMark \in Nat /\ sent[r].belowMark <= nextSeq
        /\ cache[r] # None /\ cache[r].aboveSince # None =>
              Warm(cache[r]) /\ sent[r].lastBelow <= cache[r].aboveSince
        /\ \A x \in DOMAIN alerts :
              Elevated(x) /\ x.src = r /\ x.boot = boot /\ x.seq >= sent[r].belowMark =>
                  /\ cache[r] # None /\ cache[r].sustained # None
                  /\ x.sev = "CRITICAL" => cache[r].sustained = "CRITICAL"
    BY DEF HistoryInv, ElevationKnown
  <2>2. cache'[r] = cache[r] /\ sent'[r] = sent[r]
    OBVIOUS
  <2> QED  BY <1>2, <2>1, <2>2
<1>4. SustainedIsSustained'
  BY DEF SustainedIsSustained
<1>5. PatternsKnown'
  <2> SUFFICES ASSUME NEW x \in DOMAIN alerts', Novel(x)
               PROVE  /\ x.fp \in Fingerprints
                      /\ x.boot = boot' /\ x.fp \notin sent'[x.src].dropped =>
                            /\ cache'[x.src] # None
                            /\ \/ cache'[x.src].fps[x.fp] # None /\ x.at <= cache'[x.src].fps[x.fp]
                               \/ now' - x.at >= FingerprintTTL
    BY DEF PatternsKnown
  <2>1. x \in DOMAIN alerts /\ x.src \in Registered /\ x.at \in Int
    BY <1>1
  <2>2. cache'[x.src] = cache[x.src] /\ sent'[x.src] = sent[x.src]
    BY <2>1
  <2>3. /\ x.fp \in Fingerprints
        /\ x.boot = boot /\ x.fp \notin sent[x.src].dropped =>
              /\ cache[x.src] # None
              /\ \/ cache[x.src].fps[x.fp] # None /\ x.at <= cache[x.src].fps[x.fp]
                 \/ now - x.at >= FingerprintTTL
    BY <2>1 DEF HistoryInv, PatternsKnown
  <2>4. now - x.at >= FingerprintTTL => now' - x.at >= FingerprintTTL
    BY <1>2, <2>1
  <2> QED  BY <2>2, <2>3, <2>4
<1>6. NovelOnce'
  BY <1>1 DEF HistoryInv, NovelOnce
<1> QED  BY <1>3, <1>4, <1>5, <1>6

\* A batch of a source that is not registered stores nothing.
LEMMA IngestHistory ==
    ASSUME HistoryInv, IInv', NEW b \in Batches, MIngest(b)
    PROVE  ElevationKnown' /\ SustainedIsSustained' /\ PatternsKnown' /\ NovelOnce'
<1>1. CASE b.src \in Registered
  BY <1>1, IngestElevation, IngestPatterns
<1>2. CASE b.src \notin Registered
  <2>1. PICK c : Done(c, b) /\ Told(c, b) /\ Finish(b, c)
    BY MIngestFacts DEF HistoryInv
  <2>2. c.tbl = alerts
    BY <1>2, <2>1 DEF Told
  <2>3. /\ alerts' = alerts /\ reported' = {} /\ nextSeq' = nextSeq
        /\ boot' = boot /\ now' = now
    BY <2>1, <2>2 DEF Finish
  <2>4. /\ now \in Nat /\ nextSeq \in Nat
        /\ cache \in [Sources -> SourceState \cup {None}] /\ DOMAIN sent = Sources
    BY DEF HistoryInv, MonitorInv, EngineInv, IInv, TypeOK, CountsAreReal
  <2>5. \A s \in Registered : cache'[s] = cache[s] /\ sent'[s] = sent[s]
    BY <1>2, <2>1, <2>4, EngineAssumption DEF Finish, MIngest
  <2> QED  BY <2>3, <2>4, <2>5, QuietHistory
<1> QED  BY <1>1, <1>2

\* A restart forgets the memories, and with them every alert they stood for.
LEMMA RestartHistory ==
    ASSUME HistoryInv, MRestart
    PROVE  ElevationKnown' /\ SustainedIsSustained' /\ PatternsKnown' /\ NovelOnce'
<1>1. /\ cache' = [s \in Sources |-> None] /\ reported' = {} /\ alerts' = alerts
      /\ boot' = boot + 1 /\ now' = now /\ nextSeq' = nextSeq
  BY DEF MRestart, Crash, Shutdown, LoseMemory
<1>2. \A s \in Sources : sent'[s].lastBelow = now /\ sent'[s].belowMark = 0
  BY DEF MRestart, NothingSent
<1>3. now \in Nat /\ nextSeq \in Nat /\ \A x \in DOMAIN alerts : x.boot # boot'
  BY <1>1 DEF HistoryInv, MonitorInv, EngineInv, IInv, TypeOK, AlertId
<1>4. ElevationKnown'
  BY <1>1, <1>2, <1>3, EngineAssumption DEF ElevationKnown
<1>5. PatternsKnown'
  BY <1>1, <1>3 DEF HistoryInv, PatternsKnown
<1>6. SustainedIsSustained' /\ NovelOnce'
  BY <1>1, <1>3 DEF SustainedIsSustained, NovelOnce
<1> QED  BY <1>4, <1>5, <1>6

LEMMA HistoryInit == MInit => HistoryInv
<1> SUFFICES ASSUME MInit PROVE HistoryInv
  OBVIOUS
<1>1. /\ MonitorInv /\ DOMAIN alerts = {} /\ reported = {} /\ now = 0 /\ nextSeq = 1
      /\ cache = [s \in Sources |-> None]
  BY MonitorInit DEF MInit, Init
<1>2. \A s \in Sources : sent[s].lastBelow = now /\ sent[s].belowMark = 0
  BY DEF MInit, NothingSent
<1> QED  BY <1>1, <1>2, EngineAssumption
         DEF HistoryInv, ElevationKnown, SustainedIsSustained, PatternsKnown, NovelOnce

LEMMA HistoryNext == HistoryInv /\ [MNext]_mvars => HistoryInv'
<1> SUFFICES ASSUME HistoryInv, [MNext]_mvars PROVE HistoryInv'
  OBVIOUS
<1>0. MonitorInv' /\ IInv'
  BY MonitorNext DEF HistoryInv, MonitorInv, EngineInv
<1>1. now \in Nat /\ nextSeq \in Nat
  BY DEF HistoryInv, MonitorInv, EngineInv, IInv, TypeOK
<1>2. ASSUME NEW b \in Batches, MIngest(b)
      PROVE  HistoryInv'
  BY <1>0, <1>2, IngestHistory DEF HistoryInv
<1>3. ASSUME NEW a \in DOMAIN alerts, MAcknowledge(a)
      PROVE  HistoryInv'
  BY <1>0, <1>1, <1>3, QuietHistory DEF HistoryInv, MAcknowledge, Acknowledge
<1>4. ASSUME NEW t \in Tenants, MCleanTenant(t)
      PROVE  HistoryInv'
  BY <1>0, <1>1, <1>4, QuietHistory DEF HistoryInv, MCleanTenant, CleanTenant
<1>5. CASE MRestart
  BY <1>0, <1>5, RestartHistory DEF HistoryInv
<1>6. CASE MTick
  BY <1>0, <1>1, <1>6, QuietHistory DEF HistoryInv, MTick, Tick
<1>7. CASE UNCHANGED mvars
  BY <1>0, <1>7 DEF mvars, vars, HistoryInv, ElevationKnown, SustainedIsSustained,
                    PatternsKnown, NovelOnce, Warm
<1> QED  BY <1>2, <1>3, <1>4, <1>5, <1>6, <1>7 DEF MNext

LEMMA HistoryInvariance == MSpec => []HistoryInv
BY HistoryInit, HistoryNext, PTL DEF MSpec

-----------------------------------------------------------------------------
(* The theorems. *)

\* Every SUSTAINED_ELEVATION rests on an elevation as long as its severity claims,
\* and none is repeated in the same process before the source is back at its
\* baseline, for any number of sources, batches and restarts.
THEOREM ElevationsAreSustained == MSpec => []SustainedIsSustained
<1>1. HistoryInv => SustainedIsSustained
  BY DEF HistoryInv
<1> QED  BY <1>1, HistoryInvariance, PTL

\* One process reports a pattern of a source once within the TTL, unless its list
\* was full, for any number of sources and patterns.
THEOREM PatternsAreNovelOnce == MSpec => []NovelOnce
<1>1. HistoryInv => NovelOnce
  BY DEF HistoryInv
<1> QED  BY <1>1, HistoryInvariance, PTL

-----------------------------------------------------------------------------
(* When silence is real. *)

\* What a source and a restart must do for last_log_at to be the latest log: the
\* batches come in the order of their entries, none stamped ahead of the clock,
\* and a restart finds the time it had in memory in the row.
InOrder(b) ==
    /\ b.oldest >= 0
    /\ sent[b.src].lastLog # None => now - b.newest >= sent[b.src].lastLog

LastLogSurvives ==
    \A s \in Registered : cache[s] # None =>
        rows'[s] # None /\ rows'[s].last = cache[s].last

OrderlyNext ==
    \/ \E b \in Batches : InOrder(b) /\ MIngest(b)
    \/ \E a \in DOMAIN alerts : MAcknowledge(a)
    \/ \E t \in Tenants : MCleanTenant(t)
    \/ MRestart /\ LastLogSurvives
    \/ MTick

OrderlySpec == MInit /\ [][OrderlyNext]_mvars

\* The time a batch of s would find is that of the latest log s has sent.
LastKnown == \A s \in Registered : LoadState(s).last = sent[s].lastLog

ClockInv == MonitorInv /\ LastKnown

\* A row, not the cached state, is what a later batch finds once the cache is empty.
LEMMA LoadsRow ==
    ASSUME NEW s \in Sources
    PROVE  /\ cache[s] # None => LoadState(s).last = cache[s].last
           /\ cache[s] = None => LoadState(s).last = IF rows[s] # None THEN rows[s].last ELSE None
BY DEF LoadState, FromRow, EmptyRow

LEMMA IngestClock ==
    ASSUME ClockInv, IInv', NEW b \in Batches, InOrder(b), MIngest(b)
    PROVE  /\ LastKnown'
           /\ \A a \in reported' : a.type = "SERVICE_SILENCE" =>
                 now - sent[a.src].lastLog >= SilenceWindow
<1> DEFINE s == b.src
           L == LoadState(s)
<1>1. PICK keep \in Remembered(b), outcome \in Outcomes(b.src) :
         Finish(b, Process(b, keep, outcome))
  BY DEF MIngest, Ingest
<1> DEFINE c == Process(b, keep, outcome)
<1>2. /\ Done(c, b) /\ Told(c, b)
      /\ s \in Registered => ClockSet(Begin(s), c, b)
  BY ProcessDone, ProcessTold, ProcessNotices DEF ClockInv, MonitorInv, EngineInv
<1>3. Begin(s).st = L /\ Begin(s).tbl = alerts
  BY DEF Begin
<1>4. Finish(b, c)
  BY <1>1
<1> HIDE DEF c
<1>5. /\ b \in Batch /\ s \in Sources /\ c.st \in SourceState /\ L \in SourceState
      /\ cache \in [Sources -> SourceState \cup {None}] /\ DOMAIN sent = Sources
      /\ now \in Nat /\ SilenceWindow \in Nat
  BY <1>2, BatchType, EngineAssumption, LoadStateType
  DEF ClockInv, MonitorInv, EngineInv, IInv, TypeOK, CountsAreReal, Done, Session, Batch
<1>6. /\ cache' = [cache EXCEPT ![s] = c.st]
      /\ reported' = DOMAIN c.tbl \ DOMAIN alerts
      /\ sent' = [sent EXCEPT ![s] = Observe(sent[s], b)]
      /\ rows' = c.rows \/ rows' = rows
  BY <1>4 DEF Finish, MIngest
<1>7. \A r \in Sources \ {s} :
         cache'[r] = cache[r] /\ rows'[r] = rows[r] /\ sent'[r] = sent[r]
  BY <1>2, <1>5, <1>6 DEF Done
<1>8. /\ cache'[s] = c.st /\ c.st # None
      /\ sent'[s].lastLog = IF sent[s].lastLog = None \/ now - b.newest > sent[s].lastLog
                            THEN now - b.newest ELSE sent[s].lastLog
  BY <1>5, <1>6, NoStateAssumption DEF Observe
<1>9. ASSUME NEW r \in Registered
      PROVE  LoadState(r)'.last = sent'[r].lastLog
  <2>0. r \in Sources
    BY EngineAssumption
  <2>1. CASE r = s
    <3>1. LoadState(r)' = c.st
      BY <1>8, <2>1 DEF LoadState
    <3>2. c.st.last = now - b.newest
      BY <1>2, <1>9, <2>1 DEF ClockSet
    <3>3. sent[s].lastLog = L.last
      BY <1>9, <2>1 DEF ClockInv, LastKnown
    <3>4. sent[s].lastLog = None \/ (sent[s].lastLog \in Int /\ now - b.newest >= sent[s].lastLog)
      BY <1>5, <3>3 DEF InOrder, SourceState, MaybeTime
    <3>5. now - b.newest \in Int
      BY <1>5 DEF Batch
    <3>6. sent'[s].lastLog = now - b.newest
      BY <1>8, <3>4, <3>5
    <3> QED  BY <2>1, <3>1, <3>2, <3>6
  <2>2. CASE r # s
    <3>1. cache'[r] = cache[r] /\ rows'[r] = rows[r] /\ sent'[r] = sent[r]
      BY <1>7, <2>0, <2>2
    <3>2. LoadState(r)' = LoadState(r)
      BY <3>1 DEF LoadState
    <3> QED  BY <3>1, <3>2 DEF ClockInv, LastKnown
  <2> QED  BY <2>1, <2>2
<1>10. ASSUME NEW a \in reported', a.type = "SERVICE_SILENCE"
       PROVE  now - sent[a.src].lastLog >= SilenceWindow
  <2>1. a.src = s /\ s \in Registered
    BY <1>2, <1>6, <1>10 DEF Done, Grown, Told
  <2>2. L.last # None /\ ~((now - b.oldest) - L.last < SilenceWindow)
    BY <1>2, <1>3, <1>6, <1>10, <2>1 DEF ClockSet, SilenceGrounds
  <2>3. sent[s].lastLog = L.last
    BY <2>1 DEF ClockInv, LastKnown
  <2>4. L.last \in Int /\ b.oldest \in Int /\ b.oldest >= 0
    BY <1>5, <2>2 DEF SourceState, MaybeTime, Batch, InOrder
  <2> QED  BY <1>5, <2>1, <2>2, <2>3, <2>4
<1> QED  BY <1>9, <1>10 DEF LastKnown

LEMMA RestartClock ==
    ASSUME ClockInv, MRestart, LastLogSurvives
    PROVE  LastKnown'
<1> SUFFICES ASSUME NEW s \in Registered
             PROVE  LoadState(s)'.last = sent'[s].lastLog
  BY DEF LastKnown
<1>1. s \in Sources
  BY EngineAssumption
<1>2. cache'[s] = None /\ sent'[s].lastLog = sent[s].lastLog
  BY <1>1 DEF MRestart, Crash, Shutdown, LoseMemory, NothingSent
<1>3. LoadState(s)'.last = IF rows'[s] # None THEN rows'[s].last ELSE None
  BY <1>2 DEF LoadState, FromRow, EmptyRow
<1>4. LoadState(s).last = sent[s].lastLog
  BY DEF ClockInv, LastKnown
<1>5. CASE cache[s] # None
  BY <1>1, <1>2, <1>3, <1>4, <1>5, LoadsRow DEF LastLogSurvives
<1>6. CASE cache[s] = None
  <2>1. rows'[s] = rows[s]
    <3>1. CASE Crash
      BY <3>1 DEF Crash
    <3>2. CASE Shutdown
      <4>1. PICK saved \in FlushOutcomes :
               rows' = [r \in Sources |-> IF r \in saved THEN Persisted(cache[r]) ELSE rows[r]]
        BY <3>2 DEF Shutdown
      <4>2. s \notin saved
        BY <1>6, <4>1 DEF FlushOutcomes
      <4> QED  BY <1>1, <4>1, <4>2
    <3> QED  BY <3>1, <3>2 DEF MRestart
  <2> QED  BY <1>1, <1>2, <1>3, <1>4, <1>6, <2>1, LoadsRow
<1> QED  BY <1>5, <1>6

LEMMA OrderlySteps == [OrderlyNext]_mvars => [MNext]_mvars
BY DEF OrderlyNext, MNext

LEMMA ClockInit == MInit => ClockInv
<1> SUFFICES ASSUME MInit PROVE ClockInv
  OBVIOUS
<1>1. MonitorInv
  BY MonitorInit
<1>2. ASSUME NEW s \in Registered
      PROVE  LoadState(s).last = sent[s].lastLog
  <2>1. s \in Sources
    BY EngineAssumption
  <2>2. cache[s] = None /\ rows[s] = None /\ sent[s].lastLog = None
    BY <2>1 DEF MInit, Init, NothingSent
  <2> QED  BY <2>1, <2>2, LoadsRow
<1> QED  BY <1>1, <1>2 DEF ClockInv, LastKnown

\* What an orderly step shows, by the action that takes it.
LEMMA OrderlyStep ==
    ASSUME ClockInv, [OrderlyNext]_mvars
    PROVE  /\ ClockInv'
           /\ OrderlyNext => \A a \in reported' : a.type = "SERVICE_SILENCE" =>
                 now - sent[a.src].lastLog >= SilenceWindow
<1> DEFINE Real == \A a \in reported' : a.type = "SERVICE_SILENCE" =>
                      now - sent[a.src].lastLog >= SilenceWindow
<1>0. MonitorInv' /\ IInv'
  BY OrderlySteps, MonitorNext DEF ClockInv, MonitorInv, EngineInv
<1>1. ASSUME NEW b \in Batches, InOrder(b), MIngest(b)
      PROVE  LastKnown' /\ Real
  BY <1>0, <1>1, IngestClock
<1>2. ASSUME UNCHANGED <<cache, rows, sent>>
      PROVE  LastKnown'
  BY <1>2 DEF ClockInv, LastKnown, LoadState
<1>3. ASSUME NEW a \in DOMAIN alerts, MAcknowledge(a)
      PROVE  LastKnown' /\ Real
  BY <1>2, <1>3 DEF MAcknowledge, Acknowledge
<1>4. ASSUME NEW t \in Tenants, MCleanTenant(t)
      PROVE  LastKnown' /\ Real
  BY <1>2, <1>4 DEF MCleanTenant, CleanTenant
<1>5. ASSUME MRestart, LastLogSurvives
      PROVE  LastKnown' /\ Real
  <2>1. reported' = {}
    BY <1>5 DEF MRestart, Crash, Shutdown, LoseMemory
  <2> QED  BY <1>5, <2>1, RestartClock
<1>6. ASSUME MTick
      PROVE  LastKnown' /\ Real
  BY <1>2, <1>6 DEF MTick, Tick
<1>7. ASSUME UNCHANGED mvars
      PROVE  LastKnown'
  BY <1>2, <1>7 DEF mvars, vars
<1> HIDE DEF Real
<1>8. LastKnown' /\ (OrderlyNext => Real)
  <2>1. OrderlyNext => LastKnown' /\ Real
    BY <1>1, <1>3, <1>4, <1>5, <1>6 DEF OrderlyNext
  <2> QED  BY <1>7, <2>1
<1> QED  BY <1>0, <1>8 DEF ClockInv, Real

\* A silence reported by the engine is real when batches come in the order of their
\* entries, none ahead of the clock, and last_log_at survives the restarts: a false
\* one needs a late batch, a wrong clock or a lost row, and nothing else.
THEOREM SilenceIsRealInOrder == OrderlySpec => SilenceIsReal
<1>1. ClockInv /\ [OrderlyNext]_mvars => ClockInv'
  BY OrderlyStep
<1>2. ClockInv /\ [OrderlyNext]_mvars =>
         [\A a \in reported' : a.type = "SERVICE_SILENCE" =>
             now - sent[a.src].lastLog >= SilenceWindow]_mvars
  BY OrderlyStep
<1> QED  BY <1>1, <1>2, ClockInit, PTL DEF OrderlySpec, SilenceIsReal

=============================================================================
