------------------------ MODULE AnomalyMonitorProofs ------------------------
(***************************************************************************)
(* Proofs about what the detectors decide, as opposed to the shape of the  *)
(* tables (AnomalyEngineProofs): a CASCADE rests on open spikes, nothing   *)
(* but silence is reported before the warm-up, and a spike is resolved     *)
(* only after two calm batches.                                            *)
(*                                                                         *)
(* The argument follows one session through the detectors.  Only           *)
(* CheckErrorRateSpike touches the count of clean windows and the spikes,  *)
(* only CheckCascade writes a CASCADE; Kept says that for all the others.  *)
(***************************************************************************)
EXTENDS AnomalyMonitor, AnomalyEngineProofs

-----------------------------------------------------------------------------
(* What most detectors leave alone. *)

\* The table U differs from T by alerts that are neither spikes nor, where
\* cascade is FALSE, cascades, and by the statuses of others than spikes.
SameSpikes(T, U, cascade) ==
    /\ DOMAIN T \subseteq DOMAIN U
    /\ \A x \in DOMAIN T : x.type = "ERROR_RATE_SPIKE" => U[x] = T[x]
    /\ \A x \in DOMAIN U \ DOMAIN T :
          x.type # "ERROR_RATE_SPIKE" /\ (cascade \/ x.type # "CASCADE")

StaysFinite(T, U) == IsFiniteSet(DOMAIN T) => IsFiniteSet(DOMAIN U)

\* Session c has become d; a source that is not registered has no alerts to touch.
Kept(c, d, b, cascade) ==
    /\ d.st.clean = c.st.clean
    /\ StaysFinite(c.tbl, d.tbl)
    /\ SameSpikes(c.tbl, d.tbl, cascade)
    /\ b.src \notin Registered => d.tbl = c.tbl

\* Every alert in the table belongs to a source whose rows can be written.
RegisteredOnly(T) == \A a \in DOMAIN T : a.src \in Registered

\* A session at work: as in AnomalyEngineProofs, and it has written nothing for
\* a source that is not registered.
Working(c, b, w) ==
    /\ Good(c, b, w)
    /\ b.src \notin Registered => c.tbl = alerts

\* One alert more, or finitely many, leave a table finite.
LEMMA OneMore ==
    ASSUME NEW T, NEW U, NEW x, DOMAIN U = DOMAIN T \cup {x}
    PROVE  StaysFinite(T, U)
BY FS_AddElement DEF StaysFinite

LEMMA ManyMore ==
    ASSUME NEW T, NEW U, NEW X, IsFiniteSet(X), DOMAIN U = DOMAIN T \cup X
    PROVE  StaysFinite(T, U)
BY FS_Union DEF StaysFinite

LEMMA KeptRefl ==
    ASSUME NEW c, NEW d, NEW b, NEW cascade \in BOOLEAN,
           d.st.clean = c.st.clean, d.tbl = c.tbl
    PROVE  Kept(c, d, b, cascade)
BY DEF Kept, SameSpikes, StaysFinite

LEMMA KeptTrans ==
    ASSUME NEW c, NEW d, NEW e, NEW b, NEW cascade \in BOOLEAN,
           Kept(c, d, b, cascade), Kept(d, e, b, cascade)
    PROVE  Kept(c, e, b, cascade)
BY DEF Kept, SameSpikes, StaysFinite

LEMMA KeptWeaken ==
    ASSUME NEW c, NEW d, NEW b, Kept(c, d, b, FALSE)
    PROVE  Kept(c, d, b, TRUE)
BY DEF Kept, SameSpikes, StaysFinite

\* Equal spikes make equal sets of spiking services.
LEMMA SameServices ==
    ASSUME NEW T, NEW U, NEW t, NEW cascade \in BOOLEAN, SameSpikes(T, U, cascade)
    PROVE  SpikingServices(U, t) = SpikingServices(T, t)
<1>1. {x \in DOMAIN U : /\ x.type = "ERROR_RATE_SPIKE" /\ TenantOf[x.src] = t
                        /\ U[x] = "open" /\ x.at >= now - CascadeWindow}
    = {x \in DOMAIN T : /\ x.type = "ERROR_RATE_SPIKE" /\ TenantOf[x.src] = t
                        /\ T[x] = "open" /\ x.at >= now - CascadeWindow}
  BY DEF SameSpikes
<1> QED  BY <1>1 DEF SpikingServices

-----------------------------------------------------------------------------
(* The two helpers of the detectors. *)

\* The field st of a session, with the count of clean windows left as it was.
LEMMA NewStateKept ==
    ASSUME NEW b, NEW w, NEW c, Working(c, b, w), NEW st, st.clean = c.st.clean
    PROVE  /\ Kept(c, [c EXCEPT !.st = st], b, FALSE)
           /\ [c EXCEPT !.st = st].tbl = c.tbl
<1>1. c \in Session
  BY DEF Working, Good
<1>2. [c EXCEPT !.st = st].st = st /\ [c EXCEPT !.st = st].tbl = c.tbl
  BY <1>1 DEF Session
<1> QED  BY <1>2, KeptRefl

LEMMA ResolveEffect ==
    ASSUME IInv, NEW b \in Batches, NEW w, NEW c, Good(c, b, w), NEW type
    PROVE  LET d == TryAutoResolve(c, b, type)
           IN  \/ d = c
               \/ \E a \in OpenAlerts(c.tbl, b.src, type) :
                     d = [c EXCEPT !.tbl[a] = "resolved"]
<1> DEFINE open == OpenAlerts(c.tbl, b.src, type)
           a == CHOOSE x \in open : \A o \in open : o.seq <= x.seq
<1>1. CASE open = {}
  BY <1>1 DEF TryAutoResolve
<1>2. CASE open # {}
  <2>1. \E x \in open : \A o \in open : o.seq <= x.seq
    BY <1>2, NewestOpen
  <2>2. a \in open
    <3> HIDE DEF open
    <3> QED  BY <2>1
  <2>3. TryAutoResolve(c, b, type) = [c EXCEPT !.tbl[a] = "resolved"]
    BY <1>2 DEF TryAutoResolve
  <2> QED  BY <2>2, <2>3
<1> QED  BY <1>1, <1>2

LEMMA ResolveKept ==
    ASSUME IInv, RegisteredOnly(alerts), NEW b \in Batches, NEW w, NEW c, Working(c, b, w),
           NEW type, type # "ERROR_RATE_SPIKE"
    PROVE  Kept(c, TryAutoResolve(c, b, type), b, FALSE)
<1> DEFINE d == TryAutoResolve(c, b, type)
<1>1. c \in Session /\ Good(c, b, w)
  BY DEF Working, Good
<1>2. CASE d = c
  BY <1>2, KeptRefl
<1>3. ASSUME NEW a \in OpenAlerts(c.tbl, b.src, type), d = [c EXCEPT !.tbl[a] = "resolved"]
      PROVE  Kept(c, d, b, FALSE)
  <2>1. a \in DOMAIN c.tbl /\ a.type = type /\ a.src = b.src
    BY DEF OpenAlerts
  <2>2. b.src \in Registered
    BY <2>1 DEF Working, RegisteredOnly
  <2>3. d.st = c.st /\ d.tbl = [c.tbl EXCEPT ![a] = "resolved"]
    BY <1>1, <1>3 DEF Session
  <2> QED  BY <2>1, <2>2, <2>3 DEF Kept, SameSpikes, StaysFinite
<1> QED  BY <1>1, <1>2, <1>3, ResolveEffect

LEMMA BuildKept ==
    ASSUME IInv, NEW b \in Batches, NEW w, NEW c, Working(c, b, w),
           NEW type, NEW sev, NEW svc, NEW fp, NEW cascade \in BOOLEAN,
           type # "ERROR_RATE_SPIKE", cascade \/ type # "CASCADE"
    PROVE  Kept(c, BuildAlert(c, b, type, sev, svc, fp), b, cascade)
<1> DEFINE x == NewAlert(b, type, sev, svc, fp)
           d == BuildAlert(c, b, type, sev, svc, fp)
<1>1. c \in Session
  BY DEF Working, Good
<1>2. x.type = type
  BY DEF NewAlert
<1>3. CASE b.src \in Registered
  <2> HIDE DEF x
  <2>1. d = [c EXCEPT !.tbl = Put(c.tbl, x, "open")]
    BY <1>1, <1>3 DEF BuildAlert, Session, x
  <2>2. d.st = c.st /\ d.tbl = Put(c.tbl, x, "open")
    BY <1>1, <2>1 DEF Session
  <2>3. /\ DOMAIN d.tbl = DOMAIN c.tbl \cup {x}
        /\ \A y \in DOMAIN d.tbl : y # x => d.tbl[y] = c.tbl[y]
    BY <2>2 DEF Put
  <2>4. StaysFinite(c.tbl, d.tbl)
    BY <2>3, OneMore
  <2> QED  BY <1>2, <1>3, <2>2, <2>3, <2>4 DEF Kept, SameSpikes
<1>4. CASE b.src \notin Registered
  <2>1. d = [c EXCEPT !.tbl = alerts, !.rows = rows, !.ok = FALSE]
    BY <1>4 DEF BuildAlert
  <2>2. d.st = c.st /\ d.tbl = alerts
    BY <1>1, <2>1 DEF Session
  <2> QED  BY <1>4, <2>2, KeptRefl DEF Working
<1> QED  BY <1>3, <1>4

\* What Kept says about two sessions keeps a session at work.
LEMMA KeptWorks ==
    ASSUME NEW b, NEW w, NEW v, NEW c, NEW d, NEW cascade \in BOOLEAN,
           Working(c, b, w), Good(d, b, v), Kept(c, d, b, cascade)
    PROVE  Working(d, b, v)
BY DEF Working, Kept

-----------------------------------------------------------------------------
(* The detectors that Kept describes. *)

LEMMA SilenceKept ==
    ASSUME IInv, NEW b \in Batches, NEW w, NEW c, Working(c, b, w)
    PROVE  LET d == CheckServiceSilence(c, b)
           IN  /\ Kept(c, d, b, FALSE)
               /\ \A y \in DOMAIN d.tbl \ DOMAIN c.tbl : y.type = "SERVICE_SILENCE"
<1> DEFINE x  == NewAlert(b, "SERVICE_SILENCE", "CRITICAL", b.svc, None)
           c1 == SilenceFlagged(c)
           d  == CheckServiceSilence(c, b)
<1>1. c \in Session /\ c.st \in SourceState /\ Good(c, b, w)
  BY SessionType DEF Working
<1>2. c1 \in Session /\ c1.tbl = c.tbl /\ c1.st.clean = c.st.clean
  BY <1>1, FlaggedGood DEF SilenceFlagged, Session, SourceState, Good
<1> HIDE DEF c1
<1>3. CASE d = c
  BY <1>3, KeptRefl
<1>4. ASSUME b.src \in Registered,
             d = [c1 EXCEPT !.tbl = WithAlerts(c1.tbl, {x}, "resolved")]
      PROVE  Kept(c, d, b, FALSE) /\ \A y \in DOMAIN d.tbl \ DOMAIN c.tbl : y.type = "SERVICE_SILENCE"
  <2>1. x.type = "SERVICE_SILENCE"
    BY DEF NewAlert
  <2>2. d.st.clean = c.st.clean /\ d.tbl = WithAlerts(c.tbl, {x}, "resolved")
    BY <1>2, <1>4 DEF Session
  <2> HIDE DEF x, d
  <2>3. /\ DOMAIN d.tbl = DOMAIN c.tbl \cup {x}
        /\ \A y \in DOMAIN d.tbl : y # x => d.tbl[y] = c.tbl[y]
    BY <2>2 DEF WithAlerts
  <2>4. StaysFinite(c.tbl, d.tbl)
    BY <2>3, OneMore
  <2> QED  BY <1>4, <2>1, <2>2, <2>3, <2>4 DEF Kept, SameSpikes
<1>5. ASSUME b.src \notin Registered,
             d = [c1 EXCEPT !.tbl = alerts, !.rows = rows, !.ok = FALSE]
      PROVE  Kept(c, d, b, FALSE) /\ d.tbl = c.tbl
  <2>1. d.st.clean = c.st.clean /\ d.tbl = alerts
    BY <1>2, <1>5 DEF Session
  <2> QED  BY <1>5, <2>1, KeptRefl DEF Working
<1> HIDE DEF d
<1> QED  BY <1>1, <1>3, <1>4, <1>5, SilenceWrites, SilenceFails DEF c1, d

LEMMA UpdateBaselinesKept ==
    ASSUME IInv, NEW b \in Batches, NEW w, NEW c, Working(c, b, w)
    PROVE  /\ Kept(c, UpdateBaselines(c, b), b, FALSE)
           /\ UpdateBaselines(c, b).tbl = c.tbl
<1> DEFINE st == [c.st EXCEPT !.warm = Bump(@, WarmupRequired),
                              !.latWarm = IF b.lat = "none" THEN @ ELSE Bump(@, WarmupRequired),
                              !.last = now - b.newest,
                              !.silenceAlerted = FALSE]
<1>1. c \in Session /\ c.st \in SourceState
  BY SessionType DEF Working
<1>2. st.clean = c.st.clean
  BY <1>1 DEF SourceState
<1>3. UpdateBaselines(c, b) = [c EXCEPT !.st = st]
  BY <1>1 DEF UpdateBaselines, Session
<1> HIDE DEF st
<1>4. /\ Kept(c, [c EXCEPT !.st = st], b, FALSE)
      /\ [c EXCEPT !.st = st].tbl = c.tbl
  BY <1>2, NewStateKept
<1> QED  BY <1>3, <1>4

LEMMA SustainedKept ==
    ASSUME IInv, RegisteredOnly(alerts), NEW b \in Batches, NEW w, NEW c, Working(c, b, w)
    PROVE  Kept(c, CheckSustainedElevation(c, b), b, FALSE)
<1> DEFINE With(since, sev) ==
              [c EXCEPT !.st = [c.st EXCEPT !.aboveSince = since, !.sustained = sev]]
<1>1. c \in Session /\ c.st \in SourceState /\ c.st.warm = w /\ now \in Int
  BY SessionType DEF Working, Good, IInv, TypeOK
<1>2. ASSUME NEW since \in MaybeTime, NEW sev \in Severity \cup {None}
      PROVE  Working(With(since, sev), b, w) /\ Kept(c, With(since, sev), b, FALSE)
  <2> DEFINE st == [c.st EXCEPT !.aboveSince = since, !.sustained = sev]
  <2>1. st \in SourceState /\ st.warm = w /\ st.since = c.st.since /\ st.clean = c.st.clean
    BY <1>1 DEF SourceState
  <2> HIDE DEF st
  <2>2. Good([c EXCEPT !.st = st], b, w)
    BY <2>1, NewState DEF Working
  <2>3. Kept(c, [c EXCEPT !.st = st], b, FALSE)
    BY <2>1, NewStateKept
  <2> QED  BY <2>2, <2>3, KeptWorks DEF st
<1>3. c.st.aboveSince \in MaybeTime /\ c.st.sustained \in Severity \cup {None}
  BY <1>1 DEF SourceState
<1>4. [c EXCEPT !.st.aboveSince = None, !.st.sustained = None] = With(None, None)
  BY <1>1 DEF Session, SourceState
<1>5. [c EXCEPT !.st.aboveSince = now] = With(now, c.st.sustained)
  BY <1>1 DEF Session, SourceState
<1>6. ASSUME NEW sev \in Severity
      PROVE  [c EXCEPT !.st.sustained = sev] = With(c.st.aboveSince, sev)
  BY <1>1 DEF Session, SourceState
<1> HIDE DEF With
<1>7. Kept(c, TryAutoResolve(With(None, None), b, "SUSTAINED_ELEVATION"), b, FALSE)
  BY <1>2, ResolveKept, KeptTrans DEF MaybeTime
<1>8. Kept(c, With(now, c.st.sustained), b, FALSE)
  BY <1>1, <1>2, <1>3 DEF MaybeTime
<1>9. ASSUME NEW sev \in Severity
      PROVE  Kept(c, BuildAlert(With(c.st.aboveSince, sev), b, "SUSTAINED_ELEVATION",
                                sev, UnknownService, None), b, FALSE)
  <2>1. Working(With(c.st.aboveSince, sev), b, w) /\ Kept(c, With(c.st.aboveSince, sev), b, FALSE)
    BY <1>2, <1>3
  <2>2. Kept(With(c.st.aboveSince, sev),
             BuildAlert(With(c.st.aboveSince, sev), b, "SUSTAINED_ELEVATION",
                        sev, UnknownService, None), b, FALSE)
    BY <2>1, BuildKept
  <2> QED  BY <2>1, <2>2, KeptTrans
<1>10. Kept(c, c, b, FALSE)
  BY KeptRefl
<1> QED  BY <1>4, <1>5, <1>6, <1>7, <1>8, <1>9, <1>10 DEF CheckSustainedElevation, Severity

LEMMA LatencyKept ==
    ASSUME IInv, RegisteredOnly(alerts), NEW b \in Batches, NEW w, NEW c, Working(c, b, w)
    PROVE  Kept(c, CheckLatencySpike(c, b), b, FALSE)
<1> DEFINE With(n) == [c EXCEPT !.st = [c.st EXCEPT !.latClean = n]]
<1>1. c \in Session /\ c.st \in SourceState /\ c.st.warm = w
  BY SessionType DEF Working, Good
<1>2. ASSUME NEW n \in Nat
      PROVE  /\ Working(With(n), b, w) /\ Kept(c, With(n), b, FALSE)
             /\ [c EXCEPT !.st.latClean = n] = With(n)
  <2> DEFINE st == [c.st EXCEPT !.latClean = n]
  <2>1. st \in SourceState /\ st.warm = w /\ st.since = c.st.since /\ st.clean = c.st.clean
    BY <1>1 DEF SourceState
  <2> HIDE DEF st
  <2>2. Good([c EXCEPT !.st = st], b, w)
    BY <2>1, NewState DEF Working
  <2>3. Kept(c, [c EXCEPT !.st = st], b, FALSE)
    BY <2>1, NewStateKept
  <2>4. [c EXCEPT !.st.latClean = n] = With(n)
    BY <1>1 DEF Session
  <2> QED  BY <2>2, <2>3, <2>4, KeptWorks DEF st
<1> DEFINE m == Bump(c.st.latClean, 2)
<1>3. m \in Nat /\ [c EXCEPT !.st.latClean = Bump(@, 2)] = [c EXCEPT !.st.latClean = m]
  BY <1>1, BumpType DEF SourceState, Session
<1> HIDE DEF With, m
<1>4. Kept(c, With(m), b, FALSE) /\ Kept(c, TryAutoResolve(With(m), b, "LATENCY_SPIKE"), b, FALSE)
  BY <1>2, <1>3, ResolveKept, KeptTrans
<1>5. ASSUME NEW sev
      PROVE  Kept(c, BuildAlert(With(0), b, "LATENCY_SPIKE", sev, b.svc, None), b, FALSE)
  <2>1. Kept(With(0), BuildAlert(With(0), b, "LATENCY_SPIKE", sev, b.svc, None), b, FALSE)
    BY <1>2, BuildKept
  <2> QED  BY <1>2, <2>1, KeptTrans
<1>6. Kept(c, c, b, FALSE)
  BY KeptRefl
<1> QED  BY <1>2, <1>3, <1>4, <1>5, <1>6 DEF CheckLatencySpike

LEMMA NovelKept ==
    ASSUME IInv, NEW b \in Batches, NEW w, NEW c, Working(c, b, w), NEW keep
    PROVE  Kept(c, CheckNovelError(c, b, keep), b, FALSE)
<1> DEFINE known == Known(c.st)
           new   == b.fps \ known
           fps   == [f \in Fingerprints |->
                        IF f \in known THEN c.st.fps[f] ELSE IF f \in keep THEN now ELSE None]
           st    == [c.st EXCEPT !.fps = fps]
           c1    == [c EXCEPT !.st = st]
           ids   == {NewAlert(b, "NOVEL_ERROR", "WARNING", b.svc, f) : f \in new}
           T     == WithAlerts(c.tbl, ids, "open")
           d     == CheckNovelError(c, b, keep)
<1>1. c \in Session /\ c.st \in SourceState
  BY SessionType DEF Working
<1>2. st.clean = c.st.clean
  BY <1>1 DEF SourceState
<1>3. \A x \in ids : x.type = "NOVEL_ERROR"
  BY DEF NewAlert
<1>0. IsFiniteSet(ids)
  <2> DEFINE g == [f \in new |-> NewAlert(b, "NOVEL_ERROR", "WARNING", b.svc, f)]
  <2>1. new \in SUBSET Fingerprints
    BY BatchType DEF Batch
  <2>2. IsFiniteSet(new)
    BY <2>1, FS_Subset, EngineAssumption
  <2> HIDE DEF new
  <2>3. g \in Surjection(new, ids)
    BY DEF Surjection
  <2> QED  BY <2>2, <2>3, FS_Surjection
<1> HIDE DEF new, ids, st
<1>4. d = IF new = {} THEN c1
          ELSE IF b.src \in Registered
          THEN [c EXCEPT !.st = st, !.tbl = T]
          ELSE [c EXCEPT !.st = st, !.tbl = alerts, !.rows = rows, !.ok = FALSE]
  BY DEF CheckNovelError, WithAlerts, new, ids, st
<1> SUFFICES Kept(c, d, b, FALSE)
  OBVIOUS
<1> HIDE DEF T, d
<1>5. CASE new = {}
  BY <1>2, <1>4, <1>5, NewStateKept
<1>6. CASE new # {} /\ b.src \in Registered
  <2>1. d.st = st /\ d.tbl = T
    BY <1>1, <1>4, <1>6 DEF Session
  <2>2. DOMAIN T = DOMAIN c.tbl \cup ids /\ \A x \in DOMAIN T : x \notin ids => T[x] = c.tbl[x]
    BY DEF T, WithAlerts
  <2>3. StaysFinite(c.tbl, d.tbl)
    BY <1>0, <2>1, <2>2, ManyMore
  <2> QED  BY <1>2, <1>3, <1>6, <2>1, <2>2, <2>3 DEF Kept, SameSpikes
<1>7. CASE new # {} /\ b.src \notin Registered
  <2>1. d.st = st /\ d.tbl = alerts
    BY <1>1, <1>4, <1>7 DEF Session
  <2> QED  BY <1>2, <1>7, <2>1, KeptRefl DEF Working
<1> QED  BY <1>5, <1>6, <1>7

-----------------------------------------------------------------------------
(* The two that write spikes and cascades. *)

\* CheckErrorRateSpike counts the clean windows and resolves a spike only from
\* the second on; it raises nothing but a spike.
SpikeDone(c, d, b) ==
    /\ d.st.clean = IF b.err \in Spiking THEN 0 ELSE Bump(c.st.clean, 2)
    /\ DOMAIN c.tbl \subseteq DOMAIN d.tbl /\ StaysFinite(c.tbl, d.tbl)
    /\ \A x \in DOMAIN d.tbl \ DOMAIN c.tbl : x.type = "ERROR_RATE_SPIKE"
    /\ \A x \in DOMAIN c.tbl :
          x.type = "ERROR_RATE_SPIKE" /\ c.tbl[x] = "open" /\ d.tbl[x] = "resolved"
              => d.st.clean >= 2 /\ b.err \notin Spiking
    /\ b.src \notin Registered => d.tbl = c.tbl

LEMMA SpikeEffect ==
    ASSUME IInv, RegisteredOnly(alerts), NEW b \in Batches, NEW w, NEW c, Working(c, b, w)
    PROVE  SpikeDone(c, CheckErrorRateSpike(c, b), b)
<1> DEFINE With(n) == [c EXCEPT !.st = [c.st EXCEPT !.clean = n]]
           d == CheckErrorRateSpike(c, b)
<1>1. c \in Session /\ c.st \in SourceState /\ c.st.warm = w
  BY SessionType DEF Working, Good
<1>2. ASSUME NEW n \in Nat
      PROVE  /\ Good(With(n), b, w) /\ With(n) \in Session
             /\ With(n).st.clean = n /\ With(n).tbl = c.tbl
             /\ [c EXCEPT !.st.clean = n] = With(n)
  <2> DEFINE st == [c.st EXCEPT !.clean = n]
  <2>1. st \in SourceState /\ st.warm = w /\ st.since = c.st.since /\ st.clean = n
    BY <1>1 DEF SourceState
  <2> HIDE DEF st
  <2>2. Good([c EXCEPT !.st = st], b, w)
    BY <2>1, NewState DEF Working
  <2>3. [c EXCEPT !.st = st].st = st /\ [c EXCEPT !.st = st].tbl = c.tbl
    BY <1>1 DEF Session
  <2>4. [c EXCEPT !.st.clean = n] = With(n)
    BY <1>1 DEF Session
  <2> QED  BY <2>1, <2>2, <2>3, <2>4 DEF st, Good
<1>3. CASE b.err \in Spiking
  <2> DEFINE sev == IF b.err = "crit" THEN "CRITICAL" ELSE "WARNING"
             x   == NewAlert(b, "ERROR_RATE_SPIKE", sev, b.svc, None)
             c1  == With(0)
  <2>1. c1 \in Session /\ c1.st.clean = 0 /\ c1.tbl = c.tbl /\ [c EXCEPT !.st.clean = 0] = c1
    BY <1>2
  <2>2. x.type = "ERROR_RATE_SPIKE"
    BY DEF NewAlert
  <2>3. d = BuildAlert(c1, b, "ERROR_RATE_SPIKE", sev, b.svc, None)
    BY <1>3, <2>1 DEF CheckErrorRateSpike
  <2> SUFFICES SpikeDone(c, d, b)
    OBVIOUS
  <2> HIDE DEF c1, d, With, sev
  <2>4. CASE b.src \in Registered
    <3>1. d.st.clean = 0 /\ d.tbl = Put(c.tbl, x, "open")
      BY <2>1, <2>3, <2>4 DEF BuildAlert, Session
    <3> HIDE DEF x
    <3>2. /\ DOMAIN d.tbl = DOMAIN c.tbl \cup {x}
          /\ \A y \in DOMAIN c.tbl : d.tbl[y] = "open" \/ d.tbl[y] = c.tbl[y]
      BY <3>1 DEF Put
    <3>3. StaysFinite(c.tbl, d.tbl)
      BY <3>2, OneMore
    <3> QED  BY <1>3, <2>2, <2>4, <3>1, <3>2, <3>3 DEF SpikeDone
  <2>5. CASE b.src \notin Registered
    <3>1. d.st.clean = 0 /\ d.tbl = alerts
      BY <2>1, <2>3, <2>5 DEF BuildAlert, Session
    <3> QED  BY <1>3, <2>5, <3>1 DEF SpikeDone, Working, StaysFinite
  <2> QED  BY <2>4, <2>5
<1>4. CASE b.err \notin Spiking
  <2> DEFINE n  == Bump(c.st.clean, 2)
             c1 == With(n)
  <2>1. n \in Nat /\ [c EXCEPT !.st.clean = Bump(@, 2)] = [c EXCEPT !.st.clean = n]
    BY <1>1, BumpType DEF SourceState, Session
  <2>2. /\ Good(c1, b, w) /\ c1 \in Session /\ c1.st.clean = n /\ c1.tbl = c.tbl
        /\ [c EXCEPT !.st.clean = Bump(@, 2)] = c1
    BY <1>2, <2>1
  <2>3. d = IF c1.st.clean >= 2 THEN TryAutoResolve(c1, b, "ERROR_RATE_SPIKE") ELSE c1
    BY <1>4, <2>2 DEF CheckErrorRateSpike
  <2> SUFFICES SpikeDone(c, d, b)
    OBVIOUS
  <2> HIDE DEF c1, d, With
  <2>4. CASE d = c1
    BY <1>4, <2>2, <2>4 DEF SpikeDone, StaysFinite
  <2>5. ASSUME c1.st.clean >= 2,
               NEW a \in OpenAlerts(c1.tbl, b.src, "ERROR_RATE_SPIKE"),
               d = [c1 EXCEPT !.tbl[a] = "resolved"]
        PROVE  SpikeDone(c, d, b)
    <3>1. a \in DOMAIN c.tbl /\ a.src = b.src
      BY <2>2 DEF OpenAlerts
    <3>2. b.src \in Registered
      BY <3>1 DEF Working, RegisteredOnly
    <3>3. d.st = c1.st /\ d.tbl = [c.tbl EXCEPT ![a] = "resolved"]
      BY <2>2, <2>5 DEF Session
    <3> HIDE DEF n
    <3> QED  BY <1>4, <2>2, <2>5, <3>1, <3>2, <3>3 DEF SpikeDone, StaysFinite, n
  <2> QED  BY <2>2, <2>3, <2>4, <2>5, ResolveEffect
<1> QED  BY <1>3, <1>4

\* A finite table has finitely many spiking services.
LEMMA FiniteServices ==
    ASSUME NEW T, NEW t, IsFiniteSet(DOMAIN T)
    PROVE  Cardinality(SpikingServices(T, t)) \in Nat
<1> DEFINE S == {x \in DOMAIN T : /\ x.type = "ERROR_RATE_SPIKE" /\ TenantOf[x.src] = t
                                  /\ T[x] = "open" /\ x.at >= now - CascadeWindow}
           g == [x \in S |-> x.svc]
<1>1. S \in SUBSET DOMAIN T
  OBVIOUS
<1>2. IsFiniteSet(S)
  BY <1>1, FS_Subset
<1>3. SpikingServices(T, t) = {x.svc : x \in S}
  BY DEF SpikingServices
<1> HIDE DEF S
<1>4. g \in Surjection(S, {x.svc : x \in S})
  BY DEF Surjection
<1>5. IsFiniteSet({x.svc : x \in S})
  BY <1>2, <1>4, FS_Surjection
<1> QED  BY <1>3, <1>5, FS_CardinalityType

\* A CASCADE is written only over enough spiking services of the tenant.
LEMMA CascadeEffect ==
    ASSUME IInv, NEW b \in Batches, NEW w, NEW c, Working(c, b, w), IsFiniteSet(DOMAIN c.tbl)
    PROVE  LET d == CheckCascade(c, b)
           IN  /\ Kept(c, d, b, TRUE)
               /\ \/ d.tbl = c.tbl
                  \/ Cardinality(SpikingServices(c.tbl, TenantOf[b.src])) >= CascadeMinServices
<1> DEFINE t  == TenantOf[b.src]
           f  == [c.fired EXCEPT ![t] = now]
           c1 == [c EXCEPT !.fired = f]
           d  == CheckCascade(c, b)
           m  == Cardinality(SpikingServices(c.tbl, t))
<1>1. c \in Session
  BY DEF Working, Good
<1>2. c1.st = c.st /\ c1.tbl = c.tbl /\ c1 = [c EXCEPT !.fired[t] = now]
  BY <1>1 DEF Session
<1>3. CASE d = c
  BY <1>3, KeptRefl
<1>4. CASE d # c
  <2> DEFINE x == NewAlert(b, "CASCADE", "CRITICAL", UnknownService, None)
  <2>1. /\ d = BuildAlert([c EXCEPT !.fired[t] = now], b, "CASCADE", "CRITICAL",
                          UnknownService, None)
        /\ ~(m < CascadeMinServices)
    BY <1>4 DEF CheckCascade
  <2>2. x.type = "CASCADE"
    BY DEF NewAlert
  <2> SUFFICES Kept(c, d, b, TRUE) /\ (d.tbl = c.tbl \/ m >= CascadeMinServices)
    OBVIOUS
  <2> HIDE DEF d, m, f
  <2>3. CASE b.src \in Registered
    <3>1. d.st = c.st /\ d.tbl = Put(c.tbl, x, "open")
      BY <1>1, <1>2, <2>1, <2>3 DEF BuildAlert, Session
    <3> HIDE DEF x
    <3>2. Kept(c, d, b, TRUE)
      <4>1. /\ DOMAIN d.tbl = DOMAIN c.tbl \cup {x}
            /\ \A y \in DOMAIN d.tbl : y # x => d.tbl[y] = c.tbl[y]
        BY <3>1 DEF Put
      <4>2. StaysFinite(c.tbl, d.tbl)
        BY <4>1, OneMore
      <4> QED  BY <2>2, <2>3, <3>1, <4>1, <4>2 DEF Kept, SameSpikes
    <3>3. m >= CascadeMinServices
      <4>1. m \in Nat
        BY FiniteServices DEF m
      <4> QED  BY <2>1, <4>1, EngineAssumption
    <3> QED  BY <3>2, <3>3
  <2>4. CASE b.src \notin Registered
    <3>1. d.st = c.st /\ d.tbl = alerts
      BY <1>1, <1>2, <2>1, <2>4 DEF BuildAlert, Session
    <3> QED  BY <2>4, <3>1, KeptRefl DEF Working
  <2> QED  BY <2>3, <2>4
<1> QED  BY <1>3, <1>4

-----------------------------------------------------------------------------
(* All detectors, and the whole session. *)

\* What one batch of detection does to the count, the spikes and the cascades.
Detected(c, d, b) ==
    /\ d.st.clean = IF b.err \in Spiking THEN 0 ELSE Bump(c.st.clean, 2)
    /\ DOMAIN c.tbl \subseteq DOMAIN d.tbl /\ StaysFinite(c.tbl, d.tbl)
    /\ \A x \in DOMAIN c.tbl :
          x.type = "ERROR_RATE_SPIKE" /\ c.tbl[x] = "open" /\ d.tbl[x] = "resolved"
              => d.st.clean >= 2 /\ b.err \notin Spiking
    /\ \A x \in DOMAIN d.tbl \ DOMAIN c.tbl : x.type = "CASCADE" =>
          Cardinality(SpikingServices(d.tbl, TenantOf[b.src])) >= CascadeMinServices
    /\ b.src \notin Registered => d.tbl = c.tbl

LEMMA ThenKept ==
    ASSUME NEW b, NEW c, NEW d, NEW cascade \in BOOLEAN, Kept(c, d, b, cascade)
    PROVE  Kept(c, Then(c, d), b, cascade)
BY KeptRefl DEF Then

LEMMA DetectorsEffect ==
    ASSUME IInv, RegisteredOnly(alerts), NEW b \in Batches, NEW w, NEW c, Working(c, b, w),
           IsFiniteSet(DOMAIN c.tbl), NEW keep
    PROVE  Detected(c, RunDetectors(c, b, keep), b)
<1> DEFINE c1 == CheckErrorRateSpike(c, b)
           c2 == Then(c1, CheckCascade(c1, b))
           c3 == Then(c2, CheckSustainedElevation(c2, b))
           c4 == Then(c3, CheckLatencySpike(c3, b))
           c5 == Then(c4, CheckNovelError(c4, b, keep))
           t  == TenantOf[b.src]
           Enough(T) == Cardinality(SpikingServices(T, t)) >= CascadeMinServices
<1>1. SpikeDone(c, c1, b) /\ Working(c1, b, w) /\ IsFiniteSet(DOMAIN c1.tbl)
  <2>1. SpikeDone(c, c1, b)
    BY SpikeEffect
  <2>2. Good(c1, b, w)
    BY SpikeGood DEF Working
  <2> HIDE DEF c1
  <2> QED  BY <2>1, <2>2 DEF SpikeDone, StaysFinite, Working
<1> HIDE DEF c1
<1>2. Kept(c1, c2, b, TRUE) /\ (c2.tbl = c1.tbl \/ Enough(c1.tbl)) /\ Working(c2, b, w)
  <2> DEFINE d == CheckCascade(c1, b)
  <2>1. Kept(c1, d, b, TRUE) /\ (d.tbl = c1.tbl \/ Enough(c1.tbl)) /\ Good(d, b, w)
    BY <1>1, CascadeEffect, CascadeGood DEF Working
  <2> HIDE DEF d, Enough
  <2>2. Kept(c1, Then(c1, d), b, TRUE) /\ Good(Then(c1, d), b, w)
    BY <1>1, <2>1, ThenKept, ThenGood DEF Working
  <2>3. Then(c1, d).tbl = c1.tbl \/ Enough(c1.tbl)
    BY <2>1 DEF Then
  <2> QED  BY <1>1, <2>2, <2>3, KeptWorks DEF d
<1> HIDE DEF c2
<1>3. Kept(c2, c3, b, FALSE) /\ Working(c3, b, w)
  <2>1. Kept(c2, c3, b, FALSE)
    BY <1>2, SustainedKept, ThenKept
  <2>2. Good(c3, b, w)
    BY <1>2, SustainedGood, ThenGood DEF Working
  <2> HIDE DEF c3
  <2> QED  BY <1>2, <2>1, <2>2, KeptWorks
<1> HIDE DEF c3
<1>4. Kept(c3, c4, b, FALSE) /\ Working(c4, b, w)
  <2>1. Kept(c3, c4, b, FALSE)
    BY <1>3, LatencyKept, ThenKept
  <2>2. Good(c4, b, w)
    BY <1>3, LatencyGood, ThenGood DEF Working
  <2> HIDE DEF c4
  <2> QED  BY <1>3, <2>1, <2>2, KeptWorks
<1> HIDE DEF c4
<1>5. Kept(c4, c5, b, FALSE)
  BY <1>4, NovelKept, ThenKept
<1> HIDE DEF c5
<1>6. Kept(c2, c5, b, FALSE)
  BY <1>3, <1>4, <1>5, KeptTrans
<1>7. SpikingServices(c5.tbl, t) = SpikingServices(c1.tbl, t)
  <2>1. SameSpikes(c1.tbl, c2.tbl, TRUE) /\ SameSpikes(c2.tbl, c5.tbl, FALSE)
    BY <1>2, <1>6 DEF Kept
  <2> HIDE DEF t
  <2>2. SpikingServices(c2.tbl, t) = SpikingServices(c1.tbl, t)
    BY <2>1, SameServices
  <2>3. SpikingServices(c5.tbl, t) = SpikingServices(c2.tbl, t)
    BY <2>1, SameServices
  <2> QED  BY <2>2, <2>3
<1>8. \A x \in DOMAIN c5.tbl \ DOMAIN c.tbl : x.type = "CASCADE" => Enough(c5.tbl)
  <2> SUFFICES ASSUME NEW x \in DOMAIN c5.tbl \ DOMAIN c.tbl, x.type = "CASCADE"
               PROVE  Enough(c1.tbl)
    BY <1>7
  <2>1. x \in DOMAIN c2.tbl
    BY <1>6 DEF Kept, SameSpikes
  <2>2. x \notin DOMAIN c1.tbl
    BY <1>1 DEF SpikeDone
  <2> QED  BY <1>2, <2>1, <2>2
<1>9. Kept(c1, c5, b, TRUE)
  BY <1>2, <1>6, KeptWeaken, KeptTrans
<1> HIDE DEF Enough
<1>10. c5.st.clean = c1.st.clean /\ DOMAIN c1.tbl \subseteq DOMAIN c5.tbl
       /\ StaysFinite(c1.tbl, c5.tbl) /\ (b.src \notin Registered => c5.tbl = c1.tbl)
       /\ \A x \in DOMAIN c1.tbl : x.type = "ERROR_RATE_SPIKE" => c5.tbl[x] = c1.tbl[x]
  BY <1>9 DEF Kept, SameSpikes
<1>11. Detected(c, c5, b)
  BY <1>1, <1>8, <1>10 DEF Detected, SpikeDone, StaysFinite, Enough
<1> QED  BY <1>11 DEF RunDetectors, c1, c2, c3, c4, c5

\* The end of a batch of a source that had seen n batches since the last attempt
\* to write its row: it is counted, or the row is written, or that fails.
Saved(d, b, n) ==
    \/ d.st.since = n + 1 /\ d.st.since < PersistEvery /\ ~d.failed /\ d.rows = rows
    \/ d.st.since = 0 /\ n + 1 >= PersistEvery /\ ~d.failed
          /\ d.rows = [rows EXCEPT ![b.src] = Persisted(d.st)]
    \/ d.st.since = 0 /\ n + 1 >= PersistEvery /\ d.failed /\ d.rows = rows

\* Only a failed write touches the table, and only to roll the session back.
LEMMA PersistEffect ==
    ASSUME IInv, NEW b \in Batches, NEW w, NEW c, Working(c, b, w),
           NEW outcome \in Outcomes(b.src)
    PROVE  LET d == PersistEveryN(c, b, outcome)
           IN  /\ d.tbl = c.tbl \/ d.tbl = alerts
               /\ d.st.clean = c.st.clean /\ d.st.warm = c.st.warm
               /\ Saved(d, b, LoadState(b.src).since)
<1> DEFINE With(n) == [c EXCEPT !.st = [c.st EXCEPT !.since = n]]
           d == PersistEveryN(c, b, outcome)
           n == LoadState(b.src).since
<1>1. /\ c \in Session /\ c.st \in SourceState /\ c.rows = rows /\ c.st.since = n
      /\ n \in Nat /\ ~c.failed
  BY SessionType DEF Working, Good, SourceState
<1> HIDE DEF n
<1>2. ASSUME NEW m \in Nat
      PROVE  /\ With(m) \in Session /\ With(m).tbl = c.tbl /\ With(m).rows = rows
             /\ With(m).st.clean = c.st.clean /\ With(m).st.warm = c.st.warm
             /\ With(m).st.since = m /\ ~With(m).failed
             /\ [c EXCEPT !.st.since = m] = With(m)
  <2> DEFINE st == [c.st EXCEPT !.since = m]
  <2>1. st \in SourceState /\ st.clean = c.st.clean /\ st.warm = c.st.warm /\ st.since = m
    BY <1>1 DEF SourceState
  <2>2. [c EXCEPT !.st.since = m] = With(m)
    BY <1>1 DEF Session
  <2> HIDE DEF st
  <2>3. /\ [c EXCEPT !.st = st] \in Session /\ [c EXCEPT !.st = st].tbl = c.tbl
        /\ [c EXCEPT !.st = st].rows = rows /\ [c EXCEPT !.st = st].st = st
        /\ ~[c EXCEPT !.st = st].failed
    BY <1>1, <2>1 DEF Session
  <2> QED  BY <2>1, <2>2, <2>3 DEF st
<1> DEFINE c2 == With(0)
           r  == Persisted(c2.st)
<1>3. n + 1 \in Nat /\ [c EXCEPT !.st.since = @ + 1] = [c EXCEPT !.st.since = n + 1]
  BY <1>1 DEF Session
<1>4. \/ n + 1 < PersistEvery /\ d = With(n + 1)
      \/ ~(n + 1 < PersistEvery) /\ d = [c2 EXCEPT !.rows[b.src] = r]
      \/ ~(n + 1 < PersistEvery) /\ d = [c2 EXCEPT !.failed = TRUE]
      \/ ~(n + 1 < PersistEvery)
            /\ d = [c2 EXCEPT !.tbl = alerts, !.rows = rows, !.failed = TRUE]
  <2> DEFINE c1 == With(n + 1)
  <2>1. /\ [c EXCEPT !.st.since = @ + 1] = c1 /\ [c EXCEPT !.st.since = 0] = c2
        /\ c1.st.since = n + 1
    BY <1>2, <1>3
  <2> HIDE DEF c1, c2
  <2>2. d = IF n + 1 < PersistEvery THEN c1 ELSE PersistState(c2, b, outcome)
    BY <2>1, Zenon DEF PersistEveryN
  <2>3. \/ PersistState(c2, b, outcome) = [c2 EXCEPT !.rows[b.src] = r]
        \/ PersistState(c2, b, outcome) = [c2 EXCEPT !.failed = TRUE]
        \/ PersistState(c2, b, outcome)
              = [c2 EXCEPT !.tbl = alerts, !.rows = rows, !.failed = TRUE]
    BY Zenon DEF PersistState
  <2> HIDE DEF d
  <2> QED  BY <2>2, <2>3, Zenon DEF c1
<1>5. /\ c2 \in Session /\ c2.tbl = c.tbl /\ c2.rows = rows /\ c2.st.since = 0
      /\ c2.st.clean = c.st.clean /\ c2.st.warm = c.st.warm /\ ~c2.failed
  BY <1>2
<1> SUFFICES /\ d.tbl = c.tbl \/ d.tbl = alerts
             /\ d.st.clean = c.st.clean /\ d.st.warm = c.st.warm
             /\ Saved(d, b, n)
  BY DEF n
<1> HIDE DEF c2, d
<1>6. CASE n + 1 < PersistEvery /\ d = With(n + 1)
  BY <1>2, <1>3, <1>6 DEF Saved
<1> HIDE DEF With
<1>9. PersistEvery \in Nat
  BY EngineAssumption
<1>7. CASE ~(n + 1 < PersistEvery) /\ d = [c2 EXCEPT !.rows[b.src] = r]
  <2>1. d.tbl = c2.tbl /\ d.st = c2.st /\ d.rows = [c2.rows EXCEPT ![b.src] = r]
        /\ d.failed = c2.failed
    BY <1>5, <1>7 DEF Session
  <2> QED  BY <1>1, <1>5, <1>7, <1>9, <2>1 DEF Saved
<1>8. CASE /\ ~(n + 1 < PersistEvery)
           /\ \/ d = [c2 EXCEPT !.failed = TRUE]
              \/ d = [c2 EXCEPT !.tbl = alerts, !.rows = rows, !.failed = TRUE]
  <2>1. d.tbl \in {c2.tbl, alerts} /\ d.st = c2.st /\ d.rows = rows /\ d.failed
    BY <1>5, <1>8 DEF Session
  <2> QED  BY <1>1, <1>5, <1>8, <1>9, <2>1 DEF Saved
<1> QED  BY <1>4, <1>6, <1>7, <1>8

\* What a whole batch does, in the words of the properties.
Told(d, b) ==
    LET L == LoadState(b.src)
    IN  /\ StaysFinite(alerts, d.tbl)
        /\ b.src \notin Registered => d.tbl = alerts
        /\ \A a \in DOMAIN d.tbl \ DOMAIN alerts :
              /\ a.type # "SERVICE_SILENCE" => Warm(d.st)
              /\ a.type = "CASCADE" =>
                    Cardinality(SpikingServices(d.tbl, TenantOf[b.src])) >= CascadeMinServices
        /\ \A a \in DOMAIN alerts :
              a.type = "ERROR_RATE_SPIKE" /\ alerts[a] = "open" /\ d.tbl[a] = "resolved"
                  => Warm(d.st) /\ d.st.clean >= 2 /\ b.err \notin Spiking
        /\ d.st.warm \in {L.warm, Bump(L.warm, WarmupRequired)}
        /\ b.src \in Registered =>
              /\ d.st.warm = Bump(L.warm, WarmupRequired)
              /\ d.st.clean = IF ~Warm(d.st) THEN L.clean
                              ELSE IF b.err \in Spiking THEN 0 ELSE Bump(L.clean, 2)

LEMMA ProcessTold ==
    ASSUME IInv, RegisteredOnly(alerts), IsFiniteSet(DOMAIN alerts), NEW b \in Batches, NEW keep,
           NEW outcome \in Outcomes(b.src)
    PROVE  LET d == Process(b, keep, outcome)
           IN  /\ Told(d, b)
               /\ d.rows = rows \/ Saved(d, b, LoadState(b.src).since)
               /\ b.src \in Registered => Saved(d, b, LoadState(b.src).since)
<1> DEFINE L  == LoadState(b.src)
           c0 == Begin(b.src)
           c1 == CheckServiceSilence(c0, b)
           c2 == Then(c1, UpdateBaselines(c1, b))
           c3 == IF c2.ok /\ Warm(c2.st) THEN RunDetectors(c2, b, keep) ELSE c2
           c4 == Then(c3, PersistEveryN(c3, b, outcome))
           New(T) == DOMAIN T \ DOMAIN alerts
           Enough(T) == Cardinality(SpikingServices(T, TenantOf[b.src])) >= CascadeMinServices
<1>0. L \in SourceState /\ L.warm \in Nat
  BY LoadStateType, BatchType DEF IInv, Batch, SourceState
<1>1. Working(c0, b, L.warm) /\ c0.tbl = alerts /\ c0.st = L
  BY BeginGood DEF Working, Begin
<1> HIDE DEF c0, L
<1>2. Kept(c0, c1, b, FALSE) /\ Working(c1, b, L.warm)
      /\ \A a \in New(c1.tbl) : a.type = "SERVICE_SILENCE"
  <2>1. Kept(c0, c1, b, FALSE) /\ \A a \in New(c1.tbl) : a.type = "SERVICE_SILENCE"
    BY <1>1, SilenceKept
  <2>2. Good(c1, b, L.warm)
    BY <1>1, SilenceGood DEF Working
  <2> HIDE DEF c1
  <2> QED  BY <1>1, <2>1, <2>2, KeptWorks
<1> HIDE DEF c1
<1>3. /\ Kept(c1, c2, b, FALSE) /\ c2.tbl = c1.tbl
      /\ \E w \in {L.warm, Bump(L.warm, WarmupRequired)} : Working(c2, b, w)
      /\ b.src \in Registered => Working(c2, b, Bump(L.warm, WarmupRequired))
  <2> DEFINE d == UpdateBaselines(c1, b)
             w == Bump(L.warm, WarmupRequired)
  <2>1. Kept(c1, d, b, FALSE) /\ d.tbl = c1.tbl
    BY <1>2, UpdateBaselinesKept
  <2>2. Good(d, b, w)
    BY <1>0, <1>2, UpdateBaselinesGood DEF Working
  <2> HIDE DEF d, w
  <2>3. Working(d, b, w)
    BY <1>2, <2>1, <2>2, KeptWorks
  <2>4. CASE c1.ok
    BY <2>1, <2>3, <2>4 DEF Then, d, w
  <2>5. CASE ~c1.ok
    <3>1. c2 = c1 /\ b.src \notin Registered
      BY <1>2, <2>5 DEF Then, Working, Good
    <3> QED  BY <1>2, <3>1, KeptRefl
  <2> QED  BY <2>4, <2>5
<1> HIDE DEF c2
<1>4. PICK w \in {L.warm, Bump(L.warm, WarmupRequired)} :
         Working(c2, b, w) /\ (b.src \in Registered => w = Bump(L.warm, WarmupRequired))
  BY <1>3
<1>5. c2.st.warm = w /\ c2.st.clean = L.clean /\ (b.src \in Registered => c2.ok)
  BY <1>1, <1>2, <1>3, <1>4 DEF Working, Good, Kept
<1>6. /\ DOMAIN alerts \subseteq DOMAIN c2.tbl /\ StaysFinite(alerts, c2.tbl)
      /\ \A a \in DOMAIN alerts : a.type = "ERROR_RATE_SPIKE" => c2.tbl[a] = alerts[a]
      /\ \A a \in New(c2.tbl) : a.type = "SERVICE_SILENCE"
  BY <1>1, <1>2, <1>3 DEF Kept, SameSpikes, StaysFinite
<1>7. Told(c3, b)
  <2>1. CASE ~(c2.ok /\ Warm(c2.st))
    <3>1. c3 = c2 /\ (b.src \in Registered => ~Warm(c2.st))
      BY <1>5, <2>1
    <3>2. b.src \notin Registered => c2.tbl = alerts
      BY <1>4 DEF Working
    <3> HIDE DEF c3
    <3> QED  BY <1>4, <1>5, <1>6, <3>1, <3>2 DEF Told, L
  <2>2. CASE c2.ok /\ Warm(c2.st)
    <3>1. c3 = RunDetectors(c2, b, keep)
      BY <2>2
    <3>2. IsFiniteSet(DOMAIN c2.tbl)
      BY <1>6 DEF StaysFinite
    <3>3. Detected(c2, c3, b)
      BY <1>4, <3>1, <3>2, DetectorsEffect
    <3>4. Good(c3, b, w)
      BY <1>4, <3>1, RunDetectorsGood DEF Working
    <3>5. c3.st.warm = w /\ Warm(c3.st)
      BY <1>5, <2>2, <3>4 DEF Good, Warm
    <3>6. b.src \notin Registered => c2.tbl = alerts
      BY <1>4 DEF Working
    <3> HIDE DEF c3
    <3>7. StaysFinite(alerts, c3.tbl) /\ (b.src \notin Registered => c3.tbl = alerts)
      BY <1>6, <3>3, <3>6 DEF Detected, StaysFinite
    <3>8. \A a \in New(c3.tbl) : a.type = "CASCADE" => Enough(c3.tbl)
      BY <1>6, <3>3 DEF Detected
    <3>9. \A a \in DOMAIN alerts :
             a.type = "ERROR_RATE_SPIKE" /\ alerts[a] = "open" /\ c3.tbl[a] = "resolved"
                  => c3.st.clean >= 2 /\ b.err \notin Spiking
      BY <1>6, <3>3 DEF Detected
    <3>10. c3.st.clean = IF b.err \in Spiking THEN 0 ELSE Bump(L.clean, 2)
      BY <1>5, <3>3 DEF Detected
    <3> QED  BY <1>4, <3>5, <3>7, <3>8, <3>9, <3>10 DEF Told, L
  <2> QED  BY <2>1, <2>2
<1>8. Working(c3, b, w)
  <2>1. Good(c3, b, w)
    BY <1>4, RunDetectorsGood DEF Working
  <2> HIDE DEF c3
  <2> QED  BY <1>7, <2>1 DEF Told, Working
<1>9. c3.rows = rows
  BY <1>8 DEF Working, Good
<1> HIDE DEF c3
<1>10. /\ c4.tbl = c3.tbl \/ c4.tbl = alerts
       /\ c4.st.clean = c3.st.clean /\ c4.st.warm = c3.st.warm
       /\ c4.rows = rows \/ Saved(c4, b, L.since)
       /\ b.src \in Registered => Saved(c4, b, L.since)
  <2> DEFINE d == PersistEveryN(c3, b, outcome)
  <2>1. /\ d.tbl = c3.tbl \/ d.tbl = alerts
        /\ d.st.clean = c3.st.clean /\ d.st.warm = c3.st.warm
        /\ Saved(d, b, L.since)
    BY <1>8, PersistEffect DEF L
  <2>2. CASE c3.ok
    <3>1. c4 = d
      BY <2>2 DEF Then
    <3> HIDE DEF d, c4
    <3> QED  BY <2>1, <3>1
  <2>3. CASE ~c3.ok
    <3>1. c4 = c3 /\ b.src \notin Registered
      BY <1>8, <2>3 DEF Then, Working, Good
    <3> HIDE DEF c4
    <3> QED  BY <1>9, <3>1
  <2> QED  BY <2>2, <2>3
<1> HIDE DEF c4
<1>11. Told(c4, b)
  <2>1. CASE c4.tbl = c3.tbl
    BY <1>7, <1>10, <2>1 DEF Told, Warm
  <2>2. CASE c4.tbl = alerts
    BY <1>7, <1>10, <2>2 DEF Told, Warm, StaysFinite
  <2> QED  BY <1>10, <2>1, <2>2
<1> QED  BY <1>10, <1>11 DEF Process, c0, c1, c2, c3, c4, L

-----------------------------------------------------------------------------
(* Cascades, for the engine alone. *)

EngineInv ==
    /\ IInv
    /\ RegisteredOnly(alerts)
    /\ IsFiniteSet(DOMAIN alerts)
    /\ CascadeIsBacked

\* With no new alerts and no change but fewer alerts or other statuses, nothing
\* is left to show.
LEMMA NothingReported ==
    ASSUME EngineInv, IInv', reported' = {}, DOMAIN alerts' \in SUBSET DOMAIN alerts
    PROVE  EngineInv'
<1>1. IsFiniteSet(DOMAIN alerts)'
  BY FS_Subset DEF EngineInv
<1> QED  BY <1>1 DEF EngineInv, RegisteredOnly, CascadeIsBacked

LEMMA IngestBacked ==
    ASSUME EngineInv, NEW b \in Batches, Ingest(b)
    PROVE  RegisteredOnly(alerts)' /\ IsFiniteSet(DOMAIN alerts)' /\ CascadeIsBacked'
<1>1. PICK keep \in Remembered(b), outcome \in Outcomes(b.src) :
         Finish(b, Process(b, keep, outcome))
  BY DEF Ingest
<1> DEFINE c == Process(b, keep, outcome)
           t == TenantOf[b.src]
<1>2. Done(c, b) /\ Told(c, b)
  BY ProcessDone, ProcessTold DEF EngineInv
<1>3. /\ reported' = DOMAIN c.tbl \ DOMAIN alerts /\ now' = now
      /\ alerts' = c.tbl \/ alerts' = alerts
  BY <1>1 DEF Finish
<1> HIDE DEF c
<1>4. RegisteredOnly(c.tbl)
  BY <1>2 DEF Done, Grown, Told, RegisteredOnly, EngineInv
<1>5. IsFiniteSet(DOMAIN c.tbl)
  BY <1>2 DEF Told, StaysFinite, EngineInv
<1>6. CascadeIsBacked'
  <2> SUFFICES ASSUME NEW a \in reported' \cap DOMAIN alerts', a.type = "CASCADE"
               PROVE  Cardinality({x.svc : x \in {y \in DOMAIN alerts' :
                         /\ y.type = "ERROR_RATE_SPIKE" /\ alerts'[y] = "open"
                         /\ TenantOf[y.src] = TenantOf[a.src]
                         /\ a.at - y.at <= CascadeWindow}}) >= CascadeMinServices
    BY DEF CascadeIsBacked
  <2>1. a \in DOMAIN c.tbl \ DOMAIN alerts /\ alerts' = c.tbl
    BY <1>3
  <2>2. a.src = b.src /\ a.at = now /\ now \in Int
    BY <1>2, <2>1 DEF Done, Grown, EngineInv, IInv, TypeOK
  <2>3. Cardinality(SpikingServices(c.tbl, t)) >= CascadeMinServices
    BY <1>2, <2>1 DEF Told
  <2>4. \A y \in DOMAIN c.tbl : y.at \in Int
    <3>1. c.tbl \in Table
      BY <1>2 DEF Done, Session
    <3> QED  BY <3>1, TableDef DEF AlertId
  <2>5. \A y \in DOMAIN c.tbl : now - y.at <= CascadeWindow <=> y.at >= now - CascadeWindow
    BY <2>2, <2>4, EngineAssumption
  <2>6. {y \in DOMAIN alerts' :
            /\ y.type = "ERROR_RATE_SPIKE" /\ alerts'[y] = "open"
            /\ TenantOf[y.src] = TenantOf[a.src]
            /\ a.at - y.at <= CascadeWindow}
      = {y \in DOMAIN c.tbl :
            /\ y.type = "ERROR_RATE_SPIKE" /\ TenantOf[y.src] = t
            /\ c.tbl[y] = "open" /\ y.at >= now - CascadeWindow}
    BY <2>1, <2>2, <2>5
  <2> QED  BY <2>3, <2>6 DEF SpikingServices
<1> QED  BY <1>3, <1>4, <1>5, <1>6 DEF EngineInv

LEMMA EngineInit == Init => EngineInv
<1> SUFFICES ASSUME Init PROVE EngineInv
  OBVIOUS
<1>1. DOMAIN alerts = {} /\ reported = {}
  BY DEF Init
<1>2. IInv
  BY InitInv
<1> QED  BY <1>1, <1>2, FS_EmptySet DEF EngineInv, RegisteredOnly, CascadeIsBacked

LEMMA EngineNext == EngineInv /\ [Next]_vars => EngineInv'
<1> SUFFICES ASSUME EngineInv, [Next]_vars PROVE EngineInv'
  OBVIOUS
<1>0. IInv'
  BY NextInv DEF EngineInv
<1>1. ASSUME NEW b \in Batches, Ingest(b)
      PROVE  EngineInv'
  BY <1>0, <1>1, IngestBacked DEF EngineInv
<1>2. ASSUME NEW a \in DOMAIN alerts, Acknowledge(a)
      PROVE  EngineInv'
  BY <1>0, <1>2, NothingReported DEF Acknowledge
<1>3. ASSUME NEW t \in Tenants, CleanTenant(t)
      PROVE  EngineInv'
  BY <1>0, <1>3, NothingReported DEF CleanTenant
<1>4. CASE Crash \/ Shutdown \/ Tick
  BY <1>0, <1>4, NothingReported DEF Crash, Shutdown, LoseMemory, Tick
<1>5. CASE UNCHANGED vars
  BY <1>0, <1>5 DEF vars, EngineInv, RegisteredOnly, CascadeIsBacked
<1> QED  BY <1>1, <1>2, <1>3, <1>4, <1>5 DEF Next

\* The detectors that run after CheckCascade leave the spikes it counted as they
\* were, so its evidence is still in the table when the batch is committed, for
\* any number of tenants, sources and services.
THEOREM CascadesAreBacked == Spec => []CascadeIsBacked
<1>1. EngineInv => CascadeIsBacked
  BY DEF EngineInv
<1> QED  BY <1>1, EngineInit, EngineNext, PTL DEF Spec

-----------------------------------------------------------------------------
(* The engine and what its sources really sent. *)

\* No count of the engine is ahead of what the source sent.
CountsAreReal ==
    /\ DOMAIN sent = Sources
    /\ \A s \in Sources :
          /\ sent[s].total \in Nat /\ sent[s].calm \in Nat
          /\ cache[s] # None => cache[s].warm <= sent[s].total
          /\ rows[s] # None => rows[s].warm <= sent[s].total

\* Clean windows are only counted by a source that is warm.
CleanIsCalm ==
    \A s \in Registered : cache[s] # None =>
        /\ cache[s].clean <= sent[s].calm
        /\ cache[s].clean = 0 \/ Warm(cache[s])

MonitorInv ==
    /\ EngineInv
    /\ CountsAreReal
    /\ CleanIsCalm
    /\ NoAlertBeforeWarmup

LEMMA BumpMonotone ==
    \A m, n, k \in Nat : m <= n => Bump(m, k) <= Bump(n, k) /\ m <= Bump(n, k) /\ m <= Bump(m, k)
BY DEF Bump

LEMMA LoadedReal ==
    ASSUME MonitorInv, NEW s \in Sources
    PROVE  /\ LoadState(s).warm \in Nat /\ LoadState(s).warm <= sent[s].total
           /\ LoadState(s).clean \in Nat
           /\ s \in Registered => /\ LoadState(s).clean <= sent[s].calm
                                  /\ LoadState(s).clean = 0 \/ Warm(LoadState(s))
<1>1. LoadState(s) \in SourceState
  BY LoadStateType DEF MonitorInv, EngineInv, IInv
<1>2. sent[s].total \in Nat /\ sent[s].calm \in Nat
  BY DEF MonitorInv, CountsAreReal
<1>3. CASE cache[s] # None
  BY <1>1, <1>3 DEF MonitorInv, CountsAreReal, CleanIsCalm, LoadState, SourceState
<1>4. CASE cache[s] = None
  <2>1. rows[s] # None => rows[s].warm <= sent[s].total
    BY DEF MonitorInv, CountsAreReal
  <2>2. LoadState(s).clean = 0
    BY <1>4 DEF LoadState, FromRow
  <2>3. LoadState(s).warm = IF rows[s] # None THEN rows[s].warm ELSE 0
    BY <1>4 DEF LoadState, FromRow, EmptyRow
  <2> QED  BY <1>1, <1>2, <2>1, <2>2, <2>3 DEF SourceState
<1> QED  BY <1>3, <1>4

\* The batch of one source, as its observer and the engine see it.
LEMMA MIngestFacts ==
    ASSUME MonitorInv, NEW b \in Batches, MIngest(b)
    PROVE  \E c : /\ Done(c, b) /\ Told(c, b) /\ Finish(b, c)
                  /\ c.rows = rows \/ c.rows = [rows EXCEPT ![b.src] = Persisted(c.st)]
                  /\ b.src \in Registered => Saved(c, b, LoadState(b.src).since)
<1>1. PICK keep \in Remembered(b), outcome \in Outcomes(b.src) :
         Finish(b, Process(b, keep, outcome))
  BY DEF MIngest, Ingest
<1> DEFINE c == Process(b, keep, outcome)
<1>2. /\ Done(c, b) /\ Told(c, b)
      /\ c.rows = rows \/ Saved(c, b, LoadState(b.src).since)
      /\ b.src \in Registered => Saved(c, b, LoadState(b.src).since)
  BY ProcessDone, ProcessTold DEF MonitorInv, EngineInv
<1> HIDE DEF c
<1>3. c.rows = rows \/ c.rows = [rows EXCEPT ![b.src] = Persisted(c.st)]
  BY <1>2 DEF Saved
<1> QED  BY <1>1, <1>2, <1>3 DEF c

LEMMA MIngestCounts ==
    ASSUME MonitorInv, NEW b \in Batches, MIngest(b)
    PROVE  /\ CountsAreReal' /\ CleanIsCalm' /\ NoAlertBeforeWarmup'
           /\ b.src \in Registered => cache'[b.src].clean <= sent'[b.src].calm
<1> DEFINE s == b.src
           L == LoadState(s)
           W == WarmupRequired
           total == sent'[s].total
           calm  == sent'[s].calm
<1>1. PICK c : /\ Done(c, b) /\ Told(c, b) /\ Finish(b, c)
               /\ c.rows = rows \/ c.rows = [rows EXCEPT ![s] = Persisted(c.st)]
  BY MIngestFacts
<1>2. /\ s \in Sources /\ W \in Nat
      /\ cache \in [Sources -> SourceState \cup {None}] /\ rows \in [Sources -> Row \cup {None}]
      /\ DOMAIN sent = Sources
      /\ c.st \in SourceState /\ None \notin Row
  BY <1>1, BatchType, EngineAssumption, NoRowAssumption
  DEF Batch, MonitorInv, EngineInv, IInv, TypeOK, CountsAreReal, Done, Session
<1>3. /\ cache' = [cache EXCEPT ![s] = c.st]
      /\ rows' = rows \/ rows' = [rows EXCEPT ![s] = Persisted(c.st)]
      /\ reported' = DOMAIN c.tbl \ DOMAIN alerts
  BY <1>1 DEF Finish
<1>4. sent' = [sent EXCEPT ![s] = Observe(sent[s], b)]
  BY DEF MIngest
<1>5. /\ DOMAIN sent' = Sources
      /\ \A r \in Sources \ {s} : sent'[r] = sent[r] /\ cache'[r] = cache[r] /\ rows'[r] = rows[r]
      /\ total = Bump(sent[s].total, W)
      /\ calm = IF b.err \in Spiking THEN 0 ELSE Bump(sent[s].calm, 2)
      /\ cache'[s] = c.st
      /\ rows'[s] = rows[s] \/ rows'[s] = Persisted(c.st)
  BY <1>2, <1>3, <1>4 DEF Observe
<1>6. /\ sent[s].total \in Nat /\ sent[s].calm \in Nat
      /\ L.warm \in Nat /\ L.warm <= sent[s].total /\ L.clean \in Nat
      /\ s \in Registered => L.clean <= sent[s].calm /\ (L.clean = 0 \/ Warm(L))
      /\ rows[s] # None => rows[s].warm <= sent[s].total
  BY <1>2, LoadedReal DEF MonitorInv, CountsAreReal
<1>7. /\ c.st.warm \in {L.warm, Bump(L.warm, W)}
      /\ s \in Registered =>
              /\ c.st.warm = Bump(L.warm, W)
              /\ c.st.clean = IF ~Warm(c.st) THEN L.clean
                              ELSE IF b.err \in Spiking THEN 0 ELSE Bump(L.clean, 2)
      /\ \A a \in reported' : a.type # "SERVICE_SILENCE" => Warm(c.st)
  BY <1>1, <1>3 DEF Told
<1>8. \A a \in reported' : a.src = s
  BY <1>1, <1>3 DEF Done, Grown
<1>9. Persisted(c.st).warm = c.st.warm
  BY DEF Persisted
<1> HIDE DEF L, W, total, calm, s
<1>10. total \in Nat /\ calm \in Nat
  BY <1>2, <1>5, <1>6, BumpType
<1>11. c.st.warm <= total /\ sent[s].total <= total /\ c.st.warm \in Nat
  <2> DEFINE m == L.warm
             n == sent[s].total
  <2>1. m \in Nat /\ n \in Nat /\ m <= n /\ W \in Nat
    BY <1>2, <1>6
  <2> HIDE DEF m, n
  <2>2. /\ m <= Bump(n, W) /\ Bump(m, W) <= Bump(n, W) /\ n <= Bump(n, W)
        /\ Bump(m, W) \in Nat
    BY <2>1, BumpMonotone, BumpType
  <2>3. c.st.warm \in {m, Bump(m, W)} /\ total = Bump(n, W)
    BY <1>5, <1>7 DEF m, n
  <2> QED  BY <2>1, <2>2, <2>3 DEF n
<1>12. CountsAreReal'
  <2> SUFFICES ASSUME NEW r \in Sources
               PROVE  /\ sent'[r].total \in Nat /\ sent'[r].calm \in Nat
                      /\ cache'[r] # None => cache'[r].warm <= sent'[r].total
                      /\ rows'[r] # None => rows'[r].warm <= sent'[r].total
    BY <1>5 DEF CountsAreReal
  <2>1. CASE r # s
    BY <1>5, <2>1 DEF MonitorInv, CountsAreReal
  <2>2. CASE r = s
    <3>1. rows'[s] # None => rows'[s].warm <= total
      <4>1. CASE rows'[s] = Persisted(c.st)
        BY <4>1, <1>9, <1>11
      <4>2. CASE rows'[s] = rows[s]
        <5>1. rows[s] # None => rows[s].warm \in Nat
          BY <1>2 DEF Row
        <5> QED  BY <4>2, <5>1, <1>6, <1>10, <1>11
      <4> QED  BY <4>1, <4>2, <1>5
    <3> QED  BY <2>2, <3>1, <1>5, <1>10, <1>11 DEF total, calm
  <2> QED  BY <2>1, <2>2
<1>13. ASSUME s \in Registered
       PROVE  c.st.clean <= calm /\ (c.st.clean = 0 \/ Warm(c.st))
  <2>1. ~Warm(c.st) => L.clean = 0
    <3>1. L.warm <= Bump(L.warm, W) /\ Bump(L.warm, W) \in Nat
      BY <1>2, <1>6, BumpMonotone, BumpType
    <3> QED  BY <3>1, <1>2, <1>6, <1>7, <1>13 DEF Warm, W
  <2>2. Bump(L.clean, 2) <= Bump(sent[s].calm, 2)
    BY <1>6, <1>13, BumpMonotone
  <2>3. c.st.clean <= calm
    BY <1>5, <1>7, <1>10, <1>13, <2>1, <2>2
  <2> QED  BY <1>7, <1>13, <2>1, <2>3
<1>14. CleanIsCalm'
  <2> SUFFICES ASSUME NEW r \in Registered, cache'[r] # None
               PROVE  /\ cache'[r].clean <= sent'[r].calm
                      /\ cache'[r].clean = 0 \/ Warm(cache'[r])
    BY DEF CleanIsCalm, Warm
  <2>0. r \in Sources
    BY EngineAssumption
  <2>1. CASE r # s
    BY <2>0, <1>5, <2>1 DEF MonitorInv, CleanIsCalm
  <2>2. CASE r = s
    BY <1>5, <1>13, <2>2 DEF calm
  <2> QED  BY <2>1, <2>2
<1>15. NoAlertBeforeWarmup'
  <2> SUFFICES ASSUME NEW a \in reported', a.type # "SERVICE_SILENCE"
               PROVE  sent'[a.src].total >= W
    BY DEF NoAlertBeforeWarmup, W
  <2>1. c.st.warm >= W
    BY <1>7 DEF Warm, W
  <2> QED  BY <1>2, <1>8, <1>10, <1>11, <2>1 DEF total
<1> QED  BY <1>5, <1>12, <1>13, <1>14, <1>15 DEF s, calm

LEMMA MRestartCounts ==
    ASSUME MonitorInv, MRestart
    PROVE  CountsAreReal' /\ CleanIsCalm' /\ NoAlertBeforeWarmup'
<1>1. /\ cache' = [s \in Sources |-> None] /\ reported' = {}
      /\ \A s \in Sources :
            \/ rows'[s] = rows[s]
            \/ cache[s] # None /\ rows'[s] = Persisted(cache[s])
  <2>1. CASE Crash
    BY <2>1 DEF Crash, LoseMemory
  <2>2. CASE Shutdown
    <3>1. PICK saved \in FlushOutcomes :
             rows' = [s \in Sources |-> IF s \in saved THEN Persisted(cache[s]) ELSE rows[s]]
      BY <2>2 DEF Shutdown
    <3>2. \A s \in saved : cache[s] # None
      BY DEF FlushOutcomes
    <3> QED  BY <2>2, <3>1, <3>2 DEF Shutdown, LoseMemory
  <2> QED  BY <2>1, <2>2 DEF MRestart
<1>2. DOMAIN sent' = Sources
      /\ \A s \in Sources : sent'[s].total = sent[s].total /\ sent'[s].calm = 0
  BY DEF MRestart, NothingSent
<1>3. \A s \in Sources : Persisted(cache[s]).warm = cache[s].warm
  BY DEF Persisted
<1>4. CountsAreReal'
  BY <1>1, <1>2, <1>3 DEF CountsAreReal, MonitorInv
<1> QED  BY <1>1, <1>4, EngineAssumption DEF CleanIsCalm, NoAlertBeforeWarmup

LEMMA MonitorInit == MInit => MonitorInv
<1> SUFFICES ASSUME MInit PROVE MonitorInv
  OBVIOUS
<1>1. EngineInv /\ cache = [s \in Sources |-> None] /\ rows = [s \in Sources |-> None]
      /\ reported = {}
  BY EngineInit DEF MInit, Init
<1>2. DOMAIN sent = Sources /\ \A s \in Sources : sent[s].total = 0 /\ sent[s].calm = 0
  BY DEF MInit, NothingSent
<1> QED  BY <1>1, <1>2, EngineAssumption
         DEF MonitorInv, CountsAreReal, CleanIsCalm, NoAlertBeforeWarmup

LEMMA MonitorSteps == [MNext]_mvars => [Next]_vars
BY DEF MNext, mvars, Next, MIngest, MAcknowledge, MCleanTenant, MRestart, MTick

LEMMA MonitorNext == MonitorInv /\ [MNext]_mvars => MonitorInv'
<1> SUFFICES ASSUME MonitorInv, [MNext]_mvars PROVE MonitorInv'
  OBVIOUS
<1>0. EngineInv'
  BY MonitorSteps, EngineNext DEF MonitorInv
<1>1. ASSUME NEW b \in Batches, MIngest(b)
      PROVE  MonitorInv'
  BY <1>0, <1>1, MIngestCounts DEF MonitorInv
<1>2. CASE MRestart
  BY <1>0, <1>2, MRestartCounts DEF MonitorInv
<1>3. ASSUME UNCHANGED <<cache, rows, sent>>, reported' = {} \/ UNCHANGED reported
      PROVE  MonitorInv'
  BY <1>0, <1>3 DEF MonitorInv, CountsAreReal, CleanIsCalm, NoAlertBeforeWarmup, Warm
<1>4. ASSUME NEW a \in DOMAIN alerts, MAcknowledge(a)
      PROVE  MonitorInv'
  BY <1>3, <1>4 DEF MAcknowledge, Acknowledge
<1>5. ASSUME NEW t \in Tenants, MCleanTenant(t)
      PROVE  MonitorInv'
  BY <1>3, <1>5 DEF MCleanTenant, CleanTenant
<1>6. CASE MTick
  BY <1>3, <1>6 DEF MTick, Tick
<1>7. CASE UNCHANGED mvars
  BY <1>3, <1>7 DEF mvars, vars
<1> QED  BY <1>1, <1>2, <1>4, <1>5, <1>6, <1>7 DEF MNext

LEMMA MonitorInvariance == MSpec => []MonitorInv
BY MonitorInit, MonitorNext, PTL DEF MSpec

\* Nothing but silence is reported before the source has really sent
\* WarmupRequired batches, whatever rows are saved, lost or restored in between.
THEOREM QuietBeforeWarmup == MSpec => []NoAlertBeforeWarmup
<1>1. MonitorInv => NoAlertBeforeWarmup
  BY DEF MonitorInv
<1> QED  BY <1>1, MonitorInvariance, PTL

\* The step form of CalmBeforeResolve.
CalmStep ==
    \A a \in DOMAIN alerts \cap DOMAIN alerts' :
        a.type = "ERROR_RATE_SPIKE" /\ alerts[a] = "open" /\ alerts'[a] = "resolved"
             => sent'[a.src].calm >= 2

LEMMA MIngestCalm ==
    ASSUME MonitorInv, MonitorInv', NEW b \in Batches, MIngest(b)
    PROVE  CalmStep
<1> SUFFICES ASSUME NEW a \in DOMAIN alerts \cap DOMAIN alerts', a.type = "ERROR_RATE_SPIKE",
                    alerts[a] = "open", alerts'[a] = "resolved"
             PROVE  sent'[a.src].calm >= 2
  BY DEF CalmStep
<1>1. PICK c : Done(c, b) /\ Told(c, b) /\ Finish(b, c)
  BY MIngestFacts
<1>2. alerts' = c.tbl
  BY <1>1 DEF Finish
<1>3. a.src = b.src
  BY <1>1, <1>2 DEF Done, Grown
<1>4. b.src \in Registered /\ b.src \in Sources
  BY <1>3, EngineAssumption DEF MonitorInv, EngineInv, RegisteredOnly
<1>5. c.st.clean >= 2
  BY <1>1, <1>2 DEF Told
<1>6. cache'[b.src] = c.st /\ c.st \in SourceState
  BY <1>1, <1>4 DEF Finish, Done, Session, MonitorInv, EngineInv, IInv, TypeOK
<1>7. c.st.clean <= sent'[b.src].calm
  BY <1>4, <1>6, MIngestCounts
<1>8. c.st.clean \in Nat /\ sent'[b.src].calm \in Nat
  BY <1>4, <1>6 DEF MonitorInv, CountsAreReal, SourceState
<1> QED  BY <1>3, <1>5, <1>7, <1>8

\* The count of clean windows that resolves a spike is never ahead of the calm
\* batches the source has really sent since its last spike.
THEOREM ResolvesAfterCalm == MSpec => CalmBeforeResolve
<1>1. MonitorInv /\ MonitorInv' /\ [MNext]_mvars => [CalmStep]_mvars
  <2> SUFFICES ASSUME MonitorInv, MonitorInv', MNext PROVE CalmStep
    OBVIOUS
  <2>1. ASSUME NEW b \in Batches, MIngest(b)
        PROVE  CalmStep
    BY <2>1, MIngestCalm
  <2>2. ASSUME NEW a \in DOMAIN alerts, MAcknowledge(a)
        PROVE  CalmStep
    BY <2>2 DEF MAcknowledge, Acknowledge, CalmStep
  <2>3. ASSUME NEW t \in Tenants, MCleanTenant(t)
        PROVE  CalmStep
    BY <2>3 DEF MCleanTenant, CleanTenant, CalmStep
  <2>4. CASE MRestart \/ MTick
    BY <2>4 DEF MRestart, MTick, Tick, Crash, Shutdown, LoseMemory, CalmStep
  <2> QED  BY <2>1, <2>2, <2>3, <2>4 DEF MNext
<1> QED  BY <1>1, MonitorInvariance, PTL DEF MSpec, CalmBeforeResolve, CalmStep

-----------------------------------------------------------------------------
(* What a crash may lose. *)

SavedWarm(s) == IF rows[s] = None THEN 0 ELSE rows[s].warm

\* The unsaved batches are those of the counter and PersistEvery for each attempt
\* that failed; the state that would be loaded is ahead of the row by no more.
LossCounted ==
    \A s \in Sources :
        /\ sent[s].unsaved \in Nat /\ sent[s].missed \in Nat
        /\ CallerCommits /\ s \in Registered =>
              /\ LoadState(s).since < PersistEvery
              /\ sent[s].unsaved = LoadState(s).since + PersistEvery * sent[s].missed
              /\ sent[s].missed <= failures
              /\ LoadState(s).warm <= SavedWarm(s) + sent[s].unsaved

\* Products, in the three places the proof needs one.
LEMMA ProductFacts ==
    ASSUME NEW p \in Nat, NEW m \in Nat, NEW k \in Nat, m <= k
    PROVE  /\ p * m \in Nat /\ p * 0 = 0
           /\ p * (m + 1) = p * m + p /\ p * (1 + m) = p * m + p
           /\ p * m + p <= p * (k + 1)
<1>1. p * m \in Nat /\ p * k \in Nat /\ p * (k - m) \in Nat
  OBVIOUS
<1>2. p * k = p * m + p * (k - m) /\ p * (k + 1) = p * k + p
  OBVIOUS
<1>3. p * (m + 1) = p * m + p /\ p * (1 + m) = p * m + p /\ p * 0 = 0
  OBVIOUS
<1> QED  BY <1>1, <1>2, <1>3

\* One batch of a registered source whose caller commits: the counter, the count
\* of the warm-up, the row, the account of the observer and the failures, before
\* and after.
LossCase(since, since1, warm, warm1, saved, saved1, unsaved, unsaved1, missed, missed1, f, f1) ==
    /\ since \in Nat /\ since1 \in Nat /\ warm \in Nat /\ warm1 \in Nat
    /\ saved \in Nat /\ saved1 \in Nat /\ unsaved \in Nat /\ missed \in Nat
    /\ f \in 0 .. MaxFailedPersists /\ f1 \in 0 .. MaxFailedPersists
    /\ since < PersistEvery /\ unsaved = since + PersistEvery * missed /\ missed <= f
    /\ warm <= saved + unsaved /\ warm1 <= warm + 1
    /\ \/ since1 = since + 1 /\ since1 < PersistEvery /\ f1 = f /\ saved1 = saved
       \/ since1 = 0 /\ f1 = f /\ saved1 = warm1
       \/ since1 = 0 /\ since + 1 >= PersistEvery /\ f1 = f + 1 /\ saved1 = saved
    /\ unsaved1 = IF since1 = 0 /\ f1 = f THEN 0 ELSE Bump(unsaved, UnsavedCap)
    /\ missed1 = IF since1 = 0 /\ f1 = f THEN 0 ELSE missed + (f1 - f)

LEMMA LossStep ==
    ASSUME NEW since, NEW since1, NEW warm, NEW warm1, NEW saved, NEW saved1,
           NEW unsaved, NEW unsaved1, NEW missed, NEW missed1, NEW f, NEW f1,
           LossCase(since, since1, warm, warm1, saved, saved1,
                    unsaved, unsaved1, missed, missed1, f, f1)
    PROVE  /\ unsaved1 \in Nat /\ missed1 \in Nat
           /\ since1 < PersistEvery
           /\ unsaved1 = since1 + PersistEvery * missed1 /\ missed1 <= f1
           /\ warm1 <= saved1 + unsaved1
<1> USE DEF LossCase
<1>1. PersistEvery \in Nat /\ PersistEvery > 0 /\ MaxFailedPersists \in Nat
  BY EngineAssumption
<1>2. /\ PersistEvery * missed \in Nat /\ PersistEvery * 0 = 0
      /\ PersistEvery * (missed + 1) = PersistEvery * missed + PersistEvery
      /\ PersistEvery * missed + PersistEvery <= UnsavedCap
  BY <1>1, ProductFacts DEF UnsavedCap
<1> DEFINE held == PersistEvery * missed
           more == PersistEvery * (missed + 1)
           cap  == UnsavedCap
<1>3. held \in Nat /\ more = held + PersistEvery /\ held + PersistEvery <= cap
      /\ unsaved = since + held /\ cap \in Nat
  BY <1>1, <1>2 DEF UnsavedCap
<1> HIDE DEF held, more, cap
<1>4. Bump(unsaved, cap) = unsaved + 1
  BY <1>1, <1>3 DEF Bump
<1>5. CASE since1 = since + 1 /\ since1 < PersistEvery /\ f1 = f /\ saved1 = saved
  <2>1. unsaved1 = unsaved + 1 /\ missed1 = missed
    BY <1>4, <1>5 DEF cap
  <2>2. unsaved1 = since1 + held
    BY <1>3, <1>5, <2>1
  <2> QED  BY <1>5, <2>1, <2>2 DEF held
<1>6. CASE since1 = 0 /\ f1 = f /\ saved1 = warm1
  BY <1>1, <1>2, <1>6
<1>7. CASE since1 = 0 /\ since + 1 >= PersistEvery /\ f1 = f + 1 /\ saved1 = saved
  <2>1. unsaved1 = unsaved + 1 /\ missed1 = missed + 1
    BY <1>4, <1>7 DEF cap
  <2>2. unsaved1 = more
    BY <1>1, <1>3, <1>7, <2>1
  <2>3. unsaved1 = since1 + PersistEvery * missed1
    BY <1>3, <1>7, <2>1, <2>2 DEF more
  <2> QED  BY <1>1, <1>7, <2>1, <2>3
<1> QED  BY <1>5, <1>6, <1>7

LEMMA SavedType ==
    ASSUME TypeOK, NEW s \in Sources
    PROVE  /\ SavedWarm(s) \in Nat
           /\ LoadState(s) \in SourceState
           /\ LoadState(s).since \in Nat /\ LoadState(s).warm \in Nat
<1>1. rows[s] # None => rows[s].warm \in Nat
  BY DEF TypeOK, Row
<1>2. LoadState(s) \in SourceState
  BY LoadStateType
<1> QED  BY <1>1, <1>2 DEF SavedWarm, SourceState

LEMMA MIngestLoss ==
    ASSUME MonitorInv, MonitorInv', LossCounted, NEW b \in Batches, MIngest(b)
    PROVE  LossCounted'
<1> DEFINE s == b.src
           L == LoadState(s)
<1>1. PICK c : /\ Done(c, b) /\ Told(c, b) /\ Finish(b, c)
               /\ c.rows = rows \/ c.rows = [rows EXCEPT ![s] = Persisted(c.st)]
               /\ s \in Registered => Saved(c, b, L.since)
  BY MIngestFacts
<1>2. /\ s \in Sources /\ TypeOK /\ TypeOK'
      /\ cache \in [Sources -> SourceState \cup {None}] /\ rows \in [Sources -> Row \cup {None}]
      /\ DOMAIN sent = Sources
      /\ c.st \in SourceState /\ None \notin Row /\ None \notin SourceState
      /\ failures \in 0 .. MaxFailedPersists /\ failures' \in 0 .. MaxFailedPersists
  BY <1>1, BatchType, NoRowAssumption, NoStateAssumption
  DEF Batch, MonitorInv, EngineInv, IInv, TypeOK, CountsAreReal, Done, Session
<1>3. /\ cache' = [cache EXCEPT ![s] = c.st]
      /\ rows' = IF CallerCommits THEN c.rows ELSE rows
      /\ failures' = IF c.failed /\ s \in Registered THEN failures + 1 ELSE failures
  BY <1>1 DEF Finish
<1>4. sent' = [sent EXCEPT ![s] = Observe(sent[s], b)]
  BY DEF MIngest
<1>5. /\ sent'[s].unsaved = IF Wrote(s) THEN 0 ELSE Bump(sent[s].unsaved, UnsavedCap)
      /\ sent'[s].missed = IF Wrote(s) THEN 0 ELSE sent[s].missed + (failures' - failures)
      /\ cache'[s] = c.st
  BY <1>2, <1>3, <1>4 DEF Observe
<1>6. \A r \in Sources \ {s} :
         sent'[r] = sent[r] /\ cache'[r] = cache[r] /\ rows'[r] = rows[r]
  BY <1>1, <1>2, <1>3, <1>4
<1>7. /\ failures' \in {failures, failures + 1} /\ failures <= failures'
      /\ failures \in Nat /\ failures' - failures \in Nat
  BY <1>2, <1>3, EngineAssumption
<1>8. LoadState(s)' = c.st
  BY <1>2, <1>5 DEF LoadState
<1> HIDE DEF L, s
<1>9. ASSUME CallerCommits, s \in Registered
      PROVE  /\ sent'[s].unsaved \in Nat /\ sent'[s].missed \in Nat
             /\ c.st.since < PersistEvery
             /\ sent'[s].unsaved = c.st.since + PersistEvery * sent'[s].missed
             /\ sent'[s].missed <= failures'
             /\ c.st.warm <= SavedWarm(s)' + sent'[s].unsaved
  <2>1. /\ L.since \in Nat /\ L.warm \in Nat /\ SavedWarm(s) \in Nat /\ SavedWarm(s)' \in Nat
        /\ c.st.since \in Nat /\ c.st.warm \in Nat
    BY <1>2, <1>8, SavedType, LoadStateType DEF L, SavedWarm, SourceState, TypeOK, Row
  <2>2. /\ sent[s].unsaved \in Nat /\ sent[s].missed \in Nat
        /\ L.since < PersistEvery
        /\ sent[s].unsaved = L.since + PersistEvery * sent[s].missed
        /\ sent[s].missed <= failures /\ L.warm <= SavedWarm(s) + sent[s].unsaved
    BY <1>2, <1>9 DEF LossCounted, L
  <2>3. c.st.warm <= L.warm + 1
    <3>1. c.st.warm = Bump(L.warm, WarmupRequired)
      BY <1>1, <1>9 DEF Told, L, s
    <3> QED  BY <3>1, <2>1 DEF Bump
  <2>4. /\ rows' = c.rows /\ rows'[s] = c.rows[s]
        /\ failures' = IF c.failed THEN failures + 1 ELSE failures
    BY <1>3, <1>9
  <2>5. \/ c.st.since = L.since + 1 /\ c.st.since < PersistEvery
              /\ failures' = failures /\ SavedWarm(s)' = SavedWarm(s)
        \/ c.st.since = 0 /\ failures' = failures /\ SavedWarm(s)' = c.st.warm
        \/ c.st.since = 0 /\ L.since + 1 >= PersistEvery
              /\ failures' = failures + 1 /\ SavedWarm(s)' = SavedWarm(s)
    <3> DEFINE r == Persisted(c.st)
    <3>1. r \in Row /\ r.warm = c.st.warm /\ r # None
      BY <1>2 DEF Persisted, SourceState, Row
    <3> HIDE DEF r
    <3>2. [rows EXCEPT ![s] = r][s] = r
      BY <1>2
    <3>3. \/ c.st.since = L.since + 1 /\ c.st.since < PersistEvery /\ ~c.failed /\ c.rows = rows
          \/ c.st.since = 0 /\ L.since + 1 >= PersistEvery /\ ~c.failed
                /\ c.rows = [rows EXCEPT ![s] = r]
          \/ c.st.since = 0 /\ L.since + 1 >= PersistEvery /\ c.failed /\ c.rows = rows
      BY <1>1, <1>9 DEF Saved, r, s
    <3> QED  BY <2>4, <3>1, <3>2, <3>3 DEF SavedWarm
  <2>6. Wrote(s) <=> c.st.since = 0 /\ failures' = failures
    BY <1>5, <1>9 DEF Wrote
  <2>7. /\ sent'[s].unsaved = IF c.st.since = 0 /\ failures' = failures
                              THEN 0 ELSE Bump(sent[s].unsaved, UnsavedCap)
        /\ sent'[s].missed = IF c.st.since = 0 /\ failures' = failures
                             THEN 0 ELSE sent[s].missed + (failures' - failures)
    BY <1>5, <2>6
  <2> DEFINE since == L.since
             since1 == c.st.since
             warm == L.warm
             warm1 == c.st.warm
             saved == SavedWarm(s)
             saved1 == SavedWarm(s)'
             unsaved == sent[s].unsaved
             unsaved1 == sent'[s].unsaved
             missed == sent[s].missed
             missed1 == sent'[s].missed
             f == failures
             f1 == failures'
  <2> HIDE DEF f, f1, since, since1, warm, warm1, saved, saved1, unsaved, unsaved1, missed, missed1
  <2>8. /\ unsaved1 \in Nat /\ missed1 \in Nat
        /\ since1 < PersistEvery
        /\ unsaved1 = since1 + PersistEvery * missed1 /\ missed1 <= f1
        /\ warm1 <= saved1 + unsaved1
    <3>1. /\ since \in Nat /\ since1 \in Nat /\ warm \in Nat /\ warm1 \in Nat
          /\ saved \in Nat /\ saved1 \in Nat /\ unsaved \in Nat /\ missed \in Nat
      BY <2>1, <2>2 DEF since, since1, warm, warm1, saved, saved1, unsaved, missed
    <3>2. /\ since < PersistEvery /\ unsaved = since + PersistEvery * missed
          /\ missed <= f /\ warm <= saved + unsaved /\ warm1 <= warm + 1
      BY <2>2, <2>3 DEF f, since, warm, warm1, saved, unsaved, missed
    <3>3. \/ since1 = since + 1 /\ since1 < PersistEvery /\ f1 = f /\ saved1 = saved
          \/ since1 = 0 /\ f1 = f /\ saved1 = warm1
          \/ since1 = 0 /\ since + 1 >= PersistEvery /\ f1 = f + 1
                /\ saved1 = saved
      BY <2>5 DEF f, f1, since, since1, warm1, saved, saved1
    <3>4. /\ unsaved1 = IF since1 = 0 /\ f1 = f
                        THEN 0 ELSE Bump(unsaved, UnsavedCap)
          /\ missed1 = IF since1 = 0 /\ f1 = f
                       THEN 0 ELSE missed + (f1 - f)
      BY <2>7 DEF f, f1, since1, unsaved, unsaved1, missed, missed1
    <3>5. f \in 0 .. MaxFailedPersists /\ f1 \in 0 .. MaxFailedPersists
      BY <1>2 DEF f, f1
    <3>6. LossCase(since, since1, warm, warm1, saved, saved1,
                   unsaved, unsaved1, missed, missed1, f, f1)
      BY <3>1, <3>2, <3>3, <3>4, <3>5 DEF LossCase
    <3> QED  BY <3>6, LossStep, Zenon
  <2> QED  BY <2>8 DEF f1, since1, warm1, saved1, unsaved1, missed1
<1>10. /\ sent'[s].unsaved \in Nat /\ sent'[s].missed \in Nat
  <2>1. sent[s].unsaved \in Nat /\ sent[s].missed \in Nat
    BY <1>2 DEF LossCounted
  <2>2. Bump(sent[s].unsaved, UnsavedCap) \in Nat
    <3>1. UnsavedCap \in Nat
      BY EngineAssumption DEF UnsavedCap
    <3> QED  BY <2>1, <3>1, BumpType
  <2> QED  BY <1>5, <1>7, <2>1, <2>2
<1> QED
  <2> SUFFICES ASSUME NEW r \in Sources
               PROVE  /\ sent'[r].unsaved \in Nat /\ sent'[r].missed \in Nat
                      /\ CallerCommits /\ r \in Registered =>
                            /\ LoadState(r)'.since < PersistEvery
                            /\ sent'[r].unsaved
                                  = LoadState(r)'.since + PersistEvery * sent'[r].missed
                            /\ sent'[r].missed <= failures'
                            /\ LoadState(r)'.warm <= SavedWarm(r)' + sent'[r].unsaved
    BY DEF LossCounted
  <2>1. CASE r = s
    BY <1>8, <1>9, <1>10, <2>1
  <2>2. CASE r # s
    <3>1. LoadState(r)' = LoadState(r) /\ SavedWarm(r)' = SavedWarm(r) /\ sent'[r] = sent[r]
      BY <1>6, <2>2 DEF LoadState, SavedWarm
    <3>2. sent[r].missed <= failures => sent[r].missed <= failures'
      BY <1>2, <1>7 DEF LossCounted
    <3> QED  BY <3>1, <3>2 DEF LossCounted
  <2> QED  BY <2>1, <2>2

\* With nothing unsaved the account is in order.
LEMMA NothingLost ==
    ASSUME NEW p \in Nat, p > 0, NEW unsaved, NEW missed, NEW since,
           unsaved = 0, missed = 0, since = 0
    PROVE  unsaved \in Nat /\ missed \in Nat /\ since < p /\ unsaved = since + p * missed
<1>1. p * 0 = 0
  OBVIOUS
<1> QED  BY <1>1

\* What is loaded after a restart is the row itself.
LEMMA MRestartLoss ==
    ASSUME MonitorInv, MonitorInv', LossCounted, MRestart
    PROVE  LossCounted'
<1>1. cache' = [s \in Sources |-> None] /\ failures' = failures
  BY DEF MRestart, Crash, Shutdown, LoseMemory
<1>2. \A s \in Sources : sent'[s].unsaved = 0 /\ sent'[s].missed = 0
  BY DEF MRestart, NothingSent
<1>3. \A s \in Sources : LoadState(s)'.since = 0 /\ LoadState(s)'.warm = SavedWarm(s)'
  BY <1>1 DEF LoadState, FromRow, EmptyRow, SavedWarm
<1>4. \A s \in Sources : SavedWarm(s)' \in Nat
  BY DEF MonitorInv, EngineInv, IInv, TypeOK, SavedWarm, Row
<1>5. PersistEvery \in Nat /\ PersistEvery > 0 /\ failures' \in Nat
  BY EngineAssumption DEF MonitorInv, EngineInv, IInv, TypeOK
<1>6. ASSUME NEW s \in Sources
      PROVE  /\ sent'[s].unsaved \in Nat /\ sent'[s].missed \in Nat
             /\ LoadState(s)'.since < PersistEvery
             /\ sent'[s].unsaved = LoadState(s)'.since + PersistEvery * sent'[s].missed
  BY <1>2, <1>3, <1>5, NothingLost, Zenon
<1>7. ASSUME NEW s \in Sources
      PROVE  /\ sent'[s].missed <= failures'
             /\ LoadState(s)'.warm <= SavedWarm(s)' + sent'[s].unsaved
  BY <1>2, <1>3, <1>4, <1>5
<1> QED  BY <1>6, <1>7 DEF LossCounted

LossInv == MonitorInv /\ LossCounted

LEMMA LossInit == MInit => LossInv
<1> SUFFICES ASSUME MInit PROVE LossCounted
  BY MonitorInit DEF LossInv
<1>1. \A s \in Sources : sent[s].unsaved = 0 /\ sent[s].missed = 0
  BY DEF MInit, NothingSent
<1>2. /\ \A s \in Sources : LoadState(s).since = 0 /\ LoadState(s).warm = 0 /\ SavedWarm(s) = 0
      /\ failures = 0
  BY DEF MInit, Init, LoadState, FromRow, EmptyRow, SavedWarm
<1>3. PersistEvery \in Nat /\ PersistEvery > 0
  BY EngineAssumption
<1>4. ASSUME NEW s \in Sources
      PROVE  /\ sent[s].unsaved \in Nat /\ sent[s].missed \in Nat
             /\ LoadState(s).since < PersistEvery
             /\ sent[s].unsaved = LoadState(s).since + PersistEvery * sent[s].missed
  BY <1>1, <1>2, <1>3, NothingLost, Zenon
<1>5. ASSUME NEW s \in Sources
      PROVE  /\ sent[s].missed <= failures
             /\ LoadState(s).warm <= SavedWarm(s) + sent[s].unsaved
  BY <1>1, <1>2
<1> QED  BY <1>4, <1>5 DEF LossCounted

LEMMA LossNext == LossInv /\ [MNext]_mvars => LossInv'
<1> SUFFICES ASSUME LossInv, [MNext]_mvars PROVE LossInv'
  OBVIOUS
<1>0. MonitorInv'
  BY MonitorNext DEF LossInv
<1>1. ASSUME NEW b \in Batches, MIngest(b)
      PROVE  LossInv'
  BY <1>0, <1>1, MIngestLoss DEF LossInv
<1>2. CASE MRestart
  BY <1>0, <1>2, MRestartLoss DEF LossInv
<1>3. ASSUME cache' = cache, rows' = rows, sent' = sent, failures' = failures
      PROVE  LossInv'
  BY <1>0, <1>3 DEF LossInv, LossCounted, LoadState, SavedWarm
<1>4. ASSUME NEW a \in DOMAIN alerts, MAcknowledge(a)
      PROVE  LossInv'
  BY <1>3, <1>4 DEF MAcknowledge, Acknowledge
<1>5. ASSUME NEW t \in Tenants, MCleanTenant(t)
      PROVE  LossInv'
  BY <1>3, <1>5 DEF MCleanTenant, CleanTenant
<1>6. CASE MTick
  BY <1>3, <1>6 DEF MTick, Tick
<1>7. CASE UNCHANGED mvars
  BY <1>3, <1>7 DEF mvars, vars
<1> QED  BY <1>1, <1>2, <1>4, <1>5, <1>6, <1>7 DEF MNext

\* With a caller that commits, a crash loses no more batches of a registered source
\* than the counter and the failed attempts since the last written row account for:
\* fewer than PersistEvery when none failed.
THEOREM LossIsBounded == MSpec => []BoundedLoss
<1>1. LossInv => BoundedLoss
  <2> SUFFICES ASSUME LossInv, CallerCommits, NEW s \in Registered, cache[s] # None
               PROVE  /\ sent[s].unsaved < PersistEvery * (1 + sent[s].missed)
                      /\ cache[s].warm <= SavedWarm(s) + sent[s].unsaved
    BY DEF BoundedLoss, SavedWarm
  <2>1. s \in Sources /\ LoadState(s) = cache[s]
    BY EngineAssumption DEF LoadState
  <2>2. /\ sent[s].unsaved \in Nat /\ sent[s].missed \in Nat
        /\ cache[s].since < PersistEvery
        /\ sent[s].unsaved = cache[s].since + PersistEvery * sent[s].missed
        /\ cache[s].warm <= SavedWarm(s) + sent[s].unsaved
    BY <2>1 DEF LossInv, LossCounted
  <2>3. cache[s].since \in Nat
    BY <2>1, SavedType DEF LossInv, MonitorInv, EngineInv, IInv
  <2> DEFINE held == PersistEvery * sent[s].missed
  <2>4. PersistEvery * (1 + sent[s].missed) = held + PersistEvery /\ held \in Nat
    BY <2>2, ProductFacts, EngineAssumption
  <2> HIDE DEF held
  <2>5. sent[s].unsaved = cache[s].since + held /\ PersistEvery \in Nat
    BY <2>2, EngineAssumption DEF held
  <2> QED  BY <2>2, <2>3, <2>4, <2>5
<1>2. MSpec => []LossInv
  BY LossInit, LossNext, PTL DEF MSpec
<1> QED  BY <1>1, <1>2, PTL

=============================================================================
