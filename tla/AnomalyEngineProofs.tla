------------------------ MODULE AnomalyEngineProofs ------------------------
(***************************************************************************)
(* Proofs about AnomalyEngine.                                             *)
(*                                                                         *)
(* A batch is handled in a session, the record c of AnomalyEngine.  The    *)
(* proof follows the code: Good(c, b, w) holds when the session begins,    *)
(* every detector preserves it, and it implies what the invariant needs    *)
(* when the session ends.                                                  *)
(***************************************************************************)
EXTENDS AnomalyEngine, FiniteSetTheorems, WellFoundedInduction, TLAPS

-----------------------------------------------------------------------------
(* The inductive invariant. *)

\* The guard of a tenant is at least as late as the CASCADEs of this process.
Guarded(T, fired) ==
    \A a \in DOMAIN T : a.type = "CASCADE" /\ a.boot = boot =>
        fired[TenantOf[a.src]] \in Int /\ a.at <= fired[TenantOf[a.src]]

NotAhead(fired) == \A t \in Tenants : fired[t] # None => fired[t] <= now

Spaced(T) ==
    \A c, d \in DOMAIN T :
        /\ c.type = "CASCADE" /\ d.type = "CASCADE" /\ c.seq < d.seq
        /\ TenantOf[c.src] = TenantOf[d.src] /\ c.boot = d.boot
        => d.at - c.at >= CascadeWindow

Silenced(T) == \A a \in DOMAIN T : a.type = "SERVICE_SILENCE" => T[a] # "open"

IInv ==
    /\ TypeOK
    /\ alerts \in [DOMAIN alerts -> Status]
    /\ \A a \in DOMAIN alerts : a.boot <= boot
    /\ Silenced(alerts)
    /\ Guarded(alerts, cascadeFired)
    /\ NotAhead(cascadeFired)
    /\ Spaced(alerts)

-----------------------------------------------------------------------------
(* The session. *)

Table == UNION {[D -> Status] : D \in SUBSET AlertId}

Session == [st : SourceState, tbl : Table, rows : [Sources -> Row \cup {None}],
            fired : [Tenants -> MaybeTime], ok : BOOLEAN, failed : BOOLEAN]

\* What a session of source s may have done to the table so far.
Grown(T, s) ==
    /\ DOMAIN alerts \subseteq DOMAIN T
    /\ \A a \in DOMAIN alerts :
          \/ T[a] = alerts[a]
          \/ a.src = s /\ alerts[a] = "open" /\ T[a] = "resolved"
    /\ \A a \in DOMAIN T \ DOMAIN alerts :
          /\ a.src = s /\ a.seq = nextSeq /\ a.at = now /\ a.boot = boot
          /\ T[a] \in {"open", "resolved"}

Good(c, b, w) ==
    /\ c \in Session
    /\ Grown(c.tbl, b.src)
    /\ Silenced(c.tbl)
    /\ Guarded(c.tbl, c.fired)
    /\ NotAhead(c.fired)
    /\ Spaced(c.tbl)
    /\ c.rows = rows
    /\ b.src \in Registered => c.ok
    /\ ~c.failed
    /\ c.st.warm = w /\ c.st.since = LoadState(b.src).since

LEMMA TableDef ==
    ASSUME NEW T
    PROVE  T \in Table <=> DOMAIN T \subseteq AlertId /\ T \in [DOMAIN T -> Status]
BY DEF Table

\* Bounded sets of numbers have a greatest element.
LEMMA GreatestExists ==
    ASSUME NEW Q \in SUBSET Nat, Q # {}, NEW n \in Nat, \A q \in Q : q <= n
    PROVE  \E m \in Q : \A q \in Q : q <= m
<1> DEFINE Above(q) == q .. n
           T == {Above(q) : q \in Q}
<1>1. T \subseteq FiniteSubsetsOf(Int) /\ T # {}
  <2>1. ASSUME NEW q \in Q
        PROVE  Above(q) \in FiniteSubsetsOf(Int)
    <3>1. q \in Int /\ n \in Int
      OBVIOUS
    <3>2. IsFiniteSet(Above(q))
      BY <3>1, FS_Interval
    <3> QED  BY <3>1, <3>2 DEF FiniteSubsetsOf
  <2> QED  BY <2>1
<1>2. PICK A \in T : \A B \in T : <<B, A>> \notin StrictSubsetOrdering(Int)
  BY <1>1, FS_StrictSubsetOrderingWellFounded, WFMin
<1>3. PICK m \in Q : A = Above(m)
  OBVIOUS
<1>4. ASSUME NEW q \in Q, m < q
      PROVE  <<Above(q), Above(m)>> \in StrictSubsetOrdering(Int)
  <2>1. Above(q) \subseteq Above(m) /\ m \in Above(m) /\ m \notin Above(q)
    BY <1>4
  <2> QED  BY <2>1 DEF StrictSubsetOrdering
<1>5. \A q \in Q : ~ (m < q)
  BY <1>2, <1>3, <1>4
<1> QED  BY <1>5

-----------------------------------------------------------------------------
(* The steps a session is made of. *)

LEMMA BatchType == \A b \in Batches : b \in Batch
BY BatchAssumption

LEMMA LoadStateType ==
    ASSUME TypeOK, NEW s \in Sources
    PROVE  LoadState(s) \in SourceState
BY EngineAssumption DEF TypeOK, LoadState, FromRow, EmptyRow, SourceState, Row, MaybeTime, Severity

LEMMA BeginGood ==
    ASSUME IInv, NEW b \in Batches
    PROVE  Good(Begin(b.src), b, LoadState(b.src).warm)
<1>1. b.src \in Sources /\ LoadState(b.src) \in SourceState
  BY BatchType, LoadStateType DEF IInv, Batch
<1>2. alerts \in Table
  BY TableDef DEF IInv, TypeOK
<1> QED  BY <1>1, <1>2 DEF IInv, TypeOK, Good, Begin, Session, Grown, NotAhead

LEMMA NewState ==
    ASSUME NEW b, NEW w, NEW c, Good(c, b, w),
           NEW st \in SourceState, NEW v, st.warm = v, st.since = c.st.since
    PROVE  Good([c EXCEPT !.st = st], b, v)
BY DEF Good, Session

LEMMA ThenGood ==
    ASSUME NEW b, NEW w, NEW c, NEW d, Good(c, b, w), Good(d, b, w)
    PROVE  Good(Then(c, d), b, w)
BY DEF Then

LEMMA RolledBack ==
    ASSUME IInv, NEW b \in Batches, NEW w, NEW c, Good(c, b, w), b.src \notin Registered
    PROVE  Good([c EXCEPT !.tbl = alerts, !.rows = rows, !.ok = FALSE], b, w)
<1>1. alerts \in Table
  BY TableDef DEF IInv, TypeOK
<1>2. Guarded(alerts, c.fired)
  BY DEF Good, Grown, Guarded
<1> QED  BY <1>1, <1>2 DEF Good, IInv, Session, Grown

\* An alert that session c of batch b may write with status st.
Admissible(x, c, b, st) ==
    /\ x \in AlertId
    /\ x.src = b.src /\ x.seq = nextSeq /\ x.at = now /\ x.boot = boot
    /\ x.type = "SERVICE_SILENCE" => st = "resolved"
    /\ x.type = "CASCADE" =>
          /\ c.fired[TenantOf[b.src]] = now
          /\ \A a \in DOMAIN alerts :
                a.type = "CASCADE" /\ TenantOf[a.src] = TenantOf[b.src] /\ a.boot = boot
                    => now - a.at >= CascadeWindow

WithAlerts(T, ids, st) == [a \in DOMAIN T \cup ids |-> IF a \in ids THEN st ELSE T[a]]

LEMMA AddAlerts ==
    ASSUME IInv, NEW b \in Batches, NEW w, NEW c, Good(c, b, w),
           NEW ids, NEW st \in {"open", "resolved"}, \A x \in ids : Admissible(x, c, b, st)
    PROVE  Good([c EXCEPT !.tbl = WithAlerts(c.tbl, ids, st)], b, w)
<1> DEFINE T == WithAlerts(c.tbl, ids, st)
<1>0. c \in Session /\ c.tbl \in Table /\ ids \subseteq AlertId
  BY DEF Good, Session, Admissible
<1>1. DOMAIN c.tbl \subseteq AlertId /\ c.tbl \in [DOMAIN c.tbl -> Status]
  BY <1>0, TableDef
<1>2. /\ DOMAIN T = DOMAIN c.tbl \cup ids
      /\ \A a \in DOMAIN T : T[a] = IF a \in ids THEN st ELSE c.tbl[a]
  BY DEF WithAlerts
<1>3. T \in Table
  <2>1. T \in [DOMAIN T -> Status]
    BY <1>1, <1>2 DEF WithAlerts, Status, Admissible
  <2> QED  BY <1>0, <1>1, <1>2, <2>1, TableDef
<1>4. \A a \in ids : a \notin DOMAIN alerts
  BY DEF Admissible, IInv, TypeOK
<1>5. Grown(T, b.src)
  BY <1>2, <1>4 DEF Good, Grown, Admissible
<1>6. Silenced(T)
  <2> SUFFICES ASSUME NEW a \in DOMAIN T, a.type = "SERVICE_SILENCE"
               PROVE  T[a] # "open"
    BY DEF Silenced
  <2> QED  BY <1>2 DEF Good, Silenced, Admissible
<1>7. Guarded(T, c.fired)
  BY <1>2 DEF Good, Guarded, Admissible, IInv, TypeOK
<1>8. Spaced(T)
  <2> SUFFICES ASSUME NEW x \in DOMAIN T, NEW y \in DOMAIN T,
                      x.type = "CASCADE", y.type = "CASCADE", x.seq < y.seq,
                      TenantOf[x.src] = TenantOf[y.src], x.boot = y.boot
               PROVE  y.at - x.at >= CascadeWindow
    BY DEF Spaced
  <2>1. CASE x \in DOMAIN c.tbl /\ y \in DOMAIN c.tbl
    BY <2>1 DEF Good, Spaced
  <2>2. x.seq <= nextSeq /\ y.seq <= nextSeq /\ nextSeq \in Nat
    BY <1>2 DEF Good, Grown, Admissible, IInv, TypeOK, AlertId
  <2>3. x.seq \in Nat /\ y.seq \in Nat
    BY <1>0, <1>1, <1>2 DEF AlertId
  <2>4. x \in DOMAIN alerts
    BY <1>2, <2>2, <2>3 DEF Good, Grown, Admissible
  <2>5. CASE y \in ids
    BY <2>4, <2>5 DEF Admissible
  <2> QED  BY <1>2, <1>4, <2>1, <2>4, <2>5 DEF Good, Grown
<1> QED  BY <1>0, <1>3, <1>5, <1>6, <1>7, <1>8 DEF Good, Session

LEMMA NewAlertType ==
    ASSUME IInv, NEW b \in Batches, NEW type \in AnomalyType, NEW sev \in Severity,
           NEW svc \in Services, NEW fp \in Fingerprints \cup {None}
    PROVE  /\ NewAlert(b, type, sev, svc, fp) \in AlertId
           /\ LET x == NewAlert(b, type, sev, svc, fp)
              IN  /\ x.src = b.src /\ x.seq = nextSeq /\ x.at = now /\ x.boot = boot
                  /\ x.type = type
BY BatchType DEF NewAlert, AlertId, IInv, TypeOK, Batch

\* An alert that is neither a silence nor a cascade needs nothing else.
LEMMA BuildGood ==
    ASSUME IInv, NEW b \in Batches, NEW w, NEW c, Good(c, b, w),
           NEW type \in AnomalyType, NEW sev \in Severity,
           NEW svc \in Services, NEW fp \in Fingerprints \cup {None},
           Admissible(NewAlert(b, type, sev, svc, fp), c, b, "open")
    PROVE  Good(BuildAlert(c, b, type, sev, svc, fp), b, w)
<1> DEFINE x == NewAlert(b, type, sev, svc, fp)
<1>1. CASE b.src \in Registered
  <2>1. Good([c EXCEPT !.tbl = WithAlerts(c.tbl, {x}, "open")], b, w)
    BY AddAlerts
  <2>2. WithAlerts(c.tbl, {x}, "open") = Put(c.tbl, x, "open")
    BY DEF WithAlerts, Put
  <2> QED  BY <1>1, <2>1, <2>2 DEF BuildAlert
<1>2. CASE b.src \notin Registered
  BY <1>2, RolledBack DEF BuildAlert
<1> QED  BY <1>1, <1>2

LEMMA PlainAlertGood ==
    ASSUME IInv, NEW b \in Batches, NEW w, NEW c, Good(c, b, w),
           NEW type \in AnomalyType \ {"SERVICE_SILENCE", "CASCADE"},
           NEW sev \in Severity, NEW svc \in Services
    PROVE  Good(BuildAlert(c, b, type, sev, svc, None), b, w)
<1>1. Admissible(NewAlert(b, type, sev, svc, None), c, b, "open")
  BY NewAlertType DEF Admissible
<1> QED  BY <1>1, BuildGood

\* Resolving an alert disturbs nothing; when there is an open one, one is found.
LEMMA NewestOpen ==
    ASSUME IInv, NEW b, NEW w, NEW c, Good(c, b, w), NEW type,
           OpenAlerts(c.tbl, b.src, type) # {}
    PROVE  \E a \in OpenAlerts(c.tbl, b.src, type) :
              \A o \in OpenAlerts(c.tbl, b.src, type) : o.seq <= a.seq
<1> DEFINE open == OpenAlerts(c.tbl, b.src, type)
           Q == {a.seq : a \in open}
<1>1. \A a \in open : a.seq \in Nat /\ a.seq <= nextSeq
  <2>1. c.tbl \in Table
    BY DEF Good, Session
  <2>2. \A a \in DOMAIN c.tbl : a.seq \in Nat
    BY <2>1, TableDef DEF AlertId
  <2> QED  BY <2>2 DEF OpenAlerts, Good, Grown, IInv, TypeOK
<1>2. Q \in SUBSET Nat /\ Q # {} /\ nextSeq \in Nat /\ \A q \in Q : q <= nextSeq
  BY <1>1 DEF IInv, TypeOK
<1>3. \E m \in Q : \A q \in Q : q <= m
  <2> HIDE DEF Q
  <2> QED  BY <1>2, GreatestExists
<1> QED  BY <1>3

LEMMA ResolveGood ==
    ASSUME IInv, NEW b \in Batches, NEW w, NEW c, Good(c, b, w), NEW type
    PROVE  Good(TryAutoResolve(c, b, type), b, w)
<1> DEFINE open == OpenAlerts(c.tbl, b.src, type)
           a == CHOOSE x \in open : \A o \in open : o.seq <= x.seq
           T == [c.tbl EXCEPT ![a] = "resolved"]
<1> SUFFICES ASSUME open # {}
             PROVE  Good([c EXCEPT !.tbl = T], b, w)
  BY DEF TryAutoResolve, Good, Session
<1>1. a \in DOMAIN c.tbl /\ a.src = b.src /\ c.tbl[a] = "open"
  <2>1. \E x \in open : \A o \in open : o.seq <= x.seq
    BY NewestOpen
  <2>2. a \in open
    <3> HIDE DEF open
    <3> QED  BY <2>1
  <2> QED  BY <2>2 DEF OpenAlerts
<1>2. c.tbl \in Table /\ c \in Session
  BY DEF Good, Session
<1>3. DOMAIN c.tbl \subseteq AlertId /\ c.tbl \in [DOMAIN c.tbl -> Status]
  BY <1>2, TableDef
<1> HIDE DEF a
<1>4. /\ DOMAIN T = DOMAIN c.tbl
      /\ \A x \in DOMAIN T : T[x] = IF x = a THEN "resolved" ELSE c.tbl[x]
      /\ T \in [DOMAIN T -> Status]
  BY <1>1, <1>3 DEF Status
<1>5. T \in Table
  BY <1>3, <1>4, TableDef
<1> HIDE DEF T
<1>6. Grown(T, b.src)
  BY <1>1, <1>4 DEF Good, Grown
<1>7. Silenced(T) /\ Guarded(T, c.fired) /\ Spaced(T)
  BY <1>4 DEF Good, Silenced, Guarded, Spaced
<1> QED  BY <1>2, <1>5, <1>6, <1>7 DEF Good, Session

-----------------------------------------------------------------------------
(* The detectors. *)

LEMMA SessionType ==
    ASSUME NEW b, NEW w, NEW c, Good(c, b, w)
    PROVE  c \in Session /\ c.st \in SourceState
BY DEF Good, Session

LEMMA BumpType == \A n \in Nat, k \in Nat : Bump(n, k) \in Nat
BY DEF Bump

LEMMA UpdateBaselinesGood ==
    ASSUME IInv, NEW b \in Batches, NEW w \in Nat, NEW c, Good(c, b, w)
    PROVE  Good(UpdateBaselines(c, b), b, Bump(w, WarmupRequired))
<1> DEFINE st == [c.st EXCEPT !.warm = Bump(@, WarmupRequired),
                              !.latWarm = IF b.lat = "none" THEN @ ELSE Bump(@, WarmupRequired),
                              !.last = now - b.newest,
                              !.silenceAlerted = FALSE]
<1>1. c \in Session /\ c.st \in SourceState /\ c.st.warm = w
  BY SessionType DEF Good
<1>2. now - b.newest \in Int
  BY BatchType DEF Batch, IInv, TypeOK
<1>3. st \in SourceState /\ st.warm = Bump(w, WarmupRequired) /\ st.since = c.st.since
  BY <1>1, <1>2, BumpType, EngineAssumption DEF SourceState, MaybeTime
<1>4. Good([c EXCEPT !.st = st], b, Bump(w, WarmupRequired))
  BY <1>3, NewState
<1> QED  BY <1>1, <1>4 DEF UpdateBaselines, Session, SourceState

LEMMA SpikeGood ==
    ASSUME IInv, NEW b \in Batches, NEW w, NEW c, Good(c, b, w)
    PROVE  Good(CheckErrorRateSpike(c, b), b, w)
<1> DEFINE WithClean(n) == [c EXCEPT !.st = [c.st EXCEPT !.clean = n]]
<1>1. c \in Session /\ c.st \in SourceState /\ c.st.warm = w
  BY SessionType DEF Good
<1>2. ASSUME NEW n \in Nat
      PROVE  Good(WithClean(n), b, w) /\ WithClean(n) = [c EXCEPT !.st.clean = n]
  <2>1. [c.st EXCEPT !.clean = n] \in SourceState
    BY <1>1 DEF SourceState
  <2>2. [c.st EXCEPT !.clean = n].warm = w /\ [c.st EXCEPT !.clean = n].since = c.st.since
    BY <1>1 DEF SourceState
  <2> QED  BY <2>1, <2>2, NewState, <1>1 DEF Session
<1>3. CASE b.err \in Spiking
  <2>1. Good([c EXCEPT !.st.clean = 0], b, w)
    BY <1>2
  <2> QED  BY <1>3, <2>1, PlainAlertGood, BatchType
           DEF CheckErrorRateSpike, AnomalyType, Severity, Batch
<1>4. CASE b.err \notin Spiking
  <2>1. Bump(c.st.clean, 2) \in Nat
    BY <1>1, BumpType DEF SourceState
  <2>2. Good([c EXCEPT !.st.clean = Bump(@, 2)], b, w)
    BY <2>1, <1>2
  <2> QED  BY <1>4, <2>2, ResolveGood DEF CheckErrorRateSpike
<1> QED  BY <1>3, <1>4

\* The session after the flag that a silence was reported has been set.
SilenceFlagged(c) == [c EXCEPT !.st = [c.st EXCEPT !.silenceAlerted = TRUE]]

LEMMA FlaggedGood ==
    ASSUME IInv, NEW b \in Batches, NEW w, NEW c, Good(c, b, w)
    PROVE  /\ Good(SilenceFlagged(c), b, w)
           /\ SilenceFlagged(c) = [c EXCEPT !.st.silenceAlerted = TRUE]
<1> DEFINE st == [c.st EXCEPT !.silenceAlerted = TRUE]
<1>1. c \in Session /\ c.st \in SourceState /\ c.st.warm = w
  BY SessionType DEF Good
<1>2. st \in SourceState /\ st.warm = w /\ st.since = c.st.since
  BY <1>1 DEF SourceState
<1>3. Good([c EXCEPT !.st = st], b, w)
  BY <1>2, NewState
<1> QED  BY <1>1, <1>3 DEF Session, SilenceFlagged

\* The alert is closed in the batch that raises it: the auto-resolve finds the
\* one just written, because no other silence of the source is open.
LEMMA SilenceWrites ==
    ASSUME IInv, NEW b \in Batches, NEW w, NEW c, Good(c, b, w), b.src \in Registered
    PROVE  LET x  == NewAlert(b, "SERVICE_SILENCE", "CRITICAL", b.svc, None)
               c1 == SilenceFlagged(c)
           IN  \/ CheckServiceSilence(c, b) = c
               \/ CheckServiceSilence(c, b)
                     = [c1 EXCEPT !.tbl = WithAlerts(c1.tbl, {x}, "resolved")]
<1> DEFINE type == "SERVICE_SILENCE"
           x  == NewAlert(b, type, "CRITICAL", b.svc, None)
           c1 == SilenceFlagged(c)
           c2 == BuildAlert(c1, b, type, "CRITICAL", b.svc, None)
<1>1. Good(c1, b, w) /\ c1 = [c EXCEPT !.st.silenceAlerted = TRUE]
  BY FlaggedGood
<1> HIDE DEF c1
<1>2. /\ x \in AlertId /\ x.type = type
      /\ x.src = b.src /\ x.seq = nextSeq /\ x.at = now /\ x.boot = boot
  BY NewAlertType, BatchType DEF Batch, AnomalyType, Severity
<1> HIDE DEF x
<1>3. c2 = [c1 EXCEPT !.tbl = Put(c1.tbl, x, "open")] /\ c2.ok
  BY <1>1 DEF BuildAlert, Good, Session, x
<1>4. c2.tbl = Put(c1.tbl, x, "open")
  BY <1>1, <1>3 DEF Good, Session
<1>5. OpenAlerts(c2.tbl, b.src, type) = {x}
  BY <1>1, <1>2, <1>4 DEF OpenAlerts, Put, Good, Silenced
<1>6. (CHOOSE a \in {x} : \A o \in {x} : o.seq <= a.seq) = x
  BY <1>2 DEF IInv, TypeOK
<1>7. TryAutoResolve(c2, b, type) = [c2 EXCEPT !.tbl = [c2.tbl EXCEPT ![x] = "resolved"]]
  BY <1>5, <1>6 DEF TryAutoResolve
<1>8. [c2.tbl EXCEPT ![x] = "resolved"] = WithAlerts(c1.tbl, {x}, "resolved")
  BY <1>4 DEF Put, WithAlerts
<1>9. TryAutoResolve(c2, b, type) = [c1 EXCEPT !.tbl = WithAlerts(c1.tbl, {x}, "resolved")]
  <2> HIDE DEF c2
  <2> DEFINE T == WithAlerts(c1.tbl, {x}, "resolved")
  <2>1. TryAutoResolve(c2, b, type) = [c2 EXCEPT !.tbl = T]
    BY <1>7, <1>8
  <2> HIDE DEF T
  <2>2. TryAutoResolve(c2, b, type) = [c1 EXCEPT !.tbl = T]
    BY <1>1, <1>3, <2>1 DEF Good, Session
  <2> QED  BY <2>2 DEF T
<1> QED  BY <1>1, <1>3, <1>9 DEF CheckServiceSilence, Then, c1, x

\* The other case: the alert cannot be written.
LEMMA SilenceFails ==
    ASSUME IInv, NEW b \in Batches, NEW w, NEW c, Good(c, b, w), b.src \notin Registered
    PROVE  \/ CheckServiceSilence(c, b) = c
           \/ CheckServiceSilence(c, b)
                 = [SilenceFlagged(c) EXCEPT !.tbl = alerts, !.rows = rows, !.ok = FALSE]
<1> DEFINE c1 == SilenceFlagged(c)
           c2 == BuildAlert(c1, b, "SERVICE_SILENCE", "CRITICAL", b.svc, None)
<1>1. Good(c1, b, w) /\ c1 = [c EXCEPT !.st.silenceAlerted = TRUE]
  BY FlaggedGood
<1> HIDE DEF c1
<1>2. c2 = [c1 EXCEPT !.tbl = alerts, !.rows = rows, !.ok = FALSE] /\ ~c2.ok
  BY <1>1 DEF BuildAlert, Good, Session
<1> QED  BY <1>1, <1>2 DEF CheckServiceSilence, Then, c1

LEMMA SilenceGood ==
    ASSUME IInv, NEW b \in Batches, NEW w, NEW c, Good(c, b, w)
    PROVE  Good(CheckServiceSilence(c, b), b, w)
<1> DEFINE x  == NewAlert(b, "SERVICE_SILENCE", "CRITICAL", b.svc, None)
           c1 == SilenceFlagged(c)
<1>1. Good(c1, b, w)
  BY FlaggedGood
<1> HIDE DEF c1
<1>2. CASE b.src \in Registered
  <2>1. Admissible(x, c1, b, "resolved")
    BY NewAlertType, BatchType DEF Admissible, Batch, AnomalyType, Severity
  <2> HIDE DEF x
  <2>2. Good([c1 EXCEPT !.tbl = WithAlerts(c1.tbl, {x}, "resolved")], b, w)
    BY <1>1, <2>1, AddAlerts
  <2> QED  BY <1>2, <2>2, SilenceWrites DEF c1, x
<1>3. CASE b.src \notin Registered
  <2>1. Good([c1 EXCEPT !.tbl = alerts, !.rows = rows, !.ok = FALSE], b, w)
    BY <1>1, <1>3, RolledBack
  <2> QED  BY <1>3, <2>1, SilenceFails DEF c1
<1> QED  BY <1>2, <1>3

LEMMA CascadeGood ==
    ASSUME IInv, NEW b \in Batches, NEW w, NEW c, Good(c, b, w)
    PROVE  Good(CheckCascade(c, b), b, w)
<1> DEFINE t == TenantOf[b.src]
           c1 == [c EXCEPT !.fired[t] = now]
           x == NewAlert(b, "CASCADE", "CRITICAL", UnknownService, None)
<1> SUFFICES ASSUME ~(c.fired[t] # None /\ now - c.fired[t] < CascadeWindow)
             PROVE  Good(BuildAlert(c1, b, "CASCADE", "CRITICAL", UnknownService, None), b, w)
  BY DEF CheckCascade
<1>1. c \in Session /\ t \in Tenants /\ c.fired \in [Tenants -> MaybeTime] /\ now \in Int
  BY BatchType, SessionType, EngineAssumption DEF Batch, Session, IInv, TypeOK
<1>2. c1 \in Session /\ c1.fired = [c.fired EXCEPT ![t] = now] /\ c1.tbl = c.tbl
      /\ c1.st = c.st /\ c1.rows = c.rows /\ c1.ok = c.ok /\ c1.failed = c.failed
  BY <1>1 DEF Session, MaybeTime
<1> HIDE DEF c1
<1>3. Guarded(c1.tbl, c1.fired)
  <2> SUFFICES ASSUME NEW a \in DOMAIN c.tbl, a.type = "CASCADE", a.boot = boot
               PROVE  c1.fired[TenantOf[a.src]] \in Int /\ a.at <= c1.fired[TenantOf[a.src]]
    BY <1>2 DEF Guarded
  <2>1. c.fired[TenantOf[a.src]] \in Int /\ a.at <= c.fired[TenantOf[a.src]]
    BY DEF Good, Guarded
  <2>2. a.at <= now
    BY <1>1 DEF Good, Grown, IInv, TypeOK
  <2> QED  BY <1>1, <1>2, <2>1, <2>2
<1>4. NotAhead(c1.fired)
  BY <1>1, <1>2 DEF Good, NotAhead
<1>5. Good(c1, b, w)
  BY <1>2, <1>3, <1>4 DEF Good
<1>6. Admissible(x, c1, b, "open")
  <2>1. c1.fired[t] = now
    BY <1>1, <1>2
  <2>2. ASSUME NEW a \in DOMAIN alerts,
               a.type = "CASCADE", TenantOf[a.src] = t, a.boot = boot
        PROVE  now - a.at >= CascadeWindow
    <3>1. c.fired[t] \in Int /\ a.at <= c.fired[t]
      BY <2>2 DEF Good, Grown, Guarded
    <3>2. now - c.fired[t] >= CascadeWindow
      BY <1>1, <3>1, EngineAssumption
    <3>3. a.at \in Int
      BY DEF IInv, TypeOK, AlertId
    <3> QED  BY <1>1, <3>1, <3>2, <3>3, EngineAssumption
  <2>3. x \in AlertId /\ x.type = "CASCADE" /\ x.src = b.src
        /\ x.seq = nextSeq /\ x.at = now /\ x.boot = boot
    BY NewAlertType, EngineAssumption DEF AnomalyType, Severity
  <2> QED  BY <2>1, <2>2, <2>3 DEF Admissible
<1> QED  BY <1>5, <1>6, BuildGood, EngineAssumption DEF AnomalyType, Severity

LEMMA SustainedGood ==
    ASSUME IInv, NEW b \in Batches, NEW w, NEW c, Good(c, b, w)
    PROVE  Good(CheckSustainedElevation(c, b), b, w)
<1> DEFINE With(since, sev) ==
              [c EXCEPT !.st = [c.st EXCEPT !.aboveSince = since, !.sustained = sev]]
<1>1. c \in Session /\ c.st \in SourceState /\ c.st.warm = w /\ now \in Int
  BY SessionType DEF Good, IInv, TypeOK
<1>2. ASSUME NEW since \in MaybeTime, NEW sev \in Severity \cup {None}
      PROVE  Good(With(since, sev), b, w)
  <2> DEFINE st == [c.st EXCEPT !.aboveSince = since, !.sustained = sev]
  <2>1. st \in SourceState /\ st.warm = w /\ st.since = c.st.since
    BY <1>1 DEF SourceState
  <2> QED  BY <2>1, NewState
<1>3. c.st.aboveSince \in MaybeTime /\ c.st.sustained \in Severity \cup {None}
  BY <1>1 DEF SourceState
<1>4. Good([c EXCEPT !.st.aboveSince = None, !.st.sustained = None], b, w)
  <2>1. [c EXCEPT !.st.aboveSince = None, !.st.sustained = None] = With(None, None)
    BY <1>1 DEF Session, SourceState
  <2> QED  BY <1>2, <2>1 DEF MaybeTime
<1>5. Good([c EXCEPT !.st.aboveSince = now], b, w)
  <2>1. [c EXCEPT !.st.aboveSince = now] = With(now, c.st.sustained)
    BY <1>1 DEF Session, SourceState
  <2> QED  BY <1>1, <1>2, <1>3, <2>1 DEF MaybeTime
<1>6. ASSUME NEW sev \in Severity
      PROVE  Good([c EXCEPT !.st.sustained = sev], b, w)
  <2>1. [c EXCEPT !.st.sustained = sev] = With(c.st.aboveSince, sev)
    BY <1>1 DEF Session, SourceState
  <2> QED  BY <1>2, <1>3, <2>1
<1> HIDE DEF With
<1>7. ASSUME NEW sev \in Severity
      PROVE  Good(BuildAlert([c EXCEPT !.st.sustained = sev], b,
                             "SUSTAINED_ELEVATION", sev, UnknownService, None), b, w)
  BY <1>6, PlainAlertGood, EngineAssumption DEF AnomalyType
<1> QED  BY <1>4, <1>5, <1>7, ResolveGood DEF CheckSustainedElevation, Severity

LEMMA LatencyGood ==
    ASSUME IInv, NEW b \in Batches, NEW w, NEW c, Good(c, b, w)
    PROVE  Good(CheckLatencySpike(c, b), b, w)
<1>1. c \in Session /\ c.st \in SourceState /\ c.st.warm = w
  BY SessionType DEF Good
<1>2. ASSUME NEW n \in Nat
      PROVE  Good([c EXCEPT !.st.latClean = n], b, w)
  <2> DEFINE st == [c.st EXCEPT !.latClean = n]
  <2>1. st \in SourceState /\ st.warm = w /\ st.since = c.st.since
    BY <1>1 DEF SourceState
  <2>2. Good([c EXCEPT !.st = st], b, w)
    BY <2>1, NewState
  <2> QED  BY <1>1, <2>2 DEF Session
<1>3. Good([c EXCEPT !.st.latClean = 0], b, w)
  BY <1>2
<1>4. Good([c EXCEPT !.st.latClean = Bump(@, 2)], b, w)
  BY <1>1, <1>2, BumpType DEF SourceState
<1> QED  BY <1>3, <1>4, PlainAlertGood, ResolveGood, BatchType
         DEF CheckLatencySpike, AnomalyType, Severity, Batch

LEMMA NovelGood ==
    ASSUME IInv, NEW b \in Batches, NEW w, NEW c, Good(c, b, w), NEW keep
    PROVE  Good(CheckNovelError(c, b, keep), b, w)
<1> DEFINE known == Known(c.st)
           new   == b.fps \ known
           fps   == [f \in Fingerprints |->
                        IF f \in known THEN c.st.fps[f] ELSE IF f \in keep THEN now ELSE None]
           st    == [c.st EXCEPT !.fps = fps]
           c1    == [c EXCEPT !.st = st]
           ids   == {NewAlert(b, "NOVEL_ERROR", "WARNING", b.svc, f) : f \in new}
<1>1. c \in Session /\ c.st \in SourceState /\ c.st.warm = w /\ now \in Int
  BY SessionType DEF Good, IInv, TypeOK
<1>2. c.st.fps \in [Fingerprints -> MaybeTime]
  BY <1>1 DEF SourceState
<1>3. fps \in [Fingerprints -> MaybeTime]
  BY <1>1, <1>2 DEF MaybeTime
<1> HIDE DEF fps
<1>4. st \in SourceState /\ st.warm = w /\ st.since = c.st.since
  BY <1>1, <1>3 DEF SourceState
<1>5. Good(c1, b, w)
  BY <1>4, NewState
<1>6. \A x \in ids : Admissible(x, c1, b, "open")
  <2> SUFFICES ASSUME NEW f \in new
               PROVE  Admissible(NewAlert(b, "NOVEL_ERROR", "WARNING", b.svc, f), c1, b, "open")
    OBVIOUS
  <2>1. f \in Fingerprints /\ b.svc \in Services
    BY BatchType DEF Batch
  <2> QED  BY <2>1, NewAlertType DEF Admissible, AnomalyType, Severity
<1>7. c1.tbl = c.tbl /\ c1 \in Session
  BY <1>1, <1>5 DEF Session, Good
<1>8. Good([c1 EXCEPT !.tbl = WithAlerts(c.tbl, ids, "open")], b, w)
  BY <1>5, <1>6, <1>7, AddAlerts
<1>9. [c EXCEPT !.st = st, !.tbl = WithAlerts(c.tbl, ids, "open")]
        = [c1 EXCEPT !.tbl = WithAlerts(c.tbl, ids, "open")]
  OBVIOUS
<1>10. ASSUME b.src \notin Registered
       PROVE  Good([c EXCEPT !.st = st, !.tbl = alerts, !.rows = rows, !.ok = FALSE], b, w)
  BY <1>5, <1>10, RolledBack
<1> HIDE DEF new, ids, st
<1>11. CheckNovelError(c, b, keep) =
          IF new = {} THEN c1
          ELSE IF b.src \in Registered
          THEN [c EXCEPT !.st = st, !.tbl = WithAlerts(c.tbl, ids, "open")]
          ELSE [c EXCEPT !.st = st, !.tbl = alerts, !.rows = rows, !.ok = FALSE]
  BY DEF CheckNovelError, WithAlerts, new, ids, st, fps
<1> QED  BY <1>5, <1>8, <1>9, <1>10, <1>11

LEMMA RunDetectorsGood ==
    ASSUME IInv, NEW b \in Batches, NEW w, NEW c, Good(c, b, w), NEW keep
    PROVE  Good(RunDetectors(c, b, keep), b, w)
<1> DEFINE c1 == CheckErrorRateSpike(c, b)
           c2 == Then(c1, CheckCascade(c1, b))
           c3 == Then(c2, CheckSustainedElevation(c2, b))
           c4 == Then(c3, CheckLatencySpike(c3, b))
<1>1. Good(c1, b, w)
  BY SpikeGood
<1> HIDE DEF c1
<1>2. Good(c2, b, w)
  BY <1>1, CascadeGood, ThenGood
<1> HIDE DEF c2
<1>3. Good(c3, b, w)
  BY <1>2, SustainedGood, ThenGood
<1> HIDE DEF c3
<1>4. Good(c4, b, w)
  BY <1>3, LatencyGood, ThenGood
<1> HIDE DEF c4
<1>5. Good(Then(c4, CheckNovelError(c4, b, keep)), b, w)
  BY <1>4, NovelGood, ThenGood
<1> QED  BY <1>5 DEF RunDetectors, c1, c2, c3, c4

-----------------------------------------------------------------------------
(* The end of the session. *)

\* The last step may also have written the row and restarted the counter, or have
\* failed to, which a registered source meets MaxFailedPersists times at most.
Done(c, b) ==
    /\ c \in Session
    /\ Grown(c.tbl, b.src)
    /\ Silenced(c.tbl)
    /\ Guarded(c.tbl, c.fired)
    /\ NotAhead(c.fired)
    /\ Spaced(c.tbl)
    /\ \A s \in Sources \ {b.src} : c.rows[s] = rows[s]
    /\ c.failed /\ b.src \in Registered => failures < MaxFailedPersists

LEMMA PersistDone ==
    ASSUME IInv, NEW b \in Batches, NEW w \in Nat, NEW c, Good(c, b, w),
           NEW outcome \in Outcomes(b.src)
    PROVE  Done(PersistEveryN(c, b, outcome), b)
<1> DEFINE st1 == [c.st EXCEPT !.since = @ + 1]
           st2 == [c.st EXCEPT !.since = 0]
           c1  == [c EXCEPT !.st = st1]
           c2  == [c EXCEPT !.st = st2]
           r   == Persisted(st2)
<1>1. /\ c \in Session /\ c.st \in SourceState /\ ~c.failed
      /\ b.src \in Sources /\ c.rows = rows /\ rows \in [Sources -> Row \cup {None}]
  BY SessionType, BatchType DEF Good, IInv, TypeOK, Batch
<1>2. st1 \in SourceState /\ st2 \in SourceState /\ r \in Row
  BY <1>1 DEF SourceState, Persisted, Row
<1>3. PersistEveryN(c, b, outcome) =
         IF st1.since < PersistEvery THEN c1
         ELSE IF outcome = "written" THEN [c2 EXCEPT !.rows[b.src] = r]
         ELSE IF outcome = "refused" THEN [c2 EXCEPT !.failed = TRUE]
         ELSE [c2 EXCEPT !.tbl = alerts, !.rows = rows, !.failed = TRUE]
  <2>1. [c EXCEPT !.st.since = @ + 1] = c1 /\ [c EXCEPT !.st.since = 0] = c2
        /\ c1.st = st1 /\ c2.st = st2
    BY <1>1 DEF Session, SourceState
  <2> HIDE DEF c1, c2, st1, st2
  <2>2. PersistEveryN(c, b, outcome) =
           IF c1.st.since < PersistEvery THEN c1 ELSE PersistState(c2, b, outcome)
    BY <2>1, Zenon DEF PersistEveryN
  <2>3. Persisted(c2.st) = r
    BY <2>1 DEF r
  <2>4. PersistState(c2, b, outcome) =
           IF outcome = "written" THEN [c2 EXCEPT !.rows[b.src] = r]
           ELSE IF outcome = "refused" THEN [c2 EXCEPT !.failed = TRUE]
           ELSE [c2 EXCEPT !.tbl = alerts, !.rows = rows, !.failed = TRUE]
    BY <2>3, Zenon DEF PersistState
  <2> QED  BY <2>1, <2>2, <2>4, Zenon
<1> HIDE DEF st1, st2, r
<1>4. Done(c1, b)
  BY <1>1, <1>2 DEF Good, Done, Session
<1>5. Done([c2 EXCEPT !.rows[b.src] = r], b)
  <2> DEFINE d == [c2 EXCEPT !.rows[b.src] = r]
  <2>1. /\ d \in Session /\ d.tbl = c.tbl /\ d.fired = c.fired /\ ~d.failed
        /\ d.rows = [rows EXCEPT ![b.src] = r]
    BY <1>1, <1>2 DEF Session
  <2> HIDE DEF d
  <2>2. \A s \in Sources \ {b.src} : d.rows[s] = rows[s]
    BY <1>1, <2>1
  <2>3. Done(d, b)
    BY <2>1, <2>2 DEF Good, Done
  <2> QED  BY <2>3 DEF d
<1>6. outcome # "written" /\ b.src \in Registered => failures < MaxFailedPersists
  BY DEF Outcomes
<1>7. ASSUME outcome # "written"
      PROVE  Done([c2 EXCEPT !.failed = TRUE], b)
  BY <1>1, <1>2, <1>6, <1>7 DEF Good, Done, Session
<1>8. ASSUME outcome # "written"
      PROVE  Done([c2 EXCEPT !.tbl = alerts, !.rows = rows, !.failed = TRUE], b)
  <2> DEFINE d == [c2 EXCEPT !.tbl = alerts, !.rows = rows, !.failed = TRUE]
  <2>1. alerts \in Table
    BY TableDef DEF IInv, TypeOK
  <2>2. d \in Session /\ d.tbl = alerts /\ d.rows = rows /\ d.fired = c.fired
    BY <1>1, <1>2, <2>1 DEF Session
  <2>3. Guarded(alerts, c.fired) /\ NotAhead(c.fired)
    BY DEF Good, Grown, Guarded
  <2> HIDE DEF d
  <2>4. Done(d, b)
    BY <1>6, <1>8, <2>2, <2>3 DEF Done, IInv, Grown
  <2> QED  BY <2>4 DEF d
<1> QED  BY <1>3, <1>4, <1>5, <1>7, <1>8

LEMMA ProcessDone ==
    ASSUME IInv, NEW b \in Batches, NEW keep, NEW outcome \in Outcomes(b.src)
    PROVE  Done(Process(b, keep, outcome), b)
<1> DEFINE w0 == LoadState(b.src).warm
           c1 == CheckServiceSilence(Begin(b.src), b)
           c2 == Then(c1, UpdateBaselines(c1, b))
           c3 == IF c2.ok /\ Warm(c2.st) THEN RunDetectors(c2, b, keep) ELSE c2
<1>1. w0 \in Nat
  BY LoadStateType, BatchType DEF IInv, Batch, SourceState
<1>2. Good(c1, b, w0)
  BY BeginGood, SilenceGood
<1> HIDE DEF c1, w0
<1>3. \E w \in Nat : Good(c2, b, w)
  <2>1. Good(UpdateBaselines(c1, b), b, Bump(w0, WarmupRequired))
    BY <1>1, <1>2, UpdateBaselinesGood
  <2>2. Bump(w0, WarmupRequired) \in Nat
    BY <1>1, EngineAssumption DEF Bump
  <2> QED  BY <1>1, <1>2, <2>1, <2>2 DEF Then
<1> HIDE DEF c2
<1>4. PICK w \in Nat : Good(c2, b, w)
  BY <1>3
<1>5. Good(c3, b, w)
  BY <1>4, RunDetectorsGood
<1> HIDE DEF c3
<1>6. Done(PersistEveryN(c3, b, outcome), b)
  BY <1>4, <1>5, PersistDone
<1>7. CASE ~c3.ok
  <2>1. \A s \in Sources \ {b.src} : c3.rows[s] = rows[s]
    BY <1>5 DEF Good
  <2> QED  BY <1>5, <1>7, <2>1 DEF Good, Done, Process, Then, c1, c2, c3
<1>8. CASE c3.ok
  BY <1>6, <1>8 DEF Process, Then, c1, c2, c3
<1> QED  BY <1>7, <1>8

-----------------------------------------------------------------------------
(* The actions preserve the invariant. *)

LEMMA InitInv == Init => IInv
<1> SUFFICES ASSUME Init
             PROVE  IInv
  OBVIOUS
<1>1. DOMAIN alerts = {}
  BY DEF Init
<1>2. TypeOK
  BY <1>1, EngineAssumption DEF Init, TypeOK, MaybeTime
<1>3. alerts \in [DOMAIN alerts -> Status]
  BY DEF Init
<1> QED  BY <1>1, <1>2, <1>3
         DEF Init, IInv, Silenced, Guarded, NotAhead, Spaced

LEMMA FinishInv ==
    ASSUME IInv, NEW b \in Batches, NEW c, Done(c, b), Finish(b, c)
    PROVE  IInv'
<1>1. /\ c.st \in SourceState /\ c.tbl \in Table /\ c.fired \in [Tenants -> MaybeTime]
      /\ c.rows \in [Sources -> Row \cup {None}] /\ b.src \in Sources
  BY BatchType DEF Done, Session, Batch
<1>2. DOMAIN c.tbl \subseteq AlertId /\ c.tbl \in [DOMAIN c.tbl -> Status]
  BY <1>1, TableDef
<1>3. /\ cache' = [cache EXCEPT ![b.src] = c.st] /\ cascadeFired' = c.fired
      /\ reported' = DOMAIN c.tbl \ DOMAIN alerts
      /\ boot' = boot /\ now' = now
      /\ \/ alerts' = c.tbl /\ rows' = c.rows
         \/ alerts' = alerts /\ rows' = rows
  BY DEF Finish
<1>4. /\ nextSeq' \in Nat /\ nextSeq <= nextSeq'
      /\ reported' # {} => nextSeq' = nextSeq + 1
  BY DEF Finish, IInv, TypeOK
<1>5. /\ DOMAIN alerts' \subseteq AlertId /\ alerts' \in [DOMAIN alerts' -> Status]
      /\ DOMAIN alerts \subseteq DOMAIN alerts'
  BY <1>2, <1>3 DEF IInv, TypeOK, Done, Grown
<1>6. \A a \in DOMAIN alerts' : a.seq < nextSeq' /\ a.at <= now' /\ a.boot <= boot'
  <2> SUFFICES ASSUME NEW a \in DOMAIN alerts'
               PROVE  a.seq < nextSeq' /\ a.at <= now' /\ a.boot <= boot'
    OBVIOUS
  <2>1. CASE a \in DOMAIN alerts
    <3>1. a.seq \in Nat /\ a.seq < nextSeq /\ a.at <= now /\ a.boot <= boot /\ nextSeq \in Nat
      BY <2>1 DEF IInv, TypeOK, AlertId
    <3> QED  BY <1>3, <1>4, <3>1
  <2>2. CASE a \notin DOMAIN alerts
    <3>1. a \in reported' /\ a.seq = nextSeq /\ a.at = now /\ a.boot = boot
      BY <1>3, <2>2 DEF Done, Grown
    <3> QED  BY <1>3, <1>4, <3>1 DEF IInv, TypeOK
  <2> QED  BY <2>1, <2>2
<1>7. cache' \in [Sources -> SourceState \cup {None}]
  BY <1>1, <1>3 DEF IInv, TypeOK
<1>11. failures' \in 0 .. MaxFailedPersists
  BY EngineAssumption DEF Finish, Done, IInv, TypeOK
<1>8. TypeOK'
  BY <1>1, <1>2, <1>3, <1>4, <1>5, <1>6, <1>7, <1>11 DEF TypeOK, IInv
<1>9. Silenced(alerts)' /\ NotAhead(cascadeFired)' /\ Spaced(alerts)'
  BY <1>3 DEF IInv, Done, Silenced, NotAhead, Spaced
<1>10. Guarded(alerts, cascadeFired)'
  BY <1>3 DEF Done, Guarded, Grown
<1> QED  BY <1>5, <1>6, <1>8, <1>9, <1>10 DEF IInv

LEMMA AcknowledgeInv ==
    ASSUME IInv, NEW a \in DOMAIN alerts, Acknowledge(a)
    PROVE  IInv'
<1>1. /\ DOMAIN alerts' = DOMAIN alerts
      /\ alerts' \in [DOMAIN alerts -> Status]
      /\ \A x \in DOMAIN alerts : alerts'[x] = IF x = a THEN "acknowledged" ELSE alerts[x]
  BY DEF Acknowledge, IInv, Status
<1>2. UNCHANGED <<cache, rows, cascadeFired, nextSeq, failures, boot, now>> /\ reported' = {}
  BY DEF Acknowledge
<1>3. TypeOK'
  BY <1>1, <1>2 DEF IInv, TypeOK
<1> QED  BY <1>1, <1>2, <1>3
         DEF IInv, Silenced, Guarded, NotAhead, Spaced

LEMMA CleanTenantInv ==
    ASSUME IInv, NEW t \in Tenants, CleanTenant(t)
    PROVE  IInv'
<1>1. /\ DOMAIN alerts' \subseteq DOMAIN alerts
      /\ alerts' \in [DOMAIN alerts' -> Status]
      /\ \A x \in DOMAIN alerts' : alerts'[x] = alerts[x]
  BY DEF CleanTenant, IInv
<1>2. UNCHANGED <<cache, rows, cascadeFired, nextSeq, failures, boot, now>> /\ reported' = {}
  BY DEF CleanTenant
<1>3. TypeOK'
  BY <1>1, <1>2 DEF IInv, TypeOK
<1> QED  BY <1>1, <1>2, <1>3
         DEF IInv, Silenced, Guarded, NotAhead, Spaced

\* The guard is lost, but so is the process whose CASCADEs it spaces.
LEMMA LoseMemoryInv ==
    ASSUME IInv, LoseMemory, rows' \in [Sources -> Row \cup {None}]
    PROVE  IInv'
<1>1. /\ boot' = boot + 1 /\ boot \in Nat
      /\ cache' = [s \in Sources |-> None]
      /\ cascadeFired' = [t \in Tenants |-> None]
      /\ reported' = {} /\ UNCHANGED <<alerts, nextSeq, failures, now>>
  BY DEF LoseMemory, IInv, TypeOK
<1>2. \A a \in DOMAIN alerts : a.boot \in Nat /\ a.boot < boot'
  BY <1>1 DEF IInv, TypeOK, AlertId
<1>3. TypeOK'
  BY <1>1 DEF IInv, TypeOK, MaybeTime
<1>4. Guarded(alerts, cascadeFired)'
  BY <1>1, <1>2 DEF Guarded
<1>6. (\A a \in DOMAIN alerts : a.boot <= boot)'
  BY <1>1, <1>2
<1> QED  BY <1>1, <1>3, <1>4, <1>6 DEF IInv, Silenced, NotAhead, Spaced

LEMMA ShutdownInv ==
    ASSUME IInv, Shutdown
    PROVE  IInv'
<1>1. PICK saved \in FlushOutcomes :
         rows' = [s \in Sources |-> IF s \in saved THEN Persisted(cache[s]) ELSE rows[s]]
  BY DEF Shutdown
<1>2. \A s \in saved : s \in Sources /\ cache[s] # None
  BY EngineAssumption DEF FlushOutcomes
<1>3. \A s \in saved : Persisted(cache[s]) \in Row
  BY <1>2 DEF IInv, TypeOK, Persisted, SourceState, Row
<1>4. rows' \in [Sources -> Row \cup {None}]
  BY <1>1, <1>2, <1>3 DEF IInv, TypeOK
<1> QED  BY <1>4, LoseMemoryInv DEF Shutdown

LEMMA TickInv ==
    ASSUME IInv, Tick
    PROVE  IInv'
<1>1. /\ now' = now + 1 /\ now \in Nat /\ reported' = {}
      /\ UNCHANGED <<cache, rows, cascadeFired, alerts, nextSeq, failures, boot>>
  BY DEF Tick, IInv, TypeOK
<1>2. TypeOK'
  BY <1>1 DEF IInv, TypeOK, AlertId
<1>3. NotAhead(cascadeFired)'
  BY <1>1 DEF IInv, TypeOK, NotAhead, MaybeTime
<1> QED  BY <1>1, <1>2, <1>3 DEF IInv, Silenced, Guarded, Spaced

LEMMA NextInv == IInv /\ [Next]_vars => IInv'
<1> SUFFICES ASSUME IInv, [Next]_vars
             PROVE  IInv'
  OBVIOUS
<1>1. ASSUME NEW b \in Batches, Ingest(b)
      PROVE  IInv'
  BY <1>1, ProcessDone, FinishInv DEF Ingest
<1>2. ASSUME NEW a \in DOMAIN alerts, Acknowledge(a)
      PROVE  IInv'
  BY <1>2, AcknowledgeInv
<1>3. ASSUME NEW t \in Tenants, CleanTenant(t)
      PROVE  IInv'
  BY <1>3, CleanTenantInv
<1>4. CASE Crash
  BY <1>4, LoseMemoryInv DEF Crash, IInv, TypeOK
<1>5. CASE Shutdown
  BY <1>5, ShutdownInv
<1>6. CASE Tick
  BY <1>6, TickInv
<1>7. CASE UNCHANGED vars
  BY <1>7 DEF vars, IInv, TypeOK, Silenced, Guarded, NotAhead, Spaced
<1> QED  BY <1>1, <1>2, <1>3, <1>4, <1>5, <1>6, <1>7 DEF Next

-----------------------------------------------------------------------------
(* The theorems. *)

LEMMA Invariance == Spec => []IInv
BY InitInv, NextInv, PTL DEF Spec

\* The engine's state, the two tables and the guard keep their shape, whatever the
\* batches: numbers of alerts are never reused, and no alert lies in the future.
THEOREM TypeCorrect == Spec => []TypeOK
<1>1. IInv => TypeOK
  BY DEF IInv
<1> QED  BY <1>1, Invariance, PTL

\* A SERVICE_SILENCE alert is closed in the batch that raises it.  The proof shows
\* that the auto-resolve of that batch finds the alert the batch has just written.
THEOREM SilenceIsClosed == Spec => []SilenceNeverOpen
<1>1. IInv => SilenceNeverOpen
  BY DEF IInv, Silenced, SilenceNeverOpen
<1> QED  BY <1>1, Invariance, PTL

\* One process raises no second CASCADE for a tenant within the window, for any
\* number of tenants, sources and services.
THEOREM CascadesAreSpaced == Spec => []CascadeSpacing
<1>1. IInv => CascadeSpacing
  BY DEF IInv, Spaced, CascadeSpacing
<1> QED  BY <1>1, Invariance, PTL

-----------------------------------------------------------------------------
(* The engine implements the alert life cycle. *)

LEMMA FinishDetects ==
    ASSUME IInv, NEW b \in Batches, NEW c, Done(c, b), Finish(b, c)
    PROVE  Lifecycle!Detect(b.src)
<1>1. /\ nextSeq' \in {nextSeq, nextSeq + 1}
      /\ DOMAIN alerts' \ DOMAIN alerts # {} => nextSeq' = nextSeq + 1
      /\ alerts' = c.tbl \/ alerts' = alerts
  BY DEF Finish
<1>2. CASE alerts' = c.tbl
  BY <1>1, <1>2 DEF Done, Grown, Lifecycle!Detect, Lifecycle!Raised
<1>3. CASE alerts' = alerts
  BY <1>1, <1>3 DEF Lifecycle!Detect, Lifecycle!Raised
<1> QED  BY <1>1, <1>2, <1>3

LEMMA StepImplements ==
    ASSUME IInv, [Next]_vars
    PROVE  [Lifecycle!Next]_(Lifecycle!avars)
<1>1. ASSUME NEW b \in Batches, Ingest(b)
      PROVE  Lifecycle!Next
  <2>1. Lifecycle!Detect(b.src)
    BY <1>1, ProcessDone, FinishDetects DEF Ingest
  <2> QED  BY <2>1, BatchType DEF Lifecycle!Next, Batch
<1>2. ASSUME NEW a \in DOMAIN alerts, Acknowledge(a)
      PROVE  Lifecycle!Next
  BY <1>2 DEF Acknowledge, Lifecycle!Next, Lifecycle!Acknowledge
<1>3. ASSUME NEW t \in Tenants, CleanTenant(t)
      PROVE  Lifecycle!Next
  <2>1. Lifecycle!Delete(Expired(t)) /\ Expired(t) \in SUBSET DOMAIN alerts
    BY <1>3 DEF CleanTenant, Expired, Lifecycle!Delete
  <2> QED  BY <2>1 DEF Lifecycle!Next
<1>4. CASE Crash \/ Shutdown \/ Tick \/ UNCHANGED vars
  BY <1>4 DEF Crash, Shutdown, LoseMemory, Tick, vars, Lifecycle!avars
<1> QED  BY <1>1, <1>2, <1>3, <1>4 DEF Next

\* Every execution of the engine with its operators and its clean-up is an
\* execution of the alert life cycle: alerts are raised once, by their own source,
\* under a fresh number; only open ones are resolved, by their own source, or
\* acknowledged; closed ones never change; and open ones are never deleted.
THEOREM EngineImplementsLifecycle == Spec => ImplementsLifecycle
<1>1. Init => Lifecycle!Init
  BY DEF Init, Lifecycle!Init
<1>2. IInv /\ [Next]_vars => [Lifecycle!Next]_(Lifecycle!avars)
  BY StepImplements
<1> QED  BY <1>1, <1>2, Invariance, PTL DEF Spec, ImplementsLifecycle, Lifecycle!Spec
=============================================================================
