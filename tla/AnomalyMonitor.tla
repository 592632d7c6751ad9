--------------------------- MODULE AnomalyMonitor ---------------------------
(***************************************************************************)
(* AnomalyEngine with an observer that remembers, for each source, what it *)
(* really sent.  The detectors keep summaries of that history (counters,   *)
(* first times, fingerprint lists), some of them lost in a crash and some  *)
(* capped; the properties below compare what they decide with the history. *)
(***************************************************************************)
EXTENDS AnomalyEngine

VARIABLE sent   \* source -> what it sent; see NothingSent

mvars == <<vars, sent>>

NothingSent ==
    [total |-> 0,           \* batches ever sent (up to WarmupRequired)
     calm |-> 0,            \* batches since the last spiking one, this boot (up to 2)
     lastBelow |-> now,     \* time of the last batch at or below the baseline, or of the boot
     belowMark |-> 0,       \* nextSeq after that batch
     lastLog |-> None,      \* the latest timestamp ever sent
     unsaved |-> 0,         \* batches since the row was written, this boot (up to UnsavedCap)
     missed |-> 0,          \* failed attempts to write it since then, this boot
     dropped |-> {}]        \* patterns alerted on while the list was full, this boot

\* Beyond this bound of the model the unsaved batches are not counted.
UnsavedCap == PersistEvery * (MaxFailedPersists + 1)

\* Did the step write the row of s?  Only a registered source has one to write.
Wrote(s) == s \in Registered => cache'[s].since = 0 /\ failures' = failures

Observe(h, b) ==
    [total |-> Bump(h.total, WarmupRequired),
     calm |-> IF b.err \in Spiking THEN 0 ELSE Bump(h.calm, 2),
     lastBelow |-> IF b.err = "below" THEN now ELSE h.lastBelow,
     belowMark |-> IF b.err = "below" THEN nextSeq' ELSE h.belowMark,
     lastLog |-> IF h.lastLog = None \/ now - b.newest > h.lastLog
                 THEN now - b.newest ELSE h.lastLog,
     unsaved |-> IF Wrote(b.src) THEN 0 ELSE Bump(h.unsaved, UnsavedCap),
     missed |-> IF Wrote(b.src) THEN 0 ELSE h.missed + (failures' - failures),
     dropped |-> h.dropped \cup
         {f \in b.fps : /\ \E a \in reported' : a.type = "NOVEL_ERROR" /\ a.fp = f
                        /\ cache'[b.src].fps[f] = None}]

MIngest(b) == Ingest(b) /\ sent' = [sent EXCEPT ![b.src] = Observe(@, b)]

MAcknowledge(a) == Acknowledge(a) /\ UNCHANGED sent

MCleanTenant(t) == CleanTenant(t) /\ UNCHANGED sent

MTick == Tick /\ UNCHANGED sent

\* Only what was sent over the whole life of the source survives a restart.
MRestart ==
    /\ Crash \/ Shutdown
    /\ sent' = [s \in Sources |->
                  [NothingSent EXCEPT !.total = sent[s].total, !.lastLog = sent[s].lastLog]]

MInit == Init /\ sent = [s \in Sources |-> NothingSent]

MNext ==
    \/ \E b \in Batches : MIngest(b)
    \/ \E a \in DOMAIN alerts : MAcknowledge(a)
    \/ \E t \in Tenants : MCleanTenant(t)
    \/ MRestart
    \/ MTick

MSpec == MInit /\ [][MNext]_mvars

HealthyBatch(s) == \E b \in Batches : b.src = s /\ b.err = "below" /\ MIngest(b)

\* A source that is alive keeps sending healthy batches.  A batch is handled in
\* the request that brings it and never refused, so this is all the fairness
\* the server needs; it is weak fairness of HealthyBatch, always enabled.
MFairSpec == MSpec /\ \A s \in Registered : []<><<HealthyBatch(s)>>_mvars

-----------------------------------------------------------------------------
(* Restarts and the state that survives them *)

\* No detector but silence speaks before the source has really sent
\* WarmupRequired batches: restoring a row, losing one or counting a batch whose
\* session failed never ends the warm-up early.
NoAlertBeforeWarmup ==
    \A a \in reported : a.type # "SERVICE_SILENCE" =>
        sent[a.src].total >= WarmupRequired

\* A crash of a process whose caller commits loses at most the batches since the
\* last row was written: fewer than PersistEvery, and PersistEvery more for each
\* attempt that failed since, because the counter restarts even then.
BoundedLoss ==
    CallerCommits =>
        \A s \in Registered : cache[s] # None =>
            LET saved == IF rows[s] = None THEN 0 ELSE rows[s].warm
            IN  /\ sent[s].unsaved < PersistEvery * (1 + sent[s].missed)
                /\ cache[s].warm <= saved + sent[s].unsaved

-----------------------------------------------------------------------------
(* Spikes and cascades *)

\* An open spike is auto-resolved only when the last two batches of its source
\* in this process did not spike, whatever happened to the counter in between.
CalmBeforeResolve ==
    [][\A a \in DOMAIN alerts \cap DOMAIN alerts' :
          a.type = "ERROR_RATE_SPIKE" /\ alerts[a] = "open" /\ alerts'[a] = "resolved"
             => sent'[a.src].calm >= 2]_mvars

\* Once a source stops spiking, every one of its open spikes is closed, however
\* many piled up and whichever restarts intervened.  (Each healthy batch past the
\* second resolves one.)
SpikesDrain ==
    \A s \in Registered : <>[](OpenAlerts(alerts, s, "ERROR_RATE_SPIKE") = {})

\* What README.md:356 says of ERROR_RATE_SPIKE: "Auto-Resolves: Yes - 2
\* consecutive clean windows".  Stated for a source that needs no new warm-up.
TwoCleanWindowsResolve ==
    \A s \in Registered :
        sent[s].calm >= 2 => OpenAlerts(alerts, s, "ERROR_RATE_SPIKE") = {}

-----------------------------------------------------------------------------
(* Silence, sustained elevation, novel errors *)

\* A SUSTAINED_ELEVATION alert is true and is not repeated: the source sent no
\* batch at or below its baseline for the whole duration the severity stands
\* for, and this process raised no alert of that severity since the last one.
SustainedIsSustained ==
    \A a \in reported : a.type = "SUSTAINED_ELEVATION" =>
        /\ a.at - sent[a.src].lastBelow
              >= IF a.sev = "CRITICAL" THEN SustainedCritical ELSE SustainedWarning
        /\ \A x \in DOMAIN alerts :
              /\ x.type = a.type /\ x.src = a.src /\ x.sev = a.sev /\ x.boot = a.boot
              /\ x.seq < a.seq
              => x.seq < sent[a.src].belowMark

\* What the engine's header says of SERVICE_SILENCE: "0 logs for >2 min from an
\* active service".  When it is raised, nothing the source ever sent before
\* carries a timestamp from the last SilenceWindow.
SilenceIsReal ==
    [][\A a \in reported' : a.type = "SERVICE_SILENCE" =>
          now - sent[a.src].lastLog >= SilenceWindow]_mvars

\* Within one process and one TTL a pattern is reported once per source, unless
\* the fingerprint list was full when it was reported.
NovelOnce ==
    \A a, x \in DOMAIN alerts :
        /\ a.type = "NOVEL_ERROR" /\ x.type = "NOVEL_ERROR" /\ x.seq < a.seq
        /\ a.src = x.src /\ a.fp = x.fp /\ a.boot = boot /\ x.boot = boot
        /\ a.fp \notin sent[a.src].dropped
        => a.at - x.at >= FingerprintTTL

=============================================================================
