--------------------------- MODULE MCAnomalyEngine ---------------------------
(***************************************************************************)
(* Instances of AnomalyMonitor for TLC.  A configuration picks one of the  *)
(* sets of batches below: each exercises some of the detectors, so that    *)
(* the interesting sequences fit in a small instance.                      *)
(***************************************************************************)
EXTENDS AnomalyMonitor

CONSTANTS t1, t2, s1, s2, s3, f1, f2

MCTenantOf == [s \in Sources |-> IF s = s3 THEN t2 ELSE t1]

Log(src, svc, err, lat, fps, oldest, newest) ==
    [src |-> src, svc |-> svc, err |-> err, lat |-> lat, fps |-> fps,
     oldest |-> oldest, newest |-> newest]

\* A source whose alerts can be written (error rates and latencies) and one whose
\* alerts cannot.  Entries are stamped now; all errors carry one message.
CoreBatches ==
    {Log(s1, "api", "below", "normal", {}, 0, 0),
     Log(s1, "api", "below", "crit", {}, 0, 0),
     Log(s1, "api", "warn", "none", {f1}, 0, 0),
     Log(s2, "db", "crit", "none", {f1}, 0, 0)}

\* Spikes of two tenants and two services; s1 also sends healthy batches.
CascadeBatches ==
    {Log(s, IF s = s2 THEN "db" ELSE "api", "crit", "none", {f1}, 0, 0) :
        s \in {s1, s2, s3}}
    \cup {Log(s1, "api", "below", "none", {}, 0, 0)}

\* One source that spikes and recovers.
SpikeBatches ==
    {Log(s1, "api", "below", "none", {}, 0, 0), Log(s1, "api", "crit", "none", {f1}, 0, 0)}

\* One source over time: healthy, late and failing batches, two error messages.
TimeBatches ==
    {Log(s1, "api", "below", "none", {}, 0, 0),
     Log(s1, "api", "below", "none", {f1, f2}, 2, 1),
     Log(s1, "api", "above", "none", {f1}, 0, 0)}
=============================================================================
