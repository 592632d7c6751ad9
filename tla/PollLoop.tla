----------------------------- MODULE PollLoop -----------------------------
(***************************************************************************)
(* One connector slot of services/connector_manager.py: _poll_loop with    *)
(* the DBConnector as its source, the cursor row in source_state, and the  *)
(* process that is stopped or crashes and starts again.                    *)
(*                                                                         *)
(* A step is what runs between two awaits that matter.  The order of the   *)
(* code is kept: the mark moves in memory inside poll(), is written to     *)
(* source_state by _persist_state (which swallows a database error), and   *)
(* only then are the entries handed on by _dispatch.                       *)
(*                                                                         *)
(* consecutive_empty and consecutive_errors are only compared with >=, so  *)
(* the model stops counting at the threshold.                              *)
(***************************************************************************)
EXTENDS DbConnector

CONSTANTS IdleAfterEmpty,      \* IDLE_AFTER_EMPTY (5)
          BackoffAfterErrors,  \* BACKOFF_AFTER_ERRORS (3)
          MaxStops,            \* bound: stops and crashes of the process
          MaxFailedSaves       \* bound: commits of source_state that fail

ASSUME PollAssumption == /\ IdleAfterEmpty \in Nat \ {0}
                         /\ BackoffAfterErrors \in Nat \ {0}
                         /\ MaxStops \in Nat
                         /\ MaxFailedSaves \in Nat

VARIABLES
  table,     \* the committed rows of the external table
  mark,      \* DBConnector._last_seen_id
  saved,     \* SourceState.last_seen_id, as committed
  pc,        \* where the task is: "down", "asleep", "saving", "dispatching"
  batch,     \* the local variable entries of _poll_loop
  mode,      \* slot.state
  empties,   \* slot.consecutive_empty, up to IdleAfterEmpty
  errors,    \* slot.consecutive_errors, up to BackoffAfterErrors
  \* observers: nothing in the code reads them
  times,     \* how often each row was handed to _dispatch
  late,      \* rows committed when the mark was already at or past them
  lost,      \* rows a stop dropped after their mark was saved
  recent,    \* outcomes of the polls since the start, newest first
  stops, failedSaves

slotVars == <<mode, empties, errors, recent>>
obsVars  == <<late, stops, failedSaves>>
vars == <<table, mark, saved, pc, batch, slotVars, times, lost, obsVars>>

Outcomes == {"error", "empty", "rows"}

\* How many outcomes the observer keeps.
Depth == IF IdleAfterEmpty > BackoffAfterErrors THEN IdleAfterEmpty
                                                 ELSE BackoffAfterErrors

Remember(o) == recent' = SubSeq(<<o>> \o recent, 1,
                                IF Len(recent) < Depth THEN Len(recent) + 1 ELSE Depth)

\* A counter that is only compared with its threshold.
CountTo(n, limit) == IF n < limit THEN n + 1 ELSE n

-----------------------------------------------------------------------------
Init ==
  /\ table = {} /\ mark = NoMark /\ saved = NoMark
  /\ pc = "down" /\ batch = {}
  /\ mode = "active" /\ empties = 0 /\ errors = 0
  /\ times = [i \in Ids |-> 0]
  /\ late = {} /\ lost = {} /\ recent = <<>>
  /\ stops = 0 /\ failedSaves = 0

\* Where the next SELECT will start.
Cursor == IF pc = "down" THEN saved ELSE mark

\* Another program commits a row; keys need not be committed in order: a row at
\* or behind the cursor is late.
InsertRow(i) ==
  /\ i \notin table
  /\ table' = table \cup {i}
  /\ late' = IF i <= Cursor THEN late \cup {i} ELSE late
  /\ UNCHANGED <<mark, saved, pc, batch, slotVars, times, lost, stops, failedSaves>>

\* _load_active_sources, _build_config and _start_connector: the connector
\* starts from the saved mark, with a fresh slot.
StartSlot ==
  /\ pc = "down"
  /\ pc' = "asleep"
  /\ mark' = saved
  /\ mode' = "active" /\ empties' = 0 /\ errors' = 0 /\ recent' = <<>>
  /\ UNCHANGED <<table, saved, batch, times, lost, obsVars>>

\* poll() raised: the database could not be read, the mark stays.
PollError ==
  /\ pc = "asleep"
  /\ errors' = CountTo(errors, BackoffAfterErrors)
  /\ empties' = 0
  /\ mode' = IF errors' >= BackoffAfterErrors THEN "backoff" ELSE mode
  /\ Remember("error")
  /\ UNCHANGED <<table, mark, saved, pc, batch, times, lost, obsVars>>

\* poll() succeeded: what every success does to the state before it looks at
\* the entries.
Recovered == IF mode = "backoff" THEN "active" ELSE mode

\* Fault: the count of errors survives a poll that succeeds.
ErrorsNotReset ==
  /\ pc = "asleep"
  /\ FetchBatch(table, mark) = {}
  /\ empties' = CountTo(empties, IdleAfterEmpty)
  /\ mode' = IF Recovered = "active" /\ empties' >= IdleAfterEmpty THEN "idle"
                                                                   ELSE Recovered
  /\ Remember("empty")
  /\ UNCHANGED <<table, mark, saved, pc, batch, errors, times, lost, obsVars>>

PollEmpty ==
  /\ pc = "asleep"
  /\ FetchBatch(table, mark) = {}
  /\ errors' = 0
  /\ empties' = CountTo(empties, IdleAfterEmpty)
  /\ mode' = IF Recovered = "active" /\ empties' >= IdleAfterEmpty THEN "idle"
                                                                   ELSE Recovered
  /\ Remember("empty")
  /\ UNCHANGED <<table, mark, saved, pc, batch, times, lost, obsVars>>

\* Fault: an idle slot does not look again.
IdleForGood ==
  /\ pc = "asleep" /\ mode # "idle"
  /\ FetchBatch(table, mark) # {}
  /\ batch' = FetchBatch(table, mark)
  /\ mark' = MarkAfter(batch')
  /\ errors' = 0 /\ empties' = 0
  /\ mode' = "active"
  /\ Remember("rows")
  /\ pc' = "saving"
  /\ UNCHANGED <<table, saved, times, lost, obsVars>>

PollRows ==
  /\ pc = "asleep"
  /\ FetchBatch(table, mark) # {}
  /\ batch' = FetchBatch(table, mark)
  /\ mark' = MarkAfter(batch')
  /\ errors' = 0 /\ empties' = 0
  /\ mode' = "active"
  /\ Remember("rows")
  /\ pc' = "saving"
  /\ UNCHANGED <<table, saved, times, lost, obsVars>>

\* flush_state and _persist_state: the row of source_state is committed ...
Save ==
  /\ pc = "saving"
  /\ saved' = mark
  /\ pc' = "dispatching"
  /\ UNCHANGED <<table, mark, batch, slotVars, times, lost, obsVars>>

\* ... or the commit fails, which _persist_state logs and forgets.
SaveFails ==
  /\ pc = "saving"
  /\ failedSaves < MaxFailedSaves
  /\ failedSaves' = failedSaves + 1
  /\ pc' = "dispatching"
  /\ UNCHANGED <<table, mark, saved, batch, slotVars, times, lost, late, stops>>

\* _dispatch, and back to the head of the loop.
Dispatch ==
  /\ pc = "dispatching"
  /\ times' = [i \in Ids |-> IF i \in batch THEN times[i] + 1 ELSE times[i]]
  /\ batch' = {}
  /\ pc' = "asleep"
  /\ UNCHANGED <<table, mark, saved, slotVars, lost, obsVars>>

\* The task is cancelled or the process dies.  The entries in hand are gone;
\* they are lost for good when the mark beyond them is already saved.
Stop ==
  /\ pc # "down"
  /\ stops < MaxStops
  /\ stops' = stops + 1
  /\ lost' = IF saved = mark THEN lost \cup batch ELSE lost
  /\ batch' = {}
  /\ pc' = "down"
  /\ UNCHANGED <<table, mark, saved, slotVars, times, late, failedSaves>>

Next ==
  \/ \E i \in Ids : InsertRow(i)
  \/ StartSlot
  \/ PollError \/ PollEmpty \/ PollRows
  \/ Save \/ SaveFails
  \/ Dispatch
  \/ Stop

Spec == Init /\ [][Next]_vars

\* The service manager restarts the process, the event loop runs the task on,
\* and a poll cannot fail for ever.
Fairness == /\ WF_vars(StartSlot)
            /\ WF_vars(PollRows)
            /\ WF_vars(Save)
            /\ WF_vars(Dispatch)

FairSpec == Spec /\ Fairness

-----------------------------------------------------------------------------
\* Types.
TypeOK ==
  /\ table \subseteq Ids
  /\ mark \in Ids \cup {NoMark} /\ saved \in Ids \cup {NoMark}
  /\ pc \in {"down", "asleep", "saving", "dispatching"}
  /\ batch \subseteq Ids
  /\ mode \in {"active", "idle", "backoff"}
  /\ empties \in 0..IdleAfterEmpty /\ errors \in 0..BackoffAfterErrors
  /\ times \in [Ids -> Nat]
  /\ late \subseteq Ids /\ lost \subseteq Ids
  /\ recent \in Seq(Outcomes) /\ Len(recent) <= Depth
  /\ stops \in 0..MaxStops /\ failedSaves \in 0..MaxFailedSaves

\* A committed row is never silently skipped ("no missed rows") unless it was
\* overtaken: it has been handed on, is in hand, will be returned by a later
\* SELECT, was committed at or behind the mark, or was dropped by a stop between
\* the save of its mark and its dispatch.  A table may hold 9 and 10 and promise
\* all this of 9 and of 90; only 10 the code may never read.
NothingMissed ==
  \A i \in table : \/ times[i] > 0
                   \/ i \in batch \cup late \cup lost
                   \/ TextLess(Cursor, i)
                   \/ Overtaken(table, i)

\* A row that is not undercut is handed on once more only after the commit of its
\* mark failed and the process then stopped ("no duplicates").  A row that is
\* undercut the code reads again with no failure at all: 9, once the mark is 10.
OnceUnlessSaveFailed ==
  \A i \in Ids : Undercut(table, i) \/ /\ times[i] <= 1 + stops
                                       /\ times[i] <= 1 + failedSaves

\* What the order "save, then dispatch" costs: each stop drops one batch at most.
LossPerStop == Cardinality(lost) <= stops * BatchLimit

\* The adaptive schedule is a function of the latest polls: BACKOFF exactly
\* after BackoffAfterErrors errors in a row, IDLE only after IdleAfterEmpty
\* polls without a row, ACTIVE never after IdleAfterEmpty empty polls in a row.
Last(n, S) == /\ Len(recent) >= n
              /\ \A k \in 1..n : recent[k] \in S

ModeFollowsPolls ==
  /\ mode = "backoff" <=> Last(BackoffAfterErrors, {"error"})
  /\ mode = "idle" => Last(IdleAfterEmpty, {"empty", "error"})
  /\ mode = "active" => ~Last(IdleAfterEmpty, {"empty"})

\* Every row committed ahead of the mark is handed on in the end, unless a stop
\* dropped it or another row overtook it.
EveryRowArrives ==
  \A i \in Ids : (i \in table) ~> \/ times[i] > 0
                                  \/ i \in late \cup lost
                                  \/ Overtaken(table, i)
=============================================================================
