--------------------------- MODULE FileConnector ---------------------------
(***************************************************************************)
(* connectors/file_connector.py following a log file that another program  *)
(* writes and that is rotated, across restarts of the process.             *)
(*                                                                         *)
(* The unit of data is one write of the other program.  Writes are         *)
(* numbered in the order they are made, a file is the sequence of the      *)
(* writes in it and a byte offset is a number of writes.  _parse_lines is  *)
(* abstracted away: what is read is what is handed on.                     *)
(*                                                                         *)
(* poll() runs in a thread, so the writer works between its steps: the     *)
(* stat, the drain of the old descriptor, the open and the read.  Files    *)
(* have inodes (POSIX), and a removed inode is not used again while the    *)
(* connector may hold it.                                                  *)
(***************************************************************************)
EXTENDS Naturals, Sequences, FiniteSets

CONSTANTS MaxWrites,       \* bound: writes of the other program
          MaxFiles,        \* bound: files that are ever at the path
          MaxTruncations,  \* bound: truncations in place (copytruncate)
          MaxStops,        \* bound: stops and crashes of the process
          MaxFailedSaves,  \* bound: commits of source_state that fail
          MaxFaults        \* bound: polls that fail half way

ASSUME FileAssumption == /\ MaxWrites \in Nat /\ MaxFiles \in Nat \ {0}
                         /\ MaxTruncations \in Nat
                         /\ MaxStops \in Nat /\ MaxFailedSaves \in Nat
                         /\ MaxFaults \in Nat

Inodes  == 1..MaxFiles
NoInode == 0           \* a handle that is None, an inode that is not known
Writes  == 1..MaxWrites

VARIABLES
  \* the file system
  data,    \* the content of each inode
  path,    \* the inode at config.file_path, NoInode while there is none
  writer,  \* the inode the other program has open
  written, \* how many writes it has made
  \* the connector
  fh,      \* _fh: the inode the handle is open on, or NoInode
  pos,     \* the position of the handle
  offset,  \* _byte_offset
  inode,   \* _current_inode
  pc,      \* "down", "idle", "read", "drain", "open", "reread", "save", "dispatch"
  seen,    \* new_inode of _handle_rotation, NoInode outside it
  got,     \* the entries of this poll
  \* source_state
  savedOffset, savedInode,
  \* observers
  times,       \* how often each write was handed on
  files, truncations, stops, failedSaves, faults,
  lost,        \* writes that were read and then dropped
  torn,        \* the handle was moved by a drain that did not come to an end
  late,        \* writes to a renamed file the connector has let go of
  skipped,     \* a file left the path before the connector had opened it
  blind        \* a process started on another file than the saved cursor's

fsVars   == <<data, path, writer, written, files, truncations>>
connVars == <<fh, pos, offset, inode, seen, got>>
savVars  == <<savedOffset, savedInode>>
envObs   == <<late, skipped>>
readObs  == <<lost, torn, faults>>
obsVars  == <<envObs, readObs>>
vars == <<fsVars, connVars, savVars, pc, times, stops, failedSaves, obsVars, blind>>

Size(i) == Len(data[i])

\* What a read at a position of an inode returns: everything up to its end,
\* nothing when the position is at or past the end.
Rest(i, p) == IF p < Size(i) THEN SubSeq(data[i], p + 1, Size(i)) ELSE <<>>

Members(s) == {s[k] : k \in DOMAIN s}

-----------------------------------------------------------------------------
Init ==
  /\ data = [i \in Inodes |-> <<>>]
  /\ path = 1 /\ writer = 1 /\ written = 0 /\ files = 1
  /\ fh = NoInode /\ pos = 0 /\ offset = 0 /\ inode = NoInode
  /\ pc = "down" /\ seen = NoInode /\ got = <<>>
  /\ savedOffset = 0 /\ savedInode = NoInode
  /\ times = [w \in Writes |-> 0]
  /\ truncations = 0 /\ stops = 0 /\ failedSaves = 0
  /\ late = {} /\ skipped = FALSE /\ blind = FALSE
  /\ lost = {} /\ torn = FALSE /\ faults = 0

-----------------------------------------------------------------------------
(* The other program and the program that rotates its file. *)

Write ==
  /\ written < MaxWrites
  /\ written' = written + 1
  /\ data' = [data EXCEPT ![writer] = Append(@, written')]
  /\ late' = IF writer # path /\ writer # fh THEN late \cup {written'} ELSE late
  /\ UNCHANGED <<path, writer, files, truncations, connVars, savVars, pc, times,
                 stops, failedSaves, skipped, readObs, blind>>

\* The file is renamed; the writer keeps its descriptor.
Rename ==
  /\ path # NoInode
  /\ files < MaxFiles
  /\ path' = NoInode
  /\ skipped' = (skipped \/ (fh # path /\ Size(path) > 0))
  /\ UNCHANGED <<data, writer, written, files, truncations, connVars, savVars, pc,
                 times, stops, failedSaves, late, readObs, blind>>

\* An empty file is created at the path ...
Create ==
  /\ path = NoInode
  /\ files' = files + 1
  /\ path' = files'
  /\ UNCHANGED <<data, writer, written, truncations, connVars, savVars, pc, times,
                 stops, failedSaves, obsVars, blind>>

\* ... and the writer opens it.
Reopen ==
  /\ path # NoInode
  /\ writer # path
  /\ writer' = path
  /\ UNCHANGED <<data, path, written, files, truncations, connVars, savVars, pc,
                 times, stops, failedSaves, obsVars, blind>>

\* The file is emptied in place.
Truncate ==
  /\ path # NoInode
  /\ truncations < MaxTruncations
  /\ truncations' = truncations + 1
  /\ data' = [data EXCEPT ![path] = <<>>]
  /\ UNCHANGED <<path, writer, written, files, connVars, savVars, pc, times,
                 stops, failedSaves, obsVars, blind>>

-----------------------------------------------------------------------------
(* The connector. *)

\* _open_at_offset: the path as it is now; the inode is the one opened.
\* When the file is gone the handle stays None and the inode what it was.
OpenAt(off, known) ==
  /\ fh' = path
  /\ pos' = IF path # NoInode THEN off ELSE 0
  /\ offset' = off
  /\ inode' = IF path # NoInode THEN path ELSE known
  /\ torn' = FALSE

\* The file the saved cursor is about; the first one while nothing is saved.
SavedFile == IF savedInode = NoInode THEN 1 ELSE savedInode

\* Faults: the handle is put one place before the saved offset, and the offset
\* is not taken at all.
ResumeOneEarly ==
  /\ pc = "down"
  /\ pc' = "idle"
  /\ OpenAt(savedOffset - 1, savedInode)
  /\ seen' = NoInode /\ got' = <<>>
  /\ blind' = (blind \/ path # SavedFile)
  /\ UNCHANGED <<fsVars, savVars, times, stops, failedSaves, envObs, lost, faults>>

OffsetIgnored ==
  /\ pc = "down"
  /\ pc' = "idle"
  /\ OpenAt(0, savedInode)
  /\ seen' = NoInode /\ got' = <<>>
  /\ blind' = (blind \/ path # SavedFile)
  /\ UNCHANGED <<fsVars, savVars, times, stops, failedSaves, envObs, lost, faults>>

\* connect(): the saved cursor, and the handle if there is a file.
Connect ==
  /\ pc = "down"
  /\ pc' = "idle"
  /\ OpenAt(savedOffset, savedInode)
  /\ seen' = NoInode /\ got' = <<>>
  /\ blind' = (blind \/ path # SavedFile)
  /\ UNCHANGED <<fsVars, savVars, times, stops, failedSaves, envObs, lost, faults>>

\* Faults: rotation told by the size alone, or by the inode alone.
RotatedBySize  == ~(fh = NoInode /\ offset = 0) /\ Size(path) < offset
RotatedByInode == ~(fh = NoInode /\ offset = 0) /\ inode # NoInode /\ path # inode

\* _detect_rotation
Rotated ==
  /\ ~(fh = NoInode /\ offset = 0)
  /\ \/ Size(path) < offset
     \/ inode # NoInode /\ path # inode

\* _poll_sync up to the decision.  A path that does not exist ends the poll.
PollStat ==
  /\ pc = "idle"
  /\ path # NoInode
  /\ pc' = IF Rotated THEN "drain" ELSE "read"
  /\ seen' = IF Rotated THEN path ELSE NoInode
  /\ UNCHANGED <<fsVars, fh, pos, offset, inode, got, savVars, times, stops,
                 failedSaves, obsVars, blind>>

\* A fault of the file or of a line while a poll runs.
Fault == faults < MaxFaults /\ faults' = faults + 1

\* The bytes left behind the handle; none without one.
Pending == IF fh # NoInode THEN Rest(fh, pos) ELSE <<>>

\* _handle_rotation up to the reset of the cursor, with what the drain kept of the
\* bytes left in the old descriptor.
Drained(kept) ==
  /\ pc = "drain"
  /\ got' = kept
  /\ lost' = lost \cup (Members(Pending) \ Members(kept))
  /\ fh' = NoInode /\ pos' = 0 /\ torn' = FALSE
  /\ offset' = 0 /\ inode' = seen /\ seen' = NoInode
  /\ pc' = "open"
  /\ UNCHANGED <<fsVars, savVars, times, stops, failedSaves, envObs, blind>>

\* Fault: the old descriptor is closed unread.
NothingDrained ==
  /\ pc = "drain"
  /\ got' = <<>>
  /\ fh' = NoInode /\ pos' = 0 /\ torn' = FALSE
  /\ offset' = 0 /\ inode' = seen /\ seen' = NoInode
  /\ pc' = "open"
  /\ UNCHANGED <<fsVars, savVars, times, stops, failedSaves, envObs, lost, faults, blind>>

PollDrain == Drained(Pending) /\ UNCHANGED faults

\* An OSError of the drain is swallowed: the old file is let go of all the same.
DrainFails == fh # NoInode /\ Fault /\ Drained(<<>>)

\* A line of the tail cannot be parsed (a numeric timestamp is a TypeError): the
\* poll ends there, with the old handle moved to its end and the cursor as it was.
DrainRaises ==
  /\ pc = "drain"
  /\ Pending # <<>>
  /\ Fault
  /\ pos' = pos + Len(Pending)
  /\ lost' = lost \cup Members(Pending)
  /\ torn' = TRUE
  /\ seen' = NoInode
  /\ pc' = "idle"
  /\ UNCHANGED <<fsVars, fh, offset, inode, got, savVars, times, stops,
                 failedSaves, envObs, blind>>

\* ... and the new file from its start.
PollOpen ==
  /\ pc = "open"
  /\ OpenAt(0, inode)
  /\ pc' = "reread"
  /\ UNCHANGED <<fsVars, seen, got, savVars, times, stops, failedSaves,
                 envObs, lost, faults, blind>>

\* No rotation: a handle is opened if there is none.
PollReopen ==
  /\ pc = "read"
  /\ fh = NoInode
  /\ OpenAt(offset, inode)
  /\ pc' = "reread"
  /\ UNCHANGED <<fsVars, seen, got, savVars, times, stops, failedSaves,
                 envObs, lost, faults, blind>>

\* _read_new_lines is the last step of both branches.
Reading == \/ pc = "reread"
           \/ pc = "read" /\ fh # NoInode

\* Fault: the drained bytes are counted into the offset of the new file.
DrainCounted ==
  /\ Reading
  /\ got' = got \o Pending
  /\ pos' = pos + Len(Pending)
  /\ offset' = offset + Len(got')
  /\ pc' = IF got' = <<>> THEN "idle" ELSE "save"
  /\ UNCHANGED <<fsVars, fh, inode, seen, savVars, times, stops, failedSaves, obsVars, blind>>

\* An empty result goes no further: the manager saves the cursor only after a
\* poll with entries.
PollRead ==
  /\ Reading
  /\ got' = got \o Pending
  /\ pos' = pos + Len(Pending)
  /\ offset' = offset + Len(Pending)
  /\ pc' = IF got' = <<>> THEN "idle" ELSE "save"
  /\ UNCHANGED <<fsVars, fh, inode, seen, savVars, times, stops, failedSaves, obsVars, blind>>

\* An OSError of the read is swallowed: nothing is read, what was drained goes on.
ReadFails ==
  /\ Reading /\ fh # NoInode
  /\ Fault
  /\ pc' = IF got = <<>> THEN "idle" ELSE "save"
  /\ UNCHANGED <<fsVars, connVars, savVars, times, stops, failedSaves, envObs, lost, torn, blind>>

\* A line cannot be parsed: the offset has moved, and everything the poll had read
\* or drained is gone.
ReadRaises ==
  /\ Reading /\ Pending # <<>>
  /\ Fault
  /\ pos' = pos + Len(Pending)
  /\ offset' = offset + Len(Pending)
  /\ lost' = lost \cup Members(got) \cup Members(Pending)
  /\ got' = <<>>
  /\ pc' = "idle"
  /\ UNCHANGED <<fsVars, fh, inode, seen, savVars, times, stops, failedSaves, envObs,
                 torn, blind>>

\* flush_state and _persist_state ...
Save ==
  /\ pc = "save"
  /\ savedOffset' = offset /\ savedInode' = inode
  /\ pc' = "dispatch"
  /\ UNCHANGED <<fsVars, connVars, times, stops, failedSaves, obsVars, blind>>

\* ... whose commit may fail, which it logs and forgets.
SaveFails ==
  /\ pc = "save"
  /\ failedSaves < MaxFailedSaves
  /\ failedSaves' = failedSaves + 1
  /\ pc' = "dispatch"
  /\ UNCHANGED <<fsVars, connVars, savVars, times, stops, obsVars, blind>>

\* _dispatch, once the cursor is saved.
HandOn ==
  /\ pc = "dispatch"
  /\ times' = [w \in Writes |-> IF w \in Members(got) THEN times[w] + 1 ELSE times[w]]
  /\ got' = <<>>
  /\ pc' = "idle"
  /\ UNCHANGED <<fsVars, fh, pos, offset, inode, seen, savVars, stops, failedSaves,
                 obsVars, blind>>

\* The task is cancelled or dies, or the process does.  The entries in hand are
\* gone; they are lost for good when the cursor beyond them is already saved.
Stop ==
  /\ pc # "down"
  /\ stops < MaxStops
  /\ stops' = stops + 1
  /\ lost' = IF pc = "dispatch" /\ savedOffset = offset /\ savedInode = inode
             THEN lost \cup Members(got) ELSE lost
  /\ pc' = "down"
  /\ fh' = NoInode /\ pos' = 0 /\ offset' = 0 /\ inode' = NoInode /\ seen' = NoInode
  /\ got' = <<>> /\ torn' = FALSE
  /\ UNCHANGED <<fsVars, savVars, times, failedSaves, envObs, faults, blind>>

-----------------------------------------------------------------------------
Environment == Write \/ Rename \/ Create \/ Reopen \/ Truncate

Poll == PollStat \/ PollDrain \/ PollOpen \/ PollReopen \/ PollRead \/ Save \/ HandOn

Failure == DrainFails \/ DrainRaises \/ ReadFails \/ ReadRaises \/ SaveFails \/ Stop

Next == Environment \/ Connect \/ Poll \/ Failure

Spec == Init /\ [][Next]_vars

\* The process is restarted and goes on polling, and a rotation is completed.
FairSpec == Spec /\ WF_vars(Connect) /\ WF_vars(Poll) /\ WF_vars(Create)

-----------------------------------------------------------------------------
\* Types.
TypeOK ==
  /\ data \in [Inodes -> Seq(Writes)]
  /\ path \in Inodes \cup {NoInode} /\ writer \in Inodes
  /\ written \in 0..MaxWrites /\ files \in Inodes
  /\ fh \in Inodes \cup {NoInode} /\ inode \in Inodes \cup {NoInode}
  /\ seen \in Inodes \cup {NoInode} /\ savedInode \in Inodes \cup {NoInode}
  /\ pos \in Nat /\ offset \in Nat /\ savedOffset \in Nat
  /\ pc \in {"down", "idle", "read", "drain", "open", "reread", "save",
            "dispatch"}
  /\ got \in Seq(Writes)
  /\ times \in [Writes -> Nat]
  /\ truncations \in 0..MaxTruncations /\ stops \in 0..MaxStops
  /\ failedSaves \in 0..MaxFailedSaves /\ faults \in 0..MaxFaults
  /\ lost \subseteq Writes /\ torn \in BOOLEAN
  /\ late \subseteq Writes /\ skipped \in BOOLEAN /\ blind \in BOOLEAN

\* Nothing that the connector had a chance to see is left out: a write is handed
\* on only after all earlier ones, across renames, across restarts and whatever
\* falls between the stat and the read.  The code drops what it has read in three
\* places (a stop between the save and the dispatch, an OSError of the drain, a
\* line that cannot be parsed), and those writes alone are missing.  Outside the
\* promise are truncation in place, a file that came and went between two polls,
\* a write to a renamed file, and a start on another file than the saved cursor's.
NoGap ==
  truncations = 0 /\ late = {} /\ ~skipped /\ ~blind =>
    \A v, w \in Writes : v < w /\ times[w] > 0 => times[v] > 0 \/ v \in lost

\* "Survives Watchdog restarts without re-reading": a write is handed on once,
\* unless the cursor was not saved, or the drain of a file that shrank meets the
\* bytes that the read from its start returns again.
NoReRead ==
  failedSaves = 0 /\ truncations = 0 /\ ~blind => \A w \in Writes : times[w] <= 1

\* While the handle is open, memory and handle agree: the offset that will be
\* saved is the position of the handle in the file whose inode is saved.  A drain
\* that a line ends moves the handle alone.  No cursor is saved before that handle
\* is given up, unless the file is truncated in place or is not the saved cursor's.
CursorIsHandle ==
  fh # NoInode =>
    /\ inode = fh
    /\ pos = offset \/ torn
    /\ torn /\ truncations = 0 /\ ~blind => pc \notin {"save", "dispatch"}

\* A write is handed on in the end, or it is one of the exceptions of NoGap.
EveryWriteArrives ==
  \A w \in Writes :
    (written >= w) ~> \/ times[w] > 0 \/ w \in lost
                      \/ truncations > 0 \/ late # {} \/ skipped \/ blind

\* Whatever happened before, the connector ends at the end of the file that is
\* at the path: no rotation, truncation or restart makes it stick elsewhere.
ReachesTheEnd == <>[](path # NoInode /\ fh = path /\ pos = Size(path))
=============================================================================
