------------------------ MODULE FileConnectorProofs ------------------------
(***************************************************************************)
(* Proofs about FileConnector: its types, that the cursor in memory is the *)
(* place the handle is at, and that no write is left out and none handed   *)
(* on twice, for any number of writes, files, rotations, truncations,      *)
(* restarts, failed saves and failed polls.                                *)
(***************************************************************************)
EXTENDS FileConnector, SequenceTheorems, TLAPS

\* A file is renamed only while the bound leaves an inode for its successor.
RoomLeft == path = NoInode => files < MaxFiles

\* The handle is open on the file of the cursor, and only a drain that was cut
\* short parts the two.
HandleAtCursor == fh # NoInode => inode = fh /\ (pos = offset \/ torn)

IInv == TypeOK /\ HandleAtCursor /\ RoomLeft

States == {"down", "idle", "read", "drain", "open", "reread", "save", "dispatch"}

\* A read returns writes, and no more of them than its length says.
LEMMA RestType ==
  ASSUME TypeOK, NEW i \in Inodes, NEW p \in Nat
  PROVE  Rest(i, p) \in Seq(Writes) /\ Len(Rest(i, p)) \in Nat
<1> DEFINE s == data[i]
<1>1. s \in Seq(Writes) /\ Len(s) \in Nat
  BY DEF TypeOK
<1>2. CASE p < Len(s)
  <2>1. SubSeq(s, p + 1, Len(s)) \in Seq(Writes)
    BY <1>1, <1>2, SubSeqProperties
  <2> QED  BY <1>2, <2>1 DEF Rest, Size
<1>3. CASE ~(p < Len(s))
  BY <1>3 DEF Rest, Size
<1> QED  BY <1>2, <1>3

LEMMA PendingType ==
  ASSUME TypeOK
  PROVE  Pending \in Seq(Writes) /\ Len(Pending) \in Nat
<1>1. CASE fh # NoInode
  <2>1. fh \in Inodes /\ pos \in Nat
    BY <1>1 DEF TypeOK
  <2> QED  BY <1>1, <2>1, RestType DEF Pending
<1>2. CASE fh = NoInode
  BY <1>2 DEF Pending
<1> QED  BY <1>1, <1>2

LEMMA MembersType ==
  ASSUME NEW s \in Seq(Writes)
  PROVE  Members(s) \subseteq Writes
BY DEF Members

\* The file system: no step of it touches the connector.
LEMMA EnvironmentInv ==
  ASSUME IInv, Environment
  PROVE  IInv'
<1> USE DEF IInv
<1>1. UNCHANGED <<connVars, savVars, pc, times, stops, failedSaves, readObs, blind>>
  BY DEF Environment, Write, Rename, Create, Reopen, Truncate, obsVars
<1>3. /\ fh' = fh /\ pos' = pos /\ offset' = offset /\ inode' = inode /\ pc' = pc
      /\ seen' = seen /\ got' = got /\ savedOffset' = savedOffset /\ savedInode' = savedInode
      /\ times' = times /\ stops' = stops /\ failedSaves' = failedSaves /\ blind' = blind
      /\ lost' = lost /\ torn' = torn /\ faults' = faults
  BY <1>1 DEF connVars, savVars, readObs
<1>2. HandleAtCursor'
  BY <1>3 DEF HandleAtCursor
<1>4. /\ data' \in [Inodes -> Seq(Writes)]
      /\ path' \in Inodes \cup {NoInode} /\ writer' \in Inodes
      /\ written' \in 0..MaxWrites /\ files' \in Inodes
      /\ truncations' \in 0..MaxTruncations
      /\ late' \subseteq Writes /\ skipped' \in BOOLEAN
  <2>1. CASE Write
    <3>1. written' \in Writes /\ written' \in 0..MaxWrites
      BY <2>1, FileAssumption DEF Write, TypeOK, Writes
    <3>2. Append(data[writer], written') \in Seq(Writes)
      BY <3>1 DEF TypeOK
    <3>3. data' = [data EXCEPT ![writer] = Append(data[writer], written')]
      BY <2>1 DEF Write
    <3>4. data' \in [Inodes -> Seq(Writes)]
      BY <3>2, <3>3 DEF TypeOK
    <3> QED  BY <2>1, <3>1, <3>4 DEF Write, TypeOK
  <2>2. CASE Rename
    BY <2>2 DEF Rename, TypeOK
  <2>3. CASE Create
    <3>1. files' \in Inodes
      BY <2>3, FileAssumption DEF Create, TypeOK, RoomLeft, Inodes
    <3> QED  BY <2>3, <3>1 DEF Create, TypeOK, obsVars, envObs
  <2>3a. CASE Reopen
    BY <2>3a DEF Reopen, TypeOK, obsVars, envObs
  <2>4. CASE Truncate
    <3>1. data' \in [Inodes -> Seq(Writes)]
      BY <2>4 DEF Truncate, TypeOK
    <3> QED  BY <2>4, <3>1, FileAssumption DEF Truncate, TypeOK, obsVars, envObs
  <2> QED  BY <2>1, <2>2, <2>3, <2>3a, <2>4 DEF Environment
<1>5. RoomLeft'
  <2>1. 0 \notin Inodes
    BY DEF Inodes
  <2>2. CASE Rename
    BY <2>2 DEF Rename, RoomLeft
  <2>3. CASE Create
    BY <2>3, <1>4, <2>1 DEF Create, RoomLeft, NoInode
  <2> QED  BY <2>2, <2>3 DEF Environment, Write, Reopen, Truncate, RoomLeft
<1> QED  BY <1>2, <1>3, <1>4, <1>5 DEF TypeOK

\* An open leaves the handle at the offset it was given, or leaves none.
LEMMA OpenFacts ==
  ASSUME TypeOK, NEW off \in Nat, NEW known \in Inodes \cup {NoInode}, OpenAt(off, known)
  PROVE  /\ fh' \in Inodes \cup {NoInode} /\ inode' \in Inodes \cup {NoInode}
         /\ pos' \in Nat /\ offset' \in Nat /\ torn' \in BOOLEAN
         /\ HandleAtCursor'
BY DEF OpenAt, TypeOK, HandleAtCursor

\* A read moves the handle and the offset by the same number of bytes.
LEMMA ReadFacts ==
  ASSUME IInv, PollRead \/ ReadRaises
  PROVE  /\ got' \in Seq(Writes) /\ pos' \in Nat /\ offset' \in Nat /\ pc' \in States
         /\ UNCHANGED <<fh, inode, torn>>
         /\ HandleAtCursor'
<1>1. Pending \in Seq(Writes) /\ Len(Pending) \in Nat
  BY PendingType DEF IInv
<1>2. /\ got' = got \o Pending \/ got' = <<>>
      /\ pos' = pos + Len(Pending) /\ offset' = offset + Len(Pending)
      /\ pc' \in States /\ UNCHANGED <<fh, inode, torn>>
  BY DEF PollRead, ReadRaises, States, obsVars, readObs
<1>3. got' \in Seq(Writes)
  <2>1. got \in Seq(Writes) /\ <<>> \in Seq(Writes)
    BY DEF IInv, TypeOK
  <2> QED  BY <1>1, <1>2, <2>1, ConcatProperties
<1>4. pos \in Nat /\ offset \in Nat /\ HandleAtCursor
  BY DEF IInv, TypeOK
<1>5. HandleAtCursor'
  BY <1>1, <1>2, <1>4 DEF HandleAtCursor
<1> QED  BY <1>1, <1>2, <1>3, <1>4, <1>5

\* What a step of the connector has to keep.
Kept ==
  /\ fh \in Inodes \cup {NoInode} /\ inode \in Inodes \cup {NoInode}
  /\ seen \in Inodes \cup {NoInode} /\ savedInode \in Inodes \cup {NoInode}
  /\ pos \in Nat /\ offset \in Nat /\ savedOffset \in Nat
  /\ pc \in States
  /\ got \in Seq(Writes)
  /\ times \in [Writes -> Nat]
  /\ stops \in 0..MaxStops /\ failedSaves \in 0..MaxFailedSaves
  /\ faults \in 0..MaxFaults /\ lost \subseteq Writes /\ torn \in BOOLEAN
  /\ blind \in BOOLEAN
  /\ HandleAtCursor

\* A step that gives the drained file up.
LEMMA DrainedKeeps ==
  ASSUME IInv, NEW kept \in Seq(Writes), Drained(kept), faults' \in 0..MaxFaults
  PROVE  Kept'
<1>1. TypeOK
  BY DEF IInv
<1>2. lost' \subseteq Writes
  <2>1. lost' = lost \cup (Members(Pending) \ Members(kept)) /\ lost \subseteq Writes
    BY <1>1 DEF Drained, TypeOK
  <2> QED  BY <1>1, <2>1, PendingType, MembersType
<1> QED  BY <1>1, <1>2 DEF Drained, TypeOK, Kept, States, HandleAtCursor, savVars, NoInode

LEMMA FaultType ==
  ASSUME IInv
  PROVE  /\ Fault => faults' \in 0..MaxFaults
         /\ faults' = faults => faults' \in 0..MaxFaults
BY FileAssumption DEF IInv, TypeOK, Fault

Connector == Connect \/ Poll \/ Failure

\* What the steps of the connector leave alone.
LEMMA OnlyTheConnector == Connector => UNCHANGED <<fsVars, envObs>>
BY DEF Connector, Connect, Poll, Failure, PollStat, PollDrain, PollOpen, PollReopen, PollRead,
   Save, SaveFails, HandOn, Stop, Drained, DrainFails, DrainRaises, ReadFails, ReadRaises, obsVars

LEMMA ConnectorInv ==
  ASSUME IInv, Connector
  PROVE  IInv'
<1> USE DEF IInv
<1>1. UNCHANGED <<fsVars, envObs>>
  BY OnlyTheConnector
<1>2. Kept'
  <2>1. CASE Connect
    <3>1. OpenAt(savedOffset, savedInode) /\ savedOffset \in Nat
          /\ savedInode \in Inodes \cup {NoInode}
      BY <2>1 DEF Connect, TypeOK
    <3>2. /\ fh' \in Inodes \cup {NoInode} /\ inode' \in Inodes \cup {NoInode}
          /\ pos' \in Nat /\ offset' \in Nat /\ torn' \in BOOLEAN
          /\ HandleAtCursor'
      BY <3>1, OpenFacts
    <3>3. /\ seen' \in Inodes \cup {NoInode} /\ pc' \in States /\ blind' \in BOOLEAN
          /\ UNCHANGED <<savedOffset, savedInode, times, stops, failedSaves, lost, faults>>
      BY <2>1 DEF Connect, savVars, TypeOK, States
    <3>4. got' \in Seq(Writes)
      BY <2>1 DEF Connect
    <3> QED  BY <3>2, <3>3, <3>4 DEF TypeOK, Kept
  <2>2. CASE PollStat
    BY <2>2 DEF PollStat, TypeOK, Kept, States, HandleAtCursor, savVars, obsVars, readObs
  <2>3. CASE PollDrain
    BY <2>3, DrainedKeeps, PendingType, FaultType DEF PollDrain
  <2>3a. CASE DrainFails
    <3>1. <<>> \in Seq(Writes)
      OBVIOUS
    <3>2. Drained(<<>>) /\ faults' \in 0..MaxFaults
      BY <2>3a, FaultType DEF DrainFails
    <3> QED  BY <3>1, <3>2, DrainedKeeps
  <2>3b. CASE DrainRaises
    <3>1. lost' \subseteq Writes /\ pos' \in Nat /\ faults' \in 0..MaxFaults
      BY <2>3b, PendingType, MembersType, FaultType DEF DrainRaises, TypeOK
    <3> QED  BY <2>3b, <3>1 DEF DrainRaises, TypeOK, Kept, States, HandleAtCursor, savVars
  <2>4. CASE PollOpen
    <3>1. OpenAt(0, inode)
      BY <2>4 DEF PollOpen
    <3> QED  BY <2>4, <3>1, OpenFacts DEF PollOpen, TypeOK, Kept, States, savVars
  <2>5. CASE PollReopen
    <3>1. OpenAt(offset, inode)
      BY <2>5 DEF PollReopen
    <3> QED  BY <2>5, <3>1, OpenFacts DEF PollReopen, TypeOK, Kept, States, savVars
  <2>6. CASE PollRead
    <3>1. UNCHANGED <<seen, savVars, times, stops, failedSaves, lost, faults, blind>>
      BY <2>6 DEF PollRead, obsVars, readObs
    <3> QED  BY <2>6, <3>1, ReadFacts DEF TypeOK, Kept, savVars
  <2>6a. CASE ReadRaises
    <3>1. UNCHANGED <<seen, savVars, times, stops, failedSaves, blind>>
      BY <2>6a DEF ReadRaises
    <3>2. lost' \subseteq Writes /\ faults' \in 0..MaxFaults
      <4>1. got \in Seq(Writes) /\ lost \subseteq Writes
        BY DEF TypeOK
      <4>2. lost' = lost \cup Members(got) \cup Members(Pending)
        BY <2>6a DEF ReadRaises
      <4> QED  BY <2>6a, <4>1, <4>2, PendingType, MembersType, FaultType DEF ReadRaises
    <3> QED  BY <2>6a, <3>1, <3>2, ReadFacts DEF TypeOK, Kept, savVars
  <2>6b. CASE ReadFails
    <3>1. faults' \in 0..MaxFaults
      BY <2>6b, FaultType DEF ReadFails
    <3> QED  BY <2>6b, <3>1 DEF ReadFails, TypeOK, Kept, States, HandleAtCursor, savVars, connVars
  <2>7. CASE Save \/ SaveFails
    <3>1. /\ savedOffset' \in Nat /\ savedInode' \in Inodes \cup {NoInode}
          /\ failedSaves' \in 0..MaxFailedSaves
      BY <2>7, FileAssumption DEF Save, SaveFails, TypeOK, savVars
    <3>2. /\ UNCHANGED <<fh, pos, offset, inode, seen, got, times, stops, lost, torn, faults, blind>>
          /\ pc' = "dispatch"
      BY <2>7 DEF Save, SaveFails, connVars, obsVars, readObs
    <3>3. HandleAtCursor'
      BY <3>2 DEF HandleAtCursor
    <3> QED  BY <3>1, <3>2, <3>3 DEF TypeOK, Kept, States
  <2>7a. CASE HandOn
    <3>2. times' \in [Writes -> Nat]
      <4>1. times \in [Writes -> Nat]
        BY DEF TypeOK
      <4>2. times' = [w \in Writes |-> IF w \in Members(got) THEN times[w] + 1 ELSE times[w]]
        BY <2>7a DEF HandOn
      <4> HIDE DEF IInv
      <4> QED  BY ONLY <4>1, <4>2
    <3> QED  BY <2>7a, <3>2 DEF HandOn, TypeOK, Kept, States, HandleAtCursor, savVars, obsVars,
                readObs
  <2>8. CASE Stop
    <3>1. lost' \subseteq Writes
      <4>1. got \in Seq(Writes) /\ lost \subseteq Writes
        BY DEF TypeOK
      <4> QED  BY <2>8, <4>1, MembersType DEF Stop
    <3>2. stops' \in 0..MaxStops
      BY <2>8, FileAssumption DEF Stop, TypeOK
    <3>3. /\ pc' \in States /\ torn' \in BOOLEAN
          /\ fh' = NoInode /\ pos' = 0 /\ offset' = 0 /\ inode' = NoInode /\ seen' = NoInode
          /\ UNCHANGED <<savedOffset, savedInode, times, failedSaves, faults, blind>>
      BY <2>8 DEF Stop, savVars, States
    <3>4. HandleAtCursor' /\ pos' \in Nat /\ offset' \in Nat
      BY <3>3 DEF HandleAtCursor
    <3>5. got' \in Seq(Writes)
      BY <2>8 DEF Stop
    <3> QED  BY <3>1, <3>2, <3>3, <3>4, <3>5 DEF TypeOK, Kept
  <2> QED  BY <2>1, <2>2, <2>3, <2>3a, <2>3b, <2>4, <2>5, <2>6, <2>6a, <2>6b, <2>7, <2>7a, <2>8
           DEF Connector, Poll, Failure
<1> QED  BY <1>1, <1>2 DEF Kept, TypeOK, States, fsVars, envObs, RoomLeft

LEMMA InitInv == Init => IInv
<1> SUFFICES ASSUME Init PROVE IInv
  OBVIOUS
<1>1. 1 \in Inodes /\ 1 # NoInode
  BY FileAssumption DEF Inodes, NoInode
<1>2. data \in [Inodes -> Seq(Writes)]
  BY DEF Init
<1>3. times \in [Writes -> Nat]
  BY DEF Init
<1>4. TypeOK
  <2>1. /\ written \in 0..MaxWrites /\ truncations \in 0..MaxTruncations
        /\ stops \in 0..MaxStops /\ failedSaves \in 0..MaxFailedSaves /\ faults \in 0..MaxFaults
    BY FileAssumption DEF Init
  <2>2. got \in Seq(Writes)
    BY DEF Init
  <2> QED  BY <1>1, <1>2, <1>3, <2>1, <2>2 DEF Init, TypeOK
<1> QED  BY <1>1, <1>4 DEF Init, IInv, HandleAtCursor, RoomLeft

LEMMA NextInv == IInv /\ [Next]_vars => IInv'
<1>1. ASSUME IInv, UNCHANGED vars  PROVE IInv'
  BY <1>1 DEF vars, fsVars, connVars, savVars, obsVars, envObs, readObs, IInv, TypeOK,
     HandleAtCursor, RoomLeft
<1> QED  BY <1>1, EnvironmentInv, ConnectorInv DEF Next, Connector

LEMMA Invariant == Spec => []IInv
BY InitInv, NextInv, PTL DEF Spec

\* Types: the file system, the handle and both cursors keep to their types.
THEOREM TypeCorrect == Spec => []TypeOK
<1>1. IInv => TypeOK
  BY DEF IInv
<1> QED  BY <1>1, Invariant, PTL

-----------------------------------------------------------------------------
(* Where the writes are.  A cursor (c, p) stands after the first p writes  *)
(* of file c.                                                              *)

Before(i, k, c, p) == i < c \/ (i = c /\ k <= p)

\* The writes a cursor has behind it, in the files D.
UpTo(D, c, p) == {w \in Writes : \E i \in Inodes : \E k \in 1..Len(D[i]) :
                                    D[i][k] = w /\ Before(i, k, c, p)}

\* The files hold the first n writes, each once, in the order they were made.
InOrder(D, n) ==
  /\ \A i, j \in Inodes : \A k \in 1..Len(D[i]), l \in 1..Len(D[j]) :
       Before(i, k, j, l) /\ ~ (i = j /\ k = l) => D[i][k] < D[j][l]
  /\ \A i \in Inodes : \A k \in 1..Len(D[i]) : D[i][k] <= n
  /\ \A w \in 1..n : \E i \in Inodes : \E k \in 1..Len(D[i]) : D[i][k] = w

Handed == {w \in Writes : times[w] > 0}
InHand == Members(got)

\* How far the connector has read: a drain that was cut short is beyond its offset.
Reached == IF torn THEN pos ELSE offset

\* What is in hand while the cursor behind it is saved already.
Covered == IF pc = "dispatch" /\ savedOffset = offset /\ savedInode = inode THEN InHand ELSE {}

\* The file at the path is the latest one, and the writer is not beyond it.
Files ==
  /\ path \in {NoInode, files} /\ writer <= files
  /\ \A i \in Inodes : i > writer => data[i] = <<>>

\* What the steps of a poll keep.
Polling ==
  /\ pc \in {"down", "idle", "read", "drain"} => got = <<>>
  /\ pc = "down" => fh = NoInode
  /\ seen <= files /\ inode <= files /\ savedInode <= files

\* Where the cursor of a running process is.
Started ==
  pc # "down" =>
    /\ inode # NoInode /\ SavedFile <= inode
    /\ fh = NoInode => offset = 0
    /\ pc = "drain" => fh # NoInode /\ inode < seen
    /\ pc = "open" => fh = NoInode

\* Without truncation no cursor stands beyond the end of its file.
Inside ==
  /\ savedOffset <= Size(SavedFile)
  /\ pc # "down" /\ fh # NoInode => pos <= Size(fh)

\* What the cursor in memory has not passed is at the path or not yet written.
NothingBetween ==
  pc # "down" =>
    \A i \in Inodes : i # path /\ (i > inode \/ (i = inode /\ fh = NoInode)) => data[i] = <<>>

\* A drain is cut short on a file that has left the path, so that the next poll
\* finds the rotation again.
CutShort ==
  torn => fh # NoInode /\ inode < files /\ offset <= pos /\ pc \in {"idle", "drain"}

\* What lies behind the cursors has been handed on, is in hand or is lost.
Passed ==
  /\ UpTo(data, SavedFile, savedOffset) \subseteq Handed \cup lost \cup Covered
  /\ pc # "down" => UpTo(data, inode, Reached) \subseteq Handed \cup InHand \cup lost
  /\ \A v, w \in Writes : v < w /\ w \in Handed => v \in Handed \cup lost

\* What is in hand lies behind the cursor in memory.
Fetched == pc # "down" => InHand \subseteq UpTo(data, inode, offset)

\* Only what lies behind the cursors has been handed on, and only once.
Ahead ==
  /\ Handed \subseteq UpTo(data, SavedFile, savedOffset)
  /\ pc # "down" => Handed \subseteq UpTo(data, inode, offset)
  /\ pc = "dispatch" => savedOffset = offset /\ SavedFile = inode
  /\ Handed \cap InHand = {}
  /\ \A w \in Writes : times[w] <= 1

\* Nothing was truncated, and every process started on the file of its cursor.
Faithful == truncations = 0 /\ ~ blind

LogInv ==
  /\ Files /\ Polling
  /\ Faithful => InOrder(data, written) /\ Started /\ Inside /\ Fetched /\ CutShort
  /\ Faithful /\ late = {} /\ ~ skipped => NothingBetween /\ Passed
  /\ Faithful /\ failedSaves = 0 => Ahead

-----------------------------------------------------------------------------
(* Facts about the files, for any contents D.                              *)

Contents == [Inodes -> Seq(Writes)]

\* The writes of file c beyond the first p.
Unread(D, c, p) == {D[c][k] : k \in (p + 1)..Len(D[c])}

\* The files E are the files D with one more write at the end of file a.
OneMore(E, D, a, w) ==
  /\ E \in Contents
  /\ Len(E[a]) = Len(D[a]) + 1 /\ E[a][Len(D[a]) + 1] = w
  /\ \A k \in 1..Len(D[a]) : E[a][k] = D[a][k]
  /\ \A i \in Inodes : i # a => E[i] = D[i]

LEMMA Lengths ==
  ASSUME NEW D \in Contents, NEW i \in Inodes
  PROVE  /\ i \in Nat /\ i > 0 /\ Len(D[i]) \in Nat
         /\ \A k \in 1..Len(D[i]) : D[i][k] \in Writes /\ D[i][k] \in Nat
<1>1. D[i] \in Seq(Writes)
  BY DEF Contents
<1>2. i \in Nat /\ i > 0
  BY DEF Inodes
<1>3. \A w \in Writes : w \in Nat
  BY DEF Writes
<1> QED  BY <1>1, <1>2, <1>3

\* A cursor that is further on has more behind it.
LEMMA FurtherOn ==
  ASSUME NEW D \in Contents, NEW c \in Nat, NEW p \in Nat, NEW d \in Nat, NEW q \in Nat,
         c < d \/ (c = d /\ p <= q)
  PROVE  UpTo(D, c, p) \subseteq UpTo(D, d, q)
<1> SUFFICES ASSUME NEW w \in UpTo(D, c, p)  PROVE w \in UpTo(D, d, q)
  OBVIOUS
<1>1a. PICK i \in Inodes : \E k \in 1..Len(D[i]) : D[i][k] = w /\ Before(i, k, c, p)
  BY DEF UpTo
<1>1. PICK k \in 1..Len(D[i]) : D[i][k] = w /\ Before(i, k, c, p)
  BY <1>1a
<1>2. w \in Writes
  BY DEF UpTo
<1>3. i \in Nat /\ k \in Nat
  BY Lengths
<1>4. Before(i, k, d, q)
  BY <1>1, <1>3 DEF Before
<1> QED  BY <1>1, <1>2, <1>4 DEF UpTo

\* Reading a file to its end takes the cursor over what was unread.
LEMMA ReadOver ==
  ASSUME NEW D \in Contents, NEW c \in Inodes, NEW p \in Nat, p <= Len(D[c])
  PROVE  UpTo(D, c, Len(D[c])) = UpTo(D, c, p) \cup Unread(D, c, p)
<1>1. ASSUME NEW w \in UpTo(D, c, Len(D[c]))  PROVE w \in UpTo(D, c, p) \cup Unread(D, c, p)
  <2>1a. PICK i \in Inodes : \E k \in 1..Len(D[i]) : D[i][k] = w /\ Before(i, k, c, Len(D[c]))
    BY <1>1 DEF UpTo
  <2>1. PICK k \in 1..Len(D[i]) : D[i][k] = w /\ Before(i, k, c, Len(D[c]))
    BY <2>1a
  <2>2. w \in Writes /\ i \in Nat /\ c \in Nat /\ k \in Nat /\ k >= 1 /\ Len(D[c]) \in Nat
    BY <1>1, Lengths DEF UpTo
  <2>3. CASE i < c \/ k <= p
    <3>1. Before(i, k, c, p)
      BY <2>1, <2>2, <2>3 DEF Before
    <3> QED  BY <2>1, <2>2, <3>1 DEF UpTo
  <2>4. CASE ~ (i < c) /\ ~ (k <= p)
    <3>1. i = c /\ k \in (p + 1)..Len(D[c])
      BY <2>1, <2>2, <2>4 DEF Before
    <3> QED  BY <2>1, <3>1 DEF Unread
  <2> QED  BY <2>3, <2>4
<1>2. UpTo(D, c, p) \subseteq UpTo(D, c, Len(D[c]))
  <2>1. c \in Nat /\ Len(D[c]) \in Nat
    BY Lengths
  <2> QED  BY <2>1, FurtherOn
<1>3. ASSUME NEW w \in Unread(D, c, p)  PROVE w \in UpTo(D, c, Len(D[c]))
  <2>1. PICK k \in (p + 1)..Len(D[c]) : w = D[c][k]
    BY <1>3 DEF Unread
  <2>2. k \in 1..Len(D[c]) /\ c \in Nat /\ k <= Len(D[c])
    BY <2>1, Lengths
  <2>3. Before(c, k, c, Len(D[c])) /\ w \in Writes
    BY <2>1, <2>2, Lengths DEF Before
  <2> QED  BY <2>1, <2>2, <2>3 DEF UpTo
<1> QED  BY <1>1, <1>2, <1>3

\* What is unread is not behind the cursor in any other place.
LEMMA UnreadIsNew ==
  ASSUME NEW D \in Contents, NEW n, InOrder(D, n), NEW c \in Inodes, NEW p \in Nat
  PROVE  UpTo(D, c, p) \cap Unread(D, c, p) = {}
<1> SUFFICES ASSUME NEW w \in UpTo(D, c, p), w \in Unread(D, c, p)  PROVE FALSE
  OBVIOUS
<1>1a. PICK i \in Inodes : \E k \in 1..Len(D[i]) : D[i][k] = w /\ Before(i, k, c, p)
  BY DEF UpTo
<1>1. PICK k \in 1..Len(D[i]) : D[i][k] = w /\ Before(i, k, c, p)
  BY <1>1a
<1>2. PICK l \in (p + 1)..Len(D[c]) : D[c][l] = w
  BY DEF Unread
<1>3. i \in Nat /\ c \in Nat /\ k \in Nat /\ l \in 1..Len(D[c]) /\ l \in Nat /\ w \in Nat /\ l > p
  BY <1>1, <1>2, Lengths
<1>4. Before(i, k, c, l) /\ ~ (i = c /\ k = l)
  BY <1>1, <1>3 DEF Before
<1>5. D[i][k] < D[c][l]
  BY <1>3, <1>4 DEF InOrder
<1> QED  BY <1>1, <1>2, <1>3, <1>5

\* What was written before something that lies behind the cursor lies behind it.
LEMMA EarlierIsBehind ==
  ASSUME NEW D \in Contents, NEW n \in Nat, InOrder(D, n), NEW c \in Nat, NEW p \in Nat,
         NEW w \in UpTo(D, c, p), NEW v \in Writes, v < w
  PROVE  v \in UpTo(D, c, p)
<1>1a. PICK j \in Inodes : \E l \in 1..Len(D[j]) : D[j][l] = w /\ Before(j, l, c, p)
  BY DEF UpTo
<1>1. PICK l \in 1..Len(D[j]) : D[j][l] = w /\ Before(j, l, c, p)
  BY <1>1a
<1>2. v \in 1..n
  <2>1. w <= n
    BY <1>1 DEF InOrder
  <2> QED  BY <2>1 DEF Writes, UpTo
<1>3a. PICK i \in Inodes : \E k \in 1..Len(D[i]) : D[i][k] = v
  BY <1>2 DEF InOrder
<1>3. PICK k \in 1..Len(D[i]) : D[i][k] = v
  BY <1>3a
<1>4. i \in Nat /\ j \in Nat /\ k \in Nat /\ l \in Nat /\ v \in Nat /\ w \in Nat
  BY <1>1, <1>3, Lengths
<1>5. ~ (Before(j, l, i, k) /\ ~ (j = i /\ l = k))
  <2>1. ASSUME Before(j, l, i, k) /\ ~ (j = i /\ l = k)  PROVE FALSE
    <3>1. D[j][l] < D[i][k]
      BY <2>1 DEF InOrder
    <3> QED  BY <1>1, <1>3, <1>4, <3>1
  <2> QED  BY <2>1
<1>6. Before(i, k, c, p)
  BY <1>1, <1>4, <1>5 DEF Before
<1> QED  BY <1>3, <1>6 DEF UpTo

\* Over empty files a cursor moves on without passing anything.
LEMMA OverEmptyFiles ==
  ASSUME NEW D \in Contents, NEW c \in Inodes, NEW d \in Nat, c <= d,
         \A i \in Inodes : c < i /\ i < d => D[i] = <<>>
  PROVE  UpTo(D, d, 0) \subseteq UpTo(D, c, Len(D[c]))
<1> SUFFICES ASSUME NEW w \in UpTo(D, d, 0)  PROVE w \in UpTo(D, c, Len(D[c]))
  OBVIOUS
<1>1a. PICK i \in Inodes : \E k \in 1..Len(D[i]) : D[i][k] = w /\ Before(i, k, d, 0)
  BY DEF UpTo
<1>1. PICK k \in 1..Len(D[i]) : D[i][k] = w /\ Before(i, k, d, 0)
  BY <1>1a
<1>2. w \in Writes /\ i \in Nat /\ c \in Nat /\ k \in Nat /\ k >= 1 /\ k <= Len(D[i])
  BY Lengths DEF UpTo
<1>3. i < d
  BY <1>1, <1>2 DEF Before
<1>4. ~ (c < i)
  BY <1>2, <1>3
<1>5. Before(i, k, c, Len(D[c]))
  BY <1>2, <1>4 DEF Before
<1> QED  BY <1>1, <1>2, <1>5 DEF UpTo

\* A new write takes nothing from behind a cursor ...
LEMMA WriteKeeps ==
  ASSUME NEW D \in Contents, NEW E, NEW a \in Inodes, NEW x, OneMore(E, D, a, x),
         NEW c \in Nat, NEW p \in Nat
  PROVE  UpTo(D, c, p) \subseteq UpTo(E, c, p)
<1> SUFFICES ASSUME NEW w \in UpTo(D, c, p)  PROVE w \in UpTo(E, c, p)
  OBVIOUS
<1>1a. PICK i \in Inodes : \E k \in 1..Len(D[i]) : D[i][k] = w /\ Before(i, k, c, p)
  BY DEF UpTo
<1>1. PICK k \in 1..Len(D[i]) : D[i][k] = w /\ Before(i, k, c, p)
  BY <1>1a
<1>2. w \in Writes /\ Len(D[i]) \in Nat
  BY Lengths DEF UpTo
<1>3. k \in 1..Len(E[i]) /\ E[i][k] = w
  BY <1>1, <1>2 DEF OneMore
<1> QED  BY <1>1, <1>2, <1>3 DEF UpTo

\* ... and adds nothing there when the file it goes to is ahead.
LEMMA WriteIsAhead ==
  ASSUME NEW D \in Contents, NEW E, NEW a \in Inodes, NEW x, OneMore(E, D, a, x),
         NEW c \in Nat, NEW p \in Nat,
         c < a \/ (c = a /\ p <= Len(D[a]))
  PROVE  UpTo(E, c, p) \subseteq UpTo(D, c, p)
<1> SUFFICES ASSUME NEW w \in UpTo(E, c, p)  PROVE w \in UpTo(D, c, p)
  OBVIOUS
<1>1a. PICK i \in Inodes : \E k \in 1..Len(E[i]) : E[i][k] = w /\ Before(i, k, c, p)
  BY DEF UpTo
<1>1. PICK k \in 1..Len(E[i]) : E[i][k] = w /\ Before(i, k, c, p)
  BY <1>1a
<1>2. w \in Writes /\ Len(D[i]) \in Nat /\ Len(D[a]) \in Nat /\ i \in Nat /\ a \in Nat /\ k \in Nat
  BY Lengths DEF UpTo
<1>3. k \in 1..Len(D[i]) /\ D[i][k] = w
  <2>1. CASE i # a
    BY <1>1, <2>1 DEF OneMore
  <2>2. CASE i = a
    <3>1. k <= Len(D[a])
      BY <1>1, <1>2, <2>2 DEF Before
    <3> QED  BY <1>1, <1>2, <2>2, <3>1 DEF OneMore
  <2> QED  BY <2>1, <2>2
<1> QED  BY <1>1, <1>2, <1>3 DEF UpTo

\* The next write, at the end of the last file written to, keeps the order.
LEMMA WriteInOrder ==
  ASSUME NEW D \in Contents, NEW n \in Nat, InOrder(D, n), n + 1 \in Writes,
         NEW E, NEW a \in Inodes, OneMore(E, D, a, n + 1),
         \A i \in Inodes : i > a => D[i] = <<>>
  PROVE  InOrder(E, n + 1)
<1>1. E \in Contents /\ Len(D[a]) \in Nat /\ Len(E[a]) = Len(D[a]) + 1
  BY Lengths DEF OneMore
<1>2. ASSUME NEW i \in Inodes, NEW k \in 1..Len(E[i]), ~ (i = a /\ k = Len(D[a]) + 1)
      PROVE  k \in 1..Len(D[i]) /\ E[i][k] = D[i][k]
  BY <1>1, <1>2 DEF OneMore
<1>3. E[a][Len(D[a]) + 1] = n + 1
  BY DEF OneMore
<1>4. ASSUME NEW i \in Inodes, NEW k \in 1..Len(E[i])  PROVE E[i][k] <= n + 1
  <2>1. CASE i = a /\ k = Len(D[a]) + 1
    BY <1>3, <2>1
  <2>2. CASE ~ (i = a /\ k = Len(D[a]) + 1)
    <3>1. E[i][k] <= n /\ E[i][k] \in Nat
      BY <1>2, <2>2, Lengths DEF InOrder
    <3> QED  BY <3>1
  <2> QED  BY <2>1, <2>2
<1>5. ASSUME NEW w \in 1..(n + 1)
      PROVE  \E i \in Inodes : \E k \in 1..Len(E[i]) : E[i][k] = w
  <2>1. CASE w = n + 1
    <3>1. Len(D[a]) + 1 \in 1..Len(E[a])
      BY <1>1
    <3> QED  BY <1>3, <2>1, <3>1
  <2>2. CASE w # n + 1
    <3>1. w \in 1..n
      BY <2>2
    <3>2a. PICK i \in Inodes : \E k \in 1..Len(D[i]) : D[i][k] = w
      BY <3>1 DEF InOrder
    <3>2. PICK k \in 1..Len(D[i]) : D[i][k] = w
      BY <3>2a
    <3>3. k \in 1..Len(E[i]) /\ E[i][k] = D[i][k]
      BY <1>1 DEF OneMore
    <3> QED  BY <3>2, <3>3
  <2> QED  BY <2>1, <2>2
<1>6. ASSUME NEW i \in Inodes, NEW j \in Inodes,
             NEW k \in 1..Len(E[i]), NEW l \in 1..Len(E[j]),
             Before(i, k, j, l), ~ (i = j /\ k = l)
      PROVE  E[i][k] < E[j][l]
  <2>1. i \in Nat /\ j \in Nat /\ a \in Nat /\ k \in Nat /\ l \in Nat /\ k >= 1
        /\ k <= Len(E[i]) /\ l <= Len(E[j])
    BY <1>1, Lengths
  <2>2. CASE j = a /\ l = Len(D[a]) + 1
    <3>1. ~ (i = a /\ k = Len(D[a]) + 1)
      BY <1>6, <2>2
    <3>2. E[i][k] <= n /\ E[i][k] \in Nat
      BY <1>2, <3>1, Lengths DEF InOrder
    <3> QED  BY <1>3, <2>2, <3>2
  <2>3. CASE i = a /\ k = Len(D[a]) + 1
    <3>1. ~ (j = a)
      BY <1>1, <1>6, <2>1, <2>3 DEF Before
    <3>2. j > a
      BY <1>6, <2>1, <2>3, <3>1 DEF Before
    <3>3. E[j] = <<>>
      BY <3>1, <3>2 DEF OneMore
    <3> QED  BY <3>3
  <2>4. CASE ~ (j = a /\ l = Len(D[a]) + 1) /\ ~ (i = a /\ k = Len(D[a]) + 1)
    <3>1. /\ k \in 1..Len(D[i]) /\ E[i][k] = D[i][k]
          /\ l \in 1..Len(D[j]) /\ E[j][l] = D[j][l]
      BY <1>2, <2>4
    <3> QED  BY <1>6, <3>1 DEF InOrder
  <2> QED  BY <2>2, <2>3, <2>4
<1> QED  BY <1>4, <1>5, <1>6 DEF InOrder

-----------------------------------------------------------------------------
(* The steps of the file system. *)

LEMMA Kinds ==
  ASSUME TypeOK
  PROVE  /\ data \in Contents /\ written \in Nat /\ files \in Inodes /\ writer \in Inodes
         /\ SavedFile \in Inodes /\ SavedFile \in Nat
         /\ files \in Nat /\ writer \in Nat /\ files > 0 /\ writer > 0
         /\ path \in Nat /\ fh \in Nat /\ inode \in Nat /\ seen \in Nat /\ savedInode \in Nat
         /\ path # NoInode => path \in Inodes
         /\ fh # NoInode => fh \in Inodes
         /\ inode # NoInode => inode \in Inodes
         /\ pos \in Nat /\ offset \in Nat /\ savedOffset \in Nat
         /\ truncations \in Nat /\ failedSaves \in Nat
<1>1. /\ data \in Contents /\ written \in Nat
      /\ pos \in Nat /\ offset \in Nat /\ savedOffset \in Nat
      /\ truncations \in Nat /\ failedSaves \in Nat
  BY FileAssumption DEF TypeOK, Contents
<1>2. \A i \in Inodes : i \in Nat /\ i > 0
  BY DEF Inodes
<1>3. 1 \in Inodes /\ NoInode \in Nat
  BY FileAssumption DEF Inodes, NoInode
<1>4. /\ path \in Inodes \cup {NoInode} /\ writer \in Inodes /\ files \in Inodes
      /\ fh \in Inodes \cup {NoInode} /\ inode \in Inodes \cup {NoInode}
      /\ seen \in Inodes \cup {NoInode} /\ savedInode \in Inodes \cup {NoInode}
  BY DEF TypeOK
<1>5. SavedFile \in Inodes
  BY <1>3, <1>4 DEF SavedFile
<1> QED  BY <1>1, <1>2, <1>3, <1>4, <1>5

\* The file of the saved cursor has been at the path.
LEMMA SavedFileIsOld ==
  ASSUME TypeOK, Polling
  PROVE  SavedFile <= files
BY Kinds DEF SavedFile, Polling

\* A write, as the lemmas about the files see it.
LEMMA WriteFacts ==
  ASSUME TypeOK, Write
  PROVE  /\ OneMore(data', data, writer, written + 1)
         /\ written' = written + 1 /\ written + 1 \in Writes
         /\ late' = {} => late = {} /\ (writer = path \/ writer = fh)
         /\ \A i \in Inodes : i # writer => data'[i] = data[i]
         /\ \A i \in Inodes : Len(data[i]) <= Len(data'[i])
         /\ UNCHANGED <<path, writer, files, truncations, fh, pos, offset, inode, seen, got,
                        savedOffset, savedInode, pc, times, stops, failedSaves, skipped, blind,
                        lost, torn>>
<1>1. /\ written' = written + 1 /\ data' = [data EXCEPT ![writer] = Append(@, written + 1)]
      /\ late' = IF writer # path /\ writer # fh THEN late \cup {written'} ELSE late
      /\ UNCHANGED <<path, writer, files, truncations, fh, pos, offset, inode, seen, got,
                     savedOffset, savedInode, pc, times, stops, failedSaves, skipped, blind,
                     lost, torn>>
  <2>1. lost' = lost /\ torn' = torn
    BY DEF Write, readObs
  <2> QED  BY <2>1 DEF Write, connVars, savVars
<1>2. written + 1 \in Writes
  BY FileAssumption, Kinds DEF Write, Writes
<1> DEFINE s == data[writer]
           t == Append(s, written + 1)
<1>3. s \in Seq(Writes) /\ Len(s) \in Nat
  BY Kinds DEF Contents
<1>4. t \in Seq(Writes) /\ Len(t) = Len(s) + 1 /\ t[Len(s) + 1] = written + 1
      /\ \A k \in 1..Len(s) : t[k] = s[k]
  <2> HIDE DEF s
  <2> QED  BY <1>2, <1>3
<1> HIDE DEF t
<1>5. data' = [data EXCEPT ![writer] = t]
  BY <1>1 DEF t
<1>6. data'[writer] = t /\ \A i \in Inodes : i # writer => data'[i] = data[i]
  BY <1>5, Kinds DEF Contents
<1>7. data' \in Contents
  BY <1>4, <1>5, Kinds DEF Contents
<1>8. OneMore(data', data, writer, written + 1)
  BY <1>4, <1>6, <1>7 DEF OneMore
<1>9. ASSUME NEW i \in Inodes  PROVE Len(data[i]) <= Len(data'[i])
  <2>1. Len(data[i]) \in Nat
    BY Kinds, Lengths
  <2> QED  BY <1>3, <1>4, <1>6, <2>1
<1> QED  BY <1>1, <1>2, <1>6, <1>8, <1>9

LEMMA WriteStep ==
  ASSUME IInv, LogInv, Write
  PROVE  LogInv'
<1>1. TypeOK /\ HandleAtCursor /\ Files /\ Polling
  BY DEF IInv, LogInv
<1> DEFINE w == written + 1
<1>2. /\ OneMore(data', data, writer, w) /\ written' = w /\ w \in Writes
      /\ late' = {} => late = {} /\ (writer = path \/ writer = fh)
      /\ \A i \in Inodes : i # writer => data'[i] = data[i]
      /\ \A i \in Inodes : Len(data[i]) <= Len(data'[i])
      /\ UNCHANGED <<path, writer, files, truncations, fh, pos, offset, inode, seen, got,
                     savedOffset, savedInode, pc, times, stops, failedSaves, skipped, blind,
                        lost, torn>>
  BY <1>1, WriteFacts
<1>3. /\ SavedFile' = SavedFile /\ Handed' = Handed /\ InHand' = InHand /\ Faithful' = Faithful
      /\ Reached' = Reached /\ Covered' = Covered
  BY <1>2 DEF SavedFile, Handed, InHand, Members, Faithful, Reached, Covered
<1> HIDE DEF w
<1>4. Files' /\ Polling'
  BY <1>1, <1>2, Kinds DEF Files, Polling
<1>5. ASSUME Faithful
      PROVE  InOrder(data', written') /\ Started' /\ Inside' /\ Fetched' /\ CutShort'
  <2>1. InOrder(data, written) /\ Started /\ Inside /\ Fetched /\ CutShort
    BY <1>5 DEF LogInv
  <2>2. InOrder(data', written')
    BY <1>1, <1>2, <2>1, Kinds, WriteInOrder DEF Files, w
  <2>3. Started'
    BY <1>2, <1>3, <2>1 DEF Started
  <2>3a. CutShort'
    BY <1>2, <2>1 DEF CutShort
  <2>4. Inside'
    <3>1. Len(data[SavedFile]) <= Len(data'[SavedFile])
          /\ Len(data[SavedFile]) \in Nat /\ Len(data'[SavedFile]) \in Nat
      BY <1>1, <1>2, Kinds, Lengths DEF OneMore
    <3>2. fh # NoInode => /\ Len(data[fh]) <= Len(data'[fh])
                          /\ Len(data[fh]) \in Nat /\ Len(data'[fh]) \in Nat
      BY <1>1, <1>2, Kinds, Lengths DEF OneMore
    <3>3. savedOffset <= Len(data[SavedFile]) /\ savedOffset \in Nat /\ pos \in Nat
          /\ (pc # "down" /\ fh # NoInode => pos <= Len(data[fh]))
      BY <1>1, <2>1, Kinds DEF Inside, Size
    <3>4. savedOffset <= Len(data'[SavedFile])
          /\ (pc # "down" /\ fh # NoInode => pos <= Len(data'[fh]))
      BY <3>1, <3>2, <3>3
    <3> QED  BY <1>2, <1>3, <3>4 DEF Inside, Size
  <2>5. Fetched'
    <3>1. UpTo(data, inode, offset) \subseteq UpTo(data', inode, offset)
      BY <1>1, <1>2, Kinds, WriteKeeps
    <3> QED  BY <1>2, <1>3, <2>1, <3>1 DEF Fetched
  <2> QED  BY <2>2, <2>3, <2>3a, <2>4, <2>5
<1>6. ASSUME Faithful, late' = {}, ~ skipped
      PROVE  NothingBetween' /\ Passed'
  <2>1. /\ Started /\ Inside /\ NothingBetween /\ Passed
        /\ writer = path \/ writer = fh
    BY <1>2, <1>6 DEF LogInv
  <2>2. NothingBetween'
    <3> SUFFICES ASSUME pc # "down", NEW i \in Inodes, i # path,
                        i > inode \/ (i = inode /\ fh = NoInode)
                 PROVE  data'[i] = <<>>
      BY <1>2 DEF NothingBetween
    <3>1. data[i] = <<>>
      BY <2>1 DEF NothingBetween
    <3>2. i # writer
      <4>1. i \in Nat /\ i > 0 /\ (fh # NoInode => inode = fh)
        BY <1>1 DEF Inodes, HandleAtCursor
      <4> QED  BY <1>1, <2>1, <4>1, Kinds DEF NoInode
    <3> QED  BY <1>2, <3>1, <3>2
  <2>3. SavedFile <= files /\ path \in {NoInode, files} /\ writer # NoInode
    BY <1>1, SavedFileIsOld, Kinds DEF Files, NoInode
  <2>4. pc # "down" => inode <= files /\ SavedFile <= inode /\ (fh # NoInode => inode = fh)
    BY <1>1, <2>1 DEF Polling, Started, HandleAtCursor
  <2>5. pc = "down" => writer = path
    BY <1>1, <2>1, <2>3 DEF Polling
  <2>6. SavedFile <= writer
    BY <1>1, <2>1, <2>3, <2>4, <2>5, Kinds
  <2>7. pc # "down" => inode <= writer
    BY <1>1, <2>1, <2>3, <2>4, Kinds
  <2>8. UpTo(data', SavedFile, savedOffset) \subseteq UpTo(data, SavedFile, savedOffset)
    <3>1. SavedFile < writer \/ (SavedFile = writer /\ savedOffset <= Len(data[writer]))
      BY <1>1, <2>1, <2>6, Kinds DEF Inside, Size
    <3> QED  BY <1>1, <1>2, <3>1, Kinds, WriteIsAhead
  <2>9. pc # "down" => UpTo(data', inode, Reached) \subseteq UpTo(data, inode, Reached)
    <3> SUFFICES ASSUME pc # "down"
                 PROVE  UpTo(data', inode, Reached) \subseteq UpTo(data, inode, Reached)
      OBVIOUS
    <3>1. /\ Reached \in Nat
          /\ inode < writer \/ (inode = writer /\ Reached <= Len(data[writer]))
      <4>1. CASE fh # NoInode
        <5>1. Reached = pos
          BY <1>1, <4>1 DEF HandleAtCursor, Reached
        <5>2. inode = fh /\ pos <= Len(data[inode])
          BY <1>1, <2>1, <4>1 DEF Inside, Size, HandleAtCursor
        <5>3. Reached \in Nat /\ inode <= writer /\ inode \in Nat /\ writer \in Nat
          BY <1>1, <2>7, <5>1, Kinds
        <5> QED  BY <5>1, <5>2, <5>3
      <4>2. CASE fh = NoInode
        <5>0. CutShort
          BY <1>6 DEF LogInv
        <5>1a. Reached = 0
          BY <2>1, <4>2, <5>0 DEF Started, CutShort, Reached
        <5>1. Reached = 0 /\ Len(data[writer]) \in Nat
          BY <1>1, <5>1a, Kinds, Lengths
        <5> QED  BY <1>1, <2>7, <5>1, Kinds
      <4> QED  BY <4>1, <4>2
    <3> QED  BY <1>1, <1>2, <3>1, Kinds, WriteIsAhead
  <2>10. Passed'
    BY <1>2, <1>3, <2>1, <2>8, <2>9 DEF Passed
  <2> QED  BY <2>2, <2>10
<1>7. ASSUME Faithful, failedSaves = 0
      PROVE  Ahead'
  <2>1. Ahead
    BY <1>7 DEF LogInv
  <2>2. /\ UpTo(data, SavedFile, savedOffset) \subseteq UpTo(data', SavedFile, savedOffset)
        /\ UpTo(data, inode, offset) \subseteq UpTo(data', inode, offset)
    BY <1>1, <1>2, Kinds, WriteKeeps
  <2> QED  BY <1>2, <1>3, <2>1, <2>2 DEF Ahead
<1> QED  BY <1>2, <1>3, <1>4, <1>5, <1>6, <1>7 DEF LogInv

\* The other steps of the file system leave every write where it is, or truncate.
LEMMA RotationStep ==
  ASSUME IInv, LogInv, Rename \/ Create \/ Reopen \/ Truncate
  PROVE  LogInv'
<1>1. TypeOK /\ Files /\ Polling
  BY DEF IInv, LogInv
<1>2. UNCHANGED <<fh, pos, offset, inode, seen, got, savedOffset, savedInode, pc, times,
                  written, failedSaves, late, blind, lost, torn>>
  BY DEF Rename, Create, Reopen, Truncate, connVars, savVars, obsVars, envObs, readObs
<1>3. /\ SavedFile' = SavedFile /\ Handed' = Handed /\ InHand' = InHand
      /\ Reached' = Reached /\ Covered' = Covered
  BY <1>2 DEF SavedFile, Handed, InHand, Members, Reached, Covered
<1>4. files <= files' /\ files' \in Nat
  BY <1>1, Kinds DEF Rename, Create, Reopen, Truncate
<1>5. Polling'
  BY <1>1, <1>2, <1>4, Kinds DEF Polling
<1>6. Files'
  <2>1. CASE Rename
    BY <1>1, <2>1 DEF Rename, Files
  <2>2. CASE Create
    BY <1>1, <2>2, Kinds DEF Create, Files
  <2>3. CASE Reopen
    <3>1. /\ writer' = path /\ path' = path /\ files' = files /\ data' = data /\ path = files
      BY <1>1, <2>3 DEF Reopen, Files
    <3>2. \A i \in Inodes : i > files => i > writer
      BY <1>1, Kinds DEF Files, Inodes
    <3> QED  BY <1>1, <3>1, <3>2, Kinds DEF Files
  <2>4. CASE Truncate
    <3>1. /\ UNCHANGED <<path, writer, files>> /\ data' = [data EXCEPT ![path] = <<>>]
      BY <2>4 DEF Truncate
    <3>2. \A i \in Inodes : data'[i] = data[i] \/ data'[i] = <<>>
      BY <1>1, <3>1, Kinds DEF Contents
    <3> QED  BY <1>1, <3>1, <3>2 DEF Files
  <2> QED  BY <2>1, <2>2, <2>3, <2>4
<1>7. CASE Truncate
  <2>1. ~ Faithful'
    BY <1>1, <1>7, Kinds DEF Truncate, Faithful
  <2> QED  BY <1>5, <1>6, <2>1 DEF LogInv
<1>8. CASE Rename \/ Create \/ Reopen
  <2>1. data' = data /\ truncations' = truncations /\ (~ skipped' => ~ skipped)
    <3>1. data' = data /\ truncations' = truncations
      BY <1>8 DEF Rename, Create, Reopen
    <3>2. ASSUME skipped  PROVE skipped'
      <4>1. CASE Rename
        BY <3>2, <4>1 DEF Rename
      <4>2. CASE Create \/ Reopen
        BY <3>2, <4>2 DEF Create, Reopen, obsVars, envObs
      <4> QED  BY <1>8, <4>1, <4>2
    <3> QED  BY <3>1, <3>2
  <2>2. /\ Faithful' = Faithful /\ InOrder(data', written') = InOrder(data, written)
        /\ Started' = Started /\ Inside' = Inside /\ Fetched' = Fetched
        /\ Passed' = Passed /\ Ahead' = Ahead
    BY <1>2, <1>3, <2>1 DEF Faithful, Started, Inside, Fetched, Passed, Ahead, Size
  <2>2a. CutShort => CutShort'
    BY <1>1, <1>2, <1>4, Kinds DEF CutShort
  <2>3. ASSUME Faithful, late = {}, ~ skipped'  PROVE NothingBetween'
    <3>1. NothingBetween
      BY <2>1, <2>3 DEF LogInv
    <3> SUFFICES ASSUME pc # "down", NEW i \in Inodes, i # path',
                        i > inode \/ (i = inode /\ fh = NoInode)
                 PROVE  data[i] = <<>>
      BY <1>2, <2>1 DEF NothingBetween
    <3>2. CASE i # path
      BY <3>1, <3>2 DEF NothingBetween
    <3>3. CASE i = path
      <4>1. Rename
        BY <1>8, <3>3 DEF Create, Reopen, NoInode, Inodes
      <4>2. fh # path
        <5>1. i \in Nat /\ i > 0 /\ inode \in Nat /\ (fh # NoInode => inode = fh)
          BY <1>1, Kinds DEF Inodes, IInv, HandleAtCursor
        <5> QED  BY <3>3, <5>1 DEF NoInode
      <4>3. ~ (Size(path) > 0)
        BY <2>3, <4>1, <4>2 DEF Rename
      <4>4. data[i] \in Seq(Writes) /\ ~ (Len(data[i]) > 0)
        BY <1>1, <3>3, <4>3, Kinds DEF Contents, Size
      <4> QED  BY <4>4
    <3> QED  BY <3>2, <3>3
  <2> QED  BY <1>2, <1>5, <1>6, <2>1, <2>2, <2>2a, <2>3 DEF LogInv
<1> QED  BY <1>7, <1>8

-----------------------------------------------------------------------------
(* The steps of the connector. *)

\* What a read returns, as a set.
LEMMA RestIsUnread ==
  ASSUME TypeOK, NEW i \in Inodes, NEW p \in Nat
  PROVE  /\ Members(Rest(i, p)) = Unread(data, i, p)
         /\ p <= Size(i) => p + Len(Rest(i, p)) = Size(i)
<1> DEFINE s == data[i]
           r == SubSeq(s, p + 1, Len(s))
<1>1. s \in Seq(Writes) /\ Len(s) \in Nat
  BY Kinds DEF Contents
<1>2. CASE p < Len(s)
  <2>1. Rest(i, p) = r
    BY <1>2 DEF Rest, Size
  <2>2. Len(r) = Len(s) - p /\ \A k \in 1..(Len(s) - p) : r[k] = s[p + k]
    <3> HIDE DEF s
    <3> QED  BY <1>1, <1>2
  <2>3. r \in Seq(Writes)
    <3> HIDE DEF s
    <3> QED  BY <1>1, <1>2, SubSeqProperties
  <2>4. DOMAIN r = 1..(Len(s) - p)
    <3> HIDE DEF r, s
    <3> QED  BY <2>2, <2>3
  <2> USE DEF Members
  <2>5. ASSUME NEW w \in {r[k] : k \in DOMAIN r}  PROVE w \in Unread(data, i, p)
    <3>1. PICK k \in 1..(Len(s) - p) : w = s[p + k]
      BY <2>2, <2>4, <2>5
    <3>2. p + k \in (p + 1)..Len(s)
      BY <1>1
    <3> QED  BY <3>1, <3>2 DEF Unread
  <2>6. ASSUME NEW w \in Unread(data, i, p)  PROVE w \in {r[k] : k \in DOMAIN r}
    <3>1. PICK l \in (p + 1)..Len(s) : w = s[l]
      BY <2>6 DEF Unread
    <3>2. l - p \in 1..(Len(s) - p) /\ p + (l - p) = l
      BY <1>1
    <3>3. r[l - p] = w
      BY <2>2, <3>1, <3>2
    <3> HIDE DEF r
    <3> QED  BY <2>4, <3>2, <3>3
  <2>7. p + Len(r) = Len(s)
    <3> HIDE DEF r, s
    <3> QED  BY <1>1, <2>2
  <2> HIDE DEF r
  <2> QED  BY <2>1, <2>5, <2>6, <2>7 DEF Size
<1>3. CASE ~ (p < Len(s))
  <2>1. Rest(i, p) = <<>>
    BY <1>3 DEF Rest, Size
  <2>2. Unread(data, i, p) = {}
    <3>1. ~ (\E l \in (p + 1)..Len(s) : TRUE)
      BY <1>1, <1>3
    <3> QED  BY <3>1 DEF Unread
  <2>3. p <= Len(s) => p + 0 = Len(s)
    <3> HIDE DEF s
    <3> QED  BY <1>1, <1>3
  <2>4. Members(Rest(i, p)) = {} /\ Len(Rest(i, p)) = 0
    BY <2>1 DEF Members
  <2> QED  BY <2>2, <2>3, <2>4 DEF Size
<1> QED  BY <1>2, <1>3

\* The file system as a step of the connector leaves it.
LEMMA FilesStay ==
  ASSUME LogInv, UNCHANGED <<fsVars, envObs>>
  PROVE  /\ Files' /\ Files
         /\ UNCHANGED <<data, path, writer, written, files, truncations, late, skipped>>
         /\ InOrder(data', written') = InOrder(data, written)
BY DEF LogInv, Files, fsVars, envObs

\* A stop loses what is in hand, for good when the cursor is saved beyond it.
LEMMA StopStep ==
  ASSUME IInv, LogInv, Stop
  PROVE  LogInv'
<1>1. /\ UNCHANGED <<fsVars, envObs, savedOffset, savedInode, times, failedSaves, blind>>
      /\ pc' = "down" /\ fh' = NoInode /\ got' = <<>> /\ torn' = FALSE
      /\ seen' = NoInode /\ inode' = NoInode
      /\ lost' = lost \cup Covered
  BY DEF Stop, savVars, Covered, InHand
<1>2. /\ Files' /\ UNCHANGED <<data, path, files, truncations, late, skipped>>
      /\ InOrder(data', written') = InOrder(data, written)
  BY <1>1, FilesStay
<1>3. /\ Handed' = Handed /\ InHand' = {} /\ Covered' = {}
      /\ SavedFile' = SavedFile /\ Faithful' = Faithful
  BY <1>1, <1>2 DEF Handed, InHand, SavedFile, Faithful, Members, Covered
<1>4. Polling'
  BY <1>1, <1>2, Kinds DEF IInv, Polling, LogInv, NoInode
<1>5. Started' /\ Fetched' /\ NothingBetween' /\ CutShort'
  BY <1>1 DEF Started, Fetched, NothingBetween, CutShort
<1>6. Inside => Inside'
  BY <1>1, <1>2, <1>3 DEF Inside, Size
<1>7. Passed => Passed'
  BY <1>1, <1>2, <1>3 DEF Passed
<1>8. Ahead => Ahead'
  BY <1>1, <1>2, <1>3 DEF Ahead
<1> QED  BY <1>1, <1>2, <1>3, <1>4, <1>5, <1>6, <1>7, <1>8 DEF LogInv

\* A process that starts on the file of the saved cursor takes its place.
LEMMA ConnectStep ==
  ASSUME IInv, LogInv, Connect
  PROVE  LogInv'
<1>1. TypeOK /\ Files /\ Polling
  BY DEF IInv, LogInv
<1>2. /\ UNCHANGED <<fsVars, envObs, savedOffset, savedInode, times, failedSaves, lost>>
      /\ pc = "down" /\ pc' = "idle" /\ seen' = NoInode /\ got' = <<>> /\ torn' = FALSE
      /\ blind' = (blind \/ path # SavedFile)
      /\ OpenAt(savedOffset, savedInode)
  BY DEF Connect, OpenAt, savVars
<1>3. /\ Files' /\ UNCHANGED <<data, path, files, truncations, late, skipped>>
      /\ InOrder(data', written') = InOrder(data, written)
  BY <1>2, FilesStay
<1>4. /\ Handed' = Handed /\ InHand' = {} /\ SavedFile' = SavedFile
      /\ Reached' = offset' /\ Covered = {} /\ Covered' = {}
  BY <1>2 DEF Handed, InHand, Members, SavedFile, Reached, Covered
<1>5. Polling'
  BY <1>1, <1>2, <1>3, Kinds DEF Polling, OpenAt, Files, NoInode
<1>6. SUFFICES ASSUME Faithful'
               PROVE  /\ InOrder(data', written') /\ Started' /\ Inside' /\ Fetched' /\ CutShort'
                      /\ late = {} /\ ~ skipped => NothingBetween' /\ Passed'
                      /\ failedSaves = 0 => Ahead'
  BY <1>2, <1>3, <1>5 DEF LogInv
<1>7. Faithful /\ path = SavedFile
  BY <1>2, <1>3, <1>6 DEF Faithful
<1>8. /\ SavedFile # NoInode /\ savedOffset \in Nat
      /\ fh' = SavedFile /\ inode' = SavedFile /\ pos' = savedOffset /\ offset' = savedOffset
  <2>1. path # NoInode /\ savedOffset \in Nat
    BY <1>1, <1>7, Kinds DEF NoInode, Inodes
  <2>2. /\ fh' = path /\ inode' = path /\ pos' = savedOffset /\ offset' = savedOffset
    BY <1>2, <2>1 DEF OpenAt
  <2> QED  BY <1>7, <2>1, <2>2
<1>9. InOrder(data, written) /\ Inside
  BY <1>7 DEF LogInv
<1>10. Started'
  BY <1>1, <1>2, <1>4, <1>8, Kinds DEF Started
<1>11. Inside' /\ Fetched' /\ CutShort'
  BY <1>2, <1>3, <1>4, <1>8, <1>9 DEF Inside, Size, Fetched, CutShort
<1>12. ASSUME late = {}, ~ skipped  PROVE NothingBetween' /\ Passed'
  <2>1. Passed
    BY <1>7, <1>12 DEF LogInv
  <2>2. ASSUME NEW i \in Inodes, i > SavedFile  PROVE data[i] = <<>>
    <3>1. i > writer
      BY <1>1, <1>7, <2>2, Kinds DEF Files, Inodes, NoInode
    <3> QED  BY <1>1, <3>1 DEF Files
  <2>3. NothingBetween'
    BY <1>2, <1>3, <1>8, <2>2 DEF NothingBetween
  <2>4. Passed'
    BY <1>2, <1>3, <1>4, <1>8, <2>1 DEF Passed
  <2> QED  BY <2>3, <2>4
<1>13. ASSUME failedSaves = 0  PROVE Ahead'
  <2>1. Ahead
    BY <1>7, <1>13 DEF LogInv
  <2> QED  BY <1>2, <1>3, <1>4, <1>8, <2>1 DEF Ahead
<1> QED  BY <1>3, <1>9, <1>10, <1>11, <1>12, <1>13

\* A rotation is found only when another file is at the path, and always after a
\* drain that was cut short.
LEMMA StatStep ==
  ASSUME IInv, LogInv, PollStat
  PROVE  LogInv'
<1>1. TypeOK /\ Files /\ Polling /\ HandleAtCursor
  BY DEF IInv, LogInv
<1>2. /\ UNCHANGED <<fsVars, envObs, fh, pos, offset, inode, got, savedOffset, savedInode, times,
                     failedSaves, blind, lost, torn>>
      /\ pc = "idle" /\ path # NoInode
      /\ pc' = IF Rotated THEN "drain" ELSE "read"
      /\ seen' = IF Rotated THEN path ELSE NoInode
  BY DEF PollStat, savVars, obsVars, readObs
<1>3. /\ Files' /\ UNCHANGED <<data, path, files, truncations, late, skipped>>
      /\ InOrder(data', written') = InOrder(data, written)
  BY <1>2, FilesStay
<1>4. /\ Handed' = Handed /\ InHand' = InHand /\ SavedFile' = SavedFile /\ Faithful' = Faithful
      /\ Reached' = Reached /\ Covered = {} /\ Covered' = {}
      /\ pc' \notin {"down", "open", "dispatch"} /\ got = <<>>
  BY <1>1, <1>2, <1>3 DEF Handed, InHand, Members, SavedFile, Faithful, Polling, Reached, Covered
<1>5. Polling'
  BY <1>1, <1>2, <1>3, <1>4, Kinds DEF Polling, Files, NoInode
<1>6. ASSUME Faithful  PROVE Started' /\ Inside' /\ Fetched' /\ CutShort'
  <2>1. Started /\ Inside /\ Fetched /\ CutShort
    BY <1>6 DEF LogInv
  <2>1a. path = files /\ inode <= files
    BY <1>1, <1>2 DEF Files, Polling
  <2>1b. ASSUME torn  PROVE fh # NoInode /\ inode < path /\ Rotated
    <3>1. fh # NoInode /\ inode < path /\ inode # NoInode
      BY <1>2, <2>1, <2>1a, <2>1b DEF CutShort, Started
    <3>2. path # inode
      BY <1>1, <3>1, Kinds
    <3> QED  BY <3>1, <3>2 DEF Rotated
  <2>2. ASSUME Rotated  PROVE fh # NoInode /\ inode < path
    <3>1. fh # NoInode
      BY <1>2, <2>1, <2>2 DEF Rotated, Started
    <3>2. CASE torn
      BY <2>1b, <3>2
    <3>3. CASE ~ torn
      <4>1. inode = fh /\ offset <= Size(inode)
        BY <1>1, <1>2, <2>1, <3>1, <3>3 DEF HandleAtCursor, Inside
      <4>2. Size(inode) \in Nat /\ offset \in Nat
        BY <1>1, <3>1, <4>1, Kinds, Lengths DEF Size
      <4>3. ~ (Size(inode) < offset)
        BY <4>1, <4>2
      <4>4. inode # path
        BY <2>2, <4>3 DEF Rotated
      <4> QED  BY <1>1, <2>1a, <3>1, <4>4, Kinds
    <3> QED  BY <3>2, <3>3
  <2>3. Started'
    BY <1>2, <1>4, <2>1, <2>2 DEF Started
  <2>4. Inside' /\ Fetched'
    BY <1>2, <1>3, <1>4, <2>1 DEF Inside, Size, Fetched
  <2>5. CutShort'
    BY <1>2, <1>3, <2>1, <2>1b DEF CutShort
  <2> QED  BY <2>3, <2>4, <2>5
<1>7. NothingBetween => NothingBetween'
  BY <1>2, <1>3, <1>4 DEF NothingBetween
<1>8. Passed => Passed'
  BY <1>2, <1>3, <1>4 DEF Passed
<1>9. Ahead => Ahead'
  BY <1>2, <1>3, <1>4 DEF Ahead
<1> QED  BY <1>2, <1>3, <1>4, <1>5, <1>6, <1>7, <1>8, <1>9 DEF LogInv

\* What is behind the handle when a drain begins.
LEMMA DrainFacts ==
  ASSUME IInv, LogInv, pc = "drain", Faithful
  PROVE  /\ fh # NoInode /\ inode < seen /\ inode \in Inodes /\ inode = fh
         /\ pos \in Nat /\ offset <= pos /\ pos <= Len(data[inode]) /\ Reached = pos
         /\ Members(Pending) = Unread(data, inode, pos)
         /\ pos + Len(Pending) = Len(data[inode])
         /\ UpTo(data, inode, Len(data[inode]))
              = UpTo(data, inode, pos) \cup Unread(data, inode, pos)
         /\ UpTo(data, inode, pos) \cap Unread(data, inode, pos) = {}
         /\ UpTo(data, inode, offset) \subseteq UpTo(data, inode, pos)
         /\ InHand = {} /\ Covered = {}
<1>1. TypeOK /\ HandleAtCursor /\ Polling /\ InOrder(data, written) /\ Started /\ Inside /\ CutShort
  BY DEF IInv, LogInv
<1>2. /\ fh # NoInode /\ inode < seen /\ inode = fh /\ inode \in Inodes /\ fh \in Inodes
      /\ pos \in Nat /\ offset \in Nat
  BY <1>1, Kinds DEF Started, HandleAtCursor
<1>3. Reached = pos /\ (~ torn => pos = offset)
  BY <1>1, <1>2 DEF Reached, HandleAtCursor
<1>4. offset <= pos
  BY <1>1, <1>2, <1>3 DEF CutShort
<1>5. pos <= Len(data[inode])
  BY <1>1, <1>2 DEF Inside, Size
<1>6. Pending = Rest(inode, pos)
  BY <1>2 DEF Pending
<1>7. /\ Members(Pending) = Unread(data, inode, pos)
      /\ pos + Len(Pending) = Len(data[inode])
  BY <1>1, <1>2, <1>5, <1>6, RestIsUnread DEF Size
<1>8. /\ UpTo(data, inode, Len(data[inode]))
           = UpTo(data, inode, pos) \cup Unread(data, inode, pos)
      /\ UpTo(data, inode, pos) \cap Unread(data, inode, pos) = {}
  BY <1>1, <1>2, <1>5, Kinds, ReadOver, UnreadIsNew
<1>9. UpTo(data, inode, offset) \subseteq UpTo(data, inode, pos)
  BY <1>1, <1>2, <1>4, Kinds, FurtherOn
<1>10. InHand = {} /\ Covered = {}
  BY <1>1 DEF Polling, InHand, Members, Covered
<1> QED  BY <1>2, <1>3, <1>4, <1>5, <1>7, <1>8, <1>9, <1>10

\* The drain takes the cursor over the rest of the old file, to the new one.
LEMMA DrainStep ==
  ASSUME IInv, LogInv, NEW kept, kept \in {Pending, <<>>}, Drained(kept)
  PROVE  LogInv'
<1>1. TypeOK /\ Files /\ Polling
  BY DEF IInv, LogInv
<1>2. /\ UNCHANGED <<fsVars, envObs, savedOffset, savedInode, times, failedSaves, blind>>
      /\ pc = "drain" /\ pc' = "open" /\ fh' = NoInode /\ pos' = 0 /\ offset' = 0 /\ inode' = seen
      /\ seen' = NoInode /\ torn' = FALSE
      /\ got' = kept /\ lost' = lost \cup (Members(Pending) \ Members(kept))
  BY DEF Drained, savVars
<1>3. /\ Files' /\ UNCHANGED <<data, path, files, truncations, late, skipped>>
      /\ InOrder(data', written') = InOrder(data, written)
  BY <1>2, FilesStay
<1>4. /\ Handed' = Handed /\ SavedFile' = SavedFile /\ Faithful' = Faithful
      /\ Reached' = 0 /\ Covered' = {}
  BY <1>1, <1>2, <1>3 DEF Handed, SavedFile, Faithful, Reached, Covered
<1>5. Polling'
  BY <1>1, <1>2, <1>3, Kinds DEF Polling, NoInode
<1>6. SUFFICES ASSUME Faithful
               PROVE  /\ InOrder(data', written') /\ Started' /\ Inside' /\ Fetched' /\ CutShort'
                      /\ late = {} /\ ~ skipped => NothingBetween' /\ Passed'
                      /\ failedSaves = 0 => Ahead'
  BY <1>2, <1>3, <1>4, <1>5 DEF LogInv
<1>7. InOrder(data, written) /\ Started /\ Inside
  BY <1>6 DEF LogInv
<1> DEFINE rest == Unread(data, inode, pos)
<1>8. /\ fh # NoInode /\ inode < seen /\ inode \in Inodes /\ pos \in Nat /\ Reached = pos
      /\ Members(Pending) = rest
      /\ UpTo(data, inode, Len(data[inode])) = UpTo(data, inode, pos) \cup rest
      /\ UpTo(data, inode, pos) \cap rest = {}
      /\ UpTo(data, inode, offset) \subseteq UpTo(data, inode, pos)
      /\ InHand = {} /\ Covered = {}
  BY <1>2, <1>6, DrainFacts
<1> HIDE DEF rest
<1>9. InHand' \subseteq rest /\ rest \subseteq InHand' \cup lost' /\ lost \subseteq lost'
  <2>1. InHand' = Members(kept)
    BY <1>2 DEF InHand, Members
  <2>2. Members(<<>>) = {}
    BY DEF Members
  <2> QED  BY <1>2, <1>8, <2>1, <2>2
<1>11. UpTo(data, inode, Len(data[inode])) \subseteq UpTo(data, seen, 0)
  BY <1>1, <1>8, Kinds, Lengths, FurtherOn
<1>12. Started' /\ CutShort'
  BY <1>1, <1>2, <1>4, <1>7, <1>8, Kinds DEF Started, CutShort, NoInode
<1>13. Inside' /\ Fetched'
  BY <1>2, <1>3, <1>4, <1>7, <1>8, <1>9, <1>11 DEF Inside, Size, Fetched
<1>14. ASSUME late = {}, ~ skipped  PROVE NothingBetween' /\ Passed'
  <2>1. NothingBetween /\ Passed
    BY <1>6, <1>14 DEF LogInv
  <2>2. ASSUME NEW i \in Inodes, i # path, inode < i  PROVE data[i] = <<>>
    BY <1>2, <2>1, <2>2, Kinds, <1>1 DEF NothingBetween, Inodes
  <2>3. NothingBetween'
    <3>0. inode < seen /\ inode \in Nat /\ seen \in Nat
      BY <1>1, <1>8, Kinds
    <3>1. ASSUME NEW i \in Inodes, i >= seen  PROVE inode < i
      BY <3>0, <3>1 DEF Inodes
    <3>2. \A i \in Inodes : i > seen \/ i = seen => i >= seen
      BY <1>1, Kinds DEF Inodes
    <3> QED  BY <1>2, <1>3, <2>2, <3>1, <3>2 DEF NothingBetween
  <2>4. \A i \in Inodes : inode < i /\ i < seen => data[i] = <<>>
    <3> SUFFICES ASSUME NEW i \in Inodes, inode < i, i < seen  PROVE data[i] = <<>>
      OBVIOUS
    <3>0. seen \in Nat /\ files \in Nat /\ seen <= files /\ path \in {NoInode, files}
      BY <1>1, Kinds DEF Files, Polling
    <3>1. i # path
      BY <3>0 DEF Inodes, NoInode
    <3> QED  BY <2>2, <3>1
  <2>5. UpTo(data, seen, 0) \subseteq UpTo(data, inode, Len(data[inode]))
    <3>1. data \in Contents /\ seen \in Nat /\ inode \in Nat
      BY <1>1, Kinds
    <3>2. inode \in Inodes /\ inode <= seen
      BY <1>8, <3>1
    <3> QED  BY <2>4, <3>1, <3>2, OverEmptyFiles
  <2>6. UpTo(data, inode, pos) \subseteq Handed \cup lost
    BY <1>2, <1>8, <2>1 DEF Passed
  <2>7. UpTo(data, seen, 0) \subseteq Handed \cup InHand' \cup lost'
    BY <1>8, <1>9, <2>5, <2>6
  <2>8. Passed'
    BY <1>2, <1>3, <1>4, <1>8, <1>9, <2>1, <2>7 DEF Passed
  <2> QED  BY <2>3, <2>8
<1>15. ASSUME failedSaves = 0  PROVE Ahead'
  <2>1. Ahead
    BY <1>6, <1>15 DEF LogInv
  <2>2. Handed \cap rest = {} /\ Handed \subseteq UpTo(data, seen, 0)
    BY <1>2, <1>8, <1>11, <2>1 DEF Ahead
  <2> QED  BY <1>2, <1>3, <1>4, <1>9, <2>1, <2>2 DEF Ahead
<1> QED  BY <1>3, <1>7, <1>12, <1>13, <1>14, <1>15

\* A drain that is cut short loses what it has read, and leaves the cursor.
LEMMA CutShortStep ==
  ASSUME IInv, LogInv, DrainRaises
  PROVE  LogInv'
<1>1. TypeOK /\ Files /\ Polling
  BY DEF IInv, LogInv
<1>2. /\ UNCHANGED <<fsVars, envObs, fh, offset, inode, got, savedOffset, savedInode, times,
                     failedSaves, blind>>
      /\ pc = "drain" /\ pc' = "idle" /\ pos' = pos + Len(Pending)
      /\ seen' = NoInode /\ torn' = TRUE /\ lost' = lost \cup Members(Pending)
  BY DEF DrainRaises, savVars
<1>3. /\ Files' /\ UNCHANGED <<data, path, files, truncations, late, skipped>>
      /\ InOrder(data', written') = InOrder(data, written)
  BY <1>2, FilesStay
<1>4. /\ Handed' = Handed /\ SavedFile' = SavedFile /\ Faithful' = Faithful
      /\ InHand' = InHand /\ Reached' = pos' /\ Covered' = {}
  BY <1>1, <1>2, <1>3 DEF Handed, SavedFile, Faithful, InHand, Members, Reached, Covered
<1>5. Polling'
  BY <1>1, <1>2, <1>3, Kinds DEF Polling, NoInode
<1>6. SUFFICES ASSUME Faithful
               PROVE  /\ InOrder(data', written') /\ Started' /\ Inside' /\ Fetched' /\ CutShort'
                      /\ late = {} /\ ~ skipped => NothingBetween' /\ Passed'
                      /\ failedSaves = 0 => Ahead'
  BY <1>2, <1>3, <1>4, <1>5 DEF LogInv
<1>7. InOrder(data, written) /\ Started /\ Inside
  BY <1>6 DEF LogInv
<1> DEFINE rest == Unread(data, inode, pos)
<1>8. /\ fh # NoInode /\ inode < seen /\ inode = fh /\ inode \in Inodes
      /\ pos \in Nat /\ offset <= pos /\ Reached = pos /\ pos <= Len(data[inode])
      /\ Members(Pending) = rest /\ pos + Len(Pending) = Len(data[inode])
      /\ UpTo(data, inode, Len(data[inode])) = UpTo(data, inode, pos) \cup rest
      /\ InHand = {} /\ Covered = {}
  BY <1>2, <1>6, DrainFacts
<1> HIDE DEF rest
<1>9. /\ pos' = Len(data[inode]) /\ pos' \in Nat /\ offset <= pos' /\ lost' = lost \cup rest
  <2>1. offset \in Nat /\ Len(data[inode]) \in Nat
    BY <1>1, <1>8, Kinds, Lengths
  <2> QED  BY <1>2, <1>8, <2>1
<1>10a. Started'
  BY <1>2, <1>3, <1>4, <1>7, <1>8 DEF Started
<1>10. Started' /\ Inside'
  <2>1. pos' <= Len(data[fh])
    BY <1>8, <1>9
  <2> QED  BY <1>2, <1>3, <1>4, <1>7, <1>10a, <2>1 DEF Inside, Size
<1>11. CutShort'
  BY <1>1, <1>2, <1>3, <1>8, <1>9, Kinds DEF CutShort, Polling
<1>12. Fetched'
  BY <1>4, <1>8 DEF Fetched
<1>13. ASSUME late = {}, ~ skipped  PROVE NothingBetween' /\ Passed'
  <2>1. NothingBetween /\ Passed
    BY <1>6, <1>13 DEF LogInv
  <2>2. NothingBetween'
    BY <1>2, <1>3, <2>1 DEF NothingBetween
  <2>3. UpTo(data, inode, pos) \subseteq Handed \cup lost
    BY <1>2, <1>8, <2>1 DEF Passed
  <2>4. Passed'
    BY <1>2, <1>3, <1>4, <1>8, <1>9, <2>1, <2>3 DEF Passed
  <2> QED  BY <2>2, <2>4
<1>14. ASSUME failedSaves = 0  PROVE Ahead'
  <2>1. Ahead
    BY <1>6, <1>14 DEF LogInv
  <2> QED  BY <1>2, <1>3, <1>4, <2>1 DEF Ahead
<1> QED  BY <1>3, <1>7, <1>10, <1>11, <1>12, <1>13, <1>14

\* A file that is opened after the drain, or once there is one, is the next
\* that has anything in it.
LEMMA OpenStep ==
  ASSUME IInv, LogInv, PollOpen \/ PollReopen
  PROVE  LogInv'
<1>1. TypeOK /\ Files /\ Polling
  BY DEF IInv, LogInv
<1>2. /\ UNCHANGED <<fsVars, envObs, seen, got, savedOffset, savedInode, times, failedSaves,
                     blind, lost>>
      /\ pc \in {"open", "read"} /\ pc' = "reread" /\ torn' = FALSE
      /\ OpenAt(0, inode) \/ OpenAt(offset, inode)
      /\ pc = "read" => fh = NoInode
  BY DEF PollOpen, PollReopen, OpenAt, savVars
<1>3. /\ Files' /\ UNCHANGED <<data, path, files, truncations, late, skipped>>
      /\ InOrder(data', written') = InOrder(data, written)
  BY <1>2, FilesStay
<1>4. /\ Handed' = Handed /\ SavedFile' = SavedFile /\ Faithful' = Faithful
      /\ InHand' = InHand /\ Reached' = offset' /\ Covered = {} /\ Covered' = {}
  BY <1>1, <1>2, <1>3 DEF Handed, InHand, Members, SavedFile, Faithful, Reached, Covered
<1>5. fh' = path /\ inode' = IF path # NoInode THEN path ELSE inode
  BY <1>2 DEF OpenAt
<1>6. inode' <= files
  <2>1. inode <= files /\ path \in {NoInode, files} /\ files \in Nat
    BY <1>1, Kinds DEF Polling, Files
  <2> QED  BY <1>5, <2>1
<1>7. Polling'
  BY <1>1, <1>2, <1>3, <1>6 DEF Polling
<1>8. SUFFICES ASSUME Faithful
               PROVE  /\ InOrder(data', written') /\ Started' /\ Inside' /\ Fetched' /\ CutShort'
                      /\ late = {} /\ ~ skipped => NothingBetween' /\ Passed'
                      /\ failedSaves = 0 => Ahead'
  BY <1>2, <1>3, <1>4, <1>7 DEF LogInv
<1>9. InOrder(data, written) /\ Started /\ Inside /\ Fetched /\ CutShort
  BY <1>8 DEF LogInv
<1>10. fh = NoInode /\ offset = 0 /\ Reached = 0 /\ inode # NoInode
  BY <1>2, <1>9 DEF Started, CutShort, Reached
<1>11. offset' = 0 /\ pos' = 0
  BY <1>2, <1>10 DEF OpenAt
<1>12. inode \in Inodes /\ inode' \in Inodes /\ inode' \in Nat /\ inode <= inode'
  <2>1. inode \in Inodes /\ inode \in Nat /\ inode <= files /\ files \in Inodes /\ files \in Nat
    BY <1>1, <1>10, Kinds DEF Polling
  <2>2. path \in {NoInode, files}
    BY <1>1 DEF Files
  <2> QED  BY <1>5, <2>1, <2>2
<1>13. Started' /\ CutShort'
  BY <1>1, <1>2, <1>4, <1>9, <1>11, <1>12, Kinds DEF Started, CutShort, Inodes, NoInode
<1>14. Inside'
  <2>1. fh' # NoInode => Len(data[fh']) \in Nat
    BY <1>1, <1>5, Kinds, Lengths
  <2> QED  BY <1>2, <1>3, <1>4, <1>9, <1>11, <2>1 DEF Inside, Size
<1>15. UpTo(data, inode, 0) \subseteq UpTo(data, inode', 0)
  BY <1>1, <1>12, Kinds, FurtherOn
<1>16. Fetched'
  BY <1>2, <1>3, <1>4, <1>9, <1>10, <1>11, <1>15 DEF Fetched
<1>17. ASSUME late = {}, ~ skipped  PROVE NothingBetween' /\ Passed'
  <2>1. NothingBetween /\ Passed
    BY <1>8, <1>17 DEF LogInv
  <2>2. ASSUME NEW i \in Inodes, i # path, inode <= i  PROVE data[i] = <<>>
    <3>1. i > inode \/ i = inode
      BY <1>1, <2>2, Kinds DEF Inodes
    <3> QED  BY <1>2, <1>10, <2>1, <2>2, <3>1 DEF NothingBetween
  <2>3. NothingBetween'
    <3>1. ASSUME NEW i \in Inodes, i > inode' \/ i = inode'  PROVE inode <= i
      BY <1>12, <3>1, <1>1, Kinds DEF Inodes
    <3> QED  BY <1>2, <1>3, <2>2, <3>1 DEF NothingBetween
  <2>4. UpTo(data, inode', 0) \subseteq UpTo(data, inode, 0)
    <3>1. CASE inode' = inode
      BY <3>1
    <3>2. CASE inode' # inode
      <4>1. path = inode' /\ inode < path
        BY <1>1, <1>5, <1>12, <3>2, Kinds
      <4>2. data[inode] = <<>> /\ Len(data[inode]) = 0
        BY <1>1, <1>12, <2>2, <4>1, Kinds
      <4>3. \A i \in Inodes : inode < i /\ i < path => data[i] = <<>>
        <5> SUFFICES ASSUME NEW i \in Inodes, inode < i, i < path  PROVE data[i] = <<>>
          OBVIOUS
        <5>1. i # path /\ inode <= i
          BY <1>1, Kinds DEF Inodes
        <5> QED  BY <2>2, <5>1
      <4>4. UpTo(data, path, 0) \subseteq UpTo(data, inode, Len(data[inode]))
        BY <1>1, <1>12, <4>1, <4>3, Kinds, OverEmptyFiles
      <4> QED  BY <4>1, <4>2, <4>4
    <3> QED  BY <3>1, <3>2
  <2>5. UpTo(data, inode', 0) \subseteq Handed \cup InHand \cup lost
    BY <1>2, <1>10, <2>1, <2>4 DEF Passed
  <2>6. Passed'
    BY <1>2, <1>3, <1>4, <1>11, <2>1, <2>5 DEF Passed
  <2> QED  BY <2>3, <2>6
<1>18. ASSUME failedSaves = 0  PROVE Ahead'
  <2>1. Ahead
    BY <1>8, <1>18 DEF LogInv
  <2>2. Handed \subseteq UpTo(data, inode', 0)
    BY <1>2, <1>10, <1>15, <2>1 DEF Ahead
  <2> QED  BY <1>2, <1>3, <1>4, <1>11, <2>1, <2>2 DEF Ahead
<1> QED  BY <1>3, <1>9, <1>13, <1>14, <1>16, <1>17, <1>18

LEMMA MembersOfConcat ==
  ASSUME NEW s \in Seq(Writes), NEW r \in Seq(Writes)
  PROVE  Members(s \o r) = Members(s) \cup Members(r)
<1> DEFINE u == s \o r
<1>1. /\ Len(u) = Len(s) + Len(r) /\ DOMAIN u = 1..Len(u)
      /\ DOMAIN s = 1..Len(s) /\ DOMAIN r = 1..Len(r)
      /\ Len(s) \in Nat /\ Len(r) \in Nat
      /\ \A k \in 1..Len(s) : u[k] = s[k]
      /\ \A k \in 1..Len(r) : u[Len(s) + k] = r[k]
  BY ConcatProperties
<1> HIDE DEF u
<1>2. ASSUME NEW k \in DOMAIN u  PROVE u[k] \in Members(s) \cup Members(r)
  <2>1. CASE k <= Len(s)
    <3>1. k \in DOMAIN s /\ u[k] = s[k]
      BY <1>1, <2>1
    <3> QED  BY <3>1 DEF Members
  <2>2. CASE ~ (k <= Len(s))
    <3>1. k - Len(s) \in 1..Len(r) /\ Len(s) + (k - Len(s)) = k
      BY <1>1, <2>2
    <3>2. u[k] = r[k - Len(s)]
      BY <1>1, <3>1
    <3> QED  BY <1>1, <3>1, <3>2 DEF Members
  <2> QED  BY <2>1, <2>2
<1>3. ASSUME NEW k \in DOMAIN s  PROVE s[k] \in Members(u)
  <2>1. k \in DOMAIN u /\ u[k] = s[k]
    BY <1>1
  <2> QED  BY <2>1 DEF Members
<1>4. ASSUME NEW k \in DOMAIN r  PROVE r[k] \in Members(u)
  <2>1. Len(s) + k \in DOMAIN u /\ u[Len(s) + k] = r[k]
    BY <1>1
  <2> QED  BY <2>1 DEF Members
<1>5. Members(u) \subseteq Members(s) \cup Members(r)
  BY <1>2 DEF Members
<1>6. Members(s) \cup Members(r) \subseteq Members(u)
  <2>1. Members(s) \subseteq Members(u)
    BY <1>3 DEF Members
  <2>2. Members(r) \subseteq Members(u)
    BY <1>4 DEF Members
  <2> QED  BY <2>1, <2>2
<1> QED  BY <1>5, <1>6 DEF u

\* A read takes the cursor to the end of the file, whether what it returns goes on
\* or is lost.
LEMMA ReadStep ==
  ASSUME IInv, LogInv, PollRead \/ ReadRaises
  PROVE  LogInv'
<1>1. TypeOK /\ Files /\ Polling /\ HandleAtCursor
  BY DEF IInv, LogInv
<1>2. /\ UNCHANGED <<fsVars, envObs, fh, inode, seen, savedOffset, savedInode, times,
                     failedSaves, blind, torn>>
      /\ pc \in {"read", "reread"} /\ pc' \in {"idle", "save"} /\ (pc' = "idle" => got' = <<>>)
      /\ pos' = pos + Len(Pending) /\ offset' = offset + Len(Pending)
      /\ \/ got' = got \o Pending /\ lost' = lost
         \/ got' = <<>> /\ lost' = lost \cup InHand \cup Members(Pending)
  BY DEF PollRead, ReadRaises, Reading, savVars, obsVars, readObs, InHand
<1>3. /\ Files' /\ UNCHANGED <<data, path, files, truncations, late, skipped>>
      /\ InOrder(data', written') = InOrder(data, written)
  BY <1>2, FilesStay
<1>4. /\ Handed' = Handed /\ SavedFile' = SavedFile /\ Faithful' = Faithful
      /\ Covered = {} /\ Covered' = {}
  BY <1>1, <1>2, <1>3 DEF Handed, SavedFile, Faithful, Covered
<1>5. Polling'
  BY <1>1, <1>2, <1>3 DEF Polling
<1>6. SUFFICES ASSUME Faithful
               PROVE  /\ InOrder(data', written') /\ Started' /\ Inside' /\ Fetched' /\ CutShort'
                      /\ late = {} /\ ~ skipped => NothingBetween' /\ Passed'
                      /\ failedSaves = 0 => Ahead'
  BY <1>2, <1>3, <1>4, <1>5 DEF LogInv
<1>7. InOrder(data, written) /\ Started /\ Inside /\ Fetched /\ CutShort
  BY <1>6 DEF LogInv
<1>7a. ~ torn /\ Reached = offset /\ Reached' = offset'
  BY <1>2, <1>7 DEF CutShort, Reached
<1> DEFINE rest == IF fh # NoInode THEN Unread(data, inode, offset) ELSE {}
<1>8. /\ Members(Pending) = rest
      /\ UpTo(data, inode, offset') = UpTo(data, inode, offset) \cup rest
      /\ UpTo(data, inode, offset) \cap rest = {}
      /\ fh # NoInode => pos' <= Len(data[fh])
      /\ fh = NoInode => offset' = offset
  <2>1. CASE fh # NoInode
    <3>1. /\ rest = Unread(data, inode, offset) /\ fh = inode /\ pos = offset
          /\ inode \in Inodes /\ pos \in Nat /\ pos <= Len(data[inode])
      BY <1>1, <1>2, <1>7, <1>7a, <2>1, Kinds DEF HandleAtCursor, Inside, Size
    <3>2. Members(Pending) = rest /\ pos + Len(Pending) = Len(data[inode])
      BY <1>1, <2>1, <3>1, RestIsUnread DEF Size, Pending
    <3>3. offset' = Len(data[inode]) /\ pos' = Len(data[inode]) /\ Len(data[inode]) \in Nat
      BY <1>1, <1>2, <3>1, <3>2, Kinds, Lengths
    <3>4. /\ UpTo(data, inode, Len(data[inode])) = UpTo(data, inode, offset) \cup rest
          /\ UpTo(data, inode, offset) \cap rest = {}
      BY <1>1, <1>7, <3>1, Kinds, ReadOver, UnreadIsNew
    <3> HIDE DEF rest
    <3> QED  BY <2>1, <3>1, <3>2, <3>3, <3>4
  <2>2. CASE fh = NoInode
    <3>1. Pending = <<>> /\ rest = {} /\ Len(Pending) = 0 /\ Members(Pending) = {}
      BY <2>2 DEF Pending, Members
    <3>2. offset' = offset
      BY <1>1, <1>2, <3>1, Kinds
    <3> HIDE DEF rest
    <3> QED  BY <2>2, <3>1, <3>2
  <2> QED  BY <2>1, <2>2
<1> HIDE DEF rest
<1>8a. InHand' \subseteq InHand \cup rest /\ InHand \cup rest \subseteq InHand' \cup lost'
       /\ lost \subseteq lost'
  <2>1. CASE got' = got \o Pending /\ lost' = lost
    <3>1. got \in Seq(Writes) /\ Pending \in Seq(Writes)
      BY <1>1, PendingType DEF TypeOK
    <3>2. Members(got \o Pending) = Members(got) \cup Members(Pending)
      BY <3>1, MembersOfConcat
    <3>2a. InHand' = Members(got \o Pending) /\ InHand = Members(got)
      BY <2>1 DEF InHand, Members
    <3> QED  BY <1>8, <2>1, <3>2, <3>2a
  <2>2. CASE got' = <<>> /\ lost' = lost \cup InHand \cup Members(Pending)
    <3>1. InHand' = {}
      BY <2>2 DEF InHand, Members
    <3> QED  BY <1>8, <2>2, <3>1
  <2> QED  BY <1>2, <2>1, <2>2
<1>9. Started' /\ Inside' /\ Fetched' /\ CutShort'
  <2>1. Started'
    BY <1>2, <1>4, <1>7, <1>8 DEF Started
  <2>2. Inside'
    BY <1>2, <1>3, <1>4, <1>7, <1>8 DEF Inside, Size
  <2>3. Fetched'
    BY <1>2, <1>3, <1>7, <1>8, <1>8a DEF Fetched
  <2>4. CutShort'
    BY <1>2, <1>7a DEF CutShort
  <2> QED  BY <2>1, <2>2, <2>3, <2>4
<1>10. ASSUME late = {}, ~ skipped  PROVE NothingBetween' /\ Passed'
  <2>1. NothingBetween /\ Passed
    BY <1>6, <1>10 DEF LogInv
  <2>2. NothingBetween'
    BY <1>2, <1>3, <2>1 DEF NothingBetween
  <2>3. UpTo(data, inode, offset') \subseteq Handed \cup InHand' \cup lost'
    BY <1>2, <1>7a, <1>8, <1>8a, <2>1 DEF Passed
  <2>4. Passed'
    BY <1>2, <1>3, <1>4, <1>7a, <1>8a, <2>1, <2>3 DEF Passed
  <2> QED  BY <2>2, <2>4
<1>11. ASSUME failedSaves = 0  PROVE Ahead'
  <2>1. Ahead
    BY <1>6, <1>11 DEF LogInv
  <2>2. Handed \cap rest = {} /\ Handed \subseteq UpTo(data, inode, offset')
    BY <1>2, <1>8, <2>1 DEF Ahead
  <2> QED  BY <1>2, <1>3, <1>4, <1>8a, <2>1, <2>2 DEF Ahead
<1> QED  BY <1>3, <1>7, <1>9, <1>10, <1>11

\* A read that fails, and a save that fails or not, leave cursor and entries.
LEMMA SaveStep ==
  ASSUME IInv, LogInv, ReadFails \/ Save \/ SaveFails
  PROVE  LogInv'
<1>1. TypeOK /\ Files /\ Polling
  BY DEF IInv, LogInv
<1>2. /\ UNCHANGED <<fsVars, envObs, fh, pos, offset, inode, seen, got, times, lost, torn, blind>>
      /\ pc \in {"read", "reread", "save"} /\ pc' \in {"idle", "save", "dispatch"}
      /\ pc' = "idle" => got' = <<>>
      /\ \/ /\ pc' # "dispatch" /\ savedOffset' = savedOffset /\ savedInode' = savedInode
            /\ failedSaves' = failedSaves
         \/ /\ pc = "save" /\ savedOffset' = offset /\ savedInode' = inode
            /\ failedSaves' = failedSaves
         \/ /\ savedOffset' = savedOffset /\ savedInode' = savedInode
            /\ failedSaves' = failedSaves + 1
  BY DEF ReadFails, Reading, Save, SaveFails, connVars, savVars, obsVars, readObs
<1>3. /\ Files' /\ UNCHANGED <<data, path, files, truncations, late, skipped>>
      /\ InOrder(data', written') = InOrder(data, written)
  BY <1>2, FilesStay
<1>4. /\ Handed' = Handed /\ InHand' = InHand /\ Faithful' = Faithful /\ Reached' = Reached
      /\ Covered = {}
  BY <1>2, <1>3 DEF Handed, InHand, Members, Faithful, Reached, Covered
<1>5. Polling'
  BY <1>1, <1>2, <1>3 DEF Polling
<1>6. SUFFICES ASSUME Faithful
               PROVE  /\ InOrder(data', written') /\ Started' /\ Inside' /\ Fetched' /\ CutShort'
                      /\ late = {} /\ ~ skipped => NothingBetween' /\ Passed'
                      /\ failedSaves' = 0 => Ahead'
  BY <1>2, <1>3, <1>4, <1>5 DEF LogInv
<1>7. InOrder(data, written) /\ Started /\ Inside /\ Fetched /\ CutShort
  BY <1>6 DEF LogInv
<1>8. ~ torn /\ Reached = offset
  BY <1>2, <1>7 DEF CutShort, Reached
<1>9. \/ /\ pc = "save" /\ SavedFile' = inode /\ savedOffset' = offset
         /\ savedInode' = inode /\ failedSaves' = failedSaves
      \/ SavedFile' = SavedFile /\ savedOffset' = savedOffset
  BY <1>2, <1>7 DEF SavedFile, Started
<1>10. Started' /\ CutShort' /\ Fetched'
  <2>1. inode <= inode
    BY <1>1, Kinds
  <2>2. Started'
    BY <1>2, <1>7, <1>9, <2>1 DEF Started
  <2>3. CutShort' /\ Fetched'
    BY <1>2, <1>3, <1>4, <1>7, <1>8 DEF CutShort, Fetched
  <2> QED  BY <2>2, <2>3
<1>11. Inside'
  <2>1. offset <= Len(data[inode])
    <3>1. CASE fh # NoInode
      <4>1. HandleAtCursor /\ pc # "down"
        BY <1>2 DEF IInv
      <4>2. inode = fh /\ pos = offset
        BY <1>8, <3>1, <4>1 DEF HandleAtCursor
      <4>3. pos <= Len(data[fh])
        BY <1>7, <3>1, <4>1 DEF Inside, Size
      <4> QED  BY <4>2, <4>3
    <3>2. CASE fh = NoInode
      <4>1. offset = 0 /\ inode \in Inodes
        BY <1>1, <1>2, <1>7, <3>2, Kinds DEF Started
      <4> QED  BY <1>1, <4>1, Kinds, Lengths
    <3> QED  BY <3>1, <3>2
  <2> QED  BY <1>2, <1>3, <1>7, <1>9, <2>1 DEF Inside, Size
<1>12. ASSUME late = {}, ~ skipped  PROVE NothingBetween' /\ Passed'
  <2>1. NothingBetween /\ Passed
    BY <1>6, <1>12 DEF LogInv
  <2>2. NothingBetween'
    BY <1>2, <1>3, <2>1 DEF NothingBetween
  <2>3. UpTo(data, inode, offset) \subseteq Handed \cup InHand \cup lost
    BY <1>2, <1>8, <2>1 DEF Passed
  <2>4. UpTo(data, SavedFile', savedOffset') \subseteq Handed \cup lost \cup Covered'
    <3>1. CASE SavedFile' = SavedFile /\ savedOffset' = savedOffset
      BY <1>4, <2>1, <3>1 DEF Passed
    <3>2. CASE pc = "save" /\ SavedFile' = inode /\ savedOffset' = offset /\ savedInode' = inode
      <4>1. pc' = "dispatch"
        BY <3>2 DEF ReadFails, Reading, Save, SaveFails
      <4>2. Covered' = InHand
        BY <1>2, <1>4, <3>2, <4>1 DEF Covered
      <4> QED  BY <2>3, <3>2, <4>2
    <3> QED  BY <1>9, <3>1, <3>2
  <2>5. Passed'
    BY <1>2, <1>3, <1>4, <1>8, <2>1, <2>3, <2>4 DEF Passed
  <2> QED  BY <2>2, <2>5
<1>13. ASSUME failedSaves' = 0  PROVE Ahead'
  <2>1. failedSaves = 0
    BY <1>1, <1>2, <1>13, Kinds
  <2>2. Ahead
    BY <1>6, <2>1 DEF LogInv
  <2>3. Handed \subseteq UpTo(data, inode, offset)
    BY <1>2, <2>2 DEF Ahead
  <2>4. Handed \subseteq UpTo(data, SavedFile', savedOffset')
    BY <1>9, <2>2, <2>3 DEF Ahead
  <2>5. pc' = "dispatch" => savedOffset' = offset /\ SavedFile' = inode
    <3>1. failedSaves' # failedSaves + 1
      BY <1>13, <2>1
    <3> QED  BY <1>2, <1>7, <3>1 DEF SavedFile, Started
  <2> QED  BY <1>2, <1>3, <1>4, <2>2, <2>3, <2>4, <2>5 DEF Ahead
<1> QED  BY <1>3, <1>7, <1>10, <1>11, <1>12, <1>13

\* What is in hand is handed on.
LEMMA HandOnStep ==
  ASSUME IInv, LogInv, HandOn
  PROVE  LogInv'
<1>1. TypeOK /\ Files /\ Polling
  BY DEF IInv, LogInv
<1>2. /\ UNCHANGED <<fsVars, envObs, fh, pos, offset, inode, seen, savedOffset, savedInode,
                     failedSaves, lost, torn, blind>>
      /\ pc = "dispatch" /\ pc' = "idle" /\ got' = <<>>
  BY DEF HandOn, savVars, obsVars, readObs
<1>3. /\ Files' /\ UNCHANGED <<data, path, files, truncations, late, skipped>>
      /\ InOrder(data', written') = InOrder(data, written)
  BY <1>2, FilesStay
<1>4. /\ Faithful' = Faithful /\ SavedFile' = SavedFile /\ InHand' = {} /\ Covered' = {}
      /\ Covered \subseteq InHand /\ Reached' = Reached /\ InHand \subseteq Writes
  <2>1. got \in Seq(Writes)
    BY <1>1 DEF TypeOK
  <2> QED  BY <1>2, <1>3, <2>1, MembersType DEF Faithful, InHand, Members, SavedFile, Covered, Reached
<1>5. \A w \in Writes : /\ times[w] \in Nat
                        /\ times'[w] = IF w \in InHand THEN times[w] + 1 ELSE times[w]
  <2>1. times' = [w \in Writes |-> IF w \in InHand THEN times[w] + 1 ELSE times[w]]
    BY DEF HandOn, InHand
  <2>2. \A w \in Writes : times[w] \in Nat
    BY <1>1 DEF TypeOK
  <2> QED  BY <2>1, <2>2
<1>6. Handed' = Handed \cup InHand
  <2>1. ASSUME NEW w \in Writes  PROVE times'[w] > 0 <=> times[w] > 0 \/ w \in InHand
    BY <1>5
  <2> QED  BY <1>4, <2>1 DEF Handed
<1>7. Polling'
  BY <1>1, <1>2, <1>3 DEF Polling
<1>8. SUFFICES ASSUME Faithful
               PROVE  /\ InOrder(data', written') /\ Started' /\ Inside' /\ Fetched' /\ CutShort'
                      /\ late = {} /\ ~ skipped => NothingBetween' /\ Passed'
                      /\ failedSaves = 0 => Ahead'
  BY <1>2, <1>3, <1>4, <1>7 DEF LogInv
<1>9. InOrder(data, written) /\ Started /\ Inside /\ Fetched /\ CutShort
  BY <1>8 DEF LogInv
<1>10. ~ torn /\ Reached = offset
  BY <1>2, <1>9 DEF CutShort, Reached
<1>11. Started' /\ CutShort'
  BY <1>2, <1>4, <1>9, <1>10 DEF Started, CutShort
<1>12. Inside' /\ Fetched'
  BY <1>2, <1>3, <1>4, <1>9 DEF Inside, Size, Fetched
<1>13. InHand \subseteq UpTo(data, inode, offset)
  BY <1>2, <1>9 DEF Fetched
<1>14. ASSUME late = {}, ~ skipped  PROVE NothingBetween' /\ Passed'
  <2>1. NothingBetween /\ Passed
    BY <1>8, <1>14 DEF LogInv
  <2>2. NothingBetween'
    BY <1>2, <1>3, <2>1 DEF NothingBetween
  <2>3. UpTo(data, inode, offset) \subseteq Handed \cup InHand \cup lost
    BY <1>2, <1>10, <2>1 DEF Passed
  <2>4. ASSUME NEW v \in Writes, NEW w \in Writes, v < w, w \in Handed'
        PROVE  v \in Handed' \cup lost
    <3>1. CASE w \in Handed
      BY <1>6, <2>1, <2>4, <3>1 DEF Passed
    <3>2. CASE w \in InHand
      <4>1. v \in UpTo(data, inode, offset)
        BY <1>1, <1>9, <1>13, <2>4, <3>2, Kinds, EarlierIsBehind
      <4> QED  BY <1>6, <2>3, <4>1
    <3> QED  BY <1>6, <2>4, <3>1, <3>2
  <2>5. UpTo(data, SavedFile, savedOffset) \subseteq Handed' \cup lost
    BY <1>4, <1>6, <2>1 DEF Passed
  <2>6. Passed'
    BY <1>2, <1>3, <1>4, <1>6, <1>10, <2>3, <2>4, <2>5 DEF Passed
  <2> QED  BY <2>2, <2>6
<1>15. ASSUME failedSaves = 0  PROVE Ahead'
  <2>1. Ahead
    BY <1>8, <1>15 DEF LogInv
  <2>2. savedOffset = offset /\ SavedFile = inode
    BY <1>2, <2>1 DEF Ahead
  <2>3. Handed' \subseteq UpTo(data, inode, offset)
    BY <1>2, <1>6, <1>13, <2>1 DEF Ahead
  <2>4. ASSUME NEW w \in Writes  PROVE times'[w] <= 1
    <3>1. w \in InHand => ~ (times[w] > 0)
      BY <2>1 DEF Ahead, Handed
    <3>2. times[w] <= 1
      BY <2>1 DEF Ahead
    <3> QED  BY <1>5, <3>1, <3>2
  <2> QED  BY <1>2, <1>3, <1>4, <2>2, <2>3, <2>4 DEF Ahead
<1> QED  BY <1>3, <1>9, <1>11, <1>12, <1>14, <1>15

-----------------------------------------------------------------------------
(* What is handed on, and how often. *)

LEMMA LogInit == Init => LogInv
<1> SUFFICES ASSUME Init  PROVE LogInv
  OBVIOUS
<1>1. 1 \in Inodes
  BY FileAssumption DEF Inodes
<1>2. \A i \in Inodes : data[i] = <<>> /\ Len(data[i]) = 0
  BY DEF Init
<1>3. Files /\ Polling
  BY <1>2 DEF Init, Files, Polling, NoInode
<1>4. \A c, p : UpTo(data, c, p) = {}
  BY <1>2 DEF UpTo
<1>5. Handed = {} /\ InHand = {} /\ SavedFile = 1
  BY DEF Init, Handed, InHand, Members, SavedFile
<1>6. InOrder(data, written)
  BY <1>2 DEF Init, InOrder
<1>7. Started /\ Fetched /\ NothingBetween /\ CutShort
  BY DEF Init, Started, Fetched, NothingBetween, CutShort
<1>8. Inside
  BY <1>1, <1>2, <1>5 DEF Init, Inside, Size
<1>9. Passed
  BY <1>4, <1>5 DEF Init, Passed
<1>10. Ahead
  BY <1>5 DEF Init, Ahead
<1> QED  BY <1>3, <1>6, <1>7, <1>8, <1>9, <1>10 DEF LogInv

LEMMA LogStep == IInv /\ LogInv /\ [Next]_vars => LogInv'
<1> SUFFICES ASSUME IInv, LogInv, [Next]_vars  PROVE LogInv'
  OBVIOUS
<1>1. CASE Environment
  BY <1>1, WriteStep, RotationStep DEF Environment
<1>2. CASE Connect \/ Poll \/ Failure
  <2>1. CASE PollDrain \/ DrainFails
    BY <2>1, DrainStep DEF PollDrain, DrainFails
  <2> QED  BY <1>2, <2>1, ConnectStep, StatStep, CutShortStep, OpenStep, ReadStep, SaveStep,
              HandOnStep, StopStep DEF Poll, Failure
<1>3. CASE UNCHANGED vars
  <2>1. UNCHANGED <<data, path, writer, written, files, truncations, fh, pos, offset, inode, seen,
                    got, savedOffset, savedInode, pc, times, failedSaves, late, skipped, lost, torn, blind>>
    BY <1>3 DEF vars, fsVars, connVars, savVars, obsVars, envObs, readObs
  <2>2. /\ SavedFile' = SavedFile /\ Handed' = Handed /\ InHand' = InHand /\ Faithful' = Faithful
        /\ InOrder(data', written') = InOrder(data, written)
        /\ Reached' = Reached /\ Covered' = Covered
    BY <2>1 DEF SavedFile, Handed, InHand, Members, Faithful, Reached, Covered
  <2>3. Files' = Files /\ Polling' = Polling
    BY <2>1 DEF Files, Polling
  <2>4. Started' = Started /\ Inside' = Inside /\ Fetched' = Fetched /\ CutShort' = CutShort
    BY <2>1, <2>2 DEF Started, Inside, Fetched, CutShort, Size
  <2>5. NothingBetween' = NothingBetween /\ Passed' = Passed /\ Ahead' = Ahead
    BY <2>1, <2>2 DEF NothingBetween, Passed, Ahead
  <2> QED  BY <2>1, <2>2, <2>3, <2>4, <2>5 DEF LogInv
<1> QED  BY <1>1, <1>2, <1>3 DEF Next

LEMMA LogInvariance == Spec => []LogInv
<1>1. Init /\ []IInv /\ [][Next]_vars => []LogInv
  BY LogInit, LogStep, PTL
<1> QED  BY <1>1, Invariant, PTL DEF Spec

\* The offset that flush_state saves is where the handle stands in the file
\* whose inode is saved with it, whatever is renamed, created or truncated
\* between the steps of a poll.  A drain that a line ends moves the handle
\* alone; the rotation is then found again before anything is saved.
THEOREM CursorFollowsHandle == Spec => []CursorIsHandle
<1>1. IInv /\ LogInv => CursorIsHandle
  BY DEF IInv, LogInv, Faithful, HandleAtCursor, CutShort, CursorIsHandle
<1> QED  BY <1>1, Invariant, LogInvariance, PTL

\* A write that is handed on has every earlier one handed on before it, but for
\* those the code itself drops: a batch that a stop catches between the save of
\* its cursor and its dispatch, the tail of a file whose drain fails, what a poll
\* has read when a line cannot be parsed.  For any number of files, renames,
\* restarts, failed saves and failed polls.
THEOREM NothingLeftOut == Spec => []NoGap
<1>1. LogInv => NoGap
  BY DEF LogInv, Faithful, Passed, Handed, NoGap
<1> QED  BY <1>1, LogInvariance, PTL

\* No write is handed on twice while every cursor is saved, whatever is renamed
\* and however often the process restarts.
THEOREM NothingReadTwice == Spec => []NoReRead
<1>1. LogInv => NoReRead
  BY DEF LogInv, Faithful, Ahead, NoReRead
<1> QED  BY <1>1, LogInvariance, PTL
=============================================================================
