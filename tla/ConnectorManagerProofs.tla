----------------------- MODULE ConnectorManagerProofs -----------------------
(***************************************************************************)
(* Proofs about ConnectorManager: tasks and slots stay paired, one         *)
(* connector reads a source, and the limit of a tenant is exceeded by no   *)
(* more than what is in flight, for any number of sources, tenants,        *)
(* requests and connectors.                                                *)
(***************************************************************************)
EXTENDS ConnectorManager, FiniteSetTheorems, TLAPS

-----------------------------------------------------------------------------
(* The inductive invariant. *)

\* The source a caller is suspended for.
SourceOf(c) == source[call[c].loop]

\* What a suspended caller relies on; no two callers connect one connector.
CallsOK ==
  /\ \A c \in Callers :
       /\ call[c].op = "idle" => call[c] = Idle
       /\ call[c].op # "idle" => call[c].loop \in Loops
       /\ call[c].op = "adding" => task[call[c].loop] = "connecting"
       /\ call[c].op = "stopping" => task[call[c].loop] \in {"cancelled", "ended"}
  /\ \A c, d \in Callers :
       call[c].op = "adding" /\ call[d].op = "adding" /\ c # d => call[c].loop # call[d].loop

\* A slot names a connector of its own source that was started.
SlotsOK ==
  \A s \in Sources : slots[s] # NoLoop =>
    source[slots[s]] = s /\ task[slots[s]] \in {"looping", "polling", "cancelled", "ended"}

\* What the lifespan has reached.
PhaseOK ==
  /\ phase = "down" => /\ \A s \in Sources : slots[s] = NoLoop
                       /\ \A l \in Loops : task[l] = "none"
                       /\ call[Lifespan] = Idle
  /\ phase \in {"down", "starting"} => /\ \A c \in Requests : call[c] = Idle
                                       /\ overlapped = {}
  /\ phase = "starting" => /\ \A s \in Sources : slots[s] # NoLoop => s \in loaded \ pending
                           /\ call[Lifespan].op # "stopping"
                           /\ call[Lifespan].op = "adding" => SourceOf(Lifespan) \in loaded \ pending
                           /\ pending \subseteq loaded
  /\ phase \in {"serving", "stopped"} => call[Lifespan] = Idle
  /\ phase = "stopping" =>
       /\ call[Lifespan].op # "adding"
       /\ \A l \in pending :
            /\ l \in Loops /\ task[l] \in {"looping", "polling", "cancelled", "ended"}
            /\ source[l] \notin overlapped => slots[source[l]] = l

\* A source for which only one call is in flight has no slot while that call
\* connects it.
Alone ==
  \A c \in Callers :
    call[c].op = "adding" /\ SourceOf(c) \notin overlapped =>
      /\ slots[SourceOf(c)] = NoLoop
      /\ \A d \in Callers : d # c /\ call[d].op # "idle" => SourceOf(d) # SourceOf(c)

\* The connectors of a tenant that are registered, and those that may become so.
Claimed(t) == Cardinality(Registered(t)) + Cardinality(Adding(t))

Limited ==
  phase \notin {"down", "starting"} => \A t \in Tenants :
    \/ Claimed(t) <= Cardinality({s \in loaded : TenantOf[s] = t})
    \/ Claimed(t) < MaxSources + crowd[t]

IInv == TypeOK /\ CallsOK /\ SlotsOK /\ PhaseOK /\ Alone /\ NoOrphans /\ SlotIsPolled /\ Limited

-----------------------------------------------------------------------------
(* The two helpers, connector by connector. *)

\* Caller c begins to connect a new connector l for source s.
Connecting(c, s, l) ==
  /\ l \in Loops /\ task[l] = "none"
  /\ \A k \in Loops : source'[k] = IF k = l THEN s ELSE source[k]
  /\ \A k \in Loops : task'[k] = IF k = l THEN "connecting" ELSE task[k]
  /\ \A d \in Callers : call'[d] = IF d = c THEN [op |-> "adding", loop |-> l] ELSE call[d]
  /\ overlapped' = IF Busy(s) = {} THEN overlapped ELSE overlapped \cup {s}

\* Caller c begins to stop connector l.
Stopping(c, l) ==
  /\ \A k \in Loops : task'[k] = IF k = l /\ Alive(k) THEN "cancelled" ELSE task[k]
  /\ \A d \in Callers : call'[d] = IF d = c THEN [op |-> "stopping", loop |-> l] ELSE call[d]

CallRecords == [op : {"idle", "adding", "stopping"}, loop : Loops \cup {NoLoop}]
TaskStates  == {"none", "connecting", "looping", "polling", "cancelled", "ended"}

LEMMA Typed ==
  ASSUME TypeOK
  PROVE  /\ slots \in [Sources -> Loops \cup {NoLoop}]
         /\ source \in [Loops -> Sources]
         /\ task \in [Loops -> TaskStates]
         /\ call \in [Callers -> CallRecords]
         /\ Idle \in CallRecords
         /\ NoLoop \notin Loops
         /\ Lifespan \in Callers /\ Requests \subseteq Callers /\ Lifespan \notin Requests
         /\ \A c \in Callers : c # Lifespan => c \in Requests
BY ManagerAssumption DEF TypeOK, CallRecords, TaskStates, Idle, NoLoop, Loops, Callers

LEMMA ConnectFacts ==
  ASSUME TypeOK, NEW c \in Callers, NEW s \in Sources, BeginConnect(c, s)
  PROVE  /\ \E l \in Loops : Connecting(c, s, l)
         /\ source' \in [Loops -> Sources]
         /\ task' \in [Loops -> TaskStates]
         /\ call' \in [Callers -> CallRecords]
         /\ overlapped' \subseteq overlapped \cup {s}
<1>1. PICK l \in Loops :
        /\ task[l] = "none"
        /\ source' = [source EXCEPT ![l] = s]
        /\ task' = [task EXCEPT ![l] = "connecting"]
        /\ call' = [call EXCEPT ![c] = [op |-> "adding", loop |-> l]]
        /\ NoteOverlap(s)
  BY DEF BeginConnect
<1>2. Connecting(c, s, l)
  BY <1>1, Typed DEF Connecting, NoteOverlap
<1>3. [op |-> "adding", loop |-> l] \in CallRecords
  BY DEF CallRecords
<1>4. call' \in [Callers -> CallRecords]
  BY <1>1, <1>3, Typed
<1>5. task' \in [Loops -> TaskStates]
  BY <1>1, Typed DEF TaskStates
<1>6. source' \in [Loops -> Sources] /\ overlapped' \subseteq overlapped \cup {s}
  BY <1>1, Typed DEF NoteOverlap
<1> QED  BY <1>2, <1>4, <1>5, <1>6

LEMMA StopFacts ==
  ASSUME TypeOK, NEW c \in Callers, NEW l \in Loops, BeginStop(c, l)
  PROVE  /\ Stopping(c, l)
         /\ task' \in [Loops -> TaskStates]
         /\ call' \in [Callers -> CallRecords]
<1>1. [op |-> "stopping", loop |-> l] \in CallRecords
  BY DEF CallRecords
<1>2. call' \in [Callers -> CallRecords]
  BY <1>1, Typed DEF BeginStop
<1>3. task' \in [Loops -> TaskStates]
  BY Typed DEF BeginStop, TaskStates
<1>4. Stopping(c, l)
  BY Typed DEF BeginStop, Stopping, Alive
<1> QED  BY <1>2, <1>3, <1>4

-----------------------------------------------------------------------------
(* Tasks, slots and calls, action by action. *)

Paired == TypeOK /\ CallsOK /\ SlotsOK /\ PhaseOK /\ Alone /\ NoOrphans /\ SlotIsPolled

\* The connectors others wait for are not the new one.
LEMMA OthersKeepSource ==
  ASSUME IInv, NEW c \in Callers, NEW s \in Sources, NEW l, Connecting(c, s, l), call[c] = Idle
  PROVE  /\ call'[c].op = "adding" /\ call'[c].loop = l /\ SourceOf(c)' = s
         /\ \A d \in Callers : d # c =>
              /\ call'[d] = call[d]
              /\ call[d].op # "idle" => call[d].loop # l /\ SourceOf(d)' = SourceOf(d)
<1>1. \A d \in Callers : call[d].op # "idle" => call[d].loop \in Loops /\ call[d].loop # l
  BY Typed DEF IInv, CallsOK, Connecting, CallRecords
<1> QED  BY <1>1, Typed DEF Connecting, SourceOf

\* A new call for a source is alone, or the source is noted.
LEMMA AloneOnConnect ==
  ASSUME IInv, NEW c \in Callers, NEW s \in Sources, NEW l, Connecting(c, s, l),
         call[c] = Idle, slots[s] = NoLoop, slots' = slots
  PROVE  Alone'
<1> SUFFICES ASSUME NEW e \in Callers, call'[e].op = "adding", SourceOf(e)' \notin overlapped'
             PROVE  /\ slots'[SourceOf(e)'] = NoLoop
                    /\ \A d \in Callers : d # e /\ call'[d].op # "idle" => SourceOf(d)' # SourceOf(e)'
  BY DEF Alone
<1>1. overlapped \subseteq overlapped' /\ (Busy(s) # {} => s \in overlapped')
  BY DEF Connecting
<1>2. \A d \in Callers : call[d].op # "idle" /\ SourceOf(d) = s => d \in Busy(s)
  BY DEF Busy, SourceOf
<1>3. CASE e = c
  BY <1>1, <1>2, <1>3, OthersKeepSource
<1>4. CASE e # c
  <2>1. call[e].op = "adding" /\ SourceOf(e)' = SourceOf(e) /\ SourceOf(e) \notin overlapped
    BY <1>1, <1>4, OthersKeepSource
  <2>2. SourceOf(e) # s
    BY <1>1, <1>2, <2>1
  <2>3. /\ slots[SourceOf(e)] = NoLoop
        /\ \A d \in Callers : d # e /\ call[d].op # "idle" => SourceOf(d) # SourceOf(e)
    BY <2>1 DEF IInv, Alone
  <2> QED  BY <2>1, <2>2, <2>3, OthersKeepSource
<1> QED  BY <1>3, <1>4

\* The handlers of sources.py leave the manager alone.
LEMMA RowKeeps ==
  ASSUME IInv, NEW s \in Sources, CreateSource(s) \/ UpdateSource(s) \/ DeleteSource(s)
  PROVE  Paired'
<1>1. /\ status' \in [Sources -> {"absent", "active", "paused", "deleted"}]
      /\ UNCHANGED <<phase, pending, slots, source, task, open, call, loaded, overlapped, crowd, thread, died>>
  BY Typed DEF IInv, CreateSource, UpdateSource, DeleteSource, SetStatus, Live, obsVars, TypeOK
<1>2. TypeOK'
  BY <1>1 DEF IInv, TypeOK, CallRecords, TaskStates
<1>3. CallsOK'
  BY <1>1, Typed DEF IInv, CallsOK, Idle
<1>4. SlotsOK'
  BY <1>1, Typed DEF IInv, SlotsOK
<1>5. PhaseOK'
  BY <1>1, Typed DEF IInv, PhaseOK, Idle, SourceOf
<1>6. Alone'
  BY <1>1, Typed DEF IInv, Alone, Idle, SourceOf, Running
<1>7. NoOrphans'
  BY <1>1, Typed DEF IInv, NoOrphans, Alive, Running
<1>8. SlotIsPolled'
  BY <1>1, Typed DEF IInv, SlotIsPolled, Alive, Running
<1> QED  BY <1>2, <1>3, <1>4, <1>5, <1>6, <1>7, <1>8 DEF Paired

\* The task is created and its slot registered.
LEMMA ConnectedKeeps ==
  ASSUME IInv, NEW c \in Callers, Connected(c)
  PROVE  Paired'
<1> DEFINE l == call[c].loop
<1>1. /\ call[c].op = "adding" /\ l \in Loops /\ task[l] = "connecting"
      /\ \A k \in Loops : task'[k] = IF k = l THEN "looping" ELSE task[k]
      /\ \A u \in Sources : slots'[u] = IF u = source[l] THEN l ELSE slots[u]
      /\ \A d \in Callers : call'[d] = IF d = c THEN Idle ELSE call[d]
      /\ task' \in [Loops -> TaskStates] /\ slots' \in [Sources -> Loops \cup {NoLoop}]
      /\ call' \in [Callers -> CallRecords] /\ open' \in [Loops -> BOOLEAN]
      /\ UNCHANGED <<status, phase, pending, source, loaded, overlapped, crowd, thread, died>>
  BY Typed DEF IInv, Connected, TaskStates, CallsOK, TypeOK, obsVars
<1>2. TypeOK'
  BY <1>1 DEF IInv, TypeOK, CallRecords, TaskStates
<1>3. CallsOK'
  BY <1>1, Typed DEF IInv, CallsOK, Idle, SlotsOK
<1>4. SlotsOK'
  BY <1>1, Typed DEF IInv, SlotsOK, CallsOK
<1>4a. source[l] \notin overlapped => slots[source[l]] = NoLoop
  BY <1>1 DEF IInv, Alone, SourceOf
<1>4b. ASSUME phase = "stopping", NEW k \in pending
       PROVE  /\ k \in Loops /\ task'[k] \in {"looping", "polling", "cancelled", "ended"}
              /\ source[k] \notin overlapped => slots'[source[k]] = k
  <2>1. k \in Loops /\ (source[k] \notin overlapped => slots[source[k]] = k)
    BY <1>4b DEF IInv, PhaseOK
  <2>2. task[k] \in {"looping", "polling", "cancelled", "ended"}
    BY <1>4b DEF IInv, PhaseOK
  <2>3. source[k] \in Sources /\ k # NoLoop
    BY <2>1, Typed DEF IInv
  <2>4. source[k] \notin overlapped => source[k] # source[l]
    BY <1>4a, <2>1, <2>3
  <2> QED  BY <1>1, <2>1, <2>2, <2>3, <2>4
<1>5. PhaseOK'
  <2>1. phase = "stopping" => call[Lifespan].op # "adding" /\ call'[Lifespan].op # "adding"
    BY <1>1, Typed DEF IInv, PhaseOK, Idle
  <2>2. phase \notin {"down"}
    BY <1>1, Typed DEF IInv, PhaseOK, Idle
  <2>3. phase = "starting" =>
          /\ \A s \in Sources : slots'[s] # NoLoop => s \in loaded \ pending
          /\ call'[Lifespan].op # "stopping"
          /\ call'[Lifespan].op = "adding" => SourceOf(Lifespan)' \in loaded \ pending
          /\ pending \subseteq loaded
          /\ overlapped = {} /\ \A d \in Requests : call'[d] = Idle
    BY <1>1, Typed DEF IInv, PhaseOK, Idle, SourceOf
  <2>4. phase \in {"serving", "stopped"} => call'[Lifespan] = Idle
    BY <1>1, Typed DEF IInv, PhaseOK
  <2> QED  BY <1>1, <1>4b, <2>1, <2>2, <2>3, <2>4 DEF PhaseOK
<1>6. Alone'
  BY <1>1, Typed DEF IInv, Alone, Idle, SourceOf, Running, SlotsOK, CallsOK, NoOrphans
<1>7. NoOrphans'
  BY <1>1, Typed DEF IInv, NoOrphans, Alive, Running, SlotsOK, CallsOK, Alone, SourceOf
<1>8. SlotIsPolled'
  BY <1>1, Typed DEF IInv, SlotIsPolled, Alive, Running, SlotsOK, CallsOK, Alone, NoOrphans, SourceOf
<1> QED  BY <1>2, <1>3, <1>4, <1>5, <1>6, <1>7, <1>8 DEF Paired

\* A connector that could not connect is forgotten.
LEMMA ConnectFailsKeeps ==
  ASSUME IInv, NEW c \in Callers, ConnectFails(c)
  PROVE  Paired'
<1> DEFINE l == call[c].loop
<1>1. /\ call[c].op = "adding" /\ l \in Loops /\ task[l] = "connecting"
      /\ \A k \in Loops : task'[k] = IF k = l THEN "ended" ELSE task[k]
      /\ \A d \in Callers : call'[d] = IF d = c THEN Idle ELSE call[d]
      /\ task' \in [Loops -> TaskStates]
      /\ call' \in [Callers -> CallRecords]
      /\ UNCHANGED <<status, phase, pending, slots, source, open, loaded, overlapped, crowd, thread, died>>
  BY Typed DEF IInv, ConnectFails, TaskStates, CallsOK, TypeOK, obsVars
<1>2. TypeOK'
  BY <1>1 DEF IInv, TypeOK, CallRecords, TaskStates
<1>3. CallsOK'
  BY <1>1, Typed DEF IInv, CallsOK, Idle
<1>4. SlotsOK'
  BY <1>1, Typed DEF IInv, SlotsOK
<1>5. PhaseOK'
  BY <1>1, Typed DEF IInv, PhaseOK, Idle, SourceOf
<1>6. Alone'
  BY <1>1, Typed DEF IInv, Alone, Idle, SourceOf, Running
<1>7. NoOrphans'
  BY <1>1, Typed DEF IInv, NoOrphans, Alive, Running
<1>8. SlotIsPolled'
  BY <1>1, Typed DEF IInv, SlotIsPolled, Alive, Running
<1> QED  BY <1>2, <1>3, <1>4, <1>5, <1>6, <1>7, <1>8 DEF Paired

\* The connector is closed.
LEMMA ClosedKeeps ==
  ASSUME IInv, NEW c \in Callers, Closed(c)
  PROVE  Paired'
<1>1. /\ call[c].op = "stopping"
      /\ \A d \in Callers : call'[d] = IF d = c THEN Idle ELSE call[d]
      /\ call' \in [Callers -> CallRecords] /\ open' \in [Loops -> BOOLEAN]
      /\ UNCHANGED <<status, phase, pending, slots, source, task, loaded, overlapped, crowd, thread, died>>
  BY Typed DEF IInv, Closed, TaskStates, CallsOK, TypeOK, obsVars
<1>2. TypeOK'
  BY <1>1 DEF IInv, TypeOK, CallRecords, TaskStates
<1>3. CallsOK'
  BY <1>1, Typed DEF IInv, CallsOK, Idle
<1>4. SlotsOK'
  BY <1>1, Typed DEF IInv, SlotsOK
<1>5. PhaseOK'
  BY <1>1, Typed DEF IInv, PhaseOK, Idle, SourceOf
<1>6. Alone'
  BY <1>1, Typed DEF IInv, Alone, Idle, SourceOf, Running
<1>7. NoOrphans'
  BY <1>1, Typed DEF IInv, NoOrphans, Alive, Running
<1>8. SlotIsPolled'
  BY <1>1, Typed DEF IInv, SlotIsPolled, Alive, Running
<1> QED  BY <1>2, <1>3, <1>4, <1>5, <1>6, <1>7, <1>8 DEF Paired

\* A turn of the loop, its thread, and the ends of a task: cancelled, by an exception,
\* or because _running has fallen.
LEMMA TaskStepKeeps ==
  ASSUME IInv, NEW l \in Loops, TaskStep(l)
  PROVE  Paired'
<1>1. /\ UNCHANGED <<status, phase, pending, slots, source, open, call, loaded, overlapped, crowd>>
      /\ \A k \in Loops : k # l => task'[k] = task[k]
      /\ died \subseteq died' /\ died' \subseteq Loops
      /\ task' \in [Loops -> TaskStates] /\ thread' \in [Loops -> BOOLEAN]
  BY Typed DEF IInv, TypeOK, TaskStates, obsVars,
     TaskStep, TaskCancelled, LoopTurns, PollBegins, PollEnds, TaskDies, ThreadEnds
<1>2. /\ task[l] \in {"cancelled", "ended"} => task'[l] \in {"cancelled", "ended"}
      /\ Alive(l) => Alive(l)' \/ task'[l] = "ended"
      /\ ~Alive(l) => ~Alive(l)'
      /\ task[l] \in {"none", "connecting"} => task'[l] = task[l]
      /\ Running /\ Alive(l) => Alive(l)' \/ l \in died'
  BY Typed DEF IInv, Alive, TaskStep, TaskCancelled, LoopTurns, PollBegins, PollEnds, TaskDies, ThreadEnds
<1>3. /\ task[l] \in {"looping", "polling", "cancelled", "ended"} =>
           task'[l] \in {"looping", "polling", "cancelled", "ended"}
      /\ task[l] = "connecting" => task'[l] = "connecting"
      /\ task[l] = "none" => task'[l] = "none"
  BY <1>2 DEF Alive
<1>4. TypeOK'
  BY <1>1 DEF IInv, TypeOK, CallRecords, TaskStates
<1>5. CallsOK'
  BY <1>1, <1>2, <1>3, Typed DEF IInv, CallsOK, Idle
<1>6. SlotsOK'
  BY <1>1, <1>3, Typed DEF IInv, SlotsOK
<1>7. PhaseOK'
  BY <1>1, <1>3, Typed DEF IInv, PhaseOK, Idle, SourceOf
<1>8. Alone'
  BY <1>1, Typed DEF IInv, Alone, Idle, SourceOf
<1>9. NoOrphans'
  BY <1>1, <1>2, Typed DEF IInv, NoOrphans, Running, Alive
<1>10. SlotIsPolled'
  <2> SUFFICES ASSUME NEW s \in Sources, Running, slots[s] # NoLoop
               PROVE  Alive(slots[s])' \/ slots[s] \in died'
    BY <1>1 DEF SlotIsPolled, Running, Alive
  <2>1. Alive(slots[s]) \/ slots[s] \in died
    BY DEF IInv, SlotIsPolled
  <2>2. slots[s] \in Loops
    BY Typed DEF IInv
  <2>3. slots[s] # l => task'[slots[s]] = task[slots[s]]
    BY <1>1, <2>2
  <2> QED  BY <1>1, <1>2, <2>1, <2>3 DEF Alive
<1> QED  BY <1>4, <1>5, <1>6, <1>7, <1>8, <1>9, <1>10 DEF Paired

\* A request begins to connect a source.
LEMMA AddSourceKeeps ==
  ASSUME IInv, NEW c \in Requests, NEW s \in Sources, AddSource(c, s), NEW l, Connecting(c, s, l)
  PROVE  Paired'
<1>1. /\ c \in Callers /\ c # Lifespan /\ phase = "serving" /\ call[c] = Idle /\ slots[s] = NoLoop
      /\ source' \in [Loops -> Sources] /\ task' \in [Loops -> TaskStates]
      /\ call' \in [Callers -> CallRecords] /\ overlapped' \subseteq Sources
      /\ UNCHANGED <<status, phase, pending, slots, open, loaded, thread, died>>
  BY Typed, ConnectFacts DEF IInv, AddSource, TypeOK
<1>2. crowd' \in [Tenants -> Nat]
  <2>1. Cardinality(Adding(TenantOf[s])) \in Nat
    BY ManagerAssumption, FS_Subset, FS_CardinalityType DEF Adding
  <2> DEFINE n == Cardinality(Adding(TenantOf[s])) + 1
  <2>2. n \in Nat
    BY <2>1
  <2>3. crowd' = [crowd EXCEPT ![TenantOf[s]] = IF n > @ THEN n ELSE @]
    BY DEF AddSource
  <2> HIDE DEF n
  <2> QED  BY <2>2, <2>3 DEF IInv, TypeOK
<1>2a. TypeOK'
  BY <1>1, <1>2 DEF IInv, TypeOK, CallRecords, TaskStates
<1>3. CallsOK'
  BY <1>1, Typed DEF IInv, CallsOK, Connecting, Idle, SlotsOK
<1>4. SlotsOK'
  BY <1>1, Typed DEF IInv, SlotsOK, Connecting, CallsOK
<1>5. PhaseOK'
  BY <1>1, Typed DEF IInv, PhaseOK, Connecting, Idle, SourceOf, SlotsOK, CallsOK
<1>6. Alone'
  BY <1>1, AloneOnConnect DEF Running
<1>7. NoOrphans'
  BY <1>1, Typed DEF IInv, NoOrphans, Alive, Connecting, Running, Busy, SlotsOK, CallsOK
<1>8. SlotIsPolled'
  BY <1>1, Typed DEF IInv, SlotIsPolled, Alive, Connecting, Running, SlotsOK, CallsOK
<1> QED  BY <1>2a, <1>3, <1>4, <1>5, <1>6, <1>7, <1>8 DEF Paired

\* The slot leaves the registry and its task is cancelled.
LEMMA RemoveSourceKeeps ==
  ASSUME IInv, NEW c \in Requests, NEW s \in Sources, RemoveSource(c, s), slots[s] # NoLoop
  PROVE  Paired'
<1>1. /\ c \in Callers /\ c # Lifespan /\ phase = "serving" /\ call[c] = Idle /\ slots[s] \in Loops
      /\ \A u \in Sources : slots'[u] = IF u = s THEN NoLoop ELSE slots[u]
      /\ Stopping(c, slots[s])
      /\ overlapped' = IF Busy(s) = {} THEN overlapped ELSE overlapped \cup {s}
      /\ slots' \in [Sources -> Loops \cup {NoLoop}]
      /\ task' \in [Loops -> TaskStates] /\ call' \in [Callers -> CallRecords]
      /\ overlapped' \subseteq Sources
      /\ UNCHANGED <<status, phase, pending, source, open, loaded, crowd, thread, died>>
  BY Typed, StopFacts DEF IInv, RemoveSource, NoteOverlap, TypeOK
<1>2. TypeOK'
  BY <1>1 DEF IInv, TypeOK, CallRecords, TaskStates
<1>2a. source[slots[s]] = s /\ task[slots[s]] \in {"looping", "polling", "cancelled", "ended"}
  BY <1>1 DEF IInv, SlotsOK
<1>3. CallsOK'
  BY <1>1, <1>2a, Typed DEF IInv, CallsOK, Stopping, Alive, Idle
<1>4. SlotsOK'
  BY <1>1, Typed DEF IInv, SlotsOK, Stopping, Alive
<1>5. PhaseOK'
  BY <1>1, Typed DEF IInv, PhaseOK, Stopping, Alive, Idle, SourceOf
<1>6. Alone'
  <2> SUFFICES ASSUME NEW e \in Callers, call'[e].op = "adding", SourceOf(e)' \notin overlapped'
               PROVE  /\ slots'[SourceOf(e)'] = NoLoop
                      /\ \A d \in Callers : d # e /\ call'[d].op # "idle" => SourceOf(d)' # SourceOf(e)'
    BY DEF Alone
  <2>1. \A d \in Callers : d # c => call'[d] = call[d] /\ SourceOf(d)' = SourceOf(d)
    BY <1>1 DEF Stopping, Alive, SourceOf
  <2>2. call'[c].op = "stopping" /\ SourceOf(c)' = s
    BY <1>1, <1>2a DEF Stopping, Alive, SourceOf
  <2>3. e # c /\ call[e].op = "adding" /\ SourceOf(e) \notin overlapped /\ SourceOf(e)' = SourceOf(e)
    BY <1>1, <2>1, <2>2
  <2>4. SourceOf(e) # s /\ SourceOf(e) \in Sources
    <3>1. SourceOf(e) = s => e \in Busy(s)
      BY <2>3 DEF Busy, SourceOf
    <3>2. SourceOf(e) \in Sources
      BY <2>3, Typed DEF IInv, CallsOK, SourceOf
    <3> QED  BY <1>1, <2>3, <3>1, <3>2
  <2>5. /\ slots[SourceOf(e)] = NoLoop
        /\ \A d \in Callers : d # e /\ call[d].op # "idle" => SourceOf(d) # SourceOf(e)
    BY <1>1, <2>3 DEF IInv, Alone, Running
  <2> QED  BY <1>1, <2>1, <2>2, <2>3, <2>4, <2>5
<1>7. NoOrphans'
  BY <1>1, Typed DEF IInv, NoOrphans, Alive, Stopping, Running, Busy
<1>8. SlotIsPolled'
  <2> SUFFICES ASSUME NEW u \in Sources, slots'[u] # NoLoop
               PROVE  Alive(slots[u])' \/ (slots[u] \in died)'
    BY DEF SlotIsPolled, Alive
  <2>1. slots'[u] = slots[u] /\ u # s /\ slots[u] \in Loops
    BY <1>1, Typed DEF IInv
  <2>2. slots[u] # slots[s]
    BY <1>2a, <2>1 DEF IInv, SlotsOK
  <2> QED  BY <1>1, <2>1, <2>2 DEF IInv, SlotIsPolled, Alive, Running, Stopping
<1> QED  BY <1>2, <1>3, <1>4, <1>5, <1>6, <1>7, <1>8 DEF Paired

\* There is no slot to remove.
LEMMA RemoveNothingKeeps ==
  ASSUME IInv, NEW c \in Requests, NEW s \in Sources, RemoveSource(c, s), slots[s] = NoLoop
  PROVE  Paired'
<1>1. /\ phase = "serving"
      /\ overlapped \subseteq overlapped' /\ overlapped' \subseteq Sources
      /\ slots' = slots
      /\ UNCHANGED <<status, phase, pending, source, task, call, open, loaded, crowd, thread, died>>
  BY Typed DEF IInv, RemoveSource, NoteOverlap, TypeOK
<1>2. TypeOK'
  BY <1>1 DEF IInv, TypeOK, CallRecords, TaskStates
<1>3. CallsOK'
  BY <1>1, Typed DEF IInv, CallsOK, Idle
<1>4. SlotsOK'
  BY <1>1, Typed DEF IInv, SlotsOK
<1>5. PhaseOK'
  BY <1>1, Typed DEF IInv, PhaseOK, Idle, SourceOf
<1>6. Alone'
  BY <1>1, Typed DEF IInv, Alone, Idle, SourceOf, Running
<1>7. NoOrphans'
  BY <1>1, Typed DEF IInv, NoOrphans, Alive, Running
<1>8. SlotIsPolled'
  BY <1>1, Typed DEF IInv, SlotIsPolled, Alive, Running
<1> QED  BY <1>2, <1>3, <1>4, <1>5, <1>6, <1>7, <1>8 DEF Paired

\* start() loads the active sources.
LEMMA StartKeeps ==
  ASSUME IInv, Start
  PROVE  Paired'
<1>1. /\ phase = "down" /\ phase' = "starting"
      /\ pending' = loaded' /\ loaded' \subseteq Sources
      /\ UNCHANGED <<status, slots, source, task, open, call, overlapped, crowd, thread, died>>
  BY Typed DEF IInv, Start, TypeOK
<1>2. TypeOK'
  BY <1>1 DEF IInv, TypeOK, CallRecords, TaskStates
<1>2a. /\ \A s \in Sources : slots[s] = NoLoop
       /\ \A l \in Loops : task[l] = "none"
       /\ \A c \in Callers : call[c] = Idle
  BY <1>1, Typed DEF IInv, PhaseOK
<1>3. CallsOK'
  BY <1>1, <1>2a, Typed DEF IInv, CallsOK, Idle
<1>4. SlotsOK'
  BY <1>1, Typed DEF IInv, SlotsOK
<1>5. PhaseOK'
  BY <1>1, Typed DEF IInv, PhaseOK, Idle, SourceOf
<1>6. Alone'
  BY <1>1, <1>2a, Typed DEF IInv, Alone, Idle, SourceOf
<1>7. NoOrphans'
  BY <1>1, <1>2a, Typed DEF IInv, NoOrphans, Alive
<1>8. SlotIsPolled'
  BY <1>1, <1>2a, Typed DEF IInv, SlotIsPolled, Alive
<1> QED  BY <1>2, <1>3, <1>4, <1>5, <1>6, <1>7, <1>8 DEF Paired

\* start() begins to connect the next source.
LEMMA StartNextKeeps ==
  ASSUME IInv, NEW s \in Sources, StartNext(s), NEW l, Connecting(Lifespan, s, l)
  PROVE  Paired'
<1>1. /\ phase = "starting" /\ call[Lifespan] = Idle /\ s \in pending /\ pending' = pending \ {s}
      /\ overlapped = {} /\ s \in Sources
      /\ \A c \in Requests : call[c] = Idle
      /\ UNCHANGED <<status, phase, slots, open, loaded, crowd, thread, died>>
  BY DEF IInv, StartNext, PhaseOK
<1>1a. /\ source' \in [Loops -> Sources] /\ task' \in [Loops -> TaskStates]
       /\ call' \in [Callers -> CallRecords]
  BY Typed, ConnectFacts DEF IInv, StartNext
<1>1b. Busy(s) = {}
  BY <1>1, Typed DEF IInv, Busy, Idle
<1>1c. overlapped' = {}
  BY <1>1, <1>1b DEF Connecting
<1>1d. slots[s] = NoLoop
  BY <1>1 DEF IInv, PhaseOK
<1>2. TypeOK'
  BY <1>1, <1>1a, <1>1c DEF IInv, TypeOK, CallRecords, TaskStates
<1>3. CallsOK'
  BY <1>1, <1>1a, Typed DEF IInv, CallsOK, Connecting, Idle, SlotsOK
<1>4. SlotsOK'
  BY <1>1, <1>1a, Typed DEF IInv, SlotsOK, Connecting, CallsOK
<1>5. PhaseOK'
  <2>1. call'[Lifespan].op = "adding" /\ SourceOf(Lifespan)' = s
    BY <1>1, Typed, OthersKeepSource DEF IInv
  <2>2. \A c \in Requests : call'[c] = Idle
    BY <1>1, Typed, OthersKeepSource DEF IInv
  <2>3. s \in loaded' \ pending' /\ pending' \subseteq loaded'
    BY <1>1 DEF IInv, PhaseOK, StartNext, TypeOK
  <2>4. \A u \in Sources : slots'[u] # NoLoop => u \in loaded' \ pending'
    BY <1>1 DEF IInv, PhaseOK
  <2> QED  BY <1>1, <1>1c, <2>1, <2>2, <2>3, <2>4 DEF PhaseOK
<1>6. Alone'
  BY <1>1, <1>1d, Typed, AloneOnConnect DEF IInv, Running
<1>7. NoOrphans'
  BY <1>1, <1>1a, Typed DEF IInv, NoOrphans, Alive, Connecting, Running, Busy, SlotsOK, CallsOK
<1>8. SlotIsPolled'
  BY <1>1, <1>1a, Typed DEF IInv, SlotIsPolled, Alive, Connecting, Running, SlotsOK, CallsOK
<1> QED  BY <1>2, <1>3, <1>4, <1>5, <1>6, <1>7, <1>8 DEF Paired

\* The application is up.
LEMMA StartedKeeps ==
  ASSUME IInv, Started
  PROVE  Paired'
<1>1. /\ phase = "starting" /\ phase' = "serving" /\ call[Lifespan] = Idle /\ pending = {}
      /\ UNCHANGED <<status, pending, slots, source, task, open, call, loaded, overlapped, crowd, thread, died>>
  BY Typed DEF IInv, Started, TaskStates, CallsOK, TypeOK, obsVars
<1>2. TypeOK'
  BY <1>1 DEF IInv, TypeOK, CallRecords, TaskStates
<1>3. CallsOK'
  BY <1>1, Typed DEF IInv, CallsOK, Idle, SlotsOK
<1>4. SlotsOK'
  BY <1>1, Typed DEF IInv, SlotsOK, CallsOK
<1>5. PhaseOK'
  BY <1>1, Typed DEF IInv, PhaseOK, Idle, SourceOf, SlotsOK, CallsOK
<1>6. Alone'
  BY <1>1, Typed DEF IInv, Alone, Idle, SourceOf, Running, SlotsOK, CallsOK
<1>7. NoOrphans'
  BY <1>1, Typed DEF IInv, NoOrphans, Alive, Running, SlotsOK, CallsOK
<1>8. SlotIsPolled'
  BY <1>1, Typed DEF IInv, SlotIsPolled, Alive, Running, SlotsOK, CallsOK
<1> QED  BY <1>2, <1>3, <1>4, <1>5, <1>6, <1>7, <1>8 DEF Paired

\* stop() takes the list of slots.
LEMMA StopKeeps ==
  ASSUME IInv, Stop
  PROVE  Paired'
<1>1. /\ phase = "serving" /\ phase' = "stopping"
      /\ \A l \in pending' : \E u \in Sources : slots[u] # NoLoop /\ l = slots[u]
      /\ UNCHANGED <<status, slots, source, task, open, call, loaded, overlapped, crowd, thread, died>>
  BY Typed DEF IInv, Stop, TaskStates, CallsOK, TypeOK, obsVars
<1>2. TypeOK'
  BY <1>1 DEF IInv, TypeOK, CallRecords, TaskStates
<1>3. CallsOK'
  BY <1>1, Typed DEF IInv, CallsOK, Idle, SlotsOK
<1>4. SlotsOK'
  BY <1>1, Typed DEF IInv, SlotsOK, CallsOK
<1>5. PhaseOK'
  BY <1>1, Typed DEF IInv, PhaseOK, Idle, SourceOf, SlotsOK, CallsOK
<1>6. Alone'
  BY <1>1, Typed DEF IInv, Alone, Idle, SourceOf, Running, SlotsOK, CallsOK
<1>7. NoOrphans'
  BY <1>1, Typed DEF IInv, NoOrphans, Alive, Running, SlotsOK, CallsOK
<1>8. SlotIsPolled'
  BY <1>1, Typed DEF IInv, SlotIsPolled, Alive, Running, SlotsOK, CallsOK
<1> QED  BY <1>2, <1>3, <1>4, <1>5, <1>6, <1>7, <1>8 DEF Paired

\* stop() begins to stop the next slot.
LEMMA StopNextKeeps ==
  ASSUME IInv, NEW l \in Loops, StopNext(l)
  PROVE  Paired'
<1>1. /\ phase = "stopping" /\ call[Lifespan] = Idle /\ l \in pending /\ pending' = pending \ {l}
      /\ Stopping(Lifespan, l)
      /\ task' \in [Loops -> TaskStates] /\ call' \in [Callers -> CallRecords]
      /\ UNCHANGED <<status, phase, slots, source, open, loaded, overlapped, crowd, thread, died>>
  BY Typed, StopFacts DEF IInv, StopNext, PhaseOK, obsVars
<1>2. TypeOK'
  BY <1>1 DEF IInv, TypeOK, CallRecords, TaskStates
<1>2a. task[l] \in {"looping", "polling", "cancelled", "ended"}
  BY <1>1 DEF IInv, PhaseOK
<1>3. CallsOK'
  BY <1>1, <1>2a, Typed DEF IInv, CallsOK, Stopping, Alive, Idle
<1>4. SlotsOK'
  BY <1>1, Typed DEF IInv, SlotsOK, Stopping, Alive, CallsOK
<1>5. PhaseOK'
  BY <1>1, Typed DEF IInv, PhaseOK, Stopping, Alive, Idle, SourceOf, SlotsOK, CallsOK
<1>6. Alone'
  <2>1. source[l] \notin overlapped => slots[source[l]] # NoLoop
    BY <1>1, Typed DEF IInv, PhaseOK
  <2>2. /\ call'[Lifespan].op = "stopping" /\ SourceOf(Lifespan)' = source[l]
        /\ \A d \in Callers : d # Lifespan => call'[d] = call[d] /\ SourceOf(d)' = SourceOf(d)
    BY <1>1, Typed DEF IInv, Stopping, SourceOf
  <2> QED  BY <1>1, <2>1, <2>2 DEF IInv, Alone
<1>7. NoOrphans'
  BY <1>1, Typed DEF IInv, NoOrphans, Alive, Stopping, Running, SlotsOK, CallsOK
<1>8. SlotIsPolled'
  BY <1>1, Typed DEF IInv, SlotIsPolled, Alive, Stopping, Running, SlotsOK, CallsOK
<1> QED  BY <1>2, <1>3, <1>4, <1>5, <1>6, <1>7, <1>8 DEF Paired

\* stop() clears the registry.
LEMMA StoppedKeeps ==
  ASSUME IInv, Stopped
  PROVE  Paired'
<1>1. /\ phase = "stopping" /\ phase' = "stopped" /\ call[Lifespan] = Idle
      /\ \A u \in Sources : slots'[u] = NoLoop
      /\ slots' \in [Sources -> Loops \cup {NoLoop}]
      /\ UNCHANGED <<status, pending, source, task, open, call, loaded, overlapped, crowd, thread, died>>
  BY Typed DEF IInv, Stopped, TaskStates, CallsOK, TypeOK, obsVars
<1>2. TypeOK'
  BY <1>1 DEF IInv, TypeOK, CallRecords, TaskStates
<1>3. CallsOK'
  BY <1>1, Typed DEF IInv, CallsOK, Idle
<1>4. SlotsOK'
  BY <1>1, Typed DEF IInv, SlotsOK
<1>5. PhaseOK'
  BY <1>1, Typed DEF IInv, PhaseOK, Idle, SourceOf
<1>6. Alone'
  BY <1>1, Typed DEF IInv, Alone, CallsOK, SourceOf
<1>7. NoOrphans'
  BY <1>1, Typed DEF IInv, NoOrphans, Alive, Running
<1>8. SlotIsPolled'
  BY <1>1, Typed DEF IInv, SlotIsPolled, Alive, Running
<1> QED  BY <1>2, <1>3, <1>4, <1>5, <1>6, <1>7, <1>8 DEF Paired

-----------------------------------------------------------------------------
(* The limit. *)

LoadedOf(t) == {s \in loaded : TenantOf[s] = t}

LEMMA Counts ==
  ASSUME TypeOK, NEW t \in Tenants
  PROVE  /\ IsFiniteSet(Registered(t)) /\ Cardinality(Registered(t)) \in Nat
         /\ IsFiniteSet(Adding(t)) /\ Cardinality(Adding(t)) \in Nat
         /\ IsFiniteSet(LoadedOf(t)) /\ Cardinality(LoadedOf(t)) \in Nat
         /\ Claimed(t) \in Nat /\ crowd[t] \in Nat /\ MaxSources \in Nat
<1>1. Registered(t) \subseteq Sources /\ Adding(t) \subseteq Requests /\ LoadedOf(t) \subseteq Sources
  BY DEF TypeOK, Registered, Adding, LoadedOf
<1>2. /\ IsFiniteSet(Registered(t)) /\ IsFiniteSet(Adding(t)) /\ IsFiniteSet(LoadedOf(t))
  BY <1>1, ManagerAssumption, FS_Subset
<1>3. /\ Cardinality(Registered(t)) \in Nat /\ Cardinality(Adding(t)) \in Nat
      /\ Cardinality(LoadedOf(t)) \in Nat
  BY <1>2, FS_CardinalityType
<1> QED  BY <1>2, <1>3, ManagerAssumption DEF Claimed, TypeOK

\* Claims that do not grow stay within the limit.
LEMMA ClaimsFall ==
  ASSUME IInv, TypeOK', phase \notin {"down", "starting"}, loaded' = loaded, crowd' = crowd,
         \A t \in Tenants : Claimed(t)' \in Nat /\ Claimed(t)' <= Claimed(t)
  PROVE  Limited'
<1> SUFFICES ASSUME NEW t \in Tenants
             PROVE  \/ Claimed(t)' <= Cardinality(LoadedOf(t))
                    \/ Claimed(t)' < MaxSources + crowd[t]
  BY DEF Limited, LoadedOf
<1>1. Claimed(t) <= Cardinality(LoadedOf(t)) \/ Claimed(t) < MaxSources + crowd[t]
  BY DEF IInv, Limited, LoadedOf
<1> QED  BY <1>1, Counts DEF IInv

LEMMA SetsFall ==
  ASSUME IInv, TypeOK', phase \notin {"down", "starting"}, loaded' = loaded, crowd' = crowd,
         \A t \in Tenants : Registered(t)' \subseteq Registered(t) /\ Adding(t)' \subseteq Adding(t)
  PROVE  Limited'
<1>1. ASSUME NEW t \in Tenants  PROVE Claimed(t)' \in Nat /\ Claimed(t)' <= Claimed(t)
  <2>1. /\ Cardinality(Registered(t)') <= Cardinality(Registered(t))
        /\ Cardinality(Adding(t)') <= Cardinality(Adding(t))
    BY Counts, FS_Subset DEF IInv
  <2>2. Cardinality(Registered(t)') \in Nat /\ Cardinality(Adding(t)') \in Nat
    BY Counts, FS_Subset, FS_CardinalityType DEF IInv
  <2> QED  BY <2>1, <2>2, Counts DEF IInv, Claimed
<1> QED  BY <1>1, ClaimsFall

\* A call that connected turns its claim into a slot.
LEMMA ConnectedLimited ==
  ASSUME IInv, TypeOK', NEW c \in Callers, Connected(c)
  PROVE  Limited'
<1> DEFINE l == call[c].loop
<1> USE DEF IInv
<1>1. /\ call[c].op = "adding" /\ l \in Loops /\ source[l] \in Sources
      /\ \A u \in Sources : slots'[u] = IF u = source[l] THEN l ELSE slots[u]
      /\ \A d \in Callers : call'[d] = IF d = c THEN Idle ELSE call[d]
      /\ UNCHANGED <<phase, source, loaded, crowd>>
  BY Typed DEF Connected, CallsOK, obsVars
<1>2. CASE phase \in {"down", "starting"}
  BY <1>1, <1>2 DEF Limited
<1>3. CASE phase \notin {"down", "starting"}
  <2>1. c \in Requests
    BY <1>1, <1>3, Typed DEF PhaseOK, TypeOK, Idle
  <2>2. ASSUME NEW t \in Tenants  PROVE Claimed(t)' \in Nat /\ Claimed(t)' <= Claimed(t)
    <3>1. CASE TenantOf[source[l]] = t
      <4>1. Registered(t)' \subseteq Registered(t) \cup {source[l]}
        BY <1>1 DEF Registered
      <4>2. Adding(t)' = Adding(t) \ {c} /\ c \in Adding(t)
        BY <1>1, <2>1, <3>1, Typed DEF Adding, Idle
      <4>3. /\ Cardinality(Adding(t)') = Cardinality(Adding(t)) - 1
            /\ Cardinality(Adding(t)') \in Nat
        BY <4>2, Counts, FS_RemoveElement, FS_CardinalityType
      <4>4. /\ IsFiniteSet(Registered(t) \cup {source[l]})
            /\ Cardinality(Registered(t) \cup {source[l]}) <= Cardinality(Registered(t)) + 1
            /\ Cardinality(Registered(t) \cup {source[l]}) \in Nat
        <5>1. /\ IsFiniteSet(Registered(t) \cup {source[l]})
              /\ \/ Cardinality(Registered(t) \cup {source[l]}) = Cardinality(Registered(t))
                 \/ Cardinality(Registered(t) \cup {source[l]}) = Cardinality(Registered(t)) + 1
          BY Counts, FS_AddElement
        <5> QED  BY <5>1, Counts
      <4>5. Cardinality(Registered(t)') <= Cardinality(Registered(t)) + 1
        <5>1. /\ Cardinality(Registered(t)') <= Cardinality(Registered(t) \cup {source[l]})
              /\ Cardinality(Registered(t)') \in Nat
          BY <4>1, <4>4, FS_Subset, FS_CardinalityType
        <5> QED  BY <4>4, <5>1, Counts
      <4>6. Cardinality(Registered(t)') \in Nat
        BY <4>1, <4>4, FS_Subset, FS_CardinalityType
      <4> QED  BY <4>3, <4>5, <4>6, Counts DEF Claimed
    <3>2. CASE TenantOf[source[l]] # t
      <4>1. Registered(t)' = Registered(t)
        BY <1>1, <3>2 DEF Registered
      <4>2. Adding(t)' = Adding(t)
        BY <1>1, <3>2, Typed DEF Adding, Idle
      <4> QED  BY <4>1, <4>2, Counts DEF Claimed
    <3> QED  BY <3>1, <3>2
  <2> QED  BY <1>1, <1>3, <2>2, ClaimsFall
<1> QED  BY <1>2, <1>3

\* A request that begins to connect a source raises the crowd with its claim.
LEMMA AddSourceLimited ==
  ASSUME IInv, TypeOK', NEW c \in Requests, NEW s \in Sources, AddSource(c, s),
         NEW l, Connecting(c, s, l)
  PROVE  Limited'
<1> DEFINE n == Cardinality(Adding(TenantOf[s])) + 1
<1> USE DEF IInv
<1>1. /\ call[c] = Idle /\ phase = "serving" /\ phase' = phase
      /\ Cardinality(Registered(TenantOf[s])) < MaxSources
      /\ crowd' = [crowd EXCEPT ![TenantOf[s]] = IF n > @ THEN n ELSE @]
      /\ slots' = slots /\ loaded' = loaded /\ TenantOf[s] \in Tenants /\ c \in Callers
  BY ManagerAssumption, Typed DEF AddSource
<1> SUFFICES ASSUME NEW t \in Tenants
             PROVE  \/ Claimed(t)' <= Cardinality(LoadedOf(t))
                    \/ Claimed(t)' < MaxSources + crowd'[t]
  BY <1>1 DEF Limited, LoadedOf
<1>2. Registered(t)' = Registered(t)
  BY <1>1 DEF Registered
<1>3. /\ SourceOf(c)' = s /\ call'[c].op = "adding" /\ c \notin Adding(t)
      /\ \A d \in Requests : d # c => (d \in Adding(t)' <=> d \in Adding(t))
  BY <1>1, Typed, OthersKeepSource DEF Adding, SourceOf, Idle
<1>4. CASE TenantOf[s] = t
  <2>1. c \in Adding(t)'
    BY <1>3, <1>4 DEF Adding, SourceOf
  <2>2. Adding(t)' = Adding(t) \cup {c}
    BY <1>3, <2>1 DEF Adding
  <2>3. Cardinality(Adding(t)') = Cardinality(Adding(t)) + 1
    <3>1. IsFiniteSet(Adding(t)) /\ c \notin Adding(t)
      BY <1>3, Counts
    <3> QED  BY <2>2, <3>1, FS_AddElement
  <2>4. crowd'[t] >= Cardinality(Adding(t)) + 1 /\ crowd'[t] \in Nat
    BY <1>1, <1>4, Counts DEF TypeOK
  <2>5. Claimed(t)' < MaxSources + crowd'[t]
    BY <1>1, <1>2, <1>4, <2>3, <2>4, Counts DEF Claimed
  <2> QED  BY <2>5
<1>5. CASE TenantOf[s] # t
  <2>1. c \notin Adding(t)'
    BY <1>3, <1>5 DEF Adding, SourceOf
  <2>2. Adding(t)' = Adding(t)
    BY <1>3, <2>1 DEF Adding
  <2>3. crowd'[t] = crowd[t]
    BY <1>1, <1>5 DEF TypeOK
  <2> QED  BY <1>1, <1>2, <2>2, <2>3 DEF Limited, LoadedOf, Claimed
<1> QED  BY <1>4, <1>5

\* What is registered when the application comes up was loaded.
LEMMA StartedLimited ==
  ASSUME IInv, TypeOK', Started
  PROVE  Limited'
<1> USE DEF IInv
<1>1. /\ phase = "starting" /\ UNCHANGED <<slots, call, source, loaded, crowd>>
      /\ \A d \in Requests : call[d] = Idle
      /\ \A u \in Sources : slots[u] # NoLoop => u \in loaded
  BY DEF Started, PhaseOK, obsVars
<1> SUFFICES ASSUME NEW t \in Tenants  PROVE Claimed(t)' <= Cardinality(LoadedOf(t))
  BY <1>1 DEF Limited, LoadedOf
<1>2. Adding(t)' = {} /\ Registered(t)' \subseteq LoadedOf(t)
  BY <1>1 DEF Adding, Idle, Registered, LoadedOf
<1>3. Cardinality(Registered(t)') <= Cardinality(LoadedOf(t)) /\ Cardinality(Registered(t)') \in Nat
  BY <1>2, Counts, FS_Subset, FS_CardinalityType
<1>4. Cardinality(Adding(t)') = 0
  BY <1>2, FS_EmptySet
<1> QED  BY <1>3, <1>4, Counts DEF Claimed

-----------------------------------------------------------------------------
(* Every step keeps the invariant. *)

\* A step that leaves the calls to connect, and adds no slot.
LEMMA OthersLimited ==
  ASSUME IInv, TypeOK', loaded' = loaded, crowd' = crowd, source' = source,
         phase' = phase \/ phase \notin {"down", "starting"},
         \A u \in Sources : slots'[u] \in {slots[u], NoLoop},
         \A d \in Requests : call'[d] = call[d] \/ call'[d].op # "adding"
  PROVE  Limited'
<1>1. CASE phase \in {"down", "starting"}
  BY <1>1 DEF Limited
<1>2. CASE phase \notin {"down", "starting"}
  <2>1. \A t \in Tenants : Registered(t)' \subseteq Registered(t) /\ Adding(t)' \subseteq Adding(t)
    BY DEF Registered, Adding
  <2> QED  BY <1>2, <2>1, SetsFall
<1> QED  BY <1>1, <1>2

LEMMA InitInv == Init => IInv
<1> SUFFICES ASSUME Init PROVE IInv
  OBVIOUS
<1>1. /\ phase = "down" /\ pending = {} /\ loaded = {} /\ overlapped = {}
      /\ \A s \in Sources : slots[s] = NoLoop
      /\ \A l \in Loops : task[l] = "none"
      /\ \A c \in Callers : call[c] = Idle
  BY DEF Init
<1>2. TypeOK
  <2>1. (CHOOSE s \in Sources : TRUE) \in Sources
    BY ManagerAssumption
  <2>2. Idle \in CallRecords
    BY DEF Idle, CallRecords
  <2>3. source \in [Loops -> Sources] /\ call \in [Callers -> CallRecords]
    BY <2>1, <2>2 DEF Init
  <2> QED  BY <2>3 DEF Init, TypeOK, CallRecords
<1>3. CallsOK /\ SlotsOK /\ PhaseOK /\ Alone /\ NoOrphans /\ SlotIsPolled
  BY <1>1, Typed, <1>2 DEF CallsOK, SlotsOK, PhaseOK, Alone, NoOrphans, SlotIsPolled, Alive, Running, Idle
<1> QED  BY <1>1, <1>2, <1>3 DEF IInv, Limited

LEMMA CallStepInv ==
  ASSUME IInv, NEW c \in Callers, CallStep(c)
  PROVE  IInv'
<1>1. CASE Connected(c)
  BY <1>1, ConnectedKeeps, ConnectedLimited DEF Paired, IInv
<1>2. CASE ConnectFails(c)
  <2>1. Paired'
    BY <1>2, ConnectFailsKeeps
  <2>2. Limited'
    BY <1>2, <2>1, Typed, OthersLimited DEF ConnectFails, obsVars, Idle, Paired, IInv
  <2> QED  BY <2>1, <2>2 DEF Paired, IInv
<1>3. CASE Closed(c)
  <2>1. Paired'
    BY <1>3, ClosedKeeps
  <2>2. Limited'
    BY <1>3, <2>1, Typed, OthersLimited DEF Closed, obsVars, Idle, Paired, IInv
  <2> QED  BY <2>1, <2>2 DEF Paired, IInv
<1> QED  BY <1>1, <1>2, <1>3 DEF CallStep

LEMMA RequestStepInv ==
  ASSUME IInv, NEW c \in Requests, NEW s \in Sources, AddSource(c, s) \/ RemoveSource(c, s)
  PROVE  IInv'
<1>1. CASE AddSource(c, s)
  <2>1. PICK l \in Loops : Connecting(c, s, l)
    BY <1>1, ConnectFacts, Typed DEF AddSource, IInv
  <2>2. Paired'
    BY <1>1, <2>1, AddSourceKeeps
  <2>3. Limited'
    BY <1>1, <2>1, <2>2, AddSourceLimited DEF Paired
  <2> QED  BY <2>2, <2>3 DEF Paired, IInv
<1>2. CASE RemoveSource(c, s) /\ slots[s] # NoLoop
  <2>1. Paired'
    BY <1>2, RemoveSourceKeeps
  <2>2. Stopping(c, slots[s])
    BY <1>2, StopFacts, Typed DEF RemoveSource, IInv
  <2>3. \A d \in Requests : call'[d] = call[d] \/ call'[d].op # "adding"
    BY <2>2, Typed DEF Stopping, Alive, IInv
  <2>4. \A u \in Sources : slots'[u] \in {slots[u], NoLoop}
    BY <1>2, Typed DEF RemoveSource, IInv
  <2>5. loaded' = loaded /\ crowd' = crowd /\ source' = source /\ phase' = phase
    BY <1>2 DEF RemoveSource
  <2>6. Limited'
    BY <2>1, <2>3, <2>4, <2>5, OthersLimited DEF Paired
  <2> QED  BY <2>1, <2>6 DEF Paired, IInv
<1>3. CASE RemoveSource(c, s) /\ slots[s] = NoLoop
  <2>1. Paired'
    BY <1>3, RemoveNothingKeeps
  <2>2. slots' = slots /\ UNCHANGED <<loaded, crowd, source, phase, call>>
    BY <1>3, Typed DEF RemoveSource, IInv
  <2>3. Limited'
    BY <2>1, <2>2, OthersLimited DEF Paired
  <2> QED  BY <2>1, <2>3 DEF Paired, IInv
<1> QED  BY <1>1, <1>2, <1>3

LEMMA LifespanStepInv ==
  ASSUME IInv, LifespanStep
  PROVE  IInv'
<1>1. CASE Start
  BY <1>1, StartKeeps DEF Start, Limited, Paired, IInv
<1>2. CASE Started
  BY <1>2, StartedKeeps, StartedLimited DEF Paired, IInv
<1>3. CASE Stop
  <2>1. Paired'
    BY <1>3, StopKeeps
  <2>2. Limited'
    BY <1>3, <2>1, OthersLimited DEF Stop, obsVars, Paired
  <2> QED  BY <2>1, <2>2 DEF Paired, IInv
<1>4. CASE Stopped
  <2>1. Paired'
    BY <1>4, StoppedKeeps
  <2>2. Limited'
    BY <1>4, <2>1, OthersLimited DEF Stopped, obsVars, Paired
  <2> QED  BY <2>1, <2>2 DEF Paired, IInv
<1>5. ASSUME NEW s \in Sources, StartNext(s)  PROVE IInv'
  <2>1. PICK l \in Loops : Connecting(Lifespan, s, l)
    BY <1>5, ConnectFacts, Typed DEF StartNext, IInv
  <2>2. Paired'
    BY <1>5, <2>1, StartNextKeeps
  <2> QED  BY <1>5, <2>2 DEF StartNext, Limited, Paired, IInv
<1>6. ASSUME NEW l \in Loops, StopNext(l)  PROVE IInv'
  <2>1. Paired'
    BY <1>6, StopNextKeeps
  <2>2. \A d \in Requests : call'[d] = call[d]
    BY <1>6, Typed, StopFacts DEF StopNext, Stopping, Alive, IInv
  <2>3. Limited'
    BY <1>6, <2>1, <2>2, OthersLimited DEF StopNext, obsVars, Paired
  <2> QED  BY <2>1, <2>3 DEF Paired, IInv
<1> QED  BY <1>1, <1>2, <1>3, <1>4, <1>5, <1>6 DEF LifespanStep

LEMMA NextInv == IInv /\ [Next]_vars => IInv'
<1> SUFFICES ASSUME IInv, [Next]_vars PROVE IInv'
  OBVIOUS
<1>1. ASSUME NEW s \in Sources, CreateSource(s) \/ UpdateSource(s) \/ DeleteSource(s)
      PROVE  IInv'
  <2>1. Paired'
    BY <1>1, RowKeeps
  <2>2. slots' = slots /\ UNCHANGED <<loaded, crowd, source, phase, call>>
    BY <1>1 DEF CreateSource, UpdateSource, DeleteSource, SetStatus, obsVars
  <2>3. Limited'
    BY <2>1, <2>2, OthersLimited DEF Paired
  <2> QED  BY <2>1, <2>3 DEF Paired, IInv
<1>2. ASSUME NEW l \in Loops, TaskStep(l)  PROVE IInv'
  <2>1. Paired'
    BY <1>2, TaskStepKeeps
  <2>2. slots' = slots /\ UNCHANGED <<loaded, crowd, source, phase, call>>
    BY <1>2 DEF TaskStep, TaskCancelled, LoopTurns, PollBegins, PollEnds, TaskDies, ThreadEnds, obsVars
  <2>3. Limited'
    BY <2>1, <2>2, OthersLimited DEF Paired
  <2> QED  BY <2>1, <2>3 DEF Paired, IInv
<1>3. CASE UNCHANGED vars
  BY <1>3 DEF vars, obsVars, IInv, TypeOK, CallsOK, SlotsOK, PhaseOK, Alone, NoOrphans, SlotIsPolled,
     Alive, Limited, SourceOf, Claimed, Registered, Adding, Running
<1> QED  BY <1>1, <1>2, <1>3, CallStepInv, RequestStepInv, LifespanStepInv
         DEF Next, RowStep, RequestStep

-----------------------------------------------------------------------------
(* One reader. *)

\* A thread belongs to a task that has polled.
ThreadsOK == \A l \in Loops : thread[l] => task[l] \in {"polling", "cancelled", "ended"}

\* Until the registry is cleared, what reads a source is in its slot, or the row is
\* deleted and no later call connects the source again.
ReadersOK ==
  phase # "stopped" =>
    \A l \in Loops : Reads(l) /\ source[l] \notin overlapped =>
      slots[source[l]] = l \/ status[source[l]] = "deleted"

\* Nothing reads a source while a call connects it.
FreshOK ==
  \A c \in Callers : call[c].op = "adding" /\ SourceOf(c) \notin overlapped =>
    \A l \in Loops : source[l] = SourceOf(c) => ~Reads(l)

\* Rows are deleted only by requests.
RowsOK == phase \in {"down", "starting"} => \A s \in Sources : status[s] # "deleted"

RInv == ThreadsOK /\ ReadersOK /\ FreshOK /\ RowsOK /\ OneReader

\* A step that makes no reader and begins no connection.
Quiet ==
  /\ ThreadsOK' /\ RowsOK'
  /\ UNCHANGED source /\ overlapped \subseteq overlapped'
  /\ phase = "stopped" => phase' = "stopped"
  /\ \A l \in Loops : Reads(l)' => Reads(l)
  /\ \A c \in Callers : call'[c].op = "adding" => call'[c] = call[c]
  /\ \A s \in Sources :
       /\ status[s] = "deleted" => status'[s] = "deleted"
       /\ slots'[s] = slots[s] \/ status'[s] = "deleted" \/ phase' = "stopped"

LEMMA QuietKeeps ==
  ASSUME IInv, RInv, Quiet
  PROVE  RInv'
<1>1. \A l \in Loops : source[l] \in Sources
  BY Typed DEF IInv
<1>2. ReadersOK'
  BY <1>1 DEF RInv, ReadersOK, Quiet
<1>3. FreshOK'
  BY DEF RInv, FreshOK, Quiet, SourceOf
<1>4. OneReader'
  BY DEF RInv, OneReader, Quiet
<1> QED  BY <1>2, <1>3, <1>4 DEF RInv, Quiet

\* A connection begins for a source that nothing reads.
LEMMA ConnectingReads ==
  ASSUME IInv, RInv, NEW c \in Callers, NEW s \in Sources, NEW l, Connecting(c, s, l),
         call[c] = Idle, slots[s] = NoLoop, status[s] # "deleted", phase # "stopped",
         UNCHANGED <<status, phase, slots, thread>>
  PROVE  RInv'
<1>1. /\ l \in Loops /\ task[l] = "none" /\ overlapped \subseteq overlapped'
      /\ \A k \in Loops : source'[k] = IF k = l THEN s ELSE source[k]
      /\ \A k \in Loops : task'[k] = IF k = l THEN "connecting" ELSE task[k]
  BY DEF Connecting
<1>2. ~thread[l] /\ ~Reads(l)'
  BY <1>1 DEF RInv, ThreadsOK, Reads, Alive
<1>3. \A k \in Loops : Reads(k)' => k # l /\ Reads(k) /\ source'[k] = source[k]
  BY <1>1, <1>2 DEF Reads, Alive
<1>4. ThreadsOK' /\ RowsOK'
  BY <1>1, <1>2 DEF RInv, ThreadsOK, RowsOK
<1>5. ReadersOK'
  BY <1>1, <1>3 DEF RInv, ReadersOK
<1>6. s \notin overlapped => \A k \in Loops : source[k] = s => ~Reads(k)
  BY Typed DEF RInv, ReadersOK, IInv
<1>7. FreshOK'
  <2> SUFFICES ASSUME NEW d \in Callers, call'[d].op = "adding", SourceOf(d)' \notin overlapped',
                      NEW k \in Loops, source'[k] = SourceOf(d)', Reads(k)'
               PROVE  FALSE
    BY DEF FreshOK
  <2>1. CASE d = c
    BY <1>1, <1>3, <1>6, <2>1, OthersKeepSource
  <2>2. CASE d # c
    <3>1. call[d].op = "adding" /\ SourceOf(d)' = SourceOf(d)
      BY <2>2, OthersKeepSource
    <3> QED  BY <1>1, <1>3, <3>1 DEF RInv, FreshOK
  <2> QED  BY <2>1, <2>2
<1>8. OneReader'
  BY <1>1, <1>3 DEF RInv, OneReader
<1> QED  BY <1>4, <1>5, <1>7, <1>8 DEF RInv

\* The connector of a call becomes the reader of its source.
LEMMA ConnectedReads ==
  ASSUME IInv, RInv, NEW c \in Callers, Connected(c)
  PROVE  RInv'
<1> DEFINE l == call[c].loop
<1>1. /\ call[c].op = "adding" /\ l \in Loops /\ task[l] = "connecting" /\ source[l] \in Sources
      /\ \A k \in Loops : task'[k] = IF k = l THEN "looping" ELSE task[k]
      /\ \A u \in Sources : slots'[u] = IF u = source[l] THEN l ELSE slots[u]
      /\ \A d \in Callers : call'[d] = IF d = c THEN Idle ELSE call[d]
      /\ UNCHANGED <<status, phase, source, overlapped, thread>>
  BY Typed DEF IInv, Connected, CallsOK, obsVars
<1>2. source[l] \notin overlapped => \A k \in Loops : source[k] = source[l] => ~Reads(k)
  BY <1>1 DEF RInv, FreshOK, SourceOf
<1>3. \A k \in Loops : k # l => (Reads(k)' <=> Reads(k))
  BY <1>1 DEF Reads, Alive
<1>4. ThreadsOK' /\ RowsOK'
  BY <1>1 DEF RInv, ThreadsOK, RowsOK
<1>5. ReadersOK'
  <2> SUFFICES ASSUME phase # "stopped", NEW k \in Loops, Reads(k)', source[k] \notin overlapped
               PROVE  slots'[source[k]] = k \/ status[source[k]] = "deleted"
    BY <1>1 DEF ReadersOK
  <2>1. source[k] \in Sources
    BY Typed DEF IInv
  <2>2. CASE k = l
    BY <1>1, <2>1, <2>2
  <2>3. CASE k # l
    BY <1>1, <1>2, <1>3, <2>1, <2>3 DEF RInv, ReadersOK
  <2> QED  BY <2>2, <2>3
<1>6. FreshOK'
  <2> SUFFICES ASSUME NEW d \in Callers, call'[d].op = "adding", SourceOf(d)' \notin overlapped,
                      NEW k \in Loops, source[k] = SourceOf(d)', Reads(k)'
               PROVE  FALSE
    BY <1>1 DEF FreshOK
  <2>1. d # c /\ call[d].op = "adding" /\ SourceOf(d)' = SourceOf(d)
    BY <1>1 DEF Idle, SourceOf
  <2>2. SourceOf(d) # source[l]
    BY <1>1, <2>1 DEF IInv, Alone, SourceOf
  <2> QED  BY <1>3, <2>1, <2>2 DEF RInv, FreshOK
<1>7. OneReader'
  BY <1>1, <1>2, <1>3 DEF RInv, OneReader
<1> QED  BY <1>4, <1>5, <1>6, <1>7 DEF RInv

\* A task that is stopped reads no more than it did.
LEMMA StoppingReads ==
  ASSUME IInv, RInv, NEW c \in Callers, NEW l \in Loops, Stopping(c, l), thread' = thread
  PROVE  /\ ThreadsOK' /\ \A k \in Loops : Reads(k)' => Reads(k)
         /\ \A d \in Callers : call'[d].op = "adding" => call'[d] = call[d]
<1>1. ThreadsOK'
  BY DEF RInv, ThreadsOK, Stopping, Alive
<1>2. \A k \in Loops : Reads(k)' => Reads(k)
  BY DEF Stopping, Reads, Alive
<1>3. \A d \in Callers : call'[d].op = "adding" => call'[d] = call[d]
  BY DEF Stopping
<1> QED  BY <1>1, <1>2, <1>3

LEMMA RequestReads ==
  ASSUME IInv, RInv, NEW c \in Requests, NEW s \in Sources, AddSource(c, s) \/ RemoveSource(c, s)
  PROVE  RInv'
<1>1. CASE AddSource(c, s)
  <2>1. PICK l \in Loops : Connecting(c, s, l)
    BY <1>1, ConnectFacts, Typed DEF AddSource, IInv
  <2> QED  BY <1>1, <2>1, Typed, ConnectingReads DEF AddSource, IInv
<1>2. CASE RemoveSource(c, s) /\ slots[s] # NoLoop
  <2>1. Stopping(c, slots[s]) /\ slots[s] \in Loops /\ c \in Callers
    BY <1>2, StopFacts, Typed DEF RemoveSource, IInv
  <2>2. /\ status[s] = "deleted" /\ phase = "serving" /\ overlapped \subseteq overlapped'
        /\ UNCHANGED <<status, phase, source, thread>>
        /\ \A u \in Sources : slots'[u] = slots[u] \/ u = s
    BY <1>2, Typed DEF RemoveSource, NoteOverlap, IInv
  <2>3. Quiet
    BY <2>1, <2>2, StoppingReads DEF Quiet, RInv, RowsOK
  <2> QED  BY <2>3, QuietKeeps
<1>3. CASE RemoveSource(c, s) /\ slots[s] = NoLoop
  <2>1. /\ overlapped \subseteq overlapped'
        /\ UNCHANGED <<status, phase, source, thread, task, call>>
        /\ \A u \in Sources : slots'[u] = slots[u]
    BY <1>3, Typed DEF RemoveSource, NoteOverlap, IInv
  <2>2. Quiet
    BY <2>1 DEF Quiet, RInv, ThreadsOK, RowsOK, Reads, Alive
  <2> QED  BY <2>2, QuietKeeps
<1> QED  BY <1>1, <1>2, <1>3

LEMMA LifespanReads ==
  ASSUME IInv, RInv, LifespanStep
  PROVE  RInv'
<1>1. ASSUME NEW s \in Sources, StartNext(s)  PROVE RInv'
  <2>1. PICK l \in Loops : Connecting(Lifespan, s, l)
    BY <1>1, ConnectFacts, Typed DEF StartNext, IInv
  <2>2. slots[s] = NoLoop /\ status[s] # "deleted" /\ phase = "starting" /\ call[Lifespan] = Idle
    BY <1>1 DEF StartNext, IInv, PhaseOK, RInv, RowsOK
  <2> QED  BY <1>1, <2>1, <2>2, Typed, ConnectingReads DEF StartNext, IInv
<1>2. ASSUME NEW l \in Loops, StopNext(l)  PROVE RInv'
  <2>1. Stopping(Lifespan, l) /\ Lifespan \in Callers
    BY <1>2, StopFacts, Typed DEF StopNext, IInv
  <2>2. UNCHANGED <<status, phase, source, slots, overlapped, thread>> /\ phase = "stopping"
    BY <1>2 DEF StopNext, obsVars
  <2>3. Quiet
    BY <2>1, <2>2, StoppingReads DEF Quiet, RInv, RowsOK
  <2> QED  BY <2>3, QuietKeeps
<1>3. CASE Start \/ Started \/ Stop \/ Stopped
  <2>1. /\ UNCHANGED <<status, source, task, thread, call, overlapped>>
        /\ UNCHANGED slots \/ phase' = "stopped"
        /\ phase # "stopped" /\ (phase' \in {"down", "starting"} => phase = "down")
    BY <1>3 DEF Start, Started, Stop, Stopped, obsVars
  <2>2. Quiet
    BY <2>1 DEF Quiet, RInv, ThreadsOK, RowsOK, Reads, Alive
  <2> QED  BY <2>2, QuietKeeps
<1> QED  BY <1>1, <1>2, <1>3 DEF LifespanStep

LEMMA NextReads == IInv /\ RInv /\ [Next]_vars => RInv'
<1> SUFFICES ASSUME IInv, RInv, [Next]_vars PROVE RInv'
  OBVIOUS
<1>1. ASSUME NEW s \in Sources, CreateSource(s) \/ UpdateSource(s) \/ DeleteSource(s)
      PROVE  RInv'
  <2>1. /\ phase = "serving" /\ UNCHANGED <<phase, source, slots, task, thread, call, overlapped>>
        /\ \A u \in Sources : status[u] = "deleted" => status'[u] = "deleted"
    BY <1>1, Typed DEF CreateSource, UpdateSource, DeleteSource, SetStatus, Live, obsVars, IInv, TypeOK
  <2>2. Quiet
    BY <2>1 DEF Quiet, RInv, ThreadsOK, RowsOK, Reads, Alive
  <2> QED  BY <2>2, QuietKeeps
<1>2. ASSUME NEW l \in Loops, TaskStep(l)  PROVE RInv'
  <2>1. /\ UNCHANGED <<status, phase, source, slots, call, overlapped>>
        /\ \A k \in Loops : k # l => task'[k] = task[k] /\ thread'[k] = thread[k]
    BY <1>2, Typed DEF IInv, TypeOK, obsVars,
       TaskStep, TaskCancelled, LoopTurns, PollBegins, PollEnds, TaskDies, ThreadEnds
  <2>2. /\ thread'[l] => task'[l] \in {"polling", "cancelled", "ended"}
        /\ Reads(l)' => Reads(l)
    BY <1>2, Typed DEF IInv, TypeOK, RInv, ThreadsOK, Reads, Alive,
       TaskStep, TaskCancelled, LoopTurns, PollBegins, PollEnds, TaskDies, ThreadEnds
  <2>3. Quiet
    BY <2>1, <2>2 DEF Quiet, RInv, ThreadsOK, RowsOK, Reads, Alive
  <2> QED  BY <2>3, QuietKeeps
<1>3. ASSUME NEW c \in Callers, ConnectFails(c) \/ Closed(c)  PROVE RInv'
  <2>1. /\ UNCHANGED <<status, phase, source, slots, thread, overlapped>>
        /\ \A d \in Callers : call'[d] = IF d = c THEN Idle ELSE call[d]
        /\ \A k \in Loops : task'[k] = task[k] \/ (task[k] = "connecting" /\ task'[k] = "ended")
    BY <1>3, Typed DEF IInv, CallsOK, ConnectFails, Closed, obsVars
  <2>2. Quiet
    BY <2>1 DEF Quiet, RInv, ThreadsOK, RowsOK, Reads, Alive, Idle
  <2> QED  BY <2>2, QuietKeeps
<1>4. CASE UNCHANGED vars
  <2>1. Quiet
    BY <1>4 DEF vars, obsVars, Quiet, RInv, ThreadsOK, RowsOK, Reads, Alive
  <2> QED  BY <2>1, QuietKeeps
<1> QED  BY <1>1, <1>2, <1>3, <1>4, ConnectedReads, RequestReads, LifespanReads
         DEF Next, RowStep, CallStep, RequestStep

LEMMA InitReads == Init => RInv
BY ManagerAssumption DEF Init, RInv, ThreadsOK, ReadersOK, FreshOK, RowsOK, OneReader, Reads, Alive, Idle

-----------------------------------------------------------------------------
(* The theorems. *)

LEMMA Invariant == Spec => []IInv
<1> QED  BY InitInv, NextInv, PTL DEF Spec

\* Types: every variable of the registry keeps to its type.
THEOREM TypeCorrect == Spec => []TypeOK
<1>1. IInv => TypeOK
  BY DEF IInv
<1> QED  BY <1>1, Invariant, PTL

\* One entry per source_id: a task that polls is the one its source's slot
\* names, unless two calls for the source overlapped, however many requests
\* add and remove sources while others wait for a connection or a task.
THEOREM SlotsNameTheirTasks == Spec => []NoOrphans
<1>1. IInv => NoOrphans
  BY DEF IInv
<1> QED  BY <1>1, Invariant, PTL

\* A slot the registry shows while the application is up has a task that polls,
\* unless an exception ended that task: the step that ends it leaves the slot.
THEOREM SlotsArePolled == Spec => []SlotIsPolled
<1>1. IInv => SlotIsPolled
  BY DEF IInv
<1> QED  BY <1>1, Invariant, PTL

\* No two connectors of a source read it at once, the threads that cancelled tasks
\* leave behind included, unless two calls for the source overlapped: a deleted row
\* is not connected again, and until stop() clears the registry what reads a live
\* source is in its slot, which add_source respects.
THEOREM OneReaderPerSource == Spec => []OneReader
<1>1. RInv => OneReader
  BY DEF RInv
<1>2. Spec => []RInv
  BY Invariant, InitReads, NextReads, PTL DEF Spec
<1> QED  BY <1>1, <1>2, PTL

\* The limit of a tenant is exceeded only by what start() loaded, or by fewer
\* sources than there were calls in flight for the tenant at once: the checks of
\* add_source read the registry before they await connect().
THEOREM LimitUpToCrowd == Spec => []TenantLimit
<1>1. IInv => TenantLimit
  <2> SUFFICES ASSUME IInv, NEW t \in Tenants
               PROVE  \/ Cardinality(Registered(t)) <= Cardinality(LoadedOf(t))
                      \/ Cardinality(Registered(t)) < MaxSources + crowd[t]
    BY DEF TenantLimit, LoadedOf
  <2>1. Cardinality(Registered(t)) <= Claimed(t)
    BY Counts DEF IInv, Claimed
  <2>2. CASE phase \notin {"down", "starting"}
    BY <2>1, <2>2, Counts DEF IInv, Limited, LoadedOf
  <2>3. CASE phase \in {"down", "starting"}
    <3>1. Registered(t) \subseteq LoadedOf(t)
      BY <2>3 DEF IInv, PhaseOK, Registered, LoadedOf
    <3> QED  BY <3>1, Counts, FS_Subset DEF IInv
  <2> QED  BY <2>2, <2>3
<1> QED  BY <1>1, Invariant, PTL
=============================================================================
