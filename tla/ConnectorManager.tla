-------------------------- MODULE ConnectorManager --------------------------
(***************************************************************************)
(* The registry of connectors of services/connector_manager.py and the     *)
(* rows of log_sources that routers/v1/admin/sources.py edits.             *)
(*                                                                         *)
(* The manager runs on one event loop: a step here is what a coroutine     *)
(* does between two awaits.  start(), stop() and the requests that call    *)
(* add_source() and remove_source() all suspend while a connector connects *)
(* or while a cancelled task ends, and other coroutines run meanwhile.     *)
(*                                                                         *)
(* Nothing in the application calls the manager yet.  The callers are      *)
(* those its docstrings name: the lifespan runs start() before and stop()  *)
(* after the requests are served, add_source() is called for a live row    *)
(* and remove_source() for a deleted one.  What a poll loop does with the  *)
(* entries is PollLoop; here it turns, and each turn polls in a thread,    *)
(* which goes on to its end when the task that awaits it is cancelled.     *)
(***************************************************************************)
EXTENDS Naturals, FiniteSets

CONSTANTS Sources,     \* ids of the rows of log_sources
          Tenants,
          TenantOf,    \* the tenant of each source
          Requests,    \* request handlers that can be in flight together
          Lifespan,    \* the lifespan handler, which runs start() and stop()
          MaxSources,  \* Tenant.max_sources, as add_source receives it
          MaxLoops     \* bound: connectors created in one life of the process

ASSUME ManagerAssumption ==
  /\ IsFiniteSet(Sources) /\ IsFiniteSet(Requests)
  /\ Sources # {}
  /\ Lifespan \notin Requests
  /\ TenantOf \in [Sources -> Tenants]
  /\ MaxSources \in Nat /\ MaxLoops \in Nat

Callers == Requests \cup {Lifespan}

Loops  == 1..MaxLoops
NoLoop == 0
Idle   == [op |-> "idle", loop |-> NoLoop]

VARIABLES
  status,   \* of each row: "absent", "active", "paused" or "deleted"
  phase,    \* "down", "starting", "serving", "stopping", "stopped"
  pending,  \* what start() has yet to start, or stop() yet to stop
  slots,    \* ConnectorManager._slots: the loop registered for each source
  source,   \* the source each connector was made for
  task,     \* "none", "connecting", "looping" (at the head of its loop), "polling"
            \* (in a turn of it), "cancelled", "ended"
  thread,   \* a thread runs the connector's poll()
  open,     \* the connector holds its file or its database connection
  call,     \* what each caller is suspended in
  \* observers
  died,       \* tasks that an exception ended
  loaded,     \* the sources start() loaded
  overlapped, \* sources two calls were in flight for at once
  crowd       \* of each tenant: the most add_source calls ever in flight at once

obsVars == <<died, loaded, overlapped, crowd>>
vars == <<status, phase, pending, slots, source, task, thread, open, call, obsVars>>

\* ConnectorManager._running
Running == phase \in {"starting", "serving"}

Registered(t) == {s \in Sources : slots[s] # NoLoop /\ TenantOf[s] = t}

\* The callers that are suspended on behalf of a source.
Busy(s) == {c \in Callers : call[c].op # "idle" /\ source[call[c].loop] = s}

\* The requests that are adding a source of a tenant.
Adding(t) == {c \in Requests : call[c].op = "adding" /\ TenantOf[source[call[c].loop]] = t}

Alive(l) == task[l] \in {"looping", "polling"}

NoteOverlap(s) ==
  overlapped' = IF Busy(s) = {} THEN overlapped ELSE overlapped \cup {s}

-----------------------------------------------------------------------------
Init ==
  /\ status \in [Sources -> {"absent", "active", "paused"}]
  /\ phase = "down" /\ pending = {}
  /\ slots = [s \in Sources |-> NoLoop]
  /\ source = [l \in Loops |-> CHOOSE s \in Sources : TRUE]
  /\ task = [l \in Loops |-> "none"]
  /\ thread = [l \in Loops |-> FALSE]
  /\ open = [l \in Loops |-> FALSE]
  /\ call = [c \in Callers |-> Idle]
  /\ died = {} /\ loaded = {} /\ overlapped = {}
  /\ crowd = [t \in Tenants |-> 0]

-----------------------------------------------------------------------------
(* The rows.  The handlers have no await between the check and the commit.  *)
(* A name that is taken refuses a request, by a 409 or, when a deleted row  *)
(* has it, by the UniqueConstraint: no row changes, so there is no step.    *)

Live(s) == status[s] \in {"active", "paused"}

\* The handler writes the row of s.
SetStatus(s, st) ==
  /\ phase = "serving"
  /\ status' = [status EXCEPT ![s] = st]
  /\ UNCHANGED <<phase, pending, slots, source, task, thread, open, call, obsVars>>

CreateSource(s) == status[s] = "absent" /\ SetStatus(s, "active")

\* update_source with the active flag; the manager is not told.
UpdateSource(s) ==
  Live(s) /\ \E st \in {"active", "paused"} : SetStatus(s, st)

\* delete_source: deleted_at is set and the active flag falls.
DeleteSource(s) == Live(s) /\ SetStatus(s, "deleted")

-----------------------------------------------------------------------------
(* _start_connector, on behalf of caller c. *)

BeginConnect(c, s) ==
  \E l \in Loops :
    /\ task[l] = "none"
    /\ \A k \in Loops : k < l => task[k] # "none"
    /\ source' = [source EXCEPT ![l] = s]
    /\ task' = [task EXCEPT ![l] = "connecting"]
    /\ call' = [call EXCEPT ![c] = [op |-> "adding", loop |-> l]]
    /\ NoteOverlap(s)

\* connect() returned: the task is created and the slot registered, over
\* whatever slot the source may have by now.
Connected(c) ==
  LET l == call[c].loop IN
  /\ call[c].op = "adding"
  /\ task' = [task EXCEPT ![l] = "looping"]
  /\ open' = [open EXCEPT ![l] = TRUE]
  /\ slots' = [slots EXCEPT ![source[l]] = l]
  /\ call' = [call EXCEPT ![c] = Idle]
  /\ UNCHANGED <<status, phase, pending, source, thread, obsVars>>

\* Fault: the slot is registered although there is no task.
SlotWithoutTask(c) ==
  LET l == call[c].loop IN
  /\ call[c].op = "adding"
  /\ task' = [task EXCEPT ![l] = "ended"]
  /\ slots' = [slots EXCEPT ![source[l]] = l]
  /\ call' = [call EXCEPT ![c] = Idle]
  /\ UNCHANGED <<status, phase, pending, source, thread, open, obsVars>>

\* connect() raised: logged, and no poll task.
ConnectFails(c) ==
  LET l == call[c].loop IN
  /\ call[c].op = "adding"
  /\ task' = [task EXCEPT ![l] = "ended"]
  /\ call' = [call EXCEPT ![c] = Idle]
  /\ UNCHANGED <<status, phase, pending, slots, source, thread, open, obsVars>>

-----------------------------------------------------------------------------
(* _stop_slot, on behalf of caller c. *)

BeginStop(c, l) ==
  /\ task' = [task EXCEPT ![l] = IF Alive(l) THEN "cancelled" ELSE @]
  /\ call' = [call EXCEPT ![c] = [op |-> "stopping", loop |-> l]]

\* The awaited task is done: the connector is closed, also under a thread that the
\* task left behind.
Closed(c) ==
  LET l == call[c].loop IN
  /\ call[c].op = "stopping"
  /\ task[l] = "ended"
  /\ open' = [open EXCEPT ![l] = FALSE]
  /\ call' = [call EXCEPT ![c] = Idle]
  /\ UNCHANGED <<status, phase, pending, slots, source, task, thread, obsVars>>

\* CancelledError is raised at the await the task is in; a thread it awaits is
\* left running.
TaskCancelled(l) ==
  /\ task[l] = "cancelled"
  /\ task' = [task EXCEPT ![l] = "ended"]
  /\ UNCHANGED <<status, phase, pending, slots, source, thread, open, call, obsVars>>

-----------------------------------------------------------------------------
(* _poll_loop. *)

\* Fault: while True.
LoopForEver(l) ==
  /\ task[l] = "looping"
  /\ task' = [task EXCEPT ![l] = "polling"]
  /\ UNCHANGED <<status, phase, pending, slots, source, thread, open, call, obsVars>>

\* The head of the loop: while self._running.
LoopTurns(l) ==
  /\ task[l] = "looping"
  /\ task' = [task EXCEPT ![l] = IF Running THEN "polling" ELSE "ended"]
  /\ UNCHANGED <<status, phase, pending, slots, source, thread, open, call, obsVars>>

\* The sleep is over and poll() is awaited in a thread.
PollBegins(l) ==
  /\ task[l] = "polling" /\ ~thread[l]
  /\ thread' = [thread EXCEPT ![l] = TRUE]
  /\ UNCHANGED <<status, phase, pending, slots, source, task, open, call, obsVars>>

\* poll() returned or raised, and what follows it in the turn is done.
PollEnds(l) ==
  /\ task[l] = "polling" /\ thread[l]
  /\ thread' = [thread EXCEPT ![l] = FALSE]
  /\ task' = [task EXCEPT ![l] = "looping"]
  /\ UNCHANGED <<status, phase, pending, slots, source, open, call, obsVars>>

\* What follows poll() raises outside every try: flush_state, the session factory
\* of _persist_state, _dispatch.  The task ends and its slot stays.
TaskDies(l) ==
  /\ task[l] = "polling" /\ thread[l]
  /\ thread' = [thread EXCEPT ![l] = FALSE]
  /\ task' = [task EXCEPT ![l] = "ended"]
  /\ died' = died \cup {l}
  /\ UNCHANGED <<status, phase, pending, slots, source, open, call, loaded, overlapped, crowd>>

\* A thread that no task awaits any more comes to its end.
ThreadEnds(l) ==
  /\ task[l] \in {"cancelled", "ended"} /\ thread[l]
  /\ thread' = [thread EXCEPT ![l] = FALSE]
  /\ UNCHANGED <<status, phase, pending, slots, source, task, open, call, obsVars>>

-----------------------------------------------------------------------------
(* The public methods. *)

\* Fault: one source too many.
LimitOffByOne(c, s) ==
  /\ phase = "serving"
  /\ call[c] = Idle
  /\ status[s] = "active"
  /\ slots[s] = NoLoop
  /\ Cardinality(Registered(TenantOf[s])) <= MaxSources
  /\ BeginConnect(c, s)
  /\ LET n == Cardinality(Adding(TenantOf[s])) + 1
     IN  crowd' = [crowd EXCEPT ![TenantOf[s]] = IF n > @ THEN n ELSE @]
  /\ UNCHANGED <<status, phase, pending, slots, thread, open, died, loaded>>

\* Fault: a source that has a slot is started again; the limit counts the others.
AddedTwice(c, s) ==
  /\ phase = "serving"
  /\ call[c] = Idle
  /\ status[s] = "active"
  /\ Cardinality(Registered(TenantOf[s]) \ {s}) < MaxSources
  /\ BeginConnect(c, s)
  /\ LET n == Cardinality(Adding(TenantOf[s])) + 1
     IN  crowd' = [crowd EXCEPT ![TenantOf[s]] = IF n > @ THEN n ELSE @]
  /\ UNCHANGED <<status, phase, pending, slots, thread, open, died, loaded>>

\* add_source: a source that has a slot is left alone, a tenant at its limit is
\* refused; both checks read _slots before connect() is awaited.
AddSource(c, s) ==
  /\ phase = "serving"
  /\ call[c] = Idle
  /\ status[s] = "active"
  /\ slots[s] = NoLoop
  /\ Cardinality(Registered(TenantOf[s])) < MaxSources
  /\ BeginConnect(c, s)
  /\ LET n == Cardinality(Adding(TenantOf[s])) + 1
     IN  crowd' = [crowd EXCEPT ![TenantOf[s]] = IF n > @ THEN n ELSE @]
  /\ UNCHANGED <<status, phase, pending, slots, thread, open, died, loaded>>

\* Fault: the slot is dropped and its task goes on.
SlotForgotten(c, s) ==
  /\ phase = "serving"
  /\ call[c] = Idle
  /\ status[s] = "deleted"
  /\ NoteOverlap(s)
  /\ slots' = [slots EXCEPT ![s] = NoLoop]
  /\ UNCHANGED <<status, phase, pending, source, task, thread, open, call, died, loaded, crowd>>

\* remove_source: the slot leaves the registry at once, if there is one.
RemoveSource(c, s) ==
  /\ phase = "serving"
  /\ call[c] = Idle
  /\ status[s] = "deleted"
  /\ NoteOverlap(s)
  /\ slots' = [slots EXCEPT ![s] = NoLoop]
  /\ \/ /\ slots[s] = NoLoop
        /\ UNCHANGED <<task, call>>
     \/ /\ slots[s] # NoLoop
        /\ BeginStop(c, slots[s])
  /\ UNCHANGED <<status, phase, pending, source, thread, open, died, loaded, crowd>>

\* start(): _load_active_sources, which looks at the active flag only ...
Start ==
  /\ phase = "down"
  /\ phase' = "starting"
  /\ loaded' = {s \in Sources : status[s] = "active"}
  /\ pending' = loaded'
  /\ UNCHANGED <<status, slots, source, task, thread, open, call, died, overlapped, crowd>>

\* ... then one source after the other ...
StartNext(s) ==
  /\ phase = "starting"
  /\ call[Lifespan] = Idle
  /\ s \in pending
  /\ pending' = pending \ {s}
  /\ BeginConnect(Lifespan, s)
  /\ UNCHANGED <<status, phase, slots, thread, open, died, loaded, crowd>>

\* ... and the application is up.
Started ==
  /\ phase = "starting"
  /\ call[Lifespan] = Idle
  /\ pending = {}
  /\ phase' = "serving"
  /\ UNCHANGED <<status, pending, slots, source, task, thread, open, call, obsVars>>

\* Fault: stop() takes the sources that have no slot as well.
StopTakesAll ==
  /\ phase = "serving"
  /\ phase' = "stopping"
  /\ pending' = {slots[s] : s \in Sources}
  /\ UNCHANGED <<status, slots, source, task, thread, open, call, obsVars>>

\* stop(): _running falls, and the sources registered now are stopped in turn.
Stop ==
  /\ phase = "serving"
  /\ phase' = "stopping"
  /\ pending' = {slots[s] : s \in {u \in Sources : slots[u] # NoLoop}}
  /\ UNCHANGED <<status, slots, source, task, thread, open, call, obsVars>>

StopNext(l) ==
  /\ phase = "stopping"
  /\ call[Lifespan] = Idle
  /\ l \in pending
  /\ pending' = pending \ {l}
  /\ BeginStop(Lifespan, l)
  /\ UNCHANGED <<status, phase, slots, source, thread, open, obsVars>>

Stopped ==
  /\ phase = "stopping"
  /\ call[Lifespan] = Idle
  /\ pending = {}
  /\ phase' = "stopped"
  /\ slots' = [s \in Sources |-> NoLoop]
  /\ UNCHANGED <<status, pending, source, task, thread, open, call, obsVars>>

-----------------------------------------------------------------------------
RowStep == \E s \in Sources : CreateSource(s) \/ UpdateSource(s) \/ DeleteSource(s)

CallStep(c) == Connected(c) \/ ConnectFails(c) \/ Closed(c)

TaskStep(l) == \/ TaskCancelled(l) \/ LoopTurns(l) \/ PollBegins(l) \/ PollEnds(l)
               \/ TaskDies(l) \/ ThreadEnds(l)

RequestStep == \E c \in Requests, s \in Sources : AddSource(c, s) \/ RemoveSource(c, s)

LifespanStep == \/ Start \/ Started \/ Stop \/ Stopped
                \/ \E s \in Sources : StartNext(s)
                \/ \E l \in Loops : StopNext(l)

Next == \/ RowStep
        \/ \E c \in Callers : CallStep(c)
        \/ \E l \in Loops : TaskStep(l)
        \/ RequestStep
        \/ LifespanStep

Spec == Init /\ [][Next]_vars

\* connect(), poll() and close() return, the event loop runs every task that is
\* ready, and start() and stop() go on once they have begun.
Fairness == /\ \A c \in Callers : WF_vars(CallStep(c))
            /\ \A l \in Loops : WF_vars(TaskStep(l))
            /\ WF_vars(Stopped)
            /\ WF_vars(\E l \in Loops : StopNext(l))

FairSpec == Spec /\ Fairness

-----------------------------------------------------------------------------
\* Types.
TypeOK ==
  /\ status \in [Sources -> {"absent", "active", "paused", "deleted"}]
  /\ phase \in {"down", "starting", "serving", "stopping", "stopped"}
  /\ pending \subseteq Sources \cup Loops
  /\ slots \in [Sources -> Loops \cup {NoLoop}]
  /\ source \in [Loops -> Sources]
  /\ task \in [Loops -> {"none", "connecting", "looping", "polling", "cancelled", "ended"}]
  /\ thread \in [Loops -> BOOLEAN] /\ open \in [Loops -> BOOLEAN]
  /\ call \in [Callers -> [op : {"idle", "adding", "stopping"}, loop : Loops \cup {NoLoop}]]
  /\ died \subseteq Loops /\ loaded \subseteq Sources
  /\ overlapped \subseteq Sources
  /\ crowd \in [Tenants -> Nat]

\* "One entry per source_id" means one task per source: a task that polls is the
\* one its source's slot names, so that remove_source and stop can reach it,
\* unless two calls for that source were in flight at once.
NoOrphans ==
  \A l \in Loops :
    Running /\ Alive(l) /\ source[l] \notin overlapped
      => slots[source[l]] = l

\* The limit of a tenant holds up to the requests in flight: add_source exceeds
\* max_sources by less than the number of calls that were connecting sources of
\* the tenant at the same time, so not at all when the calls come one by one.
\* What start() loads is not counted against the limit.
TenantLimit ==
  \A t \in Tenants :
    \/ Cardinality(Registered(t)) <= Cardinality({s \in loaded : TenantOf[s] = t})
    \/ Cardinality(Registered(t)) < MaxSources + crowd[t]

\* Two connectors of one source never read it at once, also while the thread of a
\* cancelled task is still in its poll, or each would hand on what the other does
\* and save its own cursor over the other's.  Calls for that source that were in
\* flight at once are the exception.
Reads(l) == Alive(l) \/ task[l] = "cancelled" \/ thread[l]

OneReader ==
  \A l, m \in Loops :
    l # m /\ source[l] = source[m] /\ source[l] \notin overlapped => ~(Reads(l) /\ Reads(m))

\* A slot that is registered while the application is up has a task that polls,
\* unless an exception ended it: nothing replaces that task or frees its slot.
SlotIsPolled ==
  \A s \in Sources :
    Running /\ slots[s] # NoLoop => Alive(slots[s]) \/ slots[s] \in died

\* After stop() every task ends, those included that no slot names and those
\* whose connect() returns only after the shutdown has begun.
StopEndsEveryTask ==
  (phase = "stopping") ~> [](\A l \in Loops : task[l] \in {"none", "ended"})
=============================================================================
