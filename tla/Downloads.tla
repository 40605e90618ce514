----------------------------- MODULE Downloads ------------------------------
(***************************************************************************)
(* The download queue (ec-hub/src/services/downloads.rs): rows in the      *)
(* database, one worker task per started row, a semaphore that lets        *)
(* `Permits` of them transfer, and the API calls create (and copy), pause, *)
(* resume, cancel and delete that run beside the workers on other threads. *)
(* A call is several database statements and lock acquisitions with awaits *)
(* between them: each is an action.  The hub may be shut down, or crash,   *)
(* and start again.                                                        *)
(*                                                                         *)
(* A worker's poll is not interrupted by the cancellation of its token:    *)
(* "finishing" and "failing" are polls in progress, "wait", "work" and     *)
(* "rescan" the awaits at which run()'s biased select sees the token first.*)
(* What a transfer does is the module Transfer; here it ends or fails.     *)
(***************************************************************************)
EXTENDS Naturals, FiniteSets

CONSTANTS
  Rows,        \* row ids
  Places,      \* (kind, repository, host, root, source copy) of a row
  Callers,     \* API calls that may be in progress at a time
  Permits,     \* the semaphore
  MaxQueue,
  MaxCalls,    \* API calls in all
  MaxFails,    \* transfers that fail
  MaxRestarts, \* shutdowns and crashes
  MaxAbandons  \* clients that disconnect while their call waits

QueueConstants ==
  /\ IsFiniteSet(Rows) /\ Permits \in Nat \ {0} /\ MaxQueue \in Nat \ {0}
  /\ MaxCalls \in Nat /\ MaxFails \in Nat /\ MaxRestarts \in Nat
  /\ MaxAbandons \in Nat /\ "hub" \notin Callers

Tasks == 1..MaxCalls   \* the task that call number t starts, if it starts one
NoTask == 0
Hub == "hub"           \* lifespan_stop, which calls shutdown()
Actors == Callers \cup {Hub}

Unfinished == {"queued", "running", "paused"}
Gone == {"absent", "deleted"}

VARIABLES
  row,       \* per row: its state in the database, or "absent" | "deleted"
  place,     \* per row: where it writes
  task,      \* per task: its row, where its run() is, whether its token is cancelled
  tasks,     \* per row: the task registered for it, or NoTask
  intent,    \* per row: what the next cancellation means
  act,       \* per actor: the call it is in, where, and the task it will start or stops
  todo,      \* rows shutdown() has still to stop
  up,        \* "up" | "stopping" | "down"
  calls, fails, restarts, abandons

vars == <<row, place, task, tasks, intent, act, todo, up, calls, fails, restarts, abandons>>
budget == <<calls, fails, restarts, abandons>>

Idle == [at |-> "idle"]
Live(t) == t # NoTask /\ task[t].at \notin {"none", "ended"}
HoldingLeaked == {t \in Tasks : task[t].at \in {"work", "finishing", "failing", "rescan", "ended"}}
Holding == {t \in Tasks : task[t].at \in {"work", "finishing", "failing", "rescan"}}

Init ==
  /\ row = [r \in Rows |-> "absent"] /\ place = [r \in Rows |-> CHOOSE p \in Places : TRUE]
  /\ task = [t \in Tasks |-> [at |-> "none", token |-> "open"]]
  /\ tasks = [r \in Rows |-> NoTask] /\ intent = [r \in Rows |-> "none"]
  /\ act = [a \in Actors |-> Idle] /\ todo = {} /\ up = "up"
  /\ calls = 0 /\ fails = 0 /\ restarts = 0 /\ abandons = 0

\* Inner::set: an UPDATE, which changes nothing when the row is gone.
Set(r, s) == row' = IF row[r] \in Gone THEN row ELSE [row EXCEPT ![r] = s]

Step(a, at) == act' = [act EXCEPT ![a].at = at]
Done(a) == act' = [act EXCEPT ![a] = Idle]

-----------------------------------------------------------------------------
(* API calls: the statements of each, in order.                            *)

\* A call begins with the row it names (create: with a new one).
Call(c, op, r) ==
  /\ up = "up" /\ act[c] = Idle /\ calls < MaxCalls
  /\ calls' = calls + 1
  /\ \/ op = "create" /\ row[r] = "absent" /\ \A a \in Callers : act[a] # Idle => act[a].row # r
     \/ op # "create" /\ row[r] \notin Gone
  /\ act' = [act EXCEPT ![c] = [at |-> "look", op |-> op, row |-> r,
                                task |-> IF op \in {"create", "resume"} THEN calls' ELSE NoTask]]
  /\ UNCHANGED <<row, place, task, tasks, intent, todo, up, fails, restarts, abandons>>

\* Which states each call accepts.
Accepts(op, s) ==
  CASE op = "pause"  -> s \in {"queued", "running"}
    [] op = "resume" -> s \in {"paused", "failed"}
    [] op = "cancel" -> s \notin {"completed", "cancelled"} \cup Gone
    [] op = "delete" -> s \notin Gone

Look(c) ==
  /\ act[c].at = "look" /\ act[c].op # "create"
  /\ IF ~Accepts(act[c].op, row[act[c].row]) THEN Done(c)
     ELSE Step(c, IF act[c].op = "resume" THEN "requeue" ELSE "take")
  /\ UNCHANGED <<row, place, task, tasks, intent, todo, up, budget>>

\* create() and copy(): check_capacity, then check_duplicate, then the INSERT.
HasRoom == Cardinality({r \in Rows : row[r] \in Unfinished}) < MaxQueue

CheckCapacity(c) ==
  /\ act[c].at = "look" /\ act[c].op = "create"
  /\ IF HasRoom THEN Step(c, "dup") ELSE Done(c)
  /\ UNCHANGED <<row, place, task, tasks, intent, todo, up, budget>>

CheckDuplicate(c) ==
  /\ act[c].at = "dup"
  /\ \E p \in Places :
       /\ place' = [place EXCEPT ![act[c].row] = p]
       /\ IF \E r \in Rows : row[r] \in Unfinished /\ place[r] = p
          THEN Done(c) ELSE Step(c, "insert")
  /\ UNCHANGED <<row, task, tasks, intent, todo, up, budget>>

Insert(c) ==
  /\ act[c].at = "insert"
  /\ row' = [row EXCEPT ![act[c].row] = "queued"]
  /\ Step(c, "unintent")
  /\ UNCHANGED <<place, task, tasks, intent, todo, up, budget>>

\* resume(): the row is queued again ...
Requeue(c) ==
  /\ act[c].at = "requeue"
  /\ Set(act[c].row, "queued")
  /\ Step(c, "unintent")
  /\ UNCHANGED <<place, task, tasks, intent, todo, up, budget>>

\* ... and start(): the old intent is forgotten, a task is spawned and
\* registered; the token of one it replaces is cancelled, not awaited.
ForgetIntent(c) ==
  /\ act[c].at = "unintent"
  /\ intent' = [intent EXCEPT ![act[c].row] = "none"]
  /\ Step(c, "spawn")
  /\ UNCHANGED <<row, place, task, tasks, todo, up, budget>>

Spawn(c) ==
  /\ act[c].at = "spawn"
  /\ LET r == act[c].row
         new == act[c].task
     IN /\ task' = [t \in Tasks |->
                      IF t = new THEN [at |-> "born", row |-> r, token |-> "open"]
                      ELSE IF t = tasks[r] THEN [task[t] EXCEPT !.token = "cancelled"]
                      ELSE task[t]]
        /\ tasks' = [tasks EXCEPT ![r] = new]
  /\ Done(c)
  /\ UNCHANGED <<row, place, intent, todo, up, budget>>

\* stop_task(): the task is taken out of the table ...
Take(a) ==
  /\ act[a].at = "take"
  /\ act' = [act EXCEPT ![a].at = "intend", ![a].task = tasks[act[a].row]]
  /\ tasks' = [tasks EXCEPT ![act[a].row] = NoTask]
  /\ UNCHANGED <<row, place, task, intent, todo, up, budget>>

\* ... the intent is noted ...
IntentOf(op) == IF op \in {"pause", "shutdown"} THEN "paused" ELSE "cancelled"

Intend(a) ==
  /\ act[a].at = "intend"
  /\ intent' = [intent EXCEPT ![act[a].row] = IntentOf(act[a].op)]
  /\ Step(a, "stop")
  /\ UNCHANGED <<row, place, task, tasks, todo, up, budget>>

\* ... and a task that has not ended is cancelled and awaited.  Without one the
\* row is set to paused here when that is the intent.
Cancels(t) == task[t].token = "cancelled"
StoppableAtWork(t) == Live(t) /\ task[t].at = "work"
Stoppable(t) == Live(t)

Stop(a) ==
  /\ act[a].at = "stop"
  /\ LET t == act[a].task IN
     IF Stoppable(t)
     THEN /\ task' = [task EXCEPT ![t].token = "cancelled"]
          /\ Step(a, "await")
          /\ UNCHANGED row
     ELSE /\ IF IntentOf(act[a].op) = "paused" THEN Set(act[a].row, "paused") ELSE UNCHANGED row
          /\ Step(a, "after")
          /\ UNCHANGED task
  /\ UNCHANGED <<place, tasks, intent, todo, up, budget>>

Await(a) ==
  /\ act[a].at = "await" /\ ~Live(act[a].task)
  /\ Step(a, "after")
  /\ UNCHANGED <<row, place, task, tasks, intent, todo, up, budget>>

\* The client went away: its handler is dropped where it waits, for the task or,
\* in delete() of a row without one, for the node to remove the partial.  (The
\* same wait of cancel() follows its last change of the row and is left out.)
Waits(c) ==
  \/ act[c].at = "await"
  \/ act[c].at = "after" /\ act[c].op = "delete" /\ row[act[c].row] # "completed"

Abandon(c) ==
  /\ Waits(c) /\ abandons < MaxAbandons
  /\ abandons' = abandons + 1
  /\ Done(c)
  /\ UNCHANGED <<row, place, task, tasks, intent, todo, up, calls, fails, restarts>>

\* What each call does once its task has ended.
AfterPause(r) == IF row[r] \in {"queued", "running"} THEN Set(r, "paused") ELSE UNCHANGED row

After(c) ==
  /\ act[c].at = "after" /\ c # Hub
  /\ LET r == act[c].row  op == act[c].op IN
       \/ op = "pause"  /\ AfterPause(r)
       \/ op = "cancel" /\ Set(r, "cancelled")
       \/ op = "delete" /\ row' = [row EXCEPT ![r] = "deleted"]
  /\ Done(c)
  /\ UNCHANGED <<place, task, tasks, intent, todo, up, budget>>

-----------------------------------------------------------------------------
(* run(): the worker.                                                      *)

TaskAt(t, at) == task' = [task EXCEPT ![t].at = at]

\* A row that was deleted before the first step is not run.
Born(t) ==
  /\ task[t].at = "born"
  /\ TaskAt(t, IF row[task[t].row] \in Gone THEN "ended" ELSE "wait")
  /\ UNCHANGED <<row, place, tasks, intent, act, todo, up, budget>>

HasPermitMore == Cardinality(Holding) <= Permits
HasPermit == Cardinality(Holding) < Permits

Acquire(t) ==
  /\ task[t].at = "wait" /\ ~Cancels(t) /\ HasPermit
  /\ Set(task[t].row, "running")
  /\ TaskAt(t, "work")
  /\ UNCHANGED <<place, tasks, intent, act, todo, up, budget>>

\* The last await of the transfer is over: this poll ends it.
WorkEnds(t) ==
  /\ task[t].at = "work" /\ ~Cancels(t)
  /\ \/ TaskAt(t, "finishing") /\ UNCHANGED fails
     \/ fails < MaxFails /\ fails' = fails + 1 /\ TaskAt(t, "failing")
  /\ UNCHANGED <<row, place, tasks, intent, act, todo, up, calls, restarts, abandons>>

\* execute(): "completed", then the await of library.rescan.
Completed(t) ==
  /\ task[t].at = "finishing"
  /\ Set(task[t].row, "completed")
  /\ TaskAt(t, "rescan")
  /\ UNCHANGED <<place, tasks, intent, act, todo, up, budget>>

Rescanned(t) ==
  /\ task[t].at = "rescan" /\ ~Cancels(t)
  /\ TaskAt(t, "ended")
  /\ UNCHANGED <<row, place, tasks, intent, act, todo, up, budget>>

Failed(t) ==
  /\ task[t].at = "failing"
  /\ Set(task[t].row, "failed")
  /\ TaskAt(t, "ended")
  /\ UNCHANGED <<place, tasks, intent, act, todo, up, budget>>

\* The token first: the permit is released, the row takes the intended state,
\* and a cancelled one's partial is deleted before the task ends.
Intended(r) == IF intent[r] = "none" THEN "paused" ELSE intent[r]

Cancelled(t) ==
  /\ task[t].at \in {"wait", "work", "rescan"} /\ Cancels(t)
  /\ LET r == task[t].row IN
     /\ Set(r, Intended(r))
     /\ TaskAt(t, IF Intended(r) = "cancelled" THEN "cleanup" ELSE "ended")
  /\ UNCHANGED <<place, tasks, intent, act, todo, up, budget>>

\* cleanup_partial: a bounded call to the node.
CleanupEndsNever(t) == FALSE
CleanupEnds(t) == task[t].at = "cleanup"

CleanedUp(t) ==
  /\ CleanupEnds(t)
  /\ TaskAt(t, "ended")
  /\ UNCHANGED <<row, place, tasks, intent, act, todo, up, budget>>

-----------------------------------------------------------------------------
(* The hub process.                                                        *)

\* lifespan_stop, after the connections are closed: every registered task is
\* stopped, one after the other.
Shutdown ==
  /\ up = "up" /\ restarts < MaxRestarts /\ \A c \in Callers : act[c] = Idle
  /\ restarts' = restarts + 1
  /\ up' = "stopping"
  /\ todo' = {r \in Rows : tasks[r] # NoTask}
  /\ UNCHANGED <<row, place, task, tasks, intent, act, calls, fails, abandons>>

ShutdownNext ==
  /\ up = "stopping" /\ act[Hub] = Idle
  /\ \E r \in todo :
       /\ todo' = todo \ {r}
       /\ act' = [act EXCEPT ![Hub] = [at |-> "take", op |-> "shutdown", row |-> r, task |-> NoTask]]
  /\ UNCHANGED <<row, place, task, tasks, intent, up, budget>>

ShutdownStopped ==
  /\ act[Hub].at = "after"
  /\ Done(Hub)
  /\ UNCHANGED <<row, place, task, tasks, intent, todo, up, budget>>

\* The process ends, at the end of a shutdown or by a crash: only the rows stay.
Exit ==
  /\ \/ up = "stopping" /\ todo = {} /\ act[Hub] = Idle /\ UNCHANGED restarts
     \/ up # "down" /\ restarts < MaxRestarts /\ restarts' = restarts + 1
  /\ up' = "down" /\ todo' = {}
  /\ task' = [t \in Tasks |-> IF Live(t) THEN [task[t] EXCEPT !.at = "ended"] ELSE task[t]]
  /\ tasks' = [r \in Rows |-> NoTask] /\ intent' = [r \in Rows |-> "none"]
  /\ act' = [a \in Actors |-> Idle]
  /\ UNCHANGED <<row, place, calls, fails, abandons>>

\* recover(): "rows left running by a previous process become resumable".
RecoversRunning == {"running"}
Recovers == {"queued", "running"}

Start ==
  /\ up = "down"
  /\ up' = "up"
  /\ row' = [r \in Rows |-> IF row[r] \in Recovers THEN "paused" ELSE row[r]]
  /\ UNCHANGED <<place, task, tasks, intent, act, todo, budget>>

-----------------------------------------------------------------------------
Ops == {"create", "pause", "resume", "cancel", "delete"}

StopTask(a) == Take(a) \/ Intend(a) \/ Stop(a) \/ Await(a)
Handler(c) == \/ Look(c) \/ CheckCapacity(c) \/ CheckDuplicate(c) \/ Insert(c)
              \/ Requeue(c) \/ ForgetIntent(c) \/ Spawn(c) \/ After(c)
Worker(t) == \/ Born(t) \/ Acquire(t) \/ WorkEnds(t) \/ Completed(t) \/ Rescanned(t)
             \/ Failed(t) \/ Cancelled(t) \/ CleanedUp(t)

Next == \/ \E c \in Callers, op \in Ops, r \in Rows : Call(c, op, r)
        \/ \E a \in Actors : StopTask(a)
        \/ \E c \in Callers : Handler(c) \/ Abandon(c)
        \/ \E t \in Tasks : Worker(t)
        \/ Shutdown \/ ShutdownNext \/ ShutdownStopped \/ Exit \/ Start

Spec == Init /\ [][Next]_vars

\* The runtime schedules every worker and every handler; a transfer ends, and a
\* waiter of the (fair) semaphore gets a permit that keeps becoming free.
Fairness ==
  /\ \A a \in Actors : WF_vars(StopTask(a))
  /\ \A c \in Callers : WF_vars(Handler(c))
  /\ \A t \in Tasks : WF_vars(Worker(t)) /\ SF_vars(Acquire(t))
  /\ WF_vars(ShutdownNext) /\ WF_vars(ShutdownStopped) /\ WF_vars(Exit) /\ WF_vars(Start)

LiveSpec == Spec /\ Fairness

-----------------------------------------------------------------------------
(* Correctness.                                                            *)

States == Gone \cup Unfinished \cup {"failed", "completed", "cancelled"}

\* Every variable has its type, and no more workers than permits transfer.
TypeOK ==
  /\ row \in [Rows -> States] /\ place \in [Rows -> Places]
  /\ tasks \in [Rows -> Tasks \cup {NoTask}]
  /\ intent \in [Rows -> {"none", "paused", "cancelled"}]
  /\ todo \subseteq Rows /\ up \in {"up", "stopping", "down"}
  /\ Cardinality(Holding) <= Permits

Busy(r) == \E a \in Actors : act[a] # Idle /\ act[a].row = r
Workers(r) == {t \in Tasks : task[t].at # "none" /\ Live(t) /\ task[t].row = r}

\* A row that says queued or running has a worker that runs it, or one that was
\* told to stop and will say so: after a crash, an abandoned call or a cancelled
\* task no row waits for nobody.
UnfinishedHasWorker ==
  \A r \in Rows : up = "up" /\ row[r] \in {"queued", "running"} /\ ~Busy(r)
                    => Live(tasks[r]) \/ \E t \in Workers(r) : Cancels(t)

\* A row that is parked or gone has no worker that still writes: only one that
\* was told to stop.  Unless a client went away while its call waited: then the
\* worker it cancelled may park the row of a worker that a later resume started.
ParkedHasNoWorker ==
  abandons = 0 =>
    \A r \in Rows : row[r] \in {"paused", "cancelled", "failed", "deleted"} /\ ~Busy(r)
                      => \A t \in Workers(r) : Cancels(t)

\* docs/diagrams/state-download.md: `completed` is final.
CompletedIsFinal ==
  [][\A r \in Rows : row[r] = "completed" => row'[r] \in {"completed", "deleted"}]_vars

\* Every queued row is run, parked, cancelled or deleted: no permit is lost.
Queued(r) == row[r] = "queued"
QueuedEnds == \A r \in Rows : Queued(r) ~> ~Queued(r)

\* Every call returns, whatever the worker it waits for is doing.
CallsReturn == \A c \in Callers : act[c] # Idle ~> act[c] = Idle
=============================================================================
