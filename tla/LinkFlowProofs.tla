--------------------------- MODULE LinkFlowProofs ---------------------------
(***************************************************************************)
(* LinkFlow's safety properties for every window, frame size, batch size   *)
(* and stream length that satisfy FlowConstants.                           *)
(*                                                                         *)
(* The conservation laws are not inductive by themselves: they need the    *)
(* order in which a request's phases happen (Phases), where every byte of  *)
(* the two streams is (Positions), and how much credit a batch may hold    *)
(* back (Batches).                                                         *)
(*                                                                         *)
(* Then the download queue, for any rows, callers, permits and calls, as   *)
(* long as no two calls in progress name one row (OneAtATime): two that do *)
(* are what the code does not guard against.                               *)
(***************************************************************************)
EXTENDS TransferSuite, FiniteSetTheorems, TLAPS

\* The order of a request's phases on both sides and on the wire.
Phases ==
  /\ ended => writing = "idle" /\ hubOut = 0 /\ written = UploadLen
  /\ endFrame => ended
  /\ nodeEnded => ended /\ ~endFrame /\ upData = 0
  /\ writing = "checked" => hubOut = 0 /\ sendCredit > 0 /\ written < UploadLen
  /\ cancelFrame => cancelSent
  /\ cancelled => cancelSent
  /\ resFrame = "none" <=> handler \in {"read", "send"}
  /\ handler # "send" => nodeOut = 0
  /\ finished # "no" <=> resFrame = "delivered"
  /\ finished # "no" => downData = 0 /\ upCredit = 0
  /\ handler = "send" \/ resFrame = "ok" \/ finished = "ok" => consumed = UploadLen
  /\ resFrame = "ok" \/ finished = "ok" => sent = ReplyLen

\* Where the bytes of the two streams are.
Positions ==
  /\ written <= UploadLen
  /\ received = consumed + chunks
  /\ received + upData + hubOut <= written
  /\ Registered => received + upData + hubOut = written
  /\ written + sendCredit + upCredit <= granted
  /\ read + queued + downData + nodeOut <= sent
  /\ ~cancelSent => read + queued + downData + nodeOut = sent
  /\ sent + nodeCredit + downCredit + unacked <= read + WINDOW

\* Credit held back for batching is less than a batch.
Batches ==
  /\ finished = "no" => unacked < CREDIT_BATCH
  /\ ~nodeEnded => consumed + WINDOW - granted < GRANT_STEP

\* The inductive invariant.
FlowInv == /\ TypeOK /\ UploadCredit /\ DownloadCredit /\ NobodyAccused
           /\ Phases /\ Positions /\ Batches

-----------------------------------------------------------------------------
LEMMA FlowInit == Init => FlowInv
<1> SUFFICES ASSUME Init PROVE FlowInv
  OBVIOUS
<1> USE FlowConstants DEF FlowConstants, Init
<1>1. TypeOK
  BY DEF TypeOK, isUpload
<1>2. UploadCredit /\ DownloadCredit /\ NobodyAccused
  BY DEF UploadCredit, DownloadCredit, NobodyAccused
<1>3. Phases
  BY DEF Phases, isUpload
<1>4. Positions /\ Batches
  BY DEF Positions, Batches
<1> QED
  BY <1>1, <1>2, <1>3, <1>4 DEF FlowInv

LEMMA FlowStep == FlowInv /\ [Next]_vars => FlowInv'
<1> SUFFICES ASSUME FlowInv, [Next]_vars PROVE FlowInv'
  OBVIOUS
<1> USE FlowConstants DEF FlowConstants
<1>1. ASSUME NEW n \in 1..MAX_DATA, WriteTake(n) PROVE FlowInv'
  <2> USE <1>1 DEF WriteTake, MayWrite, FlowInv, nodeVars, wireVars
  <2>1. TypeOK'
    BY DEF TypeOK
  <2>2. UploadCredit' /\ DownloadCredit' /\ NobodyAccused'
    BY DEF TypeOK, UploadCredit, DownloadCredit, NobodyAccused, Registered, Phases
  <2>3. Phases'
    BY DEF TypeOK, Phases
  <2>4. Positions' /\ Batches'
    BY DEF TypeOK, Positions, Batches, Registered, Phases
  <2> QED
    BY <2>1, <2>2, <2>3, <2>4 DEF FlowInv
<1>2. ASSUME NEW n \in 1..MAX_DATA, Consume(n) PROVE FlowInv'
  BY <1>2 DEF Consume, CreditDue, CreditBack, Reopened, FlowInv, TypeOK, UploadCredit, DownloadCredit,
         NobodyAccused, Phases, Positions, Batches, Registered, LinkUp, isUpload,
         hubVars, nodeVars, wireVars
<1>3. ASSUME NEW n \in 1..MAX_DATA, OnData(n) PROVE FlowInv'
  BY <1>3 DEF OnData, FlowInv, TypeOK, UploadCredit, DownloadCredit,
         NobodyAccused, Phases, Positions, Batches, Registered, LinkUp, isUpload,
         hubVars, nodeVars, wireVars
<1>4. ASSUME NEW n \in 1..upCredit, OnCredit(n) PROVE FlowInv'
  BY <1>4 DEF OnCredit, Min2, FlowInv, TypeOK, UploadCredit, DownloadCredit,
         NobodyAccused, Phases, Positions, Batches, Registered, LinkUp, isUpload,
         hubVars, nodeVars, wireVars
<1>5. ASSUME NEW n \in 1..MAX_DATA, AddData(n) PROVE FlowInv'
  BY <1>5 DEF AddData, FlowInv, TypeOK, UploadCredit, DownloadCredit,
         NobodyAccused, Phases, Positions, Batches, Registered, LinkUp, isUpload,
         hubVars, nodeVars, wireVars
<1>6. ASSUME NEW n \in 1..MAX_DATA, ReadUpload(n) PROVE FlowInv'
  BY <1>6 DEF ReadUpload, Grant, GrantDue, FlowInv, TypeOK, UploadCredit, DownloadCredit,
         NobodyAccused, Phases, Positions, Batches, Registered, LinkUp, isUpload,
         hubVars, nodeVars, wireVars
<1>7. ASSUME NEW n \in 1..MAX_DATA, SendTake(n) PROVE FlowInv'
  BY <1>7 DEF SendTake, MaySend, FlowInv, TypeOK, UploadCredit, DownloadCredit,
         NobodyAccused, Phases, Positions, Batches, Registered, LinkUp, isUpload,
         hubVars, nodeVars, wireVars
<1>8. ASSUME NEW n \in 1..downCredit, AddCredit(n) PROVE FlowInv'
  BY <1>8 DEF AddCredit, FlowInv, TypeOK, UploadCredit, DownloadCredit,
         NobodyAccused, Phases, Positions, Batches, Registered, LinkUp, isUpload,
         hubVars, nodeVars, wireVars
<1>9. CASE WriteCheck
  BY <1>9 DEF WriteCheck, FlowInv, TypeOK, UploadCredit, DownloadCredit,
         NobodyAccused, Phases, Positions, Batches, Registered, LinkUp, isUpload,
         hubVars, nodeVars, wireVars
<1>10. CASE WriteSend
  BY <1>10 DEF WriteSend, FlowInv, TypeOK, UploadCredit, DownloadCredit,
         NobodyAccused, Phases, Positions, Batches, Registered, LinkUp, isUpload,
         hubVars, nodeVars, wireVars
<1>11. CASE End
  BY <1>11 DEF End, FlowInv, TypeOK, UploadCredit, DownloadCredit,
         NobodyAccused, Phases, Positions, Batches, Registered, LinkUp, isUpload,
         hubVars, nodeVars, wireVars
<1>12. CASE Cancel
  BY <1>12 DEF Cancel, FlowInv, TypeOK, UploadCredit, DownloadCredit,
         NobodyAccused, Phases, Positions, Batches, Registered, LinkUp, isUpload,
         hubVars, nodeVars, wireVars
<1>13. CASE OnRes
  BY <1>13 DEF OnRes, FlowInv, TypeOK, UploadCredit, DownloadCredit,
         NobodyAccused, Phases, Positions, Batches, Registered, LinkUp, isUpload,
         hubVars, nodeVars, wireVars
<1>14. CASE OnEnd
  BY <1>14 DEF OnEnd, FlowInv, TypeOK, UploadCredit, DownloadCredit,
         NobodyAccused, Phases, Positions, Batches, Registered, LinkUp, isUpload,
         hubVars, nodeVars, wireVars
<1>15. CASE OnCancel
  BY <1>15 DEF OnCancel, FlowInv, TypeOK, UploadCredit, DownloadCredit,
         NobodyAccused, Phases, Positions, Batches, Registered, LinkUp, isUpload,
         hubVars, nodeVars, wireVars
<1>16. CASE ReadUploadEnd
  BY <1>16 DEF ReadUploadEnd, BodyComplete, FlowInv, TypeOK, UploadCredit, DownloadCredit,
         NobodyAccused, Phases, Positions, Batches, Registered, LinkUp, isUpload,
         hubVars, nodeVars, wireVars
<1>17. CASE SendPut
  BY <1>17 DEF SendPut, FlowInv, TypeOK, UploadCredit, DownloadCredit,
         NobodyAccused, Phases, Positions, Batches, Registered, LinkUp, isUpload,
         hubVars, nodeVars, wireVars
<1>18. CASE Succeed
  BY <1>18 DEF Succeed, Answer, FlowInv, TypeOK, UploadCredit, DownloadCredit,
         NobodyAccused, Phases, Positions, Batches, Registered, LinkUp, isUpload,
         hubVars, nodeVars, wireVars
<1>19. CASE Stop
  BY <1>19 DEF Stop, Answer, FlowInv, TypeOK, UploadCredit, DownloadCredit,
         NobodyAccused, Phases, Positions, Batches, Registered, LinkUp, isUpload,
         hubVars, nodeVars, wireVars
<1>20. CASE TimeOut
  BY <1>20 DEF TimeOut, Answer, Blocked, BlockedReading, FlowInv, TypeOK, UploadCredit, DownloadCredit,
         NobodyAccused, Phases, Positions, Batches, Registered, LinkUp, isUpload,
         hubVars, nodeVars, wireVars
<1>21. CASE Fail
  BY <1>21 DEF Fail, Answer, FlowInv, TypeOK, UploadCredit, DownloadCredit,
         NobodyAccused, Phases, Positions, Batches, Registered, LinkUp, isUpload,
         hubVars, nodeVars, wireVars
<1>22. CASE Forget
  BY <1>22 DEF Forget, FlowInv, TypeOK, UploadCredit, DownloadCredit,
         NobodyAccused, Phases, Positions, Batches, Registered, LinkUp, isUpload,
         hubVars, nodeVars, wireVars
<1>23. CASE UNCHANGED vars
  BY <1>23 DEF vars, FlowInv, TypeOK, UploadCredit, DownloadCredit,
         NobodyAccused, Phases, Positions, Batches, Registered, LinkUp, isUpload,
         hubVars, nodeVars, wireVars
<1> QED
  BY <1>1, <1>2, <1>3, <1>4, <1>5, <1>6, <1>7, <1>8, <1>9, <1>10, <1>11, <1>12, <1>13, <1>14, <1>15, <1>16, <1>17, <1>18, <1>19, <1>20, <1>21, <1>22, <1>23 DEF Next, Hub, Node

\* FlowInv holds in every reachable state: the step that combines the two
\* lemmas, cited by every theorem below.
THEOREM FlowInvariant == Spec => []FlowInv
  BY FlowInit, FlowStep, PTL DEF Spec

-----------------------------------------------------------------------------
(* What the code's two sides promise, each a consequence of FlowInv.       *)

\* The counters of `ReqState` and `RState` never go below zero.
THEOREM TypeCorrect == Spec => []TypeOK
<1>1. FlowInv => TypeOK
  BY DEF FlowInv
<1> QED
  BY <1>1, FlowInvariant, PTL

\* Credit is conserved both ways, whatever the constants.
THEOREM CreditConserved == Spec => [](UploadCredit /\ DownloadCredit)
<1>1. FlowInv => UploadCredit /\ DownloadCredit
  BY DEF FlowInv
<1> QED
  BY <1>1, FlowInvariant, PTL

\* on_data never drops the link of an honest node and add_data never refuses
\* an honest hub's upload.
THEOREM HonestPeersSafe == Spec => []NobodyAccused
<1>1. FlowInv => NobodyAccused
  BY DEF FlowInv
<1> QED
  BY <1>1, FlowInvariant, PTL

\* Batched credit cannot leave the two ends waiting for each other: this is
\* where CREDIT_BATCH <= WINDOW and GRANT_STEP <= WINDOW are needed.
THEOREM CreditNeverStalls == Spec => []NoCreditStall
<1>1. FlowInv => NoCreditStall
  BY FlowConstants DEF FlowConstants, FlowInv, TypeOK, UploadCredit,
     DownloadCredit, Phases, Positions, Batches, Registered, NoCreditStall
<1> QED
  BY <1>1, FlowInvariant, PTL

\* A request answered `ok` moved every byte of its body and, unless it was
\* cancelled, every byte of its reply.
THEOREM OkMeansWhole == Spec => []OkIsWhole
<1>1. FlowInv => OkIsWhole
  BY DEF FlowInv, TypeOK, Phases, Positions, OkIsWhole
<1> QED
  BY <1>1, FlowInvariant, PTL

-----------------------------------------------------------------------------
(* Each direction implements a pipe that holds at most WINDOW bytes.       *)

\* The hub's write() and the node's read_upload() are a bounded pipe.
THEOREM UploadRefinesPipe == Spec => UpIsBoundedPipe
<1> USE FlowConstants DEF FlowConstants
<1>1. Init => Up!PipeInit
  BY DEF Init, Up!PipeInit
<1>2. FlowInv /\ [Next]_vars => [Up!Put \/ Up!Get]_Up!pvars
  <2> SUFFICES ASSUME FlowInv, [Next]_vars PROVE [Up!Put \/ Up!Get]_Up!pvars
    OBVIOUS
  <2> USE DEF FlowInv, TypeOK, Positions
  <2>1. ASSUME NEW n \in 1..MAX_DATA, WriteTake(n) PROVE Up!Put
    BY <2>1 DEF WriteTake, MayWrite, UploadCredit, nodeVars, Up!Put
  <2>2. ASSUME NEW n \in 1..MAX_DATA, ReadUpload(n) PROVE Up!Get
    BY <2>2 DEF ReadUpload, hubVars, Up!Get
  <2>3. CASE /\ ~ \E n \in 1..MAX_DATA : WriteTake(n)
             /\ ~ \E n \in 1..MAX_DATA : ReadUpload(n)
    BY <2>3 DEF Next, Hub, Node, vars, Consume, OnData, OnCredit, AddData, SendTake,
       AddCredit, WriteCheck, WriteSend, End, Cancel, OnRes, OnEnd, OnCancel,
       ReadUploadEnd, SendPut, Succeed, Stop, TimeOut, Fail, Forget, Answer,
       hubVars, nodeVars, wireVars, Up!pvars
  <2> QED
    BY <2>1, <2>2, <2>3
<1> QED
  BY <1>1, <1>2, FlowInvariant, PTL DEF Spec, UpIsBoundedPipe, Up!PipeSpec

\* The node's send_data() and the hub's next() are a bounded pipe, even when
\* the hub throws away what arrives after a cancel.
THEOREM DownloadRefinesPipe == Spec => DownIsBoundedPipe
<1> USE FlowConstants DEF FlowConstants
<1>1. Init => Down!PipeInit
  BY DEF Init, Down!PipeInit
<1>2. FlowInv /\ [Next]_vars => [Down!Put \/ Down!Get]_Down!pvars
  <2> SUFFICES ASSUME FlowInv, [Next]_vars PROVE [Down!Put \/ Down!Get]_Down!pvars
    OBVIOUS
  <2> USE DEF FlowInv, TypeOK, Positions
  <2>1. ASSUME NEW n \in 1..MAX_DATA, SendTake(n) PROVE Down!Put
    BY <2>1 DEF SendTake, MaySend, hubVars, Down!Put
  <2>2. ASSUME NEW n \in 1..MAX_DATA, Consume(n) PROVE Down!Get
    BY <2>2 DEF Consume, nodeVars, Down!Get
  <2>3. CASE /\ ~ \E n \in 1..MAX_DATA : SendTake(n)
             /\ ~ \E n \in 1..MAX_DATA : Consume(n)
    BY <2>3 DEF Next, Hub, Node, vars, WriteTake, ReadUpload, OnData, OnCredit,
       AddData, AddCredit, WriteCheck, WriteSend, End, Cancel, OnRes, OnEnd,
       OnCancel, ReadUploadEnd, SendPut, Succeed, Stop, TimeOut, Fail, Forget,
       Answer, hubVars, nodeVars, wireVars, Down!pvars
  <2> QED
    BY <2>1, <2>2, <2>3
<1> QED
  BY <1>1, <1>2, FlowInvariant, PTL DEF Spec, DownIsBoundedPipe, Down!PipeSpec

\* The same as the run states it: both directions of one request.
THEOREM RequestRefinesPipes == Spec => PipesAreBounded
BY UploadRefinesPipe, DownloadRefinesPipe DEF PipesAreBounded

-----------------------------------------------------------------------------
(* The download queue.                                                     *)
(*                                                                         *)
(* A task whose token is open is the one that is registered for its row,   *)
(* or is in the hands of the call that is about to cancel it (Owned); so   *)
(* there is one such task per row.  What a row says while it waits or runs *)
(* is carried by that task, by a cancelled one that has not written its    *)
(* row yet, or by the call at work on it (Attended).  If no client went    *)
(* away, a cancelled task is awaited until it ends (Quiet).                *)

LEMMA CountsAre == \A S : Queue!Cardinality(S) = Cardinality(S) /\ Queue!IsFiniteSet(S) = IsFiniteSet(S)
BY DEF Queue!Cardinality, Cardinality, Queue!IsFiniteSet, IsFiniteSet

OneAtATime == \A a, b \in Queue!Actors : act[a] # Queue!Idle /\ act[b] # Queue!Idle /\ act[a].row = act[b].row => a = b

Unborn == [at |-> "none", token |-> "open"]
TaskType ==
  {Unborn} \cup [at : {"born", "wait", "work", "finishing", "failing", "rescan", "cleanup", "ended"},
                 row : Rows, token : {"open", "cancelled"}]
Starters == {"create", "resume"}
Stoppers == {"pause", "cancel", "delete", "shutdown"}
ActType ==
  {Queue!Idle} \cup [at : {"look", "requeue", "unintent", "spawn"}, op : {"resume"}, row : Rows, task : Queue!Tasks]
         \cup [at : {"look", "dup", "insert", "unintent", "spawn"}, op : {"create"}, row : Rows, task : Queue!Tasks]
         \cup [at : {"look", "take", "intend", "stop", "await", "after"}, op : Stoppers,
               row : Rows, task : Queue!Tasks \cup {Queue!NoTask}]

QueueTypes ==
  /\ row \in [Rows -> Queue!States] /\ place \in [Rows -> Places] /\ task \in [Queue!Tasks -> TaskType]
  /\ tasks \in [Rows -> Queue!Tasks \cup {Queue!NoTask}] /\ intent \in [Rows -> {"none", "paused", "cancelled"}]
  /\ act \in [Queue!Actors -> ActType] /\ todo \in SUBSET Rows /\ up \in {"up", "stopping", "down"}
  /\ calls \in Nat /\ abandons \in Nat

\* Who may act, and on what, in each phase of the process.
HubPhases ==
  /\ up = "up" => act[Queue!Hub] = Queue!Idle
  /\ up = "stopping" => \A c \in Callers : act[c] = Queue!Idle
  /\ up = "down" => /\ \A a \in Queue!Actors : act[a] = Queue!Idle
                    /\ \A t \in Queue!Tasks : ~Queue!Live(t)
                    /\ \A r \in Rows : tasks[r] = Queue!NoTask

\* A call that will start a task has its own number for it.
Starts(a) == act[a] # Queue!Idle /\ act[a].op \in Starters
TaskNumbers ==
  /\ \A t \in Queue!Tasks : t > calls => task[t] = Unborn
  /\ \A a \in Queue!Actors : Starts(a) => task[act[a].task] = Unborn /\ act[a].task <= calls
  /\ \A a, b \in Queue!Actors : Starts(a) /\ Starts(b) /\ act[a].task = act[b].task => a = b

\* A row that create has not inserted yet has nothing.
Early(a) == act[a].op = "create" /\ act[a].at \in {"look", "dup", "insert"}
FreshRows ==
  /\ \A r \in Rows : row[r] = "absent" =>
       /\ \A t \in Queue!Tasks : task[t] # Unborn => task[t].row # r
       /\ \A a \in Queue!Actors : act[a] # Queue!Idle /\ act[a].row = r => Early(a)
  /\ \A a \in Queue!Actors : act[a] # Queue!Idle /\ Early(a) => row[act[a].row] = "absent"
  /\ \A r \in todo : row[r] # "absent"

\* Whose a task is.
Holds(a) == act[a].at \in {"intend", "stop", "await", "after"}
Owned ==
  /\ \A r \in Rows : tasks[r] # Queue!NoTask =>
       task[tasks[r]] # Unborn /\ task[tasks[r]].row = r /\ task[tasks[r]].token = "open"
  /\ \A a \in Queue!Actors : Holds(a) =>
       /\ tasks[act[a].row] = Queue!NoTask
       /\ act[a].task # Queue!NoTask => task[act[a].task] # Unborn /\ task[act[a].task].row = act[a].row
       /\ act[a].task # Queue!NoTask /\ act[a].at \in {"intend", "stop"} => task[act[a].task].token = "open"
       /\ act[a].at = "await" => act[a].task # Queue!NoTask /\ task[act[a].task].token = "cancelled"
       /\ act[a].at = "after" => ~Queue!Live(act[a].task)
  /\ \A t \in Queue!Tasks : Queue!Live(t) /\ task[t].token = "open" =>
       \/ tasks[task[t].row] = t
       \/ \E a \in Queue!Actors : act[a].at \in {"intend", "stop"} /\ act[a].task = t
  /\ \A t \in Queue!Tasks : task[t].at = "cleanup" => task[t].token = "cancelled"

\* Who carries a row that waits or runs.
Starting(r) == \E a \in Queue!Actors : act[a].at \in {"unintent", "spawn"} /\ act[a].row = r
StoppingIt(r) == \E a \in Queue!Actors : act[a].at \in {"intend", "stop"} /\ act[a].row = r /\ Queue!Live(act[a].task)
Told(r) == \E t \in Queue!Tasks : /\ task[t].at \in {"born", "wait", "work", "finishing", "failing", "rescan"}
                                  /\ task[t].row = r /\ task[t].token = "cancelled"
Attended ==
  /\ up = "up" => \A r \in Rows : row[r] \in {"queued", "running"} =>
       Queue!Live(tasks[r]) \/ Told(r) \/ Starting(r) \/ StoppingIt(r)
  /\ \A t \in Queue!Tasks : task[t].at = "rescan" /\ task[t].token = "open" =>
       row[task[t].row] \notin {"queued", "running"} \/ Starting(task[t].row)

\* While no call was abandoned.
Parked == {"paused", "cancelled", "failed", "deleted"}
Quiet ==
  abandons = 0 =>
    /\ \A t \in Queue!Tasks : Queue!Live(t) /\ task[t].token = "cancelled" =>
         \E a \in Queue!Actors : act[a].at = "await" /\ act[a].task = t
    /\ \A t \in Queue!Tasks : Queue!Live(t) /\ task[t].token = "open" /\ row[task[t].row] \in Parked =>
         \E a \in Queue!Actors : Holds(a) /\ act[a].row = task[t].row
    /\ \A a \in Queue!Actors : act[a].at \in {"requeue", "unintent", "spawn"} =>
         /\ \A t \in Queue!Tasks : task[t] # Unborn /\ task[t].row = act[a].row => ~Queue!Live(t)
         /\ row[act[a].row] \in IF act[a].at = "requeue" THEN {"paused", "failed"} ELSE {"queued"}

QueueInv ==
  QueueTypes /\ HubPhases /\ TaskNumbers /\ FreshRows /\ Owned /\ Attended /\ Quiet /\ Cardinality(Queue!Holding) <= Permits
-----------------------------------------------------------------------------

LEMMA ActIs ==
  ASSUME NEW x \in ActType
  PROVE  /\ x = Queue!Idle <=> x.at = "idle"
         /\ x # Queue!Idle => x.row \in Rows /\ x.op \in Starters \cup Stoppers
         /\ x.at \in {"look", "dup", "insert", "requeue", "unintent", "spawn", "take", "intend", "stop",
                      "await", "after", "idle"}
         /\ x.at \in {"dup", "insert"} => x.op = "create"
         /\ x.at = "requeue" => x.op = "resume"
         /\ x.at \in {"unintent", "spawn"} => x.op \in Starters
         /\ x.at \in {"take", "intend", "stop", "await", "after"} => x.op \in Stoppers
         /\ x # Queue!Idle /\ x.op \in Starters => x.task \in Queue!Tasks
         /\ x # Queue!Idle => x.task \in Queue!Tasks \cup {Queue!NoTask}
BY DEF ActType, Queue!Idle, Starters, Stoppers

LEMMA TaskIs ==
  ASSUME NEW x \in TaskType
  PROVE  /\ x = Unborn <=> x.at = "none"
         /\ x.token \in {"open", "cancelled"}
         /\ x # Unborn => x.row \in Rows
         /\ x.at \in {"none", "born", "wait", "work", "finishing", "failing", "rescan", "cleanup", "ended"}
BY DEF TaskType, Unborn

LEMMA Numbered ==
  ASSUME Queue!QueueConstants, NEW t \in Queue!Tasks
  PROVE  t # Queue!NoTask /\ t \in Nat /\ (Queue!Live(t) <=> task[t].at \notin {"none", "ended"})
BY DEF Queue!QueueConstants, Queue!Tasks, Queue!NoTask, Queue!Live

\* One task with an open token per row.
LEMMA OpenOnce ==
  ASSUME Queue!QueueConstants, QueueTypes, Owned, OneAtATime, NEW t \in Queue!Tasks, NEW u \in Queue!Tasks,
         Queue!Live(t), Queue!Live(u), task[t].token = "open", task[u].token = "open", task[t].row = task[u].row
  PROVE  t = u
<1>1. \A v \in Queue!Tasks : v # Queue!NoTask
  BY Numbered
<1>2. ASSUME NEW v \in {t, u}, tasks[task[v].row] # v
      PROVE  \E a \in Queue!Actors : act[a].at \in {"intend", "stop"} /\ act[a].task = v /\ act[a] # Queue!Idle
                               /\ act[a].row = task[v].row /\ tasks[task[v].row] = Queue!NoTask
  <2>1. PICK a \in Queue!Actors : act[a].at \in {"intend", "stop"} /\ act[a].task = v
    BY <1>2 DEF Owned
  <2> QED
    BY <1>1, <2>1, ActIs DEF Owned, Holds, QueueTypes
<1>3. CASE tasks[task[t].row] = t
  BY <1>1, <1>2, <1>3
<1>4. CASE tasks[task[t].row] # t
  <2>1. tasks[task[u].row] = Queue!NoTask
    BY <1>2, <1>4
  <2> QED
    BY <1>1, <1>2, <1>4, <2>1 DEF OneAtATime
<1> QED
  BY <1>3, <1>4

\* A worker's step: its own place, and its row.
LEMMA WorkerKept ==
  ASSUME Queue!QueueConstants, QueueInv, OneAtATime, NEW t \in Queue!Tasks, NEW at, NEW r \in Rows,
         Queue!Live(t), task[t].row = r, task' = [task EXCEPT ![t].at = at],
         at \in {"wait", "work", "finishing", "failing", "rescan", "cleanup", "ended"},
         at = "cleanup" => task[t].token = "cancelled",
         \/ row' = row
         \/ /\ row[r] \notin Queue!Gone
            /\ \E s \in Queue!States \ Queue!Gone :
                 /\ row' = [row EXCEPT ![r] = s]
                 /\ s \in {"queued", "running"} => task[t].token = "open"
                 /\ s \in Parked => task[t].token = "cancelled" \/ at = "ended",
         \/ row'[r] \notin {"queued", "running"}
         \/ at \notin {"cleanup", "ended"} \/ task[t].at = "cleanup" \/ Starting(r),
         at = "rescan" => row'[r] \notin {"queued", "running"},
         UNCHANGED <<place, tasks, intent, act, todo, up, calls, abandons>>
  PROVE  QueueTypes' /\ HubPhases' /\ TaskNumbers' /\ FreshRows' /\ Owned' /\ Attended' /\ Quiet'
<1> USE DEF QueueInv
<1> DEFINE x == [task[t] EXCEPT !.at = at]
<1>1. task[t] \in TaskType /\ task[t] # Unborn /\ task[t].at \notin {"none", "ended"}
  BY Numbered, TaskIs DEF QueueTypes
<1>2. x \in TaskType /\ x.at = at /\ x.row = r /\ x.token = task[t].token /\ x # Unborn
  BY <1>1 DEF TaskType, Unborn
<1>3. task' = [task EXCEPT ![t] = x]
  OBVIOUS
<1> HIDE DEF x
<1>4. /\ task' \in [Queue!Tasks -> TaskType] /\ task'[t] = x /\ \A u \in Queue!Tasks \ {t} : task'[u] = task[u]
      /\ \A u \in Queue!Tasks : /\ task'[u].token = task[u].token
                                /\ task'[u] = Unborn <=> task[u] = Unborn
                                /\ task[u] # Unborn => task'[u].row = task[u].row
  BY <1>1, <1>2, <1>3 DEF QueueTypes
<1>5. \A u \in Queue!Tasks \cup {Queue!NoTask} : Queue!Live(u)' => Queue!Live(u)
  BY <1>1, <1>4, Numbered DEF Queue!Live
<1>6. /\ row' \in [Rows -> Queue!States] /\ \A q \in Rows \ {r} : row'[q] = row[q]
      /\ \A q \in Rows : row'[q] = "absent" <=> row[q] = "absent"
      /\ row[r] \in Queue!Gone => row'[r] = row[r]
  BY DEF QueueTypes, Queue!Gone
<1>7. QueueTypes'
  BY <1>4, <1>6 DEF QueueTypes
<1>8. HubPhases'
  BY <1>5 DEF HubPhases
<1>9. TaskNumbers'
  <2>1. ASSUME NEW a \in Queue!Actors, Starts(a) PROVE act[a].task \in Queue!Tasks
    BY <2>1, ActIs DEF Starts, QueueTypes
  <2> QED
    BY <1>4, <2>1 DEF TaskNumbers, Starts
<1>10. FreshRows'
  BY <1>4, <1>6, ActIs DEF FreshRows, Early, QueueTypes
<1>11. Owned'
  <2>1. ASSUME NEW q \in Rows, tasks'[q] # Queue!NoTask
        PROVE  task'[tasks'[q]] # Unborn /\ task'[tasks'[q]].row = q /\ task'[tasks'[q]].token = "open"
    BY <1>4, <2>1 DEF Owned, QueueTypes
  <2>2. ASSUME NEW a \in Queue!Actors, Holds(a)'
        PROVE  /\ tasks'[act'[a].row] = Queue!NoTask
               /\ act'[a].task # Queue!NoTask => task'[act'[a].task] # Unborn /\ task'[act'[a].task].row = act'[a].row
               /\ act'[a].task # Queue!NoTask /\ act'[a].at \in {"intend", "stop"} => task'[act'[a].task].token = "open"
               /\ act'[a].at = "await" => act'[a].task # Queue!NoTask /\ task'[act'[a].task].token = "cancelled"
               /\ act'[a].at = "after" => ~Queue!Live(act[a].task)'
    <3>1. act[a].task \in Queue!Tasks \cup {Queue!NoTask} /\ Holds(a)
      BY <2>2, ActIs DEF QueueTypes, Holds, Queue!Idle
    <3> QED
      BY <1>4, <1>5, <3>1 DEF Owned
  <2>3. ASSUME NEW u \in Queue!Tasks, Queue!Live(u)', task'[u].token = "open"
        PROVE  \/ tasks'[task'[u].row] = u
               \/ \E a \in Queue!Actors : act'[a].at \in {"intend", "stop"} /\ act'[a].task = u
    <3>1. task[u] # Unborn
      BY <1>5, <2>3, Numbered, TaskIs DEF QueueTypes
    <3> QED
      BY <1>4, <1>5, <2>3, <3>1 DEF Owned
  <2>4. ASSUME NEW u \in Queue!Tasks, task'[u].at = "cleanup" PROVE task'[u].token = "cancelled"
    BY <1>2, <1>4, <2>4 DEF Owned
  <2> QED
    BY <2>1, <2>2, <2>3, <2>4 DEF Owned
<1>12. task[t].token = "open" => tasks[r] = t \/ StoppingIt(r)
  <2> SUFFICES ASSUME task[t].token = "open", tasks[r] # t PROVE StoppingIt(r)
    OBVIOUS
  <2>1. PICK a \in Queue!Actors : act[a].at \in {"intend", "stop"} /\ act[a].task = t
    BY DEF Owned
  <2> QED
    BY <1>4, <2>1, Numbered DEF StoppingIt, Owned, Holds, Queue!Live
<1>13. /\ \A q \in Rows : Starting(q)' <=> Starting(q)
       /\ \A q \in Rows : StoppingIt(q) /\ (q # r \/ at # "ended" \/ task[t].at = "cleanup") => StoppingIt(q)'
  <2>1. ASSUME NEW q \in Rows, StoppingIt(q), q # r \/ at # "ended" \/ task[t].at = "cleanup" PROVE StoppingIt(q)'
    <3>1. PICK a \in Queue!Actors : act[a].at \in {"intend", "stop"} /\ act[a].row = q /\ Queue!Live(act[a].task)
      BY <2>1 DEF StoppingIt
    <3>2. act[a].task # Queue!NoTask /\ task[act[a].task].row = q /\ task[act[a].task].token = "open"
      BY <3>1 DEF Owned, Holds, Queue!Live
    <3>3. act[a].task \in Queue!Tasks
      BY <3>1, <3>2, ActIs DEF QueueTypes, Queue!Idle
    <3>4. act[a].task = t => at # "ended"
      BY <2>1, <3>2 DEF Owned
    <3>5. Queue!Live(act[a].task)'
      BY <1>2, <1>4, <3>1, <3>2, <3>3, <3>4, Numbered DEF Queue!Live
    <3> QED
      BY <3>1, <3>5 DEF StoppingIt
  <2> QED
    BY <2>1 DEF Starting
<1>14. Attended'
  <2>1. ASSUME NEW q \in Rows, up' = "up", row'[q] \in {"queued", "running"}
        PROVE  Queue!Live(tasks[q])' \/ Told(q)' \/ Starting(q)' \/ StoppingIt(q)'
    <3>1. CASE q # r
      <4>1. Queue!Live(tasks[q]) \/ Told(q) \/ Starting(q) \/ StoppingIt(q)
        BY <1>6, <2>1, <3>1 DEF Attended
      <4>2. ASSUME Queue!Live(tasks[q]) PROVE Queue!Live(tasks[q])'
        <5>1. tasks[q] \in Queue!Tasks /\ tasks[q] # t
          BY <3>1, <4>2 DEF Queue!Live, Owned, QueueTypes
        <5> QED
          BY <1>4, <4>2, <5>1 DEF Queue!Live
      <4>3. ASSUME Told(q) PROVE Told(q)'
        <5>1. PICK u \in Queue!Tasks : /\ task[u].at \in {"born", "wait", "work", "finishing", "failing", "rescan"}
                                       /\ task[u].row = q /\ task[u].token = "cancelled"
          BY <4>3 DEF Told
        <5> QED
          BY <1>4, <3>1, <5>1 DEF Told
      <4> QED
        BY <1>13, <3>1, <4>1, <4>2, <4>3
    <3>2. CASE q = r /\ at \notin {"cleanup", "ended"}
      <4>1. CASE task[t].token = "open"
        <5>1. tasks[r] = t => Queue!Live(tasks[r])'
          BY <1>2, <1>4, <3>2, Numbered DEF Queue!Live
        <5> QED
          BY <1>12, <1>13, <3>2, <4>1, <5>1
      <4>2. CASE task[t].token = "cancelled"
        BY <1>2, <1>4, <3>2, <4>2 DEF Told
      <4> QED
        BY <1>1, <4>1, <4>2, TaskIs
    <3>3. CASE q = r /\ at \in {"cleanup", "ended"} /\ Starting(r)
      BY <1>13, <3>3
    <3>4. CASE q = r /\ at \in {"cleanup", "ended"} /\ ~Starting(r)
      <4>1. task[t].at = "cleanup" /\ task[t].token = "cancelled"
        BY <2>1, <3>4 DEF Owned
      <4>2. row' = row
        BY <2>1, <3>4, <4>1 DEF QueueTypes
      <4>3. Queue!Live(tasks[r]) \/ Told(r) \/ Starting(r) \/ StoppingIt(r)
        BY <2>1, <3>4, <4>2 DEF Attended
      <4>4. ASSUME Queue!Live(tasks[r]) PROVE Queue!Live(tasks[r])'
        <5>1. tasks[r] \in Queue!Tasks /\ tasks[r] # t
          BY <4>1, <4>4 DEF Queue!Live, Owned, QueueTypes
        <5> QED
          BY <1>4, <4>4, <5>1 DEF Queue!Live
      <4>5. ASSUME Told(r) PROVE Told(r)'
        <5>1. PICK u \in Queue!Tasks : /\ task[u].at \in {"born", "wait", "work", "finishing", "failing", "rescan"}
                                       /\ task[u].row = r /\ task[u].token = "cancelled"
          BY <4>5 DEF Told
        <5>2. u # t
          BY <4>1, <5>1
        <5> QED
          BY <1>4, <5>1, <5>2 DEF Told
      <4> QED
        BY <1>13, <3>4, <4>1, <4>3, <4>4, <4>5
    <3> QED
      BY <3>1, <3>2, <3>3, <3>4
  <2>2. ASSUME NEW u \in Queue!Tasks, task'[u].at = "rescan", task'[u].token = "open"
        PROVE  row'[task'[u].row] \notin {"queued", "running"} \/ Starting(task[u].row)'
    <3>1. CASE u = t
      BY <1>2, <1>4, <2>2, <3>1
    <3>2. CASE u # t
      <4>1. /\ task[u].at = "rescan" /\ task[u].token = "open" /\ task'[u].row = task[u].row
            /\ task[u].row \in Rows /\ Queue!Live(u)
        BY <1>4, <2>2, <3>2, TaskIs, Numbered DEF QueueTypes
      <4>2. row[task[u].row] \notin {"queued", "running"} \/ Starting(task[u].row)
        BY <4>1 DEF Attended
      <4>3. row'[task[u].row] \in {"queued", "running"} => row'[task[u].row] = row[task[u].row]
        <5>1. CASE task[u].row # r
          BY <1>6, <4>1, <5>1
        <5>2. CASE task[u].row = r
          <6>1. task[t].token = "cancelled"
            BY <1>1, <3>2, <4>1, <5>2, OpenOnce, TaskIs
          <6> QED
            BY <4>1, <5>2, <6>1 DEF QueueTypes
        <5> QED
          BY <5>1, <5>2
      <4>4. PICK q \in Rows : q = task[u].row
        BY <4>1
      <4> QED
        BY <1>13, <4>1, <4>2, <4>3, <4>4 DEF Starting
    <3> QED
      BY <3>1, <3>2
  <2> QED
    BY <2>1, <2>2 DEF Attended
<1>15. Quiet'
  <2> SUFFICES ASSUME abandons = 0
               PROVE  /\ \A u \in Queue!Tasks : Queue!Live(u)' /\ task'[u].token = "cancelled" =>
                           \E a \in Queue!Actors : act[a].at = "await" /\ act[a].task = u
                      /\ \A u \in Queue!Tasks : Queue!Live(u)' /\ task'[u].token = "open" /\ row'[task'[u].row] \in Parked =>
                           \E a \in Queue!Actors : Holds(a) /\ act[a].row = task'[u].row
                      /\ \A a \in Queue!Actors : act[a].at \in {"requeue", "unintent", "spawn"} =>
                           /\ \A u \in Queue!Tasks : task'[u] # Unborn /\ task'[u].row = act[a].row => ~Queue!Live(u)'
                           /\ row'[act[a].row] \in IF act[a].at = "requeue" THEN {"paused", "failed"} ELSE {"queued"}
    BY DEF Quiet, Holds
  <2>1. ASSUME NEW u \in Queue!Tasks, Queue!Live(u)', task'[u].token = "cancelled"
        PROVE  \E a \in Queue!Actors : act[a].at = "await" /\ act[a].task = u
    BY <1>4, <1>5, <2>1 DEF Quiet
  <2>2. ASSUME NEW u \in Queue!Tasks, Queue!Live(u)', task'[u].token = "open", row'[task'[u].row] \in Parked
        PROVE  \E a \in Queue!Actors : Holds(a) /\ act[a].row = task'[u].row
    <3>1. /\ Queue!Live(u) /\ task[u].token = "open" /\ task'[u].row = task[u].row /\ task[u].row \in Rows
      BY <1>4, <1>5, <2>2, Numbered, TaskIs DEF QueueTypes
    <3>2. CASE row'[task[u].row] = row[task[u].row]
      BY <2>2, <3>1, <3>2 DEF Quiet
    <3>3. CASE row'[task[u].row] # row[task[u].row]
      <4>1. task[u].row = r /\ (task[t].token = "cancelled" \/ at = "ended")
        BY <1>6, <2>2, <3>1, <3>3 DEF QueueTypes
      <4>2. CASE task[t].token = "cancelled"
        <5>1. PICK a \in Queue!Actors : act[a].at = "await" /\ act[a].task = t
          BY <4>2 DEF Quiet
        <5> QED
          BY <3>1, <4>1, <5>1, Numbered DEF Owned, Holds
      <4>3. CASE at = "ended" /\ task[t].token = "open"
        <5>1. u # t
          BY <1>2, <1>4, <2>2, <4>3, Numbered DEF Queue!Live
        <5> QED
          BY <3>1, <4>1, <4>3, <5>1, OpenOnce
      <4> QED
        BY <1>1, <4>1, <4>2, <4>3, TaskIs
    <3> QED
      BY <3>2, <3>3
  <2>3. ASSUME NEW a \in Queue!Actors, act[a].at \in {"requeue", "unintent", "spawn"},
               NEW u \in Queue!Tasks, task'[u] # Unborn, task'[u].row = act[a].row
        PROVE  ~Queue!Live(u)'
    BY <1>4, <1>5, <2>3 DEF Quiet
  <2>4. ASSUME NEW a \in Queue!Actors, act[a].at \in {"requeue", "unintent", "spawn"}
        PROVE  row'[act[a].row] \in IF act[a].at = "requeue" THEN {"paused", "failed"} ELSE {"queued"}
    <3>1. act[a].row # r
      BY <1>1, <2>4 DEF Quiet
    <3>2. act[a].row \in Rows
      BY <2>4, ActIs DEF QueueTypes, Queue!Idle
    <3> QED
      BY <1>6, <2>4, <3>1, <3>2 DEF Quiet
  <2> QED
    BY <2>1, <2>2, <2>3, <2>4
<1> QED
  BY <1>7, <1>8, <1>9, <1>10, <1>11, <1>14, <1>15

\* Fewer tasks hold a permit, or the same.
LEMMA FewerHold ==
  ASSUME Queue!QueueConstants, Cardinality(Queue!Holding) <= Permits, \A t \in Queue!Tasks : t \in Queue!Holding' => t \in Queue!Holding
  PROVE  Cardinality(Queue!Holding') <= Permits /\ IsFiniteSet(Queue!Holding)
<1>1. IsFiniteSet(Queue!Tasks) /\ Queue!Holding \subseteq Queue!Tasks /\ Queue!Holding' \subseteq Queue!Tasks
  BY FS_Interval DEF Queue!QueueConstants, Queue!Tasks, Queue!Holding
<1>2. IsFiniteSet(Queue!Holding) /\ Queue!Holding' \subseteq Queue!Holding
  BY <1>1, FS_Subset
<1>3. Cardinality(Queue!Holding') <= Cardinality(Queue!Holding) /\ Cardinality(Queue!Holding) \in Nat /\ Cardinality(Queue!Holding') \in Nat
  BY <1>2, FS_Subset, FS_CardinalityType
<1> DEFINE k == Cardinality(Queue!Holding)
           l == Cardinality(Queue!Holding')
<1>4. k \in Nat /\ l \in Nat /\ l <= k /\ k <= Permits /\ Permits \in Nat
  BY <1>3 DEF Queue!QueueConstants
<1> HIDE DEF k, l
<1>5. l <= Permits
  BY <1>4
<1> QED
  BY <1>2, <1>5 DEF l

LEMMA WorkersKept ==
  ASSUME Queue!QueueConstants, QueueInv, OneAtATime, NEW t \in Queue!Tasks, Queue!Worker(t)
  PROVE  QueueInv'
<1> USE DEF QueueInv
<1> DEFINE r == task[t].row
<1>1. /\ task[t].at \notin {"none", "ended"} /\ task[t].token \in {"open", "cancelled"} /\ Queue!Live(t) /\ r \in Rows
      /\ task[t] \in TaskType
  <2>1. task[t].at \notin {"none", "ended"}
    BY DEF Queue!Worker, Queue!Born, Queue!Acquire, Queue!WorkEnds, Queue!Completed, Queue!Rescanned, Queue!Failed, Queue!Cancelled, Queue!CleanedUp, Queue!CleanupEnds
  <2> QED
    BY <2>1, Numbered, TaskIs DEF QueueTypes
<1>2. PICK q \in Rows : q = r
  BY <1>1
<1>3. UNCHANGED <<place, tasks, intent, act, todo, up, calls, abandons>>
  BY DEF Queue!Worker, Queue!Born, Queue!Acquire, Queue!WorkEnds, Queue!Completed, Queue!Rescanned, Queue!Failed, Queue!Cancelled, Queue!CleanedUp, Queue!budget
<1> DEFINE Goal == QueueTypes' /\ HubPhases' /\ TaskNumbers' /\ FreshRows' /\ Owned' /\ Attended' /\ Quiet'
<1>4. \A s \in Queue!States \ Queue!Gone : Queue!Set(r, s) => row' = row \/ (row[q] \notin Queue!Gone /\ row' = [row EXCEPT ![q] = s])
  BY <1>2 DEF Queue!Set
<1>5. {"queued", "running", "completed", "failed", "paused", "cancelled"} \subseteq Queue!States \ Queue!Gone
  BY DEF Queue!States, Queue!Gone, Queue!Unfinished
<1>6. \A s \in Queue!States \ Queue!Gone : Queue!Set(r, s) => (row'[q] = s \/ row'[q] \in Queue!Gone)
  BY <1>2 DEF Queue!Set, QueueTypes
<1>7. "queued" \notin Queue!Gone /\ "running" \notin Queue!Gone
  BY DEF Queue!Gone
<1>8. CASE Queue!Born(t)
  <2>1. row' = row /\ \E at \in {"ended", "wait"} : /\ task' = [task EXCEPT ![t].at = at]
                                                    /\ at = "ended" => row[q] \in Queue!Gone
    BY <1>2, <1>8 DEF Queue!Born, Queue!TaskAt
  <2>2. PICK at \in {"ended", "wait"} : task' = [task EXCEPT ![t].at = at] /\ (at = "ended" => row[q] \in Queue!Gone)
    BY <2>1
  <2>3. Goal
    BY <1>1, <1>2, <1>3, <1>7, <2>1, <2>2, WorkerKept
  <2>4. \A u \in Queue!Tasks : u \in Queue!Holding' => u \in Queue!Holding
    BY <2>2 DEF Queue!Holding, QueueTypes
  <2> QED
    BY <2>3, <2>4, FewerHold
<1>9. CASE Queue!Acquire(t)
  <2>1. /\ task' = [task EXCEPT ![t].at = "work"] /\ task[t].token = "open" /\ task[t].at = "wait"
        /\ Cardinality(Queue!Holding) < Permits
        /\ row' = row \/ (row[q] \notin Queue!Gone /\ row' = [row EXCEPT ![q] = "running"])
    BY <1>1, <1>4, <1>5, <1>9, CountsAre DEF Queue!Acquire, Queue!TaskAt, Queue!Cancels, Queue!HasPermit
  <2>2. Goal
    <3>1. row' = row \/ (row[q] \notin Queue!Gone /\ \E s \in Queue!States \ Queue!Gone :
                            /\ row' = [row EXCEPT ![q] = s]
                            /\ s \in {"queued", "running"} => task[t].token = "open"
                            /\ s \in Parked => task[t].token = "cancelled" \/ "work" = "ended")
      BY <1>5, <2>1 DEF Parked
    <3> QED
      BY <1>1, <1>2, <1>3, <2>1, <3>1, WorkerKept
  <2>3. Queue!Holding' = Queue!Holding \cup {t} /\ t \notin Queue!Holding
    BY <2>1 DEF Queue!Holding, QueueTypes
  <2>4. IsFiniteSet(Queue!Holding)
    <3>1. IsFiniteSet(Queue!Tasks) /\ Queue!Holding \subseteq Queue!Tasks
      BY FS_Interval DEF Queue!QueueConstants, Queue!Tasks, Queue!Holding
    <3> QED
      BY <3>1, FS_Subset
  <2>5. Cardinality(Queue!Holding') = Cardinality(Queue!Holding) + 1 /\ Cardinality(Queue!Holding) \in Nat
    BY <2>3, <2>4, FS_AddElement, FS_CardinalityType
  <2> DEFINE k == Cardinality(Queue!Holding)
             l == Cardinality(Queue!Holding')
  <2>6. k \in Nat /\ l = k + 1 /\ k < Permits /\ Permits \in Nat
    BY <2>1, <2>5 DEF Queue!QueueConstants
  <2> HIDE DEF k, l
  <2>7. l <= Permits
    BY <2>6
  <2> QED
    BY <2>2, <2>7 DEF l
<1>10. CASE Queue!WorkEnds(t)
  <2>1. PICK at \in {"finishing", "failing"} : task' = [task EXCEPT ![t].at = at]
    BY <1>10 DEF Queue!WorkEnds, Queue!TaskAt
  <2>2. row' = row /\ task[t].at = "work"
    BY <1>10 DEF Queue!WorkEnds
  <2>3. Goal
    BY <1>1, <1>2, <1>3, <2>1, <2>2, WorkerKept
  <2>4. \A u \in Queue!Tasks : u \in Queue!Holding' => u \in Queue!Holding
    BY <2>1, <2>2 DEF Queue!Holding, QueueTypes
  <2> QED
    BY <2>3, <2>4, FewerHold
<1>11. CASE Queue!Completed(t)
  <2>1. task' = [task EXCEPT ![t].at = "rescan"] /\ task[t].at = "finishing" /\ Queue!Set(r, "completed")
    BY <1>11 DEF Queue!Completed, Queue!TaskAt
  <2>2. row'[q] \notin {"queued", "running"}
    BY <1>5, <1>6, <1>7, <2>1
  <2>3. row' = row \/ (row[q] \notin Queue!Gone /\ \E s \in Queue!States \ Queue!Gone :
                            /\ row' = [row EXCEPT ![q] = s]
                            /\ s \in {"queued", "running"} => task[t].token = "open"
                            /\ s \in Parked => task[t].token = "cancelled" \/ "rescan" = "ended")
    <3>1. PICK s \in Queue!States \ Queue!Gone : s = "completed"
      BY <1>5, <2>1
    <3>2. row' = row \/ (row[q] \notin Queue!Gone /\ row' = [row EXCEPT ![q] = s])
      BY <1>4, <2>1, <3>1
    <3> QED
      BY <2>1, <3>1, <3>2 DEF Parked
  <2>4. Goal
    BY <1>1, <1>2, <1>3, <2>1, <2>2, <2>3, WorkerKept
  <2>5. \A u \in Queue!Tasks : u \in Queue!Holding' => u \in Queue!Holding
    BY <2>1 DEF Queue!Holding, QueueTypes
  <2> QED
    BY <2>4, <2>5, FewerHold
<1>12. CASE Queue!Rescanned(t)
  <2>1. task' = [task EXCEPT ![t].at = "ended"] /\ task[t].at = "rescan" /\ task[t].token = "open" /\ row' = row
    BY <1>1, <1>12 DEF Queue!Rescanned, Queue!TaskAt, Queue!Cancels
  <2>2. row[q] \notin {"queued", "running"} \/ Starting(q)
    BY <1>2, <2>1 DEF Attended
  <2>3. Goal
    BY <1>1, <1>2, <1>3, <2>1, <2>2, WorkerKept
  <2>4. \A u \in Queue!Tasks : u \in Queue!Holding' => u \in Queue!Holding
    BY <2>1 DEF Queue!Holding, QueueTypes
  <2> QED
    BY <2>3, <2>4, FewerHold
<1>13. CASE Queue!Failed(t)
  <2>1. task' = [task EXCEPT ![t].at = "ended"] /\ Queue!Set(r, "failed")
    BY <1>13 DEF Queue!Failed, Queue!TaskAt
  <2>2. row'[q] \notin {"queued", "running"}
    BY <1>5, <1>6, <1>7, <2>1
  <2>3. row' = row \/ (row[q] \notin Queue!Gone /\ \E s \in Queue!States \ Queue!Gone :
                            /\ row' = [row EXCEPT ![q] = s]
                            /\ s \in {"queued", "running"} => task[t].token = "open"
                            /\ s \in Parked => task[t].token = "cancelled" \/ "ended" = "ended")
    <3>1. PICK s \in Queue!States \ Queue!Gone : s = "failed"
      BY <1>5, <2>1
    <3>2. row' = row \/ (row[q] \notin Queue!Gone /\ row' = [row EXCEPT ![q] = s])
      BY <1>4, <2>1, <3>1
    <3> QED
      BY <2>1, <3>1, <3>2 DEF Parked
  <2>4. Goal
    BY <1>1, <1>2, <1>3, <2>1, <2>2, <2>3, WorkerKept
  <2>5. \A u \in Queue!Tasks : u \in Queue!Holding' => u \in Queue!Holding
    BY <2>1 DEF Queue!Holding, QueueTypes
  <2> QED
    BY <2>4, <2>5, FewerHold
<1>14. CASE Queue!Cancelled(t)
  <2>1. /\ task[t].token = "cancelled" /\ Queue!Intended(r) \in {"paused", "cancelled"} /\ Queue!Set(r, Queue!Intended(r))
        /\ \E at \in {"cleanup", "ended"} : task' = [task EXCEPT ![t].at = at]
    BY <1>1, <1>14 DEF Queue!Cancelled, Queue!TaskAt, Queue!Cancels, Queue!Intended, QueueTypes
  <2>2. PICK at \in {"cleanup", "ended"} : task' = [task EXCEPT ![t].at = at]
    BY <2>1
  <2>3. row'[q] \notin {"queued", "running"}
    BY <1>5, <1>6, <1>7, <2>1
  <2>4. row' = row \/ (row[q] \notin Queue!Gone /\ \E s \in Queue!States \ Queue!Gone :
                            /\ row' = [row EXCEPT ![q] = s]
                            /\ s \in {"queued", "running"} => task[t].token = "open"
                            /\ s \in Parked => task[t].token = "cancelled" \/ at = "ended")
    <3>1. PICK s \in Queue!States \ Queue!Gone : s = Queue!Intended(r)
      BY <1>5, <2>1
    <3>2. row' = row \/ (row[q] \notin Queue!Gone /\ row' = [row EXCEPT ![q] = s])
      BY <1>4, <2>1, <3>1
    <3> QED
      BY <2>1, <3>1, <3>2 DEF Parked
  <2>5. Goal
    BY <1>1, <1>2, <1>3, <2>1, <2>2, <2>3, <2>4, WorkerKept
  <2>6. \A u \in Queue!Tasks : u \in Queue!Holding' => u \in Queue!Holding
    BY <2>2 DEF Queue!Holding, QueueTypes
  <2> QED
    BY <2>5, <2>6, FewerHold
<1>15. CASE Queue!CleanedUp(t)
  <2>1. task' = [task EXCEPT ![t].at = "ended"] /\ task[t].at = "cleanup" /\ row' = row
    BY <1>15 DEF Queue!CleanedUp, Queue!CleanupEnds, Queue!TaskAt
  <2>2. Goal
    BY <1>1, <1>2, <1>3, <2>1, WorkerKept
  <2>3. \A u \in Queue!Tasks : u \in Queue!Holding' => u \in Queue!Holding
    BY <2>1 DEF Queue!Holding, QueueTypes
  <2> QED
    BY <2>2, <2>3, FewerHold
<1> QED
  BY <1>8, <1>9, <1>10, <1>11, <1>12, <1>13, <1>14, <1>15 DEF Queue!Worker

-----------------------------------------------------------------------------
(* The calls.                                                              *)

\* An actor goes on to x; rows and tasks stay.
LEMMA ActorKept ==
  ASSUME Queue!QueueConstants, QueueInv, OneAtATime, NEW a \in Queue!Actors, NEW x \in ActType,
         act' = [act EXCEPT ![a] = x], UNCHANGED <<row, task, tasks, up>>,
         place' \in [Rows -> Places], intent' \in [Rows -> {"none", "paused", "cancelled"}],
         todo' \in SUBSET todo, calls' \in Nat, calls <= calls', abandons' \in Nat,
         abandons' = 0 => abandons = 0,
         x = Queue!Idle \/ act[a] # Queue!Idle \/ up = (IF a = Queue!Hub THEN "stopping" ELSE "up"),
         x # Queue!Idle /\ x.op \in Starters =>
           (Starts(a) /\ x.task = act[a].task) \/ (calls' = calls + 1 /\ x.task = calls'),
         x # Queue!Idle => (row[x.row] = "absent" <=> (x.op = "create" /\ x.at \in {"look", "dup", "insert"})),
         x.at \in {"intend", "stop", "await", "after"} =>
           /\ x.row = act[a].row /\ x.task = act[a].task
           /\ \/ act[a].at = "intend" /\ x.at = "stop"
              \/ act[a].at = "await" /\ x.at = "after" /\ ~Queue!Live(x.task),
         act[a].at \in {"intend", "stop"} => x.at = "stop",
         act[a].at \in {"unintent", "spawn"} => x.at = "spawn" /\ x.row = act[a].row,
         act[a].at = "after" => a = Queue!Hub \/ abandons' # 0,
         act[a].at = "await" /\ abandons' = 0 => x.at = "after",
         x.at \in {"requeue", "unintent", "spawn"} =>
           /\ act[a] # Queue!Idle /\ x.row = act[a].row
           /\ \/ x.at # "requeue" /\ act[a].at = "unintent"
              \/ x.at = "requeue" /\ act[a].at = "look" /\ row[act[a].row] \in {"paused", "failed"}
  PROVE  QueueInv'
<1> USE DEF QueueInv
<1>1. /\ act' \in [Queue!Actors -> ActType] /\ act'[a] = x /\ \A b \in Queue!Actors \ {a} : act'[b] = act[b]
      /\ act[a] \in ActType
  BY DEF QueueTypes
<1>2. QueueTypes'
  BY <1>1 DEF QueueTypes
<1>3. \A t \in Queue!Tasks \cup {Queue!NoTask} : Queue!Live(t)' <=> Queue!Live(t)
  BY DEF Queue!Live
<1>4. HubPhases'
  <2>1. Queue!Hub \in Queue!Actors /\ Queue!Hub \notin Callers
    BY DEF Queue!Actors, Queue!Hub, Queue!QueueConstants
  <2>2. act[a] # Queue!Idle => up = (IF a = Queue!Hub THEN "stopping" ELSE "up")
    BY <2>1 DEF HubPhases, Queue!Actors, QueueTypes
  <2> QED
    BY <1>1, <1>3, <2>1, <2>2 DEF HubPhases, Queue!Actors
<1>5. TaskNumbers'
  <2>1. \A t \in Queue!Tasks : t \in Nat
    BY DEF Queue!Tasks
  <2>2. \A t \in Queue!Tasks : t > calls' => task'[t] = Unborn
    BY <2>1 DEF TaskNumbers, QueueTypes
  <2>3. ASSUME NEW b \in Queue!Actors, Starts(b)'
        PROVE  /\ task'[act'[b].task] = Unborn /\ act'[b].task <= calls'
               /\ \/ Starts(b) /\ act'[b].task = act[b].task
                  \/ b = a /\ act'[b].task = calls + 1
    <3>1. act'[b] # Queue!Idle /\ act'[b].op \in Starters /\ act'[b].task \in Queue!Tasks
      BY <1>1, <2>3, ActIs DEF Starts
    <3>2. CASE Starts(b) /\ act'[b].task = act[b].task
      <4>1. task[act[b].task] = Unborn /\ act[b].task <= calls
        BY <3>2 DEF TaskNumbers
      <4> QED
        BY <2>1, <3>1, <3>2, <4>1 DEF QueueTypes
    <3>3. CASE b = a /\ calls' = calls + 1 /\ act'[b].task = calls'
      BY <2>1, <3>1, <3>3 DEF TaskNumbers, QueueTypes
    <3> QED
      BY <1>1, <3>1, <3>2, <3>3 DEF Starts
  <2>4. ASSUME NEW b \in Queue!Actors, NEW c \in Queue!Actors, Starts(b)', Starts(c)', act'[b].task = act'[c].task
        PROVE  b = c
    <3>1. \A d \in Queue!Actors : Starts(d) => act[d].task <= calls /\ act[d].task \in Nat
      BY <2>1, ActIs DEF TaskNumbers, Starts, QueueTypes
    <3>2. \A d \in Queue!Actors : Starts(d) => act[d].task # calls + 1
      BY <3>1 DEF QueueTypes
    <3> QED
      BY <2>3, <2>4, <3>2 DEF TaskNumbers
  <2> QED
    BY <2>2, <2>3, <2>4 DEF TaskNumbers
<1>6. FreshRows'
  <2>1. x # Queue!Idle => x.row \in Rows
    BY ActIs
  <2> QED
    BY <1>1, <2>1 DEF FreshRows, Early
<1>7. Owned'
  <2>1. ASSUME NEW b \in Queue!Actors, Holds(b)'
        PROVE  /\ tasks'[act'[b].row] = Queue!NoTask
               /\ act'[b].task # Queue!NoTask => task'[act'[b].task] # Unborn /\ task'[act'[b].task].row = act'[b].row
               /\ act'[b].task # Queue!NoTask /\ act'[b].at \in {"intend", "stop"} => task'[act'[b].task].token = "open"
               /\ act'[b].at = "await" => act'[b].task # Queue!NoTask /\ task'[act'[b].task].token = "cancelled"
               /\ act'[b].at = "after" => act'[b].task \in Queue!Tasks \cup {Queue!NoTask} /\ ~Queue!Live(act[b].task)
                                            /\ act'[b].task = act[b].task
    <3>1. CASE b # a
      <4>1. act'[b] = act[b] /\ Holds(b) /\ act[b].task \in Queue!Tasks \cup {Queue!NoTask}
        BY <1>1, <2>1, <3>1, ActIs DEF Holds, QueueTypes, Queue!Idle
      <4> QED
        BY <4>1 DEF Owned
    <3>2. CASE b = a
      <4>1. Holds(a) /\ x.task = act[a].task /\ x.row = act[a].row /\ act[a].task \in Queue!Tasks \cup {Queue!NoTask}
        BY <1>1, <2>1, <3>2, ActIs DEF Holds, QueueTypes, Queue!Idle
      <4> QED
        BY <1>1, <2>1, <3>2, <4>1 DEF Owned, Holds
    <3> QED
      BY <3>1, <3>2
  <2>2. ASSUME NEW t \in Queue!Tasks, Queue!Live(t)', task'[t].token = "open"
        PROVE  \/ tasks'[task'[t].row] = t
               \/ \E b \in Queue!Actors : act'[b].at \in {"intend", "stop"} /\ act'[b].task = t
    <3>1. Queue!Live(t) /\ task[t].token = "open"
      BY <1>3, <2>2
    <3>2. CASE tasks[task[t].row] = t
      BY <3>2
    <3>3. CASE \E b \in Queue!Actors : act[b].at \in {"intend", "stop"} /\ act[b].task = t
      <4>1. PICK b \in Queue!Actors : act[b].at \in {"intend", "stop"} /\ act[b].task = t
        BY <3>3
      <4> QED
        BY <1>1, <4>1
    <3> QED
      BY <3>1, <3>2, <3>3 DEF Owned
  <2>3. ASSUME NEW b \in Queue!Actors, act'[b].at = "after" PROVE ~Queue!Live(act[b].task)'
    <3>1. act'[b].task \in Queue!Tasks \cup {Queue!NoTask} /\ ~Queue!Live(act[b].task) /\ act'[b].task = act[b].task
      BY <2>1, <2>3 DEF Holds
    <3> QED
      BY <3>1 DEF Queue!Live
  <2> QED
    BY <2>1, <2>2, <2>3 DEF Owned, Holds
<1>8. Attended'
  <2>1. \A r \in Rows : Starting(r) => Starting(r)'
    BY <1>1 DEF Starting
  <2>2. \A r \in Rows : StoppingIt(r) => StoppingIt(r)' \/ up # "up"
    <3>1. up = "up" => \A b \in Queue!Actors : act[b] # Queue!Idle => b # Queue!Hub
      BY DEF HubPhases
    <3> QED
      BY <1>1, <3>1 DEF StoppingIt, Queue!Idle, Queue!Live
  <2>3. \A r \in Rows : (Queue!Live(tasks[r]) => Queue!Live(tasks[r])') /\ (Told(r) => Told(r)')
    BY DEF Queue!Live, Told
  <2>4. \A t \in Queue!Tasks : task[t].at = "rescan" => task[t].row \in Rows
    BY TaskIs DEF QueueTypes
  <2>5. ASSUME NEW t \in Queue!Tasks, task'[t].at = "rescan", task'[t].token = "open"
        PROVE  row'[task'[t].row] \notin {"queued", "running"} \/ Starting(task[t].row)'
    <3>1. PICK r \in Rows : r = task[t].row
      BY <2>4, <2>5
    <3>2. row[r] \notin {"queued", "running"} \/ Starting(r)
      BY <2>5, <3>1 DEF Attended
    <3> QED
      BY <2>1, <3>1, <3>2 DEF Starting
  <2>6. up' = "up" => \A r \in Rows : row'[r] \in {"queued", "running"} =>
                       Queue!Live(tasks[r])' \/ Told(r)' \/ Starting(r)' \/ StoppingIt(r)'
    BY <2>1, <2>2, <2>3 DEF Attended
  <2> QED
    BY <2>5, <2>6 DEF Attended
<1>9. Quiet'
  <2> SUFFICES ASSUME abandons' = 0
               PROVE  /\ \A t \in Queue!Tasks : Queue!Live(t)' /\ task'[t].token = "cancelled" =>
                           \E b \in Queue!Actors : act'[b].at = "await" /\ act'[b].task = t
                      /\ \A t \in Queue!Tasks : Queue!Live(t)' /\ task'[t].token = "open" /\ row'[task'[t].row] \in Parked =>
                           \E b \in Queue!Actors : Holds(b)' /\ act'[b].row = task'[t].row
                      /\ \A b \in Queue!Actors : act'[b].at \in {"requeue", "unintent", "spawn"} =>
                           /\ \A t \in Queue!Tasks : task'[t] # Unborn /\ task'[t].row = act'[b].row => ~Queue!Live(t)'
                           /\ row'[act'[b].row] \in IF act'[b].at = "requeue" THEN {"paused", "failed"} ELSE {"queued"}
    BY DEF Quiet
  <2>1. ASSUME NEW t \in Queue!Tasks, Queue!Live(t), task[t].token = "cancelled"
        PROVE  \E b \in Queue!Actors : act'[b].at = "await" /\ act'[b].task = t
    <3>1. PICK b \in Queue!Actors : act[b].at = "await" /\ act[b].task = t
      BY <2>1 DEF Quiet
    <3>2. b # a
      BY <1>1, <2>1, <3>1
    <3> QED
      BY <1>1, <3>1, <3>2
  <2>2. ASSUME NEW t \in Queue!Tasks, Queue!Live(t), task[t].token = "open", row[task[t].row] \in Parked
        PROVE  \E b \in Queue!Actors : Holds(b)' /\ act'[b].row = task[t].row
    <3>1. PICK b \in Queue!Actors : Holds(b) /\ act[b].row = task[t].row
      BY <2>2 DEF Quiet
    <3>2. CASE b # a
      BY <1>1, <3>1, <3>2 DEF Holds
    <3>3. CASE b = a
      <4>1. tasks[task[t].row] = Queue!NoTask /\ t # Queue!NoTask
        BY <3>1, Numbered DEF Owned
      <4>2. PICK c \in Queue!Actors : act[c].at \in {"intend", "stop"} /\ act[c].task = t
        BY <2>2, <4>1 DEF Owned
      <4>3. act[c].row = task[t].row /\ act[c] # Queue!Idle /\ act[b] # Queue!Idle
        BY <3>1, <4>1, <4>2 DEF Owned, Holds, Queue!Idle
      <4>4. c = a
        BY <3>1, <3>3, <4>3 DEF OneAtATime
      <4> QED
        BY <1>1, <3>1, <3>3, <4>2, <4>4 DEF Holds
    <3> QED
      BY <3>2, <3>3
  <2>3. ASSUME NEW b \in Queue!Actors, act'[b].at \in {"requeue", "unintent", "spawn"},
               NEW t \in Queue!Tasks, task[t] # Unborn, task[t].row = act'[b].row
        PROVE  ~Queue!Live(t)
    <3>1. CASE b # a
      BY <1>1, <2>3, <3>1 DEF Quiet
    <3>2. CASE b = a /\ act[a].at = "unintent"
      BY <1>1, <2>3, <3>2 DEF Quiet
    <3>3. CASE b = a /\ act[a].at = "look" /\ row[act[a].row] \in Parked
      <4> SUFFICES ASSUME Queue!Live(t) PROVE FALSE
        OBVIOUS
      <4>1. act[a] # Queue!Idle /\ task[t].row = act[a].row /\ t # Queue!NoTask
        BY <1>1, <2>3, <3>3, Numbered
      <4>2. CASE task[t].token = "open"
        <5>1. PICK c \in Queue!Actors : Holds(c) /\ act[c].row = task[t].row
          BY <3>3, <4>1, <4>2 DEF Quiet
        <5>2. act[c] # Queue!Idle
          BY <5>1 DEF Holds, Queue!Idle
        <5> QED
          BY <3>3, <4>1, <5>1, <5>2 DEF OneAtATime, Holds
      <4>3. CASE task[t].token = "cancelled"
        <5>1. PICK c \in Queue!Actors : act[c].at = "await" /\ act[c].task = t
          BY <4>3 DEF Quiet
        <5>2. act[c] # Queue!Idle /\ act[c].row = task[t].row
          BY <4>1, <5>1 DEF Owned, Holds, Queue!Idle
        <5> QED
          BY <3>3, <4>1, <5>1, <5>2 DEF OneAtATime
      <4> QED
        BY <4>2, <4>3, TaskIs DEF QueueTypes
    <3> QED
      BY <1>1, <2>3, <3>1, <3>2, <3>3 DEF Parked
  <2>4. ASSUME NEW b \in Queue!Actors, act'[b].at \in {"requeue", "unintent", "spawn"}
        PROVE  row'[act'[b].row] \in IF act'[b].at = "requeue" THEN {"paused", "failed"} ELSE {"queued"}
    BY <1>1, <2>4 DEF Quiet
  <2> QED
    BY <1>3, <2>1, <2>2, <2>3, <2>4
<1>10. Cardinality(Queue!Holding') <= Permits
  BY DEF Queue!Holding
<1> QED
  BY <1>2, <1>4, <1>5, <1>6, <1>7, <1>8, <1>9, <1>10

\* An actor that goes on keeps its call.
LEMMA StepIs ==
  ASSUME NEW y \in ActType, y # Queue!Idle, NEW at,
         \/ y.op \in Stoppers /\ at \in {"look", "take", "intend", "stop", "await", "after"}
         \/ y.op = "create" /\ at \in {"look", "dup", "insert", "unintent", "spawn"}
         \/ y.op = "resume" /\ at \in {"look", "requeue", "unintent", "spawn"}
  PROVE  \E x \in ActType : /\ x = [y EXCEPT !.at = at] /\ x # Queue!Idle /\ x.at = at
                            /\ x.op = y.op /\ x.row = y.row /\ x.task = y.task
<1> DEFINE x == [y EXCEPT !.at = at]
<1>1. x.at = at /\ x.op = y.op /\ x.row = y.row /\ x.task = y.task
  BY DEF ActType
<1>2. CASE y.op \in Stoppers /\ at \in {"look", "take", "intend", "stop", "await", "after"}
  <2>1. y \in [at : {"look", "take", "intend", "stop", "await", "after"}, op : Stoppers,
               row : Rows, task : Queue!Tasks \cup {Queue!NoTask}]
    BY <1>2 DEF ActType, Stoppers
  <2> QED
    BY <1>1, <1>2, <2>1 DEF ActType, Queue!Idle
<1>3. CASE y.op = "create" /\ at \in {"look", "dup", "insert", "unintent", "spawn"}
  <2>1. y \in [at : {"look", "dup", "insert", "unintent", "spawn"}, op : {"create"}, row : Rows, task : Queue!Tasks]
    BY <1>3 DEF ActType, Stoppers
  <2> QED
    BY <1>1, <1>3, <2>1 DEF ActType, Queue!Idle
<1>4. CASE y.op = "resume" /\ at \in {"look", "requeue", "unintent", "spawn"}
  <2>1. y \in [at : {"look", "requeue", "unintent", "spawn"}, op : {"resume"}, row : Rows, task : Queue!Tasks]
    BY <1>4 DEF ActType, Stoppers
  <2> QED
    BY <1>1, <1>4, <2>1 DEF ActType, Queue!Idle
<1> QED
  BY <1>2, <1>3, <1>4

LEMMA MovesKept ==
  ASSUME Queue!QueueConstants, QueueInv, OneAtATime, NEW a \in Queue!Actors,
         \/ a \in Callers /\ (Queue!Look(a) \/ Queue!CheckCapacity(a) \/ Queue!CheckDuplicate(a) \/ Queue!ForgetIntent(a) \/ Queue!Abandon(a))
         \/ Queue!Intend(a) \/ Queue!Await(a)
  PROVE  QueueInv'
<1>1. /\ act[a] \in ActType /\ act[a] # Queue!Idle
      /\ act[a].at \in {"look", "dup", "unintent", "await", "after", "intend"}
  <2>1. act[a] \in ActType
    BY DEF QueueInv, QueueTypes
  <2>2. act[a].at \in {"look", "dup", "unintent", "await", "after", "intend"}
    BY DEF Queue!Look, Queue!CheckCapacity, Queue!CheckDuplicate, Queue!ForgetIntent, Queue!Abandon, Queue!Waits, Queue!Intend, Queue!Await
  <2> QED
    BY <2>1, <2>2, ActIs
<1>2. /\ UNCHANGED <<row, task, tasks, up, todo, calls>>
      /\ place' \in [Rows -> Places] /\ intent' \in [Rows -> {"none", "paused", "cancelled"}]
      /\ abandons \in Nat /\ abandons' \in {abandons, abandons + 1} /\ todo' \in SUBSET todo /\ calls \in Nat
  <2>1. QueueTypes
    BY DEF QueueInv
  <2> QED
    BY <2>1 DEF Queue!Look, Queue!CheckCapacity, Queue!CheckDuplicate, Queue!ForgetIntent, Queue!Abandon, Queue!Intend, Queue!Await, Queue!budget, QueueTypes, Queue!IntentOf
<1>3. calls' \in Nat /\ calls <= calls' /\ abandons' \in Nat /\ (abandons' = 0 => abandons = 0)
  BY <1>2
<1>4. act[a].at \in {"unintent"} => act[a].op \in Starters
  BY <1>1, ActIs
<1>5. /\ act[a].at \in {"await", "intend"} => act[a].op \in Stoppers
      /\ act[a].at = "dup" => act[a].op = "create"
  BY <1>1, ActIs
<1>6. Early(a) => row[act[a].row] = "absent"
  BY <1>1 DEF QueueInv, FreshRows
<1>7. row[act[a].row] = "absent" => Early(a)
  <2>1. act[a].row \in Rows
    BY <1>1, ActIs
  <2> QED
    BY <1>1, <2>1 DEF QueueInv, FreshRows
<1>8. ASSUME act' = [act EXCEPT ![a] = Queue!Idle],
             act[a].at \in {"look", "dup"} \/ (act[a].at \in {"await", "after"} /\ abandons' # 0)
      PROVE  QueueInv'
  <2>1. Queue!Idle \in ActType /\ Queue!Idle.at = "idle"
    BY DEF ActType, Queue!Idle
  <2> QED
    BY <1>2, <1>3, <1>8, <2>1, ActorKept
<1>9. ASSUME NEW at \in {"dup", "insert", "requeue", "take"}, Queue!Step(a, at), act[a].at \in {"look", "dup"},
             at \in {"dup", "insert"} <=> act[a].op = "create",
             at = "requeue" => act[a].op = "resume" /\ act[a].at = "look" /\ row[act[a].row] \in {"paused", "failed"},
             at = "take" => act[a].op \in Stoppers
      PROVE  QueueInv'
  <2>1. PICK x \in ActType : /\ x = [act[a] EXCEPT !.at = at] /\ x # Queue!Idle /\ x.at = at
                             /\ x.op = act[a].op /\ x.row = act[a].row /\ x.task = act[a].task
    BY <1>1, <1>9, StepIs
  <2>2. act' = [act EXCEPT ![a] = x]
    BY <1>9, <2>1 DEF Queue!Step
  <2>3. row[x.row] = "absent" <=> (x.op = "create" /\ x.at \in {"look", "dup", "insert"})
    BY <1>6, <1>7, <1>9, <2>1 DEF Early
  <2>4. x.op \in Starters => Starts(a) /\ x.task = act[a].task
    BY <1>1, <2>1 DEF Starts
  <2> QED
    BY <1>1, <1>2, <1>3, <1>9, <2>1, <2>2, <2>3, <2>4, ActorKept
<1>10. CASE Queue!Look(a)
  <2>1. act[a].at = "look" /\ act[a].op # "create" /\ act[a].op \in Starters \cup Stoppers
    BY <1>1, <1>10, ActIs DEF Queue!Look
  <2>2. CASE ~Queue!Accepts(act[a].op, row[act[a].row])
    BY <1>8, <1>10, <2>1, <2>2 DEF Queue!Look, Queue!Done
  <2>3. CASE Queue!Accepts(act[a].op, row[act[a].row]) /\ act[a].op = "resume"
    <3>1. row[act[a].row] \in {"paused", "failed"} /\ Queue!Step(a, "requeue")
      BY <1>10, <2>3 DEF Queue!Look, Queue!Accepts
    <3> QED
      BY <1>9, <2>1, <2>3, <3>1
  <2>4. CASE Queue!Accepts(act[a].op, row[act[a].row]) /\ act[a].op # "resume"
    <3>1. Queue!Step(a, "take") /\ act[a].op \in Stoppers
      BY <1>10, <2>1, <2>4 DEF Queue!Look, Starters
    <3> QED
      BY <1>9, <2>1, <2>4, <3>1
  <2> QED
    BY <2>2, <2>3, <2>4
<1>11. CASE Queue!CheckCapacity(a)
  <2>1. act[a].at = "look" /\ act[a].op = "create" /\ (Queue!Step(a, "dup") \/ act' = [act EXCEPT ![a] = Queue!Idle])
    BY <1>11 DEF Queue!CheckCapacity, Queue!Done
  <2> QED
    BY <1>8, <1>9, <2>1 DEF Stoppers
<1>12. CASE Queue!CheckDuplicate(a)
  <2>1. act[a].at = "dup" /\ act[a].op = "create" /\ (Queue!Step(a, "insert") \/ act' = [act EXCEPT ![a] = Queue!Idle])
    BY <1>5, <1>12 DEF Queue!CheckDuplicate, Queue!Done
  <2> QED
    BY <1>8, <1>9, <2>1 DEF Stoppers
<1>13. CASE Queue!Abandon(a)
  <2>1. act[a].at \in {"await", "after"} /\ act' = [act EXCEPT ![a] = Queue!Idle] /\ abandons' = abandons + 1
    BY <1>13 DEF Queue!Abandon, Queue!Waits, Queue!Done
  <2>2. abandons' # 0
    BY <1>2, <2>1
  <2> QED
    BY <1>8, <2>1, <2>2
<1>14. CASE Queue!ForgetIntent(a) \/ Queue!Intend(a) \/ Queue!Await(a)
  <2> DEFINE at == CASE Queue!ForgetIntent(a) -> "spawn" [] Queue!Intend(a) -> "stop" [] OTHER -> "after"
  <2>1. PICK w \in {"spawn", "stop", "after"} :
          /\ Queue!Step(a, w) /\ (w = "spawn" <=> act[a].at = "unintent") /\ (w = "stop" <=> act[a].at = "intend")
          /\ w = "after" <=> act[a].at = "await"
          /\ w = "after" => ~Queue!Live(act[a].task)
    BY <1>14 DEF Queue!ForgetIntent, Queue!Intend, Queue!Await
  <2>2. act[a].at \in {"unintent", "intend", "await"}
    BY <2>1
  <2>3. PICK x \in ActType : /\ x = [act[a] EXCEPT !.at = w] /\ x # Queue!Idle /\ x.at = w
                             /\ x.op = act[a].op /\ x.row = act[a].row /\ x.task = act[a].task
    BY <1>1, <1>4, <1>5, <2>1, StepIs DEF Starters
  <2>4. act' = [act EXCEPT ![a] = x]
    BY <2>1, <2>3 DEF Queue!Step
  <2>5. row[x.row] = "absent" <=> (x.op = "create" /\ x.at \in {"look", "dup", "insert"})
    BY <1>7, <2>2, <2>3 DEF Early
  <2>6. x.op \in Starters => Starts(a) /\ x.task = act[a].task
    BY <1>1, <2>3 DEF Starts
  <2> QED
    BY <1>1, <1>2, <1>3, <2>1, <2>2, <2>3, <2>4, <2>5, <2>6, ActorKept
<1> QED
  BY <1>10, <1>11, <1>12, <1>13, <1>14

LEMMA BeginningsKept ==
  ASSUME Queue!QueueConstants, QueueInv, OneAtATime,
         \/ \E c \in Callers, op \in Queue!Ops, r \in Rows : Queue!Call(c, op, r)
         \/ Queue!ShutdownNext \/ Queue!ShutdownStopped
  PROVE  QueueInv'
<1>1. /\ Queue!Hub \in Queue!Actors /\ Queue!Hub \notin Callers /\ Callers \subseteq Queue!Actors
      /\ \A b \in Queue!Actors : act[b] \in ActType
  BY DEF Queue!Actors, Queue!Hub, Queue!QueueConstants, QueueInv, QueueTypes
<1>2. QueueTypes /\ calls \in Nat /\ abandons \in Nat
  BY DEF QueueInv, QueueTypes
<1>3. Queue!Idle \in ActType /\ Queue!Idle.at = "idle"
  BY DEF ActType, Queue!Idle
<1>4. ASSUME NEW c \in Callers, NEW op \in Queue!Ops, NEW r \in Rows, Queue!Call(c, op, r)
      PROVE  QueueInv'
  <2> DEFINE n == IF op \in {"create", "resume"} THEN calls' ELSE Queue!NoTask
             x == [at |-> "look", op |-> op, row |-> r, task |-> n]
  <2>1. /\ up = "up" /\ act[c] = Queue!Idle /\ calls' = calls + 1 /\ act' = [act EXCEPT ![c] = x]
        /\ \/ op = "create" /\ row[r] = "absent"
           \/ op # "create" /\ row[r] \notin Queue!Gone
        /\ UNCHANGED <<row, place, task, tasks, intent, todo, up, abandons>>
    BY <1>4 DEF Queue!Call
  <2>2. calls' \in Queue!Tasks
    BY <1>2, <1>4 DEF Queue!Call, Queue!Tasks, Queue!QueueConstants
  <2>3. x \in ActType /\ x # Queue!Idle /\ x.at = "look" /\ x.op = op /\ x.row = r /\ x.task = n
    <3>1. op \in {"create", "resume"} \/ op \in {"pause", "cancel", "delete"}
      BY DEF Queue!Ops
    <3> QED
      BY <2>2, <3>1 DEF ActType, Queue!Idle, Stoppers
  <2> HIDE DEF x
  <2>4. x.op \in Starters => x.task = calls'
    BY <2>3 DEF Starters
  <2>5. row[x.row] = "absent" <=> (x.op = "create" /\ x.at \in {"look", "dup", "insert"})
    BY <2>1, <2>3 DEF Queue!Gone
  <2>6. /\ place' \in [Rows -> Places] /\ intent' \in [Rows -> {"none", "paused", "cancelled"}]
        /\ todo' \in SUBSET todo /\ calls' \in Nat /\ calls <= calls' /\ abandons' \in Nat
    BY <1>2, <2>1 DEF QueueTypes
  <2>7. c \in Queue!Actors /\ c # Queue!Hub /\ act[c].at = "idle"
    BY <1>1, <1>3, <2>1
  <2> QED
    BY <2>1, <2>3, <2>4, <2>5, <2>6, <2>7, ActorKept
<1>5. CASE Queue!ShutdownNext
  <2>1. PICK r \in todo : /\ todo' = todo \ {r}
                          /\ act' = [act EXCEPT ![Queue!Hub] = [at |-> "take", op |-> "shutdown", row |-> r, task |-> Queue!NoTask]]
    BY <1>5 DEF Queue!ShutdownNext
  <2> DEFINE x == [at |-> "take", op |-> "shutdown", row |-> r, task |-> Queue!NoTask]
  <2>2. r \in Rows /\ row[r] # "absent"
    BY <1>2, <1>5, <2>1 DEF Queue!ShutdownNext, QueueTypes, QueueInv, FreshRows
  <2>3. x \in ActType /\ x # Queue!Idle /\ x.at = "take" /\ x.op = "shutdown" /\ x.row = r
    BY <2>2 DEF ActType, Queue!Idle, Stoppers
  <2> HIDE DEF x
  <2>4. act' = [act EXCEPT ![Queue!Hub] = x]
    BY <2>1 DEF x
  <2>5. /\ UNCHANGED <<row, place, task, tasks, intent, up, calls, abandons>> /\ up = "stopping"
        /\ act[Queue!Hub].at = "idle"
    BY <1>3, <1>5 DEF Queue!ShutdownNext, Queue!budget
  <2>6. /\ place' \in [Rows -> Places] /\ intent' \in [Rows -> {"none", "paused", "cancelled"}]
        /\ todo' \in SUBSET todo /\ calls' \in Nat /\ calls <= calls' /\ abandons' \in Nat
    BY <1>2, <2>1, <2>5 DEF QueueTypes
  <2>7. x.op \notin Starters /\ x.op # "create"
    BY <2>3 DEF Starters
  <2> QED
    BY <1>1, <2>2, <2>3, <2>4, <2>5, <2>6, <2>7, ActorKept
<1>6. CASE Queue!ShutdownStopped
  <2>1. act' = [act EXCEPT ![Queue!Hub] = Queue!Idle] /\ act[Queue!Hub].at = "after"
    BY <1>6 DEF Queue!ShutdownStopped, Queue!Done
  <2>2. UNCHANGED <<row, place, task, tasks, intent, todo, up, calls, abandons>>
    BY <1>6 DEF Queue!ShutdownStopped, Queue!budget
  <2>3. /\ place' \in [Rows -> Places] /\ intent' \in [Rows -> {"none", "paused", "cancelled"}]
        /\ todo' \in SUBSET todo /\ calls' \in Nat /\ calls <= calls' /\ abandons' \in Nat
    BY <1>2, <2>2 DEF QueueTypes
  <2> QED
    BY <1>1, <1>3, <2>1, <2>2, <2>3, ActorKept
<1> QED
  BY <1>4, <1>5, <1>6

\* The row is queued by the call that will spawn its task.
LEMMA QueuedKept ==
  ASSUME Queue!QueueConstants, QueueInv, OneAtATime, NEW c \in Callers, Queue!Insert(c) \/ Queue!Requeue(c)
  PROVE  QueueInv'
<1> USE DEF QueueInv
<1>1. c \in Queue!Actors /\ act[c] \in ActType /\ act[c].at \in {"insert", "requeue"} /\ act[c].op \in Starters
      /\ (act[c].at = "insert" <=> act[c].op = "create")
  <2>1. c \in Queue!Actors /\ act[c] \in ActType /\ act[c].at \in {"insert", "requeue"}
    BY DEF Queue!Actors, QueueTypes, Queue!Insert, Queue!Requeue
  <2> QED
    BY <2>1, ActIs DEF Starters
<1>2. PICK r \in Rows : act[c].row = r
  BY <1>1, ActIs
<1>3. PICK x \in ActType : /\ x = [act[c] EXCEPT !.at = "unintent"] /\ x # Queue!Idle /\ x.at = "unintent"
                           /\ x.op = act[c].op /\ x.row = r /\ x.task = act[c].task
  BY <1>1, <1>2, StepIs, ActIs DEF Starters
<1>4. /\ act' = [act EXCEPT ![c] = x] /\ UNCHANGED <<place, task, tasks, intent, todo, up, calls, abandons>>
      /\ row' = row \/ row' = [row EXCEPT ![r] = "queued"]
      /\ row[r] \notin Queue!Gone \/ act[c].at = "insert" => row'[r] = "queued"
      /\ row[r] \in Queue!Gone /\ act[c].at = "requeue" => row' = row
  BY <1>2, <1>3 DEF Queue!Insert, Queue!Requeue, Queue!Step, Queue!Set, Queue!budget, QueueTypes
<1>5. /\ act' \in [Queue!Actors -> ActType] /\ act'[c] = x /\ \A b \in Queue!Actors \ {c} : act'[b] = act[b]
      /\ row' \in [Rows -> Queue!States] /\ \A q \in Rows \ {r} : row'[q] = row[q]
  BY <1>1, <1>4 DEF QueueTypes, Queue!States, Queue!Unfinished
<1>6. /\ \A b \in Queue!Actors \ {c} : act[b] # Queue!Idle => act[b].row # r
      /\ act[c] # Queue!Idle
  BY <1>1, <1>2, ActIs DEF OneAtATime
<1>7. row[r] = "absent" <=> act[c].at = "insert"
  BY <1>1, <1>2, <1>6, ActIs DEF FreshRows, Early
<1>8. row'[r] # "absent" /\ (row'[r] \in {"queued", "deleted"})
  BY <1>1, <1>4, <1>7 DEF Queue!Gone, QueueTypes
<1>9. \A t \in Queue!Tasks \cup {Queue!NoTask} : Queue!Live(t)' <=> Queue!Live(t)
  BY <1>4 DEF Queue!Live
<1>10. QueueTypes'
  BY <1>4, <1>5 DEF QueueTypes
<1>11. HubPhases'
  BY <1>4, <1>5, <1>6, <1>9 DEF HubPhases, Queue!Actors
<1>12. TaskNumbers'
  <2>1. \A b \in Queue!Actors : Starts(b)' => Starts(b) /\ act'[b].task = act[b].task
    BY <1>1, <1>3, <1>5, <1>6 DEF Starts
  <2>2. \A b \in Queue!Actors : Starts(b)' => task'[act'[b].task] = Unborn /\ act'[b].task <= calls'
    BY <1>4, <2>1 DEF TaskNumbers
  <2>3. \A t \in Queue!Tasks : t > calls' => task'[t] = Unborn
    BY <1>4 DEF TaskNumbers
  <2> QED
    BY <2>1, <2>2, <2>3 DEF TaskNumbers
<1>13. FreshRows'
  <2>1. ~Early(c)'
    BY <1>3, <1>5 DEF Early
  <2>2. \A b \in Queue!Actors \ {c} : Early(b)' <=> Early(b)
    BY <1>5 DEF Early
  <2>3. ASSUME NEW q \in Rows, row'[q] = "absent"
        PROVE  /\ row[q] = "absent" /\ q # r
    BY <1>5, <1>8, <2>3
  <2>4. \A q \in todo : q \in Rows
    BY DEF QueueTypes
  <2>5. \A b \in Queue!Actors \ {c} : act[b] # Queue!Idle => act[b].row \in Rows \ {r}
    BY <1>6, ActIs DEF QueueTypes
  <2>6. \A q \in todo' : row'[q] # "absent"
    BY <1>4, <2>3, <2>4 DEF FreshRows
  <2>7. \A b \in Queue!Actors : act'[b] # Queue!Idle /\ Early(b)' => row'[act'[b].row] = "absent"
    BY <1>5, <2>1, <2>2, <2>5 DEF FreshRows
  <2>8. ASSUME NEW q \in Rows, row'[q] = "absent"
        PROVE  /\ \A t \in Queue!Tasks : task'[t] # Unborn => task'[t].row # q
               /\ \A b \in Queue!Actors : act'[b] # Queue!Idle /\ act'[b].row = q => Early(b)'
    BY <1>3, <1>4, <1>5, <2>2, <2>3, <2>8 DEF FreshRows
  <2> QED
    BY <2>6, <2>7, <2>8 DEF FreshRows
<1>14. Owned'
  <2>1. \A b \in Queue!Actors : act'[b].at \in {"intend", "stop", "await", "after"} => act'[b] = act[b]
    BY <1>3, <1>5
  <2>2. \A b \in Queue!Actors : act[b].at \in {"intend", "stop", "await", "after"} => act'[b] = act[b]
    BY <1>1, <1>5
  <2>3. \A b \in Queue!Actors : act'[b].at = "after" => act[b].task \in Queue!Tasks \cup {Queue!NoTask}
    BY <2>1, <1>5, ActIs DEF Queue!Idle
  <2> QED
    BY <1>4, <1>9, <2>1, <2>2, <2>3 DEF Owned, Holds
<1>15. Attended'
  <2>1. Starting(r)'
    BY <1>1, <1>3, <1>5 DEF Starting
  <2>2. ASSUME NEW q \in Rows
        PROVE  /\ Starting(q) => Starting(q)'
               /\ StoppingIt(q) => StoppingIt(q)'
               /\ Queue!Live(tasks[q]) => Queue!Live(tasks[q])'
               /\ Told(q) => Told(q)'
    BY <1>1, <1>4, <1>5 DEF Starting, StoppingIt, Queue!Live, Told
  <2>3. \A t \in Queue!Tasks : task[t].at = "rescan" => task[t].row \in Rows
    BY TaskIs DEF QueueTypes
  <2>4. up' = "up" => \A q \in Rows : row'[q] \in {"queued", "running"} =>
                       Queue!Live(tasks[q])' \/ Told(q)' \/ Starting(q)' \/ StoppingIt(q)'
    BY <1>4, <1>5, <2>1, <2>2 DEF Attended
  <2>5. ASSUME NEW t \in Queue!Tasks, task'[t].at = "rescan", task'[t].token = "open"
        PROVE  row'[task'[t].row] \notin {"queued", "running"} \/ Starting(task[t].row)'
    <3>1. PICK q \in Rows : q = task[t].row
      BY <1>4, <2>3, <2>5
    <3>2. row[q] \notin {"queued", "running"} \/ Starting(q)
      BY <1>4, <2>5, <3>1 DEF Attended
    <3> QED
      BY <1>4, <1>5, <2>1, <2>2, <3>1, <3>2 DEF Starting
  <2> QED
    BY <1>4, <2>4, <2>5 DEF Attended
<1>16. Quiet'
  <2> SUFFICES ASSUME abandons = 0
               PROVE  /\ \A t \in Queue!Tasks : Queue!Live(t)' /\ task'[t].token = "cancelled" =>
                           \E b \in Queue!Actors : act'[b].at = "await" /\ act'[b].task = t
                      /\ \A t \in Queue!Tasks : Queue!Live(t)' /\ task'[t].token = "open" /\ row'[task'[t].row] \in Parked =>
                           \E b \in Queue!Actors : Holds(b)' /\ act'[b].row = task'[t].row
                      /\ \A b \in Queue!Actors : act'[b].at \in {"requeue", "unintent", "spawn"} =>
                           /\ \A t \in Queue!Tasks : task'[t] # Unborn /\ task'[t].row = act'[b].row => ~Queue!Live(t)'
                           /\ row'[act'[b].row] \in IF act'[b].at = "requeue" THEN {"paused", "failed"} ELSE {"queued"}
    BY <1>4 DEF Quiet
  <2>1. ASSUME NEW t \in Queue!Tasks, task[t] # Unborn, task[t].row = r PROVE ~Queue!Live(t)
    BY <1>1, <1>2, <1>7, <2>1 DEF Quiet, FreshRows
  <2>2. row'[r] = "queued"
    BY <1>1, <1>2, <1>4, <1>7 DEF Quiet, Queue!Gone
  <2>3. ASSUME NEW t \in Queue!Tasks, Queue!Live(t), task[t].token = "cancelled"
        PROVE  \E b \in Queue!Actors : act'[b].at = "await" /\ act'[b].task = t
    <3>1. PICK b \in Queue!Actors : act[b].at = "await" /\ act[b].task = t
      BY <2>3 DEF Quiet
    <3> QED
      BY <1>1, <1>5, <3>1
  <2>4. ASSUME NEW t \in Queue!Tasks, Queue!Live(t), task[t].token = "open", row'[task[t].row] \in Parked
        PROVE  \E b \in Queue!Actors : Holds(b)' /\ act'[b].row = task[t].row
    <3>1. task[t].row \in Rows \ {r}
      BY <2>2, <2>4, Numbered, TaskIs DEF QueueTypes, Parked
    <3>2. PICK b \in Queue!Actors : Holds(b) /\ act[b].row = task[t].row
      BY <1>5, <2>4, <3>1 DEF Quiet
    <3> QED
      BY <1>1, <1>5, <3>2 DEF Holds
  <2>5. ASSUME NEW b \in Queue!Actors, act'[b].at \in {"requeue", "unintent", "spawn"}
        PROVE  /\ \A t \in Queue!Tasks : task[t] # Unborn /\ task[t].row = act'[b].row => ~Queue!Live(t)
               /\ row'[act'[b].row] \in IF act'[b].at = "requeue" THEN {"paused", "failed"} ELSE {"queued"}
    <3>1. CASE b = c
      BY <1>3, <1>5, <2>1, <2>2, <3>1
    <3>2. CASE b # c
      <4>1. act'[b] = act[b] /\ act[b] # Queue!Idle /\ act[b].row \in Rows \ {r}
        BY <1>5, <1>6, <2>5, <3>2, ActIs DEF QueueTypes, Queue!Idle
      <4> QED
        BY <1>5, <2>5, <4>1 DEF Quiet
    <3> QED
      BY <3>1, <3>2
  <2> QED
    BY <1>4, <1>9, <2>3, <2>4, <2>5
<1>17. Cardinality(Queue!Holding') <= Permits
  BY <1>4 DEF Queue!Holding
<1> QED
  BY <1>10, <1>11, <1>12, <1>13, <1>14, <1>15, <1>16, <1>17

\* The new task takes the place of the one registered for the row.
LEMMA SpawnKept ==
  ASSUME Queue!QueueConstants, QueueInv, OneAtATime, NEW c \in Callers, Queue!Spawn(c)
  PROVE  QueueInv'
<1> USE DEF QueueInv
<1>1. c \in Queue!Actors /\ act[c] \in ActType /\ act[c].at = "spawn" /\ act[c].op \in Starters /\ act[c] # Queue!Idle
      /\ act[c].task \in Queue!Tasks
  <2>1. c \in Queue!Actors /\ act[c] \in ActType /\ act[c].at = "spawn"
    BY DEF Queue!Actors, QueueTypes, Queue!Spawn
  <2> QED
    BY <2>1, ActIs DEF Starters
<1>2. PICK r \in Rows : act[c].row = r
  BY <1>1, ActIs
<1>3. PICK new \in Queue!Tasks : act[c].task = new
  BY <1>1
<1>4. PICK old \in Queue!Tasks \cup {Queue!NoTask} : tasks[r] = old
  BY DEF QueueTypes
<1> DEFINE x == [at |-> "born", row |-> r, token |-> "open"]
<1>5. /\ task' = [t \in Queue!Tasks |-> IF t = new THEN x
                                  ELSE IF t = old THEN [task[t] EXCEPT !.token = "cancelled"] ELSE task[t]]
      /\ tasks' = [tasks EXCEPT ![r] = new] /\ act' = [act EXCEPT ![c] = Queue!Idle]
      /\ UNCHANGED <<row, place, intent, todo, up, calls, abandons>>
  BY <1>2, <1>3, <1>4 DEF Queue!Spawn, Queue!Done, Queue!budget
<1>6. x \in TaskType /\ x # Unborn /\ x.at = "born" /\ x.row = r /\ x.token = "open"
  BY DEF TaskType, Unborn
<1> HIDE DEF x
<1>7. task[new] = Unborn /\ new <= calls /\ (\A b \in Queue!Actors \ {c} : Starts(b) => act[b].task # new)
  BY <1>1, <1>3 DEF TaskNumbers, Starts
<1>8. \A t \in Queue!Tasks : t # Queue!NoTask /\ t \in Nat
  BY Numbered
<1>9. old # Queue!NoTask => old \in Queue!Tasks /\ task[old] # Unborn /\ task[old].row = r /\ task[old].token = "open" /\ old # new
  BY <1>4, <1>7 DEF Owned
<1>10. \A t \in Queue!Tasks : task[t] # Unborn <=> task[t].at # "none"
  BY TaskIs DEF QueueTypes
<1>11. /\ task' \in [Queue!Tasks -> TaskType] /\ task'[new] = x
       /\ \A t \in Queue!Tasks \ {new, old} : task'[t] = task[t]
       /\ old # Queue!NoTask => task'[old].token = "cancelled"
       /\ \A t \in Queue!Tasks \ {new} : /\ task'[t].at = task[t].at
                                         /\ task[t] # Unborn => task'[t].row = task[t].row
                                         /\ task'[t] = Unborn <=> task[t] = Unborn
  <2>1. ASSUME NEW t \in Queue!Tasks, t = old
        PROVE  /\ [task[t] EXCEPT !.token = "cancelled"] \in TaskType
               /\ [task[t] EXCEPT !.token = "cancelled"].token = "cancelled"
               /\ [task[t] EXCEPT !.token = "cancelled"].at = task[t].at
               /\ [task[t] EXCEPT !.token = "cancelled"].row = task[t].row
               /\ [task[t] EXCEPT !.token = "cancelled"] # Unborn
    <3>1. task[t] \in TaskType /\ task[t] # Unborn
      BY <1>8, <1>9, <2>1 DEF QueueTypes
    <3> QED
      BY <3>1 DEF TaskType, Unborn
  <2> QED
    BY <1>5, <1>6, <1>8, <1>9, <2>1 DEF QueueTypes
<1>12. /\ tasks' \in [Rows -> Queue!Tasks \cup {Queue!NoTask}] /\ tasks'[r] = new
       /\ \A q \in Rows \ {r} : tasks'[q] = tasks[q]
       /\ act' \in [Queue!Actors -> ActType] /\ act'[c] = Queue!Idle /\ \A b \in Queue!Actors \ {c} : act'[b] = act[b]
  BY <1>1, <1>5 DEF QueueTypes, ActType
<1>13. /\ \A b \in Queue!Actors \ {c} : act[b] # Queue!Idle => act[b].row # r
       /\ Queue!Idle.at = "idle"
  BY <1>1, <1>2 DEF OneAtATime, Queue!Idle
<1>14. /\ Queue!Live(new)' /\ \A t \in Queue!Tasks \ {new} : Queue!Live(t)' <=> Queue!Live(t)
       /\ Queue!Live(Queue!NoTask)' <=> Queue!Live(Queue!NoTask)
  BY <1>6, <1>8, <1>11 DEF Queue!Live
<1>15. up = "up"
  BY <1>1 DEF HubPhases, QueueTypes
<1>16. QueueTypes'
  BY <1>5, <1>11, <1>12 DEF QueueTypes
<1>17. HubPhases'
  BY <1>5, <1>12, <1>15 DEF HubPhases
<1>18. TaskNumbers'
  <2>1. ASSUME NEW t \in Queue!Tasks, t > calls PROVE task'[t] = Unborn
    <3>1. t # new
      BY <1>7, <1>8, <2>1 DEF QueueTypes
    <3> QED
      BY <1>11, <2>1, <3>1 DEF TaskNumbers
  <2>2. ASSUME NEW b \in Queue!Actors, Starts(b)'
        PROVE  Starts(b) /\ act'[b] = act[b] /\ task'[act[b].task] = Unborn /\ act[b].task <= calls
    <3>1. b # c
      BY <1>12, <2>2 DEF Starts
    <3>2. act[b].task \in Queue!Tasks /\ Starts(b) /\ act'[b] = act[b]
      BY <1>12, <2>2, <3>1, ActIs DEF Starts
    <3>3. act[b].task # new /\ task[act[b].task] = Unborn /\ act[b].task <= calls
      BY <1>7, <3>1, <3>2 DEF TaskNumbers
    <3> QED
      BY <1>11, <3>2, <3>3
  <2> QED
    BY <1>5, <2>1, <2>2 DEF TaskNumbers
<1>19. row[r] # "absent"
  BY <1>1, <1>2 DEF FreshRows, Early
<1>20. FreshRows'
  <2>1. ASSUME NEW q \in Rows, row[q] = "absent", NEW t \in Queue!Tasks, task'[t] # Unborn PROVE task'[t].row # q
    BY <1>6, <1>11, <1>19, <2>1 DEF FreshRows
  <2> QED
    BY <1>5, <1>12, <2>1 DEF FreshRows, Early
<1>21. Owned'
  <2>1. ASSUME NEW q \in Rows, tasks'[q] # Queue!NoTask
        PROVE  task'[tasks'[q]] # Unborn /\ task'[tasks'[q]].row = q /\ task'[tasks'[q]].token = "open"
    <3>1. CASE q = r
      BY <1>6, <1>11, <1>12, <3>1
    <3>2. CASE q # r
      <4>1. PICK t \in Queue!Tasks : tasks[q] = t /\ tasks'[q] = t
        BY <1>12, <2>1, <3>2 DEF QueueTypes
      <4>2. task[t] # Unborn /\ task[t].row = q /\ task[t].token = "open"
        BY <1>8, <4>1 DEF Owned
      <4> QED
        BY <1>7, <1>8, <1>9, <1>11, <3>2, <4>1, <4>2
    <3> QED
      BY <3>1, <3>2
  <2>2. ASSUME NEW b \in Queue!Actors, Holds(b)'
        PROVE  /\ tasks'[act'[b].row] = Queue!NoTask
               /\ act'[b].task # Queue!NoTask => task'[act'[b].task] # Unborn /\ task'[act'[b].task].row = act'[b].row
               /\ act'[b].task # Queue!NoTask /\ act'[b].at \in {"intend", "stop"} => task'[act'[b].task].token = "open"
               /\ act'[b].at = "await" => act'[b].task # Queue!NoTask /\ task'[act'[b].task].token = "cancelled"
               /\ act'[b].at = "after" => ~Queue!Live(act[b].task)' /\ act'[b].task = act[b].task
    <3>1. b # c /\ act'[b] = act[b]
      BY <1>12, <1>13, <2>2 DEF Holds
    <3>2. Holds(b) /\ act[b] # Queue!Idle /\ act[b].row \in Rows \ {r} /\ act[b].task \in Queue!Tasks \cup {Queue!NoTask}
      BY <1>12, <1>13, <2>2, <3>1, ActIs DEF Holds, QueueTypes
    <3>3. act[b].task # Queue!NoTask => act[b].task # new /\ act[b].task # old
      BY <1>7, <1>9, <3>2 DEF Owned
    <3> QED
      BY <1>8, <1>11, <1>12, <1>14, <3>1, <3>2, <3>3 DEF Owned
  <2>3. ASSUME NEW t \in Queue!Tasks, Queue!Live(t)', task'[t].token = "open"
        PROVE  \/ tasks'[task'[t].row] = t
               \/ \E b \in Queue!Actors : act'[b].at \in {"intend", "stop"} /\ act'[b].task = t
    <3>1. CASE t = new
      BY <1>6, <1>11, <1>12, <3>1
    <3>2. CASE t # new
      <4>1. t # old /\ Queue!Live(t) /\ task'[t] = task[t] /\ task[t].row \in Rows
        BY <1>8, <1>11, <1>14, <2>3, <3>2, Numbered, TaskIs DEF QueueTypes
      <4>2. CASE tasks[task[t].row] = t
        BY <1>4, <1>12, <4>1, <4>2
      <4>3. CASE \E b \in Queue!Actors : act[b].at \in {"intend", "stop"} /\ act[b].task = t
        BY <1>1, <1>12, <4>3
      <4> QED
        BY <2>3, <4>1, <4>2, <4>3 DEF Owned
    <3> QED
      BY <3>1, <3>2
  <2>4. ASSUME NEW t \in Queue!Tasks, task'[t].at = "cleanup" PROVE task'[t].token = "cancelled"
    BY <1>6, <1>8, <1>11, <2>4 DEF Owned
  <2> QED
    BY <2>1, <2>2, <2>3, <2>4 DEF Owned, Holds
<1>22. Attended'
  <2>1. ASSUME NEW q \in Rows \ {r}
        PROVE  /\ Starting(q) <=> Starting(q)'
               /\ StoppingIt(q) => StoppingIt(q)'
    <3>1. ASSUME StoppingIt(q) PROVE StoppingIt(q)'
      <4>1. PICK b \in Queue!Actors : act[b].at \in {"intend", "stop"} /\ act[b].row = q /\ Queue!Live(act[b].task)
        BY <3>1 DEF StoppingIt
      <4>2. b # c /\ act'[b] = act[b]
        BY <1>1, <1>12, <4>1
      <4>3. act[b].task \in Queue!Tasks \cup {Queue!NoTask}
        BY <4>1, ActIs DEF QueueTypes, Queue!Idle
      <4>4. Queue!Live(act[b].task)'
        BY <1>14, <4>1, <4>2, <4>3 DEF Queue!Live
      <4> QED
        BY <4>1, <4>2, <4>4 DEF StoppingIt
    <3> QED
      BY <1>2, <1>12, <1>13, <3>1 DEF Starting
  <2>2. ASSUME NEW q \in Rows \ {r}, Queue!Live(tasks[q]) PROVE Queue!Live(tasks[q])'
    <3>1. PICK t \in Queue!Tasks : tasks[q] = t
      BY <2>2 DEF QueueTypes, Queue!Live
    <3>2. t # new
      BY <1>7, <1>10, <2>2, <3>1, Numbered
    <3> QED
      BY <1>12, <1>14, <2>2, <3>1, <3>2 DEF Queue!Live
  <2>3. ASSUME NEW q \in Rows, Told(q) PROVE Told(q)'
    <3>1. PICK t \in Queue!Tasks : /\ task[t].at \in {"born", "wait", "work", "finishing", "failing", "rescan"}
                                   /\ task[t].row = q /\ task[t].token = "cancelled"
      BY <2>3 DEF Told
    <3> QED
      BY <1>7, <1>8, <1>9, <1>10, <1>11, <3>1 DEF Told
  <2>4. Queue!Live(tasks[r])'
    BY <1>12, <1>14 DEF Queue!Live
  <2>5. \A q \in Rows : row'[q] \in {"queued", "running"} =>
                       Queue!Live(tasks[q])' \/ Told(q)' \/ Starting(q)' \/ StoppingIt(q)'
    BY <1>5, <1>15, <2>1, <2>2, <2>3, <2>4 DEF Attended
  <2>6. ASSUME NEW t \in Queue!Tasks, task'[t].at = "rescan", task'[t].token = "open"
        PROVE  row'[task'[t].row] \notin {"queued", "running"} \/ Starting(task[t].row)'
    <3>1. t # new /\ t # old /\ task'[t] = task[t]
      BY <1>6, <1>8, <1>11, <2>6
    <3>2. Queue!Live(t) /\ task[t].row \in Rows
      BY <1>10, <2>6, <3>1, Numbered, TaskIs DEF QueueTypes
    <3>3. task[t].row # r
      <4> SUFFICES ASSUME task[t].row = r PROVE FALSE
        OBVIOUS
      <4>1. PICK b \in Queue!Actors : act[b].at \in {"intend", "stop"} /\ act[b].task = t
        BY <1>4, <2>6, <3>1, <3>2 DEF Owned
      <4>2. b # c /\ act[b] # Queue!Idle /\ act[b].row = r
        BY <1>1, <1>8, <1>13, <4>1 DEF Owned, Holds
      <4> QED
        BY <1>13, <4>2
    <3>4. PICK q \in Rows \ {r} : q = task[t].row
      BY <3>2, <3>3
    <3>5. row[q] \notin {"queued", "running"} \/ Starting(q)
      BY <2>6, <3>1, <3>4 DEF Attended
    <3> QED
      BY <1>5, <2>1, <3>1, <3>4, <3>5 DEF Starting
  <2> QED
    BY <1>5, <1>15, <2>5, <2>6 DEF Attended, Starting
<1>23. Quiet'
  <2> SUFFICES ASSUME abandons = 0
               PROVE  /\ \A t \in Queue!Tasks : Queue!Live(t)' /\ task'[t].token = "cancelled" =>
                           \E b \in Queue!Actors : act'[b].at = "await" /\ act'[b].task = t
                      /\ \A t \in Queue!Tasks : Queue!Live(t)' /\ task'[t].token = "open" /\ row'[task'[t].row] \in Parked =>
                           \E b \in Queue!Actors : Holds(b)' /\ act'[b].row = task'[t].row
                      /\ \A b \in Queue!Actors : act'[b].at \in {"requeue", "unintent", "spawn"} =>
                           /\ \A t \in Queue!Tasks : task'[t] # Unborn /\ task'[t].row = act'[b].row => ~Queue!Live(t)'
                           /\ row'[act'[b].row] \in IF act'[b].at = "requeue" THEN {"paused", "failed"} ELSE {"queued"}
    BY <1>5 DEF Quiet
  <2>1. old # Queue!NoTask => ~Queue!Live(old)
    BY <1>1, <1>2, <1>9 DEF Quiet
  <2>2. row[r] = "queued"
    BY <1>1, <1>2 DEF Quiet
  <2>3. ASSUME NEW t \in Queue!Tasks, Queue!Live(t)', t # new PROVE Queue!Live(t) /\ task'[t] = task[t] /\ task[t] # Unborn
    BY <1>8, <1>10, <1>11, <1>14, <2>1, <2>3, Numbered
  <2>4. ASSUME NEW t \in Queue!Tasks, Queue!Live(t)', task'[t].token = "cancelled"
        PROVE  \E b \in Queue!Actors : act'[b].at = "await" /\ act'[b].task = t
    <3>1. t # new
      BY <1>6, <1>11, <2>4
    <3>2. PICK b \in Queue!Actors : act[b].at = "await" /\ act[b].task = t
      BY <2>3, <2>4, <3>1 DEF Quiet
    <3> QED
      BY <1>1, <1>12, <3>2
  <2>5. ASSUME NEW t \in Queue!Tasks, Queue!Live(t)', task'[t].token = "open", row'[task'[t].row] \in Parked
        PROVE  \E b \in Queue!Actors : Holds(b)' /\ act'[b].row = task'[t].row
    <3>1. t # new
      BY <1>5, <1>6, <1>11, <2>2, <2>5 DEF Parked
    <3>2. PICK b \in Queue!Actors : Holds(b) /\ act[b].row = task[t].row
      BY <1>5, <2>3, <2>5, <3>1 DEF Quiet
    <3> QED
      BY <1>1, <1>12, <2>3, <2>5, <3>1, <3>2 DEF Holds
  <2>6. ASSUME NEW b \in Queue!Actors, act'[b].at \in {"requeue", "unintent", "spawn"}
        PROVE  /\ \A t \in Queue!Tasks : task'[t] # Unborn /\ task'[t].row = act'[b].row => ~Queue!Live(t)'
               /\ row'[act'[b].row] \in IF act'[b].at = "requeue" THEN {"paused", "failed"} ELSE {"queued"}
    <3>1. b # c /\ act'[b] = act[b] /\ act[b] # Queue!Idle
      BY <1>12, <1>13, <2>6
    <3>2. act[b].row \in Rows \ {r}
      BY <1>13, <3>1, ActIs DEF QueueTypes
    <3>3. ASSUME NEW t \in Queue!Tasks, task'[t] # Unborn, task'[t].row = act[b].row PROVE ~Queue!Live(t)'
      <4>1. t # new
        BY <1>6, <1>11, <3>2, <3>3
      <4> QED
        BY <1>11, <1>14, <2>6, <3>1, <3>3, <4>1 DEF Quiet
    <3> QED
      BY <1>5, <2>6, <3>1, <3>3 DEF Quiet
  <2> QED
    BY <2>4, <2>5, <2>6
<1>24. Cardinality(Queue!Holding') <= Permits
  <2>1. \A t \in Queue!Tasks : t \in Queue!Holding' => t \in Queue!Holding
    BY <1>6, <1>11 DEF Queue!Holding
  <2> QED
    BY <2>1, FewerHold
<1> QED
  BY <1>16, <1>17, <1>18, <1>20, <1>21, <1>22, <1>23, <1>24

\* stop_task() begins: what was registered is in the call's hands.
LEMMA TakeKept ==
  ASSUME Queue!QueueConstants, QueueInv, OneAtATime, NEW a \in Queue!Actors, Queue!Take(a)
  PROVE  QueueInv'
<1> USE DEF QueueInv
<1>1. act[a] \in ActType /\ act[a].at = "take" /\ act[a].op \in Stoppers /\ act[a] # Queue!Idle
  <2>1. act[a] \in ActType /\ act[a].at = "take"
    BY DEF QueueTypes, Queue!Take
  <2> QED
    BY <2>1, ActIs
<1>2. PICK r \in Rows : act[a].row = r
  BY <1>1, ActIs
<1>3. PICK old \in Queue!Tasks \cup {Queue!NoTask} : tasks[r] = old
  BY DEF QueueTypes
<1> DEFINE x == [act[a] EXCEPT !.at = "intend", !.task = old]
<1>4. /\ act' = [act EXCEPT ![a] = x] /\ tasks' = [tasks EXCEPT ![r] = Queue!NoTask]
      /\ UNCHANGED <<row, place, task, intent, todo, up, calls, abandons>>
  BY <1>2, <1>3 DEF Queue!Take, Queue!budget
<1>5. x \in ActType /\ x # Queue!Idle /\ x.at = "intend" /\ x.op = act[a].op /\ x.row = r /\ x.task = old
  <2>1. act[a] \in [at : {"look", "take", "intend", "stop", "await", "after"}, op : Stoppers,
               row : Rows, task : Queue!Tasks \cup {Queue!NoTask}]
    BY <1>1 DEF ActType, Stoppers
  <2> QED
    BY <1>2, <2>1 DEF ActType, Queue!Idle
<1> HIDE DEF x
<1>6. /\ act' \in [Queue!Actors -> ActType] /\ act'[a] = x /\ \A b \in Queue!Actors \ {a} : act'[b] = act[b]
      /\ tasks' \in [Rows -> Queue!Tasks \cup {Queue!NoTask}] /\ tasks'[r] = Queue!NoTask
      /\ \A q \in Rows \ {r} : tasks'[q] = tasks[q]
  BY <1>4, <1>5 DEF QueueTypes
<1>7. \A b \in Queue!Actors \ {a} : act[b] # Queue!Idle => act[b].row # r
  BY <1>1, <1>2 DEF OneAtATime
<1>8. \A t \in Queue!Tasks \cup {Queue!NoTask} : Queue!Live(t)' <=> Queue!Live(t)
  BY <1>4 DEF Queue!Live
<1>9. old # Queue!NoTask => task[old] # Unborn /\ task[old].row = r /\ task[old].token = "open"
  BY <1>3 DEF Owned
<1>10. QueueTypes'
  BY <1>4, <1>6 DEF QueueTypes
<1>11. HubPhases'
  BY <1>1, <1>4, <1>6, <1>8 DEF HubPhases, Queue!Actors
<1>12. TaskNumbers'
  <2>1. \A b \in Queue!Actors : Starts(b)' => Starts(b) /\ act'[b].task = act[b].task
    BY <1>1, <1>5, <1>6 DEF Starts, Starters, Stoppers
  <2>2. \A b \in Queue!Actors : Starts(b)' => task'[act'[b].task] = Unborn /\ act'[b].task <= calls'
    BY <1>4, <2>1 DEF TaskNumbers
  <2>3. \A t \in Queue!Tasks : t > calls' => task'[t] = Unborn
    BY <1>4 DEF TaskNumbers
  <2> QED
    BY <2>1, <2>2, <2>3 DEF TaskNumbers
<1>13. FreshRows'
  <2>1. row[r] # "absent"
    BY <1>1, <1>2 DEF FreshRows, Early
  <2> QED
    BY <1>4, <1>5, <1>6, <2>1 DEF FreshRows, Early
<1>14. Owned'
  <2>1. ASSUME NEW q \in Rows, tasks'[q] # Queue!NoTask
        PROVE  task'[tasks'[q]] # Unborn /\ task'[tasks'[q]].row = q /\ task'[tasks'[q]].token = "open"
    BY <1>4, <1>6, <2>1 DEF Owned
  <2>2. ASSUME NEW b \in Queue!Actors, Holds(b)'
        PROVE  /\ tasks'[act'[b].row] = Queue!NoTask
               /\ act'[b].task # Queue!NoTask => task'[act'[b].task] # Unborn /\ task'[act'[b].task].row = act'[b].row
               /\ act'[b].task # Queue!NoTask /\ act'[b].at \in {"intend", "stop"} => task'[act'[b].task].token = "open"
               /\ act'[b].at = "await" => act'[b].task # Queue!NoTask /\ task'[act'[b].task].token = "cancelled"
               /\ act'[b].at = "after" => ~Queue!Live(act[b].task)'
    <3>1. CASE b = a
      BY <1>4, <1>5, <1>6, <1>9, <3>1
    <3>2. CASE b # a
      <4>1. act'[b] = act[b] /\ Holds(b) /\ act[b] # Queue!Idle /\ act[b].row \in Rows \ {r}
            /\ act[b].task \in Queue!Tasks \cup {Queue!NoTask}
        BY <1>6, <1>7, <2>2, <3>2, ActIs DEF Holds, QueueTypes
      <4>2. ~Queue!Live(act[b].task) => ~Queue!Live(act[b].task)'
        BY <4>1, <1>4 DEF Queue!Live
      <4> QED
        BY <1>4, <1>6, <4>1, <4>2 DEF Owned
    <3> QED
      BY <3>1, <3>2
  <2>3. ASSUME NEW t \in Queue!Tasks, Queue!Live(t)', task'[t].token = "open"
        PROVE  \/ tasks'[task'[t].row] = t
               \/ \E b \in Queue!Actors : act'[b].at \in {"intend", "stop"} /\ act'[b].task = t
    <3>1. task[t].row \in Rows
      BY <1>8, <2>3, Numbered, TaskIs DEF QueueTypes
    <3>2. CASE tasks[task[t].row] = t /\ task[t].row = r
      BY <1>3, <1>5, <1>6, <3>2
    <3>3. CASE tasks[task[t].row] = t /\ task[t].row # r
      BY <1>4, <1>6, <3>1, <3>3
    <3>4. CASE \E b \in Queue!Actors : act[b].at \in {"intend", "stop"} /\ act[b].task = t
      BY <1>1, <1>6, <3>4
    <3> QED
      BY <1>4, <1>8, <2>3, <3>2, <3>3, <3>4 DEF Owned
  <2>4. ASSUME NEW t \in Queue!Tasks, task'[t].at = "cleanup" PROVE task'[t].token = "cancelled"
    BY <1>4, <2>4 DEF Owned
  <2> QED
    BY <2>1, <2>2, <2>3, <2>4 DEF Owned
<1>15. Attended'
  <2>1. Queue!Live(tasks[r]) => StoppingIt(r)'
    BY <1>3, <1>4, <1>5, <1>6 DEF StoppingIt, Queue!Live
  <2>2. ASSUME NEW q \in Rows
        PROVE  /\ Starting(q) => Starting(q)'
               /\ StoppingIt(q) => StoppingIt(q)'
               /\ Queue!Live(tasks[q]) /\ q # r => Queue!Live(tasks[q])'
               /\ Told(q) => Told(q)'
    BY <1>1, <1>4, <1>6 DEF Starting, StoppingIt, Queue!Live, Told
  <2>3. \A t \in Queue!Tasks : task[t].at = "rescan" => task[t].row \in Rows
    BY TaskIs DEF QueueTypes
  <2>4. up' = "up" => \A q \in Rows : row'[q] \in {"queued", "running"} =>
                       Queue!Live(tasks[q])' \/ Told(q)' \/ Starting(q)' \/ StoppingIt(q)'
    BY <1>4, <2>1, <2>2 DEF Attended
  <2>5. ASSUME NEW t \in Queue!Tasks, task'[t].at = "rescan", task'[t].token = "open"
        PROVE  row'[task'[t].row] \notin {"queued", "running"} \/ Starting(task[t].row)'
    <3>1. PICK q \in Rows : q = task[t].row
      BY <1>4, <2>3, <2>5
    <3>2. row[q] \notin {"queued", "running"} \/ Starting(q)
      BY <1>4, <2>5, <3>1 DEF Attended
    <3> QED
      BY <1>4, <2>2, <3>1, <3>2 DEF Starting
  <2> QED
    BY <1>4, <2>4, <2>5 DEF Attended
<1>16. Quiet'
  <2> SUFFICES ASSUME abandons = 0
               PROVE  /\ \A t \in Queue!Tasks : Queue!Live(t) /\ task[t].token = "cancelled" =>
                           \E b \in Queue!Actors : act'[b].at = "await" /\ act'[b].task = t
                      /\ \A t \in Queue!Tasks : Queue!Live(t) /\ task[t].token = "open" /\ row[task[t].row] \in Parked =>
                           \E b \in Queue!Actors : Holds(b)' /\ act'[b].row = task[t].row
                      /\ \A b \in Queue!Actors : act'[b].at \in {"requeue", "unintent", "spawn"} => act'[b] = act[b]
    BY <1>4, <1>8 DEF Quiet
  <2>1. ASSUME NEW t \in Queue!Tasks, Queue!Live(t), task[t].token = "cancelled"
        PROVE  \E b \in Queue!Actors : act'[b].at = "await" /\ act'[b].task = t
    <3>1. PICK b \in Queue!Actors : act[b].at = "await" /\ act[b].task = t
      BY <2>1 DEF Quiet
    <3> QED
      BY <1>1, <1>6, <3>1
  <2>2. ASSUME NEW t \in Queue!Tasks, Queue!Live(t), task[t].token = "open", row[task[t].row] \in Parked
        PROVE  \E b \in Queue!Actors : Holds(b)' /\ act'[b].row = task[t].row
    <3>1. PICK b \in Queue!Actors : Holds(b) /\ act[b].row = task[t].row
      BY <2>2 DEF Quiet
    <3> QED
      BY <1>1, <1>6, <3>1 DEF Holds
  <2>3. \A b \in Queue!Actors : act'[b].at \in {"requeue", "unintent", "spawn"} => act'[b] = act[b]
    BY <1>5, <1>6
  <2> QED
    BY <2>1, <2>2, <2>3
<1>17. Cardinality(Queue!Holding') <= Permits
  BY <1>4 DEF Queue!Holding
<1> QED
  BY <1>10, <1>11, <1>12, <1>13, <1>14, <1>15, <1>16, <1>17

\* ... its token is cancelled, or there is nothing to wait for.
LEMMA StopKept ==
  ASSUME Queue!QueueConstants, QueueInv, OneAtATime, NEW a \in Queue!Actors, Queue!Stop(a)
  PROVE  QueueInv'
<1> USE DEF QueueInv
<1>1. act[a] \in ActType /\ act[a].at = "stop" /\ act[a].op \in Stoppers /\ act[a] # Queue!Idle
      /\ act[a].task \in Queue!Tasks \cup {Queue!NoTask}
  <2>1. act[a] \in ActType /\ act[a].at = "stop"
    BY DEF QueueTypes, Queue!Stop
  <2> QED
    BY <2>1, ActIs
<1>2. PICK r \in Rows : act[a].row = r
  BY <1>1, ActIs
<1>3. PICK old \in Queue!Tasks \cup {Queue!NoTask} : act[a].task = old
  BY <1>1
<1>4. /\ tasks[r] = Queue!NoTask
      /\ old # Queue!NoTask => task[old] # Unborn /\ task[old].row = r /\ task[old].token = "open"
  BY <1>1, <1>2, <1>3 DEF Owned, Holds
<1>5. \A b \in Queue!Actors \ {a} : act[b] # Queue!Idle => act[b].row # r
  BY <1>1, <1>2 DEF OneAtATime
<1>6. UNCHANGED <<place, tasks, intent, todo, up, calls, abandons>>
  BY DEF Queue!Stop, Queue!budget
<1>7. PICK w \in {"await", "after"} :
        /\ Queue!Step(a, w)
        /\ w = "await" => Queue!Live(old) /\ task' = [task EXCEPT ![old].token = "cancelled"] /\ row' = row
        /\ w = "after" => ~Queue!Live(old) /\ task' = task
                          /\ (row' = row \/ (row[r] \notin Queue!Gone /\ row' = [row EXCEPT ![r] = "paused"]))
  BY <1>2, <1>3 DEF Queue!Stop, Queue!Stoppable, Queue!Set
<1>8. PICK x \in ActType : /\ x = [act[a] EXCEPT !.at = w] /\ x # Queue!Idle /\ x.at = w
                           /\ x.op = act[a].op /\ x.row = r /\ x.task = old
  BY <1>1, <1>2, <1>3, StepIs
<1>9. act' = [act EXCEPT ![a] = x]
  BY <1>7, <1>8 DEF Queue!Step
<1>10. act' \in [Queue!Actors -> ActType] /\ act'[a] = x /\ \A b \in Queue!Actors \ {a} : act'[b] = act[b]
  BY <1>9 DEF QueueTypes
<1>11. \A t \in Queue!Tasks : t # Queue!NoTask /\ t \in Nat
  BY Numbered
<1>12. \A t \in Queue!Tasks : task[t] # Unborn <=> task[t].at # "none"
  BY TaskIs DEF QueueTypes
<1>13. /\ task' \in [Queue!Tasks -> TaskType]
       /\ \A t \in Queue!Tasks \ {old} : task'[t] = task[t]
       /\ \A t \in Queue!Tasks : /\ task'[t].at = task[t].at
                                 /\ task[t] # Unborn => task'[t].row = task[t].row
                                 /\ task'[t] = Unborn <=> task[t] = Unborn
       /\ w = "await" => old \in Queue!Tasks /\ task'[old].token = "cancelled"
       /\ w = "after" => task' = task
  <2>1. CASE w = "after"
    BY <1>7, <2>1 DEF QueueTypes
  <2>2. CASE w = "await"
    <3>1. old \in Queue!Tasks /\ task[old] \in TaskType /\ task[old] # Unborn
      BY <1>4, <1>7, <2>2 DEF Queue!Live, QueueTypes
    <3> DEFINE y == [task[old] EXCEPT !.token = "cancelled"]
    <3>2. y \in TaskType /\ y # Unborn /\ y.at = task[old].at /\ y.row = task[old].row /\ y.token = "cancelled"
      BY <3>1 DEF TaskType, Unborn
    <3>3. task' = [task EXCEPT ![old] = y]
      BY <1>7, <2>2
    <3> HIDE DEF y
    <3> QED
      BY <2>2, <3>1, <3>2, <3>3 DEF QueueTypes
  <2> QED
    BY <2>1, <2>2
<1>14. \A t \in Queue!Tasks \cup {Queue!NoTask} : Queue!Live(t)' <=> Queue!Live(t)
  BY <1>13 DEF Queue!Live
<1>15. /\ row' \in [Rows -> Queue!States] /\ \A q \in Rows \ {r} : row'[q] = row[q]
       /\ row'[r] = row[r] \/ row'[r] = "paused"
       /\ \A q \in Rows : row'[q] = "absent" <=> row[q] = "absent"
  BY <1>7 DEF QueueTypes, Queue!States, Queue!Unfinished, Queue!Gone
<1>16. QueueTypes'
  BY <1>6, <1>10, <1>13, <1>15 DEF QueueTypes
<1>17. HubPhases'
  BY <1>1, <1>6, <1>10, <1>14 DEF HubPhases, Queue!Actors
<1>18. TaskNumbers'
  <2>1. \A b \in Queue!Actors : Starts(b)' => Starts(b) /\ act'[b].task = act[b].task /\ act[b].task \in Queue!Tasks
    BY <1>1, <1>8, <1>10, ActIs, ZenonT(40) DEF Starts, Starters, Stoppers, QueueTypes
  <2>2. \A b \in Queue!Actors : Starts(b)' => task'[act'[b].task] = Unborn /\ act'[b].task <= calls'
    BY <1>6, <1>13, <2>1 DEF TaskNumbers
  <2>3. \A t \in Queue!Tasks : t > calls' => task'[t] = Unborn
    BY <1>6, <1>13 DEF TaskNumbers
  <2> QED
    BY <2>1, <2>2, <2>3 DEF TaskNumbers
<1>19. FreshRows'
  <2>1. row[r] # "absent"
    BY <1>1, <1>2 DEF FreshRows, Early
  <2>2. ASSUME NEW q \in Rows, row'[q] = "absent"
        PROVE  /\ \A t \in Queue!Tasks : task'[t] # Unborn => task'[t].row # q
               /\ \A b \in Queue!Actors : act'[b] # Queue!Idle /\ act'[b].row = q => Early(b)'
    <3>1. q # r /\ row[q] = "absent"
      BY <1>15, <2>1, <2>2
    <3>2. \A t \in Queue!Tasks : task[t] # Unborn => task[t].row # q
      BY <3>1 DEF FreshRows
    <3>3. \A b \in Queue!Actors \ {a} : act[b] # Queue!Idle /\ act[b].row = q => Early(b)
      BY <3>1 DEF FreshRows
    <3>4. \A t \in Queue!Tasks : task'[t] # Unborn => task'[t].row # q
      BY <1>13, <3>2
    <3>5. \A b \in Queue!Actors : act'[b] # Queue!Idle /\ act'[b].row = q => b # a /\ act'[b] = act[b]
      BY <1>8, <1>10, <3>1
    <3>6. \A b \in Queue!Actors : act'[b] # Queue!Idle /\ act'[b].row = q => Early(b)'
      BY <3>3, <3>5 DEF Early
    <3> QED
      BY <3>4, <3>6
  <2>3. \A b \in Queue!Actors : act'[b] # Queue!Idle /\ Early(b)' => act'[b] = act[b] /\ act[b].row \in Rows
    BY <1>8, <1>10, ActIs DEF Early
  <2>4. \A b \in Queue!Actors : act'[b] # Queue!Idle /\ Early(b)' => row'[act'[b].row] = "absent"
    BY <1>15, <2>3 DEF FreshRows, Early
  <2>5. \A q \in todo' : row'[q] # "absent"
    BY <1>6, <1>15 DEF FreshRows, QueueTypes
  <2> QED
    BY <2>2, <2>4, <2>5 DEF FreshRows
<1>20. Owned'
  <2>1. ASSUME NEW q \in Rows, tasks'[q] # Queue!NoTask
        PROVE  task'[tasks'[q]] # Unborn /\ task'[tasks'[q]].row = q /\ task'[tasks'[q]].token = "open"
    <3>1. PICK t \in Queue!Tasks : tasks[q] = t /\ tasks'[q] = t
      BY <1>6, <2>1 DEF QueueTypes
    <3>2. task[t] # Unborn /\ task[t].row = q /\ task[t].token = "open" /\ q # r
      BY <1>4, <1>11, <3>1 DEF Owned
    <3> QED
      BY <1>4, <1>11, <1>13, <3>1, <3>2
  <2>2. ASSUME NEW b \in Queue!Actors, Holds(b)'
        PROVE  /\ tasks'[act'[b].row] = Queue!NoTask
               /\ act'[b].task # Queue!NoTask => task'[act'[b].task] # Unborn /\ task'[act'[b].task].row = act'[b].row
               /\ act'[b].task # Queue!NoTask /\ act'[b].at \in {"intend", "stop"} => task'[act'[b].task].token = "open"
               /\ act'[b].at = "await" => act'[b].task # Queue!NoTask /\ task'[act'[b].task].token = "cancelled"
               /\ act'[b].at = "after" => ~Queue!Live(act[b].task)'
    <3>1. CASE b = a
      <4>1. old # Queue!NoTask => old \in Queue!Tasks
        BY <1>3
      <4>2. w = "after" => ~Queue!Live(act[a].task)'
        BY <1>3, <1>7, <1>8, <1>10, <1>14 DEF Queue!Live
      <4> QED
        BY <1>4, <1>6, <1>8, <1>10, <1>11, <1>13, <3>1, <4>1, <4>2
    <3>2. CASE b # a
      <4>1. act'[b] = act[b] /\ Holds(b) /\ act[b] # Queue!Idle /\ act[b].row \in Rows \ {r}
            /\ act[b].task \in Queue!Tasks \cup {Queue!NoTask}
        BY <1>5, <1>10, <2>2, <3>2, ActIs DEF Holds, QueueTypes
      <4>2. act[b].task # Queue!NoTask => act[b].task # old
        BY <1>4, <4>1 DEF Owned
      <4>3. ~Queue!Live(act[b].task) => ~Queue!Live(act[b].task)'
        BY <1>14, <4>1 DEF Queue!Live
      <4> QED
        BY <1>6, <1>13, <4>1, <4>2, <4>3 DEF Owned
    <3> QED
      BY <3>1, <3>2
  <2>3. ASSUME NEW t \in Queue!Tasks, Queue!Live(t)', task'[t].token = "open"
        PROVE  \/ tasks'[task'[t].row] = t
               \/ \E b \in Queue!Actors : act'[b].at \in {"intend", "stop"} /\ act'[b].task = t
    <3>1. t # old
      BY <1>7, <1>13, <1>14, <2>3
    <3>2. Queue!Live(t) /\ task'[t] = task[t]
      BY <1>13, <1>14, <2>3, <3>1
    <3>3. CASE tasks[task[t].row] = t
      BY <1>6, <3>2, <3>3
    <3>4. CASE \E b \in Queue!Actors : act[b].at \in {"intend", "stop"} /\ act[b].task = t
      BY <1>3, <1>10, <3>1, <3>4
    <3> QED
      BY <2>3, <3>2, <3>3, <3>4 DEF Owned
  <2>4. ASSUME NEW t \in Queue!Tasks, task'[t].at = "cleanup" PROVE task'[t].token = "cancelled"
    BY <1>13, <2>4 DEF Owned
  <2> QED
    BY <2>1, <2>2, <2>3, <2>4 DEF Owned
<1>21. Attended'
  <2>1. ASSUME NEW q \in Rows
        PROVE  /\ Starting(q) => Starting(q)'
               /\ StoppingIt(q) /\ q # r => StoppingIt(q)'
               /\ Queue!Live(tasks[q]) => Queue!Live(tasks[q])'
    <3>1. tasks[q] \in Queue!Tasks \cup {Queue!NoTask}
      BY DEF QueueTypes
    <3>2. ASSUME StoppingIt(q), q # r PROVE StoppingIt(q)'
      <4>1. PICK b \in Queue!Actors : act[b].at \in {"intend", "stop"} /\ act[b].row = q /\ Queue!Live(act[b].task)
        BY <3>2 DEF StoppingIt
      <4>2. b # a /\ act'[b] = act[b]
        BY <1>2, <1>10, <3>2, <4>1
      <4>3. act[b].task \in Queue!Tasks \cup {Queue!NoTask}
        BY <4>1, ActIs DEF QueueTypes, Queue!Idle
      <4>4. Queue!Live(act[b].task)'
        BY <1>14, <4>1, <4>2, <4>3 DEF Queue!Live
      <4> QED
        BY <4>1, <4>2, <4>4 DEF StoppingIt
    <3> QED
      BY <1>1, <1>2, <1>6, <1>10, <1>13, <1>14, <3>1, <3>2 DEF Starting, Queue!Live
  <2>2. ASSUME NEW q \in Rows, Told(q) PROVE Told(q)'
    <3>1. PICK t \in Queue!Tasks : /\ task[t].at \in {"born", "wait", "work", "finishing", "failing", "rescan"}
                                   /\ task[t].row = q /\ task[t].token = "cancelled"
      BY <2>2 DEF Told
    <3> QED
      BY <1>4, <1>11, <1>12, <1>13, <3>1 DEF Told
  <2>3. StoppingIt(r) => Told(r)'
    <3>1. CASE w = "after"
      BY <1>3, <1>5, <1>7, <3>1 DEF StoppingIt, Queue!Idle
    <3>2. CASE w = "await"
      <4>1. old \in Queue!Tasks /\ task[old].at \notin {"none", "ended", "cleanup"}
        BY <1>4, <1>7, <1>11, <1>13, <3>2, Numbered DEF Owned
      <4>2. task[old].at \in {"born", "wait", "work", "finishing", "failing", "rescan"}
        BY <4>1, TaskIs DEF QueueTypes
      <4> QED
        BY <1>4, <1>11, <1>13, <3>2, <4>1, <4>2 DEF Told
    <3> QED
      BY <3>1, <3>2
  <2>4. up' = "up" => \A q \in Rows : row'[q] \in {"queued", "running"} =>
                       Queue!Live(tasks[q])' \/ Told(q)' \/ Starting(q)' \/ StoppingIt(q)'
    BY <1>4, <1>6, <1>15, <2>1, <2>2, <2>3 DEF Attended
  <2>5. ASSUME NEW t \in Queue!Tasks, task'[t].at = "rescan", task'[t].token = "open"
        PROVE  row'[task'[t].row] \notin {"queued", "running"} \/ Starting(task[t].row)'
    <3>1. task[t].token = "open" /\ task[t].at = "rescan" /\ task'[t].row = task[t].row
      BY <1>4, <1>7, <1>11, <1>12, <1>13, <2>5
    <3>2. PICK q \in Rows : q = task[t].row
      BY <3>1, TaskIs DEF QueueTypes
    <3>3. row[q] \notin {"queued", "running"} \/ Starting(q)
      BY <3>1, <3>2 DEF Attended
    <3>4. row'[q] \in {"queued", "running"} => row'[q] = row[q]
      BY <1>15
    <3> QED
      BY <2>1, <3>1, <3>2, <3>3, <3>4 DEF Starting
  <2> QED
    BY <2>4, <2>5 DEF Attended
<1>22. Quiet'
  <2> SUFFICES ASSUME abandons = 0
               PROVE  /\ \A t \in Queue!Tasks : Queue!Live(t)' /\ task'[t].token = "cancelled" =>
                           \E b \in Queue!Actors : act'[b].at = "await" /\ act'[b].task = t
                      /\ \A t \in Queue!Tasks : Queue!Live(t)' /\ task'[t].token = "open" /\ row'[task'[t].row] \in Parked =>
                           \E b \in Queue!Actors : Holds(b)' /\ act'[b].row = task'[t].row
                      /\ \A b \in Queue!Actors : act'[b].at \in {"requeue", "unintent", "spawn"} =>
                           /\ \A t \in Queue!Tasks : task'[t] # Unborn /\ task'[t].row = act'[b].row => ~Queue!Live(t)'
                           /\ row'[act'[b].row] \in IF act'[b].at = "requeue" THEN {"paused", "failed"} ELSE {"queued"}
    BY <1>6 DEF Quiet
  <2>1. ASSUME NEW t \in Queue!Tasks, Queue!Live(t)', task'[t].token = "cancelled"
        PROVE  \E b \in Queue!Actors : act'[b].at = "await" /\ act'[b].task = t
    <3>1. CASE t = old
      <4>1. w = "await"
        BY <1>7, <1>8, <1>14, <2>1, <3>1
      <4> QED
        BY <1>8, <1>10, <3>1, <4>1
    <3>2. CASE t # old
      <4>1. PICK b \in Queue!Actors : act[b].at = "await" /\ act[b].task = t
        BY <1>13, <1>14, <2>1, <3>2 DEF Quiet
      <4> QED
        BY <1>1, <1>10, <4>1
    <3> QED
      BY <3>1, <3>2
  <2>2. ASSUME NEW t \in Queue!Tasks, Queue!Live(t)', task'[t].token = "open", row'[task'[t].row] \in Parked
        PROVE  \E b \in Queue!Actors : Holds(b)' /\ act'[b].row = task'[t].row
    <3>1. /\ Queue!Live(t) /\ task[t].token = "open" /\ task'[t].row = task[t].row /\ task[t].row \in Rows
      BY <1>4, <1>7, <1>11, <1>13, <1>14, <2>2, Numbered, TaskIs DEF QueueTypes
    <3>2. CASE task[t].row = r
      BY <1>8, <1>10, <3>1, <3>2 DEF Holds
    <3>3. CASE task[t].row # r
      <4>1. PICK b \in Queue!Actors : Holds(b) /\ act[b].row = task[t].row
        BY <1>15, <2>2, <3>1, <3>3 DEF Quiet
      <4>2. b # a
        BY <1>2, <3>3, <4>1
      <4> QED
        BY <1>10, <3>1, <4>1, <4>2 DEF Holds
    <3> QED
      BY <3>2, <3>3
  <2>3. ASSUME NEW b \in Queue!Actors, act'[b].at \in {"requeue", "unintent", "spawn"}
        PROVE  /\ \A t \in Queue!Tasks : task'[t] # Unborn /\ task'[t].row = act'[b].row => ~Queue!Live(t)'
               /\ row'[act'[b].row] \in IF act'[b].at = "requeue" THEN {"paused", "failed"} ELSE {"queued"}
    <3>1. act'[b] = act[b] /\ act[b] # Queue!Idle /\ act[b].row \in Rows \ {r}
      BY <1>5, <1>8, <1>10, <2>3, ActIs, ZenonT(40) DEF QueueTypes, Queue!Idle
    <3> QED
      BY <1>13, <1>14, <1>15, <2>3, <3>1 DEF Quiet
  <2> QED
    BY <2>1, <2>2, <2>3
<1>23. Cardinality(Queue!Holding') <= Permits
  <2>1. \A t \in Queue!Tasks : t \in Queue!Holding' => t \in Queue!Holding
    BY <1>13 DEF Queue!Holding
  <2> QED
    BY <2>1, FewerHold
<1> QED
  BY <1>16, <1>17, <1>18, <1>19, <1>20, <1>21, <1>22, <1>23

\* The call says what it did, and returns.
LEMMA AfterKept ==
  ASSUME Queue!QueueConstants, QueueInv, OneAtATime, NEW c \in Callers, Queue!After(c)
  PROVE  QueueInv'
<1> USE DEF QueueInv
<1>1. c \in Queue!Actors /\ act[c] \in ActType /\ act[c].at = "after" /\ act[c] # Queue!Idle
  <2>1. c \in Queue!Actors /\ act[c] \in ActType /\ act[c].at = "after"
    BY DEF Queue!Actors, QueueTypes, Queue!After
  <2> QED
    BY <2>1, ActIs
<1>2. PICK r \in Rows : act[c].row = r
  BY <1>1, ActIs
<1>3. /\ act' = [act EXCEPT ![c] = Queue!Idle] /\ UNCHANGED <<place, task, tasks, intent, todo, up, calls, abandons>>
      /\ \/ row' = row
         \/ \E s \in {"paused", "cancelled", "deleted"} : row' = [row EXCEPT ![r] = s]
      /\ row'[r] \notin {"queued", "running"}
  <2>1. act' = [act EXCEPT ![c] = Queue!Idle] /\ UNCHANGED <<place, task, tasks, intent, todo, up, calls, abandons>>
    BY DEF Queue!After, Queue!Done, Queue!budget
  <2>2. /\ \/ row' = row
           \/ \E s \in {"paused", "cancelled", "deleted"} : row' = [row EXCEPT ![r] = s]
        /\ row'[r] \notin {"queued", "running"}
    <3>1. row \in [Rows -> Queue!States]
      BY DEF QueueTypes
    <3> QED
      BY <1>2, <3>1 DEF Queue!After, Queue!AfterPause, Queue!Set, Queue!Gone
  <2> QED
    BY <2>1, <2>2
<1>4. row[r] # "absent"
  BY <1>1, <1>2 DEF FreshRows, Early
<1>5. /\ row' \in [Rows -> Queue!States] /\ \A q \in Rows \ {r} : row'[q] = row[q]
      /\ \A q \in Rows : row'[q] = "absent" <=> row[q] = "absent"
  BY <1>3, <1>4 DEF QueueTypes, Queue!States, Queue!Unfinished, Queue!Gone
<1>6. act' \in [Queue!Actors -> ActType] /\ act'[c] = Queue!Idle /\ (\A b \in Queue!Actors \ {c} : act'[b] = act[b])
      /\ Queue!Idle.at = "idle"
  BY <1>1, <1>3 DEF QueueTypes, ActType, Queue!Idle
<1>7. \A b \in Queue!Actors \ {c} : act[b] # Queue!Idle => act[b].row # r
  BY <1>1, <1>2 DEF OneAtATime
<1>8. \A t \in Queue!Tasks \cup {Queue!NoTask} : Queue!Live(t)' <=> Queue!Live(t)
  BY <1>3 DEF Queue!Live
<1>9. QueueTypes'
  BY <1>3, <1>5, <1>6 DEF QueueTypes
<1>10. HubPhases'
  BY <1>3, <1>6, <1>8 DEF HubPhases, Queue!Actors
<1>11. TaskNumbers'
  <2>1. \A b \in Queue!Actors : Starts(b)' => Starts(b) /\ act'[b].task = act[b].task
    BY <1>6 DEF Starts
  <2>2. \A b \in Queue!Actors : Starts(b)' => task'[act'[b].task] = Unborn /\ act'[b].task <= calls'
    BY <1>3, <2>1 DEF TaskNumbers
  <2>3. \A t \in Queue!Tasks : t > calls' => task'[t] = Unborn
    BY <1>3 DEF TaskNumbers
  <2> QED
    BY <2>1, <2>2, <2>3 DEF TaskNumbers
<1>12. FreshRows'
  <2>1. \A b \in Queue!Actors : act'[b] # Queue!Idle => act'[b] = act[b] /\ act[b].row \in Rows
    BY <1>6, ActIs
  <2>2. \A b \in Queue!Actors : act'[b] # Queue!Idle /\ Early(b)' => row'[act'[b].row] = "absent"
    BY <1>5, <2>1 DEF FreshRows, Early
  <2>3. ASSUME NEW q \in Rows, row'[q] = "absent"
        PROVE  /\ \A t \in Queue!Tasks : task'[t] # Unborn => task'[t].row # q
               /\ \A b \in Queue!Actors : act'[b] # Queue!Idle /\ act'[b].row = q => Early(b)'
    BY <1>3, <1>5, <2>1, <2>3 DEF FreshRows, Early
  <2>4. \A q \in todo' : row'[q] # "absent"
    BY <1>3, <1>5 DEF FreshRows, QueueTypes
  <2> QED
    BY <2>2, <2>3, <2>4 DEF FreshRows
<1>13. Owned'
  <2>1. \A b \in Queue!Actors : act'[b].at \in {"intend", "stop", "await", "after"} => act'[b] = act[b]
    BY <1>6
  <2>2. \A b \in Queue!Actors : act[b].at \in {"intend", "stop"} => act'[b] = act[b]
    BY <1>1, <1>6
  <2>3. \A b \in Queue!Actors : act'[b].at = "after" => act[b].task \in Queue!Tasks \cup {Queue!NoTask}
    BY <2>1, <1>6, ActIs DEF Queue!Idle
  <2> QED
    BY <1>3, <1>8, <2>1, <2>2, <2>3 DEF Owned, Holds
<1>14. Attended'
  <2>1. ASSUME NEW q \in Rows
        PROVE  /\ Starting(q) => Starting(q)'
               /\ StoppingIt(q) /\ q # r => StoppingIt(q)'
               /\ Queue!Live(tasks[q]) => Queue!Live(tasks[q])'
               /\ Told(q) => Told(q)'
    BY <1>1, <1>2, <1>3, <1>6 DEF Starting, StoppingIt, Queue!Live, Told
  <2>2. up' = "up" => \A q \in Rows : row'[q] \in {"queued", "running"} =>
                       Queue!Live(tasks[q])' \/ Told(q)' \/ Starting(q)' \/ StoppingIt(q)'
    BY <1>3, <1>5, <2>1 DEF Attended
  <2>3. ASSUME NEW t \in Queue!Tasks, task'[t].at = "rescan", task'[t].token = "open"
        PROVE  row'[task'[t].row] \notin {"queued", "running"} \/ Starting(task[t].row)'
    <3>1. PICK q \in Rows : q = task[t].row
      BY <1>3, <2>3, TaskIs DEF QueueTypes
    <3>2. row[q] \notin {"queued", "running"} \/ Starting(q)
      BY <1>3, <2>3, <3>1 DEF Attended
    <3> QED
      BY <1>3, <1>5, <2>1, <3>1, <3>2 DEF Starting
  <2> QED
    BY <1>3, <2>2, <2>3 DEF Attended
<1>15. Quiet'
  <2> SUFFICES ASSUME abandons = 0
               PROVE  /\ \A t \in Queue!Tasks : Queue!Live(t) /\ task[t].token = "cancelled" =>
                           \E b \in Queue!Actors : act'[b].at = "await" /\ act'[b].task = t
                      /\ \A t \in Queue!Tasks : Queue!Live(t) /\ task[t].token = "open" /\ row'[task[t].row] \in Parked =>
                           \E b \in Queue!Actors : Holds(b)' /\ act'[b].row = task[t].row
                      /\ \A b \in Queue!Actors : act'[b].at \in {"requeue", "unintent", "spawn"} =>
                           act'[b] = act[b] /\ row'[act[b].row] = row[act[b].row]
    BY <1>3, <1>8 DEF Quiet
  <2>1. ASSUME NEW t \in Queue!Tasks, Queue!Live(t), task[t].token = "cancelled"
        PROVE  \E b \in Queue!Actors : act'[b].at = "await" /\ act'[b].task = t
    <3>1. PICK b \in Queue!Actors : act[b].at = "await" /\ act[b].task = t
      BY <2>1 DEF Quiet
    <3> QED
      BY <1>1, <1>6, <3>1
  <2>2. ASSUME NEW t \in Queue!Tasks, Queue!Live(t), task[t].token = "open", row'[task[t].row] \in Parked
        PROVE  \E b \in Queue!Actors : Holds(b)' /\ act'[b].row = task[t].row
    <3>1. task[t].row \in Rows /\ t # Queue!NoTask
      BY <2>2, Numbered, TaskIs DEF QueueTypes
    <3>2. CASE task[t].row = r
      <4>1. tasks[r] = Queue!NoTask
        BY <1>1, <1>2 DEF Owned, Holds
      <4>2. PICK b \in Queue!Actors : act[b].at \in {"intend", "stop"} /\ act[b].task = t
        BY <2>2, <3>1, <3>2, <4>1 DEF Owned
      <4>3. b # c /\ act[b] # Queue!Idle /\ act[b].row = r
        BY <1>1, <1>6, <3>1, <3>2, <4>2 DEF Owned, Holds
      <4> QED
        BY <1>7, <4>3
    <3>3. CASE task[t].row # r
      <4>1. PICK b \in Queue!Actors : Holds(b) /\ act[b].row = task[t].row
        BY <1>5, <2>2, <3>1, <3>3 DEF Quiet
      <4>2. b # c
        BY <1>2, <3>3, <4>1
      <4> QED
        BY <1>6, <4>1, <4>2 DEF Holds
    <3> QED
      BY <3>2, <3>3
  <2>3. ASSUME NEW b \in Queue!Actors, act'[b].at \in {"requeue", "unintent", "spawn"}
        PROVE  act'[b] = act[b] /\ row'[act[b].row] = row[act[b].row]
    <3>1. b # c /\ act'[b] = act[b] /\ act[b] # Queue!Idle
      BY <1>6, <2>3
    <3>2. act[b].row \in Rows \ {r}
      BY <1>6, <1>7, <3>1, ActIs
    <3> QED
      BY <1>5, <3>1, <3>2
  <2> QED
    BY <2>1, <2>2, <2>3
<1>16. Cardinality(Queue!Holding') <= Permits
  BY <1>3 DEF Queue!Holding
<1> QED
  BY <1>9, <1>10, <1>11, <1>12, <1>13, <1>14, <1>15, <1>16

-----------------------------------------------------------------------------
(* The process.                                                            *)

LEMMA ProcessKept ==
  ASSUME Queue!QueueConstants, QueueInv, OneAtATime, Queue!Shutdown \/ Queue!Exit \/ Queue!Start
  PROVE  QueueInv'
<1> USE DEF QueueInv
<1>1. \A t \in Queue!Tasks : task[t] # Unborn <=> task[t].at # "none"
  BY TaskIs DEF QueueTypes
<1>2. CASE Queue!Shutdown
  <2>1. /\ up = "up" /\ up' = "stopping" /\ todo' = {r \in Rows : tasks[r] # Queue!NoTask}
        /\ \A c \in Callers : act[c] = Queue!Idle
        /\ UNCHANGED <<row, place, task, tasks, intent, act, calls, abandons>>
    BY <1>2 DEF Queue!Shutdown
  <2>2. QueueTypes'
    BY <2>1 DEF QueueTypes
  <2>3. HubPhases'
    BY <2>1 DEF HubPhases
  <2>4. TaskNumbers' /\ Owned'
    BY <2>1 DEF TaskNumbers, Owned, Starts, Holds, Queue!Live
  <2>5. FreshRows'
    <3>1. \A r \in todo' : row'[r] # "absent"
      <4> SUFFICES ASSUME NEW r \in Rows, tasks[r] # Queue!NoTask PROVE row[r] # "absent"
        BY <2>1
      <4>1. tasks[r] \in Queue!Tasks /\ task[tasks[r]] # Unborn /\ task[tasks[r]].row = r
        BY DEF Owned, QueueTypes
      <4> QED
        BY <4>1 DEF FreshRows
    <3> QED
      BY <2>1, <3>1 DEF FreshRows, Early
  <2>6. Attended'
    BY <2>1 DEF Attended, Starting
  <2>7. Quiet'
    BY <2>1 DEF Quiet, Queue!Live, Holds
  <2>8. Cardinality(Queue!Holding') <= Permits
    BY <2>1 DEF Queue!Holding
  <2> QED
    BY <2>2, <2>3, <2>4, <2>5, <2>6, <2>7, <2>8
<1>3. CASE Queue!Exit
  <2>1. /\ up' = "down" /\ todo' = {} /\ tasks' = [r \in Rows |-> Queue!NoTask] /\ intent' = [r \in Rows |-> "none"]
        /\ act' = [a \in Queue!Actors |-> Queue!Idle]
        /\ task' = [t \in Queue!Tasks |-> IF Queue!Live(t) THEN [task[t] EXCEPT !.at = "ended"] ELSE task[t]]
        /\ UNCHANGED <<row, place, calls, abandons>>
    BY <1>3 DEF Queue!Exit
  <2>2. ASSUME NEW t \in Queue!Tasks
        PROVE  /\ task'[t] \in TaskType /\ task'[t].at \in {"none", "ended"}
               /\ task'[t] = Unborn <=> task[t] = Unborn
               /\ task[t] # Unborn => task'[t].row = task[t].row
    <3>1. CASE Queue!Live(t)
      <4>1. task[t] \in TaskType /\ task[t] # Unborn
        BY <1>1, <3>1, Numbered DEF QueueTypes
      <4>2. task'[t] = [task[t] EXCEPT !.at = "ended"]
        BY <2>1, <3>1
      <4> QED
        BY <4>1, <4>2 DEF TaskType, Unborn
    <3>2. CASE ~Queue!Live(t)
      BY <2>1, <3>2, Numbered, TaskIs DEF QueueTypes
    <3> QED
      BY <3>1, <3>2
  <2>3. task' \in [Queue!Tasks -> TaskType]
    <3> DEFINE y(t) == IF Queue!Live(t) THEN [task[t] EXCEPT !.at = "ended"] ELSE task[t]
    <3>1. \A t \in Queue!Tasks : y(t) \in TaskType
      BY <2>1, <2>2
    <3>2. task' = [t \in Queue!Tasks |-> y(t)]
      BY <2>1
    <3> HIDE DEF y
    <3> QED
      BY <3>1, <3>2
  <2>4. Queue!Idle.at = "idle" /\ Queue!Idle \in ActType
    BY DEF Queue!Idle, ActType
  <2>5. \A t \in Queue!Tasks : ~Queue!Live(t)'
    BY <2>2 DEF Queue!Live
  <2>6. ~Queue!Live(Queue!NoTask)'
    BY DEF Queue!Live
  <2>7. QueueTypes'
    BY <2>1, <2>3, <2>4 DEF QueueTypes
  <2>8. HubPhases'
    BY <2>1, <2>5 DEF HubPhases
  <2>9. TaskNumbers'
    BY <2>1, <2>2 DEF TaskNumbers, Starts
  <2>10. FreshRows'
    BY <2>1, <2>2 DEF FreshRows
  <2>11. Owned'
    <3>1. \A a \in Queue!Actors : ~Holds(a)'
      BY <2>1, <2>4 DEF Holds
    <3>2. \A t \in Queue!Tasks : task'[t].at # "cleanup"
      BY <2>2
    <3> QED
      BY <2>1, <2>5, <3>1, <3>2 DEF Owned
  <2>12. Attended'
    <3>1. \A t \in Queue!Tasks : task'[t].at # "rescan"
      BY <2>2
    <3> QED
      BY <2>1, <3>1 DEF Attended
  <2>13. Quiet'
    BY <2>1, <2>4, <2>5 DEF Quiet
  <2>14. Cardinality(Queue!Holding') <= Permits
    <3>1. Queue!Holding' = {}
      BY <2>2 DEF Queue!Holding
    <3> QED
      BY <3>1, FS_EmptySet DEF Queue!QueueConstants
  <2> QED
    BY <2>7, <2>8, <2>9, <2>10, <2>11, <2>12, <2>13, <2>14
<1>4. CASE Queue!Start
  <2>1. /\ up = "down" /\ up' = "up"
        /\ row' = [r \in Rows |-> IF row[r] \in {"queued", "running"} THEN "paused" ELSE row[r]]
        /\ UNCHANGED <<place, task, tasks, intent, act, todo, calls, abandons>>
    BY <1>4 DEF Queue!Start, Queue!Recovers, Queue!budget
  <2>2. /\ \A a \in Queue!Actors : act[a] = Queue!Idle
        /\ \A t \in Queue!Tasks : ~Queue!Live(t)
        /\ \A r \in Rows : tasks[r] = Queue!NoTask
        /\ Queue!Idle.at = "idle" /\ Queue!Hub \in Queue!Actors
    BY <2>1 DEF HubPhases, Queue!Idle, Queue!Actors
  <2>3. /\ row' \in [Rows -> Queue!States] /\ \A r \in Rows : row'[r] \notin {"queued", "running"}
        /\ \A r \in Rows : row'[r] = "absent" <=> row[r] = "absent"
    BY <2>1 DEF QueueTypes, Queue!States, Queue!Unfinished
  <2>4. QueueTypes'
    BY <2>1, <2>3 DEF QueueTypes
  <2>5. HubPhases'
    BY <2>1, <2>2 DEF HubPhases
  <2>6. TaskNumbers' /\ Owned'
    BY <2>1 DEF TaskNumbers, Owned, Starts, Holds, Queue!Live
  <2>7. FreshRows'
    BY <2>1, <2>2, <2>3 DEF FreshRows, Early, QueueTypes
  <2>8. Attended'
    <3>1. \A t \in Queue!Tasks : task[t].at = "rescan" => Queue!Live(t)
      BY Numbered
    <3> QED
      BY <2>1, <2>2, <2>3, <3>1 DEF Attended
  <2>9. Quiet'
    <3>1. \A t \in Queue!Tasks : ~Queue!Live(t)'
      BY <2>1, <2>2 DEF Queue!Live
    <3> QED
      BY <2>1, <2>2, <3>1 DEF Quiet
  <2>10. Cardinality(Queue!Holding') <= Permits
    BY <2>1 DEF Queue!Holding
  <2> QED
    BY <2>4, <2>5, <2>6, <2>7, <2>8, <2>9, <2>10
<1> QED
  BY <1>2, <1>3, <1>4

-----------------------------------------------------------------------------
(* The specification.                                                      *)

LEMMA QueueInit ==
  ASSUME Queue!QueueConstants, Places # {}, Queue!Init
  PROVE  QueueInv
<1>1. Queue!Idle.at = "idle" /\ Queue!Idle \in ActType
  BY DEF Queue!Idle, ActType
<1>2. QueueTypes
  BY <1>1 DEF Queue!Init, QueueTypes, TaskType, Unborn, Queue!NoTask, Queue!States, Queue!Gone
<1>3. \A t \in Queue!Tasks : task[t] = Unborn /\ ~Queue!Live(t)
  BY DEF Queue!Init, Unborn, Queue!Live
<1>4. \A a \in Queue!Actors : act[a] = Queue!Idle
  BY DEF Queue!Init
<1>5. HubPhases
  BY <1>4 DEF Queue!Init, HubPhases, Queue!Actors
<1>6. TaskNumbers
  BY <1>3, <1>4 DEF TaskNumbers, Starts
<1>7. FreshRows
  BY <1>3, <1>4 DEF Queue!Init, FreshRows
<1>8. Owned
  BY <1>1, <1>3, <1>4 DEF Queue!Init, Owned, Holds, Unborn
<1>9. Attended
  BY <1>3 DEF Queue!Init, Attended, Unborn
<1>10. Quiet
  BY <1>1, <1>3, <1>4 DEF Quiet
<1>11. Cardinality(Queue!Holding) <= Permits
  <2>1. Queue!Holding = {}
    BY <1>3 DEF Queue!Holding, Unborn
  <2> QED
    BY <2>1, FS_EmptySet DEF Queue!QueueConstants
<1> QED
  BY <1>2, <1>5, <1>6, <1>7, <1>8, <1>9, <1>10, <1>11 DEF QueueInv

LEMMA QueueStep ==
  ASSUME Queue!QueueConstants, QueueInv, OneAtATime, [Queue!Next]_(Queue!vars)
  PROVE  QueueInv'
<1>1. CASE UNCHANGED Queue!vars
  <2>1. UNCHANGED <<row, place, task, tasks, intent, act, todo, up, calls, abandons>>
    BY <1>1 DEF Queue!vars
  <2> QED
    BY <2>1 DEF QueueInv, QueueTypes, HubPhases, TaskNumbers, FreshRows, Owned, Attended, Quiet, Queue!Live, Starts, Early, Holds,
                Starting, StoppingIt, Told, Queue!Holding
<1>2. CASE \E c \in Callers, op \in Queue!Ops, r \in Rows : Queue!Call(c, op, r)
  BY <1>2, BeginningsKept
<1>3. ASSUME NEW a \in Queue!Actors, Queue!StopTask(a) PROVE QueueInv'
  BY <1>3, TakeKept, MovesKept, StopKept DEF Queue!StopTask
<1>4. ASSUME NEW c \in Callers, Queue!Handler(c) \/ Queue!Abandon(c) PROVE QueueInv'
  <2>1. c \in Queue!Actors
    BY DEF Queue!Actors
  <2> QED
    BY <1>4, <2>1, MovesKept, QueuedKept, SpawnKept, AfterKept DEF Queue!Handler
<1>5. CASE \E t \in Queue!Tasks : Queue!Worker(t)
  BY <1>5, WorkersKept
<1>6. CASE Queue!Shutdown \/ Queue!ShutdownNext \/ Queue!ShutdownStopped \/ Queue!Exit \/ Queue!Start
  BY <1>6, BeginningsKept, ProcessKept
<1> QED
  BY <1>1, <1>2, <1>3, <1>4, <1>5, <1>6 DEF Queue!Next

LEMMA QueueIs ==
  ASSUME Queue!QueueConstants, QueueInv, OneAtATime
  PROVE  Queue!TypeOK /\ Queue!UnfinishedHasWorker /\ Queue!ParkedHasNoWorker
<1> USE DEF QueueInv
<1>1. Queue!TypeOK
  BY CountsAre DEF Queue!TypeOK, QueueTypes
<1>2. Queue!UnfinishedHasWorker
  <2> SUFFICES ASSUME NEW r \in Rows, up = "up", row[r] \in {"queued", "running"}, ~Queue!Busy(r)
               PROVE  Queue!Live(tasks[r]) \/ \E t \in Queue!Workers(r) : Queue!Cancels(t)
    BY DEF Queue!UnfinishedHasWorker
  <2>1. \A a \in Queue!Actors : act[a].at \in {"unintent", "spawn", "intend", "stop", "after"} => act[a] # Queue!Idle
    BY DEF Queue!Idle
  <2>2. ~Starting(r) /\ ~StoppingIt(r)
    BY <2>1 DEF Queue!Busy, Starting, StoppingIt
  <2>3. CASE Told(r)
    BY <2>3, Numbered DEF Told, Queue!Workers, Queue!Cancels
  <2> QED
    BY <2>2, <2>3 DEF Attended
<1>3. Queue!ParkedHasNoWorker
  <2> SUFFICES ASSUME abandons = 0, NEW r \in Rows, row[r] \in {"paused", "cancelled", "failed", "deleted"},
                      ~Queue!Busy(r), NEW t \in Queue!Workers(r)
               PROVE  Queue!Cancels(t)
    BY DEF Queue!ParkedHasNoWorker
  <2>1. t \in Queue!Tasks /\ Queue!Live(t) /\ task[t].row = r /\ task[t].token \in {"open", "cancelled"}
    BY TaskIs DEF Queue!Workers, QueueTypes
  <2>2. \A a \in Queue!Actors : Holds(a) => act[a] # Queue!Idle
    BY DEF Queue!Idle, Holds
  <2> QED
    BY <2>1, <2>2 DEF Quiet, Parked, Queue!Busy, Queue!Cancels
<1> QED
  BY <1>1, <1>2, <1>3

\* As long as no two calls in progress name one row: no more workers than permits
\* transfer, a row that waits or runs has somebody who carries it, and one that is
\* parked has no worker that still writes unless a client went away.
THEOREM QueueIsSafe ==
  ASSUME Queue!QueueConstants, Places # {}
  PROVE  Queue!Spec /\ []OneAtATime => [](Queue!TypeOK /\ Queue!UnfinishedHasWorker /\ Queue!ParkedHasNoWorker)
<1>1. Queue!Init => QueueInv
  BY QueueInit
<1>2. QueueInv /\ OneAtATime /\ [Queue!Next]_(Queue!vars) => QueueInv'
  BY QueueStep
<1>3. QueueInv /\ OneAtATime => Queue!TypeOK /\ Queue!UnfinishedHasWorker /\ Queue!ParkedHasNoWorker
  BY QueueIs
<1> QED
  BY <1>1, <1>2, <1>3, PTL DEF Queue!Spec

\* With one caller there is never a second call in progress.
LEMMA OneCaller ==
  ASSUME Queue!QueueConstants, QueueInv, \A c, d \in Callers : c = d
  PROVE  OneAtATime
<1> SUFFICES ASSUME NEW a \in Queue!Actors, NEW b \in Queue!Actors, act[a] # Queue!Idle, act[b] # Queue!Idle PROVE a = b
  BY DEF OneAtATime
<1>1. up \in {"up", "stopping", "down"}
  BY DEF QueueInv, QueueTypes
<1> QED
  BY <1>1 DEF QueueInv, HubPhases, Queue!Actors

\* downloads.rs with one call in progress: a row that says queued or running has
\* a worker that runs it or was told to stop, a parked row has none that writes.
THEOREM SuiteRowsHaveWorkers ==
  ASSUME Places # {}, \A c, d \in Callers : c = d
  PROVE  SuiteSpec => []RowsHaveWorkers
<1> DEFINE Kept == part = "rows" => QueueInv
<1>1. SuiteInit => Kept
  BY QueueAssumption, QueueInit DEF SuiteInit
<1>2. Kept /\ [SuiteNext]_suiteVars => Kept'
  <2> SUFFICES ASSUME Kept, [SuiteNext]_suiteVars, part' = "rows" PROVE QueueInv'
    OBVIOUS
  <2>1. part = "rows" /\ [Queue!Next]_(Queue!vars)
    BY DEF SuiteNext, suiteVars, queueVars, Queue!vars
  <2> QED
    BY <2>1, QueueAssumption, OneCaller, QueueStep
<1>3. Kept => RowsHaveWorkers
  BY QueueAssumption, OneCaller, QueueIs DEF RowsHaveWorkers
<1> QED
  BY <1>1, <1>2, <1>3, PTL DEF SuiteSpec
=============================================================================
