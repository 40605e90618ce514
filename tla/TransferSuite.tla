---------------------------- MODULE TransferSuite ----------------------------
(* Transfers: the bytes of one request on the link (LinkFlow), and, model-    *)
(* checked in the same run, the downloads and copies that wait for their     *)
(* turn and are stopped and resumed (Downloads).                             *)
EXTENDS LinkFlow
CONSTANTS
  Rows, Places, Callers, Permits, MaxQueue, MaxCalls, MaxFails, MaxRestarts, MaxAbandons    \* Downloads
VARIABLES
  part,  \* the component a behaviour is of
  row, place, task, tasks, intent, act, todo, up, calls, fails, restarts, abandons    \* Downloads

\* Rows, the permits they wait for, and the calls on them.
Queue == INSTANCE Downloads

ASSUME QueueAssumption == Queue!QueueConstants

queueVars == <<row, place, task, tasks, intent, act, todo, up, calls, fails, restarts, abandons>>
suiteVars == <<part, vars, queueVars>>
SuiteInit == part \in {"flow", "rows"} /\ Init /\ Queue!Init
SuiteNext ==
  \/ part = "flow" /\ Next /\ UNCHANGED <<part, queueVars>>
  \/ part = "rows" /\ Queue!Next /\ UNCHANGED <<part, vars>>

\* The fairness each component states, while it is the one that runs.
SuiteFairness ==
  /\ WF_vars(part = "flow" /\ (\E n \in 1..MAX_DATA : OnData(n)))
  /\ WF_vars(part = "flow" /\ (\E n \in 1..upCredit : OnCredit(n)))
  /\ WF_vars(part = "flow" /\ OnRes)
  /\ WF_vars(part = "flow" /\ WriteSend)
  /\ WF_vars(part = "flow" /\ (\E n \in 1..MAX_DATA : AddData(n)))
  /\ WF_vars(part = "flow" /\ (\E n \in 1..downCredit : AddCredit(n)))
  /\ WF_vars(part = "flow" /\ OnEnd)
  /\ WF_vars(part = "flow" /\ OnCancel)
  /\ WF_vars(part = "flow" /\ (\E n \in 1..MAX_DATA : ReadUpload(n)))
  /\ WF_vars(part = "flow" /\ ReadUploadEnd)
  /\ WF_vars(part = "flow" /\ (\E n \in 1..MAX_DATA : SendTake(n)))
  /\ WF_vars(part = "flow" /\ SendPut)
  /\ WF_vars(part = "flow" /\ Succeed)
  /\ WF_vars(part = "flow" /\ Stop)
  /\ WF_vars(part = "flow" /\ Forget)
  /\ \A a \in Queue!Actors : WF_(Queue!vars)(part = "rows" /\ Queue!StopTask(a))
  /\ \A c \in Callers : WF_(Queue!vars)(part = "rows" /\ Queue!Handler(c))
  /\ \A t \in Queue!Tasks : WF_(Queue!vars)(part = "rows" /\ Queue!Worker(t)) /\ SF_(Queue!vars)(part = "rows" /\ Queue!Acquire(t))
  /\ WF_(Queue!vars)(part = "rows" /\ Queue!ShutdownNext) /\ WF_(Queue!vars)(part = "rows" /\ Queue!ShutdownStopped) /\ WF_(Queue!vars)(part = "rows" /\ Queue!Exit) /\ WF_(Queue!vars)(part = "rows" /\ Queue!Start)

SuiteSpec == SuiteInit /\ [][SuiteNext]_suiteVars /\ SuiteFairness

------------------------------------------------------------------------------
(* LinkFlow: with a caller that does its part a request that neither fails  *)
(* nor is cancelled moves every byte both ways.                            *)
BytesArrive ==
  CallerFairness /\ [](resFrame # "error" /\ finished # "error" /\ ~cancelSent)
    => <>(part = "flow" => finished = "ok" /\ consumed = UploadLen /\ read = ReplyLen)

(* Downloads: an unfinished row has the one worker that is registered for  *)
(* it, and a parked one has none.                                          *)
RowsHaveWorkers == part = "rows" => Queue!TypeOK /\ Queue!UnfinishedHasWorker /\ Queue!ParkedHasNoWorker

(* Downloads: every queued row is run, parked, cancelled or deleted.       *)
QueueMoves == \A r \in Rows : (part = "rows" /\ Queue!Queued(r)) ~> (part = "rows" => ~Queue!Queued(r))
==============================================================================
