---------------------------- MODULE RequestSuite -----------------------------
(* Requests over the link: the two request tables (LinkRequests), and,      *)
(* model-checked in the same run, one exchange with an engine (EngineHttp). *)
EXTENDS LinkRequests, EngineHttpMC
CONSTANTS r1, r2, r3
VARIABLES
  part  \* the component a behaviour is of

\* Answers of a few characters against limits of two to five.
Http == INSTANCE EngineHttp WITH
    Exchanges <- MCExchanges, Uploads <- {0, 2}, Window <- 2, ReadMax <- 2, MaxLine <- 2,
    MaxStream <- 5, MaxBuffered <- 3, ans <- link, mode <- pending, todo <- next_id, wire <- id,
    fin <- caller, mute <- ending, npc <- cancel, left <- queue, cancelled <- got, shut <- lost,
    upq <- table, owed <- handler, frames <- told, hub <- sent, got <- reply, out <- toNode

ASSUME RequestAssumption == RequestConstants

suiteVars == <<part, vars>>
SuiteInit ==
  \/ part = "requests" /\ Init
  \/ part = "http" /\ Http!Init /\ toHub = "unused" /\ odd = "unused"
SuiteNext ==
  \/ part = "requests" /\ Next /\ UNCHANGED <<part>>
  \/ part = "http" /\ Http!Next /\ UNCHANGED <<part, toHub, odd>>

\* The fairness each component states, while it is the one that runs.
SuiteFairness ==
  /\ WF_vars(part = "requests" /\ HubRead) /\ WF_vars(part = "requests" /\ NodeRead) /\ WF_vars(part = "requests" /\ NodeReply) /\ WF_vars(part = "requests" /\ Shutdown)
  /\ \A r \in Requests :
       /\ WF_vars(part = "requests" /\ Forget(r)) /\ WF_vars(part = "requests" /\ Answer(r)) /\ WF_vars(part = "requests" /\ Leave(r))
       /\ WF_vars(part = "requests" /\ r \notin Streams /\ GiveUp(r))
  /\ WF_(Http!vars)(part = "http" /\ Http!NodeThread) /\ WF_(Http!vars)(part = "http" /\ Http!CancelArrives) /\ WF_(Http!vars)(part = "http" /\ Http!HubReader)
  /\ WF_(Http!vars)(part = "http" /\ Http!Engine)

SuiteSpec == SuiteInit /\ [][SuiteNext]_suiteVars /\ SuiteFairness

------------------------------------------------------------------------------
(* LinkRequests: every answer reaches the caller of its own request although *)
(* ids go round, and the two tables agree on what still runs.              *)
(* A stream's consumer gets its events in order, and all of them unless it *)
(* lagged.                                                                 *)
AnswersMatch == part = "requests" => TypeOK /\ AnswerIsOwn /\ SlotsAgree /\ StreamInOrder

(* LinkRequests: every slot of the hub's table comes back, except a stream's *)
(* that nobody cancels while its handler hangs.                            *)
SlotsComeBack ==
  \A r \in Requests : (part = "requests" /\ Held(r)) ~> (part = "requests" => ~Held(r))

(* EngineHttp: a reader of lines gets the engine's lines, whole and in     *)
(* order, a buffered reader the body, unless it learns that it failed.     *)
LinesAreWhole == part = "http" => Http!LinesAreWhole /\ Http!BodyIsWhole

(* EngineHttp: every exchange ends on both sides.                          *)
ExchangeEnds == <>(part = "http" => Http!Over)
==============================================================================
