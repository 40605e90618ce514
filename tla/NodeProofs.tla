----------------------------- MODULE NodeProofs -----------------------------
(***************************************************************************)
(* The node's safety, component by component of NodeSuite: the link and    *)
(* the process, file operations, inventory and policy.                     *)
(*                                                                         *)
(* The link, for any number of callers, requests and faults.  What its     *)
(* five properties say is not inductive: that nobody waits on a            *)
(* dead link rests on where run() is when the state says "up" and when a   *)
(* writer is open (Phases), that one process runs on what pid means        *)
(* between spawn and reap (Processes), and that the sessions of the model  *)
(* suffice on what each of them ended with (Budget).                       *)
(***************************************************************************)
EXTENDS NodeSuite, FiniteSetTheorems, SequenceTheorems, WellFoundedInduction, TLAPS

\* The types TypeOK leaves out.
TalkType == [retry : {"fix", "backoff", "incompatible"}, was_up : BOOLEAN]
RcType == [at : {"idle", "asked", "done"}, pid : Nat,
           state : {"connecting", "up", "down", "incompatible"}, session : Nat]
StopType == [at : {"idle", "joining", "killed", "joined", "done"}, pid : Nat]
Types ==
  /\ TypeOK
  /\ faults \in 0..MaxFaults
  /\ talk \in TalkType /\ rc \in [Callers -> RcType] /\ stop \in StopType

\* Where run() is, what it says of the link, and how far stop() is.
Phases ==
  /\ pc \in {"hello", "up", "over", "fail", "clear", "reap"} => session # 0 /\ pid = session
  /\ pc \in {"top", "spawn", "drain", "decide", "sleep"} => pid = None
  /\ pc \in {"spawn", "hello"} => state = "connecting"
  /\ pc = "up" => state = "up"
  /\ state = "up" => \/ pc \in {"up", "over", "fail", "clear"} /\ talk.was_up = TRUE
                     \/ pc = "returned" /\ stop.at = "joined"
  /\ writer # None => pc \in {"hello", "up", "over", "returned"}
  /\ writer # None /\ stopping = TRUE => state # "up" /\ ~Alive(session)
  /\ stopping = TRUE <=> stop.at # "idle"
  /\ pc = "returned" => stopping = TRUE
  /\ stop.at \in {"joined", "done"} => pc = "returned"

\* Only the current session's process runs, and pid is what signals it.
Processes ==
  /\ \A s \in Sessions : s > session => proc[s] = "none"
  /\ pc = "returned" => \A s \in Sessions : ~Alive(s)

\* A reconnect() between its two locks saw a session that has begun.
Asked == \A c \in Callers : rc[c].at = "asked" => rc[c].session \in 1..session

\* Nothing has happened yet that ends the current session.
Intact == pc \in {"hello", "up"} /\ proc[session] = "running" /\ writer = session
Served == {c \in Callers : rc[c].at = "done"}
\* Ends of sessions that faults and reconnects account for.
Charged == faults + 2 * Cardinality(Served) - Cardinality(timers)

\* Every session but the last was ended by a fault or a reconnect.
Budget ==
  /\ session <= Charged + 1
  /\ pc = "spawn" \/ (stopping = FALSE /\ ~Intact) => session <= Charged

LinkInv ==
  /\ Types /\ NobodyStranded /\ SampleIsLive /\ OneProcess /\ StoppedClean
  /\ Phases /\ Processes /\ Asked /\ Budget
-----------------------------------------------------------------------------
(* The invariant without its count of sessions.                            *)
Shape == /\ Types /\ NobodyStranded /\ SampleIsLive /\ OneProcess /\ StoppedClean
         /\ Phases /\ Processes /\ Asked

LEMMA SessionsAreNumbers ==
  ASSUME LinkConstants
  PROVE  /\ Cardinality(Callers) \in Nat
         /\ Cardinality(Sessions) = MaxFaults + 2 * Cardinality(Callers) + 1
         /\ Sessions = 1..Cardinality(Sessions)
         /\ Cardinality(Sessions) \in Nat
<1>1. Cardinality(Callers) \in Nat /\ MaxFaults \in Nat
  BY FS_CardinalityType DEF LinkConstants
<1> DEFINE n == MaxFaults + 2 * Cardinality(Callers) + 1
<1>2. n \in Nat /\ n >= 1
  BY <1>1
<1> HIDE DEF n
<1>3. Cardinality(1..n) = n
  BY <1>2, FS_Interval
<1>4. Sessions = 1..n
  BY DEF Sessions, n
<1> QED
  BY <1>1, <1>2, <1>3, <1>4 DEF n

ProcStates == proc \in [Sessions -> {"none", "running", "hung", "exited", "reaped"}]

\* What a signal does: the process it reaches exits, and nothing else changes.
LEMMA KillFacts ==
  ASSUME NEW p, ProcStates, kill_proc(p)
  PROVE  /\ ProcStates'
         /\ \A s \in Sessions : proc'[s] = IF s = p /\ p # None /\ Alive(s) THEN "exited" ELSE proc[s]
BY DEF ProcStates, kill_proc

LEMMA LinkInit ==
  ASSUME LinkConstants, Init PROVE LinkInv
<1> USE DEF LinkConstants, Init
<1>1. Types
  <2>1. TypeOK
    <3>1. session \in 0..Cardinality(Sessions)
      BY SessionsAreNumbers
    <3>2. backoff \in BackoffMin..BackoffMax
      OBVIOUS
    <3>3. stopping \in BOOLEAN /\ wake \in BOOLEAN /\ sample \in BOOLEAN
      OBVIOUS
    <3> QED
      BY <3>1, <3>2, <3>3 DEF TypeOK, None
  <2>2. rc \in [Callers -> RcType] /\ talk \in TalkType /\ stop \in StopType
    BY DEF RcType, TalkType, StopType, NoTalk, None
  <2> QED
    BY <2>1, <2>2 DEF Types
<1>2. NobodyStranded /\ SampleIsLive /\ OneProcess /\ StoppedClean /\ Phases /\ Processes /\ Asked
  BY DEF NobodyStranded, SampleIsLive, OneProcess, StoppedClean, Phases, Processes, Asked, Alive, None
<1>3. Served = {} /\ timers = {}
  BY DEF Served
<1>4. Charged = 0
  BY <1>3, FS_EmptySet DEF Charged
<1>5. Budget
  BY <1>4 DEF Budget
<1> QED
  BY <1>1, <1>2, <1>5 DEF LinkInv

LEMMA ShapeStep ==
  ASSUME LinkConstants, Shape, [Next]_vars, Spawn => session < Cardinality(Sessions)
  PROVE  Shape'
<1> USE DEF None, Alive, linkVars, reqVars, rcVars
<1>1. CASE RunTop
  <2> USE <1>1, SessionsAreNumbers DEF RunTop, LinkConstants, Shape, Types, TypeOK
  <2>1. Types'
    BY DEF Phases, Asked
  <2>2. Phases'
    BY DEF Phases, OneProcess, Processes, ProcStates
  <2>3. (NobodyStranded /\ SampleIsLive /\ StoppedClean)'
    BY DEF NobodyStranded, SampleIsLive, StoppedClean, Phases, Processes, ProcStates
  <2>4. (OneProcess /\ Processes /\ Asked)'
    BY DEF OneProcess, Processes, Asked, Phases, ProcStates
  <2> QED
    BY <2>1, <2>2, <2>3, <2>4 DEF Shape
<1>2. CASE SpawnFails
  BY <1>2, SessionsAreNumbers DEF SpawnFails, Fault, TalkType, LinkConstants,
         Shape, Types, TypeOK, NobodyStranded, SampleIsLive, OneProcess,
         StoppedClean, Phases, Processes, Asked
<1>3. CASE Spawn
  <2> USE <1>3, SessionsAreNumbers DEF Spawn, NoTalk, TalkType, LinkConstants, Shape, Types, TypeOK
  <2>0. /\ session + 1 \in Sessions /\ session + 1 \in 1..Cardinality(Sessions) /\ ProcStates'
        /\ proc'[session + 1] = (IF stopping THEN "exited" ELSE "running")
        /\ \A q \in Sessions : q # session + 1 => proc'[q] = proc[q]
    BY DEF ProcStates
  <2>1. Types'
    BY <2>0 DEF ProcStates, Phases, Asked
  <2>2. Phases'
    BY <2>0 DEF Phases, OneProcess, Processes, ProcStates
  <2>3. (NobodyStranded /\ SampleIsLive /\ StoppedClean)'
    BY <2>0 DEF NobodyStranded, SampleIsLive, StoppedClean, Phases, Processes, ProcStates
  <2>4. (OneProcess /\ Processes /\ Asked)'
    BY <2>0 DEF OneProcess, Processes, Asked, Phases, ProcStates
  <2> QED
    BY <2>1, <2>2, <2>3, <2>4 DEF Shape
<1>4. CASE Connected
  BY <1>4, SessionsAreNumbers DEF Connected, TalkType, LinkConstants,
         Shape, Types, TypeOK, NobodyStranded, SampleIsLive, OneProcess,
         StoppedClean, Phases, Processes, Asked
<1>5. CASE BadHello
  <2> USE <1>5, SessionsAreNumbers DEF BadHello, Fault, LinkConstants, Shape, Types, TypeOK
  <2>0. ProcStates' /\ \A q \in Sessions : proc'[q] = proc[q] \/ (Alive(q) /\ proc'[q] = "exited")
    BY KillFacts DEF ProcStates
  <2>5. talk' \in TalkType
    <3>1. talk' = talk \/ talk' = [retry |-> "incompatible", was_up |-> FALSE]
      OBVIOUS
    <3>2. [retry |-> "incompatible", was_up |-> FALSE] \in TalkType
      BY DEF TalkType
    <3> QED
      BY <3>1, <3>2
  <2>1. Types'
    BY <2>0, <2>5 DEF ProcStates, Phases
  <2>2. Phases'
    BY <2>0 DEF Phases, OneProcess, Processes, ProcStates
  <2>3. (NobodyStranded /\ SampleIsLive /\ StoppedClean)'
    BY <2>0 DEF NobodyStranded, SampleIsLive, StoppedClean, Phases, Processes, ProcStates
  <2>4. (OneProcess /\ Processes /\ Asked)'
    BY <2>0 DEF OneProcess, Processes, Asked, Phases, ProcStates
  <2> QED
    BY <2>1, <2>2, <2>3, <2>4 DEF Shape
<1>6. CASE HelloTimeout
  <2> USE <1>6, SessionsAreNumbers DEF HelloTimeout, HelloOverdue, LinkConstants, Shape, Types, TypeOK
  <2>0. ProcStates' /\ \A q \in Sessions : proc'[q] = proc[q] \/ (Alive(q) /\ proc'[q] = "exited")
    BY KillFacts DEF ProcStates
  <2>1. Types'
    BY <2>0 DEF ProcStates, Phases, Asked
  <2>2. Phases'
    BY <2>0 DEF Phases, OneProcess, Processes, ProcStates
  <2>3. (NobodyStranded /\ SampleIsLive /\ StoppedClean)'
    BY <2>0 DEF NobodyStranded, SampleIsLive, StoppedClean, Phases, Processes, ProcStates
  <2>4. (OneProcess /\ Processes /\ Asked)'
    BY <2>0 DEF OneProcess, Processes, Asked, Phases, ProcStates
  <2> QED
    BY <2>1, <2>2, <2>3, <2>4 DEF Shape
<1>7. CASE Closed
  BY <1>7, SessionsAreNumbers DEF Closed, LinkConstants,
         Shape, Types, TypeOK, NobodyStranded, SampleIsLive, OneProcess,
         StoppedClean, Phases, Processes, Asked
<1>8. CASE ProtocolError
  <2> USE <1>8, SessionsAreNumbers DEF ProtocolError, Fault, LinkConstants, Shape, Types, TypeOK
  <2>0. ProcStates' /\ \A q \in Sessions : proc'[q] = proc[q] \/ (Alive(q) /\ proc'[q] = "exited")
    BY KillFacts DEF ProcStates
  <2>1. Types'
    BY <2>0 DEF ProcStates, Phases, Asked
  <2>2. Phases'
    BY <2>0 DEF Phases, OneProcess, Processes, ProcStates
  <2>3. (NobodyStranded /\ SampleIsLive /\ StoppedClean)'
    BY <2>0 DEF NobodyStranded, SampleIsLive, StoppedClean, Phases, Processes, ProcStates
  <2>4. (OneProcess /\ Processes /\ Asked)'
    BY <2>0 DEF OneProcess, Processes, Asked, Phases, ProcStates
  <2> QED
    BY <2>1, <2>2, <2>3, <2>4 DEF Shape
<1>9. CASE Silence
  <2> USE <1>9, SessionsAreNumbers DEF Silence, Silent, LinkConstants, Shape, Types, TypeOK
  <2>0. ProcStates' /\ \A q \in Sessions : proc'[q] = proc[q] \/ (Alive(q) /\ proc'[q] = "exited")
    BY KillFacts DEF ProcStates
  <2>1. Types'
    BY <2>0 DEF ProcStates, Phases, Asked
  <2>2. Phases'
    BY <2>0 DEF Phases, OneProcess, Processes, ProcStates
  <2>3. (NobodyStranded /\ SampleIsLive /\ StoppedClean)'
    BY <2>0 DEF NobodyStranded, SampleIsLive, StoppedClean, Phases, Processes, ProcStates
  <2>4. (OneProcess /\ Processes /\ Asked)'
    BY <2>0 DEF OneProcess, Processes, Asked, Phases, ProcStates
  <2> QED
    BY <2>1, <2>2, <2>3, <2>4 DEF Shape
<1>10. CASE OnSample
  BY <1>10, SessionsAreNumbers DEF OnSample, LinkConstants,
         Shape, Types, TypeOK, NobodyStranded, SampleIsLive, OneProcess,
         StoppedClean, Phases, Processes, Asked
<1>11. CASE CloseWriter
  BY <1>11, SessionsAreNumbers DEF CloseWriter, LinkConstants,
         Shape, Types, TypeOK, NobodyStranded, SampleIsLive, OneProcess,
         StoppedClean, Phases, Processes, Asked
<1>12. CASE FailPending
  BY <1>12, SessionsAreNumbers DEF FailPending, fail_all, LinkConstants,
         Shape, Types, TypeOK, NobodyStranded, SampleIsLive, OneProcess,
         StoppedClean, Phases, Processes, Asked
<1>13. CASE Clear
  BY <1>13, SessionsAreNumbers DEF Clear, SampleAfterDrop, TalkType, LinkConstants,
         Shape, Types, TypeOK, NobodyStranded, SampleIsLive, OneProcess,
         StoppedClean, Phases, Processes, Asked
<1>14. CASE ReapKill
  <2> USE <1>14, SessionsAreNumbers DEF ReapKill, LinkConstants, Shape, Types, TypeOK
  <2>0. ProcStates' /\ \A q \in Sessions : proc'[q] = proc[q] \/ (Alive(q) /\ proc'[q] = "exited")
    BY KillFacts DEF ProcStates
  <2>1. Types'
    BY <2>0 DEF ProcStates, Phases, Asked
  <2>2. Phases'
    BY <2>0 DEF Phases, OneProcess, Processes, ProcStates
  <2>3. (NobodyStranded /\ SampleIsLive /\ StoppedClean)'
    BY <2>0 DEF NobodyStranded, SampleIsLive, StoppedClean, Phases, Processes, ProcStates
  <2>4. (OneProcess /\ Processes /\ Asked)'
    BY <2>0 DEF OneProcess, Processes, Asked, Phases, ProcStates
  <2> QED
    BY <2>1, <2>2, <2>3, <2>4 DEF Shape
<1>15. CASE Reap
  <2> USE <1>15, SessionsAreNumbers DEF Reap, ReapReady, LinkConstants, Shape, Types, TypeOK
  <2>1. Types'
    BY DEF Phases, Asked
  <2>2. Phases'
    BY DEF Phases, OneProcess, Processes, ProcStates
  <2>3. (NobodyStranded /\ SampleIsLive /\ StoppedClean)'
    BY DEF NobodyStranded, SampleIsLive, StoppedClean, Phases, Processes, ProcStates
  <2>4. (OneProcess /\ Processes /\ Asked)'
    BY DEF OneProcess, Processes, Asked, Phases, ProcStates
  <2> QED
    BY <2>1, <2>2, <2>3, <2>4 DEF Shape
<1>16. CASE Drain
  BY <1>16, SessionsAreNumbers DEF Drain, LinkConstants,
         Shape, Types, TypeOK, NobodyStranded, SampleIsLive, OneProcess,
         StoppedClean, Phases, Processes, Asked
<1>17. CASE Decide
  <2> USE <1>17, SessionsAreNumbers DEF Decide, NextBackoff, LinkConstants, Shape, Types, TypeOK
  <2>1. Types'
    BY DEF Phases, Asked
  <2>2. Phases'
    BY DEF Phases, OneProcess, Processes, ProcStates
  <2>3. (NobodyStranded /\ SampleIsLive /\ StoppedClean)'
    BY DEF NobodyStranded, SampleIsLive, StoppedClean, Phases, Processes, ProcStates
  <2>4. (OneProcess /\ Processes /\ Asked)'
    BY DEF OneProcess, Processes, Asked, Phases, ProcStates
  <2> QED
    BY <2>1, <2>2, <2>3, <2>4 DEF Shape
<1>18. CASE Wake
  BY <1>18, SessionsAreNumbers DEF Wake, LinkConstants,
         Shape, Types, TypeOK, NobodyStranded, SampleIsLive, OneProcess,
         StoppedClean, Phases, Processes, Asked
<1>19. CASE StopBegin
  <2> USE <1>19, SessionsAreNumbers DEF StopBegin, StopType, LinkConstants, Shape, Types, TypeOK
  <2>1. Types'
    BY DEF Phases, Asked
  <2>2. Phases'
    BY DEF Phases, OneProcess, Processes, ProcStates
  <2>3. (NobodyStranded /\ SampleIsLive /\ StoppedClean)'
    BY DEF NobodyStranded, SampleIsLive, StoppedClean, Phases, Processes, ProcStates
  <2>4. (OneProcess /\ Processes /\ Asked)'
    BY DEF OneProcess, Processes, Asked, Phases, ProcStates
  <2> QED
    BY <2>1, <2>2, <2>3, <2>4 DEF Shape
<1>20. CASE StopJoined
  BY <1>20, SessionsAreNumbers DEF StopJoined, Joins, StopType, LinkConstants,
         Shape, Types, TypeOK, NobodyStranded, SampleIsLive, OneProcess,
         StoppedClean, Phases, Processes, Asked
<1>21. CASE StopKill
  <2> USE <1>21, SessionsAreNumbers DEF StopKill, StopType, LinkConstants, Shape, Types, TypeOK
  <2>0. ProcStates' /\ \A q \in Sessions : proc'[q] = proc[q] \/ (Alive(q) /\ proc'[q] = "exited")
    BY KillFacts DEF ProcStates
  <2>1. Types'
    BY <2>0 DEF ProcStates, Phases, Asked
  <2>2. Phases'
    BY <2>0 DEF Phases, OneProcess, Processes, ProcStates
  <2>3. (NobodyStranded /\ SampleIsLive /\ StoppedClean)'
    BY <2>0 DEF NobodyStranded, SampleIsLive, StoppedClean, Phases, Processes, ProcStates
  <2>4. (OneProcess /\ Processes /\ Asked)'
    BY <2>0 DEF OneProcess, Processes, Asked, Phases, ProcStates
  <2> QED
    BY <2>1, <2>2, <2>3, <2>4 DEF Shape
<1>22. CASE StopAbort
  <2> USE <1>22, SessionsAreNumbers DEF StopAbort, StopType, LinkConstants, Shape, Types, TypeOK
  <2>0. ProcStates' /\ \A q \in Sessions : ~Alive(q)' /\ (proc[q] = "none" => proc'[q] = "none")
    <3>1. CASE pc \in {"hello", "up", "reap"}
      <4>1. pid = session /\ pid # None
        BY <3>1 DEF Phases
      <4> QED
        BY <3>1, <4>1, KillFacts DEF ProcStates, OneProcess
    <3>2. CASE pc \notin {"hello", "up", "reap"}
      BY <3>2 DEF ProcStates, OneProcess, Phases
    <3> QED
      BY <3>1, <3>2
  <2>1. Types'
    BY <2>0 DEF ProcStates, Phases, Asked
  <2>2. Phases'
    BY <2>0 DEF Phases, OneProcess, Processes, ProcStates
  <2>3. (NobodyStranded /\ SampleIsLive /\ StoppedClean)'
    BY <2>0 DEF NobodyStranded, SampleIsLive, StoppedClean, Phases, Processes, ProcStates
  <2>4. (OneProcess /\ Processes /\ Asked)'
    BY <2>0 DEF OneProcess, Processes, Asked, Phases, ProcStates
  <2> QED
    BY <2>1, <2>2, <2>3, <2>4 DEF Shape
<1>23. CASE StopFinish
  <2> USE <1>23, SessionsAreNumbers DEF StopFinish, fail_all, StopType, LinkConstants, Shape, Types, TypeOK
  <2>0. ProcStates' /\ \A q \in Sessions : proc'[q] = IF q = pid /\ pid # None /\ Alive(q) THEN "exited" ELSE proc[q]
    BY KillFacts DEF ProcStates
  <2>1. Types'
    BY <2>0 DEF ProcStates, Phases, Asked
  <2>2. Phases'
    BY <2>0 DEF Phases, OneProcess, Processes, ProcStates
  <2>3. (NobodyStranded /\ SampleIsLive /\ StoppedClean)'
    BY <2>0 DEF NobodyStranded, SampleIsLive, StoppedClean, Phases, Processes, ProcStates
  <2>4. (OneProcess /\ Processes /\ Asked)'
    BY <2>0 DEF OneProcess, Processes, Asked, Phases, ProcStates
  <2> QED
    BY <2>1, <2>2, <2>3, <2>4 DEF Shape
<1>24. ASSUME NEW s \in Sessions, ExitOnEof(s) PROVE Shape'
  BY <1>24, SessionsAreNumbers DEF ExitOnEof, LinkConstants,
         Shape, Types, TypeOK, NobodyStranded, SampleIsLive, OneProcess,
         StoppedClean, Phases, Processes, Asked
<1>25. ASSUME NEW s \in Sessions, Crash(s) PROVE Shape'
  BY <1>25, SessionsAreNumbers DEF Crash, Fault, LinkConstants,
         Shape, Types, TypeOK, NobodyStranded, SampleIsLive, OneProcess,
         StoppedClean, Phases, Processes, Asked
<1>26. ASSUME NEW r \in Requests, Begin(r) PROVE Shape'
  BY <1>26, SessionsAreNumbers DEF Begin, MayBegin, LinkConstants,
         Shape, Types, TypeOK, NobodyStranded, SampleIsLive, OneProcess,
         StoppedClean, Phases, Processes, Asked
<1>27. ASSUME NEW r \in Requests, OnRes(r) PROVE Shape'
  BY <1>27, SessionsAreNumbers DEF OnRes, LinkConstants,
         Shape, Types, TypeOK, NobodyStranded, SampleIsLive, OneProcess,
         StoppedClean, Phases, Processes, Asked
<1>28. ASSUME NEW c \in Callers, ReconnectAsk(c) PROVE Shape'
  <2> USE <1>28, SessionsAreNumbers DEF ReconnectAsk, RcType, LinkConstants, Shape, Types, TypeOK
  <2>1. Types'
    BY DEF Phases, Asked
  <2>2. Phases'
    BY DEF Phases, OneProcess, Processes, ProcStates
  <2>3. (NobodyStranded /\ SampleIsLive /\ StoppedClean)'
    BY DEF NobodyStranded, SampleIsLive, StoppedClean, Phases, Processes, ProcStates
  <2>4. (OneProcess /\ Processes /\ Asked)'
    BY DEF OneProcess, Processes, Asked, Phases, ProcStates
  <2> QED
    BY <2>1, <2>2, <2>3, <2>4 DEF Shape
<1>29. ASSUME NEW c \in Callers, ReconnectDrop(c) PROVE Shape'
  <2> USE <1>29, SessionsAreNumbers DEF ReconnectDrop, DropsWriter, RcType, LinkConstants, Shape, Types, TypeOK
  <2>0. ProcStates' /\ \A q \in Sessions : proc'[q] = proc[q] \/ (Alive(q) /\ proc'[q] = "exited")
    BY KillFacts DEF ProcStates
  <2>5. rc' \in [Callers -> RcType]
    BY DEF RcType
  <2>6. timers' \subseteq Sessions
    BY DEF Asked
  <2>1. Types'
    BY <2>0, <2>5, <2>6 DEF ProcStates, Phases
  <2>2. Phases'
    BY <2>0 DEF Phases, OneProcess, Processes, ProcStates
  <2>3. (NobodyStranded /\ SampleIsLive /\ StoppedClean)'
    BY <2>0 DEF NobodyStranded, SampleIsLive, StoppedClean, Phases, Processes, ProcStates
  <2>4. (OneProcess /\ Processes /\ Asked)'
    BY <2>0 DEF OneProcess, Processes, Asked, Phases, ProcStates
  <2> QED
    BY <2>1, <2>2, <2>3, <2>4 DEF Shape
<1>30. ASSUME NEW s \in Sessions, GraceTimer(s) PROVE Shape'
  <2> USE <1>30, SessionsAreNumbers DEF GraceTimer, LinkConstants, Shape, Types, TypeOK
  <2>0. ProcStates' /\ \A q \in Sessions : proc'[q] = proc[q] \/ (Alive(q) /\ proc'[q] = "exited")
    BY KillFacts DEF ProcStates
  <2>1. Types'
    BY <2>0 DEF ProcStates, Phases, Asked
  <2>2. Phases'
    BY <2>0 DEF Phases, OneProcess, Processes, ProcStates
  <2>3. (NobodyStranded /\ SampleIsLive /\ StoppedClean)'
    BY <2>0 DEF NobodyStranded, SampleIsLive, StoppedClean, Phases, Processes, ProcStates
  <2>4. (OneProcess /\ Processes /\ Asked)'
    BY <2>0 DEF OneProcess, Processes, Asked, Phases, ProcStates
  <2> QED
    BY <2>1, <2>2, <2>3, <2>4 DEF Shape
<1>31. CASE UNCHANGED vars
  BY <1>31 DEF vars,
         Shape, Types, TypeOK, NobodyStranded, SampleIsLive, OneProcess,
         StoppedClean, Phases, Processes, Asked
<1> QED
  BY <1>1, <1>2, <1>3, <1>4, <1>5, <1>6, <1>7, <1>8, <1>9, <1>10, <1>11, <1>12, <1>13, <1>14,
     <1>15, <1>16, <1>17, <1>18, <1>19, <1>20, <1>21, <1>22, <1>23, <1>24, <1>25, <1>26, <1>27,
     <1>28, <1>29, <1>30, <1>31
  DEF Next, Run, Node, Stop

LEMMA Counts ==
  ASSUME LinkConstants, Types
  PROVE  /\ IsFiniteSet(Served) /\ Cardinality(Served) \in Nat
         /\ Cardinality(Served) <= Cardinality(Callers)
         /\ IsFiniteSet(timers) /\ Cardinality(timers) \in Nat
         /\ Charged \in Int /\ Charged <= MaxFaults + 2 * Cardinality(Callers)
<1>1. IsFiniteSet(Callers) /\ Served \in SUBSET Callers
  BY DEF LinkConstants, Served
<1>2. IsFiniteSet(Served) /\ Cardinality(Served) <= Cardinality(Callers)
  BY <1>1, FS_Subset
<1>3. IsFiniteSet(1..Cardinality(Sessions)) /\ timers \in SUBSET (1..Cardinality(Sessions))
  <2>1. Cardinality(Sessions) \in Nat /\ Sessions = 1..Cardinality(Sessions)
    BY SessionsAreNumbers
  <2>2. IsFiniteSet(1..Cardinality(Sessions))
    BY <2>1, FS_Interval
  <2>3. timers \in SUBSET Sessions
    BY DEF Types, TypeOK
  <2> QED
    BY <2>1, <2>2, <2>3
<1>4. IsFiniteSet(timers)
  BY <1>3, FS_Subset
<1>5. Cardinality(Served) \in Nat /\ Cardinality(timers) \in Nat
  BY <1>2, <1>4, FS_CardinalityType
<1>6. faults \in Nat /\ faults <= MaxFaults /\ MaxFaults \in Nat /\ Cardinality(Callers) \in Nat
  BY SessionsAreNumbers DEF Types, LinkConstants
<1> QED
  BY <1>2, <1>4, <1>5, <1>6 DEF Charged

\* What must be accounted for before the next session begins.
Accounted == pc = "spawn" \/ (stopping = FALSE /\ ~Intact)

LEMMA SpawnFits ==
  ASSUME LinkConstants, Types, Budget, Spawn
  PROVE  session < Cardinality(Sessions) /\ session <= Charged
<1>1. session <= Charged
  BY DEF Spawn, Budget
<1>2. /\ session \in Nat /\ MaxFaults \in Nat
      /\ Cardinality(Sessions) = MaxFaults + 2 * Cardinality(Callers) + 1
      /\ Cardinality(Callers) \in Nat
  BY SessionsAreNumbers DEF Types, TypeOK, LinkConstants
<1>3. Charged \in Int /\ Charged <= MaxFaults + 2 * Cardinality(Callers)
  BY Counts
<1> QED
  BY <1>1, <1>2, <1>3

LEMMA BudgetStep ==
  ASSUME LinkConstants, LinkInv, Types', [Next]_vars
  PROVE  Budget'
<1> USE DEF linkVars, reqVars, rcVars
<1>1. /\ session \in Nat /\ Charged \in Int /\ Charged' \in Int /\ faults \in Nat
      /\ Cardinality(Served) \in Nat /\ IsFiniteSet(Served)
      /\ Cardinality(timers) \in Nat /\ IsFiniteSet(timers)
  <2>1. Charged' \in Int
    <3>1. IsFiniteSet(Callers) /\ Served' \in SUBSET Callers
      BY DEF LinkConstants, Served
    <3>2. Cardinality(Served') \in Nat
      BY <3>1, FS_Subset, FS_CardinalityType
    <3>3. IsFiniteSet(1..Cardinality(Sessions)) /\ timers' \in SUBSET (1..Cardinality(Sessions))
      <4>1. timers' \subseteq Sessions
        BY DEF Types, TypeOK
      <4>2. IsFiniteSet(1..Cardinality(Sessions)) /\ Sessions = 1..Cardinality(Sessions)
        BY SessionsAreNumbers, FS_Interval
      <4> QED
        BY <4>1, <4>2
    <3>4. Cardinality(timers') \in Nat
      BY <3>3, FS_Subset, FS_CardinalityType
    <3> QED
      BY <3>2, <3>4 DEF Charged, Types
  <2> QED
    BY <2>1, Counts, SessionsAreNumbers DEF LinkInv, Types, TypeOK
<1>2. ASSUME session' = session, Charged' >= Charged, Accounted' => Accounted \/ Charged' > Charged
      PROVE  Budget'
  <2>1. session <= Charged + 1 /\ (Accounted => session <= Charged)
    BY DEF LinkInv, Budget, Accounted
  <2> DEFINE C == Charged D == Charged'
  <2>0. C \in Int /\ D \in Int /\ session \in Int
    BY <1>1
  <2>2. session' <= Charged' + 1
    <3>1. session' = session /\ D >= C /\ session <= C + 1
      BY <1>2, <2>1
    <3> HIDE DEF C, D
    <3>2. session <= D + 1
      BY <2>0, <3>1
    <3> QED
      BY <3>1, <3>2 DEF D
  <2>3. ASSUME Accounted' PROVE session' <= Charged'
    <3>1. CASE Accounted
      BY <1>1, <1>2, <2>1, <3>1
    <3>2. CASE Charged' > Charged
      BY <1>1, <1>2, <2>1, <3>2
    <3> QED
      BY <1>2, <2>3, <3>1, <3>2
  <2> QED
    BY <2>2, <2>3 DEF Budget, Accounted
<1>3. ASSUME UNCHANGED rc, UNCHANGED timers
      PROVE  Charged' = Charged + (faults' - faults)
  <2>1. Served' = Served
    BY <1>3 DEF Served
  <2>2. faults' \in Int
    BY DEF Types
  <2> QED
    BY <1>1, <1>3, <2>1, <2>2 DEF Charged
<1>4. ASSUME UNCHANGED <<rc, timers, session>>, faults' \in {faults, faults + 1},
             Accounted' => Accounted \/ faults' = faults + 1
      PROVE  Budget'
  <2>1. Charged' = Charged + (faults' - faults)
    BY <1>3, <1>4
  <2>2. Charged' >= Charged /\ (faults' = faults + 1 => Charged' > Charged)
    <3> DEFINE C == Charged D == Charged' f == faults g == faults'
    <3>1. C \in Int /\ D \in Int /\ f \in Int /\ (g = f \/ g = f + 1) /\ D = C + (g - f)
      BY <1>1, <1>4, <2>1
    <3> HIDE DEF C, D, f, g
    <3>2. D >= C /\ (g = f + 1 => D > C)
      BY <3>1
    <3> QED
      BY <3>2 DEF C, D, f, g
  <2> QED
    BY <1>2, <1>4, <2>2
<1>5. CASE RunTop
  <2>1. UNCHANGED <<rc, timers, session, faults>>
    BY <1>5 DEF RunTop
  <2>2. Accounted' => Accounted
    <3>1. CASE stopping = TRUE
      BY <1>5, <3>1 DEF RunTop, Accounted
    <3>2. CASE stopping = FALSE
      BY <1>5, <3>2 DEF RunTop, Accounted, Intact
    <3> QED
      BY <3>1, <3>2 DEF LinkInv, Types, TypeOK
  <2> QED
    BY <1>4, <2>1, <2>2
<1>6. CASE SpawnFails
  BY <1>6, <1>1, <1>4 DEF SpawnFails, Fault, Accounted, Intact, LinkInv, Phases
<1>7. CASE Connected
  BY <1>7, <1>1, <1>4 DEF Connected, Accounted, Intact, LinkInv, Phases
<1>8. CASE BadHello
  BY <1>8, <1>1, <1>4 DEF BadHello, Fault, Accounted, Intact, LinkInv, Phases
<1>9. CASE HelloTimeout
  BY <1>9, <1>1, <1>4 DEF HelloTimeout, HelloOverdue, Accounted, Intact, LinkInv, Phases
<1>10. CASE Closed
  BY <1>10, <1>1, <1>4 DEF Closed, Accounted, Intact, LinkInv, Phases
<1>11. CASE ProtocolError
  BY <1>11, <1>1, <1>4 DEF ProtocolError, Fault, Accounted, Intact, LinkInv, Phases
<1>12. CASE Silence
  BY <1>12, <1>1, <1>4 DEF Silence, Silent, Accounted, Intact, LinkInv, Phases
<1>13. CASE OnSample
  BY <1>13, <1>1, <1>4 DEF OnSample, Accounted, Intact, LinkInv, Phases
<1>14. CASE CloseWriter
  BY <1>14, <1>1, <1>4 DEF CloseWriter, Accounted, Intact, LinkInv, Phases
<1>15. CASE FailPending
  BY <1>15, <1>1, <1>4 DEF FailPending, fail_all, Accounted, Intact, LinkInv, Phases
<1>16. CASE Clear
  BY <1>16, <1>1, <1>4 DEF Clear, Accounted, Intact, LinkInv, Phases
<1>17. CASE ReapKill
  BY <1>17, <1>1, <1>4 DEF ReapKill, Accounted, Intact, LinkInv, Phases
<1>18. CASE Reap
  BY <1>18, <1>1, <1>4 DEF Reap, ReapReady, Accounted, Intact, LinkInv, Phases
<1>19. CASE Drain
  BY <1>19, <1>1, <1>4 DEF Drain, Accounted, Intact, LinkInv, Phases
<1>20. CASE Decide
  BY <1>20, <1>1, <1>4 DEF Decide, Accounted, Intact, LinkInv, Phases
<1>21. CASE Wake
  BY <1>21, <1>1, <1>4 DEF Wake, Accounted, Intact, LinkInv, Phases
<1>22. CASE StopBegin
  BY <1>22, <1>1, <1>4 DEF StopBegin, Accounted, Intact, LinkInv, Phases
<1>23. CASE StopJoined
  BY <1>23, <1>1, <1>4 DEF StopJoined, Accounted, Intact, LinkInv, Phases
<1>24. CASE StopKill
  BY <1>24, <1>1, <1>4 DEF StopKill, Types, StopType, Accounted, Intact, LinkInv, Phases
<1>25. CASE StopAbort
  BY <1>25, <1>1, <1>4 DEF StopAbort, Types, StopType, Accounted, Intact, LinkInv, Phases
<1>26. CASE StopFinish
  BY <1>26, <1>1, <1>4 DEF StopFinish, fail_all, Accounted, Intact, LinkInv, Phases
<1>27. CASE Spawn
  <2>1. session <= Charged
    BY <1>27, SpawnFits DEF LinkInv
  <2>2. Charged' = Charged
    BY <1>27, <1>1, <1>3 DEF Spawn
  <2>3. Accounted' => FALSE
    <3>1. session + 1 \in Sessions
      BY <1>27, SpawnFits, SessionsAreNumbers, <1>1 DEF LinkInv
    <3> QED
      BY <1>27, <3>1 DEF Spawn, Accounted, Intact, LinkInv, Types, TypeOK
  <2> QED
    BY <1>27, <1>1, <2>1, <2>2, <2>3 DEF Spawn, Budget, Accounted
<1>28. ASSUME NEW s \in Sessions, ExitOnEof(s) PROVE Budget'
  BY <1>28, <1>1, <1>4 DEF ExitOnEof, OneProcess, Alive, Accounted, Intact, LinkInv, Phases
<1>29. ASSUME NEW s \in Sessions, Crash(s) PROVE Budget'
  BY <1>29, <1>1, <1>4 DEF Crash, Fault, Accounted, Intact, LinkInv, Phases
<1>30. ASSUME NEW r \in Requests, Begin(r) PROVE Budget'
  BY <1>30, <1>1, <1>4 DEF Begin, Accounted, Intact, LinkInv, Phases
<1>31. ASSUME NEW r \in Requests, OnRes(r) PROVE Budget'
  BY <1>31, <1>1, <1>4 DEF OnRes, Accounted, Intact, LinkInv, Phases
<1>32. ASSUME NEW c \in Callers, ReconnectAsk(c) PROVE Budget'
  <2>1. Served' = Served \/ Served' = Served \cup {c}
    BY <1>32 DEF ReconnectAsk, Served, LinkInv, Types, RcType
  <2>2. Cardinality(Served') >= Cardinality(Served) /\ Cardinality(Served') \in Nat
    BY <1>1, <2>1, FS_AddElement
  <2>3. Charged' >= Charged
    BY <1>32, <1>1, <2>2 DEF ReconnectAsk, Charged
  <2> QED
    BY <1>32, <1>2, <2>3 DEF ReconnectAsk, Accounted, Intact
<1>33. ASSUME NEW c \in Callers, ReconnectDrop(c) PROVE Budget'
  <2>1. Served' = Served \cup {c} /\ c \notin Served
    BY <1>33 DEF ReconnectDrop, Served, LinkInv, Types, RcType
  <2>2. Cardinality(Served') = Cardinality(Served) + 1
    BY <1>1, <2>1, FS_AddElement
  <2>3. timers' = timers \/ timers' = timers \cup {rc[c].session}
    BY <1>33 DEF ReconnectDrop
  <2>4. Cardinality(timers') <= Cardinality(timers) + 1 /\ Cardinality(timers') \in Nat
    <3>1. CASE timers' = timers
      BY <1>1, <3>1
    <3>2. CASE timers' = timers \cup {rc[c].session}
      <4> DEFINE S == timers
      <4>1. IsFiniteSet(S) /\ Cardinality(S) \in Nat /\ timers' = S \cup {rc[c].session}
        BY <1>1, <3>2
      <4> HIDE DEF S
      <4>2. Cardinality(S \cup {rc[c].session}) = Cardinality(S)
            \/ Cardinality(S \cup {rc[c].session}) = Cardinality(S) + 1
        BY <4>1, FS_AddElement
      <4> QED
        BY <4>1, <4>2 DEF S
    <3> QED
      BY <2>3, <3>1, <3>2
  <2>5. Charged' > Charged
    BY <1>33, <1>1, <2>2, <2>4 DEF ReconnectDrop, Charged
  <2> QED
    BY <1>33, <1>1, <1>2, <2>5 DEF ReconnectDrop
<1>34. ASSUME NEW s \in Sessions, GraceTimer(s) PROVE Budget'
  <2>1. Cardinality(timers') = Cardinality(timers) - 1
    BY <1>34, <1>1, FS_RemoveElement DEF GraceTimer
  <2>2. Served' = Served
    BY <1>34 DEF GraceTimer, Served
  <2>3. Charged' > Charged
    BY <1>34, <1>1, <2>1, <2>2 DEF GraceTimer, Charged
  <2> QED
    BY <1>34, <1>1, <1>2, <2>3 DEF GraceTimer
<1>35. CASE UNCHANGED vars
  BY <1>35, <1>1, <1>4 DEF vars, Accounted, Intact
<1> QED
  BY <1>5, <1>6, <1>7, <1>8, <1>9, <1>10, <1>11, <1>12, <1>13, <1>14, <1>15, <1>16, <1>17,
     <1>18, <1>19, <1>20, <1>21, <1>22, <1>23, <1>24, <1>25, <1>26, <1>27, <1>28, <1>29, <1>30,
     <1>31, <1>32, <1>33, <1>34, <1>35
  DEF Next, Run, Node, Stop

-----------------------------------------------------------------------------
LEMMA LinkStep ==
  ASSUME LinkConstants, LinkInv, [Next]_vars PROVE LinkInv'
<1>1. Shape'
  BY ShapeStep, SpawnFits DEF LinkInv, Shape
<1>2. Budget'
  BY <1>1, BudgetStep DEF Shape
<1> QED
  BY <1>1, <1>2 DEF LinkInv, Shape

(* LinkInv holds throughout, which is what the properties below follow from. *)
THEOREM LinkInvariant ==
  ASSUME LinkConstants PROVE Spec => []LinkInv
<1>1. Init => LinkInv
  BY LinkInit
<1>2. LinkInv /\ [Next]_vars => LinkInv'
  BY LinkStep
<1> QED
  BY <1>1, <1>2, PTL DEF Spec

(* run(), session(), reconnect() and stop() of fleet.rs, however many tasks *)
(* call them: no accepted request waits on a session that is over, at most  *)
(* one node process runs and pid is the one that signals it, numbers are    *)
(* shown only while the link is up, and a stopped link left nothing behind. *)
THEOREM LinkIsSafe ==
  ASSUME LinkConstants
  PROVE  Spec => [](TypeOK /\ NobodyStranded /\ OneProcess /\ SampleIsLive /\ StoppedClean)
<1>1. LinkInv => TypeOK /\ NobodyStranded /\ OneProcess /\ SampleIsLive /\ StoppedClean
  BY DEF LinkInv, Types
<1> QED
  BY <1>1, LinkInvariant, PTL

(* The same of the suite's behaviours of this component, which its run      *)
(* checks.                                                                  *)
THEOREM SuiteSessionSafe == SuiteSpec => []SessionSafe
<1> DEFINE Linked == part = "link" => LinkInv
<1>1. SuiteInit => Linked
  BY SuiteAssumption, LinkInit DEF SuiteInit
<1>2. Linked /\ [SuiteNext]_suiteVars => Linked'
  <2> SUFFICES ASSUME Linked, [SuiteNext]_suiteVars, part' = "link" PROVE LinkInv'
    OBVIOUS
  <2>1. part = "link" /\ [Next]_vars
    BY DEF SuiteNext, suiteVars
  <2> QED
    BY <2>1, SuiteAssumption, LinkStep
<1>3. Linked => SessionSafe
  BY DEF LinkInv, Types, SessionSafe
<1> QED
  BY <1>1, <1>2, <1>3, PTL DEF SuiteSpec

-----------------------------------------------------------------------------
(* The file operations of the suite, for any uploads, deletes and power    *)
(* losses, with one node process.                                          *)
(*                                                                         *)
(* That what has the file's name is verified rests on the upload being the *)
(* only one (Alone), on what it hashed being what its file holds (Digests), *)
(* and, because a power loss brings back the directory as last synced, on  *)
(* the same being true of that one (Files).                                *)
Contents == {s \in Seq(Versions) : Len(s) <= Size}
Holding == {"check", "recv", "sync", "verify", "rename"}
Outcomes == {"ok", "failed", "killed"}
NoUpload == [at : {"new"} \cup Outcomes, fd : {Fs!None}, flock : {FALSE}, digest : Contents]
ActiveUpload(at, fds, flocks) ==
  [at : at, proc : Procs, from : Versions, offset : 0..Size,
   fd : fds, flock : flocks, digest : Contents]
Upload == NoUpload \cup ActiveUpload(Outcomes \cup {"open"}, {Fs!None}, {FALSE})
               \cup ActiveUpload({"flock"}, Fs!Inodes, {FALSE}) \cup ActiveUpload(Holding, Fs!Inodes, {TRUE})
               \cup ActiveUpload({"dirsync"}, Fs!Inodes, {TRUE})
Delete == [at : {"new", "found", "failed", "ok"}, name : Fs!Names]

FsTypes ==
  /\ data \in [Fs!Inodes -> Contents] /\ synced \in [Fs!Inodes -> 0..Size]
  /\ \A i \in Fs!Inodes : synced[i] <= Len(data[i])
  /\ dir \in [Fs!Names -> Fs!Inodes \cup {Fs!None}] /\ disk \in [Fs!Names -> Fs!Inodes \cup {Fs!None}]
  /\ locks \in SUBSET Procs /\ acked \in BOOLEAN /\ losses \in 0..MaxLosses
  /\ wr \in [Writers -> Upload] /\ del \in [Deleters -> Delete]

\* The key's lock is the upload's.
Alone ==
  /\ \A w \in Writers : Fs!Running(w) => wr[w].proc \in locks
  /\ \A w, u \in Writers : Fs!Running(w) /\ Fs!Running(u) => w = u

\* Every inode is new, once; each writer that got past its open made one at most.
Opened == {w \in Writers : wr[w].at \notin {"new", "open"}}
Fresh ==
  /\ next \in Nat \ {0} /\ next <= Cardinality(Opened) + 1
  /\ \A n \in Fs!Names : dir[n] < next /\ disk[n] < next
  /\ \A w \in Writers : wr[w].fd < next

\* A name of a file is never that of a partial too, in the directory or on disk.
Apart ==
  /\ dir["partial"] # Fs!None => dir["partial"] \notin {dir["file"], disk["file"]}
  /\ disk["partial"] # Fs!None => disk["partial"] # disk["file"]
  /\ \A w \in Writers : wr[w].at \in {"flock"} \cup Holding =>
       /\ dir["partial"] \in {Fs!None, wr[w].fd}
       /\ wr[w].fd \notin {dir["file"], disk["file"]}
  /\ \A w \in Writers : wr[w].at = "dirsync" => dir["partial"] = Fs!None

\* What an upload hashed is what its file holds.
Digests ==
  \A w \in Writers :
    /\ wr[w].at \in Holding \ {"check"} => wr[w].digest = data[wr[w].fd]
    /\ wr[w].at \in {"sync", "verify", "rename"} => Len(wr[w].digest) = Size
    /\ wr[w].at \in {"verify", "rename"} => synced[wr[w].fd] = Size
    /\ wr[w].at = "rename" => Fs!HashFits(w)

\* What has the file's name, now or after a power loss, is whole, verified and on disk.
GoodFile(i) ==
  /\ Len(data[i]) = Size /\ synced[i] = Size
  /\ Hashed => \E v \in Versions : data[i] = Fs!Whole(v)
Files ==
  /\ dir["file"] # Fs!None => GoodFile(dir["file"])
  /\ disk["file"] # Fs!None => GoodFile(disk["file"])
  /\ acked = TRUE => dir["file"] # Fs!None /\ disk["file"] # Fs!None

FsInv == FsTypes /\ Alone /\ Fresh /\ Apart /\ Digests /\ Files
-----------------------------------------------------------------------------
LEMMA CountsAre == \A S : Fs!Cardinality(S) = Cardinality(S) /\ Fs!IsFiniteSet(S) = IsFiniteSet(S)
BY DEF Fs!Cardinality, Cardinality, Fs!IsFiniteSet, IsFiniteSet

LEMMA InodesAreNumbers ==
  ASSUME Fs!FsConstants
  PROVE  Cardinality(Writers) \in Nat /\ Fs!Inodes = 1..Cardinality(Writers) /\ Size \in Nat /\ Size > 0
BY FS_CardinalityType, CountsAre DEF Fs!FsConstants, Fs!Inodes

\* What an upload is, by where it is.
LEMMA UploadIs ==
  ASSUME NEW u \in Upload
  PROVE  /\ u.digest \in Contents
         /\ u.at \in {"new"} \cup Outcomes \cup {"open"} => u.fd = Fs!None /\ u.flock = FALSE
         /\ u.at = "open" => u \in ActiveUpload({"open"}, {Fs!None}, {FALSE})
         /\ u.at = "flock" => u \in ActiveUpload({"flock"}, Fs!Inodes, {FALSE})
         /\ u.at \in Holding => u \in ActiveUpload(Holding, Fs!Inodes, {TRUE})
         /\ u.at = "dirsync" => u \in ActiveUpload({"dirsync"}, Fs!Inodes, {TRUE})
         /\ u.at \in {"new"} \cup Outcomes \cup {"open", "flock", "dirsync"} \cup Holding
BY DEF Upload, NoUpload, ActiveUpload, Outcomes, Holding

LEMMA FsInit == ASSUME Fs!FsConstants, Fs!Init PROVE FsInv
<1> USE DEF Fs!Init
<1>1. <<>> \in Contents
  BY InodesAreNumbers DEF Contents
<1>2. FsTypes
  <2>1. data \in [Fs!Inodes -> Contents] /\ synced \in [Fs!Inodes -> 0..Size]
    BY <1>1, InodesAreNumbers
  <2>2. \A i \in Fs!Inodes : synced[i] <= Len(data[i])
    OBVIOUS
  <2>3. wr \in [Writers -> Upload]
    <3>1. [at |-> "new", fd |-> Fs!None, flock |-> FALSE, digest |-> <<>>] \in Upload
      BY <1>1 DEF Upload, NoUpload
    <3> QED
      BY <3>1
  <2>4. del \in [Deleters -> Delete] /\ losses \in 0..MaxLosses
    BY DEF Delete, Fs!Names, Fs!FsConstants
  <2> QED
    BY <2>1, <2>2, <2>3, <2>4 DEF FsTypes
<1>3. Fresh
  <2>1. Opened = {}
    BY DEF Opened
  <2> QED
    BY <2>1, FS_EmptySet DEF Fresh, Fs!Names, Fs!None
<1>4. Alone /\ Apart /\ Digests /\ Files
  BY DEF Alone, Fs!Running, Apart, Digests, Files, Holding, Fs!Names, Fs!None
<1> QED
  BY <1>2, <1>3, <1>4 DEF FsInv

\* What an upload's own step does to the uploads.
Moves(w, u) ==
  wr' = [wr EXCEPT ![w] = u]

LEMMA Counting ==
  ASSUME Fs!FsConstants, FsTypes, Fresh, NEW w \in Writers
  PROVE  /\ IsFiniteSet(Opened) /\ Cardinality(Opened) \in Nat
         /\ Opened \subseteq Opened' /\ Opened' \subseteq Writers => Cardinality(Opened') >= Cardinality(Opened)
         /\ w \notin Opened /\ Opened' = Opened \cup {w} => Cardinality(Opened') = Cardinality(Opened) + 1
         /\ w \notin Opened => Cardinality(Opened) < Cardinality(Writers)
<1>1. IsFiniteSet(Writers) /\ Opened \in SUBSET Writers
  BY CountsAre DEF Fs!FsConstants, Opened
<1>2. IsFiniteSet(Opened) /\ Cardinality(Opened) \in Nat /\ Cardinality(Writers) \in Nat
  BY <1>1, FS_Subset, FS_CardinalityType
<1>3. ASSUME Opened \subseteq Opened', Opened' \subseteq Writers
      PROVE  Cardinality(Opened') >= Cardinality(Opened)
  <2> DEFINE S == Opened
  <2> DEFINE T == Opened'
  <2>1. IsFiniteSet(Writers) /\ T \in SUBSET Writers /\ S \in SUBSET T
    BY <1>1, <1>3
  <2> HIDE DEF S, T
  <2>2. IsFiniteSet(T)
    BY <2>1, FS_Subset
  <2>3. Cardinality(S) <= Cardinality(T) /\ Cardinality(S) \in Nat /\ Cardinality(T) \in Nat
    BY <2>1, <2>2, FS_Subset, FS_CardinalityType
  <2> QED
    BY <2>3 DEF S, T
<1>4. ASSUME w \notin Opened, Opened' = Opened \cup {w}
      PROVE  Cardinality(Opened') = Cardinality(Opened) + 1
  <2>1. Cardinality(Opened \cup {w}) = Cardinality(Opened) + 1
    BY <1>2, <1>4, FS_AddElement
  <2> QED
    BY <1>4, <2>1
<1>5. ASSUME w \notin Opened
      PROVE  Cardinality(Opened) < Cardinality(Writers)
  <2>1. Cardinality(Opened \cup {w}) = Cardinality(Opened) + 1
    BY <1>2, <1>5, FS_AddElement
  <2>2. Opened \cup {w} \in SUBSET Writers
    BY <1>1
  <2>3. Cardinality(Opened \cup {w}) <= Cardinality(Writers)
    BY <1>1, <2>2, FS_Subset
  <2> QED
    BY <1>2, <2>1, <2>3
<1> QED
  BY <1>2, <1>3, <1>4, <1>5

\* Both locks go when the handler returns; one upload the less.
LEMMA Returned ==
  ASSUME Fs!FsConstants, OneNode, FsInv, NEW w \in Writers, Fs!Running(w),
         NEW how \in {"ok", "failed"}, Fs!Return(w, how)
  PROVE  /\ wr' \in [Writers -> Upload] /\ locks' \in SUBSET Procs /\ Alone'
         /\ wr'[w].at = how /\ wr'[w].fd = Fs!None
         /\ \A u \in Writers : u # w => wr'[u] = wr[u] /\ ~Fs!Running(u)
<1>1. wr[w] \in Upload /\ wr[w].at \in {"open", "flock", "dirsync"} \cup Holding
  BY UploadIs DEF FsInv, FsTypes, Fs!Running, Outcomes
<1>2. wr[w] \in ActiveUpload({wr[w].at}, {wr[w].fd}, {wr[w].flock})
  BY <1>1, UploadIs DEF ActiveUpload
<1> DEFINE r == [wr[w] EXCEPT !.at = how, !.fd = Fs!None, !.flock = FALSE]
<1>3. r \in ActiveUpload(Outcomes \cup {"open"}, {Fs!None}, {FALSE}) /\ r.at = how /\ r.fd = Fs!None
  BY <1>2 DEF ActiveUpload, Outcomes
<1>4. wr' = [wr EXCEPT ![w] = r]
  BY DEF Fs!Return
<1> HIDE DEF r
<1>5. wr' \in [Writers -> Upload] /\ wr'[w] = r /\ \A u \in Writers : u # w => wr'[u] = wr[u]
  BY <1>3, <1>4 DEF FsInv, FsTypes, Upload
<1>6. \A u \in Writers : u # w => ~Fs!Running(u)
  BY DEF FsInv, Alone
<1>7. ~Fs!Running(w)'
  BY <1>3, <1>5 DEF Fs!Running
<1>8. Alone'
  BY <1>5, <1>6, <1>7 DEF Alone, Fs!Running
<1> QED
  BY <1>3, <1>5, <1>6, <1>8 DEF Fs!Return, FsInv, FsTypes

\* An upload goes on and the others are not running.
LEMMA Moved ==
  ASSUME FsInv, NEW w \in Writers, Fs!Running(w), NEW r \in Upload, r.proc = wr[w].proc,
         wr' = [wr EXCEPT ![w] = r], UNCHANGED locks
  PROVE  /\ wr' \in [Writers -> Upload] /\ wr'[w] = r /\ Alone'
         /\ \A u \in Writers : u # w => wr'[u] = wr[u] /\ ~Fs!Running(u)
<1>1. wr' \in [Writers -> Upload] /\ wr'[w] = r /\ \A u \in Writers : u # w => wr'[u] = wr[u]
  BY DEF FsInv, FsTypes
<1>2. \A u \in Writers : u # w => ~Fs!Running(u)
  BY DEF FsInv, Alone
<1>3. Alone'
  BY <1>1, <1>2 DEF FsInv, Alone, Fs!Running
<1> QED
  BY <1>1, <1>2, <1>3

\* An upload that returned leaves nobody at work; the names may have changed
\* as unlinkat changes them.
LEMMA QuietStep ==
  ASSUME Fs!FsConstants, OneNode, FsInv, NEW w \in Writers, Fs!Running(w),
         NEW how \in {"ok", "failed"}, Fs!Return(w, how),
         data' \in [Fs!Inodes -> Contents], synced' \in [Fs!Inodes -> 0..Size],
         \A i \in Fs!Inodes : synced'[i] <= Len(data'[i]),
         \A i \in {dir["file"], disk["file"]} \ {Fs!None} : data'[i] = data[i] /\ synced'[i] = synced[i],
         dir' = dir \/ Fs!Unlink("partial"), UNCHANGED <<disk, next, del, losses>>,
         UNCHANGED acked
  PROVE  FsInv'
<1>1. /\ wr' \in [Writers -> Upload] /\ locks' \in SUBSET Procs /\ Alone'
      /\ wr'[w].at = how /\ wr'[w].fd = Fs!None
      /\ \A u \in Writers : u # w => wr'[u] = wr[u] /\ ~Fs!Running(u)
  BY Returned
<1>2. /\ dir' \in [Fs!Names -> Fs!Inodes \cup {Fs!None}] /\ dir'["file"] = dir["file"]
      /\ dir'["partial"] \in {dir["partial"], Fs!None}
  BY DEF FsInv, FsTypes, Fs!Unlink, Fs!Names
<1>3. \A u \in Writers : wr'[u].at \notin {"flock", "dirsync"} \cup Holding
  BY <1>1 DEF Fs!Running, Holding, FsInv, FsTypes
<1>4. FsTypes'
  BY <1>1, <1>2 DEF FsInv, FsTypes
<1>5. Fresh'
  <2>1. Opened \subseteq Opened' /\ Opened' \subseteq Writers
    BY <1>1 DEF Opened
  <2>2. Cardinality(Opened') >= Cardinality(Opened) /\ Cardinality(Opened') \in Nat
        /\ Cardinality(Opened) \in Nat
    <3>1. IsFiniteSet(Writers) /\ Opened' \in SUBSET Writers
      BY <2>1, CountsAre DEF Fs!FsConstants
    <3> QED
      BY <2>1, <3>1, Counting, FS_Subset, FS_CardinalityType DEF FsInv
  <2>3. next \in Nat \ {0} /\ next <= Cardinality(Opened') + 1
    <3> DEFINE a == Cardinality(Opened) b == Cardinality(Opened')
    <3>1. a \in Nat /\ b \in Nat /\ b >= a /\ next \in Nat \ {0} /\ next <= a + 1
      BY <2>2 DEF FsInv, Fresh
    <3> HIDE DEF a, b
    <3>2. next <= b + 1
      BY <3>1
    <3> QED
      BY <3>1, <3>2 DEF b
  <2>4. \A n \in Fs!Names : dir'[n] < next /\ disk[n] < next
    BY <1>2 DEF FsInv, Fresh, Fs!Names, Fs!None
  <2>5. \A u \in Writers : wr'[u].fd < next
    BY <1>1 DEF FsInv, Fresh, Fs!None
  <2> QED
    BY <2>3, <2>4, <2>5 DEF Fresh
<1>6. Apart'
  BY <1>2, <1>3 DEF FsInv, Apart
<1>7. Digests'
  BY <1>3 DEF Digests, Holding
<1>8. Files'
  BY <1>2 DEF FsInv, Files, GoodFile
<1> QED
  BY <1>1, <1>4, <1>5, <1>6, <1>7, <1>8 DEF FsInv

\* What a running upload still has to say of its file.
DigestOf(w) ==
  /\ wr[w].at \in Holding \ {"check"} => wr[w].digest = data[wr[w].fd]
  /\ wr[w].at \in {"sync", "verify", "rename"} => Len(wr[w].digest) = Size
  /\ wr[w].at \in {"verify", "rename"} => synced[wr[w].fd] = Size
  /\ wr[w].at = "rename" => Fs!HashFits(w)

\* A step of a running upload that changes at most its own file's data.
LEMMA WorkStep ==
  ASSUME Fs!FsConstants, OneNode, FsInv, NEW w \in Writers, wr[w].at \in {"flock"} \cup Holding,
         NEW r \in Upload, r.at \in Holding, r.fd = wr[w].fd, r.proc = wr[w].proc,
         wr' = [wr EXCEPT ![w] = r], UNCHANGED locks,
         data' \in [Fs!Inodes -> Contents], synced' \in [Fs!Inodes -> 0..Size],
         \A i \in Fs!Inodes : synced'[i] <= Len(data'[i]),
         \A i \in Fs!Inodes : i # wr[w].fd => data'[i] = data[i] /\ synced'[i] = synced[i],
         UNCHANGED <<dir, disk, next, del, acked, losses>>,
         DigestOf(w)'
  PROVE  FsInv'
<1>1. Fs!Running(w)
  BY DEF Fs!Running, Holding
<1>2. /\ wr' \in [Writers -> Upload] /\ wr'[w] = r /\ Alone'
      /\ \A u \in Writers : u # w => wr'[u] = wr[u] /\ ~Fs!Running(u)
  BY <1>1, Moved
<1>3. FsTypes'
  BY <1>2 DEF FsInv, FsTypes
<1>4. Fresh'
  <2>1. Opened' = Opened
    BY <1>2 DEF Opened, Holding
  <2> QED
    BY <1>2, <2>1 DEF FsInv, Fresh
<1>5. \A u \in Writers : wr'[u].at \in {"flock", "dirsync"} \cup Holding => u = w
  BY <1>2 DEF Fs!Running, Holding
<1>6. Apart'
  BY <1>2, <1>5 DEF FsInv, Apart, Holding
<1>7. Digests'
  BY <1>5 DEF Digests, DigestOf, Holding
<1>8. Files'
  <2>1. wr[w].fd \notin {dir["file"], disk["file"]}
    BY DEF FsInv, Apart
  <2>2. {dir["file"], disk["file"]} \ {Fs!None} \subseteq Fs!Inodes
    BY DEF FsInv, FsTypes, Fs!Names
  <2> QED
    BY <2>1, <2>2 DEF FsInv, Files, GoodFile
<1> QED
  BY <1>2, <1>3, <1>4, <1>6, <1>7, <1>8 DEF FsInv

\* The more uploads have been opened, the more inodes there may be.
LEMMA Grown ==
  ASSUME Fs!FsConstants, FsInv, Opened \subseteq Opened', Opened' \subseteq Writers, next' = next
  PROVE  next' \in Nat \ {0} /\ next' <= Cardinality(Opened') + 1
<1> DEFINE a == Cardinality(Opened) b == Cardinality(Opened')
<1>1. IsFiniteSet(Writers) /\ Opened' \in SUBSET Writers /\ Opened \in SUBSET Opened'
  BY CountsAre DEF Fs!FsConstants
<1>2. IsFiniteSet(Opened') /\ b \in Nat
  BY <1>1, FS_Subset, FS_CardinalityType
<1>3. a \in Nat /\ a <= b
  BY <1>1, <1>2, FS_Subset, FS_CardinalityType
<1>4. next \in Nat \ {0} /\ next <= a + 1
  BY DEF FsInv, Fresh
<1> HIDE DEF a, b
<1>5. next <= b + 1
  BY <1>2, <1>3, <1>4
<1> QED
  BY <1>4, <1>5 DEF b

LEMMA Killed ==
  ASSUME FsTypes, NEW ws \in SUBSET Writers, Fs!Kill(ws)
  PROVE  /\ wr' \in [Writers -> Upload]
         /\ \A w \in Writers : wr'[w] = wr[w] \/ (Fs!Running(w) /\ wr'[w].at = "killed" /\ wr'[w].fd = Fs!None)
         /\ \A w \in ws : Fs!Running(w) => wr'[w].at = "killed"
<1>1. ASSUME NEW w \in Writers, Fs!Running(w)
      PROVE  /\ [wr[w] EXCEPT !.at = "killed", !.fd = Fs!None, !.flock = FALSE] \in Upload
             /\ [wr[w] EXCEPT !.at = "killed", !.fd = Fs!None, !.flock = FALSE].at = "killed"
             /\ [wr[w] EXCEPT !.at = "killed", !.fd = Fs!None, !.flock = FALSE].fd = Fs!None
  <2>1. wr[w] \in Upload /\ wr[w].at \in {"open", "flock", "dirsync"} \cup Holding
    BY <1>1, UploadIs DEF FsTypes, Fs!Running, Outcomes
  <2>2. wr[w] \in ActiveUpload({wr[w].at}, {wr[w].fd}, {wr[w].flock})
    BY <2>1, UploadIs DEF ActiveUpload
  <2> QED
    BY <2>2 DEF ActiveUpload, Upload, Outcomes
<1> QED
  BY <1>1 DEF Fs!Kill, FsTypes

LEMMA FsStep == ASSUME Fs!FsConstants, OneNode, FsInv, [Fs!Next]_(Fs!vars) PROVE FsInv'
<1> USE DEF Fs!fileVars
<1>1. ASSUME NEW w \in Writers, Fs!Hold(w) PROVE FsInv'
  <2> USE <1>1 DEF Fs!Hold, Fs!Free
  <2>1. CASE locks = {}
    <3>1. PICK p \in Procs, v \in Versions, off \in 0..Size :
            /\ locks' = locks \cup {p}
            /\ wr' = [wr EXCEPT ![w] = [at |-> "open", proc |-> p, from |-> v, offset |-> off,
                                        fd |-> Fs!None, flock |-> FALSE, digest |-> <<>>]]
      BY <2>1
    <3> DEFINE r == [at |-> "open", proc |-> p, from |-> v, offset |-> off,
                     fd |-> Fs!None, flock |-> FALSE, digest |-> <<>>]
    <3>2. r \in Upload /\ r.at = "open" /\ r.proc = p /\ r.fd = Fs!None
      <4>1. <<>> \in Contents
        BY InodesAreNumbers DEF Contents
      <4> QED
        BY <4>1 DEF Upload, ActiveUpload
    <3>3. wr' = [wr EXCEPT ![w] = r]
      BY <3>1
    <3> HIDE DEF r
    <3>4. wr' \in [Writers -> Upload] /\ wr'[w] = r /\ \A u \in Writers : u # w => wr'[u] = wr[u]
      BY <3>2, <3>3 DEF FsInv, FsTypes
    <3>5. \A u \in Writers : ~Fs!Running(u)
      BY <2>1 DEF FsInv, Alone
    <3>6. Alone' /\ FsTypes'
      BY <3>1, <3>2, <3>4, <3>5 DEF FsInv, FsTypes, Alone, Fs!Running
    <3>7. \A u \in Writers : wr'[u].at \notin {"flock", "dirsync"} \cup Holding
      BY <3>2, <3>4, <3>5 DEF Fs!Running, Holding
    <3>8. Opened' = Opened
      BY <3>2, <3>4 DEF Opened
    <3>9. Fresh'
      BY <3>2, <3>4, <3>8 DEF FsInv, Fresh, Fs!None
    <3>10. Apart' /\ Digests' /\ Files'
      BY <3>7 DEF FsInv, Apart, Digests, Holding, Files, GoodFile
    <3> QED
      BY <3>6, <3>9, <3>10 DEF FsInv
  <2>2. CASE locks # {}
    <3>1. wr' = [wr EXCEPT ![w].at = "failed"] /\ UNCHANGED locks
      BY <2>2 DEF OneNode, FsInv, FsTypes
    <3> DEFINE r == [wr[w] EXCEPT !.at = "failed"]
    <3>2. wr[w] \in Upload /\ wr[w] \in NoUpload
      BY DEF FsInv, FsTypes, Upload, NoUpload, ActiveUpload, Outcomes, Holding
    <3>3. r \in Upload /\ r.at = "failed" /\ r.fd = Fs!None
      BY <3>2 DEF NoUpload, Upload, Outcomes
    <3>4. wr' = [wr EXCEPT ![w] = r]
      BY <3>1
    <3> HIDE DEF r
    <3>5. wr' \in [Writers -> Upload] /\ wr'[w] = r /\ \A u \in Writers : u # w => wr'[u] = wr[u]
      BY <3>3, <3>4 DEF FsInv, FsTypes
    <3>6. FsTypes' /\ Alone'
      BY <3>1, <3>3, <3>5 DEF FsInv, FsTypes, Alone, Fs!Running
    <3>7. Opened \subseteq Opened' /\ Opened' \subseteq Writers
      BY <3>3, <3>5 DEF Opened
    <3>8. Fresh'
      BY <3>3, <3>5, <3>7, Grown DEF FsInv, Fresh, Fs!None
    <3>9. Apart' /\ Digests' /\ Files'
      BY <3>3, <3>5 DEF FsInv, Apart, Digests, Fs!HashFits, Holding, Files, GoodFile
    <3> QED
      BY <3>6, <3>8, <3>9 DEF FsInv
  <2> QED
    BY <2>1, <2>2
<1>2. ASSUME NEW w \in Writers, Fs!OpenPartial(w) PROVE FsInv'
  <2> USE <1>2 DEF Fs!OpenPartial
  <2> DEFINE fd == IF dir["partial"] = Fs!None THEN next ELSE dir["partial"]
  <2> DEFINE r == [wr[w] EXCEPT !.at = "flock", !.fd = fd]
  <2>1. Fs!Running(w) /\ wr[w] \in ActiveUpload({"open"}, {Fs!None}, {FALSE}) /\ w \notin Opened
    BY UploadIs DEF FsInv, FsTypes, Fs!Running, Opened
  <2>2. /\ next \in Nat \ {0} /\ next <= Cardinality(Opened) + 1
        /\ Cardinality(Opened) < Cardinality(Writers) /\ Cardinality(Opened) \in Nat
    BY <2>1, Counting DEF FsInv, Fresh
  <2>3. next \in Fs!Inodes /\ next # Fs!None
    BY <2>2, InodesAreNumbers DEF Fs!None
  <2>4. fd \in Fs!Inodes /\ fd # Fs!None
    BY <2>3 DEF FsInv, FsTypes, Fs!Names
  <2>5. /\ dir' = IF dir["partial"] = Fs!None THEN [dir EXCEPT !["partial"] = fd] ELSE dir
        /\ next' = IF dir["partial"] = Fs!None THEN next + 1 ELSE next
        /\ wr' = [wr EXCEPT ![w] = r]
    OBVIOUS
  <2>6. fd \notin {dir["file"], disk["file"]}
    BY <2>4 DEF FsInv, Apart, Fresh, Fs!Names
  <2> HIDE DEF fd
  <2>7. r \in Upload /\ r.proc = wr[w].proc /\ r.at = "flock" /\ r.fd = fd
    BY <2>1, <2>4 DEF ActiveUpload, Upload
  <2> HIDE DEF r
  <2>8. /\ wr' \in [Writers -> Upload] /\ wr'[w] = r /\ Alone'
        /\ \A u \in Writers : u # w => wr'[u] = wr[u] /\ ~Fs!Running(u)
    BY <2>1, <2>5, <2>7, Moved
  <2>9. dir' \in [Fs!Names -> Fs!Inodes \cup {Fs!None}] /\ dir'["file"] = dir["file"] /\ dir'["partial"] = fd
    BY <2>4, <2>5 DEF FsInv, FsTypes, Fs!Names, fd
  <2>10. FsTypes'
    BY <2>8, <2>9 DEF FsInv, FsTypes
  <2>11. Opened' = Opened \cup {w}
    BY <2>7, <2>8, <2>1 DEF Opened
  <2>12. Cardinality(Opened') = Cardinality(Opened) + 1
    BY <2>1, <2>11, Counting DEF FsInv
  <2>13. next' \in Nat \ {0} /\ next' <= Cardinality(Opened') + 1
    <3> DEFINE a == Cardinality(Opened) b == Cardinality(Opened') m == next'
    <3>1. a \in Nat /\ b = a + 1 /\ next \in Nat \ {0} /\ next <= a + 1 /\ (m = next \/ m = next + 1)
      BY <2>2, <2>5, <2>12
    <3> HIDE DEF a, b, m
    <3>2. m \in Nat \ {0} /\ m <= b + 1
      BY <3>1
    <3> QED
      BY <3>2 DEF b, m
  <2>14. next <= next' /\ fd < next' /\ next' \in Nat
    BY <2>2, <2>4, <2>5 DEF FsInv, Fresh, Fs!Names, fd
  <2>15. Fresh'
    <3>1. \A n \in Fs!Names : dir[n] \in Nat /\ disk[n] \in Nat /\ dir[n] < next /\ disk[n] < next
      BY InodesAreNumbers DEF FsInv, Fresh, FsTypes, Fs!None
    <3>2. \A n \in Fs!Names : dir'[n] < next' /\ disk[n] < next'
      BY <2>2, <2>9, <2>14, <3>1 DEF Fs!Names
    <3>3. \A u \in Writers : wr[u].fd \in Nat /\ wr[u].fd < next
      <4>1. ASSUME NEW u \in Writers PROVE wr[u].fd \in Fs!Inodes \cup {Fs!None}
        BY DEF FsInv, FsTypes, Upload, NoUpload, ActiveUpload
      <4> QED
        BY <4>1, InodesAreNumbers DEF FsInv, Fresh, Fs!None
    <3>4. \A u \in Writers : wr'[u].fd < next'
      BY <2>2, <2>7, <2>8, <2>14, <3>3
    <3> QED
      BY <2>13, <3>2, <3>4 DEF Fresh
  <2>16. \A u \in Writers : wr'[u].at \in {"flock", "dirsync"} \cup Holding => u = w
    BY <2>8 DEF Fs!Running, Holding
  <2>17. Apart'
    BY <2>6, <2>7, <2>8, <2>9, <2>16 DEF FsInv, Apart, Holding
  <2>18. Digests' /\ Files'
    BY <2>7, <2>8, <2>9, <2>16 DEF FsInv, Digests, Holding, Files, GoodFile
  <2> QED
    BY <2>8, <2>10, <2>15, <2>17, <2>18 DEF FsInv
<1>3. ASSUME NEW w \in Writers, Fs!LockPartial(w) PROVE FsInv'
  <2> USE <1>3 DEF Fs!LockPartial
  <2>1. Fs!Running(w) /\ wr[w] \in ActiveUpload({"flock"}, Fs!Inodes, {FALSE})
    BY UploadIs DEF FsInv, FsTypes, Fs!Running
  <2>2. CASE Fs!Return(w, "failed")
    BY <2>1, <2>2, QuietStep DEF FsInv, FsTypes
  <2>3. CASE wr' = [wr EXCEPT ![w].at = "check", ![w].flock = TRUE] /\ UNCHANGED locks
    <3> DEFINE r == [wr[w] EXCEPT !.at = "check", !.flock = TRUE]
    <3>1. r \in Upload /\ r.at = "check" /\ r.fd = wr[w].fd /\ r.proc = wr[w].proc
      BY <2>1 DEF ActiveUpload, Upload, Holding
    <3>2. wr' = [wr EXCEPT ![w] = r]
      BY <2>3
    <3> HIDE DEF r
    <3>3. wr'[w] = r
      BY <3>2 DEF FsInv, FsTypes
    <3>4. DigestOf(w)'
      BY <3>1, <3>3 DEF DigestOf
    <3> QED
      BY <2>3, <3>1, <3>2, <3>4, WorkStep DEF FsInv, FsTypes, Holding
  <2> QED
    BY <2>2, <2>3
<1>4. ASSUME NEW w \in Writers, Fs!CheckOffset(w) PROVE FsInv'
  <2> USE <1>4 DEF Fs!CheckOffset
  <2> DEFINE fd == wr[w].fd off == wr[w].offset
  <2>1. Fs!Running(w) /\ wr[w] \in ActiveUpload(Holding, Fs!Inodes, {TRUE}) /\ fd \in Fs!Inodes /\ wr[w].at \in Holding
    BY UploadIs DEF FsInv, FsTypes, Fs!Running, Holding, ActiveUpload
  <2>2. fd \notin {dir["file"], disk["file"]}
    BY <2>1 DEF FsInv, Apart
  <2>3. /\ data' \in [Fs!Inodes -> Contents] /\ synced' \in [Fs!Inodes -> 0..Size]
        /\ \A i \in Fs!Inodes : synced'[i] <= Len(data'[i])
        /\ \A i \in Fs!Inodes : i # fd => data'[i] = data[i] /\ synced'[i] = synced[i]
    <3>1. CASE off = 0
      <4>1. <<>> \in Contents /\ 0 \in 0..Size /\ 0 <= Len(<<>>)
        BY InodesAreNumbers DEF Contents
      <4>2. data' = [data EXCEPT ![fd] = <<>>] /\ synced' = [synced EXCEPT ![fd] = 0]
        BY <3>1
      <4> QED
        BY <2>1, <4>1, <4>2 DEF FsInv, FsTypes
    <3>2. CASE off # 0
      BY <3>2 DEF FsInv, FsTypes
    <3> QED
      BY <3>1, <3>2
  <2>4. UNCHANGED <<dir, disk, next, del, acked, losses>>
    OBVIOUS
  <2>5. CASE Fs!Return(w, "failed")
    <3>1. \A i \in {dir["file"], disk["file"]} \ {Fs!None} : data'[i] = data[i] /\ synced'[i] = synced[i]
      BY <2>2, <2>3 DEF FsInv, FsTypes, Fs!Names
    <3> HIDE DEF Fs!CheckOffset
    <3> QED
      BY <2>1, <2>3, <2>4, <2>5, <3>1, QuietStep
  <2>6. ASSUME NEW dg \in Contents, dg = data'[fd], UNCHANGED locks,
               wr' = [wr EXCEPT ![w].at = "recv", ![w].digest = dg]
        PROVE  FsInv'
    <3> DEFINE r == [wr[w] EXCEPT !.at = "recv", !.digest = dg]
    <3>1. r \in Upload /\ r.at = "recv" /\ r.fd = fd /\ r.proc = wr[w].proc /\ r.digest = dg
      BY <2>1 DEF ActiveUpload, Upload, Holding
    <3>2. wr' = [wr EXCEPT ![w] = r]
      BY <2>6
    <3> HIDE DEF r
    <3>3. wr'[w] = r
      BY <3>2 DEF FsInv, FsTypes
    <3>4. DigestOf(w)'
      BY <2>6, <3>1, <3>3 DEF DigestOf
    <3> HIDE DEF Fs!CheckOffset
    <3> QED
      BY <2>1, <2>3, <2>4, <2>6, <3>1, <3>2, <3>4, WorkStep DEF Holding
  <2>7. \/ Fs!Return(w, "failed")
        \/ \E dg \in Contents : /\ dg = data'[fd] /\ UNCHANGED locks
                                /\ wr' = [wr EXCEPT ![w].at = "recv", ![w].digest = dg]
    <3>1. CASE off = 0
      <4>1. data'[fd] = <<>> /\ <<>> \in Contents
        BY <2>1, <3>1, InodesAreNumbers DEF FsInv, FsTypes, Contents
      <4> QED
        BY <3>1, <4>1
    <3>2. CASE off # 0
      <4>1. data' = data /\ data[fd] \in Contents
        BY <2>1, <3>2 DEF FsInv, FsTypes
      <4>2. off = Len(data[fd]) => SubSeq(data[fd], 1, off) = data[fd]
        BY <4>1 DEF Contents
      <4> QED
        BY <3>2, <4>1, <4>2 DEF Fs!OffsetFits
    <3> QED
      BY <3>1, <3>2
  <2> HIDE DEF Fs!CheckOffset
  <2> QED
    BY <2>5, <2>6, <2>7
<1>5. ASSUME NEW w \in Writers, Fs!Receive(w) PROVE FsInv'
  <2> USE <1>5 DEF Fs!Receive
  <2> DEFINE fd == wr[w].fd v == wr[w].from dg == Append(wr[w].digest, v)
  <2>1. wr[w] \in ActiveUpload(Holding, Fs!Inodes, {TRUE}) /\ wr[w].at \in Holding
    BY UploadIs DEF FsInv, FsTypes, Holding
  <2>2. fd \in Fs!Inodes /\ v \in Versions /\ wr[w].digest \in Contents /\ wr[w].digest = data[fd]
    BY <2>1 DEF ActiveUpload, FsInv, Digests, Holding
  <2>3. dg \in Contents /\ Len(dg) = Len(wr[w].digest) + 1
    BY <2>2, InodesAreNumbers DEF Contents
  <2>4. data' = [data EXCEPT ![fd] = dg]
    BY <2>2
  <2> DEFINE r == [wr[w] EXCEPT !.digest = dg]
  <2>5. wr' = [wr EXCEPT ![w] = r]
    OBVIOUS
  <2> HIDE DEF dg
  <2>6. r \in Upload /\ r.at = "recv" /\ r.fd = fd /\ r.proc = wr[w].proc /\ r.digest = dg
    BY <2>1, <2>3 DEF ActiveUpload, Upload
  <2> HIDE DEF r
  <2>7. /\ data' \in [Fs!Inodes -> Contents]
        /\ \A i \in Fs!Inodes : synced[i] <= Len(data'[i])
        /\ \A i \in Fs!Inodes : i # fd => data'[i] = data[i]
        /\ data'[fd] = dg
    BY <2>2, <2>3, <2>4 DEF FsInv, FsTypes, Contents
  <2>8. DigestOf(w)'
    <3>1. wr'[w] = r
      BY <2>5 DEF FsInv, FsTypes
    <3> QED
      BY <2>6, <2>7, <3>1 DEF DigestOf
  <2> QED
    BY <2>1, <2>5, <2>6, <2>7, <2>8, WorkStep DEF FsInv, FsTypes, Holding
<1>6. ASSUME NEW w \in Writers, Fs!Interrupt(w) PROVE FsInv'
  <2> USE <1>6 DEF Fs!Interrupt
  <2>1. Fs!Running(w)
    BY DEF Fs!Running
  <2> QED
    BY <2>1, QuietStep DEF FsInv, FsTypes
<1>7. ASSUME NEW w \in Writers, Fs!WrongSize(w) PROVE FsInv'
  <2> USE <1>7 DEF Fs!WrongSize
  <2>1. Fs!Running(w)
    BY DEF Fs!Running
  <2> QED
    BY <2>1, QuietStep DEF FsInv, FsTypes
<1>8. ASSUME NEW w \in Writers, Fs!Ended(w) PROVE FsInv'
  <2> USE <1>8 DEF Fs!Ended, Fs!Goto, Fs!Complete
  <2>1. wr[w] \in ActiveUpload(Holding, Fs!Inodes, {TRUE}) /\ wr[w].at \in Holding /\ wr[w].fd \in Fs!Inodes
    BY UploadIs DEF FsInv, FsTypes, Holding, ActiveUpload
  <2> DEFINE r == [wr[w] EXCEPT !.at = "sync"]
  <2>2. wr[w] \in Upload /\ r \in Upload /\ r.at = "sync" /\ r.fd = wr[w].fd /\ r.proc = wr[w].proc
        /\ r.digest = wr[w].digest /\ r.from = wr[w].from
    BY <2>1 DEF ActiveUpload, Upload, Holding
  <2>3. wr' = [wr EXCEPT ![w] = r] /\ UNCHANGED locks
    OBVIOUS
  <2> HIDE DEF r
  <2>4. wr'[w] = r
    BY <2>3 DEF FsInv, FsTypes
  <2>5. DigestOf(w)'
    BY <2>2, <2>4 DEF DigestOf, FsInv, Digests, Holding
  <2> QED
    BY <2>1, <2>2, <2>3, <2>5, WorkStep DEF FsInv, FsTypes, Holding
<1>9. ASSUME NEW w \in Writers, Fs!Sync(w) PROVE FsInv'
  <2> USE <1>9 DEF Fs!Sync, Fs!Goto, Fs!SyncedTo
  <2>1. wr[w] \in ActiveUpload(Holding, Fs!Inodes, {TRUE}) /\ wr[w].at \in Holding /\ wr[w].fd \in Fs!Inodes
    BY UploadIs DEF FsInv, FsTypes, Holding, ActiveUpload
  <2> DEFINE r == [wr[w] EXCEPT !.at = "verify"]
  <2>2. wr[w] \in Upload /\ r \in Upload /\ r.at = "verify" /\ r.fd = wr[w].fd /\ r.proc = wr[w].proc
        /\ r.digest = wr[w].digest /\ r.from = wr[w].from
    BY <2>1 DEF ActiveUpload, Upload, Holding
  <2>3. wr' = [wr EXCEPT ![w] = r] /\ UNCHANGED locks
    OBVIOUS
  <2> HIDE DEF r
  <2>4. wr'[w] = r
    BY <2>3 DEF FsInv, FsTypes
  <2>5. wr[w].digest = data[wr[w].fd] /\ Len(data[wr[w].fd]) = Size /\ data[wr[w].fd] \in Contents
    BY <2>1 DEF FsInv, Digests, FsTypes, Holding
  <2>6. /\ synced' \in [Fs!Inodes -> 0..Size]
        /\ \A i \in Fs!Inodes : synced'[i] <= Len(data[i])
        /\ \A i \in Fs!Inodes : i # wr[w].fd => synced'[i] = synced[i]
        /\ synced'[wr[w].fd] = Size
    BY <2>1, <2>5, InodesAreNumbers DEF FsInv, FsTypes
  <2>7. DigestOf(w)'
    BY <2>2, <2>4, <2>5, <2>6 DEF DigestOf
  <2> QED
    BY <2>1, <2>2, <2>3, <2>6, <2>7, WorkStep DEF FsInv, FsTypes, Holding
<1>10. ASSUME NEW w \in Writers, Fs!Verify(w) PROVE FsInv'
  <2> USE <1>10 DEF Fs!Verify
  <2>0. Fs!Running(w)
    BY DEF Fs!Running
  <2>9. CASE Fs!Unlink("partial") /\ Fs!Return(w, "failed")
    BY <2>0, <2>9, QuietStep DEF FsInv, FsTypes
  <2>8. CASE Fs!HashFits(w) /\ Fs!Goto(w, "rename") /\ UNCHANGED dir
    <3> USE <2>8 DEF Fs!Goto
    <3>1. wr[w] \in ActiveUpload(Holding, Fs!Inodes, {TRUE}) /\ wr[w].at \in Holding /\ wr[w].fd \in Fs!Inodes
      BY UploadIs DEF FsInv, FsTypes, Holding, ActiveUpload
    <3> DEFINE r == [wr[w] EXCEPT !.at = "rename"]
    <3>2. wr[w] \in Upload /\ r \in Upload /\ r.at = "rename" /\ r.fd = wr[w].fd /\ r.proc = wr[w].proc
          /\ r.digest = wr[w].digest /\ r.from = wr[w].from
      BY <3>1 DEF ActiveUpload, Upload, Holding
    <3>3. wr' = [wr EXCEPT ![w] = r] /\ UNCHANGED locks
      OBVIOUS
    <3> HIDE DEF r
    <3>4. wr'[w] = r
      BY <3>3 DEF FsInv, FsTypes
    <3>5. wr[w].digest = data[wr[w].fd] /\ Len(wr[w].digest) = Size /\ synced[wr[w].fd] = Size
      BY <3>1 DEF FsInv, Digests, FsTypes, Holding
    <3>6. Fs!HashFits(w)'
      BY <3>2, <3>4 DEF Fs!HashFits
    <3>7. DigestOf(w)'
      BY <3>2, <3>4, <3>5, <3>6 DEF DigestOf
    <3> QED
      BY <3>1, <3>2, <3>3, <3>7, WorkStep DEF FsInv, FsTypes, Holding
  <2> QED
    BY <2>8, <2>9
<1>11. ASSUME NEW w \in Writers, Fs!Rename(w) PROVE FsInv'
  <2> USE <1>11 DEF Fs!Rename
  <2>1. Fs!Running(w)
    BY DEF Fs!Running
  <2>2. CASE dir["partial"] = Fs!None
    BY <2>1, <2>2, QuietStep, SMTT(40) DEF FsInv, FsTypes
  <2>3. CASE dir["partial"] # Fs!None
    <3>1. wr[w] \in ActiveUpload(Holding, Fs!Inodes, {TRUE}) /\ wr[w].at \in Holding /\ wr[w].fd \in Fs!Inodes
      BY UploadIs DEF FsInv, FsTypes, Holding, ActiveUpload
    <3> DEFINE r == [wr[w] EXCEPT !.at = "dirsync"]
    <3>2. wr[w] \in Upload /\ r \in Upload /\ r.at = "dirsync" /\ r.fd = wr[w].fd /\ r.proc = wr[w].proc
          /\ r.digest = wr[w].digest /\ r.from = wr[w].from
      BY <3>1 DEF ActiveUpload, Upload, Holding
    <3>3. wr' = [wr EXCEPT ![w] = r] /\ UNCHANGED locks
      BY <2>3 DEF Fs!Goto
    <3> HIDE DEF r
    <3>4. /\ wr' \in [Writers -> Upload] /\ wr'[w] = r /\ Alone'
          /\ \A u \in Writers : u # w => wr'[u] = wr[u] /\ ~Fs!Running(u)
      BY <2>1, <3>2, <3>3, Moved
    <3>5. dir["partial"] = wr[w].fd /\ wr[w].fd \notin {dir["file"], disk["file"]}
      BY <2>3, <3>1 DEF FsInv, Apart
    <3>6. /\ dir' \in [Fs!Names -> Fs!Inodes \cup {Fs!None}]
          /\ dir'["file"] = wr[w].fd /\ dir'["partial"] = Fs!None
      BY <2>3, <3>1, <3>5 DEF Fs!Names
    <3>7. FsTypes'
      BY <3>3, <3>4, <3>6 DEF FsInv, FsTypes
    <3>8. Opened' = Opened
      BY <3>2, <3>4 DEF Opened
    <3>9. Fresh'
      BY <3>2, <3>4, <3>5, <3>6, <3>8 DEF FsInv, Fresh, Fs!Names, Fs!None
    <3>10. \A u \in Writers : wr'[u].at \in {"flock", "dirsync"} \cup Holding => u = w
      BY <3>4 DEF Fs!Running, Holding
    <3>11. Apart' /\ Digests'
      BY <3>2, <3>4, <3>5, <3>6, <3>10 DEF FsInv, Apart, Digests, Holding
    <3>12. GoodFile(wr[w].fd)
      <4>1. wr[w].digest = data[wr[w].fd] /\ Len(wr[w].digest) = Size /\ synced[wr[w].fd] = Size
        BY DEF FsInv, Digests, Holding
      <4>2. Hashed => wr[w].digest = Fs!Whole(wr[w].from) /\ wr[w].from \in Versions
        BY <3>1 DEF FsInv, Digests, Fs!HashFits, ActiveUpload
      <4> QED
        BY <4>1, <4>2 DEF GoodFile
    <3>13. wr[w].fd # Fs!None
      BY <3>1, InodesAreNumbers DEF Fs!None
    <3>14. Files'
      BY <3>6, <3>12, <3>13 DEF FsInv, Files, GoodFile
    <3> QED
      BY <3>4, <3>7, <3>9, <3>11, <3>14 DEF FsInv
  <2> QED
    BY <2>2, <2>3
<1>12. ASSUME NEW w \in Writers, Fs!DirSync(w) PROVE FsInv'
  <2> USE <1>12 DEF Fs!DirSync, Fs!DirSynced
  <2>1. Fs!Running(w)
    BY DEF Fs!Running
  <2>2. /\ wr' \in [Writers -> Upload] /\ locks' \in SUBSET Procs /\ Alone'
        /\ wr'[w].at = "ok" /\ wr'[w].fd = Fs!None
        /\ \A u \in Writers : u # w => wr'[u] = wr[u] /\ ~Fs!Running(u)
    BY <2>1, Returned
  <2>3. \A u \in Writers : wr'[u].at \notin {"flock", "dirsync"} \cup Holding
    BY <2>2 DEF Fs!Running, Holding
  <2>4. FsTypes'
    BY <2>2 DEF FsInv, FsTypes
  <2>5. Opened \subseteq Opened' /\ Opened' \subseteq Writers
    BY <2>2 DEF Opened
  <2>6. Fresh'
    BY <2>2, <2>5, Grown DEF FsInv, Fresh, Fs!None
  <2>7. Apart' /\ Digests'
    BY <2>3 DEF FsInv, Apart, Digests, Holding
  <2>8. Files'
    BY DEF FsInv, Files, GoodFile
  <2> QED
    BY <2>2, <2>4, <2>6, <2>7, <2>8 DEF FsInv
<1>13. ASSUME NEW d \in Deleters, Fs!DeleteLook(d) PROVE FsInv'
  <2> USE <1>13 DEF Fs!DeleteLook
  <2>1. FsTypes'
    BY DEF FsInv, FsTypes, Delete, Fs!Names
  <2>2. Opened' = Opened
    BY DEF Opened
  <2>3. Alone' /\ Fresh' /\ Apart' /\ Digests' /\ Files'
    BY <2>2 DEF FsInv, Alone, Fs!Running, Fresh, Apart, Digests, Fs!HashFits, Files, GoodFile
  <2> QED
    BY <2>1, <2>3 DEF FsInv
<1>14. ASSUME NEW d \in Deleters, Fs!DeleteUnlink(d) PROVE FsInv'
  <2> USE <1>14 DEF Fs!DeleteUnlink, Fs!Unlink
  <2>1. del[d].name \in Fs!Names
    BY DEF FsInv, FsTypes, Delete
  <2>2. dir' \in [Fs!Names -> Fs!Inodes \cup {Fs!None}] /\ \A n \in Fs!Names : dir'[n] \in {dir[n], Fs!None}
    BY DEF FsInv, FsTypes
  <2>3. acked' \in BOOLEAN /\ (acked' = TRUE => acked = TRUE /\ dir'["file"] = dir["file"])
    BY <2>1 DEF FsInv, FsTypes, Fs!Names
  <2>4. del' \in [Deleters -> Delete]
    BY DEF FsInv, FsTypes, Delete
  <2>5. FsTypes'
    BY <2>2, <2>3, <2>4 DEF FsInv, FsTypes
  <2>6. Opened' = Opened
    BY DEF Opened
  <2>7. Fresh'
    BY <2>2, <2>6 DEF FsInv, Fresh, Fs!None
  <2>8. Apart'
    <3>1. dir'["partial"] \in {dir["partial"], Fs!None} /\ dir'["file"] \in {dir["file"], Fs!None}
      BY <2>2 DEF Fs!Names
    <3>2. \A i : i # Fs!None /\ i \notin {dir["file"], disk["file"]} => i \notin {dir'["file"], disk["file"]}
      BY <3>1
    <3>3. ASSUME NEW w \in Writers, wr[w].at \in {"flock"} \cup Holding
          PROVE  dir'["partial"] \in {Fs!None, wr[w].fd} /\ wr[w].fd \notin {dir'["file"], disk["file"]}
      <4>1. wr[w].fd \in Fs!Inodes
        BY <3>3, UploadIs DEF FsInv, FsTypes, ActiveUpload
      <4>2. wr[w].fd # Fs!None
        BY <4>1, InodesAreNumbers DEF Fs!None
      <4> QED
        BY <3>1, <3>2, <3>3, <4>2 DEF FsInv, Apart
    <3> QED
      BY <3>1, <3>2, <3>3 DEF FsInv, Apart
  <2>9. Alone' /\ Digests'
    BY DEF FsInv, Alone, Fs!Running, Digests, Fs!HashFits
  <2>10. Files'
    BY <2>2, <2>3 DEF FsInv, Files, GoodFile, Fs!Names
  <2> QED
    BY <2>5, <2>7, <2>8, <2>9, <2>10 DEF FsInv
<1>15. ASSUME NEW p \in Procs, Fs!ProcExit(p) PROVE FsInv'
  <2> USE <1>15 DEF Fs!ProcExit
  <2> DEFINE ws == {w \in Writers : Fs!Running(w) /\ wr[w].proc = p}
  <2>1. wr' \in [Writers -> Upload] /\ \A w \in Writers :
          wr'[w] = wr[w] \/ (Fs!Running(w) /\ wr'[w].at = "killed" /\ wr'[w].fd = Fs!None)
    BY Killed DEF FsInv
  <2>2. \A w \in Writers : ~Fs!Running(w)'
    <3>1. \A w \in Writers : Fs!Running(w) => w \in ws
      BY DEF OneNode, FsInv, FsTypes, Alone
    <3> QED
      BY <3>1, Killed DEF FsInv, Fs!Running
  <2>3. FsTypes' /\ Alone'
    BY <2>1, <2>2 DEF FsInv, FsTypes, Alone
  <2>4. Opened \subseteq Opened' /\ Opened' \subseteq Writers
    BY <2>1 DEF Opened
  <2>5. Fresh'
    BY <2>1, <2>4, Grown DEF FsInv, Fresh, Fs!None
  <2>6. Apart' /\ Digests' /\ Files'
    BY <2>2 DEF FsInv, Apart, Digests, Holding, Fs!Running, Files, GoodFile
  <2> QED
    BY <2>3, <2>5, <2>6 DEF FsInv
<1>16. CASE Fs!PowerLoss
  <2> USE <1>16 DEF Fs!PowerLoss
  <2>1. wr' \in [Writers -> Upload] /\ \A w \in Writers :
          wr'[w] = wr[w] \/ (Fs!Running(w) /\ wr'[w].at = "killed" /\ wr'[w].fd = Fs!None)
    BY Killed DEF FsInv
  <2>2. \A w \in Writers : ~Fs!Running(w)'
    BY Killed DEF FsInv, Fs!Running
  <2>3. PICK kept \in [Fs!Inodes -> 0..Size] :
          /\ \A i \in Fs!Inodes : kept[i] \in synced[i]..Len(data[i])
          /\ data' = [i \in Fs!Inodes |-> SubSeq(data[i], 1, kept[i])]
          /\ synced' = kept
    OBVIOUS
  <2>4. ASSUME NEW i \in Fs!Inodes
        PROVE  /\ data'[i] \in Contents /\ synced'[i] \in 0..Size /\ synced'[i] <= Len(data'[i])
               /\ GoodFile(i) => data'[i] = data[i] /\ synced'[i] = synced[i]
    <3>1. data[i] \in Seq(Versions) /\ Len(data[i]) <= Size /\ kept[i] \in Nat
          /\ kept[i] <= Len(data[i]) /\ kept[i] >= synced[i] /\ synced[i] \in Nat
      BY <2>3, InodesAreNumbers DEF FsInv, FsTypes, Contents
    <3>2. SubSeq(data[i], 1, kept[i]) \in Seq(Versions) /\ Len(SubSeq(data[i], 1, kept[i])) = kept[i]
      BY <3>1
    <3>3. kept[i] = Len(data[i]) => SubSeq(data[i], 1, kept[i]) = data[i]
      BY <3>1
    <3> QED
      BY <2>3, <3>1, <3>2, <3>3, InodesAreNumbers DEF Contents, GoodFile
  <2>5. dir' \in {dir, disk} /\ disk' = dir' /\ losses' \in 0..MaxLosses /\ locks' = {} /\ UNCHANGED <<next, acked>>
    BY DEF FsInv, FsTypes, Fs!FsConstants
  <2>6. del' \in [Deleters -> Delete]
    BY DEF FsInv, FsTypes, Delete
  <2>7. FsTypes'
    <3>1. data' \in [Fs!Inodes -> Contents] /\ synced' \in [Fs!Inodes -> 0..Size]
      BY <2>3, <2>4
    <3> QED
      BY <2>1, <2>4, <2>5, <2>6, <3>1 DEF FsInv, FsTypes
  <2>8. Alone'
    BY <2>2 DEF Alone
  <2>9. Opened \subseteq Opened' /\ Opened' \subseteq Writers
    BY <2>1 DEF Opened
  <2>10. Fresh'
    <3>1. \A n \in Fs!Names : dir'[n] < next /\ disk'[n] < next
      BY <2>5 DEF FsInv, Fresh
    <3>2. ASSUME NEW w \in Writers PROVE wr'[w].fd < next
      <4>1. wr'[w].fd = wr[w].fd \/ wr'[w].fd = Fs!None
        BY <2>1
      <4>2. wr[w].fd < next /\ Fs!None < next
        BY DEF FsInv, Fresh, Fs!None
      <4> QED
        BY <4>1, <4>2
    <3>3. next' \in Nat \ {0} /\ next' <= Cardinality(Opened') + 1
      BY <2>5, <2>9, Grown DEF FsInv
    <3> QED
      BY <2>5, <3>1, <3>2, <3>3 DEF Fresh
  <2>11. Apart' /\ Digests'
    BY <2>2, <2>5 DEF FsInv, Apart, Digests, Holding, Fs!Running
  <2>12. Files'
    <3>2. \A n \in Fs!Names : dir[n] # Fs!None => dir[n] \in Fs!Inodes
      BY DEF FsInv, FsTypes
    <3>3. \A n \in Fs!Names : disk[n] # Fs!None => disk[n] \in Fs!Inodes
      BY DEF FsInv, FsTypes
    <3> DEFINE GoodNext(i) == /\ Len(data'[i]) = Size /\ synced'[i] = Size
                              /\ Hashed => \E v \in Versions : data'[i] = Fs!Whole(v)
    <3>4. dir["file"] # Fs!None => GoodNext(dir["file"])
      BY <3>2, <2>4 DEF FsInv, Files, GoodFile, Fs!Names
    <3>5. disk["file"] # Fs!None => GoodNext(disk["file"])
      BY <3>3, <2>4 DEF FsInv, Files, GoodFile, Fs!Names
    <3>6. CASE dir' = dir
      BY <2>5, <3>4, <3>6 DEF FsInv, Files, GoodFile, Fs!Whole
    <3>7. CASE dir' = disk
      BY <2>5, <3>5, <3>7 DEF FsInv, Files, GoodFile, Fs!Whole
    <3> QED
      BY <2>5, <3>6, <3>7
  <2> QED
    BY <2>7, <2>8, <2>10, <2>11, <2>12 DEF FsInv
<1>17. CASE UNCHANGED Fs!vars
  <2>1. Opened' = Opened
    BY <1>17 DEF Fs!vars, Opened
  <2> QED
    BY <1>17, <2>1 DEF Fs!vars, FsInv, FsTypes, Alone, Fs!Running, Fresh, Apart, Digests, Fs!HashFits, Files, GoodFile
<1> QED
  BY <1>1, <1>2, <1>3, <1>4, <1>5, <1>6, <1>7, <1>8, <1>9, <1>10, <1>11, <1>12, <1>13, <1>14,
     <1>15, <1>16, <1>17
  DEF Fs!Next, Fs!Write
-----------------------------------------------------------------------------
(* One node process at a time: what the file's name leads to is the whole, *)
(* verified upload of one version, and an acknowledged one survives a loss *)
(* of power, however uploads, deletes and losses interleave (fs_write,     *)
(* fs_delete).                                                             *)
THEOREM FsInvariant == ASSUME Fs!FsConstants, OneNode PROVE Fs!Spec => []FsInv
<1>1. Fs!Init => FsInv
  BY FsInit
<1>2. FsInv /\ [Fs!Next]_(Fs!vars) => FsInv'
  BY FsStep
<1> QED
  BY <1>1, <1>2, PTL DEF Fs!Spec

\* The invariant is at least what the runs check of the file.
LEMMA FsInvSafe == ASSUME Fs!FsConstants, FsInv PROVE Fs!TypeOK /\ Fs!FileIsVerified /\ Fs!AckedSurvives
<1>1. ASSUME NEW s \in Contents PROVE \E n \in 0..Size : s \in [1..n -> Versions]
  <2>1. s \in [1..Len(s) -> Versions] /\ Len(s) \in 0..Size
    BY <1>1, InodesAreNumbers DEF Contents
  <2> QED
    BY <2>1
<1>2. \A i \in Fs!Inodes : synced[i] \in 0..Len(data[i])
  BY InodesAreNumbers DEF FsInv, FsTypes, Contents
<1>3. data \in [Fs!Inodes -> UNION {[1..n -> Versions] : n \in 0..Size}]
  BY <1>1 DEF FsInv, FsTypes
<1>4. next \in 1..(Cardinality(Writers) + 1)
  <2>1. IsFiniteSet(Writers) /\ Opened \in SUBSET Writers
    BY CountsAre DEF Fs!FsConstants, Opened
  <2>2. Cardinality(Opened) \in Nat /\ Cardinality(Writers) \in Nat /\ Cardinality(Opened) <= Cardinality(Writers)
    BY <2>1, FS_Subset, FS_CardinalityType
  <2>3. next \in Nat \ {0} /\ next <= Cardinality(Opened) + 1
    BY DEF FsInv, Fresh
  <2> QED
    BY <2>2, <2>3
<1>5. Fs!TypeOK
  BY <1>2, <1>3, <1>4, CountsAre DEF Fs!TypeOK, FsInv, FsTypes
<1> QED
  BY <1>5 DEF FsInv, Files, GoodFile, Fs!FileIsVerified, Fs!AckedSurvives

THEOREM FilesAreVerified ==
  ASSUME Fs!FsConstants, OneNode
  PROVE  Fs!Spec => [](Fs!TypeOK /\ Fs!FileIsVerified /\ Fs!AckedSurvives)
BY FsInvariant, FsInvSafe, PTL

(* fs_write and fs_delete of fsops.rs: a name that is there leads to a     *)
(* whole, verified file, and a file reported as written survives a loss of *)
(* power.                                                                  *)
THEOREM SuiteFilesSafe == SuiteSpec => []FilesAreSafe
<1> DEFINE Kept == part = "fs" => FsInv
<1>1. SuiteInit => Kept
  BY SuiteAssumption, FsInit DEF SuiteInit
<1>2. Kept /\ [SuiteNext]_suiteVars => Kept'
  <2> SUFFICES ASSUME Kept, [SuiteNext]_suiteVars, part' = "fs" PROVE FsInv'
    OBVIOUS
  <2>1. CASE SuiteNext
    <3>1. part = "fs" /\ Fs!Next
      BY <2>1 DEF SuiteNext
    <3> QED
      BY <3>1, SuiteAssumption, FsStep
  <2>2. CASE UNCHANGED suiteVars
    <3>1. part = "fs" /\ UNCHANGED Fs!vars
      BY <2>2 DEF suiteVars, fsVars, Fs!vars, Fs!fileVars
    <3> QED
      BY <3>1, SuiteAssumption, FsStep
  <2> QED
    BY <2>1, <2>2
<1>3. Kept => FilesAreSafe
  BY SuiteAssumption, FsInvSafe DEF FilesAreSafe
<1> QED
  BY <1>1, <1>2, <1>3, PTL DEF SuiteSpec
-----------------------------------------------------------------------------
(* The file operations implement a file that changes as a whole.           *)

\* A file that is whole and verified is one that may be published.
LEMMA GoodFiles ==
  ASSUME Fs!FsConstants, FsTypes, NEW i \in Fs!Inodes, GoodFile(i)
  PROVE  data[i] \in Fs!Verified /\ data[i] # <<>>
<1>1. data[i] \in Seq(Versions) /\ Len(data[i]) = Size
  BY DEF FsTypes, Contents, GoodFile
<1>2. data[i] \in [1..Size -> Versions] /\ data[i] # <<>>
  BY <1>1, InodesAreNumbers
<1> QED
  BY <1>2 DEF GoodFile, Fs!Verified

\* What a reader gets now, and after the worst loss of power.
LEMMA ReadingIs ==
  ASSUME Fs!FsConstants, FsInv
  PROVE  /\ Fs!Reading(dir) = IF dir["file"] = Fs!None THEN <<>> ELSE data[dir["file"]]
         /\ Fs!Reading(disk) = IF disk["file"] = Fs!None THEN <<>> ELSE data[disk["file"]]
         /\ dir["file"] # Fs!None => Fs!Reading(dir) \in Fs!Verified /\ Fs!Reading(dir) # <<>>
         /\ dir["file"] \in Fs!Inodes \cup {Fs!None} /\ disk["file"] \in Fs!Inodes \cup {Fs!None}
<1>1. dir["file"] \in Fs!Inodes \cup {Fs!None} /\ disk["file"] \in Fs!Inodes \cup {Fs!None}
  BY DEF FsInv, FsTypes, Fs!Names
<1> QED
  BY <1>1, GoodFiles DEF FsInv, Files, Fs!Reading

LEMMA FileInit == ASSUME Fs!Init PROVE File!AtomicInit
BY DEF Fs!Init, Fs!Reading, Fs!Names, File!AtomicInit

LEMMA FileStep ==
  ASSUME Fs!FsConstants, OneNode, FsInv, FsInv', [Fs!Next]_(Fs!vars)
  PROVE  [File!AtomicNext]_(File!avars)
<1> USE DEF Fs!fileVars
<1>1. ASSUME dir'["file"] = dir["file"], disk'["file"] = disk["file"], acked' = acked,
             \A i \in {dir["file"], disk["file"]} \ {Fs!None} : data'[i] = data[i]
      PROVE  UNCHANGED File!avars
  <2>1. Fs!Reading(dir)' = Fs!Reading(dir) /\ Fs!Reading(disk)' = Fs!Reading(disk)
    BY <1>1 DEF Fs!Reading
  <2> QED
    BY <1>1, <2>1 DEF File!avars
<1>2. ASSUME UNCHANGED <<data, disk, acked>>, dir' = dir \/ Fs!Unlink("partial")
             \/ dir' = [dir EXCEPT !["partial"] = next]
      PROVE  UNCHANGED File!avars
  <2>1. dir'["file"] = dir["file"]
    BY <1>2 DEF FsInv, FsTypes, Fs!Unlink, Fs!Names
  <2> QED
    BY <1>1, <1>2, <2>1
<1>3. ASSUME NEW w \in Writers, Fs!Write(w) PROVE [File!AtomicNext]_(File!avars)
  <2>1. CASE Fs!Hold(w) \/ Fs!OpenPartial(w) \/ Fs!LockPartial(w) \/ Fs!Interrupt(w) \/ Fs!WrongSize(w)
             \/ Fs!Ended(w) \/ Fs!Sync(w) \/ Fs!Verify(w)
    BY <1>2, <2>1 DEF Fs!Hold, Fs!OpenPartial, Fs!LockPartial, Fs!Interrupt, Fs!WrongSize, Fs!Ended, Fs!Sync, Fs!Verify
  <2>2. CASE Fs!CheckOffset(w) \/ Fs!Receive(w)
    <3>1. wr[w].at \in Holding /\ wr[w].fd \notin {dir["file"], disk["file"]}
      BY <2>2 DEF Fs!CheckOffset, Fs!Receive, Holding, FsInv, Apart
    <3>2. \A i \in Fs!Inodes : i # wr[w].fd => data'[i] = data[i]
      BY <2>2 DEF Fs!CheckOffset, Fs!Receive, FsInv, FsTypes
    <3>3. UNCHANGED <<dir, disk, acked>>
      BY <2>2 DEF Fs!CheckOffset, Fs!Receive
    <3> QED
      BY <1>1, <3>1, <3>2, <3>3, ReadingIs
  <2>3. CASE Fs!Rename(w)
    <3> USE <2>3 DEF Fs!Rename
    <3>1. CASE dir["partial"] = Fs!None
      BY <1>2, <3>1
    <3>2. CASE dir["partial"] # Fs!None
      <4>1. dir'["file"] = dir["partial"] /\ UNCHANGED <<data, disk, acked>>
        BY <3>2 DEF Fs!Names
      <4>2. GoodFile(dir'["file"]) /\ dir'["file"] \in Fs!Inodes
        <5>1. GoodFile(dir["file"])' /\ dir'["file"] \in Fs!Inodes
          BY <3>2, <4>1 DEF FsInv, Files, FsTypes, Fs!Names
        <5> QED
          BY <5>1 DEF GoodFile
      <4>3. Fs!Reading(dir)' = data[dir'["file"]] /\ Fs!Reading(disk)' = Fs!Reading(disk)
        BY <3>2, <4>1 DEF Fs!Reading
      <4>4. data[dir'["file"]] \in Fs!Verified
        BY <4>2, GoodFiles DEF FsInv
      <4>5. File!Publish
        BY <4>1, <4>3, <4>4 DEF File!Publish
      <4> QED
        BY <4>5 DEF File!AtomicNext
    <3> QED
      BY <3>1, <3>2
  <2>4. CASE Fs!DirSync(w)
    <3>1. disk' = dir /\ acked' = (dir["file"] # Fs!None) /\ UNCHANGED <<data, dir>>
      BY <2>4 DEF Fs!DirSync, Fs!DirSynced
    <3>2. Fs!Reading(disk)' = Fs!Reading(dir) /\ Fs!Reading(dir)' = Fs!Reading(dir)
      BY <3>1 DEF Fs!Reading
    <3>3. (dir["file"] # Fs!None) = (Fs!Reading(dir) # <<>>)
      BY ReadingIs
    <3>4. File!Confirm
      BY <3>1, <3>2, <3>3 DEF File!Confirm
    <3> QED
      BY <3>4 DEF File!AtomicNext
  <2> QED
    BY <1>3, <2>1, <2>2, <2>3, <2>4 DEF Fs!Write
<1>4. ASSUME NEW d \in Deleters, Fs!DeleteLook(d) PROVE [File!AtomicNext]_(File!avars)
  BY <1>2, <1>4 DEF Fs!DeleteLook
<1>5. ASSUME NEW d \in Deleters, Fs!DeleteUnlink(d) PROVE [File!AtomicNext]_(File!avars)
  <2>1. /\ dir' = [dir EXCEPT ![del[d].name] = Fs!None] /\ acked' = (acked /\ del[d].name # "file")
        /\ UNCHANGED <<data, disk>> /\ del[d].name \in Fs!Names
    BY <1>5 DEF Fs!DeleteUnlink, Fs!Unlink, FsInv, FsTypes, Delete
  <2>2. CASE del[d].name = "file"
    <3>1. dir'["file"] = Fs!None /\ acked' = FALSE
      BY <2>1, <2>2 DEF FsInv, FsTypes, Fs!Names
    <3>2. Fs!Reading(dir)' = <<>> /\ Fs!Reading(disk)' = Fs!Reading(disk)
      BY <2>1, <3>1 DEF Fs!Reading
    <3>3. File!Remove
      BY <3>1, <3>2 DEF File!Remove
    <3> QED
      BY <3>3 DEF File!AtomicNext
  <2>3. CASE del[d].name = "partial"
    <3>1. dir'["file"] = dir["file"]
      BY <2>1, <2>3 DEF FsInv, FsTypes, Fs!Names
    <3>2. acked' = acked
      BY <2>1, <2>3 DEF FsInv, FsTypes
    <3> QED
      BY <1>1, <2>1, <3>1, <3>2
  <2> QED
    BY <2>1, <2>2, <2>3 DEF Fs!Names
<1>6. ASSUME NEW p \in Procs, Fs!ProcExit(p) PROVE [File!AtomicNext]_(File!avars)
  BY <1>2, <1>6 DEF Fs!ProcExit
<1>7. CASE Fs!PowerLoss
  <2>1. PICK kept \in [Fs!Inodes -> 0..Size] :
          /\ \A i \in Fs!Inodes : kept[i] \in synced[i]..Len(data[i])
          /\ data' = [i \in Fs!Inodes |-> SubSeq(data[i], 1, kept[i])]
    BY <1>7 DEF Fs!PowerLoss
  <2>2. dir' \in {dir, disk} /\ disk' = dir' /\ acked' = acked
    BY <1>7 DEF Fs!PowerLoss
  <2>3. ASSUME NEW i \in Fs!Inodes, GoodFile(i) PROVE data'[i] = data[i]
    <3>1. kept[i] = Len(data[i]) /\ data[i] \in Seq(Versions)
      BY <2>1, <2>3, InodesAreNumbers DEF GoodFile, FsInv, FsTypes, Contents
    <3> QED
      BY <2>1, <3>1
  <2>4. dir["file"] # Fs!None => data'[dir["file"]] = data[dir["file"]]
    BY <2>3, ReadingIs DEF FsInv, Files
  <2>5. disk["file"] # Fs!None => data'[disk["file"]] = data[disk["file"]]
    BY <2>3, ReadingIs DEF FsInv, Files
  <2>6. Fs!Reading(dir)' \in {Fs!Reading(dir), Fs!Reading(disk)} /\ Fs!Reading(disk)' = Fs!Reading(dir)'
    BY <2>2, <2>4, <2>5 DEF Fs!Reading
  <2>7. File!PowerFails
    BY <2>2, <2>6 DEF File!PowerFails
  <2> QED
    BY <2>7 DEF File!AtomicNext
<1>8. CASE UNCHANGED Fs!vars
  BY <1>2, <1>8 DEF Fs!vars
<1> QED
  BY <1>3, <1>4, <1>5, <1>6, <1>7, <1>8 DEF Fs!Next

\* For any chunks, contents, uploads, deletes and power losses, a node's uploads and
\* deletes of a file implement one that is absent or whole and changes in single
\* steps (fsops.rs, fs_write and fs_delete).
THEOREM SuiteFileIsAtomic == SuiteSpec => FileIsAtomic
<1>1. SuiteInit => FsInv /\ File!AtomicInit
  BY SuiteAssumption, FsInit, FileInit DEF SuiteInit
<1>2. [SuiteNext]_suiteVars => [Fs!Next]_(Fs!vars)
  BY DEF SuiteNext, suiteVars, fsVars, Fs!vars, Fs!fileVars
<1>3. FsInv /\ [SuiteNext]_suiteVars => FsInv'
  BY <1>2, SuiteAssumption, FsStep
<1>4. FsInv /\ FsInv' /\ [SuiteNext]_suiteVars => [File!AtomicNext]_(File!avars)
  BY <1>2, SuiteAssumption, FileStep
<1> QED
  BY <1>1, <1>3, <1>4, PTL DEF SuiteSpec, FileIsAtomic, File!AtomicSpec

\* What a reader can rely on follows from the abstract file alone: a file that was
\* reported as written and not deleted since is published content, now and after a
\* loss of power (fsops.rs, fs_write answers after the directory is synced).
THEOREM AckedIsPublished ==
  ASSUME Fs!FsConstants
  PROVE  File!AtomicSpec => [](acked => {Fs!Reading(dir), Fs!Reading(disk)} \subseteq Fs!Verified)
<1> DEFINE now == Fs!Reading(dir)
           kept == Fs!Reading(disk)
           Safe == /\ {now, kept} \subseteq Fs!Verified \cup {<<>>}
                   /\ acked => <<>> \notin {now, kept}
<1>1. File!AtomicInit => Safe
  BY DEF File!AtomicInit
<1>2. ASSUME Safe, [File!AtomicNext]_(File!avars) PROVE Safe'
  <2>1. <<>> \notin Fs!Verified
    <3>1. Size \in Nat \ {0}
      BY DEF Fs!FsConstants
    <3>2. Fs!Verified \subseteq [1..Size -> Versions]
      BY <3>1 DEF Fs!Verified, Fs!Whole, Fs!FsConstants
    <3> QED
      BY <3>1, <3>2
  <2>2. CASE File!Publish
    BY <1>2, <2>1, <2>2 DEF File!Publish
  <2>3. CASE File!Confirm
    BY <1>2, <2>3 DEF File!Confirm
  <2>4. CASE File!Remove
    BY <1>2, <2>4 DEF File!Remove
  <2>5. CASE File!PowerFails
    BY <1>2, <2>5 DEF File!PowerFails
  <2>6. CASE UNCHANGED File!avars
    BY <1>2, <2>6 DEF File!avars
  <2> QED
    BY <1>2, <2>2, <2>3, <2>4, <2>5, <2>6 DEF File!AtomicNext
<1>3. Safe => (acked => {now, kept} \subseteq Fs!Verified)
  OBVIOUS
<1> QED
  BY <1>1, <1>2, <1>3, PTL DEF File!AtomicSpec
-----------------------------------------------------------------------------
(* The inventory of the suite.  A request keeps the inventory it was let    *)
(* through with, so what it may reach rests on what every inventory, stored *)
(* or being made, promises of the machine it was made from (Sound).        *)
\* The port of an engine or a console gateway, as the machine was.
EnginePort(p, saw) ==
  \/ p \in saw.listing
  \/ \E c \in saw.running : Inv!HasPort(c, p) /\ (About[c].role = "gateway" \/ About[c].engine # Inv!None)

Sound(inv) ==
  /\ inv = [views |-> inv.views, endpoints |-> inv.endpoints, published |-> inv.published,
            gateways |-> inv.gateways, error |-> inv.error, witness |-> inv.witness]
  /\ inv.witness.running \subseteq Containers /\ Inv!Running(inv.views) \subseteq inv.witness.running
  /\ \A e \in inv.endpoints : EnginePort(e.port, inv.witness)
  /\ \A p \in inv.gateways : EnginePort(p, inv.witness)
  /\ \A p \in inv.published : \E c \in inv.witness.running : p \in About[c].published

\* The two callers of refresh.
Callings(thread) ==
  /\ thread = [t \in {"loop", "http"} |-> [pc |-> thread[t].pc, inv |-> thread[t].inv, policy |-> thread[t].policy]]
  /\ \A t \in {"loop", "http"} : Sound(thread[t].inv)

\* thread is `writer`, inventory is `session` and request is `sample` here.
LetThrough == writer["http"].pc = "idle" /\ sample.port # 0
InventoryInv ==
  /\ Callings(writer)
  /\ Sound(session)
  /\ sample = [port |-> sample.port, policy |-> sample.policy, inv |-> sample.inv]
  /\ Sound(sample.inv)
  /\ sample.policy = "refused" => sample.port # 0 /\ sample.port \in sample.inv.published
  /\ LetThrough => sample.port \in {e.port : e \in sample.inv.endpoints} \cup sample.inv.gateways
  /\ writer["http"].pc # "idle" => sample.port # 0 /\ sample.policy # "refused"

LEMMA EmptyIsSound == Sound(Inv!EmptyInv)
<1>1. Inv!Running([c \in {} |-> Inv!None]) = {}
  BY DEF Inv!Running
<1> QED
  BY <1>1 DEF Sound, Inv!EmptyInv, Inv!Nothing

LEMMA LeastOf ==
  ASSUME NEW I, I \subseteq Nat, I # {}
  PROVE  \E n \in I : \A k \in I : n <= k
<1>1. PICK n \in I : \A k \in I : ~(k < n)
  <2>1. PICK R : IsWellFoundedOn(R, Nat) /\ \A a, b \in Nat : <<a, b>> \in R <=> a < b
    BY NatLessThanWellFounded DEF OpToRel
  <2>2. ASSUME NEW T, T \subseteq Nat, T # {} PROVE \E x \in T : \A y \in T : ~(<<y, x>> \in R)
    <3>1. IsWellFoundedOn(R, Nat)
      BY <2>1
    <3> QED
      BY <2>2, <3>1, WFMin
  <2>3. \E x \in I : \A y \in I : ~(<<y, x>> \in R)
    BY <2>2
  <2> QED
    BY <2>1, <2>3
<1> QED
  BY <1>1

\* Whatever the ports answer, a container's endpoint is at one of its own ports.
LEMMA BestIsOwn ==
  ASSUME NEW ps, ps \subseteq Port, ps # {}
  PROVE  Inv!Best(ps) \in ps
<1> DEFINE healthy == {p \in ps : wake[p].models = "listing" \/ wake[p].health}
           alive == {p \in ps : Inv!AnyAnswer(wake[p])}
           best == IF healthy # {} THEN healthy ELSE IF alive # {} THEN alive ELSE ps
<1>1. best # {} /\ best \subseteq ps /\ best \subseteq Nat
  BY SuiteAssumption DEF Inv!InventoryConstants
<1>2. Inv!Best(ps) = CHOOSE p \in best : \A q \in best : p <= q
  BY DEF Inv!Best
<1> HIDE DEF best
<1>3. \E p \in best : \A q \in best : p <= q
  BY <1>1, LeastOf
<1> QED
  BY <1>1, <1>2, <1>3

\* discovery.rs: an endpoint is a port of an engine's or gateway's plan, or one that listed models.
LEMMA BuiltIsKnown ==
  ASSUME NEW views, NEW pol, NEW saw, saw.running \subseteq Containers, Inv!Running(views) \subseteq saw.running,
         saw.listing = {p \in Port : Inv!Lists(p)}, NEW e \in Inv!BuildEndpoints(views, pol)
  PROVE  EnginePort(e.port, saw)
<1>1. CASE e \in {Inv!OfContainer(views, c, pol) : c \in {x \in Inv!Planned(views) : Inv!PlanPorts(x, pol) # {}}}
  <2>1. PICK c \in Inv!Planned(views) : e = Inv!OfContainer(views, c, pol) /\ Inv!PlanPorts(c, pol) # {}
    BY <1>1
  <2>2. c \in saw.running /\ (About[c].role = "gateway" \/ About[c].engine # Inv!None)
    BY DEF Inv!Planned
  <2>3. \A p \in Inv!PlanPorts(c, pol) : Inv!HasPort(c, p)
    BY DEF Inv!PlanPorts, Inv!HasPort
  <2>4. Inv!PlanPorts(c, pol) \subseteq Port
    BY <2>2, SuiteAssumption DEF Inv!PlanPorts, Inv!InventoryConstants
  <2>5. e.port = Inv!Best(Inv!PlanPorts(c, pol))
    BY <2>1 DEF Inv!OfContainer
  <2> QED
    BY <2>1, <2>2, <2>3, <2>4, <2>5, BestIsOwn DEF EnginePort
<1>2. CASE e \in {[port |-> p, container |-> Inv!None] : p \in Inv!Bare(views, pol)}
  <2>1. PICK p \in Inv!Bare(views, pol) : e.port = p
    BY <1>2
  <2>2. p \in DiscoveryPorts /\ Inv!Listing(wake[p])
    BY DEF Inv!Bare, Inv!BareEngine
  <2>3. p \in Port /\ Inv!Lists(p)
    BY <2>2, SuiteAssumption DEF Inv!InventoryConstants, Inv!Listing, Inv!Lists
  <2> QED
    BY <2>1, <2>3 DEF EnginePort
<1> QED
  BY <1>1, <1>2 DEF Inv!BuildEndpoints

LEMMA FreshAreSound == Callings([t \in {"loop", "http"} |-> Inv!Fresh])
BY EmptyIsSound DEF Callings, Inv!Fresh

LEMMA SuiteInventoryInit == Inv!Init => InventoryInv
BY EmptyIsSound, FreshAreSound DEF Inv!Init, Inv!Workers, Inv!Fresh, Inv!NoRequest, InventoryInv, LetThrough

\* One caller moves on.
LEMMA CallerMoves ==
  ASSUME InventoryInv, NEW t \in {"loop", "http"}, NEW q, NEW inv, Sound(inv), NEW pol,
         writer' = [writer EXCEPT ![t] = [pc |-> q, inv |-> inv, policy |-> pol]]
  PROVE  /\ Callings(writer')
         /\ writer'[t].pc = q
         /\ \A u \in {"loop", "http"} \ {t} : writer'[u] = writer[u]
<1>1. DOMAIN writer = {"loop", "http"} /\ Callings(writer)
  BY DEF Callings, InventoryInv
<1>2. writer' = [u \in {"loop", "http"} |-> IF u = t THEN [pc |-> q, inv |-> inv, policy |-> pol] ELSE writer[u]]
  BY <1>1
<1>3. \A u \in {"loop", "http"} : writer[u] = [pc |-> writer[u].pc, inv |-> writer[u].inv, policy |-> writer[u].policy]
  BY <1>1 DEF Callings
<1>4. \A u \in {"loop", "http"} : /\ writer'[u] = [pc |-> writer'[u].pc, inv |-> writer'[u].inv, policy |-> writer'[u].policy]
                                  /\ Sound(writer'[u].inv)
  BY <1>1, <1>2, <1>3 DEF Callings
<1>5. writer'[t].pc = q /\ \A u \in {"loop", "http"} \ {t} : writer'[u] = writer[u]
  BY <1>2
<1>6. writer' = [u \in {"loop", "http"} |-> writer'[u]]
  BY <1>2
<1>7. Callings(writer')
  BY <1>4, <1>6 DEF Callings
<1> QED
  BY <1>5, <1>7

\* It stores what it made.
LEMMA CallerKeeps ==
  ASSUME InventoryInv, NEW t \in {"loop", "http"}, NEW q
  PROVE  \E inv, pol : /\ Sound(inv)
                       /\ [writer EXCEPT ![t].pc = q] = [writer EXCEPT ![t] = [pc |-> q, inv |-> inv, policy |-> pol]]
<1>1. PICK inv, pol : writer[t] = [pc |-> writer[t].pc, inv |-> inv, policy |-> pol] /\ Sound(inv)
  BY DEF InventoryInv, Callings
<1>2. [writer[t] EXCEPT !.pc = q] = [pc |-> q, inv |-> inv, policy |-> pol]
  BY <1>1
<1> QED
  BY <1>1, <1>2

\* What a refresh collects: no endpoints yet.
LEMMA CollectedIsSound == Sound(Inv!Collected)
<1>1. PICK v, up : v = Inv!Views /\ up = Inv!Up
  OBVIOUS
<1>2. up \subseteq Containers /\ Inv!Running(v) \subseteq up
  <2>1. CASE state = "down"
    BY <1>1, <2>1 DEF Inv!Views, Inv!Up, Inv!Running
  <2>2. CASE state # "down"
    <3>1. v = [c \in Inv!Listed |-> stopping[c]]
      BY <1>1, <2>2 DEF Inv!Views, Inv!ContainerView
    <3>2. \A c \in Inv!Running(v) : c \in Containers /\ stopping[c] = "running"
      BY <3>1 DEF Inv!Running, Inv!Listed
    <3> QED
      BY <1>1, <2>2, <3>2 DEF Inv!Up
  <2> QED
    BY <2>1, <2>2
<1>3. PICK none : Inv!EmptyInv = [views |-> none, endpoints |-> {}, published |-> {}, gateways |-> {},
                                  error |-> "never", witness |-> Inv!Nothing]
  BY DEF Inv!EmptyInv
<1>4. PICK saw : saw = [running |-> up, listing |-> {}]
  OBVIOUS
<1>5. [Inv!EmptyInv EXCEPT !.views = v, !.error = state, !.witness = saw]
        = [views |-> v, endpoints |-> {}, published |-> {}, gateways |-> {}, error |-> state, witness |-> saw]
  <2>1. PICK viewed : viewed = [views |-> v, endpoints |-> {}, published |-> {}, gateways |-> {}, error |-> "never",
                                witness |-> Inv!Nothing]
    OBVIOUS
  <2>2. PICK asked : asked = [views |-> v, endpoints |-> {}, published |-> {}, gateways |-> {}, error |-> state,
                              witness |-> Inv!Nothing]
    OBVIOUS
  <2>3. [Inv!EmptyInv EXCEPT !.views = v] = viewed
    BY <1>3, <2>1
  <2>4. [viewed EXCEPT !.error = state] = asked
    BY <2>1, <2>2
  <2>5. [asked EXCEPT !.witness = saw]
          = [views |-> v, endpoints |-> {}, published |-> {}, gateways |-> {}, error |-> state, witness |-> saw]
    BY <2>2
  <2> QED
    BY <2>3, <2>4, <2>5
<1> QED
  BY <1>1, <1>2, <1>4, <1>5 DEF Sound, Inv!Collected

\* What it built: endpoints and ports are of the machine it saw.
LEMMA ProbeStep ==
  ASSUME InventoryInv, NEW t \in {"loop", "http"}, Inv!Probe(t)
  PROVE  InventoryInv'
<1>1. PICK v, pol, saw, eps, pub, gw :
        /\ v = writer[t].inv.views /\ pol = writer[t].policy
        /\ saw = [running |-> writer[t].inv.witness.running, listing |-> {p \in Port : Inv!Lists(p)}]
        /\ eps = Inv!BuildEndpoints(v, pol)
        /\ pub = Inv!Published(v)
        /\ gw = UNION {About[c].published : c \in {x \in Inv!Running(v) : About[x].role = "gateway"}}
  OBVIOUS
<1>2. session' = session /\ sample' = sample
  BY DEF Inv!Probe
<1>3. Sound(writer[t].inv) /\ writer[t].pc = "probe"
  BY DEF InventoryInv, Callings, Inv!Probe
<1>4. /\ saw.running \subseteq Containers /\ Inv!Running(v) \subseteq saw.running
      /\ \A e \in eps : EnginePort(e.port, saw)
      /\ \A p \in gw : EnginePort(p, saw)
      /\ \A p \in pub : \E c \in saw.running : p \in About[c].published
  <2>1. saw.running \subseteq Containers /\ Inv!Running(v) \subseteq saw.running
    BY <1>1, <1>3 DEF Sound
  <2>2. \A e \in eps : EnginePort(e.port, saw)
    BY <1>1, <2>1, BuiltIsKnown
  <2> QED
    BY <1>1, <2>1, <2>2 DEF EnginePort, Inv!HasPort, Inv!Published
<1>5. PICK err, eps0, pub0, gw0, saw0 :
        /\ writer[t].inv = [views |-> v, endpoints |-> eps0, published |-> pub0, gateways |-> gw0, error |-> err,
                            witness |-> saw0]
        /\ writer[t] = [pc |-> "probe", inv |-> writer[t].inv, policy |-> pol]
        /\ saw = [running |-> saw0.running, listing |-> {p \in Port : Inv!Lists(p)}]
  <2>1. writer[t] = [pc |-> "probe", inv |-> writer[t].inv, policy |-> pol]
    BY <1>1, <1>3 DEF InventoryInv, Callings
  <2> QED
    BY <1>1, <1>3, <2>1 DEF Sound
<1>6. PICK new : new = [views |-> v, endpoints |-> eps, published |-> pub, gateways |-> gw, error |-> err, witness |-> saw]
  OBVIOUS
<1>7. [writer[t].inv EXCEPT !.endpoints = eps, !.published = pub, !.gateways = gw, !.witness = saw] = new
  <2>1. PICK one : one = [views |-> v, endpoints |-> eps, published |-> pub0, gateways |-> gw0, error |-> err, witness |-> saw0]
    OBVIOUS
  <2>2. PICK two : two = [views |-> v, endpoints |-> eps, published |-> pub, gateways |-> gw0, error |-> err, witness |-> saw0]
    OBVIOUS
  <2>3. PICK three : three = [views |-> v, endpoints |-> eps, published |-> pub, gateways |-> gw, error |-> err, witness |-> saw0]
    OBVIOUS
  <2>4. [writer[t].inv EXCEPT !.endpoints = eps] = one
    BY <1>5, <2>1
  <2>5. [one EXCEPT !.published = pub] = two
    BY <2>1, <2>2
  <2>6. [two EXCEPT !.gateways = gw] = three
    BY <2>2, <2>3
  <2>7. [three EXCEPT !.witness = saw] = new
    BY <1>6, <2>3
  <2> QED
    BY <2>4, <2>5, <2>6, <2>7
<1>8. writer' = [writer EXCEPT ![t] = [pc |-> "store", inv |-> new, policy |-> pol]]
  <2>1. writer' = [writer EXCEPT ![t] = [pc |-> "store", policy |-> pol, inv |->
            [writer[t].inv EXCEPT !.endpoints = eps, !.published = pub, !.gateways = gw, !.witness = saw]]]
    BY <1>1 DEF Inv!Probe
  <2> QED
    BY <1>7, <2>1
<1>9. Sound(new)
  BY <1>4, <1>6 DEF Sound
<1>10. /\ Callings(writer') /\ writer'[t].pc = "store"
       /\ \A u \in {"loop", "http"} \ {t} : writer'[u] = writer[u]
  BY <1>8, <1>9, CallerMoves
<1>11. writer'["http"].pc # "idle" <=> writer["http"].pc # "idle"
  BY <1>3, <1>10
<1> QED
  BY <1>2, <1>10, <1>11 DEF InventoryInv, LetThrough

\* Agent::refresh of both threads, the requests and the machine under them.
LEMMA SuiteInventoryStep == InventoryInv /\ [Inv!Next]_(Inv!vars) => InventoryInv'
<1> SUFFICES ASSUME InventoryInv, [Inv!Next]_(Inv!vars) PROVE InventoryInv'
  OBVIOUS
<1> USE DEF Inv!node, Inv!hub, Inv!machine
<1>1. ASSUME UNCHANGED Inv!node PROVE InventoryInv'
  BY <1>1 DEF InventoryInv, LetThrough
<1>2. CASE Inv!LoopStarts
  <2>1. PICK inv, pol : Sound(inv) /\ writer' = [writer EXCEPT !["loop"] = [pc |-> "probe", inv |-> inv, policy |-> pol]]
    BY <1>2, CollectedIsSound DEF Inv!LoopStarts, Inv!Collect
  <2>2. session' = session /\ sample' = sample
    BY <1>2 DEF Inv!LoopStarts, Inv!Collect
  <2>3. Callings(writer') /\ writer'["http"] = writer["http"]
    BY <2>1, CallerMoves
  <2> QED
    BY <2>2, <2>3 DEF InventoryInv, LetThrough
<1>3. CASE \E t \in {"loop", "http"} : Inv!Probe(t)
  BY <1>3, ProbeStep
<1>4. CASE Inv!LoopStores
  <2>1. session' = writer["loop"].inv /\ sample' = sample
    BY <1>4 DEF Inv!LoopStores, Inv!Store
  <2>2. Sound(writer["loop"].inv)
    BY DEF InventoryInv, Callings
  <2>3. PICK inv, pol : Sound(inv) /\ writer' = [writer EXCEPT !["loop"] = [pc |-> "push", inv |-> inv, policy |-> pol]]
    <3>1. writer' = [writer EXCEPT !["loop"].pc = "push"]
      BY <1>4 DEF Inv!LoopStores, Inv!Store
    <3>2. \E inv, pol :
            /\ Sound(inv)
            /\ [writer EXCEPT !["loop"].pc = "push"] = [writer EXCEPT !["loop"] = [pc |-> "push", inv |-> inv, policy |-> pol]]
      BY CallerKeeps
    <3> QED
      BY <3>1, <3>2
  <2>4. Callings(writer') /\ writer'["http"] = writer["http"]
    BY <2>3, CallerMoves
  <2> QED
    BY <2>1, <2>2, <2>4 DEF InventoryInv, LetThrough
<1>5. CASE Inv!LoopPushes \/ Inv!LoopRepeats
  <2>1. session' = session /\ sample' = sample
    BY <1>5 DEF Inv!LoopPushes, Inv!LoopRepeats
  <2>2. writer' = [writer EXCEPT !["loop"] = [pc |-> "idle", inv |-> Inv!EmptyInv, policy |-> "ok"]]
    BY <1>5 DEF Inv!LoopPushes, Inv!LoopRepeats, Inv!Fresh
  <2>3. Callings(writer') /\ writer'["http"] = writer["http"]
    BY <2>2, EmptyIsSound, CallerMoves
  <2> QED
    BY <2>1, <2>3 DEF InventoryInv, LetThrough
<1>6. CASE Inv!HttpStores
  <2>1. session' = writer["http"].inv /\ sample' = sample /\ writer["http"].pc = "store"
    BY <1>6 DEF Inv!HttpStores, Inv!Store
  <2>2. Sound(writer["http"].inv)
    BY DEF InventoryInv, Callings
  <2>3. PICK inv, pol : Sound(inv) /\ writer' = [writer EXCEPT !["http"] = [pc |-> "check", inv |-> inv, policy |-> pol]]
    <3>1. writer' = [writer EXCEPT !["http"].pc = "check"]
      BY <1>6 DEF Inv!HttpStores, Inv!Store
    <3>2. \E inv, pol :
            /\ Sound(inv)
            /\ [writer EXCEPT !["http"].pc = "check"] = [writer EXCEPT !["http"] = [pc |-> "check", inv |-> inv, policy |-> pol]]
      BY CallerKeeps
    <3> QED
      BY <3>1, <3>2
  <2>4. Callings(writer') /\ writer'["http"].pc = "check"
    BY <2>3, CallerMoves
  <2> QED
    BY <2>1, <2>2, <2>4 DEF InventoryInv, LetThrough
<1>7. CASE Inv!HttpChecks
  <2>1. session' = session /\ writer["http"].pc = "check"
    BY <1>7 DEF Inv!HttpChecks
  <2>2. writer' = [writer EXCEPT !["http"] = [pc |-> "idle", inv |-> Inv!EmptyInv, policy |-> "ok"]]
    BY <1>7 DEF Inv!HttpChecks, Inv!Fresh
  <2>3. Callings(writer') /\ writer'["http"].pc = "idle"
    BY <2>2, EmptyIsSound, CallerMoves
  <2>4. Sound(writer["http"].inv)
    BY DEF InventoryInv, Callings
  <2>5. CASE sample.port \in Inv!AllowedPorts(writer["http"].inv)
    <3>1. sample' = [sample EXCEPT !.policy = backoff, !.inv = writer["http"].inv]
      BY <1>7, <2>5 DEF Inv!HttpChecks
    <3>2. sample' = [port |-> sample.port, policy |-> backoff, inv |-> writer["http"].inv]
      BY <3>1 DEF InventoryInv
    <3>3. /\ backoff = "refused" => sample.port \in writer["http"].inv.published
          /\ sample.port \in {e.port : e \in writer["http"].inv.endpoints} \cup writer["http"].inv.gateways
      BY <2>5 DEF Inv!AllowedPorts
    <3>4. sample.port # 0
      BY <2>1 DEF InventoryInv
    <3> QED
      BY <2>1, <2>3, <2>4, <3>2, <3>3, <3>4 DEF InventoryInv, LetThrough
  <2>6. CASE sample.port \notin Inv!AllowedPorts(writer["http"].inv)
    BY <1>7, <2>1, <2>3, <2>6, EmptyIsSound DEF Inv!HttpChecks, Inv!NoRequest, InventoryInv, LetThrough
  <2> QED
    BY <2>5, <2>6
<1>8. CASE Inv!HttpEnds
  BY <1>8, EmptyIsSound DEF Inv!HttpEnds, Inv!Opened, Inv!NoRequest, InventoryInv, LetThrough
<1>9. CASE Inv!NodeRestarts
  BY <1>9, EmptyIsSound, FreshAreSound DEF Inv!NodeRestarts, Inv!Fresh, Inv!Workers, Inv!NoRequest, InventoryInv, LetThrough
<1>10. ASSUME NEW p \in Port, Inv!HttpRequest(p) PROVE InventoryInv'
  <2>1. CASE p \in Inv!AllowedPorts(session)
    <3>1. /\ backoff = "refused" => p \in session.published
          /\ p \in {e.port : e \in session.endpoints} \cup session.gateways
      BY <2>1 DEF Inv!AllowedPorts
    <3>2. /\ sample' = [port |-> p, policy |-> backoff, inv |-> session]
          /\ session' = session /\ writer' = writer /\ writer["http"].pc = "idle"
      BY <1>10, <2>1 DEF Inv!HttpRequest
    <3> QED
      BY <3>1, <3>2, SuiteAssumption DEF InventoryInv, LetThrough, Inv!InventoryConstants
  <2>2. CASE p \notin Inv!AllowedPorts(session)
    <3>1. PICK inv, pol : Sound(inv) /\ writer' = [writer EXCEPT !["http"] = [pc |-> "probe", inv |-> inv, policy |-> pol]]
      BY <1>10, <2>2, CollectedIsSound DEF Inv!HttpRequest, Inv!Collect
    <3>2. sample' = [sample EXCEPT !.port = p] /\ sample.port = 0 /\ session' = session
      BY <1>10, <2>2 DEF Inv!HttpRequest
    <3>3. sample.policy # "refused"
      BY <3>2 DEF InventoryInv
    <3>4. sample' = [port |-> p, policy |-> sample.policy, inv |-> sample.inv]
      BY <3>2 DEF InventoryInv
    <3>5. Callings(writer') /\ writer'["http"].pc = "probe"
      BY <3>1, CallerMoves
    <3> QED
      BY <3>2, <3>3, <3>4, <3>5, SuiteAssumption DEF InventoryInv, LetThrough, Inv!InventoryConstants
  <2> QED
    BY <2>1, <2>2
<1>11. ASSUME Inv!Next PROVE \/ Inv!LoopStarts \/ (\E t \in {"loop", "http"} : Inv!Probe(t)) \/ Inv!LoopStores
                             \/ (Inv!LoopPushes \/ Inv!LoopRepeats) \/ Inv!HttpStores \/ Inv!HttpChecks
                             \/ Inv!HttpEnds \/ Inv!NodeRestarts \/ (\E p \in Port : Inv!HttpRequest(p))
                             \/ UNCHANGED Inv!node
  BY <1>11 DEF Inv!Next, Inv!Loop, Inv!Http, Inv!PortChanges, Inv!DockerChanges, Inv!PolicyChanges,
               Inv!ContainerChanges, Inv!Supervise
<1> QED
  BY <1>1, <1>2, <1>3, <1>4, <1>5, <1>6, <1>7, <1>8, <1>9, <1>10, <1>11 DEF Inv!vars

(* allowed_ports of agent.rs and its two callers, whatever docker, the      *)
(* containers, the ports and the policy do meanwhile: a request is let      *)
(* through only to the port of an engine or a console gateway, as the       *)
(* machine was when that inventory was made, and without a usable policy    *)
(* only to a port that a running container published.                      *)
THEOREM SuiteEnginesReached == SuiteSpec => []OnlyEnginesAreReached
<1> DEFINE Kept == part = "inventory" => InventoryInv
<1>1. SuiteInit => Kept
  BY SuiteInventoryInit DEF SuiteInit
<1>2. Kept /\ [SuiteNext]_suiteVars => Kept'
  <2> SUFFICES ASSUME Kept, [SuiteNext]_suiteVars, part' = "inventory" PROVE InventoryInv'
    OBVIOUS
  <2>1. CASE SuiteNext
    BY <2>1, SuiteInventoryStep DEF SuiteNext
  <2>2. CASE UNCHANGED suiteVars
    <3>1. part = "inventory" /\ UNCHANGED Inv!vars
      BY <2>2 DEF suiteVars, vars, linkVars, reqVars, rcVars, Inv!vars, Inv!machine, Inv!node, Inv!hub
    <3> QED
      BY <3>1, SuiteInventoryStep
  <2> QED
    BY <2>1, <2>2
<1>3. ASSUME InventoryInv PROVE Inv!OnlyEnginesAreReached
  <2> SUFFICES ASSUME LetThrough
               PROVE  /\ EnginePort(sample.port, sample.inv.witness)
                      /\ sample.policy = "refused" =>
                           \E c \in sample.inv.witness.running : sample.port \in About[c].published
    BY DEF Inv!OnlyEnginesAreReached, Inv!Opened, LetThrough, EnginePort
  <2>1. sample.port \in {e.port : e \in sample.inv.endpoints} \cup sample.inv.gateways /\ Sound(sample.inv)
    BY <1>3 DEF InventoryInv
  <2> QED
    BY <1>3, <2>1 DEF InventoryInv, Sound
<1>4. Kept => OnlyEnginesAreReached
  BY <1>3 DEF OnlyEnginesAreReached
<1> QED
  BY <1>1, <1>2, <1>4, PTL DEF SuiteSpec
-----------------------------------------------------------------------------
(* The policy of the suite.  A root that is granted was checked, on the path *)
(* it leads to at that moment, against the directory of either policy file  *)
(* and the home: that is all the invariant says of it, for nothing later    *)
(* can take the descriptor elsewhere.  The rest is what makes a policy that *)
(* is obeyed one whose every field was accepted.                            *)
\* (Strings all: the provers do not know that a literal is in STRING.)
Segments == STRING \cup {"etc", "ecnode", "policy.json", "home", "u", ".config", "data", "hf"}
PolicyFiles == {Policy!Etc, Policy!User}
HoldsNoPolicy(r) ==
  /\ ~Policy!inside(Policy!Home, r)
  /\ \A p \in PolicyFiles : ~Policy!inside(p, r) /\ ~Policy!inside(r, Policy!Front(p))
Accepted(policy) ==
  /\ policy.mode \in {"monitor", "manage"} /\ (policy.mode = "manage" => policy.doc.bad = {})
  /\ \A i \in DOMAIN policy.doc.roots : policy.doc.roots[i].path \in Seq(STRING)
Known(path) == path = <<>> \/ path \in PolicyFiles
PolicyPhases == {"idle", "identity", "compare", "load", "read", "publish", "use", "root", "granted"}
Handling(r) ==
  /\ r.pc \in PolicyPhases
  /\ r.pc = "read" => Known(r.path) /\ r.stamp \in 0..MaxWrites
  /\ r.pc = "publish" => Accepted(r.policy) /\ r.stamp \in 0..MaxWrites
  /\ r.pc = "root" => Accepted(r.policy)
  /\ r.pc = "granted" => HoldsNoPolicy(r.real)
FileType ==
  {Policy!NoFile} \cup [kind : {"file", "symlink"}, doc : Docs, attr : Attrs, id : 1..MaxWrites]

\* files is `state`, link `stopping`, store `wake`, due `backoff`, thread `pid`
\* and writes `session` here.
PolicyInv ==
  /\ state \in [PolicyFiles -> FileType] /\ stopping \in Policy!Targets
  /\ wake = [policy |-> wake.policy, stamp |-> wake.stamp]
  /\ Accepted(wake.policy) /\ wake.stamp \in 0..MaxWrites
  /\ backoff \in BOOLEAN /\ session \in 0..MaxWrites
  /\ pid = [t \in Threads |-> pid[t]] /\ \A t \in Threads : Handling(pid[t])

LEMMA PrefixIs ==
  ASSUME NEW s \in Seq(Segments), NEW t \in Seq(Segments)
  PROVE  Policy!inside(t, s) <=> Len(s) <= Len(t) /\ \A i \in 1..Len(s) : s[i] = t[i]
<1>1. ASSUME Len(s) <= Len(t)
      PROVE  SubSeq(s, 1, Len(s)) = SubSeq(t, 1, Len(s)) <=> \A i \in 1..Len(s) : s[i] = t[i]
  BY <1>1
<1> QED
  BY <1>1 DEF Policy!inside, Policy!IsPrefix

\* What is not in a directory and has it not inside is no file of it.
LEMMA NotBelow ==
  ASSUME NEW p \in Seq(Segments), Len(p) > 0, NEW r \in Seq(Segments), Policy!inside(p, r)
  PROVE  Policy!inside(Policy!Front(p), r) \/ Policy!inside(r, Policy!Front(p))
<1>1. PICK f : f = Policy!Front(p)
  OBVIOUS
<1>2. f \in Seq(Segments) /\ Len(f) = Len(p) - 1 /\ \A i \in 1..Len(f) : f[i] = p[i]
  <2>1. \A i \in 1..(Len(p) - 1) : p[i] \in Segments
    OBVIOUS
  <2>2. /\ f \in Seq(Segments) /\ Len(f) = IF 1 <= Len(p) - 1 THEN Len(p) - 1 - 1 + 1 ELSE 0
        /\ \A i \in 1..(Len(p) - 1 - 1 + 1) : f[i] = p[1 + i - 1]
    BY <1>1, <2>1, SubSeqProperties DEF Policy!Front
  <2>3. PICK m \in Nat : m = Len(p) /\ m > 0
    OBVIOUS
  <2>4. Len(f) = m - 1 /\ \A i \in 1..(m - 1) : f[i] = p[i]
    <3>1. CASE m = 1
      BY <2>2, <2>3, <3>1
    <3>2. CASE m > 1
      BY <2>2, <2>3, <3>2
    <3> QED
      BY <2>3, <3>1, <3>2
  <2> QED
    BY <2>2, <2>3, <2>4
<1>3. Len(r) <= Len(p) /\ \A i \in 1..Len(r) : r[i] = p[i]
  BY PrefixIs
<1>4. CASE Len(r) <= Len(f)
  <2>1. Policy!inside(f, r)
    <3>1. Len(r) \in Nat /\ Len(f) \in Nat
      BY <1>2
    <3>2. \A i \in 1..Len(r) : i \in 1..Len(f)
      BY <1>4, <3>1
    <3>3. \A i \in 1..Len(r) : r[i] = f[i]
      BY <1>2, <1>3, <3>2
    <3> QED
      BY <1>2, <1>4, <3>3, PrefixIs
  <2> QED
    BY <1>1, <2>1
<1>5. CASE Len(r) > Len(f)
  <2>1. Policy!inside(r, f)
    BY <1>2, <1>3, <1>5, PrefixIs
  <2> QED
    BY <1>1, <2>1
<1> QED
  BY <1>2, <1>4, <1>5

LEMMA FrontOfThree ==
  ASSUME NEW h \in Seq(Segments), NEW a \in Segments, NEW b \in Segments, NEW c \in Segments
  PROVE  /\ h \o <<a, b, c>> \in Seq(Segments) /\ Len(h \o <<a, b, c>>) = Len(h) + 3
         /\ Policy!Front(h \o <<a, b, c>>) = h \o <<a, b>>
<1>a. PICK abc \in Seq(Segments) : abc = <<a, b, c>> /\ Len(abc) = 3 /\ abc[1] = a /\ abc[2] = b
  <2>1. <<a, b, c>> \in Seq(Segments)
    OBVIOUS
  <2> QED
    BY <2>1
<1>b. PICK ab \in Seq(Segments) : ab = <<a, b>> /\ Len(ab) = 2 /\ ab[1] = a /\ ab[2] = b
  <2>1. <<a, b>> \in Seq(Segments)
    OBVIOUS
  <2> QED
    BY <2>1
<1>1. PICK p : p = h \o abc
  OBVIOUS
<1>2. PICK q : q = h \o ab
  OBVIOUS
<1>3. /\ p \in Seq(Segments) /\ Len(p) = Len(h) + 3
      /\ \A i \in 1..(Len(h) + 3) : p[i] = IF i <= Len(h) THEN h[i] ELSE abc[i - Len(h)]
  BY <1>1, <1>a, ConcatProperties
<1>4. /\ q \in Seq(Segments) /\ Len(q) = Len(h) + 2
      /\ \A i \in 1..(Len(h) + 2) : q[i] = IF i <= Len(h) THEN h[i] ELSE ab[i - Len(h)]
  BY <1>2, <1>b, ConcatProperties
<1>5. Len(h) \in Nat
  OBVIOUS
<1>6. PICK f : f = SubSeq(p, 1, Len(p) - 1)
  OBVIOUS
<1>7. f \in Seq(Segments) /\ Len(f) = Len(h) + 2 /\ \A i \in 1..(Len(h) + 2) : f[i] = p[i]
  <2>1. \A i \in 1..(Len(p) - 1) : p[i] \in Segments
    BY <1>3, <1>5
  <2>2. /\ f \in Seq(Segments) /\ Len(f) = IF 1 <= Len(p) - 1 THEN Len(p) - 1 - 1 + 1 ELSE 0
        /\ \A i \in 1..(Len(p) - 1 - 1 + 1) : f[i] = p[1 + i - 1]
    BY <1>3, <1>5, <1>6, <2>1, SubSeqProperties
  <2> QED
    BY <1>3, <1>5, <2>2
<1>8. \A i \in 1..(Len(h) + 2) : f[i] = q[i]
  <2>1. ASSUME NEW i \in 1..(Len(h) + 2) PROVE f[i] = q[i]
    <3>1. PICK n \in Nat : n = Len(h)
      BY <1>5
    <3>2. /\ f[i] = IF i <= n THEN h[i] ELSE abc[i - n]
          /\ q[i] = IF i <= n THEN h[i] ELSE ab[i - n]
      BY <1>3, <1>4, <1>7, <3>1
    <3>3. CASE i > n
      <4>1. i - n = 1 \/ i - n = 2
        BY <3>1, <3>3
      <4> QED
        BY <3>2, <3>3, <4>1, <1>a, <1>b
    <3> QED
      BY <3>1, <3>2, <3>3
  <2> QED
    BY <2>1
<1>9. f = q
  BY <1>4, <1>7, <1>8, SeqEqual
<1> QED
  BY <1>1, <1>2, <1>3, <1>6, <1>9, <1>a, <1>b DEF Policy!Front

LEMMA PathsAre ==
  /\ Policy!Etc \in Seq(Segments) /\ Len(Policy!Etc) > 0 /\ Policy!Front(Policy!Etc) = <<"etc", "ecnode">>
  /\ Policy!User \in Seq(Segments) /\ Len(Policy!User) > 0
  /\ Policy!Front(Policy!User) = Policy!Home \o <<".config", "ecnode">>
<1> USE DEF Segments
<1>1. <<"home", "u">> \in Seq(Segments) /\ Len(<<"home", "u">>) = 2
  OBVIOUS
<1>2. PICK h \in Seq(Segments) : h = Policy!Home /\ Len(h) = 2
  BY <1>1 DEF Policy!Home
<1>3. /\ h \o <<".config", "ecnode", "policy.json">> \in Seq(Segments)
      /\ Len(h \o <<".config", "ecnode", "policy.json">>) = Len(h) + 3
      /\ Policy!Front(h \o <<".config", "ecnode", "policy.json">>) = h \o <<".config", "ecnode">>
  BY FrontOfThree
<1>4. /\ <<>> \o <<"etc", "ecnode", "policy.json">> \in Seq(Segments)
      /\ Len(<<>> \o <<"etc", "ecnode", "policy.json">>) = Len(<<>>) + 3
      /\ Policy!Front(<<>> \o <<"etc", "ecnode", "policy.json">>) = <<>> \o <<"etc", "ecnode">>
  <2>1. <<>> \in Seq(Segments)
    OBVIOUS
  <2> QED
    BY <2>1, FrontOfThree
<1>5. /\ <<>> \o <<"etc", "ecnode", "policy.json">> = <<"etc", "ecnode", "policy.json">>
      /\ <<>> \o <<"etc", "ecnode">> = <<"etc", "ecnode">>
  <2>1. <<"etc", "ecnode", "policy.json">> \in Seq(Segments) /\ <<"etc", "ecnode">> \in Seq(Segments)
    OBVIOUS
  <2> QED
    BY <2>1, ConcatEmptySeq
<1>6. Len(<<>>) = 0
  OBVIOUS
<1>7. Policy!User \in Seq(Segments) /\ Len(Policy!User) > 0 /\ Policy!Front(Policy!User) = Policy!Home \o <<".config", "ecnode">>
  BY <1>2, <1>3 DEF Policy!User
<1>8. Policy!Etc \in Seq(Segments) /\ Len(Policy!Etc) > 0 /\ Policy!Front(Policy!Etc) = <<"etc", "ecnode">>
  BY <1>4, <1>5, <1>6 DEF Policy!Etc
<1> QED
  BY <1>7, <1>8

\* policy.rs recheck_root_real.
LEMMA RecheckedIsSafe ==
  ASSUME NEW r \in Seq(Segments), NEW path, Policy!recheck_root_real(r, path)
  PROVE  HoldsNoPolicy(r)
<1> DEFINE who == Policy!OnNode(path)
<1>1. who.follow = TRUE /\ who.home = {Policy!Home}
  BY DEF Policy!OnNode
<1>2. Policy!check_root_overlap(r, who)
  BY DEF Policy!recheck_root_real
<1> HIDE DEF who
<1>3. r \in Policy!path_forms(r, TRUE) /\ \A q : q \in Policy!path_forms(q, TRUE)
  BY DEF Policy!path_forms
<1>4. <<"etc", "ecnode">> \in Policy!protected_dirs(who)
      /\ Policy!Home \o <<".config", "ecnode">> \in Policy!protected_dirs(who)
  BY <1>1 DEF Policy!protected_dirs
<1>5. ~Policy!inside(Policy!Home, r)
  BY <1>1, <1>2, <1>3 DEF Policy!check_root_overlap
<1>6. \A d \in Policy!protected_dirs(who) : ~Policy!inside(r, d) /\ ~Policy!inside(d, r)
  BY <1>1, <1>2, <1>3 DEF Policy!check_root_overlap
<1>7. \A p \in PolicyFiles : Policy!Front(p) \in Policy!protected_dirs(who) /\ p \in Seq(Segments) /\ Len(p) > 0
  BY <1>4, PathsAre DEF PolicyFiles
<1> QED
  BY <1>5, <1>6, <1>7, NotBelow DEF HoldsNoPolicy

\* SequencesExt SelectInSeq: the first index of those there are.
LEMMA LeastIndex ==
  ASSUME NEW I, I \subseteq Nat, I # {}
  PROVE  Policy!Min(I) \in I /\ \A k \in I : Policy!Min(I) <= k
BY LeastOf DEF Policy!Min

\* A list of fields: "ok" when none is bad, otherwise one of them.
LEMMA FieldsChecked ==
  ASSUME NEW S, "ok" \notin S, NEW order \in Seq(S), NEW bad
  PROVE  /\ Policy!ToSet(order) \cap bad = {} <=> Policy!Sections(order, bad) = "ok"
         /\ Policy!Sections(order, bad) \in {"ok"} \cup Policy!ToSet(order)
<1> DEFINE I == {i \in 1..Len(order) : order[i] \in bad}
<1>1. Policy!FirstBad(order, bad) = IF I # {} THEN Policy!Min(I) ELSE 0
  BY DEF Policy!FirstBad, Policy!SelectInSeq
<1>2. DOMAIN order = 1..Len(order) /\ \A i \in 1..Len(order) : order[i] \in S
  OBVIOUS
<1>3. \A f : f \in Policy!ToSet(order) <=> \E i \in 1..Len(order) : f = order[i]
  BY <1>2 DEF Policy!ToSet
<1>4. CASE I = {}
  <2>1. Policy!Sections(order, bad) = "ok"
    BY <1>1, <1>4 DEF Policy!Sections
  <2> QED
    BY <1>3, <1>4, <2>1
<1>5. CASE I # {}
  <2>1. PICK n \in I : n = Policy!FirstBad(order, bad)
    <3>1. I \subseteq Nat
      OBVIOUS
    <3>2. Policy!Min(I) \in I
      BY <1>5, <3>1, LeastIndex
    <3> QED
      BY <1>1, <1>5, <3>2
  <2>2. Policy!Sections(order, bad) = order[n]
    BY <2>1 DEF Policy!Sections
  <2>3. order[n] \in bad /\ order[n] \in S /\ n \in 1..Len(order)
    BY <1>2, <2>1
  <2> QED
    BY <1>3, <2>2, <2>3
<1> QED
  BY <1>4, <1>5

\* policy.rs parse: what it passes has no bad field.
LEMMA ParsedIsGood ==
  ASSUME NEW d \in Docs, NEW who, Policy!parse(d, who) = "ok"
  PROVE  d.bad = {}
<1>1. Policy!Sections(Policy!PolicyFields, d.bad) = "ok" /\ Policy!Sections(Policy!LimitFields, d.bad) = "ok"
  <2>1. \A a, b, c, e : Policy!Then(a, Policy!Then(b, Policy!Then(c, e))) = "ok" => a = "ok" /\ e = "ok"
    BY DEF Policy!Then
  <2> QED
    BY <2>1 DEF Policy!parse
<1>2. \A f \in {Policy!PolicyFields, Policy!LimitFields} :
        f \in Seq(Policy!ToSet(f)) /\ "ok" \notin Policy!ToSet(f)
  <2>1. Policy!PolicyFields \in Seq(Policy!ToSet(Policy!PolicyFields)) /\ Policy!LimitFields \in Seq(Policy!ToSet(Policy!LimitFields))
    BY DEF Policy!PolicyFields, Policy!LimitFields, Policy!ToSet
  <2>2. "ok" \notin Policy!ToSet(Policy!PolicyFields)
    BY DEF Policy!PolicyFields, Policy!ToSet
  <2>3. "ok" \notin Policy!ToSet(Policy!LimitFields)
    BY DEF Policy!LimitFields, Policy!ToSet
  <2> QED
    BY <2>1, <2>2, <2>3
<1>3. ASSUME NEW f \in {Policy!PolicyFields, Policy!LimitFields} PROVE Policy!ToSet(f) \cap d.bad = {}
  <2>1. PICK S : S = Policy!ToSet(f)
    OBVIOUS
  <2> QED
    BY <1>1, <1>2, <2>1, FieldsChecked
<1>4. d.bad \subseteq Policy!ToSet(Policy!PolicyFields) \cup Policy!ToSet(Policy!LimitFields)
  BY SuiteAssumption DEF Policy!PolicyConstants
<1> QED
  BY <1>3, <1>4

LEMMA SegmentsHold == Seq(STRING) \subseteq Seq(Segments)
<1>1. STRING \subseteq Segments
  BY DEF Segments
<1>2. ASSUME NEW s \in Seq(STRING) PROVE s \in Seq(Segments)
  <2>1. PICK n \in Nat : s \in [1..n -> STRING]
    BY SeqDef
  <2>2. s \in [1..n -> Segments]
    BY <1>1, <2>1
  <2> QED
    BY <2>2, SeqDef
<1> QED
  BY <1>2

LEMMA MonitorIsAccepted == \A path, read : Accepted(Policy!monitor_policy(path, read))
<1>1. ASSUME NEW path, NEW read PROVE Accepted(Policy!monitor_policy(path, read))
  <2>1. PICK m : m = Policy!monitor_policy(path, read)
    OBVIOUS
  <2>2. m.mode = "monitor" /\ m.doc.roots = <<>>
    BY <2>1 DEF Policy!monitor_policy
  <2>3. DOMAIN m.doc.roots = {}
    <3>1. DOMAIN <<>> = {}
      OBVIOUS
    <3> QED
      BY <2>2, <3>1
  <2>4. Accepted(m)
    BY <2>2, <2>3 DEF Accepted
  <2> QED
    BY <2>1, <2>4
<1> QED
  BY <1>1

LEMMA RealIsPath ==
  ASSUME NEW p \in Seq(STRING), stopping \in Policy!Targets
  PROVE  Policy!Real(p) \in Seq(Segments)
<1>1. stopping \in Seq(Segments)
  <2>1. /\ <<"data", "hf">> \in Seq(Segments) /\ <<>> \in Seq(Segments)
        /\ Policy!Home \in Seq(Segments) /\ <<".config">> \in Seq(Segments)
    BY DEF Segments, Policy!Home
  <2>2. Policy!Home \o <<".config">> \in Seq(Segments)
    BY <2>1, ConcatProperties
  <2> QED
    BY <2>1, <2>2 DEF Policy!Targets
<1>2. p \in Seq(Segments)
  BY SegmentsHold
<1>3. PICK n \in Nat : n = Len(Policy!Link) + 1
  BY DEF Policy!Link
<1>4. SubSeq(p, n, Len(p)) \in Seq(Segments)
  <2>1. \A k \in n..Len(p) : p[k] \in Segments
    BY <1>2, <1>3 DEF Policy!Link
  <2>2. Len(p) \in Int /\ n \in Int
    BY <1>2
  <2> QED
    BY <2>1, <2>2, SubSeqProperties
<1>5. stopping \o SubSeq(p, n, Len(p)) \in Seq(Segments)
  BY <1>1, <1>4, ConcatProperties
<1> QED
  BY <1>2, <1>3, <1>5 DEF Policy!Real

\* What a load makes of the file that is there, and when it was put there.
LEMMA LoadedIsAccepted ==
  ASSUME PolicyInv, NEW path, Known(path)
  PROVE  Accepted(Policy!load(path)) /\ Policy!Stamp(path) \in 0..MaxWrites
<1>1. MaxWrites \in Nat
  BY SuiteAssumption DEF Policy!PolicyConstants
<1>2. ASSUME NEW read PROVE Accepted(Policy!monitor_policy(path, read))
  BY MonitorIsAccepted
<1>3. CASE path = <<>> \/ state[path] = Policy!NoFile
  BY <1>1, <1>2, <1>3 DEF Policy!load, Policy!Stamp
<1>4. CASE ~(path = <<>> \/ state[path] = Policy!NoFile)
  <2>1. PICK f : f = state[path]
    OBVIOUS
  <2>2. f \in [kind : {"file", "symlink"}, doc : Docs, attr : Attrs, id : 1..MaxWrites]
    BY <1>4, <2>1 DEF PolicyInv, FileType, Known
  <2>3. f.doc \in Docs /\ f.id \in 1..MaxWrites
    BY <2>2
  <2>4. f.doc.mode \in {"monitor", "manage"} /\ \A i \in DOMAIN f.doc.roots : f.doc.roots[i].path \in Seq(STRING)
    BY <2>3, SuiteAssumption DEF Policy!PolicyConstants
  <2>5. ASSUME Policy!parse(f.doc, Policy!OnNode(path)) = "ok"
        PROVE  Accepted([mode |-> f.doc.mode, path |-> path, doc |-> f.doc, read |-> f.id])
    <3>1. PICK x : x = [mode |-> f.doc.mode, path |-> path, doc |-> f.doc, read |-> f.id]
      OBVIOUS
    <3>2. x.mode = f.doc.mode /\ x.doc = f.doc
      BY <3>1
    <3>3. f.doc.bad = {}
      BY <2>3, <2>5, ParsedIsGood
    <3>4. Accepted(x)
      BY <2>4, <3>2, <3>3 DEF Accepted
    <3> QED
      BY <3>1, <3>4
  <2>6. Policy!load(path) = IF f.kind # "file" \/ Policy!file_problem(path, f.attr) \/ Policy!parse(f.doc, Policy!OnNode(path)) # "ok"
                            THEN Policy!monitor_policy(path, f.id)
                            ELSE [mode |-> f.doc.mode, path |-> path, doc |-> f.doc, read |-> f.id]
    BY <1>4, <2>1 DEF Policy!load
  <2>7. Policy!Stamp(path) = f.id
    BY <1>4, <2>1 DEF Policy!Stamp
  <2> QED
    BY <1>1, <1>2, <2>3, <2>5, <2>6, <2>7
<1> QED
  BY <1>3, <1>4

LEMMA CandidateIsKnown == Known(Policy!candidate)
BY DEF Known, PolicyFiles, Policy!candidate

\* One thread moves on; the files, the link and the store stay.
LEMMA ThreadMoves ==
  ASSUME PolicyInv, NEW t \in Threads, NEW r, Handling(r), Policy!Set(t, r),
         UNCHANGED <<state, stopping, session>>, backoff' \in BOOLEAN,
         wake' = [policy |-> wake'.policy, stamp |-> wake'.stamp],
         Accepted(wake'.policy), wake'.stamp \in 0..MaxWrites
  PROVE  PolicyInv'
<1>1. pid' = [u \in Threads |-> IF u = t THEN r ELSE pid[u]]
  BY DEF Policy!Set, PolicyInv
<1>2. \A u \in Threads : Handling(pid'[u])
  BY <1>1 DEF PolicyInv
<1>3. pid' = [u \in Threads |-> pid'[u]]
  BY <1>1
<1> QED
  BY <1>2, <1>3 DEF PolicyInv

\* The handlers: PolicyStore::current, and the operation that uses what it got.
LEMMA PolicyThreadStep ==
  ASSUME PolicyInv, NEW t \in Threads, Policy!Step(t)
  PROVE  PolicyInv'
<1> USE DEF Policy!Step
<1>1. Handling(pid[t])
  BY DEF PolicyInv
<1>2. ASSUME NEW r, Handling(r), Policy!Set(t, r), UNCHANGED <<state, stopping, wake, session>>, backoff' \in BOOLEAN
      PROVE  PolicyInv'
  <2>1. /\ wake' = [policy |-> wake'.policy, stamp |-> wake'.stamp]
        /\ Accepted(wake'.policy) /\ wake'.stamp \in 0..MaxWrites
    BY <1>2 DEF PolicyInv
  <2> QED
    BY <1>2, <2>1, ThreadMoves
<1>3. backoff \in BOOLEAN
  BY DEF PolicyInv
<1>4. CASE Policy!Current(t)
  <2>1. PICK r : r = [pc |-> IF backoff THEN "identity" ELSE "use"]
    OBVIOUS
  <2>2. Handling(r)
    BY <2>1 DEF Handling, PolicyPhases
  <2> QED
    BY <1>2, <1>4, <2>1, <2>2 DEF Policy!Current
<1>5. CASE Policy!Identity(t)
  <2>1. PICK r : r = [pc |-> "compare", path |-> Policy!candidate, stamp |-> Policy!Stamp(Policy!candidate)]
    OBVIOUS
  <2>2. Handling(r)
    BY <2>1 DEF Handling, PolicyPhases
  <2> QED
    BY <1>2, <1>3, <1>5, <2>1, <2>2 DEF Policy!Identity
<1>6. CASE Policy!Compare(t)
  <2>1. PICK r : r = [pc |-> IF pid[t].path = wake.policy.path /\ pid[t].stamp = wake.stamp THEN "use" ELSE "load"]
    OBVIOUS
  <2>2. Handling(r)
    BY <2>1 DEF Handling, PolicyPhases
  <2> QED
    BY <1>2, <1>3, <1>6, <2>1, <2>2 DEF Policy!Compare
<1>7. CASE Policy!LoadStamp(t)
  <2>1. PICK path : path = Policy!candidate
    OBVIOUS
  <2>2. PICK r : r = [pc |-> "read", path |-> path, stamp |-> Policy!Stamp(path)]
    OBVIOUS
  <2>3. Known(path) /\ Policy!Stamp(path) \in 0..MaxWrites
    BY <2>1, CandidateIsKnown, LoadedIsAccepted
  <2>4. Handling(r)
    BY <2>2, <2>3 DEF Handling, PolicyPhases
  <2> QED
    BY <1>2, <1>3, <1>7, <2>1, <2>2, <2>4 DEF Policy!LoadStamp
<1>8. CASE Policy!LoadRead(t)
  <2>1. PICK r : r = [pc |-> "publish", stamp |-> pid[t].stamp, policy |-> Policy!load(pid[t].path)]
    OBVIOUS
  <2>2. Known(pid[t].path) /\ pid[t].stamp \in 0..MaxWrites
    BY <1>1, <1>8 DEF Policy!LoadRead, Handling
  <2>3. Handling(r)
    BY <2>1, <2>2, LoadedIsAccepted DEF Handling, PolicyPhases
  <2> QED
    BY <1>2, <1>3, <1>8, <2>1, <2>3 DEF Policy!LoadRead
<1>9. CASE Policy!Publish(t)
  <2>1. Accepted(pid[t].policy) /\ pid[t].stamp \in 0..MaxWrites
    BY <1>1, <1>9 DEF Policy!Publish, Handling
  <2>2. PICK r : r = [pc |-> "use"]
    OBVIOUS
  <2>3. Handling(r)
    BY <2>2 DEF Handling, PolicyPhases
  <2> QED
    BY <1>3, <1>9, <2>1, <2>2, <2>3, ThreadMoves DEF Policy!Publish
<1>10. CASE Policy!Use(t)
  <2>1. PICK r : r = [pc |-> "root", policy |-> wake.policy]
    OBVIOUS
  <2>2. Handling(r)
    BY <2>1 DEF Handling, PolicyPhases, PolicyInv
  <2> QED
    BY <1>2, <1>3, <1>10, <2>1, <2>2 DEF Policy!Use
<1>11. Handling(Policy!Idle)
  BY DEF Handling, PolicyPhases, Policy!Idle
<1>12. CASE Policy!OpenRoot(t)
  <2>1. PICK p : p = pid[t].policy
    OBVIOUS
  <2>2. Accepted(p)
    BY <1>1, <1>12, <2>1 DEF Policy!OpenRoot, Handling
  <2>3. UNCHANGED <<state, stopping, wake, session>> /\ backoff' \in BOOLEAN
    BY <1>3, <1>12 DEF Policy!OpenRoot
  <2>4. CASE Policy!Set(t, Policy!Idle)
    BY <1>2, <1>11, <2>3, <2>4
  <2>5. ASSUME NEW i \in DOMAIN p.doc.roots, NEW real, real = Policy!Real(p.doc.roots[i].path),
               Policy!recheck_root_real(real, p.path), Policy!Set(t, [pc |-> "granted", real |-> real])
        PROVE  PolicyInv'
    <3>1. real \in Seq(Segments)
      <4>1. p.doc.roots[i].path \in Seq(STRING)
        BY <2>2 DEF Accepted
      <4>2. stopping \in Policy!Targets
        BY DEF PolicyInv
      <4> QED
        BY <2>5, <4>1, <4>2, RealIsPath
    <3>2. PICK r : r = [pc |-> "granted", real |-> real]
      OBVIOUS
    <3>3. Handling(r)
      BY <2>5, <3>1, <3>2, RecheckedIsSafe DEF Handling, PolicyPhases
    <3> QED
      BY <1>2, <2>3, <2>5, <3>2, <3>3
  <2> QED
    BY <1>12, <2>1, <2>4, <2>5 DEF Policy!OpenRoot
<1>13. CASE Policy!Done(t)
  BY <1>2, <1>3, <1>11, <1>13 DEF Policy!Done
<1> QED
  BY <1>4, <1>5, <1>6, <1>7, <1>8, <1>9, <1>10, <1>12, <1>13

LEMMA PolicyStep == PolicyInv /\ [Policy!Next]_(Policy!vars) => PolicyInv'
<1> SUFFICES ASSUME PolicyInv, [Policy!Next]_(Policy!vars) PROVE PolicyInv'
  OBVIOUS
<1>1. CASE UNCHANGED Policy!vars
  BY <1>1 DEF Policy!vars, PolicyInv
<1>2. CASE Policy!Write
  <2>1. /\ UNCHANGED <<stopping, wake, backoff, pid>>
        /\ session < MaxWrites /\ session' = session + 1
    BY <1>2 DEF Policy!Write
  <2>2. session \in Nat /\ MaxWrites \in Nat /\ session + 1 \in 1..MaxWrites
    BY <2>1, SuiteAssumption DEF PolicyInv, Policy!PolicyConstants
  <2>3. PICK p \in PolicyFiles, f \in FileType : state' = [state EXCEPT ![p] = f]
    <3>1. PICK p \in PolicyFiles :
            \/ \E d \in Docs, a \in Attrs :
                 state' = [state EXCEPT ![p] = [kind |-> a.kind, doc |-> d, attr |-> a, id |-> session + 1]]
            \/ state' = [state EXCEPT ![p] = Policy!NoFile]
      BY <1>2 DEF Policy!Write, PolicyFiles
    <3>2. ASSUME state' = [state EXCEPT ![p] = Policy!NoFile]
          PROVE  \E f \in FileType : state' = [state EXCEPT ![p] = f]
      BY <3>2 DEF FileType
    <3>3. ASSUME NEW d \in Docs, NEW a \in Attrs,
                 state' = [state EXCEPT ![p] = [kind |-> a.kind, doc |-> d, attr |-> a, id |-> session + 1]]
          PROVE  \E f \in FileType : state' = [state EXCEPT ![p] = f]
      <4>1. a.kind \in {"file", "symlink"}
        BY SuiteAssumption DEF Policy!PolicyConstants
      <4>2. [kind |-> a.kind, doc |-> d, attr |-> a, id |-> session + 1] \in FileType
        BY <2>2, <4>1 DEF FileType
      <4> QED
        BY <3>3, <4>2
    <3> QED
      BY <3>1, <3>2, <3>3
  <2>4. state' \in [PolicyFiles -> FileType]
    <3>1. state \in [PolicyFiles -> FileType]
      BY DEF PolicyInv
    <3> QED
      BY <2>3, <3>1
  <2> QED
    BY <2>1, <2>2, <2>4 DEF PolicyInv
<1>3. CASE Policy!Retarget
  BY <1>3 DEF Policy!Retarget, PolicyInv
<1>4. CASE Policy!Elapse
  BY <1>4 DEF Policy!Elapse, PolicyInv
<1> QED
  BY <1>1, <1>2, <1>3, <1>4, PolicyThreadStep DEF Policy!Next

LEMMA PolicyInit == Policy!Init => PolicyInv
<1> SUFFICES ASSUME Policy!Init PROVE PolicyInv
  OBVIOUS
<1>1. state \in [PolicyFiles -> FileType]
  BY DEF Policy!Init, PolicyFiles, FileType
<1>2. PICK p : p = Policy!monitor_policy(<<>>, 0) /\ Accepted(p)
  BY MonitorIsAccepted
<1>3. wake = [policy |-> wake.policy, stamp |-> wake.stamp] /\ Accepted(wake.policy) /\ wake.stamp = 0
  <2>1. wake = [policy |-> p, stamp |-> 0]
    BY <1>2 DEF Policy!Init
  <2>2. wake.policy = p /\ wake.stamp = 0
    BY <2>1
  <2> QED
    BY <1>2, <2>1, <2>2
<1>4. Handling(Policy!Idle)
  BY DEF Handling, PolicyPhases, Policy!Idle
<1>5. pid = [t \in Threads |-> pid[t]] /\ \A t \in Threads : Handling(pid[t])
  BY <1>4 DEF Policy!Init
<1>6. MaxWrites \in Nat
  BY SuiteAssumption DEF Policy!PolicyConstants
<1> QED
  <2>1. stopping \in Policy!Targets /\ backoff \in BOOLEAN /\ session = 0
    BY DEF Policy!Init, Policy!Targets
  <2>2. 0 \in 0..MaxWrites
    BY <1>6
  <2> QED
    BY <1>1, <1>3, <1>5, <2>1, <2>2 DEF PolicyInv

(* open_root and recheck_root_real of confine.rs and policy.rs, under       *)
(* PolicyStore's reloads by any number of threads, any documents and files: *)
(* no operation is given a root from which it could reach a policy file,    *)
(* and a policy is obeyed only when every field of it was accepted.         *)
THEOREM SuiteRootsHoldNoPolicy == SuiteSpec => []RootsHoldNoPolicy
<1> DEFINE Kept == part = "policy" => PolicyInv
<1>1. SuiteInit => Kept
  BY PolicyInit DEF SuiteInit
<1>2. Kept /\ [SuiteNext]_suiteVars => Kept'
  <2> SUFFICES ASSUME Kept, [SuiteNext]_suiteVars, part' = "policy" PROVE PolicyInv'
    OBVIOUS
  <2>1. CASE SuiteNext
    BY <2>1, PolicyStep DEF SuiteNext
  <2>2. CASE UNCHANGED suiteVars
    <3>1. part = "policy" /\ UNCHANGED Policy!vars
      BY <2>2 DEF suiteVars, vars, linkVars, reqVars, rcVars, Policy!vars
    <3> QED
      BY <3>1, PolicyStep
  <2> QED
    BY <2>1, <2>2
<1>3. PolicyInv => Policy!TypeOK /\ Policy!RootsHoldNoPolicy
  <2> SUFFICES ASSUME PolicyInv PROVE Policy!TypeOK /\ Policy!RootsHoldNoPolicy
    OBVIOUS
  <2>1. Policy!RootsHoldNoPolicy
    BY DEF PolicyInv, Handling, HoldsNoPolicy, PolicyFiles, Policy!RootsHoldNoPolicy
  <2>2. \A t \in Threads : pid[t].pc \in PolicyPhases
    BY DEF PolicyInv, Handling
  <2>3. /\ wake.policy.mode \in {"monitor", "manage"} /\ wake.stamp \in 0..MaxWrites
        /\ (wake.policy.mode = "manage" => wake.policy.doc.bad = {})
    BY DEF PolicyInv, Accepted
  <2>4. state \in [PolicyFiles -> FileType] /\ stopping \in Policy!Targets /\ backoff \in BOOLEAN
    BY DEF PolicyInv
  <2> QED
    BY <2>1, <2>2, <2>3, <2>4 DEF Policy!TypeOK, PolicyPhases, PolicyFiles, FileType
<1>4. Kept => RootsHoldNoPolicy
  BY <1>3 DEF RootsHoldNoPolicy
<1> QED
  BY <1>1, <1>2, <1>4, PTL DEF SuiteSpec

-----------------------------------------------------------------------------
(* The editor's Validate.  The hub's check_policy is the node's parse but    *)
(* for what the hub cannot know, and that can only refuse a root: result by *)
(* result the two lists agree, or the node's says "broad" or "overlap"; so  *)
(* the first thing wrong is the same, or such a root.                      *)
\* Two lists of results that agree but where the first says "broad" or "overlap".
Differing(n, a, b) == {a[i] : i \in {j \in 1..n : a[j] # b[j]}}
LEMMA FirstsAgree ==
  ASSUME NEW n \in Nat, NEW a, NEW b, a = [i \in 1..n |-> a[i]], b = [i \in 1..n |-> b[i]],
         \A i \in 1..n : a[i] = b[i] \/ a[i] \in {"broad", "overlap"}
  PROVE  Policy!FirstWrong(a) = Policy!FirstWrong(b) \/ Policy!FirstWrong(a) \in Differing(n, a, b)
<1>1. /\ Len(a) = n /\ Len(b) = n
  BY LenProperties
<1> DEFINE I == {i \in 1..n : a[i] # "ok"}
           J == {i \in 1..n : b[i] # "ok"}
<1>2. Policy!FirstWrong(a) = IF I # {} THEN a[Policy!Min(I)] ELSE "ok"
  <2>1. Policy!SelectInSeq(a, LAMBDA c : c # "ok") = IF I # {} THEN Policy!Min(I) ELSE 0
    BY <1>1 DEF Policy!SelectInSeq
  <2>2. ASSUME I # {} PROVE Policy!Min(I) # 0
    <3>1. I \subseteq Nat /\ 0 \notin I
      OBVIOUS
    <3> HIDE DEF I
    <3> QED
      BY <2>2, <3>1, LeastIndex
  <2> QED
    BY <2>1, <2>2 DEF Policy!FirstWrong
<1>3. Policy!FirstWrong(b) = IF J # {} THEN b[Policy!Min(J)] ELSE "ok"
  <2>1. Policy!SelectInSeq(b, LAMBDA c : c # "ok") = IF J # {} THEN Policy!Min(J) ELSE 0
    BY <1>1 DEF Policy!SelectInSeq
  <2>2. ASSUME J # {} PROVE Policy!Min(J) # 0
    <3>1. J \subseteq Nat /\ 0 \notin J
      OBVIOUS
    <3> HIDE DEF J
    <3> QED
      BY <2>2, <3>1, LeastIndex
  <2> QED
    BY <2>1, <2>2 DEF Policy!FirstWrong
<1>4. J \subseteq I /\ I \subseteq Nat /\ J \subseteq Nat
  OBVIOUS
<1>5. CASE I = {}
  BY <1>2, <1>3, <1>4, <1>5
<1>6. CASE I # {}
  <2>1. PICK k \in I : k = Policy!Min(I) /\ \A j \in I : k <= j
    BY <1>4, <1>6, LeastIndex
  <2>2. CASE a[k] = b[k]
    <3>1. k \in J
      BY <2>2
    <3>2. PICK m \in J : m = Policy!Min(J) /\ \A j \in J : m <= j
      BY <1>4, <3>1, LeastIndex
    <3>3. k <= m /\ m <= k /\ k \in Nat /\ m \in Nat
      BY <1>4, <2>1, <3>1, <3>2
    <3>4. k = m
      BY <3>3
    <3> QED
      BY <1>2, <1>3, <1>6, <2>1, <2>2, <3>1, <3>2, <3>4
  <2> QED
    BY <1>2, <1>6, <2>1, <2>2 DEF Differing
<1> QED
  BY <1>5, <1>6

\* The two groups of fields an entry of a list is looked through for first.
LEMMA FirstFields ==
  ASSUME NEW bad
  PROVE  /\ Policy!Sections(<<"object", "keys", "id">>, bad) = "ok" <=> bad \cap {"object", "keys", "id"} = {}
         /\ Policy!Sections(<<"object", "keys", "name">>, bad) = "ok" <=> bad \cap {"object", "keys", "name"} = {}
         /\ Policy!Sections(<<"kind">>, bad) = IF "kind" \in bad THEN "kind" ELSE "ok"
         /\ Policy!Sections(<<"containers">>, bad) = IF "containers" \in bad THEN "containers" ELSE "ok"
<1>0. ASSUME NEW T, "ok" \notin T, NEW list \in Seq(T), Policy!ToSet(list) = T
      PROVE  (Policy!Sections(list, bad) = "ok" <=> T \cap bad = {}) /\ Policy!Sections(list, bad) \in {"ok"} \cup T
  BY <1>0, FieldsChecked
<1>1. PICK S1, order1 : /\ S1 = {"object", "keys", "id"} /\ order1 = <<"object", "keys", "id">>
                        /\ "ok" \notin S1 /\ order1 \in Seq(S1) /\ Policy!ToSet(order1) = S1
  <2>1. <<"object", "keys", "id">> \in Seq({"object", "keys", "id"}) /\ Policy!ToSet(<<"object", "keys", "id">>) = {"object", "keys", "id"}
    BY DEF Policy!ToSet
  <2> QED
    BY <2>1
<1>2. PICK S2, order2 : /\ S2 = {"object", "keys", "name"} /\ order2 = <<"object", "keys", "name">>
                        /\ "ok" \notin S2 /\ order2 \in Seq(S2) /\ Policy!ToSet(order2) = S2
  <2>1. <<"object", "keys", "name">> \in Seq({"object", "keys", "name"}) /\ Policy!ToSet(<<"object", "keys", "name">>) = {"object", "keys", "name"}
    BY DEF Policy!ToSet
  <2> QED
    BY <2>1
<1>3. PICK S3, order3 : /\ S3 = {"kind"} /\ order3 = <<"kind">>
                        /\ "ok" \notin S3 /\ order3 \in Seq(S3) /\ Policy!ToSet(order3) = S3
  <2>1. <<"kind">> \in Seq({"kind"}) /\ Policy!ToSet(<<"kind">>) = {"kind"}
    BY DEF Policy!ToSet
  <2> QED
    BY <2>1
<1>4. PICK S4, order4 : /\ S4 = {"containers"} /\ order4 = <<"containers">>
                        /\ "ok" \notin S4 /\ order4 \in Seq(S4) /\ Policy!ToSet(order4) = S4
  <2>1. <<"containers">> \in Seq({"containers"}) /\ Policy!ToSet(<<"containers">>) = {"containers"}
    BY DEF Policy!ToSet
  <2> QED
    BY <2>1
<1>5. Policy!Sections(<<"object", "keys", "id">>, bad) = "ok" <=> bad \cap {"object", "keys", "id"} = {}
  <2>1. (Policy!Sections(order1, bad) = "ok" <=> S1 \cap bad = {}) /\ Policy!Sections(order1, bad) \in {"ok"} \cup S1
    BY <1>1, <1>0
  <2> QED
    BY <1>1, <2>1
<1>6. Policy!Sections(<<"object", "keys", "name">>, bad) = "ok" <=> bad \cap {"object", "keys", "name"} = {}
  <2>1. (Policy!Sections(order2, bad) = "ok" <=> S2 \cap bad = {}) /\ Policy!Sections(order2, bad) \in {"ok"} \cup S2
    BY <1>2, <1>0
  <2> QED
    BY <1>2, <2>1
<1>7. Policy!Sections(<<"kind">>, bad) = IF "kind" \in bad THEN "kind" ELSE "ok"
  <2>1. (Policy!Sections(order3, bad) = "ok" <=> S3 \cap bad = {}) /\ Policy!Sections(order3, bad) \in {"ok"} \cup S3
    BY <1>3, <1>0
  <2> QED
    BY <1>3, <2>1
<1>8. Policy!Sections(<<"containers">>, bad) = IF "containers" \in bad THEN "containers" ELSE "ok"
  <2>1. (Policy!Sections(order4, bad) = "ok" <=> S4 \cap bad = {}) /\ Policy!Sections(order4, bad) \in {"ok"} \cup S4
    BY <1>4, <1>0
  <2> QED
    BY <1>4, <2>1
<1> QED
  BY <1>5, <1>6, <1>7, <1>8

\* root_path where nothing is known: the mirror's own checks of a path.
MirrorPath(r) ==
  IF ~r.absolute THEN "path" ELSE IF r.dots THEN "segments"
  ELSE IF r.path \in Policy!Forbidden THEN "broad"
  ELSE IF Policy!inside(r.path, Policy!Front(Policy!Etc)) \/ Policy!inside(Policy!Front(Policy!Etc), r.path) THEN "overlap"
  ELSE "ok"

LEMMA PathOnHub ==
  ASSUME NEW r
  PROVE  Policy!root_path(r, Policy!OnHub) = MirrorPath(r)
<1>1. /\ Policy!OnHub.home = {} /\ Policy!OnHub.path = {} /\ Policy!OnHub.follow = FALSE
      /\ \A q : Policy!path_forms(q, FALSE) = {q}
  BY DEF Policy!OnHub, Policy!path_forms
<1>2. Policy!too_broad(Policy!path_forms(r.path, FALSE), Policy!OnHub) <=> r.path \in Policy!Forbidden
  <2>1. UNION {Policy!path_forms(h, Policy!OnHub.follow) : h \in Policy!OnHub.home} = {}
    BY <1>1
  <2>2. Policy!too_broad({r.path}, Policy!OnHub) <=> {r.path} \cap (Policy!Forbidden \cup {}) # {}
    BY <2>1 DEF Policy!too_broad
  <2> QED
    BY <1>1, <2>2
<1> DEFINE etc == Policy!Front(Policy!Etc)
<1>3. Policy!protected_dirs(Policy!OnHub) = {etc}
  <2>1. {Policy!Front(p) : p \in Policy!OnHub.path} = {}
    BY <1>1
  <2>2. UNION {{h \o <<".ssh">>, h \o <<".config", "ecnode">>, h \o <<".local", "state", "ecnode">>} : h \in Policy!OnHub.home} = {}
    BY <1>1
  <2> QED
    BY <2>1, <2>2, PathsAre DEF Policy!protected_dirs
<1> HIDE DEF etc
<1>4. UNION {Policy!path_forms(x, Policy!OnHub.follow) : x \in Policy!protected_dirs(Policy!OnHub)} = {etc}
  <2>1. Policy!path_forms(etc, Policy!OnHub.follow) = {etc}
    BY <1>1
  <2>2. {Policy!path_forms(x, Policy!OnHub.follow) : x \in {etc}} = {Policy!path_forms(etc, Policy!OnHub.follow)}
    BY Zenon
  <2> QED
    BY <1>3, <2>1, <2>2
<1>5. UNION {Policy!path_forms(h, Policy!OnHub.follow) : h \in Policy!OnHub.home} = {}
  BY <1>1
<1>6. Policy!check_root_overlap(r.path, Policy!OnHub) <=>
        ~(Policy!inside(r.path, etc) \/ Policy!inside(etc, r.path))
  <2>1. Policy!path_forms(r.path, Policy!OnHub.follow) = {r.path}
    BY <1>1
  <2> QED
    BY <1>4, <1>5, <2>1 DEF Policy!check_root_overlap
<1> QED
  BY <1>1, <1>2, <1>6 DEF Policy!root_path, MirrorPath, etc

\* What the node knows can only add a refusal.
LEMMA PathOnNode ==
  ASSUME NEW r, NEW path
  PROVE  \/ Policy!root_path(r, Policy!OnNode(path)) = MirrorPath(r)
         \/ Policy!OnlyNodeRefuses(r, Policy!OnNode(path))
<1> DEFINE who == Policy!OnNode(path)
           found == Policy!root_path(r, who)
<1>1. who.follow = TRUE
  BY DEF Policy!OnNode
<1> HIDE DEF who
<1>2. r.path \in Policy!path_forms(r.path, who.follow) /\ \A q : q \in Policy!path_forms(q, who.follow)
  BY <1>1 DEF Policy!path_forms
<1>3. Policy!Front(Policy!Etc) \in Policy!protected_dirs(who)
  BY PathsAre DEF Policy!protected_dirs
<1>4. found \notin {"broad", "overlap"} => found = MirrorPath(r)
  <2>1. r.path \in Policy!Forbidden => Policy!too_broad(Policy!path_forms(r.path, who.follow), who)
    BY <1>2 DEF Policy!too_broad
  <2>2. Policy!inside(r.path, Policy!Front(Policy!Etc)) \/ Policy!inside(Policy!Front(Policy!Etc), r.path) =>
          ~Policy!check_root_overlap(r.path, who)
    BY <1>2, <1>3 DEF Policy!check_root_overlap
  <2> QED
    BY <2>1, <2>2 DEF Policy!root_path, MirrorPath
<1>5. found = MirrorPath(r) \/ Policy!OnlyNodeRefuses(r, who)
  BY <1>4, PathOnHub DEF Policy!OnlyNodeRefuses
<1> QED
  BY <1>5 DEF who

\* model_root of policy.rs and of policy_check.rs.
LEMMA RootsAgree ==
  ASSUME NEW rs, NEW i, NEW path
  PROVE  /\ Policy!mirror_root(rs, i) = Policy!model_root(rs, i, Policy!OnHub)
         /\ \/ Policy!model_root(rs, i, Policy!OnNode(path)) = Policy!mirror_root(rs, i)
            \/ /\ Policy!OnlyNodeRefuses(rs[i], Policy!OnNode(path))
               /\ Policy!model_root(rs, i, Policy!OnNode(path)) = Policy!root_path(rs[i], Policy!OnNode(path))
<1> DEFINE r == rs[i]
           twice == IF \E j \in 1..(i - 1) : rs[j].id = r.id THEN "root.twice" ELSE "ok"
           first == Policy!Sections(<<"object", "keys", "id">>, r.bad)
           last == Policy!Sections(<<"writable", "label">>, r.bad)
           kind == Policy!Sections(<<"kind">>, r.bad)
           Result(found) == Policy!Then(first, Policy!Then(twice, Policy!Then(kind, Policy!Then(found, last))))
<1>1. \A who : Policy!model_root(rs, i, who) = Result(Policy!root_path(r, who))
  BY DEF Policy!model_root, Policy!Earlier
<1>2. Policy!mirror_root(rs, i) =
        IF r.bad \cap {"object", "keys", "id"} # {} THEN first
        ELSE IF twice # "ok" THEN "root.twice"
        ELSE IF "kind" \in r.bad THEN "kind"
        ELSE IF MirrorPath(r) # "ok" THEN MirrorPath(r)
        ELSE last
  BY DEF Policy!mirror_root, MirrorPath
<1>3. /\ first = "ok" <=> r.bad \cap {"object", "keys", "id"} = {}
      /\ kind = IF "kind" \in r.bad THEN "kind" ELSE "ok"
      /\ twice \in {"ok", "root.twice"}
  BY FirstFields
<1> HIDE DEF r, twice, first, last, kind
<1>4. Policy!mirror_root(rs, i) = Result(MirrorPath(r))
  BY <1>2, <1>3 DEF Policy!Then
<1>5. Policy!mirror_root(rs, i) = Policy!model_root(rs, i, Policy!OnHub)
  BY <1>1, <1>4, PathOnHub
<1>6. ASSUME NEW found, found # "ok" PROVE Result(found) = found \/ Result(found) = Result(MirrorPath(r))
  BY <1>6 DEF Policy!Then
<1>7. PICK found : found = Policy!root_path(r, Policy!OnNode(path))
  OBVIOUS
<1>8. Policy!model_root(rs, i, Policy!OnNode(path)) = Result(found)
  BY <1>1, <1>7
<1>9. found = MirrorPath(r) \/ (Policy!OnlyNodeRefuses(r, Policy!OnNode(path)) /\ found # "ok")
  BY <1>7, PathOnNode DEF Policy!OnlyNodeRefuses
<1> HIDE DEF Result
<1>10. \/ Policy!model_root(rs, i, Policy!OnNode(path)) = Policy!mirror_root(rs, i)
       \/ /\ Policy!OnlyNodeRefuses(r, Policy!OnNode(path))
          /\ Policy!model_root(rs, i, Policy!OnNode(path)) = Policy!root_path(r, Policy!OnNode(path))
  BY <1>4, <1>6, <1>7, <1>8, <1>9
<1> QED
  BY <1>5, <1>10 DEF r

\* script of policy.rs and of policy_check.rs, with the actions.
LEMMA ScriptsAgree ==
  ASSUME NEW ss, NEW i
  PROVE  Policy!script(ss, i) = Policy!mirror_script(ss, i)
<1>1. ASSUME NEW as, NEW j PROVE Policy!script_action(as, j) = Policy!mirror_action(as, j)
  <2>1. Policy!Sections(<<"object", "keys", "name">>, as[j].bad) = "ok" <=> as[j].bad \cap {"object", "keys", "name"} = {}
    BY FirstFields
  <2>2. Policy!Earlier(as, j, "name") <=> as[j].name \in {as[k].name : k \in 1..(j - 1)}
    BY DEF Policy!Earlier
  <2> QED
    BY <2>1, <2>2 DEF Policy!script_action, Policy!mirror_action, Policy!Then
<1> DEFINE s == ss[i]
<1>2. PICK actions : /\ actions = Policy!EachOf(s.actions, LAMBDA j : Policy!script_action(s.actions, j))
                     /\ actions = Policy!EachOf(s.actions, LAMBDA j : Policy!mirror_action(s.actions, j))
  <2>1. [j \in DOMAIN s.actions |-> Policy!script_action(s.actions, j)] = [j \in DOMAIN s.actions |-> Policy!mirror_action(s.actions, j)]
    BY <1>1
  <2> QED
    BY <2>1 DEF Policy!EachOf
<1>3. Policy!Sections(<<"object", "keys", "name">>, s.bad) = "ok" <=> s.bad \cap {"object", "keys", "name"} = {}
  BY FirstFields
<1>4. Policy!Sections(<<"containers">>, s.bad) = IF "containers" \in s.bad THEN "containers" ELSE "ok"
  BY FirstFields
<1>5. Policy!Earlier(ss, i, "name") <=> s.name \in {ss[k].name : k \in 1..(i - 1)}
  BY DEF Policy!Earlier
<1>6. PICK status : /\ status = IF \A j \in DOMAIN s.actions : s.status \notin {"", s.actions[j].name} THEN
                                  (IF s.status = "" THEN "ok" ELSE "status_action") ELSE "ok"
                    /\ status = IF s.status # "" /\ s.status \notin {s.actions[j].name : j \in DOMAIN s.actions}
                                  THEN "status_action" ELSE "ok"
  OBVIOUS
<1>7. Policy!script(ss, i) =
        Policy!Then(Policy!Sections(<<"object", "keys", "name">>, s.bad),
        Policy!Then(IF Policy!Earlier(ss, i, "name") THEN "script.twice" ELSE "ok",
        Policy!Then(Policy!Sections(<<"containers">>, s.bad),
        Policy!Then(actions, Policy!Then(status, Policy!Sections(<<"timeout_s", "label", "engine", "description">>, s.bad))))))
  BY <1>2, <1>6 DEF Policy!script
<1>8. Policy!mirror_script(ss, i) =
        IF s.bad \cap {"object", "keys", "name"} # {} THEN Policy!Sections(<<"object", "keys", "name">>, s.bad)
        ELSE IF s.name \in {ss[j].name : j \in 1..(i - 1)} THEN "script.twice"
        ELSE IF "containers" \in s.bad THEN "containers"
        ELSE IF actions # "ok" THEN actions
        ELSE IF status # "ok" THEN "status_action"
        ELSE Policy!Sections(<<"timeout_s", "label", "engine", "description">>, s.bad)
  BY <1>2, <1>6 DEF Policy!mirror_script
<1>9. status \in {"ok", "status_action"}
  BY <1>6
<1> HIDE DEF s
<1> QED
  BY <1>3, <1>4, <1>5, <1>7, <1>8, <1>9 DEF Policy!Then

(* policy.rs parse and policy_check.rs check_policy: for every document and *)
(* wherever the link leads, the hub's answer is the node's own parse's on a *)
(* machine of which nothing is known, and the node's is another only at a   *)
(* root that its home, its policy file or a link makes it refuse.          *)
LEMMA AnswersAgree ==
  ASSUME NEW d \in Drafts, NEW path
  PROVE  /\ Policy!check_policy(d) = Policy!parse(d, Policy!OnHub)
         /\ \/ Policy!parse(d, Policy!OnNode(path)) = Policy!check_policy(d)
            \/ \E i \in DOMAIN d.roots :
                  /\ Policy!OnlyNodeRefuses(d.roots[i], Policy!OnNode(path))
                  /\ Policy!parse(d, Policy!OnNode(path)) = Policy!root_path(d.roots[i], Policy!OnNode(path))
<1> DEFINE who == Policy!OnNode(path)
<1>1. d.roots \in Seq(Policy!RootType)
  BY SuiteAssumption DEF Policy!PolicyConstants, Policy!DocType
<1>2. PICK n \in Nat : n = Len(d.roots) /\ DOMAIN d.roots = 1..n
  BY <1>1
<1>3. PICK a : a = [i \in 1..n |-> Policy!model_root(d.roots, i, who)]
  OBVIOUS
<1>4. PICK b : b = [i \in 1..n |-> Policy!mirror_root(d.roots, i)]
  OBVIOUS
<1>5. \A i \in 1..n : a[i] = b[i] \/ (/\ Policy!OnlyNodeRefuses(d.roots[i], who)
                                      /\ a[i] = Policy!root_path(d.roots[i], who))
  BY <1>3, <1>4, RootsAgree
<1>6. /\ a = [i \in 1..n |-> a[i]] /\ b = [i \in 1..n |-> b[i]]
      /\ \A i \in 1..n : a[i] = b[i] \/ a[i] \in {"broad", "overlap"}
  BY <1>3, <1>4, <1>5 DEF Policy!OnlyNodeRefuses
<1>7. Policy!FirstWrong(a) = Policy!FirstWrong(b) \/ Policy!FirstWrong(a) \in Differing(n, a, b)
  BY <1>6, FirstsAgree
<1>8. PICK scripts : /\ scripts = Policy!EachOf(d.scripts, LAMBDA i : Policy!script(d.scripts, i))
                     /\ scripts = Policy!EachOf(d.scripts, LAMBDA i : Policy!mirror_script(d.scripts, i))
  <2>1. [i \in DOMAIN d.scripts |-> Policy!script(d.scripts, i)] = [i \in DOMAIN d.scripts |-> Policy!mirror_script(d.scripts, i)]
    BY ScriptsAgree
  <2> QED
    BY <2>1 DEF Policy!EachOf
<1> DEFINE first == Policy!Sections(Policy!PolicyFields, d.bad)
           last == Policy!Then(scripts, Policy!Sections(Policy!LimitFields, d.bad))
<1>9. Policy!parse(d, who) = Policy!Then(first, Policy!Then(Policy!FirstWrong(a), last))
  BY <1>2, <1>3, <1>8 DEF Policy!parse, Policy!EachOf
<1>10. Policy!check_policy(d) = Policy!Then(first, Policy!Then(Policy!FirstWrong(b), last))
  BY <1>2, <1>4, <1>8 DEF Policy!check_policy, Policy!EachOf
<1>11. Policy!check_policy(d) = Policy!parse(d, Policy!OnHub)
  <2>1. b = [i \in 1..n |-> Policy!model_root(d.roots, i, Policy!OnHub)]
    BY <1>4, RootsAgree
  <2>2. Policy!parse(d, Policy!OnHub) = Policy!Then(first, Policy!Then(Policy!FirstWrong(b), last))
    BY <1>2, <1>8, <2>1 DEF Policy!parse, Policy!EachOf
  <2> QED
    BY <1>10, <2>2
<1> HIDE DEF who, first, last
<1>12. CASE Policy!FirstWrong(a) = Policy!FirstWrong(b)
  BY <1>9, <1>10, <1>11, <1>12 DEF who
<1>13. ASSUME NEW i \in 1..n, a[i] # b[i], Policy!FirstWrong(a) = a[i]
       PROVE  \/ Policy!parse(d, who) = Policy!check_policy(d)
              \/ /\ Policy!OnlyNodeRefuses(d.roots[i], who)
                 /\ Policy!parse(d, who) = Policy!root_path(d.roots[i], who)
  <2>1. /\ Policy!OnlyNodeRefuses(d.roots[i], who)
        /\ a[i] = Policy!root_path(d.roots[i], who) /\ a[i] # "ok"
    BY <1>5, <1>6, <1>13
  <2>2. Policy!parse(d, who) = IF first # "ok" THEN first ELSE a[i]
    BY <1>9, <1>13, <2>1 DEF Policy!Then
  <2>3. first # "ok" => Policy!check_policy(d) = first
    BY <1>10 DEF Policy!Then
  <2> QED
    BY <2>1, <2>2, <2>3
<1> QED
  BY <1>2, <1>7, <1>11, <1>12, <1>13 DEF Differing, who

(* The editor's Validate: for every document of the type, and wherever the  *)
(* link leads, check_policy answers what the node's parse would without a   *)
(* home, a policy path and links, and the node answers something else only  *)
(* for a root that those make it refuse as too broad or overlapping.       *)
THEOREM SuiteMirrorAgrees == SuiteSpec => []MirrorAgrees
<1>1. Policy!MirrorAgrees
  BY AnswersAgree DEF Policy!MirrorAgrees
<1>2. MirrorAgrees
  BY <1>1 DEF MirrorAgrees
<1> QED
  BY <1>2, PTL
=============================================================================
