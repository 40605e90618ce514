------------------------------ MODULE NodeLink ------------------------------
(***************************************************************************)
(* The hub keeps one `NodeLink` per machine (ec-hub/src/services/fleet.rs):*)
(* its run() task spawns the node process, waits for its hello, reads until*)
(* the conversation ends, fails what was pending, reaps the process, and   *)
(* tries again after a backoff.  Callers of begin(), reconnect() and stop()*)
(* run beside it on the multi-threaded runtime and share the `State` behind*)
(* one mutex: an action here is one critical section, or one step between  *)
(* two awaits.                                                             *)
(*                                                                         *)
(* A process is named by the session that spawned it.  Time is abstracted  *)
(* to the order of events: a timeout may fire whenever what it waits for   *)
(* has not happened.  The environment misbehaves at most MaxFaults times   *)
(* and reconnect() is called once by each member of Callers, so behaviours *)
(* are finite without any bound on what the hub does.                      *)
(***************************************************************************)
EXTENDS Naturals, FiniteSets

CONSTANTS
  Callers,     \* tasks that call reconnect()
  Requests,    \* requests that callers of begin() make
  MaxFaults,   \* failed spawns, bad hellos, crashes, hangs, protocol errors
  BackoffMin, BackoffMax

LinkConstants ==
  /\ IsFiniteSet(Callers) /\ IsFiniteSet(Requests)
  /\ MaxFaults \in Nat
  /\ BackoffMin \in Nat \ {0} /\ BackoffMax \in Nat /\ BackoffMin <= BackoffMax

\* Every session but the last ends with a fault or a reconnect.
Sessions == 1..(MaxFaults + 2 * Cardinality(Callers) + 1)
None == 0

VARIABLES
  \* `State`
  state,      \* "connecting" | "up" | "down" | "incompatible"
  stopping, wake, backoff,
  pid,        \* the node process, None when there is none to signal
  session,    \* sessions started
  writer,     \* whose stdin the hub still holds open, or None
  pending,    \* requests waiting for their answer
  sample,     \* latest["sample"] is there
  \* the run() task
  pc,         \* where it is
  talk,       \* how the conversation ended: retry class and was_up
  \* callers
  outcome,    \* per request: "none" | "refused" | "answered" | "unavailable"
  rc,         \* per reconnect(): its pc and what its first lock read
  timers,     \* grace timers reconnect() left behind: sessions to kill
  stop,       \* stop(): its pc and the pid its first lock read
  \* the operating system
  proc,       \* per session: "none" | "running" | "hung" | "exited" | "reaped"
  faults

linkVars == <<stopping, wake, backoff, pid, session, writer>>
reqVars  == <<pending, outcome>>
rcVars   == <<rc, timers>>
vars     == <<state, linkVars, sample, pc, talk, reqVars, rcVars, stop, proc, faults>>

NoTalk == [retry |-> "backoff", was_up |-> FALSE]

Init ==
  /\ state = "connecting" /\ stopping = FALSE /\ wake = FALSE
  /\ backoff = BackoffMin /\ pid = None /\ session = 0 /\ writer = None
  /\ pending = {} /\ sample = FALSE
  /\ pc = "top" /\ talk = NoTalk
  /\ outcome = [r \in Requests |-> "none"]
  /\ rc = [c \in Callers |-> [at |-> "idle", pid |-> None, state |-> "down", session |-> 0]]
  /\ timers = {}
  /\ stop = [at |-> "idle", pid |-> None]
  /\ proc = [s \in Sessions |-> "none"]
  /\ faults = 0

Fault == faults < MaxFaults /\ faults' = faults + 1

Alive(s) == proc[s] \in {"running", "hung"}

\* kill_proc: SIGKILL to the process group; pid None signals nothing.
kill_proc(s) ==
  proc' = IF s # None /\ Alive(s) THEN [proc EXCEPT ![s] = "exited"] ELSE proc

\* fail_all: every pending request ends unavailable.
fail_all_keeps ==
  /\ outcome' = [r \in Requests |-> IF r \in pending THEN "unavailable" ELSE outcome[r]]
  /\ UNCHANGED pending
fail_all ==
  /\ outcome' = [r \in Requests |-> IF r \in pending THEN "unavailable" ELSE outcome[r]]
  /\ pending' = {}

-----------------------------------------------------------------------------
(* run(): one attempt after another.                                       *)

RunTop ==
  /\ pc = "top"
  /\ IF stopping
     THEN pc' = "returned" /\ UNCHANGED <<wake, state>>
     ELSE pc' = "spawn" /\ wake' = FALSE /\ state' = "connecting"
  /\ UNCHANGED <<stopping, backoff, pid, session, writer, sample, talk,
                 reqVars, rcVars, stop, proc, faults>>

\* session() cannot even start a process: no key (a person must fix it), no
\* program, no pipes.
SpawnFails ==
  /\ pc = "spawn" /\ Fault
  /\ \E retry \in {"fix", "backoff"} : talk' = [retry |-> retry, was_up |-> FALSE]
  /\ pc' = "decide"
  /\ UNCHANGED <<state, linkVars, sample, reqVars, rcVars, stop, proc>>

\* session() adopts the process it started; a stop() that ran meanwhile saw no
\* pid to signal, so the new process is killed here.
Spawn ==
  /\ pc = "spawn"
  /\ session' = session + 1
  /\ pid' = session + 1
  /\ writer' = session + 1
  /\ proc' = [proc EXCEPT ![session + 1] = IF stopping THEN "exited" ELSE "running"]
  /\ talk' = NoTalk
  /\ pc' = "hello"
  /\ UNCHANGED <<state, stopping, wake, backoff, sample, reqVars, rcVars, stop,
                 faults>>

\* connected(): "a reconnect request has been served".
Connected ==
  /\ pc = "hello" /\ proc[session] = "running"
  /\ wake' = FALSE
  /\ state' = "up"
  /\ talk' = [retry |-> "backoff", was_up |-> TRUE]
  /\ pc' = "up"
  /\ UNCHANGED <<stopping, backoff, pid, session, writer, sample, reqVars,
                 rcVars, stop, proc, faults>>

\* converse(): an incompatible hello or a `fatal` message ends it without a
\* kill; a timeout or a broken first frame kills the process.
BadHello ==
  /\ pc = "hello" /\ Alive(session) /\ Fault
  /\ \/ /\ talk' = [retry |-> "incompatible", was_up |-> FALSE]
        /\ UNCHANGED proc
     \/ UNCHANGED <<talk, proc>>
     \/ kill_proc(pid) /\ UNCHANGED talk
  /\ pc' = "over"
  /\ UNCHANGED <<state, linkVars, sample, reqVars, rcVars, stop>>

\* A hung process does not say hello: hello_timeout_s.
HelloOverdueNever == FALSE
HelloOverdue == proc[session] = "hung"

HelloTimeout ==
  /\ pc = "hello" /\ HelloOverdue
  /\ kill_proc(pid)
  /\ pc' = "over"
  /\ UNCHANGED <<state, linkVars, sample, talk, reqVars, rcVars, stop, faults>>

\* Its pipes closed.
Closed ==
  /\ pc \in {"hello", "up"} /\ proc[session] \in {"exited", "reaped"}
  /\ pc' = "over"
  /\ UNCHANGED <<state, linkVars, sample, talk, reqVars, rcVars, stop, proc, faults>>

\* read_loop drops a node that breaks the protocol or floods.
ProtocolError ==
  /\ pc = "up" /\ Alive(session) /\ Fault
  /\ kill_proc(pid)
  /\ pc' = "over"
  /\ UNCHANGED <<state, linkVars, sample, talk, reqVars, rcVars, stop>>

\* watch_once: nothing from the node for silent_s.
SilentNever == FALSE
Silent == proc[session] = "hung"

Silence ==
  /\ pc = "up" /\ Silent
  /\ kill_proc(pid)
  /\ UNCHANGED <<state, linkVars, sample, pc, talk, reqVars, rcVars, stop, faults>>

\* on_json "sample"
OnSample ==
  /\ pc = "up" /\ proc[session] = "running" /\ ~sample
  /\ sample' = TRUE
  /\ UNCHANGED <<state, linkVars, pc, talk, reqVars, rcVars, stop, proc, faults>>

\* The conversation is over: "from here nothing may be sent" ...
CloseWriter ==
  /\ pc = "over"
  /\ writer' = None
  /\ pc' = "fail"
  /\ UNCHANGED <<state, stopping, wake, backoff, pid, session, sample, talk,
                 reqVars, rcVars, stop, proc, faults>>

\* ... and whoever waits is told ...
FailPending ==
  /\ pc = "fail"
  /\ fail_all
  /\ pc' = "clear"
  /\ UNCHANGED <<state, linkVars, sample, talk, rcVars, stop, proc, faults>>

\* ... and the page stops showing a live host.
SampleKept == sample
SampleAfterDrop == FALSE

Clear ==
  /\ pc = "clear"
  /\ sample' = SampleAfterDrop
  /\ state' = IF talk.was_up THEN "down" ELSE state
  /\ pc' = "reap"
  /\ UNCHANGED <<linkVars, talk, reqVars, rcVars, stop, proc, faults>>

\* reap(): exit_grace_s for the process to leave on its own, then the kill.
ReapKill ==
  /\ pc = "reap" /\ Alive(session)
  /\ kill_proc(session)
  /\ UNCHANGED <<state, linkVars, sample, pc, talk, reqVars, rcVars, stop, faults>>

ReapReadyAnyway == TRUE
ReapReady == proc[session] = "exited"

Reap ==
  /\ pc = "reap" /\ ReapReady
  /\ proc' = [proc EXCEPT ![session] = IF @ = "exited" THEN "reaped" ELSE @]
  /\ pid' = None
  /\ pc' = "drain"
  /\ UNCHANGED <<state, stopping, wake, backoff, session, writer, sample, talk,
                 reqVars, rcVars, stop, faults>>

\* The end of session(): the rest of stderr is read, the guard dropped.
Drain ==
  /\ pc = "drain"
  /\ writer' = None
  /\ pc' = "decide"
  /\ UNCHANGED <<state, stopping, wake, backoff, pid, session, sample, talk,
                 reqVars, rcVars, stop, proc, faults>>

\* run() decides: return, retry now, or wait.  Only an attempt that was not
\* asked for and has no retry class of its own backs off; a link that was up
\* for stable_s starts over.
NextBackoffUncapped(base) == 2 * base
NextBackoff(base) == IF 2 * base <= BackoffMax THEN 2 * base ELSE BackoffMax

Decide ==
  /\ pc = "decide"
  /\ IF stopping THEN pc' = "returned" /\ UNCHANGED <<state, backoff>>
     ELSE IF wake THEN pc' = "top" /\ UNCHANGED <<state, backoff>>
     ELSE /\ pc' = "sleep"
          /\ state' = IF talk.retry = "incompatible" THEN "incompatible" ELSE "down"
          /\ IF talk.retry # "backoff" THEN UNCHANGED backoff
             ELSE \E base \in {backoff} \cup (IF talk.was_up THEN {BackoffMin} ELSE {}) :
                    backoff' = NextBackoff(base)
  /\ UNCHANGED <<stopping, wake, pid, session, writer, sample, talk,
                 reqVars, rcVars, stop, proc, faults>>

\* wait_wake: the delay is over, or somebody asks for a retry.
Wake ==
  /\ pc = "sleep"
  /\ pc' = "top"
  /\ UNCHANGED <<state, linkVars, sample, talk, reqVars, rcVars, stop, proc, faults>>

-----------------------------------------------------------------------------
(* The node process.                                                       *)

\* It exits when the hub closes its stdin (write_loop ends).
ExitOnEof(s) ==
  /\ proc[s] = "running" /\ writer # s
  /\ proc' = [proc EXCEPT ![s] = "exited"]
  /\ UNCHANGED <<state, linkVars, sample, pc, talk, reqVars, rcVars, stop, faults>>

\* It crashes, or stops making progress (a dead ssh connection looks the same).
Crash(s) ==
  /\ proc[s] = "running" /\ Fault
  /\ \E how \in {"exited", "hung"} : proc' = [proc EXCEPT ![s] = how]
  /\ UNCHANGED <<state, linkVars, sample, pc, talk, reqVars, rcVars, stop>>

-----------------------------------------------------------------------------
(* Requests.                                                               *)

\* begin(): refused unless the link is up and its writer open, in the same
\* critical section that registers the request.
MayBeginUp == state = "up"
MayBegin == state = "up" /\ writer # None

Begin(r) ==
  /\ outcome[r] = "none" /\ r \notin pending
  /\ IF MayBegin THEN pending' = pending \cup {r} /\ UNCHANGED outcome
                 ELSE outcome' = [outcome EXCEPT ![r] = "refused"] /\ UNCHANGED pending
  /\ UNCHANGED <<state, linkVars, sample, pc, talk, rcVars, stop, proc, faults>>

\* on_json "res"
OnRes(r) ==
  /\ pc = "up" /\ proc[session] = "running" /\ r \in pending
  /\ pending' = pending \ {r}
  /\ outcome' = [outcome EXCEPT ![r] = "answered"]
  /\ UNCHANGED <<state, linkVars, sample, pc, talk, rcVars, stop, proc, faults>>

-----------------------------------------------------------------------------
(* reconnect(): two critical sections, and a grace timer.                  *)

ReconnectAsk(c) ==
  /\ rc[c].at = "idle"
  /\ backoff' = BackoffMin
  /\ wake' = TRUE
  /\ rc' = [rc EXCEPT ![c] = [at |-> IF pid = None THEN "done" ELSE "asked",
                              pid |-> pid, state |-> state, session |-> session]]
  /\ UNCHANGED <<state, stopping, pid, session, writer, sample, pc, talk,
                 reqVars, timers, stop, proc, faults>>

\* A connection that is up is dropped gracefully: the node exits on EOF.
DropsWriterIfStale(c) == rc[c].state = "stale"
DropsWriter(c) == rc[c].state = "up"

\* By now the link may be in another state or even another session.
ReconnectDrop(c) ==
  /\ rc[c].at = "asked"
  /\ rc' = [rc EXCEPT ![c].at = "done"]
  /\ IF DropsWriter(c)
     THEN writer' = None /\ timers' = timers \cup {rc[c].session}
     ELSE UNCHANGED <<writer, timers>>
  /\ IF rc[c].state = "connecting" THEN kill_proc(pid) ELSE UNCHANGED proc
  /\ UNCHANGED <<state, stopping, wake, backoff, pid, session, sample, pc, talk,
                 reqVars, stop, faults>>

\* exit_grace_s later: kill only the process of that same session.
GraceTimer(s) ==
  /\ s \in timers
  /\ timers' = timers \ {s}
  /\ IF session = s /\ pid = s THEN kill_proc(pid) ELSE UNCHANGED proc
  /\ UNCHANGED <<state, linkVars, sample, pc, talk, reqVars, rc, stop, faults>>

-----------------------------------------------------------------------------
(* stop(): once, at shutdown.                                              *)

StopBegin ==
  /\ stop.at = "idle"
  /\ stopping' = TRUE /\ wake' = TRUE /\ writer' = None
  /\ stop' = [at |-> "joining", pid |-> pid]
  /\ UNCHANGED <<state, backoff, pid, session, sample, pc, talk, reqVars, rcVars,
                 proc, faults>>

\* Both waits of stop() end with the task.
JoinsFirst == {"joining"}
Joins == {"joining", "killed"}

StopJoined ==
  /\ stop.at \in Joins /\ pc = "returned"
  /\ stop' = [stop EXCEPT !.at = "joined"]
  /\ UNCHANGED <<state, linkVars, sample, pc, talk, reqVars, rcVars, proc, faults>>

\* exit_grace_s without the task ending: kill what the first lock saw.
StopKill ==
  /\ stop.at = "joining" /\ pc # "returned"
  /\ kill_proc(IF stop.pid # None THEN stop.pid ELSE pid)
  /\ stop' = [stop EXCEPT !.at = "killed"]
  /\ UNCHANGED <<state, linkVars, sample, pc, talk, reqVars, rcVars, faults>>

\* 5 s more: abort the task at one of its awaits; ProcGuard kills a process
\* that was not reaped.
StopAbort ==
  /\ stop.at = "killed" /\ pc \in {"hello", "up", "reap", "drain", "sleep"}
  /\ pc' = "returned"
  /\ IF pc \in {"hello", "up", "reap"} THEN kill_proc(pid) ELSE UNCHANGED proc
  /\ stop' = [stop EXCEPT !.at = "joined"]
  /\ UNCHANGED <<state, linkVars, sample, talk, reqVars, rcVars, faults>>

StopFinish ==
  /\ stop.at = "joined"
  /\ kill_proc(pid)
  /\ fail_all
  /\ sample' = FALSE
  /\ state' = "down"
  /\ stop' = [stop EXCEPT !.at = "done"]
  /\ UNCHANGED <<linkVars, pc, talk, rcVars, faults>>

-----------------------------------------------------------------------------
Run  == \/ RunTop \/ SpawnFails \/ Spawn \/ Connected \/ BadHello \/ HelloTimeout
        \/ Closed \/ ProtocolError \/ Silence \/ OnSample
        \/ CloseWriter \/ FailPending \/ Clear \/ ReapKill \/ Reap \/ Drain
        \/ Decide \/ Wake
Node == \E s \in Sessions : ExitOnEof(s) \/ Crash(s)
Stop == StopBegin \/ StopJoined \/ StopKill \/ StopAbort \/ StopFinish
Next == \/ Run \/ Node \/ Stop
        \/ \E r \in Requests : Begin(r) \/ OnRes(r)
        \/ \E c \in Callers : ReconnectAsk(c) \/ ReconnectDrop(c)
        \/ \E s \in Sessions : GraceTimer(s)

Spec == Init /\ [][Next]_vars

-----------------------------------------------------------------------------
(* Correctness.                                                            *)

\* Every field of `State` has its type; the process and the writer the link
\* believes in are the current session's.
TypeOK ==
  /\ state \in {"connecting", "up", "down", "incompatible"}
  /\ stopping \in BOOLEAN /\ wake \in BOOLEAN /\ sample \in BOOLEAN
  /\ backoff \in BackoffMin..BackoffMax
  /\ session \in 0..Cardinality(Sessions)
  /\ pid \in {None, session} /\ writer \in {None, session}
  /\ pending \subseteq Requests
  /\ pc \in {"top", "spawn", "hello", "up", "over", "fail", "clear", "reap",
             "drain", "decide", "sleep", "returned"}
  /\ outcome \in [Requests -> {"none", "refused", "answered", "unavailable"}]
  /\ proc \in [Sessions -> {"none", "running", "hung", "exited", "reaped"}]
  /\ timers \subseteq Sessions

\* "Whatever goes wrong the pending requests fail instead of hanging": nobody
\* waits on a link whose conversation has been wound up, whichever of drop,
\* reconnect and stop came first.
NobodyStranded ==
  pending # {} => \/ pc \in {"up", "over", "fail"}
                  \/ pc = "returned" /\ stop.at = "joined"

\* Numbers of a node are shown only while its link is up.
SampleIsLive == sample => state = "up"

\* At most one node process runs per link, and it is the current session's.
OneProcess == \A s \in Sessions : Alive(s) => s = session /\ pid = s

\* After stop() returns nothing is left: no process, no waiting request, no
\* live state, and the task is over, although stop() raced with an attempt.
StoppedClean ==
  stop.at = "done" =>
    /\ pc = "returned" /\ state = "down" /\ ~sample /\ pending = {}
    /\ \A s \in Sessions : ~Alive(s)

-----------------------------------------------------------------------------
(* Liveness.  The runtime schedules the task and the timers; the operating *)
(* system delivers exits; a healthy node answers.                          *)

Fairness ==
  /\ WF_vars(RunTop) /\ WF_vars(Spawn) /\ WF_vars(Connected)
  /\ WF_vars(HelloTimeout) /\ WF_vars(Closed) /\ WF_vars(Silence)
  /\ WF_vars(CloseWriter) /\ WF_vars(FailPending) /\ WF_vars(Clear)
  /\ WF_vars(ReapKill) /\ WF_vars(Reap) /\ WF_vars(Drain) /\ WF_vars(Decide)
  /\ WF_vars(Wake)
  /\ \A s \in Sessions : WF_vars(ExitOnEof(s)) /\ WF_vars(GraceTimer(s))
  /\ \A r \in Requests : WF_vars(OnRes(r))
  /\ \A c \in Callers : WF_vars(ReconnectDrop(c))
  /\ WF_vars(StopJoined) /\ WF_vars(StopKill) /\ WF_vars(StopAbort)
  /\ WF_vars(StopFinish)

LiveSpec == Spec /\ Fairness

\* Once the environment stops misbehaving, the link is up for good (or was
\* stopped): no lost wake-up, no session nobody ends.
Settled == stopping \/ (state = "up" /\ writer = session)
ComesBack == <>[]Settled

\* A pressed Reconnect is followed by a new session, whatever it raced with.
ReconnectServed ==
  \A c \in Callers : rc[c].at # "idle" ~> (session > rc[c].session \/ stopping)

\* Every request that was accepted ends.
RequestsEnd == \A r \in Requests : r \in pending ~> r \notin pending

\* stop() returns.
StopReturns == stop.at # "idle" ~> stop.at = "done"
=============================================================================
