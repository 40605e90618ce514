------------------------------- MODULE Scripts -------------------------------
(***************************************************************************)
(* Lifecycle scripts: one operator script of one host, from the hub's job  *)
(* (services/scripts.rs of the hub) to the process group on the node       *)
(* (scripts.rs and util/proc.rs of the node).                              *)
(*                                                                         *)
(* A job is one action, or `down` then `up`; each step is one request      *)
(* `scripts.run`.  On the node one thread runs the leader of a new process *)
(* group and relays its output; a timer and the cancel hook stop the group *)
(* meanwhile.  A script may leave a child in the background: it keeps the  *)
(* pipe open.  A browser follows the output through `stream`.              *)
(*                                                                         *)
(* Output lines are counted, never spelled out: line k of a job is k.      *)
(***************************************************************************)
EXTENDS Naturals, Sequences, FiniteSets, SequencesExt, FiniteSetsExt

CONSTANTS
    Job,          \* the jobs a user may start
    Setups,       \* what those jobs may be (see `setup`)
    None,         \* no job
    MaxLines,     \* lines kept of a job (MAX_LINES)
    MaxJobs,      \* finished jobs kept (MAX_JOBS)
    Odds,         \* odd events: link losses, panics, hosts removed, the 4 h limit, failed
                  \* spawns, a shutdown
    ChattyChild   \* whether a background child writes at least every 500 ms

\* A job that is never started is one of no action.
ScriptConstants ==
    /\ None \notin Job /\ MaxLines \in Nat /\ MaxJobs \in Nat /\ Odds \in Nat
    /\ Setups \subseteq [Job -> [action : {"none", "up", "restart"}, watched : BOOLEAN, out : Nat, mute : BOOLEAN]]

ASSUME ScriptAssumption == ScriptConstants

VARIABLES
    setup,    \* each job: its action, whether a browser may follow it, the lines one
              \* leader of it writes, and whether a leader may close its output and run
              \* on; it never changes
    job,      \* hub: each job and its task
    jobs,     \* hub: the ids of the jobs it knows, oldest first
    running,  \* hub: the job that holds the script, or None
    sub,      \* hub: one subscriber of a job's output
    shut,     \* hub: "no", "cancelled" (shutdown began)
    req,      \* the request of a job's present step: its way to the node and its answers
    link,     \* "up" or "down"
    run,      \* node: the run of a job's present step
    busy,     \* node: the run that holds the script's name, or None
    ran,      \* history: the actions whose leader exited, per job, with the outcome
    odd       \* odd events so far

changing == <<job, jobs, running, sub, shut, req, link, run, busy, ran, odd>>
vars == <<setup, changing>>
hub == <<job, jobs, running, sub, shut>>
node == <<run, busy, ran>>

Plan(j) == IF setup[j].action = "restart" THEN <<"down", "up">> ELSE <<"up">>
NoReq == [st |-> "none", answers |-> <<>>, cancel |-> "no"]
NoRun == [pc |-> "none", leader |-> "none", closed |-> "no", bg |-> "none", wrote |-> 0, pipe |-> 0,
          grace |-> "no", late |-> "no", stop |-> "no", cancelled |-> "no"]

TypeOK ==
    /\ running \in Job \cup {None} /\ busy \in Job \cup {None}
    /\ \A j \in Job :
          /\ job[j].state \in {"none", "running", "completed", "failed"}
          /\ job[j].pc \in {"none", "open", "reading", "ending", "release", "over"}
          /\ req[j].st \in {"none", "sent", "node", "over"}
          /\ run[j].pc \in {"none", "reading", "slot", "answer", "returned"}

Init ==
    /\ setup \in Setups
    /\ job = [j \in Job |-> [state |-> "none", plan |-> <<>>, at |-> 0, pc |-> "none",
                             outcome |-> "none", total |-> 0]]
    /\ jobs = <<>> /\ running = None /\ shut = "no"
    /\ sub = [pc |-> "none", of |-> None, seen |-> 0, fin |-> "no", pos |-> 0]
    /\ req = [j \in Job |-> NoReq] /\ link = "up"
    /\ run = [j \in Job |-> NoRun] /\ busy = None
    /\ ran = [j \in Job |-> <<>>] /\ odd = 0

Odd == odd < Odds /\ odd' = odd + 1

------------------------------------------------------------------------------
(* The hub: starting a job. *)

finished(j, js) == js[j].state \notin {"none", "running"}

\* Finished jobs over the limit are forgotten, the oldest first.
evict(ids, js) ==
    LET done == SelectSeq(ids, LAMBDA j : finished(j, js))
        n == IF Len(done) > MaxJobs THEN Len(done) - MaxJobs ELSE 0
        gone == ToSet(SubSeq(done, 1, n))
    IN SelectSeq(ids, LAMBDA j : j \notin gone)

\* `run` and `restart`: the link is up, the machine in manage mode, and the name
\* is free.  They are calls of the API, whose connections have all ended when the
\* shutdown begins (serve).  evict takes the lock of the jobs again: only a
\* listing of the jobs could tell.
Free == running = None
Start(j) ==
    /\ setup[j].action # "none" /\ shut = "no" /\ job[j].pc = "none" /\ link = "up" /\ Free
    /\ job' = [job EXCEPT ![j] = [state |-> "running", plan |-> Plan(j), at |-> 1, pc |-> "open",
                                  outcome |-> "none", total |-> 0]]
    /\ running' = j
    /\ jobs' = evict(Append(jobs, j), job')
    /\ UNCHANGED <<sub, shut, req, link, node, odd>>

------------------------------------------------------------------------------
(* The hub: the task of a job (Runner::execute, Runner::one). *)

\* The outcome is decided; anything but an exit status leaves a last line.
Decide(j, o, lines) ==
    job' = [job EXCEPT ![j].pc = "ending", ![j].outcome = o,
                       ![j].total = @ + lines + (IF o \in {"rc 0", "rc 1"} THEN 0 ELSE 1)]
Header(j) == IF Len(job[j].plan) > 1 THEN 1 ELSE 0

Open(j) ==
    /\ job[j].pc = "open"
    /\ \/ link = "up" /\ UNCHANGED odd
          /\ job' = [job EXCEPT ![j].pc = "reading", ![j].total = @ + Header(j)]
          /\ req' = [req EXCEPT ![j] = [NoReq EXCEPT !.st = "sent"]]
       \/ link = "down" /\ Decide(j, "node", Header(j)) /\ UNCHANGED <<req, odd>>
       \/ Odd /\ Decide(j, "internal", Header(j)) /\ UNCHANGED req    \* the host was removed
    /\ UNCHANGED <<jobs, running, sub, shut, link, node>>

\* A step that exited with 0 is followed by the next one; any other outcome
\* ends the job.
NextStepAnyway(j, answer) ==    \* mutant: a failed `down` is followed by `up`
    IF answer \in {"rc 0", "rc 1"} /\ job[j].at < Len(job[j].plan)
    THEN job' = [job EXCEPT ![j].at = @ + 1, ![j].pc = "open"]
    ELSE Decide(j, IF answer \in {"rc 0", "rc 1"} THEN answer ELSE "node", 0)
NextStep(j, answer) ==
    IF answer = "rc 0" /\ job[j].at < Len(job[j].plan)
    THEN job' = [job EXCEPT ![j].at = @ + 1, ![j].pc = "open"]
    ELSE Decide(j, IF answer \in {"rc 0", "rc 1"} THEN answer ELSE "node", 0)
Read(j) ==
    /\ job[j].pc = "reading" /\ req[j].answers # <<>>
    /\ IF Head(req[j].answers) = "line"
       THEN job' = [job EXCEPT ![j].total = @ + 1]
       ELSE NextStep(j, Head(req[j].answers))
    /\ req' = [req EXCEPT ![j].answers = Tail(@)]
    /\ UNCHANGED <<jobs, running, sub, shut, link, node, odd>>

\* Dropping an unfinished stream cancels its request.
Abandon(j) == req' = [req EXCEPT ![j].cancel = IF @ = "no" /\ link = "up" THEN "sent" ELSE @,
                                 ![j].answers = <<>>]

\* JOB_MAX_S is over, or a panic in the step.
GiveUp(j) ==
    /\ job[j].pc = "reading" /\ Odd
    /\ \E o \in {"node", "internal"} : Decide(j, o, 0)
    /\ Abandon(j)
    /\ UNCHANGED <<jobs, running, sub, shut, link, node>>

Cancelled(j) ==
    /\ shut = "cancelled" /\ job[j].pc \in {"open", "reading"}
    /\ Decide(j, "cancelled", IF job[j].pc = "open" THEN Header(j) ELSE 0)
    /\ IF job[j].pc = "reading" THEN Abandon(j) ELSE UNCHANGED req
    /\ UNCHANGED <<jobs, running, sub, shut, link, node, odd>>

SetState(j) ==
    /\ job[j].pc = "ending"
    /\ job' = [job EXCEPT ![j].pc = "release", ![j].state = IF job[j].outcome = "rc 0" THEN "completed" ELSE "failed"]
    /\ UNCHANGED <<jobs, running, sub, shut, req, link, node, odd>>

\* The name is free again, then the subscribers are woken.
Release(j) ==
    /\ job[j].pc = "release"
    /\ running' = None
    /\ job' = [job EXCEPT ![j].pc = "over"]
    /\ UNCHANGED <<jobs, sub, shut, req, link, node, odd>>

\* shutdown: tell every job, wait at most 5 s for each; then the links
\* go, which is LinkLost.
Shutdown ==
    /\ shut = "no" /\ Odd
    /\ shut' = "cancelled" /\ sub' = [sub EXCEPT !.pc = "ended", !.of = None]
    /\ UNCHANGED <<job, jobs, running, req, link, node>>

------------------------------------------------------------------------------
(* The hub: a subscriber (ScriptService::stream). *)

\* `changed` counts the lines and the end.
Version(j) == job[j].total + (IF job[j].pc = "over" THEN 1 ELSE 0)
Base(j) == IF job[j].total > MaxLines THEN job[j].total - MaxLines ELSE 0

\* (with `once` a stream is one such round: a prefix of what is modelled)
Subscribe(j) ==
    /\ sub.pc = "none" /\ shut = "no" /\ setup[j].watched /\ Contains(jobs, j)
    /\ sub' = [sub EXCEPT !.pc = "mark", !.of = j]
    /\ UNCHANGED <<job, jobs, running, shut, req, link, node, odd>>

\* One round: mark the version as seen, read the state, then the lines.
MarkAhead == sub.pc = "mark" /\ sub' = [sub EXCEPT !.pc = "state", !.seen = Version(sub.of) + 1]    \* mutant
Mark == sub.pc = "mark" /\ sub' = [sub EXCEPT !.pc = "state", !.seen = Version(sub.of)]
ReadState == sub.pc = "state" /\ sub' = [sub EXCEPT !.pc = "lines", !.fin = IF finished(sub.of, job) THEN "yes" ELSE "no"]
\* What is pending begins at the first line that is still kept.
FromKept(pos) == Max({pos, Base(sub.of)})
Unskipped(total) == sub.pos + (total - FromKept(sub.pos))    \* mutant: the dropped lines are not skipped
Reached(total) == total
ReadLines ==
    /\ sub.pc = "lines"
    /\ sub' = [sub EXCEPT !.pos = Reached(job[sub.of].total),
                          !.seen = IF sub.fin = "yes" THEN 0 ELSE @,
                          !.pc = IF sub.fin = "yes" THEN "ended"
                                 ELSE IF job[sub.of].total = FromKept(sub.pos) THEN "wait" ELSE "mark"]
Wake == sub.pc = "wait" /\ sub.seen # Version(sub.of) /\ sub' = [sub EXCEPT !.pc = "mark"]

Follow ==
    /\ \/ Mark \/ ReadState \/ ReadLines \/ Wake
    /\ UNCHANGED <<job, jobs, running, shut, req, link, node, odd>>

------------------------------------------------------------------------------
(* The link.  A lost link ends the requests on both sides. *)

\* (the hook of a run that reads, or waits for its leader)
Active(j) == run[j].pc \in {"reading", "slot"}
\* (what a cancelled run still writes is read and dropped)
Asked(j) == IF run[j].stop = "no" THEN "asked" ELSE run[j].stop
Stopping(j) ==
    [pc |-> run[j].pc, leader |-> run[j].leader, closed |-> run[j].closed, bg |-> run[j].bg, wrote |-> setup[j].out, pipe |-> 0,
     grace |-> run[j].grace, late |-> run[j].late, stop |-> Asked(j), cancelled |-> "yes"]

Cut ==
    /\ link' = "down"
    /\ req' = [j \in Job |-> IF req[j].st \in {"none", "over"} /\ job[j].pc # "reading" THEN req[j]
                             ELSE [st |-> "over", cancel |-> "done",
                                   answers |-> IF job[j].pc = "reading" THEN <<"lost">> ELSE <<>>]]
    /\ run' = [j \in Job |-> IF Active(j) THEN Stopping(j) ELSE run[j]]
    /\ UNCHANGED <<busy, ran>>
LinkLost == link = "up" /\ Odd /\ Cut /\ UNCHANGED hub
LinkBack == link = "down" /\ link' = "up" /\ UNCHANGED <<hub, req, node, odd>>

------------------------------------------------------------------------------
(* The node: one request. *)

Begin(j) ==
    /\ req[j].st = "sent" /\ link = "up"
    /\ \/ /\ busy # None /\ UNCHANGED <<node, odd>>
          /\ req' = [req EXCEPT ![j].st = "over", ![j].answers = Append(@, "busy")]
       \/ /\ busy = None /\ Odd /\ UNCHANGED node    \* the program is missing, or cannot be started
          /\ req' = [req EXCEPT ![j].st = "over", ![j].answers = Append(@, "cannot start")]
       \/ /\ busy = None /\ busy' = j /\ UNCHANGED <<ran, odd>>
          /\ run' = [run EXCEPT ![j] = [NoRun EXCEPT !.pc = "reading", !.leader = "alive"]]
          /\ req' = [req EXCEPT ![j].st = "node"]
    /\ UNCHANGED <<hub, link>>

CancelArrives(j) ==
    /\ req[j].cancel = "sent" /\ req[j].st # "sent" /\ link = "up"
    /\ req' = [req EXCEPT ![j].cancel = "done"]
    /\ run' = [run EXCEPT ![j] = IF Active(j) THEN Stopping(j) ELSE @]
    /\ UNCHANGED <<hub, link, busy, ran, odd>>

\* The operator's script: it writes, leaves a child behind, closes its output
\* and goes on, exits; the child may end.
Exits(j, how) == /\ run' = [run EXCEPT ![j].leader = how]
                 /\ ran' = [ran EXCEPT ![j] = Append(@, <<job[j].plan[job[j].at], how>>)]
ScriptStep(j) ==
    /\ run[j].pc \in {"reading", "slot"}
    /\ \/ /\ run[j].leader = "alive" /\ run[j].closed = "no" /\ run[j].wrote < setup[j].out
          /\ run' = [run EXCEPT ![j].wrote = @ + 1, ![j].pipe = @ + 1] /\ UNCHANGED ran
       \/ /\ run[j].leader = "alive" /\ setup[j].mute /\ run[j].closed = "no"
          /\ run' = [run EXCEPT ![j].closed = "yes"] /\ UNCHANGED ran
       \/ /\ run[j].leader = "alive" /\ run[j].bg = "none"
          /\ run' = [run EXCEPT ![j].bg = "alive"] /\ UNCHANGED ran
       \/ run[j].leader = "alive" /\ \E how \in {"rc 0", "rc 1"} : Exits(j, how)
       \/ run[j].bg = "alive" /\ run' = [run EXCEPT ![j].bg = "none"] /\ UNCHANGED ran
    /\ UNCHANGED <<hub, req, link, busy, odd>>

\* The reading thread: a line; the end of the pipe; 500 ms without a line,
\* which starts and later ends the grace of an exited leader.
PipeHeld(j) == (run[j].leader = "alive" /\ run[j].closed = "no") \/ run[j].bg = "alive"
Line(j) ==
    /\ run[j].pc = "reading" /\ run[j].pipe > 0
    /\ run' = [run EXCEPT ![j].pipe = @ - 1]
    /\ req' = IF run[j].cancelled = "no" /\ job[j].pc = "reading"
              THEN [req EXCEPT ![j].answers = Append(@, "line")] ELSE req
PipeEnd(j) ==
    /\ run[j].pc = "reading" /\ run[j].pipe = 0 /\ ~PipeHeld(j)
    /\ run' = [run EXCEPT ![j].pc = "slot"] /\ UNCHANGED req
ExitedUnseen(j) == FALSE    \* mutant: the grace of an exited leader never starts
Exited(j) == run[j].leader # "alive"
Quiet(j) ==
    /\ run[j].pc = "reading" /\ run[j].pipe = 0 /\ run[j].bg = "alive" /\ ~ChattyChild
    /\ Exited(j)
    /\ run' = IF run[j].grace = "no" THEN [run EXCEPT ![j].grace = "on"] ELSE [run EXCEPT ![j].pc = "slot"]
    /\ UNCHANGED req
Relay(j) == (Line(j) \/ PipeEnd(j) \/ Quiet(j)) /\ UNCHANGED <<hub, link, busy, ran, odd>>

\* The leader was waited for and reaped: the name is given back, then the answer is sent.
GiveBack(j) ==
    /\ run[j].pc = "slot" /\ run[j].leader # "alive"
    /\ busy' = None /\ run' = [run EXCEPT ![j].pc = "answer"]
    /\ UNCHANGED <<hub, req, link, ran, odd>>
Answer(j) ==
    /\ run[j].pc = "answer"
    /\ run' = [run EXCEPT ![j] = [NoRun EXCEPT !.pc = "returned", !.late = run[j].late,
                                               !.bg = IF run[j].late = "yes" THEN run[j].bg ELSE "none"]]
    /\ req' = IF req[j].st # "node" THEN req
              ELSE [req EXCEPT ![j].st = "over",
                               ![j].answers = IF run[j].cancelled = "yes" \/ job[j].pc # "reading" THEN @
                                              ELSE Append(@, IF run[j].late = "yes" THEN "timeout" ELSE run[j].leader)]
    /\ UNCHANGED <<hub, link, busy, ran, odd>>

\* timeout_s is over and the leader still runs (after a cancel it adds nothing).
Timer(j) ==
    /\ Active(j) /\ run[j].leader = "alive" /\ run[j].late = "no" /\ run[j].cancelled = "no"
    /\ run' = [run EXCEPT ![j].late = "yes", ![j].stop = Asked(j)]
    /\ UNCHANGED <<hub, req, link, busy, ran, odd>>

\* kill_group: nothing when the leader exited; else SIGTERM to the group,
\* which each process may ignore, and SIGKILL if the leader outlives the grace.
Signalled(j, die) ==
    run' = [run EXCEPT ![j].stop = "term", ![j].leader = IF "leader" \in die THEN "rc 1" ELSE @,
                       ![j].bg = IF "bg" \in die THEN "none" ELSE @]
KillLeader(j) == ran' = IF run[j].leader = "alive" /\ run'[j].leader # "alive"
                        THEN [ran EXCEPT ![j] = Append(@, <<job[j].plan[job[j].at], "rc 1">>)] ELSE ran
Term(j) ==
    /\ run[j].stop = "asked"
    /\ IF run[j].leader # "alive" THEN run' = [run EXCEPT ![j].stop = "done"]
       ELSE \E die \in SUBSET {"leader", "bg"} : Signalled(j, die)
    /\ KillLeader(j) /\ UNCHANGED <<hub, req, link, busy, odd>>
Outlived(j) == run[j].leader = "alive"
Kill(j) ==
    /\ run[j].stop = "term"
    /\ run' = [run EXCEPT ![j].stop = "done", ![j].leader = IF Outlived(j) THEN "rc 1" ELSE @,
                          ![j].bg = IF Outlived(j) THEN "none" ELSE @]
    /\ KillLeader(j) /\ UNCHANGED <<hub, req, link, busy, odd>>

------------------------------------------------------------------------------
HubStep(j) == Open(j) \/ Read(j) \/ Cancelled(j) \/ SetState(j) \/ Release(j)
NodeStep(j) == Begin(j) \/ CancelArrives(j) \/ Relay(j) \/ GiveBack(j) \/ Answer(j)
Stop(j) == Term(j) \/ Kill(j)

Next ==
    /\ \/ \E j \in Job : \/ Start(j) \/ HubStep(j) \/ GiveUp(j) \/ Subscribe(j)
                         \/ NodeStep(j) \/ ScriptStep(j) \/ Timer(j) \/ Stop(j)
       \/ Follow \/ Shutdown \/ LinkLost \/ LinkBack
    /\ UNCHANGED setup

\* Tasks and threads run; the timer of a run goes off; a script need not end.
Fairness ==
    /\ WF_changing(Follow)
    /\ \A j \in Job : WF_changing(HubStep(j)) /\ WF_changing(NodeStep(j)) /\ WF_changing(Timer(j)) /\ WF_changing(Stop(j))
Spec == Init /\ [][Next]_vars /\ Fairness

------------------------------------------------------------------------------
\* A job is completed only when each step's leader exited with 0, in the order
\* of the plan; `up` never runs after a `down` that failed or was stopped, and
\* no two leaders of the script run at once, whatever the hub thinks.
\* ("Stops at the first failure: never starts what failed to stop".)
StepsInOrder ==
    /\ \A j \in Job :
         /\ job[j].state = "completed" => ran[j] = [k \in DOMAIN job[j].plan |-> <<job[j].plan[k], "rc 0">>]
         /\ Len(ran[j]) > 1 => ran[j][1] = <<"down", "rc 0">>
    /\ Cardinality({j \in Job : run[j].leader = "alive"}) <= 1
StepsFollow == TypeOK /\ StepsInOrder

\* A subscriber that saw the job end was given its last line too.
LinesSeen == sub.pc = "ended" /\ sub.of # None => sub.pos = job[sub.of].total

\* The node's name is given back, and the leader stopped, after a cancel, a
\* timeout or a lost link, unless a background child keeps writing; and a
\* subscriber reaches the end of its job: no wake-up is lost, every step is
\* answered, and the node's timer ends a script that hangs.
Busy == busy # None
Following == sub.of # None /\ sub.pc = "mark"
Followed == sub.pc = "ended"
NamesReturn == (Busy ~> ~Busy) /\ (Following ~> Followed)

\* "is stopped with its whole process group" (ecnode/src/scripts.rs:9): no
\* process of a run that outlived its timeout is left when it has answered.
StoppedWhole == \A j \in Job : run[j].pc = "returned" /\ run[j].late = "yes" => run[j].bg # "alive"
==============================================================================
