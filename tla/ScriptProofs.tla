---------------------------- MODULE ScriptProofs ----------------------------
(***************************************************************************)
(* Lifecycle scripts, for any jobs of one script name, any output, any      *)
(* number of lost links, cancels, failures and background children.         *)
(*                                                                         *)
(* What a step's answer says of its leader reaches the hub long after, and  *)
(* by then the link may have been cut, the job given up, the run stopped.   *)
(* So the invariant follows one step of one job from the request to the     *)
(* answer (Steps): the leader of the present step has not run while the     *)
(* request is not on the node, it is in the history once it exited, and     *)
(* "rc 0" is an answer only of a run that has returned, to the step the job *)
(* is still at.  A follower rests on a job that has ended not growing.      *)
(***************************************************************************)
EXTENDS Scripts, FiniteSetTheorems, SequenceTheorems, TLAPS

Codes == {"rc 0", "rc 1"}
Sayings == {"line", "busy", "cannot start", "lost", "timeout"} \cup Codes

\* The fields of each record.
JobShape(r) == r = [state |-> r.state, plan |-> r.plan, at |-> r.at, pc |-> r.pc,
                    outcome |-> r.outcome, total |-> r.total]
ReqShape(r) == r = [st |-> r.st, answers |-> r.answers, cancel |-> r.cancel]
RunShape(r) == r = [pc |-> r.pc, leader |-> r.leader, closed |-> r.closed, bg |-> r.bg, wrote |-> r.wrote, pipe |-> r.pipe,
                    grace |-> r.grace, late |-> r.late, stop |-> r.stop, cancelled |-> r.cancelled]
JobShapes == job = [j \in Job |-> job[j]] /\ \A j \in Job : JobShape(job[j])
ReqShapes == req = [j \in Job |-> req[j]] /\ \A j \in Job : ReqShape(req[j])
RunShapes == run = [j \in Job |-> run[j]] /\ \A j \in Job : RunShape(run[j])
Shapes ==
    /\ JobShapes /\ ReqShapes /\ RunShapes /\ ran = [j \in Job |-> ran[j]]
    /\ sub = [pc |-> sub.pc, of |-> sub.of, seen |-> sub.seen, fin |-> sub.fin, pos |-> sub.pos]

\* Where a job is, and what its plan and state are then.
JobIs(j) ==
    /\ job[j].pc \in {"none", "open", "reading", "ending", "release", "over"}
    /\ job[j].pc = "none" => job[j].state = "none" /\ job[j].plan = <<>> /\ job[j].at = 0
    /\ job[j].pc # "none" => job[j].plan = Plan(j) /\ job[j].at \in 1..Len(Plan(j))
    /\ job[j].pc \in {"open", "reading", "ending"} => job[j].state = "running"
    /\ job[j].pc \in {"release", "over"} => job[j].state \in {"completed", "failed"}
    /\ job[j].state = "completed" => job[j].outcome = "rc 0"

\* What the leaders of a job left in the history: every step before the
\* present one exited with 0.
Past(j) ==
    /\ ran[j] \in Seq({"down", "up"} \X Codes)
    /\ Len(ran[j]) \in {job[j].at, job[j].at - 1}
    /\ \A i \in 1..Len(ran[j]) :
         /\ ran[j][i][1] = job[j].plan[i]
         /\ i < job[j].at => ran[j][i][2] = "rc 0"

\* The leader of the present step did not run, or it did and ended so.
NotRun(j) == Len(ran[j]) = job[j].at - 1
RanAs(j, how) == Len(ran[j]) = job[j].at /\ job[j].at > 0 /\ ran[j][job[j].at][2] = how

StepIs(j) ==
    /\ Past(j)
    /\ run[j].pc \in {"none", "reading", "slot", "answer", "returned"}
    /\ run[j].leader \in {"none", "alive"} \cup Codes
    /\ run[j].leader = "none" <=> run[j].pc \in {"none", "returned"}
    /\ run[j].leader = "alive" => run[j].pc \in {"reading", "slot"} /\ NotRun(j)
    /\ run[j].leader \in Codes => RanAs(j, run[j].leader)
    /\ run[j].pc \in {"reading", "slot", "answer"} =>
         job[j].pc \notin {"none", "open"} /\ req[j].st \in {"node", "over"}
    /\ run[j].pc \in {"none", "returned"} => req[j].st # "node" /\ run[j].stop = "no"
    /\ req[j].st \in {"none", "sent", "node", "over"}
    /\ req[j].st = "sent" => NotRun(j) /\ run[j].pc \in {"none", "returned"} /\ job[j].pc \notin {"none", "open"}
    /\ job[j].pc = "none" => req[j].st = "none" /\ req[j].answers = <<>> /\ run[j].pc = "none" /\ ran[j] = <<>>
    /\ job[j].pc = "open" => NotRun(j) /\ req[j].answers = <<>> /\ req[j].st \in {"none", "over"}
    /\ job[j].pc = "reading" => req[j].st # "none"

\* The answers of a step; only a run that returned says "rc 0", as its last word.
LastWord(j, s) ==
    \A i \in 1..Len(s) : s[i] = "rc 0" =>
      i = Len(s) /\ req[j].st = "over" /\ run[j].pc = "returned" /\ RanAs(j, "rc 0")
AnswerIs(j) ==
    /\ req[j].answers \in Seq(Sayings) /\ LastWord(j, req[j].answers)
    /\ job[j].outcome = "rc 0" =>
         /\ job[j].pc \in {"ending", "release", "over"} /\ job[j].at = Len(Plan(j))
         /\ req[j].st = "over" /\ run[j].pc = "returned" /\ RanAs(j, "rc 0")

\* The name's holder is the run that reads.
Named ==
    /\ running \in Job \cup {None} /\ busy \in Job \cup {None}
    /\ \A j \in Job : run[j].pc \in {"reading", "slot"} => busy = j

Follower ==
    /\ sub.pc \in {"none", "mark", "state", "lines", "wait", "ended"}
    /\ sub.of \in Job \cup {None} /\ (sub.pc \in {"mark", "state", "lines", "wait"} => sub.of \in Job)
    /\ sub.pc = "lines" /\ sub.fin = "yes" => finished(sub.of, job)
    /\ sub.pc = "ended" /\ sub.of # None => finished(sub.of, job) /\ sub.pos = job[sub.of].total

Each == \A j \in Job : JobIs(j) /\ StepIs(j) /\ AnswerIs(j)
ScriptInv == Shapes /\ Each /\ Named /\ Follower
-----------------------------------------------------------------------------
LEMMA PlanIs ==
  ASSUME NEW j \in Job
  PROVE  /\ Plan(j) = <<"up">> \/ Plan(j) = <<"down", "up">>
         /\ Len(Plan(j)) \in {1, 2} /\ \A i \in 1..Len(Plan(j)) : Plan(j)[i] \in {"down", "up"}
BY DEF Plan

\* Arithmetic that the lengths of sequences obscure.
LEMMA Counting ==
  /\ \A a, b \in Nat : a + 1 = b + 1 => a = b
  /\ \A a, b \in Nat : a \in 1..b /\ ~(a < b) => a = b
  /\ \A a, b \in Nat : a \in 1..(b + 1) => a \in 1..b \/ a = b + 1
  /\ \A a \in Nat : a + 1 # a /\ a + 1 - 1 = a /\ (a = 0 \/ a \in 1..a)
OBVIOUS

LEMMA ReqFields ==
  \A r, a, b, c : r = [st |-> a, answers |-> b, cancel |-> c] => r.st = a /\ r.answers = b /\ r.cancel = c
OBVIOUS

LEMMA Pairs == \A S, T : \A p \in S \X T : p = <<p[1], p[2]>>
OBVIOUS

LEMMA NoAnswers ==
  /\ <<>> \in Seq(Sayings) /\ Len(<<>>) = 0 /\ \A i \in 1..Len(<<>>) : FALSE
  /\ \A j \in Job : LastWord(j, <<>>) /\ LastWord(j, <<>>)'
BY DEF LastWord

LEMMA ScriptInit == Init => ScriptInv
<1> SUFFICES ASSUME Init PROVE ScriptInv
  OBVIOUS
<1>1. Shapes
  BY DEF Init, Shapes, JobShapes, ReqShapes, RunShapes, JobShape, ReqShape, RunShape, NoReq, NoRun
<1>2. ASSUME NEW j \in Job PROVE JobIs(j) /\ StepIs(j) /\ AnswerIs(j)
  <2>1. /\ job[j].pc = "none" /\ job[j].state = "none" /\ job[j].plan = <<>> /\ job[j].at = 0
        /\ job[j].outcome = "none" /\ ran[j] = <<>> /\ req[j].st = "none" /\ req[j].answers = <<>>
        /\ run[j].pc = "none" /\ run[j].leader = "none" /\ run[j].stop = "no"
    BY DEF Init, NoReq, NoRun
  <2>2. <<>> \in Seq({"down", "up"} \X Codes) /\ <<>> \in Seq(Sayings) /\ Len(<<>>) = 0
    OBVIOUS
  <2>3. JobIs(j)
    BY <2>1 DEF JobIs
  <2>4. StepIs(j)
    BY <2>1, <2>2 DEF StepIs, Past, NotRun, Codes
  <2>5. AnswerIs(j)
    BY <2>1, <2>2, NoAnswers DEF AnswerIs
  <2> QED
    BY <2>3, <2>4, <2>5
<1>3. Named /\ Follower
  BY DEF Init, Named, Follower, NoRun
<1> QED
  BY <1>1, <1>2, <1>3 DEF ScriptInv, Each

\* Only one job's things change.
LEMMA OneMoves ==
  ASSUME ScriptInv, UNCHANGED setup, NEW j \in Job,
         \A u \in Job \ {j} : job'[u] = job[u] /\ req'[u] = req[u] /\ run'[u] = run[u] /\ ran'[u] = ran[u],
         JobIs(j)', StepIs(j)', AnswerIs(j)'
  PROVE  Each'
<1>1. ASSUME NEW u \in Job, u # j PROVE JobIs(u)' /\ StepIs(u)' /\ AnswerIs(u)'
  <2>1. JobIs(u) /\ StepIs(u) /\ AnswerIs(u)
    BY DEF ScriptInv, Each
  <2>2. job'[u] = job[u] /\ req'[u] = req[u] /\ run'[u] = run[u] /\ ran'[u] = ran[u] /\ Plan(u)' = Plan(u)
    BY <1>1 DEF Plan
  <2>3. JobIs(u)'
    BY <2>1, <2>2 DEF JobIs
  <2>4. StepIs(u)'
    <3>1. Past(u)
      BY <2>1 DEF StepIs
    <3>2. Past(u)'
      BY <2>2, <3>1 DEF Past
    <3>3. (NotRun(u)' <=> NotRun(u)) /\ (RanAs(u, run[u].leader)' <=> RanAs(u, run[u].leader))
      BY <2>2 DEF NotRun, RanAs
    <3> QED
      BY <2>1, <2>2, <3>2, <3>3 DEF StepIs
  <2>5. AnswerIs(u)'
    BY <2>1, <2>2 DEF AnswerIs, LastWord, RanAs
  <2> QED
    BY <2>3, <2>4, <2>5
<1> QED
  BY <1>1 DEF Each

\* The follower stays, and no job that has ended changes.
LEMMA FollowerStays ==
  ASSUME ScriptInv, sub' = sub,
         \A u \in Job : finished(u, job) => finished(u, job)' /\ job'[u].total = job[u].total
  PROVE  Follower'
BY DEF ScriptInv, Follower

\* The node and the history stay; of the job, what the step rests on is given.
LEMMA HubMoves ==
  ASSUME ScriptInv, UNCHANGED <<setup, node, sub>>, NEW j \in Job, Shapes',
         \A u \in Job \ {j} : job'[u] = job[u] /\ req'[u] = req[u],
         running' \in Job \cup {None},
         finished(j, job) => finished(j, job)' /\ job'[j].total = job[j].total,
         JobIs(j)', StepIs(j)', AnswerIs(j)'
  PROVE  ScriptInv'
<1>1. run' = run /\ ran' = ran /\ busy' = busy
  BY DEF node
<1>2. Each'
  BY <1>1, OneMoves
<1>3. Named'
  BY <1>1 DEF ScriptInv, Named
<1>4. Follower'
  <2>1. \A u \in Job : finished(u, job) => finished(u, job)' /\ job'[u].total = job[u].total
    BY DEF finished
  <2> QED
    BY <2>1, FollowerStays
<1> QED
  BY <1>2, <1>3, <1>4 DEF ScriptInv

\* The hub and the setup stay.
LEMMA NodeMoves ==
  ASSUME ScriptInv, UNCHANGED <<setup, hub>>, NEW j \in Job, Shapes',
         \A u \in Job \ {j} : req'[u] = req[u] /\ run'[u] = run[u] /\ ran'[u] = ran[u],
         busy' \in Job \cup {None}, \A u \in Job : run'[u].pc \in {"reading", "slot"} => busy' = u,
         StepIs(j)', AnswerIs(j)'
  PROVE  ScriptInv'
<1>1. job' = job /\ running' = running /\ sub' = sub
  BY DEF hub
<1>2. JobIs(j)'
  BY <1>1 DEF ScriptInv, Each, JobIs, Plan
<1>3. Each'
  BY <1>1, <1>2, OneMoves
<1>4. Named'
  BY <1>1 DEF ScriptInv, Named
<1>5. Follower'
  BY <1>1, FollowerStays DEF finished
<1> QED
  BY <1>3, <1>4, <1>5 DEF ScriptInv
-----------------------------------------------------------------------------
(* The hub's side: a job is started, its task goes on, it ends.             *)
LEMMA StartStep ==
  ASSUME ScriptInv, UNCHANGED setup, NEW j \in Job, Start(j)
  PROVE  ScriptInv'
<1>1. /\ job[j].pc = "none" /\ UNCHANGED <<setup, node, sub, req>> /\ running' = j
      /\ job' = [job EXCEPT ![j] = [state |-> "running", plan |-> Plan(j), at |-> 1, pc |-> "open",
                                    outcome |-> "none", total |-> 0]]
  BY DEF Start
<1>2. JobIs(j) /\ StepIs(j) /\ AnswerIs(j) /\ Shapes
  BY DEF ScriptInv, Each
<1>3. /\ job'[j] = [state |-> "running", plan |-> Plan(j), at |-> 1, pc |-> "open", outcome |-> "none", total |-> 0]
      /\ \A u \in Job \ {j} : job'[u] = job[u]
  BY <1>1, <1>2 DEF Shapes, JobShapes
<1>4. Shapes'
  BY <1>1, <1>2 DEF Shapes, JobShapes, ReqShapes, RunShapes, JobShape, node
<1>5. Plan(j)' = Plan(j) /\ run' = run /\ ran' = ran
  BY <1>1 DEF Plan, node
<1>6. JobIs(j)'
  BY <1>3, <1>5, PlanIs DEF JobIs
<1>7. Past(j)' /\ NotRun(j)'
  <2>1. ran[j] = <<>> /\ Len(ran[j]) = 0
    BY <1>1, <1>2 DEF StepIs
  <2> QED
    BY <1>2, <1>3, <1>5, <2>1 DEF StepIs, Past, NotRun
<1>8. StepIs(j)'
  <2>1. /\ job'[j].pc = "open" /\ run'[j].pc = "none" /\ run'[j].leader = "none" /\ run'[j].stop = "no"
        /\ req'[j].st = "none" /\ req'[j].answers = <<>>
    BY <1>1, <1>2, <1>3, <1>5 DEF StepIs
  <2> QED
    BY <1>7, <2>1 DEF StepIs, Codes
<1>9. AnswerIs(j)'
  <2>1. req'[j].answers = <<>>
    BY <1>1, <1>2 DEF StepIs
  <2> QED
    BY <1>3, <2>1, NoAnswers DEF AnswerIs
<1>10. ~finished(j, job)
  BY <1>1, <1>2 DEF JobIs, finished
<1> QED
  BY <1>1, <1>3, <1>4, <1>6, <1>8, <1>9, <1>10, HubMoves

\* The job is still where it was; its step goes on or is answered for.
LEMMA JobStays ==
  ASSUME ScriptInv, UNCHANGED <<setup, node>>, NEW j \in Job,
         job'[j].plan = job[j].plan, job'[j].at = job[j].at, job'[j].outcome # "rc 0" \/ RanAs(j, "rc 0"),
         job[j].pc \in {"open", "reading", "ending", "release"}, job'[j].pc \in {"reading", "ending", "release", "over"},
         req'[j].st = req[j].st \/ (job[j].pc = "open" /\ req'[j].st = "sent"),
         job'[j].pc = "reading" => req'[j].st # "none"
  PROVE  StepIs(j)'
<1>1. JobIs(j) /\ StepIs(j)
  BY DEF ScriptInv, Each
<1>2. run' = run /\ ran' = ran
  BY DEF node
<1>3. Past(j)' /\ (NotRun(j)' <=> NotRun(j))
  BY <1>1, <1>2 DEF StepIs, Past, NotRun
<1>4. RanAs(j, run[j].leader)' <=> RanAs(j, run[j].leader)
  BY <1>2 DEF RanAs
<1> QED
  BY <1>1, <1>2, <1>3, <1>4 DEF StepIs

\* The outcome of a job is decided, and it is not "rc 0" or its last step was.
LEMMA DecideStep ==
  ASSUME ScriptInv, UNCHANGED <<setup, node, sub, running>>, NEW j \in Job, NEW o, NEW n, Decide(j, o, n),
         job[j].pc \in {"open", "reading"}, Shapes',
         \A u \in Job \ {j} : req'[u] = req[u], req'[j].st = req[j].st,
         req'[j].answers \in Seq(Sayings), LastWord(j, req'[j].answers),
         o = "rc 0" => /\ job[j].at = Len(Plan(j)) /\ req[j].st = "over" /\ run[j].pc = "returned"
                       /\ RanAs(j, "rc 0")
  PROVE  ScriptInv'
<1>1. JobIs(j) /\ StepIs(j) /\ AnswerIs(j) /\ Shapes
  BY DEF ScriptInv, Each
<1>2. /\ job'[j].pc = "ending" /\ job'[j].outcome = o /\ job'[j].state = job[j].state
      /\ job'[j].plan = job[j].plan /\ job'[j].at = job[j].at
      /\ \A u \in Job \ {j} : job'[u] = job[u]
  <2>1. job = [u \in Job |-> job[u]] /\ JobShape(job[j])
    BY <1>1 DEF Shapes, JobShapes
  <2> QED
    BY <2>1 DEF Decide, JobShape
<1>3. Plan(j)' = Plan(j) /\ run' = run /\ ran' = ran
  BY DEF Plan, node
<1>4. JobIs(j)'
  BY <1>1, <1>2, <1>3 DEF JobIs
<1>5. StepIs(j)'
  BY <1>2, JobStays
<1>6. AnswerIs(j)'
  BY <1>2, <1>3 DEF AnswerIs, LastWord, RanAs
<1>7. ~finished(j, job)
  BY <1>1 DEF JobIs, finished
<1>8. running' \in Job \cup {None}
  BY DEF ScriptInv, Named
<1> QED
  BY <1>2, <1>4, <1>5, <1>6, <1>7, <1>8, HubMoves

LEMMA DecidedShape ==
  ASSUME JobShapes, NEW j \in Job, NEW o, NEW n, Decide(j, o, n)
  PROVE  JobShapes'
BY DEF Decide, JobShapes, JobShape

\* Runner::one asks the node, or the step ends before it did.
LEMMA OpenStep ==
  ASSUME ScriptInv, UNCHANGED setup, NEW j \in Job, Open(j)
  PROVE  ScriptInv'
<1>1. job[j].pc = "open" /\ UNCHANGED <<setup, node, sub, running>>
  BY DEF Open
<1>2. JobIs(j) /\ StepIs(j) /\ AnswerIs(j) /\ Shapes
  BY DEF ScriptInv, Each
<1>3. CASE /\ job' = [job EXCEPT ![j].pc = "reading", ![j].total = @ + Header(j)]
           /\ req' = [req EXCEPT ![j] = [NoReq EXCEPT !.st = "sent"]]
  <2>1. /\ job'[j].pc = "reading" /\ job'[j].outcome = job[j].outcome /\ job'[j].state = job[j].state
        /\ job'[j].plan = job[j].plan /\ job'[j].at = job[j].at
        /\ \A u \in Job \ {j} : job'[u] = job[u]
        /\ JobShapes'
    <3>1. JobShapes
      BY <1>2 DEF Shapes
    <3>2. job' = [job EXCEPT ![j].pc = "reading", ![j].total = @ + Header(j)]
      BY <1>3
    <3>3. JobShapes'
      BY <3>1, <3>2 DEF JobShapes, JobShape
    <3>4. /\ job'[j].pc = "reading" /\ job'[j].outcome = job[j].outcome /\ job'[j].state = job[j].state
          /\ job'[j].plan = job[j].plan /\ job'[j].at = job[j].at
      BY <3>1, <3>2 DEF JobShapes, JobShape
    <3>5. \A u \in Job \ {j} : job'[u] = job[u]
      BY <3>1, <3>2 DEF JobShapes
    <3> QED
      BY <3>3, <3>4, <3>5
  <2>2. /\ req'[j].st = "sent" /\ req'[j].answers = <<>> /\ \A u \in Job \ {j} : req'[u] = req[u]
        /\ ReqShapes'
    BY <1>2, <1>3 DEF Shapes, ReqShapes, ReqShape, NoReq
  <2>3. Shapes'
    BY <1>1, <1>2, <2>1, <2>2 DEF Shapes, RunShapes, node
  <2>4. Plan(j)' = Plan(j) /\ run' = run /\ ran' = ran
    BY <1>1 DEF Plan, node
  <2>5. JobIs(j)'
    BY <1>1, <1>2, <2>1, <2>4 DEF JobIs
  <2>6. job[j].outcome # "rc 0"
    BY <1>1, <1>2 DEF AnswerIs
  <2>7. StepIs(j)'
    <3>1. Past(j)' /\ NotRun(j)'
      BY <1>1, <1>2, <2>1, <2>4 DEF StepIs, Past, NotRun
    <3>2. run[j].pc \in {"none", "returned"} /\ run[j].stop = "no" /\ run[j].leader = "none"
      BY <1>1, <1>2 DEF StepIs
    <3> QED
      BY <2>1, <2>2, <2>4, <3>1, <3>2 DEF StepIs, Codes
  <2>8. AnswerIs(j)'
    BY <2>1, <2>2, <2>6, NoAnswers DEF AnswerIs
  <2>9. ~finished(j, job) /\ running' \in Job \cup {None}
    BY <1>1, <1>2 DEF JobIs, finished, ScriptInv, Named
  <2> QED
    BY <1>1, <2>1, <2>2, <2>3, <2>5, <2>7, <2>8, <2>9, HubMoves
<1>4. ASSUME NEW o \in {"node", "internal"}, Decide(j, o, Header(j)), UNCHANGED req
      PROVE  ScriptInv'
  <2>1. Shapes'
    <3>1. JobShapes'
      BY <1>2, <1>4, DecidedShape DEF Shapes
    <3> QED
      BY <1>1, <1>2, <1>4, <3>1 DEF Shapes, ReqShapes, RunShapes, node
  <2>2. req'[j].answers = <<>>
    BY <1>1, <1>2, <1>4 DEF StepIs
  <2>3. req'[j].answers \in Seq(Sayings) /\ LastWord(j, req'[j].answers)
    BY <2>2, NoAnswers
  <2> QED
    BY <1>1, <1>4, <2>1, <2>3, DecideStep
<1> QED
  BY <1>3, <1>4 DEF Open

\* The read is given up, or cancelled: what was still to come is not heard.
LEMMA AbandonStep ==
  ASSUME ScriptInv, UNCHANGED <<setup, node, sub, running>>, NEW j \in Job, NEW o, NEW n,
         Decide(j, o, n), o # "rc 0", job[j].pc = "reading", Abandon(j)
  PROVE  ScriptInv'
<1>1. Shapes
  BY DEF ScriptInv
<1>2. /\ req'[j].st = req[j].st /\ req'[j].answers = <<>> /\ \A u \in Job \ {j} : req'[u] = req[u]
      /\ ReqShapes'
  <2>1. ReqShapes
    BY <1>1 DEF Shapes
  <2>2. ReqShapes'
    BY <2>1 DEF Abandon, ReqShapes, ReqShape
  <2>3. req'[j].st = req[j].st /\ req'[j].answers = <<>>
    <3>1. PICK c : req' = [req EXCEPT ![j].cancel = c, ![j].answers = <<>>]
      BY DEF Abandon
    <3>2. req'[j] = [[req[j] EXCEPT !.cancel = c] EXCEPT !.answers = <<>>]
      BY <2>1, <3>1 DEF ReqShapes
    <3> QED
      BY <2>1, <3>2 DEF ReqShapes, ReqShape
  <2>4. \A u \in Job \ {j} : req'[u] = req[u]
    BY <2>1 DEF Abandon, ReqShapes
  <2> QED
    BY <2>2, <2>3, <2>4
<1>3. JobShapes'
  BY <1>1, DecidedShape DEF Shapes
<1>4. Shapes'
  BY <1>1, <1>2, <1>3 DEF Shapes, RunShapes, node
<1>6. req'[j].answers \in Seq(Sayings) /\ LastWord(j, req'[j].answers)
  BY <1>2, NoAnswers
<1> QED
  BY <1>2, <1>4, <1>6, DecideStep

LEMMA GiveUpStep ==
  ASSUME ScriptInv, UNCHANGED setup, NEW j \in Job, GiveUp(j)
  PROVE  ScriptInv'
<1>1. PICK o \in {"node", "internal"} : Decide(j, o, 0)
  BY DEF GiveUp
<1>2. job[j].pc = "reading" /\ Abandon(j) /\ UNCHANGED <<setup, node, sub, running>>
  BY DEF GiveUp
<1> QED
  BY <1>1, <1>2, AbandonStep

LEMMA CancelledStep ==
  ASSUME ScriptInv, UNCHANGED setup, NEW j \in Job, Cancelled(j)
  PROVE  ScriptInv'
<1>1. PICK n : Decide(j, "cancelled", n)
  BY DEF Cancelled
<1>2. job[j].pc \in {"open", "reading"} /\ UNCHANGED <<setup, node, sub, running>>
  BY DEF Cancelled
<1>3. CASE job[j].pc = "reading"
  <2>1. Abandon(j)
    BY <1>3 DEF Cancelled
  <2> QED
    BY <1>1, <1>2, <1>3, <2>1, AbandonStep
<1>4. CASE job[j].pc = "open"
  <2>1. UNCHANGED req
    BY <1>4 DEF Cancelled
  <2>2. Shapes /\ StepIs(j)
    BY DEF ScriptInv, Each
  <2>3. Shapes'
    <3>1. JobShapes'
      BY <1>1, <2>2, DecidedShape DEF Shapes
    <3> QED
      BY <1>2, <2>1, <2>2, <3>1 DEF Shapes, ReqShapes, RunShapes, node
  <2>4. req'[j].answers = <<>>
    BY <1>4, <2>1, <2>2 DEF StepIs
  <2>5. req'[j].answers \in Seq(Sayings) /\ LastWord(j, req'[j].answers)
    BY <2>4, NoAnswers
  <2> QED
    BY <1>1, <1>2, <2>1, <2>3, <2>5, DecideStep
<1> QED
  BY <1>2, <1>3, <1>4

\* One answer is read.
LEMMA TailIs ==
  ASSUME ScriptInv, NEW j \in Job, req[j].answers # <<>>, req' = [req EXCEPT ![j].answers = Tail(@)]
  PROVE  /\ ReqShapes' /\ req'[j].st = req[j].st /\ \A u \in Job \ {j} : req'[u] = req[u]
         /\ req'[j].answers \in Seq(Sayings) /\ LastWord(j, req'[j].answers)
         /\ Head(req[j].answers) \in Sayings
         /\ Head(req[j].answers) = "rc 0" =>
              req'[j].answers = <<>> /\ req[j].st = "over" /\ run[j].pc = "returned" /\ RanAs(j, "rc 0")
<1>1. ReqShapes /\ req[j].answers \in Seq(Sayings) /\ LastWord(j, req[j].answers)
  BY DEF ScriptInv, Shapes, Each, AnswerIs
<1>2. PICK s \in Seq(Sayings) : s = req[j].answers /\ s # <<>>
  BY <1>1
<1>3. PICK t \in Seq(Sayings) : t = Tail(s)
  BY <1>2, HeadTailProperties
<1>4. PICK n \in Nat \ {0} : n = Len(s)
  BY <1>2, HeadTailProperties
<1>5. PICK m \in Nat : m = Len(t)
  BY <1>3, LenProperties
<1>6. m = n - 1 /\ (\A i \in 1..m : t[i] = s[i + 1]) /\ Head(s) = s[1] /\ Head(s) \in Sayings
  BY <1>2, <1>3, <1>4, <1>5, HeadTailProperties
<1>15. n \in Nat \ {0} /\ m \in Nat /\ n = m + 1
  <2>1. n \in Nat \ {0} /\ m \in Nat /\ m = n - 1
    BY <1>4, <1>5, <1>6
  <2> QED
    BY <2>1
<1>7. req' = [req EXCEPT ![j].answers = t]
  BY <1>1, <1>2, <1>3 DEF ReqShapes
<1>8. req'[j].st = req[j].st /\ req'[j].answers = t
  BY <1>1, <1>7 DEF ReqShapes, ReqShape
<1>9. \A u \in Job \ {j} : req'[u] = req[u]
  BY <1>1, <1>7 DEF ReqShapes
<1>10. ReqShapes'
  BY <1>1, <1>7 DEF ReqShapes, ReqShape
<1>11. \A i \in 1..n : s[i] = "rc 0" =>
         i = n /\ req[j].st = "over" /\ run[j].pc = "returned" /\ RanAs(j, "rc 0")
  BY <1>1, <1>2, <1>4 DEF LastWord
<1>12. \A i \in 1..m : t[i] = "rc 0" =>
         i = m /\ req[j].st = "over" /\ run[j].pc = "returned" /\ RanAs(j, "rc 0")
  <2>1. ASSUME NEW i \in 1..m, t[i] = "rc 0"
        PROVE  i = m /\ req[j].st = "over" /\ run[j].pc = "returned" /\ RanAs(j, "rc 0")
    <3>1. i + 1 \in 1..n
      BY <1>15
    <3>3. s[i + 1] = "rc 0"
      BY <1>6, <2>1
    <3>2. i + 1 = n /\ req[j].st = "over" /\ run[j].pc = "returned" /\ RanAs(j, "rc 0")
      BY <1>11, <3>1, <3>3
    <3>6. i + 1 = n
      BY <3>2
    <3>4. i \in Nat /\ m \in Nat /\ i + 1 = m + 1
      BY <1>15, <3>6
    <3>5. i = m
      BY <3>4, Counting
    <3> QED
      BY <3>2, <3>5
  <2> QED
    BY <2>1
<1>13. LastWord(j, t)
  BY <1>5, <1>12 DEF LastWord
<1>14. ASSUME Head(s) = "rc 0"
       PROVE  t = <<>> /\ req[j].st = "over" /\ run[j].pc = "returned" /\ RanAs(j, "rc 0")
  <2>1. 1 \in 1..n
    OBVIOUS
  <2>2. n = 1 /\ req[j].st = "over" /\ run[j].pc = "returned" /\ RanAs(j, "rc 0")
    BY <1>6, <1>11, <1>14, <2>1
  <2>5. n = 1
    BY <2>2
  <2>3. m \in Nat /\ 0 \in Nat /\ m + 1 = 0 + 1
    BY <1>15, <2>5
  <2>4. m = 0
    BY <2>3, Counting
  <2> QED
    BY <1>5, <2>2, <2>4, EmptySeq
<1> QED
  BY <1>2, <1>6, <1>8, <1>9, <1>10, <1>13, <1>14

LEMMA ReadStep ==
  ASSUME ScriptInv, UNCHANGED setup, NEW j \in Job, Read(j)
  PROVE  ScriptInv'
<1>1. /\ job[j].pc = "reading" /\ req[j].answers # <<>> /\ UNCHANGED <<setup, node, sub, running>>
      /\ req' = [req EXCEPT ![j].answers = Tail(@)]
  BY DEF Read
<1>2. JobIs(j) /\ StepIs(j) /\ AnswerIs(j) /\ Shapes
  BY DEF ScriptInv, Each
<1>3. PICK h \in Sayings : h = Head(req[j].answers)
  BY <1>1, TailIs
<1>4. /\ ReqShapes' /\ req'[j].st = req[j].st /\ \A u \in Job \ {j} : req'[u] = req[u]
      /\ req'[j].answers \in Seq(Sayings) /\ LastWord(j, req'[j].answers)
  BY <1>1, TailIs
<1>5. h = "rc 0" =>
        req'[j].answers = <<>> /\ req[j].st = "over" /\ run[j].pc = "returned" /\ RanAs(j, "rc 0")
  BY <1>1, <1>3, TailIs
<1>9. Plan(j)' = Plan(j) /\ run' = run /\ ran' = ran
  BY <1>1 DEF Plan, node
<1>10. ~finished(j, job) /\ running' \in Job \cup {None} /\ job[j].outcome # "rc 0"
  BY <1>1, <1>2 DEF JobIs, AnswerIs, finished, ScriptInv, Named
<1>11. CASE job' = [job EXCEPT ![j].total = @ + 1]
  <2>1. JobShapes
    BY <1>2 DEF Shapes
  <2>2. JobShapes'
    BY <1>11, <2>1 DEF JobShapes, JobShape
  <2>3. /\ job'[j].pc = "reading" /\ job'[j].outcome = job[j].outcome /\ job'[j].state = job[j].state
        /\ job'[j].plan = job[j].plan /\ job'[j].at = job[j].at
    BY <1>1, <1>11, <2>1 DEF JobShapes, JobShape
  <2>4. \A u \in Job \ {j} : job'[u] = job[u]
    BY <1>11, <2>1 DEF JobShapes
  <2>5. Shapes'
    BY <1>1, <1>2, <1>4, <2>2 DEF Shapes, RunShapes, node
  <2>6. JobIs(j)'
    BY <1>1, <1>2, <1>9, <2>3 DEF JobIs
  <2>7. StepIs(j)'
    <3>1. req'[j].st # "none"
      BY <1>1, <1>2, <1>4 DEF StepIs
    <3> QED
      BY <1>1, <1>4, <1>10, <2>3, <3>1, JobStays
  <2>8. AnswerIs(j)'
    <3>1. RanAs(j, "rc 0")' <=> RanAs(j, "rc 0")
      BY <1>9, <2>3 DEF RanAs
    <3>2. LastWord(j, req[j].answers)'
      BY <1>4, <1>9, <3>1 DEF LastWord
    <3> QED
      BY <1>4, <1>10, <2>3, <3>2 DEF AnswerIs
  <2> QED
    BY <1>1, <1>4, <1>10, <2>4, <2>5, <2>6, <2>7, <2>8, HubMoves
<1>12. CASE h = "rc 0" /\ job[j].at < Len(job[j].plan) /\ job' = [job EXCEPT ![j].at = @ + 1, ![j].pc = "open"]
  <2>1. JobShapes
    BY <1>2 DEF Shapes
  <2>2. PICK k : k = job[j].at + 1
    OBVIOUS
  <2>3. job' = [job EXCEPT ![j].at = k, ![j].pc = "open"]
    BY <1>12, <2>1, <2>2 DEF JobShapes
  <2>4. JobShapes'
    BY <2>1, <2>3 DEF JobShapes, JobShape
  <2>5. /\ job'[j].pc = "open" /\ job'[j].outcome = job[j].outcome /\ job'[j].state = job[j].state
        /\ job'[j].plan = job[j].plan /\ job'[j].at = k
    <3>1. job'[j] = [[job[j] EXCEPT !.at = k] EXCEPT !.pc = "open"]
      BY <2>1, <2>3 DEF JobShapes
    <3>2. JobShape(job[j])
      BY <2>1 DEF JobShapes
    <3>3. job'[j] = [state |-> job[j].state, plan |-> job[j].plan, at |-> k, pc |-> "open",
                     outcome |-> job[j].outcome, total |-> job[j].total]
      BY <3>1, <3>2 DEF JobShape
    <3> QED
      BY <3>3
  <2>6. \A u \in Job \ {j} : job'[u] = job[u]
    BY <2>1, <2>3 DEF JobShapes
  <2>7. Shapes'
    BY <1>1, <1>2, <1>4, <2>4 DEF Shapes, RunShapes, node
  <2>8. job[j].plan = Plan(j) /\ job[j].at \in 1..Len(Plan(j)) /\ job[j].state = "running"
    BY <1>1, <1>2 DEF JobIs
  <2>9. k \in 1..Len(Plan(j))
    <3>1. PICK l \in {1, 2} : l = Len(Plan(j))
      BY PlanIs
    <3>2. PICK a : a = job[j].at
      OBVIOUS
    <3>3. a \in 1..l /\ a < l /\ k = a + 1
      BY <1>12, <2>2, <2>8, <3>1, <3>2
    <3>4. l \in Nat /\ k \in 1..l
      BY <3>3
    <3> QED
      BY <3>1, <3>4
  <2>10. JobIs(j)'
    BY <1>2, <1>9, <2>5, <2>8, <2>9 DEF JobIs
  <2>11. RanAs(j, "rc 0") /\ run[j].pc = "returned" /\ req[j].st = "over" /\ req'[j].answers = <<>>
    BY <1>5, <1>12
  <2>12. StepIs(j)'
    <3>1. Past(j) /\ Len(ran[j]) = job[j].at /\ ran[j][job[j].at][2] = "rc 0"
      BY <1>2, <2>11 DEF StepIs, RanAs
    <3>2. PICK a \in Nat : a = job[j].at
      BY <2>8
    <3>7. a \in Nat /\ k = a + 1 /\ k - 1 = a
      <4>1. a \in Nat /\ k = a + 1
        BY <2>2, <3>2
      <4> QED
        BY <4>1
    <3>3. \A i \in 1..a : ran[j][i][2] = "rc 0"
      <4>1. \A i \in 1..a : i < a => ran[j][i][2] = "rc 0"
        BY <3>1, <3>2 DEF Past
      <4>2. ran[j][a][2] = "rc 0"
        BY <3>1, <3>2
      <4>3. \A i \in 1..a : i < a \/ i = a
        BY <3>7, Counting
      <4> QED
        BY <4>1, <4>2, <4>3
    <3>4. Past(j)'
      <4>1. /\ ran[j] \in Seq({"down", "up"} \X Codes) /\ Len(ran[j]) = k - 1
            /\ \A i \in 1..Len(ran[j]) : ran[j][i][1] = job[j].plan[i] /\ ran[j][i][2] = "rc 0"
        BY <3>1, <3>2, <3>3, <3>7 DEF Past
      <4> QED
        BY <1>9, <2>5, <4>1 DEF Past
    <3>5. NotRun(j)'
      BY <1>9, <2>5, <3>1, <3>2, <3>7 DEF NotRun
    <3>6. run[j].leader = "none" /\ run[j].stop = "no"
      BY <1>2, <2>11 DEF StepIs
    <3> QED
      BY <1>4, <1>9, <2>5, <2>11, <3>4, <3>5, <3>6 DEF StepIs, Codes
  <2>13. AnswerIs(j)'
    BY <1>10, <2>5, <2>11, NoAnswers DEF AnswerIs
  <2> QED
    BY <1>1, <1>4, <1>10, <2>6, <2>7, <2>10, <2>12, <2>13, HubMoves
<1>13. ASSUME NEW o, Decide(j, o, 0), o = "rc 0" => h = "rc 0" /\ ~(job[j].at < Len(job[j].plan))
       PROVE  ScriptInv'
  <2>1. Shapes'
    <3>1. JobShapes'
      BY <1>2, <1>13, DecidedShape DEF Shapes
    <3> QED
      BY <1>1, <1>2, <1>4, <3>1 DEF Shapes, RunShapes, node
  <2>2. o = "rc 0" => job[j].at = Len(Plan(j))
    <3>1. PICK l \in {1, 2} : l = Len(Plan(j))
      BY PlanIs
    <3>2. PICK a : a = job[j].at
      OBVIOUS
    <3>3. a \in 1..l /\ (o = "rc 0" => ~(a < l))
      BY <1>1, <1>2, <1>13, <3>1, <3>2 DEF JobIs
    <3>7. l \in {1, 2} /\ a \in 1..l
      BY <3>1, <3>3
    <3>5. a \in Nat /\ l \in Nat
      BY <3>7
    <3>6. a \in 1..l /\ ~(a < l) => a = l
      BY <3>5, Counting
    <3>4. o = "rc 0" => a = l
      BY <3>3, <3>6
    <3> QED
      BY <3>1, <3>2, <3>4
  <2>3. o = "rc 0" => req[j].st = "over" /\ run[j].pc = "returned" /\ RanAs(j, "rc 0")
    BY <1>5, <1>13
  <2> QED
    BY <1>1, <1>4, <1>13, <2>1, <2>2, <2>3, DecideStep
<1>14. PICK o : o = IF h \in {"rc 0", "rc 1"} THEN h ELSE "node"
  OBVIOUS
<1>15. \/ job' = [job EXCEPT ![j].total = @ + 1]
       \/ h = "rc 0" /\ job[j].at < Len(job[j].plan) /\ job' = [job EXCEPT ![j].at = @ + 1, ![j].pc = "open"]
       \/ ~(h = "rc 0" /\ job[j].at < Len(job[j].plan)) /\ Decide(j, o, 0)
  BY <1>3, <1>14 DEF Read, NextStep
<1> QED
  BY <1>11, <1>12, <1>13, <1>14, <1>15

\* Runner::execute: the state is set, then the name is given back.
LEMMA SetStateStep ==
  ASSUME ScriptInv, UNCHANGED setup, NEW j \in Job, SetState(j)
  PROVE  ScriptInv'
<1>1. PICK st \in {"completed", "failed"} :
        /\ job' = [job EXCEPT ![j].pc = "release", ![j].state = st]
        /\ st = "completed" => job[j].outcome = "rc 0"
  BY DEF SetState
<1>2. job[j].pc = "ending" /\ UNCHANGED <<setup, node, sub, running, req>>
  BY DEF SetState
<1>3. JobIs(j) /\ StepIs(j) /\ AnswerIs(j) /\ Shapes /\ JobShapes
  BY DEF ScriptInv, Each, Shapes
<1>4. JobShapes'
  BY <1>1, <1>3 DEF JobShapes, JobShape
<1>5. /\ job'[j].pc = "release" /\ job'[j].state = st /\ job'[j].plan = job[j].plan /\ job'[j].at = job[j].at
      /\ job'[j].outcome = job[j].outcome
  <2>1. job'[j] = [[job[j] EXCEPT !.pc = "release"] EXCEPT !.state = st]
    BY <1>1, <1>3 DEF JobShapes
  <2>2. JobShape(job[j])
    BY <1>3 DEF JobShapes
  <2>3. job'[j] = [state |-> st, plan |-> job[j].plan, at |-> job[j].at, pc |-> "release",
                   outcome |-> job[j].outcome, total |-> job[j].total]
    BY <2>1, <2>2 DEF JobShape
  <2> QED
    BY <2>3
<1>6. \A u \in Job \ {j} : job'[u] = job[u]
  BY <1>1, <1>3 DEF JobShapes
<1>7. Shapes'
  BY <1>2, <1>3, <1>4 DEF Shapes, ReqShapes, RunShapes, node
<1>8. Plan(j)' = Plan(j) /\ run' = run /\ ran' = ran /\ req' = req
  BY <1>2 DEF Plan, node
<1>9. JobIs(j)'
  BY <1>1, <1>2, <1>3, <1>5, <1>8 DEF JobIs
<1>10. StepIs(j)'
  <2>1. job[j].outcome # "rc 0" \/ RanAs(j, "rc 0")
    BY <1>3 DEF AnswerIs
  <2> QED
    BY <1>2, <1>5, <1>8, <2>1, JobStays
<1>11. AnswerIs(j)'
  <2>1. RanAs(j, "rc 0")' <=> RanAs(j, "rc 0")
    BY <1>5, <1>8 DEF RanAs
  <2>2. LastWord(j, req[j].answers)'
    BY <1>3, <1>8, <2>1 DEF AnswerIs, LastWord
  <2> QED
    BY <1>3, <1>5, <1>8, <2>1, <2>2 DEF AnswerIs
<1>12. ~finished(j, job) /\ running' \in Job \cup {None}
  BY <1>2, <1>3 DEF JobIs, finished, ScriptInv, Named
<1> QED
  BY <1>2, <1>6, <1>7, <1>8, <1>9, <1>10, <1>11, <1>12, HubMoves

LEMMA ReleaseStep ==
  ASSUME ScriptInv, UNCHANGED setup, NEW j \in Job, Release(j)
  PROVE  ScriptInv'
<1>1. job' = [job EXCEPT ![j].pc = "over"] /\ job[j].pc = "release"
      /\ UNCHANGED <<setup, node, sub, req>> /\ running' = None
  BY DEF Release
<1>3. JobIs(j) /\ StepIs(j) /\ AnswerIs(j) /\ Shapes /\ JobShapes
  BY DEF ScriptInv, Each, Shapes
<1>4. JobShapes'
  BY <1>1, <1>3 DEF JobShapes, JobShape
<1>5. /\ job'[j].pc = "over" /\ job'[j].state = job[j].state /\ job'[j].plan = job[j].plan
      /\ job'[j].at = job[j].at /\ job'[j].outcome = job[j].outcome /\ job'[j].total = job[j].total
  BY <1>1, <1>3 DEF JobShapes, JobShape
<1>6. \A u \in Job \ {j} : job'[u] = job[u]
  BY <1>1, <1>3 DEF JobShapes
<1>7. Shapes'
  BY <1>1, <1>3, <1>4 DEF Shapes, ReqShapes, RunShapes, node
<1>8. Plan(j)' = Plan(j) /\ run' = run /\ ran' = ran /\ req' = req
  BY <1>1 DEF Plan, node
<1>9. JobIs(j)'
  BY <1>1, <1>3, <1>5, <1>8 DEF JobIs
<1>10. StepIs(j)'
  <2>1. job[j].outcome # "rc 0" \/ RanAs(j, "rc 0")
    BY <1>3 DEF AnswerIs
  <2> QED
    BY <1>1, <1>5, <1>8, <2>1, JobStays
<1>11. AnswerIs(j)'
  <2>1. RanAs(j, "rc 0")' <=> RanAs(j, "rc 0")
    BY <1>5, <1>8 DEF RanAs
  <2>2. LastWord(j, req[j].answers)'
    BY <1>3, <1>8, <2>1 DEF AnswerIs, LastWord
  <2> QED
    BY <1>3, <1>5, <1>8, <2>1, <2>2 DEF AnswerIs
<1>12. finished(j, job) => finished(j, job)'
  BY <1>5 DEF finished
<1> QED
  BY <1>1, <1>5, <1>6, <1>7, <1>8, <1>9, <1>10, <1>11, <1>12, HubMoves

\* Only the follower moves, or the hub shuts down.
LEMMA OnlyFollower ==
  ASSUME ScriptInv, UNCHANGED <<setup, job, running, req, node>>,
         sub' = [pc |-> sub'.pc, of |-> sub'.of, seen |-> sub'.seen, fin |-> sub'.fin, pos |-> sub'.pos],
         Follower'
  PROVE  ScriptInv'
<1>1. run' = run /\ ran' = ran /\ busy' = busy
  BY DEF node
<1>2. Shapes'
  BY <1>1 DEF ScriptInv, Shapes, JobShapes, ReqShapes, RunShapes
<1>3. Each'
  <2>1. ASSUME NEW j \in Job PROVE JobIs(j)' /\ StepIs(j)' /\ AnswerIs(j)'
    <3>1. JobIs(j) /\ StepIs(j) /\ AnswerIs(j)
      BY DEF ScriptInv, Each
    <3>2. Plan(j)' = Plan(j)
      BY DEF Plan
    <3>3. JobIs(j)'
      BY <3>1, <3>2 DEF JobIs
    <3>4. StepIs(j)'
      BY <1>1, <3>1 DEF StepIs, Past, NotRun, RanAs
    <3>5. AnswerIs(j)'
      BY <1>1, <3>1, <3>2 DEF AnswerIs, LastWord, RanAs
    <3> QED
      BY <3>3, <3>4, <3>5
  <2> QED
    BY <2>1 DEF Each
<1>4. Named'
  BY <1>1 DEF ScriptInv, Named
<1> QED
  BY <1>2, <1>3, <1>4 DEF ScriptInv

LEMMA SubscribeStep ==
  ASSUME ScriptInv, UNCHANGED setup, NEW j \in Job, Subscribe(j)
  PROVE  ScriptInv'
<1>1. UNCHANGED <<setup, job, running, req, node>> /\ sub' = [sub EXCEPT !.pc = "mark", !.of = j]
  BY DEF Subscribe
<1>2. sub' = [pc |-> "mark", of |-> j, seen |-> sub.seen, fin |-> sub.fin, pos |-> sub.pos]
  BY <1>1 DEF ScriptInv, Shapes
<1>3. Follower'
  BY <1>2 DEF Follower
<1> QED
  BY <1>1, <1>2, <1>3, OnlyFollower

\* A round of the follower: when the job was finished before the lines were
\* read, those were all its lines.
LEMMA FollowStep ==
  ASSUME ScriptInv, UNCHANGED setup, Follow
  PROVE  ScriptInv'
<1>1. UNCHANGED <<setup, job, running, req, node>>
  BY DEF Follow
<1>2. sub = [pc |-> sub.pc, of |-> sub.of, seen |-> sub.seen, fin |-> sub.fin, pos |-> sub.pos] /\ Follower
  BY DEF ScriptInv, Shapes
<1>3. CASE Mark
  <2>1. PICK v : v = Version(sub.of)
    OBVIOUS
  <2>2. sub' = [pc |-> "state", of |-> sub.of, seen |-> v, fin |-> sub.fin, pos |-> sub.pos] /\ sub.pc = "mark"
    BY <1>2, <1>3, <2>1 DEF Mark
  <2>3. Follower'
    BY <1>2, <2>2 DEF Follower
  <2> QED
    BY <1>1, <2>2, <2>3, OnlyFollower
<1>4. CASE ReadState
  <2>1. PICK f : f = IF finished(sub.of, job) THEN "yes" ELSE "no"
    OBVIOUS
  <2>2. sub' = [pc |-> "lines", of |-> sub.of, seen |-> sub.seen, fin |-> f, pos |-> sub.pos] /\ sub.pc = "state"
    BY <1>2, <1>4, <2>1 DEF ReadState
  <2>3. Follower'
    BY <1>1, <1>2, <2>1, <2>2 DEF Follower, finished
  <2> QED
    BY <1>1, <2>2, <2>3, OnlyFollower
<1>5. CASE ReadLines
  <2>1. PICK n : n = IF sub.fin = "yes" THEN 0 ELSE sub.seen
    OBVIOUS
  <2>2. PICK c \in {"ended", "wait", "mark"} :
          /\ c = IF sub.fin = "yes" THEN "ended" ELSE IF job[sub.of].total = FromKept(sub.pos) THEN "wait" ELSE "mark"
    OBVIOUS
  <2>3. sub' = [sub EXCEPT !.pos = job[sub.of].total, !.seen = n, !.pc = c] /\ sub.pc = "lines"
    BY <1>2, <1>5, <2>1, <2>2 DEF ReadLines, Reached
  <2>4. sub' = [pc |-> c, of |-> sub.of, seen |-> n, fin |-> sub.fin, pos |-> job[sub.of].total]
    BY <1>2, <2>3
  <2>5. Follower'
    BY <1>1, <1>2, <2>2, <2>3, <2>4 DEF Follower, finished
  <2> QED
    BY <1>1, <2>4, <2>5, OnlyFollower
<1>6. CASE Wake
  <2>1. sub' = [pc |-> "mark", of |-> sub.of, seen |-> sub.seen, fin |-> sub.fin, pos |-> sub.pos] /\ sub.pc = "wait"
    BY <1>2, <1>6 DEF Wake
  <2>2. Follower'
    BY <1>2, <2>1 DEF Follower
  <2> QED
    BY <1>1, <2>1, <2>2, OnlyFollower
<1> QED
  BY <1>3, <1>4, <1>5, <1>6 DEF Follow

LEMMA ShutdownStep ==
  ASSUME ScriptInv, UNCHANGED setup, Shutdown
  PROVE  ScriptInv'
<1>1. UNCHANGED <<setup, job, running, req, node>> /\ sub' = [sub EXCEPT !.pc = "ended", !.of = None]
  BY DEF Shutdown
<1>2. sub' = [pc |-> "ended", of |-> None, seen |-> sub.seen, fin |-> sub.fin, pos |-> sub.pos]
  BY <1>1 DEF ScriptInv, Shapes
<1>3. Follower'
  BY <1>2, ScriptAssumption DEF Follower, ScriptConstants
<1> QED
  BY <1>1, <1>2, <1>3, OnlyFollower
-----------------------------------------------------------------------------
(* The link.                                                                *)

\* What a cancel or the lost link asks of a run: it goes on reading.
LEMMA StoppingShape ==
  ASSUME NEW j \in Job
  PROVE  /\ RunShape(Stopping(j)) /\ Stopping(j).pc = run[j].pc /\ Stopping(j).leader = run[j].leader
         /\ Stopping(j).late = run[j].late /\ Stopping(j).bg = run[j].bg
BY DEF Stopping, RunShape

LEMMA CutStep ==
  ASSUME ScriptInv, UNCHANGED <<setup, hub>>, Cut
  PROVE  ScriptInv'
<1>1. job' = job /\ running' = running /\ sub' = sub /\ busy' = busy /\ ran' = ran
  BY DEF hub, Cut
<1>2. Shapes /\ Each /\ Named /\ Follower
  BY DEF ScriptInv
<1>3. ASSUME NEW j \in Job
      PROVE  \/ req'[j] = req[j] /\ req[j].st \in {"none", "over"} /\ job[j].pc # "reading"
             \/ /\ req'[j] = [st |-> "over", cancel |-> "done", answers |-> <<>>] /\ job[j].pc # "reading"
                /\ req[j].st \notin {"none", "over"}
             \/ req'[j] = [st |-> "over", cancel |-> "done", answers |-> <<"lost">>] /\ job[j].pc = "reading"
  BY <1>3 DEF Cut
<1>4. ASSUME NEW j \in Job
      PROVE  run'[j] = run[j] \/ (run'[j] = Stopping(j) /\ run[j].pc \in {"reading", "slot"})
  BY DEF Cut, Active
<1>5. ASSUME NEW j \in Job
      PROVE  RunShape(run'[j]) /\ run'[j].pc = run[j].pc /\ run'[j].leader = run[j].leader
             /\ (run[j].pc \notin {"reading", "slot"} => run'[j].stop = run[j].stop)
  BY <1>2, <1>4, StoppingShape DEF Shapes, RunShapes
<1>6. Shapes'
  <2>1. ReqShapes'
    <3>1. ASSUME NEW j \in Job PROVE ReqShape(req'[j])
      BY <1>2, <1>3 DEF Shapes, ReqShapes, ReqShape
    <3>2. req' = [j \in Job |-> req'[j]]
      BY DEF Cut
    <3> QED
      BY <3>1, <3>2 DEF ReqShapes, ReqShape
  <2>2. RunShapes'
    <3>1. run' = [j \in Job |-> run'[j]]
      BY DEF Cut
    <3> QED
      BY <1>5, <3>1 DEF RunShapes, RunShape
  <2> QED
    BY <1>1, <1>2, <2>1, <2>2 DEF Shapes, JobShapes
<1>7. ASSUME NEW j \in Job PROVE JobIs(j)' /\ StepIs(j)' /\ AnswerIs(j)'
  <2>1. JobIs(j) /\ StepIs(j) /\ AnswerIs(j)
    BY <1>2 DEF Each
  <2>2. JobIs(j)'
    BY <1>1, <2>1 DEF JobIs, Plan
  <2>3. Past(j)' /\ (NotRun(j)' <=> NotRun(j)) /\ (RanAs(j, "rc 0")' <=> RanAs(j, "rc 0"))
        /\ (RanAs(j, run[j].leader)' <=> RanAs(j, run[j].leader))
    BY <1>1, <1>5, <2>1 DEF StepIs, Past, NotRun, RanAs
  <2>4. /\ req'[j].st \in {req[j].st, "over"}
        /\ job[j].pc # "reading" /\ req[j].st \in {"none", "over"} => req'[j] = req[j]
        /\ req'[j].st # "sent" /\ req'[j].st # "node" /\ (job[j].pc = "reading" => req'[j].st = "over")
    BY <1>3
  <2>5. StepIs(j)'
    BY <1>1, <1>5, <2>1, <2>3, <2>4 DEF StepIs
  <2>6. AnswerIs(j)'
    <3>1. CASE req'[j] = req[j] /\ job[j].pc # "reading"
      <4>1. LastWord(j, req[j].answers)'
        BY <1>1, <1>5, <2>1, <2>3, <3>1 DEF AnswerIs, LastWord
      <4> QED
        BY <1>1, <1>5, <2>1, <2>3, <3>1, <4>1 DEF AnswerIs, Plan
    <3>2. CASE /\ req'[j] = [st |-> "over", cancel |-> "done", answers |-> <<>>] /\ job[j].pc # "reading"
               /\ req[j].st \notin {"none", "over"}
      <4>1. job[j].outcome # "rc 0"
        BY <2>1, <3>2 DEF AnswerIs
      <4>2. req'[j].answers = <<>>
        BY <3>2
      <4> QED
        BY <1>1, <4>1, <4>2, NoAnswers DEF AnswerIs
    <3>3. CASE req'[j] = [st |-> "over", cancel |-> "done", answers |-> <<"lost">>] /\ job[j].pc = "reading"
      <4>1. job[j].outcome # "rc 0"
        BY <2>1, <3>3 DEF AnswerIs
      <4>2. req'[j].answers = <<"lost">>
        BY <3>3
      <4>3. Len(<<"lost">>) = 1 /\ <<"lost">>[1] # "rc 0"
        OBVIOUS
      <4>4. LastWord(j, <<"lost">>)'
        <5>1. PICK l : l = <<"lost">>
          OBVIOUS
        <5>2. Len(l) = 1 /\ l[1] # "rc 0"
          BY <4>3, <5>1
        <5>4. \A i \in 1..1 : i = 1
          OBVIOUS
        <5>3. \A i \in 1..Len(l) : l[i] # "rc 0"
          BY <5>2, <5>4
        <5> QED
          BY <5>1, <5>3 DEF LastWord
      <4>5. <<"lost">> \in Seq(Sayings)
        BY DEF Sayings
      <4> QED
        BY <1>1, <4>1, <4>2, <4>4, <4>5 DEF AnswerIs
    <3> QED
      BY <1>3, <3>1, <3>2, <3>3
  <2> QED
    BY <2>2, <2>5, <2>6
<1>8. Named'
  BY <1>1, <1>2, <1>5 DEF Named
<1>9. Follower'
  BY <1>1, FollowerStays DEF finished
<1> QED
  BY <1>6, <1>7, <1>8, <1>9 DEF ScriptInv, Each

LEMMA LinkBackStep ==
  ASSUME ScriptInv, UNCHANGED setup, LinkBack
  PROVE  ScriptInv'
<1>1. UNCHANGED <<setup, job, running, req, node>> /\ sub' = sub
  BY DEF LinkBack, hub
<1>2. Follower'
  BY <1>1, FollowerStays DEF finished
<1> QED
  BY <1>1, <1>2, OnlyFollower DEF ScriptInv, Shapes
-----------------------------------------------------------------------------
(* The node's side: the run of one step, and what it answers.               *)

\* While the run has not returned, nothing said is "rc 0".
LEMMA NotYet ==
  ASSUME NEW j \in Job, AnswerIs(j), run[j].pc # "returned" \/ req[j].st # "over"
  PROVE  job[j].outcome # "rc 0" /\ \A i \in 1..Len(req[j].answers) : req[j].answers[i] # "rc 0"
BY DEF AnswerIs, LastWord

LEMMA Appended ==
  ASSUME NEW S, NEW s \in Seq(S), NEW x \in S
  PROVE  /\ Append(s, x) \in Seq(S) /\ Len(Append(s, x)) = Len(s) + 1
         /\ \A i \in 1..Len(Append(s, x)) :
              (i \in 1..Len(s) /\ Append(s, x)[i] = s[i]) \/ (i = Len(Append(s, x)) /\ Append(s, x)[i] = x)
<1>1. PICK n \in Nat : n = Len(s)
  BY LenProperties
<1>2. \A i \in 1..(n + 1) : i \in 1..n \/ i = n + 1
  OBVIOUS
<1>3. Len(Append(s, x)) = n + 1 /\ (\A i \in 1..n : Append(s, x)[i] = s[i]) /\ Append(s, x)[n + 1] = x
  BY <1>1, AppendProperties
<1> QED
  BY <1>1, <1>2, <1>3, AppendProperties

LEMMA AppendedWord ==
  ASSUME NEW j \in Job, NEW s \in Seq(Sayings), NEW x \in Sayings, \A i \in 1..Len(s) : s[i] # "rc 0",
         x = "rc 0" => req'[j].st = "over" /\ run'[j].pc = "returned" /\ RanAs(j, "rc 0")'
  PROVE  Append(s, x) \in Seq(Sayings) /\ LastWord(j, Append(s, x))'
<1>1. \A i \in 1..Len(Append(s, x)) :
        (i \in 1..Len(s) /\ Append(s, x)[i] = s[i]) \/ (i = Len(Append(s, x)) /\ Append(s, x)[i] = x)
  BY Appended
<1>2. LastWord(j, Append(s, x))'
  BY <1>1 DEF LastWord
<1> QED
  BY <1>2, Appended

\* The run goes on, or its reading ends with the leader gone; a line may be said.
LEMMA StepStays ==
  ASSUME ScriptInv, UNCHANGED <<setup, hub, busy, ran>>, NEW j \in Job, ReqShapes', RunShapes',
         \A u \in Job \ {j} : req'[u] = req[u] /\ run'[u] = run[u],
         run'[j].leader = run[j].leader,
         \/ run'[j].pc = run[j].pc
         \/ run[j].pc = "reading" /\ run'[j].pc = "slot",
         run'[j].stop = run[j].stop \/ run[j].pc \notin {"none", "returned"},
         req'[j].st = req[j].st, job[j].pc # "reading" => req'[j].answers = req[j].answers,
         req'[j].answers \in Seq(Sayings),
         \/ req'[j].answers = req[j].answers
         \/ \A i \in 1..Len(req'[j].answers) : req'[j].answers[i] # "rc 0"
  PROVE  ScriptInv'
<1>1. JobIs(j) /\ StepIs(j) /\ AnswerIs(j) /\ Shapes /\ Named
  BY DEF ScriptInv, Each
<1>2. job' = job
  BY DEF hub
<1>3. Shapes'
  BY <1>1, <1>2 DEF Shapes, JobShapes, hub
<1>4. Past(j)' /\ (NotRun(j)' <=> NotRun(j)) /\ (RanAs(j, "rc 0")' <=> RanAs(j, "rc 0"))
      /\ (RanAs(j, run[j].leader)' <=> RanAs(j, run[j].leader))
  BY <1>1, <1>2 DEF StepIs, Past, NotRun, RanAs
<1>5. StepIs(j)'
  BY <1>1, <1>2, <1>4 DEF StepIs
<1>6. LastWord(j, req[j].answers)'
  <2>1. CASE req'[j].answers = req[j].answers
    BY <1>1, <1>4, <2>1 DEF AnswerIs, LastWord
  <2>2. CASE \A i \in 1..Len(req'[j].answers) : req'[j].answers[i] # "rc 0"
    BY <2>2 DEF LastWord
  <2> QED
    BY <2>1, <2>2
<1>7. AnswerIs(j)'
  BY <1>1, <1>2, <1>4, <1>6 DEF AnswerIs, Plan
<1>8. busy' \in Job \cup {None} /\ \A u \in Job : run'[u].pc \in {"reading", "slot"} => busy' = u
  BY <1>1 DEF Named
<1> QED
  BY <1>3, <1>5, <1>7, <1>8, NodeMoves

\* The leader is gone, and the history says how.
LEMMA LeaderEnds ==
  ASSUME ScriptInv, UNCHANGED <<setup, hub, req, busy>>, NEW j \in Job, NEW how \in Codes, RunShapes',
         run[j].leader = "alive", run'[j].leader = how, run'[j].pc = run[j].pc,
         \A u \in Job \ {j} : run'[u] = run[u],
         ran' = [ran EXCEPT ![j] = Append(@, <<job[j].plan[job[j].at], how>>)]
  PROVE  ScriptInv'
<1>1. JobIs(j) /\ StepIs(j) /\ AnswerIs(j) /\ Shapes /\ Named
  BY DEF ScriptInv, Each
<1>2. job' = job
  BY DEF hub
<1>3. Shapes'
  <2>1. ran' = [u \in Job |-> ran'[u]]
    BY <1>1 DEF Shapes
  <2> QED
    BY <1>1, <1>2, <2>1 DEF Shapes, JobShapes, ReqShapes, hub
<1>4. run[j].pc \in {"reading", "slot"} /\ NotRun(j) /\ Past(j) /\ job[j].pc \notin {"none", "open"}
  BY <1>1 DEF StepIs
<1>5. job[j].plan = Plan(j) /\ job[j].at \in 1..Len(Plan(j))
  BY <1>1, <1>4 DEF JobIs
<1>6. PICK x \in {"down", "up"} \X Codes : x = <<job[j].plan[job[j].at], how>>
  BY <1>5, PlanIs
<1>7. x[1] = job[j].plan[job[j].at] /\ x[2] = how
  BY <1>6
<1>8. PICK n \in Nat : n = Len(ran[j])
  BY <1>4, LenProperties DEF Past
<1>9. PICK a : a = job[j].at
  OBVIOUS
<1>10. a = n + 1 /\ a \in Nat /\ a > 0
  <2>1. a \in Nat /\ n = a - 1
    <3>1. n = a - 1
      BY <1>4, <1>8, <1>9 DEF NotRun
    <3>2. PICK l \in {1, 2} : l = Len(Plan(j))
      BY PlanIs
    <3>3. a \in 1..l
      BY <1>5, <1>9, <3>2
    <3>4. a \in Nat
      BY <3>3, <3>2
    <3> QED
      BY <3>1, <3>4
  <2>2. n \in Nat
    BY <1>8
  <2> QED
    BY <2>1, <2>2
<1>11. PICK t : t = ran'[j]
  OBVIOUS
<1>12. /\ t \in Seq({"down", "up"} \X Codes) /\ Len(t) = a
       /\ \A i \in 1..n : t[i] = ran[j][i]
       /\ t[a] = x
  <2>1. t = Append(ran[j], x)
    BY <1>1, <1>6, <1>11 DEF Shapes
  <2>2. ran[j] \in Seq({"down", "up"} \X Codes)
    BY <1>4 DEF Past
  <2> QED
    BY <1>8, <1>10, <2>1, <2>2, AppendProperties
<1>13. ASSUME NEW i \in 1..a
       PROVE  t[i][1] = job[j].plan[i] /\ (i < a => t[i][2] = "rc 0")
  <2>1. i \in 1..n \/ i = n + 1
    BY <1>8, <1>10, Counting
  <2>2. CASE i \in 1..n
    <3>1. i < a
      <4>1. n \in Nat /\ a = n + 1
        BY <1>8, <1>10
      <4> QED
        BY <2>2, <4>1
    <3>2. ran[j][i][1] = job[j].plan[i] /\ ran[j][i][2] = "rc 0"
      BY <1>4, <1>8, <1>9, <2>2, <3>1 DEF Past
    <3> QED
      BY <1>12, <2>2, <3>2
  <2>3. CASE i = n + 1
    <3>1. i = a /\ ~(i < a)
      BY <1>10, <2>3
    <3> QED
      BY <1>7, <1>9, <1>12, <3>1
  <2> QED
    BY <2>1, <2>2, <2>3
<1>14. Past(j)'
  BY <1>2, <1>9, <1>11, <1>12, <1>13 DEF Past
<1>15. RanAs(j, how)'
  BY <1>2, <1>7, <1>9, <1>10, <1>11, <1>12 DEF RanAs
<1>16. req'[j].st = req[j].st /\ req[j].st \in {"node", "over"} /\ req'[j].answers = req[j].answers
  BY <1>1, <1>4 DEF StepIs
<1>17. StepIs(j)'
  <2>1. how # "alive" /\ how # "none"
    BY DEF Codes
  <2>2. run'[j].pc \in {"reading", "slot"}
    BY <1>4
  <2> QED
    BY <1>1, <1>2, <1>4, <1>14, <1>15, <1>16, <2>1, <2>2 DEF StepIs
<1>18. AnswerIs(j)'
  <2>1. job[j].outcome # "rc 0" /\ \A i \in 1..Len(req[j].answers) : req[j].answers[i] # "rc 0"
    BY <1>1, <1>4, NotYet
  <2> QED
    BY <1>1, <1>2, <1>16, <2>1 DEF AnswerIs, LastWord
<1>19. \A u \in Job \ {j} : ran'[u] = ran[u]
  BY <1>1 DEF Shapes
<1>20. busy' \in Job \cup {None} /\ \A u \in Job : run'[u].pc \in {"reading", "slot"} => busy' = u
  BY <1>1 DEF Named
<1> QED
  BY <1>3, <1>17, <1>18, <1>19, <1>20, NodeMoves

LEMMA BeginStep ==
  ASSUME ScriptInv, UNCHANGED setup, NEW j \in Job, Begin(j)
  PROVE  ScriptInv'
<1>1. JobIs(j) /\ StepIs(j) /\ AnswerIs(j) /\ Shapes /\ ReqShapes /\ RunShapes /\ Named
  BY DEF ScriptInv, Each, Shapes
<1>2. req[j].st = "sent" /\ UNCHANGED <<setup, hub>> /\ job' = job
  BY DEF Begin, hub
<1>3. /\ NotRun(j) /\ Past(j) /\ run[j].pc \in {"none", "returned"} /\ job[j].pc \notin {"none", "open"}
      /\ run[j].leader = "none" /\ run[j].stop = "no"
  BY <1>1, <1>2 DEF StepIs
<1>4. job[j].outcome # "rc 0" /\ \A i \in 1..Len(req[j].answers) : req[j].answers[i] # "rc 0"
  BY <1>1, <1>2, NotYet
<1>5. CASE UNCHANGED node /\ \E x : x \in Sayings /\ x # "rc 0" /\
             req' = [req EXCEPT ![j].st = "over", ![j].answers = Append(@, x)]
  <2>1. PICK x : x \in Sayings /\ x # "rc 0" /\
                 req' = [req EXCEPT ![j].st = "over", ![j].answers = Append(@, x)]
    BY <1>5
  <2>2. run' = run /\ ran' = ran /\ busy' = busy
    BY <1>5 DEF node
  <2>3. PICK t \in Seq(Sayings) : t = Append(req[j].answers, x)
    BY <1>1, <2>1, Appended DEF AnswerIs
  <2>4. req' = [req EXCEPT ![j].st = "over", ![j].answers = t]
    BY <1>1, <2>1, <2>3 DEF ReqShapes
  <2>5. t \in Seq(Sayings) /\ LastWord(j, t)'
    <3>1. x \in Sayings /\ x # "rc 0" /\ req[j].answers \in Seq(Sayings)
      BY <1>1, <2>1 DEF AnswerIs
    <3> QED
      BY <1>4, <2>3, <3>1, AppendedWord
  <2>6. req'[j].st = "over" /\ req'[j].answers = t
    <3>1. req'[j] = [[req[j] EXCEPT !.st = "over"] EXCEPT !.answers = t]
      BY <1>1, <2>4 DEF ReqShapes
    <3>2. ReqShape(req[j])
      BY <1>1 DEF ReqShapes
    <3>3. req'[j] = [st |-> "over", answers |-> t, cancel |-> req[j].cancel]
      BY <3>1, <3>2 DEF ReqShape
    <3> QED
      BY <3>3, ReqFields
  <2>7. \A u \in Job \ {j} : req'[u] = req[u]
    BY <1>1, <2>4 DEF ReqShapes
  <2>8. ReqShapes'
    BY <1>1, <2>4 DEF ReqShapes, ReqShape
  <2>9. Shapes'
    BY <1>1, <1>2, <2>2, <2>8 DEF Shapes, JobShapes, RunShapes, hub
  <2>10. StepIs(j)'
    <3>1. Past(j)' /\ (NotRun(j)' <=> NotRun(j))
      BY <1>2, <1>3, <2>2 DEF Past, NotRun
    <3>2. req'[j].st = "over"
      BY <2>6
    <3> QED
      BY <1>1, <1>2, <1>3, <2>2, <3>1, <3>2 DEF StepIs, Codes
  <2>11. AnswerIs(j)'
    BY <1>2, <1>4, <2>5, <2>6 DEF AnswerIs
  <2>12. busy' \in Job \cup {None} /\ \A u \in Job : run'[u].pc \in {"reading", "slot"} => busy' = u
    BY <1>1, <2>2 DEF Named
  <2> QED
    BY <1>2, <2>2, <2>7, <2>9, <2>10, <2>11, <2>12, NodeMoves
<1>6. CASE /\ busy = None /\ busy' = j /\ ran' = ran
           /\ run' = [run EXCEPT ![j] = [NoRun EXCEPT !.pc = "reading", !.leader = "alive"]]
           /\ req' = [req EXCEPT ![j].st = "node"]
  <2>1. /\ run'[j].pc = "reading" /\ run'[j].leader = "alive" /\ RunShapes'
        /\ \A u \in Job \ {j} : run'[u] = run[u]
    <3>1. RunShapes'
      BY <1>1, <1>6 DEF RunShapes, RunShape, NoRun
    <3>2. run'[j] = [NoRun EXCEPT !.pc = "reading", !.leader = "alive"]
      BY <1>1, <1>6 DEF RunShapes
    <3>3. run'[j].pc = "reading" /\ run'[j].leader = "alive"
      BY <3>2 DEF NoRun
    <3>4. \A u \in Job \ {j} : run'[u] = run[u]
      BY <1>1, <1>6 DEF RunShapes
    <3> QED
      BY <3>1, <3>3, <3>4
  <2>2. /\ req'[j].st = "node" /\ req'[j].answers = req[j].answers /\ ReqShapes'
        /\ \A u \in Job \ {j} : req'[u] = req[u]
    <3>1. ReqShapes'
      BY <1>1, <1>6 DEF ReqShapes, ReqShape
    <3>2. req'[j].st = "node" /\ req'[j].answers = req[j].answers
      BY <1>1, <1>6 DEF ReqShapes, ReqShape
    <3>3. \A u \in Job \ {j} : req'[u] = req[u]
      BY <1>1, <1>6 DEF ReqShapes
    <3> QED
      BY <3>1, <3>2, <3>3
  <2>3. Shapes'
    BY <1>1, <1>2, <1>6, <2>1, <2>2 DEF Shapes, JobShapes, hub
  <2>4. StepIs(j)'
    <3>1. Past(j)' /\ NotRun(j)'
      BY <1>2, <1>3, <1>6 DEF Past, NotRun
    <3> QED
      BY <1>2, <1>3, <2>1, <2>2, <3>1 DEF StepIs, Codes
  <2>5. AnswerIs(j)'
    <3>1. req[j].answers \in Seq(Sayings)
      BY <1>1 DEF AnswerIs
    <3>2. LastWord(j, req[j].answers)'
      BY <1>4, <2>2 DEF LastWord
    <3> QED
      BY <1>2, <1>4, <2>2, <3>1, <3>2 DEF AnswerIs
  <2>6. busy' \in Job \cup {None} /\ \A u \in Job : run'[u].pc \in {"reading", "slot"} => busy' = u
    <3>1. \A u \in Job : u # None
      BY ScriptAssumption DEF ScriptConstants
    <3>2. \A u \in Job \ {j} : run'[u].pc \notin {"reading", "slot"}
      BY <1>1, <1>6, <2>1, <3>1 DEF Named
    <3> QED
      BY <1>6, <3>2
  <2> QED
    BY <1>2, <1>6, <2>1, <2>2, <2>3, <2>4, <2>5, <2>6, NodeMoves
<1>7. /\ "busy" \in Sayings /\ "cannot start" \in Sayings /\ "busy" # "rc 0" /\ "cannot start" # "rc 0"
  BY DEF Sayings
<1> QED
  BY <1>5, <1>6, <1>7 DEF Begin, node

\* One run is rewritten as a whole, or its ending is.
LEMMA RunRewritten ==
  ASSUME RunShapes, NEW j \in Job, NEW r, RunShape(r), run' = [run EXCEPT ![j] = r]
  PROVE  RunShapes' /\ run'[j] = r /\ \A u \in Job \ {j} : run'[u] = run[u]
<1>1. run'[j] = r /\ run' = [u \in Job |-> run'[u]] /\ \A u \in Job \ {j} : run'[u] = run[u]
  BY DEF RunShapes
<1>2. \A u \in Job : RunShape(run'[u])
  BY <1>1 DEF RunShapes
<1> QED
  BY <1>1, <1>2 DEF RunShapes, RunShape

LEMMA RunEnds ==
  ASSUME RunShapes, NEW j \in Job, NEW t, NEW l, NEW b,
         run' = [run EXCEPT ![j].stop = t, ![j].leader = l, ![j].bg = b]
  PROVE  /\ RunShapes' /\ run'[j].pc = run[j].pc /\ run'[j].leader = l
         /\ \A u \in Job \ {j} : run'[u] = run[u]
<1>1. PICK r : r = [pc |-> run[j].pc, leader |-> l, closed |-> run[j].closed, bg |-> b, wrote |-> run[j].wrote, pipe |-> run[j].pipe,
                    grace |-> run[j].grace, late |-> run[j].late, stop |-> t, cancelled |-> run[j].cancelled]
  OBVIOUS
<1>2. run' = [run EXCEPT ![j] = r]
  <2>1. RunShape(run[j])
    BY DEF RunShapes
  <2>2. [[[run[j] EXCEPT !.stop = t] EXCEPT !.leader = l] EXCEPT !.bg = b] = r
    <3>1. PICK q : q = [[run[j] EXCEPT !.stop = t] EXCEPT !.leader = l]
      OBVIOUS
    <3>2. q = [pc |-> run[j].pc, leader |-> l, closed |-> run[j].closed, bg |-> run[j].bg, wrote |-> run[j].wrote, pipe |-> run[j].pipe,
               grace |-> run[j].grace, late |-> run[j].late, stop |-> t, cancelled |-> run[j].cancelled]
      BY <2>1, <3>1 DEF RunShape
    <3>3. [q EXCEPT !.bg = b] = r
      BY <1>1, <3>2
    <3> QED
      BY <3>1, <3>3
  <2> QED
    BY <2>2 DEF RunShapes
<1>3. RunShape(r) /\ r.pc = run[j].pc /\ r.leader = l
  BY <1>1 DEF RunShape
<1> QED
  BY <1>2, <1>3, RunRewritten

LEMMA CancelArrivesStep ==
  ASSUME ScriptInv, UNCHANGED setup, NEW j \in Job, CancelArrives(j)
  PROVE  ScriptInv'
<1>1. StepIs(j) /\ AnswerIs(j) /\ ReqShapes /\ RunShapes
  BY DEF ScriptInv, Each, Shapes
<1>2. /\ UNCHANGED <<setup, hub, busy, ran>> /\ req' = [req EXCEPT ![j].cancel = "done"]
      /\ run' = [run EXCEPT ![j] = IF Active(j) THEN Stopping(j) ELSE @]
  BY DEF CancelArrives
<1>3. ReqShapes'
  BY <1>1, <1>2 DEF ReqShapes, ReqShape
<1>4. req'[j].st = req[j].st /\ req'[j].answers = req[j].answers
  BY <1>1, <1>2 DEF ReqShapes, ReqShape
<1>5. \A u \in Job \ {j} : req'[u] = req[u]
  BY <1>1, <1>2 DEF ReqShapes
<1>6. PICK r : r = IF Active(j) THEN Stopping(j) ELSE run[j]
  OBVIOUS
<1>7. RunShape(r) /\ r.pc = run[j].pc /\ r.leader = run[j].leader /\ (r.stop = run[j].stop \/ run[j].pc \in {"reading", "slot"})
  BY <1>1, <1>6, StoppingShape DEF Active, RunShapes
<1>8. run' = [run EXCEPT ![j] = r]
  BY <1>1, <1>2, <1>6 DEF RunShapes
<1>9. RunShapes' /\ run'[j] = r /\ \A u \in Job \ {j} : run'[u] = run[u]
  BY <1>1, <1>7, <1>8, RunRewritten
<1>10. req[j].answers \in Seq(Sayings)
  BY <1>1 DEF AnswerIs
<1> QED
  BY <1>2, <1>3, <1>4, <1>5, <1>7, <1>9, <1>10, StepStays

\* Nothing but the run moves, and of it neither the leader nor the reading.
LEMMA OnlyRun ==
  ASSUME ScriptInv, UNCHANGED <<setup, hub, req, busy, ran>>, NEW j \in Job, RunShapes',
         \A u \in Job \ {j} : run'[u] = run[u], run'[j].leader = run[j].leader,
         \/ run'[j].pc = run[j].pc
         \/ run[j].pc = "reading" /\ run'[j].pc = "slot",
         run'[j].stop = run[j].stop \/ run[j].pc \notin {"none", "returned"}
  PROVE  ScriptInv'
<1>1. ReqShapes' /\ req[j].answers \in Seq(Sayings)
  BY DEF ScriptInv, Each, AnswerIs, Shapes, ReqShapes
<1> QED
  BY <1>1, StepStays

LEMMA ScriptStepStep ==
  ASSUME ScriptInv, UNCHANGED setup, NEW j \in Job, ScriptStep(j)
  PROVE  ScriptInv'
<1>1. RunShapes /\ UNCHANGED <<setup, hub, req, busy>>
  BY DEF ScriptInv, Shapes, ScriptStep
<1>2. CASE run' = [run EXCEPT ![j].wrote = @ + 1, ![j].pipe = @ + 1] /\ UNCHANGED ran
  <2>1. PICK w : w = run[j].wrote + 1
    OBVIOUS
  <2>2. PICK n : n = run[j].pipe + 1
    OBVIOUS
  <2>3. run' = [run EXCEPT ![j].wrote = w, ![j].pipe = n]
    BY <1>1, <1>2, <2>1, <2>2 DEF RunShapes
  <2>4. RunShapes'
    BY <1>1, <2>3 DEF RunShapes, RunShape
  <2>5. run'[j].pc = run[j].pc /\ run'[j].leader = run[j].leader /\ run'[j].stop = run[j].stop
    BY <1>1, <2>3 DEF RunShapes, RunShape
  <2>6. \A u \in Job \ {j} : run'[u] = run[u]
    BY <1>1, <2>3 DEF RunShapes
  <2> QED
    BY <1>1, <1>2, <2>4, <2>5, <2>6, OnlyRun
<1>3. ASSUME NEW b, run' = [run EXCEPT ![j].bg = b], UNCHANGED ran PROVE ScriptInv'
  <2>1. RunShapes'
    BY <1>1, <1>3 DEF RunShapes, RunShape
  <2>2. run'[j].pc = run[j].pc /\ run'[j].leader = run[j].leader /\ run'[j].stop = run[j].stop
    BY <1>1, <1>3 DEF RunShapes, RunShape
  <2>3. \A u \in Job \ {j} : run'[u] = run[u]
    BY <1>1, <1>3 DEF RunShapes
  <2> QED
    BY <1>1, <1>3, <2>1, <2>2, <2>3, OnlyRun
<1>4. ASSUME NEW how \in Codes, run[j].leader = "alive", Exits(j, how) PROVE ScriptInv'
  <2>1. /\ run' = [run EXCEPT ![j].leader = how]
        /\ ran' = [ran EXCEPT ![j] = Append(@, <<job[j].plan[job[j].at], how>>)]
    BY <1>4 DEF Exits
  <2>2. RunShapes'
    BY <1>1, <2>1 DEF RunShapes, RunShape
  <2>3. run'[j].pc = run[j].pc /\ run'[j].leader = how
    BY <1>1, <2>1 DEF RunShapes, RunShape
  <2>4. \A u \in Job \ {j} : run'[u] = run[u]
    BY <1>1, <2>1 DEF RunShapes
  <2> QED
    BY <1>1, <1>4, <2>1, <2>2, <2>3, <2>4, LeaderEnds
<1>5. ASSUME run' = [run EXCEPT ![j].closed = "yes"], UNCHANGED ran PROVE ScriptInv'
  <2>1. RunShapes'
    BY <1>1, <1>5 DEF RunShapes, RunShape
  <2>2. run'[j].pc = run[j].pc /\ run'[j].leader = run[j].leader /\ run'[j].stop = run[j].stop
    BY <1>1, <1>5 DEF RunShapes, RunShape
  <2>3. \A u \in Job \ {j} : run'[u] = run[u]
    BY <1>1, <1>5 DEF RunShapes
  <2> QED
    BY <1>1, <1>5, <2>1, <2>2, <2>3, OnlyRun
<1> QED
  BY <1>2, <1>3, <1>4, <1>5 DEF ScriptStep, Codes

LEMMA RelayStep ==
  ASSUME ScriptInv, UNCHANGED setup, NEW j \in Job, Relay(j)
  PROVE  ScriptInv'
<1>1. RunShapes /\ ReqShapes /\ AnswerIs(j) /\ UNCHANGED <<setup, hub, busy, ran>>
  BY DEF ScriptInv, Shapes, Each, Relay
<1>2. CASE Line(j)
  <2>1. PICK n : n = run[j].pipe - 1
    OBVIOUS
  <2>2. run' = [run EXCEPT ![j].pipe = n] /\ run[j].pc = "reading"
    BY <1>1, <1>2, <2>1 DEF Line, RunShapes
  <2>3. RunShapes'
    BY <1>1, <2>2 DEF RunShapes, RunShape
  <2>4. run'[j].pc = run[j].pc /\ run'[j].leader = run[j].leader /\ run'[j].stop = run[j].stop
    BY <1>1, <2>2 DEF RunShapes, RunShape
  <2>5. \A u \in Job \ {j} : run'[u] = run[u]
    BY <1>1, <2>2 DEF RunShapes
  <2>6. CASE req' = req
    BY <1>1, <2>3, <2>4, <2>5, <2>6, OnlyRun
  <2>7. CASE req' = [req EXCEPT ![j].answers = Append(@, "line")] /\ job[j].pc = "reading"
    <3>1. \A i \in 1..Len(req[j].answers) : req[j].answers[i] # "rc 0"
      BY <1>1, <2>2, NotYet
    <3>2. "line" \in Sayings /\ "line" # "rc 0" /\ req[j].answers \in Seq(Sayings)
      BY <1>1 DEF Sayings, AnswerIs
    <3>3. PICK t \in Seq(Sayings) : t = Append(req[j].answers, "line")
      BY <3>2, Appended
    <3>4. \A i \in 1..Len(t) : t[i] # "rc 0"
      BY <3>1, <3>2, <3>3, Appended
    <3>5. req' = [req EXCEPT ![j].answers = t]
      BY <1>1, <2>7, <3>3 DEF ReqShapes
    <3>6. ReqShapes'
      BY <1>1, <3>5 DEF ReqShapes, ReqShape
    <3>7. req'[j].st = req[j].st /\ req'[j].answers = t
      BY <1>1, <3>5 DEF ReqShapes, ReqShape
    <3>8. \A u \in Job \ {j} : req'[u] = req[u]
      BY <1>1, <3>5 DEF ReqShapes
    <3> QED
      BY <1>1, <2>3, <2>4, <2>5, <2>7, <3>4, <3>6, <3>7, <3>8, StepStays
  <2> QED
    BY <1>2, <2>6, <2>7 DEF Line
<1>3. ASSUME run' = [run EXCEPT ![j].pc = "slot"], run[j].pc = "reading", UNCHANGED req
      PROVE  ScriptInv'
  <2>1. RunShapes'
    BY <1>1, <1>3 DEF RunShapes, RunShape
  <2>2. run'[j].pc = "slot" /\ run'[j].leader = run[j].leader /\ run'[j].stop = run[j].stop
    BY <1>1, <1>3 DEF RunShapes, RunShape
  <2>3. \A u \in Job \ {j} : run'[u] = run[u]
    BY <1>1, <1>3 DEF RunShapes
  <2> QED
    BY <1>1, <1>3, <2>1, <2>2, <2>3, OnlyRun
<1>4. ASSUME run' = [run EXCEPT ![j].grace = "on"], UNCHANGED req PROVE ScriptInv'
  <2>1. RunShapes'
    BY <1>1, <1>4 DEF RunShapes, RunShape
  <2>2. run'[j].pc = run[j].pc /\ run'[j].leader = run[j].leader /\ run'[j].stop = run[j].stop
    BY <1>1, <1>4 DEF RunShapes, RunShape
  <2>3. \A u \in Job \ {j} : run'[u] = run[u]
    BY <1>1, <1>4 DEF RunShapes
  <2> QED
    BY <1>1, <1>4, <2>1, <2>2, <2>3, OnlyRun
<1>5. CASE PipeEnd(j)
  BY <1>3, <1>5 DEF PipeEnd
<1>6. CASE Quiet(j)
  BY <1>3, <1>4, <1>6 DEF Quiet, Exited
<1> QED
  BY <1>2, <1>5, <1>6 DEF Relay

LEMMA GiveBackStep ==
  ASSUME ScriptInv, UNCHANGED setup, NEW j \in Job, GiveBack(j)
  PROVE  ScriptInv'
<1>1. JobIs(j) /\ StepIs(j) /\ AnswerIs(j) /\ Shapes /\ RunShapes /\ Named
  BY DEF ScriptInv, Each, Shapes
<1>2. /\ run[j].pc = "slot" /\ run[j].leader # "alive" /\ busy' = None /\ run' = [run EXCEPT ![j].pc = "answer"]
      /\ UNCHANGED <<setup, hub, req, ran>> /\ job' = job
  BY DEF GiveBack, hub
<1>3. RunShapes'
  BY <1>1, <1>2 DEF RunShapes, RunShape
<1>4. run'[j].pc = "answer" /\ run'[j].leader = run[j].leader /\ run'[j].stop = run[j].stop
  BY <1>1, <1>2 DEF RunShapes, RunShape
<1>5. \A u \in Job \ {j} : run'[u] = run[u]
  BY <1>1, <1>2 DEF RunShapes
<1>6. Shapes'
  BY <1>1, <1>2, <1>3 DEF Shapes, JobShapes, ReqShapes, hub
<1>7. StepIs(j)'
  <2>1. Past(j)' /\ (NotRun(j)' <=> NotRun(j)) /\ (RanAs(j, run[j].leader)' <=> RanAs(j, run[j].leader))
    BY <1>1, <1>2, <1>4 DEF StepIs, Past, NotRun, RanAs
  <2> QED
    BY <1>1, <1>2, <1>4, <2>1 DEF StepIs
<1>8. AnswerIs(j)'
  <2>1. job[j].outcome # "rc 0" /\ \A i \in 1..Len(req[j].answers) : req[j].answers[i] # "rc 0"
    BY <1>1, <1>2, NotYet
  <2> QED
    BY <1>1, <1>2, <2>1 DEF AnswerIs, LastWord
<1>9. busy' \in Job \cup {None} /\ \A u \in Job : run'[u].pc \in {"reading", "slot"} => busy' = u
  BY <1>1, <1>2, <1>4, <1>5 DEF Named
<1> QED
  BY <1>2, <1>5, <1>6, <1>7, <1>8, <1>9, NodeMoves

\* The answer carries how the leader of this step ended.
LEMMA AnswerStep ==
  ASSUME ScriptInv, UNCHANGED setup, NEW j \in Job, Answer(j)
  PROVE  ScriptInv'
<1>1. JobIs(j) /\ StepIs(j) /\ AnswerIs(j) /\ Shapes /\ RunShapes /\ ReqShapes /\ Named
  BY DEF ScriptInv, Each, Shapes
<1>2. run[j].pc = "answer" /\ UNCHANGED <<setup, hub, busy, ran>> /\ job' = job
  BY DEF Answer, hub
<1>3. PICK r : r = [NoRun EXCEPT !.pc = "returned", !.late = run[j].late,
                                 !.bg = IF run[j].late = "yes" THEN run[j].bg ELSE "none"]
  OBVIOUS
<1>4. RunShape(r) /\ r.pc = "returned" /\ r.leader = "none" /\ r.stop = "no"
  BY <1>3 DEF NoRun, RunShape
<1>5. RunShapes' /\ run'[j] = r /\ \A u \in Job \ {j} : run'[u] = run[u]
  <2>1. run' = [run EXCEPT ![j] = r]
    BY <1>3 DEF Answer
  <2> QED
    BY <1>1, <1>4, <2>1, RunRewritten
<1>6. run[j].leader \in Codes /\ RanAs(j, run[j].leader) /\ Past(j) /\ job[j].pc \notin {"none", "open"}
      /\ req[j].st \in {"node", "over"}
  BY <1>1, <1>2 DEF StepIs
<1>7. job[j].outcome # "rc 0" /\ \A i \in 1..Len(req[j].answers) : req[j].answers[i] # "rc 0"
  BY <1>1, <1>2, NotYet
<1>8. PICK x \in Sayings : x = IF run[j].late = "yes" THEN "timeout" ELSE run[j].leader
  BY <1>6 DEF Sayings
<1>9. x = "rc 0" => RanAs(j, "rc 0")
  <2>1. "timeout" # "rc 0"
    OBVIOUS
  <2> QED
    BY <1>6, <1>8, <2>1
<1>10. Past(j)' /\ (RanAs(j, "rc 0")' <=> RanAs(j, "rc 0"))
  BY <1>2, <1>6 DEF Past, RanAs
<1>11. PICK t \in Seq(Sayings) : t = IF run[j].cancelled = "yes" \/ job[j].pc # "reading" THEN req[j].answers
                                    ELSE Append(req[j].answers, x)
  <2>1. req[j].answers \in Seq(Sayings) /\ Append(req[j].answers, x) \in Seq(Sayings)
    BY <1>1, Appended DEF AnswerIs
  <2> QED
    BY <2>1
<1>12. /\ ReqShapes' /\ req'[j].st = "over" /\ (\A u \in Job \ {j} : req'[u] = req[u])
       /\ req'[j].answers = t \/ req'[j].answers = req[j].answers
  <2>1. CASE req[j].st # "node"
    <3>1. req' = req
      BY <2>1 DEF Answer
    <3> QED
      BY <1>1, <1>6, <2>1, <3>1 DEF ReqShapes
  <2>2. CASE req[j].st = "node"
    <3>1. req' = [req EXCEPT ![j].st = "over", ![j].answers = t]
      BY <1>1, <1>8, <1>11, <2>2 DEF Answer, ReqShapes
    <3>2. ReqShapes'
      BY <1>1, <3>1 DEF ReqShapes, ReqShape
    <3>3. req'[j] = [[req[j] EXCEPT !.st = "over"] EXCEPT !.answers = t]
      BY <1>1, <3>1 DEF ReqShapes
    <3>4. ReqShape(req[j])
      BY <1>1 DEF ReqShapes
    <3>5. req'[j] = [st |-> "over", answers |-> t, cancel |-> req[j].cancel]
      BY <3>3, <3>4 DEF ReqShape
    <3>6. req'[j].st = "over" /\ req'[j].answers = t
      BY <3>5, ReqFields
    <3>7. \A u \in Job \ {j} : req'[u] = req[u]
      BY <1>1, <3>1 DEF ReqShapes
    <3> QED
      BY <3>2, <3>6, <3>7
  <2> QED
    BY <2>1, <2>2
<1>13. Shapes'
  BY <1>1, <1>2, <1>5, <1>12 DEF Shapes, JobShapes, hub
<1>14. StepIs(j)'
  BY <1>1, <1>2, <1>4, <1>5, <1>6, <1>10, <1>12 DEF StepIs, Codes
<1>15. LastWord(j, req[j].answers)'
  <2>1. PICK q \in Seq(Sayings) : q = req[j].answers
    BY <1>1 DEF AnswerIs
  <2>2. \A i \in 1..Len(q) : q[i] # "rc 0"
    BY <1>7, <2>1
  <2>3. LastWord(j, q)'
    BY <2>2 DEF LastWord
  <2>4. LastWord(j, Append(q, x))'
    <3>1. x = "rc 0" => req'[j].st = "over" /\ run'[j].pc = "returned" /\ RanAs(j, "rc 0")'
      BY <1>4, <1>5, <1>9, <1>10, <1>12
    <3> QED
      BY <2>2, <3>1, AppendedWord
  <2>5. req'[j].answers = q \/ req'[j].answers = Append(q, x)
    BY <1>11, <1>12, <2>1
  <2> QED
    BY <2>3, <2>4, <2>5
<1>16. AnswerIs(j)'
  BY <1>1, <1>2, <1>7, <1>12, <1>15 DEF AnswerIs
<1>17. busy' \in Job \cup {None} /\ \A u \in Job : run'[u].pc \in {"reading", "slot"} => busy' = u
  BY <1>1, <1>2, <1>4, <1>5 DEF Named
<1> QED
  BY <1>2, <1>5, <1>12, <1>13, <1>14, <1>16, <1>17, NodeMoves

LEMMA TimerStep ==
  ASSUME ScriptInv, UNCHANGED setup, NEW j \in Job, Timer(j)
  PROVE  ScriptInv'
<1>1. RunShapes
  BY DEF ScriptInv, Shapes
<1>2. PICK t : t = Asked(j)
  OBVIOUS
<1>3. /\ run' = [run EXCEPT ![j].late = "yes", ![j].stop = t] /\ run[j].pc \in {"reading", "slot"}
      /\ UNCHANGED <<setup, hub, req, busy, ran>>
  BY <1>2 DEF Timer, Active
<1>4. RunShapes'
  BY <1>1, <1>3 DEF RunShapes, RunShape
<1>5. run'[j].pc = run[j].pc /\ run'[j].leader = run[j].leader
  BY <1>1, <1>3 DEF RunShapes, RunShape
<1>6. \A u \in Job \ {j} : run'[u] = run[u]
  BY <1>1, <1>3 DEF RunShapes
<1> QED
  BY <1>3, <1>4, <1>5, <1>6, OnlyRun

\* kill_group: the leader is left as it is, or killed, and then its end is
\* in the history.
LEMMA KilledStep ==
  ASSUME ScriptInv, UNCHANGED <<setup, hub, req, busy>>, NEW j \in Job, KillLeader(j), NEW t, NEW l, NEW b,
         run' = [run EXCEPT ![j].stop = t, ![j].leader = l, ![j].bg = b], run[j].stop # "no",
         l = run[j].leader \/ (run[j].leader = "alive" /\ l = "rc 1")
  PROVE  ScriptInv'
<1>1. RunShapes /\ StepIs(j)
  BY DEF ScriptInv, Shapes, Each
<1>2. /\ RunShapes' /\ run'[j].pc = run[j].pc /\ run'[j].leader = l
      /\ \A u \in Job \ {j} : run'[u] = run[u]
  BY <1>1, RunEnds
<1>3. run[j].pc \notin {"none", "returned"}
  BY <1>1 DEF StepIs
<1>4. CASE l = run[j].leader
  <2>1. ran' = ran
    BY <1>2, <1>4 DEF KillLeader
  <2> QED
    BY <1>2, <1>3, <1>4, <2>1, OnlyRun
<1>5. CASE run[j].leader = "alive" /\ l = "rc 1"
  <2>1. ran' = [ran EXCEPT ![j] = Append(@, <<job[j].plan[job[j].at], "rc 1">>)]
    BY <1>2, <1>5 DEF KillLeader
  <2>2. "rc 1" \in Codes
    BY DEF Codes
  <2> QED
    BY <1>2, <1>5, <2>1, <2>2, LeaderEnds
<1> QED
  BY <1>4, <1>5

LEMMA TermStep ==
  ASSUME ScriptInv, UNCHANGED setup, NEW j \in Job, Term(j)
  PROVE  ScriptInv'
<1>1. run[j].stop = "asked" /\ KillLeader(j) /\ UNCHANGED <<setup, hub, req, busy>> /\ RunShapes /\ StepIs(j)
  BY DEF Term, ScriptInv, Shapes, Each
<1>2. CASE run[j].leader # "alive" /\ run' = [run EXCEPT ![j].stop = "done"]
  <2>1. ran' = ran
    BY <1>1, <1>2 DEF KillLeader
  <2>2. RunShapes'
    BY <1>1, <1>2 DEF RunShapes, RunShape
  <2>3. run'[j].pc = run[j].pc /\ run'[j].leader = run[j].leader
    BY <1>1, <1>2 DEF RunShapes, RunShape
  <2>4. \A u \in Job \ {j} : run'[u] = run[u]
    BY <1>1, <1>2 DEF RunShapes
  <2>5. run[j].pc \notin {"none", "returned"}
    BY <1>1 DEF StepIs
  <2> QED
    BY <1>1, <2>1, <2>2, <2>3, <2>4, <2>5, OnlyRun
<1>3. ASSUME run[j].leader = "alive", NEW die \in SUBSET {"leader", "bg"}, Signalled(j, die) PROVE ScriptInv'
  <2>1. PICK l : l = IF "leader" \in die THEN "rc 1" ELSE run[j].leader
    OBVIOUS
  <2>2. PICK b : b = IF "bg" \in die THEN "none" ELSE run[j].bg
    OBVIOUS
  <2>3. run' = [run EXCEPT ![j].stop = "term", ![j].leader = l, ![j].bg = b]
    <3>1. /\ [run EXCEPT ![j].stop = "term"][j].leader = run[j].leader
          /\ [run EXCEPT ![j].stop = "term"][j].bg = run[j].bg
      BY <1>1 DEF RunShapes, RunShape
    <3> QED
      BY <1>1, <1>3, <2>1, <2>2, <3>1 DEF Signalled, RunShapes, RunShape
  <2>4. l = run[j].leader \/ (run[j].leader = "alive" /\ l = "rc 1")
    BY <1>3, <2>1
  <2>5. run[j].stop # "no"
    BY <1>1
  <2> QED
    BY <1>1, <2>3, <2>4, <2>5, KilledStep
<1> QED
  BY <1>2, <1>3 DEF Term

LEMMA KillStep ==
  ASSUME ScriptInv, UNCHANGED setup, NEW j \in Job, Kill(j)
  PROVE  ScriptInv'
<1>1. run[j].stop = "term" /\ KillLeader(j) /\ UNCHANGED <<setup, hub, req, busy>> /\ RunShapes
  BY DEF Kill, ScriptInv, Shapes
<1>2. PICK l : l = IF Outlived(j) THEN "rc 1" ELSE run[j].leader
  OBVIOUS
<1>3. PICK b : b = IF Outlived(j) THEN "none" ELSE run[j].bg
  OBVIOUS
<1>4. run' = [run EXCEPT ![j].stop = "done", ![j].leader = l, ![j].bg = b]
  BY <1>1, <1>2, <1>3 DEF Kill, RunShapes, RunShape
<1>5. l = run[j].leader \/ (run[j].leader = "alive" /\ l = "rc 1")
  BY <1>2 DEF Outlived
<1>6. run[j].stop # "no"
  BY <1>1
<1> QED
  BY <1>1, <1>4, <1>5, <1>6, KilledStep

LEMMA StutterStep ==
  ASSUME ScriptInv, UNCHANGED vars
  PROVE  ScriptInv'
<1>1. UNCHANGED <<setup, job, running, req, node>> /\ sub' = sub
  BY DEF vars, changing, node
<1>2. Follower'
  BY <1>1, FollowerStays DEF finished
<1> QED
  BY <1>1, <1>2, OnlyFollower DEF ScriptInv, Shapes

LEMMA StepsKeep ==
  ASSUME ScriptInv, [Next]_vars
  PROVE  ScriptInv'
<1>1. CASE UNCHANGED vars
  BY <1>1, StutterStep
<1>2. ASSUME UNCHANGED setup, NEW j \in Job, HubStep(j) PROVE ScriptInv'
  BY <1>2, OpenStep, ReadStep, CancelledStep, SetStateStep, ReleaseStep DEF HubStep
<1>3. ASSUME UNCHANGED setup, NEW j \in Job, NodeStep(j) PROVE ScriptInv'
  BY <1>3, BeginStep, CancelArrivesStep, RelayStep, GiveBackStep, AnswerStep DEF NodeStep
<1>4. ASSUME UNCHANGED setup, NEW j \in Job, Stop(j) PROVE ScriptInv'
  BY <1>4, TermStep, KillStep DEF Stop
<1>5. ASSUME UNCHANGED setup, LinkLost PROVE ScriptInv'
  BY <1>5, CutStep DEF LinkLost
<1>6. CASE Next
  BY <1>2, <1>3, <1>4, <1>5, <1>6, StartStep, GiveUpStep, SubscribeStep, ScriptStepStep, TimerStep,
     FollowStep, ShutdownStep, LinkBackStep DEF Next
<1> QED
  BY <1>1, <1>6
-----------------------------------------------------------------------------
\* The invariant: every answer, and every end of a leader, belongs to the
\* step its job is at (Runner::one of services/scripts.rs, run of the node's
\* scripts.rs).
THEOREM ScriptInvariant == Spec => []ScriptInv
<1>1. Init => ScriptInv
  BY ScriptInit
<1>2. ScriptInv /\ [Next]_vars => ScriptInv'
  BY StepsKeep
<1> QED
  BY <1>1, <1>2, PTL DEF Spec

\* What a completed job left in the history is its plan, each step with 0.
LEMMA CompletedRan ==
  ASSUME ScriptInv, NEW j \in Job, job[j].state = "completed"
  PROVE  ran[j] = [k \in DOMAIN job[j].plan |-> <<job[j].plan[k], "rc 0">>]
<1>1. JobIs(j) /\ StepIs(j) /\ AnswerIs(j) /\ Past(j)
  BY DEF ScriptInv, Each, StepIs
<1>2. /\ job[j].outcome = "rc 0" /\ job[j].plan = Plan(j) /\ job[j].at = Len(Plan(j)) /\ RanAs(j, "rc 0")
  BY <1>1 DEF JobIs, AnswerIs
<1>3. PICK n \in {1, 2} : n = Len(Plan(j))
  BY PlanIs
<1>4. Len(ran[j]) = n /\ ran[j] \in Seq({"down", "up"} \X Codes) /\ ran[j][n][2] = "rc 0"
  BY <1>1, <1>2, <1>3 DEF RanAs, Past
<1>5. ASSUME NEW i \in 1..n PROVE ran[j][i] = <<job[j].plan[i], "rc 0">>
  <2>1. ran[j][i] \in {"down", "up"} \X Codes
    BY <1>4, ElementOfSeq
  <2>2. ran[j][i][1] = job[j].plan[i]
    BY <1>1, <1>4 DEF Past
  <2>3. i < n \/ i = n
    BY <1>3
  <2>4. ran[j][i][2] = "rc 0"
    BY <1>1, <1>2, <1>3, <1>4, <2>3 DEF Past
  <2> QED
    BY <2>1, <2>2, <2>4, Pairs
<1>6. DOMAIN job[j].plan = 1..n
  <2>1. Plan(j) \in Seq({"down", "up"})
    <3>1. <<"up">> \in Seq({"down", "up"}) /\ <<"down", "up">> \in Seq({"down", "up"})
      OBVIOUS
    <3> QED
      BY <3>1, PlanIs
  <2> QED
    BY <1>2, <1>3, <2>1, LenProperties
<1>7. ran[j] = [k \in 1..n |-> ran[j][k]]
  BY <1>4, LenProperties
<1> QED
  BY <1>5, <1>6, <1>7

\* A second leader ran only after `down` exited with 0.
LEMMA DownFirst ==
  ASSUME ScriptInv, NEW j \in Job, Len(ran[j]) > 1
  PROVE  ran[j][1] = <<"down", "rc 0">>
<1>1. JobIs(j) /\ StepIs(j) /\ Past(j)
  BY DEF ScriptInv, Each, StepIs
<1>2. PICK m \in Nat : m = Len(ran[j]) /\ m > 1
  BY <1>1, LenProperties DEF Past
<1>3. job[j].pc # "none"
  <2>1. Len(<<>>) = 0
    OBVIOUS
  <2>2. job[j].pc = "none" => m = 0
    BY <1>1, <1>2, <2>1 DEF StepIs
  <2> QED
    BY <1>2, <2>2
<1>4. job[j].plan = Plan(j) /\ job[j].at \in 1..Len(Plan(j))
  BY <1>1, <1>3 DEF JobIs
<1>5. PICK n \in {1, 2} : n = Len(Plan(j))
  BY PlanIs
<1>6. PICK a : a = job[j].at
  OBVIOUS
<1>7. a = 2 /\ n = 2 /\ m = 2
  <2>1. a \in 1..n /\ m \in {a, a - 1} /\ m > 1
    BY <1>1, <1>2, <1>4, <1>5, <1>6 DEF Past
  <2>2. n \in {1, 2}
    BY <1>5
  <2> QED
    BY <2>1, <2>2
<1>8. Plan(j)[1] = "down"
  <2>1. Len(<<"up">>) # 2
    OBVIOUS
  <2>2. Plan(j) # <<"up">>
    <3>1. Len(Plan(j)) = 2
      BY <1>5, <1>7
    <3> QED
      BY <2>1, <3>1
  <2> QED
    BY <2>2, PlanIs
<1>9. 1 \in 1..m /\ 1 < a
  BY <1>7
<1>10. ran[j][1][1] = "down" /\ ran[j][1][2] = "rc 0"
  BY <1>1, <1>2, <1>4, <1>6, <1>8, <1>9 DEF Past
<1>11. ran[j][1] \in {"down", "up"} \X Codes
  BY <1>1, <1>2, <1>9, ElementOfSeq DEF Past
<1> QED
  BY <1>10, <1>11, Pairs

LEMMA OneLeader ==
  ASSUME ScriptInv
  PROVE  Cardinality({j \in Job : run[j].leader = "alive"}) <= 1
<1>1. PICK A : A = {j \in Job : run[j].leader = "alive"}
  OBVIOUS
<1>2. A \subseteq {busy}
  BY <1>1 DEF ScriptInv, Named, Each, StepIs
<1>3. IsFiniteSet({busy}) /\ Cardinality({busy}) = 1
  BY FS_Singleton
<1>4. Cardinality(A) <= Cardinality({busy})
  BY <1>2, <1>3, FS_Subset
<1> QED
  BY <1>1, <1>3, <1>4

\* A job is completed only when each of its steps exited with 0, `up` never
\* runs after a `down` that did not, and no two leaders of the script run at
\* once (Runner::execute of services/scripts.rs: "Stops at the first failure").
THEOREM ScriptSteps == Spec => []StepsFollow
<1>1. ScriptInv => StepsFollow
  <2>1. SUFFICES ASSUME ScriptInv PROVE TypeOK /\ StepsInOrder
    BY DEF StepsFollow
  <2>2. TypeOK
    BY <2>1 DEF ScriptInv, Each, Named, JobIs, StepIs, TypeOK
  <2>3. StepsInOrder
    BY <2>1, CompletedRan, DownFirst, OneLeader DEF StepsInOrder
  <2> QED
    BY <2>2, <2>3
<1> QED
  BY <1>1, ScriptInvariant, PTL

\* A subscriber that saw the job end was given its last line too
\* (ScriptService::stream: the state is read before the lines).
THEOREM ScriptLines == Spec => []LinesSeen
<1>1. ScriptInv => LinesSeen
  BY DEF ScriptInv, Follower, LinesSeen
<1> QED
  BY <1>1, ScriptInvariant, PTL
=============================================================================
