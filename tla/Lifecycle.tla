----------------------------- MODULE Lifecycle ------------------------------
(***************************************************************************)
(* The life of the managed instances of one host                           *)
(* (ec-hub/src/services/lifecycle.rs): the API requests create, start,     *)
(* stop, restart and remove, the supervisor's rounds, adoption, and the    *)
(* node they all command.  Each instance has a row in the hub's database   *)
(* and two containers on the node, the engine and its gateway.             *)
(*                                                                         *)
(* A request is a sequence of node commands with an await on each answer.  *)
(* create and start hold the host's lock; stop, remove and the supervisor  *)
(* do not, and the supervisor works on the rows it read at the start of    *)
(* its round and on the inventory the node pushed last.  What the hub does *)
(* in one poll is one action; a command the node runs and the hub's next   *)
(* command are one action when nothing but the answer lies between them.   *)
(* The health of an engine, its idle time, the checks of the preflight     *)
(* other than its port, and the phases its log shows are nondeterministic. *)
(***************************************************************************)
EXTENDS Naturals, FiniteSets

CONSTANTS
  Inst,        \* instance ids
  Ports,       \* the host's gateway range
  Foreign,     \* the choices for `foreign`
  Reqs,        \* API requests that may be in progress at a time
  Attempts,    \* GATEWAY_ATTEMPTS
  Plans,       \* bounds: how many calls each caller makes, and whether the supervisor's
               \* interval passes meanwhile
  MaxFaults    \* refusals, lost answers, dropped requests, link losses, hub crashes,
               \* and engines that exit by themselves

ASSUME LifecycleConstants ==
  /\ IsFiniteSet(Inst) /\ Ports \subseteq Nat \ {0} /\ IsFiniteSet(Ports)
  /\ Foreign \subseteq SUBSET Ports /\ Reqs \cap {"sup", "free"} = {} /\ Attempts \in Nat \ {0}
  /\ Plans \subseteq [calls : [Reqs -> Nat], watched : BOOLEAN] /\ MaxFaults \in Nat

Sup == "sup"              \* the supervisor, when it stops an idle instance
Tasks == Reqs \cup {Sup}
NoPort == 0
Free == "free"

ACTIVE == {"starting", "loading", "ready", "stopping"}
LIVE == {"starting", "loading", "ready"}
States == ACTIVE \cup {"stopped", "failed"}

VARIABLES
  row,     \* per instance: state, port and age of started_at in the database
  eng,     \* per instance: its engine container and the port in its labels
  gw,      \* per instance: its gateway container and the port it publishes
  foreign, \* ports of the range on which something the inventory lacks listens
  inv,     \* the inventory the node pushed last
  link,    \* "down", "new" (up, not yet seen by sync_links) or "up"
  lock,    \* the host's lock: the request that holds it, or Free
  req,     \* per task: its operation, instance and next await
  sup,     \* the supervisor: its round's snapshot, what is left of it, its evidence
  late,    \* commands whose answer nobody waits for any more
  served,  \* history: instances launched, their front door open, and not touched since
  born,    \* instance ids handed out
  calls,   \* calls each caller still makes
  faults

vars == <<row, eng, gw, foreign, inv, link, lock, req, sup, late, served, born, calls, faults>>
node == <<eng, gw, foreign>>
budget == <<calls, faults>>

Idle == [at |-> "idle"]
NoRow == [st |-> "absent", port |-> NoPort, started |-> "null"]
NoBox == [st |-> "none", port |-> NoPort]
Unknown == [known |-> "no", eng |-> [i \in Inst |-> NoBox], gw |-> [i \in Inst |-> NoBox]]
SupIdle == [at |-> "idle", todo |-> {}]
SupOff == [at |-> "off", todo |-> {}]    \* calls shorter than its interval

\* what an earlier run of the hub left: nothing, or instances it stopped, or that serve
Init ==
  /\ born \in SUBSET Inst /\ served \in SUBSET born
  /\ \E p \in {f \in [Inst -> Ports] : \A i, j \in Inst : f[i] = f[j] => i = j} :
     LET boxes(down) == [i \in Inst |-> IF i \notin born THEN NoBox ELSE
                           [st |-> IF i \in served THEN "running" ELSE down, port |-> p[i]]]
     IN  /\ row = [i \in Inst |-> IF i \notin born THEN NoRow ELSE
                     [st |-> IF i \in served THEN "ready" ELSE "stopped",
                      port |-> p[i], started |-> "old"]]
         /\ eng = boxes("clean") /\ gw = boxes("exited")
         /\ foreign \in {f \in Foreign : \A i \in served : p[i] \notin f}
  /\ inv = Unknown /\ link = "new" /\ lock = Free
  /\ req = [t \in Tasks |-> Idle] /\ late = {} /\ faults = 0
  /\ \E p \in Plans : calls = p.calls /\ sup = IF p.watched THEN SupIdle ELSE SupOff

-----------------------------------------------------------------------------
(* The database and what callers see of it.                                *)
Exists(i) == row[i].st # "absent"
Set(i, st) == IF Exists(i) THEN [row EXCEPT ![i].st = st] ELSE row   \* UPDATE ... WHERE id=?
Shown(i) == IF link = "down" /\ row[i].st \in ACTIVE THEN "unreachable" ELSE row[i].st

(* Ports not used by another active row, nor by a container of the inventory. *)
CandidatePorts(i) ==
  Ports \ ({row[j].port : j \in {k \in Inst \ {i} : row[k].st \in ACTIVE}}
           \cup {inv.gw[j].port : j \in Inst \ {i}})
IsLowest(p, ports) == p \in ports /\ \A q \in ports : p <= q
(* gateway() tries the plan's port and then these, the lowest first. *)
GatewayOrder(i, port) ==
  LET rest == CandidatePorts(i) \ {port}
  IN  {p \in rest : Cardinality({q \in rest : q < p}) + 1 < Attempts}

-----------------------------------------------------------------------------
(* The node's docker commands.                                             *)
Taken == foreign \cup {gw[i].port : i \in {k \in Inst : gw[k].st = "running"}}
Cmd(do, i, port) == [do |-> do, i |-> i, port |-> port]

\* docker refuses a command that clashes with what is there
Refused(c) ==
  CASE c.do = "run"     -> eng[c.i].st # "none"
    [] c.do = "gateway" -> eng[c.i].st = "none" \/ gw[c.i].st # "none"
    [] OTHER            -> FALSE
PortInUse(c) == c.do = "gateway" /\ c.port \in Taken

Containers(c) ==
  \/ c.do \in {"rmgw", "delgw"}   /\ gw' = [gw EXCEPT ![c.i] = NoBox] /\ UNCHANGED eng
  \/ c.do \in {"rmeng", "deleng", "rmback"}
                                  /\ eng' = [eng EXCEPT ![c.i] = NoBox] /\ UNCHANGED gw
  \/ c.do = "run"     /\ eng' = [eng EXCEPT ![c.i] = [st |-> "running", port |-> c.port]]
                      /\ UNCHANGED gw
  \/ c.do = "gateway" /\ gw' = [gw EXCEPT ![c.i] = [st |-> "running", port |-> c.port]]
                      /\ UNCHANGED eng
  \/ /\ c.do = "stopgw" /\ UNCHANGED eng
     /\ gw' = IF gw[c.i].st = "running" THEN [gw EXCEPT ![c.i].st = "exited"] ELSE gw
  \/ /\ c.do = "stopeng" /\ UNCHANGED gw
     /\ IF eng[c.i].st = "running"
        THEN \E code \in {"clean", "crashed"} : eng' = [eng EXCEPT ![c.i].st = code]
        ELSE UNCHANGED eng
Exec(c) == UNCHANGED foreign /\ Containers(c)

-----------------------------------------------------------------------------
(* Requests.  `at` names the command whose answer the task awaits, or      *)
(* "lock", "fit", "preflight", "settle"; "launched", "stopped" and         *)
(* "deleted" are the last answer on its way back.  net.ensure_internal,    *)
(* the first await of launch, is part of "rmgw".                           *)
Launching == {"rmgw", "rmeng", "run", "gateway", "rmback", "launched"}
Stopping == {"stopgw", "stopeng", "stopped"}
Removing == {"delgw", "deleng", "deleted"}
Commands == {"rmgw", "rmeng", "run", "gateway", "rmback", "stopgw", "stopeng", "delgw", "deleng"}

CmdOf(t) == Cmd(req[t].at, req[t].i, req[t].port)
Goto(t, at) == req' = [req EXCEPT ![t].at = at]
\* the guard goes with the request, whether it returns, fails or is dropped
ReleasedAtEnd(t) == IF lock = t /\ req[t].at = "launched" THEN Free ELSE lock
Released(t) == IF lock = t THEN Free ELSE lock
Return(t) == req' = [req EXCEPT ![t] = Idle] /\ lock' = Released(t)
Touched(i) == served' = served \ {i}

Task(op, i, at, port, before) ==
  [op |-> op, i |-> i, at |-> at, port |-> port, before |-> before, order |-> {}]

Spend(r) == calls' = [calls EXCEPT ![r] = @ - 1]
CallCreate(r, i) ==
  /\ req[r] = Idle /\ calls[r] > 0 /\ i \notin born
  /\ Spend(r) /\ born' = born \cup {i}
  /\ req' = [req EXCEPT ![r] = Task("create", i, "lock", NoPort, "absent")]
  /\ UNCHANGED <<row, node, inv, link, lock, sup, late, served, faults>>

CallStart(r, i) ==
  /\ req[r] = Idle /\ calls[r] > 0 /\ Exists(i) /\ Shown(i) \notin LIVE
  /\ Spend(r)
  /\ req' = [req EXCEPT ![r] = Task("start", i, "lock", NoPort, "absent")]
  /\ UNCHANGED <<row, node, inv, link, lock, sup, late, served, born, faults>>

\* set stopping, then the first command; with the link down the call fails at once
\* and the state is put back
BeginStop(t, op, i) ==
  /\ Exists(i) /\ row[i].st # "stopped" /\ link # "down"
  /\ row' = Set(i, "stopping") /\ Touched(i)
  /\ req' = [req EXCEPT ![t] = Task(op, i, "stopgw", NoPort, row[i].st)]

CallStop(r, i) ==
  /\ req[r] = Idle /\ calls[r] > 0
  /\ \E op \in {"stop", "restart"} : BeginStop(r, op, i)
  /\ Spend(r)
  /\ UNCHANGED <<node, inv, link, lock, sup, late, born, faults>>

\* restart of a stopped instance: there is nothing to stop
CallRestart(r, i) ==
  /\ req[r] = Idle /\ calls[r] > 0 /\ row[i].st = "stopped"
  /\ Spend(r)
  /\ req' = [req EXCEPT ![r] = Task("start", i, "settle", NoPort, "absent")]
  /\ UNCHANGED <<row, node, inv, link, lock, sup, late, served, born, faults>>

CallRemove(r, i) ==
  /\ req[r] = Idle /\ calls[r] > 0 /\ Exists(i) /\ link # "down"
  /\ Spend(r) /\ Touched(i)
  /\ req' = [req EXCEPT ![r] = Task("remove", i, "delgw", NoPort, "absent")]
  /\ UNCHANGED <<row, node, inv, link, lock, sup, late, born, faults>>

\* under the lock: start looks at the state again, and preflight at the link
StillStartableUnlooked(r) == req[r].op = "create" \/ Exists(req[r].i)
StillStartable(r) == req[r].op = "create" \/ (Exists(req[r].i) /\ Shown(req[r].i) \notin LIVE)
Acquire(r) ==
  /\ req[r].at = "lock" /\ lock = Free
  /\ IF StillStartable(r) /\ link # "down" THEN lock' = r /\ Goto(r, "fit") ELSE Return(r)
  /\ UNCHANGED <<row, node, inv, link, sup, late, served, born, budget>>

\* the model's size is known; the first free port is the plan's
AllocPort(r) ==
  /\ req[r].at = "fit"
  /\ IF CandidatePorts(req[r].i) = {} THEN Return(r)
     ELSE /\ \E p \in Ports : IsLowest(p, CandidatePorts(req[r].i))
                             /\ req' = [req EXCEPT ![r].at = "preflight", ![r].port = p]
          /\ UNCHANGED lock
  /\ UNCHANGED <<row, node, inv, link, sup, late, served, born, budget>>

PreflightBlocks(r) ==
  /\ req[r].at \in {"fit", "preflight"} /\ Return(r)
  /\ UNCHANGED <<row, node, inv, link, sup, late, served, born, budget>>

\* INSERT, or UPDATE of a row that may be gone by now, and the first command of launch
BeginLaunch(r) ==
  LET i == req[r].i
      st == IF link = "down" THEN "failed" ELSE "starting"
  IN
  /\ req[r].at = "preflight"
  /\ row' = IF req[r].op = "create"
            THEN [row EXCEPT ![i] = [st |-> st, port |-> req[r].port, started |-> "null"]]
            ELSE IF Exists(i) THEN [row EXCEPT ![i].st = st, ![i].port = req[r].port] ELSE row
  /\ IF link = "down" THEN Return(r) ELSE Goto(r, "rmgw") /\ UNCHANGED lock
  /\ UNCHANGED <<node, inv, link, sup, late, served, born, budget>>

After(at) ==
  CASE at = "rmgw" -> "rmeng"       [] at = "rmeng" -> "run"
    [] at = "run" -> "gateway"      [] at = "gateway" -> "launched"
    [] at = "stopgw" -> "stopeng"   [] at = "stopeng" -> "stopped"
    [] at = "delgw" -> "deleng"     [] at = "deleng" -> "deleted"

\* the node runs the command and the hub, on its answer, goes on to the next one
Answered(t) ==
  /\ req[t].at \in Commands \ {"rmback"} /\ link # "down"
  /\ ~Refused(CmdOf(t)) /\ ~PortInUse(CmdOf(t))
  /\ Exec(CmdOf(t))
  /\ req' = [req EXCEPT ![t].at = After(req[t].at),
                        ![t].order = IF req[t].at = "run"
                                     THEN GatewayOrder(req[t].i, req[t].port) ELSE {}]
  /\ served' = IF req[t].at = "gateway" THEN served \cup {req[t].i} ELSE served \ {req[t].i}
  /\ UNCHANGED <<row, inv, link, lock, sup, late, born, budget>>

\* the error path of launch, stop and remove; `unavailable`: the node could not be asked
FailedHeadless(t, unavailable) ==
  row' = Set(req[t].i, IF req[t].at \in Stopping /\ unavailable THEN req[t].before ELSE "failed")
  /\ Return(t)
Failed(t, unavailable) ==
  LET i == req[t].i
  IN
  CASE req[t].at = "gateway" ->
         Goto(t, "rmback") /\ UNCHANGED <<row, lock>>
    [] req[t].at \in Launching \ {"gateway"} ->
         row' = Set(i, "failed") /\ Return(t)
    [] req[t].at \in Stopping ->
         row' = Set(i, IF unavailable THEN req[t].before ELSE "failed") /\ Return(t)
    [] OTHER -> Return(t) /\ UNCHANGED row

\* gateway(): port_in_use, try the next port of the order
LeftPortsSame(order, p) == order
LeftPorts(order, p) == order \ {p}
NextPort(t) ==
  LET order == req[t].order
  IN
  /\ req[t].at = "gateway" /\ link # "down"
  /\ ~Refused(CmdOf(t)) /\ PortInUse(CmdOf(t))
  /\ IF order = {} THEN Failed(t, FALSE)
     ELSE /\ \E p \in order : IsLowest(p, order)
                             /\ req' = [req EXCEPT ![t].port = p, ![t].order = LeftPorts(order, p)]
          /\ UNCHANGED <<row, lock>>
  /\ UNCHANGED <<node, inv, link, sup, late, served, born, budget>>

\* docker refuses: by what is there, or for a reason of its own
Refuses(t) ==
  /\ req[t].at \in Commands /\ link # "down"
  /\ \/ Refused(CmdOf(t)) /\ UNCHANGED faults
     \/ faults < MaxFaults /\ faults' = faults + 1
  /\ Failed(t, FALSE) /\ Touched(req[t].i)
  /\ UNCHANGED <<node, inv, link, sup, late, born, calls>>

\* the engine without a gateway is removed; then the instance is failed
RemovedBack(t) ==
  /\ req[t].at = "rmback" /\ link # "down"
  /\ Exec(CmdOf(t)) /\ Failed(t, FALSE)
  /\ UNCHANGED <<inv, link, sup, late, served, born, budget>>

\* the command may still run on the node
Orphan(t) == \/ UNCHANGED late
             \/ req[t].at \in Commands /\ late' = late \cup {CmdOf(t)}

\* no answer: the link went, the node is busy, or the timeout passed
NoAnswer ==
  IF link = "down" THEN UNCHANGED faults ELSE faults < MaxFaults /\ faults' = faults + 1
Unanswered(t) ==
  /\ req[t].at \in Commands
  /\ NoAnswer
  /\ Orphan(t) /\ Failed(t, TRUE) /\ Touched(req[t].i)
  /\ UNCHANGED <<node, inv, link, sup, born, calls>>

LateCommand ==
  \E c \in late :
    /\ late' = late \ {c}
    /\ \/ UNCHANGED <<node, served>>
       \/ ~Refused(c) /\ ~PortInUse(c) /\ Exec(c) /\ Touched(c.i)
    /\ UNCHANGED <<row, inv, link, lock, req, sup, born, budget>>

LaunchedRowPlanned(t) ==
  IF Exists(req[t].i)
  THEN [row EXCEPT ![req[t].i].st = "starting", ![req[t].i].started = "recent"]
  ELSE row
LaunchedRow(t) ==
  IF Exists(req[t].i)
  THEN [row EXCEPT ![req[t].i] = [st |-> "starting", port |-> req[t].port, started |-> "recent"]]
  ELSE row
LaunchDone(t) ==
  /\ req[t].at = "launched"
  /\ row' = LaunchedRow(t) /\ Return(t)
  /\ served' = IF Exists(req[t].i) THEN served ELSE served \ {req[t].i}
  /\ UNCHANGED <<node, inv, link, sup, late, born, budget>>

StopDone(t) ==
  /\ req[t].at = "stopped"
  /\ row' = Set(req[t].i, "stopped") /\ Touched(req[t].i)
  /\ IF req[t].op = "restart"
     THEN /\ req' = [req EXCEPT ![t] = Task("start", req[t].i, "settle", NoPort, "absent")]
          /\ UNCHANGED lock
     ELSE Return(t)
  /\ UNCHANGED <<node, inv, link, sup, late, born, budget>>

\* restart: after the pause, start
Settled(r) ==
  /\ req[r].at = "settle"
  /\ IF StillStartable(r) THEN Goto(r, "lock") /\ UNCHANGED lock ELSE Return(r)
  /\ UNCHANGED <<row, node, inv, link, sup, late, served, born, budget>>

RemoveDone(t) ==
  /\ req[t].at = "deleted"
  /\ row' = [row EXCEPT ![req[t].i] = NoRow] /\ Touched(req[t].i) /\ Return(t)
  /\ UNCHANGED <<node, inv, link, sup, late, born, budget>>

-----------------------------------------------------------------------------
(* The supervisor.  A round adopts after a new connection, takes the active *)
(* rows, and deals with them one after the other.                          *)
AdoptedPort(i) == IF inv.gw[i].st # "none" THEN inv.gw[i].port ELSE inv.eng[i].port
AdoptedRow(i) ==
  LET c == inv.eng[i]
      port == AdoptedPort(i)
  IN
  CASE c.st = "none" -> row[i]
    [] c.st = "running" /\ Exists(i) -> [row[i] EXCEPT !.st = "loading"]
    [] c.st = "clean" /\ row[i].st \in ACTIVE -> [row[i] EXCEPT !.st = "stopped"]
    [] c.st # "none" /\ ~Exists(i) /\ port \in Ports ->
         IF c.st = "running" THEN [st |-> "loading", port |-> port, started |-> "recent"]
                             ELSE [st |-> "stopped", port |-> port, started |-> "null"]
    [] OTHER -> row[i]

Adopted == IF link = "new" THEN [i \in Inst |-> AdoptedRow(i)] ELSE row
Supervised(r) == {i \in Inst : r[i].st \in ACTIVE}   \* all_active
Tick ==
  /\ sup.at = "idle" /\ link # "down"
  /\ row' = Adopted
  /\ link' = "up"
  /\ sup' = IF Supervised(row') = {} THEN SupIdle
            ELSE [at |-> "loop", todo |-> Supervised(row'), snap |-> row']
  /\ served' = served \cap {i \in Inst : row'[i].st \in LIVE}
  /\ UNCHANGED <<node, inv, lock, req, late, born, budget>>

\* what is left of the round after instance i
Done(i) == IF sup.todo \subseteq {i} THEN SupIdle
           ELSE [at |-> "loop", todo |-> sup.todo \ {i}, snap |-> sup.snap]
\* awaiting something for i; its snapshot is kept while it will be read again
Await(i, at, ev) ==
  [at |-> at, todo |-> sup.todo, i |-> i, ev |-> ev,
   snap |-> IF at \in {"inspect", "inspected", "probe"} THEN sup.snap ELSE [sup.snap EXCEPT ![i] = NoRow]]

\* container(): "ask" when the inventory may simply not have caught up
Fact(box, since) ==
  IF inv.known = "yes" /\ box.st # "none" THEN box.st
  ELSE IF inv.known = "yes" /\ since # "recent" THEN "none" ELSE "ask"

\* the verdict on evidence: engine e, gateway g of an instance in state st
VerdictTrusting(st, e, g) ==
  IF "ask" = e \/ (st # "stopping" /\ e = "running" /\ g = "ask") THEN "inspect"
  ELSE IF st = "stopping" THEN (IF e = "running" THEN "done" ELSE "stopped")
  ELSE IF st = "ready" THEN "ready"
  ELSE IF e = "none" THEN "gone"
  ELSE IF e # "running" THEN "exited"
  ELSE IF g # "running" THEN "headless" ELSE "probe"
Verdict(st, e, g) ==
  IF "ask" = e \/ (st # "stopping" /\ e = "running" /\ g = "ask") THEN "inspect"
  ELSE IF st = "stopping" THEN (IF e = "running" THEN "done" ELSE "stopped")
  ELSE IF e = "none" THEN "gone"
  ELSE IF e # "running" THEN "exited"
  ELSE IF g # "running" THEN "headless"
  ELSE IF st = "ready" THEN "ready" ELSE "probe"

\* what the hub does with a verdict in the poll that reaches it
Act(i, v) ==
  \/ v = "done" /\ sup' = Done(i) /\ UNCHANGED <<row, req, served>>
  \/ v = "stopped" /\ row' = Set(i, "stopped") /\ Touched(i) /\ sup' = Done(i) /\ UNCHANGED req
  \/ v = "gone" /\ row' = Set(i, "failed") /\ Touched(i)
     /\ sup' = Await(i, "gateway", v) /\ UNCHANGED req
  \/ v = "headless" /\ row' = Set(i, "failed") /\ Touched(i) /\ sup' = Done(i) /\ UNCHANGED req
  \/ v = "ready" /\ sup' = Done(i) /\ UNCHANGED <<row, req, served>>
  \/ v = "ready" /\ BeginStop(Sup, "stop", i) /\ sup' = Await(i, "idle_stop", v)   \* idle TTL
  \/ v \in {"inspect", "exited", "probe"} /\ sup' = Await(i, v, v) /\ UNCHANGED <<row, req, served>>

\* supervise(): the link, then the inventory
Since(s) == IF s.st = "stopping" THEN "null" ELSE s.started
Look(i) ==
  LET s == sup.snap[i]
  IN
  /\ sup.at = "loop" /\ i \in sup.todo
  /\ IF link = "down" THEN sup' = Done(i) /\ UNCHANGED <<row, req, served>>
     ELSE Act(i, Verdict(s.st, Fact(inv.eng[i], Since(s)), Fact(inv.gw[i], Since(s))))
  /\ UNCHANGED <<node, inv, link, lock, late, born, budget>>

\* docker.inspect of what the inventory does not tell; an error ends this instance's turn.
\* A gateway must also have the role and the instance that its labels name: here every
\* container of such a name is one the console made, and has them.
Asked(fact, real) == IF fact = "ask" THEN real ELSE fact
Inspect ==
  LET i == sup.i
      s == sup.snap[i]
  IN
  /\ sup.at = "inspect"
  /\ \/ NoAnswer /\ sup' = Done(i)
     \/ /\ link # "down" /\ UNCHANGED faults
        /\ sup' = Await(i, "inspected",
                        Verdict(s.st, Asked(Fact(inv.eng[i], Since(s)), eng[i].st),
                                      Asked(Fact(inv.gw[i], Since(s)), gw[i].st)))
  /\ UNCHANGED <<row, node, inv, link, lock, req, late, served, born, calls>>

Inspected ==
  /\ sup.at = "inspected" /\ Act(sup.i, sup.ev)
  /\ UNCHANGED <<node, inv, link, lock, late, born, budget>>

\* the logs were read; the crash is recorded and the gateway stopped
Exited ==
  /\ sup.at = "exited"
  /\ row' = Set(sup.i, "failed") /\ Touched(sup.i)
  /\ sup' = Await(sup.i, "gateway", "exited")
  /\ UNCHANGED <<node, inv, link, lock, req, late, born, budget>>

StopGateway ==
  /\ sup.at = "gateway"
  /\ \/ link # "down" /\ Exec(Cmd("stopgw", sup.i, NoPort)) /\ Touched(sup.i) /\ UNCHANGED faults
     \/ NoAnswer /\ UNCHANGED <<node, served>>
  /\ sup' = Done(sup.i)
  /\ UNCHANGED <<row, inv, link, lock, req, late, born, calls>>

\* GET the health path through the port of the row as it was: whoever answers there
Answers(port) == \E j \in Inst : gw[j] = [st |-> "running", port |-> port] /\ eng[j].st = "running"
OverdueNever(s) == FALSE
Overdue(s) == s.started = "overdue"    \* startup_timeout_s has passed
Probe ==
  LET s == sup.snap[sup.i]
  IN
  /\ sup.at = "probe"
  /\ \/ link # "down" /\ Answers(s.port) /\ sup' = Await(sup.i, "write", "ready")
     \/ sup' = IF Overdue(s) THEN Await(sup.i, "write", "failed")
               ELSE Await(sup.i, "write", s.st)
     \/ ~Overdue(s) /\ sup' = Await(sup.i, "write", "loading")   \* the log shows a phase
     \/ ~Overdue(s) /\ sup' = Done(sup.i)                        \* nothing new
  /\ UNCHANGED <<row, node, inv, link, lock, req, late, served, born, budget>>

\* progress() writes the state it computed from the snapshot
Write ==
  /\ sup.at = "write"
  /\ row' = Set(sup.i, sup.ev)
  /\ IF sup.ev \in LIVE THEN UNCHANGED served ELSE Touched(sup.i)
  /\ sup' = Done(sup.i)
  /\ UNCHANGED <<node, inv, link, lock, req, late, born, budget>>

IdleStopped ==
  /\ sup.at = "idle_stop" /\ req[Sup] = Idle
  /\ sup' = Done(sup.i)
  /\ UNCHANGED <<row, node, inv, link, lock, req, late, served, born, budget>>

-----------------------------------------------------------------------------
(* The node's side, time and faults.                                       *)
Push ==
  /\ link # "down" /\ sup # SupOff
  /\ inv' = [known |-> "yes", eng |-> eng, gw |-> gw] /\ inv' # inv
  /\ UNCHANGED <<row, node, link, lock, req, sup, late, served, born, budget>>

Older == [null |-> "null", recent |-> "old", old |-> "overdue", overdue |-> "overdue"]
Age(i) ==
  /\ sup # SupOff /\ row[i].st \in LIVE /\ row[i].started \in {"recent", "old"}
  /\ row' = [row EXCEPT ![i].started = Older[@]]
  /\ sup' = IF sup.at \in {"idle", "off"} THEN sup ELSE [sup EXCEPT !.snap[i].started = Older[@]]
  /\ UNCHANGED <<node, inv, link, lock, req, late, served, born, budget>>

EngineExits(i) ==
  /\ eng[i].st = "running" /\ faults < MaxFaults /\ faults' = faults + 1
  /\ \E code \in {"clean", "crashed"} : eng' = [eng EXCEPT ![i].st = code]
  /\ Touched(i)
  /\ UNCHANGED <<row, gw, foreign, inv, link, lock, req, sup, late, born, calls>>

\* the client goes away: the request's future is dropped, and its guard with it
Drop(r) ==
  /\ r \in Reqs /\ req[r] # Idle /\ faults < MaxFaults /\ faults' = faults + 1
  /\ Orphan(r) /\ Touched(req[r].i) /\ Return(r)
  /\ UNCHANGED <<row, node, inv, link, sup, born, calls>>

LinkDown ==
  /\ link # "down" /\ faults < MaxFaults /\ faults' = faults + 1
  /\ link' = "down"
  /\ UNCHANGED <<row, node, inv, lock, req, sup, late, served, born, calls>>

LinkUp ==
  /\ link = "down" /\ link' = "new"
  /\ UNCHANGED <<row, node, inv, lock, req, sup, late, served, born, budget>>

Asleep == IF sup = SupOff THEN SupOff ELSE SupIdle
HubCrash ==
  /\ faults < MaxFaults /\ faults' = faults + 1
  /\ \E lost \in SUBSET {CmdOf(t) : t \in {u \in Tasks : req[u].at \in Commands}} :
       late' = late \cup lost
  /\ served' = served \ {req[t].i : t \in {u \in Tasks : req[u] # Idle}}
  /\ req' = [t \in Tasks |-> Idle] /\ sup' = Asleep
  /\ lock' = Free /\ inv' = Unknown /\ link' = "down"
  /\ UNCHANGED <<row, node, born, calls>>

Progress(t) ==
  \/ Answered(t) \/ NextPort(t) \/ Refuses(t) \/ RemovedBack(t) \/ Unanswered(t)
  \/ LaunchDone(t) \/ StopDone(t) \/ RemoveDone(t)
Locked(r) == Acquire(r) \/ AllocPort(r) \/ PreflightBlocks(r) \/ BeginLaunch(r) \/ Settled(r)
Supervise ==
  \/ Tick \/ Inspect \/ Inspected \/ Exited \/ StopGateway \/ Probe \/ Write \/ IdleStopped
  \/ \E i \in Inst : Look(i)
Call(r) == \E i \in Inst : CallCreate(r, i) \/ CallStart(r, i) \/ CallStop(r, i)
                         \/ CallRestart(r, i) \/ CallRemove(r, i)

Next ==
  \/ \E r \in Reqs : Call(r) \/ Locked(r) \/ Drop(r)
  \/ \E t \in Tasks : Progress(t)
  \/ Supervise \/ LateCommand \/ Push \/ LinkDown \/ LinkUp \/ HubCrash
  \/ \E i \in Inst : Age(i) \/ EngineExits(i)

Spec == Init /\ [][Next]_vars
Fairness ==
  /\ \A t \in Tasks : WF_vars(Progress(t))
  /\ \A r \in Reqs : WF_vars(Locked(r))
  /\ WF_vars(Supervise) /\ WF_vars(Push) /\ WF_vars(LinkUp)
  /\ \A i \in Inst : WF_vars(Age(i))
LiveSpec == Spec /\ Fairness

-----------------------------------------------------------------------------
Box(states) == [st : states, port : Ports \cup {NoPort}]
EngBox == Box({"none", "running", "clean", "crashed"})
GwBox == Box({"none", "running", "exited"})

(* The one type invariant: an instance's row names a port of the host's    *)
(* range from INSERT (create, adopt_host) to DELETE.                       *)
TypeOK ==
  /\ \A i \in Inst : \/ row[i] = NoRow
                      \/ row[i] \in [st : States, port : Ports,
                                     started : {"null", "recent", "old", "overdue"}]
  /\ eng \in [Inst -> EngBox] /\ gw \in [Inst -> GwBox]
  /\ inv \in [known : {"yes", "no"}, eng : [Inst -> EngBox], gw : [Inst -> GwBox]]
  /\ link \in {"down", "new", "up"} /\ lock \in Reqs \cup {Free}
  /\ \A t \in Tasks : req[t] # Idle => req[t].i \in Inst /\ req[t].port \in Ports \cup {NoPort}
  /\ served \subseteq Inst /\ born \subseteq Inst

Acting(t, i) == req[t] # Idle /\ req[t].i = i

(* "Two requests to start the same instance launch it once": nobody        *)
(* prepares or runs a launch of an instance that a launch left serving and *)
(* nothing has touched since (start's second look, under the host's lock). *)
LaunchedOnce ==
  \A t \in Tasks : req[t].at \in {"fit", "preflight", "rmgw", "rmeng", "run", "gateway", "rmback"}
                     => req[t].i \notin served

(* An instance that was launched and not touched since is known by the     *)
(* port its gateway really has, which is not the planned one when that was *)
(* in use (launch, gateway, adopt_host).                                   *)
FrontDoorKnown ==
  \A i \in served :
    Exists(i) /\ (\A t \in Tasks : Acting(t, i) => req[t].at # "launched")
    => row[i].st \in LIVE /\ gw[i] = [st |-> "running", port |-> row[i].port]

(* "Never leave an engine running without its front door": unless an answer *)
(* was lost, an engine without a gateway has a request at work on it        *)
(* (launch's docker.rm after a gateway that did not start; remove).         *)
HeadlessIsBrief ==
  \A i \in Inst :
    faults = 0 /\ eng[i].st = "running" /\ gw[i].st = "none"
    => \E t \in Tasks : Acting(t, i) /\ req[t].at \in Launching \cup Removing

(* No engine is started twice or forgotten without its front door.         *)
EnginesAreAttended == TypeOK /\ LaunchedOnce /\ HeadlessIsBrief

(* Every request comes to an end, one that waits for the host's lock too:  *)
(* the lock is given back however the request that holds it ends (it       *)
(* returns, an answer is lost, its client goes away, the hub crashes).     *)
RequestsEnd == \A r \in Reqs : (req[r] # Idle) ~> (req[r] = Idle)

(* A launched instance does not stay starting or loading for ever          *)
(* (supervise, progress, startup_timeout_s).                               *)
StartupResolves ==
  \A i \in Inst : (sup # SupOff /\ row[i].st \in {"starting", "loading"} /\ row[i].started # "null")
                  ~> row[i].st \notin {"starting", "loading"}

(* A ready row whose engine is gone does not stay ready (supervise).       *)
CrashNoticed ==
  \A i \in Inst : (sup # SupOff /\ row[i].st = "ready" /\ eng[i].st # "running")
                  ~> (row[i].st # "ready" \/ eng[i].st = "running")

(* What the docs and comments say, and the code does not do.               *)

(* "failed, container exited with code N: The engine crashed": an instance *)
(* whose engine and gateway run is failed by nothing but the startup       *)
(* timeout (supervise).                                                    *)
FailedMeansDown ==
  [][\A i \in served : row[i].st \in LIVE /\ row'[i].st = "failed" /\ eng[i].st = "running"
                        => sup.at = "write"]_vars

(* "A stop whose request went away half way must not leave the instance    *)
(* stopping forever" (supervise).                                          *)
StoppingEnds == \A i \in Inst : (row[i].st = "stopping") ~> (row[i].st # "stopping")
=============================================================================
