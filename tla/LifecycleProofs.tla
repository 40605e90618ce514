-------------------------- MODULE LifecycleProofs --------------------------
(***************************************************************************)
(* Lifecycle's safety for any instances, ports, requests and faults.       *)
(*                                                                         *)
(* That a launched instance is launched once, and known by the port its    *)
(* gateway has, rests on who holds the host's lock (Locks), on nobody      *)
(* touching an id that create has just handed out (Newborn), and on what   *)
(* a serving instance's row and gateway say while its request is still on  *)
(* its way back (Serving).  That no engine is left without its gateway     *)
(* rests on which command the request that took the gateway, or started    *)
(* the engine, is at (Headless).                                           *)
(***************************************************************************)
EXTENDS Lifecycle, TLAPS

Phases == {"lock", "fit", "preflight", "settle"} \cup Launching \cup Stopping \cup Removing
Ages == {"null", "recent", "old", "overdue"}
Row == {NoRow} \cup [st : States, port : Ports, started : Ages]
TaskType ==
  [op : {"create", "start", "stop", "restart", "remove"}, i : Inst, at : Phases,
   port : Ports \cup {NoPort}, before : States \cup {"absent"}, order : SUBSET Ports]
CmdType == [do : Commands, i : Inst, port : Ports \cup {NoPort}]
InvType == [known : {"yes", "no"}, eng : [Inst -> EngBox], gw : [Inst -> GwBox]]
Evidence == States \cup {"inspect", "done", "gone", "exited", "headless", "probe"}
SupType ==
  {SupIdle, SupOff} \cup [at : {"loop"}, todo : SUBSET Inst, snap : [Inst -> Row]]
    \cup [at : {"inspect", "inspected", "exited", "gateway", "probe", "write", "idle_stop"},
          todo : SUBSET Inst, i : Inst, ev : Evidence, snap : [Inst -> Row]]

Types ==
  /\ row \in [Inst -> Row] /\ eng \in [Inst -> EngBox] /\ gw \in [Inst -> GwBox]
  /\ inv \in InvType /\ link \in {"down", "new", "up"} /\ lock \in Reqs \cup {Free}
  /\ req \in [Tasks -> {Idle} \cup TaskType]
  /\ \A t \in Tasks : req[t].at \in {"preflight"} \cup Launching => req[t].port \in Ports
  /\ \A t \in Tasks : req[t].at \in Stopping => req[t].before \in States
  /\ late \in SUBSET CmdType /\ served \in SUBSET Inst /\ born \in SUBSET Inst /\ faults \in Nat

\* The instances of a round are active ones, whose rows it still holds; what it is
\* about to write is a state.
Round ==
  /\ sup \in SupType
  /\ \A i \in sup.todo : sup.at \in {"loop", "inspect", "inspected", "probe"} \/ i # sup.i
                           => sup.snap[i].st \in ACTIVE
  /\ sup.at \in {"inspect", "inspected", "probe"} => sup.i \in sup.todo
  /\ sup.at = "write" => sup.ev \in States

\* Preparing and running a launch is what the host's lock is for; the supervisor stops only.
Locks ==
  /\ \A t \in Tasks : req[t].at \in {"fit", "preflight"} \cup Launching => lock = t
  /\ req[Sup].at \in {"idle"} \cup Stopping
  /\ req[Sup].at # "idle" => req[Sup].op = "stop"

\* An id that was never handed out, or whose create has not written its row yet.
Pristine(i) ==
  /\ ~Exists(i) /\ eng[i].st = "none" /\ inv.eng[i].st = "none" /\ i \notin served
  /\ \A c \in late : c.i # i
Awaiting(t) == req[t].at \in {"lock", "fit", "preflight", "settle"} /\ req[t].op = "create"
Newborn ==
  /\ \A i \in Inst \ born : Pristine(i) /\ \A t \in Tasks : ~Acting(t, i)
  /\ \A t \in Tasks : Awaiting(t) =>
       Pristine(req[t].i) /\ \A u \in Tasks \ {t} : ~Acting(u, req[t].i)

\* An instance that was launched and not touched since: nobody launches it again, and its
\* gateway's port is in its row, or in the hands of the request that is about to write it.
Preparing == {"fit", "preflight", "rmgw", "rmeng", "run", "gateway", "rmback"}
Returning(i) == \E t \in Tasks : req[t].at = "launched" /\ req[t].i = i
Serving ==
  \A i \in served :
    /\ \A t \in Tasks : req[t].at \in Preparing => req[t].i # i
    /\ gw[i].st = "running"
    /\ \A t \in Tasks : req[t].at = "launched" /\ req[t].i = i => gw[i].port = req[t].port
    /\ Returning(i) \/ (row[i].st \in LIVE /\ row[i].port = gw[i].port)

\* Without faults an engine lacks its gateway only on the way to its removal or its gateway.
Headless ==
  faults = 0 =>
    /\ late = {} /\ link # "down"
    /\ \A i \in Inst : eng[i].st = "running" /\ gw[i].st = "none" =>
         \E t \in Tasks : req[t].at \in {"rmeng", "gateway", "rmback", "deleng"} /\ req[t].i = i

LifecycleInv == Types /\ Round /\ Locks /\ Newborn /\ Serving /\ Headless
-----------------------------------------------------------------------------

\* What a task is, by where it is.
LEMMA TaskIs ==
  ASSUME NEW r \in {Idle} \cup TaskType
  PROVE  /\ r.at \in {"idle"} \cup Phases
         /\ r = Idle <=> r.at = "idle"
         /\ r.at # "idle" => r \in TaskType
BY DEF TaskType, Idle, Phases, Launching, Stopping, Removing

\* One task moves, to r.
LEMMA Moves ==
  ASSUME Types, NEW t \in Tasks, NEW r \in {Idle} \cup TaskType, req' = [req EXCEPT ![t] = r],
         r.at \in {"preflight"} \cup Launching => r.port \in Ports,
         r.at \in Stopping => r.before \in States
  PROVE  /\ req' \in [Tasks -> {Idle} \cup TaskType] /\ req'[t] = r
         /\ \A u \in Tasks \ {t} : req'[u] = req[u]
         /\ \A u \in Tasks : req'[u].at \in {"preflight"} \cup Launching => req'[u].port \in Ports
         /\ \A u \in Tasks : req'[u].at \in Stopping => req'[u].before \in States
<1>1. req' \in [Tasks -> {Idle} \cup TaskType] /\ req'[t] = r /\ \A u \in Tasks \ {t} : req'[u] = req[u]
  BY DEF Types
<1> QED
  BY <1>1 DEF Types

\* What Moves says of the requests.
ReqTypes ==
  /\ req \in [Tasks -> {Idle} \cup TaskType]
  /\ \A t \in Tasks : req[t].at \in {"preflight"} \cup Launching => req[t].port \in Ports
  /\ \A t \in Tasks : req[t].at \in Stopping => req[t].before \in States
Others(t) == \A u \in Tasks \ {t} : req'[u] = req[u]

\* A task goes on to its next await.
LEMMA Goes ==
  ASSUME Types, NEW t \in Tasks, req[t].at # "idle", NEW at \in Phases, Goto(t, at),
         at \in {"preflight"} \cup Launching => req[t].port \in Ports,
         at \in Stopping => req[t].before \in States
  PROVE  /\ ReqTypes' /\ Others(t)
         /\ req'[t] \in TaskType /\ req'[t].at = at
         /\ req'[t].i = req[t].i /\ req'[t].op = req[t].op /\ req'[t].port = req[t].port
<1> DEFINE r == [req[t] EXCEPT !.at = at]
<1>1. req[t] \in TaskType
  BY TaskIs DEF Types
<1>2. /\ r \in TaskType /\ r.at = at /\ r.i = req[t].i /\ r.op = req[t].op
      /\ r.port = req[t].port /\ r.before = req[t].before
  BY <1>1 DEF TaskType
<1>3. req' = [req EXCEPT ![t] = r]
  BY DEF Goto
<1> HIDE DEF r
<1>4. /\ r.at \in {"preflight"} \cup Launching => r.port \in Ports
      /\ r.at \in Stopping => r.before \in States
  BY <1>2
<1> QED
  BY <1>2, <1>3, <1>4, Moves DEF ReqTypes, Others

\* A task returns: the lock goes with it.
LEMMA Returned ==
  ASSUME LifecycleConstants, Types, Locks, NEW t \in Tasks, Return(t)
  PROVE  /\ ReqTypes' /\ Others(t) /\ req'[t] = Idle /\ req'[t].at = "idle"
         /\ lock' \in Reqs \cup {Free} /\ Locks'
<1>1. Idle.at = "idle" /\ "idle" \notin {"preflight", "fit"} \cup Launching \cup Stopping
  BY DEF Idle, Launching, Stopping
<1>2. req' = [req EXCEPT ![t] = Idle]
  BY DEF Return, Released
<1> HIDE DEF Idle
<1>3. ReqTypes' /\ Others(t) /\ req'[t] = Idle
  BY <1>1, <1>2, Moves DEF ReqTypes, Others
<1>4. lock' \in Reqs \cup {Free}
  BY DEF Return, Released, Types
<1>5. Locks'
  <2>1. ASSUME NEW u \in Tasks, req'[u].at \in {"fit", "preflight"} \cup Launching PROVE lock' = u
    BY <2>1, <1>1, <1>3 DEF Others, Locks, Return, Released
  <2>2. req'[Sup].at \in {"idle"} \cup Stopping /\ (req'[Sup].at # "idle" => req'[Sup].op = "stop")
    BY <1>1, <1>3 DEF Others, Locks, Tasks
  <2> QED
    BY <2>1, <2>2 DEF Locks
<1> QED
  BY <1>1, <1>3, <1>4, <1>5

\* A row's state is set.
LEMMA SetIs ==
  ASSUME Types, NEW i \in Inst, NEW st \in States, row' = Set(i, st)
  PROVE  /\ row' \in [Inst -> Row]
         /\ \A j \in Inst \ {i} : row'[j] = row[j]
         /\ \A j \in Inst : row'[j].port = row[j].port /\ (Exists(j)' <=> Exists(j))
         /\ row'[i].st \in {row[i].st, st}
         /\ Exists(i) => row'[i].st = st
<1>1. row[i] \in Row /\ "absent" \notin States
  BY DEF Types, States, ACTIVE
<1>2. CASE Exists(i)
  <2> DEFINE r == [row[i] EXCEPT !.st = st]
  <2>1. r \in Row /\ r.st = st /\ r.port = row[i].port
    BY <1>1, <1>2 DEF Row, Exists, NoRow
  <2>2. row' = [row EXCEPT ![i] = r]
    BY <1>2 DEF Set
  <2> HIDE DEF r
  <2> QED
    BY <1>1, <1>2, <2>1, <2>2 DEF Types, Exists
<1>3. CASE ~Exists(i)
  BY <1>1, <1>3 DEF Set, Types, Exists
<1> QED
  BY <1>2, <1>3

\* The error path: back to remove the engine, or the end of the request.
LEMMA FailedIs ==
  ASSUME LifecycleConstants, Types, Locks, NEW t \in Tasks, req[t].at \in Commands,
         NEW unavailable \in BOOLEAN, Failed(t, unavailable)
  PROVE  /\ ReqTypes' /\ Others(t) /\ lock' \in Reqs \cup {Free} /\ Locks'
         /\ \/ /\ req[t].at = "gateway" /\ req'[t].at = "rmback" /\ req'[t].i = req[t].i
               /\ req'[t].op = req[t].op /\ UNCHANGED row
            \/ /\ req[t].at # "gateway" /\ req'[t] = Idle /\ req'[t].at = "idle"
               /\ row' = row \/ \E st \in States : row' = Set(req[t].i, st)
<1>1. CASE req[t].at = "gateway"
  <2>1. Goto(t, "rmback") /\ UNCHANGED <<row, lock>>
    BY <1>1 DEF Failed, Launching, Stopping
  <2>2. "rmback" \in Phases /\ req[t].port \in Ports /\ lock = t
    BY <1>1 DEF Phases, Launching, Types, Locks
  <2>3. /\ ReqTypes' /\ Others(t) /\ req'[t].at = "rmback" /\ req'[t].i = req[t].i
        /\ req'[t].op = req[t].op
    BY <1>1, <2>1, <2>2, Goes DEF Stopping
  <2>4. Locks'
    <3>1. ASSUME NEW u \in Tasks, req'[u].at \in {"fit", "preflight"} \cup Launching PROVE lock' = u
      BY <3>1, <2>1, <2>2, <2>3 DEF Others, Locks
    <3>2. t # Sup
      BY <1>1 DEF Locks, Stopping
    <3> QED
      BY <3>1, <3>2, <2>3 DEF Others, Locks, Tasks
  <2> QED
    BY <1>1, <2>1, <2>3, <2>4 DEF Types
<1>2. CASE req[t].at # "gateway"
  <2>1. Return(t) /\ (row' = row \/ \E st \in States : row' = Set(req[t].i, st))
    BY <1>2 DEF Failed, Launching, Stopping, Types, States
  <2> QED
    BY <1>2, <2>1, Returned
<1> QED
  BY <1>1, <1>2

-----------------------------------------------------------------------------
(* What a step may change without touching a conjunct.                     *)
LEMMA RoundKept == Round /\ UNCHANGED sup => Round'
BY DEF Round

LEMMA NewbornKept ==
  ASSUME Newborn, UNCHANGED born, NEW t \in Tasks, Others(t), req[t].at # "idle", req'[t].at = "idle" => req'[t] = Idle,
         req'[t].at # "idle" => req'[t].i = req[t].i /\ (Awaiting(t)' => Awaiting(t)),
         \A i \in Inst : Pristine(i) /\ (req[t].i # i \/ Awaiting(t)') => Pristine(i)',
         ReqTypes, ReqTypes'
  PROVE  Newborn'
<1>1. req[t].i \in Inst /\ req[t] # Idle
  BY TaskIs DEF ReqTypes, TaskType
<1>2. ASSUME NEW i \in Inst \ born'
      PROVE  Pristine(i)' /\ \A u \in Tasks : ~Acting(u, i)'
  <2>1. Pristine(i) /\ \A u \in Tasks : ~Acting(u, i)
    BY <1>2 DEF Newborn
  <2>2. req[t].i # i
    BY <2>1, <1>1 DEF Acting
  <2>3. \A u \in Tasks : ~Acting(u, i)'
    BY <2>1, <2>2 DEF Acting, Others
  <2> QED
    BY <2>1, <2>2, <2>3
<1>3. ASSUME NEW u \in Tasks, Awaiting(u)'
      PROVE  \E i \in Inst : i = req'[u].i /\ Pristine(i)' /\ \A v \in Tasks \ {u} : ~Acting(v, i)'
  <2>1. Awaiting(u) /\ req'[u].i = req[u].i
    BY <1>3 DEF Others, Awaiting
  <2>2. PICK i \in Inst : i = req[u].i
    BY <2>1, TaskIs DEF ReqTypes, TaskType, Awaiting
  <2>3. Pristine(i) /\ \A v \in Tasks \ {u} : ~Acting(v, i)
    BY <2>1, <2>2 DEF Newborn
  <2>4. \A v \in Tasks \ {u} : ~Acting(v, i)'
    BY <2>3, <1>1 DEF Acting, Others
  <2>5. CASE u # t
    <3>1. req[t].i # i
      BY <2>3, <2>5, <1>1 DEF Acting
    <3> QED
      BY <3>1, <2>1, <2>2, <2>3, <2>4
  <2>6. CASE u = t
    BY <1>3, <2>1, <2>2, <2>3, <2>4, <2>6
  <2> QED
    BY <2>5, <2>6
<1> QED
  BY <1>2, <1>3 DEF Newborn

LEMMA ServingKept ==
  ASSUME Serving, NEW t \in Tasks, Others(t), served' \subseteq served,
         req'[t].at \notin Preparing \cup {"launched"} \/ req'[t].i \notin served',
         req[t].at # "launched" \/ req[t].i \notin served',
         \A i \in served' : gw'[i] = gw[i] /\ row'[i].port = row[i].port
                            /\ (row'[i].st = row[i].st \/ row'[i].st \in LIVE)
  PROVE  Serving'
<1> SUFFICES ASSUME NEW i \in served'
             PROVE  /\ \A u \in Tasks : req'[u].at \in Preparing => req'[u].i # i
                    /\ gw'[i].st = "running"
                    /\ \A u \in Tasks : req'[u].at = "launched" /\ req'[u].i = i => gw'[i].port = req'[u].port
                    /\ \/ \E u \in Tasks : req'[u].at = "launched" /\ req'[u].i = i
                       \/ row'[i].st \in LIVE /\ row'[i].port = gw'[i].port
  BY DEF Serving, Returning
<1>1. /\ i \in served /\ gw'[i] = gw[i] /\ row'[i].port = row[i].port
      /\ (row'[i].st = row[i].st \/ row'[i].st \in LIVE)
  OBVIOUS
<1>2. /\ \A u \in Tasks : req[u].at \in Preparing => req[u].i # i
      /\ gw[i].st = "running"
      /\ \A u \in Tasks : req[u].at = "launched" /\ req[u].i = i => gw[i].port = req[u].port
      /\ \/ \E u \in Tasks : req[u].at = "launched" /\ req[u].i = i
         \/ row[i].st \in LIVE /\ row[i].port = gw[i].port
  BY <1>1 DEF Serving, Returning
<1>3. \A u \in Tasks : req'[u].at \in Preparing => req'[u].i # i
  BY <1>2 DEF Others
<1>4. \A u \in Tasks : req'[u].at = "launched" /\ req'[u].i = i => gw'[i].port = req'[u].port
  BY <1>1, <1>2 DEF Others
<1>5. \A u \in Tasks : req[u].at = "launched" /\ req[u].i = i => req'[u] = req[u]
  BY DEF Others
<1> QED
  BY <1>1, <1>2, <1>3, <1>4, <1>5

AtWork == {"rmeng", "gateway", "rmback", "deleng"}
LEMMA HeadlessKept ==
  ASSUME Headless, NEW t \in Tasks, Others(t), faults' = 0 => faults = 0 /\ UNCHANGED <<late, link>>,
         faults = 0 => \A i \in Inst : (eng[i].st = "running" /\ gw[i].st = "none") \/ ~(eng'[i].st = "running" /\ gw'[i].st = "none")
                                        \/ (req'[t].at \in AtWork /\ req'[t].i = i),
         faults = 0 /\ req[t].at \in AtWork =>
              \/ req'[t].at \in AtWork /\ req'[t].i = req[t].i
              \/ \A i \in Inst : i = req[t].i => ~(eng'[i].st = "running" /\ gw'[i].st = "none")
  PROVE  Headless'
<1> SUFFICES ASSUME faults' = 0 
             PROVE  /\ late' = {} /\ link' # "down"
                    /\ \A i \in Inst : eng'[i].st = "running" /\ gw'[i].st = "none" =>
                         \E u \in Tasks : req'[u].at \in AtWork /\ req'[u].i = i
  BY DEF Headless, AtWork
<1>1. faults = 0 /\ late' = {} /\ link' # "down"
  BY DEF Headless
<1>2. ASSUME NEW i \in Inst, eng'[i].st = "running" /\ gw'[i].st = "none"
      PROVE  \E u \in Tasks : req'[u].at \in AtWork /\ req'[u].i = i
  <2>1. CASE req'[t].at \in AtWork /\ req'[t].i = i
    BY <2>1
  <2>2. CASE ~(req'[t].at \in AtWork /\ req'[t].i = i)
    <3>1. eng[i].st = "running" /\ gw[i].st = "none"
      BY <1>1, <1>2, <2>2
    <3>2. PICK u \in Tasks : req[u].at \in AtWork /\ req[u].i = i
      BY <1>1, <3>1 DEF Headless, AtWork
    <3>3. u # t
      BY <1>1, <1>2, <2>2, <3>2
    <3>4. req'[u] = req[u]
      BY <3>3 DEF Others
    <3> QED
      BY <3>2, <3>4
  <2> QED
    BY <2>1, <2>2
<1> QED
  BY <1>1, <1>2

LEMMA LifecycleInit == ASSUME LifecycleConstants, Init PROVE LifecycleInv
<1>1. PICK p \in [Inst -> Ports] :
        LET boxes(down) == [i \in Inst |-> IF i \notin born THEN NoBox ELSE
                              [st |-> IF i \in served THEN "running" ELSE down, port |-> p[i]]]
        IN  /\ row = [i \in Inst |-> IF i \notin born THEN NoRow ELSE
                        [st |-> IF i \in served THEN "ready" ELSE "stopped",
                         port |-> p[i], started |-> "old"]]
            /\ eng = boxes("clean") /\ gw = boxes("exited")
  BY DEF Init
<1>2. born \in SUBSET Inst /\ served \in SUBSET born
  BY DEF Init
<1>3. row \in [Inst -> Row]
  BY <1>1 DEF Row, States, ACTIVE, Ages
<1>4. eng \in [Inst -> EngBox] /\ gw \in [Inst -> GwBox] /\ inv \in InvType
  BY <1>1 DEF Init, EngBox, GwBox, Box, NoBox, InvType, Unknown
<1>5. \A t \in Tasks : req[t] = Idle /\ req[t].at = "idle"
  BY DEF Init, Idle
<1>6. Types
  BY <1>2, <1>3, <1>4, <1>5 DEF Init, Types, Launching, Stopping
<1>7. Round
  BY DEF Init, Round, SupType, SupIdle, SupOff
<1>8. Locks
  BY <1>5 DEF Locks, Launching, Stopping, Tasks
<1>9. Newborn
  <2>1. \A i \in Inst \ born : Pristine(i)
    BY <1>1, <1>2 DEF Init, Pristine, Exists, NoRow, NoBox, Unknown
  <2> QED
    BY <1>5, <2>1 DEF Newborn, Acting, Awaiting
<1>10. Serving
  BY <1>1, <1>2, <1>5 DEF Serving, Preparing, LIVE
<1>11. Headless
  BY <1>1, <1>2 DEF Init, Headless, NoBox
<1> QED
  BY <1>6, <1>7, <1>8, <1>9, <1>10, <1>11 DEF LifecycleInv

-----------------------------------------------------------------------------
(* API requests, and what they do before the first command of a launch.    *)

\* A call of an instance that has a row; BeginStop sets it, too.
LEMMA Called ==
  ASSUME LifecycleConstants, LifecycleInv, NEW t \in Tasks, NEW i \in Inst,
         req[t].at \in {"idle"} \cup Stopping, Exists(i),
         NEW r \in TaskType, req' = [req EXCEPT ![t] = r], r.i = i, r.op # "create",
         r.at \in {"lock", "settle", "stopgw", "delgw"},
         r.at = "stopgw" => r.before \in States,
         t = Sup => r.at = "stopgw" /\ r.op = "stop",
         \/ UNCHANGED row /\ served' \in {served, served \ {i}}
         \/ row' = Set(i, "stopping") /\ served' = served \ {i},
         UNCHANGED <<eng, gw, inv, link, lock, late, born, faults>>
  PROVE  Types' /\ Locks' /\ Newborn' /\ Serving' /\ Headless'
<1>1. r.at \notin Launching \cup Preparing \cup AtWork /\ r.at \notin {"fit", "preflight", "launched", "idle"}
  BY DEF Launching, Preparing, AtWork
<1>2. ReqTypes' /\ req'[t] = r /\ Others(t)
  BY <1>1, Moves DEF LifecycleInv, ReqTypes, Others, Stopping
<1>3. /\ row' \in [Inst -> Row] /\ \A j \in Inst : Exists(j)' <=> Exists(j)
      /\ \A j \in Inst \ {i} : row'[j] = row[j]
      /\ i \in served' => row' = row
  <2>1. CASE row' = Set(i, "stopping") /\ served' = served \ {i}
    BY <2>1, SetIs DEF LifecycleInv, States, ACTIVE
  <2>2. CASE UNCHANGED row
    BY <2>2 DEF LifecycleInv, Types, Exists
  <2> QED
    BY <2>1, <2>2
<1>4. Types'
  BY <1>2, <1>3 DEF LifecycleInv, Types, ReqTypes
<1>5. Locks'
  <2>1. ASSUME NEW u \in Tasks, req'[u].at \in {"fit", "preflight"} \cup Launching PROVE lock' = u
    BY <2>1, <1>1, <1>2 DEF LifecycleInv, Others, Locks
  <2>2. req'[Sup].at \in {"idle"} \cup Stopping /\ (req'[Sup].at # "idle" => req'[Sup].op = "stop")
    BY <1>2 DEF LifecycleInv, Others, Locks, Tasks, Stopping
  <2> QED
    BY <2>1, <2>2 DEF Locks
<1>6. Newborn'
  <2>1. \A j \in Inst : Pristine(j) => Pristine(j)' /\ j # i
    BY <1>3 DEF Pristine
  <2>2. ASSUME NEW j \in Inst \ born' PROVE Pristine(j)' /\ \A u \in Tasks : ~Acting(u, j)'
    <3>1. Pristine(j) /\ j # i /\ \A u \in Tasks : ~Acting(u, j)
      BY <2>1, <2>2 DEF LifecycleInv, Newborn
    <3>2. \A u \in Tasks : ~Acting(u, j)'
      BY <3>1, <1>2 DEF Acting, Others
    <3> QED
      BY <2>1, <3>1, <3>2
  <2>3. ASSUME NEW u \in Tasks, Awaiting(u)'
        PROVE  \E j \in Inst : j = req'[u].i /\ Pristine(j)' /\ \A v \in Tasks \ {u} : ~Acting(v, j)'
    <3>1. u # t /\ req'[u] = req[u] /\ Awaiting(u)
      BY <2>3, <1>2 DEF Others, Awaiting
    <3>2. PICK j \in Inst : j = req[u].i
      BY <3>1, TaskIs DEF LifecycleInv, Types, TaskType, Awaiting
    <3>3. Pristine(j) /\ \A v \in Tasks \ {u} : ~Acting(v, j)
      BY <3>1, <3>2 DEF LifecycleInv, Newborn
    <3>4. Pristine(j)' /\ j # i
      BY <3>3, <2>1
    <3>5. \A v \in Tasks \ {u} : ~Acting(v, j)'
      BY <3>3, <3>4, <1>2 DEF Acting, Others
    <3> QED
      BY <3>1, <3>2, <3>4, <3>5
  <2> QED
    BY <2>2, <2>3 DEF Newborn
<1>7. Serving'
  <2>1. \A j \in served' : row'[j] = row[j] /\ gw'[j] = gw[j]
    BY <1>3 DEF LifecycleInv, Types
  <2>2. req[t].at # "launched" /\ req'[t].at \notin Preparing \cup {"launched"} /\ served' \subseteq served
    BY <1>1, <1>2 DEF Stopping
  <2> QED
    BY <1>2, <2>1, <2>2, ServingKept DEF LifecycleInv
<1>8. Headless'
  <2>1. req[t].at \notin AtWork
    BY DEF AtWork, Stopping
  <2> QED
    BY <1>2, <2>1, HeadlessKept DEF LifecycleInv
<1> QED
  BY <1>4, <1>5, <1>6, <1>7, <1>8

\* A request that ends, or goes on, before it has done anything.
LEMMA Onward ==
  ASSUME LifecycleConstants, LifecycleInv, NEW t \in Reqs,
         req[t].at \in {"lock", "fit", "preflight", "settle"},
         ReqTypes', Others(t), Locks', lock' \in Reqs \cup {Free},
         \/ req'[t] = Idle /\ req'[t].at = "idle"
         \/ /\ req'[t].i = req[t].i /\ req'[t].op = req[t].op
            /\ req'[t].at \in {"lock", "fit", "preflight"}
            /\ req'[t].at \in {"fit", "preflight"} => req[t].i \notin served,
         UNCHANGED <<row, eng, gw, inv, link, sup, late, served, born, faults>>
  PROVE  LifecycleInv'
<1>1. t \in Tasks /\ req[t].at # "idle"
  BY DEF Tasks
<1>2. Types'
  BY DEF LifecycleInv, Types, ReqTypes
<1>3. Newborn'
  <2>1. \A i \in Inst : Pristine(i) => Pristine(i)'
    BY DEF Pristine, Exists
  <2>2. req'[t].at = "idle" => req'[t] = Idle
    OBVIOUS
  <2>3. req'[t].at # "idle" => req'[t].i = req[t].i /\ (Awaiting(t)' => Awaiting(t))
    BY DEF Awaiting
  <2>4. ReqTypes
    BY DEF LifecycleInv, Types, ReqTypes
  <2> QED
    BY <1>1, <2>1, <2>2, <2>3, <2>4, NewbornKept DEF LifecycleInv
<1>4. Serving'
  <2>1. req'[t].at \notin Preparing \cup {"launched"} \/ req'[t].i \notin served'
    BY DEF Preparing
  <2> QED
    BY <1>1, <2>1, ServingKept DEF LifecycleInv
<1>5. Headless'
  BY <1>1, HeadlessKept DEF LifecycleInv, AtWork
<1> QED
  BY <1>2, <1>3, <1>4, <1>5, RoundKept DEF LifecycleInv

LEMMA CallsKept ==
  ASSUME LifecycleConstants, LifecycleInv, NEW r \in Reqs, Call(r)
  PROVE  LifecycleInv'
<1> USE DEF LifecycleInv
<1>1. r \in Tasks /\ r # Sup /\ Sup \in Tasks
  BY DEF Tasks, LifecycleConstants, Sup
<1>2. PICK i \in Inst : CallCreate(r, i) \/ CallStart(r, i) \/ CallStop(r, i) \/ CallRestart(r, i) \/ CallRemove(r, i)
  BY DEF Call
<1>3. NoPort \in Ports \cup {NoPort} /\ {} \in SUBSET Ports
  OBVIOUS
<1>4. req[r] = Idle => req[r].at \in {"idle"} \cup Stopping
  BY DEF Idle
<1>5. CASE CallCreate(r, i)
  <2> DEFINE x == Task("create", i, "lock", NoPort, "absent")
  <2>1. x \in TaskType /\ x.at = "lock" /\ x.i = i /\ x.op = "create"
    BY DEF TaskType, Task, Phases
  <2>2. req' = [req EXCEPT ![r] = x] /\ UNCHANGED <<row, eng, gw, foreign, inv, link, lock, sup, late, served, faults>>
        /\ born' = born \cup {i} /\ i \notin born /\ req[r] = Idle /\ req[r].at = "idle"
    BY <1>5 DEF CallCreate, node, Idle
  <2> HIDE DEF x
  <2>3. ReqTypes' /\ req'[r] = x /\ Others(r)
    BY <1>1, <2>1, <2>2, Moves DEF ReqTypes, Others, Launching, Stopping
  <2>4. Types'
    BY <2>2, <2>3 DEF Types, ReqTypes
  <2>5. Locks'
    <3>1. ASSUME NEW u \in Tasks, req'[u].at \in {"fit", "preflight"} \cup Launching PROVE lock' = u
      BY <3>1, <2>1, <2>2, <2>3 DEF Others, Locks, Launching
    <3>2. req'[Sup] = req[Sup]
      BY <1>1, <2>3 DEF Others
    <3> QED
      BY <3>1, <3>2 DEF Locks
  <2>6. Newborn'
    <3>1. \A j \in Inst : Pristine(j) => Pristine(j)'
      BY <2>2 DEF Pristine, Exists
    <3>2. Pristine(i) /\ \A u \in Tasks : ~Acting(u, i)
      BY <2>2 DEF Newborn
    <3>3. ASSUME NEW j \in Inst \ born' PROVE Pristine(j)' /\ \A u \in Tasks : ~Acting(u, j)'
      <4>1. Pristine(j) /\ j # i /\ \A u \in Tasks : ~Acting(u, j)
        BY <3>3, <2>2 DEF Newborn
      <4>2. \A u \in Tasks : ~Acting(u, j)'
        BY <4>1, <2>1, <2>3 DEF Acting, Others
      <4> QED
        BY <3>1, <4>1, <4>2
    <3>4. ASSUME NEW u \in Tasks, Awaiting(u)'
          PROVE  \E j \in Inst : j = req'[u].i /\ Pristine(j)' /\ \A v \in Tasks \ {u} : ~Acting(v, j)'
      <4>1. CASE u = r
        <5>1. \A v \in Tasks \ {u} : ~Acting(v, i)'
          BY <4>1, <3>2, <2>3 DEF Acting, Others
        <5> QED
          BY <4>1, <5>1, <3>1, <3>2, <2>1, <2>3
      <4>2. CASE u # r
        <5>1. req'[u] = req[u] /\ Awaiting(u)
          BY <3>4, <4>2, <2>3 DEF Others, Awaiting
        <5>2. PICK j \in Inst : j = req[u].i
          BY <5>1, TaskIs DEF Types, TaskType, Awaiting
        <5>3. Pristine(j) /\ \A v \in Tasks \ {u} : ~Acting(v, j)
          BY <5>1, <5>2 DEF Newborn
        <5>4. j # i
          BY <3>2, <5>1, <5>2, TaskIs DEF Acting, Awaiting, Types
        <5>5. \A v \in Tasks \ {u} : ~Acting(v, j)'
          BY <5>3, <5>4, <2>1, <2>3 DEF Acting, Others
        <5> QED
          BY <5>1, <5>2, <5>3, <5>5, <3>1
      <4> QED
        BY <4>1, <4>2
    <3> QED
      BY <3>3, <3>4 DEF Newborn
  <2>7. Serving'
    BY <1>1, <2>1, <2>2, <2>3, ServingKept DEF Preparing
  <2>8. Headless'
    BY <1>1, <2>1, <2>2, <2>3, HeadlessKept DEF AtWork
  <2> QED
    BY <2>2, <2>4, <2>5, <2>6, <2>7, <2>8, RoundKept
<1>6. CASE CallStart(r, i)
  <2> DEFINE x == Task("start", i, "lock", NoPort, "absent")
  <2>1. x \in TaskType /\ x.at = "lock" /\ x.i = i /\ x.op = "start"
    BY DEF TaskType, Task, Phases
  <2>2. req' = [req EXCEPT ![r] = x] /\ Exists(i) /\ req[r] = Idle
        /\ UNCHANGED <<row, eng, gw, inv, link, lock, sup, late, served, born, faults>>
    BY <1>6 DEF CallStart, node
  <2> HIDE DEF x
  <2> QED
    BY <1>1, <1>4, <2>1, <2>2, Called, RoundKept
<1>7. CASE CallStop(r, i)
  <2>1. PICK op \in {"stop", "restart"} : BeginStop(r, op, i)
    BY <1>7 DEF CallStop
  <2> DEFINE x == Task(op, i, "stopgw", NoPort, row[i].st)
  <2>2. Exists(i) /\ row[i].st \in States
    BY <2>1 DEF BeginStop, Exists, Types, Row, NoRow
  <2>3. x \in TaskType /\ x.at = "stopgw" /\ x.i = i /\ x.op = op /\ x.before \in States
    BY <2>1, <2>2 DEF TaskType, Task, Phases, Stopping
  <2>4. req' = [req EXCEPT ![r] = x] /\ req[r] = Idle /\ row' = Set(i, "stopping") /\ served' = served \ {i}
        /\ UNCHANGED <<eng, gw, inv, link, lock, sup, late, born, faults>>
    BY <1>7, <2>1 DEF CallStop, BeginStop, Touched, node
  <2> HIDE DEF x
  <2> QED
    BY <1>1, <1>4, <2>1, <2>2, <2>3, <2>4, Called, RoundKept
<1>8. CASE CallRestart(r, i)
  <2> DEFINE x == Task("start", i, "settle", NoPort, "absent")
  <2>1. x \in TaskType /\ x.at = "settle" /\ x.i = i /\ x.op = "start"
    BY DEF TaskType, Task, Phases
  <2>2. req' = [req EXCEPT ![r] = x] /\ Exists(i) /\ req[r] = Idle
        /\ UNCHANGED <<row, eng, gw, inv, link, lock, sup, late, served, born, faults>>
    BY <1>8 DEF CallRestart, node, Exists
  <2> HIDE DEF x
  <2> QED
    BY <1>1, <1>4, <2>1, <2>2, Called, RoundKept
<1>9. CASE CallRemove(r, i)
  <2> DEFINE x == Task("remove", i, "delgw", NoPort, "absent")
  <2>1. x \in TaskType /\ x.at = "delgw" /\ x.i = i /\ x.op = "remove"
    BY DEF TaskType, Task, Phases, Removing
  <2>2. req' = [req EXCEPT ![r] = x] /\ Exists(i) /\ req[r] = Idle /\ served' = served \ {i}
        /\ UNCHANGED <<row, eng, gw, inv, link, lock, sup, late, born, faults>>
    BY <1>9 DEF CallRemove, node, Touched
  <2> HIDE DEF x
  <2> QED
    BY <1>1, <1>4, <2>1, <2>2, Called, RoundKept
<1> QED
  BY <1>2, <1>5, <1>6, <1>7, <1>8, <1>9

LEMMA PreparingKept ==
  ASSUME LifecycleConstants, LifecycleInv, NEW r \in Reqs, Locked(r)
  PROVE  LifecycleInv'
<1> USE DEF LifecycleInv
<1>1. r \in Tasks /\ r # Sup /\ r # Free /\ Sup \in Tasks /\ Free \notin Tasks
  BY DEF Tasks, LifecycleConstants, Sup, Free
<1>2. ASSUME Return(r), req[r].at \in {"lock", "fit", "preflight", "settle"},
             UNCHANGED <<row, eng, gw, inv, link, sup, late, served, born, faults>>
      PROVE  LifecycleInv'
  BY <1>1, <1>2, Returned, Onward
<1>3. CASE Acquire(r)
  <2> USE <1>3
  <2>1. req[r].at = "lock" /\ lock = Free /\ UNCHANGED <<row, eng, gw, inv, link, sup, late, served, born, faults>>
    BY DEF Acquire, node, budget
  <2>2. CASE StillStartable(r) /\ link # "down"
    <3>1. lock' = r /\ Goto(r, "fit") /\ "fit" \in Phases
      BY <2>2 DEF Acquire, Phases
    <3>2. /\ ReqTypes' /\ Others(r) /\ req'[r].at = "fit"
          /\ req'[r].i = req[r].i /\ req'[r].op = req[r].op
      BY <1>1, <2>1, <3>1, Goes DEF Launching, Stopping
    <3>3. Locks'
      <4>1. ASSUME NEW u \in Tasks, req'[u].at \in {"fit", "preflight"} \cup Launching PROVE lock' = u
        BY <4>1, <1>1, <2>1, <3>1, <3>2 DEF Others, Locks
      <4>2. req'[Sup] = req[Sup]
        BY <1>1, <3>2 DEF Others
      <4> QED
        BY <4>1, <4>2 DEF Locks
    <3>4. req[r].i \notin served
      <4>1. CASE req[r].op = "create"
        BY <1>1, <2>1, <4>1 DEF Newborn, Awaiting, Pristine
      <4>2. CASE req[r].op # "create"
        <5>1. row[req[r].i].st \notin LIVE
          BY <2>2, <4>2 DEF StillStartable, Shown
        <5>2. ~Returning(req[r].i)
          BY <1>1, <2>1 DEF Returning, Locks, Launching
        <5> QED
          BY <5>1, <5>2 DEF Serving
      <4> QED
        BY <4>1, <4>2
    <3> QED
      BY <2>1, <3>1, <3>2, <3>3, <3>4, Onward
  <2>3. CASE ~(StillStartable(r) /\ link # "down")
    BY <2>1, <2>3, <1>2 DEF Acquire
  <2> QED
    BY <2>2, <2>3
<1>4. CASE AllocPort(r)
  <2> USE <1>4
  <2>1. req[r].at = "fit" /\ UNCHANGED <<row, eng, gw, inv, link, sup, late, served, born, faults>>
    BY DEF AllocPort, node, budget
  <2>2. CASE CandidatePorts(req[r].i) = {}
    BY <2>1, <2>2, <1>2 DEF AllocPort
  <2>3. CASE CandidatePorts(req[r].i) # {}
    <3>1. PICK port \in Ports : req' = [req EXCEPT ![r].at = "preflight", ![r].port = port]
      BY <2>3 DEF AllocPort
    <3>2. req[r] \in TaskType /\ lock' = lock
      BY <1>1, <2>1, <2>3, TaskIs DEF Types, AllocPort
    <3> DEFINE x == [req[r] EXCEPT !.at = "preflight", !.port = port]
    <3>3. x \in TaskType /\ x.at = "preflight" /\ x.port \in Ports /\ x.i = req[r].i /\ x.op = req[r].op
      BY <3>2 DEF TaskType, Phases
    <3>4. req' = [req EXCEPT ![r] = x]
      BY <3>1, ZenonT(40)
    <3> HIDE DEF x
    <3>5. ReqTypes' /\ Others(r) /\ req'[r] = x
      BY <1>1, <3>3, <3>4, Moves DEF ReqTypes, Others, Stopping
    <3>6. Locks'
      <4>1. ASSUME NEW u \in Tasks, req'[u].at \in {"fit", "preflight"} \cup Launching PROVE lock' = u
        BY <4>1, <1>1, <2>1, <3>2, <3>5 DEF Others, Locks
      <4>2. req'[Sup] = req[Sup]
        BY <1>1, <3>5 DEF Others
      <4> QED
        BY <4>1, <4>2 DEF Locks
    <3>7. req[r].i \notin served
      BY <1>1, <2>1 DEF Serving, Preparing
    <3> QED
      BY <2>1, <3>2, <3>3, <3>5, <3>6, <3>7, Onward DEF Types
  <2> QED
    BY <2>2, <2>3
<1>5. CASE PreflightBlocks(r)
  BY <1>2, <1>5 DEF PreflightBlocks, node, budget
<1>6. CASE Settled(r)
  <2> USE <1>6
  <2>1. req[r].at = "settle" /\ UNCHANGED <<row, eng, gw, inv, link, sup, late, served, born, faults>>
    BY DEF Settled, node, budget
  <2>2. CASE StillStartable(r)
    <3>1. lock' = lock /\ Goto(r, "lock") /\ "lock" \in Phases
      BY <2>2 DEF Settled, Phases
    <3>2. /\ ReqTypes' /\ Others(r) /\ req'[r].at = "lock"
          /\ req'[r].i = req[r].i /\ req'[r].op = req[r].op
      BY <1>1, <2>1, <3>1, Goes DEF Launching, Stopping
    <3>3. Locks'
      <4>1. ASSUME NEW u \in Tasks, req'[u].at \in {"fit", "preflight"} \cup Launching PROVE lock' = u
        BY <4>1, <1>1, <2>1, <3>1, <3>2 DEF Others, Locks, Launching
      <4>2. req'[Sup] = req[Sup]
        BY <1>1, <3>2 DEF Others
      <4> QED
        BY <4>1, <4>2 DEF Locks
    <3> QED
      BY <2>1, <3>1, <3>2, <3>3, Onward DEF Types
  <2>3. CASE ~StillStartable(r)
    BY <2>1, <2>3, <1>2 DEF Settled
  <2> QED
    BY <2>2, <2>3
<1>7. CASE BeginLaunch(r)
  <2> USE <1>7
  <2>1. /\ req[r].at = "preflight" /\ UNCHANGED <<eng, gw, inv, link, sup, late, served, born, faults>>
        /\ req[r].port \in Ports /\ req[r] \in TaskType /\ req[r].i \in Inst
    BY <1>1, TaskIs DEF BeginLaunch, node, budget, Types, TaskType
  <2> DEFINE i == req[r].i
  <2>2. /\ row' \in [Inst -> Row] /\ \A j \in Inst \ {i} : row'[j] = row[j]
    <3> DEFINE st == IF link = "down" THEN "failed" ELSE "starting"
    <3>1. st \in States
      BY DEF States, ACTIVE
    <3>2. [st |-> st, port |-> req[r].port, started |-> "null"] \in Row
      BY <2>1, <3>1 DEF Row, Ages
    <3>3. row' = IF req[r].op = "create"
                 THEN [row EXCEPT ![i] = [st |-> st, port |-> req[r].port, started |-> "null"]]
                 ELSE IF Exists(i) THEN [row EXCEPT ![i].st = st, ![i].port = req[r].port] ELSE row
      BY DEF BeginLaunch
    <3> HIDE DEF st
    <3>4. ASSUME Exists(i), row' = [row EXCEPT ![i].st = st, ![i].port = req[r].port]
          PROVE  row' \in [Inst -> Row] /\ \A j \in Inst \ {i} : row'[j] = row[j]
      <4> DEFINE x == [row[i] EXCEPT !.st = st, !.port = req[r].port]
      <4>1. row[i] \in Row /\ row[i] # NoRow
        BY <2>1, <3>4 DEF Types, Exists, NoRow
      <4>2. x \in Row
        BY <4>1, <2>1, <3>1 DEF Row
      <4>3. row' = [row EXCEPT ![i] = x]
        BY <3>4, ZenonT(40)
      <4> HIDE DEF x
      <4> QED
        BY <4>2, <4>3 DEF Types
    <3> QED
      BY <3>2, <3>3, <3>4 DEF Types
  <2>3. /\ ReqTypes' /\ Others(r) /\ Locks' /\ lock' \in Reqs \cup {Free}
        /\ \/ req'[r] = Idle /\ req'[r].at = "idle"
           \/ req'[r].at = "rmgw" /\ req'[r].i = i
    <3>1. CASE link = "down"
      BY <1>1, <3>1, Returned DEF BeginLaunch
    <3>2. CASE link # "down"
      <4>1. Goto(r, "rmgw") /\ lock' = lock /\ "rmgw" \in Phases \cap Launching
        BY <3>2 DEF BeginLaunch, Phases, Launching
      <4>2. ReqTypes' /\ Others(r) /\ req'[r].at = "rmgw" /\ req'[r].i = i
        BY <1>1, <2>1, <4>1, Goes DEF Stopping
      <4>3. Locks'
        <5>1. ASSUME NEW u \in Tasks, req'[u].at \in {"fit", "preflight"} \cup Launching PROVE lock' = u
          BY <5>1, <1>1, <2>1, <4>1, <4>2 DEF Others, Locks
        <5>2. req'[Sup] = req[Sup]
          BY <1>1, <4>2 DEF Others
        <5> QED
          BY <5>1, <5>2 DEF Locks
      <4> QED
        BY <4>1, <4>2, <4>3 DEF Types
    <3> QED
      BY <3>1, <3>2
  <2>4. i \notin served
    BY <1>1, <2>1 DEF Serving, Preparing
  <2>5. Types'
    BY <2>1, <2>2, <2>3 DEF Types, ReqTypes
  <2>6. Newborn'
    <3>1. \A j \in Inst : Pristine(j) /\ j # i => Pristine(j)'
      BY <2>1, <2>2 DEF Pristine, Exists
    <3>2. ~Awaiting(r)' /\ ReqTypes
      BY <2>3 DEF Awaiting, Types, ReqTypes
    <3> QED
      BY <1>1, <2>1, <2>3, <3>1, <3>2, NewbornKept
  <2>7. Serving'
    <3>1. req'[r].at \notin Preparing \cup {"launched"} \/ req'[r].i \notin served'
      BY <2>1, <2>3, <2>4 DEF Preparing
    <3>2. \A j \in served' : row'[j] = row[j]
      BY <2>1, <2>2, <2>4 DEF Types
    <3> QED
      BY <1>1, <2>1, <2>3, <3>1, <3>2, ServingKept
  <2>8. Headless'
    BY <1>1, <2>1, <2>3, HeadlessKept DEF AtWork
  <2> QED
    BY <2>1, <2>3, <2>5, <2>6, <2>7, <2>8, RoundKept
<1> QED
  BY <1>3, <1>4, <1>5, <1>6, <1>7 DEF Locked

\* A request whose client goes away, wherever it is.
LEMMA DropKept ==
  ASSUME LifecycleConstants, LifecycleInv, NEW r \in Reqs, Drop(r)
  PROVE  LifecycleInv'
<1> USE DEF LifecycleInv
<1>1. /\ r \in Tasks /\ req[r] # Idle /\ faults' = faults + 1 /\ Orphan(r) /\ served' = served \ {req[r].i}
      /\ Return(r) /\ UNCHANGED <<row, eng, gw, inv, link, sup, born>>
  BY DEF Drop, Tasks, Touched, node
<1>2. req[r] \in TaskType /\ req[r].at # "idle" /\ req[r].i \in Inst /\ faults' \in Nat /\ faults' # 0
  BY <1>1, TaskIs DEF Types, TaskType
<1>3. /\ ReqTypes' /\ Others(r) /\ Locks' /\ lock' \in Reqs \cup {Free}
      /\ req'[r] = Idle /\ req'[r].at = "idle"
  BY <1>1, Returned
<1>4. /\ late' \in SUBSET CmdType
      /\ \A c \in late' : c \in late \/ c.i = req[r].i
  BY <1>1, <1>2 DEF Orphan, CmdOf, Cmd, CmdType, TaskType, Types
<1>5. Types'
  BY <1>1, <1>2, <1>3, <1>4 DEF Types, ReqTypes
<1>6. Newborn'
  <2>1. \A j \in Inst : Pristine(j) /\ j # req[r].i => Pristine(j)'
    BY <1>1, <1>4 DEF Pristine, Exists
  <2>2. ~Awaiting(r)' /\ ReqTypes
    BY <1>3 DEF Awaiting, Types, ReqTypes
  <2> QED
    BY <1>1, <1>2, <1>3, <2>1, <2>2, NewbornKept
<1>7. Serving'
  BY <1>1, <1>3, ServingKept DEF Preparing
<1>8. Headless'
  BY <1>1, <1>2 DEF Headless
<1> QED
  BY <1>1, <1>3, <1>5, <1>6, <1>7, <1>8, RoundKept

-----------------------------------------------------------------------------
(* Requests at work on the node.                                           *)
LEMMA ExecIs ==
  ASSUME Types, NEW c \in CmdType, Exec(c)
  PROVE  /\ eng' \in [Inst -> EngBox] /\ gw' \in [Inst -> GwBox]
         /\ \A j \in Inst \ {c.i} : eng'[j] = eng[j] /\ gw'[j] = gw[j]
         /\ c.do \in {"rmgw", "delgw"} => UNCHANGED eng
         /\ c.do \in {"rmeng", "deleng", "rmback"} => eng'[c.i].st = "none"
         /\ c.do \in {"rmeng", "deleng", "rmback", "run", "stopeng"} => UNCHANGED gw
         /\ c.do = "gateway" => gw'[c.i] = [st |-> "running", port |-> c.port] /\ UNCHANGED eng
         /\ c.do = "stopgw" => UNCHANGED eng /\ (gw'[c.i].st = "none" => gw[c.i].st = "none")
         /\ c.do = "stopeng" => (eng'[c.i].st = "running" => eng[c.i].st = "running")
<1>1. /\ c.i \in Inst /\ c.port \in Ports \cup {NoPort} /\ c.do \in Commands
      /\ eng[c.i] \in EngBox /\ gw[c.i] \in GwBox
  BY DEF CmdType, Types
<1>2. /\ NoBox \in EngBox /\ NoBox \in GwBox /\ NoBox.st = "none"
      /\ [st |-> "running", port |-> c.port] \in EngBox /\ [st |-> "running", port |-> c.port] \in GwBox
  BY <1>1 DEF NoBox, EngBox, GwBox, Box
<1>3. /\ [gw[c.i] EXCEPT !.st = "exited"] \in GwBox /\ [gw[c.i] EXCEPT !.st = "exited"].st = "exited"
      /\ \A code \in {"clean", "crashed"} : /\ [eng[c.i] EXCEPT !.st = code] \in EngBox
                                           /\ [eng[c.i] EXCEPT !.st = code].st = code
  BY <1>1 DEF EngBox, GwBox, Box
<1>4. CASE c.do \in {"rmgw", "delgw"}
  BY <1>1, <1>2, <1>4 DEF Exec, Containers, Types
<1>5. CASE c.do \in {"rmeng", "deleng", "rmback"}
  BY <1>1, <1>2, <1>5 DEF Exec, Containers, Types
<1>6. CASE c.do \in {"run", "gateway"}
  BY <1>1, <1>2, <1>6 DEF Exec, Containers, Types
<1>7. CASE c.do = "stopgw"
  <2>1. UNCHANGED eng /\ (gw' = gw \/ gw' = [gw EXCEPT ![c.i] = [gw[c.i] EXCEPT !.st = "exited"]])
    BY <1>7 DEF Exec, Containers
  <2> QED
    BY <1>1, <1>3, <1>7, <2>1 DEF Types
<1>8. CASE c.do = "stopeng"
  <2>1. UNCHANGED gw /\ (eng' = eng \/ \E code \in {"clean", "crashed"} :
                                        eng' = [eng EXCEPT ![c.i] = [eng[c.i] EXCEPT !.st = code]])
    BY <1>8 DEF Exec, Containers
  <2> QED
    BY <1>1, <1>3, <1>8, <2>1 DEF Types
<1> QED
  BY <1>1, <1>4, <1>5, <1>6, <1>7, <1>8 DEF Commands

\* A command that failed, whatever the reason.
LEMMA FailedKept ==
  ASSUME LifecycleConstants, LifecycleInv, NEW t \in Tasks, req[t].at \in Commands,
         NEW unavailable \in BOOLEAN, Failed(t, unavailable),
         \/ served' = served \ {req[t].i}
         \/ served' = served /\ req[t].at \in {"gateway", "rmback"},
         eng' \in [Inst -> EngBox], \A j \in Inst \ {req[t].i} : eng'[j] = eng[j],
         eng' = eng \/ \A j \in Inst : j = req[t].i => eng'[j].st = "none",
         late' \in SUBSET CmdType, \A c \in late' : c \in late \/ c.i = req[t].i,
         faults' \in Nat,
         faults' = 0 => /\ faults = 0 /\ UNCHANGED late
                        /\ req[t].at \in AtWork => \/ req[t].at = "gateway"
                                                  \/ \A j \in Inst : j = req[t].i => eng'[j].st = "none",
         UNCHANGED <<gw, inv, link, sup, born>>
  PROVE  LifecycleInv'
<1> USE DEF LifecycleInv
<1>1. req[t].at # "idle" /\ req[t].i \in Inst /\ req[t].at # "launched"
  BY TaskIs DEF Commands, Types, TaskType
<1>2. /\ ReqTypes' /\ Others(t) /\ lock' \in Reqs \cup {Free} /\ Locks'
      /\ \/ /\ req[t].at = "gateway" /\ req'[t].at = "rmback" /\ req'[t].i = req[t].i
            /\ req'[t].op = req[t].op /\ UNCHANGED row
         \/ /\ req[t].at # "gateway" /\ req'[t] = Idle /\ req'[t].at = "idle"
            /\ row' = row \/ \E st \in States : row' = Set(req[t].i, st)
  BY FailedIs
<1>3. /\ row' \in [Inst -> Row] /\ \A j \in Inst \ {req[t].i} : row'[j] = row[j]
      /\ \A j \in Inst : Exists(j)' <=> Exists(j)
  <2>1. CASE row' = row
    BY <2>1 DEF Types, Exists
  <2>2. CASE \E st \in States : row' = Set(req[t].i, st)
    BY <1>1, <2>2, SetIs
  <2> QED
    BY <1>2, <2>1, <2>2
<1>4. served' \subseteq served /\ req[t].i \notin served'
  BY DEF Serving, Preparing
<1>5. Types'
  BY <1>2, <1>3, <1>4 DEF Types, ReqTypes
<1>6. Newborn'
  <2>1. \A j \in Inst : Pristine(j) /\ j # req[t].i => Pristine(j)'
    BY <1>3, <1>4 DEF Pristine
  <2>2. ~Awaiting(t)' /\ ReqTypes
    BY <1>2 DEF Awaiting, Types, ReqTypes
  <2> QED
    BY <1>1, <1>2, <2>1, <2>2, NewbornKept
<1>7. Serving'
  <2>1. \A j \in served' : row'[j] = row[j]
    BY <1>3, <1>4 DEF Types
  <2>2. req'[t].at \notin Preparing \cup {"launched"} \/ req'[t].i \notin served'
    BY <1>2, <1>4 DEF Preparing
  <2> QED
    BY <1>1, <1>2, <1>4, <2>1, <2>2, ServingKept
<1>8. Headless'
  <2>1. \A j \in Inst : (eng[j].st = "running" /\ gw[j].st = "none") \/ ~(eng'[j].st = "running" /\ gw'[j].st = "none")
    OBVIOUS
  <2>2. "rmback" \in AtWork
    BY DEF AtWork
  <2>3. faults' = 0 /\ req[t].at \in AtWork =>
              \/ req'[t].at \in AtWork /\ req'[t].i = req[t].i
              \/ \A j \in Inst : j = req[t].i => ~(eng'[j].st = "running" /\ gw'[j].st = "none")
    BY <1>2, <2>2
  <2>4. CASE faults' = 0
    BY <1>2, <2>1, <2>3, <2>4, HeadlessKept
  <2>5. CASE faults' # 0
    BY <2>5 DEF Headless
  <2> QED
    BY <2>4, <2>5
<1> QED
  BY <1>2, <1>5, <1>6, <1>7, <1>8, RoundKept

LEMMA CommandOf ==
  ASSUME Types, NEW t \in Tasks, req[t].at \in Commands
  PROVE  CmdOf(t) \in CmdType /\ CmdOf(t).do = req[t].at /\ CmdOf(t).i = req[t].i /\ CmdOf(t).port = req[t].port
         /\ req[t] \in TaskType /\ req[t].i \in Inst /\ req[t].at # "idle"
BY TaskIs DEF CmdOf, Cmd, CmdType, Types, TaskType, Commands

LEMMA AnsweredKept ==
  ASSUME LifecycleConstants, LifecycleInv, NEW t \in Tasks, Answered(t)
  PROVE  LifecycleInv'
<1> USE DEF LifecycleInv
<1> DEFINE i == req[t].i  c == CmdOf(t)
<1>1. /\ req[t].at \in Commands \ {"rmback"} /\ Exec(c) /\ link # "down"
      /\ UNCHANGED <<row, inv, link, lock, sup, late, born, faults>>
      /\ ~Refused(c)
      /\ served' = IF req[t].at = "gateway" THEN served \cup {i} ELSE served \ {i}
  BY DEF Answered, budget
<1>2. c \in CmdType /\ c.do = req[t].at /\ c.i = i /\ c.port = req[t].port
      /\ req[t] \in TaskType /\ i \in Inst /\ req[t].at # "idle"
  BY <1>1, CommandOf
<1> HIDE DEF c
<1>3. /\ eng' \in [Inst -> EngBox] /\ gw' \in [Inst -> GwBox]
      /\ \A j \in Inst \ {i} : eng'[j] = eng[j] /\ gw'[j] = gw[j]
      /\ req[t].at \in {"rmgw", "delgw"} => UNCHANGED eng
      /\ req[t].at \in {"rmeng", "deleng"} => eng'[i].st = "none"
      /\ req[t].at \in {"rmeng", "deleng", "run", "stopeng"} => UNCHANGED gw
      /\ req[t].at = "gateway" => gw'[i] = [st |-> "running", port |-> req[t].port] /\ UNCHANGED eng
      /\ req[t].at = "stopgw" => UNCHANGED eng /\ (gw'[i].st = "none" => gw[i].st = "none")
      /\ req[t].at = "stopeng" => (eng'[i].st = "running" => eng[i].st = "running")
  BY <1>1, <1>2, ExecIs
<1> DEFINE order == IF req[t].at = "run" THEN GatewayOrder(i, req[t].port) ELSE {}
           x == [req[t] EXCEPT !.at = After(req[t].at), !.order = order]
<1>4. /\ After(req[t].at) \in Phases \ {"lock", "fit", "preflight", "settle", "idle"}
      /\ After(req[t].at) \in Launching => req[t].at \in Launching /\ After(req[t].at) # "rmback"
      /\ After(req[t].at) \in Stopping => req[t].at \in Stopping
      /\ After(req[t].at) = "launched" => req[t].at = "gateway"
      /\ req[t].at = "rmgw" => After(req[t].at) = "rmeng"
      /\ req[t].at = "run" => After(req[t].at) = "gateway"
      /\ req[t].at = "delgw" => After(req[t].at) = "deleng"
      /\ req[t].at = "gateway" => After(req[t].at) = "launched"
  BY <1>1 DEF After, Phases, Launching, Stopping, Removing, Commands
<1>5. order \in SUBSET Ports
  BY DEF GatewayOrder, CandidatePorts
<1> HIDE DEF order
<1>6. /\ x \in TaskType /\ x.at = After(req[t].at) /\ x.i = i /\ x.op = req[t].op
      /\ x.port = req[t].port /\ x.before = req[t].before
  BY <1>2, <1>4, <1>5 DEF TaskType
<1>7. req' = [req EXCEPT ![t] = x]
  <2>1. req' = [req EXCEPT ![t].at = After(req[t].at), ![t].order = order]
    BY DEF Answered, order
  <2> QED
    BY <2>1, ZenonT(40)
<1> HIDE DEF x
<1>8. /\ x.at \in {"preflight"} \cup Launching => x.port \in Ports
      /\ x.at \in Stopping => x.before \in States
  BY <1>4, <1>6 DEF Types
<1>9. ReqTypes' /\ req'[t] = x /\ Others(t)
  BY <1>6, <1>7, <1>8, Moves DEF ReqTypes, Others
<1>10. Types'
  BY <1>1, <1>2, <1>3, <1>9 DEF Types, ReqTypes
<1>11. Locks'
  <2>1. ASSUME NEW u \in Tasks, req'[u].at \in {"fit", "preflight"} \cup Launching PROVE lock' = u
    BY <2>1, <1>1, <1>4, <1>6, <1>9 DEF Others, Locks
  <2>2. req[Sup].at \in {"idle"} \cup Stopping /\ (req[Sup].at # "idle" => req[Sup].op = "stop")
    BY DEF Locks
  <2>3. t = Sup => After(req[t].at) \in Stopping
    BY <2>2, <1>1 DEF Stopping, After, Commands
  <2>4. req'[Sup].at \in {"idle"} \cup Stopping /\ (req'[Sup].at # "idle" => req'[Sup].op = "stop")
    BY <1>2, <1>6, <1>9, <2>2, <2>3 DEF Others, Tasks
  <2> QED
    BY <2>1, <2>4 DEF Locks
<1>12. Newborn'
  <2>1. \A j \in Inst : Pristine(j) /\ j # i => Pristine(j)'
    BY <1>1, <1>2, <1>3 DEF Pristine, Exists
  <2>2. ~Awaiting(t)' /\ ReqTypes
    BY <1>4, <1>6, <1>9 DEF Awaiting, Types, ReqTypes
  <2>3. req'[t].at # "idle" /\ req'[t].i = req[t].i
    BY <1>4, <1>6, <1>9
  <2> QED
    BY <1>1, <1>2, <1>9, <2>1, <2>2, <2>3, NewbornKept
<1>13. Serving'
  <2>1. CASE req[t].at # "gateway"
    <3>1. served' \subseteq served /\ i \notin served'
      BY <1>1, <2>1
    <3>2. \A j \in served' : gw'[j] = gw[j] /\ row'[j] = row[j]
      BY <1>1, <1>3, <3>1 DEF Types
    <3> QED
      BY <1>6, <1>9, <3>1, <3>2, ServingKept
  <2>2. CASE req[t].at = "gateway"
    <3>1. served' = served \cup {i} /\ lock = t /\ i \notin served
      BY <1>1, <2>2 DEF Locks, Launching, Serving, Preparing
    <3>2. \A u \in Tasks : req[u].at \in {"fit", "preflight"} \cup Launching => u = t
      BY <3>1 DEF Locks
    <3>3. req'[t].at = "launched" /\ req'[t].i = i /\ req'[t].port = req[t].port
      BY <1>4, <1>6, <1>9, <2>2
    <3>4. \A u \in Tasks : req'[u].at \in Preparing \cup {"launched"} => u = t
      BY <1>9, <3>2 DEF Others, Preparing, Launching
    <3>5. ASSUME NEW j \in served
          PROVE  /\ \A u \in Tasks : req'[u].at \in Preparing \cup {"launched"} => req'[u].i # j
                 /\ gw'[j].st = "running" /\ row'[j].st \in LIVE /\ row'[j].port = gw'[j].port
      <4>1. j # i /\ gw'[j] = gw[j] /\ row'[j] = row[j]
        BY <1>1, <1>3, <3>1 DEF Types
      <4>2. ~Returning(j)
        BY <2>2, <3>2 DEF Returning, Launching
      <4> QED
        BY <3>3, <3>4, <4>1, <4>2 DEF Serving
    <3>6. /\ gw'[i].st = "running" /\ gw'[i].port = req'[t].port
          /\ \A u \in Tasks : req'[u].at \notin Preparing
      BY <1>3, <2>2, <3>3, <3>4 DEF Preparing
    <3> QED
      BY <3>1, <3>3, <3>4, <3>5, <3>6 DEF Serving, Returning
  <2> QED
    BY <2>1, <2>2
<1>14. Headless'
  <2>1. faults' = 0 => faults = 0 /\ UNCHANGED <<late, link>>
    BY <1>1
  <2>2. \A j \in Inst : (eng[j].st = "running" /\ gw[j].st = "none") \/ ~(eng'[j].st = "running" /\ gw'[j].st = "none")
                                        \/ (req'[t].at \in AtWork /\ req'[t].i = j)
    BY <1>1, <1>2, <1>3, <1>4, <1>6, <1>9 DEF AtWork, Commands
  <2>3. req[t].at \in AtWork =>
              \/ req'[t].at \in AtWork /\ req'[t].i = req[t].i
              \/ \A j \in Inst : j = req[t].i => ~(eng'[j].st = "running" /\ gw'[j].st = "none")
    BY <1>1, <1>2, <1>3 DEF AtWork
  <2> QED
    BY <1>9, <2>1, <2>2, <2>3, HeadlessKept
<1> QED
  BY <1>1, <1>10, <1>11, <1>12, <1>13, <1>14, RoundKept

LEMMA NextPortKept ==
  ASSUME LifecycleConstants, LifecycleInv, NEW t \in Tasks, NextPort(t)
  PROVE  LifecycleInv'
<1> USE DEF LifecycleInv
<1>1. /\ req[t].at = "gateway" /\ UNCHANGED <<eng, gw, inv, link, sup, late, served, born, faults>>
      /\ "gateway" \in Commands
  BY DEF NextPort, node, budget, Commands
<1>2. CASE req[t].order = {}
  <2>1. Failed(t, FALSE)
    BY <1>2 DEF NextPort
  <2> QED
    BY <1>1, <2>1, FailedKept DEF Types
<1>3. CASE req[t].order # {}
  <2>1. PICK port \in req[t].order :
          req' = [req EXCEPT ![t].port = port, ![t].order = LeftPorts(req[t].order, port)]
    BY <1>3 DEF NextPort
  <2>2. lock' = lock /\ row' = row /\ req[t] \in TaskType
    BY <1>1, <1>3, CommandOf DEF NextPort
  <2> DEFINE x == [req[t] EXCEPT !.port = port, !.order = LeftPorts(req[t].order, port)]
  <2>3. /\ x \in TaskType /\ x.at = "gateway" /\ x.i = req[t].i /\ x.op = req[t].op /\ x.port \in Ports
    <3>1. PICK left : left = LeftPorts(req[t].order, port)
      OBVIOUS
    <3>2. req[t].order \in SUBSET Ports
      BY <2>2 DEF TaskType
    <3>3. left \in SUBSET Ports /\ port \in Ports
      BY <2>1, <3>1, <3>2 DEF LeftPorts
    <3>4. PICK moved : moved = [req[t] EXCEPT !.port = port]
      OBVIOUS
    <3>5. moved \in TaskType /\ moved.at = req[t].at /\ moved.i = req[t].i /\ moved.op = req[t].op /\ moved.port = port
      BY <2>2, <3>3, <3>4 DEF TaskType
    <3>6. x = [moved EXCEPT !.order = left]
      BY <3>1, <3>4
    <3> HIDE DEF x
    <3>7. x \in TaskType /\ x.at = moved.at /\ x.i = moved.i /\ x.op = moved.op /\ x.port = moved.port
      BY <3>3, <3>5, <3>6 DEF TaskType
    <3> QED
      BY <1>1, <3>3, <3>5, <3>7
  <2>4. req' = [req EXCEPT ![t] = x]
    BY <2>1, ZenonT(40)
  <2> HIDE DEF x
  <2>5. ReqTypes' /\ req'[t] = x /\ Others(t)
    BY <2>3, <2>4, Moves DEF ReqTypes, Others, Stopping
  <2>6. Types'
    BY <1>1, <2>2, <2>5 DEF Types, ReqTypes
  <2>7. Locks'
    <3>1. ASSUME NEW u \in Tasks, req'[u].at \in {"fit", "preflight"} \cup Launching PROVE lock' = u
      BY <3>1, <1>1, <2>2, <2>5 DEF Others, Locks, Launching
    <3>2. t # Sup
      BY <1>1 DEF Locks, Stopping
    <3> QED
      BY <3>1, <3>2, <2>5 DEF Others, Locks, Tasks
  <2>8. Newborn'
    <3>1. \A j \in Inst : Pristine(j) => Pristine(j)'
      BY <1>1, <2>2 DEF Pristine, Exists
    <3>2. ~Awaiting(t)' /\ ReqTypes
      BY <2>3, <2>5 DEF Awaiting, Types, ReqTypes
    <3> QED
      BY <1>1, <2>3, <2>5, <3>1, <3>2, NewbornKept
  <2>9. Serving'
    <3>1. req[t].i \notin served
      BY <1>1 DEF Serving, Preparing
    <3> QED
      BY <1>1, <2>2, <2>3, <2>5, <3>1, ServingKept
  <2>10. Headless'
    BY <1>1, <2>3, <2>5, HeadlessKept
  <2> QED
    BY <1>1, <2>6, <2>7, <2>8, <2>9, <2>10, RoundKept
<1> QED
  BY <1>2, <1>3

LEMMA RefusedKept ==
  ASSUME LifecycleConstants, LifecycleInv, NEW t \in Tasks, Refuses(t) \/ RemovedBack(t) \/ Unanswered(t)
  PROVE  LifecycleInv'
<1> USE DEF LifecycleInv
<1>1. req[t].at \in Commands
  BY DEF Refuses, RemovedBack, Unanswered, Commands
<1>2. CmdOf(t) \in CmdType /\ CmdOf(t).do = req[t].at /\ CmdOf(t).i = req[t].i /\ req[t].i \in Inst
  BY <1>1, CommandOf
<1>3. CASE Refuses(t)
  <2>1. /\ Failed(t, FALSE) /\ served' = served \ {req[t].i}
        /\ UNCHANGED <<eng, gw, inv, link, sup, late, born>>
        /\ \/ Refused(CmdOf(t)) /\ UNCHANGED faults
           \/ faults' = faults + 1
    BY <1>3 DEF Refuses, Touched, node
  <2>2. faults' \in Nat
    BY <2>1 DEF Types
  <2>3. faults' = 0 => faults = 0 /\ req[t].at \in {"run", "gateway"}
    BY <2>1, <1>1, <1>2 DEF Refused, Types
  <2>4. eng' \in [Inst -> EngBox] /\ late' \in SUBSET CmdType
    BY <2>1 DEF Types
  <2>5. faults' = 0 /\ req[t].at \in AtWork => req[t].at = "gateway"
    BY <2>3 DEF AtWork
  <2> QED
    BY <1>1, <2>1, <2>2, <2>3, <2>4, <2>5, FailedKept
<1>4. CASE RemovedBack(t)
  <2>1. /\ Failed(t, FALSE) /\ Exec(CmdOf(t)) /\ req[t].at = "rmback"
        /\ UNCHANGED <<inv, link, sup, late, served, born, faults>>
    BY <1>4 DEF RemovedBack, budget
  <2>2. /\ eng' \in [Inst -> EngBox] /\ \A j \in Inst \ {req[t].i} : eng'[j] = eng[j]
        /\ UNCHANGED gw /\ eng'[req[t].i].st = "none"
    <3>1. PICK c \in CmdType : c.do = "rmback" /\ c.i = req[t].i /\ Exec(c)
      BY <1>2, <2>1
    <3> HIDE DEF LifecycleInv
    <3>2. Types
      BY DEF LifecycleInv
    <3>3. eng' \in [Inst -> EngBox] /\ \A j \in Inst \ {c.i} : eng'[j] = eng[j]
      BY <3>1, <3>2, ExecIs
    <3>4. c.do \in {"rmeng", "deleng", "rmback"} => eng'[c.i].st = "none"
      BY <3>1, <3>2, ExecIs
    <3>5. c.do \in {"rmeng", "deleng", "rmback", "run", "stopeng"} => gw' = gw
      BY <3>1, <3>2, ExecIs
    <3> QED
      BY <3>1, <3>3, <3>4, <3>5
  <2>3. late' \in SUBSET CmdType /\ faults' \in Nat
    BY <2>1 DEF Types
  <2> QED
    BY <1>1, <2>1, <2>2, <2>3, FailedKept
<1>5. CASE Unanswered(t)
  <2>1. /\ Failed(t, TRUE) /\ served' = served \ {req[t].i} /\ Orphan(t) /\ NoAnswer
        /\ UNCHANGED <<eng, gw, inv, link, sup, born>>
    BY <1>5 DEF Unanswered, Touched, node
  <2>2. faults' \in Nat /\ faults' # 0
    <3>1. CASE link = "down"
      BY <2>1, <3>1 DEF NoAnswer, Headless, Types
    <3>2. CASE link # "down"
      BY <2>1, <3>2 DEF NoAnswer, Types
    <3> QED
      BY <3>1, <3>2
  <2>3. eng' \in [Inst -> EngBox]
    BY <2>1 DEF Types
  <2>4. late' \in SUBSET CmdType /\ \A c \in late' : c \in late \/ c.i = req[t].i
    BY <1>2, <2>1 DEF Orphan, Types
  <2> QED
    BY <1>1, <2>1, <2>2, <2>3, <2>4, FailedKept
<1> QED
  BY <1>3, <1>4, <1>5

\* The last answer on its way back.
LEMMA DoneKept ==
  ASSUME LifecycleConstants, LifecycleInv, NEW t \in Tasks, LaunchDone(t) \/ StopDone(t) \/ RemoveDone(t)
  PROVE  LifecycleInv'
<1> USE DEF LifecycleInv
<1> DEFINE i == req[t].i
<1>1. /\ req[t].at \in {"launched", "stopped", "deleted"} /\ req[t] \in TaskType /\ i \in Inst
      /\ UNCHANGED <<eng, gw, inv, link, sup, late, born, faults>>
  BY TaskIs DEF LaunchDone, StopDone, RemoveDone, node, budget, Types, TaskType
<1>2. ReqTypes /\ req[t].at # "idle" /\ req[t].at \notin AtWork
  BY <1>1 DEF Types, ReqTypes, AtWork
<1>3. ASSUME ReqTypes', Others(t), Locks', lock' \in Reqs \cup {Free}, row' \in [Inst -> Row],
             \A j \in Inst \ {i} : row'[j] = row[j], served' \subseteq served,
             \/ req'[t] = Idle /\ req'[t].at = "idle"
             \/ req'[t].at = "settle" /\ req'[t].i = i /\ req'[t].op = "start",
             i \notin served' \/ (row'[i].st \in LIVE /\ row'[i].port = gw[i].port)
      PROVE  LifecycleInv'
  <2>1. Types'
    BY <1>1, <1>3 DEF Types, ReqTypes
  <2>2. Newborn'
    <3>1. \A j \in Inst : Pristine(j) /\ j # i => Pristine(j)'
      BY <1>1, <1>3 DEF Pristine, Exists
    <3>2. ~Awaiting(t)'
      BY <1>3 DEF Awaiting
    <3> QED
      BY <1>1, <1>2, <1>3, <3>1, <3>2, NewbornKept
  <2>3. Serving'
    <3>1. CASE i \notin served'
      <4>1. \A j \in served' : row'[j] = row[j]
        BY <1>3, <3>1 DEF Types
      <4>2. req'[t].at \notin Preparing \cup {"launched"}
        BY <1>3 DEF Preparing
      <4> QED
        BY <1>1, <1>3, <3>1, <4>1, <4>2, ServingKept
    <3>2. CASE i \in served'
      <4> SUFFICES ASSUME NEW j \in served'
                   PROVE  /\ \A u \in Tasks : req'[u].at \in Preparing => req'[u].i # j
                          /\ gw'[j].st = "running"
                          /\ \A u \in Tasks : req'[u].at = "launched" /\ req'[u].i = j => gw'[j].port = req'[u].port
                          /\ \/ \E u \in Tasks : req'[u].at = "launched" /\ req'[u].i = j
                             \/ row'[j].st \in LIVE /\ row'[j].port = gw'[j].port
        BY DEF Serving, Returning
      <4>1. j \in served /\ gw' = gw /\ req'[t].at \notin Preparing \cup {"launched"}
        BY <1>1, <1>3 DEF Preparing
      <4>2. /\ \A u \in Tasks : req'[u].at \in Preparing => req'[u].i # j
            /\ gw'[j].st = "running"
            /\ \A u \in Tasks : req'[u].at = "launched" /\ req'[u].i = j => gw'[j].port = req'[u].port
        BY <1>3, <4>1 DEF Serving, Others
      <4>3. CASE j = i
        BY <1>3, <3>2, <4>1, <4>2, <4>3
      <4>4. CASE j # i
        <5>1. row'[j] = row[j] /\ (\A u \in Tasks : req[u].i = j => req'[u] = req[u])
          BY <1>3, <4>1, <4>4 DEF Types, Others
        <5> QED
          BY <4>1, <4>2, <5>1 DEF Serving, Returning
      <4> QED
        BY <4>3, <4>4
    <3> QED
      BY <3>1, <3>2
  <2>4. Headless'
    BY <1>1, <1>2, <1>3, HeadlessKept
  <2> QED
    BY <1>1, <1>3, <2>1, <2>2, <2>3, <2>4, RoundKept
<1>4. CASE LaunchDone(t)
  <2>1. req[t].at = "launched" /\ row' = LaunchedRow(t) /\ Return(t) /\ req[t].port \in Ports
        /\ served' = IF Exists(i) THEN served ELSE served \ {i}
    BY <1>4 DEF LaunchDone, Types, Launching
  <2>2. [st |-> "starting", port |-> req[t].port, started |-> "recent"] \in Row /\ "starting" \in LIVE
    BY <2>1 DEF Row, States, ACTIVE, Ages, LIVE
  <2>3. /\ row' \in [Inst -> Row] /\ \A j \in Inst \ {i} : row'[j] = row[j]
        /\ Exists(i) => row'[i].st \in LIVE /\ row'[i].port = req[t].port
    BY <1>1, <2>1, <2>2 DEF LaunchedRow, Types
  <2>4. i \in served => gw[i].port = req[t].port
    BY <2>1 DEF Serving
  <2>5. i \notin served' \/ (row'[i].st \in LIVE /\ row'[i].port = gw[i].port)
    BY <2>1, <2>3, <2>4
  <2>6. /\ ReqTypes' /\ Others(t) /\ Locks' /\ lock' \in Reqs \cup {Free}
        /\ req'[t] = Idle /\ req'[t].at = "idle"
    BY <2>1, Returned
  <2>7. served' \subseteq served
    BY <2>1
  <2>8. (row' \in [Inst -> Row]) /\ \A j \in Inst \ {i} : row'[j] = row[j]
    BY <2>3
  <2> HIDE DEF i
  <2> QED
    BY <1>3, <2>5, <2>6, <2>7, <2>8
<1>5. CASE StopDone(t)
  <2>1. req[t].at = "stopped" /\ row' = Set(i, "stopped") /\ served' = served \ {i} /\ "stopped" \in States
    BY <1>5 DEF StopDone, Touched, States
  <2>2. row' \in [Inst -> Row] /\ \A j \in Inst \ {i} : row'[j] = row[j]
    BY <1>1, <2>1, SetIs
  <2>3. CASE req[t].op = "restart"
    <3> DEFINE x == Task("start", i, "settle", NoPort, "absent")
    <3>1. x \in TaskType /\ x.at = "settle" /\ x.i = i /\ x.op = "start"
      BY <1>1 DEF TaskType, Task, Phases
    <3>2. req' = [req EXCEPT ![t] = x] /\ lock' = lock
      BY <1>5, <2>3 DEF StopDone
    <3> HIDE DEF x
    <3>3. ReqTypes' /\ req'[t] = x /\ Others(t)
      BY <3>1, <3>2, Moves DEF ReqTypes, Others, Launching, Stopping
    <3>4. Locks'
      <4>1. ASSUME NEW u \in Tasks, req'[u].at \in {"fit", "preflight"} \cup Launching PROVE lock' = u
        BY <4>1, <3>1, <3>2, <3>3 DEF Others, Locks, Launching
      <4>2. t # Sup
        BY <1>2, <2>3 DEF Locks
      <4> QED
        BY <4>1, <4>2, <3>3 DEF Others, Locks, Tasks
    <3> QED
      BY <1>3, <2>1, <2>2, <3>1, <3>2, <3>3, <3>4 DEF Types
  <2>4. CASE req[t].op # "restart"
    <3>1. Return(t)
      BY <1>5, <2>4 DEF StopDone
    <3>2. /\ ReqTypes' /\ Others(t) /\ Locks' /\ lock' \in Reqs \cup {Free}
          /\ req'[t] = Idle /\ req'[t].at = "idle"
      BY <3>1, Returned
    <3>3. served' \subseteq served /\ i \notin served'
      BY <2>1
    <3> QED
      BY <1>3, <2>2, <3>2, <3>3
  <2> QED
    BY <2>3, <2>4
<1>6. CASE RemoveDone(t)
  <2>1. Return(t) /\ row' = [row EXCEPT ![i] = NoRow] /\ served' = served \ {i} /\ NoRow \in Row
    BY <1>6 DEF RemoveDone, Touched, Row
  <2>2. row' \in [Inst -> Row] /\ \A j \in Inst \ {i} : row'[j] = row[j]
    BY <1>1, <2>1 DEF Types
  <2>3. /\ ReqTypes' /\ Others(t) /\ Locks' /\ lock' \in Reqs \cup {Free}
        /\ req'[t] = Idle /\ req'[t].at = "idle"
    BY <2>1, Returned
  <2>4. served' \subseteq served /\ i \notin served'
    BY <2>1
  <2> QED
    BY <1>3, <2>2, <2>3, <2>4
<1> QED
  BY <1>4, <1>5, <1>6

LEMMA ProgressKept ==
  ASSUME LifecycleConstants, LifecycleInv, NEW t \in Tasks, Progress(t)
  PROVE  LifecycleInv'
BY AnsweredKept, NextPortKept, RefusedKept, DoneKept DEF Progress

-----------------------------------------------------------------------------
(* The supervisor.                                                         *)
LEMMA NewbornStays ==
  ASSUME Types, Newborn, UNCHANGED <<req, born>>, \A i \in Inst : Pristine(i) => Pristine(i)'
  PROVE  Newborn'
<1>1. \A i \in Inst \ born' : Pristine(i)' /\ \A t \in Tasks : ~Acting(t, i)'
  BY DEF Newborn, Acting
<1>2. ASSUME NEW t \in Tasks, Awaiting(t)'
      PROVE  \E i \in Inst : i = req'[t].i /\ Pristine(i)' /\ \A u \in Tasks \ {t} : ~Acting(u, i)'
  <2>1. Awaiting(t) /\ req'[t].i = req[t].i
    BY <1>2 DEF Awaiting
  <2>2. PICK i \in Inst : i = req[t].i
    BY <2>1, TaskIs DEF Types, TaskType, Awaiting
  <2>3. Pristine(i) /\ \A u \in Tasks \ {t} : ~Acting(u, i)
    BY <2>1, <2>2 DEF Newborn
  <2>4. \A u \in Tasks \ {t} : ~Acting(u, i)'
    BY <2>3 DEF Acting
  <2> QED
    BY <2>1, <2>2, <2>3, <2>4
<1> QED
  BY <1>1, <1>2 DEF Newborn

\* What the supervisor writes, and the gateway it stops; no request moves.
LEMMA SupWrites ==
  ASSUME LifecycleConstants, LifecycleInv, NEW i \in Inst,
         UNCHANGED <<eng, inv, link, lock, late, born, req>>,
         \/ row' = row /\ served' \in {served, served \ {i}}
         \/ \E st \in States : row' = Set(i, st) /\ (served' = served \ {i} \/ (st \in LIVE /\ served' = served)),
         \/ gw' = gw
         \/ /\ gw' \in [Inst -> GwBox] /\ served' = served \ {i}
            /\ \A j \in Inst \ {i} : gw'[j] = gw[j]
            /\ gw'[i].st = "none" => gw[i].st = "none",
         faults' \in Nat, faults' = 0 => faults = 0
  PROVE  Types' /\ Locks' /\ Newborn' /\ Serving' /\ Headless'
<1> USE DEF LifecycleInv
<1>1. Sup \in Tasks /\ Others(Sup) /\ req'[Sup].at \notin Preparing \cup {"launched"} /\ req[Sup].at \notin AtWork
  BY DEF Tasks, Others, Locks, Stopping, Preparing, AtWork
<1>2. /\ row' \in [Inst -> Row] /\ served' \subseteq served
      /\ \A j \in Inst : row'[j].port = row[j].port /\ (Exists(j)' <=> Exists(j))
      /\ \A j \in served' : row'[j].st = row[j].st \/ row'[j].st \in LIVE
  <2>1. CASE row' = row /\ served' \in {served, served \ {i}}
    BY <2>1 DEF Types, Exists
  <2>2. CASE \E st \in States : row' = Set(i, st) /\ (served' = served \ {i} \/ (st \in LIVE /\ served' = served))
    <3>1. PICK st \in States : row' = Set(i, st) /\ (served' = served \ {i} \/ (st \in LIVE /\ served' = served))
      BY <2>2
    <3>2. /\ row' \in [Inst -> Row] /\ \A j \in Inst \ {i} : row'[j] = row[j]
          /\ \A j \in Inst : row'[j].port = row[j].port /\ (Exists(j)' <=> Exists(j))
          /\ row'[i].st \in {row[i].st, st}
      BY <3>1, SetIs
    <3>3. ASSUME NEW j \in served' PROVE row'[j].st = row[j].st \/ row'[j].st \in LIVE
      BY <3>1, <3>2 DEF Types
    <3> QED
      BY <3>1, <3>2, <3>3
  <2> QED
    BY <2>1, <2>2
<1>3. Types'
  BY <1>2 DEF Types
<1>4. Locks'
  BY DEF Locks
<1>5. Newborn'
  <2>1. \A j \in Inst : Pristine(j) => Pristine(j)'
    BY <1>2 DEF Pristine
  <2> QED
    BY <2>1, NewbornStays
<1>6. Serving'
  <2>1. \A j \in served' : gw'[j] = gw[j]
    BY <1>2 DEF Types
  <2>2. \A j \in served' : row'[j].port = row[j].port /\ (row'[j].st = row[j].st \/ row'[j].st \in LIVE)
    BY <1>2 DEF Types
  <2> QED
    BY <1>1, <1>2, <2>1, <2>2, ServingKept DEF Preparing
<1>7. Headless'
  <2>1. ASSUME NEW j \in Inst
        PROVE  (eng[j].st = "running" /\ gw[j].st = "none") \/ ~(eng'[j].st = "running" /\ gw'[j].st = "none")
    OBVIOUS
  <2> QED
    BY <1>1, <2>1, HeadlessKept
<1> QED
  BY <1>3, <1>4, <1>5, <1>6, <1>7

LEMMA SupIs ==
  ASSUME Round, sup.at \notin {"idle", "off"}
  PROVE  /\ sup.todo \in SUBSET Inst /\ sup.snap \in [Inst -> Row]
         /\ sup.at # "loop" => sup.i \in Inst /\ sup.ev \in Evidence
BY DEF Round, SupType, SupIdle, SupOff

\* An instance's turn ends.
LEMMA RoundDone ==
  ASSUME Round, sup.at \notin {"idle", "off"}, NEW i, sup.at # "loop" => i = sup.i, sup' = Done(i)
  PROVE  Round'
<1>1. CASE sup.todo \subseteq {i}
  BY <1>1 DEF Done, Round, SupType, SupIdle, SupOff
<1>2. CASE ~(sup.todo \subseteq {i})
  <2>1. sup' = [at |-> "loop", todo |-> sup.todo \ {i}, snap |-> sup.snap]
    BY <1>2 DEF Done
  <2>2. \A j \in sup.todo \ {i} : sup.snap[j].st \in ACTIVE
    BY DEF Round
  <2> QED
    BY <2>1, <2>2, SupIs DEF Round, SupType
<1> QED
  BY <1>1, <1>2

\* Something is awaited for it.
LEMMA RoundAwait ==
  ASSUME Round, sup.at \notin {"idle", "off"}, NEW i \in Inst, sup.at # "loop" => i = sup.i, NEW ev \in Evidence,
         NEW at \in {"inspect", "inspected", "exited", "gateway", "probe", "write", "idle_stop"},
         at \in {"inspect", "inspected", "probe"} =>
           i \in sup.todo /\ sup.at \in {"loop", "inspect", "inspected", "probe"},
         at = "write" => ev \in States, sup' = Await(i, at, ev)
  PROVE  Round'
<1> DEFINE snap == IF at \in {"inspect", "inspected", "probe"} THEN sup.snap ELSE [sup.snap EXCEPT ![i] = NoRow]
<1>1. /\ snap \in [Inst -> Row] /\ \A j \in Inst \ {i} : snap[j] = sup.snap[j]
      /\ at \in {"inspect", "inspected", "probe"} => snap = sup.snap
  BY SupIs DEF Row
<1>2. sup' = [at |-> at, todo |-> sup.todo, i |-> i, ev |-> ev, snap |-> snap]
  BY DEF Await
<1> HIDE DEF snap
<1>3. sup' \in SupType /\ sup'.at = at /\ sup'.todo = sup.todo /\ sup'.i = i /\ sup'.ev = ev /\ sup'.snap = snap
  BY <1>1, <1>2, SupIs DEF SupType
<1>4. ASSUME NEW j \in sup.todo, at \in {"inspect", "inspected", "probe"} \/ j # i
      PROVE  snap[j].st \in ACTIVE
  BY <1>1, <1>4, SupIs DEF Round
<1> QED
  BY <1>3, <1>4 DEF Round

LEMMA ActKept ==
  ASSUME LifecycleConstants, LifecycleInv, NEW i \in Inst, NEW v \in Evidence,
         sup.at \in {"loop", "inspected"}, i \in sup.todo, sup.at = "inspected" => i = sup.i,
         Act(i, v), UNCHANGED <<eng, gw, inv, link, lock, late, born, faults>>
  PROVE  LifecycleInv'
<1> USE DEF LifecycleInv
<1>1. sup.at \notin {"idle", "off"} /\ (sup.at # "loop" => i = sup.i) /\ faults' \in Nat
  BY DEF Types
<1>2. ASSUME sup' = Done(i), UNCHANGED <<row, req, served>> PROVE LifecycleInv'
  BY <1>1, <1>2, RoundDone, SupWrites
<1>3. ASSUME NEW st \in States, row' = Set(i, st), served' = served \ {i}, UNCHANGED req, Round' PROVE LifecycleInv'
  BY <1>1, <1>3, SupWrites
<1>4. CASE v = "done" \/ (v = "ready" /\ sup' = Done(i))
  <2>1. CASE UNCHANGED <<row, req, served>>
    BY <1>2, <1>4, <2>1 DEF Act
  <2>2. CASE ~UNCHANGED <<row, req, served>>
    <3>1. v = "ready" /\ BeginStop(Sup, "stop", i) /\ sup' = Await(i, "idle_stop", v) /\ sup' = Done(i)
      BY <1>4, <2>2 DEF Act
    <3>2. FALSE
      BY <3>1 DEF Done, Await, SupIdle
    <3> QED
      BY <3>2
  <2> QED
    BY <2>1, <2>2
<1>5. CASE v \in {"stopped", "headless"}
  <2>1. row' \in {Set(i, "stopped"), Set(i, "failed")} /\ served' = served \ {i} /\ sup' = Done(i) /\ UNCHANGED req
    BY <1>5 DEF Act, Touched
  <2>2. {"stopped", "failed"} \subseteq States
    BY DEF States
  <2> QED
    BY <1>1, <1>3, <2>1, <2>2, RoundDone
<1>6. CASE v = "gone"
  <2>1. row' = Set(i, "failed") /\ served' = served \ {i} /\ sup' = Await(i, "gateway", v) /\ UNCHANGED req
    BY <1>6 DEF Act, Touched
  <2>2. Round'
    BY <1>1, <2>1, RoundAwait
  <2>3. "failed" \in States
    BY DEF States
  <2> QED
    BY <1>3, <2>1, <2>2, <2>3
<1>7. CASE v \in {"inspect", "exited", "probe"}
  <2>1. sup' = Await(i, v, v) /\ UNCHANGED <<row, req, served>>
    BY <1>7 DEF Act
  <2>2. Round'
    BY <1>1, <1>7, <2>1, RoundAwait
  <2> QED
    BY <1>1, <2>1, <2>2, SupWrites
<1>8. CASE v = "ready" /\ sup' # Done(i)
  <2>1. BeginStop(Sup, "stop", i) /\ sup' = Await(i, "idle_stop", v)
    BY <1>8 DEF Act
  <2> DEFINE x == Task("stop", i, "stopgw", NoPort, row[i].st)
  <2>2. Exists(i) /\ row[i].st \in States
    BY <2>1 DEF BeginStop, Exists, Types, Row, NoRow
  <2>3. x \in TaskType /\ x.at = "stopgw" /\ x.i = i /\ x.op = "stop" /\ x.before \in States
    BY <2>2 DEF TaskType, Task, Phases, Stopping
  <2>4. req' = [req EXCEPT ![Sup] = x] /\ row' = Set(i, "stopping") /\ served' = served \ {i}
    BY <2>1 DEF BeginStop, Touched
  <2> HIDE DEF x
  <2>5. Sup \in Tasks /\ req[Sup].at \in {"idle"} \cup Stopping
    BY DEF Tasks, Locks
  <2>6. Types' /\ Locks' /\ Newborn' /\ Serving' /\ Headless'
    BY <2>2, <2>3, <2>4, <2>5, Called
  <2>7. Round'
    BY <1>1, <2>1, RoundAwait
  <2> QED
    BY <2>6, <2>7
<1> QED
  BY <1>4, <1>5, <1>6, <1>7, <1>8 DEF Act

LEMMA VerdictIs ==
  ASSUME NEW st, NEW e, NEW g PROVE Verdict(st, e, g) \in Evidence
BY DEF Verdict, Evidence, States, ACTIVE

\* What adoption makes of a row.
LEMMA AdoptedIs ==
  ASSUME Types, NEW i \in Inst
  PROVE  /\ AdoptedRow(i) \in Row
         /\ Exists(i) => AdoptedRow(i).port = row[i].port
         /\ inv.eng[i].st = "none" => AdoptedRow(i) = row[i]
<1>1. row[i] \in Row
  BY DEF Types
<1>2. Exists(i) => row[i] \in [st : States, port : Ports, started : Ages]
  BY <1>1 DEF Exists, Row, NoRow
<1>3. ASSUME Exists(i), NEW st \in States
      PROVE  [row[i] EXCEPT !.st = st] \in Row /\ [row[i] EXCEPT !.st = st].port = row[i].port
  BY <1>2, <1>3 DEF Row
<1>4. "loading" \in States /\ "stopped" \in States /\ "recent" \in Ages /\ "null" \in Ages
  BY DEF States, ACTIVE, Ages
<1>5. row[i].st \in ACTIVE => Exists(i)
  BY DEF Exists, ACTIVE
<1> DEFINE c == inv.eng[i]  port == AdoptedPort(i)
<1>6. CASE c.st = "none"
  BY <1>1, <1>6 DEF AdoptedRow
<1>7. CASE c.st = "running" /\ Exists(i)
  <2>1. AdoptedRow(i) = [row[i] EXCEPT !.st = "loading"]
    BY <1>7 DEF AdoptedRow
  <2> QED
    BY <1>3, <1>4, <1>7, <2>1
<1>8. CASE c.st = "clean" /\ row[i].st \in ACTIVE
  <2>1. AdoptedRow(i) = [row[i] EXCEPT !.st = "stopped"]
    BY <1>5, <1>8 DEF AdoptedRow
  <2> QED
    BY <1>3, <1>4, <1>5, <1>8, <2>1
<1>9. CASE c.st # "none" /\ ~Exists(i) /\ port \in Ports
  <2>1. AdoptedRow(i) = IF c.st = "running" THEN [st |-> "loading", port |-> port, started |-> "recent"]
                                            ELSE [st |-> "stopped", port |-> port, started |-> "null"]
    BY <1>5, <1>9 DEF AdoptedRow
  <2> QED
    BY <1>4, <1>9, <2>1 DEF Row
<1>10. CASE ~(c.st = "none") /\ ~(c.st = "running" /\ Exists(i)) /\ ~(c.st = "clean" /\ row[i].st \in ACTIVE)
            /\ ~(c.st # "none" /\ ~Exists(i) /\ port \in Ports)
  <2>1. AdoptedRow(i) = row[i]
    BY <1>10 DEF AdoptedRow
  <2> QED
    BY <1>1, <1>10, <2>1
<1> QED
  BY <1>6, <1>7, <1>8, <1>9, <1>10

LEMMA TickKept ==
  ASSUME LifecycleConstants, LifecycleInv, Tick PROVE LifecycleInv'
<1> USE DEF LifecycleInv
<1>1. /\ row' = Adopted /\ link' = "up" /\ link # "down"
      /\ served' = served \cap {i \in Inst : row'[i].st \in LIVE}
      /\ sup' = IF Supervised(row') = {} THEN SupIdle
                ELSE [at |-> "loop", todo |-> Supervised(row'), snap |-> row']
      /\ UNCHANGED <<eng, gw, inv, lock, req, late, born, faults>>
  BY DEF Tick, node, budget
<1>2. ASSUME NEW i \in Inst
      PROVE  /\ row'[i] \in Row /\ (Exists(i) => row'[i].port = row[i].port)
             /\ inv.eng[i].st = "none" => row'[i] = row[i]
  BY <1>1, AdoptedIs DEF Adopted, Types
<1>3. row' \in [Inst -> Row]
  <2>1. row' = [i \in Inst |-> AdoptedRow(i)] \/ row' = row
    BY <1>1 DEF Adopted
  <2> QED
    BY <2>1, AdoptedIs DEF Types
<1>4. Types'
  BY <1>1, <1>3 DEF Types
<1>5. Round'
  <2>1. Supervised(row') \in SUBSET Inst /\ \A i \in Supervised(row') : row'[i].st \in ACTIVE
    BY DEF Supervised
  <2> QED
    BY <1>1, <1>3, <2>1 DEF Round, SupType, SupIdle, SupOff
<1>6. Locks'
  BY <1>1 DEF Locks
<1>7. Newborn'
  <2>1. \A i \in Inst : Pristine(i) => Pristine(i)'
    BY <1>1, <1>2 DEF Pristine, Exists
  <2> QED
    BY <1>1, <2>1, NewbornStays
<1>8. Serving'
  <2>1. Sup \in Tasks /\ Others(Sup)
    BY <1>1 DEF Tasks, Others
  <2> SUFFICES ASSUME NEW i \in served'
               PROVE  /\ \A t \in Tasks : req[t].at \in Preparing => req[t].i # i
                      /\ gw[i].st = "running"
                      /\ \A t \in Tasks : req[t].at = "launched" /\ req[t].i = i => gw[i].port = req[t].port
                      /\ \/ \E t \in Tasks : req[t].at = "launched" /\ req[t].i = i
                         \/ row'[i].st \in LIVE /\ row'[i].port = gw[i].port
    BY <1>1 DEF Serving, Returning
  <2>2. i \in served /\ i \in Inst /\ row'[i].st \in LIVE
    BY <1>1
  <2>3. row[i].st \in LIVE => row'[i].port = row[i].port
    BY <1>2, <2>2 DEF Exists, LIVE
  <2> QED
    BY <2>2, <2>3 DEF Serving, Returning
<1>9. Headless'
  BY <1>1 DEF Headless
<1> QED
  BY <1>4, <1>5, <1>6, <1>7, <1>8, <1>9

\* A turn that reads, asks, and awaits.
LEMMA TurnKept ==
  ASSUME LifecycleConstants, LifecycleInv,
         Inspect \/ Inspected \/ Probe \/ IdleStopped \/ \E i \in Inst : Look(i)
  PROVE  LifecycleInv'
<1> USE DEF LifecycleInv
<1>1. faults \in Nat /\ MaxFaults \in Nat
  BY DEF Types, LifecycleConstants
<1>2. ASSUME NEW i \in Inst, UNCHANGED <<row, eng, gw, inv, link, lock, req, late, served, born>>, Round',
             faults' \in {faults, faults + 1}
      PROVE  LifecycleInv'
  <2>1. faults' \in Nat /\ (faults' = 0 => faults = 0)
    BY <1>1, <1>2
  <2> QED
    BY <1>2, <2>1, SupWrites
<1>3. ASSUME NEW i \in Inst, Look(i) PROVE LifecycleInv'
  <2>1. sup.at = "loop" /\ i \in sup.todo /\ UNCHANGED <<eng, gw, inv, link, lock, late, born, faults>>
    BY <1>3 DEF Look, node, budget
  <2>2. CASE link = "down"
    <3>1. sup' = Done(i) /\ UNCHANGED <<row, req, served>>
      BY <1>3, <2>2 DEF Look
    <3> QED
      BY <1>2, <2>1, <3>1, RoundDone
  <2>3. CASE link # "down"
    <3>1. \E v \in Evidence : Act(i, v)
      BY <1>3, <2>3, VerdictIs DEF Look
    <3> QED
      BY <2>1, <3>1, ActKept
  <2> QED
    BY <2>2, <2>3
<1>4. CASE Inspected
  <2>1. sup.at = "inspected" /\ Act(sup.i, sup.ev) /\ UNCHANGED <<eng, gw, inv, link, lock, late, born, faults>>
    BY <1>4 DEF Inspected, node, budget
  <2>2. sup.i \in Inst /\ sup.ev \in Evidence /\ sup.i \in sup.todo
    BY <2>1, SupIs DEF Round
  <2> QED
    BY <2>1, <2>2, ActKept
<1>5. CASE Inspect
  <2>1. /\ sup.at = "inspect"
        /\ UNCHANGED <<row, eng, gw, inv, link, lock, req, late, served, born>>
        /\ faults' \in {faults, faults + 1}
        /\ sup' = Done(sup.i) \/ \E ev \in Evidence : sup' = Await(sup.i, "inspected", ev)
    BY <1>5, VerdictIs DEF Inspect, NoAnswer, node
  <2>2. sup.i \in Inst /\ sup.i \in sup.todo
    BY <2>1, SupIs DEF Round
  <2>3. CASE sup' = Done(sup.i)
    BY <1>2, <2>1, <2>2, <2>3, RoundDone
  <2>4. CASE \E ev \in Evidence : sup' = Await(sup.i, "inspected", ev)
    <3>1. Round'
      BY <2>1, <2>2, <2>4, RoundAwait
    <3> QED
      BY <1>2, <2>1, <2>2, <3>1
  <2> QED
    BY <2>1, <2>3, <2>4
<1>6. CASE Probe
  <2>1. /\ sup.at = "probe"
        /\ UNCHANGED <<row, eng, gw, inv, link, lock, req, late, served, born, faults>>
        /\ sup' = Done(sup.i)
           \/ \E ev \in {"ready", "failed", "loading", sup.snap[sup.i].st} : sup' = Await(sup.i, "write", ev)
    BY <1>6 DEF Probe, node, budget
  <2>2. sup.i \in Inst /\ sup.snap[sup.i].st \in ACTIVE
    BY <2>1, SupIs DEF Round
  <2>3. CASE sup' = Done(sup.i)
    BY <1>2, <2>1, <2>2, <2>3, RoundDone
  <2>4. CASE \E ev \in {"ready", "failed", "loading", sup.snap[sup.i].st} : sup' = Await(sup.i, "write", ev)
    <3>1. PICK ev \in States : sup' = Await(sup.i, "write", ev)
      BY <2>2, <2>4 DEF States, ACTIVE
    <3>2. ev \in Evidence
      BY DEF Evidence
    <3>3. Round'
      BY <2>1, <2>2, <3>1, <3>2, RoundAwait
    <3> QED
      BY <1>2, <2>1, <2>2, <3>3
  <2> QED
    BY <2>1, <2>3, <2>4
<1>7. CASE IdleStopped
  <2>1. /\ sup.at = "idle_stop" /\ sup' = Done(sup.i)
        /\ UNCHANGED <<row, eng, gw, inv, link, lock, req, late, served, born, faults>>
    BY <1>7 DEF IdleStopped, node, budget
  <2>2. sup.i \in Inst
    BY <2>1, SupIs
  <2> QED
    BY <1>2, <2>1, <2>2, RoundDone
<1> QED
  BY <1>3, <1>4, <1>5, <1>6, <1>7

\* A turn that writes the row or stops the gateway.
LEMMA TurnWrites ==
  ASSUME LifecycleConstants, LifecycleInv, Exited \/ StopGateway \/ Write
  PROVE  LifecycleInv'
<1> USE DEF LifecycleInv
<1>1. faults \in Nat /\ MaxFaults \in Nat /\ sup.at \in {"exited", "gateway", "write"}
  BY DEF Types, LifecycleConstants, Exited, StopGateway, Write
<1>2. sup.i \in Inst
  BY <1>1, SupIs
<1>3. CASE Exited
  <2>1. /\ row' = Set(sup.i, "failed") /\ served' = served \ {sup.i}
        /\ sup' = Await(sup.i, "gateway", "exited") /\ "failed" \in States /\ "exited" \in Evidence
        /\ UNCHANGED <<eng, gw, inv, link, lock, req, late, born, faults>>
    BY <1>3 DEF Exited, Touched, node, budget, States, Evidence
  <2>2. Round'
    BY <1>1, <1>2, <2>1, RoundAwait
  <2>3. Types' /\ Locks' /\ Newborn' /\ Serving' /\ Headless'
    BY <1>1, <1>2, <2>1, SupWrites
  <2> QED
    BY <2>2, <2>3
<1>4. CASE Write
  <2>1. /\ row' = Set(sup.i, sup.ev) /\ sup.ev \in States
        /\ served' = served \ {sup.i} \/ (sup.ev \in LIVE /\ served' = served)
        /\ sup' = Done(sup.i)
        /\ UNCHANGED <<eng, gw, inv, link, lock, req, late, born, faults>>
    BY <1>4 DEF Write, Touched, node, budget, Round
  <2>2. Round'
    BY <1>1, <1>2, <2>1, RoundDone
  <2>3. Types' /\ Locks' /\ Newborn' /\ Serving' /\ Headless'
    BY <1>1, <1>2, <2>1, SupWrites
  <2> QED
    BY <2>2, <2>3
<1>5. CASE StopGateway
  <2>1. PICK c \in CmdType : c = Cmd("stopgw", sup.i, NoPort) /\ c.do = "stopgw" /\ c.i = sup.i
    <3>1. Cmd("stopgw", sup.i, NoPort) \in CmdType
      BY <1>2 DEF Cmd, CmdType, Commands
    <3>2. Cmd("stopgw", sup.i, NoPort).do = "stopgw" /\ Cmd("stopgw", sup.i, NoPort).i = sup.i
      BY DEF Cmd
    <3> QED
      BY <3>1, <3>2
  <2>2. /\ sup' = Done(sup.i) /\ UNCHANGED <<row, inv, link, lock, req, late, born>>
        /\ faults' \in {faults, faults + 1}
        /\ (Exec(c) /\ served' = served \ {sup.i}) \/ UNCHANGED <<eng, gw, served>>
    BY <1>5, <2>1 DEF StopGateway, NoAnswer, Touched, node
  <2>3. Round'
    BY <1>1, <1>2, <2>2, RoundDone
  <2>4. faults' \in Nat /\ (faults' = 0 => faults = 0)
    BY <1>1, <2>2
  <2>5. CASE Exec(c) /\ served' = served \ {sup.i}
    <3>1. /\ UNCHANGED eng /\ gw' \in [Inst -> GwBox] /\ \A j \in Inst \ {sup.i} : gw'[j] = gw[j]
          /\ gw'[sup.i].st = "none" => gw[sup.i].st = "none"
      <4>1. Types /\ Exec(c)
        BY <2>5
      <4>2. /\ gw' \in [Inst -> GwBox] /\ \A j \in Inst \ {c.i} : eng'[j] = eng[j] /\ gw'[j] = gw[j]
            /\ UNCHANGED eng /\ (gw'[c.i].st = "none" => gw[c.i].st = "none")
        <5> HIDE DEF LifecycleInv
        <5> QED
          BY <2>1, <4>1, ExecIs
      <4> QED
        BY <2>1, <4>2
    <3>2. Types' /\ Locks' /\ Newborn' /\ Serving' /\ Headless'
      BY <1>2, <2>2, <2>4, <2>5, <3>1, SupWrites
    <3> QED
      BY <2>3, <3>2
  <2>6. CASE UNCHANGED <<eng, gw, served>>
    <3>1. Types' /\ Locks' /\ Newborn' /\ Serving' /\ Headless'
      BY <1>2, <2>2, <2>4, <2>6, SupWrites
    <3> QED
      BY <2>3, <3>1
  <2> QED
    BY <2>2, <2>5, <2>6
<1> QED
  BY <1>3, <1>4, <1>5

LEMMA SuperviseKept ==
  ASSUME LifecycleConstants, LifecycleInv, Supervise PROVE LifecycleInv'
BY TickKept, TurnKept, TurnWrites DEF Supervise

-----------------------------------------------------------------------------
(* The node's side, time and faults.                                       *)

\* What happens below the requests and the supervisor: containers change, and nothing is
\* launched.
LEMMA BelowKept ==
  ASSUME LifecycleConstants, LifecycleInv, UNCHANGED <<row, lock, req, sup, born>>,
         eng' \in [Inst -> EngBox], gw' \in [Inst -> GwBox], inv' \in InvType,
         link' \in {"down", "new", "up"}, late' \subseteq late, served' \subseteq served,
         faults' \in Nat, \A i \in served' : gw'[i] = gw[i],
         \A i \in Inst : Pristine(i) => eng'[i].st = "none" /\ inv'.eng[i].st = "none",
         faults' = 0 => faults = 0 /\ UNCHANGED <<eng, gw>> /\ link' # "down"
  PROVE  LifecycleInv'
<1> USE DEF LifecycleInv
<1>1. Types'
  BY DEF Types
<1>2. Round'
  BY RoundKept
<1>3. Locks'
  BY DEF Locks
<1>4. Newborn'
  <2>1. \A i \in Inst : Pristine(i) => Pristine(i)'
    BY DEF Pristine, Exists
  <2> QED
    BY <2>1, NewbornStays
<1>5. Serving'
  BY DEF Serving, Returning
<1>6. Headless'
  BY DEF Headless
<1> QED
  BY <1>1, <1>2, <1>3, <1>4, <1>5, <1>6

LEMMA LateKept ==
  ASSUME LifecycleConstants, LifecycleInv, LateCommand PROVE LifecycleInv'
<1>1. Types /\ Headless /\ Newborn
  BY DEF LifecycleInv
<1>2. PICK c \in late :
        /\ late' = late \ {c}
        /\ \/ UNCHANGED <<eng, gw, served>>
           \/ Exec(c) /\ served' = served \ {c.i}
        /\ UNCHANGED <<row, inv, link, lock, req, sup, born, faults>>
  BY DEF LateCommand, Touched, node, budget
<1>3. c \in CmdType /\ c.i \in Inst /\ faults' \in Nat /\ faults' # 0
  BY <1>1, <1>2 DEF Types, CmdType, Headless
<1>4. /\ eng' \in [Inst -> EngBox] /\ gw' \in [Inst -> GwBox] /\ served' \subseteq served
      /\ \A i \in served' : gw'[i] = gw[i]
      /\ \A i \in Inst \ {c.i} : eng'[i] = eng[i]
  <2>1. CASE UNCHANGED <<eng, gw, served>>
    BY <1>1, <2>1 DEF Types
  <2>2. CASE Exec(c) /\ served' = served \ {c.i}
    <3>1. /\ eng' \in [Inst -> EngBox] /\ gw' \in [Inst -> GwBox]
          /\ \A j \in Inst \ {c.i} : eng'[j] = eng[j] /\ gw'[j] = gw[j]
      BY <1>1, <1>3, <2>2, ExecIs
    <3> QED
      BY <1>1, <2>2, <3>1 DEF Types
  <2> QED
    BY <1>2, <2>1, <2>2
<1>5. \A i \in Inst : Pristine(i) => eng'[i].st = "none" /\ inv'.eng[i].st = "none"
  BY <1>2, <1>4 DEF Pristine
<1>6. inv' \in InvType /\ link' \in {"down", "new", "up"} /\ late' \subseteq late
  BY <1>1, <1>2 DEF Types
<1> QED
  BY <1>2, <1>3, <1>4, <1>5, <1>6, BelowKept

LEMMA LinkAndNodeKept ==
  ASSUME LifecycleConstants, LifecycleInv,
         Push \/ LinkDown \/ LinkUp \/ (\E i \in Inst : EngineExits(i)) \/ UNCHANGED vars
  PROVE  LifecycleInv'
<1>1. Types /\ Headless /\ Newborn
  BY DEF LifecycleInv
<1>2. faults \in Nat /\ MaxFaults \in Nat
  BY <1>1 DEF Types, LifecycleConstants
<1>3. CASE UNCHANGED vars
  <2>1. UNCHANGED <<row, lock, req, sup, born, eng, gw, inv, link, late, served, faults>>
    BY <1>3 DEF vars
  <2> QED
    BY <1>1, <2>1, BelowKept DEF Types, Pristine, Headless
<1>4. CASE Push
  <2>1. /\ UNCHANGED <<row, lock, req, sup, born, eng, gw, link, late, served, faults>>
        /\ link # "down" /\ inv' = [known |-> "yes", eng |-> eng, gw |-> gw]
    BY <1>4 DEF Push, node, budget
  <2>2. inv' \in InvType /\ inv'.eng = eng
    BY <1>1, <2>1 DEF Types, InvType
  <2> QED
    BY <1>1, <2>1, <2>2, BelowKept DEF Types, Pristine
<1>5. CASE LinkDown
  <2>1. /\ UNCHANGED <<row, lock, req, sup, born, eng, gw, inv, late, served>>
        /\ link' = "down" /\ faults' = faults + 1
    BY <1>5 DEF LinkDown, node
  <2>2. faults' \in Nat /\ faults' # 0
    BY <1>2, <2>1
  <2> QED
    BY <1>1, <2>1, <2>2, BelowKept DEF Types, Pristine
<1>6. CASE LinkUp
  <2>1. /\ UNCHANGED <<row, lock, req, sup, born, eng, gw, inv, late, served, faults>>
        /\ link' = "new"
    BY <1>6 DEF LinkUp, node, budget
  <2> QED
    BY <1>1, <2>1, BelowKept DEF Types, Pristine
<1>7. ASSUME NEW i \in Inst, EngineExits(i) PROVE LifecycleInv'
  <2>1. /\ eng[i].st = "running" /\ faults' = faults + 1 /\ served' = served \ {i}
        /\ UNCHANGED <<row, lock, req, sup, born, gw, inv, link, late>>
    BY <1>7 DEF EngineExits, Touched
  <2>2. PICK code \in {"clean", "crashed"} : eng' = [eng EXCEPT ![i].st = code]
    BY <1>7 DEF EngineExits
  <2> DEFINE b == [eng[i] EXCEPT !.st = code]
  <2>3. b \in EngBox
    BY <1>1 DEF Types, EngBox, Box
  <2>4. eng' = [eng EXCEPT ![i] = b]
    BY <2>2
  <2> HIDE DEF b
  <2>5. eng' \in [Inst -> EngBox] /\ \A j \in Inst \ {i} : eng'[j] = eng[j]
    BY <1>1, <2>3, <2>4 DEF Types
  <2>6. faults' \in Nat /\ faults' # 0
    BY <1>2, <2>1
  <2>7. \A j \in Inst : Pristine(j) => eng'[j].st = "none" /\ inv'.eng[j].st = "none"
    BY <2>1, <2>5 DEF Pristine
  <2>8. gw' \in [Inst -> GwBox] /\ inv' \in InvType /\ link' \in {"down", "new", "up"}
    BY <1>1, <2>1 DEF Types
  <2> QED
    BY <2>1, <2>5, <2>6, <2>7, <2>8, BelowKept
<1> QED
  BY <1>3, <1>4, <1>5, <1>6, <1>7

\* A row, and the supervisor's copy of it, get older.
LEMMA AgeKept ==
  ASSUME LifecycleConstants, LifecycleInv, NEW i \in Inst, Age(i) PROVE LifecycleInv'
<1> USE DEF LifecycleInv
<1>1. ASSUME NEW r \in Row
      PROVE  /\ [r EXCEPT !.started = Older[@]] \in Row
             /\ [r EXCEPT !.started = Older[@]].st = r.st /\ [r EXCEPT !.started = Older[@]].port = r.port
  <2>1. CASE r = NoRow
    <3>1. [r EXCEPT !.started = Older[@]] = NoRow
      BY <2>1 DEF NoRow, Older
    <3> QED
      BY <2>1, <3>1
  <2>2. CASE r \in [st : States, port : Ports, started : Ages]
    <3>1. Older[r.started] \in Ages
      BY <2>2 DEF Older, Ages
    <3> QED
      BY <2>2, <3>1 DEF Row
  <2> QED
    BY <2>1, <2>2 DEF Row
<1>2. /\ row' = [row EXCEPT ![i].started = Older[@]]
      /\ sup' = IF sup.at \in {"idle", "off"} THEN sup ELSE [sup EXCEPT !.snap[i].started = Older[@]]
      /\ UNCHANGED <<eng, gw, inv, link, lock, req, late, served, born, faults>>
  BY DEF Age, node, budget
<1>3. PICK r \in Row : r = [row[i] EXCEPT !.started = Older[@]] /\ r.st = row[i].st /\ r.port = row[i].port
  BY <1>1 DEF Types
<1>4. row' = [row EXCEPT ![i] = r]
  BY <1>2, <1>3
<1>5. row' \in [Inst -> Row] /\ \A j \in Inst : row'[j].st = row[j].st /\ row'[j].port = row[j].port
  BY <1>3, <1>4 DEF Types
<1>6. Types'
  BY <1>2, <1>5 DEF Types
<1>7. Round'
  <2>1. CASE sup.at \in {"idle", "off"}
    BY <1>2, <2>1 DEF Round
  <2>2. CASE sup.at \notin {"idle", "off"}
    <3> DEFINE x == [sup.snap[i] EXCEPT !.started = Older[@]]
               snap == [sup.snap EXCEPT ![i] = x]
    <3>1. sup.snap \in [Inst -> Row] /\ x \in Row /\ x.st = sup.snap[i].st
      BY <1>1, <2>2, SupIs
    <3>2. sup' = [sup EXCEPT !.snap = snap]
      BY <1>2, <2>2
    <3> HIDE DEF x
    <3>3. snap \in [Inst -> Row] /\ \A j \in Inst : snap[j].st = sup.snap[j].st
      BY <3>1
    <3> HIDE DEF snap
    <3>4. sup' \in SupType /\ sup'.at = sup.at /\ sup'.todo = sup.todo /\ sup'.snap = snap
          /\ (sup.at # "loop" => sup'.i = sup.i /\ sup'.ev = sup.ev)
      BY <2>2, <3>2, <3>3 DEF Round, SupType, SupIdle, SupOff
    <3>5. sup.todo \subseteq Inst
      BY <2>2, SupIs
    <3> QED
      BY <2>2, <3>3, <3>4, <3>5 DEF Round
  <2> QED
    BY <2>1, <2>2
<1>8. Locks'
  BY <1>2 DEF Locks
<1>9. Newborn'
  <2>1. \A j \in Inst : Pristine(j) => Pristine(j)'
    BY <1>2, <1>5 DEF Pristine, Exists
  <2> QED
    BY <1>2, <2>1, NewbornStays
<1>10. Serving'
  <2>1. \A j \in served : j \in Inst
    BY DEF Types
  <2> QED
    BY <1>2, <1>5, <2>1 DEF Serving, Returning
<1>11. Headless'
  BY <1>2 DEF Headless
<1> QED
  BY <1>6, <1>7, <1>8, <1>9, <1>10, <1>11

LEMMA CrashKept ==
  ASSUME LifecycleConstants, LifecycleInv, HubCrash PROVE LifecycleInv'
<1> USE DEF LifecycleInv
<1>1. /\ faults' = faults + 1 /\ served' = served \ {req[t].i : t \in {u \in Tasks : req[u] # Idle}}
      /\ req' = [t \in Tasks |-> Idle] /\ sup' \in {SupIdle, SupOff}
      /\ lock' = Free /\ inv' = Unknown /\ link' = "down"
      /\ UNCHANGED <<row, eng, gw, born>>
  BY DEF HubCrash, Asleep, node
<1>2. PICK lost \in SUBSET {CmdOf(t) : t \in {u \in Tasks : req[u].at \in Commands}} :
        late' = late \cup lost
  BY DEF HubCrash
<1>3. ASSUME NEW c \in lost
      PROVE  c \in CmdType /\ \E t \in Tasks : Acting(t, c.i)
  <2>1. PICK t \in Tasks : req[t].at \in Commands /\ c = CmdOf(t)
    BY <1>2
  <2>2. c \in CmdType /\ c.i = req[t].i /\ req[t].at # "idle"
    BY <2>1, CommandOf
  <2> QED
    BY <2>2 DEF Acting, Idle
<1>4. \A t \in Tasks : req'[t] = Idle /\ req'[t].at = "idle"
  BY <1>1 DEF Idle
<1>5. Types'
  <2>1. req' \in [Tasks -> {Idle} \cup TaskType]
    BY <1>1
  <2>2. inv' \in InvType
    BY <1>1 DEF InvType, Unknown, NoBox, EngBox, GwBox, Box
  <2>3. late' \in SUBSET CmdType /\ served' \in SUBSET Inst
    BY <1>1, <1>2, <1>3 DEF Types
  <2>4. faults' \in Nat
    BY <1>1 DEF Types
  <2>5. lock' \in Reqs \cup {Free} /\ link' \in {"down", "new", "up"}
    BY <1>1
  <2>6. "idle" \notin {"preflight"} \cup Launching \cup Stopping
    BY DEF Launching, Stopping
  <2> QED
    BY <1>1, <1>4, <2>1, <2>2, <2>3, <2>4, <2>5, <2>6 DEF Types
<1>6. Round'
  BY <1>1 DEF Round, SupType, SupIdle, SupOff
<1>7. Locks'
  BY <1>4 DEF Locks, Launching, Tasks
<1>8. Newborn'
  <2>1. ASSUME NEW i \in Inst \ born'
        PROVE  Pristine(i)' /\ \A t \in Tasks : ~Acting(t, i)'
    <3>1. Pristine(i) /\ \A t \in Tasks : ~Acting(t, i)
      BY <1>1, <2>1 DEF Newborn
    <3>2. \A c \in late' : c.i # i
      BY <1>2, <1>3, <3>1 DEF Pristine
    <3>3. inv'.eng[i].st = "none"
      BY <1>1 DEF Unknown, NoBox
    <3>4. Pristine(i)'
      BY <1>1, <3>1, <3>2, <3>3 DEF Pristine, Exists
    <3> QED
      BY <1>4, <3>4 DEF Acting
  <2>2. \A t \in Tasks : ~Awaiting(t)'
    BY <1>4 DEF Awaiting
  <2> QED
    BY <2>1, <2>2 DEF Newborn
<1>9. Serving'
  <2>1. ASSUME NEW i \in served'
        PROVE  gw'[i].st = "running" /\ row'[i].st \in LIVE /\ row'[i].port = gw'[i].port
    <3>1. i \in served /\ ~Returning(i)
      BY <1>1, <2>1 DEF Returning, Idle
    <3> QED
      BY <1>1, <3>1 DEF Serving
  <2>2. "idle" \notin Preparing
    BY DEF Preparing
  <2> QED
    BY <1>4, <2>1, <2>2 DEF Serving
<1>10. Headless'
  <2>1. faults' # 0
    BY <1>1 DEF Types
  <2> QED
    BY <2>1 DEF Headless
<1> QED
  BY <1>5, <1>6, <1>7, <1>8, <1>9, <1>10

-----------------------------------------------------------------------------
LEMMA LifecycleStep ==
  ASSUME LifecycleConstants, LifecycleInv, [Next]_vars PROVE LifecycleInv'
<1>1. CASE \E r \in Reqs : Call(r) \/ Locked(r) \/ Drop(r)
  BY <1>1, CallsKept, PreparingKept, DropKept
<1>2. CASE \E t \in Tasks : Progress(t)
  BY <1>2, ProgressKept
<1>3. CASE Supervise
  BY <1>3, SuperviseKept
<1>4. CASE LateCommand
  BY <1>4, LateKept
<1>5. CASE Push \/ LinkDown \/ LinkUp \/ (\E i \in Inst : EngineExits(i)) \/ UNCHANGED vars
  BY <1>5, LinkAndNodeKept
<1>6. CASE HubCrash
  BY <1>6, CrashKept
<1>7. CASE \E i \in Inst : Age(i)
  BY <1>7, AgeKept
<1> QED
  BY <1>1, <1>2, <1>3, <1>4, <1>5, <1>6, <1>7 DEF Next

(* What the requests, the supervisor and the node keep true between them:  *)
(* the inductive invariant of the lifecycle service, at any await.         *)
THEOREM LifecycleInvariant == Spec => []LifecycleInv
<1>1. Init => LifecycleInv
  BY LifecycleInit, LifecycleConstants
<1>2. LifecycleInv /\ [Next]_vars => LifecycleInv'
  BY LifecycleStep, LifecycleConstants
<1> QED
  BY <1>1, <1>2, PTL DEF Spec

(* Of any number of requests, restarts, supervisor rounds and faults none  *)
(* launches an instance that a launch left serving, and without a fault no *)
(* engine is left running without its gateway (create, start, launch).     *)
THEOREM LaunchesAreAttended == Spec => []EnginesAreAttended
<1>1. LifecycleInv => EnginesAreAttended
  <2> SUFFICES ASSUME LifecycleInv PROVE EnginesAreAttended
    OBVIOUS
  <2> USE DEF LifecycleInv
  <2>1. TypeOK
    <3>1. \A i \in Inst : row[i] = NoRow \/ row[i] \in [st : States, port : Ports, started : Ages]
      BY DEF Types, Row
    <3>2. \A t \in Tasks : req[t] # Idle => req[t].i \in Inst /\ req[t].port \in Ports \cup {NoPort}
      BY DEF Types, TaskType
    <3> QED
      BY <3>1, <3>2 DEF TypeOK, Types, InvType, Ages
  <2>2. LaunchedOnce
    BY DEF LaunchedOnce, Serving, Preparing
  <2>3. HeadlessIsBrief
    <3>1. ASSUME NEW i \in Inst, faults = 0, eng[i].st = "running" /\ gw[i].st = "none"
          PROVE  \E t \in Tasks : Acting(t, i) /\ req[t].at \in Launching \cup Removing
      <4>1. PICK t \in Tasks : req[t].at \in {"rmeng", "gateway", "rmback", "deleng"} /\ req[t].i = i
        BY <3>1 DEF Headless
      <4> QED
        BY <4>1 DEF Acting, Idle, Launching, Removing
    <3> QED
      BY <3>1 DEF HeadlessIsBrief
  <2> QED
    BY <2>1, <2>2, <2>3 DEF EnginesAreAttended
<1> QED
  BY <1>1, LifecycleInvariant, PTL

(* The port in the row of an instance that serves is the port its gateway  *)
(* has, whichever port of the order launch had to take (gateway, launch).  *)
THEOREM ServingIsReachable == Spec => []FrontDoorKnown
<1>1. LifecycleInv => FrontDoorKnown
  <2> SUFFICES ASSUME LifecycleInv, NEW i \in served,
                      \A t \in Tasks : Acting(t, i) => req[t].at # "launched"
               PROVE  row[i].st \in LIVE /\ gw[i] = [st |-> "running", port |-> row[i].port]
    BY DEF FrontDoorKnown
  <2>1. gw[i] \in GwBox /\ i \in Inst
    BY DEF LifecycleInv, Types
  <2>2. ~Returning(i)
    BY DEF Returning, Acting, Idle
  <2>3. row[i].st \in LIVE /\ row[i].port = gw[i].port /\ gw[i].st = "running"
    BY <2>2 DEF LifecycleInv, Serving
  <2> QED
    BY <2>1, <2>3 DEF GwBox, Box
<1> QED
  BY <1>1, LifecycleInvariant, PTL
=============================================================================
