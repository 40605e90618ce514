------------------------------ MODULE Externals ------------------------------
(***************************************************************************)
(* Engines the console did not create (services/externals.rs and the       *)
(* derived instances of services/lifecycle.rs): nothing is stored, each    *)
(* listing is derived from what the node pushed last, and what vanished or *)
(* was stopped from here is remembered beside it.  One machine; several    *)
(* requests list, stop and start at once.                                  *)
(***************************************************************************)
EXTENDS Naturals, Sequences, FiniteSets

CONSTANTS
    Name, Order,     \* container names, and their alphabetical order
    About,           \* name -> [slug, ports, engine, managed, script]: a container
                     \* is of the one script whose patterns match it, or of none
    Script,          \* the scripts of the node's policy
    BarePort,        \* ports an engine outside docker may listen on
    Flaky,           \* bound: the ports whose answers change
    Op,              \* requests to stop or start an external engine
    Changes          \* bound: how often the machine changes by itself

None == "none"

\* A port is named by the slug of its address; a slug with a mark stands for
\* the slug with six digits of a hash of the name behind it.
ExternalsConstants ==
    /\ About \in [Name -> [slug : STRING, ports : SUBSET STRING, engine : BOOLEAN, managed : BOOLEAN,
                           script : Script \cup {None}]]
    /\ Name \subseteq STRING /\ {"", "bare"} \cap Name = {}
    /\ Script \subseteq STRING /\ None \notin Script /\ BarePort \subseteq STRING /\ Flaky \subseteq STRING
    /\ \A n, m \in Name : n # m => \E i, j \in DOMAIN Order : i < j /\ {Order[i], Order[j]} = {n, m}
    /\ Changes \in Nat

VARIABLES
    run,        \* docker: the containers that run
    answers,    \* port -> how it answers a probe: ok, auth, busy (503), dead, none
    changes,
    inv,        \* the hub's latest inventory: [run, answers]
    up,         \* the link
    busy,       \* script -> the step it runs, or none
    derived,    \* [first, prev, gone, stopped, by] (lifecycle.rs Derived)
    shown,      \* the instances the last listing returned
    shownAt,    \* the inventory it was derived from
    op,         \* op -> [pc, action, inst]: one external_action
    owed        \* ids stopped from here whose container has not run since

machine == <<run, answers, changes>>
vars == <<machine, inv, up, busy, derived, shown, shownAt, op, owed>>

Port == UNION {About[n].ports : n \in Name} \cup BarePort
Before(a, b) == \E i, j \in DOMAIN Order : i < j /\ Order[i] = a /\ Order[j] = b

------------------------------------------------------------------------------
\* The endpoint of a container: of its ports the one that answers best.
Rank(a) == CASE a = "ok" -> 0 [] a = "auth" -> 1 [] OTHER -> 2
EndpointOf(v, ports) ==
    LET probed == {p \in ports : v.answers[p] # None}
    IN  IF probed = {} THEN None
        ELSE v.answers[CHOOSE p \in probed : \A q \in probed : Rank(v.answers[p]) <= Rank(v.answers[q])]
EndpointState(a) ==
    CASE a = "ok" -> "ready" [] a = "auth" -> "auth_required" [] a = "busy" -> "loading" [] OTHER -> "unreachable"

Instance(id, kind, names, state) == [id |-> id, kind |-> kind, names |-> names, state |-> state]
ScriptId(s) == <<"scr", s, "">>
Matched(v, s) == {n \in v.run : ~About[n].managed /\ About[n].script = s}
ScriptState(v, s) ==
    LET m == Matched(v, s)
        main == IF \E n \in m : About[n].engine THEN CHOOSE n \in m : About[n].engine ELSE CHOOSE n \in m : TRUE
        probed == EndpointState(EndpointOf(v, About[main].ports))
    IN  CASE m = {}  -> IF busy[s] = "up" THEN "starting" ELSE "stopped"
          [] m # {}  -> IF busy[s] = "down" THEN "stopping"
                        ELSE IF probed = "unreachable" THEN "loading" ELSE probed
ScriptInstances(v) == {Instance(ScriptId(s), "script", Matched(v, s), ScriptState(v, s)) : s \in Script}

\* Any other engine; two names of one slug get different ids, the first the plain one.
EngineContainers(v) == {n \in v.run : About[n].engine /\ ~About[n].managed /\ About[n].script = None}
PlainIds(v, n) == <<"ext", About[n].slug, "">>    \* mutant: names of one slug share an id
ExternalId(v, n) ==
    IF \E m \in EngineContainers(v) : Before(m, n) /\ About[m].slug = About[n].slug
    THEN <<"ext", About[n].slug, n>> ELSE <<"ext", About[n].slug, "">>
ExtInstances(v) ==
    {Instance(ExternalId(v, n), "external", {n}, EndpointState(EndpointOf(v, About[n].ports))) : n \in EngineContainers(v)}

\* An endpoint of no container, on a port no container publishes: it lists its
\* models and is well, or asks for a key and its metrics name the engine.
Recognised == {"ok", "auth"}
CoveredPorts(v) == UNION {About[n].ports : n \in {m \in Name : m \in v.run \/ About[m].managed}}
Bare(v) == {p \in Port \ CoveredPorts(v) : v.answers[p] \in Recognised}
BareId(v, p) ==    \* a container may be named like the address
    IF \E n \in EngineContainers(v) : About[n].slug = p THEN <<"ext", p, "bare">> ELSE <<"ext", p, "">>
BareInstances(v) == {Instance(BareId(v, p), "external", {}, EndpointState(v.answers[p])) : p \in Bare(v)}

BuildHostInstances(v) == ScriptInstances(v) \cup ExtInstances(v) \cup BareInstances(v)

------------------------------------------------------------------------------
\* externals_of: one listing, under the lock of the derived state.
OverlayLink(i) == IF up \/ i.state = "stopped" THEN i ELSE [i EXCEPT !.state = "unreachable"]
AsStopped(i) == [i EXCEPT !.state = "stopped"]
Ids(s) == {i.id : i \in s}
Without(s, ids) == {i \in s : i.id \notin ids}

NoId == <<"none", "", "">>
ByContainer(current) ==
    [n \in Name |-> IF n \in inv.run /\ About[n].script \in Script THEN ScriptId(About[n].script)
                   ELSE IF \E i \in current : i.kind = "external" /\ n \in i.names
                   THEN (CHOOSE i \in current : i.kind = "external" /\ n \in i.names).id ELSE NoId]
Vanished(current) ==
    IF up THEN {AsStopped(i) : i \in {j \in derived.prev : j.id \notin Ids(current) /\ j.state # "stopped"}} ELSE {}
\* What vanished while the link is up is shown as stopped for a while.
Remembered(current) == Without(derived.gone, Ids(Vanished(current))) \cup Vanished(current)

\* `get`, the instance list, the counts of each fleet poll.
List ==
    /\ \E current \in {{OverlayLink(i) : i \in BuildHostInstances(inv)}} :
       \E gone \in {Without(Remembered(current), Ids(current))} :
       \E stopped \in {Without(derived.stopped, Ids(current))} :
          /\ shown' = current \cup gone \cup Without(stopped, Ids(gone))
          /\ derived' = [prev |-> {i \in current : i.kind = "external"}, gone |-> gone, stopped |-> stopped,
                         by |-> ByContainer(current),
                         first |-> (derived.first \cup Ids(current))
                                       \cap (Ids(current) \cup Ids(gone) \cup Ids(stopped))]
    /\ shownAt' = inv
Lists == List /\ UNCHANGED <<machine, inv, up, busy, op, owed>>

------------------------------------------------------------------------------
\* external_controls: what a request may do with an instance.
Allowed(i, action) ==
    up /\ i.kind = "external" /\ i.names # {} /\ (IF action = "start" THEN i.state = "stopped" ELSE i.state # "stopped")

\* external_action: `get` the instance, then docker.external on its container.
Ask(o, action) ==
    /\ op[o].pc = "idle" /\ List
    /\ \E i \in shown' : Allowed(i, action) /\ op' = [op EXCEPT ![o] = [pc |-> "sent", action |-> action, inst |-> i]]
    /\ UNCHANGED <<machine, inv, up, busy, owed>>
Target(o) == CHOOSE n \in op[o].inst.names : TRUE
\* The node: not one of the console's own, an engine, and no script's.
NodeAllows(n) == About[n].engine /\ ~About[n].managed /\ About[n].script = None
NodeDoes(o) ==
    /\ op[o].pc = "sent" /\ NodeAllows(Target(o))
    /\ run' = IF op[o].action = "stop" THEN run \ {Target(o)} ELSE run \cup {Target(o)}
    /\ op' = [op EXCEPT ![o].pc = "done"]
    /\ owed' = {i \in owed : i[3] # Target(o) /\ i # <<"ext", About[Target(o)].slug, "">>}
    /\ UNCHANGED <<answers, changes, inv, up, busy, derived, shown, shownAt>>
NoInst == Instance(NoId, None, {}, None)
Rest(o) == op' = [op EXCEPT ![o] = [pc |-> "idle", action |-> None, inst |-> NoInst]]
Stopped(o) ==
    /\ op[o].pc = "done" /\ op[o].action = "stop" /\ Rest(o)
    /\ derived' = [derived EXCEPT !.stopped = Without(@, {op[o].inst.id}) \cup {AsStopped(op[o].inst)},
                                  !.prev = Without(@, {op[o].inst.id})]
    /\ owed' = IF Target(o) \in run THEN owed ELSE owed \cup {op[o].inst.id}
    /\ UNCHANGED <<machine, inv, up, busy, shown, shownAt>>
Started(o) ==
    /\ op[o].pc = "done" /\ op[o].action = "start" /\ Rest(o)
    /\ derived' = [derived EXCEPT !.stopped = Without(@, {op[o].inst.id}), !.gone = Without(@, {op[o].inst.id})]
    /\ UNCHANGED <<machine, inv, up, busy, shown, shownAt, owed>>
CallFails(o) ==    \* the link dropped, the node refused, or 90 s passed
    /\ op[o].pc \in {"sent", "done"} /\ Rest(o)
    /\ UNCHANGED <<machine, inv, up, busy, derived, shown, shownAt, owed>>

------------------------------------------------------------------------------
\* The scripts of the policy: their jobs, seen through `busy`.
ScriptRuns(s, step) ==
    /\ up /\ busy[s] = None /\ changes > 0 /\ changes' = changes - 1 /\ busy' = [busy EXCEPT ![s] = step]
    /\ UNCHANGED <<run, answers, inv, up, derived, shown, shownAt, op, owed>>
ScriptEnds(s) ==
    /\ busy[s] # None /\ busy' = [busy EXCEPT ![s] = None]
    /\ LET of == {n \in Name : About[n].script = s}
       IN  run' \in {run, IF busy[s] = "up" THEN run \cup of ELSE run \ of}
    /\ UNCHANGED <<answers, changes, inv, up, derived, shown, shownAt, op, owed>>

\* The machine and the link.
MachineChanges ==
    /\ changes > 0 /\ changes' = changes - 1
    /\ \/ \E n \in Name : /\ run' = IF n \in run THEN run \ {n} ELSE run \cup {n}
                          /\ owed' = {i \in owed : i[3] # n /\ i # <<"ext", About[n].slug, "">>}
                          /\ UNCHANGED answers
       \/ \E p \in Flaky, a \in {"ok", "auth", "dead"} :
              answers' = [answers EXCEPT ![p] = a] /\ UNCHANGED <<run, owed>>
    /\ UNCHANGED <<inv, up, busy, derived, shown, shownAt, op>>
\* (the node publishes a port of its own list only when an engine answers there)
Push ==
    /\ up /\ inv' = [run |-> run, answers |-> [p \in Port |->
                       IF \/ \E n \in run : p \in About[n].ports
                          \/ p \in BarePort /\ answers[p] \in Recognised
                       THEN answers[p] ELSE None]]
    /\ inv' # inv /\ UNCHANGED <<machine, up, busy, derived, shown, shownAt, op, owed>>
LinkChanges ==
    /\ changes > 0 /\ changes' = changes - 1 /\ up' = ~up
    /\ UNCHANGED <<run, answers, inv, busy, derived, shown, shownAt, op, owed>>
GoneExpires ==    \* GONE_TTL_S
    /\ \E i \in derived.gone : derived' = [derived EXCEPT !.gone = @ \ {i}]
    /\ UNCHANGED <<machine, inv, up, busy, shown, shownAt, op, owed>>

Init ==
    /\ run = Name /\ answers = [p \in Port |-> "ok"] /\ changes = Changes
    /\ inv = [run |-> {}, answers |-> [p \in Port |-> None]] /\ up = TRUE
    /\ busy = [s \in Script |-> None]
    /\ derived = [first |-> {}, prev |-> {}, gone |-> {}, stopped |-> {}, by |-> [n \in Name |-> NoId]]
    /\ shown = {} /\ shownAt = inv /\ owed = {}
    /\ op = [o \in Op |-> [pc |-> "idle", action |-> None, inst |-> NoInst]]
Next ==
    \/ Lists \/ MachineChanges \/ Push \/ LinkChanges \/ GoneExpires
    \/ \E o \in Op : \/ Ask(o, "stop") \/ Ask(o, "start") \/ NodeDoes(o) \/ Stopped(o) \/ Started(o) \/ CallFails(o)
    \/ \E s \in Script : ScriptRuns(s, "up") \/ ScriptRuns(s, "down") \/ ScriptEnds(s)
Spec == Init /\ [][Next]_vars

------------------------------------------------------------------------------
\* instance_for_container, for a container that is no instance of the console.
InstanceForContainer(n) ==
    IF derived.by[n] # NoId THEN derived.by[n]
    ELSE IF About[n].script \in Script THEN ScriptId(About[n].script) ELSE PlainIds(inv, n)

\* Whatever ran, vanished, was stopped or shares a slug: a listing names each
\* instance once, every running engine of the inventory is in exactly one of
\* them, none on a port of a container stands for itself, and what labels a GPU
\* process names the same instance.
EnginesAreListedOnce ==
    shown # {} =>
        /\ \A i, j \in shown : i.id = j.id => i = j
        /\ \A n \in shownAt.run : About[n].engine /\ ~About[n].managed =>
              \E i \in shown : /\ n \in i.names
                               /\ \A j \in shown \ {i} : n \in j.names => j.state = "stopped"
                               /\ inv = shownAt => InstanceForContainer(n) = i.id
        /\ \A i \in shown : i.kind = "external" /\ i.names = {} =>
              \/ i.state = "stopped" \/ \A n \in shownAt.run : i.id[2] \notin About[n].ports

\* An engine that was stopped from here stays listed so that it can be started.
StoppedStaysListed == [][Lists => owed \subseteq Ids(shown')]_vars
==============================================================================
