------------------------------ MODULE Inventory ------------------------------
(***************************************************************************)
(* What a node sees of its machine and what the hub makes of it: docker    *)
(* and the loopback ports (the machine), Agent::refresh and the inventory  *)
(* loop of the node (agent.rs, discovery.rs, server.rs), the ports that    *)
(* http.request may reach, and the supervisor of the hub (lifecycle.rs)    *)
(* that judges its instances by the inventory it was pushed.               *)
(*                                                                         *)
(* refresh runs in the inventory loop and in every http.request whose port *)
(* is not known yet; the two share the stored inventory and nothing orders *)
(* them.  It reads docker, then probes, then stores.                       *)
(***************************************************************************)
EXTENDS Naturals, Sequences, FiniteSets

CONSTANTS
    Containers,     \* names
    About,         \* name -> [role, instance, engine, published, hostnet, wanted]: what inspect tells;
                   \* published, wanted: the loopback ports it has or (host network) would have
    Port, DiscoveryPorts,
    Instance,      \* the hub's instances; each has an engine and a gateway container
    Answers,       \* what may answer on a port: [models, health, hint]
    Changes        \* bound: how often the machine, docker or the policy changes

None == "none"

\* No container is called "none", 0 is no port, and every port a container names is one.
InventoryConstants ==
    /\ None \notin Containers /\ Port \subseteq Nat \ {0} /\ DiscoveryPorts \subseteq Port
    /\ \A c \in Containers : About[c].published \subseteq Port /\ About[c].wanted \subseteq Port

Silent == [models |-> "none", health |-> FALSE, hint |-> None]

VARIABLES
    docker,        \* does the docker CLI answer
    state,         \* docker's state of each container
    answer,        \* what answers on each port
    policy,        \* the node's policy: ok, refused
    changes,
    inventory,     \* Agent.inventory
    thread,        \* the two callers of refresh
    sent,          \* the inventory pushed last (its key); <<>>: none on this connection
    request,       \* http.request in hand: its port and what opened it
    latest,        \* the hub's copy
    row,           \* state of each instance in the hub's database
    died           \* instances whose engine or gateway stopped since they became ready (for the properties)

node == <<inventory, thread, sent, request>>
hub == <<latest, row>>
machine == <<docker, state, answer, policy, changes, died>>
vars == <<machine, node, hub>>

Workers == {"loop", "http"}
\* error: what docker answered, "never" before the first refresh (Inventory::empty).
\* witness (for the properties): what the machine was when docker and the ports were asked.
Nothing == [running |-> {}, listing |-> {}]
EmptyInv == [views |-> [c \in {} |-> None], endpoints |-> {}, published |-> {}, gateways |-> {}, error |-> "never",
             witness |-> Nothing]
\* policy: the one refresh read at its start.
Fresh == [pc |-> "idle", inv |-> EmptyInv, policy |-> "ok"]

------------------------------------------------------------------------------
\* discovery.rs: endpoints of running engines, of console gateways and of bare ports.
Running(views) == {c \in DOMAIN views : views[c] = "running"}
Published(views) == UNION {About[c].published : c \in Running(views)}
EngineOf(views, i) ==
    {e \in Running(views) : About[e].role = "engine" /\ About[e].instance = i}

\* The ports of a container's plan; a host-network engine's are guessed, with a usable policy only.
PlanPorts(c, pol) ==
    IF About[c].published # {} THEN About[c].published
    ELSE IF About[c].hostnet /\ pol = "ok" THEN About[c].wanted ELSE {}
Planned(views) ==
    {c \in Running(views) : About[c].role = "gateway" \/ About[c].engine # None}

AnyAnswer(a) == a.models # "none" \/ a.health \/ a.hint # None
Listing(a) == a.models = "listing" \/ (a.models = "auth" /\ a.hint # None)
BareEngineHinted(a) == Listing(a) \/ a.hint # None    \* mutant: a hint is enough
BareEngine(a) == Listing(a) /\ (a.health \/ a.hint # None)

\* The first of the plan's ports that reports healthy, else one that answers, else any.
Best(ps) ==
    LET healthy == {p \in ps : answer[p].models = "listing" \/ answer[p].health}
        alive == {p \in ps : AnyAnswer(answer[p])}
        of == IF healthy # {} THEN healthy ELSE IF alive # {} THEN alive ELSE ps
    IN  CHOOSE p \in of : \A q \in of : p <= q

OfContainer(views, c, pol) ==
    LET eng == EngineOf(views, About[c].instance) IN
    IF About[c].role = "gateway" /\ eng # {}
    THEN [port |-> Best(PlanPorts(c, pol)), container |-> CHOOSE e \in eng : TRUE]
    ELSE [port |-> Best(PlanPorts(c, pol)), container |-> c]
Bare(views, pol) ==
    {p \in IF pol = "ok" THEN DiscoveryPorts ELSE {} :
        /\ p \notin Published(views) /\ \A c \in Planned(views) : p \notin PlanPorts(c, pol)
        /\ AnyAnswer(answer[p]) /\ BareEngine(answer[p])}
BuildEndpoints(views, pol) ==
    {OfContainer(views, c, pol) : c \in {x \in Planned(views) : PlanPorts(x, pol) # {}}}
    \cup {[port |-> p, container |-> None] : p \in Bare(views, pol)}

\* docker ps: the running ones, and the console's own stopped ones.
Listed == {c \in Containers : state[c] = "running" \/ (state[c] = "exited" /\ About[c].role # None)}
\* inspect: About, and the state of the container.
ContainerView(c) == state[c]
\* No views when either fails.
Views == IF docker = "down" THEN [c \in {} |-> None] ELSE [c \in Listed |-> ContainerView(c)]

------------------------------------------------------------------------------
\* Agent::refresh in thread t: the policy, docker; then the ports; then the store.
Up == {c \in Containers : docker # "down" /\ state[c] = "running"}
Lists(p) == answer[p].models = "listing" \/ (answer[p].models = "auth" /\ answer[p].hint # None)
Collected == [EmptyInv EXCEPT !.views = Views, !.error = docker, !.witness = [running |-> Up, listing |-> {}]]
Collect(t) == thread' = [thread EXCEPT ![t] = [pc |-> "probe", inv |-> Collected, policy |-> policy]]
Probe(t) ==
    /\ thread[t].pc = "probe"
    /\ LET v == thread[t].inv.views IN
       thread' = [thread EXCEPT ![t] = [pc |-> "store", policy |-> thread[t].policy, inv |-> [thread[t].inv EXCEPT
            !.endpoints = BuildEndpoints(v, thread[t].policy),
            !.published = Published(v),
            !.gateways = UNION {About[c].published : c \in {x \in Running(v) : About[x].role = "gateway"}},
            !.witness = [running |-> @.running, listing |-> {p \in Port : Lists(p)}]]]]
    /\ UNCHANGED <<machine, hub, inventory, sent, request>>
Store(t, pc) ==
    /\ thread[t].pc = "store" /\ inventory' = thread[t].inv
    /\ thread' = [thread EXCEPT ![t].pc = pc]

\* The inventory loop: a push when the key differs, and every inventory_s anyway.
LoopStarts ==
    /\ thread["loop"].pc = "idle" /\ Collect("loop")
    /\ UNCHANGED <<machine, hub, inventory, sent, request>>
LoopStores == Store("loop", "push") /\ UNCHANGED <<machine, hub, sent, request>>
InventoryKeyNames(inv) == [views |-> DOMAIN inv.views, endpoints |-> inv.endpoints]    \* mutant: names, not states
InventoryKey(inv) == [views |-> inv.views, endpoints |-> inv.endpoints]
Message(inv) == [inv EXCEPT !.witness = Nothing]
Push ==
    /\ latest' = Message(thread["loop"].inv) /\ sent' = <<InventoryKey(thread["loop"].inv)>>
Changed == sent # <<InventoryKey(thread["loop"].inv)>>
LoopPushes ==
    /\ thread["loop"].pc = "push"
    /\ IF Changed THEN Push ELSE UNCHANGED <<latest, sent>>
    /\ thread' = [thread EXCEPT !["loop"] = Fresh]
    /\ UNCHANGED <<machine, inventory, request, row>>
LoopRepeats ==
    /\ thread["loop"].pc = "push" /\ ~Changed /\ Push
    /\ thread' = [thread EXCEPT !["loop"] = Fresh]
    /\ UNCHANGED <<machine, inventory, request, row>>

\* allowed_ports: of the inventory at hand, then of a fresh one.
AllowedPorts(inv) ==
    {p \in {e.port : e \in inv.endpoints} \cup inv.gateways : policy = "ok" \/ p \in inv.published}

HttpRequest(p) ==
    /\ thread["http"].pc = "idle" /\ request.port = 0
    /\ IF p \in AllowedPorts(inventory)
       THEN /\ request' = [port |-> p, policy |-> policy, inv |-> inventory] /\ UNCHANGED <<inventory, thread, sent>>
       ELSE Collect("http") /\ request' = [request EXCEPT !.port = p] /\ UNCHANGED <<inventory, sent>>
    /\ UNCHANGED <<machine, hub>>
HttpStores == Store("http", "check") /\ UNCHANGED <<machine, hub, sent, request>>
NoRequest == [port |-> 0, policy |-> "ok", inv |-> EmptyInv]
HttpChecks ==
    /\ thread["http"].pc = "check" /\ thread' = [thread EXCEPT !["http"] = Fresh]
    /\ request' = IF request.port \in AllowedPorts(thread["http"].inv)
                  THEN [request EXCEPT !.policy = policy, !.inv = thread["http"].inv] ELSE NoRequest
    /\ UNCHANGED <<machine, hub, inventory, sent>>
Opened == request.port # 0 /\ thread["http"].pc = "idle"
HttpEnds == Opened /\ request' = NoRequest /\ UNCHANGED <<machine, hub, inventory, thread, sent>>

\* The connection is lost and made again: a new node process; the hub keeps its copy.
NodeRestarts ==
    /\ changes > 0 /\ changes' = changes - 1
    /\ inventory' = EmptyInv /\ thread' = [t \in Workers |-> Fresh] /\ sent' = <<>> /\ request' = NoRequest
    /\ UNCHANGED <<docker, state, answer, policy, died, hub>>

------------------------------------------------------------------------------
\* The supervisor: an instance whose container is not running in the inventory has failed.
Cn(i) == CHOOSE c \in Containers : About[c].instance = i /\ About[c].role = "engine"
Gateway(i) == CHOOSE c \in Containers : About[c].instance = i /\ About[c].role = "gateway"
HubSees(c) == c \in DOMAIN latest.views /\ latest.views[c] = "running"
Supervise(i) ==
    /\ row[i] = "ready" /\ latest.error # "never" /\ ~(HubSees(Cn(i)) /\ HubSees(Gateway(i)))
    /\ row' = [row EXCEPT ![i] = "failed"]
    /\ state' = IF docker = "up" /\ ~HubSees(Cn(i)) THEN [state EXCEPT ![Gateway(i)] = "exited"] ELSE state
    /\ UNCHANGED <<docker, answer, policy, changes, died, node, latest>>

\* The machine.
Spend == changes > 0 /\ changes' = changes - 1
DockerChanges ==
    /\ Spend /\ docker' = IF docker = "up" THEN "down" ELSE "up"
    /\ UNCHANGED <<state, answer, policy, died, node, hub>>
ContainerChanges(c) ==
    /\ Spend /\ state' = [state EXCEPT ![c] = IF @ = "running" THEN "exited" ELSE "running"]
    /\ died' = IF state[c] = "running" THEN died \cup {i \in Instance : c \in {Cn(i), Gateway(i)}} ELSE died
    /\ UNCHANGED <<docker, answer, policy, node, hub>>
PortChanges(p) ==
    /\ Spend /\ \E a \in Answers \ {answer[p]} : answer' = [answer EXCEPT ![p] = a]
    /\ UNCHANGED <<docker, state, policy, died, node, hub>>
PolicyChanges ==    \* node.info reloads the file
    /\ Spend /\ policy' = IF policy = "ok" THEN "refused" ELSE "ok"
    /\ UNCHANGED <<docker, state, answer, died, node, hub>>

Init ==
    /\ docker = "up" /\ policy = "ok" /\ changes = Changes /\ died = {}
    /\ state = [c \in Containers |-> "running"] /\ answer \in [Port -> Answers]
    /\ inventory = EmptyInv /\ thread = [t \in Workers |-> Fresh] /\ sent = <<>> /\ request = NoRequest
    /\ latest = EmptyInv /\ row = [i \in Instance |-> "ready"]

Loop == LoopStarts \/ Probe("loop") \/ LoopStores \/ LoopPushes
Http == Probe("http") \/ HttpStores \/ HttpChecks \/ HttpEnds
Next ==
    \/ Loop \/ LoopRepeats \/ Http \/ NodeRestarts
    \/ \E p \in Port : HttpRequest(p) \/ PortChanges(p)
    \/ DockerChanges \/ PolicyChanges
    \/ \E c \in Containers : ContainerChanges(c)
    \/ \E i \in Instance : Supervise(i)

\* The loop runs for as long as the node does.
Fairness == WF_vars(Loop)
Spec == Init /\ [][Next]_vars /\ Fairness

------------------------------------------------------------------------------
\* A request is let through only to a port that was an engine's or a console
\* gateway's when the machine was last looked at: a running container of one of
\* these has it, or it showed a model listing ("the hint now only names the
\* engine", audit F3).  Without a usable policy at the moment it is let through
\* it is a port a running container published, although the inventory was
\* built, by whichever thread, while the policy was another (audit F1).
HasPort(c, p) == p \in About[c].published \/ (About[c].hostnet /\ p \in About[c].wanted)
OnlyEnginesAreReached ==
    Opened =>
        LET saw == request.inv.witness IN
        /\ \/ request.port \in saw.listing
           \/ \E c \in saw.running :
                 HasPort(c, request.port) /\ (About[c].role = "gateway" \/ About[c].engine # None)
        /\ request.policy = "refused" => \E c \in saw.running : request.port \in About[c].published

\* Once the machine no longer changes the hub knows it, by change alone.
Told == latest.views = Views /\ latest.endpoints = BuildEndpoints(Views, policy)
HubCatchesUp == <>[]Told

\* "cannot see that machine: keep the last known state, do not invent a failure"
NoInventedFailure == \A i \in Instance : row[i] = "failed" => i \in died
==============================================================================
