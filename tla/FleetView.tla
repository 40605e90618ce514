------------------------------ MODULE FleetView ------------------------------
(***************************************************************************)
(* The hub's one picture of the fleet (services/fleet.rs, fleet_status.rs, *)
(* api/routes/hosts.rs): what each link heard last, the summaries that are *)
(* published and streamed, and which model roots of two hosts are the same *)
(* storage.                                                                *)
(*                                                                         *)
(* A link announces its changes; a watcher looks for those nobody          *)
(* announced (an "up" link turns "stale" by the clock alone).  Both run    *)
(* `publish`, which reads, notes and sends in three steps.                 *)
(***************************************************************************)
EXTENDS Naturals, Sequences, SequencesExt, FiniteSets

CONSTANTS
    Host, Order,     \* the configured hosts, and their order
    Address,         \* host -> the addresses and names it reports (loopback left out)
    Mounts,          \* host -> the tables of mounts it may have: {[at, fs, server, export]}
    Roots,           \* host -> its model roots: {[id, path, real]}; `real` without links
    BusQueue,        \* the capacity of a subscriber's queue
    Changes          \* bound: how often a link, a mount table or a sample changes

None == "none"

VARIABLES
    mounts,     \* host -> the mounts it has
    state,      \* host -> link state; "up" and old makes "stale"
    old,        \* hosts whose last sample is older than stale_s
    latest,     \* host -> what its link heard last: hello, disks, sample
    changes,
    pub,        \* each publisher: [pc, host, says]; a link per host, and the watcher
    seen,       \* FleetInner.seen
    bus,        \* the stream's subscription: how many events wait
    last        \* what the stream sent last, per host

link == <<mounts, state, old, latest, changes>>
view == <<pub, seen, bus, last>>
vars == <<link, view>>

------------------------------------------------------------------------------
\* fleet_status.rs: storage shared between hosts.
Under(path, base) == IsPrefix(base, path)
Overlap(a, b) == Under(a, b) \/ Under(b, a)

Heard(h) == latest[h].hello # None
\* An address that two hosts report identifies nobody.
Owners(key) == {h \in Host : Heard(h) /\ key \in Address[h]}
FindAny(server, exclude) ==    \* mutant: the first host that reports it
    IF Owners(server) = {} THEN None
    ELSE LET h == Order[CHOOSE i \in DOMAIN Order : Order[i] \in Owners(server)
                              /\ \A j \in 1..(i - 1) : Order[j] \notin Owners(server)]
         IN  IF h = exclude THEN None ELSE h
Find(server, exclude) ==
    IF Cardinality(Owners(server)) = 1 /\ Owners(server) # {exclude}
    THEN CHOOSE h \in Owners(server) : TRUE ELSE None

\* The longest mount that holds a path.
MountOf(path, ms) ==
    {m \in ms : Under(path, m.at) /\ \A n \in ms : Under(path, n.at) => Len(n.at) <= Len(m.at)}
\* The mount a root lives on: the one that names it, which is where the node
\* finds the root's real path; else the one its path says.
Claimed(root, ms) == MountOf(root.real, ms)
MountOfRoot(root, ms) == IF Cardinality(Claimed(root, ms)) = 1 THEN Claimed(root, ms) ELSE MountOf(root.path, ms)

\* Only an NFS mount is followed, and only when the root's path leads through it.
Location(h, root) ==
    LET on == MountOfRoot(root, latest[h].disks)
        far == {m \in on : m.fs = "nfs" /\ Under(root.path, m.at) /\ Find(m.server, h) # None}
    IN  IF far = {} THEN [host |-> h, root |-> root.id, owner |-> h, path |-> root.path, imported |-> FALSE]
        ELSE LET m == CHOOSE x \in far : TRUE
             IN  [host |-> h, root |-> root.id, owner |-> Find(m.server, h), imported |-> TRUE,
                  path |-> m.export \o SubSeq(root.path, Len(m.at) + 1, Len(root.path))]
RootLocations == UNION {{Location(h, r) : r \in Roots[h]} : h \in {x \in Host : Heard(x)}}

Peers(loc) == {o \in RootLocations : o.owner = loc.owner /\ Overlap(o.path, loc.path)}
VisibleOn(loc) == {o.host : o \in Peers(loc)} \cup {loc.host}
SharedFrom(loc) ==
    IF loc.imported /\ \E o \in Peers(loc) : o.host = loc.owner /\ ~o.imported THEN loc.owner ELSE None

------------------------------------------------------------------------------
\* build_summary: link state, and the sample while the link is live.
LinkState(h) == IF state[h] = "up" /\ h \in old THEN "stale" ELSE state[h]
Live(h) == LinkState(h) \in {"up", "stale"}
Summary(h) == [link |-> LinkState(h), sample |-> IF Live(h) THEN latest[h].sample ELSE None]

\* FleetInner::publish, in publisher p.
Publishing(p, h) == pub' = [pub EXCEPT ![p] = [pc |-> "read", host |-> h, says |-> None]]
Idle == [pc |-> "idle", host |-> None, says |-> None]
ReadSummary(p) ==
    /\ pub[p].pc = "read" /\ pub' = [pub EXCEPT ![p].pc = "seen", ![p].says = Summary(pub[p].host).link]
    /\ UNCHANGED <<link, seen, bus, last>>
NoteSeen(p) ==
    /\ pub[p].pc = "seen" /\ seen' = [seen EXCEPT ![pub[p].host] = pub[p].says]
    /\ pub' = [pub EXCEPT ![p].pc = "send"] /\ UNCHANGED <<link, bus, last>>
Send(p) ==    \* try_send: a full queue drops the event
    /\ pub[p].pc = "send" /\ bus' = IF bus < BusQueue THEN bus + 1 ELSE bus
    /\ pub' = [pub EXCEPT ![p] = Idle] /\ UNCHANGED <<link, seen, last>>

\* One round of the watcher, host by host; it finds what nobody announced.
Watch(h) ==
    /\ pub["watcher"].pc = "idle" /\ seen[h] # LinkState(h) /\ Publishing("watcher", h)
    /\ UNCHANGED <<link, seen, bus, last>>

------------------------------------------------------------------------------
\* Links: `to` announces a change of the state, a hello too; samples and disks do not.
Spend == changes > 0 /\ changes' = changes - 1
Connect(h) ==
    /\ state[h] # "up" /\ pub[h].pc = "idle" /\ Spend
    /\ state' = [state EXCEPT ![h] = "up"] /\ old' = old \ {h}
    /\ latest' = [latest EXCEPT ![h].hello = "heard"] /\ Publishing(h, h)
    /\ UNCHANGED <<mounts, seen, bus, last>>
Drop(h) ==
    /\ state[h] = "up" /\ pub[h].pc = "idle" /\ Spend
    /\ state' = [state EXCEPT ![h] = "down"] /\ latest' = [latest EXCEPT ![h].sample = None]
    /\ Publishing(h, h)
    /\ UNCHANGED <<mounts, old, seen, bus, last>>
Sample(h) ==
    /\ state[h] = "up" /\ pub[h].pc = "idle" /\ Spend
    /\ latest' = [latest EXCEPT ![h].sample = "s"]
    /\ old' = old \ {h} /\ UNCHANGED <<mounts, state, view>>
Disks(h) ==
    /\ state[h] = "up" /\ pub[h].pc = "idle" /\ latest[h].disks # mounts[h]
    /\ latest' = [latest EXCEPT ![h].disks = mounts[h]]
    /\ UNCHANGED <<mounts, state, old, changes, view>>
GrowsOld(h) ==
    /\ state[h] = "up" /\ h \notin old /\ Spend /\ old' = old \cup {h}
    /\ UNCHANGED <<mounts, state, latest, view>>
Remount(h) ==
    /\ Spend /\ \E t \in Mounts[h] \ {mounts[h]} : mounts' = [mounts EXCEPT ![h] = t]
    /\ UNCHANGED <<state, old, latest, view>>

------------------------------------------------------------------------------
\* fleet_events: after an event or a poll period, each host that changed.
DueOnce == {h \in Host : last[h] = <<>>}    \* mutant: each host once
Due == {h \in Host : last[h] # <<Summary(h)>>}
Stream ==
    /\ last' = [h \in Host |-> IF h \in Due THEN <<Summary(h)>> ELSE last[h]]
    /\ UNCHANGED <<link, pub, seen>>
Woken == bus > 0 /\ bus' = bus - 1 /\ Stream
Polled == bus = 0 /\ Due # {} /\ bus' = bus /\ Stream

------------------------------------------------------------------------------
Init ==
    /\ mounts \in [Host -> UNION {Mounts[h] : h \in Host}] /\ \A h \in Host : mounts[h] \in Mounts[h]
    /\ state = [h \in Host |-> "connecting"] /\ old = {} /\ changes = Changes
    /\ latest = [h \in Host |-> [hello |-> None, disks |-> {}, sample |-> None]]
    /\ pub = [p \in Host \cup {"watcher"} |-> Idle] /\ seen = [h \in Host |-> None]
    /\ bus = 0 /\ last = [h \in Host |-> <<>>]

Publish(p) == ReadSummary(p) \/ NoteSeen(p) \/ Send(p)
Next ==
    \/ \E p \in Host \cup {"watcher"} : Publish(p)
    \/ \E h \in Host : \/ Watch(h) \/ Connect(h) \/ Drop(h) \/ Sample(h) \/ Disks(h)
                       \/ GrowsOld(h) \/ Remount(h)
    \/ Woken \/ Polled

\* The stream's timer, the publishers and the watcher run; disks are pushed by the node.
Fairness ==
    /\ WF_vars(Woken \/ Polled) /\ \A p \in Host \cup {"watcher"} : WF_vars(Publish(p))
    /\ \A h \in Host : WF_vars(Watch(h))
Spec == Init /\ [][Next]_vars /\ Fairness

------------------------------------------------------------------------------
\* Where a directory really is: the mounts of its host, followed to the servers.
ServerOf(h, key) == {x \in Host \ {h} : key \in Address[x] /\ key \notin Address[h]}
\* One mount further: `at` is a host, or a server that is none, and a path there.
Hop(at) ==
    LET far == IF at[1] \in Host THEN {m \in MountOf(at[2], mounts[at[1]]) : m.server # None} ELSE {}
    IN  IF far = {} THEN at
        ELSE LET m == CHOOSE x \in far : TRUE
                 on == ServerOf(at[1], m.server)
             IN  <<IF on = {} THEN m.server ELSE CHOOSE x \in on : TRUE,
                   m.export \o SubSeq(at[2], Len(m.at) + 1, Len(at[2]))>>
RootOf(loc) == CHOOSE r \in Roots[loc.host] : r.id = loc.root
Where(loc) == FoldLeft(LAMBDA at, h : Hop(at), <<loc.host, RootOf(loc).real>>, Order)
Same(a, b) == Where(a)[1] = Where(b)[1] /\ Overlap(Where(a)[2], Where(b)[2])

\* A link inside the mount that is followed is not seen: the mount names the
\* root by its real path, the path as written is translated.
AsWritten(loc) == loc.imported => RootOf(loc).real = RootOf(loc).path

\* With what the nodes said up to date, two roots of two hosts that the fleet
\* page calls the same storage are, whatever links lead into a mount or out of
\* one; and a root said to be another host's disk is on that disk.
SharesAreReal ==
    (\A h \in Host : Heard(h) => latest[h].disks = mounts[h]) =>
        \A loc \in RootLocations :
            /\ \A o \in Peers(loc) : o.host # loc.host /\ AsWritten(loc) /\ AsWritten(o) => Same(loc, o)
            /\ SharedFrom(loc) # None => Where(loc)[1] = SharedFrom(loc)

\* However the publishers, the clock and a full queue interleave, a streaming
\* client ends with the fleet as it is.
Shown == \A h \in Host : last[h] = <<Summary(h)>>
StreamConverges == <>[]Shown

==============================================================================
