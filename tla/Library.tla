------------------------------ MODULE Library ------------------------------
(***************************************************************************)
(* What models the machines hold, from the scanner of each node to the     *)
(* merged library of the hub, and the deletion of a copy.                  *)
(*                                                                         *)
(*  - node: a background scanner publishes numbered generations            *)
(*    (ecnode/src/models.rs), asked for by the hub or by its own clock;    *)
(*  - hub: one worker per host pages through models.list, keeps the last   *)
(*    good snapshot and merges all of them into one view, where a copy     *)
(*    that is reached over NFS is folded into the copy of the machine that *)
(*    owns the disk (services/library.rs).                                 *)
(*                                                                         *)
(* Models are numbers: their order is the order of the pages.  All hosts   *)
(* see one disk, the owner directly, the others through an NFS mount.  The *)
(* hub's runtime has several threads: two workers really run at once.      *)
(***************************************************************************)
EXTENDS Naturals, FiniteSets

CONSTANTS
  Worlds,          \* the fleets looked at: the hosts; the models, which are 1..n; the addresses each
                   \* hello reports; the models kept in a folder that engines mount whole (a shared
                   \* cache); and, a bound, how many edits of the disk, lost links, restarted nodes,
                   \* hung or missing mounts, rescans asked for, launches and deletions there are
  Owner,           \* the machine whose disk it is
  Server           \* [Hosts -> address or ""]: the NFS server of the root's mount

\* "" is no address: the root is the host's own
ASSUME LibraryAssumption ==
  /\ Server[Owner] = ""
  /\ \A w \in Worlds : Owner \in w.hosts /\ "" \notin w.address[Owner] /\ w.events \in Nat

VARIABLES
  world,    \* the hosts file, and what else the fleet is
  disk,     \* the models really there
  node,     \* scanner of each node
  link,     \* per host: the node's link is up
  event,    \* per host: a models_changed push on its way
  dirty,    \* hub: a refetch of the host is wanted
  worker,   \* hub: the host's fetch task
  snaps,    \* hub: the last good snapshot of each host
  view,     \* hub: the snapshots the merged library was built from
  used,     \* instances on record: {<<host, model>>}
  runs,     \* those whose container runs
  del,      \* the deletion under way
  events    \* how many disturbances there were

vars == <<world, disk, node, link, event, dirty, worker, snaps, view, used, runs, del, events>>
hub  == <<world, dirty, worker, snaps, view>>

Hosts == world.hosts
Models == world.models
AllHosts == UNION {w.hosts : w \in Worlds}

Idle == [pc |-> "none", cursor |-> 0, entries |-> {}, gen |-> 0, attempt |-> 0]
NoDelete == [pc |-> "idle"]

(* promise: history.  The number the last request was promised, until a    *)
(* scan begins after it; 0 when there is none.                             *)
Scanner == [pc |-> "idle", pending |-> TRUE, notify |-> TRUE, assigned |-> 0, gen |-> 0, snap |-> {},
            ask |-> FALSE, got |-> {}, promise |-> 1]

Spend == events < world.events /\ events' = events + 1

----------------------------------------------------------------------------
(* The merged view: services/library.rs rebuild.                           *)

(* AddressBook: an address two hosts report identifies nobody              *)
find(server, exclude) ==
  LET owners == {h \in Hosts : server \in world.address[h]}
  IN  IF Cardinality(owners) = 1 THEN owners \ {exclude} ELSE {}

Listings(s) == {l \in Hosts \X Models : l[2] \in s[l[1]]}

TargetUnlisted(s, l) ==
  LET o == find(Server[l[1]], l[1])
  IN  IF Server[l[1]] # "" /\ o # {} THEN <<CHOOSE h \in o : TRUE, l[2]>> ELSE l

(* merge_shared: the listing another one is folded into; itself when the   *)
(* server is no configured host or does not list it                        *)
Target(s, l) ==
  LET o == {h \in find(Server[l[1]], l[1]) : Server[h] = "" /\ l[2] \in s[h]}
  IN  IF Server[l[1]] # "" /\ o # {} THEN <<CHOOSE h \in o : TRUE, l[2]>> ELSE l

merge_shared(s) ==
  {[copy |-> l, aliases |-> {a \in Listings(s) : Target(s, a) = l}] :
     l \in {Target(s, a) : a \in Listings(s)}}

find_rec(s, h, m) == {r \in merge_shared(s) : <<h, m>> \in r.aliases}

----------------------------------------------------------------------------
(* The node's scanner.                                                     *)

(* The hub's two calls of models.scan are forced: an unforced one of a scan *)
(* that is a moment old would be answered with the generation that is out. *)
Request(n) == [n EXCEPT !.pending = TRUE, !.notify = TRUE, !.promise = n.assigned + 1]

(* The directory signature changed, or RESCAN_S passed.  A pass that would  *)
(* find nothing new publishes nothing and is left out.                     *)
Tick(h) ==
  /\ node[h].pc = "idle" /\ ~node[h].pending
  /\ node[h].snap # disk
  /\ node' = [node EXCEPT ![h].pending = TRUE]
  /\ UNCHANGED <<disk, link, event, hub, used, runs, del, events>>

(* run_once: the pending wish is taken, with its number                    *)
Begin(h) ==
  /\ node[h].pc = "idle" /\ node[h].pending
  /\ node' = [node EXCEPT ![h] = [node[h] EXCEPT
                 !.pc = "scan", !.pending = FALSE, !.notify = FALSE, !.promise = 0,
                 !.assigned = node[h].assigned + 1, !.ask = node[h].notify]]
  /\ UNCHANGED <<disk, link, event, hub, used, runs, del, events>>

(* scan_one: what is there; nothing (the mount is not there); or what was  *)
(* there before (the mount hangs)                                          *)
Scan(h) ==
  /\ node[h].pc = "scan"
  /\ \/ node' = [node EXCEPT ![h].pc = "publish", ![h].got = disk] /\ UNCHANGED events
     \/ /\ h # Owner /\ Spend
        /\ \E found \in {{}, node[h].snap} : node' = [node EXCEPT ![h].pc = "publish", ![h].got = found]
  /\ UNCHANGED <<disk, link, event, hub, used, runs, del>>

(* A scan that finds no difference publishes nothing, except a requested   *)
(* one                                                                     *)
Publish(h) ==
  /\ node[h].pc = "publish"
  /\ LET publish == node[h].got # node[h].snap \/ node[h].ask IN
     node' = [node EXCEPT ![h] = [node[h] EXCEPT
                 !.pc = IF publish THEN "push" ELSE "idle", !.got = {}, !.ask = FALSE, !.snap = node[h].got,
                 !.gen = IF publish THEN node[h].assigned ELSE node[h].gen]]
  /\ UNCHANGED <<disk, link, event, hub, used, runs, del, events>>

(* on_change, after the signatures of the folders were taken: pushed when   *)
(* there is somebody to push to                                            *)
Push(h) ==
  /\ node[h].pc = "push"
  /\ node' = [node EXCEPT ![h].pc = "idle"]
  /\ event' = [event EXCEPT ![h] = @ \/ link[h]]
  /\ UNCHANGED <<disk, link, hub, used, runs, del, events>>

----------------------------------------------------------------------------
(* The hub's fetch workers.                                                *)

(* Ask for a refetch; a task whose handle is not finished takes it along    *)
scheduleRunning(h) ==
  /\ dirty' = [dirty EXCEPT ![h] = worker[h].pc = "none"]
  /\ worker' = [worker EXCEPT ![h] = IF @.pc = "none" THEN [Idle EXCEPT !.pc = "take"] ELSE @]

schedule(h) ==
  /\ dirty' = [dirty EXCEPT ![h] = TRUE]
  /\ worker' = [worker EXCEPT ![h] = IF @.pc = "none" THEN [Idle EXCEPT !.pc = "take"] ELSE @]

on_changed(h) ==
  /\ event[h] /\ event' = [event EXCEPT ![h] = FALSE]
  /\ IF link[h] THEN schedule(h) ELSE UNCHANGED <<dirty, worker>>
  /\ UNCHANGED <<world, disk, node, link, snaps, view, used, runs, del, events>>

(* on_fleet *)
LinkUp(h) ==
  /\ ~link[h] /\ link' = [link EXCEPT ![h] = TRUE]
  /\ schedule(h)
  /\ UNCHANGED <<world, disk, node, event, snaps, view, used, runs, del, events>>

Set(h, w) == worker' = [worker EXCEPT ![h] = w]

(* The loop's head: nothing wanted, the task returns; its handle is        *)
(* finished a moment later                                                 *)
Take(h) ==
  /\ worker[h].pc = "take"
  /\ IF dirty[h] THEN Set(h, [Idle EXCEPT !.pc = "page"]) /\ dirty' = [dirty EXCEPT ![h] = FALSE]
                 ELSE Set(h, [Idle EXCEPT !.pc = "leaving"]) /\ UNCHANGED dirty
  /\ UNCHANGED <<world, disk, node, link, event, snaps, view, used, runs, del, events>>

Finished(h) ==
  /\ worker[h].pc = "leaving" /\ Set(h, Idle)
  /\ UNCHANGED <<world, disk, node, link, event, dirty, snaps, view, used, runs, del, events>>

PageOf(snap, cursor) == {m \in snap : Cardinality({x \in snap : x < m}) = cursor}

(* one_pass: one models.list call, one entry a page.  A pass that sees the  *)
(* generation change starts over, the third one takes what it gets.        *)
Page(h) ==
  /\ worker[h].pc = "page" /\ link[h]
  /\ LET w == worker[h]
         n == node[h]
         all == w.entries \cup PageOf(n.snap, w.cursor)
     IN  Set(h, IF w.cursor > 0 /\ n.gen # w.gen /\ w.attempt < 2
                  THEN [Idle EXCEPT !.pc = "page", !.attempt = w.attempt + 1]
                  ELSE IF w.cursor + 1 < Cardinality(n.snap)
                  THEN [w EXCEPT !.gen = IF w.cursor = 0 THEN n.gen ELSE @, !.entries = all, !.cursor = @ + 1]
                  ELSE [Idle EXCEPT !.pc = "insert", !.entries = all])
  /\ UNCHANGED <<world, disk, node, link, event, dirty, snaps, view, used, runs, del, events>>

(* The call fails: no link, or no answer in time                            *)
CallFails(h) ==
  /\ worker[h].pc = "page"
  /\ IF link[h] THEN Spend ELSE UNCHANGED events
  /\ Set(h, [Idle EXCEPT !.pc = "failed"])
  /\ UNCHANGED <<world, disk, node, link, event, dirty, snaps, view, used, runs, del>>

(* While the link is down the task ends: the next `up` asks again          *)
GiveUp(h) ==
  /\ worker[h].pc = "failed"
  /\ Set(h, [Idle EXCEPT !.pc = IF link[h] THEN "sleep" ELSE "leaving"])
  /\ UNCHANGED <<world, disk, node, link, event, dirty, snaps, view, used, runs, del, events>>

Retry(h) ==
  /\ worker[h].pc = "sleep"
  /\ Set(h, [Idle EXCEPT !.pc = "take"]) /\ dirty' = [dirty EXCEPT ![h] = TRUE]
  /\ UNCHANGED <<world, disk, node, link, event, snaps, view, used, runs, del, events>>

(* fetch: the snapshot is put in place, then the view is rebuilt from a    *)
(* copy of all snapshots that is taken under the lock.  The copy is taken  *)
(* after the snapshot was saved to the database; here it is taken at once. *)
Insert(h) ==
  /\ worker[h].pc = "insert"
  /\ snaps' = [snaps EXCEPT ![h] = worker[h].entries]
  /\ Set(h, [pc |-> "show", snaps |-> snaps'])
  /\ UNCHANGED <<world, disk, node, link, event, dirty, view, used, runs, del, events>>

Show(h) ==
  /\ worker[h].pc = "show"
  /\ view' = worker[h].snaps
  /\ Set(h, [Idle EXCEPT !.pc = "take"])
  /\ UNCHANGED <<world, disk, node, link, event, dirty, snaps, used, runs, del, events>>

(* POST /library/rescan of one host                                        *)
rescan(h) ==
  /\ Spend /\ link[h]
  /\ node' = [node EXCEPT ![h] = Request(@)]
  /\ schedule(h)
  /\ UNCHANGED <<world, disk, link, event, snaps, view, used, runs, del>>

----------------------------------------------------------------------------
(* Engines and deletions.                                                  *)

(* lifecycle.create: the copy is looked up, the row is written             *)
Launch(h, m) ==
  /\ used = {} /\ Spend
  /\ find_rec(view, h, m) # {} /\ link[h]
  /\ used' = {<<h, m>>}
  /\ UNCHANGED <<disk, node, link, event, hub, runs, del>>

(* docker.run: the container mounts the copy, or the folder that holds it  *)
Runs(h, m) ==
  /\ <<h, m>> \in used \ runs /\ link[h]
  /\ runs' = runs \cup {<<h, m>>}
  /\ UNCHANGED <<disk, node, link, event, hub, used, del, events>>

Remove ==
  /\ used # {} /\ used' = {} /\ runs' = {}
  /\ UNCHANGED <<disk, node, link, event, hub, del, events>>

users(r) == r.aliases \cap used

(* delete_copy up to the call: the copy, its machine's link, its users     *)
Delete ==
  /\ del.pc = "idle" /\ Spend
  /\ \E r \in merge_shared(view) :
       /\ link[r.copy[1]] /\ users(r) = {}
       /\ del' = [pc |-> "call", rec |-> r]
  /\ UNCHANGED <<disk, node, link, event, hub, used, runs>>

(* fs.delete on the node: refused when nothing is there, or when a running *)
(* container of that machine mounts the copy itself                        *)
Mounted(h, m) == <<h, m>> \in runs /\ m \notin world.cached
FsCheck ==
  LET h == del.rec.copy[1]
      m == del.rec.copy[2]
  IN
  /\ del.pc = "call"
  /\ del' = IF link[h] /\ m \in disk /\ ~Mounted(h, m) THEN [del EXCEPT !.pc = "remove"] ELSE NoDelete
  /\ UNCHANGED <<disk, node, link, event, hub, used, runs, events>>

(* The removal.  Its answer may be lost with the link; a node that went     *)
(* away with the link may not have come to it                              *)
FsDelete ==
  LET h == del.rec.copy[1]
      m == del.rec.copy[2]
  IN
  /\ del.pc = "remove"
  /\ \/ /\ m \in disk /\ disk' = disk \ {m}
        /\ \/ link[h] /\ del' = [del EXCEPT !.pc = "forget"] /\ UNCHANGED events
           \/ link[h] /\ del' = NoDelete /\ Spend
           \/ ~link[h] /\ del' = NoDelete /\ UNCHANGED events
     \/ /\ m \notin disk \/ ~link[h]
        /\ del' = NoDelete /\ UNCHANGED <<disk, events>>
  /\ UNCHANGED <<node, link, event, hub, used, runs>>

(* forget: the copy leaves every snapshot that lists it                    *)
Forget ==
  /\ del.pc = "forget"
  /\ snaps' = [h \in Hosts |-> {m \in snaps[h] : <<h, m>> \notin del.rec.aliases}]
  /\ del' = [pc |-> "show", rec |-> del.rec, snaps |-> snaps']
  /\ UNCHANGED <<world, disk, node, link, event, dirty, worker, view, used, runs, events>>

ForgetShow ==
  /\ del.pc = "show"
  /\ view' = del.snaps
  /\ del' = [pc |-> "ask", rec |-> del.rec]
  /\ UNCHANGED <<world, disk, node, link, event, dirty, worker, snaps, used, runs, events>>

(* every machine that could see the bytes is asked to look again           *)
AskScans ==
  /\ del.pc = "ask"
  /\ node' = [h \in Hosts |-> IF link[h] /\ h \in {a[1] : a \in del.rec.aliases} THEN Request(node[h]) ELSE node[h]]
  /\ del' = NoDelete
  /\ UNCHANGED <<disk, link, event, hub, used, runs, events>>

----------------------------------------------------------------------------
(* Around them.                                                            *)

Edit ==
  /\ Spend
  /\ \E m \in Models : disk' = IF m \in disk THEN disk \ {m} ELSE disk \cup {m}
  /\ UNCHANGED <<node, link, event, hub, used, runs, del>>

(* The link is lost, with what is on it, or the node's process restarts     *)
Drop(h) ==
  /\ link[h] /\ Spend
  /\ link' = [link EXCEPT ![h] = FALSE] /\ event' = [event EXCEPT ![h] = FALSE]
  /\ node' \in {node, [node EXCEPT ![h] = Scanner]}
  /\ UNCHANGED <<disk, hub, used, runs, del>>

(* A hub that has read every node's first scan                             *)
Init ==
  /\ world \in Worlds
  /\ disk \in SUBSET Models
  /\ node = [h \in Hosts |-> [Scanner EXCEPT !.pending = FALSE, !.notify = FALSE, !.assigned = 1, !.gen = 1,
                                              !.snap = disk, !.promise = 0]]
  /\ link = [h \in Hosts |-> TRUE] /\ event = [h \in Hosts |-> FALSE]
  /\ dirty = [h \in Hosts |-> FALSE] /\ worker = [h \in Hosts |-> Idle]
  /\ snaps = [h \in Hosts |-> disk] /\ view = snaps
  /\ used = {} /\ runs = {} /\ del = NoDelete
  /\ events = 0

NodeStep(h) == Tick(h) \/ Begin(h) \/ Scan(h) \/ Publish(h) \/ Push(h)
FetchStep(h) == Take(h) \/ Finished(h) \/ Page(h) \/ CallFails(h) \/ GiveUp(h) \/ Retry(h)
                  \/ Insert(h) \/ Show(h)
DeleteStep == FsCheck \/ FsDelete \/ Forget \/ ForgetShow \/ AskScans

Next ==
  \/ \E h \in Hosts : NodeStep(h) \/ FetchStep(h) \/ on_changed(h) \/ LinkUp(h) \/ rescan(h) \/ Drop(h)
  \/ \E h \in Hosts, m \in Models : Launch(h, m) \/ Runs(h, m)
  \/ Delete \/ DeleteStep \/ Remove \/ Edit

(* Scanner thread, fetch tasks and the delete run; nodes reconnect.        *)
Fairness ==
  /\ \A h \in AllHosts :
       /\ WF_vars(h \in Hosts /\ NodeStep(h)) /\ WF_vars(h \in Hosts /\ FetchStep(h))
       /\ WF_vars(h \in Hosts /\ on_changed(h)) /\ WF_vars(h \in Hosts /\ LinkUp(h))
  /\ WF_vars(DeleteStep)

Spec == Init /\ [][Next]_vars /\ Fairness

----------------------------------------------------------------------------
(* Properties.                                                             *)

TypeOK ==
  /\ disk \subseteq Models
  /\ \A h \in Hosts :
       /\ node[h].pc \in {"idle", "scan", "publish", "push"} /\ node[h].gen <= node[h].assigned
       /\ worker[h].pc \in {"none", "take", "leaving", "page", "failed", "sleep", "insert", "show"}
       /\ snaps[h] \subseteq Models /\ view[h] \subseteq Models
  /\ used \subseteq Hosts \X Models /\ runs \subseteq used
  /\ del.pc \in {"idle", "call", "remove", "forget", "show", "ask"}

(* models.scan answers with a generation number: when a generation of that  *)
(* number or later is out, it comes from a scan begun after the request, so *)
(* who waits for it sees what was on the disk when it asked.               *)
PromiseIsLater == \A h \in Hosts : node[h].promise # 0 => node[h].gen < node[h].promise

(* Shared storage is listed once: whatever each host's last snapshot says,  *)
(* every listing leads to exactly one copy, which its own machine lists,   *)
(* so that fs.delete finds it there; a copy reached from a known owner     *)
(* that lists it is that owner's.                                          *)
FoldedOnce ==
  LET copies == merge_shared(view) IN
  \A l \in Listings(view) :
    LET mine == {r \in copies : l \in r.aliases} IN
    /\ Cardinality(mine) = 1 /\ \A r \in mine : r.copy \in r.aliases
    /\ l[1] # Owner /\ l[2] \in view[Owner] /\ find(Server[l[1]], l[1]) = {Owner} =>
         \A r \in mine : r.copy = <<Owner, l[2]>>

(* What the library lists is there once, and was there when it was asked.   *)
ListingIsTrue == TypeOK /\ PromiseIsLater /\ FoldedOnce

(* Once the disks and the links stay as they are, the hub's snapshot of     *)
(* every host is what is on the disk, through missed pushes, restarted      *)
(* nodes, mixed pages, failed calls, late fetches and hung mounts, unless a *)
(* refetch that was asked for is never taken up.                           *)
Known == \A h \in Hosts : dirty[h] \/ snaps[h] = disk
SnapsConverge == <>[]Known

(* "Requests that arrive while a fetch runs collapse into one more fetch"   *)
(* (library.rs schedule)                                                   *)
RequestsServed == \A h \in AllHosts : []<>(h \in Hosts => ~dirty[h])

(* "... so a delete is refused rather than pulled from under a running      *)
(* engine" (docs/OPERATIONS.md)                                     *)
NotPulled == [][\A u \in runs : u[2] \in disk /\ u[2] \notin disk' => ~DeleteStep]_vars
=============================================================================
