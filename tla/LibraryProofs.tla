--------------------------- MODULE LibraryProofs ---------------------------
(***************************************************************************)
(* Library's ListingIsTrue for any fleets, models and disturbances.        *)
(*                                                                         *)
(* That a promised generation comes from a later scan is an invariant of   *)
(* the scanner's numbers (Counted): until a scan begins after a request,   *)
(* the promised number is one more than the last one given out.  That      *)
(* every listing is folded into exactly one copy holds of any snapshots:   *)
(* a machine that owns its disk is not folded any further.                 *)
(***************************************************************************)
EXTENDS Library, FiniteSetTheorems, TLAPS

NodeType ==
  [pc : {"idle", "scan", "publish", "push"}, pending : BOOLEAN, notify : BOOLEAN, assigned : Nat, gen : Nat,
   snap : SUBSET Models, ask : BOOLEAN, got : SUBSET Models, promise : Nat]
Snapshots == [Hosts -> SUBSET Models]
WorkerType ==
  [pc : {"none", "take", "leaving", "page", "failed", "sleep", "insert"}, cursor : Nat,
   entries : SUBSET Models, gen : Nat, attempt : Nat]
  \cup [pc : {"show"}, snaps : Snapshots]
Copy == [copy : Hosts \X Models, aliases : SUBSET (Hosts \X Models)]
DelType ==
  {NoDelete} \cup [pc : {"call", "remove", "forget", "ask"}, rec : Copy]
             \cup [pc : {"show"}, rec : Copy, snaps : Snapshots]

Disks == disk \in SUBSET Models
Nodes == node \in [Hosts -> NodeType]
Workers == worker \in [Hosts -> WorkerType]
Known1 == snaps \in Snapshots /\ view \in Snapshots
Uses == used \in SUBSET (Hosts \X Models) /\ runs \subseteq used /\ del \in DelType

\* What the numbers of a scanner say.
Right(n) == n.gen <= n.assigned /\ (n.promise # 0 => n.promise = n.assigned + 1)
Counted == \A h \in Hosts : Right(node[h])

LibraryInv == Disks /\ Nodes /\ Workers /\ Known1 /\ Uses /\ Counted
-----------------------------------------------------------------------------
(* Folding.                                                                *)

LEMMA TargetIs ==
  ASSUME NEW s, NEW l \in Listings(s)
  PROVE  /\ Target(s, l) \in Listings(s) /\ Target(s, Target(s, l)) = Target(s, l)
<1> DEFINE o == {h \in find(Server[l[1]], l[1]) : Server[h] = "" /\ l[2] \in s[h]}
<1>1. l \in Hosts \X Models /\ l[2] \in s[l[1]]
  BY DEF Listings
<1>2. find(Server[l[1]], l[1]) \subseteq Hosts
  BY DEF find
<1>3. CASE Server[l[1]] # "" /\ o # {}
  <2>1. PICK h \in o : h = CHOOSE x \in o : TRUE
    BY <1>3
  <2>2. Target(s, l) = <<h, l[2]>>
    BY <1>3, <2>1 DEF Target
  <2>3. h \in Hosts /\ Server[h] = "" /\ l[2] \in s[h]
    <3>1. h \in find(Server[l[1]], l[1]) /\ Server[h] = "" /\ l[2] \in s[h]
      BY <2>1
    <3> QED
      BY <1>2, <3>1
  <2>4. <<h, l[2]>> \in Listings(s) /\ <<h, l[2]>>[1] = h
    BY <1>1, <2>3 DEF Listings
  <2>5. Target(s, <<h, l[2]>>) = <<h, l[2]>>
    BY <2>3 DEF Target
  <2> QED
    BY <2>2, <2>4, <2>5
<1>4. CASE ~(Server[l[1]] # "" /\ o # {})
  BY <1>4 DEF Target
<1> QED
  BY <1>3, <1>4

LEMMA CopiesAre ==
  ASSUME NEW s, NEW r \in merge_shared(s)
  PROVE  r \in Copy /\ r.copy \in r.aliases
<1>1. PICK a \in Listings(s) : r = [copy |-> Target(s, a), aliases |-> {b \in Listings(s) : Target(s, b) = Target(s, a)}]
  BY DEF merge_shared
<1>2. Target(s, a) \in Listings(s) /\ Target(s, Target(s, a)) = Target(s, a)
  BY TargetIs
<1>3. Listings(s) \subseteq Hosts \X Models
  BY DEF Listings
<1> QED
  BY <1>1, <1>2, <1>3 DEF Copy

\* Any listings at all are folded once.
LEMMA Folded == ASSUME LibraryAssumption, world \in Worlds PROVE FoldedOnce
<1> SUFFICES ASSUME NEW l \in Listings(view)
             PROVE  LET mine == {r \in merge_shared(view) : l \in r.aliases} IN
                    /\ Cardinality(mine) = 1 /\ \A r \in mine : r.copy \in r.aliases
                    /\ l[1] # Owner /\ l[2] \in view[Owner] /\ find(Server[l[1]], l[1]) = {Owner} =>
                         \A r \in mine : r.copy = <<Owner, l[2]>>
  BY DEF FoldedOnce
<1> DEFINE mine == {r \in merge_shared(view) : l \in r.aliases}
           c == Target(view, l)
           x == [copy |-> c, aliases |-> {a \in Listings(view) : Target(view, a) = c}]
<1>1. mine = {x}
  <2>1. c \in {Target(view, a) : a \in Listings(view)} /\ x \in merge_shared(view) /\ l \in x.aliases
    BY DEF merge_shared
  <2>2. ASSUME NEW r \in merge_shared(view), l \in r.aliases PROVE r = x
    <3>1. PICK a \in Listings(view) :
            r = [copy |-> Target(view, a), aliases |-> {b \in Listings(view) : Target(view, b) = Target(view, a)}]
      BY DEF merge_shared
    <3>2. Target(view, l) = Target(view, a)
      BY <2>2, <3>1
    <3> QED
      BY <3>1, <3>2
  <2> QED
    BY <2>1, <2>2
<1>2. Cardinality(mine) = 1
  BY <1>1, FS_Singleton
<1>3. \A r \in mine : r.copy \in r.aliases
  BY CopiesAre
<1>4. ASSUME l[2] \in view[Owner], find(Server[l[1]], l[1]) = {Owner}
      PROVE  \A r \in mine : r.copy = <<Owner, l[2]>>
  <2>1. Server[l[1]] \in world.address[Owner]
    BY <1>4 DEF find
  <2>2. Server[l[1]] # "" /\ Server[Owner] = ""
    BY <2>1 DEF LibraryAssumption
  <2>3. {h \in find(Server[l[1]], l[1]) : Server[h] = "" /\ l[2] \in view[h]} = {Owner}
    BY <1>4, <2>2
  <2>4. c = <<Owner, l[2]>>
    BY <2>2, <2>3 DEF Target
  <2>5. x.copy = c
    OBVIOUS
  <2> HIDE DEF x, mine
  <2> QED
    BY <1>1, <2>4, <2>5
<1> QED
  BY <1>2, <1>3, <1>4

-----------------------------------------------------------------------------
(* The steps.                                                              *)

LEMMA NumbersKept ==
  ASSUME Nodes, Counted, world' = world, NEW h \in Hosts, NEW n \in NodeType, Right(n),
         node' = [node EXCEPT ![h] = n]
  PROVE  Nodes' /\ Counted'
<1>1. node' \in [Hosts -> NodeType] /\ \A g \in Hosts : node'[g] = IF g = h THEN n ELSE node[g]
  BY DEF Nodes
<1>2. NodeType' = NodeType /\ Hosts' = Hosts
  BY DEF NodeType, Hosts, Models
<1>3. Nodes'
  BY <1>1, <1>2 DEF Nodes
<1> QED
  BY <1>1, <1>2, <1>3 DEF Counted

LEMMA Asked ==
  ASSUME NEW n \in NodeType
  PROVE  Request(n) \in NodeType /\ (Right(n) => Right(Request(n)))
<1>1. n.assigned + 1 \in Nat
  BY DEF NodeType
<1> QED
  BY <1>1 DEF Request, NodeType, Right

LEMMA ScannerIs == Scanner \in NodeType /\ Right(Scanner)
BY DEF Scanner, NodeType, Right

LEMMA WorkersKept ==
  ASSUME Workers, world' = world, NEW h \in Hosts, NEW w \in WorkerType, worker' = [worker EXCEPT ![h] = w]
  PROVE  Workers'
<1>1. WorkerType' = WorkerType /\ Hosts' = Hosts
  BY DEF WorkerType, Snapshots, Hosts, Models
<1> QED
  BY <1>1 DEF Workers

LEMMA IdleIs ==
  ASSUME NEW pc \in {"none", "take", "leaving", "page", "failed", "sleep", "insert"}
  PROVE  [Idle EXCEPT !.pc = pc] \in WorkerType
BY DEF Idle, WorkerType

LEMMA Scheduled ==
  ASSUME Workers, world' = world, NEW h \in Hosts, schedule(h) PROVE Workers'
<1>1. worker[h] \in WorkerType /\ [Idle EXCEPT !.pc = "take"] \in WorkerType
  BY IdleIs DEF Workers
<1>2. PICK w \in WorkerType : worker' = [worker EXCEPT ![h] = w]
  BY <1>1 DEF schedule
<1> QED
  BY <1>2, WorkersKept

\* What no step but its own changes.
LEMMA RestKept ==
  ASSUME UNCHANGED world
  PROVE  /\ Disks /\ UNCHANGED disk => Disks'
         /\ Nodes /\ Counted /\ UNCHANGED node => Nodes' /\ Counted'
         /\ Workers /\ UNCHANGED worker => Workers'
         /\ Known1 /\ UNCHANGED <<snaps, view>> => Known1'
         /\ Uses /\ UNCHANGED <<used, runs, del>> => Uses'
<1>1. /\ Models' = Models /\ Hosts' = Hosts /\ NodeType' = NodeType /\ WorkerType' = WorkerType
      /\ Snapshots' = Snapshots /\ Copy' = Copy
  BY DEF Models, Hosts, NodeType, WorkerType, Snapshots, Copy
<1>2. DelType' = DelType
  BY <1>1 DEF DelType
<1> QED
  BY <1>1, <1>2 DEF Disks, Nodes, Counted, Workers, Known1, Uses

LEMMA NodeStepKept ==
  ASSUME LibraryInv, NEW h \in Hosts, NodeStep(h) PROVE LibraryInv'
<1> USE DEF LibraryInv
<1>1. node[h] \in NodeType /\ Right(node[h]) /\ disk \in SUBSET Models
  BY DEF Nodes, Counted, Disks
<1>2. UNCHANGED <<world, disk, worker, snaps, view, used, runs, del>>
  BY DEF NodeStep, Tick, Begin, Scan, Publish, Push, hub
<1>3. \E n \in NodeType : Right(n) /\ node' = [node EXCEPT ![h] = n]
  <2>1. CASE Tick(h)
    <3> DEFINE n == [node[h] EXCEPT !.pending = TRUE]
    <3>1. n \in NodeType /\ Right(n)
      BY <1>1 DEF NodeType, Right
    <3>2. node' = [node EXCEPT ![h] = n]
      BY <2>1 DEF Tick
    <3> QED
      BY <3>1, <3>2
  <2>2. CASE Begin(h)
    <3> DEFINE n == [node[h] EXCEPT !.pc = "scan", !.pending = FALSE, !.notify = FALSE, !.promise = 0,
                                    !.assigned = node[h].assigned + 1, !.ask = node[h].notify]
    <3>1. node[h].assigned + 1 \in Nat /\ node[h].notify \in BOOLEAN
      BY <1>1 DEF NodeType
    <3>2. n \in NodeType
      BY <1>1, <3>1 DEF NodeType
    <3>3. n.gen = node[h].gen /\ n.assigned = node[h].assigned + 1 /\ n.promise = 0
      BY <1>1 DEF NodeType
    <3>4. Right(n)
      <4> HIDE DEF n
      <4>1. node[h].gen \in Nat /\ node[h].assigned \in Nat
        BY <1>1 DEF NodeType
      <4> QED
        BY <1>1, <3>3, <4>1 DEF Right
    <3>5. node' = [node EXCEPT ![h] = n]
      BY <2>2 DEF Begin
    <3> QED
      BY <3>2, <3>4, <3>5
  <2>3. CASE Scan(h)
    <3>1. PICK found \in {disk, {}, node[h].snap} :
            node' = [node EXCEPT ![h].pc = "publish", ![h].got = found]
      BY <2>3 DEF Scan
    <3> DEFINE n == [node[h] EXCEPT !.pc = "publish", !.got = found]
    <3>2. found \in SUBSET Models
      BY <1>1 DEF NodeType
    <3>3. n \in NodeType /\ Right(n)
      BY <1>1, <3>2 DEF NodeType, Right
    <3>4. node' = [node EXCEPT ![h] = n]
      BY <3>1 DEF Nodes
    <3> QED
      BY <3>3, <3>4
  <2>4. CASE Publish(h)
    <3>1. PICK publish \in BOOLEAN :
            node' = [node EXCEPT ![h] = [node[h] EXCEPT
                       !.pc = IF publish THEN "push" ELSE "idle", !.got = {}, !.ask = FALSE, !.snap = node[h].got,
                       !.gen = IF publish THEN node[h].assigned ELSE node[h].gen]]
      BY <2>4 DEF Publish
    <3> DEFINE n == [node[h] EXCEPT !.pc = IF publish THEN "push" ELSE "idle", !.got = {}, !.ask = FALSE, !.snap = node[h].got,
                                    !.gen = IF publish THEN node[h].assigned ELSE node[h].gen]
    <3>2. node[h].got \in SUBSET Models /\ node[h].assigned \in Nat /\ node[h].gen \in Nat
      BY <1>1 DEF NodeType
    <3>3. n \in NodeType
      BY <1>1, <3>2 DEF NodeType
    <3>4. /\ n.gen \in {node[h].gen, node[h].assigned} /\ n.assigned = node[h].assigned
          /\ n.promise = node[h].promise
      BY <1>1 DEF NodeType
    <3>5. Right(n)
      <4> HIDE DEF n
      <4> QED
        BY <1>1, <3>2, <3>4 DEF Right
    <3>6. node' = [node EXCEPT ![h] = n]
      BY <3>1
    <3> QED
      BY <3>3, <3>5, <3>6
  <2>5. CASE Push(h)
    <3> DEFINE n == [node[h] EXCEPT !.pc = "idle"]
    <3>1. n \in NodeType /\ Right(n)
      BY <1>1 DEF NodeType, Right
    <3>2. node' = [node EXCEPT ![h] = n]
      BY <2>5 DEF Push
    <3> QED
      BY <3>1, <3>2
  <2> QED
    BY <2>1, <2>2, <2>3, <2>4, <2>5 DEF NodeStep
<1>4. Nodes' /\ Counted'
  BY <1>2, <1>3, NumbersKept
<1> QED
  BY <1>2, <1>4, RestKept

LEMMA FetchStepKept ==
  ASSUME LibraryInv, NEW h \in Hosts, FetchStep(h) PROVE LibraryInv'
<1> USE DEF LibraryInv
<1>1. worker[h] \in WorkerType /\ node[h] \in NodeType
  BY DEF Workers, Nodes
<1>2. UNCHANGED <<world, disk, node, used, runs, del>>
  BY DEF FetchStep, Take, Finished, Page, CallFails, GiveUp, Retry, Insert, Show
<1>3. /\ \E w \in WorkerType : worker' = [worker EXCEPT ![h] = w]
      /\ snaps' \in Snapshots /\ view' \in Snapshots
  <2>1. CASE Take(h) \/ Finished(h) \/ CallFails(h) \/ GiveUp(h) \/ Retry(h)
    <3>1. /\ UNCHANGED <<snaps, view>>
          /\ \E pc \in {"none", "take", "leaving", "page", "failed", "sleep"} :
               worker' = [worker EXCEPT ![h] = [Idle EXCEPT !.pc = pc]]
      <4>1. Idle = [Idle EXCEPT !.pc = "none"]
        BY DEF Idle
      <4> QED
        BY <2>1, <4>1 DEF Take, Finished, CallFails, GiveUp, Retry, Set
    <3> QED
      BY <3>1, IdleIs DEF Known1
  <2>2. CASE Page(h)
    <3> DEFINE w == worker[h]
               n == node[h]
               all == w.entries \cup PageOf(n.snap, w.cursor)
               again == [Idle EXCEPT !.pc = "page", !.attempt = w.attempt + 1]
               more == w.cursor + 1 < Cardinality(n.snap)
               got == [w EXCEPT !.gen = IF w.cursor = 0 THEN n.gen ELSE @, !.entries = all, !.cursor = @ + 1]
               whole == [Idle EXCEPT !.pc = "insert", !.entries = all]
    <3>1. w.pc = "page"
      BY <2>2 DEF Page
    <3>2. w \in [pc : {"none", "take", "leaving", "page", "failed", "sleep", "insert"}, cursor : Nat,
                 entries : SUBSET Models, gen : Nat, attempt : Nat]
      BY <1>1, <3>1 DEF WorkerType
    <3>3. n.gen \in Nat /\ all \in SUBSET Models
      BY <1>1, <3>2 DEF NodeType, PageOf
    <3>4. again \in WorkerType
      <4>1. w.attempt + 1 \in Nat
        BY <3>2
      <4> HIDE DEF w
      <4> QED
        BY <4>1 DEF WorkerType, Idle
    <3>5. got \in WorkerType
      <4>1. w.cursor + 1 \in Nat
        BY <3>2
      <4> HIDE DEF all, n, w, more
      <4>2. got \in [pc : {"none", "take", "leaving", "page", "failed", "sleep", "insert"}, cursor : Nat,
                     entries : SUBSET Models, gen : Nat, attempt : Nat]
        BY <3>2, <3>3, <4>1
      <4> QED
        BY <4>2 DEF WorkerType
    <3>6. whole \in WorkerType
      <4> HIDE DEF all
      <4> QED
        BY <3>3 DEF WorkerType, Idle
    <3>7. /\ \E x \in {again, got, whole} : worker' = [worker EXCEPT ![h] = x]
          /\ UNCHANGED <<snaps, view>>
      BY <2>2 DEF Page, Set
    <3> QED
      BY <3>4, <3>5, <3>6, <3>7 DEF Known1
  <2>3. CASE Insert(h)
    <3>1. worker[h].entries \in SUBSET Models
      BY <1>1, <2>3 DEF Insert, WorkerType
    <3>2. snaps' \in Snapshots /\ view' \in Snapshots
      BY <2>3, <3>1 DEF Insert, Known1, Snapshots
    <3>3. [pc |-> "show", snaps |-> snaps'] \in WorkerType
      BY <3>2 DEF WorkerType
    <3> QED
      BY <2>3, <3>2, <3>3 DEF Insert, Set
  <2>4. CASE Show(h)
    <3>1. worker[h].snaps \in Snapshots
      BY <1>1, <2>4 DEF Show, WorkerType
    <3> QED
      BY <2>4, <3>1, IdleIs DEF Show, Set, Known1
  <2> QED
    BY <2>1, <2>2, <2>3, <2>4 DEF FetchStep
<1>4. Workers'
  BY <1>2, <1>3, WorkersKept
<1>5. Known1'
  <2>1. Snapshots' = Snapshots
    BY <1>2 DEF Snapshots, Hosts, Models
  <2> QED
    BY <1>3, <2>1 DEF Known1
<1> QED
  BY <1>2, <1>4, <1>5, RestKept

LEMMA HubKept ==
  ASSUME LibraryInv, NEW h \in Hosts, on_changed(h) \/ LinkUp(h) \/ rescan(h) \/ Drop(h) PROVE LibraryInv'
<1> USE DEF LibraryInv
<1>1. UNCHANGED <<world, disk, snaps, view, used, runs, del>>
  BY DEF on_changed, LinkUp, rescan, Drop, hub
<1>2. Workers'
  <2>1. schedule(h) \/ UNCHANGED worker
    BY DEF on_changed, LinkUp, rescan, Drop, hub
  <2> QED
    BY <1>1, <2>1, Scheduled, RestKept
<1>3. Nodes' /\ Counted'
  <2>1. node[h] \in NodeType /\ Right(node[h])
    BY DEF Nodes, Counted
  <2>2. UNCHANGED node \/ \E n \in {Request(node[h]), Scanner} : node' = [node EXCEPT ![h] = n]
    BY DEF on_changed, LinkUp, rescan, Drop
  <2>3. UNCHANGED node \/ \E n \in NodeType : Right(n) /\ node' = [node EXCEPT ![h] = n]
    BY <2>1, <2>2, Asked, ScannerIs
  <2> QED
    BY <1>1, <2>3, NumbersKept, RestKept
<1> QED
  BY <1>1, <1>2, <1>3, RestKept

LEMMA DeleteKept ==
  ASSUME LibraryInv, Delete \/ DeleteStep PROVE LibraryInv'
<1> USE DEF LibraryInv
<1>1. UNCHANGED <<world, used, runs, worker>>
  BY DEF Delete, DeleteStep, FsCheck, FsDelete, Forget, ForgetShow, AskScans, hub
<1>2. Copy' = Copy /\ Snapshots' = Snapshots /\ Hosts' = Hosts /\ Models' = Models
  BY <1>1 DEF Copy, Snapshots, Hosts, Models
<1>3. del \in DelType /\ DelType' = DelType
  BY <1>2 DEF Uses, DelType
<1>4. del.pc \in {"call", "remove", "forget", "ask", "show"} => del.rec \in Copy
  BY <1>3 DEF DelType, NoDelete
<1>5. del.pc = "show" => del.snaps \in Snapshots
  BY <1>3 DEF DelType, NoDelete
<1>6. ASSUME del' \in DelType PROVE Uses'
  BY <1>1, <1>2, <1>3, <1>6 DEF Uses
<1>7. CASE Delete
  <2>1. PICK r \in merge_shared(view) : del' = [pc |-> "call", rec |-> r]
    BY <1>7 DEF Delete
  <2>2. r \in Copy
    BY CopiesAre
  <2>3. Uses'
    BY <1>6, <2>1, <2>2 DEF DelType
  <2> QED
    BY <1>1, <1>7, <2>3, RestKept DEF Delete, hub
<1>12. CASE FsCheck
  <2>1. [del EXCEPT !.pc = "remove"] \in DelType
    BY <1>3, <1>12 DEF DelType, FsCheck, NoDelete
  <2>2. del' \in DelType
    BY <1>12, <2>1 DEF FsCheck, DelType
  <2>3. Uses'
    BY <1>6, <2>2
  <2> QED
    BY <1>1, <1>12, <2>3, RestKept DEF FsCheck, hub
<1>8. CASE FsDelete
  <2>1. [del EXCEPT !.pc = "forget"] \in DelType
    BY <1>3, <1>8 DEF DelType, FsDelete, NoDelete
  <2>2. del' \in DelType /\ disk' \subseteq disk
    BY <1>8, <2>1 DEF FsDelete, DelType
  <2>3. Uses' /\ Disks'
    BY <1>2, <1>6, <2>2 DEF Disks
  <2> QED
    BY <1>1, <1>8, <2>3, RestKept DEF FsDelete, hub
<1>9. CASE Forget
  <2>1. snaps' \in Snapshots
    BY <1>9 DEF Forget, Known1, Snapshots
  <2>2. del' \in DelType
    BY <1>4, <1>9, <2>1 DEF Forget, DelType
  <2>3. Uses' /\ Known1'
    BY <1>2, <1>6, <1>9, <2>1, <2>2 DEF Known1, Forget
  <2> QED
    BY <1>1, <1>9, <2>3, RestKept DEF Forget
<1>10. CASE ForgetShow
  <2>1. view' \in Snapshots /\ del' \in DelType
    BY <1>4, <1>5, <1>10 DEF ForgetShow, DelType
  <2>2. Uses' /\ Known1'
    BY <1>2, <1>6, <1>10, <2>1 DEF Known1, ForgetShow
  <2> QED
    BY <1>1, <1>10, <2>2, RestKept DEF ForgetShow
<1>11. CASE AskScans
  <2>1. \A h \in Hosts : node[h] \in NodeType /\ Right(node[h])
    BY DEF Nodes, Counted
  <2>2. node' \in [Hosts -> NodeType] /\ \A h \in Hosts : node'[h] \in {node[h], Request(node[h])}
    BY <1>11, <2>1, Asked DEF AskScans
  <2>3. NodeType' = NodeType
    BY <1>2 DEF NodeType
  <2>4. Nodes' /\ Counted'
    BY <1>2, <2>1, <2>2, <2>3, Asked DEF Nodes, Counted
  <2>5. Uses'
    BY <1>6, <1>11 DEF AskScans, DelType
  <2> QED
    BY <1>1, <1>11, <2>4, <2>5, RestKept DEF AskScans, hub
<1> QED
  BY <1>7, <1>8, <1>9, <1>10, <1>11, <1>12 DEF DeleteStep

LEMMA LibraryStep ==
  ASSUME LibraryInv, [Next]_vars PROVE LibraryInv'
<1>1. CASE \E h \in Hosts : NodeStep(h) \/ FetchStep(h) \/ on_changed(h) \/ LinkUp(h) \/ rescan(h) \/ Drop(h)
  BY <1>1, NodeStepKept, FetchStepKept, HubKept
<1>2. CASE Delete \/ DeleteStep
  BY <1>2, DeleteKept
<1>3. CASE \E h \in Hosts, m \in Models : Launch(h, m) \/ Runs(h, m)
  <2>1. /\ UNCHANGED <<world, disk, node, worker, snaps, view, del>>
        /\ used' \in SUBSET (Hosts \X Models) /\ runs' \subseteq used'
    BY <1>3 DEF Launch, Runs, hub, LibraryInv, Uses
  <2>2. Uses'
    <3>1. Hosts' = Hosts /\ Models' = Models /\ DelType' = DelType
      BY <2>1 DEF Hosts, Models, DelType, Copy, Snapshots
    <3> QED
      BY <2>1, <3>1 DEF Uses, LibraryInv
  <2> QED
    BY <2>1, <2>2, RestKept DEF LibraryInv
<1>4. CASE Remove
  <2>1. UNCHANGED <<world, disk, node, worker, snaps, view, del>> /\ used' = {} /\ runs' = {}
    BY <1>4 DEF Remove, hub
  <2>2. Uses'
    <3>1. Hosts' = Hosts /\ Models' = Models /\ DelType' = DelType
      BY <2>1 DEF Hosts, Models, DelType, Copy, Snapshots
    <3> QED
      BY <2>1, <3>1 DEF Uses, LibraryInv
  <2> QED
    BY <2>1, <2>2, RestKept DEF LibraryInv
<1>5. CASE Edit
  <2>1. UNCHANGED <<world, node, worker, snaps, view, used, runs, del>>
    BY <1>5 DEF Edit, hub
  <2>2. Disks'
    <3>1. disk \in SUBSET Models /\ Models' = Models
      BY <2>1 DEF LibraryInv, Disks, Models
    <3> QED
      BY <1>5, <3>1 DEF Edit, Disks
  <2> QED
    BY <2>1, <2>2, RestKept DEF LibraryInv
<1>6. CASE UNCHANGED vars
  BY <1>6, RestKept DEF vars, LibraryInv
<1> QED
  BY <1>1, <1>2, <1>3, <1>4, <1>5, <1>6 DEF Next

LEMMA LibraryInit == Init => LibraryInv
<1> SUFFICES ASSUME Init PROVE LibraryInv
  OBVIOUS
<1> DEFINE n == [Scanner EXCEPT !.pending = FALSE, !.notify = FALSE, !.assigned = 1, !.gen = 1,
                                !.snap = disk, !.promise = 0]
<1>1. disk \in SUBSET Models /\ node = [h \in Hosts |-> n]
  BY DEF Init
<1>2. n \in NodeType /\ Right(n)
  <2>1. Scanner \in NodeType
    BY ScannerIs
  <2>2. n \in NodeType
    BY <1>1, <2>1 DEF NodeType
  <2>3. n.gen = 1 /\ n.assigned = 1 /\ n.promise = 0
    BY <2>1 DEF NodeType
  <2> HIDE DEF n
  <2> QED
    BY <2>2, <2>3 DEF Right
<1> HIDE DEF n
<1>3. Nodes /\ Counted
  BY <1>1, <1>2 DEF Nodes, Counted
<1>4. Idle \in WorkerType
  BY DEF Idle, WorkerType
<1>5. Disks /\ Workers /\ Known1 /\ Uses
  BY <1>1, <1>4 DEF Init, Disks, Workers, Known1, Uses, Snapshots, DelType
<1> QED
  BY <1>3, <1>5 DEF LibraryInv

(* What the scanners, the fetch workers and the deletion keep true: the    *)
(* numbers of the scans, and snapshots and records of the fleet's models.  *)
THEOREM LibraryInvariant == Spec => []LibraryInv
<1>1. Init => LibraryInv
  BY LibraryInit
<1>2. LibraryInv /\ [Next]_vars => LibraryInv'
  BY LibraryStep
<1> QED
  BY <1>1, <1>2, PTL DEF Spec

(* For any fleet, mounts, pages and disturbances: every listing of the     *)
(* merged library is folded into one copy of a machine that lists it, and  *)
(* a generation number that models.scan promised is a later scan's         *)
(* (merge_shared, Scanner::request, run_once).                             *)
THEOREM LibraryListsTruly == Spec => []ListingIsTrue
<1>1. Spec => [](world \in Worlds)
  <2>1. Init => world \in Worlds
    BY DEF Init
  <2>2. world \in Worlds /\ [Next]_vars => (world \in Worlds)'
    <3> SUFFICES ASSUME [Next]_vars PROVE UNCHANGED world
      OBVIOUS
    <3> QED
      BY DEF vars, Next, NodeStep, Tick, Begin, Scan, Publish, Push, FetchStep, Take, Finished, Page,
             CallFails, GiveUp, Retry, Insert, Show, on_changed, LinkUp, rescan, Drop, Launch, Runs, Delete,
             DeleteStep, FsCheck, FsDelete, Forget, ForgetShow, AskScans, Remove, Edit, hub
  <2> QED
    BY <2>1, <2>2, PTL DEF Spec
<1>2. LibraryInv /\ world \in Worlds => ListingIsTrue
  <2> SUFFICES ASSUME LibraryInv, world \in Worlds PROVE ListingIsTrue
    OBVIOUS
  <2> USE DEF LibraryInv
  <2>1. TypeOK
    <3>1. ASSUME NEW h \in Hosts
          PROVE  /\ node[h].pc \in {"idle", "scan", "publish", "push"} /\ node[h].gen <= node[h].assigned
                 /\ worker[h].pc \in {"none", "take", "leaving", "page", "failed", "sleep", "insert", "show"}
                 /\ snaps[h] \subseteq Models /\ view[h] \subseteq Models
      <4>1. node[h] \in NodeType /\ worker[h] \in WorkerType
        BY DEF Nodes, Workers
      <4>2. worker[h].pc \in {"none", "take", "leaving", "page", "failed", "sleep", "insert", "show"}
        BY <4>1 DEF WorkerType
      <4> QED
        BY <4>1, <4>2 DEF NodeType, Counted, Right, Known1, Snapshots
    <3>2. del.pc \in {"idle", "call", "remove", "forget", "show", "ask"}
      BY DEF Uses, DelType, NoDelete
    <3> QED
      BY <3>1, <3>2 DEF TypeOK, Disks, Uses
  <2>2. PromiseIsLater
    <3> SUFFICES ASSUME NEW h \in Hosts, node[h].promise # 0 PROVE node[h].gen < node[h].promise
      BY DEF PromiseIsLater
    <3>1. node[h].gen \in Nat /\ node[h].assigned \in Nat
      BY DEF Nodes, NodeType
    <3> QED
      BY <3>1 DEF Counted, Right
  <2>3. FoldedOnce
    BY LibraryAssumption, Folded
  <2> QED
    BY <2>1, <2>2, <2>3 DEF ListingIsTrue
<1> QED
  BY <1>1, <1>2, LibraryInvariant, PTL
=============================================================================
