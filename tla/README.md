# Engine Console: a TLA+ verification project

Engine Console runs inference engines (vLLM, SGLang, TensorRT-LLM, llama.cpp,
Ollama) on a fleet of machines.  One *hub* process (`backend/crates/ec-hub`)
serves the API and the web page, keeps its state in SQLite, and talks to one
*node* process per machine (`backend/crates/ecnode`) over the stdin and stdout
of a child (`ecnode` itself on the local machine, `ssh ... ecnode` elsewhere).
The node runs Docker commands, reads and writes model files inside configured
roots, scans them, and pushes samples and inventories.

This directory holds TLA+ models of the parts of that system whose correctness
depends on the order in which things happen, the TLC configurations that check
them on small instances, and TLAPS proofs of what holds for every instance.
`PROJECT.json` lists the components, the runs, the definitions with the source
lines they stand for, the hazards, the findings and the theorems.

    tlc -workers 2 -config <run>.cfg <Module>        # a run
    tlapm <Module>Proofs.tla                          # the proofs of a component

Paths below are relative to `src/backend/crates/`.

## 1. Inventory

| Component | State it keeps | Operations | Hard because |
|---|---|---|---|
| Link flow control (`ec-hub/services/fleet.rs` `Req`, `LinkStream`; `ecnode/server.rs` `Request`, `Stream`) | credit and window counters, queues, end/cancel/finish flags on both sides | write, end, read, cancel; deliver DATA, credit, end, cancel, res; handler reads, sends, answers | two threads per side, FIFO pipes in both directions, credit returned in batches, cancel crossing the answer |
| Node link (`fleet.rs` `Link`, `NodeLink`) | link state, session, pid, writer, pending requests, sample, backoff | spawn, hello, read, drop, reap, back off; begin, reconnect, stop | callers on other threads share the state behind one mutex that is dropped between looks; processes that hang; stop during spawn |
| Request table and writer of the node (`server.rs`; `fleet.rs` `pending`) | requests by id on both sides, outgoing queue with two limits | begin, on_req, cancel, handler threads, writer thread, shutdown | a full queue blocks handlers, ids go round, answer against cancel |
| Engine HTTP relay (`ecnode/httpproxy.rs`, `services/nodehttp.rs`) | one exchange: socket, framing, decoder, line splitter | request, read, frame, feed, line, cancel | any cut of the bytes, timeouts, a cancel before there is a socket |
| Upload of a file (`ecnode/fsops.rs`) | the file, its `.incomplete`, write locks, flock | fs.write, fs.delete, fs.stat, fs.symlink, fs.put_small | power loss, two processes, delete against write |
| Policy and confinement (`ecnode/policy.rs`, `confine.rs`; `services/policy_check.rs`) | the policy file, the loaded policy, when to look again | find, parse, check, reload, open a root | threads reload at once, links are retargeted, the hub mirrors the validator |
| Node inventory and discovery (`ecnode/agent.rs`, `discovery.rs`) | the stored inventory, the last push | refresh, push, the check of a port | two threads rebuild one inventory; docker may not answer |
| Download queue (`services/downloads.rs`) | rows, worker tasks, intents, a semaphore | create, copy, pause, resume, cancel, delete, recover, shutdown | every call is several statements and awaits; workers die at any await |
| Transfer of one row (`downloads.rs`) | plan, done list, commit, files, links, ref | plan, stat, send, verify, record, link, ref | revision moves between runs; stale stat; crash between rename and record |
| Instance lifecycle (`services/lifecycle.rs`) | rows, the host lock, containers, inventory, supervisor round | create, start, stop, restart, remove, supervise, adopt | supervisor works on stale snapshots; commands time out and still run |
| Container run specs (`services/runspec.rs`, `ecnode/docker.rs`) | none (derived from listings and policies) | locate, mount, build, check twice | hub and node decide by rules of their own on facts of different age |
| External engines (`services/externals.rs`) | what vanished or was stopped, beside derived listings | list, stop, start | ids are derived, requests run at once |
| Library, scanner, deletion (`services/library.rs`, `ecnode/models.rs`) | scans per host, merged view | scan, push, paged fetch, refetch, delete | deletion decided on a scan that is old; pages of different generations |
| Fleet view (`services/fleet_status.rs`, `api/routes/hosts.rs`) | summaries, `seen`, the event bus | announce, watch, publish, stream, poll | publishers overtake each other, the bus drops |
| Lifecycle scripts (`services/scripts.rs`, `ecnode/scripts.rs`, `util/proc.rs`) | one run per script, jobs, output, followers | start, stop, follow, timeout, group kill | one at a time, output after exit, answers of an old step |
| Chat, arena, benchmarks, quality (`services/chat.rs`, `bench.rs`, `quality.rs`) | conversations, runs, matches, ratings, stored answers | relay of a stream, cancel, record, vote, flush, drain | client goes away mid-stream, hub stops mid-write |
| Adapters, YAML, wire format, fit estimator, metrics text | none | parse, format, estimate | large tables; not concurrent |
| Settings, keys, request security, listener | keys, sessions, connection slots | middleware checks, slots | limits |

How they interact: every hub service reaches a machine through its node link
(`NodeLink::call` and `open`), whose streams are flow controlled; a download
worker opens `fs.write` streams; the lifecycle issues `docker.*` and
`gateway.*` calls and reads the inventory that the node pushes; the library
reads the scans it pushes and asks for rescans; deletion asks the lifecycle and
the downloads what is in use.  All hub services share one SQLite connection
behind a mutex, so a statement is atomic and a sequence of statements is not.

What makes each component correct:

* Flow control: no honest peer is accused of overrunning a window, memory is
  bounded by the window, batched credit never stalls a stream, an `ok` answer
  means that every byte arrived, a slot on the node is always given back.
* Node link: nobody waits on a dead link, nothing stale is shown as live, at
  most one process per machine, stop leaves nothing behind, the link comes back.
* Upload: a file under its final name is whole and verified and, once reported,
  survives power loss.
* Queue: a row that says it runs has a worker, a row that says it does not has
  none, no permit is lost, every call returns.
* Transfer: links and refs lead only to whole files, hashed files are never
  mixtures, a row that is resumed completes.
* Requests: an answer reaches its own caller although ids are used again, a slot
  on either side comes back, a stream is whole and in order or known to lag.
* Policy, inventory: no operation reaches a policy file through a root, only
  engines are reached, policy and inventory converge to what is on the machine.
* Lifecycle: an instance is launched once, its row knows its gateway's port, no
  engine stays without its front door, startup resolves, crashes are noticed.
* Library, placement, externals: a promised listing is a later scan's, a copy is
  listed once, every file an engine's command names is readable in its container.
* Scripts: the second step follows a first that worked, a follower sees every
  line or how many it missed, the name is given back.
* Chat and benchmarks: a reply is recorded once, no run is left running, counts
  add up, a stop ends.

## 2. Modules

| Module | Models | Source |
|---|---|---|
| `LinkFlow` | one streaming request with an upload and a reply, hub and node side, the two pipes | `fleet.rs`, `server.rs` |
| `BoundedPipe` | what one direction promises: a byte pipe that never holds more than `Capacity` | abstract |
| `Downloads` | the queue: rows, workers, API calls, shutdown, crash, restart | `downloads.rs`, `app.rs` |
| `TransferSuite` | runs `LinkFlow` and `Downloads` | |
| `LinkRequests` | the two request tables, ids, cancels, the node's writer queue | `fleet.rs`, `server.rs` |
| `EngineHttp`, `EngineHttpMC` | one HTTP exchange with an engine through the node | `httpproxy.rs`, `nodehttp.rs` |
| `RequestSuite` | runs `LinkRequests` and `EngineHttp` | |
| `NodeLink` | one link's run() task, callers and node process | `fleet.rs` |
| `NodeFs` | one destination file, uploads and deletes, power loss | `fsops.rs` |
| `AtomicFile` | what a file of a model root promises its readers: replaced whole, never altered, kept once reported | abstract |
| `NodePolicy`, `NodePolicyMC` | the policy file, its reload, model roots, the hub's mirror of the validator | `policy.rs`, `confine.rs`, `policy_check.rs` |
| `Inventory`, `InventoryMC` | docker and ports to endpoints, the push, the check of a port | `agent.rs`, `discovery.rs`, `lifecycle.rs` |
| `NodeSuite` | runs `NodeLink`, `NodeFs`, `NodePolicy` and `Inventory` | |
| `Transfer` | one row from plan to completed, resumed over several commits | `downloads.rs`, `fsops.rs` |
| `Lifecycle`, `LifecycleMC` | the instances of one host: requests, supervisor, adoption, node | `lifecycle.rs` |
| `Library`, `LibraryMC` | scanners, fetch workers, the fold of shared storage, deletion | `library.rs`, `models.rs` |
| `ModelFiles` | what the scanner lists of a tree, per kind of root | `models.rs` |
| `Placement`, `PlacementMC` | from a listing to what an engine's container can read | `library.rs`, `runspec.rs`, `docker.rs` |
| `Externals`, `ExternalsMC` | engines the console did not start | `externals.rs`, `lifecycle.rs` |
| `Scripts`, `ScriptsMC` | jobs of one script name on hub and node, a follower | `scripts.rs` (both), `proc.rs` |
| `HubJobs` | chats and benchmarks over the end of the hub | `chat.rs`, `bench.rs`, `app.rs`, `server.rs` |
| `Arena` | votes that run at once | `chat.rs` |
| `Quality`, `QualityMC` | the calls of a quality run and its criteria | `quality.rs` |
| `Measure` | the times of a benchmark's requests | `bench.rs` |
| `FleetView`, `FleetViewMC` | link states, shared storage, event bus, fleet stream | `fleet.rs`, `fleet_status.rs`, `hosts.rs` |
| `WorkSuite` | runs the five modules above and `Externals` | |
| `LinkFlowProofs`, `RequestProofs`, `NodeProofs`, `TransferProofs`, `LifecycleProofs`, `LibraryProofs`, `ScriptProofs`, `WorkProofs` | the theorems | |

A *suite* checks several components in one run.  Its variable `part` says which
component a behaviour is of; `SuiteInit` chooses it, no step changes it, and the
variables of the others rest.  A small component borrows the suite's variables
through `INSTANCE ... WITH`; `Downloads`, `NodeFs` and `Arena` have variables of
their own, so that a proof can speak of them without the borrowed names.  The
suite repeats the fairness each component states, each conjunct limited to the
behaviours of its part.  Every property of a suite is of the form
`part = "x" => ...`, and says in its comment which component it is about.

A module `XMC` holds the values a run gives to X's constants.

### LinkFlow

State: the hub's `ReqState` (`send_credit`, `recv_window`, `unacked`, `queue`,
`ended`, `cancel_sent`, `finished`), the node's `RState` (`send_credit`,
`received`, `granted`, `consumed`, `chunks`, `ended`, `violation`,
`cancelled_flag`), and the wire as byte counts with the control frame behind
them.  `WriteCheck`, `WriteTake`, `WriteSend` are the steps of
`LinkStream::write` between its locks; `Consume` is `next()` with `consumed()`;
`ReadUpload`, `SendTake`, `SendPut`, `Answer` are the handler's.  A frame
boundary is chosen at delivery, so deliveries of every size up to `MAX_DATA`
happen.  Both directions implement `BoundedPipe`.

### Downloads

A call is its statements: `Look`, `CheckCapacity`, `CheckDuplicate`, `Insert`,
`Requeue`, `Spawn`; stop_task is `Take`, `Intend`, `Stop`, `Await`.  A worker
waits for a permit, works, completes, fails, or sees its token at an await.
`Abandon` is a client that goes away while its call waits, for a task or for the
cleanup that a delete asks for.
`ParkedHasNoWorker` excludes the behaviours in which a client went away while
its call waited: then it does not hold.

### LinkRequests

`Begin` takes a slot and an id of the hub; frames go through `toNode` and
`toHub`; the node's reader (`NodeRead`, `NodeReply`) refuses, starts a handler
or tells one to stop; a handler emits, answers, and is forgotten in a step of
its own, as handle() queues its answer before it removes the table entry.  A
caller that gives up leaves its slot taken until the node has answered.  A
conversation ends once; what follows is `NodeLink`.

### EngineHttp

An exchange is one request of `EngineHttpMC`'s list of answers (line ends and
characters cut by chunk ends, interim, empty and garbage heads, lengths too
short, exact and too long).  The engine writes it in any pieces; the node frames
by Transfer-Encoding, Content-Length or the end of the connection; the hub
decodes and splits incrementally.  `LinesAreWhole` and `BodyIsWhole` compare
what the reader gets with the same text taken as a whole.

### NodeLink

An action is one critical section of the `State` mutex or one step of run()
between two awaits.  Processes are named by the session that spawned them; a
timeout may fire whenever what it waits for has not happened.  The environment
misbehaves at most `MaxFaults` times (failed spawn, bad hello, crash, hang,
protocol error).

### NodeFs

One file and its partial; `data` per inode, `dir` and `disk` (what a power loss
leaves).  fs_write is the actions `Hold`, `OpenPartial`, `LockPartial`,
`CheckOffset`, `Receive`, `WrongSize`, `Sync`, hash, rename, in the order of
the code; fs_delete looks and unlinks in two steps.  The error of the fsync of the
directory is ignored by the code; that it fails is not modelled.  Seen through the file's name
only, all this is `AtomicFile`: `Publish` is the rename, `Confirm` the fsync of the
directory with the answer behind it, `Remove` the unlink.

### NodePolicy

Where the file is found, who may own it and what it may say; `current()` reads
the file's stamp, loads it outside the lock and publishes it, thread by thread;
`open_root` resolves a root again when it is used.  One symbolic link may be
retargeted at any time.  `MirrorAgrees` compares the hub's validator with the
node's over `Drafts`: the answers depend on the document and the link alone, so
they are compared in the states before any write.  Where they differ it is about a
root that the node alone refuses, by what it knows of its home, its policy file or
the link, and the node's answer is that root's.

### Inventory

The machine (docker, ports, policy) changes by itself.  `refresh` reads the policy
and docker, probes the ports by that policy, stores; it runs in the inventory loop
and in every http.request whose port is unknown, and nothing orders the two.  The
push goes to the hub by change.  `witness` is history: which containers ran when
docker was asked and which ports showed a listing when they were probed, so that
the property can compare what a request is let through to with the machine itself
rather than with what `refresh` made of it.

### Transfer

Contents are sequences of chunks named by the commit they come from, so a
mixture can be told from a whole file.  A run of the worker is `PlanDownload`,
`PlanHfCopy` or `PlanPlainCopy`, `Stat`, then per file `Skip` or `Open`,
`Chunk`, `End`, `Record`, then `Link` per file, `PutRef`, `Completed`.  It may
be interrupted anywhere; the node may finish an upload whose run is over
(`LateEnd`); somebody's cleanup may delete a partial, also the one being written,
whose upload then fails; the revision may move.  A
resumed run lists the revision again and may append to a partial of another
commit: the node's hash refuses the mixture and deletes the partial, so the row
completes.

### Lifecycle

Rows, engine and gateway containers of one host, ports, the inventory pushed
last, the host's lock, requests as sequences of node commands, the supervisor's
round with the snapshot it began with, commands whose answer nobody waits for
any more.  `Foreign` lists the port sets that others may hold; the launch tries
`Attempts` ports.  A member of `Plans` says how often each caller calls and whether
the supervisor makes its rounds beside them.  `served` is a history variable: instances launched and not
touched since.  The engine's health, idle time and log phases are
nondeterministic.

### Library, ModelFiles, Placement, Externals

`Library`: per host a scanner with numbered generations, a link, a dirty flag, a
fetch worker that pages through models.list, the last good snapshot; one merged
view, in which a copy reached over NFS is folded into the owner's; one deletion.
A `world` is a fleet: its machines, models and addresses, which models are in a
folder that engines mount whole, and how many disturbances there are.  A pass
publishes and pushes in two steps.  The node deletes only what no running
container of its own mounts (`FsCheck`, then `FsDelete`).
`ModelFiles` is what models.rs lists of a tree of each kind of root (hub, gguf,
ollama, plain), with the names, splits and projectors.  `Placement` goes on from
there: the hub finds the copy a reference means, builds mounts, model path and
environment for each engine, checks the spec as it believes the node will
(`Launch`, `RunSpec`), and the node checks it again (`Refusals`) by the policy it
has by then.  The lengths and characters of names are left out.  There hub and
node agree except that validate_run_spec looks only at the prefix of a label's
key and the length of its value, where plan_run has a pattern for the key and
refuses control characters in the value, and that only the node sees a host path
with `:` or `,`.  `Externals` derives a listing from the last inventory, with
ids from slugs, and remembers what was stopped from here.

### Scripts

A job is `up`, or `down` then `up`; each step is one scripts.run.  On the node a
thread runs the leader of a process group and relays its lines, a timer and the
cancel hook stop the group.  `setup` gives each job its action, whether a browser
may follow it, how many lines a leader writes and whether a leader may close its
output and run on; it never changes.  A run whose output has ended waits for the
leader (`pc = "slot"`) with the timer and the cancel hook still armed.  Lines are
counted: line k of a job is k.

### HubJobs, Arena, Quality, Measure, FleetView

`HubJobs`: a chat is its handler, its recorder and its write; a benchmark is its
row, its task and its token; the hub drains, aborts, flushes, joins and goes
down, or crashes, and starts again.  `Arena`: each statement of vote() is atomic
and nothing more is; a rating is the set of votes that went into it, because its
number is a float.  `Quality` and `Measure` compute over bounded inputs and are
compared with reference definitions.  `FleetView`: three steps of `publish`
(read, note, send), a bus of `BusQueue` events, a stream that also polls; and which
roots of two machines are one storage.  A root lives on the mount that names it,
which is where the node finds its real path; only an NFS mount that the root's path
leads through is followed.

## 3. Runs

| Run | Instance | Shows |
|---|---|---|
| `transfers` | WINDOW 3, batches of 2, DATA of at most 2, streams of 5; two rows on two places, one permit, one caller, three calls, one failure, one restart, one abandoned call | credit: `NobodyAccused`, `NoCreditStall`, `OkIsWhole`, `PipesAreBounded`, `BytesArrive`; queue: `RowsHaveWorkers`, `QueueMoves` |
| `requests` | three requests, one a stream of two events, two slots on each side, two ids, a queue of two, one odd event; nine answers against limits of two to five | `AnswersMatch`, `LinesAreWhole`, `SlotsComeBack`, `ExchangeEnds` |
| `node` | one caller, one request, two faults; two uploads of two chunks, a delete, two versions, one power loss; two threads, two writes, one retarget; three containers, two ports, two changes | `SessionSafe`, `FilesAreSafe`, `RootsHoldNoPolicy`, `MirrorAgrees`, `OnlyEnginesAreReached`, `FileIsAtomic`, `LinkComesBack`, `PolicyConverges`, `HubCatchesUp` |
| `transfer` | three files (two of one content, one small without hash that shrinks), two commits, all kinds and layouts, two faults | `SnapshotsAreWhole`, `NoMixture`, `RowCompletes` |
| `transfer_files` | the same, one kind and layout | refutes `CompletedIsCommit` |
| `work` | two chats, one benchmark, one piece, one level, one stream slot; two matches that share a model, two votes; two rounds, two repeats; two requests of up to three events; two machines, four roots on the one that mounts (plain, a link into the mount, out of it, within it), two changes, a bus of one event; three engines in docker, two of one slug, one outside, one request, two changes | `RecordsAddUp`, `NumbersAddUp`, `SharesAreReal`, `EnginesAreListedOnce`, `HubStops`, `StreamConverges` |
| `lifecycle` | one instance, two ports of which none, one or both are taken, two requests of up to two calls each | `EnginesAreAttended`, `FrontDoorKnown` |
| `lifecycle_faults` | two requests of one call each, or one beside the supervisor's rounds; one fault, one or both ports taken | `RequestsEnd`, `StartupResolves`, `CrashNoticed` |
| `library` | two machines and one model; the same with an address both report, one disturbance; one machine and two models (two pages), one in a shared folder; else two disturbances | `ListingIsTrue`, `SnapsConverge` |
| `library_in_use` | the same | refutes `NotPulled` |
| `placement` | two machines, one importing the other's disk, two edits | `FilesReachable` |
| `scripts` | two jobs without output, one a restart; or one job of one line that a browser follows with a buffer of one; or one whose leader may close its output and run on; one odd event | `StepsFollow`, `LinesSeen`, `NamesReturn` |

Why the bounds are enough.  Streams are longer than the window and batches do
not divide it, so a batch is held back while the sender is out of credit.  Two
ids for three requests make the ids go round while an orphan is under way.  Two
faults give a fault during the recovery from a fault.  Two rows and one permit
give a row that waits while another works, is parked, and is resumed.  Two
commits give a resumed row a partial of another commit.  Two calls of two
requests on one instance meet at every pair of their awaits; with both ports
taken every attempt of a launch fails.  With two callers one waits for the host's
lock while the other's holder is refused, goes away or crashes.  Two pages are enough for a scan between
two pages.  A bus of one event drops at the second.  Where a theorem states the
property (section 5), the bounds matter only for finding mistakes early.

Each property has a mutant of the code's definitions (`PROJECT.json`, `mutants`)
that makes TLC refute it under the same instance.

Deadlock checking is off where the system really may stop: a link that was
stopped, a script job that ended, a hub that is down.

### Fairness

* `LinkFlow`: deliveries, credit, the handler's steps and its timeout are fair
  (threads run; a blocked handler has a timeout).  `BytesArrive` also assumes
  `CallerFairness`: the caller goes on writing and reading.
* `Downloads`: handlers and workers are scheduled (weak); a waiter of tokio's
  FIFO semaphore gets a permit that becomes free again and again (strong); a
  transfer ends; a shutdown goes on and the hub is started again.
* `LinkRequests`: reader and writer threads run, a handler that does not hang
  answers and is forgotten, a plain caller has a timeout.  A stream's caller has
  none, so `SlotsComeBack` excepts a stream nobody cancels whose handler hangs.
* `EngineHttp`: node thread, hub reader and the arrival of a cancel.  The engine
  is fair in the steps of `Engine`, which may also fall silent: then only the
  node's timeouts end the exchange.
* `NodeLink`: the runtime polls run() and its timers, a process whose stdin is
  closed and that does not hang exits, a healthy node answers.
* `NodePolicy`: time passes and requests keep coming (each thread takes steps
  again and again), as the policy is only looked at when it is used.
* `Inventory`: the inventory loop runs.
* `Transfer`: worker and node are scheduled and a user resumes a failed row.
* `Lifecycle`: requests and supervisor are scheduled, a waiter gets the host's
  lock, inventories are pushed, a lost link returns, time passes (`Age`).
* `Library`: scanners, fetch workers, pushes, lost links and the deletion go on.
* `Scripts`: hub and node steps, the timer, the end of a stop, the follower.
* `HubJobs`, `FleetView`: the phases of the stop, aborts and writes of chats,
  tasks of runs; publishers, the watcher, and the stream's wake-up or poll.

`Placement`, `Arena`, `Quality`, `Measure` and `Externals` state none: only invariants
are checked of them.

## 4. Findings

Two runs are refuted by TLC.

1. `transfer_files` (`CompletedIsCommit`): in a root of plain files a row resumed
   after its revision moved keeps the same-sized file it finished at the old
   commit and reports the new one.  The done list holds the destination, neither
   commit nor hash.
2. `library_in_use` (`NotPulled`): delete_copy looks at who uses a copy and then
   awaits fs.delete; an instance launched in between loses its model, which
   docs/OPERATIONS.md and docs/SECURITY.md say cannot happen.  The node refuses what
   a container of its own mounts; that leaves a container that mounts a folder
   above, one on another machine, and one that starts after that check.

Further definitions state what a doc or comment says and what the code does not
do.  No run lists them; put the name in a copy of the cfg to see the behaviour.

| Definition | Instance | Behaviour |
|---|---|---|
| `FileIsVerified` (`NodeFs`) | `Procs` of two, as a run of `NodeFs` itself | between open and flock of the partial the other node process renames it; the second upload truncates the finished file |
| `CompletedIsFinal` (`Downloads`) | `transfers` | a graceful shutdown sets a completed row whose task is still registered to paused |
| `ParkedHasNoWorker` (`Downloads`) | `transfers` with two callers | cancel() stops the task registered at that moment, a concurrent resume registers another |
| `FailedMeansDown` (`Lifecycle`) | `lifecycle` | an inventory older than a launch makes the supervisor fail an instance that runs |
| `StoppingEnds` (`Lifecycle`) | `lifecycle_faults` | a stop whose request goes away before docker.stop leaves the row stopping |
| `NoInventedFailure` (`Inventory`) | `node`, as a run of `Inventory` | an inventory without containers, because one docker call failed, is believed |
| `RequestsServed` (`Library`) | `library` | a refetch asked for while the worker is leaving is taken up by nobody until the next push |
| `FilesReachable` | `placement` with `AnyCoordinates = TRUE` | a copy named by its owner's root and path on an importing machine is found, but the root of that id on the importing machine is mounted |
| `StoppedStaysListed` (`Externals`) | `work`, as a run of `Externals` | an engine stopped from here drops out of a listing that was derived meanwhile |
| `NamesReturn` | `scripts` with `ChattyChild = TRUE` | a background child that keeps writing keeps the script's name taken |
| `StoppedWhole` (`Scripts`) | `scripts` | a child that ignores SIGTERM survives its group: only a leader that outlives the grace is followed by a kill |
| `VotedOnce` (`Arena`) | `work`, as a run of `Arena` | two votes on one match at once both count |

## 5. Proofs

Every theorem holds for all values of the constants that satisfy the assumptions
of the component, whatever the bounds on faults, calls and changes.  Each proof
has the same shape: an inductive invariant, a lemma that the initial states have
it, one lemma (or step) per action that it is kept, and the theorem by PTL.  The
invariants were checked by TLC on the runs' instances before they were proved.
A theorem about a suite's property splits on `part`: its own component keeps the
invariant, every other part leaves the component's variables alone.

### LinkFlowProofs

*Flow control*, under `FlowConstants` (positive sizes; a batch is at most a
window, a window at most `MAX_CREDIT`): `TypeCorrect`, `CreditConserved`,
`HonestPeersSafe`, `CreditNeverStalls`, `OkMeansWhole`, and the refinement of
`BoundedPipe` in both directions.  Conservation of credit is not inductive:
`FlowInv` adds `Phases` (the order in which flags and control frames change),
`Positions` (where every byte of the two streams is) and `Batches` (less than a
batch is held back).  The refinement maps `put` to the bytes the sender's caller
has handed over and `got` to those the other end's reader has taken; every step
is a `Put`, a `Get` or a stutter (`UploadRefinesPipe`, `DownloadRefinesPipe`,
and `RequestRefinesPipes` for both).

*Download queue*, under `QueueConstants` and a non-empty `Places`: `QueueIsSafe`
for behaviours in which no two calls in progress name one row (`OneAtATime`),
`SuiteRowsHaveWorkers` for one caller.  Without that restriction the property
does not hold (section 4).  `QueueInv` says which call owns which row and task
(`Owned`, `Attended`, `FreshRows`, `TaskNumbers`), what a stopping call has
already seen (`Quiet`), and what the hub's phase excludes (`HubPhases`).

### RequestProofs

`AnswersAreOwn` under `RequestConstants` (finite requests, ids at least as many
as slots).  The wire carries ids and ids are used again, so the invariant says of
every frame under way that it bears the id of its request (`Frames`), that no
other live request bears it (`Distinct`) and none that begins meanwhile can
(`Uniquely`, `CancelsFit`); that a request the node has not read has no other
frame (`Asked`); that an answer is its handler's last frame (`Answered`,
`Emitted`); and that got, queue and wire of a stream together are its events in
order (`Ordered`, `Whole`).

### NodeProofs

* `LinkInvariant`, `LinkIsSafe`, `SuiteSessionSafe` under `LinkConstants`: where
  run() is when the state says "up" and when a writer is open (`Phases`), what
  pid means between spawn and reap (`Processes`), what each session ended with
  (`Budget`, so that the model's finite set of sessions suffices).
* `FsInvariant`, `FilesAreVerified`, `SuiteFilesSafe` under `FsConstants` and
  `OneNode`: who holds the flock (`Alone`), what descriptor and names stand for
  (`Fresh`, `Apart`), what was hashed and synced (`Digests`, `Files`).  `OneNode`
  is a real restriction: with two node processes on one file it fails.
* `SuiteFileIsAtomic`: under the same assumptions, the file operations implement
  `AtomicFile`.  `now` maps to the content `dir` leads to, `kept` to the content
  `disk` leads to.  Every step but the rename, the sync of the directory, the
  unlink and a loss of power is a stutter, because `FsInv` keeps the inode that
  is written apart from those the name leads to.  `AckedIsPublished`: the
  abstract file alone promises what a caller who got its answer relies on.
* `SuiteRootsHoldNoPolicy` under `PolicyConstants`: whatever is obeyed was
  accepted field by field (`Accepted`), and a thread's root was checked against
  the policy file's place after it was resolved (`Handling`).
* `SuiteEnginesReached` under `InventoryConstants`: what each thread made of docker
  and the ports, and what was stored, agrees with the machine as it was when they
  were asked (`Callings`, `Sound`); so a port that a request reaches was an
  engine's or a gateway's then.
* `SuiteMirrorAgrees`, for any documents of `DocType`: the hub's validator answers
  as the node's would on a machine of which nothing is known, and the node's answer
  differs only about a root that the node alone refuses.  Both report a first fault; `FirstsAgree` reduces that to
  the fields before it, and the fields are then compared one by one, roots and
  scripts by the first member that is wrong (`RootsAgree`, `ScriptsAgree`).

### TransferProofs

`SnapshotsStayWhole`, `FinishedIsOneCommit` under `TransferConstants`: every
partial is a beginning of what its source may send (`Prefixes`, `Source`), what a
run skips is there (`Planned`), a link's file was whole when it was made
(`Linked`), a hashed file has its hash (`Hashes`), and paths share a blob only
when they share their content (`SameBlob`).

### LifecycleProofs

`LaunchesAreAttended`, `ServingIsReachable` under `LifecycleConstants`, for any
instances, ports, requests and faults: who holds the host's lock (`Locks`),
nobody touches an id that create has just handed out (`Newborn`), what row and
gateway of a launched instance say while its request is on its way back
(`Serving`), which command the request that took the gateway is at (`Headless`),
what the supervisor's round may still do (`Round`).

### LibraryProofs

`LibraryListsTruly` under `LibraryAssumption` (the owner's disk is not imported;
only hosts have addresses): until a scan begins after a request, the promised
number is one more than the last one given out (`Counted`); a listing folds into
exactly one copy because an owner is folded no further.

### ScriptProofs

`ScriptSteps`, `ScriptLines` under `ScriptConstants`.  An answer reaches the hub
after the link may have been cut, the job given up and the run stopped, so
`ScriptInv` follows one step of one job from request to answer (`Steps`,
`Named`): "rc 0" is an answer only of a run that returned, to the step the job is
still at.  `Follower`: a job that has ended does not grow.

### WorkProofs

`HubInvariant`, `EndedRowsStay` (an action property: a benchmark row that ended
is not changed again), `ArenaInvariant` and `SuiteRecordsAddUp`, under
`JobConstants` (finitely many chats) and `ArenaConstants` (finitely many voters).
That a reply is recorded once rests on what of it exists while handler, recorder
and write are where they are (`Replies`), on what the limiter and flush() count
(`Counts`), and on the order in which the hub ends (`HubOrder`); that no run is left
on which task a row has (`Runs`).  For the arena, what each vote read is a set of
votes that already count for its model (`ReadTruly`), which is why a lost update
loses a rating change but never a game.

`SuiteEnginesListedOnce` under `ExternalsConstants`, for any containers, ports,
scripts, requests and changes of the machine.  The assumptions on names: names
of containers are told apart by the hash behind a slug, the engines are ordered,
and `About` gives a container at most one script.  policy.rs does not forbid two
scripts whose patterns overlap, and then the theorem does not speak.  `EngineInv`
says that an id occurs once in what is remembered of earlier listings (`Memory`)
and in what is shown, that a container that runs stands for one entry that is not
stopped (`Listing`), and which instance a request is about (`Requests`).

### Only model-checked

* Liveness: `BytesArrive`, `QueueMoves`, `SlotsComeBack`, `ExchangeEnds`,
  `LinkComesBack`, `PolicyConverges`, `HubCatchesUp`, `RowCompletes`, `HubStops`,
  `StreamConverges`, `RequestsEnd`, `StartupResolves`, `CrashNoticed`,
  `SnapsConverge`, `NamesReturn`.  Fairness and ENABLED are outside the prover.
* `LinesAreWhole`, `NumbersAddUp`: what folds and SelectSeq compute over every
  input is induction over data.
* `FilesReachable`: rests on recursive functions over trees and paths.
* `SharesAreReal`: holds of the run's mounts and not of every one: a mount of an
  export that is itself mounted is followed one hop only.  A link that stays
  inside a mount is not seen by the code either (`AsWritten` excepts it).

## 6. Not modelled

Listed with reasons in `PROJECT.json` under `components`.  Wire framing and
field whitelisting, the YAML and Python compatibility layers and the adapters'
text parsers are character-level code; facts about GPUs, memory and disks are
readers of other programs' output; the frontend shows what the API returns;
floating-point coefficients of the fit estimator are not representable.  These
parts, with the presentation code inside the modelled services, are most of the
repository's lines: the map covers the stateful code and little else.

## 7. What is left

1. An abstract request that is answered once, implemented by `LinkRequests`;
   `AnswersAreOwn` states its content as an invariant.
2. Which step may change a row to ready or failed (`Lifecycle`), and which states
   follow which (`Downloads`).  The diagrams one would draw are not true of the
   code: concurrent calls overwrite each other's states (section 4), so such a
   property first needs a decision about what is intended.
3. Request security: the order of the middleware's checks, stream slots, key
   revocation.  The desktop launcher's start and stop.
4. The adapters' parsers and the YAML layer, which are the larger part of the
   lines the map does not cover.
