------------------------------ MODULE WorkSuite ------------------------------
(* The hub's long-running work: chats and benchmarks (HubJobs), and, model-  *)
(* checked in the same run, arena votes (Arena), quality runs (Quality), a  *)
(* benchmark's times (Measure), what a browser sees (FleetView) and the     *)
(* engines others started (Externals).                                     *)
EXTENDS HubJobs, QualityMC, FleetViewMC, ExternalsMC
CONSTANTS
  h1, h2, b1,
  Match, Voter, Models, Model,    \* Arena
  Name, Order, About, Script, BarePort, Flaky, Op, Changes    \* Externals
VARIABLES
  part,  \* the component a behaviour is of
  match, vote, rating, games,    \* Arena
  run, answers, changes, inv, up, busy, derived, shown, shownAt, op, owed    \* Externals

\* Two matches that share a model, two votes; the arena has its own variables.
MCModels == [m |-> <<"x", "y">>, n |-> <<"x", "z">>]
Votes == INSTANCE Arena WITH None <- "none"
arena == <<match, vote, rating, games>>
ArenaUnused == match = "unused" /\ vote = "unused" /\ rating = "unused" /\ games = "unused"
\* Three engines in docker, one outside.
Ext == INSTANCE Externals
\* Two rounds of up to two calls, two repeats.
Eval == INSTANCE Quality WITH
    Tools <- MCTools, Fold <- MCFold, Replies <- MCReplies, Answers <- {"", "yes"},
    Criteria <- MCCriteria, Expected <- MCExpected, MaxRounds <- 2, Repeats <- 2, pc <- hub,
    round <- ready, messages <- chat, calls <- slots, perName <- job, answer <- inflight,
    error <- flusher, total <- usage
\* Two requests of up to three token events.
Timing == INSTANCE Measure WITH
    Requests <- 2, MaxTicks <- 2, MaxEvents <- 3, now <- hub, pc <- ready, last <- chat,
    stat <- slots, events <- job, stats <- inflight
\* Two machines that share a bridge address; `b` mounts what `a` exports.
Fleet == INSTANCE FleetView WITH
    Host <- {"a", "b"}, Order <- MCOrder, Address <- MCAddress, Mounts <- MCMounts,
    Roots <- MCRoots, BusQueue <- 1, Changes <- 2, mounts <- hub, state <- ready, old <- chat,
    latest <- slots, changes <- job, pub <- inflight, seen <- flusher, bus <- usage, last <- conv

ASSUME ArenaConstants == IsFiniteSet(Voter) /\ Models \in [Match -> Model \X Model]
ASSUME EnginesAssumption == Ext!ExternalsConstants

engines == <<run, answers, changes, inv, up, busy, derived, shown, shownAt, op, owed>>
suiteVars == <<part, vars, arena, engines>>
HubUnused == hub = "unused" /\ ready = "unused" /\ chat = "unused" /\ slots = "unused" /\ job = "unused" /\ inflight = "unused" /\ flusher = "unused" /\ usage = "unused" /\ conv = "unused" /\ messages = "unused" /\ row = "unused" /\ bench = "unused" /\ token = "unused" /\ life = "unused"
SuiteInit ==
  /\ Ext!Init
  /\ \/ part = "jobs" /\ Init /\ ArenaUnused
     \/ part = "arena" /\ Votes!Init /\ HubUnused
     \/ part = "quality" /\ Eval!Init /\ ArenaUnused /\ conv = "unused" /\ messages = "unused" /\ row = "unused" /\ bench = "unused" /\ token = "unused" /\ life = "unused"
     \/ part = "measure" /\ Timing!Init /\ ArenaUnused /\ flusher = "unused" /\ usage = "unused" /\ conv = "unused" /\ messages = "unused" /\ row = "unused" /\ bench = "unused" /\ token = "unused" /\ life = "unused"
     \/ part = "view" /\ Fleet!Init /\ ArenaUnused /\ messages = "unused" /\ row = "unused" /\ bench = "unused" /\ token = "unused" /\ life = "unused"
     \/ part = "externals" /\ HubUnused /\ ArenaUnused
SuiteNext ==
  \/ part = "jobs" /\ Next /\ UNCHANGED <<part, engines, arena>>
  \/ part = "arena" /\ Votes!Next /\ UNCHANGED <<part, engines, vars>>
  \/ part = "quality" /\ Eval!Next /\ UNCHANGED <<part, engines, arena, conv, messages, row, bench, token, life>>
  \/ part = "measure" /\ Timing!Next /\ UNCHANGED <<part, engines, arena, flusher, usage, conv, messages, row, bench, token, life>>
  \/ part = "view" /\ Fleet!Next /\ UNCHANGED <<part, engines, arena, messages, row, bench, token, life>>
  \/ part = "externals" /\ Ext!Next /\ UNCHANGED <<part, vars, arena>>

\* The fairness each component states, while it is the one that runs.
SuiteFairness ==
  /\ WF_vars(part = "jobs" /\ Ends)
  /\ \A c \in Chat : WF_vars(part = "jobs" /\ Aborted(c)) /\ WF_vars(part = "jobs" /\ Write(c)) /\ WF_vars(part = "jobs" /\ Return(c))
  /\ \A r \in Run : WF_vars(part = "jobs" /\ CancelRun(r)) /\ WF_vars(part = "jobs" /\ (Begin(r) \/ Complete(r) \/ Done(r)))
  /\ WF_(Fleet!vars)(part = "view" /\ (Fleet!Woken \/ Fleet!Polled)) /\ \A p \in {"a", "b"} \cup {"watcher"} : WF_(Fleet!vars)(part = "view" /\ Fleet!Publish(p))
  /\ \A h \in {"a", "b"} : WF_(Fleet!vars)(part = "view" /\ Fleet!Watch(h))

SuiteSpec == SuiteInit /\ [][SuiteNext]_suiteVars /\ SuiteFairness

------------------------------------------------------------------------------
(* HubJobs: a reply is recorded once, and no run is left as running by a   *)
(* hub that is up or went down in order.  Arena: each model's number of     *)
(* games is the number of votes on it.                                     *)
RecordsAddUp ==
  /\ part = "jobs" => TypeOK /\ RecordedOnce /\ NoRunLeft
  /\ part = "arena" => Votes!GamesAddUp

(* HubJobs: a stop comes to its end, whatever the engines do.              *)
HubStops == (part = "jobs" /\ Draining) ~> (part = "jobs" => Stopped)

(* Quality, Measure: the number a call got is its place among the calls of  *)
(* its name, and the times of a request add up to what was seen of it.     *)
NumbersAddUp ==
  /\ part = "quality" => Eval!PositionsAgree
  /\ part = "measure" => Timing!TimesAddUp

(* FleetView: a mount the hub shows as shared leads to the disk it names.  *)
SharesAreReal == part = "view" => Fleet!SharesAreReal

(* Externals: every engine that runs is listed once, under one id.         *)
EnginesAreListedOnce == part = "externals" => Ext!EnginesAreListedOnce

(* FleetView: a streaming client ends with the fleet as it is.             *)
StreamConverges == <>[](part = "view" => Fleet!Shown)
==============================================================================
