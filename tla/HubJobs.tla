------------------------------- MODULE HubJobs -------------------------------
(***************************************************************************)
(* What the hub has in flight when it stops: streamed and plain chat       *)
(* replies (services/chat.rs, api/deps.rs) and benchmark runs              *)
(* (services/bench.rs), the drain of the listener (server.rs) and the      *)
(* order of the lifespan's end (app.rs), a crash and the next start.       *)
(*                                                                         *)
(* A handler or a task can be dropped at an await and nowhere else; every  *)
(* statement of the store is atomic.  A reply is its number of pieces.     *)
(***************************************************************************)
EXTENDS Naturals, Sequences, FiniteSets, FiniteSetsExt

CONSTANTS
    Chat,        \* chat requests
    Run,         \* benchmark runs
    Pieces,      \* pieces of text the engine sends at most
    Levels,      \* concurrency levels of a run
    Streams      \* streams one key may hold (SseLimiter)

ASSUME JobConstants == IsFiniteSet(Chat) /\ Streams \in Nat

VARIABLES
    hub,       \* up, draining, aborting, flush, bench, joining, down, crashed
    ready,     \* "yes" or "no": the instance is ready
    chat,      \* each request: its handler, the pieces it got, its recorder
    slots,     \* stream slots held
    job,       \* the write of a reply: the statement it is at
    inflight,  \* replies handed off and not written (ReplyWriter)
    flusher,   \* flush(): where its loop is; "notified" once woken
    usage,     \* rows of usage per request
    conv,      \* "alive" or "gone": the conversation all requests belong to
    messages,  \* its rows: who wrote which role
    row,       \* the state of each row of bench_runs
    bench,     \* the task of each run
    token,     \* its cancellation token: "no" or "cancelled"
    life       \* 1, then 2: the hub is started again once

vars == <<hub, ready, chat, slots, job, inflight, flusher, usage, conv, messages, row, bench, token, life>>
store == <<usage, conv, messages>>
chats == <<chat, slots, job, inflight, flusher, store>>
benches == <<row, bench, token>>

Idle == [pc |-> "none", mode |-> "stream", got |-> 0, rec |-> "none"]
Plain == {c \in Chat : chat[c].mode = "plain"}    \* the requests with stream: false

TypeOK ==
    /\ hub \in {"up", "draining", "aborting", "flush", "bench", "joining", "down", "crashed"}
    /\ \A c \in Chat : chat[c].pc \in {"none", "opening", "live", "closing", "writing", "ended"}
    /\ \A c \in Chat : job[c] \in {"none", "usage", "user", "assistant"}
    /\ slots \in 0..Streams /\ inflight \in 0..Cardinality(Chat)
    /\ flusher \in {"no", "registered", "counted", "waiting", "notified"}
    /\ \A r \in Run : /\ row[r] \in {"none", "running", "completed", "failed"}
                      /\ bench[r].pc \in {"none", "spawned", "level", "update", "emit", "gone"}

Init ==
    /\ hub = "up" /\ ready = "yes"
    /\ chat = [c \in Chat |-> Idle] /\ slots = 0
    /\ job = [c \in Chat |-> "none"] /\ inflight = 0 /\ flusher = "no"
    /\ usage = [c \in Chat |-> 0] /\ conv = "alive" /\ messages = {}
    /\ row = [r \in Run |-> "none"] /\ bench = [r \in Run |-> [pc |-> "none", at |-> 0]] /\ token = [r \in Run |-> "no"]
    /\ life = 1

Serving == hub \in {"up", "draining"}    \* the handlers run; new requests only while "up"
Alive == hub \notin {"down", "crashed"}

------------------------------------------------------------------------------
(* A chat request: slot, instance and conversation are checked, the engine *)
(* is asked, its lines are relayed and observed.                           *)

Held(c) == c \notin Plain /\ chat[c].pc \in {"opening", "live", "closing", "writing"}

\* Refusals end the request and leave nothing.
Ask(c, mode) ==
    /\ hub = "up" /\ chat[c].pc = "none"
    /\ IF ready = "yes" /\ conv = "alive" /\ (mode = "plain" \/ slots < Streams)
       THEN /\ chat' = [chat EXCEPT ![c].pc = "opening", ![c].mode = mode]
            /\ slots' = IF mode = "plain" THEN slots ELSE slots + 1
       ELSE chat' = [chat EXCEPT ![c].pc = "ended"] /\ UNCHANGED slots
    /\ UNCHANGED <<hub, ready, job, inflight, flusher, store, benches, life>>

\* The handler's end gives the slot back.
EndWith(c, rec) ==
    /\ chat' = [chat EXCEPT ![c].pc = "ended", ![c].rec = rec, ![c].got = 0]
    /\ slots' = IF Held(c) THEN slots - 1 ELSE slots

\* `submit`: the reply goes to the blocking pool, once.
Submit(c) == job' = [job EXCEPT ![c] = "usage"] /\ inflight' = inflight + 1
Take(c) == chat[c].rec = "held"
\* The engine's answer: an error ends the request; a stream starts its
\* recorder; a plain answer is written by the handler itself.
Fail(c) ==
    /\ chat[c].pc = "opening" /\ Alive
    /\ EndWith(c, "none")
    /\ UNCHANGED <<hub, ready, job, inflight, flusher, store, benches, life>>
Opened(c) ==
    /\ chat[c].pc = "opening" /\ c \notin Plain /\ Alive
    /\ chat' = [chat EXCEPT ![c].pc = "live", ![c].rec = "held"]
    /\ UNCHANGED <<hub, ready, slots, job, inflight, flusher, store, benches, life>>
Answered(c) ==
    /\ chat[c].pc = "opening" /\ c \in Plain /\ Alive
    /\ chat' = [chat EXCEPT ![c].pc = "writing"] /\ job' = [job EXCEPT ![c] = "usage"]
    /\ UNCHANGED <<hub, ready, slots, inflight, flusher, store, benches, life>>
Relay(c) ==
    /\ chat[c].pc = "live" /\ Alive
    /\ \/ chat[c].got < Pieces /\ chat' = [chat EXCEPT ![c].got = @ + 1]
       \/ chat' = [chat EXCEPT ![c].pc = "closing"]    \* the end, or an error of the stream
    /\ UNCHANGED <<hub, ready, slots, job, inflight, flusher, store, benches, life>>
Close(c) ==
    /\ chat[c].pc = "closing" /\ Alive
    /\ chat' = [chat EXCEPT ![c].pc = "writing", ![c].rec = "handed"]
    /\ Submit(c)
    /\ UNCHANGED <<hub, ready, slots, flusher, store, benches, life>>
Return(c) ==
    /\ chat[c].pc = "writing" /\ job[c] = "none" /\ Alive
    /\ EndWith(c, chat[c].rec)
    /\ UNCHANGED <<hub, ready, job, inflight, flusher, store, benches, life>>

\* The handler is dropped at an await: a browser that went away, or the abort
\* of its connection.  A plain handler is not at an await while it writes.
Drop(c) ==
    /\ chat[c].pc \in {"opening", "live", "closing"} \/ (chat[c].pc = "writing" /\ c \notin Plain)
    /\ EndWith(c, IF Take(c) THEN "handed" ELSE chat[c].rec)
    /\ IF Take(c) THEN Submit(c) ELSE UNCHANGED <<job, inflight>>
    /\ UNCHANGED <<hub, ready, flusher, store, benches, life>>
Leave(c) == Serving /\ Drop(c)
Aborted(c) == hub = "aborting" /\ Drop(c)

\* `persist`, one statement at a time; rows of a conversation that is gone are
\* refused by the foreign key, silently.
ListensLate == flusher = "waiting"    \* mutant: registered only when it awaits
Listens == flusher \in {"registered", "counted", "waiting"}
Written(c) ==
    IF c \in Plain THEN UNCHANGED <<inflight, flusher>>
    ELSE /\ inflight' = inflight - 1
         /\ flusher' = IF inflight = 1 /\ Listens THEN "notified" ELSE flusher
AddMessage(c, role) == messages' = IF conv = "alive" THEN messages \cup {<<c, role>>} ELSE messages
Write(c) ==
    /\ job[c] # "none" /\ Alive
    /\ CASE job[c] = "usage" -> /\ usage' = [usage EXCEPT ![c] = @ + 1] /\ job' = [job EXCEPT ![c] = "user"]
                                /\ UNCHANGED <<messages, inflight, flusher>>
         [] job[c] = "user" -> /\ AddMessage(c, "user") /\ job' = [job EXCEPT ![c] = "assistant"]
                               /\ UNCHANGED <<usage, inflight, flusher>>
         [] job[c] = "assistant" -> /\ AddMessage(c, "assistant") /\ job' = [job EXCEPT ![c] = "none"]
                                    /\ Written(c) /\ UNCHANGED usage
    /\ UNCHANGED <<hub, ready, chat, slots, conv, benches, life>>

\* Deleting a conversation takes its messages along.
DeleteConversation ==
    /\ hub = "up" /\ conv = "alive"
    /\ conv' = "gone" /\ messages' = {}
    /\ UNCHANGED <<hub, ready, chat, slots, job, inflight, flusher, usage, benches, life>>
NotReady == hub = "up" /\ ready = "yes" /\ ready' = "no" /\ UNCHANGED <<hub, chats, benches, life>>

------------------------------------------------------------------------------
(* A benchmark or quality run.  Its task is "spawned", then at a level,    *)
(* then writes its row and emits "done".                                   *)

StartRun(r) ==
    /\ hub = "up" /\ ready = "yes" /\ row[r] = "none"
    /\ row' = [row EXCEPT ![r] = "running"] /\ bench' = [bench EXCEPT ![r].pc = "spawned"]
    /\ UNCHANGED <<hub, ready, chats, token, life>>

\* The first poll looks at the token first; cancelled then, the row is left.
Begin(r) ==
    /\ bench[r].pc = "spawned" /\ Alive
    /\ bench' = [bench EXCEPT ![r].pc = IF token[r] = "cancelled" THEN "gone" ELSE "level"]
    /\ UNCHANGED <<hub, ready, chats, row, token, life>>
Level(r) ==
    /\ bench[r].pc = "level" /\ Alive
    /\ IF bench[r].at < Levels THEN bench' = [bench EXCEPT ![r].at = @ + 1]
       ELSE bench' = [bench EXCEPT ![r].pc = "update"]
    /\ UNCHANGED <<hub, ready, chats, row, token, life>>
Panic(r) ==
    /\ bench[r].pc = "level" /\ Alive
    /\ bench' = [bench EXCEPT ![r].pc = "emit"] /\ row' = [row EXCEPT ![r] = "failed"]
    /\ UNCHANGED <<hub, ready, chats, token, life>>
Complete(r) ==
    /\ bench[r].pc = "update" /\ Alive
    /\ bench' = [bench EXCEPT ![r].pc = "emit"] /\ row' = [row EXCEPT ![r] = "completed"]
    /\ UNCHANGED <<hub, ready, chats, token, life>>
Done(r) ==
    /\ bench[r].pc = "emit" /\ Alive /\ bench' = [bench EXCEPT ![r].pc = "gone"]
    /\ UNCHANGED <<hub, ready, chats, row, token, life>>
CancelRun(r) ==
    /\ bench[r].pc = "level" /\ token[r] = "cancelled" /\ Alive
    /\ bench' = [bench EXCEPT ![r].pc = "gone"] /\ row' = [row EXCEPT ![r] = "failed"]
    /\ UNCHANGED <<hub, ready, chats, token, life>>

\* recover(): rows still "running" are closed, no other is touched.
Recovered == [r \in Run |-> IF row[r] = "running" THEN "failed" ELSE row[r]]

------------------------------------------------------------------------------
(* The end of the hub: drain the connections, abort those that are left,   *)
(* flush the replies, cancel and join the runs, recover; then it is down.  *)

Handling == {c \in Chat : chat[c].pc \notin {"none", "ended"}}

Stop == hub = "up" /\ hub' = "draining" /\ UNCHANGED <<ready, chats, benches, life>>
GraceOver ==
    /\ hub = "draining" /\ Handling # {}
    /\ hub' = "aborting" /\ UNCHANGED <<ready, chats, benches, life>>
ClosedUnjoined == TRUE    \* mutant: the aborted connections are not joined
Closed == Handling = {}
Drained ==
    /\ hub = "aborting" \/ (hub = "draining" /\ Handling = {})
    /\ Closed
    /\ hub' = "flush" /\ UNCHANGED <<ready, chats, benches, life>>

\* flush(): register for the notification, then read the count.
Register == hub = "flush" /\ flusher = "no" /\ flusher' = "registered" /\ UNCHANGED hub
ReadCount ==
    /\ hub = "flush" /\ flusher \in {"registered", "notified"}
    /\ IF inflight = 0 THEN hub' = "bench" /\ flusher' = "no"
       ELSE flusher' = (IF flusher = "registered" THEN "counted" ELSE "no") /\ UNCHANGED hub
Await ==
    /\ hub = "flush" /\ flusher = "counted"
    /\ flusher' = "waiting" /\ UNCHANGED hub
Flush == (Register \/ ReadCount \/ Await) /\ UNCHANGED <<ready, chat, slots, job, inflight, store, benches, life>>

\* bench.shutdown(): cancel all, join all, recover.
CancelRuns ==
    /\ hub = "bench" /\ hub' = "joining"
    /\ token' = [r \in Run |-> IF bench[r].pc = "none" THEN token[r] ELSE "cancelled"]
    /\ UNCHANGED <<ready, chats, row, bench, life>>
JoinedNot == TRUE    \* mutant: shutdown does not wait for the tasks
Joined == \A r \in Run : bench[r].pc \in {"none", "gone"}
JoinRuns ==
    /\ hub = "joining" /\ Joined
    /\ hub' = "down" /\ row' = Recovered
    /\ UNCHANGED <<ready, chats, bench, token, life>>

\* A crash loses everything but the store; the next start recovers.
Crash ==
    /\ Alive /\ life = 1 /\ hub' = "crashed"
    /\ chat' = [c \in Chat |-> IF chat[c].pc = "none" THEN Idle ELSE [Idle EXCEPT !.pc = "ended"]]
    /\ slots' = 0 /\ job' = [c \in Chat |-> "none"] /\ inflight' = 0 /\ flusher' = "no"
    /\ bench' = [r \in Run |-> IF bench[r].pc = "none" THEN bench[r] ELSE [pc |-> "gone", at |-> 0]]
    /\ UNCHANGED <<ready, store, row, token, life>>
RecoveredNot == row    \* mutant: no recover() at the start
RecoveredAtStart == Recovered
Start ==
    /\ ~Alive /\ life = 1 /\ life' = 2
    /\ hub' = "up" /\ row' = RecoveredAtStart
    /\ UNCHANGED <<ready, chats, bench, token>>

------------------------------------------------------------------------------
Handle(c) == Fail(c) \/ Opened(c) \/ Answered(c) \/ Relay(c) \/ Close(c) \/ Return(c)
RunStep(r) == Begin(r) \/ Level(r) \/ Complete(r) \/ Done(r) \/ CancelRun(r)
Ends == GraceOver \/ Drained \/ Flush \/ CancelRuns \/ JoinRuns

Next ==
    \/ \E c \in Chat : (\E mode \in {"stream", "plain"} : Ask(c, mode)) \/ Handle(c) \/ Leave(c) \/ Aborted(c) \/ Write(c)
    \/ \E r \in Run : StartRun(r) \/ RunStep(r) \/ Panic(r)
    \/ DeleteConversation \/ NotReady \/ Stop \/ Ends \/ Crash \/ Start

\* The drain is timed, an abort is carried out, the pool's jobs and the tasks
\* run; an engine that never answers is what the drain's grace is for.
Fairness ==
    /\ WF_vars(Ends)
    /\ \A c \in Chat : WF_vars(Aborted(c)) /\ WF_vars(Write(c)) /\ WF_vars(Return(c))
    /\ \A r \in Run : WF_vars(CancelRun(r)) /\ WF_vars(Begin(r) \/ Complete(r) \/ Done(r))
Spec == Init /\ [][Next]_vars /\ Fairness

------------------------------------------------------------------------------
\* Every streamed reply that was opened, however it ended (read to the end,
\* browser gone, aborted by the stop), has exactly one usage row and both its
\* messages when the hub has stopped in order, and never two.
RecordedOnce ==
    \A c \in Chat :
       /\ usage[c] <= 1
       /\ hub = "down" /\ chat[c].rec # "none" =>
             usage[c] = 1 /\ (conv = "alive" => {<<c, "user">>, <<c, "assistant">>} \subseteq messages)

\* A run that is "running" in the store has a task that will close it: no row
\* stays "running" over a stop, a crash and the next start.
NoRunLeft == hub \in {"up", "down"} => \A r \in Run : row[r] = "running" => bench[r].pc \notin {"none", "gone"}

\* A row that has ended keeps its state: recover() and a task that is being
\* cancelled never overwrite each other.
RowsKept == \A r \in Run : row[r] \in {"completed", "failed"} => row'[r] = row[r]
RowsAreFinal == [][RowsKept]_vars

\* A stop comes to its end, whatever the engines do: no lost wake-up of flush,
\* no connection that stays.
Draining == hub = "draining"
Stopped == hub \in {"down", "crashed"}
StopEnds == Draining ~> Stopped
==============================================================================
