---------------------------- MODULE LinkRequests ----------------------------
(***************************************************************************)
(* The two ends of one conversation.  The hub keeps a table of requests    *)
(* that wait for an answer (`pending`, fleet.rs), the node one of requests *)
(* its handler threads run (`requests`, server.rs); both hold at most a    *)
(* fixed number.  A caller may give up, a stream may be cancelled, a       *)
(* handler may hang, answers and cancels cross on the wire, and every node *)
(* thread, the reader included, waits for room in the one writer queue.    *)
(*                                                                         *)
(* A conversation ends once (NodeLink models what follows), so each member *)
(* of Requests is begun at most once.  Frames are of one size; the queue   *)
(* and the pipe behind it are one FIFO of at most QueueMax frames.         *)
(***************************************************************************)
EXTENDS Naturals, Sequences, FiniteSets

CONSTANTS
  Requests,    \* what callers ask of the node in this conversation
  Streams,     \* those made with open(): they carry events
  HubInflight, \* MAX_INFLIGHT of the hub's table
  NodeInflight,\* max_inflight of the node's table
  MaxId,       \* ids go round after MAX_ID
  QueueMax,    \* JSON_QUEUE_MAX
  MaxEvents,   \* events one handler emits
  MaxQueued,   \* max_stream_events
  MaxOdd       \* hangs, drops, refusals, cancels, pings, pushes together

RequestConstants ==
  /\ IsFiniteSet(Requests) /\ Streams \subseteq Requests
  /\ HubInflight \in Nat \ {0} /\ NodeInflight \in Nat \ {0}
  /\ MaxId \in Nat /\ MaxId >= HubInflight
  /\ QueueMax \in Nat \ {0}
  /\ {MaxEvents, MaxQueued, MaxOdd} \subseteq Nat

VARIABLES
  \* the hub
  link,      \* "up" | "down"
  pending,   \* requests the hub waits for
  next_id,
  id,        \* per request: its id, 0 before begin()
  caller,    \* per request: "idle" | "waiting" | "returned"
  ending,    \* per request: how it finished, "none" before
  cancel,    \* per request: "no" | "sent"
  queue,     \* per stream: what its consumer has not read; End is last
  got,       \* per stream: what the consumer has read
  lost,      \* streams of which an event was dropped: the consumer lags
  \* the node
  table,     \* `requests`: those with a handler
  handler,   \* per request: "none" | "running" | "hung" | "answered" | "gone"
  told,      \* requests whose handler has been told to stop
  sent,      \* per request: events emitted
  reply,     \* what the reader thread is putting in the queue: <<>> or <<frame>>
  \* the wire
  toNode, toHub,
  odd        \* how often something out of the ordinary happened

hub  == <<link, pending, next_id, id, caller, ending, cancel, queue, got, lost>>
node == <<table, handler, told, sent, reply>>
vars == <<hub, node, toNode, toHub, odd>>

End == 0
Odd == odd < MaxOdd /\ odd' = odd + 1

NotEnded(r) == [code |-> "none", from |-> r]
\* Every frame says for whom it was made, which the wire does not: the wire
\* carries the id.
Res(r, code)  == [kind |-> "res", req |-> r, id |-> id[r], code |-> code]
Event(r, n)   == [kind |-> "event", req |-> r, id |-> id[r], n |-> n]
Bare(kind)    == [kind |-> kind]

Init ==
  /\ link = "up" /\ pending = {} /\ next_id = 1
  /\ id     = [r \in Requests |-> 0]
  /\ caller = [r \in Requests |-> "idle"]
  /\ ending = [r \in Requests |-> NotEnded(r)]
  /\ cancel = [r \in Requests |-> "no"]
  /\ queue  = [r \in Streams |-> <<>>]
  /\ got    = [r \in Streams |-> <<>>]
  /\ lost   = {}
  /\ table = {} /\ handler = [r \in Requests |-> "none"]
  /\ told = {} /\ sent = [r \in Requests |-> 0] /\ reply = <<>>
  /\ toNode = <<>> /\ toHub = <<>>
  /\ odd = 0

Finished(r) == ending[r].code # "none"

-----------------------------------------------------------------------------
(* The hub: callers.                                                       *)

IdsOf(S) == {id[r] : r \in S}

\* Ids from next_id on, going round.
Round == [k \in 1..MaxId |-> ((next_id + k - 2) % MaxId) + 1]

\* The next id that is not in flight.
FreeIdTaken == next_id
FreeId == Round[CHOOSE k \in 1..MaxId :
            /\ Round[k] \notin IdsOf(pending)
            /\ \A j \in 1..(k - 1) : Round[j] \in IdsOf(pending)]

\* 2^31 ids do not go round while a node still runs a request the hub forgot
\* or has just answered: the small MaxId must not either.
NoLap == /\ FreeId \notin IdsOf(table \ pending)
         /\ \A i \in 1..Len(toHub) : toHub[i].kind = "res" => toHub[i].req \in pending

BeginRefused(r) ==
  /\ caller[r] = "idle"
  /\ link = "down" \/ Cardinality(pending) >= HubInflight
  /\ caller' = [caller EXCEPT ![r] = "returned"]
  /\ ending' = [ending EXCEPT ![r].code = IF link = "down" THEN "unavailable" ELSE "busy"]
  /\ UNCHANGED <<link, pending, next_id, id, cancel, queue, got, lost, node,
                 toNode, toHub, odd>>

Begin(r) ==
  /\ caller[r] = "idle" /\ link = "up"
  /\ Cardinality(pending) < HubInflight /\ NoLap
  /\ id' = [id EXCEPT ![r] = FreeId]
  /\ next_id' = (FreeId % MaxId) + 1
  /\ pending' = pending \union {r}
  /\ caller' = [caller EXCEPT ![r] = "waiting"]
  /\ toNode' = Append(toNode, [kind |-> "req", req |-> r, id |-> FreeId])
  /\ UNCHANGED <<link, ending, cancel, queue, got, lost, node, toHub, odd>>

\* cancel_request: once, and only while no answer has come.  The request keeps
\* its slot until the node answers.
SlotsAfterCancelFreed(r) == pending \ {r}
SlotsAfterCancel(r) == pending
cancel_request(r) ==
  IF ~Finished(r) /\ cancel[r] = "no"
  THEN /\ cancel' = [cancel EXCEPT ![r] = "sent"]
       /\ toNode' = IF link = "up"
                    THEN Append(toNode, [kind |-> "cancel", req |-> r, id |-> id[r]])
                    ELSE toNode
       /\ pending' = SlotsAfterCancel(r)
  ELSE UNCHANGED <<cancel, toNode, pending>>

\* Somebody loses patience: because the handler hangs, or for a reason of his own.
Impatient(r) == IF handler[r] = "hung" THEN UNCHANGED odd ELSE Odd

\* call() timed out, or its future was dropped (CancelOnDrop), or a stream was
\* dropped in the middle (Drop of LinkStream).
GiveUp(r) ==
  /\ caller[r] = "waiting" /\ ~Finished(r) /\ Impatient(r)
  /\ cancel_request(r)
  /\ caller' = [caller EXCEPT ![r] = "returned"]
  /\ UNCHANGED <<link, next_id, id, ending, queue, got, lost, node, toHub>>

\* cancel() of a stream: its owner still waits for the result.
Cancel(r) ==
  /\ r \in Streams /\ caller[r] = "waiting" /\ cancel[r] = "no"
  /\ ~Finished(r) /\ Impatient(r)
  /\ cancel_request(r)
  /\ UNCHANGED <<link, next_id, id, caller, ending, queue, got, lost, node, toHub>>

\* next(): the end marker stays, a second iteration ends at once.
NextItem(r) ==
  /\ r \in Streams /\ caller[r] = "waiting"
  /\ queue[r] # <<>> /\ Head(queue[r]) # End
  /\ got' = [got EXCEPT ![r] = Append(@, Head(queue[r]))]
  /\ queue' = [queue EXCEPT ![r] = Tail(@)]
  /\ UNCHANGED <<link, pending, next_id, id, caller, ending, cancel, lost, node,
                 toNode, toHub, odd>>

\* call() returns; a stream's owner has iterated to the end marker.
Return(r) ==
  /\ caller[r] = "waiting" /\ Finished(r)
  /\ r \in Streams => queue[r] # <<>> /\ Head(queue[r]) = End
  /\ caller' = [caller EXCEPT ![r] = "returned"]
  /\ UNCHANGED <<link, pending, next_id, id, ending, cancel, queue, got, lost,
                 node, toNode, toHub, odd>>

\* The pinger, and whatever else the hub sends that is answered by the reader.
Ping ==
  /\ link = "up" /\ Odd
  /\ toNode' = Append(toNode, Bare("ping"))
  /\ UNCHANGED <<hub, node, toHub>>

-----------------------------------------------------------------------------
(* The hub: the read loop and the watchdog.                                *)

\* The marker goes behind everything already queued.
WithEndFirst(q) == <<End>> \o q
WithEnd(q) == Append(q, End)

Self(r) == r
finish(S, code, from(_)) ==
  /\ ending' = [r \in Requests |-> IF r \in S /\ ~Finished(r)
                                   THEN [code |-> code, from |-> from(r)]
                                   ELSE ending[r]]
  /\ queue'  = [r \in Streams |-> IF r \in S /\ ~Finished(r) THEN WithEnd(queue[r])
                                  ELSE queue[r]]

Events(r) == Len(queue[r])

\* A frame of a request the hub no longer waits for is ignored.
OnRes(m) ==
  LET of == {r \in pending : id[r] = m.id} IN
  /\ pending' = pending \ of
  /\ finish(of, m.code, LAMBDA r : m.req)
  /\ UNCHANGED lost

OnEvent(m) ==
  LET of == {r \in pending \intersect Streams : id[r] = m.id /\ cancel[r] = "no"} IN
  /\ queue' = [r \in Streams |-> IF r \in of /\ Events(r) < MaxQueued
                                 THEN Append(queue[r], m.n) ELSE queue[r]]
  /\ lost' = lost \union {r \in of : Events(r) >= MaxQueued}
  /\ UNCHANGED <<pending, ending>>

HubRead ==
  /\ toHub # <<>> /\ link = "up"
  /\ LET m == Head(toHub) IN
       CASE m.kind = "res"   -> OnRes(m)
         [] m.kind = "event" -> OnEvent(m)
         [] OTHER            -> UNCHANGED <<pending, ending, queue, lost>>
  /\ toHub' = Tail(toHub)
  /\ UNCHANGED <<link, next_id, id, caller, cancel, got, node, toNode, odd>>

IsOrphanNever(r) == FALSE

\* watch_once: cancelled ORPHAN_MAX_S ago and never answered.  In those ten
\* minutes the node has read its frames and only a handler that hangs is silent.
IsOrphan(r) == cancel[r] = "sent" /\ handler[r] = "hung" /\ toNode = <<>>
Forget(r) ==
  /\ r \in pending /\ IsOrphan(r)
  /\ pending' = pending \ {r}
  /\ finish({r}, "unavailable", Self)
  /\ UNCHANGED <<link, next_id, id, caller, cancel, got, lost, node, toNode,
                 toHub, odd>>

\* The conversation ends: fail_all.
LinkDrops ==
  /\ link = "up" /\ Odd
  /\ link' = "down"
  /\ pending' = {}
  /\ finish(pending, "unavailable", Self)
  /\ toHub' = <<>> /\ toNode' = <<>>
  /\ UNCHANGED <<next_id, id, caller, cancel, got, lost, node>>

-----------------------------------------------------------------------------
(* The node.                                                               *)

\* Writer::put and must_wait.
HasRoomAlways == TRUE
HasRoom == Len(toHub) < QueueMax
put(m) == toHub' = IF link = "up" THEN Append(toHub, m) ELSE toHub

\* on_req: refused for what it asks (unknown op, monitor mode, bad arguments,
\* no thread), a duplicate id, a full table, or a new handler.  clean_args fails
\* only for an op without a specification, and is_op has refused those: each op
\* of OPS has one in ARGS, so on_req never leaves a request of the hub silently.
OnReq(m) ==
  \/ /\ Odd /\ reply' = <<Res(m.req, "refused")>>
     /\ UNCHANGED <<table, handler>>
  \/ /\ m.id \in IdsOf(table)
     /\ reply' = <<Bare("log")>>
     /\ UNCHANGED <<table, handler, odd>>
  \/ /\ m.id \notin IdsOf(table) /\ Cardinality(table) >= NodeInflight
     /\ reply' = <<Res(m.req, "busy")>>
     /\ UNCHANGED <<table, handler, odd>>
  \/ /\ m.id \notin IdsOf(table) /\ Cardinality(table) < NodeInflight
     /\ table' = table \union {m.req}
     /\ handler' = [handler EXCEPT ![m.req] = "running"]
     /\ UNCHANGED <<reply, odd>>

\* One frame at a time: a reader that waits for room reads nothing.
NodeRead ==
  /\ toNode # <<>> /\ reply = <<>>
  /\ LET m == Head(toNode) IN
       \/ m.kind = "req" /\ OnReq(m) /\ UNCHANGED told
       \/ /\ m.kind = "cancel"
          /\ told' = told \union {r \in table : id[r] = m.id}
          /\ UNCHANGED <<table, handler, reply, odd>>
       \/ /\ m.kind = "ping"
          /\ reply' = <<Bare("pong")>>
          /\ UNCHANGED <<table, handler, told, odd>>
  /\ toNode' = Tail(toNode)
  /\ UNCHANGED <<hub, sent, toHub>>

NodeReply ==
  /\ reply # <<>> /\ HasRoom
  /\ put(Head(reply))
  /\ reply' = <<>>
  /\ UNCHANGED <<hub, table, handler, told, sent, toNode, odd>>

\* A handler emits an event; when the queue is full it waits, and gives the
\* event up once it is cancelled.
Emit(r) ==
  /\ handler[r] = "running" /\ r \in Streams /\ sent[r] < MaxEvents
  /\ sent' = [sent EXCEPT ![r] = @ + 1]
  /\ \/ HasRoom /\ put(Event(r, sent[r] + 1))
     \/ ~HasRoom /\ r \in told /\ UNCHANGED toHub
  /\ UNCHANGED <<hub, table, handler, told, reply, toNode, odd>>

Hang(r) ==
  /\ handler[r] = "running" /\ Odd
  /\ handler' = [handler EXCEPT ![r] = "hung"]
  /\ UNCHANGED <<hub, table, told, sent, reply, toNode, toHub>>

\* handle(): the answer goes out first, then the table entry.  A handler told
\* to stop answers `cancelled` unless it has succeeded.
Answers(r) ==
  /\ HasRoom
  /\ \E code \in {"ok"} \union {"cancelled" : x \in told \intersect {r}} :
       put(Res(r, code))
  /\ handler' = [handler EXCEPT ![r] = "answered"]
  /\ UNCHANGED <<hub, table, told, sent, reply, toNode, odd>>

Answer(r)     == handler[r] = "running" /\ Answers(r)
LateAnswer(r) == handler[r] = "hung" /\ Answers(r)

Leave(r) ==
  /\ handler[r] = "answered"
  /\ handler' = [handler EXCEPT ![r] = "gone"]
  /\ table' = table \ {r}
  /\ UNCHANGED <<hub, told, sent, reply, toNode, toHub, odd>>

\* sampler, disks, inventory, metrics, the scanner's generation.
Push ==
  /\ HasRoom /\ link = "up" /\ Odd
  /\ put(Bare("push"))
  /\ UNCHANGED <<hub, node, toNode>>

\* The reader saw the pipe close: every request is cancelled, and what does not
\* stop ends with the process.
Shutdown ==
  /\ link = "down" /\ table # {}
  /\ told' = told \union table
  /\ handler' = [r \in Requests |-> IF r \in table THEN "gone" ELSE handler[r]]
  /\ table' = {}
  /\ reply' = <<>>
  /\ UNCHANGED <<hub, sent, toNode, toHub, odd>>

-----------------------------------------------------------------------------
Caller(r) == \/ BeginRefused(r) \/ Begin(r) \/ GiveUp(r) \/ Cancel(r)
             \/ NextItem(r) \/ Return(r)
Handler(r) == Emit(r) \/ Hang(r) \/ Answer(r) \/ LateAnswer(r) \/ Leave(r)

Next ==
  \/ \E r \in Requests : Caller(r) \/ Forget(r) \/ Handler(r)
  \/ Ping \/ HubRead \/ LinkDrops
  \/ NodeRead \/ NodeReply \/ Push \/ Shutdown

\* Both read loops and the watchdog run; a handler that does not hang answers;
\* callers and consumers are free to be slow, except that a call has a timeout.
Fairness ==
  /\ WF_vars(HubRead) /\ WF_vars(NodeRead) /\ WF_vars(NodeReply) /\ WF_vars(Shutdown)
  /\ \A r \in Requests :
       /\ WF_vars(Forget(r)) /\ WF_vars(Answer(r)) /\ WF_vars(Leave(r))
       /\ WF_vars(r \notin Streams /\ GiveUp(r))

Spec == Init /\ [][Next]_vars
LiveSpec == Spec /\ Fairness

-----------------------------------------------------------------------------
(* Properties.                                                             *)

\* Type invariant of both tables, with the buffers the limits bound: what one
\* consumer has not read, and what the node has not written (every thread of
\* the node waits in Writer::put).
TypeOK ==
  /\ link \in {"up", "down"} /\ next_id \in 1..MaxId
  /\ pending \subseteq Requests /\ Cardinality(pending) <= HubInflight
  /\ table \subseteq Requests /\ Cardinality(table) <= NodeInflight
  /\ id \in [Requests -> 0..MaxId]
  /\ caller \in [Requests -> {"idle", "waiting", "returned"}]
  /\ cancel \in [Requests -> {"no", "sent"}]
  /\ handler \in [Requests -> {"none", "running", "hung", "answered", "gone"}]
  /\ \A r \in Streams : /\ queue[r] \in Seq(0..MaxEvents)
                        /\ Len(queue[r]) <= MaxQueued + 1
  /\ lost \subseteq Streams /\ told \subseteq Requests
  /\ sent \in [Requests -> 0..MaxEvents]
  /\ Len(toHub) <= QueueMax /\ Len(reply) <= 1

\* An answer reaches the request it was given for, although ids are reused and
\* late answers to forgotten requests arrive (on_json "res", begin).
AnswerIsOwn ==
  \A r \in Requests : ending[r].from = r

\* The node never runs a request behind the hub's back, so that the hub's limit
\* keeps the node's: a handler that still works is for a request the hub counts,
\* one it gave up on after ORPHAN_MAX_S, or the conversation is over.
SlotsAgree ==
  \A r \in table : handler[r] \in {"running", "hung"} =>
    \/ r \in pending \/ link = "down"
    \/ cancel[r] = "sent" /\ ending[r].code = "unavailable"

\* A consumer sees a stream's events in the order they were emitted, and once it
\* reaches the end of a stream that succeeded it has seen them all, unless it
\* lagged more than max_stream_events behind or cancelled (finish, next).
StreamInOrder ==
  \A r \in Streams :
    /\ \A i, j \in 1..Len(got[r]) : i < j => got[r][i] < got[r][j]
    /\ (/\ ending[r].code = "ok" /\ queue[r] # <<>> /\ Head(queue[r]) = End
        /\ cancel[r] = "no" /\ r \notin lost)
         => got[r] = [i \in 1..sent[r] |-> i]

\* Every slot of the hub's table comes back: by an answer, by the end of the
\* link, or by the watchdog for a request its caller gave up on.  Only a stream
\* nobody cancels may wait for a handler that hangs.
Held(r) == r \in pending /\ ~(r \in Streams /\ handler[r] = "hung" /\ cancel[r] = "no")
SlotsReturn == \A r \in Requests : Held(r) ~> ~Held(r)
=============================================================================
