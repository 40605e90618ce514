----------------------------- MODULE WorkProofs -----------------------------
(***************************************************************************)
(* HubJobs' safety properties for any chats, runs and streams, the count   *)
(* of the arena's votes for any matches and voters, and the list of        *)
(* external engines for any containers, ports and scripts.                 *)
(*                                                                         *)
(* That a reply is recorded once is not inductive: it rests on what of a   *)
(* reply exists while its handler, its recorder and its write are where    *)
(* they are (Replies), on the counts that the limiter and flush() read     *)
(* (Counts), and on the order in which the hub ends: no handler once the   *)
(* connections are closed, no write once flush() returned (HubOrder).      *)
(* That no run is left rests on which task a row has at each point (Runs). *)
(*                                                                         *)
(* That an engine is listed once rests on what is remembered from one      *)
(* listing to the next (Memory): an id occurs once in each memory, and     *)
(* what is remembered as gone or stopped says that it is stopped.          *)
(***************************************************************************)
EXTENDS WorkSuite, FiniteSetTheorems, TLAPS

HubPc == {"up", "draining", "aborting", "flush", "bench", "joining", "down", "crashed"}
ChatPc == {"none", "opening", "live", "closing", "writing", "ended"}
ChatType == [pc : ChatPc, mode : {"stream", "plain"}, got : Nat, rec : {"none", "held", "handed"}]
JobPc == {"none", "usage", "user", "assistant"}
FlushPc == {"no", "registered", "counted", "waiting", "notified"}
RowState == {"none", "running", "completed", "failed"}
BenchType == [pc : {"none", "spawned", "level", "update", "emit", "gone"}, at : Nat]

Types ==
  /\ hub \in HubPc /\ chat \in [Chat -> ChatType] /\ job \in [Chat -> JobPc]
  /\ usage \in [Chat -> Nat] /\ flusher \in FlushPc
  /\ row \in [Run -> RowState] /\ bench \in [Run -> BenchType] /\ token \in [Run -> {"no", "cancelled"}]

\* What exists of the reply of request c when its handler is at q, its write
\* at j, and the store holds u, cv and ms.
Fits(c, q, j, u, cv, ms) ==
  /\ u \in 0..1
  /\ q.pc = "none" => q = Idle
  /\ q.pc \in {"none", "opening"} => q.rec = "none" /\ j = "none" /\ u = 0
  /\ q.pc \in {"live", "closing"} => q.rec = "held" /\ j = "none" /\ u = 0
  /\ q.rec = "held" => q.pc \in {"live", "closing"}
  /\ q.mode = "plain" => q.rec = "none"
  /\ q.pc = "writing" /\ q.mode = "stream" => q.rec = "handed"
  /\ j # "none" => q.rec = "handed" \/ (q.mode = "plain" /\ q.pc = "writing")
  /\ j = "usage" => u = 0
  /\ j \in {"user", "assistant"} => u = 1
  /\ q.rec = "handed" /\ j = "none" => u = 1
  /\ q.rec = "handed" /\ j \in {"assistant", "none"} /\ cv = "alive" => <<c, "user">> \in ms
  /\ q.rec = "handed" /\ j = "none" /\ cv = "alive" => <<c, "assistant">> \in ms
Reply(c) == Fits(c, chat[c], job[c], usage[c], conv, messages)
Replies == \A c \in Chat : Reply(c)

\* The requests that hold a stream slot, and the replies in flight.
HasSlot(q) == q.mode = "stream" /\ q.pc \in {"opening", "live", "closing", "writing"}
InFlight(q, j) == q.mode = "stream" /\ j # "none"
Holders == {c \in Chat : HasSlot(chat[c])}
Writers == {c \in Chat : InFlight(chat[c], job[c])}
Counts == slots = Cardinality(Holders) /\ slots <= Streams /\ inflight = Cardinality(Writers)

\* The order of the hub's end.
HubOrder ==
  /\ hub \in {"flush", "bench", "joining", "down"} => \A c \in Chat : chat[c].pc \in {"none", "ended"}
  /\ hub \in {"bench", "joining", "down"} => \A c \in Chat : job[c] = "none"

\* Which task a row w has: b, with token t, while the hub is at h.
RunFits(w, b, t, h) ==
  /\ w = "none" <=> b.pc = "none"
  /\ b.pc \in {"spawned", "level", "update"} => w = "running"
  /\ b.pc = "emit" => w \in {"completed", "failed"}
  /\ t = "cancelled" => b.pc = "gone" \/ (h = "joining" /\ b.pc # "none")
  /\ h \in {"down", "crashed"} => b.pc \in {"none", "gone"}
  /\ h = "down" => w # "running"
  /\ h = "up" /\ w = "running" => b.pc \in {"spawned", "level", "update"}
Runs == \A r \in Run : RunFits(row[r], bench[r], token[r], hub)

HubInv == Types /\ Replies /\ Counts /\ HubOrder /\ Runs
-----------------------------------------------------------------------------
LEMMA HeldIs ==
  ASSUME Types, NEW c \in Chat
  PROVE  Held(c) <=> HasSlot(chat[c])
BY DEF Types, ChatType, Held, HasSlot, Plain

LEMMA CountsAreFinite ==
  ASSUME JobConstants
  PROVE  /\ IsFiniteSet(Holders) /\ IsFiniteSet(Writers)
         /\ Cardinality(Holders) \in Nat /\ Cardinality(Writers) \in 0..Cardinality(Chat)
<1>1. IsFiniteSet(Chat) /\ Holders \subseteq Chat /\ Writers \subseteq Chat
  BY DEF JobConstants, Holders, Writers
<1>2. IsFiniteSet(Holders) /\ IsFiniteSet(Writers) /\ Cardinality(Writers) <= Cardinality(Chat)
  BY <1>1, FS_Subset
<1>3. Cardinality(Holders) \in Nat /\ Cardinality(Writers) \in Nat /\ Cardinality(Chat) \in Nat
  BY <1>1, <1>2, FS_CardinalityType
<1> QED
  BY <1>2, <1>3

\* One element that enters or leaves, or neither.
LEMMA OneMoves ==
  ASSUME NEW S, NEW T, NEW x, IsFiniteSet(S), \A y : y # x => (y \in T <=> y \in S)
  PROVE  /\ (x \in S <=> x \in T) => Cardinality(T) = Cardinality(S)
         /\ x \notin S /\ x \in T => Cardinality(T) = Cardinality(S) + 1
         /\ x \in S /\ x \notin T => Cardinality(T) = Cardinality(S) - 1
<1>1. CASE (x \in S) <=> (x \in T)
  <2>1. S = T
    BY <1>1
  <2> QED
    BY <1>1, <2>1
<1>2. CASE x \notin S /\ x \in T
  <2>1. T = S \cup {x}
    BY <1>2
  <2> QED
    BY <1>2, <2>1, FS_AddElement
<1>3. CASE x \in S /\ x \notin T
  <2>1. T = S \ {x}
    BY <1>3
  <2> QED
    BY <1>3, <2>1, FS_RemoveElement
<1> QED
  BY <1>1, <1>2, <1>3

\* A step of one request c: its handler moves to q, its write to j, its usage to u.
Requests1 == <<hub, row, bench, token>>
LEMMA OneRequest ==
  ASSUME JobConstants, HubInv, NEW c \in Chat, NEW q \in ChatType, NEW j \in JobPc, NEW u \in Nat,
         UNCHANGED Requests1, conv' = conv, messages \subseteq messages', flusher' \in FlushPc,
         chat' = [chat EXCEPT ![c] = q], job' = [job EXCEPT ![c] = j], usage' = [usage EXCEPT ![c] = u],
         Fits(c, q, j, u, conv, messages'),
         hub \in {"flush", "bench", "joining", "down"} => q.pc \in {"none", "ended"},
         hub \in {"bench", "joining", "down"} => j = "none",
         \/ (HasSlot(q) <=> HasSlot(chat[c])) /\ slots' = slots
         \/ HasSlot(q) /\ ~HasSlot(chat[c]) /\ slots < Streams /\ slots' = slots + 1
         \/ ~HasSlot(q) /\ HasSlot(chat[c]) /\ slots' = slots - 1,
         \/ (InFlight(q, j) <=> InFlight(chat[c], job[c])) /\ inflight' = inflight
         \/ InFlight(q, j) /\ ~InFlight(chat[c], job[c]) /\ inflight' = inflight + 1
         \/ ~InFlight(q, j) /\ InFlight(chat[c], job[c]) /\ inflight' = inflight - 1
  PROVE  HubInv'
<1> USE DEF HubInv
<1>1. /\ chat \in [Chat -> ChatType] /\ job \in [Chat -> JobPc] /\ usage \in [Chat -> Nat]
  BY DEF Types
<1>2. /\ chat'[c] = q /\ job'[c] = j /\ usage'[c] = u
      /\ \A d \in Chat : d # c => chat'[d] = chat[d] /\ job'[d] = job[d] /\ usage'[d] = usage[d]
  BY <1>1
<1>3. Types'
  BY <1>1 DEF Types, Requests1
<1>4. Replies'
  <2>1. ASSUME NEW d \in Chat, d # c
        PROVE  Reply(d)'
    <3>1. Fits(d, chat[d], job[d], usage[d], conv, messages)
      BY DEF Replies, Reply
    <3>2. Fits(d, chat[d], job[d], usage[d], conv, messages')
      BY <3>1 DEF Fits
    <3> QED
      BY <1>2, <2>1, <3>2 DEF Reply
  <2>2. Reply(c)'
    BY <1>2 DEF Reply
  <2> QED
    BY <2>1, <2>2 DEF Replies
<1>5. IsFiniteSet(Holders) /\ IsFiniteSet(Writers) /\ slots = Cardinality(Holders) /\ inflight = Cardinality(Writers)
  BY CountsAreFinite DEF Counts
<1>6. /\ \A d : d # c => (d \in Holders' <=> d \in Holders) /\ (d \in Writers' <=> d \in Writers)
      /\ c \in Holders' <=> HasSlot(q)
      /\ c \in Holders <=> HasSlot(chat[c])
      /\ c \in Writers' <=> InFlight(q, j)
      /\ c \in Writers <=> InFlight(chat[c], job[c])
  BY <1>2 DEF Holders, Writers
<1>7. slots' = Cardinality(Holders')
  <2>1. IsFiniteSet(Holders) /\ \A d : d # c => (d \in Holders' <=> d \in Holders)
    BY <1>5, <1>6
  <2>2. /\ (c \in Holders <=> c \in Holders') => Cardinality(Holders') = Cardinality(Holders)
        /\ c \notin Holders /\ c \in Holders' => Cardinality(Holders') = Cardinality(Holders) + 1
        /\ c \in Holders /\ c \notin Holders' => Cardinality(Holders') = Cardinality(Holders) - 1
    BY <2>1, OneMoves
  <2> QED
    BY <1>5, <1>6, <2>2
<1>8. inflight' = Cardinality(Writers')
  <2>1. IsFiniteSet(Writers) /\ \A d : d # c => (d \in Writers' <=> d \in Writers)
    BY <1>5, <1>6
  <2>2. /\ (c \in Writers <=> c \in Writers') => Cardinality(Writers') = Cardinality(Writers)
        /\ c \notin Writers /\ c \in Writers' => Cardinality(Writers') = Cardinality(Writers) + 1
        /\ c \in Writers /\ c \notin Writers' => Cardinality(Writers') = Cardinality(Writers) - 1
    BY <2>1, OneMoves
  <2> QED
    BY <1>5, <1>6, <2>2
<1>9. slots' <= Streams
  <2>1. slots \in Nat /\ slots <= Streams /\ Streams \in Nat
    BY CountsAreFinite DEF Counts, JobConstants
  <2>2. slots' = slots \/ (slots < Streams /\ slots' = slots + 1) \/ slots' = slots - 1
    OBVIOUS
  <2> QED
    BY <2>1, <2>2
<1>10. Counts'
  BY <1>7, <1>8, <1>9 DEF Counts
<1>11. HubOrder'
  BY <1>2 DEF HubOrder, Requests1
<1>12. Runs'
  BY DEF Runs, Requests1
<1> QED
  BY <1>3, <1>4, <1>10, <1>11, <1>12
-----------------------------------------------------------------------------
(* The steps of a request.                                                 *)

\* What is known of one request before its step.
LEMMA OneIs ==
  ASSUME JobConstants, HubInv, NEW c \in Chat
  PROVE  /\ chat[c].pc \in ChatPc /\ chat[c].mode \in {"stream", "plain"} /\ chat[c].got \in Nat
         /\ chat[c].rec \in {"none", "held", "handed"} /\ job[c] \in JobPc /\ usage[c] \in Nat
         /\ Fits(c, chat[c], job[c], usage[c], conv, messages)
         /\ job = [job EXCEPT ![c] = job[c]] /\ usage = [usage EXCEPT ![c] = usage[c]] /\ chat = [chat EXCEPT ![c] = chat[c]]
         /\ Held(c) <=> HasSlot(chat[c])
         /\ c \in Plain <=> chat[c].mode = "plain"
         /\ hub \in {"flush", "bench", "joining", "down"} => chat[c].pc \in {"none", "ended"}
         /\ hub \in {"bench", "joining", "down"} => job[c] = "none"
         /\ Types /\ flusher \in FlushPc /\ chat[c] \in ChatType
<1>1. Types /\ Replies /\ HubOrder
  BY DEF HubInv
<1>2. Held(c) <=> HasSlot(chat[c])
  BY <1>1, HeldIs
<1>3. c \in Plain <=> chat[c].mode = "plain"
  BY DEF Plain
<1>4. /\ chat[c].pc \in ChatPc /\ chat[c].mode \in {"stream", "plain"} /\ chat[c].got \in Nat
      /\ chat[c].rec \in {"none", "held", "handed"} /\ job[c] \in JobPc /\ usage[c] \in Nat
      /\ flusher \in FlushPc /\ chat[c] \in ChatType
  BY <1>1 DEF Types, ChatType
<1>5. job = [job EXCEPT ![c] = job[c]] /\ usage = [usage EXCEPT ![c] = usage[c]] /\ chat = [chat EXCEPT ![c] = chat[c]]
  BY <1>1 DEF Types
<1>6. Fits(c, chat[c], job[c], usage[c], conv, messages)
  BY <1>1 DEF Replies, Reply
<1>7. /\ hub \in {"flush", "bench", "joining", "down"} => chat[c].pc \in {"none", "ended"}
      /\ hub \in {"bench", "joining", "down"} => job[c] = "none"
  BY <1>1 DEF HubOrder
<1> QED
  BY <1>1, <1>2, <1>3, <1>4, <1>5, <1>6, <1>7

\* A step that moves the handler and nothing of the store.
LEMMA HandlerMoves ==
  ASSUME JobConstants, HubInv, NEW c \in Chat, NEW q \in ChatType, NEW j \in JobPc,
         UNCHANGED <<hub, store, benches>>, flusher' = flusher,
         chat' = [chat EXCEPT ![c] = q], job' = [job EXCEPT ![c] = j],
         Fits(c, q, j, usage[c], conv, messages),
         hub \in {"flush", "bench", "joining", "down"} => q.pc \in {"none", "ended"},
         hub \in {"bench", "joining", "down"} => j = "none",
         \/ (HasSlot(q) <=> HasSlot(chat[c])) /\ slots' = slots
         \/ HasSlot(q) /\ ~HasSlot(chat[c]) /\ slots < Streams /\ slots' = slots + 1
         \/ ~HasSlot(q) /\ HasSlot(chat[c]) /\ slots' = slots - 1,
         \/ (InFlight(q, j) <=> InFlight(chat[c], job[c])) /\ inflight' = inflight
         \/ InFlight(q, j) /\ ~InFlight(chat[c], job[c]) /\ inflight' = inflight + 1
  PROVE  HubInv'
<1>1. UNCHANGED Requests1 /\ conv' = conv /\ messages' = messages /\ usage' = usage
  BY DEF Requests1, store, benches
<1>2. usage[c] \in Nat /\ usage' = [usage EXCEPT ![c] = usage[c]] /\ flusher' \in FlushPc
  BY <1>1, OneIs
<1>3. Fits(c, q, j, usage[c], conv, messages')
  BY <1>1
<1>4. messages \subseteq messages'
  BY <1>1
<1> HIDE DEF HubInv
<1> QED
  BY <1>1, <1>2, <1>3, <1>4, OneRequest

LEMMA AskKeeps ==
  ASSUME JobConstants, HubInv, NEW c \in Chat, NEW mode, mode = "stream" \/ mode = "plain", Ask(c, mode)
  PROVE  HubInv'
<1>1. /\ hub = "up" /\ chat[c].pc = "none" /\ UNCHANGED <<hub, store, benches>> /\ flusher' = flusher
      /\ job' = job /\ inflight' = inflight
  BY DEF Ask
<1>2. /\ Fits(c, chat[c], job[c], usage[c], conv, messages) /\ job' = [job EXCEPT ![c] = job[c]]
      /\ job[c] \in JobPc /\ chat[c] \in ChatType /\ Types
  BY <1>1, OneIs
<1>3. chat[c] = Idle /\ job[c] = "none" /\ usage[c] = 0 /\ usage[c] \in 0..1
  BY <1>1, <1>2 DEF Fits
<1>4. chat[c].mode = "stream" /\ chat[c].rec = "none" /\ chat \in [Chat -> ChatType]
  BY <1>2, <1>3 DEF Idle, Types
<1>5. ~HasSlot(chat[c]) /\ ~InFlight(chat[c], job[c])
  BY <1>1, <1>3 DEF HasSlot, InFlight
<1>6. CASE ready = "yes" /\ conv = "alive" /\ (mode = "plain" \/ slots < Streams)
  <2> DEFINE q == [chat[c] EXCEPT !.pc = "opening", !.mode = mode]
  <2>1. chat' = [chat EXCEPT ![c].pc = "opening", ![c].mode = mode] /\ slots' = IF mode = "plain" THEN slots ELSE slots + 1
    BY <1>6 DEF Ask
  <2>2. chat' = [chat EXCEPT ![c] = q]
    BY <1>4, <2>1
  <2>3. q \in ChatType /\ q.pc = "opening" /\ q.mode = mode /\ q.rec = "none"
    BY <1>2, <1>4 DEF ChatType, ChatPc
  <2> HIDE DEF q
  <2>4. Fits(c, q, job[c], usage[c], conv, messages)
    BY <1>3, <2>3 DEF Fits
  <2>5. ~InFlight(q, job[c]) /\ (HasSlot(q) <=> mode # "plain")
    BY <1>3, <2>3 DEF HasSlot, InFlight
  <2>6. CASE mode = "plain"
    <3>1. slots' = slots /\ ~HasSlot(q)
      BY <2>1, <2>5, <2>6
    <3> QED
      BY <1>1, <1>2, <1>5, <2>2, <2>3, <2>4, <2>5, <3>1, HandlerMoves
  <2>7. CASE mode # "plain"
    <3>1. slots' = slots + 1 /\ slots < Streams /\ HasSlot(q)
      BY <1>6, <2>1, <2>5, <2>7
    <3> QED
      BY <1>1, <1>2, <1>5, <2>2, <2>3, <2>4, <2>5, <3>1, HandlerMoves
  <2> QED
    BY <2>6, <2>7
<1>7. CASE ~(ready = "yes" /\ conv = "alive" /\ (mode = "plain" \/ slots < Streams))
  <2> DEFINE q == [chat[c] EXCEPT !.pc = "ended"]
  <2>1. chat' = [chat EXCEPT ![c].pc = "ended"] /\ slots' = slots
    BY <1>7 DEF Ask
  <2>2. chat' = [chat EXCEPT ![c] = q]
    BY <1>4, <2>1
  <2>3. q \in ChatType /\ q.pc = "ended" /\ q.mode = "stream" /\ q.rec = "none"
    BY <1>2, <1>4 DEF ChatType, ChatPc
  <2> HIDE DEF q
  <2>4. Fits(c, q, job[c], usage[c], conv, messages) /\ ~InFlight(q, job[c]) /\ ~HasSlot(q)
    BY <1>3, <2>3 DEF Fits, HasSlot, InFlight
  <2> QED
    BY <1>1, <1>2, <1>5, <2>1, <2>2, <2>3, <2>4, HandlerMoves
<1> QED
  BY <1>6, <1>7

LEMMA FailKeeps ==
  ASSUME JobConstants, HubInv, NEW c \in Chat, Fail(c)
  PROVE  HubInv'
<1>1. /\ chat[c].pc = "opening" /\ UNCHANGED <<hub, store, benches>> /\ flusher' = flusher
      /\ chat' = [chat EXCEPT ![c].pc = "ended", ![c].rec = "none", ![c].got = 0]
      /\ slots' = (IF Held(c) THEN slots - 1 ELSE slots) /\ job' = job /\ inflight' = inflight
  BY DEF Fail, EndWith, Submit
<1>2. /\ Fits(c, chat[c], job[c], usage[c], conv, messages) /\ job = [job EXCEPT ![c] = job[c]]
      /\ job[c] \in JobPc /\ chat[c] \in ChatType /\ chat[c].got \in Nat /\ Types /\ (c \in Plain <=> chat[c].mode = "plain")
      /\ (Held(c) <=> HasSlot(chat[c])) /\ chat[c].mode \in {"stream", "plain"}
      /\ hub \in {"flush", "bench", "joining", "down"} => chat[c].pc \in {"none", "ended"}
  BY OneIs
<1>3. chat \in [Chat -> ChatType]
  BY <1>2 DEF Types
<1> DEFINE q == [chat[c] EXCEPT !.pc = "ended", !.rec = "none", !.got = 0]
<1>4. chat' = [chat EXCEPT ![c] = q]
  BY <1>1, <1>3
<1>5. q \in ChatType /\ q.pc = "ended" /\ q.rec = "none" /\ q.mode = chat[c].mode
  BY <1>1, <1>2 DEF ChatType, ChatPc
<1> HIDE DEF q
<1>6. job[c] = "none"
  BY <1>1, <1>2 DEF Fits
<1>7. Fits(c, q, job[c], usage[c], conv, messages) /\ ~InFlight(q, job[c]) /\ ~InFlight(chat[c], job[c]) /\ ~HasSlot(q)
  BY <1>1, <1>2, <1>5, <1>6 DEF Fits, InFlight, HasSlot
<1>8. /\ ~HasSlot(chat[c]) => slots' = slots
      /\ HasSlot(chat[c]) => slots' = slots - 1
  BY <1>1, <1>2
<1> QED
  BY <1>1, <1>2, <1>4, <1>5, <1>6, <1>7, <1>8, HandlerMoves

LEMMA OpenedKeeps ==
  ASSUME JobConstants, HubInv, NEW c \in Chat, Opened(c)
  PROVE  HubInv'
<1>1. /\ chat[c].pc = "opening" /\ c \notin Plain /\ UNCHANGED <<hub, store, benches>> /\ flusher' = flusher
      /\ chat' = [chat EXCEPT ![c].pc = "live", ![c].rec = "held"]
      /\ slots' = slots /\ job' = job /\ inflight' = inflight
  BY DEF Opened, EndWith, Submit
<1>2. /\ Fits(c, chat[c], job[c], usage[c], conv, messages) /\ job = [job EXCEPT ![c] = job[c]]
      /\ job[c] \in JobPc /\ chat[c] \in ChatType /\ chat[c].got \in Nat /\ Types /\ (c \in Plain <=> chat[c].mode = "plain")
      /\ (Held(c) <=> HasSlot(chat[c])) /\ chat[c].mode \in {"stream", "plain"}
      /\ hub \in {"flush", "bench", "joining", "down"} => chat[c].pc \in {"none", "ended"}
  BY OneIs
<1>3. chat \in [Chat -> ChatType]
  BY <1>2 DEF Types
<1> DEFINE q == [chat[c] EXCEPT !.pc = "live", !.rec = "held"]
<1>4. chat' = [chat EXCEPT ![c] = q]
  BY <1>1, <1>3
<1>5. q \in ChatType /\ q.pc = "live" /\ q.rec = "held" /\ q.mode = chat[c].mode
  BY <1>1, <1>2 DEF ChatType, ChatPc
<1> HIDE DEF q
<1>6. job[c] = "none" /\ hub \notin {"flush", "bench", "joining", "down"}
  BY <1>1, <1>2 DEF Fits
<1>7. Fits(c, q, job[c], usage[c], conv, messages) /\ ~InFlight(q, job[c]) /\ ~InFlight(chat[c], job[c])
  BY <1>1, <1>2, <1>5, <1>6 DEF Fits, InFlight
<1>8. HasSlot(q) <=> HasSlot(chat[c])
  BY <1>1, <1>2, <1>5 DEF HasSlot
<1> QED
  BY <1>1, <1>2, <1>4, <1>5, <1>6, <1>7, <1>8, HandlerMoves

LEMMA AnsweredKeeps ==
  ASSUME JobConstants, HubInv, NEW c \in Chat, Answered(c)
  PROVE  HubInv'
<1>1. /\ chat[c].pc = "opening" /\ c \in Plain /\ UNCHANGED <<hub, store, benches>> /\ flusher' = flusher
      /\ chat' = [chat EXCEPT ![c].pc = "writing"] /\ job' = [job EXCEPT ![c] = "usage"]
      /\ slots' = slots /\ inflight' = inflight
  BY DEF Answered, EndWith, Submit
<1>2. /\ Fits(c, chat[c], job[c], usage[c], conv, messages) /\ job = [job EXCEPT ![c] = job[c]]
      /\ job[c] \in JobPc /\ chat[c] \in ChatType /\ chat[c].got \in Nat /\ Types /\ (c \in Plain <=> chat[c].mode = "plain")
      /\ (Held(c) <=> HasSlot(chat[c])) /\ chat[c].mode \in {"stream", "plain"}
      /\ hub \in {"flush", "bench", "joining", "down"} => chat[c].pc \in {"none", "ended"}
  BY OneIs
<1>3. chat \in [Chat -> ChatType]
  BY <1>2 DEF Types
<1> DEFINE q == [chat[c] EXCEPT !.pc = "writing"]
<1>4. chat' = [chat EXCEPT ![c] = q]
  BY <1>1, <1>3
<1>5. q \in ChatType /\ q.pc = "writing" /\ q.rec = chat[c].rec /\ q.mode = chat[c].mode
  BY <1>1, <1>2 DEF ChatType, ChatPc
<1> HIDE DEF q
<1>6. job[c] = "none" /\ hub \notin {"flush", "bench", "joining", "down"} /\ "usage" \in JobPc
  BY <1>1, <1>2 DEF Fits, JobPc
<1>7. Fits(c, q, "usage", usage[c], conv, messages) /\ ~InFlight(q, "usage") /\ ~InFlight(chat[c], job[c])
  BY <1>1, <1>2, <1>5, <1>6 DEF Fits, InFlight
<1>8. HasSlot(q) <=> HasSlot(chat[c])
  BY <1>1, <1>2, <1>5 DEF HasSlot
<1> QED
  BY <1>1, <1>4, <1>5, <1>6, <1>7, <1>8, HandlerMoves

LEMMA CloseKeeps ==
  ASSUME JobConstants, HubInv, NEW c \in Chat, Close(c)
  PROVE  HubInv'
<1>1. /\ chat[c].pc = "closing" /\ UNCHANGED <<hub, store, benches>> /\ flusher' = flusher
      /\ chat' = [chat EXCEPT ![c].pc = "writing", ![c].rec = "handed"] /\ job' = [job EXCEPT ![c] = "usage"]
      /\ slots' = slots /\ inflight' = inflight + 1
  BY DEF Close, EndWith, Submit
<1>2. /\ Fits(c, chat[c], job[c], usage[c], conv, messages) /\ job = [job EXCEPT ![c] = job[c]]
      /\ job[c] \in JobPc /\ chat[c] \in ChatType /\ chat[c].got \in Nat /\ Types /\ (c \in Plain <=> chat[c].mode = "plain")
      /\ (Held(c) <=> HasSlot(chat[c])) /\ chat[c].mode \in {"stream", "plain"}
      /\ hub \in {"flush", "bench", "joining", "down"} => chat[c].pc \in {"none", "ended"}
  BY OneIs
<1>3. chat \in [Chat -> ChatType]
  BY <1>2 DEF Types
<1> DEFINE q == [chat[c] EXCEPT !.pc = "writing", !.rec = "handed"]
<1>4. chat' = [chat EXCEPT ![c] = q]
  BY <1>1, <1>3
<1>5. q \in ChatType /\ q.pc = "writing" /\ q.rec = "handed" /\ q.mode = chat[c].mode
  BY <1>1, <1>2 DEF ChatType, ChatPc
<1> HIDE DEF q
<1>6. /\ job[c] = "none" /\ hub \notin {"flush", "bench", "joining", "down"} /\ "usage" \in JobPc
      /\ chat[c].mode = "stream"
  BY <1>1, <1>2 DEF Fits, JobPc
<1>7. Fits(c, q, "usage", usage[c], conv, messages) /\ InFlight(q, "usage") /\ ~InFlight(chat[c], job[c])
  BY <1>1, <1>2, <1>5, <1>6 DEF Fits, InFlight
<1>8. HasSlot(q) <=> HasSlot(chat[c])
  BY <1>1, <1>2, <1>5 DEF HasSlot
<1> QED
  BY <1>1, <1>4, <1>5, <1>6, <1>7, <1>8, HandlerMoves

LEMMA ReturnKeeps ==
  ASSUME JobConstants, HubInv, NEW c \in Chat, Return(c)
  PROVE  HubInv'
<1>1. /\ chat[c].pc = "writing" /\ job[c] = "none" /\ UNCHANGED <<hub, store, benches>> /\ flusher' = flusher
      /\ chat' = [chat EXCEPT ![c].pc = "ended", ![c].rec = chat[c].rec, ![c].got = 0]
      /\ slots' = (IF Held(c) THEN slots - 1 ELSE slots) /\ job' = job /\ inflight' = inflight
  BY DEF Return, EndWith, Submit
<1>2. /\ Fits(c, chat[c], job[c], usage[c], conv, messages) /\ job = [job EXCEPT ![c] = job[c]]
      /\ job[c] \in JobPc /\ chat[c] \in ChatType /\ chat[c].got \in Nat /\ Types /\ (c \in Plain <=> chat[c].mode = "plain")
      /\ (Held(c) <=> HasSlot(chat[c])) /\ chat[c].mode \in {"stream", "plain"}
      /\ hub \in {"flush", "bench", "joining", "down"} => chat[c].pc \in {"none", "ended"}
  BY OneIs
<1>3. chat \in [Chat -> ChatType]
  BY <1>2 DEF Types
<1> DEFINE q == [chat[c] EXCEPT !.pc = "ended", !.rec = chat[c].rec, !.got = 0]
<1>4. chat' = [chat EXCEPT ![c] = q]
  BY <1>1, <1>3
<1>5. q \in ChatType /\ q.pc = "ended" /\ q.rec = chat[c].rec /\ q.mode = chat[c].mode
  BY <1>1, <1>2 DEF ChatType, ChatPc
<1> HIDE DEF q
<1>6. Fits(c, q, job[c], usage[c], conv, messages) /\ ~InFlight(q, job[c]) /\ ~InFlight(chat[c], job[c]) /\ ~HasSlot(q)
  BY <1>1, <1>2, <1>5 DEF Fits, InFlight, HasSlot
<1>7. /\ ~HasSlot(chat[c]) => slots' = slots
      /\ HasSlot(chat[c]) => slots' = slots - 1
  BY <1>1, <1>2
<1> QED
  BY <1>1, <1>2, <1>4, <1>5, <1>6, <1>7, HandlerMoves

LEMMA RelayKeeps ==
  ASSUME JobConstants, HubInv, NEW c \in Chat, Relay(c)
  PROVE  HubInv'
<1>1. /\ chat[c].pc = "live" /\ UNCHANGED <<hub, store, benches>> /\ flusher' = flusher
      /\ slots' = slots /\ job' = job /\ inflight' = inflight
      /\ \/ chat' = [chat EXCEPT ![c].got = @ + 1]
         \/ chat' = [chat EXCEPT ![c].pc = "closing"]
  BY DEF Relay
<1>2. /\ Fits(c, chat[c], job[c], usage[c], conv, messages) /\ job = [job EXCEPT ![c] = job[c]]
      /\ job[c] \in JobPc /\ chat[c] \in ChatType /\ chat[c].got \in Nat /\ Types /\ (c \in Plain <=> chat[c].mode = "plain")
      /\ (Held(c) <=> HasSlot(chat[c])) /\ chat[c].mode \in {"stream", "plain"}
      /\ hub \in {"flush", "bench", "joining", "down"} => chat[c].pc \in {"none", "ended"}
  BY OneIs
<1>3. chat \in [Chat -> ChatType]
  BY <1>2 DEF Types
<1>4. \E q \in ChatType : /\ chat' = [chat EXCEPT ![c] = q]
                        /\ q.pc \in {"live", "closing"} /\ q.rec = chat[c].rec /\ q.mode = chat[c].mode
  <2>1. CASE chat' = [chat EXCEPT ![c].got = @ + 1]
    <3> DEFINE q == [chat[c] EXCEPT !.got = chat[c].got + 1]
    <3>1. chat' = [chat EXCEPT ![c] = q]
      BY <1>3, <2>1
    <3>2. q \in ChatType /\ q.pc = "live" /\ q.rec = chat[c].rec /\ q.mode = chat[c].mode
      BY <1>1, <1>2 DEF ChatType
    <3> QED
      BY <3>1, <3>2
  <2>2. CASE chat' = [chat EXCEPT ![c].pc = "closing"]
    <3> DEFINE q == [chat[c] EXCEPT !.pc = "closing"]
    <3>1. chat' = [chat EXCEPT ![c] = q]
      BY <1>3, <2>2
    <3>2. q \in ChatType /\ q.pc = "closing" /\ q.rec = chat[c].rec /\ q.mode = chat[c].mode
      BY <1>1, <1>2 DEF ChatType, ChatPc
    <3> QED
      BY <3>1, <3>2
  <2> QED
    BY <1>1, <2>1, <2>2
<1>5. PICK q \in ChatType : /\ chat' = [chat EXCEPT ![c] = q]
                           /\ q.pc \in {"live", "closing"} /\ q.rec = chat[c].rec /\ q.mode = chat[c].mode
  BY <1>4
<1>6. job[c] = "none" /\ hub \notin {"flush", "bench", "joining", "down"}
  BY <1>1, <1>2 DEF Fits
<1>7. Fits(c, q, job[c], usage[c], conv, messages) /\ ~InFlight(q, job[c]) /\ ~InFlight(chat[c], job[c])
  BY <1>1, <1>2, <1>5, <1>6 DEF Fits, InFlight
<1>8. HasSlot(q) <=> HasSlot(chat[c])
  BY <1>1, <1>2, <1>5 DEF HasSlot
<1> QED
  BY <1>1, <1>2, <1>5, <1>6, <1>7, <1>8, HandlerMoves

LEMMA DropKeeps ==
  ASSUME JobConstants, HubInv, NEW c \in Chat, Drop(c)
  PROVE  HubInv'
<1> DEFINE rec == IF Take(c) THEN "handed" ELSE chat[c].rec
<1>1. /\ chat[c].pc \in {"opening", "live", "closing"} \/ (chat[c].pc = "writing" /\ c \notin Plain)
      /\ UNCHANGED <<hub, store, benches>> /\ flusher' = flusher
      /\ chat' = [chat EXCEPT ![c].pc = "ended", ![c].rec = rec, ![c].got = 0]
      /\ slots' = IF Held(c) THEN slots - 1 ELSE slots
  BY DEF Drop, EndWith
<1>2. /\ Fits(c, chat[c], job[c], usage[c], conv, messages) /\ job = [job EXCEPT ![c] = job[c]]
      /\ job[c] \in JobPc /\ chat[c] \in ChatType /\ chat[c].got \in Nat /\ Types /\ (c \in Plain <=> chat[c].mode = "plain")
      /\ (Held(c) <=> HasSlot(chat[c])) /\ chat[c].mode \in {"stream", "plain"}
      /\ hub \in {"flush", "bench", "joining", "down"} => chat[c].pc \in {"none", "ended"}
  BY OneIs
<1>3. chat \in [Chat -> ChatType]
  BY <1>2 DEF Types
<1> DEFINE q == [chat[c] EXCEPT !.pc = "ended", !.rec = rec, !.got = 0]
<1>4. chat' = [chat EXCEPT ![c] = q]
  BY <1>1, <1>3
<1>5. q \in ChatType /\ q.pc = "ended" /\ q.rec = rec /\ q.mode = chat[c].mode
  BY <1>2 DEF ChatType, ChatPc
<1> HIDE DEF q
<1>6. ~HasSlot(q) /\ (~HasSlot(chat[c]) => slots' = slots) /\ (HasSlot(chat[c]) => slots' = slots - 1)
  BY <1>1, <1>2, <1>5 DEF HasSlot
<1>7. CASE Take(c)
  <2>1. job' = [job EXCEPT ![c] = "usage"] /\ inflight' = inflight + 1 /\ q.rec = "handed" /\ chat[c].rec = "held"
    BY <1>5, <1>7 DEF Drop, Submit, Take
  <2>2. /\ job[c] = "none" /\ hub \notin {"flush", "bench", "joining", "down"} /\ "usage" \in JobPc
        /\ chat[c].mode = "stream"
    BY <1>2, <2>1 DEF Fits, JobPc
  <2>3. Fits(c, q, "usage", usage[c], conv, messages) /\ InFlight(q, "usage") /\ ~InFlight(chat[c], job[c])
    BY <1>2, <1>5, <2>1, <2>2 DEF Fits, InFlight
  <2> QED
    BY <1>1, <1>4, <1>5, <1>6, <2>1, <2>2, <2>3, HandlerMoves
<1>8. CASE ~Take(c)
  <2>1. job' = job /\ inflight' = inflight /\ q.rec = chat[c].rec /\ chat[c].rec # "held"
    BY <1>5, <1>8 DEF Drop, Take
  <2>2. hub \notin {"flush", "bench", "joining", "down"}
    BY <1>1, <1>2
  <2>3. Fits(c, q, job[c], usage[c], conv, messages) /\ (InFlight(q, job[c]) <=> InFlight(chat[c], job[c]))
    BY <1>1, <1>2, <1>5, <2>1 DEF Fits, InFlight
  <2> QED
    BY <1>1, <1>2, <1>4, <1>5, <1>6, <2>1, <2>2, <2>3, HandlerMoves, ZenonT(40)
<1> QED
  BY <1>7, <1>8

LEMMA WriteKeeps ==
  ASSUME JobConstants, HubInv, NEW c \in Chat, Write(c)
  PROVE  HubInv'
<1>1. /\ job[c] # "none" /\ UNCHANGED Requests1 /\ conv' = conv /\ chat' = chat /\ slots' = slots
  BY DEF Write, Requests1, benches
<1>2. /\ Fits(c, chat[c], job[c], usage[c], conv, messages) /\ chat' = [chat EXCEPT ![c] = chat[c]]
      /\ usage = [usage EXCEPT ![c] = usage[c]] /\ usage[c] \in Nat /\ flusher \in FlushPc
      /\ job[c] \in JobPc /\ chat[c] \in ChatType /\ (c \in Plain <=> chat[c].mode = "plain")
      /\ chat[c].mode \in {"stream", "plain"}
      /\ hub \in {"flush", "bench", "joining", "down"} => chat[c].pc \in {"none", "ended"}
      /\ hub \in {"bench", "joining", "down"} => job[c] = "none"
  BY <1>1, OneIs
<1>3. hub \notin {"bench", "joining", "down"}
  BY <1>1, <1>2
<1>4. CASE job[c] = "usage"
  <2>1. usage' = [usage EXCEPT ![c] = usage[c] + 1] /\ job' = [job EXCEPT ![c] = "user"]
        /\ messages' = messages /\ inflight' = inflight /\ flusher' = flusher
    BY <1>4 DEF Write
  <2>2. usage[c] + 1 \in Nat /\ "user" \in JobPc /\ messages \subseteq messages' /\ flusher' \in FlushPc
    BY <1>2, <2>1 DEF JobPc
  <2>3. Fits(c, chat[c], "user", usage[c] + 1, conv, messages')
    BY <1>2, <1>4, <2>1 DEF Fits
  <2>4. InFlight(chat[c], "user") <=> InFlight(chat[c], job[c])
    BY <1>4 DEF InFlight
  <2> QED
    BY <1>1, <1>2, <1>3, <2>1, <2>2, <2>3, <2>4, OneRequest
<1>5. CASE job[c] = "user"
  <2>1. usage' = usage /\ job' = [job EXCEPT ![c] = "assistant"]
        /\ AddMessage(c, "user") /\ inflight' = inflight /\ flusher' = flusher
    BY <1>5 DEF Write
  <2>2. /\ "assistant" \in JobPc /\ messages \subseteq messages' /\ flusher' \in FlushPc
        /\ conv = "alive" => <<c, "user">> \in messages'
    BY <1>2, <2>1 DEF JobPc, AddMessage
  <2>3. Fits(c, chat[c], "assistant", usage[c], conv, messages')
    BY <1>2, <1>5, <2>2 DEF Fits
  <2>4. InFlight(chat[c], "assistant") <=> InFlight(chat[c], job[c])
    BY <1>5 DEF InFlight
  <2> QED
    BY <1>1, <1>2, <1>3, <2>1, <2>2, <2>3, <2>4, OneRequest
<1>6. CASE job[c] = "assistant"
  <2>1. usage' = usage /\ job' = [job EXCEPT ![c] = "none"] /\ AddMessage(c, "assistant") /\ Written(c)
    BY <1>6 DEF Write
  <2>2. /\ "none" \in JobPc /\ messages \subseteq messages' /\ flusher' \in FlushPc
        /\ conv = "alive" => <<c, "assistant">> \in messages'
    BY <1>2, <2>1 DEF JobPc, AddMessage, Written, FlushPc
  <2>3. Fits(c, chat[c], "none", usage[c], conv, messages')
    <3>1. <<c, "user">> \in messages => <<c, "user">> \in messages'
      BY <2>2
    <3> QED
      BY <1>2, <1>6, <2>2, <3>1 DEF Fits
  <2>4. ~InFlight(chat[c], "none") /\ (InFlight(chat[c], job[c]) <=> c \notin Plain)
    BY <1>2, <1>6 DEF InFlight
  <2>5. /\ c \in Plain => inflight' = inflight
        /\ c \notin Plain => inflight' = inflight - 1
    BY <2>1 DEF Written
  <2> QED
    BY <1>1, <1>2, <1>3, <2>1, <2>2, <2>3, <2>4, <2>5, OneRequest, ZenonT(40)
<1> QED
  BY <1>1, <1>2, <1>4, <1>5, <1>6 DEF JobPc

LEMMA DeleteKeeps ==
  ASSUME JobConstants, HubInv, DeleteConversation
  PROVE  HubInv'
<1>1. Types' /\ Counts' /\ HubOrder' /\ Runs'
  BY DEF HubInv, DeleteConversation, Types, Counts, Holders, Writers, HubOrder, Runs, benches
<1>2. Replies'
  <2>1. conv' = "gone" /\ chat' = chat /\ job' = job /\ usage' = usage
    BY DEF DeleteConversation
  <2>2. ASSUME NEW c \in Chat
        PROVE  Fits(c, chat[c], job[c], usage[c], conv', messages')
    <3>1. Fits(c, chat[c], job[c], usage[c], conv, messages)
      BY DEF HubInv, Replies, Reply
    <3> QED
      BY <2>1, <3>1 DEF Fits
  <2> QED
    BY <2>1, <2>2 DEF Replies, Reply
<1> QED
  BY <1>1, <1>2 DEF HubInv
-----------------------------------------------------------------------------
(* The steps of a run.                                                     *)

\* A step that leaves the requests alone.
LEMMA ChatsKeep ==
  ASSUME HubInv, UNCHANGED <<chat, slots, job, inflight, usage, conv, messages>>
  PROVE  Replies' /\ Counts'
BY DEF HubInv, Replies, Reply, Counts, Holders, Writers

LEMMA OneRun ==
  ASSUME HubInv, UNCHANGED <<hub, chats, token>>, NEW r \in Run, NEW w \in RowState, NEW b \in BenchType,
         row' = [row EXCEPT ![r] = w], bench' = [bench EXCEPT ![r] = b],
         RunFits(w, b, token[r], hub)
  PROVE  HubInv'
<1>1. UNCHANGED <<chat, slots, job, inflight, flusher, usage, conv, messages>>
  BY DEF chats, store
<1>2. Types /\ Runs /\ HubOrder
  BY DEF HubInv
<1>3. Types'
  BY <1>1, <1>2 DEF Types
<1>4. HubOrder'
  BY <1>1, <1>2 DEF HubOrder
<1>5. Runs'
  <2>1. row \in [Run -> RowState] /\ bench \in [Run -> BenchType]
    BY <1>2 DEF Types
  <2> QED
    BY <1>2, <2>1 DEF Runs
<1> QED
  BY <1>1, <1>3, <1>4, <1>5, ChatsKeep DEF HubInv

LEMMA RunIs ==
  ASSUME HubInv, NEW r \in Run
  PROVE  /\ row \in [Run -> RowState] /\ bench \in [Run -> BenchType]
         /\ RunFits(row[r], bench[r], token[r], hub) /\ row = [row EXCEPT ![r] = row[r]]
         /\ row[r] \in RowState /\ bench[r] \in BenchType /\ bench[r].at \in Nat
         /\ token[r] \in {"no", "cancelled"}
<1>1. row \in [Run -> RowState] /\ bench \in [Run -> BenchType] /\ token \in [Run -> {"no", "cancelled"}]
  BY DEF HubInv, Types
<1>2. bench[r] \in BenchType /\ row[r] \in RowState /\ token[r] \in {"no", "cancelled"}
  BY <1>1
<1>3. bench[r].at \in Nat
  BY <1>2 DEF BenchType
<1>4. RunFits(row[r], bench[r], token[r], hub)
  BY DEF HubInv, Runs
<1> QED
  BY <1>1, <1>2, <1>3, <1>4

LEMMA RunKeeps ==
  ASSUME HubInv, NEW r \in Run, StartRun(r) \/ RunStep(r) \/ Panic(r)
  PROVE  HubInv'
<1>1. /\ row \in [Run -> RowState] /\ bench \in [Run -> BenchType]
      /\ RunFits(row[r], bench[r], token[r], hub) /\ row = [row EXCEPT ![r] = row[r]]
      /\ row[r] \in RowState /\ bench[r] \in BenchType /\ bench[r].at \in Nat
      /\ token[r] \in {"no", "cancelled"}
  BY RunIs
<1>2. {"running", "completed", "failed"} \subseteq RowState
  BY DEF RowState
<1>3. ASSUME NEW p, p \in {"spawned", "level", "update", "emit", "gone"}
      PROVE  /\ [bench[r] EXCEPT !.pc = p] \in BenchType /\ [bench[r] EXCEPT !.pc = p].pc = p
             /\ [bench EXCEPT ![r].pc = p] = [bench EXCEPT ![r] = [bench[r] EXCEPT !.pc = p]]
  BY <1>1, <1>3 DEF BenchType
<1>4. CASE StartRun(r)
  <2>1. /\ UNCHANGED <<hub, chats, token>> /\ hub = "up" /\ row[r] = "none" /\ row' = [row EXCEPT ![r] = "running"]
        /\ bench' = [bench EXCEPT ![r].pc = "spawned"]
    BY <1>4 DEF StartRun
  <2>2. PICK b : b = [bench[r] EXCEPT !.pc = "spawned"]
    OBVIOUS
  <2>3. b \in BenchType /\ b.pc = "spawned" /\ bench' = [bench EXCEPT ![r] = b]
    BY <1>3, <2>1, <2>2
  <2>4. RunFits("running", b, token[r], hub)
    BY <1>1, <2>1, <2>3 DEF RunFits
  <2> QED
    BY <1>2, <2>1, <2>3, <2>4, OneRun
<1>5. CASE Begin(r)
  <2>1. /\ UNCHANGED <<hub, chats, token>> /\ bench[r].pc = "spawned" /\ row' = row /\ Alive
        /\ \/ token[r] = "cancelled" /\ bench' = [bench EXCEPT ![r].pc = "gone"]
           \/ token[r] # "cancelled" /\ bench' = [bench EXCEPT ![r].pc = "level"]
    BY <1>5 DEF Begin
  <2>2. CASE token[r] = "cancelled"
    <3>1. PICK b : b = [bench[r] EXCEPT !.pc = "gone"]
      OBVIOUS
    <3>2. b \in BenchType /\ b.pc = "gone" /\ bench' = [bench EXCEPT ![r] = b]
      BY <1>3, <2>1, <2>2, <3>1
    <3>3. RunFits(row[r], b, token[r], hub)
      BY <1>1, <2>1, <2>2, <3>2 DEF RunFits, Alive
    <3> QED
      BY <1>1, <2>1, <3>2, <3>3, OneRun
  <2>3. CASE token[r] # "cancelled"
    <3>1. PICK b : b = [bench[r] EXCEPT !.pc = "level"]
      OBVIOUS
    <3>2. b \in BenchType /\ b.pc = "level" /\ bench' = [bench EXCEPT ![r] = b]
      BY <1>3, <2>1, <2>3, <3>1
    <3>3. RunFits(row[r], b, token[r], hub)
      BY <1>1, <2>1, <2>3, <3>2 DEF RunFits, Alive
    <3> QED
      BY <1>1, <2>1, <3>2, <3>3, OneRun
  <2> QED
    BY <2>2, <2>3
<1>6. CASE Level(r)
  <2>1. /\ UNCHANGED <<hub, chats, token>> /\ bench[r].pc = "level" /\ row' = row /\ Alive
        /\ \/ bench' = [bench EXCEPT ![r].at = @ + 1]
           \/ bench' = [bench EXCEPT ![r].pc = "update"]
    BY <1>6 DEF Level
  <2>2. \E b \in BenchType : b.pc \in {"level", "update"} /\ bench' = [bench EXCEPT ![r] = b]
    <3>1. CASE bench' = [bench EXCEPT ![r].at = @ + 1]
      <4> DEFINE b == [bench[r] EXCEPT !.at = bench[r].at + 1]
      <4>1. bench' = [bench EXCEPT ![r] = b] /\ b \in BenchType /\ b.pc = "level"
        BY <1>1, <2>1, <3>1 DEF BenchType
      <4> QED
        BY <4>1
    <3>2. CASE bench' = [bench EXCEPT ![r].pc = "update"]
      BY <1>3, <3>2
    <3> QED
      BY <2>1, <3>1, <3>2
  <2>3. PICK b \in BenchType : b.pc \in {"level", "update"} /\ bench' = [bench EXCEPT ![r] = b]
    BY <2>2
  <2>4. RunFits(row[r], b, token[r], hub)
    BY <1>1, <2>1, <2>3 DEF RunFits, Alive
  <2> QED
    BY <1>1, <2>1, <2>3, <2>4, OneRun
<1>7. CASE Panic(r) \/ Complete(r)
  <2>1. /\ UNCHANGED <<hub, chats, token>> /\ bench[r].pc \in {"level", "update"} /\ Alive
        /\ bench' = [bench EXCEPT ![r].pc = "emit"]
        /\ row' = [row EXCEPT ![r] = "failed"] \/ row' = [row EXCEPT ![r] = "completed"]
    BY <1>7 DEF Panic, Complete
  <2>2. PICK b : b = [bench[r] EXCEPT !.pc = "emit"]
    OBVIOUS
  <2>3. b \in BenchType /\ b.pc = "emit" /\ bench' = [bench EXCEPT ![r] = b]
    BY <1>3, <2>1, <2>2
  <2>4. RunFits("failed", b, token[r], hub) /\ RunFits("completed", b, token[r], hub)
    BY <1>1, <2>1, <2>3 DEF RunFits, Alive
  <2> QED
    BY <1>2, <2>1, <2>3, <2>4, OneRun
<1>8. CASE Done(r) \/ CancelRun(r)
  <2>1. /\ UNCHANGED <<hub, chats, token>> /\ Alive /\ bench' = [bench EXCEPT ![r].pc = "gone"]
        /\ \/ bench[r].pc = "emit" /\ row' = row
           \/ bench[r].pc = "level" /\ row' = [row EXCEPT ![r] = "failed"]
    BY <1>8 DEF Done, CancelRun
  <2>2. PICK b : b = [bench[r] EXCEPT !.pc = "gone"]
    OBVIOUS
  <2>3. b \in BenchType /\ b.pc = "gone" /\ bench' = [bench EXCEPT ![r] = b]
    BY <1>3, <2>1, <2>2
  <2>4. CASE bench[r].pc = "emit" /\ row' = row
    <3>1. RunFits(row[r], b, token[r], hub)
      BY <1>1, <2>1, <2>3, <2>4 DEF RunFits, Alive
    <3>2. row' = [row EXCEPT ![r] = row[r]] /\ row[r] \in RowState /\ UNCHANGED <<hub, chats, token>>
      BY <1>1, <2>1, <2>4
    <3> QED
      BY <2>3, <3>1, <3>2, OneRun
  <2>5. CASE bench[r].pc = "level" /\ row' = [row EXCEPT ![r] = "failed"]
    <3>1. RunFits("failed", b, token[r], hub)
      BY <1>1, <2>1, <2>3, <2>5 DEF RunFits, Alive
    <3> QED
      BY <1>2, <2>1, <2>3, <2>5, <3>1, OneRun
  <2> QED
    BY <2>1, <2>4, <2>5
<1> QED
  BY <1>4, <1>5, <1>6, <1>7, <1>8 DEF RunStep
-----------------------------------------------------------------------------
(* The steps of the hub.                                                   *)

\* A step of the hub alone: what an earlier step of its end left stays so.
LEMMA HubMoves ==
  ASSUME HubInv, hub' \in HubPc, UNCHANGED <<chat, slots, job, inflight, usage, conv, messages, row, bench>>,
         flusher' \in FlushPc, token' \in [Run -> {"no", "cancelled"}], HubOrder',
         \A r \in Run : RunFits(row[r], bench[r], token'[r], hub')
  PROVE  HubInv'
<1>1. Types'
  BY DEF HubInv, Types
<1>2. Replies' /\ Counts'
  BY ChatsKeep
<1>3. Runs'
  BY DEF Runs
<1> QED
  BY <1>1, <1>2, <1>3 DEF HubInv

LEMMA HubKeeps ==
  ASSUME JobConstants, HubInv, Stop \/ NotReady \/ GraceOver \/ Drained \/ Flush \/ CancelRuns
  PROVE  HubInv'
<1>1. /\ hub \in HubPc /\ flusher \in FlushPc /\ token \in [Run -> {"no", "cancelled"}] /\ HubOrder
      /\ \A r \in Run : RunFits(row[r], bench[r], token[r], hub)
  BY DEF HubInv, Types, Runs
<1>2. UNCHANGED <<chat, slots, job, inflight, usage, conv, messages, row, bench>>
  BY DEF Stop, NotReady, GraceOver, Drained, Flush, CancelRuns, chats, store, benches
<1>3. CASE Stop \/ NotReady \/ GraceOver
  <2>1. /\ hub' \in HubPc /\ flusher' \in FlushPc /\ token' = token
        /\ hub' = hub \/ (hub \in {"up", "draining"} /\ hub' \in {"draining", "aborting"})
    BY <1>1, <1>3 DEF Stop, NotReady, GraceOver, chats, benches, HubPc
  <2>2. HubOrder'
    BY <1>1, <1>2, <2>1 DEF HubOrder
  <2>3. \A r \in Run : RunFits(row[r], bench[r], token'[r], hub')
    BY <1>1, <2>1 DEF RunFits
  <2> QED
    BY <1>1, <1>2, <2>1, <2>2, <2>3, HubMoves
<1>4. CASE Drained
  <2>1. /\ hub' = "flush" /\ hub' \in HubPc /\ flusher' \in FlushPc /\ token' = token
        /\ hub \in {"draining", "aborting"} /\ Handling = {}
    BY <1>1, <1>4 DEF Drained, Closed, chats, benches, HubPc
  <2>2. HubOrder'
    <3>1. \A c \in Chat : chat[c].pc \in {"none", "ended"}
      BY <2>1 DEF Handling
    <3> QED
      BY <1>2, <2>1, <3>1 DEF HubOrder
  <2>3. \A r \in Run : RunFits(row[r], bench[r], token'[r], hub')
    BY <1>1, <2>1 DEF RunFits
  <2> QED
    BY <1>1, <1>2, <2>1, <2>2, <2>3, HubMoves
<1>5. CASE Flush
  <2>1. /\ hub = "flush" /\ token' = token /\ flusher' \in FlushPc
        /\ hub' = "flush" \/ (hub' = "bench" /\ inflight = 0)
    BY <1>5 DEF Flush, Register, ReadCount, Await, benches, FlushPc
  <2>2. hub' \in HubPc
    BY <2>1 DEF HubPc
  <2>3. ASSUME inflight = 0, NEW c \in Chat
        PROVE  job[c] = "none"
    <3>1. Writers = {}
      <4>1. IsFiniteSet(Writers) /\ Cardinality(Writers) = 0
        BY <2>3, CountsAreFinite DEF HubInv, Counts
      <4> QED
        BY <4>1, FS_EmptySet
    <3>2. chat[c].pc \in {"none", "ended"} /\ Fits(c, chat[c], job[c], usage[c], conv, messages) /\ chat[c].mode \in {"stream", "plain"}
      BY <2>1, OneIs
    <3>3. ~InFlight(chat[c], job[c])
      BY <3>1 DEF Writers
    <3> QED
      BY <3>2, <3>3 DEF Fits, InFlight
  <2>4. HubOrder'
    BY <1>1, <1>2, <2>1, <2>3 DEF HubOrder
  <2>5. \A r \in Run : RunFits(row[r], bench[r], token'[r], hub')
    BY <1>1, <2>1 DEF RunFits
  <2> QED
    BY <1>1, <1>2, <2>1, <2>2, <2>4, <2>5, HubMoves
<1>6. CASE CancelRuns
  <2>1. /\ hub = "bench" /\ hub' = "joining" /\ flusher' = flusher
        /\ token' = [r \in Run |-> IF bench[r].pc = "none" THEN token[r] ELSE "cancelled"]
    BY <1>6 DEF CancelRuns, chats
  <2>2. hub' \in HubPc /\ flusher' \in FlushPc /\ token' \in [Run -> {"no", "cancelled"}]
    BY <1>1, <2>1 DEF HubPc
  <2>3. HubOrder'
    BY <1>1, <1>2, <2>1 DEF HubOrder
  <2>4. \A r \in Run : RunFits(row[r], bench[r], token'[r], hub')
    BY <1>1, <2>1 DEF RunFits
  <2> QED
    BY <1>2, <2>2, <2>3, <2>4, HubMoves
<1> QED
  BY <1>3, <1>4, <1>5, <1>6

LEMMA JoinKeeps ==
  ASSUME HubInv, JoinRuns
  PROVE  HubInv'
<1>1. /\ hub = "joining" /\ hub' = "down" /\ UNCHANGED <<chat, slots, job, inflight, flusher, usage, conv, messages, bench, token>>
      /\ row' = [r \in Run |-> IF row[r] = "running" THEN "failed" ELSE row[r]]
      /\ \A r \in Run : bench[r].pc \in {"none", "gone"}
  BY DEF JoinRuns, Joined, Recovered, chats, store
<1>2. Types /\ HubOrder /\ Runs
  BY DEF HubInv
<1>3. Types'
  <2>1. row' \in [Run -> RowState] /\ hub' \in HubPc
    BY <1>1, <1>2 DEF Types, RowState, HubPc
  <2> QED
    BY <1>1, <1>2, <2>1 DEF Types
<1>4. HubOrder'
  BY <1>1, <1>2 DEF HubOrder
<1>5. Runs'
  BY <1>1, <1>2 DEF Runs, RunFits
<1> QED
  BY <1>1, <1>3, <1>4, <1>5, ChatsKeep DEF HubInv

LEMMA StartKeeps ==
  ASSUME HubInv, Start
  PROVE  HubInv'
<1>1. /\ hub \in {"down", "crashed"} /\ hub' = "up"
      /\ UNCHANGED <<chat, slots, job, inflight, flusher, usage, conv, messages, bench, token>>
      /\ row' = [r \in Run |-> IF row[r] = "running" THEN "failed" ELSE row[r]]
  BY DEF Start, Alive, RecoveredAtStart, Recovered, chats, store
<1>2. Types /\ Runs
  BY DEF HubInv
<1>3. Types'
  <2>1. row' \in [Run -> RowState] /\ hub' \in HubPc
    BY <1>1, <1>2 DEF Types, RowState, HubPc
  <2> QED
    BY <1>1, <1>2, <2>1 DEF Types
<1>4. HubOrder'
  BY <1>1 DEF HubOrder
<1>5. Runs'
  BY <1>1, <1>2 DEF Runs, RunFits
<1> QED
  BY <1>1, <1>3, <1>4, <1>5, ChatsKeep DEF HubInv

LEMMA CrashKeeps ==
  ASSUME JobConstants, HubInv, Crash
  PROVE  HubInv'
<1>1. /\ hub' = "crashed" /\ slots' = 0 /\ inflight' = 0 /\ flusher' = "no"
      /\ chat' = [c \in Chat |-> IF chat[c].pc = "none" THEN Idle ELSE [Idle EXCEPT !.pc = "ended"]]
      /\ job' = [c \in Chat |-> "none"] /\ UNCHANGED <<usage, conv, messages, row, token>>
      /\ bench' = [r \in Run |-> IF bench[r].pc = "none" THEN bench[r] ELSE [pc |-> "gone", at |-> 0]]
  BY DEF Crash, store
<1>2. Types /\ Replies /\ Runs
  BY DEF HubInv
<1>3. /\ Idle.pc = "none" /\ Idle.rec = "none" /\ Idle.mode = "stream" /\ Idle \in ChatType
      /\ [Idle EXCEPT !.pc = "ended"].pc = "ended" /\ [Idle EXCEPT !.pc = "ended"].rec = "none"
      /\ [Idle EXCEPT !.pc = "ended"].mode = "stream" /\ [Idle EXCEPT !.pc = "ended"] \in ChatType
  BY DEF Idle, ChatType, ChatPc
<1>4. PICK e : e = [Idle EXCEPT !.pc = "ended"]
  OBVIOUS
<1>5. \A c \in Chat : chat'[c] = (IF chat[c].pc = "none" THEN Idle ELSE e) /\ job'[c] = "none"
  BY <1>1, <1>4
<1>6. Types'
  <2>1. chat' \in [Chat -> ChatType] /\ job' \in [Chat -> JobPc] /\ hub' \in HubPc /\ flusher' \in FlushPc
    BY <1>1, <1>3 DEF JobPc, HubPc, FlushPc
  <2>2. bench' \in [Run -> BenchType]
    BY <1>1, <1>2 DEF Types, BenchType
  <2> QED
    BY <1>1, <1>2, <2>1, <2>2 DEF Types
<1>7. Replies'
  <2>1. ASSUME NEW c \in Chat
        PROVE  Fits(c, chat'[c], job'[c], usage[c], conv, messages)
    <3>1. Fits(c, chat[c], job[c], usage[c], conv, messages)
      BY <1>2 DEF Replies, Reply
    <3>2. CASE chat[c].pc = "none"
      BY <1>3, <1>5, <3>1, <3>2 DEF Fits
    <3>3. CASE chat[c].pc # "none"
      <4>1. chat'[c] = e /\ e.pc = "ended" /\ e.rec = "none" /\ job'[c] = "none"
        BY <1>3, <1>4, <1>5, <3>3
      <4> QED
        BY <3>1, <4>1 DEF Fits
    <3> QED
      BY <3>2, <3>3
  <2> QED
    BY <1>1, <2>1 DEF Replies, Reply
<1>8. Counts'
  <2>1. \A c \in Chat : ~HasSlot(chat'[c]) /\ ~InFlight(chat'[c], job'[c])
    BY <1>3, <1>4, <1>5 DEF HasSlot, InFlight
  <2>2. Holders' = {} /\ Writers' = {}
    BY <2>1 DEF Holders, Writers
  <2>3. Cardinality(Holders') = 0 /\ Cardinality(Writers') = 0
    BY <2>2, FS_EmptySet
  <2> QED
    BY <1>1, <2>3 DEF Counts, JobConstants
<1>9. HubOrder'
  BY <1>1 DEF HubOrder
<1>10. Runs'
  <2>1. ASSUME NEW r \in Run
        PROVE  RunFits(row[r], bench'[r], token[r], "crashed")
    <3>1. RunFits(row[r], bench[r], token[r], hub)
      BY <1>2 DEF Runs
    <3>2. bench'[r] = IF bench[r].pc = "none" THEN bench[r] ELSE [pc |-> "gone", at |-> 0]
      BY <1>1
    <3>3. PICK g : g = [pc |-> "gone", at |-> 0]
      OBVIOUS
    <3>4. g.pc = "gone" /\ (bench'[r] = IF bench[r].pc = "none" THEN bench[r] ELSE g)
      BY <3>2, <3>3
    <3> QED
      BY <3>1, <3>4 DEF RunFits
  <2> QED
    BY <1>1, <2>1 DEF Runs
<1> QED
  BY <1>6, <1>7, <1>8, <1>9, <1>10 DEF HubInv

LEMMA InitHolds ==
  ASSUME JobConstants, Init
  PROVE  HubInv
<1>1. Types
  BY DEF Init, Types, HubPc, ChatType, ChatPc, JobPc, FlushPc, RowState, BenchType, Idle
<1>2. Replies
  BY DEF Init, Replies, Reply, Fits, Idle
<1>3. Counts
  <2>1. \A c \in Chat : ~HasSlot(chat[c]) /\ ~InFlight(chat[c], job[c])
    BY DEF Init, HasSlot, InFlight, Idle
  <2>2. Holders = {} /\ Writers = {}
    BY <2>1 DEF Holders, Writers
  <2>3. Cardinality(Holders) = 0 /\ Cardinality(Writers) = 0
    BY <2>2, FS_EmptySet
  <2> QED
    BY <2>3 DEF Init, Counts, JobConstants
<1>4. HubOrder /\ Runs
  BY DEF Init, HubOrder, Runs, RunFits
<1> QED
  BY <1>1, <1>2, <1>3, <1>4 DEF HubInv

LEMMA NextKeeps ==
  ASSUME JobConstants, HubInv, [Next]_vars
  PROVE  HubInv'
<1>1. ASSUME NEW c \in Chat, NEW mode \in {"stream", "plain"}, Ask(c, mode)
      PROVE  HubInv'
  <2>1. mode = "stream" \/ mode = "plain"
    BY <1>1
  <2> QED
    BY <1>1, <2>1, AskKeeps
<1>2. ASSUME NEW c \in Chat, Handle(c) \/ Leave(c) \/ Aborted(c) \/ Write(c)
      PROVE  HubInv'
  BY <1>2, FailKeeps, OpenedKeeps, AnsweredKeeps, RelayKeeps, CloseKeeps, ReturnKeeps, DropKeeps, WriteKeeps
     DEF Handle, Leave, Aborted
<1>3. ASSUME NEW r \in Run, StartRun(r) \/ RunStep(r) \/ Panic(r)
      PROVE  HubInv'
  BY <1>3, RunKeeps
<1>4. CASE DeleteConversation \/ NotReady \/ Stop \/ Ends \/ Crash \/ Start
  BY <1>4, DeleteKeeps, HubKeeps, JoinKeeps, CrashKeeps, StartKeeps DEF Ends
<1>5. CASE UNCHANGED vars
  <2>1. UNCHANGED <<hub, flusher, row, bench, token>> /\ UNCHANGED <<chat, slots, job, inflight, usage, conv, messages>>
    BY <1>5 DEF vars
  <2>2. Types' /\ HubOrder' /\ Runs'
    BY <2>1 DEF HubInv, Types, HubOrder, Runs
  <2> QED
    BY <2>1, <2>2, ChatsKeep DEF HubInv
<1> QED
  BY <1>1, <1>2, <1>3, <1>4, <1>5 DEF Next

LEMMA HubIsSafe ==
  ASSUME JobConstants, HubInv
  PROVE  TypeOK /\ RecordedOnce /\ NoRunLeft
<1>1. Types /\ Replies /\ Counts /\ HubOrder /\ Runs
  BY DEF HubInv
<1>2. TypeOK
  <2>1. slots \in 0..Streams /\ inflight \in 0..Cardinality(Chat)
    <3>1. slots \in Nat /\ slots <= Streams /\ Streams \in Nat /\ inflight \in 0..Cardinality(Chat)
      BY <1>1, CountsAreFinite DEF Counts, JobConstants
    <3> QED
      BY <3>1
  <2>2. \A c \in Chat : chat[c].pc \in ChatPc /\ job[c] \in JobPc
    BY OneIs
  <2>3. \A r \in Run : row[r] \in RowState /\ bench[r] \in BenchType
    BY RunIs
  <2> QED
    BY <1>1, <2>1, <2>2, <2>3 DEF TypeOK, Types, HubPc, ChatPc, JobPc, FlushPc, RowState, BenchType
<1>3. RecordedOnce
  <2>1. ASSUME NEW c \in Chat
        PROVE  /\ usage[c] <= 1
               /\ hub = "down" /\ chat[c].rec # "none" =>
                     usage[c] = 1 /\ (conv = "alive" => {<<c, "user">>, <<c, "assistant">>} \subseteq messages)
    <3>1. /\ Fits(c, chat[c], job[c], usage[c], conv, messages) /\ chat[c].rec \in {"none", "held", "handed"}
          /\ hub = "down" => chat[c].pc \in {"none", "ended"} /\ job[c] = "none"
      BY OneIs
    <3> QED
      BY <3>1 DEF Fits
  <2> QED
    BY <2>1 DEF RecordedOnce
<1>4. NoRunLeft
  BY <1>1 DEF Runs, RunFits, NoRunLeft
<1> QED
  BY <1>2, <1>3, <1>4

\* HubJobs: the invariant holds of every behaviour of the hub.
THEOREM HubInvariant == Spec => []HubInv
<1>1. Init => HubInv
  BY JobConstants, InitHolds
<1>2. HubInv /\ [Next]_vars => HubInv'
  BY JobConstants, NextKeeps
<1> QED
  BY <1>1, <1>2, PTL DEF Spec

\* A benchmark's row that has ended keeps its state: recover(), the task that
\* ends and the one that is cancelled never overwrite each other (bench.rs).
THEOREM EndedRowsStay == Spec => RowsAreFinal
<1>1. HubInv /\ [Next]_vars => [RowsKept]_vars
  <2> SUFFICES ASSUME HubInv, Next
               PROVE  RowsKept
    BY DEF RowsKept
  <2>1. /\ row \in [Run -> RowState] /\ \A r \in Run : RunFits(row[r], bench[r], token[r], hub)
    BY DEF HubInv, Types, Runs
  <2>2. CASE UNCHANGED row
    BY <2>2 DEF RowsKept
  <2>3. ASSUME NEW r \in Run, StartRun(r) \/ RunStep(r) \/ Panic(r)
        PROVE  RowsKept
    <3>1. UNCHANGED row \/ (row[r] \notin {"completed", "failed"} /\ \E w : row' = [row EXCEPT ![r] = w])
      BY <2>1, <2>3 DEF StartRun, RunStep, Begin, Level, Complete, Done, CancelRun, Panic, RunFits
    <3> QED
      BY <2>1, <3>1 DEF RowsKept
  <2>4. CASE JoinRuns \/ Start
    BY <2>1, <2>4 DEF JoinRuns, Start, Recovered, RecoveredAtStart, RowsKept
  <2>5. ASSUME NEW c \in Chat, (\E mode \in {"stream", "plain"} : Ask(c, mode)) \/ Handle(c) \/ Leave(c) \/ Aborted(c) \/ Write(c)
        PROVE  UNCHANGED row
    BY <2>5 DEF Ask, Handle, Leave, Aborted, Drop, Write, Fail, Opened, Answered, Relay, Close, Return, benches
  <2>6. CASE DeleteConversation \/ NotReady \/ Stop \/ GraceOver \/ Drained \/ Flush \/ CancelRuns \/ Crash
    <3>1. UNCHANGED row
      BY <2>6 DEF DeleteConversation, NotReady, Stop, GraceOver, Drained, Flush, CancelRuns, Crash, benches
    <3> QED
      BY <2>2, <3>1
  <2> QED
    BY <2>2, <2>3, <2>4, <2>5, <2>6 DEF Next, Ends
<1> QED
  BY <1>1, HubInvariant, PTL DEF Spec, RowsAreFinal

-----------------------------------------------------------------------------
(* The arena: what a vote read is a set of votes that count for its model. *)

Ballot == [pc : {"none", "refused", "set", "read a", "read b", "put a", "put b", "done"},
           on : Match \cup {"none"}, ra : SUBSET Voter, rb : SUBSET Voter]
Ballots == vote \in [Voter -> Ballot] /\ rating \in [Model -> SUBSET Voter] /\ games \in [Model -> Nat]
Started(v) == vote[v].pc \in {"set", "read a", "read b", "put a", "put b", "done"}
ReadTruly(v) ==
  /\ Started(v) => vote[v].on \in Match
  /\ vote[v].pc \in {"read a", "read b", "put a", "put b"} => Votes!A(v) # Votes!B(v)
  /\ vote[v].pc \in {"read b", "put a"} => vote[v].ra \subseteq Votes!Voted(Votes!A(v))
  /\ vote[v].pc \in {"put a", "put b"} => vote[v].rb \subseteq Votes!Voted(Votes!B(v))
VoteInv == Ballots /\ (\A v \in Voter : ReadTruly(v)) /\ Votes!GamesAddUp

LEMMA VoteCountsAre == \A S : Votes!Cardinality(S) = Cardinality(S)
BY DEF Votes!Cardinality, Cardinality

\* A vote v moves to b and the ratings stay: nobody is counted anew.
LEMMA VoteMoves ==
  ASSUME ArenaConstants, VoteInv, NEW v \in Voter, NEW b \in Ballot, vote' = [vote EXCEPT ![v] = b],
         UNCHANGED <<rating, games>>, vote[v].pc \in {"none", "set", "read a", "read b"},
         b.pc \in {"refused", "set", "done", "read a", "read b", "put a"},
         b.on \in Match, b.pc = "done" => Models[b.on][1] = Models[b.on][2],
         b.pc \in {"read a", "read b", "put a"} => Models[b.on][1] # Models[b.on][2],
         b.pc \in {"read b", "put a"} => b.ra \subseteq Votes!Voted(Models[b.on][1]),
         b.pc = "put a" => b.rb \subseteq Votes!Voted(Models[b.on][2])
  PROVE  VoteInv'
<1>1. /\ vote \in [Voter -> Ballot] /\ vote'[v] = b /\ vote' \in [Voter -> Ballot]
      /\ \A u \in Voter : u # v => vote'[u] = vote[u]
  BY DEF VoteInv, Ballots
<1>2. /\ Votes!A(v)' = Models[b.on][1] /\ Votes!B(v)' = Models[b.on][2]
      /\ \A u \in Voter : u # v => Votes!A(u)' = Votes!A(u) /\ Votes!B(u)' = Votes!B(u)
  BY <1>1 DEF Votes!A, Votes!B
<1>3. ASSUME NEW x
      PROVE  Votes!Voted(x)' = Votes!Voted(x)
  <2>1. v \notin Votes!Voted(x)
    BY DEF Votes!Voted
  <2>2. v \notin Votes!Voted(x)'
    BY <1>1, <1>2 DEF Votes!Voted
  <2>3. ASSUME NEW u \in Voter, u # v
        PROVE  u \in Votes!Voted(x)' <=> u \in Votes!Voted(x)
    <3>1. vote'[u] = vote[u] /\ Votes!A(u)' = Votes!A(u) /\ Votes!B(u)' = Votes!B(u)
      BY <1>1, <1>2, <2>3
    <3> QED
      BY <3>1 DEF Votes!Voted
  <2>4. Votes!Voted(x) \subseteq Voter /\ Votes!Voted(x)' \subseteq Voter
    BY DEF Votes!Voted
  <2>5. PICK S, T : S = Votes!Voted(x) /\ T = Votes!Voted(x)'
    OBVIOUS
  <2>6. \A u : u \in T <=> u \in S
    BY <2>1, <2>2, <2>3, <2>4, <2>5
  <2>7. T = S
    BY <2>6
  <2> QED
    BY <2>5, <2>7
<1>4. Ballots'
  BY <1>1 DEF VoteInv, Ballots
<1>5. ASSUME NEW u \in Voter
      PROVE  ReadTruly(u)'
  <2>1. CASE u = v
    BY <1>1, <1>2, <1>3, <2>1 DEF ReadTruly, Started
  <2>2. CASE u # v
    <3>1. ReadTruly(u)
      BY DEF VoteInv
    <3> QED
      BY <1>1, <1>2, <1>3, <2>2, <3>1 DEF ReadTruly, Started
  <2> QED
    BY <2>1, <2>2
<1>6. Votes!GamesAddUp'
  BY <1>3, VoteCountsAre DEF VoteInv, Votes!GamesAddUp
<1> QED
  BY <1>4, <1>5, <1>6 DEF VoteInv

LEMMA Successor == \A k \in Nat : k + 1 \in Nat
OBVIOUS

\* A vote v counts for x from here on, of what it read of x.
LEMMA VoteCounts ==
  ASSUME ArenaConstants, VoteInv, NEW v \in Voter, NEW b \in Ballot, NEW x \in Model, NEW old,
         vote' = [vote EXCEPT ![v] = b], b.on = vote[v].on, b.rb = vote[v].rb,
         rating' = [rating EXCEPT ![x] = old \cup {v}], games' = [games EXCEPT ![x] = games[x] + 1],
         \/ vote[v].pc = "put a" /\ b.pc = "put b" /\ x = Votes!A(v) /\ old = vote[v].ra
         \/ vote[v].pc = "put b" /\ b.pc = "done" /\ x = Votes!B(v) /\ old = vote[v].rb
  PROVE  VoteInv'
<1>1. /\ vote \in [Voter -> Ballot] /\ vote'[v] = b /\ vote' \in [Voter -> Ballot]
      /\ \A u \in Voter : u # v => vote'[u] = vote[u]
      /\ rating \in [Model -> SUBSET Voter] /\ games \in [Model -> Nat]
  BY DEF VoteInv, Ballots
<1>2. \A u \in Voter : Votes!A(u)' = Votes!A(u) /\ Votes!B(u)' = Votes!B(u)
  BY <1>1 DEF Votes!A, Votes!B
<1>3. ReadTruly(v) /\ Votes!A(v) # Votes!B(v) /\ b.on \in Match
  BY DEF VoteInv, ReadTruly, Started
<1>4. v \notin Votes!Voted(x) /\ v \in Votes!Voted(x)'
  BY <1>1, <1>2, <1>3 DEF Votes!Voted
<1>5. ASSUME NEW y, NEW u \in Voter, u # v \/ y # x
      PROVE  u \in Votes!Voted(y)' <=> u \in Votes!Voted(y)
  <2>1. CASE u # v
    BY <1>1, <1>2, <2>1 DEF Votes!Voted
  <2>2. CASE u = v
    BY <1>1, <1>2, <1>3, <1>5, <2>2 DEF Votes!Voted
  <2> QED
    BY <2>1, <2>2
<1>6. \A y : Votes!Voted(y) \subseteq Voter /\ Votes!Voted(y)' \subseteq Voter
  BY DEF Votes!Voted
<1>7. Votes!Voted(x)' = Votes!Voted(x) \cup {v} /\ \A y : y # x => Votes!Voted(y)' = Votes!Voted(y)
  <2>1. Votes!Voted(x)' = Votes!Voted(x) \cup {v}
    <3>1. PICK S, T : S = Votes!Voted(x) /\ T = Votes!Voted(x)'
      OBVIOUS
    <3>2. \A u : u \in T <=> u \in S \cup {v}
      BY <1>4, <1>5, <1>6, <3>1
    <3>3. T = S \cup {v}
      BY <3>2
    <3> QED
      BY <3>1, <3>3
  <2>2. ASSUME NEW y, y # x
        PROVE  Votes!Voted(y)' = Votes!Voted(y)
    <3>1. PICK S, T : S = Votes!Voted(y) /\ T = Votes!Voted(y)'
      OBVIOUS
    <3>2. \A u : u \in T <=> u \in S
      BY <1>5, <1>6, <2>2, <3>1
    <3>3. T = S
      BY <3>2
    <3> QED
      BY <3>1, <3>3
  <2> QED
    BY <2>1, <2>2
<1>8. old \subseteq Votes!Voted(x) /\ old \subseteq Voter
  BY <1>3, <1>6 DEF ReadTruly
<1>9. Ballots'
  <2>1. rating' \in [Model -> SUBSET Voter]
    BY <1>1, <1>8
  <2>2. games' \in [Model -> Nat]
    <3>1. games \in [Model -> Nat] /\ games[x] \in Nat
      BY <1>1
    <3>2. \A k \in Nat : k + 1 \in Nat
      BY Successor
    <3>3. PICK g : g = games[x] + 1
      OBVIOUS
    <3>4. games' = [games EXCEPT ![x] = g]
      BY <3>3
    <3>5. g \in Nat
      BY <3>1, <3>2, <3>3, Zenon
    <3> QED
      BY <3>1, <3>4, <3>5
  <2> QED
    BY <1>1, <2>1, <2>2 DEF Ballots
<1>10. ASSUME NEW u \in Voter
       PROVE  ReadTruly(u)'
  <2>1. \A y : Votes!Voted(y) \subseteq Votes!Voted(y)'
    BY <1>7
  <2>2. CASE u = v
    <3>1. ReadTruly(v)
      BY <1>3
    <3> QED
      BY <1>1, <1>2, <1>3, <2>1, <2>2, <3>1 DEF ReadTruly, Started
  <2>3. CASE u # v
    <3>1. ReadTruly(u)
      BY DEF VoteInv
    <3> QED
      BY <1>1, <1>2, <2>1, <2>3, <3>1 DEF ReadTruly, Started
  <2> QED
    BY <2>2, <2>3
<1>11. ASSUME NEW y \in Model
       PROVE  /\ games'[y] = Cardinality(Votes!Voted(y)') /\ rating'[y] \subseteq Votes!Voted(y)'
              /\ Votes!Voted(y)' # {} => rating'[y] # {}
  <2>1. games[y] = Cardinality(Votes!Voted(y)) /\ rating[y] \subseteq Votes!Voted(y) /\ (Votes!Voted(y) # {} => rating[y] # {})
    BY VoteCountsAre DEF VoteInv, Votes!GamesAddUp
  <2>2. CASE y # x
    BY <1>1, <1>7, <2>1, <2>2
  <2>3. CASE y = x
    <3>1. IsFiniteSet(Votes!Voted(x))
      BY <1>6, FS_Subset DEF ArenaConstants
    <3>2. Cardinality(Votes!Voted(x)') = Cardinality(Votes!Voted(x)) + 1
      BY <1>4, <1>7, <3>1, FS_AddElement
    <3>3. games'[x] = games[x] + 1 /\ rating'[x] = old \cup {v}
      BY <1>1
    <3> QED
      BY <1>7, <1>8, <2>1, <2>3, <3>2, <3>3
  <2> QED
    BY <2>2, <2>3
<1>12. Votes!GamesAddUp'
  BY <1>11, VoteCountsAre DEF Votes!GamesAddUp
<1> QED
  BY <1>9, <1>10, <1>12 DEF VoteInv

LEMMA ArenaKeeps ==
  ASSUME ArenaConstants, VoteInv, [Votes!Next]_arena
  PROVE  VoteInv'
<1>1. CASE UNCHANGED <<vote, rating, games>>
  <2>1. vote' = vote /\ rating' = rating /\ games' = games
    BY <1>1
  <2>2. \A v : Votes!A(v)' = Votes!A(v) /\ Votes!B(v)' = Votes!B(v)
    BY <2>1 DEF Votes!A, Votes!B
  <2>3. \A x : Votes!Voted(x)' = Votes!Voted(x)
    BY <2>1, <2>2 DEF Votes!Voted
  <2>4. Ballots'
    BY <2>1 DEF VoteInv, Ballots
  <2>5. \A v \in Voter : ReadTruly(v)'
    BY <2>1, <2>2, <2>3 DEF VoteInv, ReadTruly, Started
  <2>6. Votes!GamesAddUp'
    BY <2>1, <2>3, VoteCountsAre DEF VoteInv, Votes!GamesAddUp
  <2> QED
    BY <2>4, <2>5, <2>6 DEF VoteInv
<1>2. ASSUME NEW v \in Voter
      PROVE  /\ vote \in [Voter -> Ballot] /\ vote[v] \in Ballot /\ ReadTruly(v)
             /\ vote[v].ra \subseteq Voter /\ vote[v].rb \subseteq Voter /\ rating \in [Model -> SUBSET Voter]
             /\ vote[v].on \in Match => Votes!A(v) \in Model /\ Votes!B(v) \in Model
             /\ Votes!A(v) = Models[vote[v].on][1] /\ Votes!B(v) = Models[vote[v].on][2]
  <2>1. vote \in [Voter -> Ballot] /\ vote[v] \in Ballot /\ ReadTruly(v) /\ rating \in [Model -> SUBSET Voter]
    BY DEF VoteInv, Ballots
  <2>2. vote[v].ra \subseteq Voter /\ vote[v].rb \subseteq Voter
    BY <2>1 DEF Ballot
  <2>3. vote[v].on \in Match => Models[vote[v].on] \in Model \X Model
    BY DEF ArenaConstants
  <2> QED
    BY <2>1, <2>2, <2>3 DEF Votes!A, Votes!B
<1>3. ASSUME NEW v \in Voter, NEW m \in Match, Votes!ReadMatch(v, m)
      PROVE  VoteInv'
  <2> DEFINE to == IF match[m].winner # "none" THEN "refused" ELSE "set"
             b == [vote[v] EXCEPT !.on = m, !.pc = to]
  <2>1. vote[v].pc = "none" /\ vote' = [vote EXCEPT ![v].on = m, ![v].pc = to] /\ UNCHANGED <<rating, games>>
    BY <1>3 DEF Votes!ReadMatch
  <2>2. vote' = [vote EXCEPT ![v] = b]
    BY <1>2, <2>1
  <2>3. to \in {"refused", "set"}
    OBVIOUS
  <2> HIDE DEF to
  <2>4. b \in Ballot /\ b.on = m /\ b.pc = to
    BY <1>2, <2>3 DEF Ballot
  <2> HIDE DEF b
  <2>5. /\ vote[v].pc \in {"none", "set", "read a", "read b"} /\ b.on \in Match
        /\ b.pc \in {"refused", "set", "done", "read a", "read b", "put a"}
        /\ b.pc = "done" => Models[b.on][1] = Models[b.on][2]
        /\ b.pc \in {"read a", "read b", "put a"} => Models[b.on][1] # Models[b.on][2]
        /\ b.pc \in {"read b", "put a"} => b.ra \subseteq Votes!Voted(Models[b.on][1])
        /\ b.pc = "put a" => b.rb \subseteq Votes!Voted(Models[b.on][2])
    BY <2>1, <2>3, <2>4
  <2> QED
    BY <2>1, <2>2, <2>4, <2>5, VoteMoves
<1>4. ASSUME NEW v \in Voter, Votes!SetWinner(v)
      PROVE  VoteInv'
  <2> DEFINE to == IF Votes!A(v) = Votes!B(v) THEN "done" ELSE "read a"
             b == [vote[v] EXCEPT !.pc = to]
  <2>1. vote[v].pc = "set" /\ vote' = [vote EXCEPT ![v].pc = to] /\ UNCHANGED <<rating, games>>
    BY <1>4 DEF Votes!SetWinner, Votes!Go
  <2>2. vote' = [vote EXCEPT ![v] = b] /\ vote[v].on \in Match
    BY <1>2, <2>1 DEF ReadTruly, Started
  <2>3. to \in {"done", "read a"} /\ (to = "done" <=> Votes!A(v) = Votes!B(v))
    OBVIOUS
  <2> HIDE DEF to
  <2>4. b \in Ballot /\ b.on = vote[v].on /\ b.pc = to
    BY <1>2, <2>3 DEF Ballot
  <2> HIDE DEF b
  <2>5. Models[b.on][1] = Votes!A(v) /\ Models[b.on][2] = Votes!B(v) /\ b.on \in Match
    BY <1>2, <2>2, <2>4
  <2>6. /\ vote[v].pc \in {"none", "set", "read a", "read b"} /\ b.on \in Match
        /\ b.pc \in {"refused", "set", "done", "read a", "read b", "put a"}
        /\ b.pc = "done" => Models[b.on][1] = Models[b.on][2]
        /\ b.pc \in {"read a", "read b", "put a"} => Models[b.on][1] # Models[b.on][2]
        /\ b.pc \in {"read b", "put a"} => b.ra \subseteq Votes!Voted(Models[b.on][1])
        /\ b.pc = "put a" => b.rb \subseteq Votes!Voted(Models[b.on][2])
    BY <2>1, <2>3, <2>4, <2>5
  <2> QED
    BY <2>1, <2>2, <2>4, <2>6, VoteMoves
<1>5. ASSUME NEW v \in Voter, Votes!ReadA(v), UNCHANGED <<rating, games>>
      PROVE  VoteInv'
  <2> DEFINE b == [vote[v] EXCEPT !.pc = "read b", !.ra = rating[Votes!A(v)]]
  <2>1. vote[v].pc = "read a" /\ vote' = [vote EXCEPT ![v].pc = "read b", ![v].ra = rating[Votes!A(v)]]
    BY <1>5 DEF Votes!ReadA
  <2>2. vote' = [vote EXCEPT ![v] = b] /\ vote[v].on \in Match /\ Votes!A(v) # Votes!B(v) /\ Votes!A(v) \in Model
    BY <1>2, <2>1 DEF ReadTruly, Started
  <2>3. rating[Votes!A(v)] \subseteq Votes!Voted(Votes!A(v)) /\ rating[Votes!A(v)] \subseteq Voter
    BY <1>2, <2>2 DEF VoteInv, Votes!GamesAddUp
  <2>4. b \in Ballot /\ b.on = vote[v].on /\ b.pc = "read b" /\ b.ra = rating[Votes!A(v)]
    BY <1>2, <2>3, ZenonT(40) DEF Ballot
  <2> HIDE DEF b
  <2>5. Models[b.on][1] = Votes!A(v) /\ Models[b.on][2] = Votes!B(v) /\ b.on \in Match
    BY <1>2, <2>2, <2>4
  <2>6. /\ vote[v].pc \in {"none", "set", "read a", "read b"} /\ b.on \in Match
        /\ b.pc \in {"refused", "set", "done", "read a", "read b", "put a"}
        /\ b.pc = "done" => Models[b.on][1] = Models[b.on][2]
        /\ b.pc \in {"read a", "read b", "put a"} => Models[b.on][1] # Models[b.on][2]
        /\ b.pc \in {"read b", "put a"} => b.ra \subseteq Votes!Voted(Models[b.on][1])
        /\ b.pc = "put a" => b.rb \subseteq Votes!Voted(Models[b.on][2])
    BY <2>1, <2>2, <2>3, <2>4, <2>5
  <2> QED
    BY <1>5, <2>1, <2>2, <2>4, <2>6, VoteMoves
<1>6. ASSUME NEW v \in Voter, Votes!ReadB(v), UNCHANGED <<rating, games>>
      PROVE  VoteInv'
  <2> DEFINE b == [vote[v] EXCEPT !.pc = "put a", !.rb = rating[Votes!B(v)]]
  <2>1. vote[v].pc = "read b" /\ vote' = [vote EXCEPT ![v].pc = "put a", ![v].rb = rating[Votes!B(v)]]
    BY <1>6 DEF Votes!ReadB
  <2>2. /\ vote' = [vote EXCEPT ![v] = b] /\ vote[v].on \in Match /\ Votes!A(v) # Votes!B(v) /\ Votes!B(v) \in Model
        /\ vote[v].ra \subseteq Votes!Voted(Votes!A(v))
    BY <1>2, <2>1 DEF ReadTruly, Started
  <2>3. rating[Votes!B(v)] \subseteq Votes!Voted(Votes!B(v)) /\ rating[Votes!B(v)] \subseteq Voter
    BY <1>2, <2>2 DEF VoteInv, Votes!GamesAddUp
  <2>4. b \in Ballot /\ b.on = vote[v].on /\ b.pc = "put a" /\ b.ra = vote[v].ra /\ b.rb = rating[Votes!B(v)]
    BY <1>2, <2>3 DEF Ballot
  <2> HIDE DEF b
  <2>5. Models[b.on][1] = Votes!A(v) /\ Models[b.on][2] = Votes!B(v) /\ b.on \in Match
    BY <1>2, <2>2, <2>4
  <2>6. /\ vote[v].pc \in {"none", "set", "read a", "read b"} /\ b.on \in Match
        /\ b.pc \in {"refused", "set", "done", "read a", "read b", "put a"}
        /\ b.pc = "done" => Models[b.on][1] = Models[b.on][2]
        /\ b.pc \in {"read a", "read b", "put a"} => Models[b.on][1] # Models[b.on][2]
        /\ b.pc \in {"read b", "put a"} => b.ra \subseteq Votes!Voted(Models[b.on][1])
        /\ b.pc = "put a" => b.rb \subseteq Votes!Voted(Models[b.on][2])
    BY <2>1, <2>2, <2>3, <2>4, <2>5
  <2> QED
    BY <1>6, <2>1, <2>2, <2>4, <2>6, VoteMoves
<1>7. ASSUME NEW v \in Voter, Votes!PutA(v)
      PROVE  VoteInv'
  <2> DEFINE b == [vote[v] EXCEPT !.pc = "put b"]
  <2>1. /\ vote[v].pc = "put a" /\ vote' = [vote EXCEPT ![v].pc = "put b"]
        /\ rating' = [rating EXCEPT ![Votes!A(v)] = vote[v].ra \cup {v}]
        /\ games' = [games EXCEPT ![Votes!A(v)] = games[Votes!A(v)] + 1]
    BY <1>7 DEF Votes!PutA, Votes!Upsert, Votes!Go, Votes!Counted
  <2>2. vote' = [vote EXCEPT ![v] = b] /\ Votes!A(v) \in Model
    BY <1>2, <2>1 DEF ReadTruly, Started
  <2>3. b \in Ballot /\ b.on = vote[v].on /\ b.pc = "put b" /\ b.rb = vote[v].rb
    BY <1>2, ZenonT(40) DEF Ballot
  <2> HIDE DEF b
  <2> QED
    BY <2>1, <2>2, <2>3, VoteCounts
<1>8. ASSUME NEW v \in Voter, Votes!PutB(v)
      PROVE  VoteInv'
  <2> DEFINE b == [vote[v] EXCEPT !.pc = "done"]
  <2>1. /\ vote[v].pc = "put b" /\ vote' = [vote EXCEPT ![v].pc = "done"]
        /\ rating' = [rating EXCEPT ![Votes!B(v)] = vote[v].rb \cup {v}]
        /\ games' = [games EXCEPT ![Votes!B(v)] = games[Votes!B(v)] + 1]
    BY <1>8 DEF Votes!PutB, Votes!Upsert, Votes!Go, Votes!Counted
  <2>2. vote' = [vote EXCEPT ![v] = b] /\ Votes!B(v) \in Model
    BY <1>2, <2>1 DEF ReadTruly, Started
  <2>3. b \in Ballot /\ b.on = vote[v].on /\ b.pc = "done" /\ b.rb = vote[v].rb
    BY <1>2, ZenonT(40) DEF Ballot
  <2> HIDE DEF b
  <2> QED
    BY <2>1, <2>2, <2>3, VoteCounts
<1>9. ASSUME NEW m \in Match, Votes!CreateMatch(m) \/ Votes!Joined(m) \/ \E side \in {"a", "b"} : Votes!AskEnds(m, side)
      PROVE  UNCHANGED <<vote, rating, games>>
  BY <1>9 DEF Votes!CreateMatch, Votes!Joined, Votes!AskEnds
<1> QED
  BY <1>1, <1>3, <1>4, <1>5, <1>6, <1>7, <1>8, <1>9 DEF Votes!Next, Votes!ReadRatings, arena

LEMMA ArenaInitHolds ==
  ASSUME ArenaConstants, Votes!Init
  PROVE  VoteInv
<1>1. /\ vote = [v \in Voter |-> Votes!NoVote] /\ rating = [x \in Model |-> {}] /\ games = [x \in Model |-> 0]
      /\ Votes!NoVote = [pc |-> "none", on |-> "none", ra |-> {}, rb |-> {}]
  BY DEF Votes!Init, Votes!NoVote
<1>2. Ballots
  BY <1>1 DEF Ballots, Ballot
<1>3. \A v \in Voter : ReadTruly(v)
  BY <1>1 DEF ReadTruly, Started
<1>4. \A x \in Model : Votes!Voted(x) = {}
  BY <1>1 DEF Votes!Voted
<1>5. Votes!GamesAddUp
  BY <1>1, <1>4, VoteCountsAre, FS_EmptySet DEF Votes!GamesAddUp
<1> QED
  BY <1>2, <1>3, <1>5 DEF VoteInv
-----------------------------------------------------------------------------
\* The arena: however the requests of a vote run at once, no vote is lost from
\* the games of its models (services/chat.rs, vote).
THEOREM ArenaInvariant == Votes!Spec => []VoteInv
<1>1. Votes!Init => VoteInv
  BY ArenaConstants, ArenaInitHolds
<1>2. VoteInv /\ [Votes!Next]_(Votes!vars) => VoteInv'
  BY ArenaConstants, ArenaKeeps DEF Votes!vars, arena
<1> QED
  BY <1>1, <1>2, PTL DEF Votes!Spec

\* A reply is recorded once, however its handler ended, a hub that is up or went
\* down in order left no run as running, and games are votes: as the run states it.
THEOREM SuiteRecordsAddUp == SuiteSpec => []RecordsAddUp
<1> DEFINE Inv == (part = "jobs" => HubInv) /\ (part = "arena" => VoteInv)
<1>1. SuiteInit => Inv
  BY JobConstants, InitHolds, ArenaConstants, ArenaInitHolds DEF SuiteInit
<1>2. Inv /\ [SuiteNext]_suiteVars => Inv'
  <2> SUFFICES ASSUME Inv, [SuiteNext]_suiteVars
               PROVE  Inv'
    OBVIOUS
  <2>1. /\ part' = part
        /\ part = "jobs" => [Next]_vars
        /\ part = "arena" => [Votes!Next]_arena
    BY DEF SuiteNext, suiteVars
  <2>2. part = "jobs" => HubInv'
    BY <2>1, JobConstants, NextKeeps
  <2>3. part = "arena" => VoteInv'
    BY <2>1, ArenaConstants, ArenaKeeps
  <2> QED
    BY <2>1, <2>2, <2>3
<1>3. Inv => RecordsAddUp
  BY JobConstants, HubIsSafe DEF RecordsAddUp, VoteInv
<1> QED
  BY <1>1, <1>2, <1>3, PTL DEF SuiteSpec
-----------------------------------------------------------------------------
(* The engines others started: what a listing is made of, and what is kept   *)
(* between two of them (Externals).                                        *)

Proper(i) == i = [id |-> i.id, kind |-> i.kind, names |-> i.names, state |-> i.state] /\ i.names \subseteq Name
Once(S) == (\A i \in S : Proper(i)) /\ \A i, j \in S : i.id = j.id => i = j
Kept(S) == Once(S) /\ \A i \in S : i.state = "stopped"
\* The entry of a container that runs: the only one that does not say it stopped.
Stands(n, i, S) ==
  /\ i \in S /\ n \in i.names /\ derived.by[n] = i.id /\ i.id # Ext!NoId
  /\ \A j \in S \ {i} : n \in j.names => j.state = "stopped"
IsEngine(n) == About[n].engine /\ ~About[n].managed
Outside(i) ==
  i.kind = "external" /\ i.names = {} => i.state = "stopped" \/ \A n \in shownAt.run : i.id[2] \notin About[n].ports
Machine == run \subseteq Name /\ inv.run \subseteq Name
Memory ==
  /\ derived = [first |-> derived.first, prev |-> derived.prev, gone |-> derived.gone,
                stopped |-> derived.stopped, by |-> derived.by]
  /\ Once(derived.prev) /\ Kept(derived.gone) /\ Kept(derived.stopped)
Listing ==
  /\ Once(shown)
  /\ shown # {} => /\ \A n \in shownAt.run : IsEngine(n) => \E i \in shown : Stands(n, i, shown)
                   /\ \A i \in shown : Outside(i)
Requests ==
  /\ op = [o \in Op |-> [pc |-> op[o].pc, action |-> op[o].action, inst |-> op[o].inst]]
  /\ \A o \in Op : Proper(op[o].inst) /\ (op[o].pc # "idle" => op[o].inst.names # {})
EngineInv == Machine /\ Memory /\ Listing /\ Requests

LEMMA InstanceIs ==
  ASSUME NEW id, NEW kind, NEW names \in SUBSET Name, NEW st, NEW i, i = Ext!Instance(id, kind, names, st)
  PROVE  Proper(i) /\ i.id = id /\ i.kind = kind /\ i.names = names /\ i.state = st
BY DEF Ext!Instance, Proper

LEMMA StateChanges ==
  ASSUME NEW i, Proper(i), NEW st, NEW j, j = [i EXCEPT !.state = st]
  PROVE  Proper(j) /\ j.id = i.id /\ j.kind = i.kind /\ j.names = i.names /\ j.state = st
<1>1. j = [id |-> i.id, kind |-> i.kind, names |-> i.names, state |-> st]
  BY DEF Proper
<1> QED
  BY <1>1 DEF Proper

\* build_host_instances: what an entry stands for.
IsScript(v, s, i) == /\ Proper(i) /\ i.id = Ext!ScriptId(s) /\ i.kind = "script" /\ i.names = Ext!Matched(v, s)
IsExternal(v, n, i) == /\ Proper(i) /\ i.id = Ext!ExternalId(v, n) /\ i.kind = "external" /\ i.names = {n}
IsBare(v, p, i) == /\ Proper(i) /\ i.id = Ext!BareId(v, p) /\ i.kind = "external" /\ i.names = {}
LEMMA BuiltAre ==
  ASSUME NEW v, v.run \subseteq Name
  PROVE  /\ \A i \in Ext!BuildHostInstances(v) :
              \/ \E s \in Script : IsScript(v, s, i) /\ i.state = Ext!ScriptState(v, s)
              \/ \E n \in Ext!EngineContainers(v) : IsExternal(v, n, i) /\ i.state = Ext!EndpointState(Ext!EndpointOf(v, About[n].ports))
              \/ \E p \in Ext!Bare(v) : IsBare(v, p, i) /\ i.state = Ext!EndpointState(v.answers[p])
         /\ \A s \in Script : \E i \in Ext!BuildHostInstances(v) : IsScript(v, s, i)
         /\ \A n \in Ext!EngineContainers(v) : \E i \in Ext!BuildHostInstances(v) : IsExternal(v, n, i)
<1>0. /\ \A t \in Script : Ext!Matched(v, t) \subseteq Name
      /\ \A m \in Ext!EngineContainers(v) : {m} \subseteq Name
  BY DEF Ext!Matched, Ext!EngineContainers
<1>1. ASSUME NEW i \in Ext!ScriptInstances(v) PROVE \E s \in Script : IsScript(v, s, i) /\ i.state = Ext!ScriptState(v, s)
  <2>1. PICK s \in Script : i = Ext!Instance(Ext!ScriptId(s), "script", Ext!Matched(v, s), Ext!ScriptState(v, s))
    BY DEF Ext!ScriptInstances
  <2> QED
    BY <2>1, <1>0, InstanceIs DEF IsScript
<1>2. ASSUME NEW i \in Ext!ExtInstances(v)
      PROVE  \E n \in Ext!EngineContainers(v) : IsExternal(v, n, i) /\ i.state = Ext!EndpointState(Ext!EndpointOf(v, About[n].ports))
  <2>1. PICK n \in Ext!EngineContainers(v) :
          i = Ext!Instance(Ext!ExternalId(v, n), "external", {n}, Ext!EndpointState(Ext!EndpointOf(v, About[n].ports)))
    BY DEF Ext!ExtInstances
  <2> QED
    BY <2>1, <1>0, InstanceIs DEF IsExternal
<1>3. ASSUME NEW i \in Ext!BareInstances(v)
      PROVE  \E p \in Ext!Bare(v) : IsBare(v, p, i) /\ i.state = Ext!EndpointState(v.answers[p])
  <2>1. PICK p \in Ext!Bare(v) : i = Ext!Instance(Ext!BareId(v, p), "external", {}, Ext!EndpointState(v.answers[p]))
    BY DEF Ext!BareInstances
  <2> QED
    BY <2>1, InstanceIs DEF IsBare
<1>4. ASSUME NEW s \in Script PROVE \E i \in Ext!ScriptInstances(v) : IsScript(v, s, i)
  <2>1. PICK i : i = Ext!Instance(Ext!ScriptId(s), "script", Ext!Matched(v, s), Ext!ScriptState(v, s))
    OBVIOUS
  <2>2. i \in Ext!ScriptInstances(v)
    BY <2>1 DEF Ext!ScriptInstances
  <2> QED
    BY <2>1, <2>2, <1>0, InstanceIs DEF IsScript
<1>5. ASSUME NEW n \in Ext!EngineContainers(v) PROVE \E i \in Ext!ExtInstances(v) : IsExternal(v, n, i)
  <2>1. PICK i : i = Ext!Instance(Ext!ExternalId(v, n), "external", {n}, Ext!EndpointState(Ext!EndpointOf(v, About[n].ports)))
    OBVIOUS
  <2>2. i \in Ext!ExtInstances(v)
    BY <2>1 DEF Ext!ExtInstances
  <2> QED
    BY <2>1, <2>2, <1>0, InstanceIs DEF IsExternal
<1> QED
  BY <1>1, <1>2, <1>3, <1>4, <1>5 DEF Ext!BuildHostInstances

\* host_part, slug and the six digits: no two entries have one id.
LEMMA IdsDiffer ==
  ASSUME NEW v, v.run \subseteq Name
  PROVE  /\ \A s, t \in Script : Ext!ScriptId(s) = Ext!ScriptId(t) => s = t
         /\ \A s \in Script, n \in Ext!EngineContainers(v) : Ext!ScriptId(s) # Ext!ExternalId(v, n)
         /\ \A s \in Script, p \in Ext!Bare(v) : Ext!ScriptId(s) # Ext!BareId(v, p)
         /\ \A n, m \in Ext!EngineContainers(v) : Ext!ExternalId(v, n) = Ext!ExternalId(v, m) => n = m
         /\ \A p, q \in Ext!Bare(v) : Ext!BareId(v, p) = Ext!BareId(v, q) => p = q
         /\ \A n \in Ext!EngineContainers(v), p \in Ext!Bare(v) : Ext!ExternalId(v, n) # Ext!BareId(v, p)
<1>1. \A a, b, c, d, e, f : <<a, b, c>> = <<d, e, f>> => a = d /\ b = e /\ c = f
  OBVIOUS
<1>2. \A n \in Ext!EngineContainers(v) : n \in Name /\ n # "" /\ n # "bare"
  BY EnginesAssumption DEF Ext!ExternalsConstants, Ext!EngineContainers
<1>3. \A s, t \in Script : Ext!ScriptId(s) = Ext!ScriptId(t) => s = t
  BY <1>1 DEF Ext!ScriptId
<1>4. \A s \in Script, n \in Ext!EngineContainers(v) : Ext!ScriptId(s) # Ext!ExternalId(v, n)
  BY <1>1 DEF Ext!ScriptId, Ext!ExternalId
<1>5. \A s \in Script, p \in Ext!Bare(v) : Ext!ScriptId(s) # Ext!BareId(v, p)
  BY <1>1 DEF Ext!ScriptId, Ext!BareId
<1>6. ASSUME NEW n \in Ext!EngineContainers(v), NEW m \in Ext!EngineContainers(v),
             Ext!ExternalId(v, n) = Ext!ExternalId(v, m), n # m
      PROVE  FALSE
  <2>1. About[n].slug = About[m].slug
    BY <1>1, <1>6 DEF Ext!ExternalId
  <2>2. Ext!Before(n, m) \/ Ext!Before(m, n)
    <3>1. PICK i, j \in DOMAIN Order : i < j /\ {Order[i], Order[j]} = {n, m}
      BY <1>2, <1>6, EnginesAssumption DEF Ext!ExternalsConstants
    <3> QED
      BY <1>6, <3>1 DEF Ext!Before
  <2>3. ASSUME NEW a \in Ext!EngineContainers(v), NEW b \in Ext!EngineContainers(v), a # b, About[a].slug = About[b].slug,
               Ext!Before(a, b), Ext!ExternalId(v, a) = Ext!ExternalId(v, b)
        PROVE  FALSE
    <3>1. Ext!ExternalId(v, b) = <<"ext", About[b].slug, b>>
      BY <2>3 DEF Ext!ExternalId
    <3>2. Ext!ExternalId(v, a) = <<"ext", About[a].slug, a>> \/ Ext!ExternalId(v, a) = <<"ext", About[a].slug, "">>
      BY DEF Ext!ExternalId
    <3>3. \A x : <<"ext", About[a].slug, x>> = <<"ext", About[b].slug, b>> => x = b
      BY <1>1
    <3>4. b = a \/ b = ""
      BY <2>3, <3>1, <3>2, <3>3
    <3> QED
      BY <1>2, <2>3, <3>4
  <2> QED
    BY <1>6, <2>1, <2>2, <2>3
<1>7. \A p, q \in Ext!Bare(v) : Ext!BareId(v, p) = Ext!BareId(v, q) => p = q
  BY <1>1 DEF Ext!BareId
<1>8. ASSUME NEW n \in Ext!EngineContainers(v), NEW p \in Ext!Bare(v), Ext!ExternalId(v, n) = Ext!BareId(v, p) PROVE FALSE
  <2>1. About[n].slug = p
    BY <1>1, <1>8 DEF Ext!ExternalId, Ext!BareId
  <2>2. Ext!BareId(v, p) = <<"ext", p, "bare">>
    BY <2>1 DEF Ext!BareId
  <2>3. Ext!ExternalId(v, n) = <<"ext", About[n].slug, n>> \/ Ext!ExternalId(v, n) = <<"ext", About[n].slug, "">>
    BY DEF Ext!ExternalId
  <2>4. n = "bare" \/ "" = "bare"
    BY <1>1, <1>8, <2>2, <2>3
  <2> QED
    BY <1>2, <2>4
<1> QED
  BY <1>3, <1>4, <1>5, <1>6, <1>7, <1>8

LEMMA BuiltOnce ==
  ASSUME NEW v, v.run \subseteq Name
  PROVE  Once(Ext!BuildHostInstances(v))
<1> DEFINE OfScript(s, i) == IsScript(v, s, i) /\ i.state = Ext!ScriptState(v, s)
           OfEngine(n, i) == IsExternal(v, n, i) /\ i.state = Ext!EndpointState(Ext!EndpointOf(v, About[n].ports))
           OfPort(p, i) == IsBare(v, p, i) /\ i.state = Ext!EndpointState(v.answers[p])
<1>1. \A i \in Ext!BuildHostInstances(v) :
        \/ \E s \in Script : OfScript(s, i)
        \/ \E n \in Ext!EngineContainers(v) : OfEngine(n, i)
        \/ \E p \in Ext!Bare(v) : OfPort(p, i)
  BY BuiltAre
<1>2. \A i \in Ext!BuildHostInstances(v) : Proper(i)
  BY <1>1 DEF IsScript, IsExternal, IsBare
<1>3. ASSUME NEW i \in Ext!BuildHostInstances(v), NEW j \in Ext!BuildHostInstances(v), i.id = j.id
      PROVE  i.kind = j.kind /\ i.names = j.names /\ i.state = j.state
  <2>1. CASE \E s \in Script : OfScript(s, i)
    <3>1. PICK s \in Script : OfScript(s, i)
      BY <2>1
    <3>2. \A n \in Ext!EngineContainers(v) : ~OfEngine(n, j)
      BY <1>3, <3>1, IdsDiffer DEF IsScript, IsExternal
    <3>3. \A p \in Ext!Bare(v) : ~OfPort(p, j)
      BY <1>3, <3>1, IdsDiffer DEF IsScript, IsBare
    <3>4. PICK t \in Script : OfScript(t, j)
      BY <1>1, <3>2, <3>3
    <3>5. s = t
      BY <1>3, <3>1, <3>4, IdsDiffer DEF IsScript
    <3> QED
      BY <3>1, <3>4, <3>5 DEF IsScript
  <2>2. CASE \E n \in Ext!EngineContainers(v) : OfEngine(n, i)
    <3>1. PICK n \in Ext!EngineContainers(v) : OfEngine(n, i)
      BY <2>2
    <3>2. \A s \in Script : ~OfScript(s, j)
      BY <1>3, <3>1, IdsDiffer DEF IsExternal, IsScript
    <3>3. \A p \in Ext!Bare(v) : ~OfPort(p, j)
      BY <1>3, <3>1, IdsDiffer DEF IsExternal, IsBare
    <3>4. PICK m \in Ext!EngineContainers(v) : OfEngine(m, j)
      BY <1>1, <3>2, <3>3
    <3>5. n = m
      BY <1>3, <3>1, <3>4, IdsDiffer DEF IsExternal
    <3> QED
      BY <3>1, <3>4, <3>5 DEF IsExternal
  <2>3. CASE \E p \in Ext!Bare(v) : OfPort(p, i)
    <3>1. PICK p \in Ext!Bare(v) : OfPort(p, i)
      BY <2>3
    <3>2. \A s \in Script : ~OfScript(s, j)
      BY <1>3, <3>1, IdsDiffer DEF IsBare, IsScript
    <3>3. \A n \in Ext!EngineContainers(v) : ~OfEngine(n, j)
      BY <1>3, <3>1, IdsDiffer DEF IsBare, IsExternal
    <3>4. PICK q \in Ext!Bare(v) : OfPort(q, j)
      BY <1>1, <3>2, <3>3
    <3>5. p = q
      BY <1>3, <3>1, <3>4, IdsDiffer DEF IsBare
    <3> QED
      BY <3>1, <3>4, <3>5 DEF IsBare
  <2> QED
    BY <1>1, <2>1, <2>2, <2>3
<1>4. ASSUME NEW i \in Ext!BuildHostInstances(v), NEW j \in Ext!BuildHostInstances(v), i.id = j.id
      PROVE  i = j
  BY <1>2, <1>3, <1>4 DEF Proper
<1> QED
  BY <1>2, <1>4 DEF Once

\* overlay_link changes no more than the state.
LEMMA OverlayKeeps ==
  ASSUME NEW i, Proper(i)
  PROVE  /\ Proper(Ext!OverlayLink(i)) /\ Ext!OverlayLink(i).id = i.id
         /\ Ext!OverlayLink(i).kind = i.kind /\ Ext!OverlayLink(i).names = i.names
<1>1. CASE up \/ i.state = "stopped"
  BY <1>1 DEF Ext!OverlayLink
<1>2. CASE ~(up \/ i.state = "stopped")
  <2>1. Ext!OverlayLink(i) = [i EXCEPT !.state = "unreachable"]
    BY <1>2 DEF Ext!OverlayLink
  <2> QED
    BY <2>1, StateChanges
<1> QED
  BY <1>1, <1>2

LEMMA CurrentAre ==
  ASSUME NEW v, v.run \subseteq Name, NEW current, current = {Ext!OverlayLink(i) : i \in Ext!BuildHostInstances(v)}
  PROVE  /\ Once(current)
         /\ \A i \in current : \/ \E s \in Script : IsScript(v, s, i)
                               \/ \E n \in Ext!EngineContainers(v) : IsExternal(v, n, i)
                               \/ \E p \in Ext!Bare(v) : IsBare(v, p, i)
         /\ \A s \in Script : \E i \in current : IsScript(v, s, i)
         /\ \A n \in Ext!EngineContainers(v) : \E i \in current : IsExternal(v, n, i)
<1>1. \A a \in Ext!BuildHostInstances(v) : Proper(a)
  BY BuiltOnce DEF Once
<1>2. \A i \in current : \E a \in Ext!BuildHostInstances(v) : i = Ext!OverlayLink(a)
  OBVIOUS
<1>3. \A a \in Ext!BuildHostInstances(v) : Ext!OverlayLink(a) \in current
  OBVIOUS
<1>4. Once(current)
  <2>1. \A i \in current : Proper(i)
    BY <1>1, <1>2, OverlayKeeps
  <2>2. ASSUME NEW i \in current, NEW j \in current, i.id = j.id
        PROVE  i = j
    <3>1. PICK a \in Ext!BuildHostInstances(v) : i = Ext!OverlayLink(a)
      BY <1>2
    <3>2. PICK b \in Ext!BuildHostInstances(v) : j = Ext!OverlayLink(b)
      BY <1>2
    <3>3. a.id = b.id
      BY <1>1, <2>2, <3>1, <3>2, OverlayKeeps
    <3> QED
      BY <3>1, <3>2, <3>3, BuiltOnce DEF Once
  <2> QED
    BY <2>1, <2>2 DEF Once
<1>5. ASSUME NEW i \in current
      PROVE  \/ \E s \in Script : IsScript(v, s, i)
             \/ \E n \in Ext!EngineContainers(v) : IsExternal(v, n, i)
             \/ \E p \in Ext!Bare(v) : IsBare(v, p, i)
  <2>1. PICK a \in Ext!BuildHostInstances(v) : i = Ext!OverlayLink(a)
    BY <1>2
  <2>2. Proper(i) /\ i.id = a.id /\ i.kind = a.kind /\ i.names = a.names
    BY <1>1, <2>1, OverlayKeeps
  <2>3. \/ \E s \in Script : IsScript(v, s, a)
        \/ \E n \in Ext!EngineContainers(v) : IsExternal(v, n, a)
        \/ \E p \in Ext!Bare(v) : IsBare(v, p, a)
    BY BuiltAre
  <2> QED
    BY <2>2, <2>3 DEF IsScript, IsExternal, IsBare
<1>6. ASSUME NEW s \in Script PROVE \E i \in current : IsScript(v, s, i)
  <2>1. PICK a \in Ext!BuildHostInstances(v) : IsScript(v, s, a)
    BY BuiltAre
  <2>2. IsScript(v, s, Ext!OverlayLink(a))
    BY <1>1, <2>1, OverlayKeeps DEF IsScript
  <2> QED
    BY <1>3, <2>2
<1>7. ASSUME NEW n \in Ext!EngineContainers(v) PROVE \E i \in current : IsExternal(v, n, i)
  <2>1. PICK a \in Ext!BuildHostInstances(v) : IsExternal(v, n, a)
    BY BuiltAre
  <2>2. IsExternal(v, n, Ext!OverlayLink(a))
    BY <1>1, <2>1, OverlayKeeps DEF IsExternal
  <2> QED
    BY <1>3, <2>2
<1> QED
  BY <1>4, <1>5, <1>6, <1>7

LEMMA OnceOf ==
  ASSUME NEW A, NEW B, Once(A), Once(B)
  PROVE  /\ \A T \in SUBSET A : Once(T)
         /\ \A ids : (\A i \in A : i.id \in ids) => Once(A \cup Ext!Without(B, ids))
BY DEF Once, Ext!Without

LEMMA KeptOf ==
  ASSUME NEW A, NEW B, Kept(A), Kept(B)
  PROVE  /\ \A T \in SUBSET A : Kept(T)
         /\ \A ids : (\A i \in A : i.id \in ids) => Kept(A \cup Ext!Without(B, ids))
BY OnceOf DEF Kept, Ext!Without

LEMMA StoppedIs ==
  ASSUME NEW i, Proper(i)
  PROVE  Proper(Ext!AsStopped(i)) /\ Ext!AsStopped(i).id = i.id /\ Ext!AsStopped(i).state = "stopped"
<1>1. Ext!AsStopped(i) = [i EXCEPT !.state = "stopped"]
  BY DEF Ext!AsStopped
<1> QED
  BY <1>1, StateChanges

\* What vanished since the last listing, as it is remembered.
LEMMA VanishedAre ==
  ASSUME Memory, NEW current
  PROVE  Kept(Ext!Vanished(current)) /\ Kept(Ext!Remembered(current))
<1>1. \A i : Proper(i) => Proper(Ext!AsStopped(i)) /\ Ext!AsStopped(i).id = i.id /\ Ext!AsStopped(i).state = "stopped"
  BY StoppedIs
<1>2. \A i \in Ext!Vanished(current) : \E j \in derived.prev : i = Ext!AsStopped(j)
  BY DEF Ext!Vanished
<1>3. Kept(Ext!Vanished(current))
  <2>1. \A j \in derived.prev : Proper(j)
    BY DEF Memory, Once
  <2>2. \A i \in Ext!Vanished(current) : Proper(i) /\ i.state = "stopped"
    BY <1>1, <1>2, <2>1
  <2>3. ASSUME NEW a \in Ext!Vanished(current), NEW b \in Ext!Vanished(current), a.id = b.id PROVE a = b
    <3>1. PICK i \in derived.prev : a = Ext!AsStopped(i)
      BY <1>2
    <3>2. PICK j \in derived.prev : b = Ext!AsStopped(j)
      BY <1>2
    <3>3. i.id = j.id
      BY <1>1, <2>1, <2>3, <3>1, <3>2
    <3> QED
      BY <3>1, <3>2, <3>3 DEF Memory, Once
  <2> QED
    BY <2>2, <2>3 DEF Kept, Once
<1>4. Kept(Ext!Without(derived.gone, Ext!Ids(Ext!Vanished(current))) \cup Ext!Vanished(current))
  <2>1. \A i \in Ext!Vanished(current) : i.id \in Ext!Ids(Ext!Vanished(current))
    BY DEF Ext!Ids
  <2>2. Kept(Ext!Vanished(current) \cup Ext!Without(derived.gone, Ext!Ids(Ext!Vanished(current))))
    BY <1>3, <2>1, KeptOf DEF Memory
  <2>3. \A S, T : S \cup T = T \cup S
    OBVIOUS
  <2> QED
    BY <2>2, <2>3
<1> QED
  BY <1>3, <1>4 DEF Ext!Remembered

\* externals_of: what a listing returns, and what it leaves behind.
LEMMA ListKeeps ==
  ASSUME Machine, Memory, Ext!List
  PROVE  Memory' /\ Listing'
<1>1. PICK current, gone, stopped :
        /\ current = {Ext!OverlayLink(i) : i \in Ext!BuildHostInstances(inv)}
        /\ gone = Ext!Without(Ext!Remembered(current), Ext!Ids(current))
        /\ stopped = Ext!Without(derived.stopped, Ext!Ids(current))
        /\ shown' = current \cup gone \cup Ext!Without(stopped, Ext!Ids(gone))
        /\ derived' = [prev |-> {i \in current : i.kind = "external"}, gone |-> gone, stopped |-> stopped,
                       by |-> Ext!ByContainer(current),
                       first |-> (derived.first \cup Ext!Ids(current))
                                   \cap (Ext!Ids(current) \cup Ext!Ids(gone) \cup Ext!Ids(stopped))]
        /\ shownAt' = inv
  BY DEF Ext!List
<1>2. inv.run \subseteq Name
  BY DEF Machine
<1>3. /\ Once(current)
      /\ \A i \in current : \/ \E s \in Script : IsScript(inv, s, i)
                            \/ \E n \in Ext!EngineContainers(inv) : IsExternal(inv, n, i)
                            \/ \E p \in Ext!Bare(inv) : IsBare(inv, p, i)
      /\ \A s \in Script : \E i \in current : IsScript(inv, s, i)
      /\ \A n \in Ext!EngineContainers(inv) : \E i \in current : IsExternal(inv, n, i)
  BY <1>1, <1>2, CurrentAre
<1>4. Kept(gone) /\ Kept(stopped)
  <2>1. gone \subseteq Ext!Remembered(current) /\ stopped \subseteq derived.stopped
    BY <1>1 DEF Ext!Without
  <2> QED
    BY <2>1, VanishedAre, KeptOf DEF Memory
<1>5. Memory'
  <2>1. Once({i \in current : i.kind = "external"})
    BY <1>3, OnceOf
  <2> QED
    BY <1>1, <1>4, <2>1 DEF Memory
<1>6. Once(shown')
  <2>1. Once(gone \cup Ext!Without(stopped, Ext!Ids(gone)))
    BY <1>4, OnceOf DEF Kept, Ext!Ids
  <2>2. (gone \cup Ext!Without(stopped, Ext!Ids(gone))) = Ext!Without(gone \cup Ext!Without(stopped, Ext!Ids(gone)), Ext!Ids(current))
    BY <1>1 DEF Ext!Without
  <2>3. \A i \in current : i.id \in Ext!Ids(current)
    BY DEF Ext!Ids
  <2>4. Once(current \cup (gone \cup Ext!Without(stopped, Ext!Ids(gone))))
    BY <1>3, <2>1, <2>2, <2>3, OnceOf
  <2>5. shown' = current \cup (gone \cup Ext!Without(stopped, Ext!Ids(gone)))
    BY <1>1
  <2> QED
    BY <2>4, <2>5
<1>7. current \subseteq shown' /\ \A i \in shown' : i \notin current => i.state = "stopped"
  BY <1>1, <1>4 DEF Kept, Ext!Without
<1>8. ASSUME NEW n \in inv.run, IsEngine(n)
      PROVE  \E i \in shown' : Stands(n, i, shown)'
  <2>0. n \in Name /\ Ext!None \notin Script /\ About[n].script \in Script \cup {Ext!None}
    BY <1>2, EnginesAssumption DEF Ext!ExternalsConstants
  <2>1. derived'.by[n] = IF About[n].script \in Script THEN Ext!ScriptId(About[n].script)
                         ELSE IF \E i \in current : i.kind = "external" /\ n \in i.names
                         THEN (CHOOSE i \in current : i.kind = "external" /\ n \in i.names).id ELSE Ext!NoId
    BY <1>1, <2>0 DEF Ext!ByContainer
  <2>2. CASE About[n].script \in Script
    <3>1. PICK i \in current : IsScript(inv, About[n].script, i)
      BY <1>3, <2>2
    <3>2. n \in i.names
      BY <1>8, <3>1 DEF IsScript, Ext!Matched, IsEngine
    <3>3. ASSUME NEW j \in current, n \in j.names PROVE j = i
      <4>1. PICK s \in Script : IsScript(inv, s, j)
        BY <1>3, <2>0, <2>2, <3>3 DEF IsExternal, IsBare, Ext!EngineContainers
      <4>2. s = About[n].script
        BY <3>3, <4>1 DEF IsScript, Ext!Matched
      <4> QED
        BY <1>3, <3>1, <4>1, <4>2 DEF IsScript, Once
    <3>4. i.id = Ext!ScriptId(About[n].script) /\ Ext!ScriptId(About[n].script) # Ext!NoId
      BY <3>1 DEF IsScript, Ext!ScriptId, Ext!NoId
    <3> QED
      BY <1>7, <2>1, <2>2, <3>1, <3>2, <3>3, <3>4 DEF Stands
  <2>3. CASE About[n].script = Ext!None
    <3>0. n \in Ext!EngineContainers(inv)
      BY <1>8, <2>3 DEF Ext!EngineContainers, IsEngine
    <3>1. PICK i \in current : IsExternal(inv, n, i)
      BY <1>3, <3>0
    <3>2. i.kind = "external" /\ n \in i.names
      BY <3>1 DEF IsExternal
    <3>3. ASSUME NEW j \in current, n \in j.names PROVE j = i
      <4>1. \A s \in Script : ~IsScript(inv, s, j)
        BY <2>0, <2>3, <3>3 DEF IsScript, Ext!Matched
      <4>2. PICK m \in Ext!EngineContainers(inv) : IsExternal(inv, m, j)
        BY <1>3, <3>3, <4>1 DEF IsBare
      <4>3. m = n
        BY <3>3, <4>2 DEF IsExternal
      <4> QED
        BY <1>3, <3>1, <4>2, <4>3 DEF IsExternal, Once
    <3>4. i.id # Ext!NoId
      <4>1. i.id = <<"ext", About[n].slug, n>> \/ i.id = <<"ext", About[n].slug, "">>
        BY <3>1 DEF IsExternal, Ext!ExternalId
      <4>2. \A x, y : <<"ext", x, y>> # <<"none", "", "">>
        OBVIOUS
      <4> QED
        BY <4>1, <4>2 DEF Ext!NoId
    <3>5. (CHOOSE k \in current : k.kind = "external" /\ n \in k.names) = i
      BY <3>1, <3>2, <3>3
    <3>6. derived'.by[n] = i.id
      BY <2>0, <2>1, <2>3, <3>1, <3>2, <3>5
    <3> QED
      BY <1>7, <3>1, <3>2, <3>3, <3>4, <3>6 DEF Stands
  <2> QED
    BY <2>0, <2>2, <2>3
<1>9. ASSUME NEW i \in shown' PROVE Outside(i)'
  <2>1. CASE i \notin current
    BY <1>7, <2>1 DEF Outside
  <2>2. CASE i \in current /\ i.kind = "external" /\ i.names = {}
    <3>1. PICK p \in Ext!Bare(inv) : IsBare(inv, p, i)
      <4>1. \A s \in Script : ~IsScript(inv, s, i)
        BY <2>2 DEF IsScript
      <4>2. \A n \in Ext!EngineContainers(inv) : ~IsExternal(inv, n, i)
        BY <2>2 DEF IsExternal
      <4> QED
        BY <1>3, <2>2, <4>1, <4>2
    <3>2. i.id[2] = p
      <4>1. i.id = <<"ext", p, "bare">> \/ i.id = <<"ext", p, "">>
        BY <3>1 DEF IsBare, Ext!BareId
      <4>2. \A x, y : <<"ext", x, y>>[2] = x
        OBVIOUS
      <4> QED
        BY <4>1, <4>2
    <3>3. \A n \in inv.run : p \notin About[n].ports
      BY <1>2, <3>1 DEF Ext!Bare, Ext!CoveredPorts
    <3> QED
      BY <1>1, <3>2, <3>3 DEF Outside
  <2>3. CASE ~(i.kind = "external" /\ i.names = {})
    BY <2>3 DEF Outside
  <2> QED
    BY <2>1, <2>2, <2>3
<1> QED
  BY <1>1, <1>5, <1>6, <1>8, <1>9 DEF Listing

\* The requests, as one of them is asked, is done at the node or is over.
LEMMA RequestChanges ==
  ASSUME Requests, NEW o \in Op, NEW pc, NEW action, NEW inst, Proper(inst), pc # "idle" => inst.names # {},
         op' = [op EXCEPT ![o] = [pc |-> pc, action |-> action, inst |-> inst]]
  PROVE  Requests'
<1>1. \A p \in Op : /\ op'[p].pc = IF p = o THEN pc ELSE op[p].pc
                    /\ op'[p].action = IF p = o THEN action ELSE op[p].action
                    /\ op'[p].inst = IF p = o THEN inst ELSE op[p].inst
  BY DEF Requests
<1>2. op' = [p \in Op |-> IF p = o THEN [pc |-> pc, action |-> action, inst |-> inst]
                          ELSE [pc |-> op[p].pc, action |-> op[p].action, inst |-> op[p].inst]]
  BY DEF Requests
<1>3. op' = [p \in Op |-> [pc |-> op'[p].pc, action |-> op'[p].action, inst |-> op'[p].inst]]
  BY <1>1, <1>2
<1> QED
  BY <1>1, <1>3 DEF Requests

LEMMA RestKeeps ==
  ASSUME Requests, NEW o \in Op, Ext!Rest(o)
  PROVE  Requests'
<1>1. Proper(Ext!NoInst)
  BY InstanceIs DEF Ext!NoInst
<1> QED
  BY <1>1, RequestChanges DEF Ext!Rest

LEMMA MemoryChanges ==
  ASSUME Memory, NEW o \in Op, Requests,
         \/ derived' = [derived EXCEPT !.stopped = Ext!Without(@, {op[o].inst.id}) \cup {Ext!AsStopped(op[o].inst)},
                                       !.prev = Ext!Without(@, {op[o].inst.id})]
         \/ derived' = [derived EXCEPT !.stopped = Ext!Without(@, {op[o].inst.id}), !.gone = Ext!Without(@, {op[o].inst.id})]
  PROVE  Memory' /\ derived'.by = derived.by
<1>1. \A S : Ext!Without(S, {op[o].inst.id}) \subseteq S
  BY DEF Ext!Without
<1>2. Kept({Ext!AsStopped(op[o].inst)} \cup Ext!Without(derived.stopped, {op[o].inst.id}))
  <2>1. Proper(op[o].inst)
    BY DEF Requests
  <2>2. Proper(Ext!AsStopped(op[o].inst)) /\ Ext!AsStopped(op[o].inst).id = op[o].inst.id
        /\ Ext!AsStopped(op[o].inst).state = "stopped"
    BY <2>1, StoppedIs
  <2>3. Kept({Ext!AsStopped(op[o].inst)})
    BY <2>2 DEF Kept, Once
  <2> QED
    BY <2>2, <2>3, KeptOf DEF Memory
<1>3. CASE derived' = [derived EXCEPT !.stopped = Ext!Without(@, {op[o].inst.id}) \cup {Ext!AsStopped(op[o].inst)},
                                      !.prev = Ext!Without(@, {op[o].inst.id})]
  <2>1. derived' = [first |-> derived.first, prev |-> Ext!Without(derived.prev, {op[o].inst.id}), gone |-> derived.gone,
                    stopped |-> Ext!Without(derived.stopped, {op[o].inst.id}) \cup {Ext!AsStopped(op[o].inst)},
                    by |-> derived.by]
    BY <1>3 DEF Memory
  <2>2. Ext!Without(derived.stopped, {op[o].inst.id}) \cup {Ext!AsStopped(op[o].inst)}
          = {Ext!AsStopped(op[o].inst)} \cup Ext!Without(derived.stopped, {op[o].inst.id})
    OBVIOUS
  <2> QED
    BY <1>1, <1>2, <2>1, <2>2, OnceOf DEF Memory
<1>4. CASE derived' = [derived EXCEPT !.stopped = Ext!Without(@, {op[o].inst.id}), !.gone = Ext!Without(@, {op[o].inst.id})]
  <2>1. derived' = [first |-> derived.first, prev |-> derived.prev, gone |-> Ext!Without(derived.gone, {op[o].inst.id}),
                    stopped |-> Ext!Without(derived.stopped, {op[o].inst.id}), by |-> derived.by]
    BY <1>4 DEF Memory
  <2> QED
    BY <1>1, <2>1, KeptOf DEF Memory
<1> QED
  BY <1>3, <1>4

LEMMA GoneForgotten ==
  ASSUME Memory, NEW i, derived' = [derived EXCEPT !.gone = @ \ {i}]
  PROVE  Memory' /\ derived'.by = derived.by
<1>1. derived' = [first |-> derived.first, prev |-> derived.prev, gone |-> derived.gone \ {i},
                  stopped |-> derived.stopped, by |-> derived.by]
  BY DEF Memory
<1>2. derived.gone \ {i} \subseteq derived.gone
  OBVIOUS
<1> QED
  BY <1>1, <1>2, KeptOf DEF Memory

LEMMA EnginesKeep ==
  ASSUME EngineInv, [Ext!Next]_engines
  PROVE  EngineInv'
<1> USE DEF EngineInv
<1>1. ASSUME UNCHANGED <<shown, shownAt, derived>> PROVE Memory' /\ Listing'
  BY <1>1 DEF Memory, Listing, Stands, Outside
<1>2. ASSUME UNCHANGED <<shown, shownAt>>, derived'.by = derived.by PROVE Listing'
  BY <1>2 DEF Listing, Stands, Outside
<1>3. ASSUME UNCHANGED op PROVE Requests'
  BY <1>3 DEF Requests
<1>4. ASSUME Ext!Lists PROVE EngineInv'
  BY <1>3, <1>4, ListKeeps DEF Ext!Lists, Ext!machine, Machine
<1>5. ASSUME Ext!MachineChanges PROVE EngineInv'
  BY <1>1, <1>3, <1>5 DEF Ext!MachineChanges, Machine
<1>6. ASSUME Ext!Push PROVE EngineInv'
  BY <1>1, <1>3, <1>6 DEF Ext!Push, Ext!machine, Machine
<1>7. ASSUME Ext!LinkChanges PROVE EngineInv'
  BY <1>1, <1>3, <1>7 DEF Ext!LinkChanges, Machine
<1>8. ASSUME Ext!GoneExpires PROVE EngineInv'
  <2>1. /\ \E i \in derived.gone : derived' = [derived EXCEPT !.gone = @ \ {i}]
        /\ UNCHANGED <<run, inv, shown, shownAt, op>>
    BY <1>8 DEF Ext!GoneExpires, Ext!machine
  <2>2. Memory' /\ derived'.by = derived.by
    BY <2>1, GoneForgotten
  <2> QED
    BY <1>2, <1>3, <2>1, <2>2 DEF Machine
<1>9. ASSUME NEW o \in Op, NEW action \in {"stop", "start"}, Ext!Ask(o, action) PROVE EngineInv'
  <2>1. /\ Ext!List /\ UNCHANGED <<run, inv>>
        /\ \E i \in shown' : Ext!Allowed(i, action) /\ op' = [op EXCEPT ![o] = [pc |-> "sent", action |-> action, inst |-> i]]
    BY <1>9 DEF Ext!Ask, Ext!machine
  <2>2. Memory' /\ Listing'
    BY <2>1, ListKeeps
  <2>3. PICK i \in shown' : Ext!Allowed(i, action) /\ op' = [op EXCEPT ![o] = [pc |-> "sent", action |-> action, inst |-> i]]
    BY <2>1
  <2>4. Proper(i) /\ i.names # {}
    BY <2>2, <2>3 DEF Listing, Once, Ext!Allowed
  <2>5. Requests'
    BY <2>3, <2>4, RequestChanges
  <2> QED
    BY <2>1, <2>2, <2>5 DEF Machine
<1>10. ASSUME NEW o \in Op, Ext!NodeDoes(o) PROVE EngineInv'
  <2>1. Proper(op[o].inst) /\ op[o].inst.names # {}
    BY <1>10 DEF Ext!NodeDoes, Requests
  <2>2. Ext!Target(o) \in Name
    BY <2>1 DEF Ext!Target, Proper
  <2>3. op' = [op EXCEPT ![o] = [pc |-> "done", action |-> op[o].action, inst |-> op[o].inst]]
    <3>1. op[o] = [pc |-> op[o].pc, action |-> op[o].action, inst |-> op[o].inst]
      BY DEF Requests
    <3>2. [op[o] EXCEPT !.pc = "done"] = [pc |-> "done", action |-> op[o].action, inst |-> op[o].inst]
      BY <3>1
    <3>3. op' = [op EXCEPT ![o] = [op[o] EXCEPT !.pc = "done"]]
      BY <1>10 DEF Ext!NodeDoes, Requests
    <3> QED
      BY <3>2, <3>3
  <2>4. Requests'
    BY <2>1, <2>3, RequestChanges
  <2> QED
    BY <1>1, <1>10, <2>2, <2>4 DEF Ext!NodeDoes, Machine
<1>11. ASSUME NEW o \in Op, Ext!Stopped(o) \/ Ext!Started(o) PROVE EngineInv'
  <2>1. /\ Ext!Rest(o) /\ UNCHANGED <<run, inv, shown, shownAt>>
        /\ \/ derived' = [derived EXCEPT !.stopped = Ext!Without(@, {op[o].inst.id}) \cup {Ext!AsStopped(op[o].inst)},
                                         !.prev = Ext!Without(@, {op[o].inst.id})]
           \/ derived' = [derived EXCEPT !.stopped = Ext!Without(@, {op[o].inst.id}), !.gone = Ext!Without(@, {op[o].inst.id})]
    BY <1>11 DEF Ext!Stopped, Ext!Started, Ext!machine
  <2>2. Memory' /\ derived'.by = derived.by
    BY <2>1, MemoryChanges
  <2> QED
    BY <1>2, <2>1, <2>2, RestKeeps DEF Machine
<1>12. ASSUME NEW o \in Op, Ext!CallFails(o) PROVE EngineInv'
  BY <1>1, <1>12, RestKeeps DEF Ext!CallFails, Ext!machine, Machine
<1>13. ASSUME NEW s \in Script, Ext!ScriptRuns(s, "up") \/ Ext!ScriptRuns(s, "down") \/ Ext!ScriptEnds(s) PROVE EngineInv'
  <2>1. run' \subseteq Name /\ UNCHANGED <<inv, derived, shown, shownAt, op>>
    BY <1>13 DEF Ext!ScriptRuns, Ext!ScriptEnds, Machine
  <2> QED
    BY <1>1, <1>3, <2>1 DEF Machine
<1>14. ASSUME UNCHANGED engines PROVE EngineInv'
  BY <1>1, <1>3, <1>14 DEF engines, Machine
<1> QED
  BY <1>4, <1>5, <1>6, <1>7, <1>8, <1>9, <1>10, <1>11, <1>12, <1>13, <1>14 DEF Ext!Next

LEMMA EnginesInit ==
  ASSUME Ext!Init
  PROVE  EngineInv
<1>1. Memory
  BY DEF Ext!Init, Memory, Kept, Once
<1>2. Proper(Ext!NoInst)
  BY InstanceIs DEF Ext!NoInst
<1>3. Requests
  BY <1>2 DEF Ext!Init, Requests
<1>4. Machine /\ Listing
  BY DEF Ext!Init, Machine, Listing, Once
<1> QED
  BY <1>1, <1>3, <1>4 DEF EngineInv

LEMMA EnginesListed ==
  ASSUME EngineInv
  PROVE  Ext!EnginesAreListedOnce
<1>1. \A n \in shownAt.run, i \in shown : Stands(n, i, shown) => Ext!InstanceForContainer(n) = i.id
  BY DEF Stands, Ext!InstanceForContainer
<1> QED
  BY <1>1 DEF EngineInv, Listing, Once, IsEngine, Outside, Stands, Ext!EnginesAreListedOnce

\* However the engines of a machine start, vanish and are stopped, share a slug or
\* belong to a script, a listing names each running one once, under the id that labels
\* its GPU processes (services/lifecycle.rs, build_host_instances and externals_of).
THEOREM SuiteEnginesListedOnce == SuiteSpec => []EnginesAreListedOnce
<1>1. SuiteInit => EngineInv
  BY EnginesInit DEF SuiteInit
<1>2. EngineInv /\ [SuiteNext]_suiteVars => EngineInv'
  <2>1. [SuiteNext]_suiteVars => [Ext!Next]_engines
    BY DEF SuiteNext, suiteVars
  <2> QED
    BY <2>1, EnginesKeep
<1>3. EngineInv => EnginesAreListedOnce
  BY EnginesListed DEF EnginesAreListedOnce
<1> QED
  BY <1>1, <1>2, <1>3, PTL DEF SuiteSpec
=============================================================================
