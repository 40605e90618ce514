------------------------------ MODULE EngineHttp ------------------------------
(***************************************************************************)
(* One `http.request`: the hub asks a node to speak HTTP/1.1 with an       *)
(* engine on the node's loopback address, and reads the answer as lines    *)
(* (chat, benchmarks) or as one buffered body (probes, plain chat).        *)
(*                                                                         *)
(*   engine --wire--> node thread (httpproxy.rs) --frames--> HttpStream    *)
(*                                                                         *)
(* The engine writes whatever it likes in pieces of any size, may stop     *)
(* writing, close early or never answer.  The node frames the body by      *)
(* `Transfer-Encoding`, `Content-Length` or the end of the connection; the *)
(* hub decodes UTF-8 and splits lines incrementally.  Flow control and the *)
(* request tables are LinkFlow and LinkRequests.                           *)
(*                                                                         *)
(* A byte is one of "a" (any plain byte), "r" (CR), "n" (LF), "x1" and     *)
(* "x2" (lead and trailing byte of a two-byte character).  A decoded       *)
(* character is "a", "r", "n", "U" (the two-byte one) or "?" (U+FFFD).     *)
(***************************************************************************)
EXTENDS Naturals, Integers, Sequences, FiniteSets, SequencesExt, FiniteSetsExt

CONSTANTS
    Exchanges,    \* an answer [head, te, cl, chunks] and who reads it: <<answer, mode>>
    Uploads,      \* possible numbers of DATA frames of the request body
    Window,       \* DATA frames the hub's credit allows unread (LinkFlow)
    ReadMax,      \* the most bytes one read1 of the node returns (65536)
    MaxLine,      \* characters in one line (MAX_LINE)
    MaxStream,    \* bytes in one streamed answer (MAX_STREAM)
    MaxBuffered   \* bytes of a buffered answer (max_bytes)

VARIABLES
    ans,          \* the answer of this exchange
    mode,         \* "lines" (HttpStream::line) or "read" (HttpStream::read)
    todo, wire,   \* the engine's bytes not written / written and not read
    fin,          \* "no", or "fin": the engine's end is closed
    mute,         \* "no", or "mute": the engine writes nothing more, no FIN
    npc,          \* the node thread: connect, upload, head, body, done
    left,         \* bytes left of the chunk or of Content-Length; -1: none
    cancelled,    \* "no" or "yes": the request was cancelled at the node
    shut,         \* "no" or "yes": the cancel hook shut the socket down
    upq, owed,    \* upload frames on the link; frames the hub has to send
    frames,       \* node -> hub: head, data, result
    hub,          \* the HttpStream and who reads it
    got, out      \* bytes the reader was handed; lines the reader received

vars == <<ans, mode, todo, wire, fin, mute, npc, left, cancelled, shut, upq, owed, frames, hub, got, out>>
engine == <<todo, fin, mute>>
reader == <<hub, got, out>>

------------------------------------------------------------------------------
(* The engine's bytes. *)

Marks == {"s0", "s1", "s2", "s3", "e", "t"}
SizeOf == [m \in {"s0", "s1", "s2", "s3"} |->
              CHOOSE n \in 0..3 : m = <<"s0", "s1", "s2", "s3">>[n + 1]]
SizeLine(n) == <<"s0", "s1", "s2", "s3">>[n + 1]
Text(a) == FlattenSeq(a.chunks)
Chunk(c) == <<SizeLine(Len(c))>> \o c \o <<"e">>

\* What the engine sends: its head, then the body in the framing it declared.
Sent(a) == a.head \o (IF a.te = "chunked"
                      THEN FlattenSeq([i \in DOMAIN a.chunks |-> Chunk(a.chunks[i])]) \o <<"s0", "t">>
                      ELSE Text(a))

\* How the node frames the body: chunked wins over Content-Length, a status
\* without a body has length 0, no usable length means "until the end".
Framing(a) ==
    IF a.te = "chunked" THEN "chunked"
    ELSE IF Last(a.head) = "204" \/ a.cl >= 0 THEN "length"
    ELSE "close"
Length(a) == IF Last(a.head) = "204" THEN 0 ELSE a.cl

------------------------------------------------------------------------------
(* Text at the hub. *)

\* One byte through the incremental decoder: a lead byte waits for its
\* trailing byte, anything else in its place makes it U+FFFD.
DecodeByte(acc, b) ==
    LET torn == acc.left # <<>> /\ b # "x2"
        base == IF torn THEN Append(acc.txt, "?") ELSE acc.txt
    IN CASE b = "x1" -> [left |-> <<"x1">>, txt |-> base]
         [] b = "x2" -> [left |-> <<>>, txt |-> Append(base, IF acc.left # <<>> THEN "U" ELSE "?")]
         [] OTHER    -> [left |-> <<>>, txt |-> Append(base, b)]

Decode(waiting, bytes) == FoldLeft(DecodeByte, [left |-> waiting, txt |-> <<>>], bytes)
Flushed(d) == IF d.left = <<>> THEN d.txt ELSE Append(d.txt, "?")

\* Split at CR LF, CR or LF, keeping the empty pieces: at least one piece.
SplitStep(acc, c) ==
    IF c = "n" /\ acc.cr = "cr" THEN [acc EXCEPT !.cr = "no"]
    ELSE IF c \in {"r", "n"}
         THEN [segs |-> Append(acc.segs, acc.cur), cur |-> <<>>, cr |-> IF c = "r" THEN "cr" ELSE "no"]
         ELSE [acc EXCEPT !.cur = Append(@, c), !.cr = "no"]
split_eol(t) ==
    LET s == FoldLeft(SplitStep, [segs |-> <<>>, cur |-> <<>>, cr |-> "no"], t)
    IN Append(s.segs, s.cur)

\* A decoded piece of text, in pieces of lines: the first completes the line
\* that waits, the last waits for its end.
UnprefixedNot(h, text) == text    \* mutant: the LF of a cut CR LF counts again
Unprefixed(h, text) == IF h.cr = "cr" /\ Head(text) = "n" THEN Tail(text) ELSE text
Pieces(h, text) ==
    LET segs == split_eol(text)
    IN [segs EXCEPT ![1] = h.pending \o @]

\* A line over MaxLine fails the stream, after the lines before it.
feed(h, text, pieces) ==
    LET long == {i \in DOMAIN pieces : Len(pieces[i]) > MaxLine}
    IN [h EXCEPT !.ready = @ \o SubSeq(pieces, 1, Min(long \cup {Len(pieces)}) - 1),
                 !.pending = Last(pieces),
                 !.cr = IF text # <<>> /\ Last(text) = "r" THEN "cr" ELSE "no",
                 !.failed = IF long # {} THEN "long line" ELSE @]

------------------------------------------------------------------------------
FreshHub == [pc |-> "upload", left |-> <<>>, pending |-> <<>>, cr |-> "no", ready |-> <<>>,
             total |-> 0, failed |-> "no", outcome |-> "none"]

Init ==
    /\ \E x \in Exchanges : ans = x[1] /\ mode = x[2]
    /\ todo = Sent(ans) /\ wire = <<>>
    /\ fin = "no" /\ mute = "no"
    /\ npc = "connect" /\ left = -1 /\ cancelled = "no" /\ shut = "no"
    /\ owed \in Uploads /\ upq = 0
    /\ frames = <<>>
    /\ hub = FreshHub /\ got = <<>> /\ out = <<>>

(* The engine. *)

EngineWrite ==
    /\ fin = "no" /\ mute = "no" /\ todo # <<>> /\ npc # "connect"
    /\ \E k \in 1..Len(todo) :
          /\ wire' = wire \o SubSeq(todo, 1, k)
          /\ todo' = SubSeq(todo, k + 1, Len(todo))
    /\ UNCHANGED <<ans, mode, fin, mute, npc, left, cancelled, shut, upq, owed, frames, reader>>

\* It ends the connection: after its answer, or in the middle of it (a crash,
\* a stop of its container).
EngineCloses ==
    /\ fin = "no" /\ fin' = "fin"
    /\ UNCHANGED <<ans, mode, todo, wire, mute, npc, left, cancelled, shut, upq, owed, frames, reader>>

\* It keeps the connection open and writes nothing more (a hung engine).
EngineHangs ==
    /\ fin = "no" /\ mute = "no" /\ mute' = "mute"
    /\ UNCHANGED <<ans, mode, todo, wire, fin, npc, left, cancelled, shut, upq, owed, frames, reader>>

------------------------------------------------------------------------------
Engine == IF todo # <<>> THEN EngineWrite ELSE EngineCloses \/ EngineHangs

------------------------------------------------------------------------------
(* The node's thread. *)

ToHub(f) == frames' = IF cancelled = "yes" THEN frames ELSE Append(frames, f)
Result(code) == [k |-> "res", d |-> <<>>, code |-> code]

\* The handler returns: its answer goes out unless the request was cancelled.
Finish(code) ==
    /\ npc' = "done"
    /\ ToHub(Result(code))
    /\ UNCHANGED <<ans, mode, engine, cancelled, shut, upq, owed, reader>>

\* The checks before any socket: the port is an engine's (the inventory is
\* re-read once), GET or POST, a forwarded path, inference only in monitor
\* mode, clean headers, a body length in range.
Refuse ==
    /\ npc = "connect"
    /\ \E code \in {"bad_args", "policy_denied"} : Finish(code)
    /\ UNCHANGED <<wire, left>>

\* The socket is stored for the cancel hook only once it is connected.
Connect ==
    /\ npc = "connect"
    /\ \/ fin = "no" /\ npc' = "upload"
          /\ UNCHANGED <<ans, mode, engine, cancelled, shut, upq, owed, frames, reader>>
       \/ fin = "fin" /\ Finish("http_error")
    /\ UNCHANGED <<wire, left>>

\* Frames of the request body go to the engine until `end`; no body, no frames.
Upload ==
    /\ npc = "upload"
    /\ \/ /\ owed = 0 /\ upq = 0
          /\ npc' = "head"
          /\ UNCHANGED <<ans, mode, engine, cancelled, shut, upq, owed, frames, reader>>
       \/ /\ upq > 0 /\ cancelled = "no" /\ fin = "no"
          /\ upq' = upq - 1
          /\ UNCHANGED <<ans, mode, engine, npc, cancelled, shut, owed, frames, reader>>
       \/ /\ upq > 0 /\ cancelled = "no" /\ fin = "fin"
          /\ Finish("http_error")
       \/ cancelled = "yes" /\ owed + upq > 0 /\ Finish("cancelled")
    /\ UNCHANGED <<wire, left>>

\* Bytes of the wire the node can see: none once its own socket is shut.
Seen == IF shut = "yes" THEN <<>> ELSE wire
AtEnd == Seen = <<>> /\ (fin = "fin" \/ shut = "yes")

\* The status line: interim 100 answers are skipped, the end of the
\* connection or garbage in its place is an error.
ReadHead ==
    /\ npc = "head"
    /\ \/ AtEnd /\ Finish("http_error") /\ UNCHANGED <<wire, left>>
       \/ /\ Seen # <<>>
          /\ wire' = Tail(wire)
          /\ CASE Head(wire) = "100" -> UNCHANGED <<npc, left, frames>>
               [] Head(wire) = "bad" -> npc' = "done" /\ ToHub(Result("http_error")) /\ UNCHANGED left
               [] OTHER -> /\ npc' = "body"
                           /\ left' = IF Framing(ans) = "length" THEN Length(ans) ELSE -1
                           /\ ToHub([k |-> "head", d |-> <<>>, code |-> Head(wire)])
          /\ UNCHANGED <<ans, mode, engine, cancelled, shut, upq, owed, reader>>

\* At a chunk's start the node reads the CR LF of the one before and the size
\* line; size 0 is the end (its trailer is read to the blank line).
ChunkLine ==
    /\ npc = "body" /\ Framing(ans) = "chunked" /\ left <= 0 /\ cancelled = "no"
    /\ \/ AtEnd /\ Finish("http_error") /\ UNCHANGED <<wire, left>>
       \/ /\ Seen # <<>> /\ Head(wire) = "e"
          /\ wire' = Tail(wire) /\ left' = -1
          /\ UNCHANGED <<ans, mode, engine, npc, cancelled, shut, upq, owed, frames, reader>>
       \/ /\ Seen # <<>> /\ Head(wire) \in DOMAIN SizeOf
          /\ wire' = Tail(wire)
          /\ IF SizeOf[Head(wire)] = 0
             THEN left' = left /\ Finish("ok")
             ELSE /\ left' = SizeOf[Head(wire)]
                  /\ UNCHANGED <<ans, mode, engine, npc, cancelled, shut, upq, owed, frames, reader>>

\* What one read may want; -1 stands for "no limit" under Framing "close".
Wanted == IF Framing(ans) = "close" THEN ReadMax ELSE Min({ReadMax, left})

\* The end of the connection inside the body: an error only inside a chunk.
EndInBodyUnseen == "ok"    \* mutant: a chunk cut short passes for its end
EndInBody == IF Framing(ans) = "chunked" THEN "http_error" ELSE "ok"

\* One turn of the body loop: the cancel check, one read1, one DATA frame.
ReadBody ==
    /\ npc = "body" /\ cancelled = "no" /\ Len(frames) <= Window
    /\ Framing(ans) = "chunked" => left > 0
    /\ \/ Wanted = 0 /\ Finish("ok") /\ UNCHANGED <<wire, left>>
       \/ Wanted > 0 /\ AtEnd /\ Finish(EndInBody) /\ UNCHANGED <<wire, left>>
       \/ \E n \in 1..Min({Wanted, Len(Seen)}) :
             /\ wire' = SubSeq(wire, n + 1, Len(wire))
             /\ left' = IF left = -1 THEN -1 ELSE left - n
             /\ ToHub([k |-> "data", d |-> SubSeq(wire, 1, n), code |-> "-"])
             /\ UNCHANGED <<ans, mode, engine, npc, cancelled, shut, upq, owed, reader>>

\* stream.check() of a cancelled request.
BodyCancelled ==
    /\ npc = "body" /\ cancelled = "yes"
    /\ Finish("cancelled")
    /\ UNCHANGED <<wire, left>>

\* Mutant: the timeout covers the head only.
NodeTimeoutHead ==
    /\ npc = "head" /\ mute = "mute"
    /\ Seen = <<>> /\ ~AtEnd
    /\ Finish("timeout")
    /\ UNCHANGED <<wire, left>>

\* The socket's read timeout: the engine has been silent for timeout_s.
NodeTimeout ==
    /\ npc \in {"head", "body"} /\ mute = "mute"
    /\ Seen = <<>> /\ ~AtEnd
    /\ Finish("timeout")
    /\ UNCHANGED <<wire, left>>

\* A cancel reaches the node, or its link is lost: the request is cancelled
\* and the hook shuts the socket, if there is one yet.
Cancelled ==
    /\ cancelled' = "yes"
    /\ shut' = IF npc \in {"upload", "head", "body"} THEN "yes" ELSE shut

CancelArrives ==
    /\ hub.pc = "left" /\ cancelled = "no" /\ npc # "done"
    /\ Cancelled
    /\ UNCHANGED <<ans, mode, engine, wire, npc, left, upq, owed, frames, reader>>

LinkLost ==
    /\ cancelled = "no" /\ hub.pc \notin {"left", "end"}
    /\ \A i \in DOMAIN frames : frames[i].k # "res"
    /\ npc # "done"
    /\ Cancelled
    /\ frames' = Append(frames, Result("host_unreachable"))
    /\ UNCHANGED <<ans, mode, engine, wire, npc, left, upq, owed, reader>>

------------------------------------------------------------------------------
(* The hub's HttpStream. *)

\* The exchange is over for the caller; an unfinished request is cancelled.
Ends(h, how) == [h EXCEPT !.pc = IF how = "ok" THEN "end" ELSE "left", !.outcome = how]

node == <<engine, wire, npc, left, cancelled, shut>>

\* NodeHttp::start: the request body, then the response's head.
HubWrite ==
    /\ hub.pc = "upload"
    /\ IF owed = 0 THEN hub' = [hub EXCEPT !.pc = "head"] /\ UNCHANGED <<owed, upq>>
                   ELSE owed' = owed - 1 /\ upq' = upq + 1 /\ UNCHANGED hub
    /\ UNCHANGED <<ans, mode, node, frames, got, out>>

HubHead ==
    /\ hub.pc = "head" /\ frames # <<>>
    /\ frames' = Tail(frames)
    /\ hub' = IF Head(frames).k = "head" THEN [hub EXCEPT !.pc = "body"] ELSE Ends(hub, "error")
    /\ UNCHANGED <<ans, mode, node, upq, owed, got, out>>

\* open() waits timeout_s and some slack for the head, upload included.
HubTimeout ==
    /\ hub.pc \in {"upload", "head"} /\ frames = <<>> /\ (mute = "mute" \/ shut = "yes")
    /\ hub' = Ends(hub, "error")
    /\ UNCHANGED <<ans, mode, node, upq, owed, frames, got, out>>

\* line(): lines that are ready go first, then the stream's own failure.
Yield ==
    /\ hub.pc = "body" /\ hub.ready # <<>>
    /\ out' = Append(out, Head(hub.ready))
    /\ hub' = [hub EXCEPT !.ready = Tail(@)]
    /\ UNCHANGED <<ans, mode, node, upq, owed, frames, got>>

Fails ==
    /\ hub.pc = "body" /\ hub.ready = <<>> /\ hub.failed # "no"
    /\ hub' = Ends(hub, "error")
    /\ UNCHANGED <<ans, mode, node, upq, owed, frames, got, out>>

\* The next chunk, as lines.  (The sets of one element name values.)
TakeLines(bytes) ==
    IF hub.total + Len(bytes) > MaxStream
    THEN hub' = [hub EXCEPT !.total = @ + Len(bytes), !.failed = "too long"]
    ELSE \E d \in {Decode(hub.left, bytes)} :
            \E h \in {[hub EXCEPT !.total = @ + Len(bytes), !.left = d.left]} :
               IF d.txt = <<>> THEN hub' = h
               ELSE \E text \in {Unprefixed(h, d.txt)} : \E pieces \in {Pieces(h, text)} :
                       hub' = feed(h, text, pieces)

\* The next chunk, into the buffer: over the cap the request is cancelled.
TakeBody(bytes) ==
    LET n == hub.total + Len(bytes)
    IN hub' = IF n > MaxBuffered THEN Ends([hub EXCEPT !.total = n], "error") ELSE [hub EXCEPT !.total = n]

HubChunk ==
    /\ hub.pc = "body" /\ hub.ready = <<>> /\ hub.failed = "no"
    /\ frames # <<>> /\ Head(frames).k = "data"
    /\ frames' = Tail(frames)
    /\ IF mode = "lines" THEN TakeLines(Head(frames).d) ELSE TakeBody(Head(frames).d)
    /\ got' = got \o Head(frames).d
    /\ UNCHANGED <<ans, mode, node, upq, owed, out>>

\* The result: the text that waits for its end is the last line, unless the
\* request failed.
TailLine(h) == Flushed([left |-> h.left, txt |-> h.pending])
HubResult ==
    /\ hub.pc = "body" /\ hub.ready = <<>> /\ hub.failed = "no"
    /\ frames # <<>> /\ Head(frames).k = "res"
    /\ frames' = Tail(frames)
    /\ hub' = Ends(hub, IF Head(frames).code = "ok" THEN "ok" ELSE "error")
    /\ out' = IF Head(frames).code = "ok" /\ mode = "lines" /\ TailLine(hub) # <<>>
              THEN Append(out, TailLine(hub)) ELSE out
    /\ UNCHANGED <<ans, mode, node, upq, owed, got>>

\* The browser goes away: the stream is dropped.
Drop ==
    /\ hub.pc \in {"upload", "head", "body"}
    /\ hub' = Ends(hub, "dropped")
    /\ UNCHANGED <<ans, mode, node, upq, owed, frames, got, out>>

------------------------------------------------------------------------------
Over == npc = "done" /\ hub.pc \in {"end", "left"}

NodeThread == Refuse \/ Connect \/ Upload \/ ReadHead \/ ChunkLine \/ ReadBody \/ BodyCancelled \/ NodeTimeout
HubReader == HubWrite \/ HubHead \/ HubTimeout \/ Yield \/ Fails \/ HubChunk \/ HubResult

Next ==
    \/ EngineWrite \/ EngineCloses \/ EngineHangs
    \/ NodeThread \/ CancelArrives \/ LinkLost
    \/ HubReader \/ Drop
    \/ Over /\ UNCHANGED vars

\* The node's thread and the hub's task run; a live engine goes on writing and
\* closes or falls silent at the end.  No engine has to fail.
Fairness ==
    /\ WF_vars(NodeThread) /\ WF_vars(CancelArrives) /\ WF_vars(HubReader)
    /\ WF_vars(Engine)

Spec == Init /\ [][Next]_vars /\ Fairness

------------------------------------------------------------------------------
(* Reference: the lines of a whole text, by the places where lines end. *)
LineEnds(t) == {i \in DOMAIN t : t[i] = "r" \/ (t[i] = "n" /\ ~(i > 1 /\ t[i - 1] = "r"))}
Between(t, e) ==
    SelectSeq(SubSeq(t, Max({0} \cup {d \in LineEnds(t) : d < e}) + 1, e - 1), LAMBDA c : c \notin {"r", "n"})
LinesOf(t) ==
    LET ends == SetToSortSeq(LineEnds(t), <)
        rest == Between(t, Len(t) + 1)
    IN [i \in DOMAIN ends |-> Between(t, ends[i])] \o (IF rest = <<>> THEN <<>> ELSE <<rest>>)

\* However the engine's writes, the node's reads and the frames cut the text -
\* inside CR LF, inside a character - the reader gets the lines of the text as
\* a whole, in order, none over the cap, and all of them when the answer ends
\* well (HttpStream::feed and line, Utf8Decoder, nodehttp.rs).
LinesAreWhole ==
    (mode = "lines" /\ (hub.outcome = "ok" \/ out \o hub.ready # <<>>)) =>
        LET lines == LinesOf(Flushed(Decode(<<>>, got)))
        IN /\ IsPrefix(out \o hub.ready, lines)
           /\ hub.outcome = "ok" => out = lines
           /\ \A i \in DOMAIN out : Len(out[i]) <= MaxLine

\* The reader never gets bytes the engine did not send in that order, never
\* more than the caps allow, and an answer in chunks that ends well is whole:
\* a connection cut inside it is an error (Response::chunk_left, read1_chunked).
BodyIsWhole ==
    /\ got = <<>> \/ IsPrefix(got, Text(ans))
    /\ hub.outcome = "ok" =>
          /\ Len(got) <= (IF mode = "lines" THEN MaxStream ELSE MaxBuffered)
          /\ Framing(ans) = "chunked" => got = Text(ans)

\* Every exchange ends on both sides: the caller gets its end or an error, and
\* the node's thread and socket are given back, whatever the engine does and
\* even when the cancel came before the socket was there to shut.
ExchangeEnds == <>Over
==============================================================================
