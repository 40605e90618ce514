------------------------------ MODULE LinkFlow ------------------------------
(***************************************************************************)
(* Credit flow control of ONE streaming request on a healthy link: the hub *)
(* side is `Req` and `LinkStream` (ec-hub/src/services/fleet.rs), the node *)
(* side is `Request` and its handler thread (ecnode/src/server.rs).        *)
(*                                                                         *)
(* Both directions start with WINDOW bytes of credit.  The hub writes the  *)
(* body (UploadLen bytes, none for a download), ends it, and reads the     *)
(* reply (ReplyLen bytes, none for an upload); the handler reads the body, *)
(* then sends the reply, then answers with one `res`.                      *)
(*                                                                         *)
(* Data abstraction: what is on the wire in one direction is a number of   *)
(* DATA bytes, a number of credit bytes and the control frame behind them  *)
(* (`end` or `res`; the two pipes are FIFO, so a control frame is only     *)
(* delivered when nothing sent before it is left).  A frame boundary is    *)
(* chosen when the bytes are delivered, so a delivery has any size up to   *)
(* MAX_DATA: more splits than the frames the sender made, never fewer.     *)
(***************************************************************************)
EXTENDS Integers

CONSTANTS
  WINDOW,       \* initial credit of each direction          ec-proto/lib.rs
  MAX_DATA,     \* largest DATA payload                      ec-proto/lib.rs
  CREDIT_BATCH, \* hub: bytes read before credit goes back   fleet.rs
  GRANT_STEP,   \* node: smallest credit worth sending       server.rs
  MAX_CREDIT,   \* hub: cap on the credit it believes it has fleet.rs
  UploadLen,    \* bytes of the request body
  ReplyLen      \* bytes of the reply

ASSUME FlowConstants ==
  /\ WINDOW \in Nat /\ MAX_DATA \in Nat \ {0} /\ MAX_CREDIT \in Nat
  /\ CREDIT_BATCH \in Nat \ {0} /\ GRANT_STEP \in Nat \ {0}
  /\ CREDIT_BATCH <= WINDOW
  /\ GRANT_STEP <= WINDOW
  /\ WINDOW <= MAX_CREDIT
  /\ UploadLen \in Nat
  /\ ReplyLen \in Nat

VARIABLES
  \* the hub's ReqState
  sendCredit,   \* DATA the hub may still send
  recvWindow,   \* DATA the node may still send
  unacked,      \* bytes read that the node has not been credited for
  queued,       \* bytes in `queue`
  ended,        \* end() was called
  cancelSent,   \* cancel_request() was called
  finished,     \* "no", or the outcome: "ok" | "error"
  writing,      \* "checked": write() saw the request unfinished and credit left
  hubOut,       \* bytes taken from sendCredit by write(), not yet sent
  written,      \* body bytes write() has taken from its caller
  read,         \* reply bytes next() has given to its caller
  accused,      \* on_data blamed the node: the link is dropped
  \* the node's RState and handler thread
  nodeCredit,   \* send_credit: DATA the node may still send
  received,     \* upload bytes that arrived
  granted,      \* upload bytes the hub was ever allowed to send
  consumed,     \* upload bytes the handler has read
  chunks,       \* bytes in `chunks`
  nodeEnded,    \* `end` arrived
  violation,    \* add_data blamed the hub
  cancelled,    \* cancelled_flag
  nodeOut,      \* bytes taken from nodeCredit by send_data(), not yet queued
  sent,         \* reply bytes send_data() has taken from the handler
  handler,      \* "read" body, "send" reply, "answered", "gone" from requests
  \* the wire
  upData, upCredit, endFrame, cancelFrame,  \* hub to node; node's credit back
  downData, downCredit, resFrame            \* node to hub; hub's credit back

hubVars  == <<sendCredit, recvWindow, unacked, queued, ended, cancelSent,
              finished, writing, hubOut, written, read, accused>>
nodeVars == <<nodeCredit, received, granted, consumed, chunks, nodeEnded,
              violation, cancelled, nodeOut, sent, handler>>
wireVars == <<upData, upCredit, endFrame, cancelFrame,
              downData, downCredit, resFrame>>
vars     == <<hubVars, nodeVars, wireVars>>

Min2(a, b) == IF a <= b THEN a ELSE b

\* The link is up until the hub drops it over a flow-control violation.
LinkUp == ~accused

\* The node's `upload` flag: DATA of the hub is taken, or ignored.
isUpload == UploadLen > 0

Init ==
  /\ sendCredit = WINDOW /\ recvWindow = WINDOW /\ unacked = 0 /\ queued = 0
  /\ ended = FALSE /\ cancelSent = FALSE /\ finished = "no"
  /\ writing = "idle" /\ hubOut = 0 /\ written = 0 /\ read = 0 /\ accused = FALSE
  /\ nodeCredit = WINDOW /\ received = 0 /\ granted = WINDOW /\ consumed = 0
  /\ chunks = 0 /\ nodeEnded = FALSE /\ violation = FALSE /\ cancelled = FALSE
  /\ nodeOut = 0 /\ sent = 0
  /\ handler = IF isUpload THEN "read" ELSE "send"
  /\ upData = 0 /\ upCredit = 0 /\ endFrame = FALSE /\ cancelFrame = FALSE
  /\ downData = 0 /\ downCredit = 0 /\ resFrame = "none"

-----------------------------------------------------------------------------
(* The hub's stream: write, end, next, cancel.                             *)

\* One round of write(): look at `finished`, waiting for credit if there is
\* none (only write() itself spends it, so what was seen stays) ...
WriteCheck ==
  /\ LinkUp /\ ~ended /\ writing = "idle" /\ hubOut = 0 /\ written < UploadLen
  /\ finished = "no" /\ sendCredit > 0
  /\ writing' = "checked"
  /\ UNCHANGED <<sendCredit, recvWindow, unacked, queued, ended, cancelSent,
                 finished, hubOut, written, read, accused, nodeVars, wireVars>>

\* The size of a frame: at most MAX_DATA and the credit left.
MayWriteUnchecked(n) == n <= MAX_DATA
MayWrite(n) == n <= MAX_DATA /\ n <= sendCredit

\* ... take the credit of the next frame under the lock; the answer may have
\* come in between ...
WriteTake(n) ==
  /\ LinkUp /\ writing = "checked"
  /\ MayWrite(n) /\ written + n <= UploadLen
  /\ writing' = "idle"
  /\ sendCredit' = sendCredit - n
  /\ written' = written + n
  /\ hubOut' = n
  /\ UNCHANGED <<recvWindow, unacked, queued, ended, cancelSent, finished,
                 read, accused, nodeVars, wireVars>>

\* ... and hand the frame to the link's writer (send_data).
WriteSend ==
  /\ LinkUp /\ hubOut > 0
  /\ upData' = upData + hubOut
  /\ hubOut' = 0
  /\ UNCHANGED <<sendCredit, recvWindow, unacked, queued, ended, cancelSent,
                 finished, writing, written, read, accused, nodeVars,
                 upCredit, endFrame, cancelFrame, downData, downCredit, resFrame>>

\* end(): the caller ends a body once all of it is written.
End ==
  /\ LinkUp /\ isUpload /\ ~ended /\ finished = "no"
  /\ writing = "idle" /\ hubOut = 0 /\ written = UploadLen
  /\ ended' = TRUE
  /\ endFrame' = TRUE
  /\ UNCHANGED <<sendCredit, recvWindow, unacked, queued, cancelSent, finished,
                 writing, hubOut, written, read, accused,
                 nodeVars, upData, upCredit, cancelFrame, downData, downCredit, resFrame>>

\* consumed(): when credit goes back, and how much.
CreditDueLate(n) == unacked + n > WINDOW /\ finished = "no"
CreditDue(n) == unacked + n >= CREDIT_BATCH /\ finished = "no"
CreditBackWindow(n) == WINDOW
CreditBack(n) == unacked + n

\* The window the hub enforces after crediting g bytes.
ReopenedForgot(g) == recvWindow
Reopened(g) == recvWindow + g

\* next() pops one DATA item of n bytes and consumed() credits it, in batches,
\* unless the request is over.
Consume(n) ==
  /\ LinkUp /\ n <= MAX_DATA /\ n <= queued
  /\ queued' = queued - n
  /\ read' = read + n
  /\ IF CreditDue(n)
     THEN /\ unacked' = 0
          /\ recvWindow' = Reopened(CreditBack(n))
          /\ downCredit' = downCredit + CreditBack(n)
     ELSE /\ unacked' = unacked + n
          /\ UNCHANGED <<recvWindow, downCredit>>
  /\ UNCHANGED <<sendCredit, ended, cancelSent, finished, writing, hubOut,
                 written, accused, nodeVars,
                 upData, upCredit, endFrame, cancelFrame, downData, resFrame>>

\* cancel_request(): at most one `cancel`; the request stays registered.
Cancel ==
  /\ LinkUp /\ finished = "no" /\ ~cancelSent
  /\ cancelSent' = TRUE
  /\ cancelFrame' = TRUE
  /\ UNCHANGED <<sendCredit, recvWindow, unacked, queued, ended, finished,
                 writing, hubOut, written, read, accused,
                 nodeVars, upData, upCredit, endFrame, downData, downCredit, resFrame>>

-----------------------------------------------------------------------------
(* The hub's reader: DATA, credit and the answer.                          *)

\* on_data: charged to the window even when a cancelled stream drops it; a
\* request that is over is not in `pending`, so its DATA is dropped.
OnData(n) ==
  /\ LinkUp /\ n <= MAX_DATA /\ n <= downData
  /\ downData' = downData - n
  /\ IF finished # "no"
     THEN UNCHANGED <<recvWindow, queued, accused>>
     ELSE IF n > recvWindow
     THEN accused' = TRUE /\ UNCHANGED <<recvWindow, queued>>
     ELSE /\ recvWindow' = recvWindow - n
          /\ queued' = IF cancelSent THEN queued ELSE queued + n
          /\ UNCHANGED accused
  /\ UNCHANGED <<sendCredit, unacked, ended, cancelSent, finished, writing,
                 hubOut, written, read, nodeVars,
                 upData, upCredit, endFrame, cancelFrame, downCredit, resFrame>>

\* on_json "credit"
OnCredit(n) ==
  /\ LinkUp /\ n <= upCredit
  /\ upCredit' = upCredit - n
  /\ sendCredit' = IF finished = "no" THEN Min2(sendCredit + n, MAX_CREDIT)
                                      ELSE sendCredit
  /\ UNCHANGED <<recvWindow, unacked, queued, ended, cancelSent, finished,
                 writing, hubOut, written, read, accused,
                 nodeVars, upData, endFrame, cancelFrame, downData, downCredit, resFrame>>

\* on_json "res": Req.finish.  The answer is behind all DATA and credit.
OnRes ==
  /\ LinkUp /\ resFrame \in {"ok", "error"} /\ downData = 0 /\ upCredit = 0
  /\ finished' = resFrame
  /\ resFrame' = "delivered"
  /\ UNCHANGED <<sendCredit, recvWindow, unacked, queued, ended, cancelSent,
                 writing, hubOut, written, read, accused,
                 nodeVars, upData, upCredit, endFrame, cancelFrame, downData, downCredit>>

-----------------------------------------------------------------------------
(* The node's reader: a frame of a request no longer in the table is       *)
(* dropped by `on_message`.                                                *)

Registered == handler # "gone"

\* add_data
AddData(n) ==
  /\ LinkUp /\ n <= MAX_DATA /\ n <= upData
  /\ upData' = upData - n
  /\ IF ~Registered \/ ~isUpload \/ nodeEnded
     THEN UNCHANGED <<received, violation, chunks>>
     ELSE /\ received' = received + n
          /\ violation' = (violation \/ received + n > granted)
          /\ chunks' = IF received + n > granted THEN 0
                       ELSE IF violation THEN chunks ELSE chunks + n
  /\ UNCHANGED <<hubVars, nodeCredit, granted, consumed, nodeEnded, cancelled,
                 nodeOut, sent, handler,
                 upCredit, endFrame, cancelFrame, downData, downCredit, resFrame>>

\* `end`: behind all the body's DATA
OnEnd ==
  /\ LinkUp /\ endFrame /\ upData = 0
  /\ endFrame' = FALSE
  /\ nodeEnded' = (nodeEnded \/ Registered)
  /\ UNCHANGED <<hubVars, nodeCredit, received, granted, consumed, chunks,
                 violation, cancelled, nodeOut, sent, handler,
                 upData, upCredit, cancelFrame, downData, downCredit, resFrame>>

\* add_credit (its own cap, 2^40, is above anything the hub can grant)
AddCredit(n) ==
  /\ LinkUp /\ n <= downCredit
  /\ downCredit' = downCredit - n
  /\ nodeCredit' = IF Registered THEN nodeCredit + n ELSE nodeCredit
  /\ UNCHANGED <<hubVars, received, granted, consumed, chunks, nodeEnded,
                 violation, cancelled, nodeOut, sent, handler,
                 upData, upCredit, endFrame, cancelFrame, downData, resFrame>>

\* Request.cancel
OnCancel ==
  /\ LinkUp /\ cancelFrame
  /\ cancelFrame' = FALSE
  /\ cancelled' = (cancelled \/ Registered)
  /\ UNCHANGED <<hubVars, nodeCredit, received, granted, consumed, chunks,
                 nodeEnded, violation, nodeOut, sent, handler,
                 upData, upCredit, endFrame, downData, downCredit, resFrame>>

-----------------------------------------------------------------------------
(* The node's handler thread.                                              *)

\* read_upload: the credit that would restore the whole window, and whether it
\* is worth a frame.
GrantWindow(n) == WINDOW
Grant(n) == consumed + n + WINDOW - granted
GrantDueLate(g) == g > WINDOW /\ ~nodeEnded
GrantDue(g) == g >= GRANT_STEP /\ ~nodeEnded

\* read_upload returns a chunk of n bytes and hands credit back.
ReadUpload(n) ==
  /\ LinkUp /\ handler = "read" /\ ~cancelled /\ ~violation
  /\ n <= MAX_DATA /\ n <= chunks
  /\ chunks' = chunks - n
  /\ consumed' = consumed + n
  /\ LET grant == Grant(n) IN
       IF GrantDue(grant)
       THEN granted' = granted + grant /\ upCredit' = upCredit + grant
       ELSE UNCHANGED <<granted, upCredit>>
  /\ UNCHANGED <<hubVars, nodeCredit, received, nodeEnded, violation, cancelled,
                 nodeOut, sent, handler,
                 upData, endFrame, cancelFrame, downData, downCredit, resFrame>>

\* read_upload returns the empty chunk: the body is complete.
BodyCompleteNoEnd == chunks = 0
BodyComplete == chunks = 0 /\ nodeEnded

ReadUploadEnd ==
  /\ LinkUp /\ handler = "read" /\ ~cancelled /\ ~violation
  /\ BodyComplete
  /\ handler' = "send"
  /\ UNCHANGED <<hubVars, nodeCredit, received, granted, consumed, chunks,
                 nodeEnded, violation, cancelled, nodeOut, sent, wireVars>>

\* send_data: take credit for the next frame ...
MaySendUnchecked(n) == n <= MAX_DATA
MaySend(n) == n <= MAX_DATA /\ n <= nodeCredit

SendTake(n) ==
  /\ LinkUp /\ handler = "send" /\ ~cancelled /\ nodeOut = 0
  /\ MaySend(n) /\ sent + n <= ReplyLen
  /\ nodeCredit' = nodeCredit - n
  /\ sent' = sent + n
  /\ nodeOut' = n
  /\ UNCHANGED <<hubVars, received, granted, consumed, chunks, nodeEnded,
                 violation, cancelled, handler, wireVars>>

\* ... and queue it with the writer once there is room.
SendPut ==
  /\ LinkUp /\ nodeOut > 0
  /\ downData' = downData + nodeOut
  /\ nodeOut' = 0
  /\ UNCHANGED <<hubVars, nodeCredit, received, granted, consumed, chunks,
                 nodeEnded, violation, cancelled, sent, handler,
                 upData, upCredit, endFrame, cancelFrame, downCredit, resFrame>>

\* handle(): the handler's outcome becomes the request's one `res`.
Answer(outcome) ==
  /\ handler' = "answered"
  /\ resFrame' = outcome
  /\ UNCHANGED <<hubVars, nodeCredit, received, granted, consumed, chunks,
                 nodeEnded, violation, cancelled, sent,
                 upData, upCredit, endFrame, cancelFrame, downData, downCredit>>

\* The whole body was read and the whole reply sent.
Succeed ==
  /\ LinkUp /\ handler = "send" /\ nodeOut = 0 /\ sent = ReplyLen
  /\ Answer("ok")
  /\ UNCHANGED nodeOut

\* A cancelled request stops at its next check(), or gives up a frame the
\* writer has no room for (put's `abort`), or answers the violation.
Stop ==
  /\ LinkUp /\ handler \in {"read", "send"}
  /\ cancelled \/ (handler = "read" /\ violation)
  /\ Answer("error")
  /\ nodeOut' = 0

\* The handler waits for the hub, in send_data or in read_upload.
BlockedReading == handler = "read" /\ chunks = 0 /\ ~nodeEnded
Blocked ==
  \/ handler = "send" /\ nodeOut = 0 /\ nodeCredit = 0 /\ sent < ReplyLen
  \/ BlockedReading

\* CREDIT_WAIT_S / UPLOAD_IDLE_S: the hub grants or sends nothing for too long.
TimeOut ==
  /\ LinkUp /\ Blocked
  /\ Answer("error")
  /\ UNCHANGED nodeOut

\* The operation itself fails (disk full, engine gone, ...).
Fail ==
  /\ LinkUp /\ handler \in {"read", "send"} /\ nodeOut = 0
  /\ Answer("error")
  /\ UNCHANGED nodeOut

\* handle()'s last line: only now does the id leave `requests`.
Forget ==
  /\ LinkUp /\ handler = "answered"
  /\ handler' = "gone"
  /\ UNCHANGED <<hubVars, nodeCredit, received, granted, consumed, chunks,
                 nodeEnded, violation, cancelled, nodeOut, sent, wireVars>>

-----------------------------------------------------------------------------
Hub     == \/ \E n \in 1..MAX_DATA : WriteTake(n) \/ Consume(n) \/ OnData(n)
           \/ \E n \in 1..upCredit : OnCredit(n)
           \/ WriteCheck \/ WriteSend \/ End \/ Cancel \/ OnRes
Node    == \/ \E n \in 1..MAX_DATA : AddData(n) \/ ReadUpload(n) \/ SendTake(n)
           \/ \E n \in 1..downCredit : AddCredit(n)
           \/ OnEnd \/ OnCancel \/ ReadUploadEnd \/ SendPut
           \/ Succeed \/ Stop \/ TimeOut \/ Fail \/ Forget
Next    == Hub \/ Node
Spec    == Init /\ [][Next]_vars

-----------------------------------------------------------------------------
(* Correctness.                                                            *)

\* Every counter is a natural number (the code keeps them in an i64), every
\* flag a boolean, every phase one of its names.
TypeOK ==
  /\ sendCredit \in Nat /\ recvWindow \in Nat /\ unacked \in Nat
  /\ queued \in Nat /\ hubOut \in Nat /\ written \in Nat /\ read \in Nat
  /\ nodeCredit \in Nat /\ received \in Nat /\ granted \in Nat
  /\ consumed \in Nat /\ chunks \in Nat /\ nodeOut \in Nat /\ sent \in Nat
  /\ upData \in Nat /\ upCredit \in Nat /\ downData \in Nat /\ downCredit \in Nat
  /\ ended \in BOOLEAN /\ cancelSent \in BOOLEAN
  /\ accused \in BOOLEAN /\ nodeEnded \in BOOLEAN /\ violation \in BOOLEAN
  /\ cancelled \in BOOLEAN /\ endFrame \in BOOLEAN /\ cancelFrame \in BOOLEAN
  /\ finished \in {"no", "ok", "error"} /\ writing \in {"idle", "checked"}
  /\ handler \in {"read", "send", "answered", "gone"}
  /\ resFrame \in {"none", "ok", "error", "delivered"}

\* Upload credit is conserved: every byte the node ever granted is still
\* unspent at the hub, being written, on its way (as DATA or as credit) or
\* received.  The node's checks (add_data) and the hub's (write) look at
\* different counters; this is what keeps them in step.
UploadCredit ==
  LET held == sendCredit + hubOut + upData + upCredit + received IN
    /\ held <= granted
    /\ finished = "no" /\ Registered => held = granted
    /\ granted <= consumed + WINDOW

\* Download credit is conserved: what the hub still allows is what the node
\* still has, plus what is on the way; what it no longer allows is waiting to
\* be read or to be credited.  A cancelled stream leaks credit, never gains.
DownloadCredit ==
  LET held == nodeCredit + nodeOut + downData + downCredit IN
    /\ finished = "no" => held <= recvWindow
    /\ finished = "no" /\ ~cancelSent /\ Registered => held = recvWindow
    /\ recvWindow + queued + unacked <= WINDOW
    /\ ~cancelSent => recvWindow + queued + unacked = WINDOW

\* Neither side ever blames an honest peer for overrunning its window, however
\* DATA, credit, cancel and the answer interleave (on_data, add_data).
NobodyAccused == ~accused /\ ~violation

\* Credit never runs dry with nobody left to refill it: a sender that is out
\* of credit always has something of its own under way or unread.  (Credit is
\* held back in batches on both sides; a batch larger than the window would
\* leave both ends waiting for each other.)
NoCreditStall ==
  /\ /\ handler = "send" /\ nodeCredit = 0 /\ nodeOut = 0
     /\ ~cancelSent /\ finished = "no"
     => downData + downCredit + queued > 0
  /\ /\ handler = "read" /\ sendCredit = 0 /\ hubOut = 0
     /\ ~nodeEnded /\ finished = "no"
     => upData + upCredit + chunks > 0

\* A request that is answered `ok` moved all its bytes: the node handler read
\* the whole body, and a consumer that drains a stream nobody cancelled gets
\* the whole reply before the end marker.
OkIsWhole ==
  finished = "ok" =>
    /\ consumed = UploadLen
    /\ ~cancelSent => read + queued = ReplyLen

Up   == INSTANCE BoundedPipe WITH Capacity <- WINDOW, put <- written, got <- consumed
Down == INSTANCE BoundedPipe WITH Capacity <- WINDOW, put <- sent, got <- read
UpIsBoundedPipe   == Up!PipeSpec
DownIsBoundedPipe == Down!PipeSpec
\* Each direction is a pipe of capacity WINDOW: what the sender let go of and the
\* reader has not taken never exceeds it, and neither goes back (read_upload, send_data).
PipesAreBounded == UpIsBoundedPipe /\ DownIsBoundedPipe

-----------------------------------------------------------------------------
(* Liveness.                                                               *)

\* Both reader loops, the writers and the handler thread are scheduled.
ThreadFairness ==
  /\ WF_vars(\E n \in 1..MAX_DATA : OnData(n))
  /\ WF_vars(\E n \in 1..upCredit : OnCredit(n))
  /\ WF_vars(OnRes)
  /\ WF_vars(WriteSend)
  /\ WF_vars(\E n \in 1..MAX_DATA : AddData(n))
  /\ WF_vars(\E n \in 1..downCredit : AddCredit(n))
  /\ WF_vars(OnEnd)
  /\ WF_vars(OnCancel)
  /\ WF_vars(\E n \in 1..MAX_DATA : ReadUpload(n))
  /\ WF_vars(ReadUploadEnd)
  /\ WF_vars(\E n \in 1..MAX_DATA : SendTake(n))
  /\ WF_vars(SendPut)
  /\ WF_vars(Succeed)
  /\ WF_vars(Stop)
  /\ WF_vars(Forget)

\* A caller that keeps writing, ends its body and keeps reading.
CallerFairness ==
  /\ WF_vars(WriteCheck)
  /\ WF_vars(\E n \in 1..MAX_DATA : WriteTake(n))
  /\ WF_vars(End)
  /\ WF_vars(\E n \in 1..MAX_DATA : Consume(n))

\* Nothing is assumed of the caller: it may stop writing, ending or reading at
\* any point.
LiveSpec == Spec /\ ThreadFairness

\* A request never holds its slot on the node for ever, whatever its caller
\* does: it is answered and forgotten, since a handler that is blocked for too
\* long notices its timeout (CREDIT_WAIT_S, UPLOAD_IDLE_S).
SlotFreed == WF_vars(TimeOut) => <>(handler = "gone" /\ finished # "no")

\* With a caller that does its part, a request that neither fails nor is
\* cancelled moves every byte both ways, although credit only comes back in
\* batches and the windows are smaller than the streams.
TransferCompletes ==
  CallerFairness /\ [](resFrame # "error" /\ finished # "error" /\ ~cancelSent)
    => <>(finished = "ok" /\ consumed = UploadLen /\ read = ReplyLen)
=============================================================================
