--------------------------- MODULE RequestProofs ----------------------------
(***************************************************************************)
(* The two request tables for any requests, limits, ids and queue length   *)
(* that satisfy RequestConstants.                                          *)
(*                                                                         *)
(* The wire carries an id, and ids are used again.  That an answer reaches *)
(* its own request needs three things of every frame on its way: it bears  *)
(* the id of the request it was made for (Frames), no request that the hub *)
(* waits for or the node runs bears the same (Distinct), and neither does  *)
(* one that begins while the frame is under way (Uniquely, CancelsFit).  A *)
(* request that the node has not read has no other frame (Asked), and an   *)
(* answer is the last frame of its handler (Answered, Emitted).  A stream  *)
(* that neither lagged nor was cancelled has its events in got, in queue   *)
(* and on the wire, in this order and without a gap (Whole).               *)
(***************************************************************************)
EXTENDS RequestSuite, FiniteSetTheorems, FunctionTheorems, WellFoundedInduction, TLAPS

Codes == {"ok", "cancelled", "refused", "busy", "unavailable"}
DownFrame == [kind : {"req", "cancel"}, req : Requests, id : 1..MaxId] \cup {[kind |-> "ping"]}
ResFrame == [kind : {"res"}, req : Requests, id : 1..MaxId, code : {"ok", "cancelled", "refused", "busy"}]
EventFrame == [kind : {"event"}, req : Streams, id : 1..MaxId, n : 1..MaxEvents]
BareFrame == [kind : {"pong", "push", "log"}]

Types ==
  /\ link \in {"up", "down"} /\ pending \in SUBSET Requests /\ next_id \in 1..MaxId
  /\ id \in [Requests -> 0..MaxId] /\ caller \in [Requests -> {"idle", "waiting", "returned"}]
  /\ ending \in [Requests -> [code : Codes \cup {"none"}, from : Requests]]
  /\ cancel \in [Requests -> {"no", "sent"}]
  /\ queue \in [Streams -> Seq(0..MaxEvents)] /\ got \in [Streams -> Seq(1..MaxEvents)]
  /\ lost \in SUBSET Streams /\ table \in SUBSET Requests
  /\ handler \in [Requests -> {"none", "running", "hung", "answered", "gone"}]
  /\ told \in SUBSET Requests /\ sent \in [Requests -> 0..MaxEvents]
  /\ reply \in Seq(ResFrame \cup BareFrame) /\ Len(reply) <= 1
  /\ toNode \in Seq(DownFrame) /\ toHub \in Seq(ResFrame \cup EventFrame \cup BareFrame)
  /\ odd \in Nat

Limits ==
  /\ Cardinality(pending) <= HubInflight /\ Cardinality(table) <= NodeInflight
  /\ Len(toHub) <= QueueMax
  /\ link = "down" => pending = {} /\ toNode = <<>> /\ toHub = <<>>

\* Where a request is: its caller, the hub's entry, the node's entry.
Lives ==
  /\ \A r \in Requests : caller[r] = "idle" => id[r] = 0 /\ ~Finished(r) /\ cancel[r] = "no"
  /\ \A r \in Requests : caller[r] = "waiting" => id[r] # 0
  /\ \A r \in Requests : r \in pending <=> id[r] # 0 /\ ~Finished(r)
  /\ \A r \in Requests : r \in table <=> handler[r] \in {"running", "hung", "answered"}
  /\ \A r \in Requests : handler[r] # "none" => id[r] # 0
  /\ \A r \in Requests : ending[r].from = r
  /\ \A r \in Requests : ending[r].code = "ok" => handler[r] \in {"answered", "gone"}
  /\ \A r \in told : cancel[r] = "sent" \/ link = "down"
  /\ \A r \in Requests : handler[r] \in {"running", "hung"} =>
       r \in pending \/ link = "down" \/ (cancel[r] = "sent" /\ ending[r].code = "unavailable")

Distinct == \A r, s \in pending \cup table : id[r] = id[s] => r = s

\* Frames to the node.
Asked ==
  \A i \in 1..Len(toNode) : toNode[i].kind = "req" =>
    LET q == toNode[i].req IN
    /\ toNode[i].id = id[q] /\ q \in pending /\ handler[q] = "none"
    /\ \A j \in 1..Len(toNode) : toNode[j].kind = "req" /\ toNode[j].req = q => j = i
    /\ \A j \in 1..Len(toHub) : toHub[j].kind = "res" => toHub[j].req # q
    /\ \A j \in 1..Len(reply) : reply[j].kind = "res" => reply[j].req # q

CancelsFit ==
  \A j \in 1..Len(toNode) : toNode[j].kind = "cancel" =>
    /\ cancel[toNode[j].req] = "sent"
    /\ \A r \in table : id[r] = toNode[j].id => r = toNode[j].req
    /\ \A i \in 1..(j - 1) : toNode[i].kind = "req" /\ toNode[i].id = toNode[j].id => toNode[i].req = toNode[j].req

\* Frames to the hub.
Replying ==
  link = "up" => \A i \in 1..Len(reply) : reply[i].kind = "res" =>
    LET q == reply[i].req IN
    /\ reply[i].id = id[q] /\ q \in pending /\ handler[q] = "none" /\ reply[i].code \in {"refused", "busy"}
    /\ \A j \in 1..Len(toHub) : toHub[j].kind = "res" => toHub[j].req # q

Answered ==
  \A i \in 1..Len(toHub) : toHub[i].kind = "res" =>
    LET q == toHub[i].req IN
    /\ toHub[i].id = id[q] /\ id[q] # 0 /\ handler[q] \in {"none", "answered", "gone"}
    /\ toHub[i].code = "ok" => handler[q] \in {"answered", "gone"}
    /\ \A j \in (i + 1)..Len(toHub) : toHub[j].kind \in {"res", "event"} => toHub[j].req # q

Emitted ==
  \A i \in 1..Len(toHub) : toHub[i].kind = "event" =>
    LET q == toHub[i].req IN
    /\ toHub[i].id = id[q] /\ id[q] # 0 /\ toHub[i].n <= sent[q] /\ handler[q] # "none"
    /\ \/ handler[q] \in {"running", "hung"}
       \/ \E j \in 1..Len(toHub) : toHub[j].kind = "res" /\ toHub[j].req = q

Uniquely ==
  \A i \in 1..Len(toHub) : toHub[i].kind \in {"res", "event"} =>
    \A r \in pending : id[r] = toHub[i].id => r = toHub[i].req

\* Streams.
Marked ==
  \A r \in Streams :
    /\ \A i \in 1..Len(queue[r]) : queue[r][i] = End => i = Len(queue[r]) /\ Finished(r)
    /\ Len(queue[r]) <= MaxQueued + 1
    /\ ~Finished(r) => Len(queue[r]) <= MaxQueued
    /\ ending[r].code = "ok" => queue[r] # <<>> /\ queue[r][Len(queue[r])] = End

EventOf(r, i) == toHub[i].kind = "event" /\ toHub[i].req = r
Ordered ==
  \A r \in Streams :
    /\ \A i, j \in 1..Len(got[r]) : i < j => got[r][i] < got[r][j]
    /\ \A i, j \in 1..Len(queue[r]) : i < j /\ queue[r][j] # End => queue[r][i] < queue[r][j]
    /\ \A i, j \in 1..Len(toHub) : i < j /\ EventOf(r, i) /\ EventOf(r, j) => toHub[i].n < toHub[j].n
    /\ \A i \in 1..Len(got[r]), j \in 1..Len(queue[r]) : queue[r][j] # End => got[r][i] < queue[r][j]
    /\ \A i \in 1..Len(got[r]), j \in 1..Len(toHub) : EventOf(r, j) => got[r][i] < toHub[j].n
    /\ \A i \in 1..Len(queue[r]), j \in 1..Len(toHub) : EventOf(r, j) => queue[r][i] < toHub[j].n
    /\ \A i \in 1..Len(got[r]) : got[r][i] <= sent[r]
    /\ \A i \in 1..Len(queue[r]) : queue[r][i] <= sent[r]

Full(r) == r \notin lost /\ cancel[r] = "no"
Open(r) == Full(r) /\ ~Finished(r) /\ link = "up"
\* Read and waiting to be read: 1, 2, 3, ...
NoGap ==
  \A r \in Streams : Open(r) \/ (Full(r) /\ ending[r].code = "ok") =>
    /\ \A i \in 1..Len(got[r]) : got[r][i] = i
    /\ \A j \in 1..Len(queue[r]) : queue[r][j] # End => queue[r][j] = Len(got[r]) + j
\* The rest is on the wire.
Have(r) == Len(got[r]) + Len(queue[r])
Underway ==
  \A r \in Streams : Open(r) =>
    /\ Have(r) <= sent[r]
    /\ \A i \in 1..Len(toHub) : EventOf(r, i) => toHub[i].n > Have(r)
    /\ \A n \in (Have(r) + 1)..sent[r] : \E i \in 1..Len(toHub) : EventOf(r, i) /\ toHub[i].n = n
AllThere == \A r \in Streams : Full(r) /\ ending[r].code = "ok" => Have(r) = sent[r] + 1
Whole == NoGap /\ Underway /\ AllThere

RequestInv ==
  /\ Types /\ Limits /\ Lives /\ Distinct
  /\ Asked /\ CancelsFit /\ Replying /\ Answered /\ Emitted /\ Uniquely
  /\ Marked /\ Ordered /\ Whole
-----------------------------------------------------------------------------
(* Sequences, frames and ids.                                              *)

LEMMA AppendIs ==
  ASSUME NEW S, NEW s \in Seq(S), NEW e \in S
  PROVE  /\ Append(s, e) \in Seq(S) /\ Len(Append(s, e)) = Len(s) + 1 /\ Len(s) \in Nat
         /\ \A i \in 1..Len(s) : Append(s, e)[i] = s[i]
         /\ Append(s, e)[Len(s) + 1] = e /\ Append(s, e) # <<>>
OBVIOUS

LEMMA TailIs ==
  ASSUME NEW S, NEW s \in Seq(S), s # <<>>
  PROVE  /\ Tail(s) \in Seq(S) /\ Len(Tail(s)) = Len(s) - 1 /\ Len(s) \in Nat \ {0} /\ Len(Tail(s)) \in Nat
         /\ \A i \in 1..Len(Tail(s)) : Tail(s)[i] = s[i + 1] /\ i + 1 \in 2..Len(s)
         /\ Head(s) = s[1] /\ s[1] \in S /\ 1 \in 1..Len(s)
OBVIOUS

LEMMA DownIs ==
  ASSUME NEW x \in DownFrame
  PROVE  x.kind \in {"req", "cancel", "ping"} /\ (x.kind # "ping" => x.req \in Requests /\ x.id \in 1..MaxId)
BY DEF DownFrame

LEMMA UpIs ==
  ASSUME RequestConstants, NEW x \in ResFrame \cup EventFrame \cup BareFrame
  PROVE  /\ x.kind \in {"res", "event", "pong", "push", "log"}
         /\ x.kind = "res" => x.req \in Requests /\ x.id \in 1..MaxId /\ x.code \in {"ok", "cancelled", "refused", "busy"}
         /\ x.kind = "event" => x.req \in Streams /\ x.req \in Requests /\ x.id \in 1..MaxId /\ x.n \in 1..MaxEvents
BY DEF ResFrame, EventFrame, BareFrame, RequestConstants

LEMMA ReplyIs ==
  ASSUME NEW x \in ResFrame \cup BareFrame
  PROVE  /\ x.kind \in {"res", "pong", "push", "log"}
         /\ x.kind = "res" => x.req \in Requests /\ x.id \in 1..MaxId /\ x.code \in {"ok", "cancelled", "refused", "busy"}
BY DEF ResFrame, BareFrame

LEMMA FramesAre ==
  ASSUME RequestConstants, Types
  PROVE  /\ \A i \in 1..Len(toNode) : /\ toNode[i].kind \in {"req", "cancel", "ping"}
                                      /\ toNode[i].kind # "ping" => toNode[i].req \in Requests /\ toNode[i].id \in 1..MaxId
         /\ \A i \in 1..Len(toHub) : /\ toHub[i].kind \in {"res", "event", "pong", "push", "log"}
                                     /\ toHub[i].kind \in {"res", "event"} => toHub[i].req \in Requests /\ toHub[i].id \in 1..MaxId
                                     /\ toHub[i].kind = "res" => toHub[i].code \in {"ok", "cancelled", "refused", "busy"}
                                     /\ toHub[i].kind = "event" => toHub[i].req \in Streams /\ toHub[i].n \in 1..MaxEvents
         /\ \A i \in 1..Len(reply) : /\ reply[i].kind \in {"res", "pong", "push", "log"}
                                     /\ reply[i].kind = "res" => reply[i].req \in Requests /\ reply[i].id \in 1..MaxId
         /\ Len(toNode) \in Nat /\ Len(toHub) \in Nat /\ Len(reply) \in Nat
         /\ \A r \in Streams : r \in Requests /\ Len(queue[r]) \in Nat /\ Len(got[r]) \in Nat
         /\ \A r \in Streams : \A i \in 1..Len(queue[r]) : queue[r][i] \in 0..MaxEvents
         /\ \A r \in Streams : \A i \in 1..Len(got[r]) : got[r][i] \in 1..MaxEvents
         /\ \A r \in Requests : ending[r] \in [code : Codes \cup {"none"}, from : Requests]
<1>1. \A i \in 1..Len(toNode) : toNode[i] \in DownFrame
  BY DEF Types
<1>2. \A i \in 1..Len(toHub) : toHub[i] \in ResFrame \cup EventFrame \cup BareFrame
  BY DEF Types
<1>3. \A i \in 1..Len(reply) : reply[i] \in ResFrame \cup BareFrame
  BY DEF Types
<1>4. Len(toNode) \in Nat /\ Len(toHub) \in Nat /\ Len(reply) \in Nat
  BY DEF Types
<1>5. ASSUME NEW r \in Streams
      PROVE  /\ r \in Requests /\ Len(queue[r]) \in Nat /\ Len(got[r]) \in Nat
             /\ \A i \in 1..Len(queue[r]) : queue[r][i] \in 0..MaxEvents
             /\ \A i \in 1..Len(got[r]) : got[r][i] \in 1..MaxEvents
  <2>1. queue[r] \in Seq(0..MaxEvents) /\ got[r] \in Seq(1..MaxEvents)
    BY DEF Types
  <2> QED
    BY <2>1 DEF RequestConstants
<1>6. \A r \in Requests : ending[r] \in [code : Codes \cup {"none"}, from : Requests]
  BY DEF Types
<1>7. \A i \in 1..Len(toNode) : /\ toNode[i].kind \in {"req", "cancel", "ping"}
                                /\ toNode[i].kind # "ping" => toNode[i].req \in Requests /\ toNode[i].id \in 1..MaxId
  BY <1>1, DownIs
<1>8. \A i \in 1..Len(toHub) : /\ toHub[i].kind \in {"res", "event", "pong", "push", "log"}
                               /\ toHub[i].kind \in {"res", "event"} => toHub[i].req \in Requests /\ toHub[i].id \in 1..MaxId
                               /\ toHub[i].kind = "res" => toHub[i].code \in {"ok", "cancelled", "refused", "busy"}
                               /\ toHub[i].kind = "event" => toHub[i].req \in Streams /\ toHub[i].n \in 1..MaxEvents
  BY <1>2, UpIs
<1>9. \A i \in 1..Len(reply) : /\ reply[i].kind \in {"res", "pong", "push", "log"}
                               /\ reply[i].kind = "res" => reply[i].req \in Requests /\ reply[i].id \in 1..MaxId
  BY <1>3, ReplyIs
<1> QED
  BY <1>4, <1>5, <1>6, <1>7, <1>8, <1>9

LEMMA Least ==
  ASSUME NEW S \in SUBSET Nat, S # {}
  PROVE  \E k \in S : \A j \in S : k <= j
<1>1. PICK k \in S : \A j \in S : <<j, k>> \notin OpToRel(<, Nat)
  BY WFMin, NatLessThanWellFounded
<1>2. \A j \in S : ~(j < k)
  BY <1>1 DEF OpToRel
<1> QED
  BY <1>2

\* Ids go round: what is k - 1 places behind n.
LEMMA RoundIs ==
  ASSUME NEW M \in Nat \ {0}, NEW n \in 1..M, NEW k \in 1..M
  PROVE  (n + k - 2) % M = IF n + k - 2 < M THEN n + k - 2 ELSE n + k - 2 - M
<1>1. \A a \in Nat : a < M => a % M = a
  OBVIOUS
<1>2. \A a \in Nat : M <= a /\ a < 2 * M => a % M = a - M
  OBVIOUS
<1>3. n + k - 2 \in Nat /\ n + k - 2 < 2 * M
  OBVIOUS
<1> QED
  BY <1>1, <1>2, <1>3

\* As long as the table has room there is an id that no entry bears.
LEMMA FreeIdIs ==
  ASSUME RequestConstants, Types, Cardinality(pending) < HubInflight
  PROVE  FreeId \in 1..MaxId /\ FreeId \notin IdsOf(pending) /\ (FreeId % MaxId) + 1 \in 1..MaxId
<1>1. MaxId \in Nat \ {0} /\ next_id \in 1..MaxId
  BY DEF Types, RequestConstants
<1>2. IsFiniteSet(pending) /\ pending \subseteq Requests
  BY FS_Subset DEF Types, RequestConstants
<1>3. IsFiniteSet(IdsOf(pending)) /\ Cardinality(IdsOf(pending)) <= Cardinality(pending)
  <2>1. id \in [Requests -> 0..MaxId]
    BY DEF Types
  <2> DEFINE g == [r \in pending |-> id[r]]
  <2>2. IsFiniteSet(IdsOf(pending)) /\ g \in Surjection(pending, IdsOf(pending))
    <3>1. {g[r] : r \in pending} = IdsOf(pending)
      BY DEF IdsOf
    <3>2. g \in Surjection(pending, IdsOf(pending))
      BY <2>1, <3>1, <1>2, Fun_IsSurj DEF IdsOf
    <3> QED
      BY <1>2, <3>2, FS_Surjection
  <2> QED
    BY <1>2, <2>2, FS_Surjection
<1>4. PICK v \in 1..MaxId : v \notin IdsOf(pending)
  <2> SUFFICES ASSUME 1..MaxId \subseteq IdsOf(pending) PROVE FALSE
    OBVIOUS
  <2>1. Cardinality(1..MaxId) <= Cardinality(IdsOf(pending)) /\ Cardinality(1..MaxId) = MaxId
    <3>1. Cardinality(1..MaxId) <= Cardinality(IdsOf(pending))
      BY <1>3, FS_Subset
    <3>2. Cardinality(1..MaxId) = MaxId
      BY <1>1, FS_Interval
    <3> QED
      BY <3>1, <3>2
  <2> DEFINE a == Cardinality(pending)
             b == Cardinality(IdsOf(pending))
             c == Cardinality(1..MaxId)
  <2>2. a \in Nat /\ b \in Nat /\ a < HubInflight /\ b <= a /\ c <= b /\ c = MaxId /\ HubInflight \in Nat
        /\ MaxId \in Nat /\ HubInflight <= MaxId
    BY <1>2, <1>3, <2>1, FS_CardinalityType DEF RequestConstants
  <2> HIDE DEF a, b, c
  <2> QED
    BY <2>2
<1>5. \A k \in 1..MaxId : Round[k] \in 1..MaxId
                          /\ Round[k] = IF next_id + k - 2 < MaxId THEN next_id + k - 1 ELSE next_id + k - 1 - MaxId
  <2> SUFFICES ASSUME NEW k \in 1..MaxId
               PROVE  Round[k] \in 1..MaxId
                      /\ Round[k] = IF next_id + k - 2 < MaxId THEN next_id + k - 1 ELSE next_id + k - 1 - MaxId
    OBVIOUS
  <2>1. Round[k] = ((next_id + k - 2) % MaxId) + 1
    BY DEF Round
  <2>2. (next_id + k - 2) % MaxId = IF next_id + k - 2 < MaxId THEN next_id + k - 2 ELSE next_id + k - 2 - MaxId
    BY <1>1, RoundIs
  <2> QED
    BY <1>1, <2>1, <2>2
<1>6. PICK k \in 1..MaxId : Round[k] = v
  <2> DEFINE w == IF v >= next_id THEN v - next_id + 1 ELSE v - next_id + 1 + MaxId
  <2>1. w \in 1..MaxId /\ (IF next_id + w - 2 < MaxId THEN next_id + w - 1 ELSE next_id + w - 1 - MaxId) = v
    BY <1>1
  <2> QED
    BY <1>5, <2>1
<1> DEFINE F == {j \in 1..MaxId : Round[j] \notin IdsOf(pending)}
<1>7. PICK l \in F : \A j \in F : l <= j
  <2>1. k \in F /\ F \subseteq Nat
    BY <1>4, <1>6
  <2> QED
    BY <2>1, Least
<1>8. /\ l \in 1..MaxId /\ Round[l] \notin IdsOf(pending)
      /\ \A j \in 1..(l - 1) : Round[j] \in IdsOf(pending)
  <2>1. \A j \in 1..(l - 1) : j \in 1..MaxId /\ ~(l <= j)
    BY <1>1, <1>7
  <2> QED
    BY <1>7, <2>1
<1> HIDE DEF F
<1>9. PICK m \in 1..MaxId : FreeId = Round[m] /\ Round[m] \notin IdsOf(pending)
  BY <1>8 DEF FreeId
<1>10. FreeId \in 1..MaxId /\ FreeId \notin IdsOf(pending)
  BY <1>5, <1>9
<1> HIDE DEF FreeId
<1> DEFINE f == FreeId
<1>11. f \in 1..MaxId
  BY <1>10
<1> HIDE DEF f
<1>12. (f % MaxId) + 1 \in 1..MaxId
  BY <1>1, <1>11
<1> QED
  BY <1>10, <1>12 DEF f
-----------------------------------------------------------------------------
(* What a step leaves alone.                                               *)

LEMMA Kept ==
  /\ Limits /\ UNCHANGED <<link, pending, table, toNode, toHub>> => Limits'
  /\ Lives /\ UNCHANGED <<link, pending, id, caller, ending, cancel, table, handler, told>> => Lives'
  /\ Distinct /\ UNCHANGED <<pending, id, table>> => Distinct'
  /\ Asked /\ UNCHANGED <<pending, id, handler, toNode, toHub, reply>> => Asked'
  /\ CancelsFit /\ UNCHANGED <<id, cancel, table, toNode>> => CancelsFit'
  /\ Replying /\ UNCHANGED <<link, pending, id, handler, reply, toHub>> => Replying'
  /\ Answered /\ UNCHANGED <<id, handler, toHub>> => Answered'
  /\ Emitted /\ UNCHANGED <<id, handler, sent, toHub>> => Emitted'
  /\ Uniquely /\ UNCHANGED <<pending, id, toHub>> => Uniquely'
  /\ Marked /\ UNCHANGED <<ending, queue>> => Marked'
  /\ Ordered /\ UNCHANGED <<queue, got, sent, toHub>> => Ordered'
  /\ Whole /\ UNCHANGED <<link, ending, cancel, lost, queue, got, sent, toHub>> => Whole'
<1>1. Limits /\ UNCHANGED <<link, pending, table, toNode, toHub>> => Limits'
  BY DEF Limits
<1>2. Lives /\ UNCHANGED <<link, pending, id, caller, ending, cancel, table, handler, told>> => Lives'
  BY DEF Lives, Finished
<1>3. Distinct /\ UNCHANGED <<pending, id, table>> => Distinct'
  BY DEF Distinct
<1>4. Asked /\ UNCHANGED <<pending, id, handler, toNode, toHub, reply>> => Asked'
  BY DEF Asked
<1>5. CancelsFit /\ UNCHANGED <<id, cancel, table, toNode>> => CancelsFit'
  BY DEF CancelsFit
<1>6. Replying /\ UNCHANGED <<link, pending, id, handler, reply, toHub>> => Replying'
  BY DEF Replying
<1>7. Answered /\ UNCHANGED <<id, handler, toHub>> => Answered'
  BY DEF Answered
<1>8. Emitted /\ UNCHANGED <<id, handler, sent, toHub>> => Emitted'
  BY DEF Emitted
<1>9. Uniquely /\ UNCHANGED <<pending, id, toHub>> => Uniquely'
  BY DEF Uniquely
<1>10. Marked /\ UNCHANGED <<ending, queue>> => Marked'
  BY DEF Marked, Finished
<1>11. Ordered /\ UNCHANGED <<queue, got, sent, toHub>> => Ordered'
  BY DEF Ordered, EventOf
<1>12. Whole /\ UNCHANGED <<link, ending, cancel, lost, queue, got, sent, toHub>> => Whole'
  <2> SUFFICES ASSUME Whole, UNCHANGED <<link, ending, cancel, lost, queue, got, sent, toHub>> PROVE Whole'
    OBVIOUS
  <2>1. \A r : Open(r)' = Open(r) /\ Full(r)' = Full(r) /\ Have(r)' = Have(r)
    BY DEF Open, Full, Have, Finished
  <2>2. NoGap'
    BY <2>1 DEF Whole, NoGap
  <2>3. Underway'
    BY <2>1 DEF Whole, Underway, EventOf
  <2>4. AllThere'
    BY <2>1 DEF Whole, AllThere
  <2> QED
    BY <2>2, <2>3, <2>4 DEF Whole
<1> QED
  BY <1>1, <1>2, <1>3, <1>4, <1>5, <1>6, <1>7, <1>8, <1>9, <1>10, <1>11, <1>12

-----------------------------------------------------------------------------
(* The hub's callers.                                                      *)

LEMMA BeginRefusedKeeps ==
  ASSUME RequestConstants, RequestInv, NEW r \in Requests, BeginRefused(r)
  PROVE  RequestInv'
<1> USE DEF RequestInv
<1>1. /\ caller[r] = "idle" /\ caller' = [caller EXCEPT ![r] = "returned"]
      /\ UNCHANGED <<link, pending, next_id, id, cancel, queue, got, lost, toNode, toHub, odd>>
      /\ UNCHANGED <<table, handler, told, sent, reply>>
  BY DEF BeginRefused, node
<1>2. PICK c \in {"unavailable", "busy"} : ending' = [ending EXCEPT ![r].code = c]
  BY DEF BeginRefused
<1>3. /\ ending' \in [Requests -> [code : Codes \cup {"none"}, from : Requests]]
      /\ ending'[r].code = c /\ ending'[r].from = ending[r].from
      /\ \A s \in Requests \ {r} : ending'[s] = ending[s]
  <2>1. ending[r] \in [code : Codes \cup {"none"}, from : Requests]
        /\ ending \in [Requests -> [code : Codes \cup {"none"}, from : Requests]]
    BY DEF Types
  <2> DEFINE e == [ending[r] EXCEPT !.code = c]
  <2>2. e \in [code : Codes \cup {"none"}, from : Requests] /\ e.code = c /\ e.from = ending[r].from
    BY <2>1 DEF Codes
  <2>3. ending' = [ending EXCEPT ![r] = e]
    BY <1>2, <2>1
  <2> HIDE DEF e
  <2> QED
    BY <2>1, <2>2, <2>3
<1>4. Types'
  BY <1>1, <1>3 DEF Types
<1>5. id[r] = 0 /\ ~Finished(r) /\ r \notin pending /\ handler[r] = "none"
  BY <1>1 DEF Lives, Types
<1>6. Lives'
  <2>1. caller'[r] = "returned" /\ \A s \in Requests \ {r} : caller'[s] = caller[s]
    BY <1>1 DEF Types
  <2>2. /\ \A s \in Requests : caller'[s] = "idle" => id'[s] = 0 /\ ~Finished(s)' /\ cancel'[s] = "no"
        /\ \A s \in Requests : caller'[s] = "waiting" => id'[s] # 0
    BY <1>1, <1>3, <2>1 DEF Lives, Finished
  <2>3. \A s \in Requests : s \in pending' <=> id'[s] # 0 /\ ~Finished(s)'
    BY <1>1, <1>3, <1>5 DEF Lives, Finished
  <2>4. \A s \in Requests : ending'[s].from = s /\ (ending'[s].code = "ok" => handler'[s] \in {"answered", "gone"})
    BY <1>1, <1>3 DEF Lives
  <2>5. \A s \in Requests : handler'[s] \in {"running", "hung"} =>
          s \in pending' \/ link' = "down" \/ (cancel'[s] = "sent" /\ ending'[s].code = "unavailable")
    BY <1>1, <1>3, <1>5 DEF Lives
  <2> QED
    BY <1>1, <2>2, <2>3, <2>4, <2>5 DEF Lives
<1>7. Marked'
  BY <1>1, <1>3 DEF Marked, Finished, RequestConstants
<1>8. Whole'
  <2>1. \A s \in Requests : /\ Open(s)' => Open(s)
                            /\ Full(s)' = Full(s) /\ Have(s)' = Have(s)
                            /\ ending'[s].code = "ok" => ending[s].code = "ok"
    BY <1>1, <1>3 DEF Open, Full, Have, Finished
  <2>2. NoGap'
    BY <1>1, <2>1 DEF Whole, NoGap, RequestConstants
  <2>3. Underway'
    BY <1>1, <2>1 DEF Whole, Underway, EventOf, RequestConstants
  <2>4. AllThere'
    BY <1>1, <2>1 DEF Whole, AllThere, RequestConstants
  <2> QED
    BY <2>2, <2>3, <2>4 DEF Whole
<1> QED
  BY <1>1, <1>4, <1>6, <1>7, <1>8, Kept

LEMMA BeginKeeps ==
  ASSUME RequestConstants, RequestInv, NEW r \in Requests, Begin(r)
  PROVE  RequestInv'
<1> USE DEF RequestInv
<1> DEFINE f == FreeId
<1>1. /\ caller[r] = "idle" /\ link = "up" /\ Cardinality(pending) < HubInflight
      /\ id' = [id EXCEPT ![r] = f] /\ next_id' = (f % MaxId) + 1 /\ pending' = pending \cup {r}
      /\ caller' = [caller EXCEPT ![r] = "waiting"]
      /\ toNode' = Append(toNode, [kind |-> "req", req |-> r, id |-> f])
      /\ UNCHANGED <<link, ending, cancel, queue, got, lost, toHub, odd>>
      /\ UNCHANGED <<table, handler, told, sent, reply>>
  BY DEF Begin, node
<1>2. /\ f \in 1..MaxId /\ f \notin IdsOf(pending) /\ (f % MaxId) + 1 \in 1..MaxId
  BY <1>1, FreeIdIs
<1>3. /\ f \notin IdsOf(table \ pending)
      /\ \A i \in 1..Len(toHub) : toHub[i].kind = "res" => toHub[i].req \in pending
  BY DEF Begin, NoLap
<1> HIDE DEF f
<1>4. \A s \in pending \cup table : id[s] # f
  BY <1>2, <1>3 DEF IdsOf
<1>5. /\ id[r] = 0 /\ ~Finished(r) /\ cancel[r] = "no" /\ r \notin pending /\ handler[r] = "none" /\ r \notin table
  BY <1>1 DEF Lives, Types
<1>6. id'[r] = f /\ f # 0 /\ \A s \in Requests \ {r} : id'[s] = id[s]
  BY <1>1, <1>2 DEF Types, RequestConstants
<1> DEFINE x == [kind |-> "req", req |-> r, id |-> f]
<1>7. x \in DownFrame /\ x.kind = "req" /\ x.req = r /\ x.id = f
  BY <1>2 DEF DownFrame
<1> HIDE DEF x
<1>8. /\ toNode' \in Seq(DownFrame) /\ Len(toNode') = Len(toNode) + 1 /\ Len(toNode) \in Nat
      /\ \A i \in 1..Len(toNode) : toNode'[i] = toNode[i]
      /\ toNode'[Len(toNode) + 1] = x
  BY <1>1, <1>7, AppendIs DEF Types, x
<1>9. /\ \A i \in 1..Len(toNode) : toNode[i].kind = "req" => toNode[i].req # r
      /\ \A i \in 1..Len(toNode) : toNode[i].kind = "cancel" => toNode[i].req # r
      /\ \A i \in 1..Len(reply) : reply[i].kind = "res" => reply[i].req # r
      /\ \A i \in 1..Len(toHub) : toHub[i].kind \in {"res", "event"} => toHub[i].req # r
  BY <1>1, <1>5 DEF Asked, CancelsFit, Replying, Answered, Emitted
<1>10. Types'
  BY <1>1, <1>2, <1>8 DEF Types
<1>11. Limits'
  <2>1. IsFiniteSet(pending) /\ Cardinality(pending \cup {r}) = Cardinality(pending) + 1 /\ Cardinality(pending) \in Nat
    BY <1>5, FS_Subset, FS_AddElement, FS_CardinalityType DEF Types, RequestConstants
  <2> DEFINE a == Cardinality(pending)
             b == Cardinality(pending')
  <2>2. a \in Nat /\ b = a + 1 /\ a < HubInflight /\ HubInflight \in Nat
    BY <1>1, <2>1 DEF RequestConstants
  <2> HIDE DEF a, b
  <2>3. b <= HubInflight
    BY <2>2
  <2> QED
    BY <1>1, <2>3 DEF Limits, b
<1>12. Lives'
  BY <1>1, <1>5, <1>6 DEF Lives, Finished, Types
<1>13. Distinct'
  BY <1>1, <1>4, <1>5, <1>6 DEF Distinct, Types
<1>14. Asked'
  <2> SUFFICES ASSUME NEW i \in 1..Len(toNode'), toNode'[i].kind = "req"
               PROVE  LET q == toNode'[i].req IN
                      /\ toNode'[i].id = id'[q] /\ q \in pending' /\ handler'[q] = "none"
                      /\ \A j \in 1..Len(toNode') : toNode'[j].kind = "req" /\ toNode'[j].req = q => j = i
                      /\ \A j \in 1..Len(toHub') : toHub'[j].kind = "res" => toHub'[j].req # q
                      /\ \A j \in 1..Len(reply') : reply'[j].kind = "res" => reply'[j].req # q
    BY DEF Asked
  <2>1. CASE i \in 1..Len(toNode)
    <3>1. toNode'[i] = toNode[i] /\ toNode[i].req \in pending /\ toNode[i].req # r /\ toNode[i].req \in Requests
      BY <1>8, <1>9, <2>1 DEF Asked, Types
    <3>2. \A j \in 1..Len(toNode) : toNode[j].kind = "req" /\ toNode[j].req = toNode[i].req => j = i
      BY <2>1, <3>1 DEF Asked
    <3>3. \A j \in 1..Len(toNode') : toNode'[j].kind = "req" /\ toNode'[j].req = toNode'[i].req => j = i
      BY <1>7, <1>8, <3>1, <3>2
    <3>4. /\ toNode[i].id = id[toNode[i].req] /\ handler[toNode[i].req] = "none"
          /\ \A j \in 1..Len(toHub) : toHub[j].kind = "res" => toHub[j].req # toNode[i].req
          /\ \A j \in 1..Len(reply) : reply[j].kind = "res" => reply[j].req # toNode[i].req
      BY <2>1, <3>1 DEF Asked
    <3> QED
      BY <1>1, <1>6, <3>1, <3>3, <3>4
  <2>2. CASE i = Len(toNode) + 1
    BY <1>1, <1>5, <1>6, <1>7, <1>8, <1>9, <2>2
  <2> QED
    BY <1>8, <2>1, <2>2
<1>15. CancelsFit'
  <2> SUFFICES ASSUME NEW j \in 1..Len(toNode'), toNode'[j].kind = "cancel"
               PROVE  /\ cancel'[toNode'[j].req] = "sent"
                      /\ \A s \in table' : id'[s] = toNode'[j].id => s = toNode'[j].req
                      /\ \A i \in 1..(j - 1) : toNode'[i].kind = "req" /\ toNode'[i].id = toNode'[j].id => toNode'[i].req = toNode'[j].req
    BY DEF CancelsFit
  <2>1. j \in 1..Len(toNode) /\ toNode'[j] = toNode[j] /\ \A i \in 1..(j - 1) : toNode'[i] = toNode[i]
    BY <1>7, <1>8
  <2>2. cancel[toNode[j].req] = "sent" /\ \A s \in table : id[s] = toNode[j].id => s = toNode[j].req
    BY <2>1 DEF CancelsFit
  <2>3. \A i \in 1..(j - 1) : toNode[i].kind = "req" /\ toNode[i].id = toNode[j].id => toNode[i].req = toNode[j].req
    BY <2>1 DEF CancelsFit
  <2>4. \A s \in table : s \in Requests \ {r}
    BY <1>5 DEF Types
  <2> QED
    BY <1>1, <1>6, <2>1, <2>2, <2>3, <2>4
<1>16. Replying'
  BY <1>1, <1>6, <1>9, FramesAre DEF Replying
<1>17. Answered'
  BY <1>1, <1>6, <1>9, FramesAre DEF Answered
<1>18. Emitted'
  <2>1. \A i \in 1..Len(toHub) : toHub[i].kind = "event" => id'[toHub[i].req] = id[toHub[i].req]
    BY <1>6, <1>9, FramesAre
  <2> QED
    BY <1>1, <2>1 DEF Emitted
<1>19. Uniquely'
  <2>1. \A i \in 1..Len(toHub) : toHub[i].kind \in {"res", "event"} => toHub[i].id = id[toHub[i].req] /\ toHub[i].req \in pending \cup table
    <3>1. \A i \in 1..Len(toHub) : toHub[i].kind = "res" => toHub[i].id = id[toHub[i].req] /\ toHub[i].req \in pending
      BY <1>3 DEF Answered
    <3>2. \A i \in 1..Len(toHub) : toHub[i].kind = "event" => toHub[i].id = id[toHub[i].req] /\ toHub[i].req \in pending \cup table
      BY <1>3, FramesAre DEF Emitted, Lives
    <3> QED
      BY <3>1, <3>2
  <2> QED
    BY <1>1, <1>4, <1>5, <1>6, <2>1 DEF Uniquely, Types
<1> QED
  BY <1>1, <1>10, <1>11, <1>12, <1>13, <1>14, <1>15, <1>16, <1>17, <1>18, <1>19, Kept

\* A caller gives up, or cancels its stream: the request keeps its slot, and
\* the cancel frame follows the request's own.
LEMMA CancelKeeps ==
  ASSUME RequestConstants, RequestInv, NEW r \in Requests,
         caller[r] = "waiting", ~Finished(r), cancel_request(r),
         caller' = caller \/ caller' = [caller EXCEPT ![r] = "returned"],
         odd' = odd \/ odd' = odd + 1,
         UNCHANGED <<link, next_id, id, ending, queue, got, lost, node, toHub>>
  PROVE  RequestInv'
<1> USE DEF RequestInv
<1>1. /\ UNCHANGED <<link, pending, next_id, id, ending, queue, got, lost, toHub>>
      /\ UNCHANGED <<table, handler, told, sent, reply>>
  BY DEF cancel_request, SlotsAfterCancel, node
<1>2. id[r] # 0 /\ id[r] \in 1..MaxId /\ r \in pending
  BY DEF Lives, Types, RequestConstants
<1>3. cancel' \in [Requests -> {"no", "sent"}] /\ (cancel[r] = "no" => cancel'[r] = "sent")
      /\ (\A s \in Requests : cancel[s] = "sent" => cancel'[s] = "sent")
      /\ (\A s \in Requests \ {r} : cancel'[s] = cancel[s])
  BY DEF Types, cancel_request
<1> DEFINE x == [kind |-> "cancel", req |-> r, id |-> id[r]]
<1>4. x \in DownFrame /\ x.kind = "cancel" /\ x.req = r /\ x.id = id[r]
  BY <1>2 DEF DownFrame
<1>5. toNode' = toNode \/ (toNode' = Append(toNode, x) /\ link = "up" /\ cancel'[r] = "sent")
  BY <1>3 DEF cancel_request
<1> HIDE DEF x
<1>6. caller' \in [Requests -> {"idle", "waiting", "returned"}] /\ caller'[r] # "idle"
      /\ \A s \in Requests : caller'[s] = "waiting" => caller[s] = "waiting"
  BY DEF Types
<1>7. \A s \in Requests : caller'[s] = "idle" => caller[s] = "idle" /\ s # r
  BY DEF Types
<1>8. toNode' \in Seq(DownFrame)
  <2>1. toNode \in Seq(DownFrame)
    BY DEF Types
  <2>2. Append(toNode, x) \in Seq(DownFrame)
    BY <1>4, <2>1, AppendIs
  <2> QED
    BY <1>5, <2>1, <2>2
<1>9. Types'
  BY <1>1, <1>3, <1>6, <1>8 DEF Types
<1>10. Limits'
  BY <1>1, <1>5 DEF Limits
<1>11. Lives'
  <2>1. \A s \in Requests : caller'[s] = "idle" => id'[s] = 0 /\ ~Finished(s)' /\ cancel'[s] = "no"
    BY <1>1, <1>3, <1>7 DEF Lives, Finished
  <2>2. \A s \in told : s \in Requests
    BY DEF Types
  <2>3. \A s \in Requests : caller'[s] = "waiting" => id'[s] # 0
    BY <1>1, <1>6 DEF Lives
  <2> QED
    BY <1>1, <1>3, <2>1, <2>2, <2>3 DEF Lives, Finished
<1>12. ASSUME toNode' = toNode PROVE Asked' /\ CancelsFit'
  <2>1. \A j \in 1..Len(toNode) : toNode[j].kind = "cancel" => cancel'[toNode[j].req] = "sent"
    BY <1>3, FramesAre DEF CancelsFit
  <2> QED
    BY <1>1, <1>12, <2>1, Kept DEF CancelsFit
<1>13. ASSUME toNode' = Append(toNode, x), cancel'[r] = "sent" PROVE Asked' /\ CancelsFit'
  <2>1. /\ Len(toNode') = Len(toNode) + 1 /\ Len(toNode) \in Nat
        /\ \A i \in 1..Len(toNode) : toNode'[i] = toNode[i]
        /\ toNode'[Len(toNode) + 1] = x
    BY <1>4, <1>13, AppendIs DEF Types
  <2>2. Asked'
    <3> SUFFICES ASSUME NEW i \in 1..Len(toNode'), toNode'[i].kind = "req"
                 PROVE  LET q == toNode'[i].req IN
                        /\ toNode'[i].id = id'[q] /\ q \in pending' /\ handler'[q] = "none"
                        /\ \A j \in 1..Len(toNode') : toNode'[j].kind = "req" /\ toNode'[j].req = q => j = i
                        /\ \A j \in 1..Len(toHub') : toHub'[j].kind = "res" => toHub'[j].req # q
                        /\ \A j \in 1..Len(reply') : reply'[j].kind = "res" => reply'[j].req # q
      BY DEF Asked
    <3>1. i \in 1..Len(toNode) /\ toNode'[i] = toNode[i]
      BY <1>4, <2>1
    <3>2. \A j \in 1..Len(toNode') : toNode'[j].kind = "req" /\ toNode'[j].req = toNode'[i].req => j = i
      <4>1. \A j \in 1..Len(toNode) : toNode[j].kind = "req" /\ toNode[j].req = toNode[i].req => j = i
        BY <3>1 DEF Asked
      <4>2. \A j \in 1..Len(toNode') : toNode'[j].kind = "req" => j \in 1..Len(toNode) /\ toNode'[j] = toNode[j]
        BY <1>4, <2>1
      <4> QED
        BY <3>1, <4>1, <4>2
    <3> QED
      BY <1>1, <3>1, <3>2 DEF Asked
  <2>3. CancelsFit'
    <3> SUFFICES ASSUME NEW j \in 1..Len(toNode'), toNode'[j].kind = "cancel"
                 PROVE  /\ cancel'[toNode'[j].req] = "sent"
                        /\ \A s \in table' : id'[s] = toNode'[j].id => s = toNode'[j].req
                        /\ \A i \in 1..(j - 1) : toNode'[i].kind = "req" /\ toNode'[i].id = toNode'[j].id => toNode'[i].req = toNode'[j].req
      BY DEF CancelsFit
    <3>1. CASE j \in 1..Len(toNode)
      <4>1. toNode'[j] = toNode[j] /\ (\A i \in 1..(j - 1) : toNode'[i] = toNode[i]) /\ toNode[j].req \in Requests
        BY <2>1, <3>1, FramesAre
      <4>2. /\ cancel[toNode[j].req] = "sent" /\ \A s \in table : id[s] = toNode[j].id => s = toNode[j].req
            /\ \A i \in 1..(j - 1) : toNode[i].kind = "req" /\ toNode[i].id = toNode[j].id => toNode[i].req = toNode[j].req
        BY <3>1, <4>1 DEF CancelsFit
      <4> QED
        BY <1>1, <1>3, <4>1, <4>2
    <3>2. CASE j = Len(toNode) + 1
      <4>1. toNode'[j] = x /\ \A i \in 1..(j - 1) : i \in 1..Len(toNode) /\ toNode'[i] = toNode[i]
        BY <2>1, <3>2
      <4>2. \A s \in table : id[s] = id[r] => s = r
        BY <1>2 DEF Distinct
      <4>3. \A i \in 1..Len(toNode) : toNode[i].kind = "req" /\ toNode[i].id = id[r] => toNode[i].req = r
        BY <1>2 DEF Asked, Distinct
      <4> QED
        BY <1>1, <1>4, <1>13, <4>1, <4>2, <4>3
    <3>3. j \in 1..Len(toNode) \/ j = Len(toNode) + 1
      BY <2>1
    <3> QED
      BY <3>1, <3>2, <3>3
  <2> QED
    BY <2>2, <2>3
<1>14. Whole'
  <2>1. \A s \in Requests : (Open(s)' => Open(s)) /\ (Full(s)' => Full(s)) /\ Have(s)' = Have(s)
    BY <1>1, <1>3 DEF Open, Full, Have, Finished, Types
  <2>2. NoGap'
    BY <1>1, <2>1 DEF Whole, NoGap, RequestConstants
  <2>3. Underway'
    BY <1>1, <2>1 DEF Whole, Underway, EventOf, RequestConstants
  <2>4. AllThere'
    BY <1>1, <2>1 DEF Whole, AllThere, RequestConstants
  <2> QED
    BY <2>2, <2>3, <2>4 DEF Whole
<1> QED
  BY <1>1, <1>5, <1>9, <1>10, <1>11, <1>12, <1>13, <1>14, Kept

LEMMA NextItemKeeps ==
  ASSUME RequestConstants, RequestInv, NEW r \in Requests, NextItem(r)
  PROVE  RequestInv'
<1> USE DEF RequestInv
<1>1. /\ r \in Streams /\ queue[r] # <<>> /\ Head(queue[r]) # End
      /\ got' = [got EXCEPT ![r] = Append(got[r], Head(queue[r]))]
      /\ queue' = [queue EXCEPT ![r] = Tail(queue[r])]
      /\ UNCHANGED <<link, pending, next_id, id, caller, ending, cancel, lost, toNode, toHub, odd>>
      /\ UNCHANGED <<table, handler, told, sent, reply>>
  BY DEF NextItem, node
<1>2. queue[r] \in Seq(0..MaxEvents) /\ got[r] \in Seq(1..MaxEvents) /\ queue[r][1] # End
  BY <1>1, TailIs DEF Types
<1> DEFINE h == queue[r][1]
<1>3. Head(queue[r]) = h /\ h \in 1..MaxEvents /\ 1 \in 1..Len(queue[r])
  BY <1>1, <1>2, TailIs DEF RequestConstants, End
<1> HIDE DEF h
<1> DEFINE m == Len(queue[r])
          k == Len(got[r])
<1>4. /\ queue'[r] \in Seq(0..MaxEvents) /\ Len(queue'[r]) = m - 1 /\ m \in Nat \ {0} /\ m - 1 \in Nat
      /\ \A i \in 1..(m - 1) : queue'[r][i] = queue[r][i + 1] /\ i + 1 \in 2..m /\ i + 1 \in 1..m
      /\ \A s \in Streams \ {r} : queue'[s] = queue[s]
      /\ queue' \in [Streams -> Seq(0..MaxEvents)]
  BY <1>1, <1>2, TailIs DEF Types
<1>5. /\ got'[r] \in Seq(1..MaxEvents) /\ Len(got'[r]) = k + 1 /\ k \in Nat
      /\ \A i \in 1..k : got'[r][i] = got[r][i]
      /\ got'[r][k + 1] = h
      /\ \A s \in Streams \ {r} : got'[s] = got[s]
      /\ got' \in [Streams -> Seq(1..MaxEvents)]
  BY <1>1, <1>2, <1>3, AppendIs DEF Types
<1>6. Types'
  BY <1>1, <1>4, <1>5 DEF Types
<1>7. Marked'
  <2> SUFFICES ASSUME NEW s \in Streams
               PROVE  /\ \A i \in 1..Len(queue'[s]) : queue'[s][i] = End => i = Len(queue'[s]) /\ Finished(s)
                      /\ Len(queue'[s]) <= MaxQueued + 1
                      /\ ~Finished(s) => Len(queue'[s]) <= MaxQueued
                      /\ ending[s].code = "ok" => queue'[s] # <<>> /\ queue'[s][Len(queue'[s])] = End
    BY <1>1 DEF Marked, Finished
  <2>1. CASE s # r
    BY <1>4, <2>1 DEF Marked
  <2>2. CASE s = r
    <3>1. /\ \A i \in 1..m : queue[r][i] = End => i = m /\ Finished(r)
          /\ m <= MaxQueued + 1 /\ (~Finished(r) => m <= MaxQueued) /\ MaxQueued \in Nat
          /\ ending[r].code = "ok" => queue[r][m] = End
      BY <1>1 DEF Marked, RequestConstants
    <3>2. ending[r].code = "ok" => m # 1
      BY <1>2, <3>1
    <3> HIDE DEF m
    <3>3. \A i \in 1..(m - 1) : queue'[r][i] = End => i = m - 1 /\ Finished(r)
      <4>1. \A i \in 1..(m - 1) : queue'[r][i] = End => i + 1 = m /\ Finished(r)
        BY <1>4, <3>1
      <4>2. \A i \in 1..(m - 1) : i + 1 = m => i = m - 1
        BY <1>4
      <4> QED
        BY <4>1, <4>2
    <3>4. m - 1 <= MaxQueued + 1 /\ (~Finished(r) => m - 1 <= MaxQueued)
      BY <1>4, <3>1
    <3>5. ASSUME ending[r].code = "ok" PROVE queue'[r] # <<>> /\ queue'[r][m - 1] = End
      <4>1. m # 1 /\ queue[r][m] = End /\ m \in Nat \ {0}
        BY <1>4, <3>1, <3>2, <3>5
      <4>2. m - 1 \in 1..(m - 1) /\ (m - 1) + 1 = m
        BY <4>1
      <4>3. queue'[r][m - 1] = End
        BY <1>4, <4>1, <4>2
      <4> QED
        BY <1>4, <4>1, <4>3
    <3> QED
      BY <1>4, <2>2, <3>3, <3>4, <3>5
  <2> QED
    BY <2>1, <2>2
<1>8. Ordered'
  <2> SUFFICES ASSUME NEW s \in Streams
               PROVE  /\ \A i, j \in 1..Len(got'[s]) : i < j => got'[s][i] < got'[s][j]
                      /\ \A i, j \in 1..Len(queue'[s]) : i < j /\ queue'[s][j] # End => queue'[s][i] < queue'[s][j]
                      /\ \A i, j \in 1..Len(toHub) : i < j /\ EventOf(s, i) /\ EventOf(s, j) => toHub[i].n < toHub[j].n
                      /\ \A i \in 1..Len(got'[s]), j \in 1..Len(queue'[s]) : queue'[s][j] # End => got'[s][i] < queue'[s][j]
                      /\ \A i \in 1..Len(got'[s]), j \in 1..Len(toHub) : EventOf(s, j) => got'[s][i] < toHub[j].n
                      /\ \A i \in 1..Len(queue'[s]), j \in 1..Len(toHub) : EventOf(s, j) => queue'[s][i] < toHub[j].n
                      /\ \A i \in 1..Len(got'[s]) : got'[s][i] <= sent[s]
                      /\ \A i \in 1..Len(queue'[s]) : queue'[s][i] <= sent[s]
    BY <1>1 DEF Ordered, EventOf
  <2>1. CASE s # r
    BY <1>4, <1>5, <2>1 DEF Ordered
  <2>2. CASE s = r
    <3>1. /\ \A i, j \in 1..k : i < j => got[r][i] < got[r][j]
          /\ \A i \in 1..k : got[r][i] < h /\ got[r][i] <= sent[r]
          /\ h <= sent[r]
      BY <1>1, <1>2, <1>3 DEF Ordered, h
    <3>2. \A j \in 2..m : queue[r][j] # End => h < queue[r][j] /\ \A i \in 1..k : got[r][i] < queue[r][j]
      BY <1>1, <1>2, <1>3, <1>4 DEF Ordered, h
    <3>3. \A j \in 1..Len(toHub) : EventOf(r, j) => h < toHub[j].n /\ \A i \in 1..k : got[r][i] < toHub[j].n
      BY <1>1, <1>3 DEF Ordered, h
    <3>4. \A i, j \in 2..m : i < j /\ queue[r][j] # End => queue[r][i] < queue[r][j]
      <4>1. \A i, j \in 1..m : i < j /\ queue[r][j] # End => queue[r][i] < queue[r][j]
        BY <1>1 DEF Ordered
      <4> HIDE DEF m
      <4>2. \A i \in 2..m : i \in 1..m
        BY <1>4
      <4> QED
        BY <4>1, <4>2
    <3>5. \A i \in 2..m, j \in 1..Len(toHub) : EventOf(r, j) => queue[r][i] < toHub[j].n
      BY <1>1, <1>4 DEF Ordered
    <3>6. \A i \in 2..m : queue[r][i] <= sent[r]
      BY <1>1, <1>4 DEF Ordered
    <3>7. \A i, j \in 1..Len(toHub) : i < j /\ EventOf(r, i) /\ EventOf(r, j) => toHub[i].n < toHub[j].n
      BY <1>1 DEF Ordered
    <3> HIDE DEF m, k
    <3>8. \A i \in 1..(k + 1) : i \in 1..k \/ (i = k + 1 /\ got'[r][i] = h /\ \A j \in 1..k : j < i)
      BY <1>5
    <3>9. \A i, j \in 1..(k + 1) : i < j => i \in 1..k
      BY <1>5
    <3>10. \A i, j \in 1..(k + 1) : i < j => got'[r][i] < got'[r][j]
      BY <1>5, <3>1, <3>8, <3>9
    <3>11. \A i \in 1..(k + 1) : got'[r][i] <= sent[r]
      BY <1>5, <3>1, <3>8
    <3>12. \A i \in 1..(k + 1), j \in 2..m : queue[r][j] # End => got'[r][i] < queue[r][j]
      BY <1>5, <3>2, <3>8
    <3>13. \A i \in 1..(k + 1), j \in 1..Len(toHub) : EventOf(r, j) => got'[r][i] < toHub[j].n
      BY <1>5, <3>3, <3>8
    <3>14. \A i, j \in 1..(m - 1) : i < j => i + 1 < j + 1
      BY <1>4
    <3>15. \A i, j \in 1..(m - 1) : i < j /\ queue'[r][j] # End => queue'[r][i] < queue'[r][j]
      BY <1>4, <3>4, <3>14
    <3>16. \A i \in 1..(m - 1), j \in 1..Len(toHub) : EventOf(r, j) => queue'[r][i] < toHub[j].n
      BY <1>4, <3>5
    <3>17. \A i \in 1..(m - 1) : queue'[r][i] <= sent[r]
      BY <1>4, <3>6
    <3>18. \A i \in 1..(k + 1), j \in 1..(m - 1) : queue'[r][j] # End => got'[r][i] < queue'[r][j]
      BY <1>4, <3>12
    <3> QED
      BY <1>4, <1>5, <2>2, <3>7, <3>10, <3>11, <3>13, <3>15, <3>16, <3>17, <3>18
  <2> QED
    BY <2>1, <2>2
<1>9. Whole'
  <2>1. \A s \in Streams : Open(s)' = Open(s) /\ Full(s)' = Full(s) /\ Have(s)' = Have(s)
    <3>1. \A s \in Streams : Open(s)' = Open(s) /\ Full(s)' = Full(s)
      BY <1>1 DEF Open, Full, Finished
    <3>2. \A s \in Streams \ {r} : Have(s)' = Have(s)
      BY <1>4, <1>5 DEF Have
    <3>3. k + 1 + (m - 1) = k + m
      <4> HIDE DEF m, k
      <4> QED
        BY <1>4, <1>5
    <3>4. Have(r)' = Have(r)
      BY <1>4, <1>5, <3>3 DEF Have
    <3> QED
      BY <3>1, <3>2, <3>4
  <2>2. NoGap'
    <3> SUFFICES ASSUME NEW s \in Streams, Open(s) \/ (Full(s) /\ ending[s].code = "ok")
                 PROVE  /\ \A i \in 1..Len(got'[s]) : got'[s][i] = i
                        /\ \A j \in 1..Len(queue'[s]) : queue'[s][j] # End => queue'[s][j] = Len(got'[s]) + j
      BY <1>1, <2>1 DEF NoGap
    <3>1. /\ \A i \in 1..Len(got[s]) : got[s][i] = i
          /\ \A j \in 1..Len(queue[s]) : queue[s][j] # End => queue[s][j] = Len(got[s]) + j
      BY DEF Whole, NoGap
    <3>2. CASE s # r
      BY <1>4, <1>5, <3>1, <3>2
    <3>3. CASE s = r
      <4>1. h = k + 1 /\ (\A i \in 1..k : got[r][i] = i) /\ \A j \in 1..m : queue[r][j] # End => queue[r][j] = k + j
        BY <1>2, <1>3, <3>1, <3>3 DEF h
      <4> HIDE DEF m, k
      <4>2. \A i \in 1..(k + 1) : got'[r][i] = i
        BY <1>5, <4>1
      <4>3. \A j \in 1..(m - 1) : queue'[r][j] # End => queue'[r][j] = k + (j + 1)
        BY <1>4, <4>1
      <4>4. \A j \in 1..(m - 1) : k + (j + 1) = (k + 1) + j
        BY <1>4, <1>5
      <4> QED
        BY <1>4, <1>5, <3>3, <4>2, <4>3, <4>4
    <3> QED
      BY <3>2, <3>3
  <2>3. Underway'
    BY <1>1, <2>1 DEF Whole, Underway, EventOf
  <2>4. AllThere'
    BY <1>1, <2>1 DEF Whole, AllThere
  <2> QED
    BY <2>2, <2>3, <2>4 DEF Whole
<1> QED
  BY <1>1, <1>6, <1>7, <1>8, <1>9, Kept

LEMMA ReturnKeeps ==
  ASSUME RequestConstants, RequestInv, NEW r \in Requests, Return(r)
  PROVE  RequestInv'
<1> USE DEF RequestInv
<1>1. /\ caller[r] = "waiting" /\ caller' = [caller EXCEPT ![r] = "returned"]
      /\ UNCHANGED <<link, pending, next_id, id, ending, cancel, queue, got, lost, toNode, toHub, odd>>
      /\ UNCHANGED <<table, handler, told, sent, reply>>
  BY DEF Return, node
<1>2. caller' \in [Requests -> {"idle", "waiting", "returned"}] /\ caller'[r] = "returned"
      /\ \A s \in Requests \ {r} : caller'[s] = caller[s]
  BY <1>1 DEF Types
<1>3. Types'
  BY <1>1, <1>2 DEF Types
<1>4. Lives'
  <2>1. \A s \in Requests : (caller'[s] = "idle" => caller[s] = "idle") /\ (caller'[s] = "waiting" => caller[s] = "waiting")
    BY <1>2
  <2> QED
    BY <1>1, <2>1 DEF Lives, Finished
<1> QED
  BY <1>1, <1>3, <1>4, Kept

\* A frame to the node that is neither a request nor a cancel.
LEMMA PingKeeps ==
  ASSUME RequestConstants, RequestInv, Ping
  PROVE  RequestInv'
<1> USE DEF RequestInv
<1> DEFINE x == [kind |-> "ping"]
<1>1. /\ link = "up" /\ odd' = odd + 1 /\ toNode' = Append(toNode, x)
      /\ UNCHANGED <<link, pending, next_id, id, caller, ending, cancel, queue, got, lost, toHub>>
      /\ UNCHANGED <<table, handler, told, sent, reply>>
  BY DEF Ping, Odd, Bare, hub, node
<1>2. x \in DownFrame /\ x.kind = "ping"
  BY DEF DownFrame
<1> HIDE DEF x
<1>3. /\ Len(toNode') = Len(toNode) + 1 /\ Len(toNode) \in Nat /\ toNode' \in Seq(DownFrame)
      /\ \A i \in 1..Len(toNode) : toNode'[i] = toNode[i]
      /\ toNode'[Len(toNode) + 1] = x
  BY <1>1, <1>2, AppendIs DEF Types
<1>4. Types'
  BY <1>1, <1>3 DEF Types
<1>5. Limits'
  BY <1>1 DEF Limits
<1>6. \A i \in 1..Len(toNode') : toNode'[i].kind \in {"req", "cancel"} => i \in 1..Len(toNode) /\ toNode'[i] = toNode[i]
  BY <1>2, <1>3
<1>7. Asked'
  BY <1>1, <1>6 DEF Asked
<1>8. CancelsFit'
  BY <1>1, <1>3, <1>6 DEF CancelsFit
<1> QED
  BY <1>1, <1>4, <1>5, <1>7, <1>8, Kept

-----------------------------------------------------------------------------
(* The hub's reader and its watchdog.                                      *)

\* The hub takes the first frame off the wire, and with it at most the entry of
\* the request it answers.
LEMMA FrameTaken ==
  ASSUME RequestConstants, RequestInv, toHub # <<>>, toHub' = Tail(toHub),
         NEW S \in SUBSET pending, pending' = pending \ S,
         S = {} \/ (toHub[1].kind = "res" /\ S \subseteq {toHub[1].req}),
         UNCHANGED <<link, id, cancel, table, handler, sent, reply, toNode>>
  PROVE  /\ toHub' \in Seq(ResFrame \cup EventFrame \cup BareFrame)
         /\ Limits' /\ Distinct' /\ Asked' /\ CancelsFit' /\ Replying' /\ Answered' /\ Emitted' /\ Uniquely'
<1> USE DEF RequestInv
<1> DEFINE n == Len(toHub)
<1>1. /\ toHub' \in Seq(ResFrame \cup EventFrame \cup BareFrame) /\ Len(toHub') = n - 1 /\ n \in Nat \ {0}
      /\ \A i \in 1..(n - 1) : toHub'[i] = toHub[i + 1] /\ i + 1 \in 1..n /\ i + 1 # 1
      /\ 1 \in 1..n
  <2>1. toHub \in Seq(ResFrame \cup EventFrame \cup BareFrame)
    BY DEF Types
  <2> QED
    BY <2>1, TailIs
<1>2. \A i \in 1..n : toHub[i].kind \in {"res", "event"} => toHub[i].req \in Requests
  BY FramesAre
<1> HIDE DEF n
<1>3. Limits'
  <2>1. IsFiniteSet(pending) /\ pending' \subseteq pending
    BY FS_Subset DEF Types, RequestConstants
  <2>2. Cardinality(pending') <= Cardinality(pending) /\ Cardinality(pending) <= HubInflight
    BY <2>1, FS_Subset DEF Limits
  <2>3. Cardinality(pending') \in Nat /\ Cardinality(pending) \in Nat /\ HubInflight \in Nat
    BY <2>1, FS_Subset, FS_CardinalityType DEF RequestConstants
  <2>4. n <= QueueMax /\ QueueMax \in Nat
    BY DEF Limits, RequestConstants, n
  <2> DEFINE a == Cardinality(pending')
             b == Cardinality(pending)
  <2>5. Cardinality(pending') <= HubInflight
    <3>1. a <= b /\ b <= HubInflight /\ a \in Nat /\ b \in Nat /\ HubInflight \in Nat
      BY <2>2, <2>3
    <3> HIDE DEF a, b
    <3>2. a <= HubInflight
      BY <3>1
    <3> QED
      BY <3>2 DEF a
  <2>6. link # "down"
    BY DEF Limits
  <2>7. Len(toHub') <= QueueMax
    BY <1>1, <2>4
  <2> QED
    BY <2>5, <2>6, <2>7 DEF Limits
<1>4. Distinct'
  BY DEF Distinct
<1>5. Asked'
  <2> SUFFICES ASSUME NEW i \in 1..Len(toNode), toNode[i].kind = "req"
               PROVE  LET q == toNode[i].req IN
                      /\ toNode[i].id = id[q] /\ q \in pending' /\ handler[q] = "none"
                      /\ \A j \in 1..Len(toNode) : toNode[j].kind = "req" /\ toNode[j].req = q => j = i
                      /\ \A j \in 1..(n - 1) : toHub'[j].kind = "res" => toHub'[j].req # q
                      /\ \A j \in 1..Len(reply) : reply[j].kind = "res" => reply[j].req # q
    BY <1>1 DEF Asked
  <2> DEFINE q == toNode[i].req
  <2>1. /\ toNode[i].id = id[q] /\ q \in pending /\ handler[q] = "none"
        /\ \A j \in 1..Len(toNode) : toNode[j].kind = "req" /\ toNode[j].req = q => j = i
        /\ \A j \in 1..Len(reply) : reply[j].kind = "res" => reply[j].req # q
    BY DEF Asked
  <2>2. \A j \in 1..n : toHub[j].kind = "res" => toHub[j].req # q
    BY DEF Asked, n
  <2> HIDE DEF q
  <2>3. q \in pending'
    BY <1>1, <2>1, <2>2
  <2>4. \A j \in 1..(n - 1) : toHub'[j].kind = "res" => toHub'[j].req # q
    BY <1>1, <2>2
  <2> QED
    BY <2>1, <2>3, <2>4 DEF q
<1>6. CancelsFit'
  BY Kept
<1>7. Replying'
  <2> SUFFICES ASSUME link = "up", NEW i \in 1..Len(reply), reply[i].kind = "res"
               PROVE  LET q == reply[i].req IN
                      /\ reply[i].id = id[q] /\ q \in pending' /\ handler[q] = "none" /\ reply[i].code \in {"refused", "busy"}
                      /\ \A j \in 1..(n - 1) : toHub'[j].kind = "res" => toHub'[j].req # q
    BY <1>1 DEF Replying
  <2> DEFINE q == reply[i].req
  <2>1. reply[i].id = id[q] /\ q \in pending /\ handler[q] = "none" /\ reply[i].code \in {"refused", "busy"}
    BY DEF Replying
  <2>2. \A j \in 1..n : toHub[j].kind = "res" => toHub[j].req # q
    BY DEF Replying, n
  <2> HIDE DEF q
  <2>3. q \in pending'
    BY <1>1, <2>1, <2>2
  <2>4. \A j \in 1..(n - 1) : toHub'[j].kind = "res" => toHub'[j].req # q
    BY <1>1, <2>2
  <2> QED
    BY <2>1, <2>3, <2>4 DEF q
<1>8. Answered'
  <2> SUFFICES ASSUME NEW i \in 1..(n - 1), toHub'[i].kind = "res"
               PROVE  LET q == toHub'[i].req IN
                      /\ toHub'[i].id = id[q] /\ id[q] # 0 /\ handler[q] \in {"none", "answered", "gone"}
                      /\ toHub'[i].code = "ok" => handler[q] \in {"answered", "gone"}
                      /\ \A j \in (i + 1)..(n - 1) : toHub'[j].kind \in {"res", "event"} => toHub'[j].req # q
    BY <1>1 DEF Answered
  <2>1. toHub'[i] = toHub[i + 1] /\ i + 1 \in 1..n
    BY <1>1
  <2>2. LET q == toHub[i + 1].req IN
        /\ toHub[i + 1].id = id[q] /\ id[q] # 0 /\ handler[q] \in {"none", "answered", "gone"}
        /\ toHub[i + 1].code = "ok" => handler[q] \in {"answered", "gone"}
        /\ \A j \in (i + 1 + 1)..n : toHub[j].kind \in {"res", "event"} => toHub[j].req # q
    BY <2>1 DEF Answered, n
  <2>3. \A j \in (i + 1)..(n - 1) : j \in 1..(n - 1) /\ j + 1 \in (i + 1 + 1)..n
    BY <1>1
  <2> QED
    BY <1>1, <2>1, <2>2, <2>3
<1>9. Emitted'
  <2> SUFFICES ASSUME NEW i \in 1..(n - 1), toHub'[i].kind = "event"
               PROVE  LET q == toHub'[i].req IN
                      /\ toHub'[i].id = id[q] /\ id[q] # 0 /\ toHub'[i].n <= sent[q] /\ handler[q] # "none"
                      /\ \/ handler[q] \in {"running", "hung"}
                         \/ \E j \in 1..(n - 1) : toHub'[j].kind = "res" /\ toHub'[j].req = q
    BY <1>1 DEF Emitted
  <2> DEFINE q == toHub[i + 1].req
  <2>1. toHub'[i] = toHub[i + 1] /\ i + 1 \in 1..n /\ i + 1 \in 2..n
    BY <1>1
  <2>2. /\ toHub[i + 1].id = id[q] /\ id[q] # 0 /\ toHub[i + 1].n <= sent[q] /\ handler[q] # "none"
        /\ \/ handler[q] \in {"running", "hung"}
           \/ \E j \in 1..n : toHub[j].kind = "res" /\ toHub[j].req = q
    BY <2>1 DEF Emitted, n
  <2>3. toHub[1].kind = "res" => toHub[1].req # q
    <3>1. ASSUME toHub[1].kind = "res"
          PROVE  \A j \in 2..n : toHub[j].kind \in {"res", "event"} => toHub[j].req # toHub[1].req
      BY <1>1, <3>1 DEF Answered, n
    <3> QED
      BY <2>1, <3>1
  <2> HIDE DEF q
  <2>4. ASSUME NEW j \in 1..n, toHub[j].kind = "res", toHub[j].req = q
        PROVE  \E k \in 1..(n - 1) : toHub'[k].kind = "res" /\ toHub'[k].req = q
    <3>1. j - 1 \in 1..(n - 1) /\ (j - 1) + 1 = j
      BY <1>1, <2>3, <2>4
    <3> QED
      BY <1>1, <2>4, <3>1
  <2> QED
    BY <2>1, <2>2, <2>4 DEF q
<1>10. Uniquely'
  <2> SUFFICES ASSUME NEW i \in 1..(n - 1), toHub'[i].kind \in {"res", "event"}, NEW s \in pending', id[s] = toHub'[i].id
               PROVE  s = toHub'[i].req
    BY <1>1 DEF Uniquely
  <2>1. toHub'[i] = toHub[i + 1] /\ i + 1 \in 1..n /\ s \in pending
    BY <1>1
  <2> QED
    BY <2>1 DEF Uniquely, n
<1> QED
  BY <1>1, <1>3, <1>4, <1>5, <1>6, <1>7, <1>8, <1>9, <1>10

\* Requests of which the hub waits for the answer end, all with one code: what is
\* queued for the consumer of a stream stays before the end marker.
LEMMA Finishing ==
  ASSUME RequestConstants, RequestInv, NEW S \in SUBSET pending, NEW c \in Codes, NEW d \in {0, 1},
         pending' = pending \ S,
         ending' = [r \in Requests |-> IF r \in S THEN [code |-> c, from |-> r] ELSE ending[r]],
         queue' = [r \in Streams |-> IF r \in S THEN Append(queue[r], End) ELSE queue[r]],
         link' \in {link, "down"}, link' = "down" /\ link = "up" => S = pending,
         UNCHANGED <<id, caller, cancel, got, lost, table, handler, told, sent>>,
         Len(toHub') \in Nat,
         \A j \in 1..Len(toHub') : j + d \in 1..Len(toHub) /\ toHub'[j] = toHub[j + d],
         link' = "up" => \A i \in 1..Len(toHub) : toHub[i].kind = "event" => i - d \in 1..Len(toHub'),
         \A r \in S : handler[r] \in {"running", "hung"} => link' = "down" \/ (cancel[r] = "sent" /\ c = "unavailable"),
         c = "ok" => \A r \in S : /\ handler[r] \in {"answered", "gone"}
                                  /\ \A i \in 1..Len(toHub) : ~EventOf(r, i)
  PROVE  /\ ending' \in [Requests -> [code : Codes \cup {"none"}, from : Requests]]
         /\ queue' \in [Streams -> Seq(0..MaxEvents)]
         /\ Lives' /\ Marked' /\ Ordered' /\ Whole'
<1> USE DEF RequestInv
<1>1. /\ \A r \in S : r \in Requests /\ id[r] # 0 /\ ~Finished(r)
      /\ link = "down" => S = {}
      /\ \A r \in Streams : r \in Requests
  BY DEF Lives, Limits, Types, RequestConstants
<1>2. /\ ending' \in [Requests -> [code : Codes \cup {"none"}, from : Requests]]
      /\ \A r \in S : ending'[r].code = c /\ ending'[r].from = r
      /\ \A r \in Requests \ S : ending'[r] = ending[r]
  BY <1>1 DEF Types
<1>3. \A r \in Requests : Finished(r)' <=> Finished(r) \/ r \in S
  BY <1>2 DEF Finished, Codes
<1>4. /\ queue' \in [Streams -> Seq(0..MaxEvents)]
      /\ \A r \in Streams : r \in S => Len(queue'[r]) = Len(queue[r]) + 1 /\ queue'[r][Len(queue[r]) + 1] = End
      /\ \A r \in Streams : \A i \in 1..Len(queue[r]) : queue'[r][i] = queue[r][i]
      /\ \A r \in Streams : r \notin S => queue'[r] = queue[r]
      /\ \A r \in Streams : Len(queue[r]) \in Nat
  <2>1. \A r \in Streams : queue[r] \in Seq(0..MaxEvents) /\ End \in 0..MaxEvents
    BY DEF Types, End, RequestConstants
  <2>2. \A r \in Streams :
          /\ Append(queue[r], End) \in Seq(0..MaxEvents) /\ Len(Append(queue[r], End)) = Len(queue[r]) + 1 /\ Len(queue[r]) \in Nat
          /\ \A i \in 1..Len(queue[r]) : Append(queue[r], End)[i] = queue[r][i]
          /\ Append(queue[r], End)[Len(queue[r]) + 1] = End
    BY <2>1, AppendIs
  <2> QED
    BY <2>1, <2>2
<1>5. Lives'
  <2>1. /\ \A r \in Requests : caller'[r] = "idle" => id'[r] = 0 /\ ~Finished(r)' /\ cancel'[r] = "no"
        /\ \A r \in Requests : caller'[r] = "waiting" => id'[r] # 0
    BY <1>1, <1>3 DEF Lives
  <2>2. \A r \in Requests : r \in pending' <=> id'[r] # 0 /\ ~Finished(r)'
    BY <1>1, <1>3 DEF Lives
  <2>3. \A r \in Requests : ending'[r].from = r /\ (ending'[r].code = "ok" => handler'[r] \in {"answered", "gone"})
    BY <1>1, <1>2 DEF Lives
  <2>4. \A r \in told : cancel[r] = "sent" \/ link' = "down"
    BY DEF Lives
  <2>5. ASSUME NEW r \in Requests, handler[r] \in {"running", "hung"}
        PROVE  r \in pending' \/ link' = "down" \/ (cancel[r] = "sent" /\ ending'[r].code = "unavailable")
    <3>1. CASE r \in S
      BY <1>2, <2>5, <3>1
    <3>2. CASE r \notin S
      BY <1>2, <2>5, <3>2 DEF Lives
    <3> QED
      BY <3>1, <3>2
  <2> QED
    BY <2>1, <2>2, <2>3, <2>4, <2>5 DEF Lives
<1>6. Marked'
  <2> SUFFICES ASSUME NEW r \in Streams
               PROVE  /\ \A i \in 1..Len(queue'[r]) : queue'[r][i] = End => i = Len(queue'[r]) /\ Finished(r)'
                      /\ Len(queue'[r]) <= MaxQueued + 1
                      /\ ~Finished(r)' => Len(queue'[r]) <= MaxQueued
                      /\ ending'[r].code = "ok" => queue'[r] # <<>> /\ queue'[r][Len(queue'[r])] = End
    BY DEF Marked
  <2>1. CASE r \notin S
    BY <1>1, <1>2, <1>3, <1>4, <2>1 DEF Marked
  <2>2. CASE r \in S
    <3> DEFINE m == Len(queue[r])
    <3>1. (\A i \in 1..m : queue[r][i] # End) /\ m <= MaxQueued /\ MaxQueued \in Nat
      BY <1>1, <2>2 DEF Marked, RequestConstants
    <3>2. Len(queue'[r]) = m + 1 /\ queue'[r][m + 1] = End /\ m \in Nat /\ \A i \in 1..m : queue'[r][i] = queue[r][i]
      BY <1>4, <2>2
    <3> HIDE DEF m
    <3>3. \A i \in 1..(m + 1) : i \in 1..m \/ i = m + 1
      BY <3>2
    <3>4. m + 1 <= MaxQueued + 1
      BY <3>1, <3>2
    <3>5. queue'[r] # <<>>
      BY <3>2
    <3> QED
      BY <1>1, <1>3, <2>2, <3>1, <3>2, <3>3, <3>4, <3>5
  <2> QED
    BY <2>1, <2>2
<1>7. Ordered'
  <2> SUFFICES ASSUME NEW r \in Streams
               PROVE  /\ \A i, j \in 1..Len(got[r]) : i < j => got[r][i] < got[r][j]
                      /\ \A i, j \in 1..Len(queue'[r]) : i < j /\ queue'[r][j] # End => queue'[r][i] < queue'[r][j]
                      /\ \A i, j \in 1..Len(toHub') : i < j /\ EventOf(r, i)' /\ EventOf(r, j)' => toHub'[i].n < toHub'[j].n
                      /\ \A i \in 1..Len(got[r]), j \in 1..Len(queue'[r]) : queue'[r][j] # End => got[r][i] < queue'[r][j]
                      /\ \A i \in 1..Len(got[r]), j \in 1..Len(toHub') : EventOf(r, j)' => got[r][i] < toHub'[j].n
                      /\ \A i \in 1..Len(queue'[r]), j \in 1..Len(toHub') : EventOf(r, j)' => queue'[r][i] < toHub'[j].n
                      /\ \A i \in 1..Len(got[r]) : got[r][i] <= sent[r]
                      /\ \A i \in 1..Len(queue'[r]) : queue'[r][i] <= sent[r]
    BY DEF Ordered
  <2> DEFINE m == Len(queue[r])
             n == Len(toHub)
  <2>1. /\ \A i, j \in 1..Len(got[r]) : i < j => got[r][i] < got[r][j]
        /\ \A i \in 1..Len(got[r]) : got[r][i] <= sent[r]
        /\ \A i \in 1..m : queue[r][i] <= sent[r]
    BY DEF Ordered
  <2>2. \A i, j \in 1..m : i < j /\ queue[r][j] # End => queue[r][i] < queue[r][j]
    BY DEF Ordered
  <2>3. \A i, j \in 1..n : i < j /\ EventOf(r, i) /\ EventOf(r, j) => toHub[i].n < toHub[j].n
    BY DEF Ordered
  <2>4. /\ \A i \in 1..Len(got[r]), j \in 1..m : queue[r][j] # End => got[r][i] < queue[r][j]
        /\ \A i \in 1..Len(got[r]), j \in 1..n : EventOf(r, j) => got[r][i] < toHub[j].n
        /\ \A i \in 1..m, j \in 1..n : EventOf(r, j) => queue[r][i] < toHub[j].n
    BY DEF Ordered
  <2>5. \A i \in 1..Len(queue'[r]) : (i \in 1..m /\ queue'[r][i] = queue[r][i]) \/ (i = m + 1 /\ queue'[r][i] = End)
    BY <1>4
  <2>6. \A j \in 1..Len(toHub') : /\ j + d \in 1..n /\ toHub'[j] = toHub[j + d]
                                  /\ EventOf(r, j)' => EventOf(r, j + d)
    BY DEF EventOf
  <2>7. m \in Nat /\ sent[r] \in Nat /\ \A j \in 1..n : EventOf(r, j) => toHub[j].n \in Nat /\ 0 < toHub[j].n
    <3>1. m \in Nat /\ sent[r] \in Nat
      BY <1>1, <1>4 DEF Types, RequestConstants
    <3>2. \A j \in 1..n : EventOf(r, j) => toHub[j].n \in 1..MaxEvents
      BY FramesAre DEF EventOf
    <3> QED
      BY <3>1, <3>2 DEF RequestConstants
  <2> HIDE DEF m, n
  <2>8. \A i, j \in 1..Len(queue'[r]) : i < j /\ queue'[r][j] # End => queue'[r][i] < queue'[r][j]
    <3> SUFFICES ASSUME NEW i \in 1..Len(queue'[r]), NEW j \in 1..Len(queue'[r]), i < j, queue'[r][j] # End
                 PROVE  queue'[r][i] < queue'[r][j]
      OBVIOUS
    <3>1. j \in 1..m /\ queue'[r][j] = queue[r][j]
      BY <2>5
    <3>2. i \in 1..m /\ queue'[r][i] = queue[r][i]
      BY <2>5, <2>7, <3>1
    <3> QED
      BY <2>2, <3>1, <3>2
  <2>9. \A i, j \in 1..Len(toHub') : i < j /\ EventOf(r, i)' /\ EventOf(r, j)' => toHub'[i].n < toHub'[j].n
    <3> SUFFICES ASSUME NEW i \in 1..Len(toHub'), NEW j \in 1..Len(toHub'), i < j, EventOf(r, i)', EventOf(r, j)'
                 PROVE  toHub'[i].n < toHub'[j].n
      OBVIOUS
    <3>1. i + d < j + d
      OBVIOUS
    <3> QED
      BY <2>3, <2>6, <3>1
  <2>10. \A i \in 1..Len(got[r]), j \in 1..Len(queue'[r]) : queue'[r][j] # End => got[r][i] < queue'[r][j]
    BY <2>4, <2>5
  <2>11. \A i \in 1..Len(got[r]), j \in 1..Len(toHub') : EventOf(r, j)' => got[r][i] < toHub'[j].n
    BY <2>4, <2>6
  <2>12. \A i \in 1..Len(queue'[r]), j \in 1..Len(toHub') : EventOf(r, j)' => queue'[r][i] < toHub'[j].n
    <3> SUFFICES ASSUME NEW i \in 1..Len(queue'[r]), NEW j \in 1..Len(toHub'), EventOf(r, j)'
                 PROVE  queue'[r][i] < toHub'[j].n
      OBVIOUS
    <3>1. j + d \in 1..n /\ toHub'[j] = toHub[j + d] /\ EventOf(r, j + d)
      BY <2>6
    <3>2. 0 < toHub[j + d].n
      BY <2>7, <3>1
    <3> QED
      BY <2>4, <2>5, <3>1, <3>2 DEF End
  <2>13. \A i \in 1..Len(queue'[r]) : queue'[r][i] <= sent[r]
    BY <2>1, <2>5, <2>7 DEF End
  <2> QED
    BY <2>1, <2>8, <2>9, <2>10, <2>11, <2>12, <2>13
<1>8. Whole'
  <2>1. \A r \in Streams : Full(r)' = Full(r) /\ (Open(r)' => Open(r) /\ r \notin S /\ link' = "up")
    BY <1>1, <1>3 DEF Open, Full
  <2>2. \A r \in Streams : r \notin S => Have(r)' = Have(r) /\ queue'[r] = queue[r] /\ ending'[r] = ending[r]
    BY <1>1, <1>2, <1>4 DEF Have
  <2>3. \A r \in Streams : r \in S /\ Full(r) => Open(r)
    BY <1>1 DEF Open, Limits, Types
  <2>4. NoGap'
    <3> SUFFICES ASSUME NEW r \in Streams, Open(r)' \/ (Full(r)' /\ ending'[r].code = "ok")
                 PROVE  /\ \A i \in 1..Len(got[r]) : got[r][i] = i
                        /\ \A j \in 1..Len(queue'[r]) : queue'[r][j] # End => queue'[r][j] = Len(got[r]) + j
      BY DEF NoGap
    <3>1. Open(r) \/ (Full(r) /\ ending[r].code = "ok")
      BY <2>1, <2>2, <2>3
    <3>2. /\ \A i \in 1..Len(got[r]) : got[r][i] = i
          /\ \A j \in 1..Len(queue[r]) : queue[r][j] # End => queue[r][j] = Len(got[r]) + j
      BY <3>1 DEF Whole, NoGap
    <3>3. \A j \in 1..Len(queue'[r]) : queue'[r][j] # End => j \in 1..Len(queue[r]) /\ queue'[r][j] = queue[r][j]
      BY <1>4
    <3> QED
      BY <3>2, <3>3
  <2>5. Underway'
    <3> SUFFICES ASSUME NEW r \in Streams, Open(r)'
                 PROVE  /\ Have(r)' <= sent[r]
                        /\ \A i \in 1..Len(toHub') : EventOf(r, i)' => toHub'[i].n > Have(r)'
                        /\ \A n \in (Have(r)' + 1)..sent[r] : \E i \in 1..Len(toHub') : EventOf(r, i)' /\ toHub'[i].n = n
      BY DEF Underway
    <3>1. /\ Have(r) <= sent[r]
          /\ \A i \in 1..Len(toHub) : EventOf(r, i) => toHub[i].n > Have(r)
          /\ \A n \in (Have(r) + 1)..sent[r] : \E i \in 1..Len(toHub) : EventOf(r, i) /\ toHub[i].n = n
      BY <2>1 DEF Whole, Underway
    <3>2. Have(r)' = Have(r) /\ link' = "up"
      BY <2>1, <2>2
    <3>3. \A i \in 1..Len(toHub') : EventOf(r, i)' => i + d \in 1..Len(toHub) /\ EventOf(r, i + d) /\ toHub'[i] = toHub[i + d]
      BY DEF EventOf
    <3>4. \A i \in 1..Len(toHub) : EventOf(r, i) => /\ i - d \in 1..Len(toHub') /\ (i - d) + d = i
                                                    /\ EventOf(r, i - d)' /\ toHub'[i - d] = toHub[i]
      <4> SUFFICES ASSUME NEW i \in 1..Len(toHub), EventOf(r, i)
                   PROVE  /\ i - d \in 1..Len(toHub') /\ (i - d) + d = i
                          /\ EventOf(r, i - d)' /\ toHub'[i - d] = toHub[i]
        OBVIOUS
      <4>1. i - d \in 1..Len(toHub')
        BY <3>2 DEF EventOf
      <4>2. (i - d) + d = i
        OBVIOUS
      <4>3. toHub'[i - d] = toHub[(i - d) + d]
        BY <4>1
      <4> QED
        BY <4>1, <4>2, <4>3 DEF EventOf
    <3>5. \A i \in 1..Len(toHub') : EventOf(r, i)' => toHub'[i].n > Have(r)'
      BY <3>1, <3>2, <3>3
    <3>6. ASSUME NEW n \in (Have(r)' + 1)..sent[r]
          PROVE  \E i \in 1..Len(toHub') : EventOf(r, i)' /\ toHub'[i].n = n
      <4>1. PICK i \in 1..Len(toHub) : EventOf(r, i) /\ toHub[i].n = n
        BY <3>1, <3>2
      <4> QED
        BY <3>4, <4>1
    <3> QED
      BY <3>1, <3>2, <3>5, <3>6
  <2>6. AllThere'
    <3> SUFFICES ASSUME NEW r \in Streams, Full(r)', ending'[r].code = "ok"
                 PROVE  Have(r)' = sent[r] + 1
      BY DEF AllThere
    <3>1. CASE r \notin S
      BY <2>1, <2>2, <3>1 DEF Whole, AllThere
    <3>2. CASE r \in S
      <4>1. c = "ok" /\ Open(r)
        BY <1>2, <2>1, <2>3, <3>2
      <4>2. /\ Have(r) <= sent[r]
            /\ \A n \in (Have(r) + 1)..sent[r] : \E i \in 1..Len(toHub) : EventOf(r, i) /\ toHub[i].n = n
        BY <4>1 DEF Whole, Underway
      <4>3. \A n \in (Have(r) + 1)..sent[r] : FALSE
        BY <3>2, <4>1, <4>2
      <4>4. Have(r) \in Nat /\ sent[r] \in Nat /\ Have(r)' = Have(r) + 1
        BY <1>1, <1>4, <3>2, FramesAre DEF Have, Types
      <4>5. ~(Have(r) < sent[r])
        <5> SUFFICES ASSUME Have(r) < sent[r] PROVE FALSE
          OBVIOUS
        <5>1. sent[r] \in (Have(r) + 1)..sent[r]
          BY <4>4
        <5> QED
          BY <4>3, <5>1
      <4> QED
        BY <4>2, <4>4, <4>5
    <3> QED
      BY <3>1, <3>2
  <2> QED
    BY <2>4, <2>5, <2>6 DEF Whole
<1> QED
  BY <1>2, <1>4, <1>5, <1>6, <1>7, <1>8

LEMMA HubReadsResKeeps ==
  ASSUME RequestConstants, RequestInv, HubRead, Head(toHub).kind = "res"
  PROVE  RequestInv'
<1> USE DEF RequestInv
<1> DEFINE m == Head(toHub)
          S == {r \in pending : id[r] = m.id}
<1>1. /\ toHub # <<>> /\ link = "up" /\ toHub' = Tail(toHub)
      /\ UNCHANGED <<link, next_id, id, caller, cancel, got, toNode, odd>>
      /\ UNCHANGED <<table, handler, told, sent, reply>>
      /\ OnRes(m)
  BY DEF HubRead, node
<1>2. /\ Len(toHub) \in Nat \ {0} /\ m = toHub[1] /\ 1 \in 1..Len(toHub)
      /\ Len(toHub') = Len(toHub) - 1
      /\ \A i \in 1..Len(toHub') : toHub'[i] = toHub[i + 1] /\ i + 1 \in 1..Len(toHub)
      /\ Len(toHub') \in Nat
  <2>1. toHub \in Seq(ResFrame \cup EventFrame \cup BareFrame)
    BY DEF Types
  <2>2. /\ Len(Tail(toHub)) = Len(toHub) - 1 /\ Len(toHub) \in Nat \ {0} /\ Len(Tail(toHub)) \in Nat
        /\ \A i \in 1..Len(Tail(toHub)) : Tail(toHub)[i] = toHub[i + 1] /\ i + 1 \in 2..Len(toHub)
        /\ Head(toHub) = toHub[1] /\ 1 \in 1..Len(toHub)
    BY <1>1, <2>1, TailIs
  <2> QED
    BY <1>1, <2>2
<1>3. /\ m.kind = "res" /\ m.code \in Codes
      /\ S \in SUBSET pending /\ (\A r \in S : r = m.req) /\ (\A r \in S : r \in Requests /\ ~Finished(r))
  BY <1>2, FramesAre DEF Uniquely, Lives, Types, Codes
<1>4. LET q == m.req IN
      /\ handler[q] \in {"none", "answered", "gone"}
      /\ m.code = "ok" => handler[q] \in {"answered", "gone"}
      /\ \A j \in 2..Len(toHub) : toHub[j].kind \in {"res", "event"} => toHub[j].req # q
  BY <1>2, <1>3 DEF Answered
<1>5. /\ pending' = pending \ S /\ lost' = lost
      /\ ending' = [r \in Requests |-> IF r \in S /\ ~Finished(r) THEN [code |-> m.code, from |-> m.req] ELSE ending[r]]
      /\ queue' = [r \in Streams |-> IF r \in S /\ ~Finished(r) THEN WithEnd(queue[r]) ELSE queue[r]]
  BY <1>1 DEF OnRes, finish
<1>6. \A i \in 1..Len(toHub) : toHub[i].kind = "event" => i - 1 \in 1..Len(toHub') /\ toHub[i].req # m.req
  <2>1. \A i \in 1..Len(toHub) : i = 1 \/ (i \in 2..Len(toHub) /\ i - 1 \in 1..Len(toHub'))
    BY <1>2
  <2> QED
    BY <1>2, <1>3, <1>4, <2>1
<1> HIDE DEF m, S
<1>7. /\ ending' = [r \in Requests |-> IF r \in S THEN [code |-> m.code, from |-> r] ELSE ending[r]]
      /\ queue' = [r \in Streams |-> IF r \in S THEN Append(queue[r], End) ELSE queue[r]]
  <2>1. /\ \A r \in Requests : (IF r \in S /\ ~Finished(r) THEN [code |-> m.code, from |-> m.req] ELSE ending[r])
                             = (IF r \in S THEN [code |-> m.code, from |-> r] ELSE ending[r])
        /\ \A r \in Streams : (IF r \in S /\ ~Finished(r) THEN WithEnd(queue[r]) ELSE queue[r])
                            = (IF r \in S THEN Append(queue[r], End) ELSE queue[r])
    BY <1>3 DEF WithEnd
  <2> QED
    BY <1>5, <2>1
<1>8. /\ ending' \in [Requests -> [code : Codes \cup {"none"}, from : Requests]]
      /\ queue' \in [Streams -> Seq(0..MaxEvents)]
      /\ Lives' /\ Marked' /\ Ordered' /\ Whole'
  <2>1. \A r \in S : handler[r] \notin {"running", "hung"}
    BY <1>3, <1>4
  <2>2. m.code = "ok" => \A r \in S : /\ handler[r] \in {"answered", "gone"}
                                      /\ \A i \in 1..Len(toHub) : ~EventOf(r, i)
    BY <1>3, <1>4, <1>6 DEF EventOf
  <2>3. link' \in {link, "down"} /\ ~(link' = "down" /\ link = "up")
    BY <1>1
  <2>4. UNCHANGED <<id, caller, cancel, got, lost, table, handler, told, sent>>
    BY <1>1, <1>5
  <2>5. \A j \in 1..Len(toHub') : j + 1 \in 1..Len(toHub) /\ toHub'[j] = toHub[j + 1]
    BY <1>2
  <2>6. \A i \in 1..Len(toHub) : toHub[i].kind = "event" => i - 1 \in 1..Len(toHub')
    BY <1>6
  <2>7. 1 \in {0, 1}
    OBVIOUS
  <2> DEFINE c == m.code
  <2>8. c \in Codes
    BY <1>3
  <2> QED
    BY <1>2, <1>3, <1>5, <1>7, <2>1, <2>2, <2>3, <2>4, <2>5, <2>6, <2>7, <2>8, Finishing
<1>9. /\ toHub' \in Seq(ResFrame \cup EventFrame \cup BareFrame)
      /\ Limits' /\ Distinct' /\ Asked' /\ CancelsFit' /\ Replying' /\ Answered' /\ Emitted' /\ Uniquely'
  <2>1. toHub[1].kind = "res" /\ S \subseteq {toHub[1].req}
    BY <1>2, <1>3
  <2>2. UNCHANGED <<link, id, cancel, table, handler, sent, reply, toNode>>
    BY <1>1
  <2> QED
    BY <1>1, <1>3, <1>5, <2>1, <2>2, FrameTaken
<1>10. Types'
  <2>1. pending' \in SUBSET Requests
    BY <1>5 DEF Types
  <2> QED
    BY <1>1, <1>5, <1>8, <1>9, <2>1 DEF Types
<1> QED
  BY <1>8, <1>9, <1>10

LEMMA HubReadsEventKeeps ==
  ASSUME RequestConstants, RequestInv, HubRead, Head(toHub).kind = "event"
  PROVE  RequestInv'
<1> USE DEF RequestInv
<1> DEFINE m == Head(toHub)
          of == {r \in pending \intersect Streams : id[r] = m.id /\ cancel[r] = "no"}
          n == Len(toHub)
<1>1. /\ toHub # <<>> /\ link = "up" /\ toHub' = Tail(toHub)
      /\ UNCHANGED <<link, next_id, id, caller, cancel, got, toNode, odd>>
      /\ UNCHANGED <<table, handler, told, sent, reply>>
      /\ OnEvent(m)
  BY DEF HubRead, node
<1>2. /\ n \in Nat \ {0} /\ m = toHub[1] /\ 1 \in 1..n
      /\ Len(toHub') = n - 1
      /\ \A i \in 1..(n - 1) : toHub'[i] = toHub[i + 1] /\ i + 1 \in 1..n
  <2>1. toHub \in Seq(ResFrame \cup EventFrame \cup BareFrame)
    BY DEF Types
  <2>2. /\ Len(Tail(toHub)) = Len(toHub) - 1 /\ Len(toHub) \in Nat \ {0} /\ Len(Tail(toHub)) \in Nat
        /\ \A i \in 1..Len(Tail(toHub)) : Tail(toHub)[i] = toHub[i + 1] /\ i + 1 \in 2..Len(toHub)
        /\ Head(toHub) = toHub[1] /\ 1 \in 1..Len(toHub)
    BY <1>1, <2>1, TailIs
  <2> QED
    BY <1>1, <2>2
<1>3. /\ pending' = pending /\ ending' = ending
      /\ queue' = [r \in Streams |-> IF r \in of /\ Len(queue[r]) < MaxQueued THEN Append(queue[r], m.n) ELSE queue[r]]
      /\ lost' = lost \cup {r \in of : Len(queue[r]) >= MaxQueued}
  BY <1>1 DEF OnEvent, Events
<1>4. m.req \in Streams /\ m.req \in Requests /\ m.n \in 1..MaxEvents /\ m.kind = "event"
  BY <1>2, FramesAre
<1>a. PICK q \in Streams : q = m.req
  BY <1>4
<1>b. PICK v \in 1..MaxEvents : v = m.n
  BY <1>4
<1>5. /\ of \subseteq {q} /\ of \subseteq pending /\ of \subseteq Streams
      /\ \A r \in of : ~Finished(r)
  BY <1>2, <1>4, <1>a DEF Uniquely, Lives, Types
<1>6. m.id = id[q] /\ id[q] # 0 /\ v <= sent[q] /\ EventOf(q, 1)
  BY <1>2, <1>4, <1>a, <1>b DEF Emitted, EventOf
<1>7. Open(q) => q \in of
  BY <1>4, <1>6, <1>a DEF Open, Full, Lives
<1>8. \A r \in Streams : r # q => ~EventOf(r, 1)
  BY <1>2, <1>a DEF EventOf
<1> HIDE DEF of, m
<1> DEFINE l == Len(queue[q])
          Fits == q \in of /\ l < MaxQueued
<1>9. /\ q \in Streams /\ q \in Requests /\ v \in 1..MaxEvents /\ v \in Nat /\ v # End /\ v # 0
      /\ queue[q] \in Seq(0..MaxEvents) /\ l \in Nat /\ MaxQueued \in Nat /\ sent[q] \in Nat
      /\ \A r \in Streams : r \in Requests /\ sent[r] \in Nat /\ Len(got[r]) \in Nat /\ Len(queue[r]) \in Nat
  <2>1. q \in Streams /\ q \in Requests /\ v \in 1..MaxEvents
    BY <1>4, <1>a
  <2>2. queue[q] \in Seq(0..MaxEvents)
    BY <2>1 DEF Types
  <2>3. l \in Nat
    BY <2>2
  <2>4. \A r \in Streams : r \in Requests /\ Len(got[r]) \in Nat /\ Len(queue[r]) \in Nat
    BY FramesAre
  <2>5. \A r \in Requests : sent[r] \in 0..MaxEvents
    BY DEF Types
  <2>6. MaxEvents \in Nat /\ MaxQueued \in Nat
    BY DEF RequestConstants
  <2> HIDE DEF l
  <2>7. v \in Nat /\ v # 0
    BY <2>1, <2>6
  <2> QED
    BY <2>1, <2>2, <2>3, <2>4, <2>5, <2>6, <2>7 DEF End
<1>10. /\ \A r \in Streams : r # q => queue'[r] = queue[r]
       /\ ~Fits => queue'[q] = queue[q]
       /\ Fits => queue'[q] = Append(queue[q], v)
  BY <1>3, <1>5, <1>9, <1>b
<1>11. /\ Fits => /\ Len(queue'[q]) = l + 1 /\ queue'[q][l + 1] = v /\ queue'[q] # <<>>
                  /\ \A i \in 1..l : queue'[q][i] = queue[q][i]
       /\ queue' \in [Streams -> Seq(0..MaxEvents)]
  <2>1. v \in 0..MaxEvents
    BY <1>9
  <2>2. /\ Append(queue[q], v) \in Seq(0..MaxEvents) /\ Len(Append(queue[q], v)) = l + 1
        /\ \A i \in 1..l : Append(queue[q], v)[i] = queue[q][i]
        /\ Append(queue[q], v)[l + 1] = v /\ Append(queue[q], v) # <<>>
    BY <1>9, <2>1, AppendIs
  <2>3. queue' = [r \in Streams |-> queue'[r]] /\ \A r \in Streams : queue[r] \in Seq(0..MaxEvents)
    BY <1>3 DEF Types
  <2>4. \A r \in Streams : queue'[r] \in Seq(0..MaxEvents)
    BY <1>10, <2>2, <2>3
  <2> QED
    BY <1>10, <2>2, <2>3, <2>4
<1>12. \A r \in Streams : /\ Full(r)' => Full(r)
                          /\ Open(r)' => Open(r)
                          /\ r = q /\ Open(r)' => Fits
  <2>1. \A r \in Streams : (Full(r)' => Full(r)) /\ (Open(r)' => Open(r))
    BY <1>1, <1>3 DEF Full, Open, Finished
  <2>2. Open(q)' => Fits
    <3> SUFFICES ASSUME Open(q)' PROVE Fits
      OBVIOUS
    <3>1. q \in of /\ q \notin lost'
      BY <1>7, <1>9, <2>1 DEF Open, Full
    <3>2. ~(l >= MaxQueued)
      BY <1>3, <3>1
    <3> HIDE DEF l
    <3>3. l < MaxQueued
      BY <1>9, <3>2
    <3> QED
      BY <3>1, <3>3
  <2> QED
    BY <2>1, <2>2
<1>13. EventOf(q, 1) /\ toHub[1].n = v /\ v <= sent[q] /\ 1 \in 1..n
  BY <1>2, <1>6, <1>b
<1>14. \A i \in 2..n : EventOf(q, i) => v < toHub[i].n
  <2>1. \A i \in 2..n : i \in 1..n /\ 1 < i
    BY <1>2
  <2> QED
    BY <1>9, <1>13, <2>1 DEF Ordered
<1>15. \A i \in 1..(n - 1) : i + 1 \in 2..n /\ i + 1 \in 1..n /\ toHub'[i] = toHub[i + 1]
  BY <1>2
<1> HIDE DEF n
<1>16. Marked'
  <2> SUFFICES ASSUME NEW r \in Streams
               PROVE  /\ \A i \in 1..Len(queue'[r]) : queue'[r][i] = End => i = Len(queue'[r]) /\ Finished(r)
                      /\ Len(queue'[r]) <= MaxQueued + 1
                      /\ ~Finished(r) => Len(queue'[r]) <= MaxQueued
                      /\ ending[r].code = "ok" => queue'[r] # <<>> /\ queue'[r][Len(queue'[r])] = End
    BY <1>3 DEF Marked, Finished
  <2>1. CASE r # q \/ ~Fits
    <3>1. queue'[r] = queue[r]
      BY <1>10, <2>1
    <3> QED
      BY <3>1 DEF Marked
  <2>2. CASE r = q /\ Fits
    <3>1. (\A i \in 1..l : queue[q][i] # End) /\ ~Finished(q) /\ ending[q].code # "ok"
      BY <1>5, <1>9, <2>2 DEF Marked, Finished
    <3>2. l < MaxQueued
      BY <2>2
    <3> HIDE DEF l, Fits
    <3>3. \A i \in 1..(l + 1) : i \in 1..l \/ i = l + 1
      BY <1>9
    <3>4. l + 1 <= MaxQueued
      BY <1>9, <3>2
    <3>5. l + 1 <= MaxQueued + 1
      BY <1>9, <3>4
    <3>6. \A i \in 1..(l + 1) : queue'[q][i] # End
      BY <1>9, <1>11, <2>2, <3>1, <3>3
    <3> QED
      BY <1>11, <2>2, <3>1, <3>4, <3>5, <3>6
  <2> QED
    BY <2>1, <2>2
<1>17. Ordered'
  <2> SUFFICES ASSUME NEW r \in Streams
               PROVE  /\ \A i, j \in 1..Len(got[r]) : i < j => got[r][i] < got[r][j]
                      /\ \A i, j \in 1..Len(queue'[r]) : i < j /\ queue'[r][j] # End => queue'[r][i] < queue'[r][j]
                      /\ \A i, j \in 1..(n - 1) : i < j /\ EventOf(r, i)' /\ EventOf(r, j)' => toHub'[i].n < toHub'[j].n
                      /\ \A i \in 1..Len(got[r]), j \in 1..Len(queue'[r]) : queue'[r][j] # End => got[r][i] < queue'[r][j]
                      /\ \A i \in 1..Len(got[r]), j \in 1..(n - 1) : EventOf(r, j)' => got[r][i] < toHub'[j].n
                      /\ \A i \in 1..Len(queue'[r]), j \in 1..(n - 1) : EventOf(r, j)' => queue'[r][i] < toHub'[j].n
                      /\ \A i \in 1..Len(got[r]) : got[r][i] <= sent[r]
                      /\ \A i \in 1..Len(queue'[r]) : queue'[r][i] <= sent[r]
    BY <1>1, <1>2 DEF Ordered, n
  <2>1. /\ \A i, j \in 1..Len(got[r]) : i < j => got[r][i] < got[r][j]
        /\ \A i \in 1..Len(got[r]) : got[r][i] <= sent[r]
        /\ \A i \in 1..Len(queue[r]) : queue[r][i] <= sent[r]
    BY DEF Ordered
  <2>2. \A i, j \in 1..Len(queue[r]) : i < j /\ queue[r][j] # End => queue[r][i] < queue[r][j]
    BY DEF Ordered
  <2>3. \A i, j \in 1..n : i < j /\ EventOf(r, i) /\ EventOf(r, j) => toHub[i].n < toHub[j].n
    BY DEF Ordered, n
  <2>4. /\ \A i \in 1..Len(got[r]), j \in 1..Len(queue[r]) : queue[r][j] # End => got[r][i] < queue[r][j]
        /\ \A i \in 1..Len(got[r]), j \in 1..n : EventOf(r, j) => got[r][i] < toHub[j].n
        /\ \A i \in 1..Len(queue[r]), j \in 1..n : EventOf(r, j) => queue[r][i] < toHub[j].n
    BY DEF Ordered, n
  <2>5. \A j \in 1..(n - 1) : /\ j + 1 \in 1..n /\ j + 1 \in 2..n /\ toHub'[j] = toHub[j + 1]
                              /\ EventOf(r, j)' => EventOf(r, j + 1)
    BY <1>15 DEF EventOf
  <2>6. \A i, j \in 1..(n - 1) : i < j /\ EventOf(r, i)' /\ EventOf(r, j)' => toHub'[i].n < toHub'[j].n
    <3> SUFFICES ASSUME NEW i \in 1..(n - 1), NEW j \in 1..(n - 1), i < j, EventOf(r, i)', EventOf(r, j)'
                 PROVE  toHub'[i].n < toHub'[j].n
      OBVIOUS
    <3>1. i + 1 < j + 1
      OBVIOUS
    <3> QED
      BY <2>3, <2>5, <3>1
  <2>7. \A i \in 1..Len(got[r]), j \in 1..(n - 1) : EventOf(r, j)' => got[r][i] < toHub'[j].n
    BY <2>4, <2>5
  <2>8. CASE r # q \/ ~Fits
    <3>1. queue'[r] = queue[r]
      BY <1>10, <2>8
    <3>2. \A i \in 1..Len(queue[r]), j \in 1..(n - 1) : EventOf(r, j)' => queue[r][i] < toHub'[j].n
      BY <2>4, <2>5
    <3> QED
      BY <2>1, <2>2, <2>4, <2>6, <2>7, <3>1, <3>2
  <2>9. CASE r = q /\ Fits
    <3>1. (\A i \in 1..l : queue[q][i] < v) /\ (\A i \in 1..Len(got[q]) : got[q][i] < v)
      BY <1>13, <2>4, <2>9
    <3>2. Len(queue'[q]) = l + 1 /\ queue'[q][l + 1] = v /\ \A i \in 1..l : queue'[q][i] = queue[q][i]
      BY <1>11, <2>9
    <3>3. \A i, j \in 1..l : i < j /\ queue[q][j] # End => queue[q][i] < queue[q][j]
      BY <2>2, <2>9
    <3>4. \A i \in 1..l : queue[q][i] <= sent[q]
      BY <2>1, <2>9
    <3>5. \A i \in 1..Len(got[q]), j \in 1..l : queue[q][j] # End => got[q][i] < queue[q][j]
      BY <2>4, <2>9
    <3>6. \A i \in 1..l, j \in 1..(n - 1) : EventOf(q, j)' => queue[q][i] < toHub'[j].n
      BY <2>4, <2>5, <2>9
    <3> HIDE DEF l, Fits
    <3>7. \A i \in 1..(l + 1) : i \in 1..l \/ i = l + 1
      BY <1>9
    <3>8. \A i, j \in 1..(l + 1) : i < j => i \in 1..l
      BY <1>9
    <3>9. \A i, j \in 1..(l + 1) : i < j /\ queue'[q][j] # End => queue'[q][i] < queue'[q][j]
      <4> SUFFICES ASSUME NEW i \in 1..(l + 1), NEW j \in 1..(l + 1), i < j, queue'[q][j] # End
                   PROVE  queue'[q][i] < queue'[q][j]
        OBVIOUS
      <4>1. i \in 1..l /\ queue'[q][i] = queue[q][i]
        BY <3>2, <3>8
      <4>2. CASE j \in 1..l
        BY <3>2, <3>3, <4>1, <4>2
      <4>3. CASE j = l + 1
        BY <3>1, <3>2, <4>1, <4>3
      <4> QED
        BY <3>7, <4>2, <4>3
    <3>10. \A i \in 1..Len(got[q]), j \in 1..(l + 1) : queue'[q][j] # End => got[q][i] < queue'[q][j]
      <4> SUFFICES ASSUME NEW i \in 1..Len(got[q]), NEW j \in 1..(l + 1), queue'[q][j] # End
                   PROVE  got[q][i] < queue'[q][j]
        OBVIOUS
      <4>1. CASE j \in 1..l
        <5>1. queue'[q][j] = queue[q][j]
          BY <3>2, <4>1
        <5> QED
          BY <3>5, <4>1, <5>1
      <4>2. CASE j = l + 1
        BY <3>1, <3>2, <4>2
      <4> QED
        BY <3>7, <4>1, <4>2
    <3>11. \A j \in 1..(n - 1) : EventOf(q, j)' => v < toHub'[j].n
      BY <1>14, <2>5, <2>9
    <3>12. \A i \in 1..(l + 1), j \in 1..(n - 1) : EventOf(q, j)' => queue'[q][i] < toHub'[j].n
      BY <3>2, <3>6, <3>7, <3>11
    <3>13. \A i \in 1..(l + 1) : queue'[q][i] <= sent[q]
      BY <1>13, <3>2, <3>4, <3>7
    <3> QED
      BY <2>1, <2>6, <2>7, <2>9, <3>2, <3>9, <3>10, <3>12, <3>13
  <2> QED
    BY <2>8, <2>9
<1>18. Whole'
  <2>1. \A r \in Streams : r # q \/ ~Fits => Have(r)' = Have(r) /\ queue'[r] = queue[r]
    BY <1>1, <1>10 DEF Have
  <2>2. Fits => Open(q)' = Open(q) /\ ~Finished(q) /\ ending[q].code # "ok" /\ Have(q)' = Have(q) + 1 /\ Have(q) = Len(got[q]) + l /\ Have(q) \in Nat
    <3> SUFFICES ASSUME Fits PROVE Open(q)' = Open(q) /\ ~Finished(q) /\ ending[q].code # "ok" /\ Have(q)' = Have(q) + 1 /\ Have(q) = Len(got[q]) + l /\ Have(q) \in Nat
      OBVIOUS
    <3>1. ~Finished(q) /\ ending[q].code # "ok"
      BY <1>5 DEF Finished
    <3>2. Have(q)' = Len(got[q]) + (l + 1) /\ Have(q) = Len(got[q]) + l
      BY <1>1, <1>11 DEF Have
    <3>3. Len(got[q]) \in Nat /\ l \in Nat
      BY <1>9
    <3>4. q \in lost' <=> q \in lost
      <4>1. ~(l >= MaxQueued)
        <5>1. l < MaxQueued
          OBVIOUS
        <5> HIDE DEF l, Fits
        <5> QED
          BY <1>9, <5>1
      <4> QED
        BY <1>3, <4>1
    <3>5. Open(q)' = Open(q)
      BY <1>1, <1>3, <3>4 DEF Open, Full, Finished
    <3> DEFINE g == Len(got[q])
    <3>6. g + (l + 1) = (g + l) + 1 /\ g + l \in Nat
      <4>1. g \in Nat /\ l \in Nat
        BY <3>3
      <4> HIDE DEF l, g
      <4> QED
        BY <4>1
    <3> HIDE DEF l, g
    <3> QED
      BY <3>1, <3>2, <3>5, <3>6 DEF g
  <2>3. Fits /\ Open(q) => v = Have(q) + 1
    <3> SUFFICES ASSUME Fits, Open(q) PROVE v = Have(q) + 1
      OBVIOUS
    <3>1. /\ \A i \in 1..n : EventOf(q, i) => toHub[i].n > Have(q)
          /\ \A k \in (Have(q) + 1)..sent[q] : \E i \in 1..n : EventOf(q, i) /\ toHub[i].n = k
      BY <1>9 DEF Whole, Underway, n
    <3>2. v > Have(q) /\ Have(q) \in Nat
      BY <1>13, <2>2, <3>1
    <3> DEFINE h == Have(q)
    <3> HIDE DEF h, Fits
    <3>3. h + 1 \in (h + 1)..sent[q]
      BY <1>9, <1>13, <3>2 DEF h
    <3>4. PICK i \in 1..n : EventOf(q, i) /\ toHub[i].n = h + 1
      BY <3>1, <3>3 DEF h
    <3>5. CASE i = 1
      BY <1>13, <3>4, <3>5 DEF h
    <3>6. CASE i # 1
      <4>1. i \in 2..n
        BY <1>2, <3>6 DEF n
      <4>2. v < h + 1
        BY <1>14, <3>4, <4>1
      <4> QED
        BY <1>9, <3>2, <4>2 DEF h
    <3> QED
      BY <3>5, <3>6
  <2>4. NoGap'
    <3> SUFFICES ASSUME NEW r \in Streams, Open(r)' \/ (Full(r)' /\ ending[r].code = "ok")
                 PROVE  /\ \A i \in 1..Len(got[r]) : got[r][i] = i
                        /\ \A j \in 1..Len(queue'[r]) : queue'[r][j] # End => queue'[r][j] = Len(got[r]) + j
      BY <1>1, <1>3 DEF NoGap
    <3>1. /\ \A i \in 1..Len(got[r]) : got[r][i] = i
          /\ \A j \in 1..Len(queue[r]) : queue[r][j] # End => queue[r][j] = Len(got[r]) + j
      BY <1>12 DEF Whole, NoGap
    <3>2. CASE r # q \/ ~Fits
      BY <2>1, <3>1, <3>2
    <3>3. CASE r = q /\ Fits
      <4>1. v = Len(got[q]) + l + 1
        BY <2>2, <2>3, <3>3
      <4>2. Len(queue'[q]) = l + 1 /\ queue'[q][l + 1] = v /\ \A i \in 1..l : queue'[q][i] = queue[q][i]
        BY <1>11, <3>3
      <4>3. \A j \in 1..l : queue[q][j] # End => queue[q][j] = Len(got[q]) + j
        BY <3>1, <3>3
      <4> HIDE DEF l, Fits
      <4>4. \A i \in 1..(l + 1) : i \in 1..l \/ i = l + 1
        BY <1>9
      <4> DEFINE g == Len(got[q])
      <4>5. g + l + 1 = g + (l + 1)
        <5>1. g \in Nat /\ l \in Nat
          BY <1>9
        <5> HIDE DEF g
        <5> QED
          BY <5>1
      <4>6. \A j \in 1..(l + 1) : queue'[q][j] # End => queue'[q][j] = Len(got[q]) + j
        BY <4>1, <4>2, <4>3, <4>4, <4>5
      <4> QED
        BY <3>1, <3>3, <4>2, <4>6
    <3> QED
      BY <3>2, <3>3
  <2>5. Underway'
    <3> SUFFICES ASSUME NEW r \in Streams, Open(r)'
                 PROVE  /\ Have(r)' <= sent[r]
                        /\ \A i \in 1..(n - 1) : EventOf(r, i)' => toHub'[i].n > Have(r)'
                        /\ \A k \in (Have(r)' + 1)..sent[r] : \E i \in 1..(n - 1) : EventOf(r, i)' /\ toHub'[i].n = k
      BY <1>1, <1>2 DEF Underway, n
    <3>1. /\ Have(r) <= sent[r]
          /\ \A i \in 1..n : EventOf(r, i) => toHub[i].n > Have(r)
          /\ \A k \in (Have(r) + 1)..sent[r] : \E i \in 1..n : EventOf(r, i) /\ toHub[i].n = k
      BY <1>12 DEF Whole, Underway, n
    <3>2. \A j \in 1..(n - 1) : EventOf(r, j)' => j + 1 \in 2..n /\ j + 1 \in 1..n /\ EventOf(r, j + 1) /\ toHub'[j] = toHub[j + 1]
      BY <1>15 DEF EventOf
    <3>3. \A i \in 2..n : EventOf(r, i) => i - 1 \in 1..(n - 1) /\ EventOf(r, i - 1)' /\ toHub'[i - 1] = toHub[i]
      <4>1. \A i \in 2..n : i - 1 \in 1..(n - 1) /\ (i - 1) + 1 = i
        BY <1>2 DEF n
      <4> QED
        BY <1>15, <4>1 DEF EventOf
    <3>4. \A i \in 1..n : i = 1 \/ i \in 2..n
      BY <1>2 DEF n
    <3>5. CASE r # q
      <4>1. Have(r)' = Have(r)
        BY <2>1, <3>5
      <4>2. \A i \in 1..(n - 1) : EventOf(r, i)' => toHub'[i].n > Have(r)'
        BY <3>1, <3>2, <4>1
      <4>3. ASSUME NEW k \in (Have(r)' + 1)..sent[r]
            PROVE  \E i \in 1..(n - 1) : EventOf(r, i)' /\ toHub'[i].n = k
        <5>1. PICK i \in 1..n : EventOf(r, i) /\ toHub[i].n = k
          BY <3>1, <4>1
        <5>2. i \in 2..n
          BY <1>8, <3>4, <3>5, <5>1
        <5> QED
          BY <3>3, <5>1, <5>2
      <4> QED
        BY <3>1, <4>1, <4>2, <4>3
    <3>6. CASE r = q
      <4>1. Fits /\ v = Have(q) + 1 /\ Have(q)' = Have(q) + 1 /\ Have(q) \in Nat
        BY <1>12, <2>2, <2>3, <3>6
      <4> HIDE DEF Fits
      <4>2. Have(q)' <= sent[q]
        BY <1>13, <4>1
      <4>3. \A i \in 1..(n - 1) : EventOf(q, i)' => toHub'[i].n > Have(q)'
        <5> SUFFICES ASSUME NEW i \in 1..(n - 1), EventOf(q, i)' PROVE toHub'[i].n > Have(q)'
          OBVIOUS
        <5>1. i + 1 \in 2..n /\ i + 1 \in 1..n /\ EventOf(q, i + 1) /\ toHub'[i] = toHub[i + 1]
          BY <3>2, <3>6
        <5>2. v < toHub[i + 1].n
          BY <1>14, <5>1
        <5>3. toHub[i + 1].n \in Nat
          <6>1. toHub[i + 1].n \in 1..MaxEvents
            BY <5>1, FramesAre DEF EventOf, n
          <6> QED
            BY <6>1 DEF RequestConstants
        <5> QED
          BY <4>1, <5>1, <5>2, <5>3
      <4>4. ASSUME NEW k \in (Have(q)' + 1)..sent[q]
            PROVE  \E i \in 1..(n - 1) : EventOf(q, i)' /\ toHub'[i].n = k
        <5>1. k \in (Have(q) + 1)..sent[q] /\ k # v
          BY <1>9, <4>1
        <5>2. PICK i \in 1..n : EventOf(q, i) /\ toHub[i].n = k
          BY <3>1, <3>6, <5>1
        <5>3. i \in 2..n
          BY <1>13, <3>4, <5>1, <5>2
        <5> QED
          BY <3>3, <3>6, <5>2, <5>3
      <4> QED
        BY <3>6, <4>2, <4>3, <4>4
    <3> QED
      BY <3>5, <3>6
  <2>6. AllThere'
    <3> SUFFICES ASSUME NEW r \in Streams, Full(r)', ending[r].code = "ok"
                 PROVE  Have(r)' = sent[r] + 1
      BY <1>1, <1>3 DEF AllThere
    <3>1. Full(r) /\ (r # q \/ ~Fits)
      BY <1>12, <2>2
    <3> QED
      BY <2>1, <3>1 DEF Whole, AllThere
  <2> QED
    BY <2>4, <2>5, <2>6 DEF Whole
<1>19. Lives'
  BY <1>1, <1>3, Kept
<1>20. /\ toHub' \in Seq(ResFrame \cup EventFrame \cup BareFrame)
       /\ Limits' /\ Distinct' /\ Asked' /\ CancelsFit' /\ Replying' /\ Answered' /\ Emitted' /\ Uniquely'
  <2>1. {} \in SUBSET pending /\ pending' = pending \ {}
    BY <1>3
  <2>2. UNCHANGED <<link, id, cancel, table, handler, sent, reply, toNode>>
    BY <1>1
  <2> QED
    BY <1>1, <2>1, <2>2, FrameTaken
<1>21. Types'
  <2>1. lost' \in SUBSET Streams
    BY <1>3, <1>5 DEF Types
  <2> QED
    BY <1>1, <1>3, <1>11, <1>20, <2>1 DEF Types
<1> QED
  BY <1>16, <1>17, <1>18, <1>19, <1>20, <1>21

LEMMA HubReadsOtherKeeps ==
  ASSUME RequestConstants, RequestInv, HubRead, Head(toHub).kind \notin {"res", "event"}
  PROVE  RequestInv'
<1> USE DEF RequestInv
<1>1. /\ toHub # <<>> /\ link = "up" /\ toHub' = Tail(toHub)
      /\ UNCHANGED <<link, next_id, id, caller, cancel, got, toNode, odd>>
      /\ UNCHANGED <<table, handler, told, sent, reply>>
      /\ UNCHANGED <<pending, ending, queue, lost>>
  BY DEF HubRead, node
<1>2. /\ Len(toHub) \in Nat \ {0} /\ toHub[1].kind # "event"
      /\ Len(toHub') = Len(toHub) - 1 /\ Len(toHub') \in Nat
      /\ \A i \in 1..Len(toHub') : toHub'[i] = toHub[i + 1] /\ i + 1 \in 1..Len(toHub)
  <2>1. toHub \in Seq(ResFrame \cup EventFrame \cup BareFrame)
    BY DEF Types
  <2>2. /\ Len(Tail(toHub)) = Len(toHub) - 1 /\ Len(toHub) \in Nat \ {0} /\ Len(Tail(toHub)) \in Nat
        /\ \A i \in 1..Len(Tail(toHub)) : Tail(toHub)[i] = toHub[i + 1] /\ i + 1 \in 2..Len(toHub)
        /\ Head(toHub) = toHub[1] /\ 1 \in 1..Len(toHub)
    BY <1>1, <2>1, TailIs
  <2> QED
    BY <1>1, <2>2
<1>3. {} \in SUBSET pending /\ pending' = pending \ {} /\ 1 \in {0, 1} /\ "unavailable" \in Codes
  BY <1>1 DEF Codes
<1>4. /\ ending' = [r \in Requests |-> IF r \in {} THEN [code |-> "unavailable", from |-> r] ELSE ending[r]]
      /\ queue' = [r \in Streams |-> IF r \in {} THEN Append(queue[r], End) ELSE queue[r]]
  BY <1>1 DEF Types
<1>5. \A i \in 1..Len(toHub) : toHub[i].kind = "event" => i - 1 \in 1..Len(toHub')
  <2>1. \A i \in 1..Len(toHub) : i = 1 \/ i - 1 \in 1..Len(toHub')
    BY <1>2
  <2> QED
    BY <1>2, <2>1
<1>6. Lives' /\ Marked' /\ Ordered' /\ Whole'
  <2>1. link' \in {link, "down"} /\ ~(link' = "down" /\ link = "up")
    BY <1>1
  <2>2. UNCHANGED <<id, caller, cancel, got, lost, table, handler, told, sent>>
    BY <1>1
  <2>3. "unavailable" # "ok"
    OBVIOUS
  <2> QED
    BY <1>2, <1>3, <1>4, <1>5, <2>1, <2>2, <2>3, Finishing
<1>7. /\ toHub' \in Seq(ResFrame \cup EventFrame \cup BareFrame)
      /\ Limits' /\ Distinct' /\ Asked' /\ CancelsFit' /\ Replying' /\ Answered' /\ Emitted' /\ Uniquely'
  <2>1. UNCHANGED <<link, id, cancel, table, handler, sent, reply, toNode>>
    BY <1>1
  <2> QED
    BY <1>1, <1>3, <2>1, FrameTaken
<1>8. Types'
  BY <1>1, <1>7 DEF Types
<1> QED
  BY <1>6, <1>7, <1>8

LEMMA ForgetKeeps ==
  ASSUME RequestConstants, RequestInv, NEW r \in Requests, Forget(r)
  PROVE  RequestInv'
<1> USE DEF RequestInv
<1>1. /\ r \in pending /\ cancel[r] = "sent" /\ handler[r] = "hung" /\ toNode = <<>>
      /\ pending' = pending \ {r}
      /\ UNCHANGED <<link, next_id, id, caller, cancel, got, lost, toNode, toHub, odd>>
      /\ UNCHANGED <<table, handler, told, sent, reply>>
  BY DEF Forget, IsOrphan, node
<1>2. /\ ending' = [s \in Requests |-> IF s \in {r} /\ ~Finished(s) THEN [code |-> "unavailable", from |-> s] ELSE ending[s]]
      /\ queue' = [s \in Streams |-> IF s \in {r} /\ ~Finished(s) THEN WithEnd(queue[s]) ELSE queue[s]]
  BY DEF Forget, finish, Self
<1>3. ~Finished(r)
  BY <1>1 DEF Lives
<1>4. /\ ending' = [s \in Requests |-> IF s \in {r} THEN [code |-> "unavailable", from |-> s] ELSE ending[s]]
      /\ queue' = [s \in Streams |-> IF s \in {r} THEN Append(queue[s], End) ELSE queue[s]]
  BY <1>2, <1>3 DEF WithEnd
<1>5. /\ ending' \in [Requests -> [code : Codes \cup {"none"}, from : Requests]]
      /\ queue' \in [Streams -> Seq(0..MaxEvents)]
      /\ Lives' /\ Marked' /\ Ordered' /\ Whole'
  <2>1. {r} \in SUBSET pending /\ "unavailable" \in Codes /\ 0 \in {0, 1} /\ "unavailable" # "ok"
    BY <1>1 DEF Codes
  <2>2. link' \in {link, "down"} /\ ~(link' = "down" /\ link = "up")
    BY <1>1 DEF Types
  <2>3. UNCHANGED <<id, caller, cancel, got, lost, table, handler, told, sent>>
    BY <1>1
  <2>4. Len(toHub') \in Nat /\ (\A j \in 1..Len(toHub') : j + 0 \in 1..Len(toHub) /\ toHub'[j] = toHub[j + 0])
        /\ (\A i \in 1..Len(toHub) : i - 0 \in 1..Len(toHub'))
    <3>1. Len(toHub) \in Nat /\ toHub' = toHub
      BY <1>1 DEF Types
    <3>2. \A j \in 1..Len(toHub) : j + 0 = j /\ j - 0 = j
      BY <3>1
    <3> QED
      BY <3>1, <3>2
  <2>5. \A s \in {r} : handler[s] \in {"running", "hung"} => link' = "down" \/ (cancel[s] = "sent" /\ "unavailable" = "unavailable")
    BY <1>1
  <2> QED
    BY <1>1, <1>4, <2>1, <2>2, <2>3, <2>4, <2>5, Finishing
<1>6. Types'
  BY <1>1, <1>5 DEF Types
<1>7. Limits'
  <2>1. IsFiniteSet(pending) /\ pending' \subseteq pending
    BY <1>1, FS_Subset DEF Types, RequestConstants
  <2>2. Cardinality(pending') <= Cardinality(pending) /\ Cardinality(pending) <= HubInflight
    BY <2>1, FS_Subset DEF Limits
  <2>3. Cardinality(pending') \in Nat /\ Cardinality(pending) \in Nat /\ HubInflight \in Nat
    BY <2>1, FS_Subset, FS_CardinalityType DEF RequestConstants
  <2> DEFINE a == Cardinality(pending')
             b == Cardinality(pending)
  <2>4. a <= b /\ b <= HubInflight /\ a \in Nat /\ b \in Nat /\ HubInflight \in Nat
    BY <2>2, <2>3
  <2> HIDE DEF a, b
  <2>5. a <= HubInflight
    BY <2>4
  <2> QED
    BY <1>1, <2>5 DEF Limits, a
<1>8. Distinct'
  BY <1>1 DEF Distinct
<1>9. Asked' /\ CancelsFit'
  <2>1. Len(toNode') = 0
    BY <1>1
  <2> QED
    BY <2>1 DEF Asked, CancelsFit
<1>10. Replying'
  BY <1>1 DEF Replying
<1>11. Uniquely'
  BY <1>1 DEF Uniquely
<1> QED
  BY <1>1, <1>5, <1>6, <1>7, <1>8, <1>9, <1>10, <1>11, Kept

LEMMA LinkDropsKeeps ==
  ASSUME RequestConstants, RequestInv, LinkDrops
  PROVE  RequestInv'
<1> USE DEF RequestInv
<1>1. /\ link = "up" /\ link' = "down" /\ pending' = {} /\ toHub' = <<>> /\ toNode' = <<>> /\ odd' = odd + 1
      /\ UNCHANGED <<next_id, id, caller, cancel, got, lost>>
      /\ UNCHANGED <<table, handler, told, sent, reply>>
  BY DEF LinkDrops, Odd, node
<1>2. /\ ending' = [s \in Requests |-> IF s \in pending /\ ~Finished(s) THEN [code |-> "unavailable", from |-> s] ELSE ending[s]]
      /\ queue' = [s \in Streams |-> IF s \in pending /\ ~Finished(s) THEN WithEnd(queue[s]) ELSE queue[s]]
  BY DEF LinkDrops, finish, Self
<1>3. \A s \in pending : ~Finished(s)
  BY DEF Lives, Types
<1>4. /\ ending' = [s \in Requests |-> IF s \in pending THEN [code |-> "unavailable", from |-> s] ELSE ending[s]]
      /\ queue' = [s \in Streams |-> IF s \in pending THEN Append(queue[s], End) ELSE queue[s]]
  <2>1. /\ \A s \in Requests : (IF s \in pending /\ ~Finished(s) THEN [code |-> "unavailable", from |-> s] ELSE ending[s])
                             = (IF s \in pending THEN [code |-> "unavailable", from |-> s] ELSE ending[s])
        /\ \A s \in Streams : (IF s \in pending /\ ~Finished(s) THEN WithEnd(queue[s]) ELSE queue[s])
                            = (IF s \in pending THEN Append(queue[s], End) ELSE queue[s])
    BY <1>3 DEF WithEnd
  <2> QED
    BY <1>2, <2>1
<1>5. Len(toHub') = 0 /\ Len(toNode') = 0
  BY <1>1
<1>6. /\ ending' \in [Requests -> [code : Codes \cup {"none"}, from : Requests]]
      /\ queue' \in [Streams -> Seq(0..MaxEvents)]
      /\ Lives' /\ Marked' /\ Ordered' /\ Whole'
  <2>1. pending \in SUBSET pending /\ "unavailable" \in Codes /\ 0 \in {0, 1} /\ "unavailable" # "ok" /\ pending' = pending \ pending
    BY <1>1 DEF Codes
  <2>2. link' \in {link, "down"} /\ link' # "up"
    BY <1>1
  <2>3. UNCHANGED <<id, caller, cancel, got, lost, table, handler, told, sent>>
    BY <1>1
  <2>4. Len(toHub') \in Nat /\ (\A j \in 1..Len(toHub') : j + 0 \in 1..Len(toHub) /\ toHub'[j] = toHub[j + 0])
    BY <1>5
  <2>5. \A s \in pending : handler[s] \in {"running", "hung"} => link' = "down" \/ (cancel[s] = "sent" /\ "unavailable" = "unavailable")
    BY <1>1
  <2> QED
    BY <1>4, <2>1, <2>2, <2>3, <2>4, <2>5, Finishing
<1>7. Types'
  BY <1>1, <1>6 DEF Types
<1>8. Limits'
  <2>1. Cardinality({}) = 0 /\ HubInflight \in Nat /\ QueueMax \in Nat
    BY FS_EmptySet DEF RequestConstants
  <2> DEFINE a == Cardinality(pending')
  <2>2. a <= HubInflight
    <3>1. a = 0
      BY <1>1, <2>1
    <3> HIDE DEF a
    <3> QED
      BY <2>1, <3>1
  <2>3. Len(toHub') <= QueueMax
    BY <1>5, <2>1
  <2> QED
    BY <1>1, <2>2, <2>3 DEF Limits
<1>9. Distinct'
  BY <1>1 DEF Distinct
<1>10. Asked' /\ CancelsFit' /\ Answered' /\ Emitted' /\ Uniquely'
  BY <1>5 DEF Asked, CancelsFit, Answered, Emitted, Uniquely
<1>11. Replying'
  BY <1>1 DEF Replying
<1> QED
  BY <1>6, <1>7, <1>8, <1>9, <1>10, <1>11

-----------------------------------------------------------------------------
(* The node.                                                               *)

\* A frame that is no event goes into the writer's queue.
LEMMA FramePut ==
  ASSUME RequestConstants, Types, Ordered, Whole, NEW x \in ResFrame \cup BareFrame, toHub' = Append(toHub, x),
         UNCHANGED <<link, cancel, ending, got, queue, lost, sent>>
  PROVE  /\ toHub' \in Seq(ResFrame \cup EventFrame \cup BareFrame)
         /\ Len(toHub') = Len(toHub) + 1 /\ Len(toHub) \in Nat /\ toHub'[Len(toHub) + 1] = x
         /\ \A i \in 1..Len(toHub) : toHub'[i] = toHub[i] /\ i \in 1..Len(toHub')
         /\ \A i \in 1..Len(toHub') : i \in 1..Len(toHub) \/ i = Len(toHub) + 1
         /\ Ordered' /\ Whole'
<1>1. toHub \in Seq(ResFrame \cup EventFrame \cup BareFrame) /\ x \in ResFrame \cup EventFrame \cup BareFrame
  BY DEF Types
<1>2. /\ toHub' \in Seq(ResFrame \cup EventFrame \cup BareFrame)
      /\ Len(toHub') = Len(toHub) + 1 /\ Len(toHub) \in Nat /\ toHub'[Len(toHub) + 1] = x
      /\ \A i \in 1..Len(toHub) : toHub'[i] = toHub[i]
  BY <1>1, AppendIs
<1>3. \A i \in 1..Len(toHub) : i \in 1..Len(toHub')
  BY <1>2
<1>4. \A i \in 1..Len(toHub') : i \in 1..Len(toHub) \/ i = Len(toHub) + 1
  BY <1>2
<1>5. x.kind # "event"
  BY ReplyIs
<1>6. \A r : \A i \in 1..Len(toHub') : EventOf(r, i)' => i \in 1..Len(toHub) /\ EventOf(r, i) /\ toHub'[i] = toHub[i]
  BY <1>2, <1>4, <1>5 DEF EventOf
<1>7. \A r : \A i \in 1..Len(toHub) : EventOf(r, i) => i \in 1..Len(toHub') /\ EventOf(r, i)' /\ toHub'[i] = toHub[i]
  BY <1>2, <1>3 DEF EventOf
<1>8. Ordered'
  <2> SUFFICES ASSUME NEW r \in Streams
               PROVE  /\ \A i, j \in 1..Len(got[r]) : i < j => got[r][i] < got[r][j]
                      /\ \A i, j \in 1..Len(queue[r]) : i < j /\ queue[r][j] # End => queue[r][i] < queue[r][j]
                      /\ \A i, j \in 1..Len(toHub') : i < j /\ EventOf(r, i)' /\ EventOf(r, j)' => toHub'[i].n < toHub'[j].n
                      /\ \A i \in 1..Len(got[r]), j \in 1..Len(queue[r]) : queue[r][j] # End => got[r][i] < queue[r][j]
                      /\ \A i \in 1..Len(got[r]), j \in 1..Len(toHub') : EventOf(r, j)' => got[r][i] < toHub'[j].n
                      /\ \A i \in 1..Len(queue[r]), j \in 1..Len(toHub') : EventOf(r, j)' => queue[r][i] < toHub'[j].n
                      /\ \A i \in 1..Len(got[r]) : got[r][i] <= sent[r]
                      /\ \A i \in 1..Len(queue[r]) : queue[r][i] <= sent[r]
    BY DEF Ordered
  <2>1. /\ \A i, j \in 1..Len(got[r]) : i < j => got[r][i] < got[r][j]
        /\ \A i, j \in 1..Len(queue[r]) : i < j /\ queue[r][j] # End => queue[r][i] < queue[r][j]
        /\ \A i \in 1..Len(got[r]), j \in 1..Len(queue[r]) : queue[r][j] # End => got[r][i] < queue[r][j]
        /\ \A i \in 1..Len(got[r]) : got[r][i] <= sent[r]
        /\ \A i \in 1..Len(queue[r]) : queue[r][i] <= sent[r]
    BY DEF Ordered
  <2>2. \A i, j \in 1..Len(toHub') : i < j /\ EventOf(r, i)' /\ EventOf(r, j)' => toHub'[i].n < toHub'[j].n
    BY <1>6 DEF Ordered
  <2>3. \A i \in 1..Len(got[r]), j \in 1..Len(toHub') : EventOf(r, j)' => got[r][i] < toHub'[j].n
    BY <1>6 DEF Ordered
  <2>4. \A i \in 1..Len(queue[r]), j \in 1..Len(toHub') : EventOf(r, j)' => queue[r][i] < toHub'[j].n
    BY <1>6 DEF Ordered
  <2> QED
    BY <2>1, <2>2, <2>3, <2>4
<1>9. Whole'
  <2>1. \A r : Open(r)' = Open(r) /\ Full(r)' = Full(r) /\ Have(r)' = Have(r)
    BY DEF Open, Full, Have, Finished
  <2>2. NoGap' /\ AllThere'
    BY <2>1 DEF Whole, NoGap, AllThere
  <2>3. Underway'
    <3> SUFFICES ASSUME NEW r \in Streams, Open(r)
                 PROVE  /\ Have(r) <= sent[r]
                        /\ \A i \in 1..Len(toHub') : EventOf(r, i)' => toHub'[i].n > Have(r)
                        /\ \A n \in (Have(r) + 1)..sent[r] : \E i \in 1..Len(toHub') : EventOf(r, i)' /\ toHub'[i].n = n
      BY <2>1 DEF Underway
    <3>1. /\ Have(r) <= sent[r]
          /\ \A i \in 1..Len(toHub) : EventOf(r, i) => toHub[i].n > Have(r)
          /\ \A n \in (Have(r) + 1)..sent[r] : \E i \in 1..Len(toHub) : EventOf(r, i) /\ toHub[i].n = n
      BY DEF Whole, Underway
    <3>2. ASSUME NEW n \in (Have(r) + 1)..sent[r]
          PROVE  \E i \in 1..Len(toHub') : EventOf(r, i)' /\ toHub'[i].n = n
      <4>1. PICK i \in 1..Len(toHub) : EventOf(r, i) /\ toHub[i].n = n
        BY <3>1
      <4> QED
        BY <1>7, <4>1
    <3> QED
      BY <1>6, <3>1, <3>2
  <2> QED
    BY <2>2, <2>3 DEF Whole
<1> QED
  BY <1>2, <1>3, <1>4, <1>8, <1>9

LEMMA NodeReplyKeeps ==
  ASSUME RequestConstants, RequestInv, NodeReply
  PROVE  RequestInv'
<1> USE DEF RequestInv
<1> DEFINE n == Len(toHub)
<1>1. /\ reply # <<>> /\ n < QueueMax /\ reply' = <<>>
      /\ toHub' = IF link = "up" THEN Append(toHub, Head(reply)) ELSE toHub
      /\ UNCHANGED <<link, pending, next_id, id, caller, ending, cancel, queue, got, lost>>
      /\ UNCHANGED <<table, handler, told, sent, toNode, odd>>
  BY DEF NodeReply, HasRoom, put, hub
<1>2. reply' \in Seq(ResFrame \cup BareFrame) /\ Len(reply') = 0
  BY <1>1
<1>3. Replying'
  BY <1>2 DEF Replying
<1>4. CASE link # "up"
  <2>1. toHub' = toHub
    BY <1>1, <1>4
  <2>2. Types'
    BY <1>1, <1>2, <2>1 DEF Types
  <2>3. Asked'
    BY <1>1, <1>2, <2>1 DEF Asked
  <2> QED
    BY <1>1, <1>3, <2>1, <2>2, <2>3, Kept
<1>5. CASE link = "up"
  <2>1. PICK x \in ResFrame \cup BareFrame : x = Head(reply) /\ x = reply[1] /\ 1 \in 1..Len(reply)
    <3>1. reply \in Seq(ResFrame \cup BareFrame)
      BY DEF Types
    <3>2. Head(reply) = reply[1] /\ reply[1] \in ResFrame \cup BareFrame /\ 1 \in 1..Len(reply)
      BY <1>1, <3>1, TailIs
    <3> QED
      BY <3>2
  <2>2. /\ toHub' \in Seq(ResFrame \cup EventFrame \cup BareFrame)
        /\ Len(toHub') = n + 1 /\ n \in Nat /\ toHub'[n + 1] = x
        /\ \A i \in 1..n : toHub'[i] = toHub[i] /\ i \in 1..Len(toHub')
        /\ \A i \in 1..Len(toHub') : i \in 1..n \/ i = n + 1
        /\ Ordered' /\ Whole'
    BY <1>1, <1>5, <2>1, FramePut
  <2>3. x.kind # "event" /\ (x.kind = "res" => x.req \in Requests)
    BY <2>1, ReplyIs
  <2>4. x.kind = "res" => /\ x.id = id[x.req] /\ x.req \in pending /\ handler[x.req] = "none" /\ x.code \in {"refused", "busy"}
                          /\ \A j \in 1..n : toHub[j].kind = "res" => toHub[j].req # x.req
    BY <1>5, <2>1 DEF Replying
  <2>5. x.kind = "res" => \A i \in 1..Len(toNode) : toNode[i].kind = "req" => toNode[i].req # x.req
    BY <2>1 DEF Asked
  <2>6. \A s \in pending : id[s] # 0 /\ s \in Requests
    BY DEF Lives, Types
  <2>7. \A i \in 1..n : toHub[i].kind = "res" => toHub[i].req \in Requests
    BY FramesAre
  <2> HIDE DEF n
  <2>8. Types'
    BY <1>1, <1>2, <2>2 DEF Types
  <2>9. Limits'
    <3>1. n + 1 <= QueueMax
      BY <1>1, <2>2 DEF RequestConstants
    <3> QED
      BY <1>1, <1>5, <2>2, <3>1 DEF Limits
  <2>10. Asked'
    <3> SUFFICES ASSUME NEW i \in 1..Len(toNode), toNode[i].kind = "req"
                 PROVE  LET q == toNode[i].req IN
                        /\ toNode[i].id = id[q] /\ q \in pending /\ handler[q] = "none"
                        /\ \A j \in 1..Len(toNode) : toNode[j].kind = "req" /\ toNode[j].req = q => j = i
                        /\ \A j \in 1..Len(toHub') : toHub'[j].kind = "res" => toHub'[j].req # q
                        /\ \A j \in 1..Len(reply') : reply'[j].kind = "res" => reply'[j].req # q
      BY <1>1 DEF Asked
    <3> DEFINE q == toNode[i].req
    <3>1. /\ toNode[i].id = id[q] /\ q \in pending /\ handler[q] = "none"
          /\ \A j \in 1..Len(toNode) : toNode[j].kind = "req" /\ toNode[j].req = q => j = i
      BY DEF Asked
    <3>2. \A j \in 1..n : toHub[j].kind = "res" => toHub[j].req # q
      BY DEF Asked, n
    <3>3. x.kind = "res" => x.req # q
      BY <2>5
    <3> HIDE DEF q
    <3>4. \A j \in 1..Len(toHub') : toHub'[j].kind = "res" => toHub'[j].req # q
      BY <2>2, <3>2, <3>3
    <3>5. \A j \in 1..Len(reply') : reply'[j].kind = "res" => reply'[j].req # q
      BY <1>2
    <3> QED
      BY <3>1, <3>4, <3>5 DEF q
  <2>11. Answered'
    <3> SUFFICES ASSUME NEW i \in 1..Len(toHub'), toHub'[i].kind = "res"
                 PROVE  LET q == toHub'[i].req IN
                        /\ toHub'[i].id = id[q] /\ id[q] # 0 /\ handler[q] \in {"none", "answered", "gone"}
                        /\ toHub'[i].code = "ok" => handler[q] \in {"answered", "gone"}
                        /\ \A j \in (i + 1)..Len(toHub') : toHub'[j].kind \in {"res", "event"} => toHub'[j].req # q
      BY <1>1 DEF Answered
    <3>1. CASE i = n + 1
      <4>1. \A j \in (i + 1)..Len(toHub') : FALSE
        BY <2>2, <3>1
      <4> QED
        BY <2>2, <2>4, <2>6, <3>1, <4>1
    <3>2. CASE i \in 1..n
      <4>1. toHub'[i] = toHub[i] /\ \A j \in (i + 1)..Len(toHub') : (j \in (i + 1)..n /\ toHub'[j] = toHub[j]) \/ (j = n + 1 /\ toHub'[j] = x)
        BY <2>2, <3>2
      <4>2. LET q == toHub[i].req IN
            /\ toHub[i].id = id[q] /\ id[q] # 0 /\ handler[q] \in {"none", "answered", "gone"}
            /\ toHub[i].code = "ok" => handler[q] \in {"answered", "gone"}
            /\ \A j \in (i + 1)..n : toHub[j].kind \in {"res", "event"} => toHub[j].req # q
        BY <3>2, <4>1 DEF Answered, n
      <4>3. x.kind \in {"res", "event"} => x.req # toHub[i].req
        BY <2>3, <2>4, <3>2, <4>1
      <4> QED
        BY <4>1, <4>2, <4>3
    <3> QED
      BY <2>2, <3>1, <3>2
  <2>12. Emitted'
    <3> SUFFICES ASSUME NEW i \in 1..Len(toHub'), toHub'[i].kind = "event"
                 PROVE  LET q == toHub'[i].req IN
                        /\ toHub'[i].id = id[q] /\ id[q] # 0 /\ toHub'[i].n <= sent[q] /\ handler[q] # "none"
                        /\ \/ handler[q] \in {"running", "hung"}
                           \/ \E j \in 1..Len(toHub') : toHub'[j].kind = "res" /\ toHub'[j].req = q
      BY <1>1 DEF Emitted
    <3>1. i \in 1..n /\ toHub'[i] = toHub[i]
      BY <2>2, <2>3
    <3>2. LET q == toHub[i].req IN
          /\ toHub[i].id = id[q] /\ id[q] # 0 /\ toHub[i].n <= sent[q] /\ handler[q] # "none"
          /\ \/ handler[q] \in {"running", "hung"}
             \/ \E j \in 1..n : toHub[j].kind = "res" /\ toHub[j].req = q
      BY <3>1 DEF Emitted, n
    <3> QED
      BY <2>2, <3>1, <3>2
  <2>13. Uniquely'
    <3> SUFFICES ASSUME NEW i \in 1..Len(toHub'), toHub'[i].kind \in {"res", "event"}, NEW s \in pending, id[s] = toHub'[i].id
                 PROVE  s = toHub'[i].req
      BY <1>1 DEF Uniquely
    <3>1. CASE i = n + 1
      BY <2>2, <2>3, <2>4, <3>1 DEF Distinct
    <3>2. CASE i \in 1..n
      BY <2>2, <3>2 DEF Uniquely, n
    <3> QED
      BY <2>2, <3>1, <3>2
  <2> QED
    BY <1>1, <1>3, <2>2, <2>8, <2>9, <2>10, <2>11, <2>12, <2>13, Kept
<1> QED
  BY <1>4, <1>5

\* The reader takes the first frame: what stays of the rest, whatever it does.
LEMMA FrameRead ==
  ASSUME RequestConstants, RequestInv, toNode # <<>>, toNode' = Tail(toNode), UNCHANGED <<id, cancel, pending, toHub>>
  PROVE  /\ toNode' \in Seq(DownFrame) /\ toNode[1] \in DownFrame /\ Head(toNode) = toNode[1] /\ 1 \in 1..Len(toNode)
         /\ \A i \in 1..Len(toNode') : toNode'[i].kind = "req" =>
              LET q == toNode'[i].req IN
              /\ toNode'[i].id = id[q] /\ q \in pending /\ handler[q] = "none"
              /\ \A j \in 1..Len(toNode') : toNode'[j].kind = "req" /\ toNode'[j].req = q => j = i
              /\ \A j \in 1..Len(toHub) : toHub[j].kind = "res" => toHub[j].req # q
              /\ toNode[1].kind = "req" => toNode[1].req # q
         /\ \A j \in 1..Len(toNode') : toNode'[j].kind = "cancel" =>
              /\ cancel[toNode'[j].req] = "sent"
              /\ \A r \in table : id[r] = toNode'[j].id => r = toNode'[j].req
              /\ \A i \in 1..(j - 1) : toNode'[i].kind = "req" /\ toNode'[i].id = toNode'[j].id => toNode'[i].req = toNode'[j].req
              /\ toNode[1].kind = "req" /\ toNode[1].id = toNode'[j].id => toNode[1].req = toNode'[j].req
<1> USE DEF RequestInv
<1> DEFINE n == Len(toNode)
<1>1. /\ toNode' \in Seq(DownFrame) /\ toNode[1] \in DownFrame /\ Head(toNode) = toNode[1] /\ 1 \in 1..n
      /\ Len(toNode') = n - 1 /\ n \in Nat \ {0}
      /\ \A i \in 1..(n - 1) : toNode'[i] = toNode[i + 1] /\ i + 1 \in 2..n
  <2>1. toNode \in Seq(DownFrame)
    BY DEF Types
  <2> QED
    BY <2>1, TailIs
<1>2. \A i \in 1..(n - 1) : i + 1 \in 1..n /\ i + 1 # 1
  BY <1>1
<1>3. ASSUME NEW i \in 1..(n - 1), toNode'[i].kind = "req"
      PROVE  LET q == toNode'[i].req IN
             /\ toNode'[i].id = id[q] /\ q \in pending /\ handler[q] = "none"
             /\ \A j \in 1..(n - 1) : toNode'[j].kind = "req" /\ toNode'[j].req = q => j = i
             /\ \A j \in 1..Len(toHub) : toHub[j].kind = "res" => toHub[j].req # q
             /\ toNode[1].kind = "req" => toNode[1].req # q
  <2> DEFINE q == toNode[i + 1].req
  <2>1. /\ toNode[i + 1].id = id[q] /\ q \in pending /\ handler[q] = "none"
        /\ \A j \in 1..n : toNode[j].kind = "req" /\ toNode[j].req = q => j = i + 1
        /\ \A j \in 1..Len(toHub) : toHub[j].kind = "res" => toHub[j].req # q
    BY <1>1, <1>2, <1>3 DEF Asked
  <2>2. toNode'[i] = toNode[i + 1]
    BY <1>1, <1>3
  <2> HIDE DEF n, q
  <2>3. ASSUME NEW j \in 1..(n - 1), toNode'[j].kind = "req", toNode'[j].req = q PROVE j = i
    <3>1. j + 1 = i + 1
      BY <1>1, <1>2, <2>1, <2>3
    <3> QED
      BY <3>1
  <2>4. toNode[1].kind = "req" => toNode[1].req # q
    BY <1>1, <1>2, <2>1
  <2> QED
    BY <2>1, <2>2, <2>3, <2>4 DEF q
<1>4. ASSUME NEW j \in 1..(n - 1), toNode'[j].kind = "cancel"
      PROVE  /\ cancel[toNode'[j].req] = "sent"
             /\ \A r \in table : id[r] = toNode'[j].id => r = toNode'[j].req
             /\ \A i \in 1..(j - 1) : toNode'[i].kind = "req" /\ toNode'[i].id = toNode'[j].id => toNode'[i].req = toNode'[j].req
             /\ toNode[1].kind = "req" /\ toNode[1].id = toNode'[j].id => toNode[1].req = toNode'[j].req
  <2>1. toNode'[j] = toNode[j + 1] /\ j + 1 \in 1..n
    BY <1>1, <1>2, <1>4
  <2>2. /\ cancel[toNode[j + 1].req] = "sent"
        /\ \A r \in table : id[r] = toNode[j + 1].id => r = toNode[j + 1].req
        /\ \A i \in 1..(j + 1 - 1) : toNode[i].kind = "req" /\ toNode[i].id = toNode[j + 1].id => toNode[i].req = toNode[j + 1].req
    BY <1>4, <2>1 DEF CancelsFit
  <2> HIDE DEF n
  <2>3. 1 \in 1..(j + 1 - 1) /\ \A i \in 1..(j - 1) : i \in 1..(n - 1) /\ i + 1 \in 1..(j + 1 - 1)
    BY <1>1, <1>4
  <2> QED
    BY <1>1, <2>1, <2>2, <2>3
<1> QED
  <2>1. \A i \in 1..Len(toNode') : i \in 1..(n - 1)
    BY <1>1
  <2> HIDE DEF n
  <2>2. \A j \in 1..Len(toNode') : toNode'[j].kind = "cancel" =>
              /\ cancel[toNode'[j].req] = "sent"
              /\ \A r \in table : id[r] = toNode'[j].id => r = toNode'[j].req
              /\ \A i \in 1..(j - 1) : toNode'[i].kind = "req" /\ toNode'[i].id = toNode'[j].id => toNode'[i].req = toNode'[j].req
              /\ toNode[1].kind = "req" /\ toNode[1].id = toNode'[j].id => toNode[1].req = toNode'[j].req
    BY <2>1, <1>4
  <2>3. \A i \in 1..Len(toNode') : toNode'[i].kind = "req" =>
              LET q == toNode'[i].req IN
              /\ toNode'[i].id = id[q] /\ q \in pending /\ handler[q] = "none"
              /\ \A j \in 1..Len(toNode') : toNode'[j].kind = "req" /\ toNode'[j].req = q => j = i
              /\ \A j \in 1..Len(toHub) : toHub[j].kind = "res" => toHub[j].req # q
              /\ toNode[1].kind = "req" => toNode[1].req # q
    BY <2>1, <1>3
  <2> QED
    BY <1>1, <2>2, <2>3 DEF n

LEMMA NodeReadKeeps ==
  ASSUME RequestConstants, RequestInv, NodeRead
  PROVE  RequestInv'
<1> USE DEF RequestInv
<1> DEFINE m == Head(toNode)
<1>1. /\ toNode # <<>> /\ reply = <<>> /\ toNode' = Tail(toNode)
      /\ UNCHANGED <<link, pending, next_id, id, caller, ending, cancel, queue, got, lost>>
      /\ UNCHANGED <<sent, toHub>>
  BY DEF NodeRead, hub
<1>2. \/ m.kind = "req" /\ OnReq(m) /\ told' = told
      \/ m.kind = "cancel" /\ told' = told \cup {r \in table : id[r] = m.id} /\ UNCHANGED <<table, handler, reply, odd>>
      \/ m.kind = "ping" /\ reply' = <<Bare("pong")>> /\ UNCHANGED <<table, handler, told, odd>>
  BY DEF NodeRead
<1> HIDE DEF m
<1>3. /\ toNode' \in Seq(DownFrame) /\ toNode[1] \in DownFrame /\ Head(toNode) = toNode[1] /\ 1 \in 1..Len(toNode)
      /\ \A i \in 1..Len(toNode') : toNode'[i].kind = "req" =>
           LET q == toNode'[i].req IN
           /\ toNode'[i].id = id[q] /\ q \in pending /\ handler[q] = "none"
           /\ \A j \in 1..Len(toNode') : toNode'[j].kind = "req" /\ toNode'[j].req = q => j = i
           /\ \A j \in 1..Len(toHub) : toHub[j].kind = "res" => toHub[j].req # q
           /\ toNode[1].kind = "req" => toNode[1].req # q
      /\ \A j \in 1..Len(toNode') : toNode'[j].kind = "cancel" =>
           /\ cancel[toNode'[j].req] = "sent"
           /\ \A r \in table : id[r] = toNode'[j].id => r = toNode'[j].req
           /\ \A i \in 1..(j - 1) : toNode'[i].kind = "req" /\ toNode'[i].id = toNode'[j].id => toNode'[i].req = toNode'[j].req
           /\ toNode[1].kind = "req" /\ toNode[1].id = toNode'[j].id => toNode[1].req = toNode'[j].req
  BY <1>1, FrameRead
<1>4. m = toNode[1] /\ (m.kind \in {"req", "cancel"} => m.req \in Requests)
  BY <1>3, DownIs DEF m
<1>5. link = "up"
  BY <1>1 DEF Limits, Types
<1>6. m.kind = "req" => /\ m.id = id[m.req] /\ m.req \in pending /\ handler[m.req] = "none" /\ id[m.req] \in 1..MaxId
                        /\ \A j \in 1..Len(toHub) : toHub[j].kind = "res" => toHub[j].req # m.req
  <2> SUFFICES ASSUME m.kind = "req"
               PROVE  /\ m.id = id[m.req] /\ m.req \in pending /\ handler[m.req] = "none" /\ id[m.req] \in 1..MaxId
                      /\ \A j \in 1..Len(toHub) : toHub[j].kind = "res" => toHub[j].req # m.req
    OBVIOUS
  <2>1. /\ m.id = id[m.req] /\ m.req \in pending /\ handler[m.req] = "none"
        /\ \A j \in 1..Len(toHub) : toHub[j].kind = "res" => toHub[j].req # m.req
    BY <1>3, <1>4 DEF Asked
  <2>2. id[m.req] \in 0..MaxId /\ id[m.req] # 0
    BY <2>1 DEF Types, Lives
  <2> QED
    BY <2>1, <2>2 DEF RequestConstants
\* What every branch but the new handler has in common.
<1>7. ASSUME UNCHANGED <<table, handler>>, odd' \in Nat, NEW S \in SUBSET table, told' = told \cup S,
             \A r \in S : cancel[r] = "sent",
             reply' = <<>> \/ \E x \in ResFrame \cup BareFrame :
               /\ reply' = <<x>>
               /\ x.kind = "res" => m.kind = "req" /\ x.req = m.req /\ x.id = id[m.req] /\ x.code \in {"refused", "busy"}
      PROVE  RequestInv'
  <2>1. told' \in SUBSET Requests
    BY <1>7 DEF Types
  <2>2. /\ reply' \in Seq(ResFrame \cup BareFrame) /\ Len(reply') <= 1
        /\ \A i \in 1..Len(reply') : reply'[i].kind = "res" =>
             m.kind = "req" /\ reply'[i].req = m.req /\ reply'[i].id = id[m.req] /\ reply'[i].code \in {"refused", "busy"}
    <3>1. CASE reply' = <<>>
      BY <3>1
    <3>2. ASSUME NEW x \in ResFrame \cup BareFrame, reply' = <<x>>,
                 x.kind = "res" => m.kind = "req" /\ x.req = m.req /\ x.id = id[m.req] /\ x.code \in {"refused", "busy"}
          PROVE  /\ reply' \in Seq(ResFrame \cup BareFrame) /\ Len(reply') <= 1
                 /\ \A i \in 1..Len(reply') : reply'[i].kind = "res" =>
                      m.kind = "req" /\ reply'[i].req = m.req /\ reply'[i].id = id[m.req] /\ reply'[i].code \in {"refused", "busy"}
      BY <3>2
    <3> QED
      BY <1>7, <3>1, <3>2
  <2>3. Types'
    BY <1>1, <1>3, <1>7, <2>1, <2>2 DEF Types
  <2>4. Limits'
    BY <1>1, <1>5, <1>7 DEF Limits
  <2>5. Lives'
    BY <1>1, <1>7 DEF Lives, Finished
  <2>6. Asked'
    BY <1>1, <1>3, <1>4, <1>7, <2>2 DEF Asked
  <2>7. CancelsFit'
    BY <1>1, <1>3, <1>7 DEF CancelsFit
  <2>8. Replying'
    BY <1>1, <1>6, <1>7, <2>2 DEF Replying
  <2> QED
    BY <1>1, <1>7, <2>3, <2>4, <2>5, <2>6, <2>7, <2>8, Kept
<1>8. odd \in Nat /\ odd + 1 \in Nat /\ {} \in SUBSET table /\ told \cup {} = told
  BY DEF Types
<1>9. CASE m.kind = "cancel" /\ told' = told \cup {r \in table : id[r] = m.id} /\ UNCHANGED <<table, handler, reply, odd>>
  <2> DEFINE S == {r \in table : id[r] = m.id}
  <2>1. cancel[m.req] = "sent" /\ \A r \in S : r = m.req
    BY <1>3, <1>4, <1>9 DEF CancelsFit
  <2>2. S \in SUBSET table
    OBVIOUS
  <2> HIDE DEF S
  <2> QED
    BY <1>1, <1>7, <1>8, <1>9, <2>1, <2>2 DEF S
<1>10. CASE m.kind = "ping" /\ reply' = <<Bare("pong")>> /\ UNCHANGED <<table, handler, told, odd>>
  <2>1. Bare("pong") \in ResFrame \cup BareFrame /\ Bare("pong").kind # "res"
    BY DEF Bare, BareFrame
  <2> QED
    BY <1>7, <1>8, <1>10, <2>1
<1>11. CASE m.kind = "req" /\ OnReq(m) /\ told' = told
  <2>1. \A c \in {"refused", "busy"} : /\ Res(m.req, c) \in ResFrame \cup BareFrame /\ Res(m.req, c).req = m.req
                                       /\ Res(m.req, c).id = id[m.req] /\ Res(m.req, c).code = c
    BY <1>4, <1>6, <1>11 DEF Res, ResFrame
  <2>2. CASE odd' = odd + 1 /\ reply' = <<Res(m.req, "refused")>> /\ UNCHANGED <<table, handler>>
    <3>1. Res(m.req, "refused") \in ResFrame \cup BareFrame /\ Res(m.req, "refused").req = m.req
          /\ Res(m.req, "refused").id = id[m.req] /\ Res(m.req, "refused").code \in {"refused", "busy"}
      BY <2>1
    <3> QED
      BY <1>7, <1>8, <1>11, <2>2, <3>1
  <2>3. CASE reply' = <<Bare("log")>> /\ UNCHANGED <<table, handler, odd>>
    <3>1. Bare("log") \in ResFrame \cup BareFrame /\ Bare("log").kind # "res"
      BY DEF Bare, BareFrame
    <3> QED
      BY <1>7, <1>8, <1>11, <2>3, <3>1
  <2>4. CASE reply' = <<Res(m.req, "busy")>> /\ UNCHANGED <<table, handler, odd>>
    <3>1. Res(m.req, "busy") \in ResFrame \cup BareFrame /\ Res(m.req, "busy").req = m.req
          /\ Res(m.req, "busy").id = id[m.req] /\ Res(m.req, "busy").code \in {"refused", "busy"}
      BY <2>1
    <3> QED
      BY <1>7, <1>8, <1>11, <2>4, <3>1
  <2>5. CASE /\ m.id \notin IdsOf(table) /\ Cardinality(table) < NodeInflight
             /\ table' = table \cup {m.req} /\ handler' = [handler EXCEPT ![m.req] = "running"]
             /\ UNCHANGED <<reply, odd>>
    <3>1. PICK q \in Requests : q = m.req
      BY <1>4, <1>11
    <3>2. /\ handler' \in [Requests -> {"none", "running", "hung", "answered", "gone"}]
          /\ handler'[q] = "running" /\ \A s \in Requests \ {q} : handler'[s] = handler[s]
      BY <2>5, <3>1 DEF Types
    <3>3. /\ q \in pending /\ handler[q] = "none" /\ id[q] # 0 /\ q \notin table /\ ~Finished(q) /\ m.id = id[q]
      BY <1>6, <1>11, <3>1 DEF Lives
    <3>4. Len(reply') = 0 /\ table' = table \cup {q} /\ told' = told
      BY <1>1, <1>11, <2>5, <3>1
    <3>5. Types'
      <4>1. table' \in SUBSET Requests
        BY <3>4 DEF Types
      <4> QED
        BY <1>1, <1>3, <2>5, <3>2, <3>4, <4>1 DEF Types
    <3>6. Limits'
      <4>1. IsFiniteSet(table) /\ Cardinality(table \cup {q}) = Cardinality(table) + 1 /\ Cardinality(table) \in Nat
        BY <3>3, FS_Subset, FS_AddElement, FS_CardinalityType DEF Types, RequestConstants
      <4> DEFINE a == Cardinality(table)
                 b == Cardinality(table')
      <4>2. a \in Nat /\ b = a + 1 /\ a < NodeInflight /\ NodeInflight \in Nat
        BY <2>5, <3>4, <4>1 DEF RequestConstants
      <4> HIDE DEF a, b
      <4>3. b <= NodeInflight
        BY <4>2
      <4> QED
        BY <1>1, <1>5, <4>3 DEF Limits, b
    <3>7. Lives'
      <4>1. \A s \in Requests : s \in table' <=> handler'[s] \in {"running", "hung", "answered"}
        BY <3>2, <3>3, <3>4 DEF Lives
      <4>2. \A s \in Requests : handler'[s] # "none" => id[s] # 0
        BY <3>2, <3>3 DEF Lives
      <4>3. \A s \in Requests : ending[s].code = "ok" => handler'[s] \in {"answered", "gone"}
        BY <3>2, <3>3 DEF Lives, Finished
      <4>4. \A s \in Requests : handler'[s] \in {"running", "hung"} =>
              s \in pending \/ link = "down" \/ (cancel[s] = "sent" /\ ending[s].code = "unavailable")
        BY <3>2, <3>3 DEF Lives
      <4> QED
        BY <1>1, <3>4, <4>1, <4>2, <4>3, <4>4 DEF Lives, Finished
    <3>8. Distinct'
      BY <1>1, <3>3, <3>4 DEF Distinct
    <3>9. Asked'
      <4>1. \A i \in 1..Len(toNode') : toNode'[i].kind = "req" => handler'[toNode'[i].req] = "none"
        <5>1. \A i \in 1..Len(toNode') : toNode'[i].kind = "req" =>
                toNode'[i].req \in Requests \ {q} /\ handler[toNode'[i].req] = "none"
          BY <1>3, <1>4, <1>11, <3>1 DEF Types
        <5> QED
          BY <3>2, <5>1
      <4> QED
        BY <1>1, <1>3, <3>4, <4>1 DEF Asked
    <3>10. CancelsFit'
      <4>1. \A j \in 1..Len(toNode') : toNode'[j].kind = "cancel" => \A r \in table' : id[r] = toNode'[j].id => r = toNode'[j].req
        BY <1>3, <1>4, <1>11, <3>1, <3>3, <3>4
      <4> QED
        BY <1>1, <1>3, <4>1 DEF CancelsFit
    <3>11. Replying'
      BY <3>4 DEF Replying
    <3>12. Answered'
      <4>1. \A i \in 1..Len(toHub) : toHub[i].kind = "res" => toHub[i].req \in Requests \ {q}
        BY <1>6, <1>11, <3>1, FramesAre
      <4> QED
        BY <1>1, <3>2, <4>1 DEF Answered
    <3>13. Emitted'
      <4>1. \A i \in 1..Len(toHub) : toHub[i].kind = "event" => toHub[i].req \in Requests \ {q}
        BY <3>3, FramesAre DEF Emitted
      <4> QED
        BY <1>1, <3>2, <4>1 DEF Emitted
    <3> QED
      BY <1>1, <3>5, <3>6, <3>7, <3>8, <3>9, <3>10, <3>11, <3>12, <3>13, Kept
  <2> QED
    BY <1>11, <2>2, <2>3, <2>4, <2>5 DEF OnReq, Odd
<1> QED
  BY <1>2, <1>9, <1>10, <1>11

LEMMA HangKeeps ==
  ASSUME RequestConstants, RequestInv, NEW r \in Requests, Hang(r)
  PROVE  RequestInv'
<1> USE DEF RequestInv
<1>1. /\ handler[r] = "running" /\ odd' = odd + 1 /\ handler' = [handler EXCEPT ![r] = "hung"]
      /\ UNCHANGED <<link, pending, next_id, id, caller, ending, cancel, queue, got, lost>>
      /\ UNCHANGED <<table, told, sent, reply, toNode, toHub>>
  BY DEF Hang, Odd, hub
<1>2. /\ handler' \in [Requests -> {"none", "running", "hung", "answered", "gone"}]
      /\ handler'[r] = "hung" /\ \A s \in Requests \ {r} : handler'[s] = handler[s]
  BY <1>1 DEF Types
<1>3. \A s \in Requests : /\ handler'[s] \in {"running", "hung"} <=> handler[s] \in {"running", "hung"}
                          /\ \A h \in {"none", "answered", "gone"} : handler'[s] = h <=> handler[s] = h
  BY <1>1, <1>2
<1>4. Types'
  BY <1>1, <1>2 DEF Types
<1>5. Lives'
  BY <1>1, <1>3 DEF Lives, Finished
<1>6. Asked'
  BY <1>1, <1>3 DEF Asked, Types
<1>7. Replying'
  BY <1>1, <1>3 DEF Replying, Types
<1>8. Answered'
  BY <1>1, <1>3, FramesAre DEF Answered
<1>9. Emitted'
  <2>1. \A s \in Requests : (handler[s] # "none" => handler'[s] # "none")
                            /\ (handler[s] \in {"running", "hung"} => handler'[s] \in {"running", "hung"})
    BY <1>3
  <2> QED
    BY <1>1, <2>1, FramesAre DEF Emitted
<1> QED
  BY <1>1, <1>4, <1>5, <1>6, <1>7, <1>8, <1>9, Kept

LEMMA LeaveKeeps ==
  ASSUME RequestConstants, RequestInv, NEW r \in Requests, Leave(r)
  PROVE  RequestInv'
<1> USE DEF RequestInv
<1>1. /\ handler[r] = "answered" /\ table' = table \ {r} /\ handler' = [handler EXCEPT ![r] = "gone"]
      /\ UNCHANGED <<link, pending, next_id, id, caller, ending, cancel, queue, got, lost>>
      /\ UNCHANGED <<told, sent, reply, toNode, toHub, odd>>
  BY DEF Leave, hub
<1>2. /\ handler' \in [Requests -> {"none", "running", "hung", "answered", "gone"}]
      /\ handler'[r] = "gone" /\ \A s \in Requests \ {r} : handler'[s] = handler[s]
  BY <1>1 DEF Types
<1>3. Types'
  BY <1>1, <1>2 DEF Types
<1>4. Limits'
  <2>1. IsFiniteSet(table) /\ table' \subseteq table
    BY <1>1, FS_Subset DEF Types, RequestConstants
  <2>2. Cardinality(table') <= Cardinality(table) /\ Cardinality(table) <= NodeInflight
    BY <2>1, FS_Subset DEF Limits
  <2>3. Cardinality(table') \in Nat /\ Cardinality(table) \in Nat /\ NodeInflight \in Nat
    BY <2>1, FS_Subset, FS_CardinalityType DEF RequestConstants
  <2> DEFINE a == Cardinality(table')
             b == Cardinality(table)
  <2>4. a <= b /\ b <= NodeInflight /\ a \in Nat /\ b \in Nat /\ NodeInflight \in Nat
    BY <2>2, <2>3
  <2> HIDE DEF a, b
  <2>5. a <= NodeInflight
    BY <2>4
  <2> QED
    BY <1>1, <2>5 DEF Limits, a
<1>5. Lives'
  BY <1>1, <1>2 DEF Lives, Finished
<1>6. Distinct'
  BY <1>1 DEF Distinct
<1>7. Asked'
  <2>1. \A i \in 1..Len(toNode) : toNode[i].kind = "req" => handler'[toNode[i].req] = "none"
    BY <1>1, <1>2 DEF Asked, Types
  <2> QED
    BY <1>1, <2>1 DEF Asked
<1>8. CancelsFit'
  BY <1>1 DEF CancelsFit
<1>9. Replying'
  <2>1. \A i \in 1..Len(reply) : reply[i].kind = "res" /\ link = "up" => handler'[reply[i].req] = "none"
    BY <1>1, <1>2 DEF Replying, Types
  <2> QED
    BY <1>1, <2>1 DEF Replying
<1>10. Answered'
  <2>1. \A s \in Requests : (handler[s] = "none" => handler'[s] = "none")
                            /\ (handler[s] \in {"answered", "gone"} => handler'[s] \in {"answered", "gone"})
    BY <1>1, <1>2
  <2> QED
    BY <1>1, <2>1, FramesAre DEF Answered
<1>11. Emitted'
  <2>1. \A s \in Requests : (handler[s] # "none" => handler'[s] # "none")
                            /\ (handler[s] \in {"running", "hung"} => handler'[s] \in {"running", "hung"})
    BY <1>1, <1>2
  <2> QED
    BY <1>1, <2>1, FramesAre DEF Emitted
<1> QED
  BY <1>1, <1>3, <1>4, <1>5, <1>6, <1>7, <1>8, <1>9, <1>10, <1>11, Kept

LEMMA PushKeeps ==
  ASSUME RequestConstants, RequestInv, Push
  PROVE  RequestInv'
<1> USE DEF RequestInv
<1>1. PICK x : x = Bare("push")
  OBVIOUS
<1>2. x \in ResFrame \cup BareFrame /\ x.kind = "push"
  BY <1>1 DEF Bare, BareFrame
<1> DEFINE n == Len(toHub)
<1>3. /\ link = "up" /\ n < QueueMax /\ odd' = odd + 1 /\ toHub' = Append(toHub, x)
      /\ UNCHANGED <<link, pending, next_id, id, caller, ending, cancel, queue, got, lost>>
      /\ UNCHANGED <<table, handler, told, sent, reply, toNode>>
  BY <1>1 DEF Push, HasRoom, put, Odd, hub, node
<1>4. /\ toHub' \in Seq(ResFrame \cup EventFrame \cup BareFrame)
      /\ Len(toHub') = n + 1 /\ n \in Nat /\ toHub'[n + 1] = x
      /\ \A i \in 1..n : toHub'[i] = toHub[i] /\ i \in 1..Len(toHub')
      /\ \A i \in 1..Len(toHub') : i \in 1..n \/ i = n + 1
      /\ Ordered' /\ Whole'
  BY <1>2, <1>3, FramePut
<1>5. \A i \in 1..Len(toHub') : toHub'[i].kind \in {"res", "event"} => i \in 1..n /\ toHub'[i] = toHub[i]
  BY <1>2, <1>4
<1> HIDE DEF n
<1>6. Types'
  BY <1>3, <1>4 DEF Types
<1>7. Limits'
  <2>1. n + 1 <= QueueMax
    BY <1>3, <1>4 DEF RequestConstants
  <2> QED
    BY <1>3, <1>4, <2>1 DEF Limits
<1>8. Asked'
  BY <1>3, <1>5 DEF Asked, n
<1>9. Replying'
  BY <1>3, <1>5 DEF Replying, n
<1>10. Answered'
  <2>1. \A i, j \in 1..Len(toHub') : j \in (i + 1)..Len(toHub') /\ j \in 1..n => j \in (i + 1)..n
    BY <1>4
  <2>2. \A i \in 1..Len(toHub') : \A j \in (i + 1)..Len(toHub') : j \in 1..Len(toHub')
    BY <1>4
  <2> QED
    BY <1>3, <1>5, <2>1, <2>2 DEF Answered, n
<1>11. Emitted'
  BY <1>3, <1>4, <1>5 DEF Emitted, n
<1>12. Uniquely'
  BY <1>3, <1>5 DEF Uniquely, n
<1> QED
  BY <1>3, <1>4, <1>6, <1>7, <1>8, <1>9, <1>10, <1>11, <1>12, Kept

LEMMA ShutdownKeeps ==
  ASSUME RequestConstants, RequestInv, Shutdown
  PROVE  RequestInv'
<1> USE DEF RequestInv
<1>1. /\ link = "down" /\ told' = told \cup table /\ table' = {} /\ reply' = <<>>
      /\ handler' = [s \in Requests |-> IF s \in table THEN "gone" ELSE handler[s]]
      /\ UNCHANGED <<link, pending, next_id, id, caller, ending, cancel, queue, got, lost>>
      /\ UNCHANGED <<sent, toNode, toHub, odd>>
  BY DEF Shutdown, hub
<1>2. toNode = <<>> /\ toHub = <<>> /\ Len(toNode) = 0 /\ Len(toHub) = 0 /\ Len(reply') = 0
  BY <1>1 DEF Limits
<1>3. Types'
  BY <1>1 DEF Types
<1>4. Limits'
  <2>1. Cardinality({}) = 0 /\ NodeInflight \in Nat
    BY FS_EmptySet DEF RequestConstants
  <2> DEFINE a == Cardinality(table')
  <2>2. a <= NodeInflight
    <3>1. a = 0
      BY <1>1, <2>1
    <3> HIDE DEF a
    <3> QED
      BY <2>1, <3>1
  <2> QED
    BY <1>1, <2>2 DEF Limits
<1>5. Lives'
  <2>1. \A s \in Requests : handler'[s] = IF s \in table THEN "gone" ELSE handler[s]
    BY <1>1
  <2> QED
    BY <1>1, <2>1 DEF Lives, Finished, Types
<1>6. Distinct'
  BY <1>1 DEF Distinct
<1>7. Asked' /\ CancelsFit' /\ Replying' /\ Answered' /\ Emitted'
  BY <1>1, <1>2 DEF Asked, CancelsFit, Replying, Answered, Emitted
<1> QED
  BY <1>1, <1>3, <1>4, <1>5, <1>6, <1>7, Kept

\* The answer goes out, and with it the handler is done.
LEMMA AnswersKeeps ==
  ASSUME RequestConstants, RequestInv, NEW r \in Requests, handler[r] \in {"running", "hung"}, Answers(r)
  PROVE  RequestInv'
<1> USE DEF RequestInv
<1> DEFINE n == Len(toHub)
<1>1. /\ n < QueueMax /\ handler' = [handler EXCEPT ![r] = "answered"]
      /\ UNCHANGED <<link, pending, next_id, id, caller, ending, cancel, queue, got, lost>>
      /\ UNCHANGED <<table, told, sent, reply, toNode, odd>>
  BY DEF Answers, HasRoom, hub
<1>2. PICK code \in {"ok", "cancelled"} : toHub' = IF link = "up" THEN Append(toHub, Res(r, code)) ELSE toHub
  BY DEF Answers, put
<1>3. PICK x : x = Res(r, code)
  OBVIOUS
<1>4. /\ handler' \in [Requests -> {"none", "running", "hung", "answered", "gone"}]
      /\ handler'[r] = "answered" /\ \A s \in Requests \ {r} : handler'[s] = handler[s]
  BY <1>1 DEF Types
<1>5. r \in table /\ id[r] # 0 /\ id[r] \in 1..MaxId
  <2>1. r \in table /\ id[r] # 0 /\ id[r] \in 0..MaxId
    BY DEF Lives, Types
  <2> QED
    BY <2>1 DEF RequestConstants
<1>6. x \in ResFrame \cup BareFrame /\ x.kind = "res" /\ x.req = r /\ x.id = id[r]
  BY <1>3, <1>5 DEF Res, ResFrame
<1>7. \A s \in Requests : /\ handler[s] = "none" => handler'[s] = "none" /\ s # r
                          /\ handler[s] \in {"answered", "gone"} => handler'[s] \in {"answered", "gone"} /\ s # r
                          /\ handler[s] # "none" => handler'[s] # "none"
  BY <1>4
<1>8. Lives'
  <2>1. \A s \in Requests : s \in table <=> handler'[s] \in {"running", "hung", "answered"}
    BY <1>4, <1>5 DEF Lives
  <2>2. \A s \in Requests : handler'[s] # "none" => id[s] # 0
    BY <1>4, <1>5 DEF Lives
  <2>3. \A s \in Requests : ending[s].code = "ok" => handler'[s] \in {"answered", "gone"}
    BY <1>7 DEF Lives
  <2>4. \A s \in Requests : handler'[s] \in {"running", "hung"} =>
          s \in pending \/ link = "down" \/ (cancel[s] = "sent" /\ ending[s].code = "unavailable")
    BY <1>4 DEF Lives
  <2> QED
    BY <1>1, <2>1, <2>2, <2>3, <2>4 DEF Lives, Finished
<1>9. CASE link # "up"
  <2>1. toHub' = toHub /\ toHub = <<>> /\ toNode = <<>> /\ Len(toHub) = 0 /\ Len(toNode) = 0
    BY <1>2, <1>9 DEF Limits, Types
  <2>2. Types'
    BY <1>1, <1>4, <2>1 DEF Types
  <2>3. Asked' /\ Answered' /\ Emitted' /\ Replying'
    BY <1>1, <1>9, <2>1 DEF Asked, Answered, Emitted, Replying
  <2> QED
    BY <1>1, <1>8, <2>1, <2>2, <2>3, Kept
<1>10. CASE link = "up"
  <2>1. toHub' = Append(toHub, x)
    BY <1>2, <1>3, <1>10
  <2>2. /\ toHub' \in Seq(ResFrame \cup EventFrame \cup BareFrame)
        /\ Len(toHub') = n + 1 /\ n \in Nat /\ toHub'[n + 1] = x
        /\ \A i \in 1..n : toHub'[i] = toHub[i] /\ i \in 1..Len(toHub')
        /\ \A i \in 1..Len(toHub') : i \in 1..n \/ i = n + 1
        /\ Ordered' /\ Whole'
    BY <1>1, <1>6, <2>1, FramePut
  <2>3. \A i \in 1..n : toHub[i].kind \in {"res", "event"} => toHub[i].req \in Requests
    BY FramesAre
  <2>4. n + 1 \in 1..Len(toHub')
    BY <2>2
  <2> HIDE DEF n
  <2>5. Types'
    BY <1>1, <1>4, <2>2 DEF Types
  <2>6. Limits'
    <3>1. n + 1 <= QueueMax
      BY <1>1, <2>2 DEF RequestConstants
    <3> QED
      BY <1>1, <1>10, <2>2, <3>1 DEF Limits
  <2>7. Asked'
    <3> SUFFICES ASSUME NEW i \in 1..Len(toNode), toNode[i].kind = "req"
                 PROVE  LET q == toNode[i].req IN
                        /\ toNode[i].id = id[q] /\ q \in pending /\ handler'[q] = "none"
                        /\ \A j \in 1..Len(toNode) : toNode[j].kind = "req" /\ toNode[j].req = q => j = i
                        /\ \A j \in 1..Len(toHub') : toHub'[j].kind = "res" => toHub'[j].req # q
                        /\ \A j \in 1..Len(reply) : reply[j].kind = "res" => reply[j].req # q
      BY <1>1 DEF Asked
    <3> DEFINE q == toNode[i].req
    <3>1. /\ toNode[i].id = id[q] /\ q \in pending /\ handler[q] = "none"
          /\ \A j \in 1..Len(toNode) : toNode[j].kind = "req" /\ toNode[j].req = q => j = i
          /\ \A j \in 1..Len(reply) : reply[j].kind = "res" => reply[j].req # q
      BY DEF Asked
    <3>2. \A j \in 1..n : toHub[j].kind = "res" => toHub[j].req # q
      BY DEF Asked, n
    <3>3. handler'[q] = "none" /\ q # r
      BY <1>7, <3>1 DEF Types
    <3> HIDE DEF q
    <3>4. \A j \in 1..Len(toHub') : toHub'[j].kind = "res" => toHub'[j].req # q
      BY <1>6, <2>2, <3>2, <3>3
    <3> QED
      BY <3>1, <3>3, <3>4 DEF q
  <2>8. Replying'
    <3> SUFFICES ASSUME NEW i \in 1..Len(reply), reply[i].kind = "res"
                 PROVE  LET q == reply[i].req IN
                        /\ reply[i].id = id[q] /\ q \in pending /\ handler'[q] = "none" /\ reply[i].code \in {"refused", "busy"}
                        /\ \A j \in 1..Len(toHub') : toHub'[j].kind = "res" => toHub'[j].req # q
      BY <1>1 DEF Replying
    <3> DEFINE q == reply[i].req
    <3>1. reply[i].id = id[q] /\ q \in pending /\ handler[q] = "none" /\ reply[i].code \in {"refused", "busy"}
      BY <1>10 DEF Replying
    <3>2. \A j \in 1..n : toHub[j].kind = "res" => toHub[j].req # q
      BY <1>10 DEF Replying, n
    <3>3. handler'[q] = "none" /\ q # r
      BY <1>7, <3>1 DEF Types
    <3> HIDE DEF q
    <3>4. \A j \in 1..Len(toHub') : toHub'[j].kind = "res" => toHub'[j].req # q
      BY <1>6, <2>2, <3>2, <3>3
    <3> QED
      BY <3>1, <3>3, <3>4 DEF q
  <2>9. Answered'
    <3> SUFFICES ASSUME NEW i \in 1..Len(toHub'), toHub'[i].kind = "res"
                 PROVE  LET q == toHub'[i].req IN
                        /\ toHub'[i].id = id[q] /\ id[q] # 0 /\ handler'[q] \in {"none", "answered", "gone"}
                        /\ toHub'[i].code = "ok" => handler'[q] \in {"answered", "gone"}
                        /\ \A j \in (i + 1)..Len(toHub') : toHub'[j].kind \in {"res", "event"} => toHub'[j].req # q
      BY <1>1 DEF Answered
    <3>1. CASE i = n + 1
      <4>1. \A j \in (i + 1)..Len(toHub') : FALSE
        BY <2>2, <3>1
      <4> QED
        BY <1>4, <1>5, <1>6, <2>2, <3>1, <4>1
    <3>2. CASE i \in 1..n
      <4>1. toHub'[i] = toHub[i] /\ \A j \in (i + 1)..Len(toHub') : (j \in (i + 1)..n /\ toHub'[j] = toHub[j]) \/ (j = n + 1 /\ toHub'[j] = x)
        BY <2>2, <3>2
      <4>2. LET q == toHub[i].req IN
            /\ toHub[i].id = id[q] /\ id[q] # 0 /\ handler[q] \in {"none", "answered", "gone"}
            /\ toHub[i].code = "ok" => handler[q] \in {"answered", "gone"}
            /\ \A j \in (i + 1)..n : toHub[j].kind \in {"res", "event"} => toHub[j].req # q
        BY <3>2, <4>1 DEF Answered, n
      <4>3. toHub[i].req \in Requests /\ toHub[i].req # r
        BY <1>7, <2>3, <3>2, <4>1, <4>2
      <4>4. /\ handler'[toHub[i].req] \in {"none", "answered", "gone"}
            /\ toHub[i].code = "ok" => handler'[toHub[i].req] \in {"answered", "gone"}
        BY <1>7, <4>2, <4>3
      <4> QED
        BY <1>6, <4>1, <4>2, <4>3, <4>4
    <3> QED
      BY <2>2, <3>1, <3>2
  <2>10. Emitted'
    <3> SUFFICES ASSUME NEW i \in 1..Len(toHub'), toHub'[i].kind = "event"
                 PROVE  LET q == toHub'[i].req IN
                        /\ toHub'[i].id = id[q] /\ id[q] # 0 /\ toHub'[i].n <= sent[q] /\ handler'[q] # "none"
                        /\ \/ handler'[q] \in {"running", "hung"}
                           \/ \E j \in 1..Len(toHub') : toHub'[j].kind = "res" /\ toHub'[j].req = q
      BY <1>1 DEF Emitted
    <3>1. i \in 1..n /\ toHub'[i] = toHub[i]
      BY <1>6, <2>2
    <3>2. LET q == toHub[i].req IN
          /\ toHub[i].id = id[q] /\ id[q] # 0 /\ toHub[i].n <= sent[q] /\ handler[q] # "none"
          /\ \/ handler[q] \in {"running", "hung"}
             \/ \E j \in 1..n : toHub[j].kind = "res" /\ toHub[j].req = q
      BY <3>1 DEF Emitted, n
    <3>3. toHub[i].req \in Requests
      BY <2>3, <3>1
    <3>4. CASE toHub[i].req = r
      BY <1>4, <1>6, <2>2, <2>4, <3>1, <3>2, <3>4
    <3>5. CASE toHub[i].req # r
      <4>1. handler'[toHub[i].req] = handler[toHub[i].req]
        BY <1>4, <3>3, <3>5
      <4> QED
        BY <2>2, <3>1, <3>2, <4>1
    <3> QED
      BY <3>4, <3>5
  <2>11. Uniquely'
    <3> SUFFICES ASSUME NEW i \in 1..Len(toHub'), toHub'[i].kind \in {"res", "event"}, NEW s \in pending, id[s] = toHub'[i].id
                 PROVE  s = toHub'[i].req
      BY <1>1 DEF Uniquely
    <3>1. CASE i = n + 1
      BY <1>5, <1>6, <2>2, <3>1 DEF Distinct
    <3>2. CASE i \in 1..n
      BY <2>2, <3>2 DEF Uniquely, n
    <3> QED
      BY <2>2, <3>1, <3>2
  <2> QED
    BY <1>1, <1>8, <2>2, <2>5, <2>6, <2>7, <2>8, <2>9, <2>10, <2>11, Kept
<1> QED
  BY <1>9, <1>10

LEMMA EmitKeeps ==
  ASSUME RequestConstants, RequestInv, NEW r \in Requests, Emit(r)
  PROVE  RequestInv'
<1> USE DEF RequestInv
<1> DEFINE n == Len(toHub)
<1>1. /\ handler[r] = "running" /\ r \in Streams /\ sent[r] < MaxEvents
      /\ sent' = [sent EXCEPT ![r] = sent[r] + 1]
      /\ UNCHANGED <<link, pending, next_id, id, caller, ending, cancel, queue, got, lost>>
      /\ UNCHANGED <<table, handler, told, reply, toNode, odd>>
  BY DEF Emit, hub
<1>2. \/ n < QueueMax /\ toHub' = IF link = "up" THEN Append(toHub, Event(r, sent[r] + 1)) ELSE toHub
      \/ r \in told /\ toHub' = toHub
  BY DEF Emit, HasRoom, put
<1>3. PICK k : k = sent[r]
  OBVIOUS
<1>4. k \in Nat /\ k + 1 \in 1..MaxEvents /\ k + 1 \in 0..MaxEvents
  <2>1. k \in 0..MaxEvents /\ MaxEvents \in Nat /\ k < MaxEvents
    BY <1>1, <1>3 DEF Types, RequestConstants
  <2> QED
    BY <2>1
<1>5. /\ sent' \in [Requests -> 0..MaxEvents] /\ sent'[r] = k + 1 /\ \A s \in Requests \ {r} : sent'[s] = sent[s]
  BY <1>1, <1>3, <1>4 DEF Types
<1>6. \A s \in Requests : sent[s] \in Nat /\ sent'[s] \in Nat /\ sent[s] <= sent'[s]
  <2>1. \A s \in Requests : sent[s] \in 0..MaxEvents
    BY DEF Types
  <2>2. \A s \in Requests \ {r} : sent[s] \in Nat /\ sent[s] <= sent'[s]
    BY <1>5, <2>1 DEF RequestConstants
  <2>3. sent[r] \in Nat /\ sent[r] <= sent'[r]
    BY <1>3, <1>4, <1>5
  <2> QED
    BY <1>5, <2>2, <2>3
<1>7. \A s \in Streams : s \in Requests
  BY DEF RequestConstants
<1>8. r \in table /\ id[r] # 0 /\ id[r] \in 1..MaxId /\ ending[r].code # "ok"
  <2>1. r \in table /\ id[r] # 0 /\ id[r] \in 0..MaxId /\ ending[r].code # "ok"
    BY <1>1 DEF Lives, Types
  <2> QED
    BY <2>1 DEF RequestConstants
<1>9. \A s : Open(s)' = Open(s) /\ Full(s)' = Full(s) /\ Have(s)' = Have(s)
  BY <1>1 DEF Open, Full, Have, Finished
<1>10. NoGap'
  BY <1>1, <1>9 DEF Whole, NoGap
<1>11. AllThere'
  BY <1>1, <1>5, <1>7, <1>8, <1>9 DEF Whole, AllThere
<1>12. \A s \in Streams : /\ \A i \in 1..Len(got[s]) : got[s][i] <= sent'[s]
                          /\ \A i \in 1..Len(queue[s]) : queue[s][i] <= sent'[s]
  <2> SUFFICES ASSUME NEW s \in Streams
               PROVE  /\ \A i \in 1..Len(got[s]) : got[s][i] <= sent'[s]
                      /\ \A i \in 1..Len(queue[s]) : queue[s][i] <= sent'[s]
    OBVIOUS
  <2>1. /\ \A i \in 1..Len(got[s]) : got[s][i] <= sent[s] /\ got[s][i] \in Nat
        /\ \A i \in 1..Len(queue[s]) : queue[s][i] <= sent[s] /\ queue[s][i] \in Nat
    <3>1. MaxEvents \in Nat
      BY DEF RequestConstants
    <3>2. \A i \in 1..Len(got[s]) : got[s][i] \in 1..MaxEvents
      BY FramesAre
    <3>3. \A i \in 1..Len(queue[s]) : queue[s][i] \in 0..MaxEvents
      BY FramesAre
    <3> QED
      BY <3>1, <3>2, <3>3 DEF Ordered
  <2>2. sent[s] \in Nat /\ sent'[s] \in Nat /\ sent[s] <= sent'[s]
    BY <1>6, <1>7
  <2> QED
    BY <2>1, <2>2
<1>13. CASE toHub' = toHub /\ (link # "up" \/ r \in told)
  <2>1. Types'
    BY <1>1, <1>5, <1>13 DEF Types
  <2>2. Emitted'
    <3>1. \A i \in 1..Len(toHub) : toHub[i].kind = "event" => toHub[i].req \in Requests /\ toHub[i].n \in Nat
      BY FramesAre DEF RequestConstants
    <3>2. \A i \in 1..Len(toHub) : toHub[i].kind = "event" => toHub[i].n <= sent'[toHub[i].req]
      <4> SUFFICES ASSUME NEW i \in 1..Len(toHub), toHub[i].kind = "event" PROVE toHub[i].n <= sent'[toHub[i].req]
        OBVIOUS
      <4>1. toHub[i].n <= sent[toHub[i].req] /\ toHub[i].n \in Nat /\ toHub[i].req \in Requests
        BY <3>1 DEF Emitted
      <4>2. sent[toHub[i].req] \in Nat /\ sent'[toHub[i].req] \in Nat /\ sent[toHub[i].req] <= sent'[toHub[i].req]
        BY <1>6, <4>1
      <4> QED
        BY <4>1, <4>2
    <3> QED
      BY <1>1, <1>13, <3>2 DEF Emitted
  <2>3. Ordered'
    BY <1>1, <1>12, <1>13 DEF Ordered, EventOf
  <2>4. Underway'
    <3>1. ~Open(r)
      BY <1>13 DEF Open, Full, Lives
    <3>2. \A s \in Streams : Open(s) => sent'[s] = sent[s]
      BY <1>5, <1>7, <3>1
    <3> QED
      BY <1>1, <1>9, <1>13, <3>2 DEF Whole, Underway, EventOf
  <2> QED
    BY <1>1, <1>10, <1>11, <1>13, <2>1, <2>2, <2>3, <2>4, Kept DEF Whole
<1>14. ASSUME NEW x, x = Event(r, sent[r] + 1), n < QueueMax, link = "up", toHub' = Append(toHub, x)
       PROVE  RequestInv'
  <2>1. x \in EventFrame /\ x.kind = "event" /\ x.req = r /\ x.id = id[r] /\ x.n = k + 1
    BY <1>1, <1>3, <1>4, <1>8, <1>14 DEF Event, EventFrame
  <2>2. /\ toHub' \in Seq(ResFrame \cup EventFrame \cup BareFrame)
        /\ Len(toHub') = n + 1 /\ n \in Nat /\ toHub'[n + 1] = x
        /\ \A i \in 1..n : toHub'[i] = toHub[i]
    <3>1. toHub \in Seq(ResFrame \cup EventFrame \cup BareFrame) /\ x \in ResFrame \cup EventFrame \cup BareFrame
      BY <2>1 DEF Types
    <3> QED
      BY <1>14, <3>1, AppendIs
  <2>3. /\ \A i \in 1..n : i \in 1..Len(toHub')
        /\ \A i \in 1..Len(toHub') : i \in 1..n \/ i = n + 1
        /\ n + 1 \in 1..Len(toHub')
    BY <2>2
  <2>4. /\ \A i \in 1..n : toHub[i].kind \in {"res", "event"} => toHub[i].req \in Requests
        /\ \A i \in 1..n : toHub[i].kind = "event" => toHub[i].n \in Nat /\ toHub[i].n <= sent[toHub[i].req]
    BY FramesAre DEF Emitted, RequestConstants
  <2> HIDE DEF n
  <2>5. Types'
    BY <1>1, <1>5, <2>2 DEF Types
  <2>6. Limits'
    <3>1. n + 1 <= QueueMax
      BY <1>14, <2>2 DEF RequestConstants
    <3> QED
      BY <1>1, <1>14, <2>2, <3>1 DEF Limits
  <2>7. \A i \in 1..Len(toHub') : toHub'[i].kind = "res" => i \in 1..n /\ toHub'[i] = toHub[i]
    BY <2>1, <2>2, <2>3
  <2>8. Asked'
    BY <1>1, <2>7 DEF Asked, n
  <2>9. Replying'
    BY <1>1, <2>7 DEF Replying, n
  <2>10. Answered'
    <3> SUFFICES ASSUME NEW i \in 1..Len(toHub'), toHub'[i].kind = "res"
                 PROVE  LET q == toHub'[i].req IN
                        /\ toHub'[i].id = id[q] /\ id[q] # 0 /\ handler[q] \in {"none", "answered", "gone"}
                        /\ toHub'[i].code = "ok" => handler[q] \in {"answered", "gone"}
                        /\ \A j \in (i + 1)..Len(toHub') : toHub'[j].kind \in {"res", "event"} => toHub'[j].req # q
      BY <1>1 DEF Answered
    <3>1. i \in 1..n /\ toHub'[i] = toHub[i]
      BY <2>7
    <3>2. \A j \in (i + 1)..Len(toHub') : (j \in (i + 1)..n /\ toHub'[j] = toHub[j]) \/ (j = n + 1 /\ toHub'[j] = x)
      BY <2>2, <3>1
    <3>3. LET q == toHub[i].req IN
          /\ toHub[i].id = id[q] /\ id[q] # 0 /\ handler[q] \in {"none", "answered", "gone"}
          /\ toHub[i].code = "ok" => handler[q] \in {"answered", "gone"}
          /\ \A j \in (i + 1)..n : toHub[j].kind \in {"res", "event"} => toHub[j].req # q
      BY <3>1 DEF Answered, n
    <3>4. toHub[i].req # r
      BY <1>1, <3>3
    <3> QED
      BY <2>1, <3>1, <3>2, <3>3, <3>4
  <2>11. Emitted'
    <3> SUFFICES ASSUME NEW i \in 1..Len(toHub'), toHub'[i].kind = "event"
                 PROVE  LET q == toHub'[i].req IN
                        /\ toHub'[i].id = id[q] /\ id[q] # 0 /\ toHub'[i].n <= sent'[q] /\ handler[q] # "none"
                        /\ \/ handler[q] \in {"running", "hung"}
                           \/ \E j \in 1..Len(toHub') : toHub'[j].kind = "res" /\ toHub'[j].req = q
      BY <1>1 DEF Emitted
    <3>1. CASE i = n + 1
      <4>1. k + 1 <= sent'[r]
        BY <1>4, <1>5
      <4> QED
        BY <1>1, <1>8, <2>1, <2>2, <3>1, <4>1
    <3>2. CASE i \in 1..n
      <4>1. toHub'[i] = toHub[i]
        BY <2>2, <3>2
      <4>2. LET q == toHub[i].req IN
            /\ toHub[i].id = id[q] /\ id[q] # 0 /\ toHub[i].n <= sent[q] /\ handler[q] # "none"
            /\ \/ handler[q] \in {"running", "hung"}
               \/ \E j \in 1..n : toHub[j].kind = "res" /\ toHub[j].req = q
        BY <3>2, <4>1 DEF Emitted, n
      <4>3. toHub[i].n \in Nat /\ toHub[i].req \in Requests
        BY <2>4, <3>2, <4>1
      <4>4. toHub[i].n <= sent'[toHub[i].req]
        <5>1. sent[toHub[i].req] \in Nat /\ sent'[toHub[i].req] \in Nat /\ sent[toHub[i].req] <= sent'[toHub[i].req]
          BY <1>6, <4>3
        <5> QED
          BY <4>2, <4>3, <5>1
      <4> QED
        BY <2>2, <2>3, <4>1, <4>2, <4>4
    <3> QED
      BY <2>3, <3>1, <3>2
  <2>12. Uniquely'
    <3> SUFFICES ASSUME NEW i \in 1..Len(toHub'), toHub'[i].kind \in {"res", "event"}, NEW s \in pending, id[s] = toHub'[i].id
                 PROVE  s = toHub'[i].req
      BY <1>1 DEF Uniquely
    <3>1. CASE i = n + 1
      BY <1>8, <2>1, <2>2, <3>1 DEF Distinct
    <3>2. CASE i \in 1..n
      BY <2>2, <3>2 DEF Uniquely, n
    <3> QED
      BY <2>3, <3>1, <3>2
  <2>13. \A s \in Streams : \A i \in 1..Len(toHub') : EventOf(s, i)' =>
          (i \in 1..n /\ EventOf(s, i) /\ toHub'[i] = toHub[i]) \/ (i = n + 1 /\ s = r /\ toHub'[i].n = k + 1)
    BY <2>1, <2>2, <2>3 DEF EventOf
  <2>14. \A s \in Streams : \A i \in 1..n : EventOf(s, i) => i \in 1..Len(toHub') /\ EventOf(s, i)' /\ toHub'[i] = toHub[i]
    BY <2>2, <2>3 DEF EventOf
  <2>15. /\ \A i \in 1..n : EventOf(r, i) => toHub[i].n < k + 1
         /\ \A i \in 1..Len(got[r]) : got[r][i] < k + 1
         /\ \A i \in 1..Len(queue[r]) : queue[r][i] < k + 1
    <3>1. \A i \in 1..n : EventOf(r, i) => toHub[i].n \in Nat /\ toHub[i].n <= k
      BY <1>3, <2>4 DEF EventOf
    <3>2. \A i \in 1..Len(got[r]) : got[r][i] \in 1..MaxEvents /\ got[r][i] <= k
      BY <1>1, <1>3, FramesAre DEF Ordered
    <3>3. \A i \in 1..Len(queue[r]) : queue[r][i] \in 0..MaxEvents /\ queue[r][i] <= k
      BY <1>1, <1>3, FramesAre DEF Ordered
    <3>4. MaxEvents \in Nat
      BY DEF RequestConstants
    <3>5. \A i \in 1..n : EventOf(r, i) => toHub[i].n < k + 1
      BY <1>4, <3>1
    <3>6. \A i \in 1..Len(got[r]) : got[r][i] < k + 1
      BY <1>4, <3>2, <3>4
    <3>7. \A i \in 1..Len(queue[r]) : queue[r][i] < k + 1
      BY <1>4, <3>3, <3>4
    <3> QED
      BY <3>5, <3>6, <3>7
  <2>16. Ordered'
    <3> SUFFICES ASSUME NEW s \in Streams
                 PROVE  /\ \A i, j \in 1..Len(got[s]) : i < j => got[s][i] < got[s][j]
                        /\ \A i, j \in 1..Len(queue[s]) : i < j /\ queue[s][j] # End => queue[s][i] < queue[s][j]
                        /\ \A i, j \in 1..Len(toHub') : i < j /\ EventOf(s, i)' /\ EventOf(s, j)' => toHub'[i].n < toHub'[j].n
                        /\ \A i \in 1..Len(got[s]), j \in 1..Len(queue[s]) : queue[s][j] # End => got[s][i] < queue[s][j]
                        /\ \A i \in 1..Len(got[s]), j \in 1..Len(toHub') : EventOf(s, j)' => got[s][i] < toHub'[j].n
                        /\ \A i \in 1..Len(queue[s]), j \in 1..Len(toHub') : EventOf(s, j)' => queue[s][i] < toHub'[j].n
                        /\ \A i \in 1..Len(got[s]) : got[s][i] <= sent'[s]
                        /\ \A i \in 1..Len(queue[s]) : queue[s][i] <= sent'[s]
      BY <1>1 DEF Ordered
    <3>1. /\ \A i, j \in 1..Len(got[s]) : i < j => got[s][i] < got[s][j]
          /\ \A i, j \in 1..Len(queue[s]) : i < j /\ queue[s][j] # End => queue[s][i] < queue[s][j]
          /\ \A i \in 1..Len(got[s]), j \in 1..Len(queue[s]) : queue[s][j] # End => got[s][i] < queue[s][j]
      BY DEF Ordered
    <3>2. \A i, j \in 1..n : i < j /\ EventOf(s, i) /\ EventOf(s, j) => toHub[i].n < toHub[j].n
      BY DEF Ordered, n
    <3>3. /\ \A i \in 1..Len(got[s]), j \in 1..n : EventOf(s, j) => got[s][i] < toHub[j].n
          /\ \A i \in 1..Len(queue[s]), j \in 1..n : EventOf(s, j) => queue[s][i] < toHub[j].n
      BY DEF Ordered, n
    <3>4. \A i, j \in 1..Len(toHub') : i < j /\ EventOf(s, i)' /\ EventOf(s, j)' => toHub'[i].n < toHub'[j].n
      <4> SUFFICES ASSUME NEW i \in 1..Len(toHub'), NEW j \in 1..Len(toHub'), i < j, EventOf(s, i)', EventOf(s, j)'
                   PROVE  toHub'[i].n < toHub'[j].n
        OBVIOUS
      <4>1. i \in 1..n
        BY <2>2, <2>3
      <4>2. EventOf(s, i) /\ toHub'[i] = toHub[i]
        BY <2>2, <2>13, <4>1
      <4>3. CASE j \in 1..n
        <5>1. EventOf(s, j) /\ toHub'[j] = toHub[j]
          BY <2>2, <2>13, <4>3
        <5> QED
          BY <3>2, <4>1, <4>2, <4>3, <5>1
      <4>4. CASE j = n + 1
        <5>1. s = r /\ toHub'[j].n = k + 1
          BY <2>2, <2>13, <4>4
        <5> QED
          BY <2>15, <4>1, <4>2, <5>1
      <4> QED
        BY <2>3, <4>3, <4>4
    <3>5. \A i \in 1..Len(got[s]), j \in 1..Len(toHub') : EventOf(s, j)' => got[s][i] < toHub'[j].n
      BY <2>13, <2>15, <3>3
    <3>6. \A i \in 1..Len(queue[s]), j \in 1..Len(toHub') : EventOf(s, j)' => queue[s][i] < toHub'[j].n
      BY <2>13, <2>15, <3>3
    <3> QED
      BY <1>12, <3>1, <3>4, <3>5, <3>6
  <2>17. Underway'
    <3> SUFFICES ASSUME NEW s \in Streams, Open(s)
                 PROVE  /\ Have(s) <= sent'[s]
                        /\ \A i \in 1..Len(toHub') : EventOf(s, i)' => toHub'[i].n > Have(s)
                        /\ \A v \in (Have(s) + 1)..sent'[s] : \E i \in 1..Len(toHub') : EventOf(s, i)' /\ toHub'[i].n = v
      BY <1>9 DEF Underway
    <3>1. /\ Have(s) <= sent[s]
          /\ \A i \in 1..n : EventOf(s, i) => toHub[i].n > Have(s)
          /\ \A v \in (Have(s) + 1)..sent[s] : \E i \in 1..n : EventOf(s, i) /\ toHub[i].n = v
      BY DEF Whole, Underway, n
    <3>2. Have(s) \in Nat
      <4> DEFINE g == Len(got[s])
                 l == Len(queue[s])
      <4>1. g \in Nat /\ l \in Nat
        BY FramesAre
      <4> HIDE DEF g, l
      <4>2. g + l \in Nat
        BY <4>1
      <4> QED
        BY <4>2 DEF Have, g, l
    <3>3. Have(s) <= sent'[s]
      BY <1>6, <1>7, <3>1, <3>2
    <3>4. s = r => k + 1 > Have(s)
      BY <1>3, <1>4, <3>1, <3>2
    <3>5. \A i \in 1..Len(toHub') : EventOf(s, i)' => toHub'[i].n > Have(s)
      BY <2>13, <3>1, <3>4
    <3>6. ASSUME NEW v \in (Have(s) + 1)..sent'[s]
          PROVE  \E i \in 1..Len(toHub') : EventOf(s, i)' /\ toHub'[i].n = v
      <4>1. CASE v \in (Have(s) + 1)..sent[s]
        <5>1. PICK i \in 1..n : EventOf(s, i) /\ toHub[i].n = v
          BY <3>1, <4>1
        <5> QED
          BY <2>14, <5>1
      <4>2. CASE s = r /\ v = k + 1
        <5>1. PICK i \in 1..Len(toHub') : i = n + 1
          BY <2>3
        <5>2. toHub'[i] = x
          BY <2>2, <5>1
        <5>3. EventOf(s, i)' /\ toHub'[i].n = v
          BY <2>1, <4>2, <5>2 DEF EventOf
        <5> QED
          BY <5>3
      <4>3. v \in (Have(s) + 1)..sent[s] \/ (s = r /\ v = k + 1)
        <5>1. CASE s # r
          BY <1>5, <1>7, <5>1
        <5>2. CASE s = r
          <6>1. v \in (Have(r) + 1)..(k + 1) /\ Have(r) \in Nat
            BY <1>5, <3>2, <5>2
          <6>2. v \in (Have(r) + 1)..k \/ v = k + 1
            BY <1>4, <6>1
          <6> QED
            BY <1>3, <5>2, <6>2
        <5> QED
          BY <5>1, <5>2
      <4> QED
        BY <4>1, <4>2, <4>3
    <3> QED
      BY <3>3, <3>5, <3>6
  <2> QED
    BY <1>1, <1>10, <1>11, <2>5, <2>6, <2>8, <2>9, <2>10, <2>11, <2>12, <2>16, <2>17, Kept DEF Whole
<1> QED
  BY <1>2, <1>13, <1>14

-----------------------------------------------------------------------------
(* The theorems.                                                           *)

LEMMA RequestInit ==
  ASSUME RequestConstants, Init
  PROVE  RequestInv
<1> USE DEF Init, NotEnded
<1>1. Len(toNode) = 0 /\ Len(toHub) = 0 /\ Len(reply) = 0
  OBVIOUS
<1>2. \A r \in Streams : Len(queue[r]) = 0 /\ Len(got[r]) = 0 /\ r \in Requests
  BY DEF RequestConstants
<1>3. Types
  <2>1. ending \in [Requests -> [code : Codes \cup {"none"}, from : Requests]]
    <3>1. \A r \in Requests : [code |-> "none", from |-> r] \in [code : Codes \cup {"none"}, from : Requests]
      OBVIOUS
    <3> QED
      BY <3>1
  <2>2. 1 \in 1..MaxId /\ 0 \in 0..MaxId /\ 0 \in 0..MaxEvents
    BY DEF RequestConstants
  <2>3. queue \in [Streams -> Seq(0..MaxEvents)] /\ got \in [Streams -> Seq(1..MaxEvents)]
    OBVIOUS
  <2>4. /\ reply \in Seq(ResFrame \cup BareFrame) /\ toNode \in Seq(DownFrame)
        /\ toHub \in Seq(ResFrame \cup EventFrame \cup BareFrame)
    OBVIOUS
  <2> QED
    BY <1>1, <2>1, <2>2, <2>3, <2>4 DEF Types
<1>4. Limits
  <2>1. Cardinality({}) = 0 /\ HubInflight \in Nat /\ NodeInflight \in Nat /\ QueueMax \in Nat
    BY FS_EmptySet DEF RequestConstants
  <2>2. Cardinality(pending) = 0 /\ Cardinality(table) = 0
    BY <2>1
  <2> DEFINE a == Cardinality(pending)
             b == Cardinality(table)
  <2>3. a = 0 /\ b = 0
    BY <2>2
  <2> HIDE DEF a, b
  <2>4. a <= HubInflight /\ b <= NodeInflight
    BY <2>1, <2>3
  <2>5. Len(toHub) <= QueueMax
    BY <1>1, <2>1
  <2> QED
    BY <2>4, <2>5 DEF Limits, a, b
<1>5. Lives
  BY DEF Lives, Finished
<1>6. Distinct
  BY DEF Distinct
<1>7. Asked /\ CancelsFit /\ Replying /\ Answered /\ Emitted /\ Uniquely
  BY <1>1 DEF Asked, CancelsFit, Replying, Answered, Emitted, Uniquely
<1>8. Marked
  <2>1. \A r \in Streams : ending[r].code = "none"
    BY <1>2
  <2>2. MaxQueued \in Nat
    BY DEF RequestConstants
  <2> QED
    BY <1>2, <2>1, <2>2 DEF Marked
<1>9. Ordered
  BY <1>1, <1>2 DEF Ordered
<1>10. Whole
  <2>1. \A r \in Streams : ending[r].code = "none" /\ sent[r] = 0
    BY <1>2
  <2>2. \A r \in Streams : Have(r) = 0
    BY <1>2 DEF Have
  <2>3. NoGap
    BY <1>2 DEF NoGap
  <2>4. Underway
    <3> SUFFICES ASSUME NEW r \in Streams
                 PROVE  /\ Have(r) <= sent[r]
                        /\ \A i \in 1..Len(toHub) : EventOf(r, i) => toHub[i].n > Have(r)
                        /\ \A n \in (Have(r) + 1)..sent[r] : \E i \in 1..Len(toHub) : EventOf(r, i) /\ toHub[i].n = n
      BY DEF Underway
    <3>1. Have(r) = 0 /\ sent[r] = 0
      BY <2>1, <2>2
    <3>2. \A n \in 1..0 : FALSE
      OBVIOUS
    <3>3. \A i \in 1..Len(toHub) : FALSE
      BY <1>1
    <3> QED
      BY <3>1, <3>2, <3>3
  <2>5. AllThere
    BY <2>1 DEF AllThere
  <2> QED
    BY <2>3, <2>4, <2>5 DEF Whole
<1> QED
  BY <1>3, <1>4, <1>5, <1>6, <1>7, <1>8, <1>9, <1>10 DEF RequestInv

LEMMA RequestStep ==
  ASSUME RequestConstants, RequestInv, [Next]_vars
  PROVE  RequestInv'
<1>1. CASE UNCHANGED vars
  <2>1. Types'
    BY <1>1 DEF RequestInv, Types, vars, hub, node
  <2> QED
    BY <1>1, <2>1, Kept DEF RequestInv, vars, hub, node
<1>2. ASSUME NEW r \in Requests, Caller(r) PROVE RequestInv'
  <2>1. CASE GiveUp(r)
    <3>1. caller' = [caller EXCEPT ![r] = "returned"] /\ (odd' = odd \/ odd' = odd + 1)
      BY <2>1 DEF GiveUp, Impatient, Odd
    <3> QED
      BY <2>1, <3>1, CancelKeeps DEF GiveUp
  <2>2. CASE Cancel(r)
    <3>1. caller' = caller /\ (odd' = odd \/ odd' = odd + 1)
      BY <2>2 DEF Cancel, Impatient, Odd
    <3> QED
      BY <2>2, <3>1, CancelKeeps DEF Cancel
  <2> QED
    BY <1>2, <2>1, <2>2, BeginRefusedKeeps, BeginKeeps, NextItemKeeps, ReturnKeeps DEF Caller
<1>3. ASSUME NEW r \in Requests, Handler(r) PROVE RequestInv'
  <2>1. CASE Answer(r) \/ LateAnswer(r)
    <3>1. handler[r] \in {"running", "hung"} /\ Answers(r)
      BY <2>1 DEF Answer, LateAnswer
    <3> QED
      BY <3>1, AnswersKeeps
  <2> QED
    BY <1>3, <2>1, EmitKeeps, HangKeeps, LeaveKeeps DEF Handler
<1>4. CASE HubRead
  BY <1>4, HubReadsResKeeps, HubReadsEventKeeps, HubReadsOtherKeeps
<1> QED
  BY <1>1, <1>2, <1>3, <1>4, ForgetKeeps, PingKeeps, LinkDropsKeeps, NodeReadKeeps, NodeReplyKeeps, PushKeeps, ShutdownKeeps DEF Next

\* The invariant says what the properties say.
LEMMA RequestImplies ==
  ASSUME RequestConstants, RequestInv
  PROVE  TypeOK /\ AnswerIsOwn /\ SlotsAgree /\ StreamInOrder
<1> USE DEF RequestInv
<1>1. TypeOK
  <2>1. \A r \in Streams : queue[r] \in Seq(0..MaxEvents) /\ Len(queue[r]) <= MaxQueued + 1
    BY DEF Types, Marked
  <2> QED
    BY <2>1 DEF TypeOK, Types, Limits
<1>2. AnswerIsOwn
  BY DEF AnswerIsOwn, Lives
<1>3. SlotsAgree
  BY DEF SlotsAgree, Lives, Types
<1>4. StreamInOrder
  <2> SUFFICES ASSUME NEW r \in Streams, ending[r].code = "ok", queue[r] # <<>>, Head(queue[r]) = End,
                      cancel[r] = "no", r \notin lost
               PROVE  got[r] = [i \in 1..sent[r] |-> i]
    BY DEF StreamInOrder, Ordered
  <2>1. Full(r)
    BY DEF Full
  <2>2. got[r] \in Seq(1..MaxEvents) /\ queue[r] \in Seq(0..MaxEvents) /\ sent[r] \in Nat
    BY DEF Types, RequestConstants
  <2>3. Len(queue[r]) = 1
    <3>1. Len(queue[r]) \in Nat \ {0} /\ queue[r][1] = End /\ 1 \in 1..Len(queue[r])
      BY <2>2, TailIs
    <3> QED
      BY <3>1 DEF Marked
  <2>4. Len(got[r]) = sent[r]
    <3> DEFINE g == Len(got[r])
               s == sent[r]
    <3>1. Have(r) = s + 1
      BY <2>1 DEF Whole, AllThere
    <3>2. Have(r) = g + 1 /\ g \in Nat /\ s \in Nat
      BY <2>2, <2>3 DEF Have
    <3> HIDE DEF g, s
    <3>3. g = s
      BY <3>1, <3>2
    <3> QED
      BY <3>3 DEF g, s
  <2>5. \A i \in 1..Len(got[r]) : got[r][i] = i
    BY <2>1 DEF Whole, NoGap
  <2>6. got[r] = [i \in 1..Len(got[r]) |-> got[r][i]]
    BY <2>2
  <2> QED
    BY <2>4, <2>5, <2>6
<1> QED
  BY <1>1, <1>2, <1>3, <1>4

\* Both request tables and the wire between them stay in RequestInv, whatever
\* is refused, cancelled, forgotten or late (fleet.rs begin/on_json, server.rs on_req/handle).
THEOREM RequestInvariant ==
  ASSUME RequestConstants
  PROVE  Spec => []RequestInv
<1>1. Init => RequestInv
  BY RequestInit
<1>2. RequestInv /\ [Next]_vars => RequestInv'
  BY RequestStep
<1> QED
  BY <1>1, <1>2, PTL DEF Spec

\* An answer reaches its own request although ids are used again, the node runs
\* nothing behind the hub's back, and a stream that neither lagged nor was
\* cancelled delivers every event in order, for any number of requests and ids
\* (fleet.rs on_json "res" and "event", finish, next; server.rs on_req, handle).
THEOREM AnswersAreOwn == SuiteSpec => []AnswersMatch
<1> DEFINE Inv == part = "requests" => RequestInv
<1>1. RequestConstants
  BY RequestAssumption
<1>2. SuiteInit => Inv
  BY <1>1, RequestInit DEF SuiteInit
<1>3. Inv /\ [SuiteNext]_suiteVars => Inv'
  <2> SUFFICES ASSUME Inv, [SuiteNext]_suiteVars, part' = "requests" PROVE RequestInv'
    OBVIOUS
  <2>1. part = "requests" /\ [Next]_vars
    BY DEF SuiteNext, suiteVars
  <2> QED
    BY <1>1, <2>1, RequestStep
<1>4. Inv => AnswersMatch
  BY <1>1, RequestImplies DEF AnswersMatch
<1> QED
  BY <1>2, <1>3, <1>4, PTL DEF SuiteSpec
=============================================================================
