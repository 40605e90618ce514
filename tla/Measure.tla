------------------------------- MODULE Measure -------------------------------
(***************************************************************************)
(* One level of a benchmark (services/bench.rs): its requests are streamed *)
(* chat completions, each timed by one_request, and summarize folds them.  *)
(* Time is counted in ticks.  An event of the stream carries tokens, the   *)
(* usage, or neither; several may arrive in one tick.                      *)
(***************************************************************************)
EXTENDS Integers, Sequences, SequencesExt, FiniteSetsExt, FiniteSets

CONSTANTS Requests,    \* concurrency * rounds
          MaxTicks, MaxEvents

None == -1

VARIABLES
    now,      \* ticks since t0
    pc,       \* the request in hand: opening, streaming, or all done
    last,     \* `last`
    stat,     \* its ReqStat
    events,   \* when each token event of it arrived
    stats     \* the finished requests, with those times

vars == <<now, pc, last, stat, events, stats>>
ReqStat == [ttft |-> None, e2e |-> 0, itl |-> <<>>, completion |-> 0, error |-> FALSE]

Init ==
    /\ now = 0 /\ pc = "open" /\ last = 0 /\ stat = ReqStat /\ events = <<>> /\ stats = <<>>

Finish(st) ==
    /\ stats' = Append(stats, [st |-> st, at |-> events])
    /\ pc' = IF Len(stats) + 1 < Requests THEN "open" ELSE "done"
    /\ now' = 0 /\ last' = 0 /\ stat' = ReqStat /\ events' = <<>>

Tick == pc # "done" /\ now < MaxTicks /\ now' = now + 1 /\ UNCHANGED <<pc, last, stat, events, stats>>

\* The node refused, timed out or could not reach the engine.
OpenFails == pc = "open" /\ Finish([stat EXCEPT !.error = TRUE, !.e2e = now])
\* Any status but 200 returns before e2e is measured.
BadStatus == pc = "open" /\ Finish([stat EXCEPT !.error = TRUE])
Opened == pc = "open" /\ pc' = "stream" /\ UNCHANGED <<now, last, stat, events, stats>>

TimedOff(t) ==    \* mutant: the first event is a gap as well
    [stat EXCEPT !.ttft = IF @ = None THEN t ELSE @, !.itl = Append(@, t - last)]
\* The first tokens give ttft, each later event a gap since the one before.
Timed(t) ==
    IF stat.ttft = None THEN [stat EXCEPT !.ttft = t] ELSE [stat EXCEPT !.itl = Append(@, t - last)]
Tokens ==
    /\ pc = "stream" /\ Len(events) < MaxEvents
    /\ stat' = Timed(now) /\ last' = now /\ events' = Append(events, now)
    /\ UNCHANGED <<now, pc, stats>>
\* The usage is the one told last; an engine may send none.
Usage(n) ==
    /\ pc = "stream" /\ stat' = [stat EXCEPT !.completion = n]
    /\ UNCHANGED <<now, pc, last, events, stats>>
StreamEnds == pc = "stream" /\ \E e \in BOOLEAN : Finish([stat EXCEPT !.error = e, !.e2e = now])

Next ==
    \/ Tick \/ OpenFails \/ BadStatus \/ Opened \/ Tokens \/ StreamEnds
    \/ \E n \in 0..1 : Usage(n)
Spec == Init /\ [][Next]_vars

------------------------------------------------------------------------------
\* summarize: the requests that count, and the rates over them.
Ok == SelectSeq(stats, LAMBDA r : ~r.st.error /\ r.st.ttft # None)
Errors == Len(stats) - Len(Ok)
Itl == FlattenSeq([i \in DOMAIN Ok |-> Ok[i].st.itl])
Decoded == SelectSeq(Ok, LAMBDA r : r.st.e2e > r.st.ttft /\ r.st.completion # 0)
SumOf(s) == FoldSeq(LAMBDA x, y : x + y, 0, s)

\* The figures of a level are those of the streams that brought tokens: every
\* gap between two events of one request is counted once, none reaches from
\* one request into another, and the time to the first token, the gaps and the
\* rest of the stream add up to the whole request.
TimesAddUp ==
    pc = "done" =>
        /\ Len(Itl) = SumOf([i \in DOMAIN Ok |-> Len(Ok[i].at) - 1])
        /\ \A i \in DOMAIN Ok :
               /\ Ok[i].st.ttft + SumOf(Ok[i].st.itl) = Ok[i].at[Len(Ok[i].at)]
               /\ Ok[i].at[Len(Ok[i].at)] <= Ok[i].st.e2e
        /\ \A i \in DOMAIN stats : ~stats[i].st.error /\ stats[i].at = <<>> => Errors > 0
        /\ \A i \in DOMAIN Decoded : Decoded[i].st.e2e - Decoded[i].st.ttft > 0
==============================================================================
