------------------------------- MODULE Quality -------------------------------
(***************************************************************************)
(* A quality run (services/quality.rs): every scenario is a conversation   *)
(* with a ready engine.  A round sends all messages, parses and validates  *)
(* each tool call of the reply, simulates it and sends the results back;   *)
(* the rounds end at a reply without calls, at an error or at max_rounds.  *)
(* The run is then scored rule by rule and added to the suite's totals.    *)
(*                                                                         *)
(* A call is what the engine wrote: [name, kind, args], with kind one of   *)
(* "broken" (not JSON), "list" (JSON, no object) and "object", and args a  *)
(* set of <<key, value>> pairs.  Fold lowers a key as the judge does.      *)
(***************************************************************************)
EXTENDS Naturals, Sequences, SequencesExt, FiniteSets

CONSTANTS
    Tools,      \* name -> [required, params: key -> the values of its type, impl]
    Fold,       \* key -> key: str.strip().casefold()
    Replies,    \* sequences of calls an engine may send in one round
    Answers,    \* what a reply without calls may say; "" is no answer
    Criteria,   \* sequence of [type, name, position, params, values]
    Expected,   \* sequence of [name, params]
    MaxRounds, Repeats

VARIABLES
    pc,        \* ask: a request is due; score; done
    round,     \* rounds_used
    messages,  \* the conversation: roles and, for an assistant turn, its number of calls
    calls,     \* the CallRecords so far
    perName,   \* per_name_count
    answer, error,
    total      \* run_suite's sums: runs, passed criteria, criteria, completed

vars == <<pc, round, messages, calls, perName, answer, error, total>>

Names == {r.name : r \in UNION {ToSet(s) : s \in Replies}}
Opening == <<[role |-> "system", n |-> 0], [role |-> "user", n |-> 0]>>
Fresh ==
    /\ pc' = "ask" /\ round' = 1 /\ messages' = Opening /\ calls' = <<>>
    /\ perName' = [n \in Names |-> 0] /\ answer' = "" /\ error' = FALSE

Init ==
    /\ pc = "ask" /\ round = 1 /\ messages = Opening /\ calls = <<>>
    /\ perName = [n \in Names |-> 0] /\ answer = "" /\ error = FALSE
    /\ total = [runs |-> 0, passed |-> 0, criteria |-> 0, completed |-> 0, errors |-> 0]

------------------------------------------------------------------------------
\* validate_against_schema, and the checks of run_one before it.
Keys(c) == {p[1] : p \in c.args}
Problem(c) ==
    \/ c.kind = "broken"
    \/ c.name \notin DOMAIN Tools
    \/ /\ c.name \in DOMAIN Tools
       /\ LET t == Tools[c.name] IN
          \/ c.kind = "list"
          \/ \E r \in t.required : r \notin {Fold[k] : k \in Keys(c)}
          \/ \E p \in c.args : Fold[p[1]] \notin DOMAIN t.params \/ p[2] \notin t.params[Fold[p[1]]]

\* simulate_tool: a constant, or a rule over the arguments as they were written.
Simulated(c) ==
    IF c.kind # "object" \/ c.name \notin DOMAIN Tools THEN "error"
    ELSE IF Tools[c.name].impl \subseteq c.args THEN "success" ELSE "failure"

------------------------------------------------------------------------------
\* One round of run_one.
ChatFails ==
    /\ pc = "ask" /\ error' = TRUE /\ pc' = "score"
    /\ UNCHANGED <<round, messages, calls, perName, answer, total>>

ChatAnswers(text) ==
    /\ pc = "ask" /\ answer' = text /\ pc' = "score"
    /\ messages' = Append(messages, [role |-> "assistant", n |-> 0])
    /\ UNCHANGED <<round, calls, perName, error, total>>

Before(seq, i) == Cardinality({j \in 1..(i - 1) : seq[j].name = seq[i].name})
SeqIndexAny(reply, i) == Len(calls) + (i - 1)    \* mutant: one counter for all names
SeqIndex(reply, i) == perName[reply[i].name] + Before(reply, i)
Record(reply, i) ==
    [call |-> reply[i], valid |-> ~Problem(reply[i]), seq |-> SeqIndex(reply, i),
     result |-> Simulated(reply[i])]
Turn(reply) ==
    <<[role |-> "assistant", n |-> Len(reply)]>> \o [i \in 1..Len(reply) |-> [role |-> "tool", n |-> 0]]

ChatCalls(reply) ==
    /\ pc = "ask"
    /\ messages' = messages \o Turn(reply)
    /\ calls' = calls \o [i \in 1..Len(reply) |-> Record(reply, i)]
    /\ perName' = [n \in Names |-> perName[n] + Cardinality({i \in 1..Len(reply) : reply[i].name = n})]
    /\ IF round < MaxRounds THEN round' = round + 1 /\ pc' = "ask" ELSE round' = round /\ pc' = "score"
    /\ UNCHANGED <<answer, error, total>>

------------------------------------------------------------------------------
\* The judge.
CallsOf(name) == SelectSeq(calls, LAMBDA c : c.call.name = name)
NthCall(name, position) ==
    IF position < Len(CallsOf(name)) THEN {CallsOf(name)[position + 1]} ELSE {}
Got(c) == IF c.call.kind = "object" THEN c.call.args ELSE {}
\* The wanted key is folded, the key of the call is not.
Matches(c, want) == \A p \in want : <<Fold[p[1]], p[2]>> \in Got(c)

\* (of its one parameter; `values` are the values whose text contains what is asked)
Contained(c, k) == \A p \in k.params : \E q \in Got(c) : q[1] = p[1] /\ q[2] \in k.values
Holds(k) ==
    CASE k.type = "call_made" -> CallsOf(k.name) # <<>>
      [] k.type = "params_exact" -> \E c \in NthCall(k.name, k.position) : Matches(c, k.params)
      [] k.type = "params_exact_any" -> \E c \in ToSet(CallsOf(k.name)) : Matches(c, k.params)
      [] k.type = "param_absent" ->
             \E c \in NthCall(k.name, k.position) : \A p \in k.params : p[1] \notin {q[1] : q \in Got(c)}
      [] k.type = "param_contains" -> \E c \in NthCall(k.name, k.position) : Contained(c, k)
      [] k.type = "answer_contains" -> answer \in k.values
CheckCriteria == {i \in DOMAIN Criteria : Holds(Criteria[i])}

ExpectedFor(name) == SelectSeq(Expected, LAMBDA e : e.name = name)
ExpectedMatch(c) ==
    LET mine == ExpectedFor(c.call.name)
    IN  mine # <<>> /\ Matches(c, mine[IF c.seq < Len(mine) THEN c.seq + 1 ELSE Len(mine)].params)
ParamAccuracy == \A c \in ToSet(calls) : c.valid /\ ExpectedFor(c.call.name) # <<>> => ExpectedMatch(c)
Completed == CheckCriteria = DOMAIN Criteria /\ Criteria # <<>> /\ ~error

\* score_run and run_suite's sums; `errors` counts every entry, since each one has the key.
ScoreRun ==
    /\ pc = "score"
    /\ total' = [runs |-> total.runs + 1, passed |-> total.passed + Cardinality(CheckCriteria),
                 criteria |-> total.criteria + Len(Criteria),
                 completed |-> total.completed + IF Completed THEN 1 ELSE 0,
                 errors |-> total.errors + 1]
    /\ IF total.runs + 1 < Repeats THEN Fresh
       ELSE pc' = "done" /\ UNCHANGED <<round, messages, calls, perName, answer, error>>

Next ==
    \/ ChatFails \/ ScoreRun
    \/ \E text \in Answers : ChatAnswers(text)
    \/ \E reply \in Replies : ChatCalls(reply)

Spec == Init /\ [][Next]_vars

------------------------------------------------------------------------------
\* The number a call got while the conversation ran is its place among the
\* calls of its name, which is how the judge finds it; so a conversation that
\* makes the expected calls, name by name and in the order expected, is accurate.
PositionsAgree ==
    /\ \A i \in DOMAIN calls : NthCall(calls[i].call.name, calls[i].seq) = {calls[i]}
    /\ (\A e \in ToSet(Expected) :
           LET made == CallsOf(e.name) mine == ExpectedFor(e.name)
           IN  /\ Len(made) = Len(mine)
               /\ \A i \in 1..Len(made) : Matches(made[i], mine[i].params))
       => ParamAccuracy
==============================================================================
