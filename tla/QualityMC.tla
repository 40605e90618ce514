------------------------------ MODULE QualityMC ------------------------------
(* One tool without parameters and one that needs `n`; calls that are right, *)
(* wrong, misspelt, unreadable, of an unknown tool; a criterion of each type. *)
EXTENDS Sequences

ToolCall(n, k, a) == [name |-> n, kind |-> k, args |-> a]
Book(k, a) == ToolCall("book", k, a)
MCCalls == {ToolCall("find", "object", {}), Book("object", {<<"n", 1>>}), Book("object", {<<"n", 2>>}), Book("object", {<<"N", 1>>}),
            Book("broken", {}), Book("list", {}), ToolCall("ghost", "object", {})}
MCReplies == {<<c>> : c \in MCCalls} \cup {<<c, d>> : c \in MCCalls, d \in MCCalls}
MCTools == [find |-> [required |-> {}, params |-> <<>>, impl |-> {}],
            book |-> [required |-> {"n"}, params |-> [n |-> {1}], impl |-> {<<"n", 1>>}]]
MCFold == [k \in {"n", "N"} |-> "n"]
Criterion(t, n, p, ps, vs) == [type |-> t, name |-> n, position |-> p, params |-> ps, values |-> vs]
MCCriteria == <<Criterion("call_made", "find", 0, {}, {}), Criterion("params_exact", "book", 1, {<<"n", 1>>}, {}),
                Criterion("params_exact_any", "book", 0, {<<"n", 2>>}, {}), Criterion("param_absent", "book", 0, {<<"N", 1>>}, {}),
                Criterion("param_contains", "book", 0, {<<"n", 1>>}, {2}),
                Criterion("answer_contains", "", 0, {}, {"yes"})>>
MCExpected == <<[name |-> "book", params |-> {<<"n", 2>>}], [name |-> "find", params |-> {}], [name |-> "book", params |-> {<<"n", 1>>}]>>
==============================================================================
