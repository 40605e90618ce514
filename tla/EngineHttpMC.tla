----------------------------- MODULE EngineHttpMC -----------------------------
EXTENDS Integers

Chunked(head, chunks) == [head |-> head, te |-> "chunked", cl |-> -1, chunks |-> chunks]
Plain(head, cl, text) == [head |-> head, te |-> "none", cl |-> cl, chunks |-> <<text>>]

\* Line ends and a character cut by chunk ends, a lone trailing byte, a line
\* and a text over the caps, heads that are interim, empty or garbage, a
\* length too short, exact and too long.
MCExchanges ==
    {<<Chunked(<<"200">>, <<<<"a", "r">>, <<"n", "x1">>, <<"x2">>>>), "lines">>,
     <<Chunked(<<"100", "200">>, <<<<"x1">>, <<"n", "r">>>>), "read">>,
     <<Plain(<<"200">>, 3, <<"n", "x2", "r", "a">>), "lines">>,
     <<Plain(<<"200">>, 5, <<"a", "n", "r">>), "lines">>,
     <<Plain(<<"200">>, -1, <<"n", "a", "a", "a">>), "lines">>,
     <<Plain(<<"200">>, -1, <<"a", "r", "n", "a", "r", "x1">>), "lines">>,
     <<Plain(<<"200">>, 4, <<"a", "a", "a", "a">>), "read">>,
     <<Plain(<<"204">>, -1, <<"a">>), "read">>,
     <<Plain(<<"bad">>, -1, <<>>), "read">>}
==============================================================================
