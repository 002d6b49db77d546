----------------------------- MODULE MCServedPage -----------------------------
EXTENDS ServedPage

MCHosts == [name |-> FALSE, address |-> TRUE]

Pair(n, v) == [name |-> n, value |-> v, parses |-> TRUE]

\* A semicolon is an error to url.Values.
Semicolon == [name |-> "a", value |-> "1;2", parses |-> FALSE]

MCNames == [s \in {"%61"} |-> "a"]

Target(p, q) == [path |-> p, query |-> q, mark |-> FALSE]

\* Every ending and spelling of a path, and every order, repetition and defect
\* of a query.
MCTargets ==
    {Target(p, <<>>) :
        p \in {<<>>, <<"/">>, <<"/", "/">>, <<"/", "a">>, <<"/", "a", "/">>,
               <<"/", "a", "/", "/">>, <<"/", "a", "/", "b">>, <<"/", "%61">>, <<"/", "%61", "/">>,
               <<"/", "a", Escaped, "b">>, <<"/", "a", Escaped, "b", "/">>}}
    \cup {[Target(<<"/">>, <<>>) EXCEPT !.mark = TRUE]}
    \cup
    {Target(<<"/">>, q) :
        q \in {<<Pair("a", "1")>>, <<Pair("a", "2"), Pair("a", "1")>>,
               <<Pair("a", "1"), Pair("a", "2")>>, <<Pair("b", "1"), Pair("a", "1")>>,
               <<Pair("a", "1"), Pair("b", "1")>>, <<Semicolon>>, <<Pair("a", "1"), Semicolon>>}}

\* A redirect to the root of one host.
MCLandings ==
    {[scheme |-> "https", host |-> "name", port |-> "none", target |-> Target(<<"/">>, <<>>)]}
=============================================================================
