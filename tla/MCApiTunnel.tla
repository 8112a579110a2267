----------------------------- MODULE MCApiTunnel -----------------------------
(* ApiTunnel for TLC: REST reads and writes, the spellings of the GraphQL     *)
(* path, paths with marks, documents of one and two operations with and      *)
(* without a selection, the bodies parsers disagree about, and the framings   *)
(* of one allowed query.                                                      *)
EXTENDS ApiTunnel

SampleNames == {"a", "b"}
SampleSegments == {"empty", "dot", "dotdot", "graphql", "x"}

Op(k, n) == [kind |-> k, name |-> n]
Doc(ops) == [ok |-> TRUE, ops |-> ops]
Field(n) == [ok |-> TRUE, name |-> n]

QueryA == Op("query", "a")
MutationB == Op("mutation", "b")
Plain(docs, names) == [shape |-> "object", long |-> FALSE, query |-> docs,
                       operationName |-> names, extensions |-> <<>>]

Query == Plain(<<Doc(<<Op("query", "unnamed")>>)>>, <<>>)

Bodies ==
    {Plain(<<Doc(d)>>, n) :
        d \in {<<QueryA, MutationB>>, <<MutationB, QueryA>>},
        n \in {<<>>, <<Field("a")>>, <<Field("b")>>}}
    \cup {Plain(<<Doc(<<>>)>>, <<>>),
          Plain(<<Doc(<<Op("subscription", "a")>>)>>, <<>>),
          Plain(<<Doc(<<QueryA, Op("mutation", "a")>>)>>, <<Field("a")>>),
          Plain(<<Doc(<<QueryA>>), Doc(<<MutationB>>)>>, <<>>),
          Plain(<<Doc(<<QueryA, MutationB>>)>>, <<Field("a"), Field("b")>>),
          Plain(<<[ok |-> FALSE, ops |-> <<>>]>>, <<>>),
          [Query EXCEPT !.extensions = <<TRUE>>],
          [Query EXCEPT !.shape = "array"],
          [Query EXCEPT !.shape = "trailing"],
          [Query EXCEPT !.long = TRUE]}

S(t) == [text |-> t, mark |-> "none"]
M(t) == [text |-> t, mark |-> "end"]
E(t) == [text |-> t, mark |-> "slash"]
GraphQL == <<S("graphql")>>

Ask(p, m, b) == [path |-> p, method |-> m, json |-> TRUE, encoded |-> FALSE, body |-> b]

Asked ==
    {Ask(<<S("x")>>, m, Query) : m \in {"GET", "POST", "OTHER"}}
    \cup {Ask(GraphQL, "POST", b) : b \in Bodies}
    \cup {Ask(p, "POST", Plain(<<Doc(<<MutationB>>)>>, <<>>)) :
             p \in {<<S("graphql"), S("empty")>>, <<S("x"), S("dotdot"), S("graphql")>>}}
    \cup {Ask(p, "POST", b) :
             p \in {<<M("graphql")>>, <<M("graphql"), S("dotdot"), S("x")>>,
                    <<M("x"), S("dotdot"), S("graphql")>>,
                    <<E("x"), S("dotdot"), S("graphql")>>,
                    <<E("x"), S("x"), S("dotdot"), S("graphql")>>},
             b \in {Query, Plain(<<Doc(<<MutationB>>)>>, <<>>)}}
    \cup {Ask(GraphQL, "GET", Query), Ask(<<S("graphql"), S("x")>>, "POST", Query),
          [Ask(GraphQL, "POST", Query) EXCEPT !.encoded = TRUE],
          [Ask(GraphQL, "POST", Query) EXCEPT !.json = FALSE]}

Framed(w, n, a, u, c) == [what |-> w, pieces |-> n, authority |-> a, upgrade |-> u, close |-> c]
Good == Ask(GraphQL, "POST", Query)

SampleRequests ==
    {Framed(w, 1, TRUE, FALSE, FALSE) : w \in Asked}
    \cup {Framed(Good, n, TRUE, FALSE, c) : n \in {0, 2, 4}, c \in BOOLEAN}
    \cup {Framed(Good, 2, FALSE, FALSE, FALSE), Framed(Good, 1, TRUE, TRUE, FALSE)}
==============================================================================
