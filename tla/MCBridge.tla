------------------------------- MODULE MCBridge -------------------------------
(* Two remote nodes that offer one action under two spellings, the second    *)
(* with one more; a local node that has both kinds of operation; a local     *)
(* Memory Node.                                                              *)
EXTENDS Bridge, TLC

A == <<"a">>
B == <<"b">>
C == <<"c", "@">>
M == <<"m">>
Dotted == <<"get", ".", "x">>
Folded == <<"get", "_", "x">>
Put == <<"put">>

MCNodes ==
    (A :> [http |-> TRUE, role |-> "action", actions |-> <<Dotted>>, dispatcher |-> TRUE])
    @@ (B :> [http |-> TRUE, role |-> "complex", actions |-> <<Folded, Put>>, dispatcher |-> TRUE])
    @@ (C :> [http |-> FALSE, role |-> "complex", actions |-> <<Put>>, dispatcher |-> TRUE])
    @@ (M :> [http |-> FALSE, role |-> "memory", actions |-> <<Put>>, dispatcher |-> FALSE])

Host(backends, protocols, verifier) ==
    [backends |-> backends, protocols |-> protocols, require_auth |-> TRUE, verifier |-> verifier]

MCHosts == {Host(<<A, B>>, {"mcp", "a2a", "grpc"}, TRUE),
            Host(<<B, C, M>>, {"mcp", "a2a", "grpc"}, TRUE),
            Host(<<B>>, {"mcp", "a2a", "grpc"}, TRUE),
            Host(<<C>>, {"a2a"}, TRUE),
            Host(<<C>>, {"mcp"}, FALSE)}

Input(path, method, name) ==
    [path |-> path, verb |-> IF path = "card" THEN "GET" ELSE "POST", nid |-> "verified",
     big |-> FALSE, body |-> "json", method |-> method, complete |-> TRUE,
     name |-> name, action |-> Put]

MCInputs ==
    {Input("mcp", "tools/call", n) : n \in {Folded, Put, A \o <<"_", "_">> \o Folded}}
    \cup {Input("a2a", "tasks/send", n) : n \in {<<>>, Dotted, <<"c", "_", "_", "put">>}}
    \cup {Input("grpc", m, <<>>) : m \in {"invoke", "query", "manifest", "actions"}}
    \cup {Input("grpc", "invoke", n) : n \in {B, M}} \cup {Input("grpc", "query", A)}
    \cup {Input("mcp", "resources/read", n) : n \in {B, C, M}}
    \cup {Input("mcp", m, <<>>) : m \in {"ping", "tools/list", "resources/list", "prompts/get"}}
    \cup {Input("card", "", <<>>), Input("other", "", <<>>), Input("a2a", "tasks/get", <<>>)}
    \cup {[Input("mcp", "tools/call", Put) EXCEPT !.verb = "GET"],
          [Input("mcp", "tools/call", Put) EXCEPT !.nid = "malformed"],
          [Input("mcp", "tools/call", Put) EXCEPT !.big = TRUE],
          [Input("mcp", "tools/call", Put) EXCEPT !.body = "junk"],
          [Input("mcp", "tools/call", <<>>) EXCEPT !.complete = FALSE],
          [Input("grpc", "invoke", B) EXCEPT !.complete = FALSE]}
===============================================================================
