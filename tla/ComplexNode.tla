----------------------------- MODULE ComplexNode -----------------------------
(***************************************************************************)
(* Graph expansion of Complex Nodes (nps-nwp/src/complex_server.rs).  A    *)
(* node answers /query with its own rows and, when the request asks for    *)
(* depth, with the answers of the nodes it refers to, fetched with one     *)
(* less depth and with its own id added to the trace.  The fetcher is the  *)
(* host's: here it calls the child's handle_query.                         *)
(*                                                                         *)
(* A net is [refs, max_depth, url, options, fetchers]: the nodes each node *)
(* refers to, its graph_max_depth, the URL under which it is referred to,  *)
(* the URL options all nodes share, and the nodes that were given a        *)
(* fetcher.  A URL is [scheme, prefix, private]; what is no absolute URI   *)
(* has the scheme "none".                                                  *)
(***************************************************************************)
EXTENDS Naturals, Sequences

CONSTANT AbsoluteMaxDepth    \* ABSOLUTE_MAX_DEPTH, 5 in the code

\* What a request gets from a node.
Failed(n, code) == [node |-> n, error |-> code]
Answer(n, graph) == [node |-> n, graph |-> graph]

\* parse_depth: both limits are inclusive.
DepthAdmitted(net, n, depth) ==
    depth <= net.max_depth[n] /\ depth <= AbsoluteMaxDepth

InTrace(n, trace) == \E i \in DOMAIN trace : trace[i] = n

\* validate_child_url finds nothing to object to: the scheme, then the allowed
\* prefixes, none meaning any, then the private hosts.
ValidateChildUrl(url, o) ==
    /\ url.scheme = "https" \/ (o.allow_http /\ url.scheme = "http")
    /\ o.allowed_prefixes = {} \/ url.prefix \in o.allowed_prefixes
    /\ ~(o.reject_private /\ url.private)

RECURSIVE HandleQuery(_, _, _, _)

\* fetch_child that hands on the trace it was given.
FetchChild_Faulty(net, n, child, depth, trace) ==
    IF ~ValidateChildUrl(net.url[child], net.options) THEN Failed(child, "scope_violation")
    ELSE IF n \notin net.fetchers THEN Failed(child, "node_unavailable")
    ELSE HandleQuery(net, child, depth - 1, trace)

\* fetch_child: the URL is checked before it is dereferenced.
FetchChild(net, n, child, depth, trace) ==
    IF ~ValidateChildUrl(net.url[child], net.options) THEN Failed(child, "scope_violation")
    ELSE IF n \notin net.fetchers THEN Failed(child, "node_unavailable")
    ELSE HandleQuery(net, child, depth - 1, Append(trace, n))

\* handle_query: depth, then cycle, then the local rows and the children.
HandleQuery(net, n, depth, trace) ==
    CASE ~DepthAdmitted(net, n, depth) -> Failed(n, "depth_exceeded")
      [] DepthAdmitted(net, n, depth) /\ InTrace(n, trace) -> Failed(n, "graph_cycle")
      [] OTHER ->
           Answer(n, IF depth = 0 THEN {}
                     ELSE {FetchChild(net, n, c, depth, trace) : c \in net.refs[n]})

Answered(a) == "graph" \in DOMAIN a

RECURSIVE AnswerPaths(_)

\* The paths from the root along which an answer tree holds rows.
AnswerPaths(a) ==
    IF ~Answered(a) THEN {}
    ELSE {<<a.node>>} \cup
         {<<a.node>> \o p : p \in UNION {AnswerPaths(c) : c \in a.graph}}
=============================================================================
