------------------------------- MODULE Bridge -------------------------------
(***************************************************************************)
(* The inbound Bridge (nps-nwp/src/bridge_inbound): requests of MCP, A2A   *)
(* and gRPC clients that run at the same time, are resolved to an action   *)
(* of one of the nodes the Bridge fronts, and are handed to that node.     *)
(* Remote nodes are asked over HTTP for their role, which is cached, for   *)
(* their actions, and to run one; each of these answers may fail to come.  *)
(*                                                                         *)
(* A name is a sequence of words and separators, given without its case    *)
(* and without blanks around it.  A request is a record [path, verb, nid,  *)
(* big, body, method, complete, name, action]: complete says that the      *)
(* parameters its method requires are there, name is the tool, the skill,  *)
(* the node of the resource or of the RPC, or <<>>; action is that of a    *)
(* gRPC invoke.                                                            *)
(* Arguments and payloads are handed on as they are and left out.          *)
(***************************************************************************)
EXTENDS Naturals, Sequences, FiniteSets, SequencesExt, FiniteSetsExt

CONSTANTS
    Nodes,             \* name -> [http, role, actions, dispatcher]
    Hosts,             \* configurations [backends, protocols, require_auth, verifier]
    Requests,          \* the requests made, each a process
    Inputs,            \* what a request may be
    HttpStatuses,      \* the statuses other than 2xx that remote nodes answer
    DispatchErrors     \* the NPS statuses that local dispatchers answer

\* The methods of the gRPC service; a request for the agent card has none.
GrpcMethods == {"invoke", "query", "manifest", "actions"}

Roles == {"unknown", "memory", "action", "complex", "anchor", "bridge"}

ASSUME BridgeAssumption ==
    /\ \A h \in Hosts : h.backends # <<>> /\ h.backends \in Seq(DOMAIN Nodes)
    /\ \A n \in DOMAIN Nodes : Nodes[n].role \in Roles /\ Nodes[n].actions \in Seq(Seq(STRING))
    /\ \A in \in Inputs : /\ in.path = "grpc" => in.method \in GrpcMethods
                          /\ in.path = "card" => in.method = ""

VARIABLES
    host,       \* BridgeInboundOptions and BridgeServerOptions
    req,        \* each request: where it is, what it has found, its answer
    cache,      \* HttpNwpBackend.descriptor of each remote node
    pending,    \* a remote node has been sent the call and has not finished it
    ran,        \* history: the actions run for each request
    disturbed   \* history: a node's role or actions were not seen as they are

bridge == <<host, req, cache, pending, ran, disturbed>>

NotCached == "none"

IsQueryable(role) == role \in {"memory", "complex"}
IsInvokable(role) == role \in {"action", "complex"}

-----------------------------------------------------------------------------
(* Tool names (tool_name.rs): canonical on output, forgiving on input.      *)

Kept(c) == c \notin {" ", "/", "@"}

Sanitize(s) ==
    LET mapped == [i \in DOMAIN s |-> IF Kept(s[i]) THEN s[i] ELSE "_"]
        words == {i \in DOMAIN s : mapped[i] # "_"}
    IN  IF words = {} THEN <<"node">> ELSE SubSeq(mapped, Min(words), Max(words))

EncodeActionSegment(action) ==
    LET s == Sanitize(action)
    IN  [i \in DOMAIN s |-> IF s[i] = "." THEN "_" ELSE s[i]]

Encode(tool) == Sanitize(tool.node) \o <<"_", "_">> \o EncodeActionSegment(tool.action)

BareMatch(tool, name) == name \in {tool.action, EncodeActionSegment(tool.action)}

ToolsOf(node) == [i \in DOMAIN Nodes[node].actions |->
                     [node |-> node, action |-> Nodes[node].actions[i]]]

-----------------------------------------------------------------------------
(* NWP error mapping (error_map.rs). The prefix NPS- is left out.           *)

InfrastructureStatuses ==
    {"AUTH-UNAUTHENTICATED", "AUTH-FORBIDDEN", "LIMIT-RATE", "LIMIT-BUDGET",
     "LIMIT-PAYLOAD", "SERVER-UNSUPPORTED", "SERVER-INTERNAL",
     "SERVER-UNAVAILABLE", "SERVER-TIMEOUT", "DOWNSTREAM-UNAVAILABLE"}

MustBeProtocolError(status) == status \in InfrastructureStatuses

ToJsonRpc(status, resource_read) ==
    CASE status = "CLIENT-BAD-FRAME" -> "invalid_request"
      [] status \in {"CLIENT-BAD-PARAM", "CLIENT-UNPROCESSABLE", "CLIENT-GONE"} ->
            "invalid_params"
      [] status = "CLIENT-NOT-FOUND" ->
            IF resource_read THEN "invalid_params" ELSE "method_not_found"
      [] status = "CLIENT-CONFLICT" -> "conflict"
      [] status = "AUTH-UNAUTHENTICATED" -> "unauthenticated"
      [] status = "AUTH-FORBIDDEN" -> "forbidden"
      [] status \in {"LIMIT-RATE", "LIMIT-BUDGET", "LIMIT-PAYLOAD"} -> "limit"
      [] status = "SERVER-UNSUPPORTED" -> "method_not_found"
      [] OTHER -> "internal_error"

ToGrpcStatus(status) ==
    CASE status \in {"CLIENT-BAD-FRAME", "CLIENT-BAD-PARAM", "CLIENT-UNPROCESSABLE"} ->
            "invalid_argument"
      [] status \in {"CLIENT-NOT-FOUND", "CLIENT-GONE"} -> "not_found"
      [] status = "CLIENT-CONFLICT" -> "aborted"
      [] status = "AUTH-UNAUTHENTICATED" -> "unauthenticated"
      [] status = "AUTH-FORBIDDEN" -> "permission_denied"
      [] status \in {"LIMIT-RATE", "LIMIT-BUDGET", "LIMIT-PAYLOAD"} -> "resource_exhausted"
      [] status = "SERVER-UNSUPPORTED" -> "unimplemented"
      [] status \in {"SERVER-UNAVAILABLE", "DOWNSTREAM-UNAVAILABLE"} -> "unavailable"
      [] status = "SERVER-TIMEOUT" -> "deadline_exceeded"
      [] OTHER -> "internal"

FromHttpStatus(s) ==
    CASE s = 401 -> "AUTH-UNAUTHENTICATED"
      [] s = 403 -> "AUTH-FORBIDDEN"
      [] s = 404 -> "CLIENT-NOT-FOUND"
      [] s = 408 -> "SERVER-TIMEOUT"
      [] s = 409 -> "CLIENT-CONFLICT"
      [] s = 410 -> "CLIENT-GONE"
      [] s = 413 -> "LIMIT-PAYLOAD"
      [] s = 415 -> "SERVER-ENCODING-UNSUPPORTED"
      [] s = 422 -> "CLIENT-UNPROCESSABLE"
      [] s = 429 -> "LIMIT-RATE"
      [] s = 501 -> "SERVER-UNSUPPORTED"
      [] s \in {502, 504} -> "DOWNSTREAM-UNAVAILABLE"
      [] s = 503 -> "SERVER-UNAVAILABLE"
      [] s >= 500 /\ s \notin 501..504 -> "SERVER-INTERNAL"
      [] s < 400 -> "OK"
      [] OTHER -> "CLIENT-BAD-PARAM"

-----------------------------------------------------------------------------
(* What a client is told.  "refused": by the Bridge itself, before a call;  *)
(* "ok"; "domain": content with isError, or a failed task; "error": of the  *)
(* protocol, after a call; "timeout": 504.                                  *)

Answer(kind, code, tools) == [kind |-> kind, code |-> code, tools |-> tools]
NoAnswer == Answer("none", "none", <<>>)
Refusal(code) == Answer("refused", code, <<>>)

Done(q, answer) == [q EXCEPT !.pc = "done", !.answer = answer]

\* The code of the first check that fails, of a sequence <<fails, code>>.
FirstRefusal(checks) ==
    LET failed == {i \in DOMAIN checks : checks[i][1]}
    IN  IF failed = {} THEN "none" ELSE checks[Min(failed)][2]

\* auth_gate: with no verifier configured every request is denied.
AuthGate(in) == host.require_auth /\ ~(in.nid = "verified" /\ host.verifier)

\* BridgeInboundApp::handle up to the dispatch; the agent card has no body.
\* gRPC comes in through a host of its own.
HostRefuses(in) ==
    LET card == in.path = "card"
    IN  FirstRefusal(<< <<in.path \notin {"mcp", "a2a", "card"}, "404">>,
                        <<in.verb # (IF card THEN "GET" ELSE "POST"), "405">>,
                        <<AuthGate(in), "401">>,
                        <<~card /\ in.big, "413">>,
                        <<~card /\ in.body = "junk", "invalid_params">> >>)

McpMethods == {"initialize", "ping", "tools/list", "tools/call", "resources/list",
               "resources/read"}

ServesInbound(protocol) == protocol \in host.protocols

\* The checks of the protocol servers, the direction gate first.
McpRefuses(in) ==
    FirstRefusal(<< <<~ServesInbound("mcp"), "method_not_found">>,
                    <<in.method \notin McpMethods, "method_not_found">>,
                    <<~in.complete, "invalid_params">> >>)

A2aRefuses(in) ==
    FirstRefusal(<< <<~ServesInbound("a2a"), "method_not_found">>,
                    <<in.method # "tasks/send", "method_not_found">>,
                    <<~in.complete, "invalid_params">> >>)

GrpcRefuses(in) ==
    FirstRefusal(<< <<~ServesInbound("grpc"), "unimplemented">>,
                    <<~in.complete, "invalid_argument">> >>)

Refuses(in) ==
    LET refused == HostRefuses(in)
    IN  CASE in.path = "grpc" -> GrpcRefuses(in)
          [] in.path # "grpc" /\ refused # "none" -> refused
          [] in.path = "mcp" /\ refused = "none" -> McpRefuses(in)
          [] in.path = "a2a" /\ refused = "none" -> A2aRefuses(in)
          [] OTHER -> "none"

-----------------------------------------------------------------------------
(* Resolution.  Every protocol scans the nodes in order; q.i is the node    *)
(* looked at and q.found what was collected.                                *)

\* An RPC that names no node goes to the only one.
SoleBackend(in) == in.path = "grpc" /\ in.name = <<>> /\ Len(host.backends) = 1

ListsTools(in) == in.path = "card" \/ in.method = "tools/list"
IsCall(in) == in.method \in {"tools/call", "tasks/send", "invoke"}
NeedsTools(in) == ListsTools(in) \/ in.method \in {"tools/call", "tasks/send"}

Chosen(q, tool) == [q EXCEPT !.pc = "call", !.tool = tool]

\* What an RPC goes on with once it has its node: query and get_manifest ask
\* for the node's descriptor, list_actions for its actions.
WithNode(q) ==
    [q EXCEPT !.tool = [node |-> host.backends[q.i], action |-> q.input.action],
              !.pc = CASE q.input.method = "invoke"  -> "call"
                       [] q.input.method = "actions" -> "offer"
                       [] OTHER                      -> "check"]

\* Variant: the first of several candidates is taken.
EndOfScan_Faulty(q) ==
    LET in == q.input
    IN  CASE ListsTools(in) \/ in.method = "resources/list" ->
                Done(q, Answer("ok", "none", q.found))
          [] in.method \in {"tools/call", "tasks/send"} ->
                IF q.found # <<>> THEN Chosen(q, q.found[1])
                ELSE Done(q, Refusal("method_not_found"))
          [] OTHER -> Done(q, Refusal("not_found"))

\* The end of a scan that found no match on its way.
EndOfScan(q) ==
    LET in == q.input
    IN  CASE ListsTools(in) \/ in.method = "resources/list" ->
                Done(q, Answer("ok", "none", q.found))
          [] in.method = "tools/call" ->
                IF Len(q.found) = 1 THEN Chosen(q, q.found[1])
                ELSE Done(q, Refusal("method_not_found"))
          [] in.method = "tasks/send" ->
                IF in.name = <<>> /\ Len(q.found) = 1 THEN Chosen(q, q.found[1])
                ELSE Done(q, Refusal("invalid_params"))
          [] in.method = "resources/read" -> Done(q, Refusal("invalid_params"))
          [] OTHER -> Done(q, Refusal("not_found"))

NextBackend(q) ==
    IF q.i < Len(host.backends) THEN [q EXCEPT !.i = @ + 1, !.pc = "scan"]
    ELSE EndOfScan(q)

\* A qualified tool name, and any name a skill goes by, is a match at once.
TakenAtOnce(in, t) ==
    CASE in.method = "tools/call" -> in.name = Encode(t)
      [] in.method = "tasks/send" -> in.name \in {Encode(t), t.action}
      [] OTHER -> FALSE

Collected(in, t) ==
    CASE in.method = "tools/call" -> BareMatch(t, in.name)
      [] in.method = "tasks/send" -> in.name = <<>>
      [] OTHER -> TRUE

\* Those of the tools that are collected, in their order.
Collect(in, tools) ==
    LET upTo[k \in 0..Len(tools)] ==
            IF k = 0 THEN <<>>
            ELSE IF Collected(in, tools[k]) THEN Append(upTo[k - 1], tools[k])
            ELSE upTo[k - 1]
    IN  upTo[Len(tools)]

\* The tools of the node looked at have been read.
WithTools(q, tools) ==
    LET in == q.input
        matches == {k \in DOMAIN tools : TakenAtOnce(in, tools[k])}
    IN  IF in.path = "grpc" THEN Done(q, Answer("ok", "none", tools))
        ELSE IF matches # {} THEN Chosen(q, tools[Min(matches)])
        ELSE NextBackend([q EXCEPT !.found = @ \o Collect(in, tools)])

ProjectToolResult(status) ==
    IF MustBeProtocolError(status) THEN Answer("error", ToJsonRpc(status, FALSE), <<>>)
    ELSE Answer("domain", status, <<>>)

\* A NwpResult becomes an answer of the protocol the request came by.
Project(q, status) ==
    IF status = "success" THEN Answer("ok", "none", <<>>)
    ELSE IF q.input.path = "grpc" THEN Answer("error", ToGrpcStatus(status), <<>>)
    ELSE IF q.input.method = "resources/read"
         THEN Answer("error", ToJsonRpc(status, TRUE), <<>>)
    ELSE ProjectToolResult(status)

Resource(q) == [node |-> host.backends[q.i], action |-> <<>>]

ResolveBackend(q) ==
    IF q.input.name = host.backends[q.i] THEN WithNode(q) ELSE NextBackend(q)

ListResources(q, role) ==
    NextBackend(IF IsQueryable(role) THEN [q EXCEPT !.found = Append(@, Resource(q))] ELSE q)

FindQueryable(q, role) ==
    IF IsQueryable(role) /\ q.input.name = host.backends[q.i]
    THEN [q EXCEPT !.pc = "check", !.tool = Resource(q)]
    ELSE NextBackend(q)

\* The scan has the role of the node it looks at.
Scanned(q, role) ==
    CASE q.input.path = "grpc" -> ResolveBackend(q)
      [] NeedsTools(q.input) ->
            IF IsInvokable(role) THEN [q EXCEPT !.pc = "offer"] ELSE NextBackend(q)
      [] q.input.method = "resources/list" -> ListResources(q, role)
      [] q.input.method = "resources/read" -> FindQueryable(q, role)

\* A backend's query() asks for the role once more; get_manifest does not care.
Checked(q, role) ==
    IF IsQueryable(role) \/ q.input.method = "manifest" THEN [q EXCEPT !.pc = "call"]
    ELSE Done(q, Project(q, "SERVER-UNSUPPORTED"))

\* So does actions(): a node that is not invokable offers nothing.
Offered(q, role) ==
    LET node == host.backends[q.i]
    IN  IF ~IsInvokable(role) THEN WithTools(q, <<>>)
        ELSE IF Nodes[node].http THEN [q EXCEPT !.pc = "listing"]
        ELSE WithTools(q, ToolsOf(node))

WithRole(q, role) ==
    LET asked == [q EXCEPT !.fetching = FALSE]
    IN  CASE q.pc = "scan"  -> Scanned(asked, role)
          [] q.pc = "check" -> Checked(asked, role)
          [] q.pc = "offer" -> Offered(asked, role)

-----------------------------------------------------------------------------
(* The steps of a request.                                                  *)

Node(r) == host.backends[req[r].i]

SetReq(r, q) == req' = [req EXCEPT ![r] = q]

AsksRole(r) == req[r].pc \in {"scan", "check", "offer"}

\* A request arrives and passes, or fails, the checks made before any node is
\* asked for anything.
Arrive(r) ==
    /\ req[r].pc = "idle"
    /\ \E in \in Inputs :
          LET q == [req[r] EXCEPT !.input = in, !.pc = "scan"]
              refused == Refuses(in)
          IN  SetReq(r, IF refused # "none" THEN Done(q, Refusal(refused))
                        ELSE IF in.method \in {"initialize", "ping"}
                        THEN Done(q, Answer("ok", "none", <<>>))
                        ELSE IF SoleBackend(in) THEN WithNode(q)
                        ELSE q)
    /\ UNCHANGED <<host, cache, pending, ran, disturbed>>

Sees(r, role) ==
    /\ SetReq(r, WithRole(req[r], role))
    /\ disturbed' = [disturbed EXCEPT ![r] = @ \/ role # Nodes[Node(r)].role]

\* descriptor(): local, cached, or to be fetched from /.nwm.
Describe(r) ==
    /\ AsksRole(r) /\ ~req[r].fetching
    /\ \/ ~Nodes[Node(r)].http /\ Sees(r, Nodes[Node(r)].role)
       \/ Nodes[Node(r)].http /\ cache[Node(r)] # NotCached /\ Sees(r, cache[Node(r)])
       \/ /\ Nodes[Node(r)].http /\ cache[Node(r)] = NotCached
          /\ SetReq(r, [req[r] EXCEPT !.fetching = TRUE])
          /\ UNCHANGED disturbed
    /\ UNCHANGED <<host, cache, pending, ran>>

\* The manifest, or whatever came in its place, is cached for good.
ReceiveManifest(r) ==
    /\ AsksRole(r) /\ req[r].fetching
    /\ \E role \in {Nodes[Node(r)].role, "unknown"} :
          /\ cache' = [cache EXCEPT ![Node(r)] = role]
          /\ Sees(r, role)
    /\ UNCHANGED <<host, pending, ran>>

ReceiveActions(r) ==
    /\ req[r].pc = "listing"
    /\ \E arrived \in BOOLEAN :
          /\ SetReq(r, WithTools(req[r], IF arrived THEN ToolsOf(Node(r)) ELSE <<>>))
          /\ disturbed' = [disturbed EXCEPT ![r] = @ \/ ~arrived]
    /\ UNCHANGED <<host, cache, pending, ran>>

Runnable(tool) ==
    IsInvokable(Nodes[tool.node].role) /\ tool.action \in ToSet(Nodes[tool.node].actions)

Ran(r) == ran' = [ran EXCEPT ![r] = Append(@, req[r].tool)]

\* invoke, query or manifest of a local node: its dispatcher answers or blows
\* up, maybe after it has run the action.
CallLocal(r) ==
    LET node == Nodes[req[r].tool.node]
        Answers(status) == SetReq(r, Done(req[r], Project(req[r], status)))
        isCall == IsCall(req[r].input)
    IN  /\ req[r].pc = "call" /\ ~node.http
        /\ \/ /\ node.dispatcher \/ req[r].input.method = "manifest"
              /\ Answers("success")
              /\ IF isCall THEN Runnable(req[r].tool) /\ Ran(r) ELSE UNCHANGED ran
           \/ /\ node.dispatcher /\ req[r].input.method # "manifest"
              /\ \E status \in DispatchErrors : Answers(status)
              /\ UNCHANGED ran
           \/ /\ node.dispatcher /\ req[r].input.method # "manifest"
              /\ Answers("SERVER-INTERNAL")
              /\ IF isCall THEN Runnable(req[r].tool) /\ Ran(r) ELSE UNCHANGED ran
           \/ /\ ~node.dispatcher /\ req[r].input.method # "manifest"
              /\ Answers("SERVER-INTERNAL")
              /\ UNCHANGED ran
        /\ UNCHANGED <<host, cache, pending, disturbed>>

\* The same of a remote node: the call is sent ...
CallRemote(r) ==
    /\ req[r].pc = "call" /\ Nodes[req[r].tool.node].http
    /\ SetReq(r, [req[r] EXCEPT !.pc = "awaiting"])
    /\ pending' = [pending EXCEPT ![r] = IsCall(req[r].input) /\ Runnable(req[r].tool)]
    /\ UNCHANGED <<host, cache, ran, disturbed>>

\* ... the node runs it, maybe when nobody waits any more ...
NodeRuns(r) ==
    /\ pending[r]
    /\ pending' = [pending EXCEPT ![r] = FALSE]
    /\ Ran(r)
    /\ UNCHANGED <<host, req, cache, disturbed>>

\* ... and the answer comes (read_json), or does not (transport_failure).
ReceiveAnswer(r) ==
    LET Answers(status) == SetReq(r, Done(req[r], Project(req[r], status)))
        isCall == IsCall(req[r].input)
    IN  /\ req[r].pc = "awaiting"
        /\ \/ /\ isCall => ran[r] # <<>>
              /\ \E json \in BOOLEAN :
                    Answers(IF json THEN "success" ELSE "DOWNSTREAM-UNAVAILABLE")
              /\ UNCHANGED pending
           \/ /\ \E s \in HttpStatuses : /\ s < 500 => ran[r] = <<>>
                                        /\ Answers(FromHttpStatus(s))
              /\ pending' = [pending EXCEPT ![r] = FALSE]
           \/ /\ \E status \in {"SERVER-TIMEOUT", "DOWNSTREAM-UNAVAILABLE"} : Answers(status)
              /\ UNCHANGED pending
        /\ UNCHANGED <<host, cache, ran, disturbed>>

Waits(r) == req[r].fetching \/ req[r].pc \in {"listing", "awaiting"}

\* Variant: the timeout around the call only.
DispatchTimeout_Faulty(r) ==
    /\ req[r].pc = "awaiting" /\ req[r].input.path \in {"mcp", "a2a"}
    /\ SetReq(r, Done(req[r], Answer("timeout", "upstream_error", <<>>)))
    /\ UNCHANGED <<host, cache, pending, ran, disturbed>>

\* The dispatch timeout (above 0, as by default) drops the future wherever it
\* waits for a remote node; the agent card is built without one.
DispatchTimeout(r) ==
    /\ Waits(r) /\ req[r].input.path \in {"mcp", "a2a"}
    /\ SetReq(r, Done(req[r], Answer("timeout", "upstream_error", <<>>)))
    /\ UNCHANGED <<host, cache, pending, ran, disturbed>>

-----------------------------------------------------------------------------
NoInput == [path |-> "none", method |-> "none"]

BridgeInit ==
    /\ host \in Hosts
    /\ req = [r \in Requests |->
                 [pc |-> "idle", input |-> NoInput, i |-> 1, fetching |-> FALSE,
                  found |-> <<>>, tool |-> [node |-> <<>>, action |-> <<>>],
                  answer |-> NoAnswer]]
    /\ cache = [n \in DOMAIN Nodes |-> NotCached]
    /\ pending = [r \in Requests |-> FALSE]
    /\ ran = [r \in Requests |-> <<>>]
    /\ disturbed = [r \in Requests |-> FALSE]

BridgeStep(r) == Describe(r) \/ CallLocal(r) \/ CallRemote(r) \/ DispatchTimeout(r)
NodeStep(r) == ReceiveManifest(r) \/ ReceiveActions(r) \/ NodeRuns(r) \/ ReceiveAnswer(r)

BridgeNext == \E r \in Requests : Arrive(r) \/ BridgeStep(r) \/ NodeStep(r)

\* The Bridge goes on when it can, its timer included; a local dispatcher
\* returns; remote nodes owe nothing.
Fairness == \A r \in Requests : WF_bridge(BridgeStep(r))

BridgeSpec == BridgeInit /\ [][BridgeNext]_bridge /\ Fairness

-----------------------------------------------------------------------------
\* The tools of all the nodes fronted, in the order of tools/list.
AllTools ==
    FlattenSeq([i \in DOMAIN host.backends |->
        IF IsInvokable(Nodes[host.backends[i]].role) THEN ToolsOf(host.backends[i]) ELSE <<>>])

\* The same tools, each at the place of its node and its own place there.
Offers ==
    UNION {{<<i, j>> : j \in DOMAIN Nodes[host.backends[i]].actions} :
              i \in {k \in DOMAIN host.backends : IsInvokable(Nodes[host.backends[k]].role)}}

ToolAt(p) == ToolsOf(host.backends[p[1]])[p[2]]

\* No other tool goes by the name.
Unrivalled(in, t) ==
    \A p \in Offers : ToolAt(p) # t =>
        ~BareMatch(ToolAt(p), in.name) /\ in.name # Encode(ToolAt(p))

OnlyOne == \E p \in Offers : Offers = {p}

\* The request names the tool: by its qualified name, or by a bare one that no
\* other tool goes by, unless a node did not show its role or its actions; with
\* no skill named it is the only tool there is.
Names(in, t, unsure) ==
    CASE in.method = "tools/call" ->
            \/ in.name = Encode(t)
            \/ BareMatch(t, in.name) /\ (unsure \/ Unrivalled(in, t))
      [] in.method = "tasks/send" ->
            \/ in.name \in {Encode(t), t.action}
            \/ in.name = <<>> /\ (unsure \/ OnlyOne)
      [] in.method = "invoke" ->
            /\ t.action = in.action
            /\ in.name = t.node \/ host.backends = <<t.node>>

\* An action runs at most once for a request, only for one that was admitted,
\* and only where the request names it. Two nodes with the same action are never
\* guessed between (mcp.rs resolve_tool), unless one of them did not show its
\* role or its actions when it was asked. With no skill named the only tool
\* there is runs (a2a.rs resolve_skill).
ToolsRunAsAsked ==
    \A r \in Requests :
        ran[r] # <<>> => /\ Len(ran[r]) = 1 /\ Refuses(req[r].input) = "none"
                        /\ Names(req[r].input, ran[r][1], disturbed[r])

\* What a client is told of its call is what happened: a success ran the
\* action; a refusal, and a failure reported as content, did not and never
\* will; a list of tools shows those that exist, as far as their nodes could
\* be asked.
AnswersTrue ==
    \A r \in Requests :
        LET a == req[r].answer
            in == req[r].input
        IN  /\ a.kind \in {"refused", "domain"} => ran[r] = <<>> /\ ~pending[r]
            /\ (a.kind = "ok" /\ IsCall(in)) => ran[r] # <<>>
            /\ (a.kind = "ok" /\ ListsTools(in) /\ ~disturbed[r]) => a.tools = AllTools

\* Every MCP and A2A request that is posted is answered, although nodes hang
\* while their role or actions are asked for or while they run the action
\* (server.rs handle), and the answer is true.
PostsAnswered ==
    /\ \A r \in Requests : (req[r].input.path \in {"mcp", "a2a"}) ~> (req[r].pc = "done")
    /\ []AnswersTrue

\* A protocol error says that the tool did not run (error_map.rs:111).
ErrorMeansNotRun ==
    \A r \in Requests : req[r].answer.kind = "error" => ran[r] = <<>>

\* A node's descriptor is cached after the first fetch (backend.rs:437).
CachedOnce ==
    [][\A n \in DOMAIN Nodes : cache[n] # NotCached => cache'[n] = cache[n]]_cache
=============================================================================
