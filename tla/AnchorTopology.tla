---------------------------- MODULE AnchorTopology ----------------------------
(***************************************************************************)
(* The topology protocol between an Anchor Node (nps-nwp/src/              *)
(* anchor_server.rs) and its client (anchor_client.rs): how a request is   *)
(* written and read, and how the NDJSON stream of a subscription survives  *)
(* the chunks in which HTTP delivers it.                                   *)
(*                                                                         *)
(* A JSON object is a function over the keys it has.  A line is an         *)
(* envelope [type, seq, payload]; on the wire it is a few units            *)
(* [line, part] and a newline.  The last two units of a line whose payload *)
(* is in Wide are the bytes of one character.                              *)
(***************************************************************************)
EXTENDS Naturals, Sequences, FiniteSets, SequencesExt

CONSTANT Wide     \* payloads written with a multi-byte character

\* An Option is a sequence of at most one value; so are the scalars of a
\* JSON object.
Absent == <<>>

Extend(object, key, val) ==
    [k \in DOMAIN object \cup {key} |-> IF k = key THEN val ELSE object[k]]

-----------------------------------------------------------------------------
(***************************************************************************)
(* Requests, the client's side.  include is a set of tokens.               *)
(***************************************************************************)
WithOption(object, key, val, default) ==
    IF val = default THEN object ELSE Extend(object, key, val)

\* get_snapshot_with: what is left out has the server's default.
SnapshotBody(req) ==
    LET scoped == [scope |-> <<req.scope>>]
        including == WithOption(scoped, "include", req.include, {})
        deep == WithOption(including, "depth", <<req.depth>>, <<1>>)
    IN  WithOption(deep, "target_nid", req.target, Absent)

\* subscribe_with
StreamBody(req) ==
    LET scoped == [scope |-> <<req.scope>>]
        filtered == WithOption(scoped, "filter", req.filter, {})
    IN  WithOption(filtered, "since_version", req.since, Absent)

-----------------------------------------------------------------------------
(***************************************************************************)
(* Requests, the server's side: an answer or Refused.                      *)
(***************************************************************************)
Refused(code) == [error |-> code]

Scopes == {"cluster", "member"}
KnownIncludes == {"members", "capabilities", "tags", "metrics"}
KnownFilters == {"tags_any", "tags_all", "node_roles"}

ParseScope(topo) == IF topo.scope[1] = "" THEN "cluster" ELSE topo.scope[1]

\* parse_include: unknown tokens are dropped, nothing left means members.
ParseInclude(topo) ==
    LET known == IF "include" \in DOMAIN topo THEN topo.include \cap KnownIncludes ELSE {}
    IN  IF known = {} THEN {"members"} ELSE known

\* parse_depth: 0 is no depth; what does not fit a u8 is cut off.
ParseDepth(topo) ==
    IF "depth" \in DOMAIN topo /\ topo.depth[1] > 0 THEN topo.depth[1] % 256 ELSE 1

\* parse_snapshot_request
ParseSnapshotRequest(topo) ==
    LET target == IF "target_nid" \in DOMAIN topo THEN topo.target_nid ELSE Absent
    IN  IF \/ ParseScope(topo) \notin Scopes
           \/ ParseScope(topo) = "member" /\ target \in {Absent, <<"">>}
        THEN Refused("topology_unsupported_scope")
        ELSE [scope |-> ParseScope(topo), include |-> ParseInclude(topo),
              depth |-> ParseDepth(topo), target |-> target]

\* parse_stream_request; the filter is the set of its keys.
ParseStreamRequest(topo) ==
    LET filter == IF "filter" \in DOMAIN topo THEN topo.filter ELSE {}
    IN  IF ParseScope(topo) \notin Scopes THEN Refused("topology_unsupported_scope")
        ELSE IF ~(filter \subseteq KnownFilters) THEN Refused("topology_filter_unsupported")
        ELSE [scope |-> ParseScope(topo), filter |-> filter,
              since |-> IF "since_version" \in DOMAIN topo THEN topo.since_version ELSE Absent]

\* check_topology_capability
MayRead(server, capabilities) ==
    server.require_topology_capability => "topology:read" \in capabilities

\* The head of handle_query and handle_subscribe: <<>> lets the request through.
Precondition(server, capabilities, type, reserved) ==
    CASE ~MayRead(server, capabilities) -> <<Refused("topology_unauthorized")>>
      [] MayRead(server, capabilities) /\ type # reserved ->
           <<Refused("reserved_type_unsupported")>>
      [] MayRead(server, capabilities) /\ type = reserved /\ server.topology = Absent ->
           <<Refused("node_unavailable")>>
      [] OTHER -> <<>>

IsRefused(answer) == DOMAIN answer = {"error"}

\* InMemoryAnchorTopologyService::get_snapshot
TopologySnapshot(service, request) ==
    [version |-> service.version, cluster_size |-> Cardinality(service.members),
     members |-> IF "members" \in request.include THEN service.members ELSE {}]

\* handle_query
AnswerQuery(server, capabilities, type, topo) ==
    LET refusal == Precondition(server, capabilities, type, "topology.snapshot")
        request == ParseSnapshotRequest(topo)
    IN  IF refusal # <<>> THEN refusal[1]
        ELSE IF IsRefused(request) THEN request
        ELSE [data |-> <<TopologySnapshot(server.topology[1], request)>>]

\* parse_error_body: a refusal's code and status are both there, so it is told
\* as the server's own.
ParseErrorBody(refusal) == [protocol |-> refusal.error]

\* The rest of get_snapshot_with: the first entry of data is the snapshot.
GetSnapshot(server, capabilities, req) ==
    LET answer == AnswerQuery(server, capabilities, "topology.snapshot", SnapshotBody(req))
    IN  IF IsRefused(answer) THEN ParseErrorBody(answer) ELSE answer.data[1]

-----------------------------------------------------------------------------
(***************************************************************************)
(* The event stream, the server's side.  An event is [type, version, of];  *)
(* a resync_required has no version.                                       *)
(***************************************************************************)
EventTypes == {"member_joined", "member_left", "member_updated", "anchor_state",
               "resync_required"}

Ack == [type |-> "ack", seq |-> 0, payload |-> "none"]

EventToEnvelope(ev) ==
    [type |-> ev.type, payload |-> ev.of,
     seq |-> IF ev.type = "resync_required" THEN 0 ELSE ev.version]

IsResync(ev) == ev.type = "resync_required"

\* handle_subscribe for a request that is let through: the ack, then the
\* service's events up to the first resync.
SubscriptionLines(events) ==
    LET resyncs == {i \in DOMAIN events : IsResync(events[i])}
        last == IF resyncs = {} THEN Len(events)
                ELSE CHOOSE i \in resyncs : \A j \in resyncs : i <= j
    IN  <<Ack>> \o [i \in 1..last |-> EventToEnvelope(events[i])]

\* handle_subscribe
HandleSubscribe(server, capabilities, type, topo) ==
    LET refusal == Precondition(server, capabilities, type, "topology.stream")
        request == ParseStreamRequest(topo)
    IN  IF refusal # <<>> THEN refusal[1]
        ELSE IF IsRefused(request) THEN request
        ELSE [lines |-> SubscriptionLines(server.topology[1].events)]

\* The body as it goes over the wire.
Newline == [line |-> Ack, part |-> 0]
Parts(line) == IF line.payload \in Wide THEN 3 ELSE 2
LineUnits(line) == [i \in 1..Parts(line) |-> [line |-> line, part |-> i]]
Body(lines) == FoldLeft(LAMBDA body, line : body \o Append(LineUnits(line), Newline), <<>>, lines)

-----------------------------------------------------------------------------
(***************************************************************************)
(* The event stream, the client's side.  A reader is                       *)
(* [buf, ack_skipped, yielded, over]; over is why it has ended.            *)
(***************************************************************************)
Reader == [buf |-> <<>>, ack_skipped |-> FALSE, yielded |-> <<>>, over |-> "no"]

\* from_utf8 on one chunk: no character may begin or end outside it.
ValidUtf8(chunk) ==
    \A i \in DOMAIN chunk :
        chunk[i].line.payload \in Wide =>
            /\ chunk[i].part = 2 => i < Len(chunk)
            /\ chunk[i].part = 3 => i > 1

\* parse_event_line: text that is not a whole envelope is no JSON; an error
\* envelope ends the stream, an unknown type is skipped.
ParseEventLine(r, text) ==
    LET line == text[1].line
        ev == [type |-> line.type, version |-> line.seq, of |-> line.payload]
    IN  CASE text # LineUnits(line) -> [r EXCEPT !.over = "json_error"]
          [] text = LineUnits(line) /\ line.type = "error" -> [r EXCEPT !.over = "protocol_error"]
          [] text = LineUnits(line) /\ line.type \in EventTypes ->
               [r EXCEPT !.yielded = Append(@, ev), !.over = IF IsResync(ev) THEN "resync" ELSE @]
          [] OTHER -> r

\* A line taken out of the buffer: empty ones and the first are skipped.
TakeLine(r, text) ==
    IF text = <<>> THEN r
    ELSE IF ~r.ack_skipped THEN [r EXCEPT !.ack_skipped = TRUE]
    ELSE ParseEventLine(r, text)

RECURSIVE TakeLines(_)
TakeLines(r) ==
    LET ends == {i \in DOMAIN r.buf : r.buf[i] = Newline}
        nl == CHOOSE i \in ends : \A j \in ends : i <= j
    IN  IF ends = {} \/ r.over # "no" THEN r
        ELSE TakeLines(TakeLine([r EXCEPT !.buf = SubSeq(@, nl + 1, Len(@))],
                                SubSeq(r.buf, 1, nl - 1)))

\* A reader that starts every chunk with an empty buffer.
TakeChunk_Faulty(r, chunk) ==
    IF r.over # "no" THEN r
    ELSE IF ~ValidUtf8(chunk) THEN [r EXCEPT !.over = "invalid_utf8"]
    ELSE TakeLines([r EXCEPT !.buf = chunk])

\* Some(Ok(chunk)): the whole lines are taken, the rest waits for more.
TakeChunk(r, chunk) ==
    IF r.over # "no" THEN r
    ELSE IF ~ValidUtf8(chunk) THEN [r EXCEPT !.over = "invalid_utf8"]
    ELSE TakeLines([r EXCEPT !.buf = @ \o chunk])

\* None or Some(Err): a closed body is flushed, a broken one is an error.
TakeEnd(r, how) ==
    IF r.over # "no" THEN r
    ELSE IF how = "broken" THEN [r EXCEPT !.over = "transport_error"]
    ELSE LET flushed == TakeLine([r EXCEPT !.buf = <<>>], r.buf)
         IN  IF flushed.over = "no" THEN [flushed EXCEPT !.over = "closed"] ELSE flushed

\* parse_event_stream over the chunks a connection delivers.
ParseEventStream(chunks, how) == TakeEnd(FoldLeft(TakeChunk, Reader, chunks), how)

\* The rest of subscribe_with: a refusal is the result, or else the stream of
\* the body, here over a connection that delivers it whole.
Subscribe(server, capabilities, req) ==
    LET answer == HandleSubscribe(server, capabilities, "topology.stream", StreamBody(req))
    IN  IF IsRefused(answer) THEN ParseErrorBody(answer)
        ELSE [events |-> ParseEventStream(<<Body(answer.lines)>>, "closed").yielded]
=============================================================================
