------------------------------ MODULE NcpSession ------------------------------
(***************************************************************************)
(* The NCP native mode over TCP: NcpNativeClient::connect_detailed,        *)
(* NcpServer::accept_connection, NcpServerConnection::accept / reject and  *)
(* NcpSession (nps-ncp/src/transport.rs), and the loop that serves NWP     *)
(* frames on an accepted stream (nps-nwp/src/native_server.rs).            *)
(*                                                                         *)
(* A stream is what has been written and not yet read: whole frames, and   *)
(* how many bytes of the first one are gone. A reader that takes too many  *)
(* bytes is left in the middle of a frame. The server handles one          *)
(* connection at a time up to its Hello; what it does with a connection    *)
(* after that runs beside the accept loop.                                 *)
(*                                                                         *)
(* A peer is whatever opens a connection. Its kind says what it writes:    *)
(*   "client"   NcpNativeClient, preamble and Hello                        *)
(*   "silent"   nothing          "foreign"  eight bytes of something else  *)
(*   "stalled"  the preamble     "odd"      the preamble and a first frame *)
(*              and no Hello                that is no admissible Hello    *)
(* A write is one step: nothing depends on how TCP cuts it up except the   *)
(* timeouts, which the silent and the stalled peers exercise.              *)
(***************************************************************************)
EXTENDS NcpHandshake, FiniteSets

CONSTANTS
    Peers,            \* the connections made, one per peer
    Hellos,           \* HelloFrames a client may send
    ServerProfile,    \* NcpServerOptions::handshake_profile
    FrameLens,        \* payload lengths of session frames
    Clients,          \* the peers that are an NcpNativeClient
    MaxUp, MaxDown    \* bounds: session frames a peer / the server sends

ASSUME NcpSessionAssumption ==
    /\ Clients \subseteq Peers /\ MaxUp \in Nat /\ MaxDown \in Nat
    /\ FrameLens \subseteq Nat
    /\ \A h \in Hellos : h.encodings \in Seq(STRING)

VARIABLES
    peer,      \* the peer's end: kind, pc, hello sent, session policy
    conn,      \* the server's end: pc, hello read, session policy, loop
    server,    \* the accept loop: pc and the connection it reads from
    up, down,  \* streams to the server / to the peer
    upEof, downEof,  \* the writer has closed that direction
    sent,      \* number of frames the peer has sent in its session
    answered   \* requests the serving loop has answered, in order

vars == <<peer, conn, server, up, down, upEof, downEof, sent, answered>>

Kinds == {"client", "silent", "foreign", "stalled", "odd"}

NoHello == [none |-> TRUE]

\* A frame the serving loop handles, which may use BinaryVector, and a keepalive.
FrameTypes == {"Query", "Nop"}

-----------------------------------------------------------------------------
(* Frames and streams.                                                      *)

Frame(type, tier, len, body) ==
    [header |-> FrameHeader(type, tier, len), body |-> body]

\* Eight bytes where the preamble belongs.
First8(text) == [header |-> [type |-> "preamble", ext |-> FALSE, len |-> 4],
                 body |-> [text |-> text]]

EmptyStream == [frames |-> <<>>, off |-> 0]

Write(s, frames) == [s EXCEPT !.frames = @ \o frames]

\* Bytes of the first k frames of a stream.
BytesOf(s) ==
    LET size[k \in 0..Len(s.frames)] ==
            IF k = 0 THEN 0 ELSE size[k - 1] + WireSize(s.frames[k].header)
    IN  size

Available(s) == BytesOf(s)[Len(s.frames)] - s.off

\* read_exact of n bytes that are there.
Take(s, n) ==
    LET size == BytesOf(s)
        gone == Cardinality({k \in DOMAIN s.frames : size[k] <= s.off + n})
    IN  [frames |-> SubSeq(s.frames, gone + 1, Len(s.frames)),
         off |-> s.off + n - size[gone]]

\* The reader is at the first byte of a frame.
Aligned(s) == s.off = 0

NextHeader(s) == s.frames[1].header

\* read_frame_header takes 8 bytes when EXT (0x80) is set and 4 otherwise.
HeaderTaken_Faulty(h) == IF h.tier = "msgpack" THEN 8 ELSE 4

HeaderTaken(h) == IF h.ext THEN 8 ELSE 4

FrameReady(s) ==
    /\ Available(s) >= 4
    /\ Aligned(s)
    /\ Available(s) >= HeaderTaken(NextHeader(s)) + NextHeader(s).len

TakeFrame(s) == Take(s, HeaderTaken(NextHeader(s)) + NextHeader(s).len)

TakeHeader(s) == Take(s, HeaderTaken(NextHeader(s)))

\* read_wire_frame of native_server.rs takes 8 bytes when bit 0 of the flags is
\* set: the low bit of the encoding tier.
NativeHeaderTaken(h) == IF h.tier \in {"msgpack", "reserved"} THEN 8 ELSE 4

\* FrameHeader::parse fails on an EXT header of which only 4 bytes were read;
\* bytes that are no header parse to an unknown type.
NativeHeaderParses(s) ==
    /\ Aligned(s)
    /\ NativeHeaderTaken(NextHeader(s)) >= HeaderSize(NextHeader(s))

NativeTaken(s) == NativeHeaderTaken(NextHeader(s)) + NextHeader(s).len

NativeFrameReady(s) ==
    /\ Available(s) >= 4
    /\ NativeHeaderParses(s)
    /\ Available(s) >= NativeTaken(s)

-----------------------------------------------------------------------------
(* Types and the initial state.                                             *)

Policies == [tier : StableTiers \cup {"none"}, vector : BOOLEAN]

Preambles == {First8("NPS/1.0"), First8("GET / HT")}

Frames ==
    Preambles \cup
    [header : [type : FrameTypes \cup {"Hello", "Caps", "Error"}, tier : Tiers,
               enc : BOOLEAN, ext : BOOLEAN, len : Nat],
     body : Hellos \cup {NoHello} \cup [enabled : Seq(Tiers)] \cup [request : 0..MaxUp]]

Streams == [frames : Seq(Frames), off : Nat]

PeerEnds == [kind : Kinds, hello : Hellos \cup {NoHello},
             pc : {"idle", "waiting", "session", "failed", "closed"}, policy : Policies]

ConnEnds == [hello : Hellos \cup {NoHello}, policy : Policies,
             pc : {"none", "backlog", "pending", "session", "closed"},
             loop : {"none", "session", "native"}]

\* The shape of the state.
TypeOK ==
    /\ peer \in [Peers -> PeerEnds] /\ conn \in [Peers -> ConnEnds]
    /\ server \in [pc : {"listen", "preamble", "hello"}, conn : Peers \cup {"none"}]
    /\ up \in [Peers -> Streams] /\ down \in [Peers -> Streams]
    /\ upEof \in [Peers -> BOOLEAN] /\ downEof \in [Peers -> BOOLEAN]
    /\ sent \in [Peers -> 0..MaxUp]
    /\ answered \in [Peers -> Seq(0..MaxUp)]

Init ==
    /\ \E k \in [Peers -> Kinds] :
          /\ \A p \in Peers : k[p] = "client" <=> p \in Clients
          /\ peer = [p \in Peers |-> [kind |-> k[p], hello |-> NoHello, pc |-> "idle",
                                      policy |-> NoPolicy]]
    /\ conn = [p \in Peers |-> [hello |-> NoHello, policy |-> NoPolicy,
                                pc |-> "none", loop |-> "none"]]
    /\ server = [pc |-> "listen", conn |-> "none"]
    /\ up = [p \in Peers |-> EmptyStream]
    /\ down = [p \in Peers |-> EmptyStream]
    /\ upEof = [p \in Peers |-> FALSE]
    /\ downEof = [p \in Peers |-> FALSE]
    /\ sent = [p \in Peers |-> 0]
    /\ answered = [p \in Peers |-> <<>>]

-----------------------------------------------------------------------------
(* The peer's end.                                                          *)

HelloFrame(h) == Frame("Hello", "json", 1, h)

\* A first frame the server must not admit: MsgPack, although no encoding has
\* been negotiated.
OddFrame == Frame("Hello", "msgpack", 1, NoHello)

Opening(kind, h) ==
    CASE kind = "client"  -> <<First8("NPS/1.0"), HelloFrame(h)>>
      [] kind = "foreign" -> <<First8("GET / HT")>>
      [] kind = "stalled" -> <<First8("NPS/1.0")>>
      [] kind = "odd"     -> <<First8("NPS/1.0"), OddFrame>>
      [] kind = "silent"  -> <<>>

\* connect_detailed up to its first read: the connection enters the listener's
\* backlog with everything the peer writes unasked.
Connect(p) ==
    /\ peer[p].pc = "idle"
    /\ \E h \in (IF p \in Clients THEN Hellos ELSE {NoHello}) :
          /\ peer' = [peer EXCEPT ![p].pc = "waiting", ![p].hello = h]
          /\ up' = [up EXCEPT ![p] = Write(@, Opening(peer[p].kind, h))]
    /\ conn' = [conn EXCEPT ![p].pc = "backlog"]
    /\ UNCHANGED <<server, down, upEof, downEof, sent, answered>>

\* connect_detailed reads the answer. The session's default tier is the one
\* the CapsFrame came in.
ClientReadAnswer(p) ==
    /\ peer[p].kind = "client"
    /\ peer[p].pc = "waiting"
    /\ FrameReady(down[p])
    /\ LET f == down[p].frames[1] IN
          /\ peer' = [peer EXCEPT
                ![p].pc = IF f.header.type = "Caps" THEN "session" ELSE "failed",
                ![p].policy = IF f.header.type = "Caps"
                              THEN FromEnabledEncodings(f.header.tier, f.body.enabled)
                              ELSE NoPolicy]
          /\ down' = [down EXCEPT ![p] = TakeFrame(@)]
          /\ upEof' = [upEof EXCEPT ![p] = f.header.type # "Caps"]
    /\ UNCHANGED <<conn, server, up, downEof, sent, answered>>

\* The answer never comes: the server closed the stream before a whole frame.
ClientReadEof(p) ==
    /\ peer[p].pc = "waiting"
    /\ downEof[p]
    /\ ~FrameReady(down[p])
    /\ peer' = [peer EXCEPT ![p].pc = "failed"]
    /\ upEof' = [upEof EXCEPT ![p] = TRUE]
    /\ UNCHANGED <<conn, server, up, down, downEof, sent, answered>>

\* NcpSession::send_frame on the peer's end: refused unless its own policy
\* allows the header. The body is the number of the request.
ClientSend(p) ==
    /\ peer[p].pc = "session"
    /\ sent[p] < MaxUp
    /\ \E type \in FrameTypes, tier \in Tiers \ {"reserved"}, len \in FrameLens :
          /\ Allows(peer[p].policy, tier, type)
          /\ up' = [up EXCEPT ![p] = Write(@, <<Frame(type, tier, len, [request |-> sent[p] + 1])>>)]
    /\ sent' = [sent EXCEPT ![p] = @ + 1]
    /\ UNCHANGED <<peer, conn, server, down, upEof, downEof, answered>>

\* NcpSession::recv_frame on the peer's end. A header its policy refuses is an
\* error, with the payload left unread.
ClientRecv(p) ==
    /\ peer[p].pc = "session"
    /\ FrameReady(down[p])
    /\ LET h == NextHeader(down[p]) IN
          IF Allows(peer[p].policy, h.tier, h.type)
          THEN /\ down' = [down EXCEPT ![p] = TakeFrame(@)]
               /\ UNCHANGED <<peer, upEof>>
          ELSE /\ down' = [down EXCEPT ![p] = TakeHeader(@)]
               /\ peer' = [peer EXCEPT ![p].pc = "failed"]
               /\ upEof' = [upEof EXCEPT ![p] = TRUE]
    /\ UNCHANGED <<conn, server, up, downEof, sent, answered>>

\* NcpSession::close, or the peer going away at any moment.
PeerClose(p) ==
    /\ peer[p].pc \in {"waiting", "session"}
    /\ peer' = [peer EXCEPT ![p].pc = "closed"]
    /\ upEof' = [upEof EXCEPT ![p] = TRUE]
    /\ UNCHANGED <<conn, server, up, down, downEof, sent, answered>>

-----------------------------------------------------------------------------
(* The accept loop. accept_connection returns to its caller with an error  *)
(* or with a connection, and the caller calls it again.                     *)

\* The stream is dropped: the peer reads end of file.
DropConnection(p) ==
    /\ conn' = [conn EXCEPT ![p].pc = "closed"]
    /\ downEof' = [downEof EXCEPT ![p] = TRUE]
    /\ server' = [pc |-> "listen", conn |-> "none"]

Accept(p) ==
    /\ server.pc = "listen"
    /\ conn[p].pc = "backlog"
    /\ server' = [pc |-> "preamble", conn |-> p]
    /\ UNCHANGED <<peer, conn, up, down, upEof, downEof, sent, answered>>

ReadPreamble(p) ==
    /\ server = [pc |-> "preamble", conn |-> p]
    /\ Available(up[p]) >= 8
    /\ up' = [up EXCEPT ![p] = Take(@, 8)]
    /\ IF ValidPreamble(up[p].frames[1].body.text)
       THEN /\ server' = [server EXCEPT !.pc = "hello"]
            /\ UNCHANGED <<conn, downEof>>
       ELSE DropConnection(p)
    /\ UNCHANGED <<peer, down, upEof, sent, answered>>

\* The read of the preamble, or of the Hello, ends without its bytes: end of
\* file, or the timeout set for that read.
ReadGivesUp_Faulty(p) ==
    /\ server.conn = p
    /\ server.pc \in {"preamble", "hello"}
    /\ upEof[p]
    /\ Available(up[p]) < (IF server.pc = "preamble" THEN 8 ELSE 4)
    /\ DropConnection(p)
    /\ UNCHANGED <<peer, up, down, upEof, sent, answered>>

ReadGivesUp(p) ==
    /\ server.conn = p
    /\ \/ server.pc = "preamble" /\ Available(up[p]) < 8
       \/ server.pc = "hello" /\ ~FrameReady(up[p])
    /\ DropConnection(p)
    /\ UNCHANGED <<peer, up, down, upEof, sent, answered>>

\* The Hello: header admitted, payload read and decoded, connection handed to
\* the caller. Any refusal here is silent.
ReadHello(p) ==
    /\ server = [pc |-> "hello", conn |-> p]
    /\ FrameReady(up[p])
    /\ LET f == up[p].frames[1] IN
          IF HelloHeaderAdmitted(f.header, ShortMax)
          THEN /\ up' = [up EXCEPT ![p] = TakeFrame(@)]
               /\ conn' = [conn EXCEPT ![p].pc = "pending", ![p].hello = f.body]
               /\ server' = [pc |-> "listen", conn |-> "none"]
               /\ UNCHANGED downEof
          ELSE /\ up' = [up EXCEPT ![p] = TakeHeader(@)]
               /\ DropConnection(p)
    /\ UNCHANGED <<peer, down, upEof, sent, answered>>

-----------------------------------------------------------------------------
(* NcpServerConnection, held by the caller.                                 *)

ErrorFrame == Frame("Error", "json", 1, NoHello)

SendErrorAndClose(p) ==
    /\ down' = [down EXCEPT ![p] = Write(@, <<ErrorFrame>>)]
    /\ downEof' = [downEof EXCEPT ![p] = TRUE]
    /\ conn' = [conn EXCEPT ![p].pc = "closed"]

\* accept: negotiate, answer with the CapsFrame in the negotiated encoding, or
\* reject. The caller then serves the session itself or gives the stream to
\* NwpNativeNodeServer, configured with the policy.
AcceptHello(p) ==
    /\ conn[p].pc = "pending"
    /\ LET n == NegotiateHandshake(ServerProfile, conn[p].hello) IN
          IF n.action = "accept"
          THEN /\ \E loop \in {"session", "native"} :
                     conn' = [conn EXCEPT ![p].pc = "session", ![p].loop = loop,
                        ![p].policy = Policy(n.encoding, Contains(n.enabled, "binary_vector.v1"))]
               /\ down' = [down EXCEPT ![p] = Write(@, <<Frame("Caps", n.encoding, 1, [enabled |-> n.enabled])>>)]
               /\ UNCHANGED downEof
          ELSE SendErrorAndClose(p)
    /\ UNCHANGED <<peer, server, up, upEof, sent, answered>>

\* reject: the caller does not want the client.
RejectHello(p) ==
    /\ conn[p].pc = "pending"
    /\ SendErrorAndClose(p)
    /\ UNCHANGED <<peer, server, up, upEof, sent, answered>>

-----------------------------------------------------------------------------
(* The server's end of a session.                                           *)

ServerRecv(p) ==
    /\ conn[p].pc = "session" /\ conn[p].loop = "session"
    /\ FrameReady(up[p])
    /\ LET h == NextHeader(up[p]) IN
          IF Allows(conn[p].policy, h.tier, h.type)
          THEN /\ up' = [up EXCEPT ![p] = TakeFrame(@)]
               /\ UNCHANGED <<conn, downEof>>
          ELSE /\ up' = [up EXCEPT ![p] = TakeHeader(@)]
               /\ conn' = [conn EXCEPT ![p].pc = "closed"]
               /\ downEof' = [downEof EXCEPT ![p] = TRUE]
    /\ UNCHANGED <<peer, server, down, upEof, sent, answered>>

ServerSend(p) ==
    /\ conn[p].pc = "session" /\ conn[p].loop = "session"
    /\ Len(answered[p]) < MaxDown
    /\ \E type \in FrameTypes, tier \in Tiers \ {"reserved"}, len \in FrameLens :
          /\ Allows(conn[p].policy, tier, type)
          /\ down' = [down EXCEPT ![p] = Write(@, <<Frame(type, tier, len, [request |-> 0])>>)]
    /\ answered' = [answered EXCEPT ![p] = Append(@, 0)]
    /\ UNCHANGED <<peer, conn, server, up, upEof, downEof, sent>>

\* serve_stream returns: the stream is dropped.
CloseServing(p) ==
    /\ conn' = [conn EXCEPT ![p].pc = "closed"]
    /\ downEof' = [downEof EXCEPT ![p] = TRUE]

\* One turn of serve_stream on a frame that is all there. A frame in another
\* encoding than the policy's, and a frame no handler takes, get an ErrorFrame
\* for an answer; a frame the codec cannot decode ends the loop, and a
\* FrameRegistry does not know Nop.
NativeServe(p) ==
    /\ conn[p].pc = "session" /\ conn[p].loop = "native"
    /\ NativeFrameReady(up[p])
    /\ up' = [up EXCEPT ![p] = Take(@, NativeTaken(@))]
    /\ LET f == up[p].frames[1] IN
          IF Allows(conn[p].policy, f.header.tier, f.header.type) /\ f.header.type = "Nop"
          THEN CloseServing(p) /\ UNCHANGED <<down, answered>>
          ELSE /\ down' = [down EXCEPT ![p] = Write(@, <<Frame("Caps", conn[p].policy.tier, 1, f.body)>>)]
               /\ answered' = [answered EXCEPT ![p] = Append(@, f.body.request)]
               /\ UNCHANGED <<conn, downEof>>
    /\ UNCHANGED <<peer, server, upEof, sent>>

\* serve_stream reads a header that does not parse, or the end of the stream.
\* (Bytes that are no header might also pass for one and leave the loop waiting.)
NativeStop(p) ==
    /\ conn[p].pc = "session" /\ conn[p].loop = "native"
    /\ \/ Available(up[p]) >= 4 /\ ~NativeHeaderParses(up[p])
       \/ upEof[p] /\ ~NativeFrameReady(up[p])
    /\ CloseServing(p)
    /\ UNCHANGED <<peer, server, up, down, upEof, sent, answered>>

-----------------------------------------------------------------------------
(* The specification. Peers come, send and leave as they like; the accept  *)
(* loop, its timers, the caller that holds a connection and the reads of   *)
(* both ends are tokio tasks that run when they can.                        *)

ServerStep(p) ==
    \/ Accept(p) \/ ReadPreamble(p) \/ ReadGivesUp(p) \/ ReadHello(p)
    \/ AcceptHello(p) \/ RejectHello(p)
    \/ ServerRecv(p) \/ NativeServe(p) \/ NativeStop(p)

ClientStep(p) == ClientReadAnswer(p) \/ ClientReadEof(p) \/ ClientRecv(p)

Next ==
    \E p \in Peers :
        \/ Connect(p) \/ ClientSend(p) \/ PeerClose(p) \/ ServerSend(p)
        \/ ClientStep(p)
        \/ ServerStep(p)

Fairness ==
    \A p \in Peers : SF_vars(Accept(p)) /\ WF_vars(ServerStep(p)) /\ WF_vars(ClientStep(p))

Spec == Init /\ [][Next]_vars /\ Fairness

-----------------------------------------------------------------------------
(* Properties.                                                              *)

FramesIn(s) == Range(s.frames)

\* Two ends of a session hold the same policy although each computed it from
\* other data (the server from the negotiation, the client from the header and
\* the list of the CapsFrame, transport.rs:369), and what is on its way between
\* two library ends starts at a frame boundary and is allowed by the receiver.
SessionsAgree ==
    \A p \in Peers :
        peer[p].pc = "session" /\ conn[p].pc = "session" =>
            /\ peer[p].policy = conn[p].policy
            /\ Aligned(down[p])
            /\ \A f \in FramesIn(down[p]) : Allows(peer[p].policy, f.header.tier, f.header.type)
            /\ conn[p].loop = "session" =>
                  /\ Aligned(up[p])
                  /\ \A f \in FramesIn(up[p]) :
                        Allows(conn[p].policy, f.header.tier, f.header.type)

\* A client that has connected is not left waiting: whatever silent, stalled
\* or foreign peers stand before it in the backlog, it gets a session, an error
\* or the end of the stream (the two timeouts of accept_connection,
\* transport.rs:547 and :575, free the loop).
ClientsHeard ==
    \A p \in Peers : peer[p].pc = "waiting" ~> peer[p].pc # "waiting"

\* A complete request on a stream that stays open is answered, or the server
\* closes the stream.
RequestsServed ==
    \A p \in Peers : \A k \in 1..MaxUp :
        conn[p].loop = "native" /\ sent[p] >= k
            ~> Len(answered[p]) >= k \/ conn[p].pc = "closed" \/ peer[p].pc = "closed"
=============================================================================
