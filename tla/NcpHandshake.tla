----------------------------- MODULE NcpHandshake -----------------------------
(***************************************************************************)
(* The pure part of the NCP native mode: frame headers                     *)
(* (nps-core/src/frames.rs), the encoding policy of a session              *)
(* (nps-ncp/src/encoding_policy.rs) and the admission and negotiation      *)
(* rules of a server (nps-ncp/src/handshake_profile.rs, preamble.rs).      *)
(*                                                                         *)
(* A header is the record its bytes parse to; the reserved flag bits and   *)
(* the FINAL bit decide nothing here and are left out. A version is a pair *)
(* <<major, minor>>, or BadVersion where the text does not parse. Encoding *)
(* and protocol names stay the wire tokens.                                *)
(***************************************************************************)
EXTENDS Integers, Sequences, FiniteSets, SequencesExt

CONSTANT ShortMax        \* largest payload of a 4-byte header, 0xFFFF

ASSUME ShortMaxAssumption == ShortMax \in Nat

StableTiers == {"json", "msgpack"}

Tiers == StableTiers \cup {"binary_vector.v1", "reserved"}

BadVersion == <<>>

-----------------------------------------------------------------------------
(* Frame headers.                                                           *)

\* FrameHeader::new: EXT is set exactly when the length needs four bytes.
FrameHeader(type, tier, len) ==
    [type |-> type, tier |-> tier, enc |-> FALSE, ext |-> len > ShortMax,
     len |-> len]

HeaderSize(h) == IF h.ext THEN 8 ELSE 4

WireSize(h) == HeaderSize(h) + h.len

-----------------------------------------------------------------------------
(* NcpEncodingPolicy.                                                       *)

Policy(tier, vector) == [tier |-> tier, vector |-> vector]

NoPolicy == Policy("none", FALSE)

\* A policy may use BinaryVector for the frames bound to it, only.
Allows(p, tier, type) ==
    \/ tier = p.tier
    \/ /\ tier = "binary_vector.v1"
       /\ p.vector
       /\ type = "Query"

EnabledEncodings(p) ==
    IF p.vector THEN <<p.tier, "binary_vector.v1">> ELSE <<p.tier>>

\* from_enabled_encodings: what the client makes of the CapsFrame it receives.
FromEnabledEncodings(tier, enabled) ==
    Policy(tier, Contains(enabled, "binary_vector.v1"))

-----------------------------------------------------------------------------
(* Admission.                                                               *)

\* The 8 bytes of the preamble, as far as the server tells them apart.
ValidPreamble(received) == received = "NPS/1.0"

\* evaluate_hello_header, before the payload is allocated.
HelloHeaderAdmitted(h, maxHelloPayload) ==
    /\ h.type = "Hello"
    /\ h.tier = "json"
    /\ ~h.enc
    /\ ~h.ext
    /\ h.len <= maxHelloPayload

-----------------------------------------------------------------------------
(* Negotiation.                                                             *)

VersionLeq(v, w) == v[1] < w[1] \/ (v[1] = w[1] /\ v[2] <= w[2])

MaxVersion(v, w) == IF VersionLeq(v, w) THEN w ELSE v

MinVersion(v, w) == IF VersionLeq(v, w) THEN v ELSE w

MinOf(m, n) == IF m <= n THEN m ELSE n

\* A Hello without min_version speaks its nps_version only.
ClientMin(hello) == IF hello.min = "absent" THEN hello.max ELSE hello.min

OverlapMax(profile, hello) == MinVersion(profile.max, hello.max)

VersionsOverlap(profile, hello) ==
    /\ BadVersion \notin {profile.min, profile.max, ClientMin(hello), hello.max}
    /\ VersionLeq(profile.min, profile.max)
    /\ VersionLeq(ClientMin(hello), hello.max)
    /\ VersionLeq(MaxVersion(profile.min, ClientMin(hello)), OverlapMax(profile, hello))

\* Where the client's order of preference names a stable encoding both know.
StableChoices(profile, hello) ==
    {i \in DOMAIN hello.encodings : hello.encodings[i] \in StableTiers \cap profile.encodings}

StableEncoding(profile, hello) ==
    hello.encodings[CHOOSE i \in StableChoices(profile, hello) :
                        \A j \in StableChoices(profile, hello) : i <= j]

\* Protocols of the client the server has, each once, in the client's order.
SharedProtocols(profile, hello) ==
    LET shared == SelectSeq(hello.protocols, LAMBDA t : t \in profile.protocols)
        first  == {i \in DOMAIN shared : \A j \in 1..(i - 1) : shared[j] # shared[i]}
    IN  [k \in 1..Cardinality(first) |->
            shared[CHOOSE i \in first : Cardinality({j \in first : j <= i}) = k]]

Refusal(error) == [action |-> "error_close", error |-> error]

Accepted(profile, hello) ==
    LET stable == StableEncoding(profile, hello)
        vector == /\ "binary_vector.v1" \in profile.encodings
                  /\ Contains(hello.encodings, "binary_vector.v1")
    IN  [action |-> "accept", version |-> OverlapMax(profile, hello),
         encoding |-> stable,
         enabled |-> EnabledEncodings(Policy(stable, vector)),
         protocols |-> SharedProtocols(profile, hello),
         payload |-> MinOf(profile.payload, hello.payload),
         ext |-> profile.ext /\ hello.ext,
         streams |-> MinOf(profile.streams, hello.streams)]

\* negotiate_handshake, its refusals in the order the code makes them. A plain
\* CASE would leave the order open, so each one excludes the earlier ones.
NegotiateHandshake(profile, hello) ==
    IF ~VersionsOverlap(profile, hello) THEN Refusal("VERSION_INCOMPATIBLE")
    ELSE IF StableChoices(profile, hello) = {} THEN Refusal("ENCODING_UNSUPPORTED")
    ELSE IF \/ ~Contains(SharedProtocols(profile, hello), "ncp")
            \/ 0 \in {profile.payload, hello.payload, profile.streams, hello.streams}
         THEN Refusal("VERSION_INCOMPATIBLE")
    ELSE Accepted(profile, hello)
=============================================================================
