--------------------------- MODULE NcpSessionProofs ---------------------------
(***************************************************************************)
(* Machine-checked proofs about NcpSession, for any number of peers, any   *)
(* Hellos, any server profile and frames of any length: two ends that are  *)
(* in session agree on the encodings and on where a frame begins.          *)
(***************************************************************************)
EXTENDS NcpSession, FiniteSetTheorems, WellFoundedInduction, SequenceTheorems, TLAPS

-----------------------------------------------------------------------------
(* The inductive invariant, one conjunct per phase of a connection.         *)

\* The frames of a stream that a session with this policy may carry.
AllAllowed(s, policy) ==
    \A i \in DOMAIN s.frames : Allows(policy, s.frames[i].header.tier, s.frames[i].header.type)

\* Everything still unread is a request of the session.
OnlyRequests(s) ==
    \A i \in DOMAIN s.frames :
        /\ s.frames[i].header.type \in FrameTypes
        /\ s.frames[i].body \in [request : 0..MaxUp]

\* The peer's kind, and the Hello it has sent.
Opened(p) ==
    /\ peer[p].kind = "client" <=> p \in Clients
    /\ peer[p].pc # "idle" /\ p \in Clients => peer[p].hello \in Hellos
    /\ peer[p].pc = "idle" <=> conn[p].pc = "none"
    /\ conn[p].pc = "none" => up[p] = EmptyStream

\* Until the caller has answered the Hello, nothing comes down.
Quiet(p) ==
    /\ conn[p].pc \in {"none", "backlog", "pending"} =>
          down[p] = EmptyStream /\ peer[p].pc # "session"
    /\ conn[p].pc = "none" => sent[p] = 0

\* The accept loop is at the preamble or at the Hello of a connection.
Admitting(p) ==
    /\ server.pc # "listen" /\ server.conn = p => conn[p].pc = "backlog"
    /\ conn[p].pc = "backlog" =>
          LET whole == Opening(peer[p].kind, peer[p].hello) IN
          IF server = [pc |-> "hello", conn |-> p]
          THEN /\ whole # <<>> /\ whole[1] = First8("NPS/1.0")
               /\ up[p] = [frames |-> Tail(whole), off |-> 0]
          ELSE up[p] = [frames |-> whole, off |-> 0]

\* A connection handed to the caller is a client's.
Handed(p) ==
    /\ conn[p].pc \in {"pending", "session"} => OnlyRequests(up[p]) /\ conn[p].hello \in Hellos
    /\ conn[p].pc = "pending" => up[p] = EmptyStream
    /\ conn[p].pc = "session" => conn[p].loop # "none"
    /\ conn[p].pc = "session" /\ peer[p].pc = "waiting" => up[p] = EmptyStream

\* What is on its way to a server that reads with an NcpSession.
UpAllowed(p) ==
    conn[p].pc = "session" /\ conn[p].loop = "session" =>
        Aligned(up[p]) /\ AllAllowed(up[p], conn[p].policy)

\* The CapsFrame comes first and says what the server's policy is.
CapsFirst(p) ==
    conn[p].pc = "session" /\ peer[p].pc = "waiting" =>
        /\ Aligned(down[p]) /\ down[p].frames # <<>>
        /\ down[p].frames[1].header.type = "Caps"
        /\ conn[p].policy = FromEnabledEncodings(down[p].frames[1].header.tier,
                                                 down[p].frames[1].body.enabled)
        /\ AllAllowed(down[p], conn[p].policy)

\* Both ends are in session.
Agreed(p) ==
    conn[p].pc = "session" /\ peer[p].pc = "session" =>
        /\ peer[p].policy = conn[p].policy
        /\ Aligned(down[p]) /\ AllAllowed(down[p], conn[p].policy)

\* A CapsFrame comes in a stable encoding.
CapsStable(p) ==
    /\ conn[p].pc = "session" => conn[p].policy.tier \in StableTiers
    /\ \A i \in DOMAIN down[p].frames :
          down[p].frames[i].header.type = "Caps" => down[p].frames[i].header.tier \in StableTiers

Inv(p) ==
    /\ Opened(p) /\ Quiet(p) /\ Admitting(p) /\ Handed(p) /\ CapsStable(p)
    /\ UpAllowed(p) /\ CapsFirst(p) /\ Agreed(p)

IndInv == TypeOK /\ \A p \in Peers : Inv(p)
-----------------------------------------------------------------------------
(* Induction over positions, with the set of those where the claim holds.   *)

LEMMA Up ==
    ASSUME NEW n \in Nat, NEW P, 0 \in P, \A i \in 0..(n - 1) : i \in P => i + 1 \in P
    PROVE  0..n \subseteq P
<1> DEFINE Bad == {i \in 0..n : i \notin P}
<1> SUFFICES ASSUME Bad # {} PROVE FALSE
  OBVIOUS
<1>1. IsWellFoundedOn(OpToRel(<, Nat), Nat)
  BY NatLessThanWellFounded
<1>2. Bad \subseteq Nat
  OBVIOUS
<1>3. PICK m \in Bad : \A y \in Bad : ~(<<y, m>> \in OpToRel(<, Nat))
  <2> HIDE DEF Bad
  <2> QED
    BY <1>1, <1>2, WFMin
<1>4. m # 0 /\ m - 1 \in 0..n /\ m - 1 < m
  OBVIOUS
<1>5. m - 1 \notin Bad
  BY <1>2, <1>3, <1>4 DEF OpToRel
<1> QED
  BY <1>4, <1>5

\* A set of naturals that is not empty has a least member.
LEMMA Least ==
    ASSUME NEW S, S \subseteq Nat, S # {}
    PROVE  \E m \in S : \A k \in S : m <= k
<1>1. IsWellFoundedOn(OpToRel(<, Nat), Nat)
  BY NatLessThanWellFounded
<1>2. PICK m \in S : \A y \in S : ~(<<y, m>> \in OpToRel(<, Nat))
  BY <1>1, WFMin
<1>3. \A y \in S : ~(y < m)
  BY <1>2 DEF OpToRel
<1> QED
  BY <1>3

-----------------------------------------------------------------------------
(* Streams: the bytes of the frames that wait, and what a read leaves.      *)

\* The sums of the first members of a sequence of numbers.
Sums(g, n, w) == g \in [0..n -> Nat] /\ g[0] = 0 /\ \A i \in 1..n : g[i] = g[i - 1] + w[i]

LEMMA SumsExist ==
    ASSUME NEW n \in Nat, NEW w \in [1..n -> Nat]
    PROVE  \E g : Sums(g, n, w)
<1> DEFINE Has(k) == \E g \in [0..k -> Nat] : g[0] = 0 /\ \A i \in 1..k : g[i] = g[i - 1] + w[i]
           P == {k \in 0..n : Has(k)}
<1>1. 0 \in P
  <2> DEFINE g0 == [j \in 0..0 |-> 0]
  <2>1. g0 \in [0..0 -> Nat] /\ g0[0] = 0 /\ \A i \in 1..0 : g0[i] = g0[i - 1] + w[i]
    OBVIOUS
  <2> HIDE DEF g0
  <2> QED
    BY <2>1
<1>2. ASSUME NEW k \in 0..(n - 1), k \in P PROVE k + 1 \in P
  <2>1. PICK g \in [0..k -> Nat] : g[0] = 0 /\ \A i \in 1..k : g[i] = g[i - 1] + w[i]
    BY <1>2
  <2> DEFINE h == [j \in 0..(k + 1) |-> IF j <= k THEN g[j] ELSE g[k] + w[k + 1]]
  <2>2. g[k] + w[k + 1] \in Nat
    OBVIOUS
  <2>3. h \in [0..(k + 1) -> Nat] /\ h[0] = 0
    BY <2>1, <2>2
  <2>4. h[k + 1] = g[k] + w[k + 1] /\ \A j \in 0..k : h[j] = g[j]
    OBVIOUS
  <2> HIDE DEF h
  <2>5. ASSUME NEW i \in 1..(k + 1) PROVE h[i] = h[i - 1] + w[i]
    <3>1. CASE i = k + 1
      BY <2>4, <3>1
    <3>2. CASE i # k + 1
      <4>1. i \in 1..k /\ i \in 0..k /\ i - 1 \in 0..k
        BY <3>2
      <4> QED
        BY <2>1, <2>4, <4>1
    <3> QED
      BY <3>1, <3>2
  <2>6. Has(k + 1)
    BY <2>3, <2>5
  <2>7. k + 1 \in 0..n
    OBVIOUS
  <2> HIDE DEF Has
  <2> QED
    BY <2>6, <2>7
<1>3. 0..n \subseteq P
  <2> HIDE DEF P
  <2> QED
    BY <1>1, <1>2, Up
<1>4. Has(n)
  <2>1. n \in 0..n
    OBVIOUS
  <2> QED
    BY <1>3, <2>1
<1> QED
  BY <1>4 DEF Sums

\* Every frame has bytes of its own.
LEMMA FrameSizes ==
    ASSUME NEW f \in Frames
    PROVE  /\ WireSize(f.header) \in Nat \ {0}
           /\ HeaderTaken(f.header) = HeaderSize(f.header)
<1>1. f.header.len \in Nat
  <2>1. CASE f \in Preambles
    <3>1. PICK text : f = First8(text)
      BY <2>1, Zenon DEF Preambles
    <3> QED
      BY <3>1 DEF First8
  <2>2. CASE f \notin Preambles
    BY <2>2 DEF Frames
  <2> QED
    BY <2>1, <2>2
<1>2. HeaderSize(f.header) \in {4, 8}
  BY DEF HeaderSize
<1> QED
  BY <1>1, <1>2 DEF WireSize, HeaderSize, HeaderTaken

\* BytesOf is the function its definition describes.
LEMMA BytesSteps ==
    ASSUME NEW s \in Streams
    PROVE  Sums(BytesOf(s), Len(s.frames), [i \in 1..Len(s.frames) |-> WireSize(s.frames[i].header)])
<1> DEFINE n == Len(s.frames)
           w == [i \in 1..n |-> WireSize(s.frames[i].header)]
<1>1. n \in Nat /\ s.frames \in Seq(Frames)
  BY DEF Streams
<1>2. w \in [1..n -> Nat]
  BY <1>1, FrameSizes
<1>3. \A i \in 1..n : w[i] = WireSize(s.frames[i].header)
  OBVIOUS
<1> HIDE DEF w, n
<1>4. PICK g : Sums(g, n, w)
  BY <1>1, <1>2, SumsExist
<1>5. \A k \in 0..n : g[k] = IF k = 0 THEN 0 ELSE g[k - 1] + WireSize(s.frames[k].header)
  BY <1>1, <1>3, <1>4 DEF Sums
<1>6. g = [k \in 0..n |-> IF k = 0 THEN 0 ELSE g[k - 1] + WireSize(s.frames[k].header)]
  BY <1>4, <1>5 DEF Sums
<1>7. BytesOf(s) = [k \in 0..n |-> IF k = 0 THEN 0
                                   ELSE BytesOf(s)[k - 1] + WireSize(s.frames[k].header)]
  BY <1>6 DEF BytesOf, n
<1> DEFINE b == BytesOf(s)
           Value(k) == IF k = 0 THEN 0 ELSE b[k - 1] + WireSize(s.frames[k].header)
<1>8. b = [k \in 0..n |-> Value(k)]
  BY <1>7
<1> HIDE DEF b, Value
<1>9. \A k \in 0..n : b[k] = Value(k)
  BY <1>8
<1>10. b[0] = 0 /\ \A i \in 1..n : b[i] = b[i - 1] + w[i]
  BY <1>1, <1>3, <1>9 DEF Value
<1>11. \A i \in 0..n : b[i] \in Nat
  <2> DEFINE P == {i \in 0..n : b[i] \in Nat}
  <2>1. 0 \in P
    BY <1>1, <1>10
  <2>2. \A i \in 0..(n - 1) : i \in P => i + 1 \in P
    <3> SUFFICES ASSUME NEW i \in 0..(n - 1), b[i] \in Nat PROVE b[i + 1] \in Nat
      BY <1>1
    <3>1. i + 1 \in 1..n /\ (i + 1) - 1 = i
      BY <1>1
    <3>2. b[i + 1] = b[i] + w[i + 1] /\ w[i + 1] \in Nat
      BY <1>2, <1>10, <3>1
    <3> QED
      BY <3>2
  <2>3. 0..n \subseteq P
    <3> HIDE DEF P
    <3> QED
      BY <1>1, <2>1, <2>2, Up
  <2> QED
    BY <2>3
<1>12. b \in [0..n -> Nat]
  BY <1>8, <1>11
<1> QED
  BY <1>10, <1>12 DEF Sums, b, w, n
\* What BytesOf says of a stream: where each frame ends, later for later ones.
LEMMA Bytes ==
    ASSUME NEW s \in Streams
    PROVE  /\ Len(s.frames) \in Nat /\ DOMAIN s.frames = 1..Len(s.frames)
           /\ BytesOf(s) \in [0..Len(s.frames) -> Nat] /\ BytesOf(s)[0] = 0
           /\ \A i \in 1..Len(s.frames) :
                 BytesOf(s)[i] = BytesOf(s)[i - 1] + WireSize(s.frames[i].header)
           /\ \A i, j \in 0..Len(s.frames) : i < j => BytesOf(s)[i] < BytesOf(s)[j]
<1> DEFINE n == Len(s.frames)
           b == BytesOf(s)
           w == [i \in 1..n |-> WireSize(s.frames[i].header)]
<1>1. n \in Nat /\ s.frames \in Seq(Frames) /\ DOMAIN s.frames = 1..n
  BY DEF Streams
<1>2. \A i \in 1..n : w[i] = WireSize(s.frames[i].header) /\ w[i] \in Nat \ {0}
  BY <1>1, FrameSizes
<1>3. Sums(b, n, w)
  BY BytesSteps
<1> HIDE DEF n, b, w
<1>4. b \in [0..n -> Nat] /\ b[0] = 0 /\ \A i \in 1..n : b[i] = b[i - 1] + w[i]
  BY <1>3 DEF Sums
<1>5. ASSUME NEW i \in 0..n, NEW j \in 0..n, i < j PROVE b[i] < b[j]
  <2> DEFINE P == {k \in 0..n : k <= i \/ b[i] < b[k]}
  <2>1. 0 \in P
    BY <1>1
  <2>2. ASSUME NEW k \in 0..(n - 1), k \in P PROVE k + 1 \in P
    <3>1. k + 1 \in 1..n /\ (k + 1) - 1 = k /\ k \in 0..n /\ k + 1 \in 0..n
      BY <1>1
    <3>2. b[k + 1] = b[k] + w[k + 1] /\ w[k + 1] > 0 /\ b[k] \in Nat /\ w[k + 1] \in Nat
          /\ b[i] \in Nat
      BY <1>2, <1>4, <3>1
    <3>3. k <= i \/ b[i] < b[k]
      BY <2>2
    <3>4. k + 1 <= i \/ b[i] < b[k + 1]
      <4>1. CASE k + 1 <= i
        BY <4>1
      <4>2. CASE k = i
        BY <3>2, <4>2
      <4>3. CASE b[i] < b[k]
        BY <3>2, <4>3
      <4> QED
        BY <3>1, <3>3, <4>1, <4>2, <4>3
    <3> QED
      BY <3>1, <3>4
  <2>3. 0..n \subseteq P
    <3> HIDE DEF P
    <3> QED
      BY <1>1, <2>1, <2>2, Up
  <2> QED
    BY <1>1, <1>5, <2>3
<1> QED
  BY <1>1, <1>2, <1>4, <1>5 DEF n, b

\* The frames a read of so many bytes finishes are the first ones.
LEMMA Finished ==
    ASSUME NEW s \in Streams, NEW B \in Nat
    PROVE  \E m \in 0..Len(s.frames) :
              /\ {k \in DOMAIN s.frames : BytesOf(s)[k] <= B} = 1..m
              /\ BytesOf(s)[m] <= B
<1> DEFINE n == Len(s.frames)
           b == BytesOf(s)
<1>1. n \in Nat /\ DOMAIN s.frames = 1..n /\ b \in [0..n -> Nat] /\ b[0] = 0
  BY Bytes
<1>2. \A i, j \in 0..n : i < j => b[i] < b[j]
  BY Bytes
<1> HIDE DEF n, b
<1> DEFINE Ends(m, j) == m \in 0..j /\ {k \in 1..j : b[k] <= B} = 1..m /\ b[m] <= B
           P == {j \in 0..n : \E m \in 0..n : Ends(m, j)}
<1>3. 0 \in P
  <2>1. Ends(0, 0)
    BY <1>1
  <2> QED
    BY <1>1, <2>1
<1>4. ASSUME NEW j \in 0..(n - 1), j \in P PROVE j + 1 \in P
  <2>1. PICK m \in 0..n : Ends(m, j)
    BY <1>4
  <2>2. j + 1 \in 0..n /\ j \in Nat
    BY <1>1
  <2>3. CASE b[j + 1] <= B
    <3>1. \A k \in 1..j : b[k] <= B
      <4> TAKE k \in 1..j
      <4>1. k \in 0..n /\ k < j + 1
        BY <1>1
      <4>2. b[k] < b[j + 1] /\ b[k] \in Nat /\ b[j + 1] \in Nat
        BY <1>1, <1>2, <2>2, <4>1
      <4> QED
        BY <2>3, <4>2
    <3>2. \A k \in 1..(j + 1) : b[k] <= B
      BY <2>2, <2>3, <3>1
    <3>3. Ends(j + 1, j + 1)
      BY <2>2, <2>3, <3>2
    <3> QED
      BY <2>2, <3>3
  <2>4. CASE ~(b[j + 1] <= B)
    <3>1. \A k \in 1..(j + 1) : b[k] <= B => k \in 1..j
      BY <2>2, <2>4
    <3>2. {k \in 1..(j + 1) : b[k] <= B} = {k \in 1..j : b[k] <= B}
      BY <2>2, <3>1
    <3>3. Ends(m, j + 1)
      BY <2>1, <2>2, <3>2
    <3> QED
      BY <2>2, <3>3
  <2> QED
    BY <2>3, <2>4
<1>5. 0..n \subseteq P
  <2> HIDE DEF P
  <2> QED
    BY <1>1, <1>3, <1>4, Up
<1>6. PICK m \in 0..n : Ends(m, n)
  <2>1. n \in 0..n
    BY <1>1
  <2>2. n \in P
    <3> HIDE DEF P
    <3> QED
      BY <1>5, <2>1
  <2> HIDE DEF Ends
  <2> QED
    BY <2>2
<1> QED
  BY <1>1, <1>6 DEF n, b

LEMMA UpToCard ==
    ASSUME NEW m \in Nat
    PROVE  Cardinality(1..m) = m
<1>1. (1 \in Int /\ m \in Int /\ ~(1 > m)) \/ m = 0
  OBVIOUS
<1>2. CASE m = 0
  <2>1. 1..m = {}
    BY <1>2
  <2> QED
    BY <1>2, <2>1, FS_EmptySet
<1>3. CASE m # 0
  <2>1. Cardinality(1..m) = IF 1 > m THEN 0 ELSE m - 1 + 1
    BY FS_Interval, Zenon, <1>1, <1>3
  <2> QED
    BY <1>3, <2>1
<1> QED
  BY <1>2, <1>3

\* A read leaves a stream, of the frames that were there, from some one on.
LEMMA TakeTyped ==
    ASSUME NEW s \in Streams, NEW n \in Nat
    PROVE  \E m \in 0..Len(s.frames) :
              /\ Take(s, n) = [frames |-> SubSeq(s.frames, m + 1, Len(s.frames)),
                               off |-> s.off + n - BytesOf(s)[m]]
              /\ {k \in DOMAIN s.frames : BytesOf(s)[k] <= s.off + n} = 1..m
              /\ s.off + n - BytesOf(s)[m] \in Nat
<1>1. s.off + n \in Nat /\ s.off \in Nat
  BY DEF Streams
<1>2. PICK m \in 0..Len(s.frames) :
         /\ {k \in DOMAIN s.frames : BytesOf(s)[k] <= s.off + n} = 1..m
         /\ BytesOf(s)[m] <= s.off + n
  BY <1>1, Finished
<1>3. m \in Nat /\ Cardinality(1..m) = m
  BY Bytes, UpToCard
<1>4. BytesOf(s)[m] \in Nat
  BY Bytes
<1>5. Take(s, n) = [frames |-> SubSeq(s.frames, m + 1, Len(s.frames)),
                    off |-> s.off + n - BytesOf(s)[m]]
  BY <1>2, <1>3 DEF Take
<1>6. s.off + n - BytesOf(s)[m] \in Nat
  <2>1. BytesOf(s)[m] <= s.off + n
    BY <1>2
  <2> QED
    BY <1>1, <1>4, <2>1
<1> QED
  BY <1>2, <1>5, <1>6, Zenon
\* Every frame of t is one of s.
From(t, s) == \A i \in DOMAIN t.frames : \E j \in DOMAIN s.frames : t.frames[i] = s.frames[j]

\* So a read keeps the type of the stream, and brings nothing new into it.
LEMMA TakeStream ==
    ASSUME NEW s \in Streams, NEW n \in Nat
    PROVE  Take(s, n) \in Streams /\ From(Take(s, n), s)
<1> DEFINE t == Take(s, n)
           l == Len(s.frames)
<1>1. PICK m \in 0..l :
         /\ t = [frames |-> SubSeq(s.frames, m + 1, l), off |-> s.off + n - BytesOf(s)[m]]
         /\ s.off + n - BytesOf(s)[m] \in Nat
  BY TakeTyped
<1>2. s.frames \in Seq(Frames) /\ l \in Nat
  BY DEF Streams
<1> DEFINE u == SubSeq(s.frames, m + 1, l)
<1>3. u \in Seq(Frames) /\ \A i \in DOMAIN u : i + m \in DOMAIN s.frames /\ u[i] = s.frames[i + m]
  BY <1>2
<1> HIDE DEF u, l, t
<1>4. t.frames = u /\ t \in Streams
  BY <1>1, <1>3 DEF Streams, u
<1> QED
  BY <1>3, <1>4 DEF t, From

\* A read of the bytes of the first frame leaves the others.
LEMMA TakeFirst ==
    ASSUME NEW s \in Streams, s.off = 0, s.frames # <<>>
    PROVE  Take(s, WireSize(s.frames[1].header)) = [frames |-> Tail(s.frames), off |-> 0]
<1> DEFINE n == WireSize(s.frames[1].header)
           l == Len(s.frames)
           b == BytesOf(s)
<1>1. s.frames \in Seq(Frames) /\ l \in Nat /\ l >= 1 /\ 1 \in 1..l /\ s.frames[1] \in Frames
  BY DEF Streams
<1>2. n \in Nat
  BY <1>1, FrameSizes
<1>3. PICK m \in 0..l :
         /\ Take(s, n) = [frames |-> SubSeq(s.frames, m + 1, l), off |-> s.off + n - b[m]]
         /\ {k \in DOMAIN s.frames : b[k] <= s.off + n} = 1..m
  BY <1>2, TakeTyped
<1>4. /\ DOMAIN s.frames = 1..l /\ b \in [0..l -> Nat] /\ b[0] = 0
      /\ \A i \in 1..l : b[i] = b[i - 1] + WireSize(s.frames[i].header)
      /\ \A i, j \in 0..l : i < j => b[i] < b[j]
  BY Bytes
<1>5. b[1] = n
  BY <1>1, <1>2, <1>4
<1> HIDE DEF b, l, n
<1>6. 1 \in 1..m
  <2>1. b[1] <= s.off + n
    BY <1>2, <1>5
  <2>2. 1 \in {k \in DOMAIN s.frames : b[k] <= s.off + n}
    BY <1>1, <1>4, <2>1
  <2> QED
    BY <1>3, <2>2
<1>7. m = 1
  <2> SUFFICES ASSUME m # 1 PROVE FALSE
    OBVIOUS
  <2>1. 2 \in 1..m /\ 2 \in 1..l /\ 2 \in 0..l /\ 1 \in 0..l
    BY <1>1, <1>6
  <2>2. b[2] <= n
    BY <1>2, <1>3, <2>1
  <2>3. b[1] < b[2] /\ b[2] \in Nat
    BY <1>4, <2>1
  <2> QED
    BY <1>2, <1>5, <2>2, <2>3
<1>8. SubSeq(s.frames, 2, l) = Tail(s.frames)
  BY <1>1 DEF l
<1>9. s.off + n - b[1] = 0
  BY <1>2, <1>5
<1>10. Take(s, n) = [frames |-> SubSeq(s.frames, m + 1, l), off |-> s.off + n - b[m]]
  BY <1>3
<1>11. m + 1 = 2
  BY <1>7
<1>12. Take(s, n) = [frames |-> Tail(s.frames), off |-> 0]
  BY <1>7, <1>8, <1>9, <1>10, <1>11, Zenon
<1> QED
  BY <1>12 DEF n

\* A frame is ready: the stream is at the beginning of one, and reading it
\* leaves the stream at the beginning of the next.
LEMMA Ready ==
    ASSUME NEW s \in Streams, FrameReady(s)
    PROVE  /\ s.off = 0 /\ s.frames # <<>>
           /\ s.frames[1] \in Frames /\ 1 \in DOMAIN s.frames
           /\ TakeFrame(s) = [frames |-> Tail(s.frames), off |-> 0]
           /\ TakeFrame(s) \in Streams /\ From(TakeFrame(s), s)
           /\ TakeHeader(s) \in Streams /\ From(TakeHeader(s), s)
<1>1. s.off = 0
  BY DEF FrameReady, Aligned
<1>2. s.frames # <<>>
  <2> SUFFICES ASSUME s.frames = <<>> PROVE FALSE
    OBVIOUS
  <2>1. Len(s.frames) = 0 /\ BytesOf(s)[0] = 0
    BY Bytes
  <2>2. Available(s) = 0
    BY <1>1, <2>1 DEF Available
  <2> QED
    BY <2>2 DEF FrameReady
<1>3. s.frames[1] \in Frames /\ 1 \in DOMAIN s.frames
  BY <1>2 DEF Streams
<1>4. TakeFrame(s) = Take(s, WireSize(s.frames[1].header))
  BY <1>3, FrameSizes DEF TakeFrame, NextHeader, WireSize
<1>5. TakeFrame(s) \in Streams /\ From(TakeFrame(s), s)
  BY <1>3, <1>4, FrameSizes, TakeStream
<1>6. TakeHeader(s) \in Streams /\ From(TakeHeader(s), s)
  <2>1. HeaderTaken(NextHeader(s)) \in Nat
    BY DEF HeaderTaken
  <2> QED
    BY <2>1, TakeStream DEF TakeHeader
<1> QED
  BY <1>1, <1>2, <1>3, <1>4, <1>5, <1>6, TakeFirst

\* A write of one frame.
LEMMA Wrote ==
    ASSUME NEW s \in Streams, NEW f \in Frames
    PROVE  /\ Write(s, <<f>>) \in Streams
           /\ Write(s, <<f>>).off = s.off
           /\ Write(s, <<f>>).frames # <<>>
           /\ s.frames # <<>> => Write(s, <<f>>).frames[1] = s.frames[1]
           /\ s.frames = <<>> => Write(s, <<f>>).frames[1] = f
           /\ \A i \in DOMAIN Write(s, <<f>>).frames :
                 \/ Write(s, <<f>>).frames[i] = f
                 \/ (i \in DOMAIN s.frames /\ Write(s, <<f>>).frames[i] = s.frames[i])
<1> DEFINE u == s.frames \o <<f>>
<1>1. s.frames \in Seq(Frames) /\ s.off \in Nat
  BY DEF Streams
<1>2. /\ u \in Seq(Frames) /\ u # <<>>
      /\ s.frames # <<>> => u[1] = s.frames[1]
      /\ s.frames = <<>> => u[1] = f
      /\ \A i \in DOMAIN u : u[i] = f \/ (i \in DOMAIN s.frames /\ u[i] = s.frames[i])
  BY <1>1
<1>3. Write(s, <<f>>) = [frames |-> u, off |-> s.off]
  <2>1. s = [frames |-> s.frames, off |-> s.off]
    BY DEF Streams
  <2> HIDE DEF u
  <2>2. [s EXCEPT !.frames = u] = [frames |-> u, off |-> s.off]
    BY <2>1
  <2> QED
    BY <2>2 DEF Write, u
<1> HIDE DEF u
<1>4. Write(s, <<f>>) \in Streams
  BY <1>1, <1>2, <1>3 DEF Streams
<1> QED
  BY <1>2, <1>3, <1>4
-----------------------------------------------------------------------------
(* Negotiation.                                                             *)

\* What the server answers with is one of the stable encodings.
LEMMA Negotiated ==
    ASSUME NEW h \in Hellos, NegotiateHandshake(ServerProfile, h).action = "accept"
    PROVE  /\ NegotiateHandshake(ServerProfile, h).encoding \in StableTiers
           /\ NegotiateHandshake(ServerProfile, h).enabled \in Seq(Tiers)
<1> DEFINE n == NegotiateHandshake(ServerProfile, h)
           C == StableChoices(ServerProfile, h)
           e == StableEncoding(ServerProfile, h)
<1>1. C # {} /\ n = Accepted(ServerProfile, h)
  <2>1. Refusal("VERSION_INCOMPATIBLE").action # "accept" /\ Refusal("ENCODING_UNSUPPORTED").action # "accept"
    BY DEF Refusal
  <2> QED
    BY <2>1 DEF NegotiateHandshake
<1>2. h.encodings \in Seq(STRING)
  BY NcpSessionAssumption
<1>3. C \subseteq Nat /\ \A i \in C : h.encodings[i] \in StableTiers
  BY <1>2 DEF StableChoices
<1>4. e \in StableTiers
  <2>1. PICK m \in C : \A k \in C : m <= k
    <3> HIDE DEF C
    <3> QED
      BY <1>1, <1>3, Least
  <2>2. (CHOOSE i \in C : \A j \in C : i <= j) \in C
    <3> HIDE DEF C
    <3> QED
      BY <2>1
  <2> QED
    BY <1>3, <2>2 DEF StableEncoding
<1> DEFINE v == /\ "binary_vector.v1" \in ServerProfile.encodings
                /\ Contains(h.encodings, "binary_vector.v1")
           a == Accepted(ServerProfile, h)
<1>5. a.encoding = e /\ a.enabled = EnabledEncodings(Policy(e, v))
  BY Zenon DEF Accepted
<1>6. EnabledEncodings(Policy(e, v)) \in {<<e, "binary_vector.v1">>, <<e>>}
  <2>1. Policy(e, v).tier = e
    BY DEF Policy
  <2> QED
    BY <2>1, Zenon DEF EnabledEncodings
<1> HIDE DEF e, v, a
<1>7. e \in Tiers /\ "binary_vector.v1" \in Tiers
  BY <1>4 DEF Tiers
<1>8. <<e, "binary_vector.v1">> \in Seq(Tiers) /\ <<e>> \in Seq(Tiers)
  BY <1>7
<1>9. a.enabled \in Seq(Tiers)
  BY <1>5, <1>6, <1>8
<1> QED
  BY <1>1, <1>4, <1>5, <1>9 DEF a

-----------------------------------------------------------------------------
(* A step of one connection leaves the others alone.                        *)

Only(p) ==
    \A q \in Peers \ {p} :
        /\ peer'[q] = peer[q] /\ conn'[q] = conn[q] /\ sent'[q] = sent[q]
        /\ up'[q] = up[q] /\ down'[q] = down[q]
        /\ server' = [pc |-> "hello", conn |-> q] <=> server = [pc |-> "hello", conn |-> q]
        /\ server'.pc # "listen" /\ server'.conn = q => server.pc # "listen" /\ server.conn = q

LEMMA OthersKept ==
    ASSUME IndInv, NEW p \in Peers, Only(p), NEW q \in Peers, q # p
    PROVE  Inv(q)'
<1>1. /\ peer'[q] = peer[q] /\ conn'[q] = conn[q] /\ sent'[q] = sent[q]
      /\ up'[q] = up[q] /\ down'[q] = down[q]
      /\ server' = [pc |-> "hello", conn |-> q] <=> server = [pc |-> "hello", conn |-> q]
      /\ server'.pc # "listen" /\ server'.conn = q => server.pc # "listen" /\ server.conn = q
  BY DEF Only
<1>2. Inv(q)
  BY DEF IndInv
<1>3. Opened(q)' /\ Quiet(q)' /\ Handed(q)' /\ CapsStable(q)'
  BY <1>1, <1>2 DEF Inv, Opened, Quiet, Handed, OnlyRequests, CapsStable
<1>4. Admitting(q)'
  BY <1>1, <1>2 DEF Inv, Admitting
<1>5. UpAllowed(q)' /\ CapsFirst(q)' /\ Agreed(q)'
  BY <1>1, <1>2 DEF Inv, UpAllowed, CapsFirst, Agreed, Aligned, AllAllowed
<1> QED
  BY <1>3, <1>4, <1>5 DEF Inv
-----------------------------------------------------------------------------
(* The types of what a step writes.                                         *)

\* What is known of a connection before a step.
LEMMA Known ==
    ASSUME IndInv, NEW p \in Peers
    PROVE  /\ TypeOK /\ Inv(p)
           /\ up[p] \in Streams /\ down[p] \in Streams
           /\ peer[p] \in PeerEnds /\ conn[p] \in ConnEnds
  BY DEF IndInv, TypeOK

\* The types of frames on the wire, and what they carry.
WireTypes == FrameTypes \cup {"Hello", "Caps", "Error"}
Bodies == Hellos \cup {NoHello} \cup [enabled : Seq(Tiers)] \cup [request : 0..MaxUp]

\* Frames are built by FrameHeader, whose EXT bit is the length's.
LEMMA FrameTyped ==
    ASSUME NEW type \in WireTypes, NEW tier \in Tiers,
           NEW len \in Nat,
           NEW body \in Bodies
    PROVE  /\ Frame(type, tier, len, body) \in Frames
           /\ Frame(type, tier, len, body).header.type = type
           /\ Frame(type, tier, len, body).header.tier = tier
           /\ Frame(type, tier, len, body).body = body
<1> DEFINE h == FrameHeader(type, tier, len)
           H == [type : WireTypes, tier : Tiers,
                 enc : BOOLEAN, ext : BOOLEAN, len : Nat]
<1>1. h \in H /\ h.type = type /\ h.tier = tier
  BY ShortMaxAssumption DEF FrameHeader
<1> HIDE DEF h, H
<1>2. Frame(type, tier, len, body) = [header |-> h, body |-> body]
  BY DEF Frame, h
<1>3. [header |-> h, body |-> body] \in Frames
  BY <1>1 DEF Frames, H, WireTypes, Bodies
<1> QED
  BY <1>1, <1>2, <1>3

\* A CapsFrame: the answer to a Hello, and what the serving loop answers with.
LEMMA CapsTyped ==
    ASSUME NEW tier \in StableTiers,
           NEW body \in [enabled : Seq(Tiers)] \cup [request : 0..MaxUp]
    PROVE  /\ Frame("Caps", tier, 1, body) \in Frames
           /\ Frame("Caps", tier, 1, body).header.type = "Caps"
           /\ Frame("Caps", tier, 1, body).header.tier = tier
           /\ Frame("Caps", tier, 1, body).body = body
<1>1. "Caps" \in WireTypes /\ 1 \in Nat /\ tier \in Tiers
  BY DEF Tiers, WireTypes
<1>2. body \in Bodies
  BY DEF Bodies
<1> QED
  BY <1>1, <1>2, FrameTyped

\* The frames a peer opens with.
LEMMA OpeningParts ==
    ASSUME NEW h \in Hellos \cup {NoHello}
    PROVE  /\ First8("NPS/1.0") \in Frames /\ First8("GET / HT") \in Frames
           /\ HelloFrame(h) \in Frames /\ OddFrame \in Frames
<1>1. First8("NPS/1.0") \in Frames /\ First8("GET / HT") \in Frames
  BY Zenon DEF Frames, Preambles
<1>2. HelloFrame(h) \in Frames /\ OddFrame \in Frames
  BY FrameTyped DEF HelloFrame, OddFrame, WireTypes, Bodies, Tiers, StableTiers
<1> QED
  BY <1>1, <1>2

\* What a peer opens with: the frames, one by one.
LEMMA OpeningFrames ==
    ASSUME NEW p \in Peers, NEW k \in Kinds, NEW h \in Hellos \cup {NoHello}
    PROVE  /\ Opening(k, h) \in Seq(Frames)
           /\ Opening(k, h) # <<>> =>
                 \/ Opening(k, h)[1] = First8("NPS/1.0") /\ k \in {"client", "stalled", "odd"}
                 \/ Opening(k, h)[1] = First8("GET / HT") /\ k = "foreign"
           /\ k = "client" => Opening(k, h) = <<First8("NPS/1.0"), HelloFrame(h)>>
           /\ k = "odd" => Opening(k, h) = <<First8("NPS/1.0"), OddFrame>>
           /\ k = "stalled" => Opening(k, h) = <<First8("NPS/1.0")>>
<1>1. First8("NPS/1.0") \in Frames /\ First8("GET / HT") \in Frames
  BY OpeningParts
<1>2. HelloFrame(h) \in Frames /\ OddFrame \in Frames
  BY OpeningParts
<1> DEFINE a == First8("NPS/1.0")
           b == First8("GET / HT")
<1>3. Opening(k, h) = CASE k = "client"  -> <<a, HelloFrame(h)>>
                        [] k = "foreign" -> <<b>>
                        [] k = "stalled" -> <<a>>
                        [] k = "odd"     -> <<a, OddFrame>>
                        [] k = "silent"  -> <<>>
  BY Zenon DEF Opening
<1> HIDE DEF a, b
<1>4. a \in Frames /\ b \in Frames
  BY <1>1 DEF a, b
<1>5. k \in {"client", "silent", "foreign", "stalled", "odd"}
  BY DEF Kinds
<1>6. /\ Opening(k, h) \in Seq(Frames)
      /\ Opening(k, h) # <<>> => \/ Opening(k, h)[1] = a /\ k \in {"client", "stalled", "odd"}
                                 \/ Opening(k, h)[1] = b /\ k = "foreign"
      /\ k = "client" => Opening(k, h) = <<a, HelloFrame(h)>>
      /\ k = "odd" => Opening(k, h) = <<a, OddFrame>>
      /\ k = "stalled" => Opening(k, h) = <<a>>
  BY <1>2, <1>3, <1>4, <1>5
<1> QED
  BY <1>6 DEF a, b

-----------------------------------------------------------------------------
(* The actions, one by one.                                                 *)

LEMMA InitHolds == Init => IndInv
<1> SUFFICES ASSUME Init PROVE IndInv
  OBVIOUS
<1>1. EmptyStream \in Streams /\ NoPolicy \in Policies
  BY DEF EmptyStream, Streams, NoPolicy, Policy, Policies
<1>2. PICK k \in [Peers -> Kinds] :
         /\ \A p \in Peers : k[p] = "client" <=> p \in Clients
         /\ peer = [p \in Peers |-> [kind |-> k[p], hello |-> NoHello, pc |-> "idle",
                                     policy |-> NoPolicy]]
  BY DEF Init
<1>3. peer \in [Peers -> PeerEnds] /\ conn \in [Peers -> ConnEnds]
  BY <1>1, <1>2 DEF Init, PeerEnds, ConnEnds
<1>4. TypeOK
  BY <1>1, <1>3, NcpSessionAssumption DEF Init, TypeOK
<1>5. ASSUME NEW p \in Peers PROVE Inv(p)
  <2>1. /\ peer[p].kind = "client" <=> p \in Clients
        /\ peer[p].pc = "idle" /\ conn[p].pc = "none" /\ sent[p] = 0
        /\ up[p] = EmptyStream /\ down[p] = EmptyStream /\ server.pc = "listen"
    BY <1>2 DEF Init
  <2> QED
    BY <2>1 DEF Inv, Opened, Quiet, Admitting, Handed, UpAllowed, CapsFirst, Agreed, CapsStable,
                EmptyStream
<1> QED
  BY <1>4, <1>5 DEF IndInv

LEMMA ConnectStep ==
    ASSUME IndInv, NEW p \in Peers, Connect(p)
    PROVE  TypeOK' /\ Only(p) /\ Inv(p)'
<1>1. /\ TypeOK /\ Inv(p) /\ up[p] \in Streams
      /\ peer[p] \in PeerEnds /\ conn[p] \in ConnEnds
  BY Known
<1>2. PICK h \in (IF p \in Clients THEN Hellos ELSE {NoHello}) :
         /\ peer' = [peer EXCEPT ![p].pc = "waiting", ![p].hello = h]
         /\ up' = [up EXCEPT ![p] = Write(@, Opening(peer[p].kind, h))]
  BY DEF Connect
<1>3. conn[p].pc = "none" /\ up[p] = EmptyStream /\ down[p] = EmptyStream
  BY <1>1 DEF Connect, Inv, Opened, Quiet
<1> DEFINE o == Opening(peer[p].kind, h)
<1>4. o \in Seq(Frames)
  BY <1>1, OpeningFrames DEF PeerEnds
<1> HIDE DEF o
<1>5. up'[p] = [frames |-> o, off |-> 0]
  <2>1. up'[p] = Write(EmptyStream, o)
    BY <1>1, <1>2, <1>3 DEF TypeOK, o
  <2>2. <<>> \o o = o
    BY <1>4
  <2> QED
    BY <2>1, <2>2 DEF Write, EmptyStream
<1>6. peer'[p] \in PeerEnds /\ peer'[p].kind = peer[p].kind /\ peer'[p].hello = h
      /\ peer'[p].pc = "waiting"
  BY <1>1, <1>2 DEF TypeOK, PeerEnds
<1>7. conn'[p] \in ConnEnds /\ conn'[p].pc = "backlog"
  BY <1>1 DEF Connect, TypeOK, ConnEnds
<1>8. TypeOK'
  <2>1. up'[p] \in Streams
    BY <1>4, <1>5 DEF Streams
  <2>2. peer' \in [Peers -> PeerEnds] /\ conn' \in [Peers -> ConnEnds] /\ up' \in [Peers -> Streams]
    BY <1>1, <1>2, <1>6, <1>7, <2>1 DEF Connect, TypeOK
  <2> QED
    BY <1>1, <2>2 DEF Connect, TypeOK
<1>9. Only(p)
  BY <1>1, <1>2 DEF Only, Connect, TypeOK
<1>10. Inv(p)'
  <2>1. server' = server /\ down' = down /\ sent' = sent
    BY DEF Connect
  <2>2. ~(server.pc # "listen" /\ server.conn = p)
    BY <1>1, <1>3 DEF Inv, Admitting
  <2>3. server # [pc |-> "hello", conn |-> p]
    BY <2>2
  <2>4. Admitting(p)'
    BY <1>5, <1>6, <1>7, <2>1, <2>2, <2>3 DEF Admitting, o
  <2> QED
    BY <1>1, <1>2, <1>3, <1>6, <1>7, <2>1, <2>4
       DEF Inv, Opened, Quiet, Handed, UpAllowed, CapsFirst, Agreed, CapsStable
<1> QED
  BY <1>8, <1>9, <1>10
LEMMA ClientReadAnswerStep ==
    ASSUME IndInv, NEW p \in Peers, ClientReadAnswer(p)
    PROVE  TypeOK' /\ Only(p) /\ Inv(p)'
<1> DEFINE f == down[p].frames[1]
           e == FromEnabledEncodings(f.header.tier, f.body.enabled)
<1>1. /\ TypeOK /\ Inv(p) /\ down[p] \in Streams
      /\ peer[p] \in PeerEnds /\ conn[p] \in ConnEnds
  BY Known
<1>2. /\ down[p].off = 0 /\ down[p].frames # <<>> /\ f \in Frames
      /\ TakeFrame(down[p]).off = 0
  BY <1>1, Ready DEF ClientReadAnswer
<1>3. TakeFrame(down[p]) \in Streams /\ From(TakeFrame(down[p]), down[p])
  BY <1>1, Ready DEF ClientReadAnswer
<1>4. 1 \in DOMAIN down[p].frames
  BY <1>1, Ready DEF ClientReadAnswer
<1>5. peer[p].pc = "waiting" /\ conn[p].pc \in {"session", "closed"}
  <2>1. down[p] # EmptyStream
    BY <1>2 DEF EmptyStream
  <2> QED
    BY <1>1, <2>1 DEF ClientReadAnswer, Inv, Quiet, ConnEnds
<1>6. f.header.type = "Caps" => e \in Policies
  BY <1>1, <1>4 DEF Inv, CapsStable, FromEnabledEncodings, Policy, Policies, Contains
<1>7. NoPolicy \in Policies
  BY DEF NoPolicy, Policy, Policies
<1> HIDE DEF f, e
<1>8. /\ peer' = [peer EXCEPT ![p].pc = IF f.header.type = "Caps" THEN "session" ELSE "failed",
                              ![p].policy = IF f.header.type = "Caps" THEN e ELSE NoPolicy]
      /\ down' = [down EXCEPT ![p] = TakeFrame(@)]
      /\ upEof' = [upEof EXCEPT ![p] = f.header.type # "Caps"]
      /\ UNCHANGED <<conn, server, up, downEof, sent, answered>>
  BY DEF ClientReadAnswer, f, e
<1>9. /\ peer'[p] \in PeerEnds /\ peer'[p].kind = peer[p].kind /\ peer'[p].hello = peer[p].hello
      /\ peer'[p].pc \in {"session", "failed"}
      /\ peer'[p].pc = "session" => f.header.type = "Caps" /\ peer'[p].policy = e
  BY <1>1, <1>6, <1>7, <1>8 DEF TypeOK, PeerEnds
<1>10. down'[p] \in Streams /\ down'[p].off = 0 /\ From(down[p]', down[p])
  <2>1. down'[p] = TakeFrame(down[p])
    BY <1>1, <1>8 DEF TypeOK
  <2> QED
    BY <1>2, <1>3, <2>1
<1>11. TypeOK'
  <2>1. peer' \in [Peers -> PeerEnds] /\ down' \in [Peers -> Streams]
    BY <1>1, <1>8, <1>9, <1>10 DEF TypeOK
  <2> QED
    BY <1>1, <1>8, <2>1 DEF TypeOK
<1>12. Only(p)
  BY <1>1, <1>8 DEF Only, TypeOK
<1>13. Inv(p)'
  <2>1. Opened(p)' /\ Quiet(p)' /\ Handed(p)' /\ CapsFirst(p)'
    BY <1>1, <1>5, <1>8, <1>9 DEF Inv, Opened, Quiet, Handed, OnlyRequests, CapsFirst
  <2>2. Admitting(p)' /\ UpAllowed(p)'
    BY <1>1, <1>5, <1>8, <1>9 DEF Inv, Admitting, UpAllowed, Aligned, AllAllowed
  <2>3. CapsStable(p)'
    BY <1>1, <1>8, <1>10 DEF Inv, CapsStable, From
  <2>4. Agreed(p)'
    <3> SUFFICES ASSUME conn[p].pc = "session"
                 PROVE  Agreed(p)'
      BY <1>8 DEF Agreed
    <3>1. conn[p].policy = e /\ AllAllowed(down[p], conn[p].policy)
      BY <1>1, <1>5 DEF Inv, CapsFirst, e, f
    <3>2. AllAllowed(down[p], conn[p].policy)'
      BY <1>8, <1>10, <3>1 DEF AllAllowed, From
    <3> QED
      BY <1>8, <1>9, <1>10, <3>1, <3>2 DEF Agreed, Aligned
  <2> QED
    BY <2>1, <2>2, <2>3, <2>4 DEF Inv
<1> QED
  BY <1>11, <1>12, <1>13

\* The peer gives up: its end, and the end of its stream.
LEMMA PeerGone ==
    ASSUME IndInv, NEW p \in Peers, NEW pc \in {"failed", "closed"}, peer[p].pc # "idle",
           peer' = [peer EXCEPT ![p].pc = pc], upEof' = [upEof EXCEPT ![p] = TRUE],
           UNCHANGED <<conn, server, up, down, downEof, sent, answered>>
    PROVE  TypeOK' /\ Only(p) /\ Inv(p)'
<1>1. TypeOK /\ Inv(p) /\ peer[p] \in PeerEnds
  BY Known
<1>2. /\ peer'[p] \in PeerEnds /\ peer'[p].kind = peer[p].kind /\ peer'[p].hello = peer[p].hello
      /\ peer'[p].pc \in {"failed", "closed"}
  BY <1>1 DEF TypeOK, PeerEnds
<1>3. TypeOK' /\ Only(p)
  BY <1>1, <1>2 DEF TypeOK, Only
<1>4. Opened(p)' /\ Quiet(p)' /\ Handed(p)' /\ CapsFirst(p)' /\ Agreed(p)'
  BY <1>1, <1>2 DEF Inv, Opened, Quiet, Handed, OnlyRequests, CapsFirst, Agreed
<1>5. Admitting(p)' /\ UpAllowed(p)' /\ CapsStable(p)'
  BY <1>1, <1>2 DEF Inv, Admitting, UpAllowed, Aligned, AllAllowed, CapsStable
<1> QED
  BY <1>3, <1>4, <1>5 DEF Inv

LEMMA PeerGoneSteps ==
    ASSUME IndInv, NEW p \in Peers, ClientReadEof(p) \/ PeerClose(p)
    PROVE  TypeOK' /\ Only(p) /\ Inv(p)'
<1>1. CASE ClientReadEof(p)
  BY <1>1, PeerGone DEF ClientReadEof
<1>2. CASE PeerClose(p)
  BY <1>2, PeerGone DEF PeerClose
<1> QED
  BY <1>1, <1>2

LEMMA ClientSendStep ==
    ASSUME IndInv, NEW p \in Peers, ClientSend(p)
    PROVE  TypeOK' /\ Only(p) /\ Inv(p)'
<1>1. TypeOK /\ Inv(p) /\ up[p] \in Streams /\ sent[p] \in 0..MaxUp /\ conn[p] \in ConnEnds
  BY Known DEF TypeOK
<1>2. PICK type \in FrameTypes, tier \in Tiers \ {"reserved"}, len \in FrameLens :
         /\ Allows(peer[p].policy, tier, type)
         /\ up' = [up EXCEPT ![p] = Write(@, <<Frame(type, tier, len, [request |-> sent[p] + 1])>>)]
  BY DEF ClientSend
<1>3. peer[p].pc = "session" /\ sent[p] + 1 \in 0..MaxUp /\ len \in Nat
  BY <1>1, NcpSessionAssumption DEF ClientSend
<1>4. PICK f : f = Frame(type, tier, len, [request |-> sent[p] + 1])
  OBVIOUS
<1>5. /\ f \in Frames /\ f.header.type = type /\ f.header.tier = tier
      /\ f.body \in [request : 0..MaxUp]
  <2>1. PICK b \in [request : 0..MaxUp] : b = [request |-> sent[p] + 1]
    BY <1>3
  <2>2. b \in Bodies /\ type \in WireTypes /\ tier \in Tiers
    BY DEF Bodies, WireTypes
  <2>3. f = Frame(type, tier, len, b)
    BY <1>4, <2>1
  <2> QED
    BY <1>3, <2>2, <2>3, FrameTyped
<1>6. /\ up'[p] = Write(up[p], <<f>>) /\ up'[p] \in Streams /\ up'[p].off = up[p].off
      /\ \A i \in DOMAIN up'[p].frames :
            up'[p].frames[i] = f \/ (i \in DOMAIN up[p].frames /\ up'[p].frames[i] = up[p].frames[i])
  <2>1. up'[p] = Write(up[p], <<f>>)
    BY <1>1, <1>2, <1>4 DEF TypeOK
  <2> QED
    BY <1>1, <1>5, <2>1, Wrote
<1>7. conn[p].pc \in {"session", "closed"}
  BY <1>1, <1>3 DEF Inv, Quiet, ConnEnds
<1>8. sent' = [sent EXCEPT ![p] = @ + 1] /\ UNCHANGED <<peer, conn, server, down, upEof, downEof, answered>>
  BY DEF ClientSend
<1>9. TypeOK' /\ Only(p)
  <2>1. up' \in [Peers -> Streams] /\ sent' \in [Peers -> 0..MaxUp]
    BY <1>1, <1>2, <1>3, <1>6, <1>8 DEF TypeOK
  <2> QED
    BY <1>1, <1>2, <1>8, <2>1 DEF TypeOK, Only
<1>10. Inv(p)'
  <2>1. Opened(p)' /\ Quiet(p)' /\ Admitting(p)'
    BY <1>1, <1>7, <1>8 DEF Inv, Opened, Quiet, Admitting
  <2>2. CapsStable(p)' /\ CapsFirst(p)' /\ Agreed(p)'
    BY <1>1, <1>8 DEF Inv, CapsStable, CapsFirst, Agreed, Aligned, AllAllowed
  <2>3. Handed(p)'
    <3>1. conn[p].pc = "session" => OnlyRequests(up[p])'
      BY <1>1, <1>2, <1>5, <1>6 DEF Inv, Handed, OnlyRequests
    <3> QED
      BY <1>1, <1>3, <1>7, <1>8, <3>1 DEF Inv, Handed
  <2>4. UpAllowed(p)'
    <3> SUFFICES ASSUME conn[p].pc = "session", conn[p].loop = "session"
                 PROVE  UpAllowed(p)'
      BY <1>8 DEF UpAllowed
    <3>1. Allows(conn[p].policy, f.header.tier, f.header.type)
      BY <1>1, <1>2, <1>3, <1>5 DEF Inv, Agreed
    <3>2. Aligned(up[p]) /\ AllAllowed(up[p], conn[p].policy)
      BY <1>1 DEF Inv, UpAllowed
    <3>3. AllAllowed(up[p], conn[p].policy)'
      BY <1>6, <1>8, <3>1, <3>2 DEF AllAllowed
    <3> QED
      BY <1>6, <3>2, <3>3 DEF UpAllowed, Aligned
  <2> QED
    BY <2>1, <2>2, <2>3, <2>4 DEF Inv
<1> QED
  BY <1>9, <1>10
LEMMA ClientRecvStep ==
    ASSUME IndInv, NEW p \in Peers, ClientRecv(p)
    PROVE  TypeOK' /\ Only(p) /\ Inv(p)'
<1>1. /\ TypeOK /\ Inv(p) /\ down[p] \in Streams
      /\ peer[p] \in PeerEnds /\ conn[p] \in ConnEnds
  BY Known
<1>2. peer[p].pc = "session" /\ conn[p].pc \in {"session", "closed"}
  BY <1>1 DEF ClientRecv, Inv, Quiet, ConnEnds
<1>3. /\ TakeFrame(down[p]) \in Streams /\ From(TakeFrame(down[p]), down[p])
      /\ TakeHeader(down[p]) \in Streams /\ From(TakeHeader(down[p]), down[p])
      /\ TakeFrame(down[p]).off = 0
  BY <1>1, Ready DEF ClientRecv
<1>4. /\ down'[p] \in Streams /\ From(down[p]', down[p])
      /\ peer'[p] \in PeerEnds /\ peer'[p].kind = peer[p].kind /\ peer'[p].hello = peer[p].hello
      /\ peer'[p].policy = peer[p].policy /\ peer'[p].pc \in {"session", "failed"}
      /\ peer'[p].pc = "session" => down'[p].off = 0
      /\ peer' \in [Peers -> PeerEnds] /\ down' \in [Peers -> Streams]
      /\ upEof' \in [Peers -> BOOLEAN]
      /\ \A q \in Peers \ {p} : peer'[q] = peer[q] /\ down'[q] = down[q]
  <2> DEFINE h == NextHeader(down[p])
  <2>1. CASE Allows(peer[p].policy, h.tier, h.type)
    <3>1. down' = [down EXCEPT ![p] = TakeFrame(@)] /\ UNCHANGED <<peer, upEof>>
      BY <2>1 DEF ClientRecv
    <3>2. down'[p] = TakeFrame(down[p])
      BY <1>1, <3>1 DEF TypeOK
    <3> QED
      BY <1>1, <1>2, <1>3, <3>1, <3>2 DEF TypeOK
  <2>2. CASE ~Allows(peer[p].policy, h.tier, h.type)
    <3>1. /\ down' = [down EXCEPT ![p] = TakeHeader(@)]
          /\ peer' = [peer EXCEPT ![p].pc = "failed"] /\ upEof' = [upEof EXCEPT ![p] = TRUE]
      BY <2>2 DEF ClientRecv
    <3>2. down'[p] = TakeHeader(down[p])
      BY <1>1, <3>1 DEF TypeOK
    <3>3. /\ peer'[p] \in PeerEnds /\ peer'[p].kind = peer[p].kind
          /\ peer'[p].hello = peer[p].hello
          /\ peer'[p].policy = peer[p].policy /\ peer'[p].pc = "failed"
      BY <1>1, <3>1 DEF TypeOK, PeerEnds
    <3> QED
      BY <1>1, <1>3, <3>1, <3>2, <3>3 DEF TypeOK
  <2> QED
    BY <2>1, <2>2
<1>5. UNCHANGED <<conn, server, up, downEof, sent, answered>>
  BY DEF ClientRecv
<1>6. TypeOK' /\ Only(p)
  BY <1>1, <1>4, <1>5 DEF TypeOK, Only
<1>7. Inv(p)'
  <2>1. Opened(p)' /\ Quiet(p)' /\ Handed(p)' /\ CapsFirst(p)'
    BY <1>1, <1>2, <1>4, <1>5 DEF Inv, Opened, Quiet, Handed, OnlyRequests, CapsFirst
  <2>2. Admitting(p)' /\ UpAllowed(p)'
    BY <1>1, <1>2, <1>4, <1>5 DEF Inv, Admitting, UpAllowed, Aligned, AllAllowed
  <2>3. CapsStable(p)'
    BY <1>1, <1>4, <1>5 DEF Inv, CapsStable, From
  <2>4. Agreed(p)'
    <3> SUFFICES ASSUME conn[p].pc = "session" PROVE Agreed(p)'
      BY <1>5 DEF Agreed
    <3>1. peer[p].policy = conn[p].policy /\ AllAllowed(down[p], conn[p].policy)
      BY <1>1, <1>2 DEF Inv, Agreed
    <3>2. AllAllowed(down[p], conn[p].policy)'
      BY <1>4, <1>5, <3>1 DEF AllAllowed, From
    <3> QED
      BY <1>4, <1>5, <3>1, <3>2 DEF Agreed, Aligned
  <2> QED
    BY <2>1, <2>2, <2>3, <2>4 DEF Inv
<1> QED
  BY <1>6, <1>7

LEMMA AcceptStep ==
    ASSUME IndInv, NEW p \in Peers, Accept(p)
    PROVE  TypeOK' /\ Only(p) /\ Inv(p)'
<1>1. TypeOK /\ Inv(p)
  BY Known
<1>2. /\ server.pc = "listen" /\ conn[p].pc = "backlog"
      /\ server' = [pc |-> "preamble", conn |-> p]
      /\ UNCHANGED <<peer, conn, up, down, upEof, downEof, sent, answered>>
  BY DEF Accept
<1>3. \A q : server # [pc |-> "hello", conn |-> q] /\ server' # [pc |-> "hello", conn |-> q]
  BY <1>2
<1>4. TypeOK' /\ Only(p)
  BY <1>1, <1>2, <1>3 DEF TypeOK, Only
<1>5. Admitting(p)'
  BY <1>1, <1>2, <1>3 DEF Inv, Admitting
<1>6. Opened(p)' /\ Quiet(p)' /\ Handed(p)' /\ CapsStable(p)'
  BY <1>1, <1>2 DEF Inv, Opened, Quiet, Handed, OnlyRequests, CapsStable
<1>7. UpAllowed(p)' /\ CapsFirst(p)' /\ Agreed(p)'
  BY <1>2 DEF UpAllowed, CapsFirst, Agreed
<1> QED
  BY <1>4, <1>5, <1>6, <1>7 DEF Inv

\* A connection is closed: nothing is promised of it any more.
LEMMA Closed ==
    ASSUME IndInv, NEW p \in Peers, conn[p].pc # "none",
           conn' = [conn EXCEPT ![p].pc = "closed"],
           downEof' = [downEof EXCEPT ![p] = TRUE],
           \/ server' = server /\ conn[p].pc # "backlog"
           \/ server.conn = p /\ server' = [pc |-> "listen", conn |-> "none"],
           up' \in [Peers -> Streams], down' \in [Peers -> Streams],
           \A q \in Peers \ {p} : up'[q] = up[q] /\ down'[q] = down[q],
           \A i \in DOMAIN down'[p].frames :
               down'[p].frames[i].header.type = "Caps" =>
                   down'[p].frames[i].header.tier \in StableTiers,
           UNCHANGED <<peer, upEof, sent, answered>>
    PROVE  TypeOK' /\ Only(p) /\ Inv(p)'
<1>1. TypeOK /\ Inv(p) /\ conn[p] \in ConnEnds
  BY Known
<1>2. conn'[p] \in ConnEnds /\ conn'[p].pc = "closed"
  BY <1>1 DEF TypeOK, ConnEnds
<1>3. server'.pc # "listen" => server' = server
  OBVIOUS
<1>4. TypeOK'
  <2>1. conn' \in [Peers -> ConnEnds] /\ downEof' \in [Peers -> BOOLEAN]
    BY <1>1, <1>2 DEF TypeOK
  <2>2. server' \in [pc : {"listen", "preamble", "hello"}, conn : Peers \cup {"none"}]
    BY <1>1 DEF TypeOK
  <2> QED
    BY <1>1, <2>1, <2>2 DEF TypeOK
<1>5. Only(p)
  BY <1>1 DEF TypeOK, Only
<1>6. Opened(p)' /\ Quiet(p)' /\ Handed(p)' /\ CapsStable(p)'
  BY <1>1, <1>2 DEF Inv, Opened, Quiet, Handed, CapsStable
<1>7. Admitting(p)'
  BY <1>1, <1>2, <1>3 DEF Inv, Admitting
<1>8. UpAllowed(p)' /\ CapsFirst(p)' /\ Agreed(p)'
  BY <1>2 DEF UpAllowed, CapsFirst, Agreed
<1> QED
  BY <1>4, <1>5, <1>6, <1>7, <1>8 DEF Inv
\* The stream down to the peer as it was keeps what CapsStable says.
LEMMA DownKept ==
    ASSUME IndInv, NEW p \in Peers, down' = down
    PROVE  /\ down' \in [Peers -> Streams]
           /\ \A i \in DOMAIN down'[p].frames :
                 down'[p].frames[i].header.type = "Caps" =>
                     down'[p].frames[i].header.tier \in StableTiers
  BY DEF IndInv, TypeOK, Inv, CapsStable

LEMMA ReadGivesUpStep ==
    ASSUME IndInv, NEW p \in Peers, ReadGivesUp(p)
    PROVE  TypeOK' /\ Only(p) /\ Inv(p)'
<1>1. TypeOK /\ Inv(p)
  BY Known
<1>2. /\ server.conn = p /\ server.pc # "listen"
      /\ conn' = [conn EXCEPT ![p].pc = "closed"]
      /\ downEof' = [downEof EXCEPT ![p] = TRUE]
      /\ server' = [pc |-> "listen", conn |-> "none"]
      /\ UNCHANGED <<peer, up, down, upEof, sent, answered>>
  BY DEF ReadGivesUp, DropConnection
<1>3. conn[p].pc # "none"
  BY <1>1, <1>2 DEF Inv, Admitting
<1>4. up' \in [Peers -> Streams]
  BY <1>1, <1>2 DEF TypeOK
<1> QED
  BY <1>2, <1>3, <1>4, DownKept, Closed

LEMMA ReadPreambleStep ==
    ASSUME IndInv, NEW p \in Peers, ReadPreamble(p)
    PROVE  TypeOK' /\ Only(p) /\ Inv(p)'
<1> DEFINE whole == Opening(peer[p].kind, peer[p].hello)
<1>1. /\ TypeOK /\ Inv(p) /\ up[p] \in Streams
      /\ peer[p] \in PeerEnds /\ conn[p] \in ConnEnds
  BY Known
<1>2. server.pc = "preamble" /\ server.conn = p /\ server # [pc |-> "hello", conn |-> p]
  BY DEF ReadPreamble
<1>3. conn[p].pc = "backlog" /\ up[p] = [frames |-> whole, off |-> 0]
  BY <1>1, <1>2 DEF Inv, Admitting
<1>4. whole # <<>>
  <2> SUFFICES ASSUME up[p].frames = <<>> PROVE FALSE
    BY <1>3
  <2>1. Len(up[p].frames) = 0 /\ BytesOf(up[p])[0] = 0
    BY <1>1, Bytes
  <2>2. Available(up[p]) = 0
    BY <1>3, <2>1 DEF Available
  <2> QED
    BY <2>2 DEF ReadPreamble
<1>5. \/ whole[1] = First8("NPS/1.0")
      \/ whole[1] = First8("GET / HT")
  BY <1>1, <1>4, OpeningFrames, Zenon DEF PeerEnds
<1>6. WireSize(whole[1].header) = 8
  <2>1. PICK text : whole[1] = First8(text)
    BY <1>5, Zenon
  <2> QED
    BY <2>1 DEF First8, WireSize, HeaderSize
<1>7. Take(up[p], 8) = [frames |-> Tail(whole), off |-> 0]
  BY <1>1, <1>3, <1>4, <1>6, TakeFirst
<1>8. Take(up[p], 8) \in Streams
  BY <1>1, TakeStream
<1> HIDE DEF whole
<1>9. /\ up' = [up EXCEPT ![p] = Take(@, 8)]
      /\ UNCHANGED <<peer, down, upEof, sent, answered>>
  BY DEF ReadPreamble
<1>10. /\ up' \in [Peers -> Streams] /\ up'[p] = [frames |-> Tail(whole), off |-> 0]
       /\ \A q \in Peers \ {p} : up'[q] = up[q] /\ down'[q] = down[q]
  BY <1>1, <1>7, <1>8, <1>9 DEF TypeOK
<1>11. CASE ValidPreamble(up[p].frames[1].body.text)
  <2>1. server' = [server EXCEPT !.pc = "hello"] /\ UNCHANGED <<conn, downEof>>
    BY <1>11 DEF ReadPreamble
  <2>2. server' = [pc |-> "hello", conn |-> p]
    BY <1>1, <1>2, <2>1 DEF TypeOK
  <2>3. whole[1] = First8("NPS/1.0")
    <3>1. up[p].frames = whole
      BY <1>3
    <3>2. whole[1].body.text = "NPS/1.0"
      BY <1>11, <3>1 DEF ValidPreamble
    <3>3. First8("GET / HT").body.text = "GET / HT"
      BY DEF First8
    <3>4. "GET / HT" # "NPS/1.0"
      OBVIOUS
    <3> QED
      BY <1>5, <3>2, <3>3, <3>4, Zenon
  <2>4. TypeOK' /\ Only(p)
    <3>1. server'.conn = p
      BY <2>2
    <3>2. \A q \in Peers \ {p} : /\ server # [pc |-> "hello", conn |-> q]
                                 /\ server' # [pc |-> "hello", conn |-> q]
      BY <1>2, <3>1
    <3>3. TypeOK'
      BY <1>1, <1>9, <1>10, <2>1, <2>2 DEF TypeOK
    <3> QED
      BY <1>9, <1>10, <2>1, <3>1, <3>2, <3>3 DEF Only
  <2>5. Admitting(p)'
    <3>1. whole' = whole
      BY <1>9 DEF whole
    <3> QED
      BY <1>3, <1>4, <1>10, <2>1, <2>2, <2>3, <3>1 DEF Admitting, whole
  <2>6. Opened(p)' /\ Quiet(p)' /\ Handed(p)' /\ CapsStable(p)'
    BY <1>1, <1>3, <1>9, <2>1 DEF Inv, Opened, Quiet, Handed, CapsStable
  <2>7. UpAllowed(p)' /\ CapsFirst(p)' /\ Agreed(p)'
    BY <1>3, <2>1 DEF UpAllowed, CapsFirst, Agreed
  <2> QED
    BY <2>4, <2>5, <2>6, <2>7 DEF Inv
<1>12. CASE ~ValidPreamble(up[p].frames[1].body.text)
  <2>1. /\ conn' = [conn EXCEPT ![p].pc = "closed"]
        /\ downEof' = [downEof EXCEPT ![p] = TRUE]
        /\ server' = [pc |-> "listen", conn |-> "none"]
    BY <1>12 DEF ReadPreamble, DropConnection
  <2> QED
    BY <1>2, <1>3, <1>9, <1>10, <2>1, DownKept, Closed
<1> QED
  BY <1>11, <1>12

\* What is left of an opening after its first frame.
LEMMA Tails ==
    ASSUME NEW a \in Frames, NEW b \in Frames
    PROVE  Tail(<<a>>) = <<>> /\ Tail(<<a, b>>) = <<b>> /\ <<b>>[1] = b
<1>1. <<a>> \in Seq(Frames) /\ <<a, b>> \in Seq(Frames) /\ <<b>> \in Seq(Frames)
  OBVIOUS
<1>2. Len(Tail(<<a>>)) = 0 /\ Tail(<<a>>) \in Seq(Frames)
  BY <1>1
<1>3. Len(Tail(<<a, b>>)) = 1 /\ Tail(<<a, b>>)[1] = b /\ Tail(<<a, b>>) \in Seq(Frames)
  BY <1>1
<1>4. Tail(<<a>>) = <<>>
  BY <1>2
<1>5. Tail(<<a, b>>) = <<b>>
  BY <1>1, <1>3
<1> QED
  BY <1>4, <1>5

\* A Hello the server admits is the one a client sent, and nothing follows it.
LEMMA HelloRead ==
    ASSUME IndInv, NEW p \in Peers, ReadHello(p),
           HelloHeaderAdmitted(up[p].frames[1].header, ShortMax)
    PROVE  /\ Tail(up[p].frames) = <<>> /\ p \in Clients
           /\ up[p].frames[1].body = peer[p].hello /\ peer[p].hello \in Hellos
<1> DEFINE whole == Opening(peer[p].kind, peer[p].hello)
           f == up[p].frames[1]
<1>1. /\ TypeOK /\ Inv(p) /\ up[p] \in Streams
      /\ peer[p] \in PeerEnds /\ conn[p] \in ConnEnds
  BY Known
<1>2. server = [pc |-> "hello", conn |-> p] /\ server.pc = "hello" /\ server.conn = p
  BY DEF ReadHello
<1>3. /\ conn[p].pc = "backlog" /\ up[p] = [frames |-> Tail(whole), off |-> 0]
      /\ whole # <<>> /\ whole[1] = First8("NPS/1.0")
  BY <1>1, <1>2 DEF Inv, Admitting
<1>4. up[p].frames # <<>>
  BY <1>1, Ready DEF ReadHello
<1>5. f.header.type = "Hello" /\ f.header.tier = "json"
  BY DEF HelloHeaderAdmitted
<1>6. f = HelloFrame(peer[p].hello) /\ peer[p].kind = "client" /\ Tail(up[p].frames) = <<>>
  <2> DEFINE a == First8("NPS/1.0")
  <2>1. /\ peer[p].kind = "client" => whole = <<a, HelloFrame(peer[p].hello)>>
        /\ peer[p].kind = "odd" => whole = <<a, OddFrame>>
        /\ peer[p].kind = "stalled" => whole = <<a>>
        /\ \/ whole[1] = a /\ peer[p].kind \in {"client", "stalled", "odd"}
           \/ whole[1] = First8("GET / HT") /\ peer[p].kind = "foreign"
    BY <1>1, <1>3, OpeningFrames DEF PeerEnds
  <2>2. a # First8("GET / HT")
    <3>1. a.body.text = "NPS/1.0" /\ First8("GET / HT").body.text = "GET / HT"
      BY DEF First8
    <3> QED
      BY <3>1
  <2> HIDE DEF a, whole
  <2>3. peer[p].kind \in {"client", "stalled", "odd"}
    BY <1>3, <2>1, <2>2 DEF a
  <2>4. up[p].frames = Tail(whole)
    BY <1>3
  <2>5. PICK g : g = HelloFrame(peer[p].hello)
    OBVIOUS
  <2>6. PICK o : o = OddFrame
    OBVIOUS
  <2>7. PICK a1 : a1 = a
    OBVIOUS
  <2>8. a1 \in Frames /\ g \in Frames /\ o \in Frames
    BY <1>1, <2>5, <2>6, <2>7, OpeningParts DEF a, PeerEnds
  <2>9. /\ Tail(<<a1>>) = <<>> /\ Tail(<<a1, g>>) = <<g>> /\ Tail(<<a1, o>>) = <<o>>
        /\ <<g>>[1] = g /\ <<o>>[1] = o /\ Tail(<<g>>) = <<>>
    BY <2>8, Tails
  <2>10. peer[p].kind # "stalled"
    BY <1>4, <2>1, <2>4, <2>7, <2>9, Zenon
  <2>11. peer[p].kind # "odd"
    <3>1. OddFrame.header.tier = "msgpack"
      BY DEF OddFrame, Frame, FrameHeader
    <3>2. ASSUME peer[p].kind = "odd" PROVE f = o
      BY <2>1, <2>4, <2>6, <2>7, <2>9, <3>2, Zenon
    <3> QED
      BY <1>5, <2>6, <3>1, <3>2
  <2>12. peer[p].kind = "client"
    BY <2>3, <2>10, <2>11
  <2>13. up[p].frames = <<g>>
    BY <2>1, <2>4, <2>5, <2>7, <2>9, <2>12, Zenon
  <2> QED
    BY <2>5, <2>9, <2>12, <2>13, Zenon
<1>7. f.body = peer[p].hello /\ peer[p].hello \in Hellos
  <2>1. f.body = peer[p].hello
    BY <1>6 DEF HelloFrame, Frame
  <2>2. p \in Clients /\ peer[p].pc # "idle"
    BY <1>1, <1>3, <1>6 DEF Inv, Opened
  <2> QED
    BY <1>1, <2>1, <2>2 DEF Inv, Opened
<1>8. p \in Clients
  BY <1>1, <1>6 DEF Inv, Opened
<1> QED
  BY <1>6, <1>7, <1>8

LEMMA ReadHelloStep ==
    ASSUME IndInv, NEW p \in Peers, ReadHello(p)
    PROVE  TypeOK' /\ Only(p) /\ Inv(p)'
<1> DEFINE whole == Opening(peer[p].kind, peer[p].hello)
           f == up[p].frames[1]
<1>1. /\ TypeOK /\ Inv(p) /\ up[p] \in Streams
      /\ peer[p] \in PeerEnds /\ conn[p] \in ConnEnds
  BY Known
<1>2. server = [pc |-> "hello", conn |-> p] /\ server.pc = "hello" /\ server.conn = p
  BY DEF ReadHello
<1>3. /\ conn[p].pc = "backlog" /\ up[p] = [frames |-> Tail(whole), off |-> 0]
      /\ whole # <<>> /\ whole[1] = First8("NPS/1.0")
  BY <1>1, <1>2 DEF Inv, Admitting
<1>4. /\ up[p].frames # <<>>
      /\ TakeFrame(up[p]) = [frames |-> Tail(up[p].frames), off |-> 0]
      /\ TakeFrame(up[p]) \in Streams /\ TakeHeader(up[p]) \in Streams
  BY <1>1, Ready DEF ReadHello
<1>5. UNCHANGED <<peer, down, upEof, sent, answered>>
  BY DEF ReadHello
<1>6. CASE HelloHeaderAdmitted(f.header, ShortMax)
  <2>1. /\ up' = [up EXCEPT ![p] = TakeFrame(@)]
        /\ conn' = [conn EXCEPT ![p].pc = "pending", ![p].hello = f.body]
        /\ server' = [pc |-> "listen", conn |-> "none"]
        /\ downEof' = downEof
    BY <1>6 DEF ReadHello
  <2>2. f.body = peer[p].hello /\ peer[p].hello \in Hellos /\ Tail(up[p].frames) = <<>>
    BY <1>6, HelloRead
  <2>5. up'[p] = EmptyStream
    BY <1>1, <1>4, <2>1, <2>2 DEF TypeOK, EmptyStream
  <2>6. conn'[p] \in ConnEnds /\ conn'[p].pc = "pending" /\ conn'[p].hello \in Hellos
    BY <1>1, <2>1, <2>2 DEF TypeOK, ConnEnds
  <2>7. TypeOK'
    <3>1. up' \in [Peers -> Streams] /\ conn' \in [Peers -> ConnEnds]
      BY <1>1, <1>4, <2>1, <2>6 DEF TypeOK
    <3> QED
      BY <1>1, <1>5, <2>1, <3>1 DEF TypeOK
  <2>8. Only(p)
    <3>1. \A q \in Peers \ {p} : /\ server # [pc |-> "hello", conn |-> q]
                                 /\ server' # [pc |-> "hello", conn |-> q]
      BY <1>2, <2>1
    <3> QED
      BY <1>1, <1>5, <2>1, <3>1 DEF TypeOK, Only
  <2>9. Opened(p)' /\ Quiet(p)' /\ Admitting(p)' /\ CapsStable(p)'
    BY <1>1, <1>3, <1>5, <2>1, <2>6 DEF Inv, Opened, Quiet, Admitting, CapsStable
  <2>10. Handed(p)'
    BY <2>5, <2>6 DEF Handed, OnlyRequests, EmptyStream
  <2>11. UpAllowed(p)' /\ CapsFirst(p)' /\ Agreed(p)'
    BY <2>6 DEF UpAllowed, CapsFirst, Agreed
  <2> QED
    BY <2>7, <2>8, <2>9, <2>10, <2>11 DEF Inv
<1>7. CASE ~HelloHeaderAdmitted(f.header, ShortMax)
  <2>1. /\ up' = [up EXCEPT ![p] = TakeHeader(@)]
        /\ conn' = [conn EXCEPT ![p].pc = "closed"]
        /\ downEof' = [downEof EXCEPT ![p] = TRUE]
        /\ server' = [pc |-> "listen", conn |-> "none"]
    BY <1>7 DEF ReadHello, DropConnection
  <2>2. /\ up' \in [Peers -> Streams]
        /\ \A q \in Peers \ {p} : up'[q] = up[q] /\ down'[q] = down[q]
    BY <1>1, <1>4, <1>5, <2>1 DEF TypeOK
  <2> QED
    BY <1>2, <1>3, <1>5, <2>1, <2>2, DownKept, Closed
<1> QED
  BY <1>6, <1>7

\* An ErrorFrame and the end of the stream.
LEMMA RefusedStep ==
    ASSUME IndInv, NEW p \in Peers, conn[p].pc = "pending", SendErrorAndClose(p),
           UNCHANGED <<peer, server, up, upEof, sent, answered>>
    PROVE  TypeOK' /\ Only(p) /\ Inv(p)'
<1>1. TypeOK /\ Inv(p) /\ down[p] \in Streams
  BY Known
<1>2. ErrorFrame \in Frames /\ ErrorFrame.header.type = "Error"
  <2>1. /\ "Error" \in WireTypes
        /\ NoHello \in Bodies
    BY DEF WireTypes, Bodies
  <2>2. "json" \in Tiers /\ 1 \in Nat
    BY DEF Tiers, StableTiers
  <2> QED
    BY <2>1, <2>2, FrameTyped DEF ErrorFrame
<1>3. /\ down' = [down EXCEPT ![p] = Write(@, <<ErrorFrame>>)]
      /\ downEof' = [downEof EXCEPT ![p] = TRUE]
      /\ conn' = [conn EXCEPT ![p].pc = "closed"]
  BY DEF SendErrorAndClose
<1>4. down'[p] = Write(down[p], <<ErrorFrame>>)
  BY <1>1, <1>3 DEF TypeOK
<1>5. /\ down'[p] \in Streams
      /\ \A i \in DOMAIN down'[p].frames :
            \/ down'[p].frames[i] = ErrorFrame
            \/ (i \in DOMAIN down[p].frames /\ down'[p].frames[i] = down[p].frames[i])
  BY <1>1, <1>2, <1>4, Wrote
<1>6. \A i \in DOMAIN down'[p].frames :
         down'[p].frames[i].header.type = "Caps" => down'[p].frames[i].header.tier \in StableTiers
  BY <1>1, <1>2, <1>5 DEF Inv, CapsStable
<1>7. /\ up' \in [Peers -> Streams] /\ down' \in [Peers -> Streams]
      /\ \A q \in Peers \ {p} : up'[q] = up[q] /\ down'[q] = down[q]
  BY <1>1, <1>3, <1>5 DEF TypeOK
<1> QED
  BY <1>3, <1>6, <1>7, Closed

LEMMA RejectHelloStep ==
    ASSUME IndInv, NEW p \in Peers, RejectHello(p)
    PROVE  TypeOK' /\ Only(p) /\ Inv(p)'
  BY RefusedStep DEF RejectHello

LEMMA AcceptHelloStep ==
    ASSUME IndInv, NEW p \in Peers, AcceptHello(p)
    PROVE  TypeOK' /\ Only(p) /\ Inv(p)'
<1>1. /\ TypeOK /\ Inv(p) /\ down[p] \in Streams
      /\ peer[p] \in PeerEnds /\ conn[p] \in ConnEnds
  BY Known
<1>2. conn[p].pc = "pending" /\ UNCHANGED <<peer, server, up, upEof, sent, answered>>
  BY DEF AcceptHello
<1>3. /\ down[p] = EmptyStream /\ up[p] = EmptyStream /\ conn[p].hello \in Hellos
      /\ peer[p].pc # "session"
  BY <1>1, <1>2 DEF Inv, Quiet, Handed
<1>4. PICK n : n = NegotiateHandshake(ServerProfile, conn[p].hello)
  OBVIOUS
<1>5. CASE n.action = "accept"
  <2>1. n.encoding \in StableTiers /\ n.enabled \in Seq(Tiers)
    BY <1>3, <1>4, <1>5, Negotiated
  <2>2. PICK c : c = Frame("Caps", n.encoding, 1, [enabled |-> n.enabled])
    OBVIOUS
  <2>3. PICK e : e = Policy(n.encoding, Contains(n.enabled, "binary_vector.v1"))
    OBVIOUS
  <2>4. PICK loop \in {"session", "native"} :
           conn' = [conn EXCEPT ![p].pc = "session", ![p].loop = loop, ![p].policy = e]
    BY <1>4, <1>5, <2>3 DEF AcceptHello
  <2>5. down' = [down EXCEPT ![p] = Write(@, <<c>>)] /\ downEof' = downEof
    BY <1>4, <1>5, <2>2 DEF AcceptHello
  <2>6. c \in Frames /\ c.header.type = "Caps" /\ c.header.tier = n.encoding /\ c.body = [enabled |-> n.enabled]
    <3>1. PICK b \in [enabled : Seq(Tiers)] \cup [request : 0..MaxUp] : b = [enabled |-> n.enabled]
      BY <2>1
    <3>2. PICK tier \in StableTiers : tier = n.encoding
      BY <2>1
    <3>3. c = Frame("Caps", tier, 1, b)
      BY <2>2, <3>1, <3>2, Zenon
    <3>4. c \in Frames /\ c.header.type = "Caps" /\ c.header.tier = tier /\ c.body = b
      BY <3>3, CapsTyped
    <3> QED
      BY <3>1, <3>2, <3>4
  <2>7. /\ e \in Policies /\ e.tier = n.encoding
        /\ e = FromEnabledEncodings(c.header.tier, c.body.enabled)
    <3>1. Contains(n.enabled, "binary_vector.v1") \in BOOLEAN
      BY DEF Contains
    <3>2. e \in Policies /\ e.tier = n.encoding
      BY <2>1, <2>3, <3>1 DEF Policy, Policies
    <3> QED
      BY <2>3, <2>6, <3>2 DEF FromEnabledEncodings
  <2>8. /\ down'[p] \in Streams /\ down'[p].off = 0 /\ down'[p].frames # <<>>
        /\ down'[p].frames[1] = c
        /\ \A i \in DOMAIN down'[p].frames : down'[p].frames[i] = c
    <3>1. down'[p] = Write(down[p], <<c>>)
      BY <1>1, <2>5 DEF TypeOK
    <3>2. down[p].off = 0 /\ down[p].frames = <<>> /\ DOMAIN down[p].frames = {}
      BY <1>3 DEF EmptyStream
    <3> QED
      BY <1>1, <2>6, <3>1, <3>2, Wrote
  <2>9. /\ conn'[p] \in ConnEnds /\ conn'[p].pc = "session" /\ conn'[p].loop \in {"session", "native"}
        /\ conn'[p].policy = e /\ conn'[p].hello = conn[p].hello
    BY <1>1, <2>4, <2>7 DEF TypeOK, ConnEnds
  <2>10. TypeOK' /\ Only(p)
    <3>1. conn' \in [Peers -> ConnEnds] /\ down' \in [Peers -> Streams]
      BY <1>1, <2>4, <2>5, <2>8, <2>9 DEF TypeOK
    <3> QED
      BY <1>1, <1>2, <2>4, <2>5, <3>1 DEF TypeOK, Only
  <2>11. Opened(p)' /\ Quiet(p)' /\ Admitting(p)'
    BY <1>1, <1>2, <2>9 DEF Inv, Opened, Quiet, Admitting
  <2>12. Handed(p)' /\ UpAllowed(p)'
    <3>1. up'[p] = EmptyStream /\ DOMAIN up'[p].frames = {} /\ up'[p].off = 0
      BY <1>2, <1>3 DEF EmptyStream
    <3> QED
      BY <1>3, <2>9, <3>1 DEF Handed, OnlyRequests, UpAllowed, Aligned, AllAllowed
  <2>13. CapsStable(p)'
    BY <2>1, <2>6, <2>7, <2>8, <2>9 DEF CapsStable
  <2>14. CapsFirst(p)' /\ Agreed(p)'
    <3>1. Allows(e, c.header.tier, c.header.type)
      BY <2>6, <2>7 DEF Allows
    <3>2. AllAllowed(down[p], conn[p].policy)'
      BY <2>8, <2>9, <3>1 DEF AllAllowed
    <3>3. CapsFirst(p)'
      BY <2>6, <2>7, <2>8, <2>9, <3>2 DEF CapsFirst, Aligned
    <3> QED
      BY <1>2, <1>3, <3>3 DEF Agreed
  <2> QED
    BY <2>10, <2>11, <2>12, <2>13, <2>14 DEF Inv
<1>6. CASE n.action # "accept"
  BY <1>2, <1>4, <1>6, RefusedStep DEF AcceptHello
<1> QED
  BY <1>5, <1>6

LEMMA ServerRecvStep ==
    ASSUME IndInv, NEW p \in Peers, ServerRecv(p)
    PROVE  TypeOK' /\ Only(p) /\ Inv(p)'
<1> DEFINE h == NextHeader(up[p])
<1>1. TypeOK /\ Inv(p) /\ up[p] \in Streams /\ conn[p] \in ConnEnds
  BY Known
<1>2. /\ conn[p].pc = "session" /\ conn[p].loop = "session"
      /\ UNCHANGED <<peer, server, down, upEof, sent, answered>>
  BY DEF ServerRecv
<1>3. /\ TakeFrame(up[p]) \in Streams /\ From(TakeFrame(up[p]), up[p])
      /\ TakeHeader(up[p]) \in Streams /\ TakeFrame(up[p]).off = 0 /\ up[p].frames # <<>>
  BY <1>1, Ready DEF ServerRecv
<1>4. CASE Allows(conn[p].policy, h.tier, h.type)
  <2>1. up' = [up EXCEPT ![p] = TakeFrame(@)] /\ UNCHANGED <<conn, downEof>>
    BY <1>4 DEF ServerRecv
  <2>2. up'[p] \in Streams /\ up'[p].off = 0 /\ From(up[p]', up[p])
    <3>1. up'[p] = TakeFrame(up[p])
      BY <1>1, <2>1 DEF TypeOK
    <3> QED
      BY <1>3, <3>1
  <2>3. TypeOK' /\ Only(p)
    <3>1. up' \in [Peers -> Streams]
      BY <1>1, <2>1, <2>2 DEF TypeOK
    <3> QED
      BY <1>1, <1>2, <2>1, <3>1 DEF TypeOK, Only
  <2>4. Opened(p)' /\ Quiet(p)' /\ Admitting(p)'
    BY <1>1, <1>2, <2>1 DEF Inv, Opened, Quiet, Admitting
  <2>5. CapsStable(p)' /\ CapsFirst(p)' /\ Agreed(p)'
    BY <1>1, <1>2, <2>1 DEF Inv, CapsStable, CapsFirst, Agreed, Aligned, AllAllowed
  <2>6. Handed(p)'
    <3>1. peer[p].pc # "waiting"
      BY <1>1, <1>2, <1>3 DEF Inv, Handed, EmptyStream
    <3>2. OnlyRequests(up[p])'
      BY <1>1, <1>2, <2>2 DEF Inv, Handed, OnlyRequests, From
    <3> QED
      BY <1>1, <1>2, <2>1, <3>1, <3>2 DEF Inv, Handed
  <2>7. UpAllowed(p)'
    BY <1>1, <1>2, <2>1, <2>2 DEF Inv, UpAllowed, Aligned, AllAllowed, From
  <2> QED
    BY <2>3, <2>4, <2>5, <2>6, <2>7 DEF Inv
<1>5. CASE ~Allows(conn[p].policy, h.tier, h.type)
  <2>1. /\ up' = [up EXCEPT ![p] = TakeHeader(@)]
        /\ conn' = [conn EXCEPT ![p].pc = "closed"]
        /\ downEof' = [downEof EXCEPT ![p] = TRUE]
    BY <1>5 DEF ServerRecv
  <2>2. /\ up' \in [Peers -> Streams]
        /\ \A q \in Peers \ {p} : up'[q] = up[q] /\ down'[q] = down[q]
    BY <1>1, <1>2, <1>3, <2>1 DEF TypeOK
  <2> QED
    BY <1>2, <2>1, <2>2, DownKept, Closed
<1> QED
  BY <1>4, <1>5

\* A frame of the session's own encodings, written down to the peer.
LEMMA AnsweredStep ==
    ASSUME IndInv, NEW p \in Peers, conn[p].pc = "session", NEW f \in Frames,
           Allows(conn[p].policy, f.header.tier, f.header.type),
           f.header.type = "Caps" => f.header.tier \in StableTiers,
           down' = [down EXCEPT ![p] = Write(@, <<f>>)],
           up' \in [Peers -> Streams], \A q \in Peers \ {p} : up'[q] = up[q],
           From(up[p]', up[p]), up' = up \/ (conn[p].loop = "native" /\ up[p].frames # <<>>),
           NEW k \in 0..MaxUp, answered' = [answered EXCEPT ![p] = Append(@, k)],
           UNCHANGED <<peer, conn, server, upEof, downEof, sent>>
    PROVE  TypeOK' /\ Only(p) /\ Inv(p)'
<1>1. TypeOK /\ Inv(p) /\ down[p] \in Streams
  BY Known
<1>2. /\ down'[p] \in Streams /\ down'[p].off = down[p].off /\ down'[p].frames # <<>>
      /\ down[p].frames # <<>> => down'[p].frames[1] = down[p].frames[1]
      /\ \A i \in DOMAIN down'[p].frames :
            \/ down'[p].frames[i] = f
            \/ (i \in DOMAIN down[p].frames /\ down'[p].frames[i] = down[p].frames[i])
  <2>1. down'[p] = Write(down[p], <<f>>)
    BY <1>1 DEF TypeOK
  <2> QED
    BY <1>1, <2>1, Wrote
<1>3. TypeOK' /\ Only(p)
  <2>1. down' \in [Peers -> Streams]
    BY <1>1, <1>2 DEF TypeOK
  <2>2. answered' \in [Peers -> Seq(0..MaxUp)]
    BY <1>1 DEF TypeOK
  <2> QED
    BY <1>1, <2>1, <2>2 DEF TypeOK, Only
<1>4. Opened(p)' /\ Quiet(p)' /\ Admitting(p)'
  BY <1>1 DEF Inv, Opened, Quiet, Admitting
<1>5. Handed(p)'
  <2>1. up' = up \/ peer[p].pc # "waiting"
    BY <1>1 DEF Inv, Handed, EmptyStream
  <2>2. OnlyRequests(up[p])'
    BY <1>1 DEF Inv, Handed, OnlyRequests, From
  <2> QED
    BY <1>1, <2>1, <2>2 DEF Inv, Handed
<1>6. UpAllowed(p)'
  BY <1>1 DEF Inv, UpAllowed, Aligned, AllAllowed
<1>7. CapsStable(p)'
  BY <1>1, <1>2 DEF Inv, CapsStable
<1>8. AllAllowed(down[p], conn[p].policy) => AllAllowed(down[p], conn[p].policy)'
  BY <1>2 DEF AllAllowed
<1>9. CapsFirst(p)'
  BY <1>1, <1>2, <1>8 DEF Inv, CapsFirst, Aligned
<1>10. Agreed(p)'
  BY <1>1, <1>2, <1>8 DEF Inv, Agreed, Aligned
<1> QED
  BY <1>3, <1>4, <1>5, <1>6, <1>7, <1>9, <1>10 DEF Inv

LEMMA ServerSendStep ==
    ASSUME IndInv, NEW p \in Peers, ServerSend(p)
    PROVE  TypeOK' /\ Only(p) /\ Inv(p)'
<1>1. TypeOK /\ up[p] \in Streams
  BY Known
<1>2. PICK type \in FrameTypes, tier \in Tiers \ {"reserved"}, len \in FrameLens :
         /\ Allows(conn[p].policy, tier, type)
         /\ down' = [down EXCEPT ![p] = Write(@, <<Frame(type, tier, len, [request |-> 0])>>)]
  BY DEF ServerSend
<1>3. PICK f : f = Frame(type, tier, len, [request |-> 0])
  OBVIOUS
<1>4. f \in Frames /\ f.header.type = type /\ f.header.tier = tier
  <2>1. len \in Nat /\ 0 \in 0..MaxUp
    BY NcpSessionAssumption
  <2>2. /\ type \in WireTypes /\ tier \in Tiers
        /\ [request |-> 0] \in
              Bodies
    BY <2>1 DEF WireTypes, Bodies
  <2>3. PICK b \in Bodies : b = [request |-> 0]
    BY <2>2
  <2>4. f = Frame(type, tier, len, b)
    BY <1>3, <2>3, Zenon
  <2> QED
    BY <2>1, <2>2, <2>4, FrameTyped
<1>5. /\ conn[p].pc = "session" /\ answered' = [answered EXCEPT ![p] = Append(@, 0)]
      /\ UNCHANGED <<peer, conn, server, up, upEof, downEof, sent>>
  BY DEF ServerSend
<1>6. From(up[p]', up[p]) /\ up' \in [Peers -> Streams] /\ 0 \in 0..MaxUp
  BY <1>1, <1>5, NcpSessionAssumption DEF From, TypeOK
<1>7. f.header.type # "Caps"
  BY <1>4 DEF FrameTypes
<1> QED
  BY <1>2, <1>3, <1>4, <1>5, <1>6, <1>7, AnsweredStep

LEMMA NativeServeStep ==
    ASSUME IndInv, NEW p \in Peers, NativeServe(p)
    PROVE  TypeOK' /\ Only(p) /\ Inv(p)'
<1> DEFINE f == up[p].frames[1]
           t == Take(up[p], NativeTaken(up[p]))
<1>1. TypeOK /\ Inv(p) /\ up[p] \in Streams /\ conn[p] \in ConnEnds
  BY Known
<1>2. /\ conn[p].pc = "session" /\ conn[p].loop = "native" /\ NativeFrameReady(up[p])
      /\ up' = [up EXCEPT ![p] = Take(@, NativeTaken(@))]
      /\ UNCHANGED <<peer, server, upEof, sent>>
  BY DEF NativeServe
<1>3. up[p].frames # <<>> /\ 1 \in DOMAIN up[p].frames /\ f \in Frames
  <2>1. up[p].frames # <<>>
    <3> SUFFICES ASSUME up[p].frames = <<>> PROVE FALSE
      OBVIOUS
    <3>1. Len(up[p].frames) = 0 /\ BytesOf(up[p])[0] = 0
      BY <1>1, Bytes
    <3>2. up[p].off = 0
      BY <1>2 DEF NativeFrameReady, NativeHeaderParses, Aligned
    <3>3. Available(up[p]) = 0
      BY <3>1, <3>2 DEF Available
    <3> QED
      BY <1>2, <3>3 DEF NativeFrameReady
  <2> QED
    BY <1>1, <2>1 DEF Streams
<1>4. f.header.type \in FrameTypes /\ f.body \in [request : 0..MaxUp] /\ f.body.request \in 0..MaxUp
  BY <1>1, <1>2, <1>3 DEF Inv, Handed, OnlyRequests
<1>5. NativeTaken(up[p]) \in Nat
  <2>1. f.header.len \in Nat
    <3>1. WireSize(f.header) \in Nat
      BY <1>3, FrameSizes
    <3>2. f \notin Preambles
      <4>1. ASSUME NEW text PROVE First8(text).header.type = "preamble"
        BY DEF First8
      <4>2. "preamble" \notin FrameTypes
        BY DEF FrameTypes
      <4> QED
        BY <1>4, <4>1, <4>2, Zenon DEF Preambles
    <3> QED
      BY <1>3, <3>2 DEF Frames
  <2> QED
    BY <2>1 DEF NativeTaken, NativeHeaderTaken, NextHeader
<1>6. t \in Streams /\ From(t, up[p])
  BY <1>1, <1>5, TakeStream
<1>7. up'[p] = t
  BY <1>1, <1>2 DEF TypeOK
<1>8. /\ up' \in [Peers -> Streams] /\ From(up[p]', up[p])
      /\ \A q \in Peers \ {p} : up'[q] = up[q]
  <2> HIDE DEF t
  <2> QED
    BY <1>1, <1>2, <1>6, <1>7 DEF TypeOK
<1>9. CASE Allows(conn[p].policy, f.header.tier, f.header.type) /\ f.header.type = "Nop"
  <2>1. CloseServing(p) /\ UNCHANGED <<down, answered>>
    BY <1>9 DEF NativeServe
  <2>2. \A q \in Peers \ {p} : down'[q] = down[q]
    BY <2>1
  <2> QED
    BY <1>2, <1>8, <2>1, <2>2, DownKept, Closed DEF CloseServing
<1>10. CASE ~(Allows(conn[p].policy, f.header.tier, f.header.type) /\ f.header.type = "Nop")
  <2>1. PICK a : a = Frame("Caps", conn[p].policy.tier, 1, f.body)
    OBVIOUS
  <2>2. PICK k : k = f.body.request
    OBVIOUS
  <2>3. conn[p].policy.tier \in StableTiers
    BY <1>1, <1>2 DEF Inv, CapsStable
  <2>4. a \in Frames /\ a.header.type = "Caps" /\ a.header.tier = conn[p].policy.tier
    <3>1. PICK b \in [enabled : Seq(Tiers)] \cup [request : 0..MaxUp] : b = f.body
      BY <1>4
    <3>2. PICK tier \in StableTiers : tier = conn[p].policy.tier
      BY <2>3
    <3>3. a = Frame("Caps", tier, 1, b)
      BY <2>1, <3>1, <3>2, Zenon
    <3> HIDE DEF f
    <3>4. a \in Frames /\ a.header.type = "Caps" /\ a.header.tier = tier
      BY <3>3, CapsTyped
    <3> QED
      BY <3>2, <3>4
  <2>5. Allows(conn[p].policy, a.header.tier, a.header.type)
    BY <2>4 DEF Allows
  <2>6. /\ down' = [down EXCEPT ![p] = Write(@, <<a>>)]
        /\ answered' = [answered EXCEPT ![p] = Append(@, k)]
        /\ UNCHANGED <<conn, downEof>>
    BY <1>10, <2>1, <2>2 DEF NativeServe
  <2>7. k \in 0..MaxUp
    BY <1>4, <2>2
  <2> HIDE DEF f, t
  <2> QED
    BY <1>2, <1>3, <1>8, <2>3, <2>4, <2>5, <2>6, <2>7, AnsweredStep
<1> QED
  BY <1>9, <1>10

LEMMA NativeStopStep ==
    ASSUME IndInv, NEW p \in Peers, NativeStop(p)
    PROVE  TypeOK' /\ Only(p) /\ Inv(p)'
<1>1. TypeOK
  BY Known
<1>2. /\ conn[p].pc = "session" /\ CloseServing(p)
      /\ UNCHANGED <<peer, server, up, down, upEof, sent, answered>>
  BY DEF NativeStop
<1>3. up' \in [Peers -> Streams]
  BY <1>1, <1>2 DEF TypeOK
<1> QED
  BY <1>2, <1>3, DownKept, Closed DEF CloseServing

-----------------------------------------------------------------------------
(* The theorems.                                                            *)

\* A step of a connection, whichever it is.
LEMMA OnlyOne ==
    ASSUME IndInv, NEW p \in Peers,
           \/ Connect(p) \/ ClientSend(p) \/ PeerClose(p) \/ ServerSend(p)
           \/ ClientStep(p) \/ ServerStep(p)
    PROVE  TypeOK' /\ Only(p) /\ Inv(p)'
<1>1. CASE Connect(p) \/ ClientSend(p) \/ PeerClose(p) \/ ServerSend(p)
  BY <1>1, ConnectStep, ClientSendStep, PeerGoneSteps, ServerSendStep
<1>2. CASE ClientStep(p)
  BY <1>2, ClientReadAnswerStep, PeerGoneSteps, ClientRecvStep DEF ClientStep
<1>3. CASE ServerStep(p)
  BY <1>3, AcceptStep, ReadPreambleStep, ReadGivesUpStep, ReadHelloStep, AcceptHelloStep,
     RejectHelloStep, ServerRecvStep, NativeServeStep, NativeStopStep DEF ServerStep
<1> QED
  BY <1>1, <1>2, <1>3

\* A step of the system keeps the invariant: it is a step of one connection.
LEMMA NextKept == IndInv /\ [Next]_vars => IndInv'
<1> SUFFICES ASSUME IndInv, [Next]_vars PROVE IndInv'
  OBVIOUS
<1>1. CASE UNCHANGED vars
  <2>1. TypeOK'
    BY <1>1 DEF IndInv, TypeOK, vars
  <2>2. ASSUME NEW p \in Peers PROVE Inv(p)'
    <3>1. Inv(p)
      BY DEF IndInv
    <3>2. Opened(p)' /\ Quiet(p)' /\ Handed(p)' /\ CapsStable(p)' /\ Admitting(p)'
      BY <1>1, <3>1 DEF vars, Inv, Opened, Quiet, Handed, OnlyRequests, CapsStable, Admitting
    <3>3. UpAllowed(p)' /\ CapsFirst(p)' /\ Agreed(p)'
      BY <1>1, <3>1 DEF vars, Inv, UpAllowed, CapsFirst, Agreed, Aligned, AllAllowed
    <3> QED
      BY <3>2, <3>3 DEF Inv
  <2> QED
    BY <2>1, <2>2 DEF IndInv
<1>2. ASSUME NEW p \in Peers,
             \/ Connect(p) \/ ClientSend(p) \/ PeerClose(p) \/ ServerSend(p)
             \/ ClientStep(p) \/ ServerStep(p)
      PROVE  IndInv'
  <2>1. TypeOK' /\ Only(p) /\ Inv(p)'
    BY <1>2, OnlyOne
  <2>2. \A q \in Peers : q # p => Inv(q)'
    BY <2>1, OthersKept
  <2> QED
    BY <2>1, <2>2 DEF IndInv
<1> QED
  BY <1>1, <1>2 DEF Next

\* Whatever the peers are and write, every connection is in one of the phases
\* of the inductive invariant (transport.rs:520-760).
THEOREM Inductive == Spec => []IndInv
<1>1. Init => IndInv
  BY InitHolds
<1>2. IndInv /\ [Next]_vars => IndInv'
  BY NextKept
<1> QED
  BY <1>1, <1>2, PTL DEF Spec

\* The shape of the state, streams of frames of the wire's types included.
THEOREM TypeCorrect == Spec => []TypeOK
<1>1. IndInv => TypeOK
  BY DEF IndInv
<1> QED
  BY <1>1, Inductive, PTL

LEMMA AgreedWhole == IndInv => SessionsAgree
<1> SUFFICES ASSUME IndInv, NEW p \in Peers, peer[p].pc = "session", conn[p].pc = "session"
             PROVE  /\ peer[p].policy = conn[p].policy
                    /\ Aligned(down[p])
                    /\ \A f \in FramesIn(down[p]) :
                          Allows(peer[p].policy, f.header.tier, f.header.type)
                    /\ conn[p].loop = "session" =>
                          /\ Aligned(up[p])
                          /\ \A f \in FramesIn(up[p]) :
                                Allows(conn[p].policy, f.header.tier, f.header.type)
  BY DEF SessionsAgree
<1>1. Inv(p)
  BY DEF IndInv
<1>2. /\ peer[p].policy = conn[p].policy
      /\ Aligned(down[p]) /\ AllAllowed(down[p], conn[p].policy)
  BY <1>1 DEF Inv, Agreed
<1>3. conn[p].loop = "session" => Aligned(up[p]) /\ AllAllowed(up[p], conn[p].policy)
  BY <1>1 DEF Inv, UpAllowed
<1> QED
  BY <1>2, <1>3 DEF AllAllowed, FramesIn, Range

\* Two ends in session hold the same encoding policy, the one computed from the
\* negotiation (NcpServerConnection::accept), the other from the CapsFrame
\* (connect_detailed); between two library ends every frame on its way begins
\* where the receiver reads, in an encoding the receiver allows.
THEOREM SessionsAgreeHolds == Spec => []SessionsAgree
<1>1. IndInv => SessionsAgree
  BY AgreedWhole
<1> QED
  BY <1>1, Inductive, PTL

-----------------------------------------------------------------------------
(* Who gets a session, and with which encodings.                            *)

\* What the server negotiates for a Hello.
PolicyFor(hello) ==
    Policy(NegotiateHandshake(ServerProfile, hello).encoding,
           Contains(NegotiateHandshake(ServerProfile, hello).enabled, "binary_vector.v1"))

\* A connection in the caller's hands is a client's, with the Hello the client
\* sent; a session has the policy negotiated for that Hello, and a client that
\* is in session holds the same.
SessionsNegotiated ==
    \A p \in Peers :
        /\ conn[p].pc \in {"pending", "session"} => p \in Clients /\ conn[p].hello = peer[p].hello
        /\ conn[p].pc = "session" =>
              /\ NegotiateHandshake(ServerProfile, peer[p].hello).action = "accept"
              /\ conn[p].policy = PolicyFor(peer[p].hello)
              /\ peer[p].pc = "session" => peer[p].policy = PolicyFor(peer[p].hello)

\* The part of it that is kept by itself.
FromHello(p) ==
    /\ conn[p].pc \in {"pending", "session"} => p \in Clients /\ conn[p].hello = peer[p].hello
    /\ conn[p].pc = "session" =>
          /\ NegotiateHandshake(ServerProfile, peer[p].hello).action = "accept"
          /\ conn[p].policy = PolicyFor(peer[p].hello)

\* Neither the ends nor the Hellos change, or the server's end is closed.
LEMMA SameHellos ==
    ASSUME NEW p \in Peers, FromHello(p), peer'[p].hello = peer[p].hello,
           \/ conn'[p] = conn[p]
           \/ conn'[p].pc \notin {"pending", "session"}
    PROVE  FromHello(p)'
<1>1. CASE conn'[p] = conn[p]
  BY <1>1 DEF FromHello, PolicyFor
<1>2. CASE conn'[p].pc \notin {"pending", "session"}
  BY <1>2 DEF FromHello
<1> QED
  BY <1>1, <1>2

LEMMA FromHelloOthers ==
    ASSUME NEW p \in Peers, Only(p), NEW q \in Peers, q # p, FromHello(q)
    PROVE  FromHello(q)'
<1>1. conn'[q] = conn[q] /\ peer'[q] = peer[q]
  BY DEF Only
<1> QED
  BY <1>1, SameHellos

\* The steps of one connection.
LEMMA FromHelloSteps ==
    ASSUME IndInv, NEW p \in Peers, FromHello(p),
           \/ Connect(p) \/ ClientSend(p) \/ PeerClose(p) \/ ServerSend(p)
           \/ ClientStep(p) \/ ServerStep(p)
    PROVE  FromHello(p)'
<1>1. /\ TypeOK /\ Inv(p) /\ peer[p] \in PeerEnds /\ conn[p] \in ConnEnds
      /\ peer \in [Peers -> PeerEnds] /\ conn \in [Peers -> ConnEnds]
  BY Known DEF TypeOK
<1>2. CASE Connect(p)
  <2>1. conn'[p].pc = "backlog"
    BY <1>1, <1>2 DEF Connect, ConnEnds
  <2> QED
    BY <2>1 DEF FromHello
<1>3. CASE ClientSend(p) \/ ServerSend(p) \/ PeerClose(p) \/ ClientStep(p)
  <2>1. conn' = conn
    BY <1>3 DEF ClientSend, ServerSend, PeerClose, ClientStep, ClientReadAnswer, ClientReadEof,
                ClientRecv
  <2>2. CASE ClientSend(p) \/ ServerSend(p) \/ PeerClose(p) \/ ClientReadEof(p)
    <3>1. peer'[p].hello = peer[p].hello
      BY <1>1, <2>2 DEF ClientSend, ServerSend, PeerClose, ClientReadEof, PeerEnds
    <3> QED
      BY <2>1, <3>1, SameHellos
  <2>3. CASE ClientReadAnswer(p)
    <3>1. PICK pc, e : peer' = [peer EXCEPT ![p].pc = pc, ![p].policy = e]
      BY <2>3 DEF ClientReadAnswer
    <3>2. peer'[p].hello = peer[p].hello
      BY <1>1, <3>1 DEF PeerEnds
    <3> QED
      BY <2>1, <3>2, SameHellos
  <2>4. CASE ClientRecv(p)
    <3>1. peer' = peer \/ peer' = [peer EXCEPT ![p].pc = "failed"]
      BY <2>4 DEF ClientRecv
    <3>2. peer'[p].hello = peer[p].hello
      BY <1>1, <3>1 DEF PeerEnds
    <3> QED
      BY <2>1, <3>2, SameHellos
  <2> QED
    BY <1>3, <2>2, <2>3, <2>4 DEF ClientStep
<1>4. CASE Accept(p) \/ ReadGivesUp(p) \/ ReadPreamble(p) \/ ServerRecv(p) \/ NativeServe(p)
           \/ NativeStop(p)
  <2>1. peer' = peer
    BY <1>4 DEF Accept, ReadGivesUp, ReadPreamble, ServerRecv, NativeServe, NativeStop
  <2>2. conn' = conn \/ conn' = [conn EXCEPT ![p].pc = "closed"]
    BY <1>4 DEF Accept, ReadGivesUp, ReadPreamble, ServerRecv, NativeServe, NativeStop,
                DropConnection, CloseServing
  <2>3. conn'[p] = conn[p] \/ conn'[p].pc = "closed"
    BY <1>1, <2>2 DEF ConnEnds
  <2> QED
    BY <2>1, <2>3, SameHellos
<1>5. CASE ReadHello(p)
  <2> DEFINE f == up[p].frames[1]
  <2>1. peer' = peer
    BY <1>5 DEF ReadHello
  <2>2. CASE HelloHeaderAdmitted(f.header, ShortMax)
    <3>1. p \in Clients /\ f.body = peer[p].hello
      BY <1>5, <2>2, HelloRead
    <3>2. conn' = [conn EXCEPT ![p].pc = "pending", ![p].hello = f.body]
      BY <1>5, <2>2 DEF ReadHello
    <3>3. conn'[p].pc = "pending" /\ conn'[p].hello = f.body
      BY <1>1, <3>2 DEF ConnEnds
    <3> QED
      BY <2>1, <3>1, <3>3 DEF FromHello
  <2>3. CASE ~HelloHeaderAdmitted(f.header, ShortMax)
    <3>1. conn' = [conn EXCEPT ![p].pc = "closed"]
      BY <1>5, <2>3 DEF ReadHello, DropConnection
    <3>2. conn'[p].pc = "closed"
      BY <1>1, <3>1 DEF ConnEnds
    <3> QED
      BY <2>1, <3>2, SameHellos
  <2> QED
    BY <2>2, <2>3
<1>6. CASE AcceptHello(p)
  <2>1. peer' = peer /\ conn[p].pc = "pending"
    BY <1>6 DEF AcceptHello
  <2>2. p \in Clients /\ conn[p].hello = peer[p].hello
    BY <2>1 DEF FromHello
  <2>3. PICK n : n = NegotiateHandshake(ServerProfile, conn[p].hello)
    OBVIOUS
  <2>4. CASE n.action = "accept"
    <3>1. PICK e : e = Policy(n.encoding, Contains(n.enabled, "binary_vector.v1"))
      OBVIOUS
    <3>2. PICK loop \in {"session", "native"} :
             conn' = [conn EXCEPT ![p].pc = "session", ![p].loop = loop, ![p].policy = e]
      BY <1>6, <2>3, <2>4, <3>1 DEF AcceptHello
    <3>3. conn'[p].pc = "session" /\ conn'[p].policy = e /\ conn'[p].hello = conn[p].hello
      BY <1>1, <3>2 DEF ConnEnds
    <3>4. e = PolicyFor(peer[p].hello)
      BY <2>2, <2>3, <3>1 DEF PolicyFor
    <3>5. PolicyFor(peer[p].hello)' = PolicyFor(peer[p].hello)
      BY <2>1 DEF PolicyFor
    <3> QED
      BY <2>1, <2>2, <2>3, <2>4, <3>3, <3>4, <3>5 DEF FromHello
  <2>5. CASE n.action # "accept"
    <3>1. conn' = [conn EXCEPT ![p].pc = "closed"]
      BY <1>6, <2>3, <2>5 DEF AcceptHello, SendErrorAndClose
    <3>2. conn'[p].pc = "closed"
      BY <1>1, <3>1 DEF ConnEnds
    <3> QED
      BY <2>1, <3>2, SameHellos
  <2> QED
    BY <2>4, <2>5
<1>7. CASE RejectHello(p)
  <2>1. peer' = peer /\ conn' = [conn EXCEPT ![p].pc = "closed"]
    BY <1>7 DEF RejectHello, SendErrorAndClose
  <2>2. conn'[p].pc = "closed"
    BY <1>1, <2>1 DEF ConnEnds
  <2> QED
    BY <2>1, <2>2, SameHellos
<1> QED
  BY <1>2, <1>3, <1>4, <1>5, <1>6, <1>7 DEF ServerStep

\* Only a client whose Hello was admitted gets a session, whatever else opens
\* connections, and both ends use the encodings negotiated for that Hello
\* (NcpServer::accept_connection and NcpServerConnection::accept, transport.rs).
THEOREM SessionsNegotiatedHolds == Spec => []SessionsNegotiated
<1> DEFINE Kept == \A p \in Peers : FromHello(p)
<1>1. Init => Kept
  BY DEF Init, FromHello
<1>2. IndInv /\ Kept /\ [Next]_vars => Kept'
  <2> SUFFICES ASSUME IndInv, Kept, [Next]_vars PROVE Kept'
    OBVIOUS
  <2>1. CASE UNCHANGED vars
    BY <2>1, SameHellos DEF vars
  <2>2. ASSUME NEW p \in Peers,
               \/ Connect(p) \/ ClientSend(p) \/ PeerClose(p) \/ ServerSend(p)
               \/ ClientStep(p) \/ ServerStep(p)
        PROVE  Kept'
    <3>1. Only(p)
      BY <2>2, OnlyOne
    <3>2. FromHello(p)'
      BY <2>2, FromHelloSteps
    <3>3. \A q \in Peers : q # p => FromHello(q)'
      BY <3>1, FromHelloOthers
    <3> QED
      BY <3>2, <3>3
  <2> QED
    BY <2>1, <2>2 DEF Next
<1>3. IndInv /\ Kept => SessionsNegotiated
  BY DEF IndInv, Inv, Agreed, FromHello, SessionsNegotiated
<1> HIDE DEF Kept
<1> QED
  BY <1>1, <1>2, <1>3, Inductive, PTL DEF Spec
=============================================================================
