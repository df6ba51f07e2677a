------------------------ MODULE AnchorClusterProofs ------------------------
(***************************************************************************)
(* Machine-checked proofs about AnchorCluster, for any set of Anchors, any *)
(* lifetimes and skews, and without the bounds the model checker needs     *)
(* (they only restrict when a step may be taken): the cluster implements   *)
(* the fence, the sequenced registry never rolls back, and neither         *)
(* registry ever resolves to a split.                                      *)
(***************************************************************************)
EXTENDS AnchorCluster, FiniteSetTheorems, WellFoundedInduction, TLAPS

-----------------------------------------------------------------------------
(* The inductive invariant.                                                 *)

\* Announcements as Publish and Heartbeat make them.
Announced == [nid : Nids, seq : Nat, timestamp : Nat, ttl : Nat,
              health : {"healthy", "degraded"}, lastSeen : Nat \cup {Absent},
              cluster : {cluster}, epoch : Nat, roles : {{"anchor"}},
              inbound : {{"absent"}}, outbound : {{"absent"}}]

Entry == {NoEntry} \cup [frame : Announced, expiresAt : Nat]

Registry == [entries : [Nids -> Entry], sequences : [Nids -> Nat \cup {Absent}]]

Types ==
    /\ TypeOK
    /\ signed \in [Nids -> SUBSET Announced]
    /\ published \subseteq Announced
    /\ profile \in Registry
    /\ plain \in [Nids -> Entry]
    /\ frames \subseteq [to : Nids, epoch : Nat \cup {Absent}, write : BOOLEAN]

\* An epoch that the consensus has handed out.
Known(e) == e \in 1..Len(granted)

Owners ==
    /\ OwnerIsCurrent
    /\ \A a \in Nids : own[a].epoch >= 1

\* Frames and the client only ever carry epochs that were handed out.
Traffic ==
    /\ Known(client.epoch)
    /\ client.pc \in {"connect", "session"} => client.target \in Nids
    /\ \A f \in frames : f.epoch = Absent \/ Known(f.epoch)

\* An Anchor announces itself only in epochs given to it, and numbers its
\* announcements in the order of its epochs.
Announcements ==
    /\ \A a \in Nids : \A f \in signed[a] :
          f.nid = a /\ f \in published /\ \A g \in signed[a] : g = f
    /\ \A f \in published :
          /\ Known(f.epoch) /\ granted[f.epoch] = f.nid
          /\ f.epoch <= own[f.nid].epoch
          /\ \E g \in signed[f.nid] : f.seq <= g.seq
    /\ \A f, g \in published : f.nid = g.nid /\ f.seq <= g.seq => f.epoch <= g.epoch

\* The registries list announcements that were made, under their own name; the
\* sequenced one remembers the number of the one it lists.
Listed(entries) ==
    \A n \in Nids : entries[n] # NoEntry =>
        entries[n].frame \in published /\ entries[n].frame.nid = n

Registries ==
    /\ Listed(profile.entries) /\ Listed(plain)
    /\ \A n \in Nids : Has(profile, n) =>
          profile.entries[n].frame.seq = profile.sequences[n]

IndInv == Types /\ Owners /\ Traffic /\ Announcements /\ Registries

-----------------------------------------------------------------------------
(* What a state satisfying the invariant implies.                           *)

\* A nonempty set of natural numbers below a bound has a greatest element.
LEMMA BoundedMax ==
    ASSUME NEW S, S \subseteq Nat, S # {}, NEW b \in Nat, \A x \in S : x <= b
    PROVE  \E x \in S : \A y \in S : y <= x
<1> DEFINE T == {b - x : x \in S}
           R == OpToRel(<, Nat)
<1>1. T \subseteq Nat /\ T # {}
  <2>1. \A x \in S : b - x \in Nat
    OBVIOUS
  <2> QED
    BY <2>1
<1>2. IsWellFoundedOn(R, Nat)
  BY NatLessThanWellFounded
<1> HIDE DEF R
<1>3. PICK t \in T : \A u \in T : ~(<<u, t>> \in R)
  BY <1>1, <1>2, WFMin
<1>4. \A u \in T : ~(u < t)
  BY <1>1, <1>3 DEF R, OpToRel
<1>5. PICK x \in S : t = b - x
  OBVIOUS
<1>6. \A y \in S : y <= x
  <2> TAKE y \in S
  <2>1. b - y \in T
    OBVIOUS
  <2> QED
    BY <1>4, <1>5, <2>1
<1> QED
  BY <1>6

\* Resolution over entries that list only announced epochs, each given to the
\* node it is listed for: two members with the same epoch are the same node, so
\* the top is one member (registry.rs:96, registry_profile.rs:258).
LEMMA OneLeader ==
    ASSUME Types, Announcements, NEW entries \in [Nids -> Entry], Listed(entries),
           NEW members, members \subseteq {n \in Nids : entries[n].expiresAt > now}
    PROVE  HighestEpoch(entries, members) \in members \cup {NoLeader}
<1> DEFINE E(n) == EffectiveEpoch(entries[n].frame)
           top == {n \in members : \A m \in members : E(n) >= E(m)}
<1>1. now \in Nat
  BY AnchorClusterAssumption DEF Types, TypeOK
<1>2. \A n \in members : entries[n] # NoEntry
  <2>1. ~(NoEntry.expiresAt > now)
    BY <1>1 DEF NoEntry, Absent
  <2> QED
    BY <2>1
<1>3. \A n \in members : n \in Nids /\ entries[n].frame \in published
                         /\ entries[n].frame.nid = n
  BY <1>2 DEF Listed
<1>4. \A n \in members : E(n) = entries[n].frame.epoch /\ Known(E(n)) /\ granted[E(n)] = n
  <2> SUFFICES ASSUME NEW n \in members
               PROVE  E(n) = entries[n].frame.epoch /\ Known(E(n)) /\ granted[E(n)] = n
    OBVIOUS
  <2>1. Known(entries[n].frame.epoch) /\ granted[entries[n].frame.epoch] = n
    BY <1>3 DEF Announcements
  <2>2. E(n) = entries[n].frame.epoch
    BY <2>1 DEF EffectiveEpoch, Known, Absent, Types, TypeOK
  <2> HIDE DEF E
  <2> QED
    BY <2>1, <2>2
<1>5. \A n, m \in top : n = m
  <2> SUFFICES ASSUME NEW n \in top, NEW m \in top PROVE n = m
    OBVIOUS
  <2>1. E(n) \in Nat /\ E(m) \in Nat
    BY <1>4 DEF Known, Types, TypeOK
  <2>2. E(n) >= E(m) /\ E(m) >= E(n)
    OBVIOUS
  <2>3. E(n) = E(m)
    BY <2>1, <2>2
  <2> HIDE DEF E
  <2> QED
    BY <1>4, <2>3
<1>6. members # {} => top # {}
  <2> SUFFICES ASSUME members # {} PROVE top # {}
    OBVIOUS
  <2> DEFINE S == {E(n) : n \in members}
  <2>1. Len(granted) \in Nat
    BY DEF Types, TypeOK
  <2>2. S \subseteq Nat /\ S # {} /\ \A x \in S : x <= Len(granted)
    BY <1>4, <2>1 DEF Known
  <2>3. PICK x \in S : \A y \in S : y <= x
    BY <2>1, <2>2, BoundedMax
  <2>4. PICK n \in members : x = E(n)
    OBVIOUS
  <2>5. \A m \in members : E(m) <= E(n)
    BY <2>3, <2>4
  <2>6. \A m \in members : E(n) >= E(m)
    BY <2>5, <2>2
  <2> QED
    BY <2>6
<1>7. ~(Cardinality(top) > 1)
  <2>1. CASE top = {}
    <3>1. Cardinality(top) = 0
      BY <2>1, FS_EmptySet
    <3> QED
      BY <3>1
  <2>2. CASE top # {}
    <3>1. PICK n \in top : TRUE
      BY <2>2
    <3>2. top = {n}
      BY <1>5, <3>1
    <3>3. Cardinality(top) = 1
      BY <3>2, FS_Singleton
    <3> QED
      BY <3>3
  <2> QED
    BY <2>1, <2>2
<1>8. HighestEpoch(entries, members) =
        IF members = {} THEN NoLeader
        ELSE IF Cardinality(top) > 1 THEN Split
        ELSE CHOOSE n \in top : TRUE
  BY DEF HighestEpoch
<1>9. top # {} => (CHOOSE n \in top : TRUE) \in top
  OBVIOUS
<1>10. top \subseteq members
  OBVIOUS
<1> HIDE DEF top
<1> QED
  BY <1>6, <1>7, <1>8, <1>9, <1>10

\* Either registry resolves the cluster to an Anchor that it lists, and whose
\* epoch was therefore handed out, or to none.
LEMMA ResolutionFindsOne ==
    ASSUME Types, Announcements, Registries
    PROVE  \/ Resolution = NoLeader
           \/ Resolution \in Nids /\ Known(EffectiveEpoch(Entries[Resolution].frame))
<1> DEFINE Live(entries) == {n \in Nids : entries[n].expiresAt > now}
<1>1. /\ Entries \in [Nids -> Entry] /\ Listed(Entries)
      /\ profile.entries \in [Nids -> Entry] /\ plain \in [Nids -> Entry]
      /\ Listed(profile.entries) /\ Listed(plain)
  BY DEF Types, Registry, Entries, Registries
<1>2. Resolution \in Live(Entries) \cup {NoLeader}
  <2>1. ResolveClusterProfile(profile, cluster, now) \in Live(profile.entries) \cup {NoLeader}
    <3> DEFINE members == {n \in LiveNids(profile.entries, now) :
                              /\ profile.entries[n].frame.cluster = cluster
                              /\ "anchor" \in profile.entries[n].frame.roles}
    <3>1. members \subseteq Live(profile.entries)
      BY DEF LiveNids
    <3>2. HighestEpoch(profile.entries, members) \in members \cup {NoLeader}
      BY <1>1, <3>1, OneLeader
    <3> QED
      BY <3>1, <3>2 DEF ResolveClusterProfile
  <2>2. ResolveClusterPlain(plain, cluster, now) \in Live(plain) \cup {NoLeader}
    <3> DEFINE members == {n \in LiveNids(plain, now) : plain[n].frame.cluster = cluster}
    <3>1. members \subseteq Live(plain)
      BY DEF LiveNids
    <3>2. HighestEpoch(plain, members) \in members \cup {NoLeader}
      BY <1>1, <3>1, OneLeader
    <3> QED
      BY <3>1, <3>2 DEF ResolveClusterPlain
  <2> HIDE DEF Live
  <2> QED
    BY <2>1, <2>2 DEF Resolution, Entries
<1>3. ASSUME NEW n \in Live(Entries)
      PROVE  n \in Nids /\ Known(EffectiveEpoch(Entries[n].frame))
  <2>1. now \in Nat
    BY AnchorClusterAssumption DEF Types, TypeOK
  <2>2. ~(NoEntry.expiresAt > now)
    BY <2>1 DEF NoEntry, Absent
  <2>3. Entries[n].frame \in published
    BY <1>1, <2>2 DEF Listed
  <2> QED
    BY <2>3 DEF Announcements, EffectiveEpoch, Known, Absent, Types, TypeOK
<1> HIDE DEF Live
<1> QED
  BY <1>2, <1>3

-----------------------------------------------------------------------------
(* Every step keeps the invariant.                                          *)

\* The initial state satisfies the invariant.
LEMMA InitInv == Init => IndInv
<1> SUFFICES ASSUME Init PROVE IndInv
  OBVIOUS
<1>1. PICK first \in Nids :
          /\ granted = <<first>>
          /\ own = [a \in Nids |->
                [epoch |-> 1, role |-> IF a = first THEN "active" ELSE "standby",
                 degraded |-> FALSE, highest |-> 1, streamsOpen |-> TRUE]]
  BY DEF Init
<1>2. granted \in Seq(Nids) /\ Len(granted) = 1 /\ granted[1] = first
  BY <1>1
<1>3. own \in [Nids -> Ownership]
  BY <1>1 DEF Ownership
<1>4. client \in Client /\ client.epoch = 1 /\ client.pc = "idle"
  BY DEF Init, NoSession, Client
<1>5. Types
  BY <1>2, <1>3, <1>4, AnchorClusterAssumption
  DEF Init, Types, TypeOK, Registry, EmptyRegistry, EmptyPlain, Entry, Absent
<1>6. Owners
  BY <1>1, <1>2 DEF Owners, OwnerIsCurrent
<1>7. Traffic
  BY <1>2, <1>4 DEF Init, Traffic, Known
<1>8. Announcements
  BY DEF Init, Announcements
<1>9. Registries
  BY DEF Init, Registries, Listed, Has, EmptyRegistry, EmptyPlain
<1> QED
  BY <1>5, <1>6, <1>7, <1>8, <1>9 DEF IndInv

\* A new election (external) adds an epoch and changes none.
LEMMA ElectInv ==
    ASSUME IndInv, NEW a \in Nids, Elect(a)
    PROVE  IndInv'
<1>1. /\ granted \in Seq(Nids) /\ granted' = Append(granted, a)
      /\ UNCHANGED <<own, signed, published, profile, plain, now, client, frames, log>>
  BY DEF Elect, IndInv, Types, TypeOK
<1>2. granted' \in Seq(Nids) /\ Len(granted') = Len(granted) + 1 /\ Len(granted) \in Nat
  BY <1>1
<1>3. \A e \in 1..Len(granted) : e \in 1..Len(granted') /\ granted'[e] = granted[e]
  BY <1>1
<1>4. Types'
  BY <1>1, <1>2 DEF IndInv, Types, TypeOK
<1>5. Owners'
  <2> SUFFICES ASSUME NEW b \in Nids
               PROVE  /\ own[b].epoch <= own[b].highest /\ own[b].epoch >= 1
                      /\ own[b].highest <= Len(granted')
                      /\ own[b].role = "active" =>
                            own[b].epoch = own[b].highest /\ granted'[own[b].epoch] = b
    BY <1>1 DEF Owners, OwnerIsCurrent
  <2>1. own[b].epoch \in Nat /\ own[b].highest \in Nat
    BY DEF IndInv, Types, TypeOK, Ownership
  <2>2. /\ own[b].epoch <= own[b].highest /\ own[b].epoch >= 1
        /\ own[b].highest <= Len(granted)
        /\ own[b].role = "active" =>
              own[b].epoch = own[b].highest /\ granted[own[b].epoch] = b
    BY DEF IndInv, Owners, OwnerIsCurrent
  <2>3. own[b].epoch \in 1..Len(granted)
    BY <1>2, <2>1, <2>2
  <2> QED
    BY <1>2, <1>3, <2>1, <2>2, <2>3
<1>6. Traffic'
  BY <1>1, <1>3 DEF IndInv, Traffic, Known
<1>7. Announcements'
  BY <1>1, <1>3 DEF IndInv, Announcements, Known
<1>8. Registries'
  BY <1>1 DEF IndInv, Registries, Listed, Has
<1> QED
  BY <1>4, <1>5, <1>6, <1>7, <1>8 DEF IndInv

\* A step that changes only own, and raises neither an epoch nor what makes an
\* owner current, keeps the rest of the invariant.
LEMMA OwnInv ==
    ASSUME IndInv, own' \in [Nids -> Ownership], Owners',
           \A a \in Nids : own'[a].epoch >= own[a].epoch,
           UNCHANGED <<granted, signed, published, profile, plain, now, client, frames, log>>
    PROVE  IndInv'
<1>1. Types'
  BY DEF IndInv, Types, TypeOK
<1>2. Traffic'
  BY DEF IndInv, Traffic, Known
<1>3. Announcements'
  <2>1. ASSUME NEW f \in published
        PROVE  f.epoch <= own'[f.nid].epoch
    <3>1. f.nid \in Nids /\ f.epoch \in Nat /\ f.epoch <= own[f.nid].epoch
      BY <2>1 DEF IndInv, Types, Announced, Announcements
    <3>2. own[f.nid].epoch \in Nat /\ own'[f.nid].epoch \in Nat
      BY <3>1 DEF IndInv, Types, TypeOK, Ownership
    <3> QED
      BY <3>1, <3>2
  <2> QED
    BY <2>1 DEF IndInv, Announcements, Known
<1>4. Registries'
  BY DEF IndInv, Registries, Listed, Has
<1> QED
  BY <1>1, <1>2, <1>3, <1>4 DEF IndInv

\* on_take_ownership: the epoch is the Anchor's own and above every one it has seen.
LEMMA TakeOwnershipInv ==
    ASSUME IndInv, NEW a \in Nids, TakeOwnership(a)
    PROVE  IndInv'
<1>1. PICK e \in DOMAIN granted :
          /\ granted[e] = a
          /\ e > own[a].highest
          /\ own' = [own EXCEPT ![a] = [@ EXCEPT !.epoch = e, !.highest = e,
                        !.role = "active", !.degraded = FALSE, !.streamsOpen = TRUE]]
  BY DEF TakeOwnership
<1>2. e \in Nat /\ e \in 1..Len(granted)
  BY <1>1 DEF IndInv, Types, TypeOK
<1>3. /\ own \in [Nids -> Ownership]
      /\ \A b \in Nids : own[b].epoch \in Nat /\ own[b].highest \in Nat
                         /\ own[b].epoch <= own[b].highest
  BY DEF IndInv, Types, TypeOK, Ownership, Owners, OwnerIsCurrent
<1>4. own' \in [Nids -> Ownership]
  <2>1. [own[a] EXCEPT !.epoch = e, !.highest = e, !.role = "active",
                       !.degraded = FALSE, !.streamsOpen = TRUE] \in Ownership
    BY <1>2, <1>3 DEF Ownership
  <2> QED
    BY <1>1, <1>3, <2>1
<1>5. /\ own'[a].epoch = e /\ own'[a].highest = e
      /\ \A b \in Nids \ {a} : own'[b] = own[b]
  BY <1>1, <1>3 DEF Ownership
<1>6. UNCHANGED <<granted, signed, published, profile, plain, now, client, frames, log>>
  BY DEF TakeOwnership
<1>7. Owners'
  BY <1>1, <1>2, <1>5, <1>6 DEF IndInv, Owners, OwnerIsCurrent
<1>8. \A b \in Nids : own'[b].epoch >= own[b].epoch
  BY <1>1, <1>2, <1>3, <1>5
<1> QED
  BY <1>4, <1>6, <1>7, <1>8, OwnInv

\* on_quorum_lost and on_quorum_restored only change the degraded flag.
LEMMA QuorumInv ==
    ASSUME IndInv, NEW a \in Nids, QuorumLost(a) \/ QuorumRestored(a)
    PROVE  IndInv'
<1>1. PICK d \in BOOLEAN : own' = [own EXCEPT ![a].degraded = d]
  BY DEF QuorumLost, QuorumRestored
<1>2. own \in [Nids -> Ownership]
  BY DEF IndInv, Types, TypeOK
<1>3. own' \in [Nids -> Ownership]
  BY <1>1, <1>2 DEF Ownership
<1>4. \A b \in Nids : /\ own'[b].epoch = own[b].epoch /\ own'[b].highest = own[b].highest
                      /\ own'[b].role = own[b].role /\ own[b].epoch \in Nat
  BY <1>1, <1>2 DEF Ownership
<1>5. UNCHANGED <<granted, signed, published, profile, plain, now, client, frames, log>>
  BY DEF QuorumLost, QuorumRestored
<1>6. Owners'
  BY <1>4, <1>5 DEF IndInv, Owners, OwnerIsCurrent
<1>7. \A b \in Nids : own'[b].epoch >= own[b].epoch
  BY <1>4
<1> QED
  BY <1>3, <1>5, <1>6, <1>7, OwnInv

\* on_inbound_frame: a greater epoch fences an owner, so whoever stays active
\* still owns the highest epoch it has observed (anchor_fence.rs:155-200).
LEMMA InboundInv ==
    ASSUME IndInv, NEW f \in frames, OnInboundFrame(f)
    PROVE  IndInv'
<1> DEFINE a == f.to
           e == Inbound(f)
<1>1. a \in Nids /\ e \in 1..Len(granted) /\ Len(granted) \in Nat
  <2>1. Len(granted) >= 1 /\ Len(granted) \in Nat
    BY DEF IndInv, Traffic, Known, Types, TypeOK
  <2> QED
    BY <2>1 DEF IndInv, Types, TypeOK, Traffic, Known, Inbound
<1>2. own' = [own EXCEPT ![a] = IF e > @.epoch THEN Fenced(@, e) ELSE Observed(@, e)]
  BY DEF OnInboundFrame
<1> HIDE DEF e
<1>3. own[a] \in Ownership /\ own \in [Nids -> Ownership]
  BY <1>1 DEF IndInv, Types, TypeOK
<1>4. /\ own'[a] \in Ownership
      /\ own'[a].epoch = own[a].epoch
      /\ own'[a].highest = IF e > own[a].highest THEN e ELSE own[a].highest
      /\ own'[a].role = IF e > own[a].epoch THEN "standby" ELSE own[a].role
      /\ \A b \in Nids \ {a} : own'[b] = own[b]
  <2>1. own'[a] = IF e > own[a].epoch THEN Fenced(own[a], e) ELSE Observed(own[a], e)
    BY <1>1, <1>2, <1>3
  <2>2. \A b \in Nids \ {a} : own'[b] = own[b]
    BY <1>1, <1>2, <1>3
  <2>3. /\ Observed(own[a], e) \in Ownership
        /\ Observed(own[a], e).epoch = own[a].epoch
        /\ Observed(own[a], e).role = own[a].role
        /\ Observed(own[a], e).highest = IF e > own[a].highest THEN e ELSE own[a].highest
    BY <1>1, <1>3, SMTT(20) DEF Observed, Ownership
  <2>4. /\ Fenced(own[a], e) \in Ownership
        /\ Fenced(own[a], e).epoch = own[a].epoch
        /\ Fenced(own[a], e).role = "standby"
        /\ Fenced(own[a], e).highest = Observed(own[a], e).highest
    BY <2>3 DEF Fenced, Ownership
  <2> QED
    BY <2>1, <2>2, <2>3, <2>4
<1>5. own' \in [Nids -> Ownership]
  BY <1>1, <1>2, <1>3, <1>4
<1>6. UNCHANGED <<granted, signed, published, profile, plain, registry, now, client>>
  BY DEF OnInboundFrame
<1>7. Owners'
  <2>1. /\ own[a].epoch \in Nat /\ own[a].highest \in Nat
        /\ own[a].epoch <= own[a].highest /\ own[a].highest <= Len(granted)
        /\ own[a].epoch >= 1
        /\ own[a].role = "active" =>
              own[a].epoch = own[a].highest /\ granted[own[a].epoch] = a
    BY <1>1, <1>3 DEF IndInv, Owners, OwnerIsCurrent, Ownership
  <2>2. /\ own'[a].epoch <= own'[a].highest /\ own'[a].highest <= Len(granted)
        /\ own'[a].role = "active" =>
              own'[a].epoch = own'[a].highest /\ granted[own'[a].epoch] = a
    BY <1>1, <1>4, <2>1
  <2> QED
    BY <1>1, <1>4, <1>6, <2>1, <2>2 DEF IndInv, Owners, OwnerIsCurrent
<1>8. log' \in Seq(Nids \X Nat)
  <2>1. log \in Seq(Nids \X Nat) /\ <<a, own[a].epoch>> \in Nids \X Nat
    BY <1>1, <1>3 DEF IndInv, Types, TypeOK, Ownership
  <2> QED
    BY <2>1 DEF OnInboundFrame
<1>9. Types' /\ Traffic'
  BY <1>5, <1>6, <1>8 DEF OnInboundFrame, IndInv, Types, TypeOK, Traffic, Known
<1>10. Announcements'
  BY <1>4, <1>6 DEF IndInv, Announcements, Known, Types, Announced
<1>11. Registries'
  BY <1>6 DEF IndInv, Registries, Listed, Has
<1> QED
  BY <1>7, <1>9, <1>10, <1>11 DEF IndInv

\* An announcement is numbered after every one its Anchor has signed, and
\* carries the epoch that the Anchor owns.
LEMMA PublishInv ==
    ASSUME IndInv, NEW a \in Nids, NEW ttl \in {0, Ttl}, Publish(a, ttl)
    PROVE  IndInv'
<1> DEFINE f == Announcement(a, ttl)
<1>1. NextSeq(a) \in Nat /\ \A g \in signed[a] : g.seq < NextSeq(a)
  <2>1. CASE signed[a] = {}
    BY <2>1 DEF NextSeq
  <2>2. CASE signed[a] # {}
    <3>1. PICK h \in signed[a] : h = CHOOSE g \in signed[a] : TRUE
      BY <2>2
    <3>2. NextSeq(a) = h.seq + 1 /\ h.seq \in Nat /\ \A g \in signed[a] : g = h
      BY <2>2, <3>1 DEF NextSeq, IndInv, Types, Announced, Announcements
    <3> QED
      BY <3>2
  <2> QED
    BY <2>1, <2>2
<1>2. /\ own[a] \in Ownership /\ own[a].epoch \in Nat /\ own[a].epoch >= 1
      /\ own[a].epoch \in 1..Len(granted) /\ granted[own[a].epoch] = a
  BY DEF Publish, IndInv, Types, TypeOK, Owners, OwnerIsCurrent, Ownership
<1>3. now \in Nat /\ ttl \in Nat
  BY AnchorClusterAssumption DEF IndInv, Types, TypeOK
<1>4. /\ f \in Announced /\ f.nid = a /\ f.seq = NextSeq(a) /\ f.epoch = own[a].epoch
  BY <1>1, <1>2, <1>3 DEF Announcement, Announced
<1>5. /\ signed' = [signed EXCEPT ![a] = {f}] /\ published' = published \cup {f}
      /\ UNCHANGED <<granted, own, profile, plain, now, client, frames, log>>
  BY DEF Publish
<1> HIDE DEF f
<1>6. Types'
  BY <1>4, <1>5 DEF IndInv, Types, TypeOK
<1>7. Owners' /\ Traffic'
  BY <1>5 DEF IndInv, Owners, OwnerIsCurrent, Traffic, Known
<1>8. Announcements'
  <2>1. signed'[a] = {f} /\ \A b \in Nids \ {a} : signed'[b] = signed[b]
    BY <1>5 DEF IndInv, Types
  <2>2. \A b \in Nids : \A g \in signed'[b] :
            g.nid = b /\ g \in published' /\ \A h \in signed'[b] : h = g
    BY <1>4, <1>5, <2>1 DEF IndInv, Announcements
  <2>3. \A g \in published : g.nid = a => g.seq < f.seq /\ g.epoch <= f.epoch
    <3> SUFFICES ASSUME NEW g \in published, g.nid = a
                 PROVE  g.seq < f.seq /\ g.epoch <= f.epoch
      OBVIOUS
    <3>1. PICK h \in signed[a] : g.seq <= h.seq
      BY DEF IndInv, Announcements
    <3>2. g.seq \in Nat /\ h.seq \in Nat /\ f.seq \in Nat
      BY <1>4, <3>1 DEF IndInv, Types, Announced
    <3> QED
      BY <1>1, <1>4, <3>1, <3>2 DEF IndInv, Announcements
  <2>4. \A g \in published' :
            /\ Known(g.epoch) /\ granted[g.epoch] = g.nid /\ g.epoch <= own[g.nid].epoch
            /\ \E h \in signed'[g.nid] : g.seq <= h.seq
    <3> SUFFICES ASSUME NEW g \in published'
                 PROVE  /\ Known(g.epoch) /\ granted[g.epoch] = g.nid
                        /\ g.epoch <= own[g.nid].epoch
                        /\ \E h \in signed'[g.nid] : g.seq <= h.seq
      OBVIOUS
    <3>1. CASE g = f
      BY <1>2, <1>4, <2>1, <3>1 DEF Known, Announced
    <3>2. CASE g \in published /\ g.nid = a
      <4>1. g.seq <= f.seq
        BY <2>3, <3>2, <1>4 DEF IndInv, Types, Announced
      <4> QED
        BY <2>1, <3>2, <4>1 DEF IndInv, Announcements
    <3>3. CASE g \in published /\ g.nid # a
      BY <2>1, <3>3 DEF IndInv, Announcements, Types, Announced
    <3> QED
      BY <1>5, <3>1, <3>2, <3>3
  <2>5. \A g, h \in published' : g.nid = h.nid /\ g.seq <= h.seq => g.epoch <= h.epoch
    <3> SUFFICES ASSUME NEW g \in published', NEW h \in published',
                        g.nid = h.nid, g.seq <= h.seq
                 PROVE  g.epoch <= h.epoch
      OBVIOUS
    <3>1. g \in Announced /\ h \in Announced
      BY <1>4, <1>5 DEF IndInv, Types
    <3>2. CASE g \in published /\ h \in published
      BY <3>2 DEF IndInv, Announcements
    <3>3. CASE g \in published /\ h = f
      BY <1>4, <2>3, <3>3
    <3>4. CASE g = f /\ h \in published
      BY <1>4, <2>3, <3>1, <3>4 DEF Announced
    <3>5. CASE g = f /\ h = f
      BY <1>2, <1>4, <3>5
    <3> QED
      BY <1>5, <3>2, <3>3, <3>4, <3>5
  <2> QED
    BY <1>5, <2>2, <2>4, <2>5 DEF Announcements, Known
<1>9. Registries'
  BY <1>5 DEF IndInv, Registries, Listed, Has
<1> QED
  BY <1>6, <1>7, <1>8, <1>9 DEF IndInv

\* A heartbeat repeats an announcement under its old number and epoch.
LEMMA HeartbeatInv ==
    ASSUME IndInv, NEW a \in Nids, Heartbeat(a)
    PROVE  IndInv'
<1>1. PICK f \in signed[a], beat \in {"healthy", "degraded"} :
          published' = published \cup {[f EXCEPT !.lastSeen = now, !.health = beat]}
  BY DEF Heartbeat
<1> DEFINE g == [f EXCEPT !.lastSeen = now, !.health = beat]
<1>2. f \in Announced /\ f \in published /\ now \in Nat
  BY AnchorClusterAssumption DEF IndInv, Types, TypeOK, Announcements
<1>3. g \in Announced /\ g.nid = f.nid /\ g.seq = f.seq /\ g.epoch = f.epoch
  BY <1>2 DEF Announced
<1>4. published' = published \cup {g}
  BY <1>1
<1>5. UNCHANGED <<granted, own, signed, profile, plain, now, client, frames, log>>
  BY DEF Heartbeat
<1> HIDE DEF g
<1>6. Types'
  BY <1>3, <1>4, <1>5 DEF IndInv, Types, TypeOK
<1>7. Owners' /\ Traffic'
  BY <1>5 DEF IndInv, Owners, OwnerIsCurrent, Traffic, Known
<1>8. Announcements'
  <2>1. \A h \in published' : \E h0 \in published :
            h.nid = h0.nid /\ h.seq = h0.seq /\ h.epoch = h0.epoch
    BY <1>2, <1>3, <1>4
  <2>2. \A h \in published' :
            /\ Known(h.epoch) /\ granted[h.epoch] = h.nid
            /\ h.epoch <= own[h.nid].epoch
            /\ \E s \in signed[h.nid] : h.seq <= s.seq
    BY <2>1 DEF IndInv, Announcements
  <2>3. \A h, k \in published' : h.nid = k.nid /\ h.seq <= k.seq => h.epoch <= k.epoch
    BY <2>1 DEF IndInv, Announcements
  <2> QED
    BY <1>4, <1>5, <2>2, <2>3 DEF IndInv, Announcements, Known
<1>9. Registries'
  BY <1>4, <1>5 DEF IndInv, Registries, Listed, Has
<1> QED
  BY <1>6, <1>7, <1>8, <1>9 DEF IndInv

\* What listing or removing a node does to the two maps of the registry.
Updated(reg, n, u, v) == [reg EXCEPT !.entries[n] = u, !.sequences[n] = v]

\* apply_announce replaces one entry and one sequence number, and no other.
LEMMA RegistryUpdate ==
    ASSUME NEW reg \in Registry, NEW n \in Nids, NEW u \in Entry, NEW v \in Nat
    PROVE  /\ Updated(reg, n, u, v) \in Registry
           /\ Updated(reg, n, u, v).entries = [reg.entries EXCEPT ![n] = u]
           /\ Updated(reg, n, u, v).sequences = [reg.sequences EXCEPT ![n] = v]
  BY DEF Registry, Updated

\* A registry that has taken an announcement in: it lists the announcement or
\* no longer lists its node; the announcement was newer than what it held, or
\* refreshed a node it lists.
Applied(reg, f, new) ==
    /\ \/ f.seq > reg.sequences[f.nid]
       \/ f.seq = reg.sequences[f.nid] /\ Has(reg, f.nid)
    /\ new.sequences = [reg.sequences EXCEPT ![f.nid] = f.seq]
    /\ \E entry \in {NoEntry, [frame |-> f, expiresAt |-> FreshnessDeadline(f)]} :
          new.entries = [reg.entries EXCEPT ![f.nid] = entry]

\* apply_announce as a step on a registry: it leaves it alone or takes
\* the announcement in (registry_profile.rs:159).
LEMMA ApplyCases ==
    ASSUME NEW reg \in Registry, NEW f \in Announced, NEW t \in Nat
    PROVE  /\ ApplyAnnounce(reg, f, t) \in Registry
           /\ \/ ApplyAnnounce(reg, f, t) = reg
              \/ Applied(reg, f, ApplyAnnounce(reg, f, t))
<1> DEFINE d == Decide(reg, f, t)
           new == ApplyAnnounce(reg, f, t)
           entry == [frame |-> f, expiresAt |-> FreshnessDeadline(f)]
<1>1. f.seq \in Nat /\ f.nid \in Nids /\ Sequence(f) = f.seq
  BY DEF Announced, Sequence, Absent
<1>2. reg.sequences[f.nid] \in Int
  BY <1>1 DEF Absent, Registry
<1>3. d \in {"accepted", "removed"} => f.seq > reg.sequences[f.nid]
  BY <1>1, <1>2 DEF Decide, DecideAtHighest
<1>4. d = "refreshed" => f.seq = reg.sequences[f.nid] /\ Has(reg, f.nid)
  BY <1>1, <1>2 DEF Decide, DecideAtHighest
<1>5. FreshnessDeadline(f) \in Nat
  BY DEF FreshnessDeadline, Announced, Absent
<1>6. entry \in Entry /\ NoEntry \in Entry
  BY <1>5 DEF Entry
<1> HIDE DEF entry
<1>7. /\ Stored(reg, f) \in Registry
      /\ Stored(reg, f).entries = [reg.entries EXCEPT ![f.nid] = entry]
      /\ Stored(reg, f).sequences = [reg.sequences EXCEPT ![f.nid] = f.seq]
  <2>1. Stored(reg, f) = Updated(reg, f.nid, entry, f.seq)
    BY <1>1 DEF Stored, Updated, entry
  <2> QED
    BY <1>1, <1>6, <2>1, RegistryUpdate
<1>8. /\ Removed(reg, f) \in Registry
      /\ Removed(reg, f).entries = [reg.entries EXCEPT ![f.nid] = NoEntry]
      /\ Removed(reg, f).sequences = [reg.sequences EXCEPT ![f.nid] = f.seq]
  <2>1. Removed(reg, f) = Updated(reg, f.nid, NoEntry, f.seq)
    BY <1>1 DEF Removed, Updated
  <2> QED
    BY <1>1, <1>6, <2>1, RegistryUpdate
<1>9. new = IF d \in {"accepted", "refreshed"} THEN Stored(reg, f)
            ELSE IF d = "removed" THEN Removed(reg, f) ELSE reg
  BY DEF ApplyAnnounce
<1> HIDE DEF d, new
<1>10. CASE d \in {"accepted", "refreshed"}
  <2>1. new \in Registry /\ new.entries = [reg.entries EXCEPT ![f.nid] = entry]
        /\ new.sequences = [reg.sequences EXCEPT ![f.nid] = f.seq]
    BY <1>7, <1>9, <1>10
  <2> QED
    BY <1>3, <1>4, <1>10, <2>1 DEF new, entry, Applied
<1>11. CASE d = "removed"
  <2>1. new \in Registry /\ new.entries = [reg.entries EXCEPT ![f.nid] = NoEntry]
        /\ new.sequences = [reg.sequences EXCEPT ![f.nid] = f.seq]
    BY <1>8, <1>9, <1>11
  <2> QED
    BY <1>3, <1>11, <2>1 DEF new, Applied
<1> QED
  BY <1>9, <1>10, <1>11 DEF new

\* A delivery lists an announcement that was made, under its own name.
LEMMA DeliverInv ==
    ASSUME IndInv, NEW f \in published, Deliver(f)
    PROVE  IndInv'
<1>1. /\ f \in Announced /\ f.nid \in Nids /\ now \in Nat /\ f.ttl \in Nat
      /\ profile \in Registry
      /\ plain \in [Nids -> Entry] /\ f.seq \in Nat
  BY AnchorClusterAssumption DEF IndInv, Types, TypeOK, Announced
<1>2. UNCHANGED <<granted, own, signed, published, now, client, frames, log>>
  BY DEF Deliver
<1>3. FreshnessDeadline(f) \in Nat
  BY <1>1 DEF FreshnessDeadline, Announced, Absent
<1>4. NoEntry \in Entry /\ [frame |-> f, expiresAt |-> FreshnessDeadline(f)] \in Entry
      /\ [frame |-> f, expiresAt |-> now + f.ttl] \in Entry
  BY <1>1, <1>3 DEF Entry
<1>5. /\ profile' \in Registry
      /\ Listed(profile'.entries)
      /\ \A n \in Nids : Has(profile', n) =>
            profile'.entries[n].frame.seq = profile'.sequences[n]
  <2>1. CASE profile' = profile
    BY <1>1, <2>1 DEF IndInv, Registries, Has
  <2>2. CASE profile' # profile
    <3>0. profile' \in Registry /\ Applied(profile, f, profile')
      BY <1>1, <2>2, ApplyCases DEF Deliver
    <3>1. PICK entry \in {NoEntry, [frame |-> f, expiresAt |-> FreshnessDeadline(f)]} :
              profile'.entries = [profile.entries EXCEPT ![f.nid] = entry]
      BY <3>0 DEF Applied
    <3>2. profile'.sequences = [profile.sequences EXCEPT ![f.nid] = f.seq]
      BY <3>0 DEF Applied
    <3>3. entry \in Entry /\ (entry # NoEntry => entry.frame = f)
      BY <1>4
    <3>4. profile' \in Registry
      BY <3>0 DEF Applied
    <3>5. Listed(profile'.entries)
      BY <1>1, <3>1, <3>3 DEF IndInv, Registries, Listed, Registry
    <3>6. \A n \in Nids : Has(profile', n) =>
              profile'.entries[n].frame.seq = profile'.sequences[n]
      BY <1>1, <3>1, <3>2, <3>3 DEF IndInv, Registries, Has, Registry
    <3> QED
      BY <3>4, <3>5, <3>6
  <2> QED
    BY <2>1, <2>2
<1>6. plain' \in [Nids -> Entry] /\ Listed(plain')
  <2>1. PICK entry \in {NoEntry, [frame |-> f, expiresAt |-> now + f.ttl]} :
            plain' = plain \/ plain' = [plain EXCEPT ![f.nid] = entry]
    BY DEF Deliver, Announce
  <2>2. entry \in Entry /\ (entry # NoEntry => entry.frame = f)
    BY <1>4
  <2> QED
    BY <1>1, <2>1, <2>2 DEF IndInv, Registries, Listed
<1>7. Types'
  BY <1>2, <1>5, <1>6 DEF IndInv, Types, TypeOK
<1>8. Owners' /\ Traffic' /\ Announcements'
  BY <1>2 DEF IndInv, Owners, OwnerIsCurrent, Traffic, Announcements, Known
<1>9. Registries'
  BY <1>2, <1>5, <1>6 DEF Registries, Listed, Has
<1> QED
  BY <1>7, <1>8, <1>9 DEF IndInv

\* A step of the client changes only the client, and leaves it with an epoch that
\* was handed out and, once it has one, a real target.
LEMMA ClientInv ==
    ASSUME IndInv, client' \in Client, Known(client'.epoch),
           client'.pc \in {"connect", "session"} => client'.target \in Nids,
           UNCHANGED <<granted, own, signed, published, profile, plain, now, frames, log>>
    PROVE  IndInv'
<1>1. Types'
  BY DEF IndInv, Types, TypeOK
<1>2. Traffic'
  BY DEF IndInv, Traffic, Known
<1>3. Owners' /\ Announcements'
  BY DEF IndInv, Owners, OwnerIsCurrent, Announcements, Known
<1>4. Registries'
  BY DEF IndInv, Registries, Listed, Has
<1> QED
  BY <1>1, <1>2, <1>3, <1>4 DEF IndInv

\* NcpFailoverConnector::connect: starting, resolving, connecting (failover.rs).
LEMMA ConnectInv ==
    ASSUME IndInv, StartConnect \/ Resolve \/ ConnectTo
    PROVE  IndInv'
<1>1. client \in Client /\ Known(client.epoch) /\ Known(1) /\ NoSession \in Client
  <2>1. Len(granted) \in Nat /\ client.epoch \in 1..Len(granted)
    BY DEF IndInv, Types, TypeOK, Traffic, Known
  <2> QED
    BY <2>1 DEF IndInv, Types, TypeOK, Known, NoSession, Client
<1>2. UNCHANGED <<granted, own, signed, published, profile, plain, now, frames, log>>
  BY DEF StartConnect, Resolve, ConnectTo
<1>3. /\ client' \in Client /\ Known(client'.epoch)
      /\ client'.pc \in {"connect", "session"} => client'.target \in Nids
  <2>1. CASE StartConnect
    BY <1>1, <2>1 DEF StartConnect, NoSession, Client
  <2>2. CASE Resolve /\ Resolution \in Nids
    <3> DEFINE e == EffectiveEpoch(Entries[Resolution].frame)
    <3>1. Known(e)
      BY <2>2, ResolutionFindsOne, ResolutionAssumption DEF IndInv
    <3>2. e \in Nat
      BY <3>1 DEF Known, IndInv, Types, TypeOK
    <3>3. client' = [client EXCEPT !.pc = "connect", !.target = Resolution, !.epoch = e]
      BY <2>2 DEF Resolve
    <3> HIDE DEF e
    <3> QED
      BY <1>1, <2>2, <3>1, <3>2, <3>3 DEF Client
  <2>3. CASE Resolve /\ Resolution \notin Nids
    BY <1>1, <2>3 DEF Resolve, NoSession
  <2>4. CASE ConnectTo
    <3>1. client.pc = "connect" /\ client.target \in Nids /\ client.attempt \in Nat
      BY <1>1, <2>4 DEF ConnectTo, IndInv, Traffic, Client
    <3>2. \/ client' = [client EXCEPT !.pc = "session", !.attempt = 0]
          \/ client' = [NoSession EXCEPT !.pc = "resolve", !.attempt = client.attempt + 1]
          \/ client' = NoSession
      BY <2>4 DEF ConnectTo
    <3>3. CASE client' = [client EXCEPT !.pc = "session", !.attempt = 0]
      BY <1>1, <3>1, <3>3 DEF Client
    <3>4. CASE client' = [NoSession EXCEPT !.pc = "resolve", !.attempt = client.attempt + 1]
      <4>1. client' = [pc |-> "resolve", attempt |-> client.attempt + 1,
                       target |-> NoLeader, epoch |-> 1]
        BY <3>4 DEF NoSession
      <4>2. client.attempt + 1 \in Nat
        BY <3>1
      <4> QED
        BY <1>1, <4>1, <4>2 DEF Client
    <3>5. CASE client' = NoSession
      BY <1>1, <3>5 DEF NoSession
    <3> QED
      BY <3>2, <3>3, <3>4, <3>5
  <2> QED
    BY <2>1, <2>2, <2>3, <2>4
<1> QED
  BY <1>2, <1>3, ClientInv

\* Frames carry the epoch of the session they are sent on, of the owner that
\* sends them, or none; losing one changes nothing else.
LEMMA FramesInv ==
    ASSUME IndInv,
           \/ ClientSend
           \/ \E a, b \in Nids : OwnerSend(a, b)
           \/ \E f \in frames : LoseFrame(f)
    PROVE  IndInv'
<1>1. UNCHANGED <<granted, own, signed, published, profile, plain, now, client, log>>
  BY DEF ClientSend, OwnerSend, LoseFrame
<1>2. \A f \in frames' : \/ f \in frames
                        \/ /\ f \in [to : Nids, epoch : Nat \cup {Absent}, write : BOOLEAN]
                           /\ f.epoch = Absent \/ Known(f.epoch)
  <2>1. CASE ClientSend
    <3>1. /\ client.epoch \in Nat /\ Known(client.epoch) /\ client.target \in Nids
      BY <2>1 DEF ClientSend, IndInv, Types, TypeOK, Client, Traffic
    <3>2. PICK e \in {client.epoch, Absent} :
              frames' = frames \cup {[to |-> client.target, epoch |-> e, write |-> TRUE]}
      BY <2>1 DEF ClientSend
    <3>3. e \in Nat \cup {Absent} /\ (e = Absent \/ Known(e))
      BY <3>1
    <3> DEFINE g == [to |-> client.target, epoch |-> e, write |-> TRUE]
    <3>4. g \in [to : Nids, epoch : Nat \cup {Absent}, write : BOOLEAN] /\ g.epoch = e
      BY <3>1, <3>3
    <3>5. \A f \in frames' : f \in frames \/ f = g
      BY <3>2
    <3> HIDE DEF g
    <3> QED
      BY <3>3, <3>4, <3>5
  <2>2. ASSUME NEW a \in Nids, NEW b \in Nids, OwnerSend(a, b)
        PROVE  \A f \in frames' : \/ f \in frames
                        \/ /\ f \in [to : Nids, epoch : Nat \cup {Absent}, write : BOOLEAN]
                           /\ f.epoch = Absent \/ Known(f.epoch)
    <3>1. own[a].epoch \in Nat /\ Known(own[a].epoch)
      BY DEF IndInv, Types, TypeOK, Ownership, Owners, OwnerIsCurrent, Known
    <3>2. frames' = frames \cup {[to |-> b, epoch |-> own[a].epoch, write |-> FALSE]}
      BY <2>2 DEF OwnerSend
    <3> DEFINE g == [to |-> b, epoch |-> own[a].epoch, write |-> FALSE]
    <3>3. /\ g \in [to : Nids, epoch : Nat \cup {Absent}, write : BOOLEAN]
          /\ g.epoch = own[a].epoch
      BY <3>1
    <3>4. \A f \in frames' : f \in frames \/ f = g
      BY <3>2
    <3> HIDE DEF g
    <3> QED
      BY <3>1, <3>3, <3>4
  <2>3. CASE \E f \in frames : LoseFrame(f)
    BY <2>3 DEF LoseFrame
  <2> QED
    BY <2>1, <2>2, <2>3
<1>3. Types'
  BY <1>1, <1>2 DEF IndInv, Types, TypeOK
<1>4. Traffic'
  BY <1>1, <1>2 DEF IndInv, Traffic, Known
<1>5. Owners' /\ Announcements'
  BY <1>1 DEF IndInv, Owners, OwnerIsCurrent, Announcements, Known
<1>6. Registries'
  BY <1>1 DEF IndInv, Registries, Listed, Has
<1> QED
  BY <1>3, <1>4, <1>5, <1>6 DEF IndInv

\* The clock.
LEMMA TickInv ==
    ASSUME IndInv, Tick \/ UNCHANGED vars
    PROVE  IndInv'
<1>1. UNCHANGED <<granted, own, signed, published, profile, plain, client, frames, log>>
  BY DEF Tick, vars
<1>2. now' \in 0..MaxTime
  BY AnchorClusterAssumption DEF Tick, vars, IndInv, Types, TypeOK
<1>3. Types'
  BY <1>1, <1>2 DEF IndInv, Types, TypeOK
<1>4. Owners' /\ Traffic' /\ Announcements'
  BY <1>1 DEF IndInv, Owners, OwnerIsCurrent, Traffic, Announcements, Known
<1>5. Registries'
  BY <1>1 DEF IndInv, Registries, Listed, Has
<1> QED
  BY <1>3, <1>4, <1>5 DEF IndInv

\* Every step keeps the invariant.
LEMMA StepInv == IndInv /\ [Next]_vars => IndInv'
<1> SUFFICES ASSUME IndInv, [Next]_vars PROVE IndInv'
  OBVIOUS
<1>1. ASSUME NEW a \in Nids, Elect(a) PROVE IndInv'
  BY <1>1, ElectInv
<1>2. ASSUME NEW a \in Nids, TakeOwnership(a) PROVE IndInv'
  BY <1>2, TakeOwnershipInv
<1>3. ASSUME NEW a \in Nids, QuorumLost(a) \/ QuorumRestored(a) PROVE IndInv'
  BY <1>3, QuorumInv
<1>4. ASSUME NEW a \in Nids, NEW ttl \in {0, Ttl}, Publish(a, ttl) PROVE IndInv'
  BY <1>4, PublishInv
<1>5. ASSUME NEW a \in Nids, Heartbeat(a) PROVE IndInv'
  BY <1>5, HeartbeatInv
<1>6. ASSUME NEW f \in published, Deliver(f) PROVE IndInv'
  BY <1>6, DeliverInv
<1>7. CASE StartConnect \/ Resolve \/ ConnectTo
  BY <1>7, ConnectInv
<1>8. CASE \/ ClientSend \/ (\E a, b \in Nids : OwnerSend(a, b))
           \/ \E f \in frames : LoseFrame(f)
  BY <1>8, FramesInv
<1>9. ASSUME NEW f \in frames, OnInboundFrame(f) PROVE IndInv'
  BY <1>9, InboundInv
<1>10. CASE Tick \/ UNCHANGED vars
  BY <1>10, TickInv
<1> QED
  BY <1>1, <1>2, <1>3, <1>4, <1>5, <1>6, <1>7, <1>8, <1>9, <1>10 DEF Next

-----------------------------------------------------------------------------
(* The theorems.                                                            *)

\* The invariant holds in every reachable state.
THEOREM Inductive == Spec => []IndInv
  BY InitInv, StepInv, PTL DEF Spec

\* Every Anchor, the client and the log stay well typed, for any set of Anchors.
THEOREM TypeCorrect == Spec => []TypeOK
<1>1. IndInv => TypeOK
  BY DEF IndInv, Types
<1> QED
  BY <1>1, Inductive, PTL

\* An active Anchor owns the highest epoch it has observed, and that epoch was
\* given to it (anchor_fence.rs:155-245): the reason why the fence works.
THEOREM OwnerIsCurrentHolds == Spec => []OwnerIsCurrent
<1>1. IndInv => OwnerIsCurrent
  BY DEF IndInv, Owners
<1> QED
  BY <1>1, Inductive, PTL

\* As long as every epoch is given to one Anchor, no registry answers
\* NDP-CLUSTER-SPLIT, whatever announcements it was given and in which order
\* (registry.rs:96, registry_profile.rs:258).
THEOREM NoSplitHolds == Spec => []NoSplit
<1>1. IndInv => NoSplit
  <2> SUFFICES ASSUME IndInv PROVE Resolution # Split
    BY DEF NoSplit
  <2>1. Resolution = NoLeader \/ Resolution \in Nids
    BY ResolutionFindsOne DEF IndInv
  <2>2. NoLeader # Split
    BY DEF NoLeader, Split
  <2> QED
    BY <2>1, <2>2, ResolutionAssumption
<1> QED
  BY <1>1, Inductive, PTL

\* The sequenced registry never rolls back: neither the sequence number of a
\* node nor the epoch it is listed with ever falls, and a node that was removed
\* comes back only with a greater number (registry_profile.rs:159).
THEOREM NeverRollsBackHolds == Spec => NeverRollsBack
<1> DEFINE Forward(n) ==
              /\ profile'.sequences[n] >= profile.sequences[n]
              /\ Has(profile', n) /\ ~Has(profile, n) =>
                    profile'.sequences[n] > profile.sequences[n]
              /\ Has(profile', n) /\ Has(profile, n) =>
                    profile'.entries[n].frame.epoch >= profile.entries[n].frame.epoch
<1>1. ASSUME IndInv, Next, NEW n \in Nids
      PROVE  Forward(n)
  <2>1. profile \in Registry /\ profile' \in Registry
    BY <1>1, StepInv DEF IndInv, Types
  <2>2. /\ profile.sequences[n] \in Int
        /\ Has(profile, n) => /\ profile.entries[n].frame \in published
                              /\ profile.entries[n].frame.nid = n
                              /\ profile.entries[n].frame.epoch \in Nat
                              /\ profile.entries[n].frame.seq = profile.sequences[n]
    BY <1>1, <2>1 DEF IndInv, Types, Registry, Registries, Listed, Has, Announced, Absent
  <2>3. CASE profile' = profile
    BY <2>2, <2>3 DEF Has
  <2>4. CASE profile' # profile
    <3>1. PICK f \in published : Deliver(f)
      BY <1>1, <2>4
      DEF Next, Elect, TakeOwnership, QuorumLost, QuorumRestored, Publish, Heartbeat,
          OwnerSend, StartConnect, Resolve, ConnectTo, ClientSend, OnInboundFrame,
          LoseFrame, Tick
    <3>2. f \in Announced /\ now \in Nat
      BY <1>1, AnchorClusterAssumption DEF IndInv, Types, TypeOK
    <3>3. Applied(profile, f, profile')
      BY <2>1, <2>4, <3>1, <3>2, ApplyCases DEF Deliver
    <3>4. f.nid \in Nids /\ f.seq \in Nat /\ f.epoch \in Nat
      BY <3>2 DEF Announced
    <3>5. PICK entry \in {NoEntry, [frame |-> f, expiresAt |-> FreshnessDeadline(f)]} :
              profile'.entries = [profile.entries EXCEPT ![f.nid] = entry]
      BY <3>3 DEF Applied
    <3>6. /\ profile'.sequences = [profile.sequences EXCEPT ![f.nid] = f.seq]
          /\ \/ f.seq > profile.sequences[f.nid]
             \/ f.seq = profile.sequences[f.nid] /\ Has(profile, f.nid)
      BY <3>3 DEF Applied
    <3>7. CASE n # f.nid
      BY <2>1, <2>2, <3>4, <3>5, <3>6, <3>7 DEF Has, Registry
    <3>8. CASE n = f.nid
      <4>1. profile'.sequences[n] = f.seq /\ profile'.entries[n] = entry
        BY <2>1, <3>5, <3>6, <3>8 DEF Registry
      <4>2. Has(profile', n) => profile'.entries[n].frame = f
        BY <4>1 DEF Has
      <4>3. Has(profile, n) => f.epoch >= profile.entries[n].frame.epoch
        <5>1. Has(profile, n) => profile.entries[n].frame.seq <= f.seq
          BY <2>2, <3>4, <3>6, <3>8
        <5> QED
          BY <1>1, <2>2, <3>4, <3>8, <5>1 DEF IndInv, Announcements
      <4> QED
        BY <2>2, <3>4, <3>6, <3>8, <4>1, <4>2, <4>3
    <3> QED
      BY <3>7, <3>8
  <2> QED
    BY <2>3, <2>4
<1>2. IndInv /\ [Next]_vars => [\A n \in Nids : Forward(n)]_vars
  BY <1>1
<1> QED
  BY <1>2, Inductive, PTL DEF Spec, NeverRollsBack

-----------------------------------------------------------------------------
(* The cluster implements EpochFence: an election grants an epoch, an Anchor  *)
(* learns of an epoch when it takes ownership or receives a frame, and        *)
(* accepts a write only through on_inbound_frame.                             *)

\* What each Anchor has learnt of, as the refinement mapping gives it to Fence.
Seen == [a \in Nids |-> own[a].highest]

\* Initial states map to initial states.
LEMMA FenceInit == Init => Fence!Init
  BY DEF Init, Fence!Init

\* A step that raises what one Anchor has observed to an epoch that was handed
\* out, and writes nothing, is a Learn.
LEMMA FenceLearn ==
    ASSUME NEW a \in Nids, NEW e \in DOMAIN granted, e > own[a].highest,
           own'[a].highest = e, \A b \in Nids \ {a} : own'[b].highest = own[b].highest,
           UNCHANGED <<granted, log>>
    PROVE  Fence!Next
<1>1. Seen' = [Seen EXCEPT ![a] = e] /\ e > Seen[a]
  BY DEF Seen
<1>2. Fence!Learn(a, e)
  BY <1>1 DEF Fence!Learn, Seen
<1> QED
  BY <1>2 DEF Fence!Next

\* on_inbound_frame learns of the frame's epoch, or accepts a write in the epoch
\* the Anchor owns, or neither; never both (anchor_fence.rs:155-200).
LEMMA FenceInbound ==
    ASSUME IndInv, NEW f \in frames, OnInboundFrame(f)
    PROVE  Fence!Next \/ UNCHANGED Fence!fenceVars
<1> DEFINE a == f.to
           e == Inbound(f)
<1>1. a \in Nids /\ e \in 1..Len(granted) /\ Len(granted) \in Nat
  <2>1. Len(granted) >= 1 /\ Len(granted) \in Nat
    BY DEF IndInv, Traffic, Known, Types, TypeOK
  <2> QED
    BY <2>1 DEF IndInv, Types, TypeOK, Traffic, Known, Inbound
<1>2. /\ own' = [own EXCEPT ![a] = IF e > @.epoch THEN Fenced(@, e) ELSE Observed(@, e)]
      /\ log' = IF f.write /\ e <= own[a].epoch /\ AcceptsWrites(own[a])
                THEN Append(log, <<a, own[a].epoch>>) ELSE log
      /\ granted' = granted
  BY DEF OnInboundFrame
<1> HIDE DEF e
<1>3. own[a] \in Ownership /\ own \in [Nids -> Ownership] /\ e \in Nat
  BY <1>1 DEF IndInv, Types, TypeOK
<1>4. own[a].highest \in Nat /\ own[a].epoch \in Nat /\ own[a].epoch <= own[a].highest
  BY <1>1, <1>3 DEF Ownership, IndInv, Owners, OwnerIsCurrent
<1>5. /\ own'[a].highest = IF e > own[a].highest THEN e ELSE own[a].highest
      /\ \A b \in Nids \ {a} : own'[b].highest = own[b].highest
  <2>1. Observed(own[a], e) \in Ownership
    BY <1>3 DEF Observed, Ownership
  <2>2. Observed(own[a], e).highest = IF e > own[a].highest THEN e ELSE own[a].highest
    BY <1>3 DEF Observed, Ownership
  <2>3. Fenced(own[a], e).highest = Observed(own[a], e).highest
    BY <2>1 DEF Fenced, Ownership
  <2> QED
    BY <1>1, <1>2, <1>3, <2>2, <2>3
<1>6. CASE e > own[a].highest
  <2>1. ~(e <= own[a].epoch)
    BY <1>3, <1>4, <1>6
  <2>2. e \in DOMAIN granted
    BY <1>1 DEF IndInv, Types, TypeOK
  <2> QED
    BY <1>1, <1>2, <1>5, <1>6, <2>1, <2>2, FenceLearn
<1>7. CASE ~(e > own[a].highest)
  <2>1. Seen' = Seen
    BY <1>5, <1>7 DEF Seen
  <2>2. CASE log' = log
    BY <1>2, <2>1, <2>2 DEF Fence!fenceVars, Seen
  <2>3. CASE log' # log
    <3>1. log' = Append(log, <<a, own[a].epoch>>) /\ own[a].role = "active"
      BY <1>2, <2>3 DEF AcceptsWrites
    <3>2. own[a].epoch = own[a].highest /\ granted[own[a].epoch] = a
      BY <1>1, <3>1 DEF IndInv, Owners, OwnerIsCurrent
    <3>3. Seen[a] = own[a].epoch
      BY <1>1, <3>2 DEF Seen
    <3>4. Fence!AcceptWrite(a)
      BY <1>2, <2>1, <3>1, <3>2, <3>3 DEF Fence!AcceptWrite, Seen
    <3> QED
      BY <1>1, <3>4 DEF Fence!Next
  <2> QED
    BY <2>2, <2>3
<1> QED
  BY <1>6, <1>7

\* Every step of the cluster is a step of the fence or leaves it alone.
LEMMA FenceStep == IndInv /\ [Next]_vars => [Fence!Next]_Fence!fenceVars
<1> SUFFICES ASSUME IndInv, [Next]_vars
             PROVE  Fence!Next \/ UNCHANGED Fence!fenceVars
  OBVIOUS
<1>1. ASSUME NEW a \in Nids, Elect(a)
      PROVE  Fence!Next
  <2>1. Fence!Grant(a)
    BY <1>1 DEF Elect, Fence!Grant
  <2> QED
    BY <2>1 DEF Fence!Next
<1>2. ASSUME NEW a \in Nids, TakeOwnership(a)
      PROVE  Fence!Next
  <2>1. PICK e \in DOMAIN granted :
            /\ e > own[a].highest
            /\ own' = [own EXCEPT ![a] = [@ EXCEPT !.epoch = e, !.highest = e,
                          !.role = "active", !.degraded = FALSE, !.streamsOpen = TRUE]]
    BY <1>2 DEF TakeOwnership
  <2>2. own'[a].highest = e /\ \A b \in Nids \ {a} : own'[b].highest = own[b].highest
    BY <2>1 DEF IndInv, Types, TypeOK, Ownership
  <2> QED
    BY <1>2, <2>1, <2>2, FenceLearn DEF TakeOwnership
<1>3. ASSUME NEW a \in Nids, QuorumLost(a) \/ QuorumRestored(a)
      PROVE  UNCHANGED Fence!fenceVars
  <2>1. PICK d \in BOOLEAN : own' = [own EXCEPT ![a].degraded = d]
    BY <1>3 DEF QuorumLost, QuorumRestored
  <2>2. \A b \in Nids : own'[b].highest = own[b].highest
    BY <2>1 DEF IndInv, Types, TypeOK, Ownership
  <2>3. Seen' = Seen
    BY <2>2 DEF Seen
  <2> QED
    BY <1>3, <2>3 DEF QuorumLost, QuorumRestored, Fence!fenceVars, Seen
<1>4. ASSUME NEW f \in frames, OnInboundFrame(f)
      PROVE  Fence!Next \/ UNCHANGED Fence!fenceVars
  BY <1>4, FenceInbound
<1>5. CASE UNCHANGED <<granted, own, log>>
  BY <1>5 DEF Fence!fenceVars
<1> QED
  BY <1>1, <1>2, <1>3, <1>4, <1>5
  DEF Next, Publish, Heartbeat, OwnerSend, Deliver, StartConnect, Resolve, ConnectTo,
      ClientSend, LoseFrame, Tick, vars

\* The cluster implements the fence: whatever frames, elections, quorum changes
\* and losses come before, an Anchor accepts a topology write only in an epoch
\* that was given to it and while it has observed no greater one
\* (anchor_fence.rs:170).
THEOREM FenceRefined == Spec => FenceHolds
  BY FenceInit, FenceStep, Inductive, PTL DEF Spec, FenceHolds, Fence!Spec
============================================================================
