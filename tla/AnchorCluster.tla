----------------------------- MODULE AnchorCluster -----------------------------
(***************************************************************************)
(* A cluster of Anchors with the epoch fence (AnchorOwnership,             *)
(* nps-nwp/src/anchor_fence.rs), the registries that say which one is      *)
(* active (nps-ndp), and a client that finds it with NcpFailoverConnector  *)
(* (nps-ncp/src/failover.rs) and sends it topology writes.                 *)
(*                                                                         *)
(* Who is elected is decided by a consensus outside the code; it gives     *)
(* every epoch to one Anchor, and the Anchor's host calls                  *)
(* on_take_ownership some time later, or never. Announcements are          *)
(* published once and may arrive at a registry late, out of order, twice   *)
(* or not at all. Frames may be late or lost.                              *)
(***************************************************************************)
EXTENDS NdpRegistry, Sequences

CONSTANTS
    Ttl,           \* lifetime of an announcement
    MaxAttempts,   \* NcpFailoverConnector::max_attempts
    MaxEpoch, MaxTime, MaxPublished, MaxWrites, MaxFrames  \* bounds

ASSUME AnchorClusterAssumption ==
    /\ Ttl \in Nat \ {0}
    /\ MaxAttempts \in Nat \ {0}
    /\ {MaxEpoch, MaxTime, MaxPublished, MaxWrites, MaxFrames} \subseteq Nat

VARIABLES
    granted,    \* the consensus: granted[e] is the Anchor elected in epoch e
    own,        \* AnchorOwnership of every Anchor
    signed,     \* the last announcement an Anchor signed, a set of at most one
    published,  \* announcements on their way to the registries, for good
    profile,    \* the NdpRegistryProfile
    plain,      \* the InMemoryNdpRegistry
    registry,   \* which of the two this deployment runs
    now,        \* the clock
    client,     \* the connector and the session it returned
    frames,     \* frames on their way to an Anchor
    log         \* the topology writes accepted, in order

vars == <<granted, own, signed, published, profile, plain, registry, now,
          client, frames, log>>

cluster == "cluster"

-----------------------------------------------------------------------------
(* Types and the initial state.                                             *)

Ownership == [epoch : Nat, role : {"active", "standby"}, degraded : BOOLEAN,
              highest : Nat, streamsOpen : BOOLEAN]

Client == [pc : {"idle", "resolve", "connect", "session"},
           attempt : Nat, target : Nids \cup {NoLeader}, epoch : Nat]

\* The client before it connects, and after a connect that failed.
NoSession == [pc |-> "idle", attempt |-> 0, target |-> NoLeader, epoch |-> 1]

TypeOK ==
    /\ granted \in Seq(Nids)
    /\ own \in [Nids -> Ownership]
    /\ client \in Client
    /\ now \in 0..MaxTime
    /\ log \in Seq(Nids \X Nat)

\* AnchorOwnership::new for the first owner, new_standby for the others.
Init ==
    /\ \E first \in Nids :
          /\ granted = <<first>>
          /\ own = [a \in Nids |->
                [epoch |-> 1, role |-> IF a = first THEN "active" ELSE "standby",
                 degraded |-> FALSE, highest |-> 1, streamsOpen |-> TRUE]]
    /\ signed = [a \in Nids |-> {}]
    /\ published = {}
    /\ profile = EmptyRegistry
    /\ plain = EmptyPlain
    /\ registry \in {"profile", "plain"}
    /\ now = 0
    /\ client = NoSession
    /\ frames = {}
    /\ log = <<>>

-----------------------------------------------------------------------------
(* The consensus, and the host of an Anchor.                                *)

Elect(a) ==
    /\ Len(granted) < MaxEpoch
    /\ granted' = Append(granted, a)
    /\ UNCHANGED <<own, signed, published, profile, plain, registry, now, client, frames, log>>

\* on_take_ownership: refused, without effect, unless the epoch is greater than
\* every epoch this Anchor has observed.
TakeOwnership_Faulty(a) ==
    /\ \E e \in DOMAIN granted :
          /\ granted[e] = a
          /\ e > own[a].highest
          /\ own' = [own EXCEPT ![a] = [@ EXCEPT !.highest = e,
                        !.role = "active", !.degraded = FALSE, !.streamsOpen = TRUE]]
    /\ UNCHANGED <<granted, signed, published, profile, plain, registry, now,
                   client, frames, log>>

TakeOwnership(a) ==
    /\ \E e \in DOMAIN granted :
          /\ granted[e] = a
          /\ e > own[a].highest
          /\ own' = [own EXCEPT ![a] = [@ EXCEPT !.epoch = e, !.highest = e,
                        !.role = "active", !.degraded = FALSE, !.streamsOpen = TRUE]]
    /\ UNCHANGED <<granted, signed, published, profile, plain, registry, now, client, frames, log>>

\* The owner notices; nothing in the code asks for the role.
QuorumLost(a) ==
    /\ own[a].role = "active"
    /\ own' = [own EXCEPT ![a].degraded = TRUE]
    /\ UNCHANGED <<granted, signed, published, profile, plain, registry, now, client, frames, log>>

QuorumRestored(a) ==
    /\ own' = [own EXCEPT ![a].degraded = FALSE]
    /\ UNCHANGED <<granted, signed, published, profile, plain, registry, now, client, frames, log>>

-----------------------------------------------------------------------------
(* Announcements.                                                           *)

NextSeq(a) == IF signed[a] = {} THEN 0 ELSE (CHOOSE f \in signed[a] : TRUE).seq + 1

Announcement(a, ttl) ==
    [nid |-> a, seq |-> NextSeq(a), timestamp |-> now, ttl |-> ttl,
     health |-> "healthy", lastSeen |-> Absent, cluster |-> cluster,
     epoch |-> own[a].epoch, roles |-> {"anchor"},
     inbound |-> {"absent"}, outbound |-> {"absent"}]

\* The owner signs and publishes itself, or with a ttl of 0 takes itself off.
Publish(a, ttl) ==
    /\ own[a].role = "active"
    /\ ttl = 0 => signed[a] # {}
    /\ Cardinality(published) < MaxPublished
    /\ signed' = [signed EXCEPT ![a] = {Announcement(a, ttl)}]
    /\ published' = published \cup {Announcement(a, ttl)}
    /\ UNCHANGED <<granted, own, profile, plain, registry, now, client, frames, log>>

\* A heartbeat repeats the signed body with another last_seen and health.
Heartbeat(a) ==
    /\ \E f \in signed[a] :
          /\ f.ttl # 0 /\ now > f.timestamp
          /\ Cardinality(published) < MaxPublished
          /\ published' = published \cup
                {[f EXCEPT !.lastSeen = now,
                           !.health = IF own[a].degraded THEN "degraded" ELSE "healthy"]}
    /\ UNCHANGED <<granted, own, signed, profile, plain, registry, now, client, frames, log>>

\* The registry is given an announcement: any one, and more than once.
Deliver(f) ==
    /\ profile' = IF registry = "profile" THEN ApplyAnnounce(profile, f, now) ELSE profile
    /\ plain' = IF registry = "plain" THEN Announce(plain, f, now) ELSE plain
    /\ UNCHANGED <<granted, own, signed, published, registry, now, client, frames, log>>

Tick ==
    /\ now < MaxTime
    /\ now' = now + 1
    /\ UNCHANGED <<granted, own, signed, published, profile, plain, registry, client, frames, log>>

-----------------------------------------------------------------------------
(* The client: NcpFailoverConnector::connect, then writes on its session.   *)

StartConnect ==
    /\ client.pc \in {"idle", "session"}
    /\ client' = [NoSession EXCEPT !.pc = "resolve", !.attempt = 1]
    /\ UNCHANGED <<granted, own, signed, published, profile, plain, registry, now, frames, log>>

Resolution ==
    IF registry = "profile" THEN ResolveClusterProfile(profile, cluster, now)
    ELSE ResolveClusterPlain(plain, cluster, now)

Entries == IF registry = "profile" THEN profile.entries ELSE plain

\* resolve_active. No leader, or a split, ends the connect.
Resolve ==
    /\ client.pc = "resolve"
    /\ client' = IF Resolution \in Nids
                 THEN [client EXCEPT !.pc = "connect", !.target = Resolution,
                                     !.epoch = EffectiveEpoch(Entries[Resolution].frame)]
                 ELSE NoSession
    /\ UNCHANGED <<granted, own, signed, published, profile, plain, registry, now, frames, log>>

\* connect_fn answers with a session, a failure that looks like a failover, or
\* another failure.
ConnectTo ==
    /\ client.pc = "connect"
    /\ \E outcome \in {"session", "failover", "other"} :
          client' = IF outcome = "session"
                    THEN [client EXCEPT !.pc = "session", !.attempt = 0]
                    ELSE IF outcome = "failover" /\ client.attempt < MaxAttempts
                    THEN [NoSession EXCEPT !.pc = "resolve", !.attempt = client.attempt + 1]
                    ELSE NoSession
    /\ UNCHANGED <<granted, own, signed, published, profile, plain, registry, now, frames, log>>

\* A topology write on the session carries the epoch the client resolved, or
\* none. (Its reads meet the fence as the frames of OwnerSend do.)
ClientSend ==
    /\ client.pc = "session"
    /\ Cardinality(frames) < MaxFrames
    /\ \E e \in {client.epoch, Absent} :
          frames' = frames \cup {[to |-> client.target, epoch |-> e, write |-> TRUE]}
    /\ UNCHANGED <<granted, own, signed, published, profile, plain, registry, now, client, log>>

\* An owner makes itself known to another Anchor.
OwnerSend(a, b) ==
    /\ own[a].role = "active" /\ a # b
    /\ Cardinality(frames) < MaxFrames
    /\ frames' = frames \cup {[to |-> b, epoch |-> own[a].epoch, write |-> FALSE]}
    /\ UNCHANGED <<granted, own, signed, published, profile, plain, registry, now, client, log>>

-----------------------------------------------------------------------------
(* on_inbound_frame: the fence, for reads and writes, then the leader check *)
(* for writes.                                                              *)

Inbound(f) == IF f.epoch = Absent THEN 1 ELSE f.epoch

Observed(o, e) == [o EXCEPT !.highest = IF e > @ THEN e ELSE @]

Fenced(o, e) == [Observed(o, e) EXCEPT !.role = "standby", !.streamsOpen = FALSE]

AcceptsWrites(o) == o.role = "active" /\ ~o.degraded

OnInboundFrame_Faulty(f) ==
    LET a == f.to  e == Inbound(f) IN
    /\ own' = [own EXCEPT ![a] = Observed(@, e)]
    /\ frames' = frames \ {f}
    /\ log' = IF f.write /\ AcceptsWrites(own[a]) /\ Len(log) < MaxWrites
              THEN Append(log, <<a, own[a].epoch>>) ELSE log
    /\ UNCHANGED <<granted, signed, published, profile, plain, registry, now, client>>

OnInboundFrame(f) ==
    LET a == f.to  e == Inbound(f) IN
    /\ f.write /\ e <= own[a].epoch /\ AcceptsWrites(own[a]) => Len(log) < MaxWrites
    /\ own' = [own EXCEPT ![a] = IF e > @.epoch THEN Fenced(@, e) ELSE Observed(@, e)]
    /\ frames' = frames \ {f}
    /\ log' = IF f.write /\ e <= own[a].epoch /\ AcceptsWrites(own[a])
              THEN Append(log, <<a, own[a].epoch>>) ELSE log
    /\ UNCHANGED <<granted, signed, published, profile, plain, registry, now, client>>

LoseFrame(f) ==
    /\ frames' = frames \ {f}
    /\ UNCHANGED <<granted, own, signed, published, profile, plain, registry, now, client, log>>

-----------------------------------------------------------------------------
Next ==
    \/ \E a \in Nids :
          \/ Elect(a) \/ TakeOwnership(a) \/ QuorumLost(a) \/ QuorumRestored(a)
          \/ \E ttl \in {0, Ttl} : Publish(a, ttl)
          \/ Heartbeat(a)
          \/ \E b \in Nids : OwnerSend(a, b)
    \/ \E f \in published : Deliver(f)
    \/ StartConnect \/ Resolve \/ ConnectTo \/ ClientSend
    \/ \E f \in frames : OnInboundFrame(f) \/ LoseFrame(f)
    \/ Tick

Spec == Init /\ [][Next]_vars

-----------------------------------------------------------------------------
(* Properties.                                                              *)

Fence == INSTANCE EpochFence WITH seen <- [a \in Nids |-> own[a].highest]

\* The cluster implements the fence: an Anchor accepts a write only in an epoch
\* that was given to it and only while it has observed no greater one, whatever
\* frames, elections and quorum changes come before (anchor_fence.rs:170).
FenceHolds == Fence!Spec

\* What makes the fence inductive: an active Anchor owns the highest epoch it
\* has observed and that epoch was given to it; a standby's is never ahead.
OwnerIsCurrent ==
    \A a \in Nids :
        /\ own[a].epoch <= own[a].highest
        /\ own[a].highest <= Len(granted)
        /\ own[a].role = "active" =>
              own[a].epoch = own[a].highest /\ granted[own[a].epoch] = a

\* Announcements that arrive late, twice or out of order never make the
\* sequenced registry forget what it knew: the sequence number of a node never
\* falls, and neither does the epoch it is listed with, not even across a
\* removal (registry_profile.rs:159).
NeverRollsBack ==
    [][\A n \in Nids :
          /\ profile'.sequences[n] >= profile.sequences[n]
          /\ Has(profile', n) /\ ~Has(profile, n) =>
                profile'.sequences[n] > profile.sequences[n]
          /\ Has(profile', n) /\ Has(profile, n) =>
                profile'.entries[n].frame.epoch >= profile.entries[n].frame.epoch]_vars

\* As long as every epoch is given to one Anchor, neither registry ever sees two
\* live owners of one epoch: resolution finds an Anchor or none, and never
\* answers NDP-CLUSTER-SPLIT (registry.rs:96, registry_profile.rs:258).
NoSplit == Resolution # Split
=============================================================================
