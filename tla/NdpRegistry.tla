------------------------------ MODULE NdpRegistry ------------------------------
(***************************************************************************)
(* The two registries of nps-ndp as values: NdpRegistryProfile             *)
(* (registry_profile.rs), which admits announcements by sequence number    *)
(* and freshness, and InMemoryNdpRegistry (registry.rs), which keeps the   *)
(* last one it was given; and how each picks the Anchor of a cluster.      *)
(*                                                                         *)
(* An announcement is a record with the fields the registries look at. The *)
(* signed body is every field but health and lastSeen; two announcements   *)
(* have the same digest when these agree. Absent is a missing number.      *)
(***************************************************************************)
EXTENDS Integers, FiniteSets

CONSTANTS
    Nids,             \* the nodes that announce themselves
    SecurityProfile,  \* "local-dev" or a profile that checks more
    MaxSkew           \* 300 seconds: how far a timestamp may be off

ASSUME NdpRegistryAssumption == MaxSkew \in Nat

Absent == 0 - 1

NoEntry == [expiresAt |-> Absent]

EmptyRegistry ==
    [entries |-> [n \in Nids |-> NoEntry], sequences |-> [n \in Nids |-> Absent]]

Has(reg, n) == reg.entries[n] # NoEntry

-----------------------------------------------------------------------------
(* Announcements.                                                           *)

SignedBody(f) == [x \in DOMAIN f \ {"health", "lastSeen"} |-> f[x]]

SameLiveness(f, g) == f.health = g.health /\ f.lastSeen = g.lastSeen

FreshnessDeadline(f) ==
    (IF f.lastSeen = Absent THEN f.timestamp ELSE f.lastSeen) + f.ttl

Sequence(f) == IF f.seq = Absent THEN 0 ELSE f.seq

\* A bridge names at least one protocol, and only a bridge has the lists.
BridgeShapeValid(f) ==
    IF "bridge" \in f.roles
    THEN (f.inbound \cup f.outbound) \ {"absent"} # {}
    ELSE f.inbound = {"absent"} /\ f.outbound = {"absent"}

\* The checks of apply_announce that do not look at the registry.
WellFormed(f) ==
    /\ f.seq = Absent => SecurityProfile = "local-dev"
    /\ BridgeShapeValid(f)

InSkew(f, now) ==
    SecurityProfile # "local-dev" =>
        now - f.timestamp <= MaxSkew /\ f.timestamp - now <= MaxSkew

-----------------------------------------------------------------------------
(* NdpRegistryProfile::apply_announce.                                      *)

Fresh(f, now) == FreshnessDeadline(f) > now

Stored(reg, f) ==
    [reg EXCEPT !.entries[f.nid] = [frame |-> f, expiresAt |-> FreshnessDeadline(f)],
                !.sequences[f.nid] = Sequence(f)]

Removed(reg, f) ==
    [reg EXCEPT !.entries[f.nid] = NoEntry, !.sequences[f.nid] = Sequence(f)]

\* At the sequence number the registry holds: a duplicate, a conflict, or a
\* refresh of health and last_seen.
DecideAtHighest(reg, f, now) ==
    IF ~Has(reg, f.nid) THEN "duplicate"
    ELSE IF SignedBody(reg.entries[f.nid].frame) # SignedBody(f) THEN "conflict"
    ELSE IF SameLiveness(reg.entries[f.nid].frame, f) THEN "duplicate"
    ELSE IF ~Fresh(f, now) THEN "stale"
    ELSE "refreshed"

Decide_Faulty(reg, f, now) ==
    IF ~WellFormed(f) THEN "profile_violation"
    ELSE IF ~InSkew(f, now) THEN "signature_invalid"
    ELSE IF Has(reg, f.nid) /\ Sequence(f) < reg.sequences[f.nid] THEN "rollback"
    ELSE IF Has(reg, f.nid) /\ Sequence(f) = reg.sequences[f.nid]
         THEN DecideAtHighest(reg, f, now)
    ELSE IF f.ttl = 0 THEN "removed"
    ELSE IF ~Fresh(f, now) THEN "stale"
    ELSE "accepted"

\* The decision, for an announcement whose signature is valid.
Decide(reg, f, now) ==
    IF ~WellFormed(f) THEN "profile_violation"
    ELSE IF ~InSkew(f, now) THEN "signature_invalid"
    ELSE IF Sequence(f) < reg.sequences[f.nid] THEN "rollback"
    ELSE IF Sequence(f) = reg.sequences[f.nid] THEN DecideAtHighest(reg, f, now)
    ELSE IF f.ttl = 0 THEN "removed"
    ELSE IF ~Fresh(f, now) THEN "stale"
    ELSE "accepted"

ApplyAnnounce(reg, f, now) ==
    LET d == Decide(reg, f, now)
    IN  IF d \in {"accepted", "refreshed"} THEN Stored(reg, f)
        ELSE IF d = "removed" THEN Removed(reg, f)
        ELSE reg

-----------------------------------------------------------------------------
(* InMemoryNdpRegistry: the last announcement wins, counted from its       *)
(* arrival.                                                                 *)

Announce(plain, f, now) ==
    IF f.ttl = 0 THEN [plain EXCEPT ![f.nid] = NoEntry]
    ELSE [plain EXCEPT ![f.nid] = [frame |-> f, expiresAt |-> now + f.ttl]]

EmptyPlain == [n \in Nids |-> NoEntry]

-----------------------------------------------------------------------------
(* Resolution.                                                              *)

LiveNids(entries, now) == {n \in Nids : entries[n].expiresAt > now}

EffectiveEpoch(f) == IF f.epoch = Absent THEN 1 ELSE f.epoch

NoLeader == "none"
Split == "split"

\* Neither answer is a node: resolution returns an error code instead of a NID.
ASSUME ResolutionAssumption == NoLeader \notin Nids /\ Split \notin Nids

\* The member with the highest epoch; a tie is not resolved.
HighestEpoch(entries, members) ==
    LET top == {n \in members : \A m \in members :
                    EffectiveEpoch(entries[n].frame) >= EffectiveEpoch(entries[m].frame)}
    IN  IF members = {} THEN NoLeader
        ELSE IF Cardinality(top) > 1 THEN Split
        ELSE CHOOSE n \in top : TRUE

\* registry_profile.rs: members of the cluster that have the Anchor role.
ResolveClusterProfile(reg, cluster, now) ==
    HighestEpoch(reg.entries,
        {n \in LiveNids(reg.entries, now) :
            /\ reg.entries[n].frame.cluster = cluster
            /\ "anchor" \in reg.entries[n].frame.roles})

\* registry.rs: any live member of the cluster.
ResolveClusterPlain(plain, cluster, now) ==
    HighestEpoch(plain,
        {n \in LiveNids(plain, now) : plain[n].frame.cluster = cluster})

\* discover_bridges.
DiscoverBridges(reg, direction, protocol, now) ==
    {n \in LiveNids(reg.entries, now) :
        LET f == reg.entries[n].frame IN
            /\ f.health # "draining"
            /\ "bridge" \in f.roles
            /\ protocol \in (IF direction = "inbound" THEN f.inbound ELSE f.outbound)}

HasStaleEntry(reg, now) ==
    \E n \in Nids : Has(reg, n) /\ reg.entries[n].expiresAt <= now
=============================================================================
