------------------------- MODULE ClusterDelegation -------------------------
(***************************************************************************)
(* The delegation resolver of NOP (nps-nop/src/cluster_delegation.rs): the *)
(* cache of each cluster's owner, read and filled by resolving threads     *)
(* while failover observations arrive on others.  The cluster lookup is    *)
(* injected and runs with the cache unlocked; the owner of a cluster only  *)
(* ever moves to a newer epoch.                                            *)
(***************************************************************************)
EXTENDS Naturals

CONSTANTS Clusters,     \* the cluster anchors delegations name
          Threads,      \* the tasks that share the resolver
          Nids,         \* the Anchors that may own a cluster
          NoCluster,    \* a frame with no (or an empty) target_cluster_anchor
          MaxEpoch      \* the newest epoch a cluster reaches

VARIABLES owner,        \* owner[c]: the current owner, what a lookup answers
          active,       \* active[c]: the cached ClusterAnchorInfo, or Absent
          pc,           \* pc[t]: what the thread does next
          found         \* found[t]: [cluster, info] of its lookup

vars == <<owner, active, pc, found>>

ClusterAnchorInfo == [active_nid : Nids, cluster_epoch : 1..MaxEpoch]

Absent == [cluster_epoch |-> 0]

Idle == [cluster |-> NoCluster, info |-> Absent]

TypeOK ==
    /\ owner \in [Clusters -> ClusterAnchorInfo \cup {Absent}]
    /\ active \in [Clusters -> ClusterAnchorInfo \cup {Absent}]
    /\ pc \in [Threads -> {"idle", "lookup", "insert"}]
    /\ found \in [Threads -> [cluster : Clusters \cup {NoCluster},
                              info : ClusterAnchorInfo \cup {Absent}]]

Init ==
    /\ owner = [c \in Clusters |-> Absent]
    /\ active = [c \in Clusters |-> Absent]
    /\ pc = [t \in Threads |-> "idle"]
    /\ found = [t \in Threads |-> Idle]

\* The cluster elects an owner under the next epoch (outside the resolver).
Elect(c, n) ==
    /\ owner[c].cluster_epoch < MaxEpoch
    /\ owner' = [owner EXCEPT ![c] =
                   [active_nid |-> n, cluster_epoch |-> @.cluster_epoch + 1]]
    /\ UNCHANGED <<active, pc, found>>

\* resolve_delegate_target: with no cluster the frame's target is used as it
\* is; otherwise resolve_active answers from the cache, or goes to look up.
ResolveDelegateTarget(t, c) ==
    /\ pc[t] = "idle"
    /\ IF c = NoCluster \/ (c # NoCluster /\ active[c] # Absent)
       THEN UNCHANGED <<pc, found>>
       ELSE /\ pc' = [pc EXCEPT ![t] = "lookup"]
            /\ found' = [found EXCEPT ![t].cluster = c]
    /\ UNCHANGED <<owner, active>>

\* The lookup, with the cache unlocked; a negative answer is not cached.
ResolveCluster(t) ==
    /\ pc[t] = "lookup"
    /\ LET info == owner[found[t].cluster]
       IN  IF info = Absent
           THEN /\ pc' = [pc EXCEPT ![t] = "idle"]
                /\ found' = [found EXCEPT ![t] = Idle]
           ELSE /\ pc' = [pc EXCEPT ![t] = "insert"]
                /\ found' = [found EXCEPT ![t].info = info]
    /\ UNCHANGED <<owner, active>>

\* The answer goes into the cache, whatever the cache holds by now.
InsertFresh(t) ==
    /\ pc[t] = "insert"
    /\ active' = [active EXCEPT ![found[t].cluster] = found[t].info]
    /\ pc' = [pc EXCEPT ![t] = "idle"]
    /\ found' = [found EXCEPT ![t] = Idle]
    /\ UNCHANGED owner

\* on_anchor_failover: an epoch not above the cached one is stale.
OnAnchorFailover(t, c, info) ==
    /\ pc[t] = "idle"
    /\ info = owner[c] /\ info # Absent
    /\ active' = IF info.cluster_epoch <= active[c].cluster_epoch
                 THEN active
                 ELSE [active EXCEPT ![c] = info]
    /\ UNCHANGED <<owner, pc, found>>

\* invalidate: the recovery after a dispatch was refused by a former leader.
Invalidate(t, c) ==
    /\ pc[t] = "idle"
    /\ active' = [active EXCEPT ![c] = Absent]
    /\ UNCHANGED <<owner, pc, found>>

Next ==
    \/ \E c \in Clusters, n \in Nids : Elect(c, n)
    \/ \E t \in Threads :
         \/ \E c \in Clusters \cup {NoCluster} : ResolveDelegateTarget(t, c)
         \/ ResolveCluster(t)
         \/ InsertFresh(t)
         \/ \E c \in Clusters : OnAnchorFailover(t, c, owner[c])
         \/ \E c \in Clusters : Invalidate(t, c)

Spec == Init /\ [][Next]_vars

(***************************************************************************)
(* The cache of a cluster "only ever moves forward": a step that replaces  *)
(* a cached owner by another never goes back to an older epoch.  It is     *)
(* what the doc of ClusterDelegationResolver promises.  resolve_active     *)
(* breaks it: it inserts the answer of a lookup that ended before a newer  *)
(* failover was recorded.                                                  *)
(***************************************************************************)
CacheOnlyForward ==
    [][\A c \in Clusters :
         active[c] # Absent /\ active'[c] # Absent
           => active'[c].cluster_epoch >= active[c].cluster_epoch]_vars
=============================================================================
