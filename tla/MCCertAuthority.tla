--------------------------- MODULE MCCertAuthority ---------------------------
(***************************************************************************)
(* A small certificate authority: a node, a group and its sessions.        *)
(***************************************************************************)
EXTENDS CertAuthority, TLC

Requests == {"register", "group", "session", "renew", "revoke"}

\* Every kind of request on an open CA. Behind a gate, only what the gate is
\* about: registrations and their approval.
EndpointsByTier ==
    [r \in Tiers |-> IF r = "allowlist" THEN Requests
                                       ELSE {"register"}]

Symmetry == Permutations(Callers) \cup Permutations(SessionNids)
            \cup Permutations(PendingIds)
=============================================================================
