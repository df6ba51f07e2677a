--------------------------- MODULE MCContextStore ---------------------------
(* Small instances of ContextStore for TLC.                                *)
EXTENDS ContextStore, TLC

CONSTANTS o1, o2, c1, c2, r1, r2, r3, k1, k2, b1, b2    \* model values

\* Creates with no ttl, with a zero ttl (which validate_request rejects), and
\* with one below and one above the maximum; every append, fork and reset of
\* every context at every base version.
MCRequests ==
    {[op |-> "create", owner |-> o, context_id |-> None, base_version |-> None,
      binding |-> b, messages |-> "plain", ttl_seconds |-> t, key |-> k] :
        o \in Owners, b \in Bindings, t \in {None, 0, 1, MaxTtl + 1}, k \in Keys}
    \cup
    {[op |-> op, owner |-> o, context_id |-> c, base_version |-> v,
      binding |-> b, messages |-> "plain", ttl_seconds |-> None, key |-> k] :
        op \in {"append", "fork", "reset"}, o \in Owners, c \in CtxIds,
        v \in BaseVersions, b \in Bindings, k \in Keys}

Symmetry ==
    Permutations(CtxIds) \cup Permutations(ResvIds) \cup Permutations(Owners)
        \cup Permutations(Keys) \cup Permutations(Bindings)
=============================================================================
