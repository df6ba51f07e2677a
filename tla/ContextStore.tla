---------------------------- MODULE ContextStore ----------------------------
(***************************************************************************)
(* The process-local store of stateful LLM contexts                        *)
(* (nps-nwp/src/context_store.rs, InMemoryLlmContextStore).                *)
(*                                                                         *)
(* A completion on a context is a two-phase mutation: `reserve' checks the *)
(* request against the store and hands out a reservation, the provider     *)
(* then runs with no lock held, and `commit' or `abort' closes the         *)
(* reservation.  One mutex protects the whole store, so every call is one  *)
(* atomic action; the interleaving is that of calls by different owners    *)
(* between the two phases, with time passing and contexts expiring.        *)
(*                                                                         *)
(* Data abstraction: a turn (request delta plus assistant message) is named *)
(* by the reservation that produced it, a binding stands for its           *)
(* fingerprint (SHA-256 taken as injective), time is in whole seconds and  *)
(* never runs backwards.  An absent HashMap key is a NoEntry / NoOutcome   *)
(* record, so the three maps are total functions.                          *)
(***************************************************************************)
EXTENDS Integers, Sequences, FiniteSets

CONSTANTS
    CtxIds,            \* ids the context id factory may produce
    ResvIds,           \* reservation ids: 128 random bits, never drawn twice
    Owners,            \* (nid, security_scope) pairs
    Keys,              \* idempotency keys
    Bindings,          \* model + system messages + tools + runtime revision
    Requests,          \* the mutation requests callers may send
    BaseVersions,      \* the base versions callers may send to release
    SupportedOps,      \* options.supported_operations
    MaxContexts,       \* options.max_contexts_per_principal
    DefaultTtl, MaxTtl, TombstoneSeconds, IdempotencyTtl,
    MaxTime,           \* bound: the clock stops here
    None               \* Option::None

Operations == {"create", "append", "fork", "reset", "release"}

\* LLM_COMPLETE and LLM_CONTEXT_RELEASE, the action half of an IdempotencyKey.
Actions == {"complete", "release"}

\* The message delta of a request, as far as validate_request looks at it.
Deltas == {"empty", "plain", "system"}

\* LlmContextMutationRequest.
Request ==
    [op : Operations, owner : Owners, context_id : CtxIds \cup {None},
     base_version : Nat \cup {None}, binding : Bindings, messages : Deltas,
     ttl_seconds : Nat \cup {None}, key : Keys]

ASSUME NoneAssumption ==
    None \notin CtxIds \cup ResvIds \cup Owners \cup Bindings \cup Keys \cup Nat

ASSUME IdsAssumption == IsFiniteSet(CtxIds) /\ IsFiniteSet(ResvIds)

ASSUME RequestsAssumption ==
    \A q \in Requests : q \in Request

ASSUME VersionsAssumption == BaseVersions \subseteq Nat

\* What LlmContextStoreOptions::normalized guarantees: no option is zero.
ASSUME OptionsAssumption ==
    /\ SupportedOps \subseteq Operations
    /\ MaxContexts \in Nat \ {0}
    /\ DefaultTtl \in Nat \ {0}
    /\ MaxTtl \in Nat \ {0}
    /\ TombstoneSeconds \in Nat \ {0}
    /\ IdempotencyTtl \in Nat \ {0}
    /\ MaxTime \in Nat

VARIABLES
    contexts,          \* StoreState.contexts
    reservations,      \* StoreState.reservations; the record of a closed one
                       \* stays as history that no action reads
    idempotency,       \* StoreState.idempotency
    now                \* the injected clock

vars == <<contexts, reservations, idempotency, now>>

-----------------------------------------------------------------------------
(* State                                                                   *)

ContextStates == {"absent", "active", "expired", "released"}

ContextEntry ==
    [state : ContextStates, owner : Owners \cup {None}, version : Nat,
     binding : Bindings \cup {None}, transcript : Seq(ResvIds),
     ttl_seconds : Nat, expires_at : Nat \cup {None},
     tombstone_until : Nat \cup {None}, reservation_id : ResvIds \cup {None}]

NoEntry ==
    [state |-> "absent", owner |-> None, version |-> 0, binding |-> None,
     transcript |-> <<>>, ttl_seconds |-> 0, expires_at |-> None,
     tombstone_until |-> None, reservation_id |-> None]

ReservationData ==
    [status : {"unissued", "held", "closed"}, op : Operations \cup {None},
     owner : Owners \cup {None}, context_id : CtxIds \cup {None},
     base_version : Nat \cup {None}, binding : Bindings \cup {None},
     key : Keys \cup {None}, base_transcript : Seq(ResvIds),
     effective_ttl : Nat \cup {None}, parent : CtxIds \cup {None},
     parent_version : Nat \cup {None}]

NoReservation ==
    [status |-> "unissued", op |-> None, owner |-> None, context_id |-> None,
     base_version |-> None, binding |-> None, key |-> None,
     base_transcript |-> <<>>, effective_ttl |-> None, parent |-> None,
     parent_version |-> None]

Receipt ==
    [context_id : CtxIds \cup {None}, version : Nat,
     op : Operations \cup {None}, state : ContextStates,
     parent : CtxIds \cup {None}, parent_version : Nat \cup {None}]

NoReceipt ==
    [context_id |-> None, version |-> 0, op |-> None, state |-> "absent",
     parent |-> None, parent_version |-> None]

IdempotencyEntry ==
    [state : {"absent", "busy", "completed", "failed"}, retain_until : Nat,
     receipt : Receipt, context_id : CtxIds \cup {None},
     base_version : Nat \cup {None}]

NoOutcome ==
    [state |-> "absent", retain_until |-> 0, receipt |-> NoReceipt,
     context_id |-> None, base_version |-> None]

IdempotencyKey == Owners \X Actions \X Keys

\* Every entry, reservation and outcome of the StoreState has the shape its
\* struct declares, through every ttl computation (context_store.rs:151-206).
TypeOK ==
    /\ contexts \in [CtxIds -> ContextEntry]
    /\ reservations \in [ResvIds -> ReservationData]
    /\ idempotency \in [IdempotencyKey -> IdempotencyEntry]
    /\ now \in Nat

Init ==
    /\ contexts = [c \in CtxIds |-> NoEntry]
    /\ reservations = [r \in ResvIds |-> NoReservation]
    /\ idempotency = [k \in IdempotencyKey |-> NoOutcome]
    /\ now = 0

-----------------------------------------------------------------------------
(* sweep_locked, which reserve, release, status and snapshot run first and *)
(* abort runs last.                                                        *)

\* Definitions whose name ends in _Faulty are mutations used to confirm that
\* the properties can fail; no action uses them.

Min2(a, b) == IF a <= b THEN a ELSE b

Max2(a, b) == IF a >= b THEN a ELSE b

ExpiryDue_Faulty(e) ==      \* expires contexts that are being mutated
    e.state = "active" /\ e.expires_at # None /\ e.expires_at <= now

ExpiryDue(e) ==
    /\ e.state = "active"
    /\ e.reservation_id = None
    /\ e.expires_at # None
    /\ e.expires_at <= now

Expire(e) ==
    IF ExpiryDue(e)
    THEN [e EXCEPT !.state = "expired", !.expires_at = None,
                   !.tombstone_until = now + TombstoneSeconds]
    ELSE e

TombstoneDue_Faulty(e) ==   \* does not wait for the deadline
    e.state \in {"expired", "released"} /\ e.tombstone_until # None

TombstoneDue(e) ==
    /\ e.state \in {"expired", "released"}
    /\ e.tombstone_until # None
    /\ e.tombstone_until <= now

DropTombstone(e) == IF TombstoneDue(e) THEN NoEntry ELSE e

SweepContexts(cs) == [c \in CtxIds |-> DropTombstone(Expire(cs[c]))]

RetentionDue_Faulty(o) ==   \* drops busy outcomes too
    o.state # "absent" /\ o.retain_until <= now

RetentionDue(o) == o.state \in {"completed", "failed"} /\ o.retain_until <= now

DropOutcome(o) == IF RetentionDue(o) THEN NoOutcome ELSE o

SweepOutcomes(os) == [k \in IdempotencyKey |-> DropOutcome(os[k])]

-----------------------------------------------------------------------------
(* reserve                                                                 *)

ValidRequest(q) ==
    /\ q.op # "release"
    /\ q.ttl_seconds # 0
    /\ IF q.op = "create"
       THEN q.context_id = None /\ q.base_version = None
       ELSE q.context_id # None /\ q.base_version # None
    /\ q.op # "fork" => q.messages # "empty"
    /\ q.op \in {"append", "fork"} => q.messages # "system"

Live(cs, o) == {c \in CtxIds : cs[c].owner = o /\ cs[c].state = "active"}

Allocates(r) ==
    reservations[r].status = "held" /\ reservations[r].op \in {"create", "fork"}

Pending(o) == {r \in ResvIds : reservations[r].owner = o /\ Allocates(r)}

AllocationAvailable_Faulty(cs, o) ==   \* forgets creates and forks in flight
    Cardinality(Live(cs, o)) < MaxContexts

AllocationAvailable(cs, o) ==
    Cardinality(Live(cs, o)) + Cardinality(Pending(o)) < MaxContexts

Mutable(cs, o, c) ==
    c \in CtxIds /\ cs[c].owner = o /\ cs[c].state = "active"

ClampTtl(t) == Min2(t, MaxTtl)

\* A fork without a ttl of its own lives as long as its parent still has.
EffectiveTtl(q, e) ==
    IF q.ttl_seconds # None THEN ClampTtl(q.ttl_seconds)
    ELSE IF q.op = "fork"
         THEN IF e.expires_at = None THEN None ELSE Max2(e.expires_at - now, 1)
         ELSE IF e.ttl_seconds # 0 THEN e.ttl_seconds ELSE None

CreateTtl_Faulty(q) ==                 \* the default is not clamped
    IF q.ttl_seconds # None THEN ClampTtl(q.ttl_seconds) ELSE DefaultTtl

CreateTtl(q) ==
    ClampTtl(IF q.ttl_seconds # None THEN q.ttl_seconds ELSE DefaultTtl)

ReserveCheck_Faulty(q, cs) ==          \* a fork need not match the binding
    IF q.op = "create"
    THEN AllocationAvailable(cs, q.owner)
    ELSE /\ Mutable(cs, q.owner, q.context_id)
         /\ cs[q.context_id].reservation_id = None
         /\ cs[q.context_id].version = q.base_version
         /\ q.op = "append" => cs[q.context_id].binding = q.binding
         /\ q.op = "fork" => AllocationAvailable(cs, q.owner)

\* The compare half of the compare-and-swap, with the binding check.
ReserveCheck(q, cs) ==
    IF q.op = "create"
    THEN AllocationAvailable(cs, q.owner)
    ELSE /\ Mutable(cs, q.owner, q.context_id)
         /\ cs[q.context_id].reservation_id = None
         /\ cs[q.context_id].version = q.base_version
         /\ q.op \in {"append", "fork"} => cs[q.context_id].binding = q.binding
         /\ q.op = "fork" => AllocationAvailable(cs, q.owner)

NewReservation(q, cs) ==
    [status |-> "held", op |-> q.op, owner |-> q.owner,
     context_id |-> q.context_id, base_version |-> q.base_version,
     binding |-> q.binding, key |-> q.key,
     base_transcript |->
        IF q.op = "create" THEN <<>> ELSE cs[q.context_id].transcript,
     effective_ttl |->
        IF q.op = "create" THEN CreateTtl(q)
        ELSE EffectiveTtl(q, cs[q.context_id]),
     parent |-> IF q.op = "fork" THEN q.context_id ELSE None,
     parent_version |-> IF q.op = "fork" THEN q.base_version ELSE None]

BusyOutcome ==
    [NoOutcome EXCEPT !.state = "busy", !.retain_until = now + IdempotencyTtl]

\* Marks the entry of an append or a reset; create and fork lock nothing.
LockEntry(cs, q, r) ==
    IF q.op \in {"create", "fork"} THEN cs
    ELSE [cs EXCEPT ![q.context_id].reservation_id = r]

Reserve(q, r) ==
    LET cs == SweepContexts(contexts)
        os == SweepOutcomes(idempotency)
        k  == <<q.owner, "complete", q.key>>
    IN  /\ ValidRequest(q)
        /\ q.op \in SupportedOps
        /\ os[k].state = "absent"
        /\ ReserveCheck(q, cs)
        /\ reservations[r].status = "unissued"
        /\ contexts' = LockEntry(cs, q, r)
        /\ reservations' = [reservations EXCEPT ![r] = NewReservation(q, cs)]
        /\ idempotency' = [os EXCEPT ![k] = BusyOutcome]
        /\ now' = now

-----------------------------------------------------------------------------
(* commit: no sweep, and no second look at version, expiry or quota.       *)

Expiry(d) == IF d.effective_ttl = None THEN None ELSE now + d.effective_ttl

TtlSeconds(d) == IF d.effective_ttl = None THEN 0 ELSE d.effective_ttl

CompletedOutcome(c, v, d) ==
    [NoOutcome EXCEPT
        !.state = "completed", !.retain_until = now + IdempotencyTtl,
        !.receipt = [context_id |-> c, version |-> v, op |-> d.op,
                     state |-> "active", parent |-> d.parent,
                     parent_version |-> d.parent_version]]

Close(r) == reservations' = [reservations EXCEPT ![r].status = "closed"]

NewEntry(r, d) ==
    [state |-> "active", owner |-> d.owner, version |-> 1,
     binding |-> d.binding,
     transcript |->
        IF d.op = "fork" THEN Append(d.base_transcript, r) ELSE <<r>>,
     ttl_seconds |-> TtlSeconds(d), expires_at |-> Expiry(d),
     tombstone_until |-> None, reservation_id |-> None]

\* next_context_id draws until the id is not in the map.
CommitNew(r, c) ==
    LET d == reservations[r] IN
    /\ d.status = "held"
    /\ d.op \in {"create", "fork"}
    /\ contexts[c].state = "absent"
    /\ contexts' = [contexts EXCEPT ![c] = NewEntry(r, d)]
    /\ idempotency' = [idempotency EXCEPT
            ![<<d.owner, "complete", d.key>>] = CompletedOutcome(c, 1, d)]
    /\ Close(r)
    /\ now' = now

MutatedEntry_Faulty(e, r, d) ==        \* reset starts the version over
    [e EXCEPT !.version = IF d.op = "reset" THEN 1 ELSE e.version + 1,
              !.reservation_id = None, !.expires_at = Expiry(d),
              !.ttl_seconds = TtlSeconds(d),
              !.binding = IF d.op = "reset" THEN d.binding ELSE e.binding,
              !.transcript =
                 IF d.op = "reset" THEN <<r>> ELSE Append(e.transcript, r)]

MutatedEntry(e, r, d) ==
    [e EXCEPT !.version = e.version + 1, !.state = "active",
              !.reservation_id = None, !.expires_at = Expiry(d),
              !.ttl_seconds = TtlSeconds(d),
              !.binding = IF d.op = "reset" THEN d.binding ELSE e.binding,
              !.transcript =
                 IF d.op = "reset" THEN <<r>> ELSE Append(e.transcript, r)]

CommitInPlace(r) ==
    LET d == reservations[r]
        c == d.context_id
    IN  /\ d.status = "held"
        /\ d.op \in {"append", "reset"}
        /\ contexts[c].state # "absent"
        /\ contexts' = [contexts EXCEPT ![c] = MutatedEntry(contexts[c], r, d)]
        /\ idempotency' = [idempotency EXCEPT
                ![<<d.owner, "complete", d.key>>] =
                    CompletedOutcome(c, contexts[c].version + 1, d)]
        /\ Close(r)
        /\ now' = now

-----------------------------------------------------------------------------
(* abort                                                                   *)

ClearReservation(cs, r) ==
    [c \in CtxIds |->
        IF c = reservations[r].context_id /\ cs[c].reservation_id = r
        THEN [cs[c] EXCEPT !.reservation_id = None] ELSE cs[c]]

FailedOutcome ==
    [NoOutcome EXCEPT !.state = "failed", !.retain_until = now + IdempotencyTtl]

Abort(r) ==
    LET d == reservations[r] IN
    /\ d.status = "held"
    /\ Close(r)
    /\ contexts' = SweepContexts(ClearReservation(contexts, r))
    /\ idempotency' = SweepOutcomes([idempotency EXCEPT
            ![<<d.owner, "complete", d.key>>] = FailedOutcome])
    /\ now' = now

-----------------------------------------------------------------------------
(* release; a replay of a completed release, and every rejected call,      *)
(* changes nothing but what the sweep does.                                *)

ReleasedEntry_Faulty(e) ==             \* a tombstone that is due at once
    [e EXCEPT !.version = e.version + 1, !.state = "released",
              !.expires_at = None, !.tombstone_until = now]

ReleasedEntry(e) ==
    [e EXCEPT !.version = e.version + 1, !.state = "released",
              !.expires_at = None, !.tombstone_until = now + TombstoneSeconds]

ReleaseOutcome(c, b, v) ==
    [state |-> "completed", retain_until |-> now + IdempotencyTtl,
     receipt |-> [NoReceipt EXCEPT !.context_id = c, !.version = v,
                                   !.op = "release", !.state = "released"],
     context_id |-> c, base_version |-> b]

Release(o, c, b, key) ==
    LET cs == SweepContexts(contexts)
        os == SweepOutcomes(idempotency)
        k  == <<o, "release", key>>
    IN  /\ "release" \in SupportedOps
        /\ os[k].state = "absent"
        /\ Mutable(cs, o, c)
        /\ cs[c].reservation_id = None
        /\ cs[c].version = b
        /\ contexts' = [cs EXCEPT ![c] = ReleasedEntry(cs[c])]
        /\ idempotency' =
              [os EXCEPT ![k] = ReleaseOutcome(c, b, cs[c].version + 1)]
        /\ UNCHANGED <<reservations, now>>

\* sweep_expired, status, snapshot, and any reserve or release that returns
\* an error or a replayed receipt after its sweep.
SweepExpired ==
    /\ contexts' = SweepContexts(contexts)
    /\ idempotency' = SweepOutcomes(idempotency)
    /\ UNCHANGED <<reservations, now>>

Tick ==
    /\ now < MaxTime
    /\ now' = now + 1
    /\ UNCHANGED <<contexts, reservations, idempotency>>

Next ==
    \/ \E q \in Requests, r \in ResvIds : Reserve(q, r)
    \/ \E r \in ResvIds, c \in CtxIds : CommitNew(r, c)
    \/ \E r \in ResvIds : CommitInPlace(r)
    \/ \E r \in ResvIds : Abort(r)
    \/ \E o \in Owners, c \in CtxIds, b \in BaseVersions, key \in Keys :
          Release(o, c, b, key)
    \/ SweepExpired
    \/ Tick

Spec == Init /\ [][Next]_vars

-----------------------------------------------------------------------------
(* What a status call would answer now: it sweeps, then reads.             *)

StatusByContext(o, c) ==
    LET e == SweepContexts(contexts)[c] IN
    IF e.state = "absent" THEN "not_found"
    ELSE IF e.owner # o THEN "forbidden"
    ELSE IF e.reservation_id # None THEN "busy" ELSE e.state

StatusByKey(o, key) ==
    LET out == SweepOutcomes(idempotency)[<<o, "complete", key>>]
        c   == out.receipt.context_id
    IN  IF out.state = "absent" THEN "not_found"
        ELSE IF out.state \in {"busy", "failed"} THEN out.state
        ELSE IF SweepContexts(contexts)[c].state # "absent"
             THEN StatusByContext(o, c)
             ELSE out.receipt.state

-----------------------------------------------------------------------------
(* Safety                                                                  *)

Held(r) == reservations[r].status = "held"

Locks(r) == Held(r) /\ reservations[r].op \in {"append", "reset"}

\* A held reservation names what its operation needs; its ttl is at least one
\* second and at most max_ttl_seconds.
HeldOK ==
    \A r \in ResvIds : Held(r) =>
        LET d == reservations[r] IN
        /\ d.op \in {"create", "append", "fork", "reset"}
        /\ d.owner \in Owners
        /\ d.key \in Keys
        /\ d.binding \in Bindings
        /\ d.effective_ttl \in 1..MaxTtl
        /\ d.op # "create" => d.context_id \in CtxIds

\* The context an append or a reset works on cannot change, expire or be
\* released between reserve and commit: it still is at the base version, with
\* the transcript the provider was given, so commit (which checks nothing
\* again) loses no update and revives no tombstone.
ReservedContextFrozen ==
    \A r \in ResvIds : Locks(r) =>
        LET d == reservations[r]
            e == contexts[d.context_id]
        IN  /\ d.context_id \in CtxIds
            /\ e.state = "active"
            /\ e.owner = d.owner
            /\ e.reservation_id = r
            /\ e.version = d.base_version
            /\ e.transcript = d.base_transcript
            /\ d.op = "append" => e.binding = d.binding

\* No context stays locked by a reservation that is gone: a non-empty
\* reservation_id always names a held append or reset on that very context.
NoOrphanLock ==
    \A c \in CtxIds : contexts[c].reservation_id # None =>
        LET r == contexts[c].reservation_id IN
        Locks(r) /\ reservations[r].context_id = c

\* Reservations are exclusive: what one holds stays as it was, and nothing is
\* held for a reservation that has ended.
ReservationExclusive == ReservedContextFrozen /\ NoOrphanLock

\* Creates and forks in flight count against the quota, so commit, which does
\* not check it again, never takes a principal past max_contexts_per_principal.
WithinQuota ==
    \A o \in Owners :
        Cardinality(Live(contexts, o)) + Cardinality(Pending(o)) <= MaxContexts

\* A key is busy exactly while one reservation made with it is held, so a busy
\* answer always ends and two completions never run under one key.
BusyIffHeld ==
    \A o \in Owners, key \in Keys :
        LET holders == {r \in ResvIds : /\ Held(r)
                                        /\ reservations[r].owner = o
                                        /\ reservations[r].key = key}
        IN  /\ idempotency[<<o, "complete", key>>].state = "busy" <=> holders # {}
            /\ \A r, s \in holders : r = s

\* Every live context dies within max_ttl_seconds of now unless it is used: the
\* ttl a fork inherits from its parent's remaining time, and the None ttl that
\* effective_ttl could return, never produce an immortal or over-long context.
BoundedLifetime ==
    \A c \in CtxIds : contexts[c].state = "active" =>
        /\ contexts[c].ttl_seconds \in 1..MaxTtl
        /\ contexts[c].expires_at # None
        /\ contexts[c].expires_at <= now + MaxTtl

\* All turns of a transcript were made by the owner of the context under its
\* current binding: an append or a fork never mixes in another principal's or
\* another binding's turns, even when the parent changed after the fork began.
TranscriptCoherent ==
    \A c \in CtxIds : \A i \in DOMAIN contexts[c].transcript :
        LET d == reservations[contexts[c].transcript[i]] IN
        d.owner = contexts[c].owner /\ d.binding = contexts[c].binding

\* Status by idempotency key does not lie: when it says "active" the context
\* exists, is live and is the caller's.  status_from_receipt falls back on the
\* receipt when the context is gone, so this needs tombstones to be kept as
\* long as outcomes (the defaults are both 24 hours).
StatusTruthful ==
    IdempotencyTtl <= TombstoneSeconds =>
        \A o \in Owners, key \in Keys :
            StatusByKey(o, key) = "active" =>
                LET c == SweepOutcomes(idempotency)[<<o, "complete", key>>]
                            .receipt.context_id
                IN  /\ SweepContexts(contexts)[c].state = "active"
                    /\ contexts[c].owner = o

\* No two retained receipts, of completions or releases, of any owner, report
\* the same version of the same context: each version was won by one request.
ReceiptsUnique ==
    IdempotencyTtl <= TombstoneSeconds =>
        \A j, k \in IdempotencyKey :
            /\ idempotency[j].state = "completed"
            /\ idempotency[k].state = "completed"
            /\ idempotency[j].receipt.context_id = idempotency[k].receipt.context_id
            /\ idempotency[j].receipt.version = idempotency[k].receipt.version
            => j = k

-----------------------------------------------------------------------------
(* The inductive invariant: the safety properties, strengthened by what    *)
(* each action needs to know about the state it finds.                     *)

\* Only tombstones have a tombstone deadline.
LiveUntombed ==
    \A c \in CtxIds :
        contexts[c].state = "active" => contexts[c].tombstone_until = None

\* Every turn of transcript t was committed by owner o under binding b.
Coherent(t, o, b) ==
    \A i \in DOMAIN t : /\ reservations[t[i]].status = "closed"
                        /\ reservations[t[i]].owner = o
                        /\ reservations[t[i]].binding = b

TurnsCoherent ==
    /\ \A c \in CtxIds : Coherent(contexts[c].transcript, contexts[c].owner,
                                   contexts[c].binding)
    /\ \A r \in ResvIds : Held(r) /\ reservations[r].op = "fork" =>
            Coherent(reservations[r].base_transcript, reservations[r].owner,
                     reservations[r].binding)

\* A retained receipt's context is still in the store, at that version or a
\* later one, and its tombstone is kept at least as long as the receipt.
Covered(o, out) ==
    LET e == contexts[out.receipt.context_id] IN
    /\ out.receipt.context_id \in CtxIds
    /\ e.state # "absent"
    /\ e.owner = o
    /\ out.receipt.version <= e.version
    /\ out.retain_until <= now + IdempotencyTtl
    /\ e.tombstone_until # None => out.retain_until <= e.tombstone_until

ReceiptsCovered ==
    IdempotencyTtl <= TombstoneSeconds =>
        \A k \in IdempotencyKey :
            idempotency[k].state = "completed" => Covered(k[1], idempotency[k])

IndInv ==
    /\ TypeOK
    /\ HeldOK
    /\ ReservedContextFrozen
    /\ NoOrphanLock
    /\ WithinQuota
    /\ BusyIffHeld
    /\ BoundedLifetime
    /\ LiveUntombed
    /\ TurnsCoherent
    /\ ReceiptsCovered
    /\ ReceiptsUnique

-----------------------------------------------------------------------------
(* Action properties                                                       *)

TombstoneStep ==
    \A c \in CtxIds : contexts[c].state \in {"expired", "released"} =>
        \/ contexts'[c] = contexts[c]
        \/ contexts'[c] = NoEntry /\ contexts[c].tombstone_until <= now

\* A tombstone is final: an expired or released context is not revived and not
\* forgotten before tombstone_until, though commit writes state = Active.
TombstoneFinal == [][TombstoneStep]_vars

VersionStep ==
    \A c \in CtxIds :
        LET e == contexts[c]
            f == contexts'[c]
        IN  e.state = "active" /\ f.state # "absent" =>
               /\ f.version \in {e.version, e.version + 1}
               /\ f.version = e.version =>
                     /\ f.transcript = e.transcript
                     /\ f.binding = e.binding
                     /\ f.state # "released"

\* The version counts the changes of a context: it moves by one at a time, and
\* the transcript, the binding or a release never change without it.
VersionCountsChanges == [][VersionStep]_vars

OutcomeStep ==
    \A k \in IdempotencyKey :
        LET o == idempotency[k]
            p == idempotency'[k]
        IN  /\ o.state = "busy" => p.state \in {"busy", "completed", "failed"}
            /\ o.state \in {"completed", "failed"} =>
                   p = o \/ o.retain_until <= now

\* The outcome recorded for a key is final: completed and failed outcomes do
\* not change and are not dropped before retain_until, and a busy key leaves
\* that state only with an outcome.
OutcomeFinal == [][OutcomeStep]_vars

\* What the store has told a client stays true: tombstones and outcomes are
\* final until their time is up, and the version counts every change.
HistoryFinal == TombstoneFinal /\ VersionCountsChanges /\ OutcomeFinal
=============================================================================
