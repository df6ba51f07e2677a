------------------------- MODULE ContextStoreProofs -------------------------
(***************************************************************************)
(* Machine-checked proofs about ContextStore, for every value of its       *)
(* constants.                                                              *)
(***************************************************************************)
EXTENDS ContextStore, FiniteSetTheorems, TLAPS

-----------------------------------------------------------------------------
(* Type correctness                                                        *)

\* The sweep keeps the type of a context entry.
LEMMA SweepEntryType ==
    ASSUME NEW e \in ContextEntry, now \in Nat
    PROVE  DropTombstone(Expire(e)) \in ContextEntry
<1>1. now + TombstoneSeconds \in Nat
  BY OptionsAssumption
<1>3. Expire(e) \in ContextEntry
  BY <1>1 DEF Expire, ContextEntry, ContextStates
<1>2. NoEntry \in ContextEntry
  BY DEF NoEntry, ContextEntry, ContextStates
<1> QED
  BY <1>2, <1>3 DEF DropTombstone

\* The sweep keeps the types of the two maps it works on.
LEMMA SweepType ==
    ASSUME NEW cs \in [CtxIds -> ContextEntry],
           NEW os \in [IdempotencyKey -> IdempotencyEntry], now \in Nat
    PROVE  /\ SweepContexts(cs) \in [CtxIds -> ContextEntry]
           /\ SweepOutcomes(os) \in [IdempotencyKey -> IdempotencyEntry]
<1>1. NoOutcome \in IdempotencyEntry
  BY DEF NoOutcome, NoReceipt, Receipt, IdempotencyEntry, ContextStates
<1>2. \A o \in IdempotencyEntry : DropOutcome(o) \in IdempotencyEntry
  BY <1>1 DEF DropOutcome
<1>3. \A c \in CtxIds : DropTombstone(Expire(cs[c])) \in ContextEntry
  BY SweepEntryType
<1> QED
  BY <1>2, <1>3 DEF SweepContexts, SweepOutcomes

\* The outcomes reserve and abort record are well typed.
LEMMA OutcomeType ==
    ASSUME now \in Nat
    PROVE  BusyOutcome \in IdempotencyEntry /\ FailedOutcome \in IdempotencyEntry
<1>1. NoOutcome \in IdempotencyEntry
  BY DEF NoOutcome, NoReceipt, Receipt, IdempotencyEntry, ContextStates
<1>2. now + IdempotencyTtl \in Nat
  BY OptionsAssumption
<1> QED
  BY <1>1, <1>2 DEF BusyOutcome, FailedOutcome, IdempotencyEntry

\* Closing a reservation keeps the type of the map.
LEMMA CloseType ==
    ASSUME TypeOK, NEW r \in ResvIds, Close(r)
    PROVE  reservations' \in [ResvIds -> ReservationData]
<1>1. reservations[r] \in ReservationData
  BY DEF TypeOK
<1>2. [reservations[r] EXCEPT !.status = "closed"] \in ReservationData
  BY <1>1 DEF ReservationData
<1> QED
  BY <1>2 DEF Close, TypeOK

\* The initial state is well typed.
LEMMA TypeInit == Init => TypeOK
<1> SUFFICES ASSUME Init PROVE TypeOK
  OBVIOUS
<1>1. NoEntry \in ContextEntry
  BY DEF NoEntry, ContextEntry, ContextStates
<1>2. NoReservation \in ReservationData
  BY DEF NoReservation, ReservationData
<1>3. NoOutcome \in IdempotencyEntry
  BY DEF NoOutcome, NoReceipt, Receipt, IdempotencyEntry, ContextStates
<1> QED
  BY <1>1, <1>2, <1>3 DEF Init, TypeOK

\* reserve keeps every map well typed.
LEMMA TypeReserve ==
    ASSUME TypeOK, NEW q \in Requests, NEW r \in ResvIds, Reserve(q, r)
    PROVE  TypeOK'
<1> DEFINE cs == SweepContexts(contexts)
           os == SweepOutcomes(idempotency)
<1>1. /\ cs \in [CtxIds -> ContextEntry]
      /\ os \in [IdempotencyKey -> IdempotencyEntry]
  BY SweepType DEF TypeOK
<1>2. q \in Request
  BY RequestsAssumption
<1>3. contexts' \in [CtxIds -> ContextEntry]
  <2>1. contexts' = LockEntry(cs, q, r)
    BY DEF Reserve
  <2>2. \A c \in CtxIds : [cs[c] EXCEPT !.reservation_id = r] \in ContextEntry
    BY <1>1 DEF ContextEntry
  <2> QED
    BY <1>1, <2>1, <2>2 DEF LockEntry
<1>4. NewReservation(q, cs) \in ReservationData
  <2>1. q.op # "create" => q.context_id \in CtxIds
    BY <1>2 DEF Reserve, ValidRequest, Request
  <2>2. CreateTtl(q) \in Nat
    BY <1>2, OptionsAssumption DEF CreateTtl, ClampTtl, Min2, Request
  <2>3. \A e \in ContextEntry : EffectiveTtl(q, e) \in Nat \cup {None}
    BY <1>2, OptionsAssumption, NoneAssumption
    DEF EffectiveTtl, ClampTtl, Min2, Max2, Request, ContextEntry, TypeOK
  <2>4. q.op # "create" => cs[q.context_id] \in ContextEntry
    BY <1>1, <2>1
  <2>5. q.op # "create" =>
            /\ cs[q.context_id].transcript \in Seq(ResvIds)
            /\ EffectiveTtl(q, cs[q.context_id]) \in Nat \cup {None}
    BY <2>3, <2>4 DEF ContextEntry
  <2> HIDE DEF cs
  <2> QED
    BY <1>2, <2>2, <2>5
    DEF NewReservation, ReservationData, Request, Operations
<1>5. reservations' \in [ResvIds -> ReservationData]
  BY <1>4 DEF Reserve, TypeOK
<1>6. BusyOutcome \in IdempotencyEntry
  BY OutcomeType DEF TypeOK
<1>7. idempotency' \in [IdempotencyKey -> IdempotencyEntry]
  BY <1>1, <1>6 DEF Reserve
<1> QED
  BY <1>3, <1>5, <1>7 DEF TypeOK, Reserve

\* Facts that both forms of commit need.
LEMMA TypeCommitParts ==
    ASSUME TypeOK, NEW r \in ResvIds, NEW c \in CtxIds, NEW v \in Nat
    PROVE  /\ Expiry(reservations[r]) \in Nat \cup {None}
           /\ TtlSeconds(reservations[r]) \in Nat
           /\ CompletedOutcome(c, v, reservations[r]) \in IdempotencyEntry
<1>1. reservations[r] \in ReservationData /\ now \in Nat
  BY DEF TypeOK
<1>2. now + IdempotencyTtl \in Nat
  BY <1>1, OptionsAssumption
<1>3. CompletedOutcome(c, v, reservations[r]) \in IdempotencyEntry
  BY <1>1, <1>2
  DEF CompletedOutcome, NoOutcome, NoReceipt, Receipt, IdempotencyEntry,
      ContextStates, ReservationData
<1>5. /\ Expiry(reservations[r]) \in Nat \cup {None}
      /\ TtlSeconds(reservations[r]) \in Nat
  BY <1>1, NoneAssumption DEF Expiry, TtlSeconds, ReservationData
<1> QED
  BY <1>3, <1>5

\* commit of a create or a fork keeps every map well typed.
LEMMA TypeCommitNew ==
    ASSUME TypeOK, NEW r \in ResvIds, NEW c \in CtxIds, CommitNew(r, c)
    PROVE  TypeOK'
<1> DEFINE d == reservations[r]
<1>1. d \in ReservationData
  BY DEF TypeOK
<1>2. NewEntry(r, d) \in ContextEntry
  <2>1. Append(d.base_transcript, r) \in Seq(ResvIds) /\ <<r>> \in Seq(ResvIds)
    BY <1>1 DEF ReservationData
  <2>2. Expiry(d) \in Nat \cup {None} /\ TtlSeconds(d) \in Nat
    BY TypeCommitParts
  <2> HIDE DEF d
  <2> QED
    BY <1>1, <2>1, <2>2
    DEF NewEntry, ContextEntry, ContextStates, ReservationData
<1>3. contexts' \in [CtxIds -> ContextEntry]
  BY <1>2 DEF CommitNew, TypeOK
<1>4. CompletedOutcome(c, 1, d) \in IdempotencyEntry
  BY TypeCommitParts
<1>5. idempotency' \in [IdempotencyKey -> IdempotencyEntry]
  BY <1>4 DEF CommitNew, TypeOK
<1>6. reservations' \in [ResvIds -> ReservationData]
  BY CloseType DEF CommitNew
<1> QED
  BY <1>3, <1>5, <1>6 DEF TypeOK, CommitNew

\* The entry a commit in place leaves behind is a well-typed entry.
LEMMA MutatedEntryType ==
    ASSUME NEW e \in ContextEntry, NEW r \in ResvIds, NEW d,
           Expiry(d) \in Nat \cup {None}, TtlSeconds(d) \in Nat,
           d.binding \in Bindings \cup {None}
    PROVE  MutatedEntry(e, r, d) \in ContextEntry
<1> DEFINE log == IF d.op = "reset" THEN <<r>> ELSE Append(e.transcript, r)
           bound == IF d.op = "reset" THEN d.binding ELSE e.binding
<1>1. log \in Seq(ResvIds)
  BY DEF ContextEntry
<1>2. bound \in Bindings \cup {None} /\ e.version + 1 \in Nat
  BY DEF ContextEntry
<1>3. MutatedEntry(e, r, d) =
        [e EXCEPT !.version = e.version + 1, !.state = "active",
                  !.reservation_id = None, !.expires_at = Expiry(d),
                  !.ttl_seconds = TtlSeconds(d), !.binding = bound,
                  !.transcript = log]
  BY DEF MutatedEntry
<1> HIDE DEF log, bound
<1> QED
  BY <1>1, <1>2, <1>3 DEF ContextEntry, ContextStates

\* commit of an append or a reset keeps every map well typed.
LEMMA TypeCommitInPlace ==
    ASSUME TypeOK, HeldOK, NEW r \in ResvIds, CommitInPlace(r)
    PROVE  TypeOK'
<1> DEFINE d == reservations[r]
           c == d.context_id
<1>1. d \in ReservationData /\ c \in CtxIds
  BY DEF TypeOK, HeldOK, Held, CommitInPlace
<1>2. contexts[c] \in ContextEntry
  BY <1>1 DEF TypeOK
<1>3. MutatedEntry(contexts[c], r, d) \in ContextEntry
  <2>1. Expiry(d) \in Nat \cup {None} /\ TtlSeconds(d) \in Nat
    BY <1>1, TypeCommitParts
  <2>2. d.binding \in Bindings \cup {None}
    BY <1>1 DEF ReservationData
  <2> HIDE DEF d, c
  <2> QED
    BY <1>2, <2>1, <2>2, MutatedEntryType
<1>4. contexts' \in [CtxIds -> ContextEntry]
  BY <1>3 DEF CommitInPlace, TypeOK
<1>5. CompletedOutcome(c, contexts[c].version + 1, d) \in IdempotencyEntry
  <2>1. contexts[c].version + 1 \in Nat
    BY <1>2 DEF ContextEntry
  <2> QED
    BY <1>1, <2>1, TypeCommitParts
<1>6. idempotency' \in [IdempotencyKey -> IdempotencyEntry]
  BY <1>5 DEF CommitInPlace, TypeOK
<1>7. reservations' \in [ResvIds -> ReservationData]
  BY CloseType DEF CommitInPlace
<1> QED
  BY <1>4, <1>6, <1>7 DEF TypeOK, CommitInPlace

\* abort keeps every map well typed.
LEMMA TypeAbort ==
    ASSUME TypeOK, NEW r \in ResvIds, Abort(r)
    PROVE  TypeOK'
<1>1. \A e \in ContextEntry : [e EXCEPT !.reservation_id = None] \in ContextEntry
  BY DEF ContextEntry
<1>2. ClearReservation(contexts, r) \in [CtxIds -> ContextEntry]
  BY <1>1 DEF ClearReservation, TypeOK
<1> DEFINE os == [idempotency EXCEPT
                   ![<<reservations[r].owner, "complete", reservations[r].key>>]
                        = FailedOutcome]
<1>3. os \in [IdempotencyKey -> IdempotencyEntry]
  BY OutcomeType DEF TypeOK
<1>4. /\ contexts' \in [CtxIds -> ContextEntry]
      /\ idempotency' \in [IdempotencyKey -> IdempotencyEntry]
  <2>1. contexts' = SweepContexts(ClearReservation(contexts, r))
    BY DEF Abort
  <2>2. idempotency' = SweepOutcomes(os)
    BY DEF Abort
  <2> HIDE DEF os
  <2> QED
    BY <1>2, <1>3, <2>1, <2>2, SweepType DEF TypeOK
<1>5. reservations' \in [ResvIds -> ReservationData]
  BY CloseType DEF Abort
<1> QED
  BY <1>4, <1>5 DEF TypeOK, Abort

\* release keeps every map well typed.
LEMMA TypeRelease ==
    ASSUME TypeOK, NEW o \in Owners, NEW c \in CtxIds, NEW b \in BaseVersions,
           NEW key \in Keys, Release(o, c, b, key)
    PROVE  TypeOK'
<1> DEFINE cs == SweepContexts(contexts)
           os == SweepOutcomes(idempotency)
<1>1. /\ cs \in [CtxIds -> ContextEntry]
      /\ os \in [IdempotencyKey -> IdempotencyEntry]
  BY SweepType DEF TypeOK
<1>2. /\ now + TombstoneSeconds \in Nat
      /\ now + IdempotencyTtl \in Nat
      /\ cs[c] \in ContextEntry
      /\ cs[c].version + 1 \in Nat
      /\ b \in Nat
  BY <1>1, OptionsAssumption, VersionsAssumption DEF TypeOK, ContextEntry
<1>3. ReleasedEntry(cs[c]) \in ContextEntry
  BY <1>2 DEF ReleasedEntry, ContextEntry, ContextStates
<1>4. \A v \in Nat : ReleaseOutcome(c, b, v) \in IdempotencyEntry
  BY <1>2
  DEF ReleaseOutcome, NoReceipt, Receipt, IdempotencyEntry, ContextStates,
      Operations
<1>5. /\ contexts' = [cs EXCEPT ![c] = ReleasedEntry(cs[c])]
      /\ idempotency' = [os EXCEPT ![<<o, "release", key>>] =
                            ReleaseOutcome(c, b, cs[c].version + 1)]
      /\ reservations' = reservations /\ now' = now
  BY DEF Release
<1> HIDE DEF cs, os
<1> QED
  BY <1>1, <1>2, <1>3, <1>4, <1>5 DEF TypeOK

-----------------------------------------------------------------------------
(* What the sweep does to one entry and to the quota                       *)

\* A swept entry is the old one, or it was due and is now a tombstone, or it
\* is gone.  A live swept entry did not change, and a reserved one is left
\* alone.
LEMMA SweepEntry ==
    ASSUME NEW e \in ContextEntry, now \in Nat,
           NEW f, f = DropTombstone(Expire(e))
    PROVE  /\ f.state = "active" => f = e /\ ~ExpiryDue(e)
           /\ e.state = "active" /\ e.reservation_id # None => f = e
           /\ \/ f = NoEntry /\ TombstoneDue(Expire(e))
              \/ /\ f.state # "absent" \/ e.state = "absent"
                 /\ f.owner = e.owner
                 /\ f.version = e.version
                 /\ f.binding = e.binding
                 /\ f.transcript = e.transcript
                 /\ f.reservation_id = e.reservation_id
                 /\ f.tombstone_until = e.tombstone_until
                      \/ f.tombstone_until = now + TombstoneSeconds
<1>1. CASE ExpiryDue(e)
  <2>1. /\ Expire(e) = [e EXCEPT !.state = "expired", !.expires_at = None,
                             !.tombstone_until = now + TombstoneSeconds]
        /\ e.state = "active" /\ e.reservation_id = None
    BY <1>1 DEF Expire, ExpiryDue
  <2>2. /\ Expire(e).state = "expired"
        /\ Expire(e).owner = e.owner
        /\ Expire(e).version = e.version
        /\ Expire(e).binding = e.binding
        /\ Expire(e).transcript = e.transcript
        /\ Expire(e).reservation_id = e.reservation_id
        /\ Expire(e).tombstone_until = now + TombstoneSeconds
    BY <2>1 DEF ContextEntry
  <2> QED
    BY <1>1, <2>1, <2>2 DEF DropTombstone, NoEntry
<1>2. CASE ~ExpiryDue(e)
  <2>1. Expire(e) = e
    BY <1>2 DEF Expire
  <2> QED
    BY <1>2, <2>1 DEF DropTombstone, NoEntry, TombstoneDue
<1> QED
  BY <1>1, <1>2

\* SweepEntry for every context of the map.
LEMMA SweepMap ==
    ASSUME NEW cs \in [CtxIds -> ContextEntry], now \in Nat, NEW c \in CtxIds
    PROVE  LET e == cs[c]
               f == SweepContexts(cs)[c]
           IN  /\ f \in ContextEntry
               /\ f.state = "active" => f = e /\ ~ExpiryDue(e)
               /\ e.state = "active" /\ e.reservation_id # None => f = e
               /\ \/ f = NoEntry /\ TombstoneDue(Expire(e))
                  \/ /\ f.state # "absent" \/ e.state = "absent"
                     /\ f.owner = e.owner
                     /\ f.version = e.version
                     /\ f.binding = e.binding
                     /\ f.transcript = e.transcript
                     /\ f.reservation_id = e.reservation_id
                     /\ f.tombstone_until = e.tombstone_until
                          \/ f.tombstone_until = now + TombstoneSeconds
<1> DEFINE e == cs[c]
           f == SweepContexts(cs)[c]
<1>1. f = DropTombstone(Expire(e))
  BY DEF SweepContexts
<1>2. e \in ContextEntry
  OBVIOUS
<1>3. f \in ContextEntry
  BY <1>1, <1>2, SweepEntryType
<1> HIDE DEF e, f
<1>4. /\ f.state = "active" => f = e /\ ~ExpiryDue(e)
      /\ e.state = "active" /\ e.reservation_id # None => f = e
      /\ \/ f = NoEntry /\ TombstoneDue(Expire(e))
         \/ /\ f.state # "absent" \/ e.state = "absent"
            /\ f.owner = e.owner
            /\ f.version = e.version
            /\ f.binding = e.binding
            /\ f.transcript = e.transcript
            /\ f.reservation_id = e.reservation_id
            /\ f.tombstone_until = e.tombstone_until
                 \/ f.tombstone_until = now + TombstoneSeconds
  BY <1>1, <1>2, SweepEntry
<1> QED
  BY <1>3, <1>4 DEF e, f

\* The quota argument: what only shrinks both sets keeps their sum in bounds.
LEMMA QuotaShrinks ==
    ASSUME NEW L1 \in SUBSET CtxIds, NEW P1 \in SUBSET ResvIds,
           NEW L2 \in SUBSET L1, NEW P2 \in SUBSET P1
    PROVE  /\ Cardinality(L2) + Cardinality(P2) <=
                 Cardinality(L1) + Cardinality(P1)
           /\ Cardinality(L1) \in Nat /\ Cardinality(P1) \in Nat
           /\ Cardinality(L2) \in Nat /\ Cardinality(P2) \in Nat
<1>1. IsFiniteSet(L1) /\ IsFiniteSet(P1)
  BY IdsAssumption, FS_Subset
<1>2. /\ IsFiniteSet(L2) /\ Cardinality(L2) <= Cardinality(L1)
      /\ IsFiniteSet(P2) /\ Cardinality(P2) <= Cardinality(P1)
  BY <1>1, FS_Subset
<1>3. /\ Cardinality(L1) \in Nat /\ Cardinality(P1) \in Nat
      /\ Cardinality(L2) \in Nat /\ Cardinality(P2) \in Nat
  BY <1>1, <1>2, FS_CardinalityType
<1> QED
  BY <1>2, <1>3

\* One more reservation costs one, and a commit moves one from the pending set
\* to the live set.
LEMMA QuotaMoves ==
    ASSUME NEW L \in SUBSET CtxIds, NEW P \in SUBSET ResvIds
    PROVE  /\ \A r \in ResvIds \ P :
                 Cardinality(P \cup {r}) = Cardinality(P) + 1
           /\ \A c \in CtxIds \ L, r \in P :
                 Cardinality(L \cup {c}) + Cardinality(P \ {r}) =
                     Cardinality(L) + Cardinality(P)
<1>1. IsFiniteSet(L) /\ IsFiniteSet(P)
  BY IdsAssumption, FS_Subset
<1>2. Cardinality(L) \in Nat /\ Cardinality(P) \in Nat
  BY <1>1, FS_CardinalityType
<1>3. \A r \in ResvIds \ P : Cardinality(P \cup {r}) = Cardinality(P) + 1
  BY <1>1, FS_AddElement
<1>4. \A c \in CtxIds \ L : Cardinality(L \cup {c}) = Cardinality(L) + 1
  BY <1>1, FS_AddElement
<1>5. \A r \in P : Cardinality(P \ {r}) = Cardinality(P) - 1
  BY <1>1, FS_RemoveElement
<1> QED
  BY <1>2, <1>3, <1>4, <1>5

-----------------------------------------------------------------------------
(* The inductive invariant, one lemma per action                           *)

\* Sweeping outcomes keeps busy ones and invents none.
LEMMA SweepOutcome ==
    ASSUME NEW os \in [IdempotencyKey -> IdempotencyEntry],
           NEW k \in IdempotencyKey, now \in Nat
    PROVE  LET o == os[k]
               p == SweepOutcomes(os)[k]
           IN  /\ p = o \/ (p = NoOutcome /\ RetentionDue(o))
               /\ p.state = "busy" <=> o.state = "busy"
               /\ p.state = "completed" => p = o /\ o.retain_until > now
  BY DEF SweepOutcomes, DropOutcome, RetentionDue, NoOutcome, IdempotencyEntry

\* Coherent in the next state, for a transcript of this one.
CoherentNext(t, o, b) ==
    \A i \in DOMAIN t : /\ reservations'[t[i]].status = "closed"
                        /\ reservations'[t[i]].owner = o
                        /\ reservations'[t[i]].binding = b

\* Closed reservations never change, so a coherent transcript stays coherent.
LEMMA CoherentKept ==
    ASSUME \A s \in ResvIds :
               reservations[s].status = "closed" => reservations'[s] = reservations[s],
           NEW t \in Seq(ResvIds), NEW o, NEW b, Coherent(t, o, b)
    PROVE  CoherentNext(t, o, b)
<1> SUFFICES ASSUME NEW i \in DOMAIN t
             PROVE  /\ reservations'[t[i]].status = "closed"
                    /\ reservations'[t[i]].owner = o
                    /\ reservations'[t[i]].binding = b
  BY DEF CoherentNext
<1>1. t[i] \in ResvIds
  OBVIOUS
<1>2. /\ reservations[t[i]].status = "closed"
      /\ reservations[t[i]].owner = o
      /\ reservations[t[i]].binding = b
  BY DEF Coherent
<1> QED
  BY <1>1, <1>2

\* A context whose receipt is still retained survives the sweep, and its
\* tombstone still outlives the receipt.
LEMMA CoverSurvivesSweep ==
    ASSUME NEW cs \in [CtxIds -> ContextEntry], now \in Nat, NEW c \in CtxIds,
           NEW t \in Nat, t > now, t <= now + IdempotencyTtl,
           IdempotencyTtl <= TombstoneSeconds,
           cs[c].state # "absent",
           cs[c].tombstone_until # None => t <= cs[c].tombstone_until
    PROVE  LET f == SweepContexts(cs)[c] IN
           /\ f.state # "absent"
           /\ f.owner = cs[c].owner
           /\ f.version = cs[c].version
           /\ f.tombstone_until # None => t <= f.tombstone_until
<1> DEFINE e == cs[c]
           f == SweepContexts(cs)[c]
<1>1. e \in ContextEntry
  OBVIOUS
<1>2. ~TombstoneDue(Expire(e))
  <2>1. CASE ExpiryDue(e)
    <3>1. Expire(e).tombstone_until = now + TombstoneSeconds
      BY <1>1, <2>1 DEF Expire, ContextEntry
    <3> QED
      BY <3>1, OptionsAssumption DEF TombstoneDue
  <2>2. CASE ~ExpiryDue(e)
    <3>1. Expire(e) = e
      BY <2>2 DEF Expire
    <3>2. e.tombstone_until # None => ~(e.tombstone_until <= now)
      BY <1>1, NoneAssumption DEF ContextEntry
    <3> QED
      BY <3>1, <3>2 DEF TombstoneDue
  <2> QED
    BY <2>1, <2>2
<1>3. /\ f.state # "absent"
      /\ f.owner = e.owner
      /\ f.version = e.version
      /\ f.tombstone_until = e.tombstone_until
           \/ f.tombstone_until = now + TombstoneSeconds
  BY <1>2, SweepMap
<1>4. t <= now + TombstoneSeconds
  BY OptionsAssumption
<1> QED
  BY <1>3, <1>4

\* reserve preserves the invariant.
LEMMA InvReserve ==
    ASSUME IndInv, NEW q \in Requests, NEW r \in ResvIds, Reserve(q, r)
    PROVE  IndInv'
<1> DEFINE cs == SweepContexts(contexts)
           os == SweepOutcomes(idempotency)
           k0 == <<q.owner, "complete", q.key>>
           locks == q.op \in {"append", "reset"}
           n == NewReservation(q, cs)
<1>1. TypeOK /\ now \in Nat
  BY DEF IndInv, TypeOK
<1>2. TypeOK'
  BY <1>1, TypeReserve
<1>3. /\ q \in Request
      /\ q.op \in {"create", "append", "fork", "reset"}
      /\ q.owner \in Owners /\ q.key \in Keys /\ q.binding \in Bindings
      /\ q.op # "create" => q.context_id \in CtxIds /\ q.base_version \in Nat
      /\ q.op = "create" => q.context_id = None
      /\ k0 \in IdempotencyKey
  BY RequestsAssumption
  DEF Reserve, ValidRequest, Request, Operations, IdempotencyKey, Actions
<1>4. /\ contexts' = LockEntry(cs, q, r)
      /\ reservations' = [reservations EXCEPT ![r] = n]
      /\ idempotency' = [os EXCEPT ![k0] = BusyOutcome]
      /\ now' = now
      /\ os[k0].state = "absent"
      /\ reservations[r].status = "unissued"
      /\ ReserveCheck(q, cs)
  BY DEF Reserve
<1>5. /\ cs \in [CtxIds -> ContextEntry]
      /\ os \in [IdempotencyKey -> IdempotencyEntry]
  BY <1>1, SweepType DEF TypeOK
<1>6. /\ n.status = "held" /\ n.op = q.op /\ n.owner = q.owner
      /\ n.context_id = q.context_id /\ n.base_version = q.base_version
      /\ n.binding = q.binding /\ n.key = q.key
      /\ q.op # "create" => n.base_transcript = cs[q.context_id].transcript
      /\ n.effective_ttl = IF q.op = "create" THEN CreateTtl(q)
                           ELSE EffectiveTtl(q, cs[q.context_id])
  BY DEF NewReservation
<1>7. \A s \in ResvIds : s # r => reservations'[s] = reservations[s]
  BY <1>4 DEF TypeOK
<1>8. reservations'[r] = n
  BY <1>1, <1>4 DEF TypeOK
<1>9. \A c \in CtxIds :
        contexts'[c] = IF locks /\ c = q.context_id
                       THEN [cs[c] EXCEPT !.reservation_id = r] ELSE cs[c]
  BY <1>3, <1>4, <1>5 DEF LockEntry
<1>10. q.op # "create" => LET e == cs[q.context_id] IN
        /\ e = contexts[q.context_id]
        /\ e.state = "active" /\ e.owner = q.owner
        /\ e.reservation_id = None /\ e.version = q.base_version
        /\ q.op \in {"append", "fork"} => e.binding = q.binding
        /\ ~ExpiryDue(e)
  <2> SUFFICES ASSUME q.op # "create"
               PROVE  LET e == cs[q.context_id] IN
                        /\ e = contexts[q.context_id]
                        /\ e.state = "active" /\ e.owner = q.owner
                        /\ e.reservation_id = None /\ e.version = q.base_version
                        /\ q.op \in {"append", "fork"} => e.binding = q.binding
                        /\ ~ExpiryDue(e)
    OBVIOUS
  <2>1. /\ cs[q.context_id].state = "active"
        /\ cs[q.context_id].owner = q.owner
        /\ cs[q.context_id].reservation_id = None
        /\ cs[q.context_id].version = q.base_version
        /\ q.op \in {"append", "fork"} => cs[q.context_id].binding = q.binding
    BY <1>4 DEF ReserveCheck, Mutable
  <2>2. cs[q.context_id] = contexts[q.context_id] /\ ~ExpiryDue(contexts[q.context_id])
    BY <1>1, <1>3, <2>1, SweepMap DEF TypeOK
  <2> QED
    BY <2>1, <2>2
<1> HIDE DEF cs, os, n
<1>11. HeldOK'
  <2>1. n.effective_ttl \in 1..MaxTtl
    <3>1. CASE q.op = "create"
      BY <1>3, <1>4, <1>6, <3>1, OptionsAssumption, NoneAssumption
      DEF CreateTtl, ClampTtl, Min2, Request, Reserve, ValidRequest
    <3>2. CASE q.op # "create"
      <4>1. /\ contexts[q.context_id].ttl_seconds \in 1..MaxTtl
            /\ contexts[q.context_id].expires_at # None
            /\ contexts[q.context_id].expires_at \in Nat
            /\ contexts[q.context_id].expires_at <= now + MaxTtl
            /\ contexts[q.context_id].expires_at > now
        BY <1>1, <1>3, <1>10, <3>2
        DEF IndInv, BoundedLifetime, TypeOK, ContextEntry, ExpiryDue
      <4>2. q.ttl_seconds # None => q.ttl_seconds \in Nat \ {0}
        BY <1>3 DEF Request, Reserve, ValidRequest
      <4>3. n.effective_ttl = EffectiveTtl(q, contexts[q.context_id])
        BY <1>6, <1>10, <3>2
      <4> QED
        BY <1>1, <4>1, <4>2, <4>3, OptionsAssumption
        DEF EffectiveTtl, ClampTtl, Min2, Max2
    <3> QED
      BY <3>1, <3>2
  <2> QED
    BY <1>3, <1>6, <1>7, <1>8, <2>1 DEF IndInv, HeldOK, Held
<1>12. ReservedContextFrozen'
  <2> SUFFICES ASSUME NEW s \in ResvIds, Locks(s)'
               PROVE  LET d == reservations'[s]
                          e == contexts'[d.context_id]
                      IN  /\ d.context_id \in CtxIds
                          /\ e.state = "active"
                          /\ e.owner = d.owner
                          /\ e.reservation_id = s
                          /\ e.version = d.base_version
                          /\ e.transcript = d.base_transcript
                          /\ d.op = "append" => e.binding = d.binding
    BY DEF ReservedContextFrozen
  <2>1. CASE s = r
    <3>1. locks
      BY <1>6, <1>8, <2>1 DEF Locks
    <3>2. q.context_id \in CtxIds /\ q.op # "create"
      BY <1>3, <3>1
    <3>3. contexts'[q.context_id] = [cs[q.context_id] EXCEPT !.reservation_id = r]
      BY <1>9, <3>1, <3>2
    <3>4. cs[q.context_id] \in ContextEntry
      BY <1>5, <3>2
    <3>5. /\ contexts'[q.context_id].state = cs[q.context_id].state
          /\ contexts'[q.context_id].owner = cs[q.context_id].owner
          /\ contexts'[q.context_id].version = cs[q.context_id].version
          /\ contexts'[q.context_id].binding = cs[q.context_id].binding
          /\ contexts'[q.context_id].transcript = cs[q.context_id].transcript
          /\ contexts'[q.context_id].reservation_id = r
      BY <3>3, <3>4 DEF ContextEntry
    <3> QED
      BY <1>6, <1>8, <1>10, <2>1, <3>2, <3>5
  <2>2. CASE s # r
    <3>1. Locks(s) /\ reservations'[s] = reservations[s]
      BY <1>7, <2>2 DEF Locks, Held
    <3> DEFINE d == reservations[s]
               e == contexts[d.context_id]
    <3>2. /\ d.context_id \in CtxIds
          /\ e.state = "active"
          /\ e.owner = d.owner
          /\ e.reservation_id = s
          /\ e.version = d.base_version
          /\ e.transcript = d.base_transcript
          /\ d.op = "append" => e.binding = d.binding
      BY <3>1 DEF IndInv, ReservedContextFrozen
    <3>3. e.reservation_id # None
      BY <3>2, NoneAssumption
    <3>4. cs[d.context_id] = e
      BY <1>1, <3>2, <3>3, SweepMap DEF TypeOK, cs
    <3>5. contexts'[d.context_id] = e
      BY <1>3, <1>9, <1>10, <3>2, <3>3, <3>4
    <3> QED
      BY <3>1, <3>2, <3>5
  <2> QED
    BY <2>1, <2>2
<1>13. NoOrphanLock'
  <2> SUFFICES ASSUME NEW c \in CtxIds, contexts'[c].reservation_id # None
               PROVE  /\ Locks(contexts[c].reservation_id)'
                      /\ reservations'[contexts'[c].reservation_id].context_id = c
    BY DEF NoOrphanLock
  <2>1. CASE locks /\ c = q.context_id
    <3>1. contexts'[c].reservation_id = r
      BY <1>5, <1>9, <2>1 DEF ContextEntry
    <3> QED
      BY <1>6, <1>8, <2>1, <3>1 DEF Locks, Held
  <2>2. CASE ~(locks /\ c = q.context_id)
    <3>1. contexts'[c] = cs[c]
      BY <1>9, <2>2
    <3>2. cs[c].reservation_id = contexts[c].reservation_id
      BY <1>1, <3>1, SweepMap, NoneAssumption DEF TypeOK, cs, NoEntry
    <3> DEFINE s == contexts[c].reservation_id
    <3>3. Locks(s) /\ reservations[s].context_id = c /\ s \in ResvIds
      BY <1>1, <3>1, <3>2 DEF IndInv, NoOrphanLock, TypeOK, ContextEntry
    <3>4. s # r
      BY <1>4, <3>3 DEF Locks, Held
    <3> QED
      BY <1>7, <3>1, <3>2, <3>3, <3>4 DEF Locks, Held
  <2> QED
    BY <2>1, <2>2
<1>14. WithinQuota'
  <2> SUFFICES ASSUME NEW o \in Owners
               PROVE  Cardinality(Live(contexts, o)') + Cardinality(Pending(o)')
                        <= MaxContexts
    BY DEF WithinQuota, Live
  <2> DEFINE L1 == Live(contexts, o)
             L2 == Live(cs, o)
             P1 == Pending(o)
  <2>1. Live(contexts, o)' = L2
    <3>1. \A c \in CtxIds : /\ contexts'[c].owner = cs[c].owner
                             /\ contexts'[c].state = cs[c].state
      BY <1>5, <1>9 DEF ContextEntry
    <3> QED
      BY <3>1 DEF Live
  <2>2. L2 \subseteq L1
    <3>1. \A c \in CtxIds : cs[c].state = "active" => cs[c] = contexts[c]
      BY <1>1, SweepMap DEF TypeOK, cs
    <3> QED
      BY <3>1 DEF Live
  <2>3. Pending(o)' \subseteq P1 \cup {r}
    BY <1>7 DEF Pending, Allocates
  <2>4. Cardinality(L1) + Cardinality(P1) <= MaxContexts
    BY DEF IndInv, WithinQuota
  <2>5. r \notin P1
    BY <1>4 DEF Pending, Allocates
  <2>6. L1 \in SUBSET CtxIds /\ P1 \in SUBSET ResvIds /\ L2 \in SUBSET CtxIds
    BY DEF Live, Pending
  <2>7. Pending(o)' \in SUBSET ResvIds
    BY DEF Pending
  <2>8. CASE q.op \in {"create", "fork"} /\ q.owner = o
    <3>1. AllocationAvailable(cs, o)
      BY <1>4, <2>8 DEF ReserveCheck
    <3>2. Cardinality(L2) + Cardinality(P1) < MaxContexts
      BY <3>1 DEF AllocationAvailable
    <3>3. Cardinality(P1 \cup {r}) = Cardinality(P1) + 1
      BY <2>5, <2>6, QuotaMoves
    <3>4. P1 \cup {r} \in SUBSET ResvIds
      BY <2>6
    <3> DEFINE P2 == Pending(o)'
    <3> HIDE DEF L1, L2, P1, P2
    <3>5. P2 \in SUBSET (P1 \cup {r})
      BY <2>3 DEF P2
    <3>6. /\ Cardinality(L2) + Cardinality(P2) <= Cardinality(L2) + Cardinality(P1 \cup {r})
          /\ Cardinality(L2) \in Nat /\ Cardinality(P2) \in Nat
      BY <2>6, <3>4, <3>5, QuotaShrinks
    <3>7. Cardinality(P1) \in Nat
      BY <2>6, QuotaShrinks
    <3>8. Cardinality(L2) + Cardinality(P2) <= MaxContexts
      BY <3>2, <3>3, <3>6, <3>7, OptionsAssumption
    <3> QED
      BY <2>1, <3>8 DEF P2
  <2>9. CASE ~(q.op \in {"create", "fork"} /\ q.owner = o)
    <3>1. Pending(o)' \subseteq P1
      BY <1>6, <1>7, <1>8, <2>9 DEF Pending, Allocates
    <3> DEFINE P2 == Pending(o)'
    <3> HIDE DEF L1, L2, P1, P2
    <3>2. P2 \in SUBSET P1 /\ L2 \in SUBSET L1
      BY <2>2, <3>1 DEF P2
    <3>3. /\ Cardinality(L2) + Cardinality(P2) <= Cardinality(L1) + Cardinality(P1)
          /\ Cardinality(L1) \in Nat /\ Cardinality(P1) \in Nat
          /\ Cardinality(L2) \in Nat /\ Cardinality(P2) \in Nat
      BY <2>6, <3>2, QuotaShrinks
    <3>4. Cardinality(L2) + Cardinality(P2) <= MaxContexts
      BY <2>4, <3>3, OptionsAssumption
    <3> QED
      BY <2>1, <3>4 DEF P2
  <2> QED
    BY <2>8, <2>9
<1>15. BusyIffHeld'
  <2>1. \A k \in IdempotencyKey : idempotency'[k].state = "busy" <=>
            (k = k0 \/ idempotency[k].state = "busy")
    <3>1. \A k \in IdempotencyKey : os[k].state = "busy" <=> idempotency[k].state = "busy"
      BY <1>1, SweepOutcome DEF TypeOK, os
    <3>2. BusyOutcome.state = "busy"
      BY DEF BusyOutcome, NoOutcome
    <3> QED
      BY <1>3, <1>4, <1>5, <3>1, <3>2
  <2>2. idempotency[k0].state # "busy"
    BY <1>1, <1>3, <1>4, SweepOutcome DEF TypeOK, os
  <2> SUFFICES ASSUME NEW o \in Owners, NEW key \in Keys
               PROVE  LET holders == {s \in ResvIds :
                                        /\ reservations'[s].status = "held"
                                        /\ reservations'[s].owner = o
                                        /\ reservations'[s].key = key}
                      IN  /\ idempotency'[<<o, "complete", key>>].state = "busy"
                                <=> holders # {}
                          /\ \A s, t \in holders : s = t
    BY DEF BusyIffHeld, Held
  <2> DEFINE k == <<o, "complete", key>>
             H1 == {s \in ResvIds : /\ reservations[s].status = "held"
                                    /\ reservations[s].owner = o
                                    /\ reservations[s].key = key}
             H2 == {s \in ResvIds : /\ reservations'[s].status = "held"
                                    /\ reservations'[s].owner = o
                                    /\ reservations'[s].key = key}
  <2>3. k \in IdempotencyKey
    BY DEF IdempotencyKey, Actions
  <2>4. /\ idempotency[k].state = "busy" <=> H1 # {}
        /\ \A s, t \in H1 : s = t
    BY DEF IndInv, BusyIffHeld, Held
  <2>5. CASE o = q.owner /\ key = q.key
    <3>1. H1 = {}
      BY <2>2, <2>4, <2>5
    <3>2. H2 = {r}
      BY <1>6, <1>7, <1>8, <2>5, <3>1
    <3> QED
      BY <2>1, <2>3, <2>5, <3>2
  <2>6. CASE ~(o = q.owner /\ key = q.key)
    <3>1. H2 = H1
      BY <1>4, <1>6, <1>7, <1>8, <2>6
    <3>2. k # k0
      BY <2>6
    <3> QED
      BY <2>1, <2>3, <2>4, <3>1, <3>2
  <2> QED
    BY <2>5, <2>6
<1>16. BoundedLifetime' /\ LiveUntombed'
  <2> SUFFICES ASSUME NEW c \in CtxIds, contexts'[c].state = "active"
               PROVE  /\ contexts'[c].ttl_seconds \in 1..MaxTtl
                      /\ contexts'[c].expires_at # None
                      /\ contexts'[c].expires_at <= now + MaxTtl
                      /\ contexts'[c].tombstone_until = None
    BY <1>4 DEF BoundedLifetime, LiveUntombed
  <2>1. /\ cs[c].state = "active"
        /\ contexts'[c].ttl_seconds = cs[c].ttl_seconds
        /\ contexts'[c].expires_at = cs[c].expires_at
        /\ contexts'[c].tombstone_until = cs[c].tombstone_until
    BY <1>5, <1>9 DEF ContextEntry
  <2>2. cs[c] = contexts[c]
    BY <1>1, <2>1, SweepMap DEF TypeOK, cs
  <2> QED
    BY <2>1, <2>2 DEF IndInv, BoundedLifetime, LiveUntombed
<1>17. TurnsCoherent'
  <2>1. \A s \in ResvIds :
           reservations[s].status = "closed" => reservations'[s] = reservations[s]
    BY <1>4, <1>7
  <2>2. ASSUME NEW c \in CtxIds
        PROVE  CoherentNext(contexts'[c].transcript, contexts'[c].owner,
                            contexts'[c].binding)
    <3>1. /\ contexts'[c].transcript = cs[c].transcript
          /\ contexts'[c].owner = cs[c].owner
          /\ contexts'[c].binding = cs[c].binding
      BY <1>5, <1>9 DEF ContextEntry
    <3>2. \/ cs[c].transcript = <<>>
          \/ /\ cs[c].transcript = contexts[c].transcript
             /\ cs[c].owner = contexts[c].owner
             /\ cs[c].binding = contexts[c].binding
      BY <1>1, SweepMap DEF TypeOK, cs, NoEntry
    <3>3. contexts[c].transcript \in Seq(ResvIds)
      BY <1>1 DEF TypeOK, ContextEntry
    <3>4. Coherent(contexts[c].transcript, contexts[c].owner, contexts[c].binding)
      BY DEF IndInv, TurnsCoherent
    <3>5. CoherentNext(contexts[c].transcript, contexts[c].owner, contexts[c].binding)
      BY <2>1, <3>3, <3>4, CoherentKept
    <3>6. \A o, b : CoherentNext(<<>>, o, b)
      BY DEF CoherentNext
    <3> QED
      BY <3>1, <3>2, <3>5, <3>6
  <2>3. ASSUME NEW s \in ResvIds, Held(s)', reservations'[s].op = "fork"
        PROVE  CoherentNext(reservations'[s].base_transcript,
                            reservations'[s].owner, reservations'[s].binding)
    <3>1. CASE s = r
      <4>1. q.op = "fork"
        BY <1>6, <1>8, <2>3, <3>1
      <4>2. /\ n.base_transcript = contexts[q.context_id].transcript
            /\ n.owner = contexts[q.context_id].owner
            /\ n.binding = contexts[q.context_id].binding
            /\ q.context_id \in CtxIds
        BY <1>3, <1>6, <1>10, <4>1
      <4>3. contexts[q.context_id].transcript \in Seq(ResvIds)
        BY <1>1, <4>2 DEF TypeOK, ContextEntry
      <4>4. Coherent(contexts[q.context_id].transcript, contexts[q.context_id].owner,
                     contexts[q.context_id].binding)
        BY <4>2 DEF IndInv, TurnsCoherent
      <4>5. CoherentNext(contexts[q.context_id].transcript,
                contexts[q.context_id].owner, contexts[q.context_id].binding)
        BY <2>1, <4>3, <4>4, CoherentKept
      <4> QED
        BY <1>8, <3>1, <4>2, <4>5
    <3>2. CASE s # r
      <4>1. reservations'[s] = reservations[s] /\ Held(s)
        BY <1>7, <2>3, <3>2 DEF Held
      <4>2. Coherent(reservations[s].base_transcript, reservations[s].owner,
                     reservations[s].binding)
        BY <2>3, <4>1 DEF IndInv, TurnsCoherent
      <4>3. reservations[s].base_transcript \in Seq(ResvIds)
        BY <1>1 DEF TypeOK, ReservationData
      <4>4. CoherentNext(reservations[s].base_transcript, reservations[s].owner,
                         reservations[s].binding)
        BY <2>1, <4>2, <4>3, CoherentKept
      <4> QED
        BY <4>1, <4>4
    <3> QED
      BY <3>1, <3>2
  <2> QED
    BY <2>2, <2>3 DEF TurnsCoherent, Coherent, CoherentNext
<1>18. \A k \in IdempotencyKey : idempotency'[k].state = "completed" =>
          idempotency'[k] = idempotency[k] /\ idempotency[k].retain_until > now
  <2>1. BusyOutcome.state # "completed"
    BY DEF BusyOutcome, NoOutcome
  <2>2. \A k \in IdempotencyKey : os[k].state = "completed" =>
            os[k] = idempotency[k] /\ idempotency[k].retain_until > now
    BY <1>1, SweepOutcome DEF TypeOK, os
  <2> QED
    BY <1>3, <1>4, <1>5, <2>1, <2>2
<1>19. ReceiptsCovered'
  <2> SUFFICES ASSUME IdempotencyTtl <= TombstoneSeconds,
                      NEW k \in IdempotencyKey, idempotency'[k].state = "completed"
               PROVE  Covered(k[1], idempotency[k])'
    BY DEF ReceiptsCovered
  <2> DEFINE out == idempotency[k]
             c == out.receipt.context_id
  <2>1. idempotency'[k] = out /\ out.retain_until > now /\ out.state = "completed"
    BY <1>18
  <2>2. Covered(k[1], out)
    BY <2>1 DEF IndInv, ReceiptsCovered
  <2>3. out.retain_until \in Nat
    BY <1>1 DEF TypeOK, IdempotencyEntry
  <2>4. /\ c \in CtxIds
        /\ cs[c].state # "absent"
        /\ cs[c].owner = contexts[c].owner
        /\ cs[c].version = contexts[c].version
        /\ cs[c].tombstone_until # None => out.retain_until <= cs[c].tombstone_until
    BY <1>1, <2>1, <2>2, <2>3, CoverSurvivesSweep DEF Covered, TypeOK, cs
  <2>5. /\ contexts'[c].state = cs[c].state
        /\ contexts'[c].owner = cs[c].owner
        /\ contexts'[c].version = cs[c].version
        /\ contexts'[c].tombstone_until = cs[c].tombstone_until
    BY <1>5, <1>9, <2>4, ZenonT(20) DEF ContextEntry
  <2> QED
    BY <1>4, <2>1, <2>2, <2>4, <2>5 DEF Covered
<1>20. ReceiptsUnique'
  BY <1>18 DEF IndInv, ReceiptsUnique
<1> QED
  BY <1>2, <1>11, <1>12, <1>13, <1>14, <1>15, <1>16, <1>17, <1>19, <1>20 DEF IndInv

\* The reservations in X are closed, the others unchanged.
Closes(X) ==
    \A s \in ResvIds :
        reservations'[s] = IF s \in X
                           THEN [reservations[s] EXCEPT !.status = "closed"]
                           ELSE reservations[s]

\* What every step that makes no reservation preserves, as long as the keys of
\* the reservations it closes, and only those, stop being busy.
LEMMA Closing ==
    ASSUME IndInv, NEW X \in SUBSET ResvIds, Closes(X),
           \A s \in X : Held(s),
           \A k \in IdempotencyKey : idempotency'[k].state = "busy" <=>
                /\ idempotency[k].state = "busy"
                /\ \A s \in X : k # <<reservations[s].owner, "complete",
                                       reservations[s].key>>
    PROVE  /\ HeldOK'
           /\ BusyIffHeld'
           /\ \A s \in ResvIds : Held(s)' => /\ Held(s) /\ s \notin X
                                             /\ reservations'[s] = reservations[s]
           /\ \A s \in ResvIds :
                  reservations[s].status = "closed" => reservations'[s] = reservations[s]
           /\ \A s \in ResvIds : Held(s)' /\ reservations'[s].op = "fork" =>
                  CoherentNext(reservations'[s].base_transcript,
                               reservations'[s].owner, reservations'[s].binding)
<1>1. \A s \in ResvIds : reservations[s] \in ReservationData
  BY DEF IndInv, TypeOK
<1>2. \A s \in X : reservations'[s].status = "closed"
  <2> SUFFICES ASSUME NEW s \in X PROVE reservations'[s].status = "closed"
    OBVIOUS
  <2>1. reservations'[s] = [reservations[s] EXCEPT !.status = "closed"]
    BY DEF Closes
  <2>2. reservations[s] \in ReservationData
    BY <1>1
  <2> QED
    BY <2>1, <2>2 DEF ReservationData
<1>3. \A s \in ResvIds : Held(s)' =>
         Held(s) /\ s \notin X /\ reservations'[s] = reservations[s]
  BY <1>2 DEF Held, Closes
<1>4. \A s \in ResvIds :
         reservations[s].status = "closed" => reservations'[s] = reservations[s]
  <2> SUFFICES ASSUME NEW s \in ResvIds, reservations[s].status = "closed"
               PROVE  reservations'[s] = reservations[s]
    OBVIOUS
  <2>1. s \notin X
    BY DEF Held
  <2> QED
    BY <2>1 DEF Closes
<1>5. HeldOK'
  BY <1>3 DEF IndInv, HeldOK, Held
<1>6. BusyIffHeld'
  <2> SUFFICES ASSUME NEW o \in Owners, NEW key \in Keys
               PROVE  LET holders == {s \in ResvIds :
                                        /\ reservations'[s].status = "held"
                                        /\ reservations'[s].owner = o
                                        /\ reservations'[s].key = key}
                      IN  /\ idempotency'[<<o, "complete", key>>].state = "busy"
                                <=> holders # {}
                          /\ \A s, t \in holders : s = t
    BY DEF BusyIffHeld, Held
  <2> DEFINE k == <<o, "complete", key>>
             H1 == {s \in ResvIds : /\ reservations[s].status = "held"
                                    /\ reservations[s].owner = o
                                    /\ reservations[s].key = key}
             H2 == {s \in ResvIds : /\ reservations'[s].status = "held"
                                    /\ reservations'[s].owner = o
                                    /\ reservations'[s].key = key}
  <2>1. k \in IdempotencyKey
    BY DEF IdempotencyKey, Actions
  <2>2. /\ idempotency[k].state = "busy" <=> H1 # {}
        /\ \A s, t \in H1 : s = t
    BY DEF IndInv, BusyIffHeld, Held
  <2>3. H2 = H1 \ X
    BY <1>2 DEF Closes
  <2>4. \A s \in X : s \in H1 <=> k = <<reservations[s].owner, "complete",
                                          reservations[s].key>>
    BY DEF Held
  <2>5. idempotency'[k].state = "busy" <=>
            idempotency[k].state = "busy" /\ \A s \in X : s \notin H1
    BY <2>1, <2>4
  <2> HIDE DEF k, H1, H2
  <2>6. idempotency'[k].state = "busy" <=> H2 # {}
    BY <2>2, <2>3, <2>5
  <2> QED
    BY <2>2, <2>3, <2>6 DEF k, H2
<1>7. ASSUME NEW s \in ResvIds, Held(s)', reservations'[s].op = "fork"
      PROVE  CoherentNext(reservations'[s].base_transcript,
                          reservations'[s].owner, reservations'[s].binding)
  <2>1. reservations'[s] = reservations[s] /\ Held(s)
    BY <1>3, <1>7
  <2>2. Coherent(reservations[s].base_transcript, reservations[s].owner,
                 reservations[s].binding)
    BY <1>7, <2>1 DEF IndInv, TurnsCoherent
  <2>3. reservations[s].base_transcript \in Seq(ResvIds)
    BY <1>1 DEF ReservationData
  <2>4. CoherentNext(reservations[s].base_transcript, reservations[s].owner,
                     reservations[s].binding)
    BY <1>4, <2>2, <2>3, CoherentKept
  <2> QED
    BY <2>1, <2>4
<1> QED
  BY <1>3, <1>4, <1>5, <1>6, <1>7

\* A step that makes no context live, and touches a locked one only to unlock
\* it for a reservation it closes, preserves all but the receipts' part.
LEMMA Decaying ==
    ASSUME IndInv, NEW X \in SUBSET ResvIds, Closes(X), now' = now,
           \A s \in X : Held(s),
           \A k \in IdempotencyKey : idempotency'[k].state = "busy" <=>
                /\ idempotency[k].state = "busy"
                /\ \A s \in X : k # <<reservations[s].owner, "complete",
                                       reservations[s].key>>,
           \A c \in CtxIds :
             LET e == contexts[c]
                 f == contexts'[c]
             IN  /\ f.state = "active" =>
                       /\ e.state = "active" /\ f.owner = e.owner
                       /\ f.ttl_seconds = e.ttl_seconds
                       /\ f.expires_at = e.expires_at
                       /\ f.tombstone_until = e.tombstone_until
                 /\ e.state = "active" /\ e.reservation_id # None
                       /\ e.reservation_id \notin X => f = e
                 /\ f.reservation_id # None =>
                       f.reservation_id = e.reservation_id /\ f.reservation_id \notin X
                 /\ \/ f.transcript = <<>>
                    \/ /\ f.transcript = e.transcript
                       /\ f.owner = e.owner
                       /\ f.binding = e.binding
    PROVE  /\ HeldOK' /\ ReservedContextFrozen' /\ NoOrphanLock' /\ WithinQuota'
           /\ BusyIffHeld' /\ BoundedLifetime' /\ LiveUntombed' /\ TurnsCoherent'
<1>1. /\ HeldOK'
      /\ BusyIffHeld'
      /\ \A s \in ResvIds : Held(s)' => /\ Held(s) /\ s \notin X
                                        /\ reservations'[s] = reservations[s]
      /\ \A s \in ResvIds :
             reservations[s].status = "closed" => reservations'[s] = reservations[s]
      /\ \A s \in ResvIds : Held(s)' /\ reservations'[s].op = "fork" =>
             CoherentNext(reservations'[s].base_transcript,
                          reservations'[s].owner, reservations'[s].binding)
  BY Closing
<1>2. ReservedContextFrozen'
  <2> SUFFICES ASSUME NEW s \in ResvIds, Locks(s)'
               PROVE  LET d == reservations'[s]
                          e == contexts'[d.context_id]
                      IN  /\ d.context_id \in CtxIds
                          /\ e.state = "active"
                          /\ e.owner = d.owner
                          /\ e.reservation_id = s
                          /\ e.version = d.base_version
                          /\ e.transcript = d.base_transcript
                          /\ d.op = "append" => e.binding = d.binding
    BY DEF ReservedContextFrozen
  <2>1. Locks(s) /\ s \notin X /\ reservations'[s] = reservations[s]
    BY <1>1 DEF Locks
  <2> DEFINE d == reservations[s]
             e == contexts[d.context_id]
  <2>2. /\ d.context_id \in CtxIds
        /\ e.state = "active"
        /\ e.owner = d.owner
        /\ e.reservation_id = s
        /\ e.version = d.base_version
        /\ e.transcript = d.base_transcript
        /\ d.op = "append" => e.binding = d.binding
    BY <2>1 DEF IndInv, ReservedContextFrozen
  <2>3. contexts'[d.context_id] = e
    BY <2>1, <2>2, NoneAssumption
  <2> QED
    BY <2>1, <2>2, <2>3
<1>3. NoOrphanLock'
  <2> SUFFICES ASSUME NEW c \in CtxIds, contexts'[c].reservation_id # None
               PROVE  /\ Locks(contexts[c].reservation_id)'
                      /\ reservations'[contexts'[c].reservation_id].context_id = c
    BY DEF NoOrphanLock
  <2> DEFINE s == contexts[c].reservation_id
  <2>1. s # None /\ contexts'[c].reservation_id = s /\ s \notin X
    OBVIOUS
  <2>2. Locks(s) /\ reservations[s].context_id = c /\ s \in ResvIds
    BY <2>1 DEF IndInv, NoOrphanLock, TypeOK, ContextEntry
  <2>3. reservations'[s] = reservations[s]
    BY <2>1, <2>2 DEF Closes
  <2> QED
    BY <2>1, <2>2, <2>3 DEF Locks, Held
<1>4. WithinQuota'
  <2> SUFFICES ASSUME NEW o \in Owners
               PROVE  Cardinality(Live(contexts, o)') + Cardinality(Pending(o)')
                        <= MaxContexts
    BY DEF WithinQuota, Live
  <2> DEFINE L1 == Live(contexts, o)
             P1 == Pending(o)
             L2 == Live(contexts, o)'
             P2 == Pending(o)'
  <2>1. L1 \in SUBSET CtxIds /\ P1 \in SUBSET ResvIds
    BY DEF Live, Pending
  <2>2. L2 \in SUBSET L1
    BY DEF Live
  <2>3. P2 \in SUBSET P1
    BY <1>1 DEF Pending, Allocates, Held
  <2>4. Cardinality(L1) + Cardinality(P1) <= MaxContexts
    BY DEF IndInv, WithinQuota
  <2> HIDE DEF L1, L2, P1, P2
  <2>5. /\ Cardinality(L2) + Cardinality(P2) <= Cardinality(L1) + Cardinality(P1)
        /\ Cardinality(L1) \in Nat /\ Cardinality(P1) \in Nat
        /\ Cardinality(L2) \in Nat /\ Cardinality(P2) \in Nat
    BY <2>1, <2>2, <2>3, QuotaShrinks
  <2>6. Cardinality(L2) + Cardinality(P2) <= MaxContexts
    BY <2>4, <2>5, OptionsAssumption
  <2> QED
    BY <2>6 DEF L2, P2
<1>5. BoundedLifetime' /\ LiveUntombed'
  BY DEF IndInv, BoundedLifetime, LiveUntombed
<1>6. ASSUME NEW c \in CtxIds
      PROVE  CoherentNext(contexts'[c].transcript, contexts'[c].owner,
                          contexts'[c].binding)
  <2>1. contexts[c].transcript \in Seq(ResvIds)
    BY DEF IndInv, TypeOK, ContextEntry
  <2>2. Coherent(contexts[c].transcript, contexts[c].owner, contexts[c].binding)
    BY DEF IndInv, TurnsCoherent
  <2>3. CoherentNext(contexts[c].transcript, contexts[c].owner, contexts[c].binding)
    BY <1>1, <2>1, <2>2, CoherentKept
  <2>4. \A o, b : CoherentNext(<<>>, o, b)
    BY DEF CoherentNext
  <2> QED
    BY <2>3, <2>4
<1>7. TurnsCoherent'
  BY <1>1, <1>6 DEF TurnsCoherent, Coherent, CoherentNext
<1> QED
  BY <1>1, <1>2, <1>3, <1>4, <1>5, <1>7

\* The sweep of status, snapshot and rejected calls preserves the invariant.
LEMMA InvSweepExpired ==
    ASSUME IndInv, SweepExpired
    PROVE  IndInv'
<1>1. TypeOK /\ now \in Nat
  BY DEF IndInv, TypeOK
<1>2. /\ contexts' = SweepContexts(contexts)
      /\ idempotency' = SweepOutcomes(idempotency)
      /\ reservations' = reservations /\ now' = now
  BY DEF SweepExpired
<1>3. TypeOK'
  BY <1>1, <1>2, SweepType DEF TypeOK
<1>4. \A k \in IdempotencyKey :
        LET o == idempotency[k]
            p == idempotency'[k]
        IN  /\ p.state = "busy" <=> o.state = "busy"
            /\ p.state = "completed" => p = o /\ o.retain_until > now
  BY <1>1, <1>2, SweepOutcome DEF TypeOK
<1>5. /\ HeldOK' /\ ReservedContextFrozen' /\ NoOrphanLock' /\ WithinQuota'
      /\ BusyIffHeld' /\ BoundedLifetime' /\ LiveUntombed' /\ TurnsCoherent'
  <2> DEFINE X == {}
  <2>1. X \in SUBSET ResvIds /\ Closes(X) /\ \A s \in X : Held(s)
    BY <1>2 DEF Closes
  <2>2. \A k \in IdempotencyKey : idempotency'[k].state = "busy" <=>
                /\ idempotency[k].state = "busy"
                /\ \A s \in X : k # <<reservations[s].owner, "complete",
                                       reservations[s].key>>
    BY <1>4
  <2>3. \A c \in CtxIds :
             LET e == contexts[c]
                 f == contexts'[c]
             IN  /\ f.state = "active" =>
                       /\ e.state = "active" /\ f.owner = e.owner
                       /\ f.ttl_seconds = e.ttl_seconds
                       /\ f.expires_at = e.expires_at
                       /\ f.tombstone_until = e.tombstone_until
                 /\ e.state = "active" /\ e.reservation_id # None
                       /\ e.reservation_id \notin X => f = e
                 /\ f.reservation_id # None =>
                       f.reservation_id = e.reservation_id /\ f.reservation_id \notin X
                 /\ \/ f.transcript = <<>>
                    \/ /\ f.transcript = e.transcript
                       /\ f.owner = e.owner
                       /\ f.binding = e.binding
    BY <1>1, <1>2, SweepMap DEF TypeOK, NoEntry
  <2> HIDE DEF X
  <2> QED
    BY <1>2, <2>1, <2>2, <2>3, Decaying
<1>6. ReceiptsCovered'
  <2> SUFFICES ASSUME IdempotencyTtl <= TombstoneSeconds,
                      NEW k \in IdempotencyKey, idempotency'[k].state = "completed"
               PROVE  Covered(k[1], idempotency[k])'
    BY DEF ReceiptsCovered
  <2> DEFINE out == idempotency[k]
             c == out.receipt.context_id
  <2>1. idempotency'[k] = out /\ out.retain_until > now /\ out.state = "completed"
    BY <1>4
  <2>2. Covered(k[1], out)
    BY <2>1 DEF IndInv, ReceiptsCovered
  <2>3. out.retain_until \in Nat
    BY <1>1 DEF TypeOK, IdempotencyEntry
  <2>4. /\ c \in CtxIds
        /\ contexts'[c].state # "absent"
        /\ contexts'[c].owner = contexts[c].owner
        /\ contexts'[c].version = contexts[c].version
        /\ contexts'[c].tombstone_until # None =>
               out.retain_until <= contexts'[c].tombstone_until
    BY <1>1, <1>2, <2>1, <2>2, <2>3, CoverSurvivesSweep DEF Covered, TypeOK
  <2> QED
    BY <1>2, <2>1, <2>2, <2>4 DEF Covered
<1>7. ReceiptsUnique'
  BY <1>4 DEF IndInv, ReceiptsUnique
<1> QED
  BY <1>3, <1>5, <1>6, <1>7 DEF IndInv

\* abort preserves the invariant.
LEMMA InvAbort ==
    ASSUME IndInv, NEW r \in ResvIds, Abort(r)
    PROVE  IndInv'
<1> DEFINE d == reservations[r]
           k0 == <<d.owner, "complete", d.key>>
           cs == ClearReservation(contexts, r)
           os == [idempotency EXCEPT ![k0] = FailedOutcome]
<1>1. TypeOK /\ now \in Nat
  BY DEF IndInv, TypeOK
<1>2. /\ contexts' = SweepContexts(cs)
      /\ idempotency' = SweepOutcomes(os)
      /\ reservations' = [reservations EXCEPT ![r].status = "closed"]
      /\ now' = now
      /\ Held(r)
  BY DEF Abort, Close, Held
<1>3. TypeOK'
  BY <1>1, TypeAbort
<1>4. k0 \in IdempotencyKey
  BY <1>2 DEF IndInv, HeldOK, IdempotencyKey, Actions
<1>5. cs \in [CtxIds -> ContextEntry]
  <2>1. \A e \in ContextEntry : [e EXCEPT !.reservation_id = None] \in ContextEntry
    BY DEF ContextEntry
  <2> QED
    BY <1>1, <2>1 DEF ClearReservation, TypeOK
<1>6. os \in [IdempotencyKey -> IdempotencyEntry]
  BY <1>1, OutcomeType DEF TypeOK
<1>7. FailedOutcome.state = "failed"
  BY DEF FailedOutcome, NoOutcome
<1>8. \A k \in IdempotencyKey :
        /\ idempotency'[k].state = "busy" <=> k # k0 /\ idempotency[k].state = "busy"
        /\ idempotency'[k].state = "completed" =>
              idempotency'[k] = idempotency[k] /\ idempotency[k].retain_until > now
  <2>1. \A k \in IdempotencyKey : os[k] = IF k = k0 THEN FailedOutcome
                                            ELSE idempotency[k]
    BY <1>1 DEF TypeOK
  <2> HIDE DEF os, k0
  <2>2. \A k \in IdempotencyKey :
            LET o == os[k]
                p == idempotency'[k]
            IN  /\ p.state = "busy" <=> o.state = "busy"
                /\ p.state = "completed" => p = o /\ o.retain_until > now
    BY <1>1, <1>2, <1>6, SweepOutcome
  <2> QED
    BY <1>7, <2>1, <2>2
<1>9. \A c \in CtxIds :
        cs[c] = IF contexts[c].reservation_id = r
                THEN [contexts[c] EXCEPT !.reservation_id = None] ELSE contexts[c]
  <2>1. \A c \in CtxIds : contexts[c].reservation_id = r => c = d.context_id
    BY NoneAssumption DEF IndInv, NoOrphanLock
  <2> QED
    BY <2>1 DEF ClearReservation
<1>10. \A c \in CtxIds :
         /\ cs[c].state = contexts[c].state
         /\ cs[c].owner = contexts[c].owner
         /\ cs[c].version = contexts[c].version
         /\ cs[c].binding = contexts[c].binding
         /\ cs[c].transcript = contexts[c].transcript
         /\ cs[c].ttl_seconds = contexts[c].ttl_seconds
         /\ cs[c].expires_at = contexts[c].expires_at
         /\ cs[c].tombstone_until = contexts[c].tombstone_until
         /\ contexts[c].reservation_id # r => cs[c] = contexts[c]
         /\ contexts[c].reservation_id = r => cs[c].reservation_id = None
  BY <1>1, <1>9, ZenonT(20) DEF TypeOK, ContextEntry
<1> HIDE DEF cs, os
<1>11. /\ HeldOK' /\ ReservedContextFrozen' /\ NoOrphanLock' /\ WithinQuota'
       /\ BusyIffHeld' /\ BoundedLifetime' /\ LiveUntombed' /\ TurnsCoherent'
  <2> DEFINE X == {r}
  <2>1. X \in SUBSET ResvIds /\ Closes(X) /\ \A s \in X : Held(s)
    BY <1>1, <1>2 DEF Closes, TypeOK
  <2>2. \A k \in IdempotencyKey : idempotency'[k].state = "busy" <=>
                /\ idempotency[k].state = "busy"
                /\ \A s \in X : k # <<reservations[s].owner, "complete",
                                       reservations[s].key>>
    BY <1>8
  <2>3. \A c \in CtxIds :
             LET e == contexts[c]
                 f == contexts'[c]
             IN  /\ f.state = "active" =>
                       /\ e.state = "active" /\ f.owner = e.owner
                       /\ f.ttl_seconds = e.ttl_seconds
                       /\ f.expires_at = e.expires_at
                       /\ f.tombstone_until = e.tombstone_until
                 /\ e.state = "active" /\ e.reservation_id # None
                       /\ e.reservation_id \notin X => f = e
                 /\ f.reservation_id # None =>
                       f.reservation_id = e.reservation_id /\ f.reservation_id \notin X
                 /\ \/ f.transcript = <<>>
                    \/ /\ f.transcript = e.transcript
                       /\ f.owner = e.owner
                       /\ f.binding = e.binding
    <3> SUFFICES ASSUME NEW c \in CtxIds
                 PROVE  LET e == contexts[c]
                            f == contexts'[c]
                        IN  /\ f.state = "active" =>
                                  /\ e.state = "active" /\ f.owner = e.owner
                                  /\ f.ttl_seconds = e.ttl_seconds
                                  /\ f.expires_at = e.expires_at
                                  /\ f.tombstone_until = e.tombstone_until
                            /\ e.state = "active" /\ e.reservation_id # None
                                  /\ e.reservation_id \notin X => f = e
                            /\ f.reservation_id # None =>
                                  f.reservation_id = e.reservation_id
                                    /\ f.reservation_id \notin X
                            /\ \/ f.transcript = <<>>
                               \/ /\ f.transcript = e.transcript
                                  /\ f.owner = e.owner
                                  /\ f.binding = e.binding
      OBVIOUS
    <3>1. LET e == cs[c]
              f == contexts'[c]
          IN  /\ f.state = "active" => f = e
              /\ e.state = "active" /\ e.reservation_id # None => f = e
              /\ \/ f = NoEntry
                 \/ /\ f.owner = e.owner
                    /\ f.binding = e.binding
                    /\ f.transcript = e.transcript
                    /\ f.reservation_id = e.reservation_id
      BY <1>1, <1>2, <1>5, SweepMap
    <3> QED
      BY <1>10, <3>1, NoneAssumption DEF NoEntry
  <2> HIDE DEF X
  <2> QED
    BY <1>2, <2>1, <2>2, <2>3, Decaying
<1>12. ReceiptsCovered'
  <2> SUFFICES ASSUME IdempotencyTtl <= TombstoneSeconds,
                      NEW k \in IdempotencyKey, idempotency'[k].state = "completed"
               PROVE  Covered(k[1], idempotency[k])'
    BY DEF ReceiptsCovered
  <2> DEFINE out == idempotency[k]
             c == out.receipt.context_id
  <2>1. idempotency'[k] = out /\ out.retain_until > now /\ out.state = "completed"
    BY <1>8
  <2>2. Covered(k[1], out)
    BY <2>1 DEF IndInv, ReceiptsCovered
  <2>3. out.retain_until \in Nat
    BY <1>1 DEF TypeOK, IdempotencyEntry
  <2>4. /\ c \in CtxIds
        /\ out.retain_until <= now + IdempotencyTtl
        /\ cs[c].state # "absent"
        /\ cs[c].owner = contexts[c].owner
        /\ cs[c].version = contexts[c].version
        /\ cs[c].tombstone_until # None => out.retain_until <= cs[c].tombstone_until
    BY <1>10, <2>2 DEF Covered
  <2>5. /\ contexts'[c].state # "absent"
        /\ contexts'[c].owner = cs[c].owner
        /\ contexts'[c].version = cs[c].version
        /\ contexts'[c].tombstone_until # None =>
               out.retain_until <= contexts'[c].tombstone_until
    BY <1>1, <1>2, <1>5, <2>1, <2>3, <2>4, CoverSurvivesSweep
  <2> QED
    BY <1>2, <2>1, <2>2, <2>4, <2>5 DEF Covered
<1>13. ReceiptsUnique'
  BY <1>8 DEF IndInv, ReceiptsUnique
<1> QED
  BY <1>3, <1>11, <1>12, <1>13 DEF IndInv

\* release preserves the invariant.
LEMMA InvRelease ==
    ASSUME IndInv, NEW o \in Owners, NEW c0 \in CtxIds, NEW b \in BaseVersions,
           NEW key \in Keys, Release(o, c0, b, key)
    PROVE  IndInv'
<1> DEFINE cs == SweepContexts(contexts)
           os == SweepOutcomes(idempotency)
           k0 == <<o, "release", key>>
           v  == cs[c0].version + 1
<1>1. TypeOK /\ now \in Nat
  BY DEF IndInv, TypeOK
<1>2. TypeOK'
  BY <1>1, TypeRelease
<1>3. /\ contexts' = [cs EXCEPT ![c0] = ReleasedEntry(cs[c0])]
      /\ idempotency' = [os EXCEPT ![k0] = ReleaseOutcome(c0, b, v)]
      /\ reservations' = reservations /\ now' = now
      /\ os[k0].state = "absent"
      /\ cs[c0].state = "active" /\ cs[c0].owner = o /\ cs[c0].reservation_id = None
  BY DEF Release, Mutable
<1>4. /\ cs \in [CtxIds -> ContextEntry]
      /\ os \in [IdempotencyKey -> IdempotencyEntry]
  BY <1>1, SweepType DEF TypeOK
<1>5. k0 \in IdempotencyKey
  BY DEF IdempotencyKey, Actions
<1>6. /\ cs[c0] = contexts[c0]
      /\ contexts[c0] \in ContextEntry
  BY <1>1, <1>3, SweepMap DEF TypeOK
<1>7. LET f == contexts'[c0]
          e == contexts[c0]
      IN  /\ f.state = "released" /\ f.owner = o /\ f.version = e.version + 1
          /\ f.binding = e.binding /\ f.transcript = e.transcript
          /\ f.reservation_id = None
          /\ f.tombstone_until = now + TombstoneSeconds
  BY <1>3, <1>4, <1>6 DEF ReleasedEntry, ContextEntry
<1>8. \A c \in CtxIds : c # c0 => contexts'[c] = cs[c]
  BY <1>3, <1>4
<1>9. LET out == ReleaseOutcome(c0, b, v)
      IN  /\ out.state = "completed"
          /\ out.retain_until = now + IdempotencyTtl
          /\ out.receipt.context_id = c0
          /\ out.receipt.version = v
  BY DEF ReleaseOutcome, NoReceipt
<1>10. idempotency'[k0] = ReleaseOutcome(c0, b, v)
  BY <1>3, <1>4, <1>5
<1>11. \A k \in IdempotencyKey : k # k0 => idempotency'[k] = os[k]
  BY <1>3, <1>4
<1>12. \A k \in IdempotencyKey :
         /\ os[k].state = "busy" <=> idempotency[k].state = "busy"
         /\ os[k].state = "completed" =>
               os[k] = idempotency[k] /\ idempotency[k].retain_until > now
  BY <1>1, SweepOutcome DEF TypeOK
<1>13. \A c \in CtxIds :
         LET e == contexts[c]
             f == cs[c]
         IN  /\ f.state = "active" => f = e
             /\ e.state = "active" /\ e.reservation_id # None => f = e
             /\ \/ f = NoEntry
                \/ /\ f.owner = e.owner
                   /\ f.binding = e.binding
                   /\ f.transcript = e.transcript
                   /\ f.reservation_id = e.reservation_id
  BY <1>1, SweepMap DEF TypeOK
<1>14. v = contexts[c0].version + 1 /\ v \in Nat
  BY <1>6 DEF ContextEntry
<1> HIDE DEF cs, os, k0, v
<1>15. /\ HeldOK' /\ ReservedContextFrozen' /\ NoOrphanLock' /\ WithinQuota'
       /\ BusyIffHeld' /\ BoundedLifetime' /\ LiveUntombed' /\ TurnsCoherent'
  <2> DEFINE X == {}
  <2>1. X \in SUBSET ResvIds /\ Closes(X) /\ \A s \in X : Held(s)
    BY <1>3 DEF Closes
  <2>2. \A k \in IdempotencyKey : idempotency'[k].state = "busy" <=>
                /\ idempotency[k].state = "busy"
                /\ \A s \in X : k # <<reservations[s].owner, "complete",
                                       reservations[s].key>>
    BY <1>3, <1>5, <1>9, <1>10, <1>11, <1>12
  <2>3. \A c \in CtxIds :
             LET e == contexts[c]
                 f == contexts'[c]
             IN  /\ f.state = "active" =>
                       /\ e.state = "active" /\ f.owner = e.owner
                       /\ f.ttl_seconds = e.ttl_seconds
                       /\ f.expires_at = e.expires_at
                       /\ f.tombstone_until = e.tombstone_until
                 /\ e.state = "active" /\ e.reservation_id # None
                       /\ e.reservation_id \notin X => f = e
                 /\ f.reservation_id # None =>
                       f.reservation_id = e.reservation_id /\ f.reservation_id \notin X
                 /\ \/ f.transcript = <<>>
                    \/ /\ f.transcript = e.transcript
                       /\ f.owner = e.owner
                       /\ f.binding = e.binding
    <3>1. NoEntry.transcript = <<>> /\ NoEntry.reservation_id = None
             /\ NoEntry.state = "absent"
      BY DEF NoEntry
    <3> QED
      BY <1>3, <1>6, <1>7, <1>8, <1>13, <3>1
  <2> HIDE DEF X
  <2> QED
    BY <1>3, <2>1, <2>2, <2>3, Decaying
<1>16. ASSUME IdempotencyTtl <= TombstoneSeconds,
              NEW k \in IdempotencyKey, k # k0, idempotency'[k].state = "completed"
       PROVE  /\ idempotency'[k] = idempotency[k]
              /\ Covered(k[1], idempotency[k])
              /\ idempotency[k].retain_until > now
              /\ idempotency[k].retain_until \in Nat
  <2>1. idempotency'[k] = idempotency[k] /\ idempotency[k].retain_until > now
    BY <1>11, <1>12, <1>16
  <2> QED
    BY <1>1, <1>16, <2>1 DEF IndInv, ReceiptsCovered, TypeOK, IdempotencyEntry
<1>17. ReceiptsCovered'
  <2> SUFFICES ASSUME IdempotencyTtl <= TombstoneSeconds,
                      NEW k \in IdempotencyKey, idempotency'[k].state = "completed"
               PROVE  Covered(k[1], idempotency[k])'
    BY DEF ReceiptsCovered
  <2>1. CASE k = k0
    <3>1. k[1] = o
      BY <2>1 DEF k0
    <3>2. idempotency'[k] = ReleaseOutcome(c0, b, v)
      BY <1>10, <2>1
    <3>3. v <= contexts'[c0].version
      BY <1>7, <1>14
    <3>4. now + IdempotencyTtl <= now + TombstoneSeconds
      BY <1>1, OptionsAssumption
    <3>5. now + IdempotencyTtl <= now' + IdempotencyTtl
      BY <1>1, <1>3, OptionsAssumption
    <3> QED
      BY <1>7, <1>9, <3>1, <3>2, <3>3, <3>4, <3>5 DEF Covered
  <2>2. CASE k # k0
    <3> DEFINE out == idempotency[k]
               c == out.receipt.context_id
    <3>1. /\ idempotency'[k] = out /\ Covered(k[1], out)
          /\ out.retain_until > now /\ out.retain_until \in Nat
      BY <1>16, <2>2
    <3>2. /\ c \in CtxIds
          /\ out.retain_until <= now + IdempotencyTtl
          /\ out.receipt.version <= contexts[c].version
          /\ contexts[c].owner = k[1]
      BY <3>1 DEF Covered
    <3>3. /\ cs[c].state # "absent"
          /\ cs[c].owner = contexts[c].owner
          /\ cs[c].version = contexts[c].version
          /\ cs[c].tombstone_until # None => out.retain_until <= cs[c].tombstone_until
      BY <1>1, <3>1, <3>2, CoverSurvivesSweep DEF Covered, TypeOK, cs
    <3>4. CASE c = c0
      <4>1. out.receipt.version \in Nat /\ contexts[c0].version \in Nat
        BY <1>1, <1>6 DEF TypeOK, IdempotencyEntry, Receipt, ContextEntry
      <4>2. out.receipt.version <= contexts'[c].version
        BY <1>7, <3>2, <3>4, <4>1
      <4>3. out.retain_until <= now + TombstoneSeconds
        BY <1>1, <3>1, <3>2, OptionsAssumption
      <4> QED
        BY <1>3, <1>6, <1>7, <3>1, <3>2, <3>4, <4>2, <4>3 DEF Covered
    <3>5. CASE c # c0
      BY <1>3, <1>8, <3>1, <3>2, <3>3, <3>5 DEF Covered
    <3> QED
      BY <3>4, <3>5
  <2> QED
    BY <2>1, <2>2
<1>18. ReceiptsUnique'
  <2> SUFFICES ASSUME IdempotencyTtl <= TombstoneSeconds,
                      NEW j \in IdempotencyKey, NEW k \in IdempotencyKey, j # k,
                      idempotency'[j].state = "completed",
                      idempotency'[k].state = "completed",
                      idempotency'[j].receipt.context_id = idempotency'[k].receipt.context_id,
                      idempotency'[j].receipt.version = idempotency'[k].receipt.version
               PROVE  FALSE
    BY DEF ReceiptsUnique
  <2>1. ASSUME NEW i \in IdempotencyKey, i # k0, idempotency'[i].state = "completed",
               idempotency'[i].receipt.context_id = c0
        PROVE  idempotency'[i].receipt.version # v
    <3>1. idempotency'[i] = idempotency[i] /\ Covered(i[1], idempotency[i])
      BY <1>16, <2>1
    <3>2. idempotency[i].receipt.version <= contexts[c0].version
      BY <2>1, <3>1 DEF Covered
    <3>3. idempotency[i].receipt.version \in Nat /\ contexts[c0].version \in Nat
      BY <1>1, <1>6 DEF TypeOK, IdempotencyEntry, Receipt, ContextEntry
    <3> QED
      BY <1>14, <3>1, <3>2, <3>3
  <2>2. j # k0 /\ k # k0
    BY <1>9, <1>10, <2>1
  <2>3. idempotency'[j] = idempotency[j] /\ idempotency'[k] = idempotency[k]
    BY <1>16, <2>2
  <2> QED
    BY <2>3 DEF IndInv, ReceiptsUnique
<1> QED
  BY <1>2, <1>15, <1>17, <1>18 DEF IndInv

\* The passage of time preserves the invariant: no part of it says that a
\* deadline has not passed.
LEMMA InvTick ==
    ASSUME IndInv, Tick
    PROVE  IndInv'
<1>1. now \in Nat /\ now' = now + 1 /\ UNCHANGED <<contexts, reservations, idempotency>>
  BY DEF IndInv, TypeOK, Tick
<1>2. TypeOK' /\ HeldOK' /\ ReservedContextFrozen' /\ NoOrphanLock' /\ WithinQuota'
  BY <1>1 DEF IndInv, TypeOK, HeldOK, Held, Locks, ReservedContextFrozen, NoOrphanLock,
              WithinQuota, Live, Pending, Allocates
<1>3. BusyIffHeld' /\ LiveUntombed' /\ TurnsCoherent' /\ ReceiptsUnique'
  BY <1>1 DEF IndInv, BusyIffHeld, Held, LiveUntombed, TurnsCoherent, Coherent,
              ReceiptsUnique
<1>4. BoundedLifetime'
  <2> SUFFICES ASSUME NEW c \in CtxIds, contexts[c].state = "active"
               PROVE  /\ contexts[c].ttl_seconds \in 1..MaxTtl
                      /\ contexts[c].expires_at # None
                      /\ contexts[c].expires_at <= now + 1 + MaxTtl
    BY <1>1 DEF BoundedLifetime
  <2>1. /\ contexts[c].ttl_seconds \in 1..MaxTtl
        /\ contexts[c].expires_at # None
        /\ contexts[c].expires_at <= now + MaxTtl
    BY DEF IndInv, BoundedLifetime
  <2>2. contexts[c].expires_at \in Nat
    BY <2>1 DEF IndInv, TypeOK, ContextEntry
  <2> QED
    BY <1>1, <2>1, <2>2, OptionsAssumption
<1>5. ReceiptsCovered'
  <2> SUFFICES ASSUME IdempotencyTtl <= TombstoneSeconds,
                      NEW k \in IdempotencyKey, idempotency[k].state = "completed"
               PROVE  Covered(k[1], idempotency[k])'
    BY <1>1 DEF ReceiptsCovered
  <2>1. Covered(k[1], idempotency[k])
    BY DEF IndInv, ReceiptsCovered
  <2>2. idempotency[k].retain_until \in Nat
    BY DEF IndInv, TypeOK, IdempotencyEntry
  <2>3. idempotency[k].retain_until <= now' + IdempotencyTtl
    BY <1>1, <2>1, <2>2, OptionsAssumption DEF Covered
  <2> QED
    BY <1>1, <2>1, <2>3 DEF Covered
<1> QED
  BY <1>2, <1>3, <1>4, <1>5 DEF IndInv

\* What both forms of commit do to reservations and outcomes.
LEMMA Committing ==
    ASSUME IndInv, NEW r \in ResvIds, NEW c \in CtxIds, NEW v \in Nat,
           Held(r), Close(r), now' = now,
           idempotency' = [idempotency EXCEPT
               ![<<reservations[r].owner, "complete", reservations[r].key>>] =
                   CompletedOutcome(c, v, reservations[r])]
    PROVE  LET k0 == <<reservations[r].owner, "complete", reservations[r].key>> IN
           /\ k0 \in IdempotencyKey
           /\ \A k \in IdempotencyKey : k # k0 => idempotency'[k] = idempotency[k]
           /\ idempotency'[k0].state = "completed"
           /\ idempotency'[k0].retain_until = now + IdempotencyTtl
           /\ idempotency'[k0].receipt.context_id = c
           /\ idempotency'[k0].receipt.version = v
           /\ HeldOK'
           /\ BusyIffHeld'
           /\ \A s \in ResvIds : Held(s)' => /\ Held(s) /\ s # r
                                             /\ reservations'[s] = reservations[s]
           /\ \A s \in ResvIds :
                  reservations[s].status = "closed" => reservations'[s] = reservations[s]
           /\ \A s \in ResvIds : Held(s)' /\ reservations'[s].op = "fork" =>
                  CoherentNext(reservations'[s].base_transcript,
                               reservations'[s].owner, reservations'[s].binding)
           /\ reservations'[r].status = "closed"
           /\ reservations'[r].owner = reservations[r].owner
           /\ reservations'[r].binding = reservations[r].binding
<1> DEFINE k0 == <<reservations[r].owner, "complete", reservations[r].key>>
           X == {r}
<1>1. TypeOK
  BY DEF IndInv
<1>2. k0 \in IdempotencyKey
  BY DEF IndInv, HeldOK, IdempotencyKey, Actions
<1>3. /\ \A k \in IdempotencyKey : k # k0 => idempotency'[k] = idempotency[k]
      /\ idempotency'[k0] = CompletedOutcome(c, v, reservations[r])
  BY <1>1, <1>2 DEF TypeOK
<1>4. /\ idempotency'[k0].state = "completed"
      /\ idempotency'[k0].retain_until = now + IdempotencyTtl
      /\ idempotency'[k0].receipt.context_id = c
      /\ idempotency'[k0].receipt.version = v
  <2> DEFINE d == reservations[r]
             out == CompletedOutcome(c, v, d)
  <2> HIDE DEF d
  <2>1. /\ out.state = "completed"
        /\ out.retain_until = now + IdempotencyTtl
        /\ out.receipt.context_id = c
        /\ out.receipt.version = v
    BY DEF CompletedOutcome, NoOutcome
  <2> HIDE DEF out
  <2>2. idempotency'[k0] = out
    BY <1>3 DEF out, d
  <2> QED
    BY <2>1, <2>2
<1>5. reservations' = [reservations EXCEPT ![r].status = "closed"]
  BY DEF Close
<1>6. X \in SUBSET ResvIds /\ Closes(X) /\ \A s \in X : Held(s)
  BY <1>1, <1>5 DEF Closes, TypeOK
<1>7. \A k \in IdempotencyKey : idempotency'[k].state = "busy" <=>
          /\ idempotency[k].state = "busy"
          /\ \A s \in X : k # <<reservations[s].owner, "complete",
                                 reservations[s].key>>
  BY <1>2, <1>3, <1>4
<1>8. /\ reservations'[r].status = "closed"
      /\ reservations'[r].owner = reservations[r].owner
      /\ reservations'[r].binding = reservations[r].binding
  BY <1>1, <1>5 DEF TypeOK, ReservationData
<1> HIDE DEF X
<1>9. /\ HeldOK'
      /\ BusyIffHeld'
      /\ \A s \in ResvIds : Held(s)' => /\ Held(s) /\ s \notin X
                                        /\ reservations'[s] = reservations[s]
      /\ \A s \in ResvIds :
             reservations[s].status = "closed" => reservations'[s] = reservations[s]
      /\ \A s \in ResvIds : Held(s)' /\ reservations'[s].op = "fork" =>
             CoherentNext(reservations'[s].base_transcript,
                          reservations'[s].owner, reservations'[s].binding)
  BY <1>6, <1>7, Closing
<1>10. \A s : s \notin X => s # r
  BY DEF X
<1> QED
  BY <1>2, <1>3, <1>4, <1>8, <1>9, <1>10

\* Appending the turn of r to a coherent transcript keeps it coherent.
LEMMA AppendCoherent ==
    ASSUME NEW t \in Seq(ResvIds), NEW r \in ResvIds, NEW o, NEW b,
           CoherentNext(t, o, b), reservations'[r].status = "closed",
           reservations'[r].owner = o, reservations'[r].binding = b
    PROVE  CoherentNext(Append(t, r), o, b) /\ CoherentNext(<<r>>, o, b)
<1>1. CoherentNext(<<r>>, o, b)
  BY DEF CoherentNext
<1>2. ASSUME NEW i \in DOMAIN Append(t, r)
      PROVE  Append(t, r)[i] = r \/ (i \in DOMAIN t /\ Append(t, r)[i] = t[i])
  OBVIOUS
<1> QED
  BY <1>1, <1>2 DEF CoherentNext

\* commit of a create or a fork preserves the invariant.
LEMMA InvCommitNew ==
    ASSUME IndInv, NEW r \in ResvIds, NEW c0 \in CtxIds, CommitNew(r, c0)
    PROVE  IndInv'
<1> DEFINE d == reservations[r]
           k0 == <<d.owner, "complete", d.key>>
<1>1. TypeOK /\ now \in Nat
  BY DEF IndInv, TypeOK
<1>2. TypeOK'
  BY <1>1, TypeCommitNew
<1>3. /\ Held(r) /\ d.op \in {"create", "fork"}
      /\ contexts[c0].state = "absent"
      /\ contexts' = [contexts EXCEPT ![c0] = NewEntry(r, d)]
      /\ idempotency' = [idempotency EXCEPT ![k0] = CompletedOutcome(c0, 1, d)]
      /\ Close(r)
      /\ now' = now
  BY DEF CommitNew, Held
<1>4. /\ k0 \in IdempotencyKey
      /\ \A k \in IdempotencyKey : k # k0 => idempotency'[k] = idempotency[k]
      /\ idempotency'[k0].state = "completed"
      /\ idempotency'[k0].retain_until = now + IdempotencyTtl
      /\ idempotency'[k0].receipt.context_id = c0
      /\ idempotency'[k0].receipt.version = 1
      /\ HeldOK'
      /\ BusyIffHeld'
      /\ \A s \in ResvIds : Held(s)' => /\ Held(s) /\ s # r
                                        /\ reservations'[s] = reservations[s]
      /\ \A s \in ResvIds :
             reservations[s].status = "closed" => reservations'[s] = reservations[s]
      /\ \A s \in ResvIds : Held(s)' /\ reservations'[s].op = "fork" =>
             CoherentNext(reservations'[s].base_transcript,
                          reservations'[s].owner, reservations'[s].binding)
      /\ reservations'[r].status = "closed"
      /\ reservations'[r].owner = d.owner
      /\ reservations'[r].binding = d.binding
  BY <1>3, Committing
<1>5. \A c \in CtxIds : c # c0 => contexts'[c] = contexts[c]
  BY <1>1, <1>3 DEF TypeOK
<1>6. contexts'[c0] = NewEntry(r, d)
  BY <1>1, <1>3 DEF TypeOK
<1>7. d \in ReservationData /\ d.effective_ttl \in 1..MaxTtl
  BY <1>1, <1>3 DEF TypeOK, IndInv, HeldOK
<1>8. LET f == contexts'[c0] IN
      /\ f.state = "active" /\ f.owner = d.owner /\ f.version = 1
      /\ f.binding = d.binding
      /\ f.transcript = IF d.op = "fork" THEN Append(d.base_transcript, r) ELSE <<r>>
      /\ f.ttl_seconds = d.effective_ttl /\ f.expires_at = now + d.effective_ttl
      /\ f.tombstone_until = None /\ f.reservation_id = None
  <2>1. d.effective_ttl # None
    BY <1>7, NoneAssumption, OptionsAssumption
  <2> QED
    BY <1>6, <2>1 DEF NewEntry, Expiry, TtlSeconds
<1> HIDE DEF d, k0
<1>9. ReservedContextFrozen'
  <2> SUFFICES ASSUME NEW s \in ResvIds, Locks(s)'
               PROVE  LET x == reservations'[s]
                          e == contexts'[x.context_id]
                      IN  /\ x.context_id \in CtxIds
                          /\ e.state = "active"
                          /\ e.owner = x.owner
                          /\ e.reservation_id = s
                          /\ e.version = x.base_version
                          /\ e.transcript = x.base_transcript
                          /\ x.op = "append" => e.binding = x.binding
    BY DEF ReservedContextFrozen
  <2>1. Locks(s) /\ reservations'[s] = reservations[s]
    BY <1>4 DEF Locks
  <2> DEFINE x == reservations[s]
             e == contexts[x.context_id]
  <2>2. /\ x.context_id \in CtxIds
        /\ e.state = "active"
        /\ e.owner = x.owner
        /\ e.reservation_id = s
        /\ e.version = x.base_version
        /\ e.transcript = x.base_transcript
        /\ x.op = "append" => e.binding = x.binding
    BY <2>1 DEF IndInv, ReservedContextFrozen
  <2>3. contexts'[x.context_id] = e
    BY <1>3, <1>5, <2>2
  <2> QED
    BY <2>1, <2>2, <2>3
<1>10. NoOrphanLock'
  <2> SUFFICES ASSUME NEW c \in CtxIds, contexts'[c].reservation_id # None
               PROVE  /\ Locks(contexts[c].reservation_id)'
                      /\ reservations'[contexts'[c].reservation_id].context_id = c
    BY DEF NoOrphanLock
  <2> DEFINE s == contexts[c].reservation_id
  <2>1. contexts'[c] = contexts[c] /\ s # None
    BY <1>5, <1>8
  <2>2. Locks(s) /\ reservations[s].context_id = c /\ s \in ResvIds
    BY <1>1, <2>1 DEF IndInv, NoOrphanLock, TypeOK, ContextEntry
  <2>3. s # r
    BY <1>3, <2>2 DEF Locks, d
  <2>4. reservations'[s] = reservations[s]
    BY <1>1, <1>3, <2>2, <2>3 DEF Close, TypeOK
  <2> QED
    BY <2>1, <2>2, <2>4 DEF Locks, Held
<1>11. WithinQuota'
  <2> SUFFICES ASSUME NEW o \in Owners
               PROVE  Cardinality(Live(contexts, o)') + Cardinality(Pending(o)')
                        <= MaxContexts
    BY DEF WithinQuota, Live
  <2> DEFINE L1 == Live(contexts, o)
             P1 == Pending(o)
             L2 == Live(contexts, o)'
             P2 == Pending(o)'
  <2>1. L1 \in SUBSET CtxIds /\ P1 \in SUBSET ResvIds
    BY DEF Live, Pending
  <2>2. Cardinality(L1) + Cardinality(P1) <= MaxContexts
    BY DEF IndInv, WithinQuota
  <2>3. c0 \notin L1
    BY <1>3 DEF Live
  <2>4. CASE o = d.owner
    <3>1. L2 = L1 \cup {c0}
      BY <1>5, <1>8, <2>4 DEF Live
    <3>2. r \in P1
      BY <1>3, <2>4 DEF Pending, Allocates, Held, d
    <3>3. P2 = P1 \ {r}
      <4>1. r \notin P2
        BY <1>4 DEF Pending, Allocates
      <4>2. \A s \in ResvIds : s # r => reservations'[s] = reservations[s]
        BY <1>1, <1>3 DEF Close, TypeOK
      <4> QED
        BY <4>1, <4>2 DEF Pending, Allocates
    <3> HIDE DEF L1, L2, P1, P2
    <3>4. Cardinality(L2) + Cardinality(P2) = Cardinality(L1) + Cardinality(P1)
      BY <2>1, <2>3, <3>1, <3>2, <3>3, QuotaMoves
    <3>5. Cardinality(L2) + Cardinality(P2) <= MaxContexts
      BY <2>2, <3>4
    <3> QED
      BY <3>5 DEF L2, P2
  <2>5. CASE o # d.owner
    <3>1. L2 = L1
      BY <1>3, <1>5, <1>8, <2>5 DEF Live
    <3>2. P2 \in SUBSET P1
      BY <1>4 DEF Pending, Allocates, Held
    <3> HIDE DEF L1, L2, P1, P2
    <3>3. /\ Cardinality(L2) + Cardinality(P2) <= Cardinality(L1) + Cardinality(P1)
          /\ Cardinality(L1) \in Nat /\ Cardinality(P1) \in Nat
          /\ Cardinality(L2) \in Nat /\ Cardinality(P2) \in Nat
      <4>1. L2 \in SUBSET L1
        BY <3>1
      <4> QED
        BY <2>1, <3>2, <4>1, QuotaShrinks
    <3>4. Cardinality(L2) + Cardinality(P2) <= MaxContexts
      BY <2>2, <3>3, OptionsAssumption
    <3> QED
      BY <3>4 DEF L2, P2
  <2> QED
    BY <2>4, <2>5
<1>12. BoundedLifetime' /\ LiveUntombed'
  <2>1. now + d.effective_ttl <= now + MaxTtl /\ now + d.effective_ttl # None
    BY <1>1, <1>7, NoneAssumption, OptionsAssumption
  <2> QED
    BY <1>3, <1>5, <1>7, <1>8, <2>1 DEF IndInv, BoundedLifetime, LiveUntombed
<1>13. ASSUME NEW c \in CtxIds
       PROVE  CoherentNext(contexts'[c].transcript, contexts'[c].owner,
                           contexts'[c].binding)
  <2>1. CASE c = c0
    <3>1. d.base_transcript \in Seq(ResvIds)
      BY <1>7 DEF ReservationData
    <3>2. CASE d.op = "fork"
      <4>1. Coherent(d.base_transcript, d.owner, d.binding)
        BY <1>3, <3>2 DEF IndInv, TurnsCoherent, d
      <4>2. CoherentNext(d.base_transcript, d.owner, d.binding)
        BY <1>4, <3>1, <4>1, CoherentKept
      <4>3. CoherentNext(Append(d.base_transcript, r), d.owner, d.binding)
        BY <1>4, <3>1, <4>2, AppendCoherent
      <4> QED
        BY <1>8, <2>1, <3>2, <4>3
    <3>3. CASE d.op # "fork"
      <4>1. CoherentNext(<<r>>, d.owner, d.binding)
        BY <1>4 DEF CoherentNext
      <4> QED
        BY <1>8, <2>1, <3>3, <4>1
    <3> QED
      BY <3>2, <3>3
  <2>2. CASE c # c0
    <3>1. contexts[c].transcript \in Seq(ResvIds)
      BY <1>1 DEF TypeOK, ContextEntry
    <3>2. Coherent(contexts[c].transcript, contexts[c].owner, contexts[c].binding)
      BY DEF IndInv, TurnsCoherent
    <3>3. CoherentNext(contexts[c].transcript, contexts[c].owner, contexts[c].binding)
      BY <1>4, <3>1, <3>2, CoherentKept
    <3> QED
      BY <1>5, <2>2, <3>3
  <2> QED
    BY <2>1, <2>2
<1>14. TurnsCoherent'
  BY <1>4, <1>13 DEF TurnsCoherent, Coherent, CoherentNext
<1>15. ASSUME IdempotencyTtl <= TombstoneSeconds,
              NEW k \in IdempotencyKey, k # k0, idempotency'[k].state = "completed"
       PROVE  /\ idempotency'[k] = idempotency[k]
              /\ Covered(k[1], idempotency[k])
              /\ idempotency[k].receipt.context_id # c0
  <2>1. idempotency'[k] = idempotency[k] /\ Covered(k[1], idempotency[k])
    BY <1>4, <1>15 DEF IndInv, ReceiptsCovered
  <2> QED
    BY <1>3, <2>1 DEF Covered
<1>16. ReceiptsCovered'
  <2> SUFFICES ASSUME IdempotencyTtl <= TombstoneSeconds,
                      NEW k \in IdempotencyKey, idempotency'[k].state = "completed"
               PROVE  Covered(k[1], idempotency[k])'
    BY DEF ReceiptsCovered
  <2>1. CASE k = k0
    <3>1. k[1] = d.owner
      BY <2>1 DEF k0
    <3>2. now + IdempotencyTtl <= now' + IdempotencyTtl
      BY <1>1, <1>3, OptionsAssumption
    <3> QED
      BY <1>4, <1>8, <2>1, <3>1, <3>2 DEF Covered
  <2>2. CASE k # k0
    BY <1>3, <1>5, <1>15, <2>2 DEF Covered
  <2> QED
    BY <2>1, <2>2
<1>17. ReceiptsUnique'
  <2> SUFFICES ASSUME IdempotencyTtl <= TombstoneSeconds,
                      NEW j \in IdempotencyKey, NEW k \in IdempotencyKey, j # k,
                      idempotency'[j].state = "completed",
                      idempotency'[k].state = "completed",
                      idempotency'[j].receipt.context_id = idempotency'[k].receipt.context_id,
                      idempotency'[j].receipt.version = idempotency'[k].receipt.version
               PROVE  FALSE
    BY DEF ReceiptsUnique
  <2>1. j # k0 /\ k # k0
    BY <1>4, <1>15
  <2>2. idempotency'[j] = idempotency[j] /\ idempotency'[k] = idempotency[k]
    BY <1>15, <2>1
  <2> QED
    BY <2>2 DEF IndInv, ReceiptsUnique
<1> QED
  BY <1>2, <1>4, <1>9, <1>10, <1>11, <1>12, <1>14, <1>16, <1>17 DEF IndInv

\* commit of an append or a reset preserves the invariant: the context it
\* finds is the one the reservation was made against.
LEMMA InvCommitInPlace ==
    ASSUME IndInv, NEW r \in ResvIds, CommitInPlace(r)
    PROVE  IndInv'
<1> DEFINE d == reservations[r]
           c0 == d.context_id
           k0 == <<d.owner, "complete", d.key>>
           v == contexts[c0].version + 1
<1>1. TypeOK /\ now \in Nat
  BY DEF IndInv, TypeOK
<1>2. TypeOK'
  BY <1>1, TypeCommitInPlace DEF IndInv
<1>3. /\ Held(r) /\ d.op \in {"append", "reset"}
      /\ contexts' = [contexts EXCEPT ![c0] = MutatedEntry(contexts[c0], r, d)]
      /\ idempotency' = [idempotency EXCEPT ![k0] = CompletedOutcome(c0, v, d)]
      /\ Close(r)
      /\ now' = now
  BY DEF CommitInPlace, Held
<1>4. LET e == contexts[c0] IN
      /\ c0 \in CtxIds
      /\ e.state = "active" /\ e.owner = d.owner /\ e.reservation_id = r
      /\ e.version = d.base_version /\ e.transcript = d.base_transcript
      /\ d.op = "append" => e.binding = d.binding
      /\ e.tombstone_until = None
  BY <1>3 DEF IndInv, ReservedContextFrozen, Locks, LiveUntombed
<1>5. contexts[c0] \in ContextEntry /\ contexts[c0].version \in Nat /\ v \in Nat
  BY <1>1, <1>4 DEF TypeOK, ContextEntry
<1>6. /\ k0 \in IdempotencyKey
      /\ \A k \in IdempotencyKey : k # k0 => idempotency'[k] = idempotency[k]
      /\ idempotency'[k0].state = "completed"
      /\ idempotency'[k0].retain_until = now + IdempotencyTtl
      /\ idempotency'[k0].receipt.context_id = c0
      /\ idempotency'[k0].receipt.version = v
      /\ HeldOK'
      /\ BusyIffHeld'
      /\ \A s \in ResvIds : Held(s)' => /\ Held(s) /\ s # r
                                        /\ reservations'[s] = reservations[s]
      /\ \A s \in ResvIds :
             reservations[s].status = "closed" => reservations'[s] = reservations[s]
      /\ \A s \in ResvIds : Held(s)' /\ reservations'[s].op = "fork" =>
             CoherentNext(reservations'[s].base_transcript,
                          reservations'[s].owner, reservations'[s].binding)
      /\ reservations'[r].status = "closed"
      /\ reservations'[r].owner = d.owner
      /\ reservations'[r].binding = d.binding
  BY <1>3, <1>4, <1>5, Committing
<1>7. d \in ReservationData /\ d.effective_ttl \in 1..MaxTtl
  BY <1>1, <1>3 DEF TypeOK, IndInv, HeldOK
<1>8. Expiry(d) = now + d.effective_ttl /\ TtlSeconds(d) = d.effective_ttl
  BY <1>7, NoneAssumption, OptionsAssumption DEF Expiry, TtlSeconds
<1>9. \A c \in CtxIds : c # c0 => contexts'[c] = contexts[c]
  BY <1>1, <1>3 DEF TypeOK
<1>10. LET f == contexts'[c0]
           e == contexts[c0]
       IN  /\ f.state = "active" /\ f.owner = d.owner /\ f.version = v
           /\ f.binding = d.binding
           /\ f.transcript = IF d.op = "reset" THEN <<r>> ELSE Append(e.transcript, r)
           /\ f.ttl_seconds = d.effective_ttl
           /\ f.expires_at = now + d.effective_ttl
           /\ f.tombstone_until = None /\ f.reservation_id = None
  <2>1. contexts'[c0] = MutatedEntry(contexts[c0], r, d)
    BY <1>1, <1>3, <1>4 DEF TypeOK
  <2> DEFINE e == contexts[c0]
  <2>2. e \in ContextEntry
    BY <1>5
  <2>3. v = e.version + 1
    OBVIOUS
  <2> HIDE DEF d, e, v
  <2>4. LET f == MutatedEntry(e, r, d) IN
        /\ f.state = "active" /\ f.owner = e.owner /\ f.version = v
        /\ f.binding = IF d.op = "reset" THEN d.binding ELSE e.binding
        /\ f.transcript = IF d.op = "reset" THEN <<r>> ELSE Append(e.transcript, r)
        /\ f.ttl_seconds = TtlSeconds(d)
        /\ f.expires_at = Expiry(d)
        /\ f.tombstone_until = e.tombstone_until /\ f.reservation_id = None
    BY <2>2, <2>3 DEF MutatedEntry, ContextEntry
  <2> QED
    BY <1>3, <1>4, <1>8, <2>1, <2>4 DEF e
<1> HIDE DEF d, c0, k0, v
<1>11. ASSUME NEW s \in ResvIds, s # r, Locks(s)
       PROVE  reservations[s].context_id # c0
  <2>1. contexts[reservations[s].context_id].reservation_id = s
    BY <1>11 DEF IndInv, ReservedContextFrozen
  <2> QED
    BY <1>4, <1>11, <2>1
<1>12. ReservedContextFrozen'
  <2> SUFFICES ASSUME NEW s \in ResvIds, Locks(s)'
               PROVE  LET x == reservations'[s]
                          e == contexts'[x.context_id]
                      IN  /\ x.context_id \in CtxIds
                          /\ e.state = "active"
                          /\ e.owner = x.owner
                          /\ e.reservation_id = s
                          /\ e.version = x.base_version
                          /\ e.transcript = x.base_transcript
                          /\ x.op = "append" => e.binding = x.binding
    BY DEF ReservedContextFrozen
  <2>1. Locks(s) /\ s # r /\ reservations'[s] = reservations[s]
    BY <1>6 DEF Locks
  <2> DEFINE x == reservations[s]
             e == contexts[x.context_id]
  <2>2. /\ x.context_id \in CtxIds
        /\ e.state = "active"
        /\ e.owner = x.owner
        /\ e.reservation_id = s
        /\ e.version = x.base_version
        /\ e.transcript = x.base_transcript
        /\ x.op = "append" => e.binding = x.binding
    BY <2>1 DEF IndInv, ReservedContextFrozen
  <2>3. contexts'[x.context_id] = e
    BY <1>9, <1>11, <2>1, <2>2
  <2> QED
    BY <2>1, <2>2, <2>3
<1>13. NoOrphanLock'
  <2> SUFFICES ASSUME NEW c \in CtxIds, contexts'[c].reservation_id # None
               PROVE  /\ Locks(contexts[c].reservation_id)'
                      /\ reservations'[contexts'[c].reservation_id].context_id = c
    BY DEF NoOrphanLock
  <2> DEFINE s == contexts[c].reservation_id
  <2>1. c # c0 /\ contexts'[c] = contexts[c] /\ s # None
    BY <1>9, <1>10
  <2>2. Locks(s) /\ reservations[s].context_id = c /\ s \in ResvIds
    BY <1>1, <2>1 DEF IndInv, NoOrphanLock, TypeOK, ContextEntry
  <2>3. s # r
    BY <2>1, <2>2 DEF c0, d
  <2>4. reservations'[s] = reservations[s]
    BY <1>1, <1>3, <2>2, <2>3 DEF Close, TypeOK
  <2> QED
    BY <2>1, <2>2, <2>4 DEF Locks, Held
<1>14. WithinQuota'
  <2> SUFFICES ASSUME NEW o \in Owners
               PROVE  Cardinality(Live(contexts, o)') + Cardinality(Pending(o)')
                        <= MaxContexts
    BY DEF WithinQuota, Live
  <2>1. Live(contexts, o)' = Live(contexts, o)
    BY <1>4, <1>9, <1>10 DEF Live
  <2>2. Pending(o)' = Pending(o)
    <3>1. \A s \in ResvIds : s # r => reservations'[s] = reservations[s]
      BY <1>1, <1>3 DEF Close, TypeOK
    <3>2. ~Allocates(r) /\ ~Allocates(r)'
      BY <1>3, <1>6 DEF Allocates, d
    <3> QED
      BY <3>1, <3>2 DEF Pending, Allocates
  <2> QED
    BY <2>1, <2>2 DEF IndInv, WithinQuota
<1>15. BoundedLifetime' /\ LiveUntombed'
  <2>1. now + d.effective_ttl <= now + MaxTtl /\ now + d.effective_ttl # None
    BY <1>1, <1>7, NoneAssumption, OptionsAssumption
  <2> QED
    BY <1>3, <1>9, <1>7, <1>10, <2>1 DEF IndInv, BoundedLifetime, LiveUntombed
<1>16. ASSUME NEW c \in CtxIds
       PROVE  CoherentNext(contexts'[c].transcript, contexts'[c].owner,
                           contexts'[c].binding)
  <2>1. contexts[c].transcript \in Seq(ResvIds)
    BY <1>1 DEF TypeOK, ContextEntry
  <2>2. Coherent(contexts[c].transcript, contexts[c].owner, contexts[c].binding)
    BY DEF IndInv, TurnsCoherent
  <2>3. CoherentNext(contexts[c].transcript, contexts[c].owner, contexts[c].binding)
    BY <1>6, <2>1, <2>2, CoherentKept
  <2>4. CASE c = c0
    <3>1. CASE d.op = "append"
      <4>1. CoherentNext(contexts[c0].transcript, d.owner, d.binding)
        BY <1>4, <2>3, <2>4, <3>1
      <4>2. CoherentNext(Append(contexts[c0].transcript, r), d.owner, d.binding)
        BY <1>6, <2>1, <2>4, <4>1, AppendCoherent
      <4> QED
        BY <1>10, <2>4, <3>1, <4>2
    <3>2. CASE d.op = "reset"
      <4>1. CoherentNext(<<r>>, d.owner, d.binding)
        BY <1>6 DEF CoherentNext
      <4> QED
        BY <1>10, <2>4, <3>2, <4>1
    <3> QED
      BY <1>3, <3>1, <3>2
  <2>5. CASE c # c0
    BY <1>9, <2>3, <2>5
  <2> QED
    BY <2>4, <2>5
<1>17. TurnsCoherent'
  BY <1>6, <1>16 DEF TurnsCoherent, Coherent, CoherentNext
<1>18. ASSUME IdempotencyTtl <= TombstoneSeconds,
              NEW k \in IdempotencyKey, k # k0, idempotency'[k].state = "completed"
       PROVE  /\ idempotency'[k] = idempotency[k]
              /\ Covered(k[1], idempotency[k])
              /\ idempotency[k].receipt.version \in Nat
              /\ idempotency[k].receipt.context_id = c0 =>
                    idempotency[k].receipt.version < v
  <2>1. idempotency'[k] = idempotency[k] /\ Covered(k[1], idempotency[k])
    BY <1>6, <1>18 DEF IndInv, ReceiptsCovered
  <2>2. idempotency[k].receipt.version \in Nat
    BY <1>1 DEF TypeOK, IdempotencyEntry, Receipt
  <2> QED
    BY <1>5, <2>1, <2>2 DEF Covered, v
<1>19. ReceiptsCovered'
  <2> SUFFICES ASSUME IdempotencyTtl <= TombstoneSeconds,
                      NEW k \in IdempotencyKey, idempotency'[k].state = "completed"
               PROVE  Covered(k[1], idempotency[k])'
    BY DEF ReceiptsCovered
  <2>1. CASE k = k0
    <3>1. k[1] = d.owner
      BY <2>1 DEF k0
    <3>2. now + IdempotencyTtl <= now' + IdempotencyTtl /\ v <= v
      BY <1>1, <1>3, <1>5, OptionsAssumption
    <3> QED
      BY <1>4, <1>6, <1>10, <2>1, <3>1, <3>2 DEF Covered
  <2>2. CASE k # k0
    <3>1. /\ idempotency'[k] = idempotency[k]
          /\ Covered(k[1], idempotency[k])
          /\ idempotency[k].receipt.version \in Nat
          /\ idempotency[k].receipt.context_id = c0 =>
                idempotency[k].receipt.version < v
      BY <1>18, <2>2
    <3>2. CASE idempotency[k].receipt.context_id = c0
      <4>1. idempotency[k].receipt.version <= v
        BY <1>5, <3>1, <3>2
      <4> QED
        BY <1>3, <1>4, <1>10, <3>1, <3>2, <4>1 DEF Covered
    <3>3. CASE idempotency[k].receipt.context_id # c0
      BY <1>3, <1>9, <3>1, <3>3 DEF Covered
    <3> QED
      BY <3>2, <3>3
  <2> QED
    BY <2>1, <2>2
<1>20. ReceiptsUnique'
  <2> SUFFICES ASSUME IdempotencyTtl <= TombstoneSeconds,
                      NEW j \in IdempotencyKey, NEW k \in IdempotencyKey, j # k,
                      idempotency'[j].state = "completed",
                      idempotency'[k].state = "completed",
                      idempotency'[j].receipt.context_id = idempotency'[k].receipt.context_id,
                      idempotency'[j].receipt.version = idempotency'[k].receipt.version
               PROVE  FALSE
    BY DEF ReceiptsUnique
  <2>1. ASSUME NEW i \in IdempotencyKey, i # k0, idempotency'[i].state = "completed",
               idempotency'[i].receipt.context_id = c0
        PROVE  idempotency'[i].receipt.version # v
    <3>1. /\ idempotency'[i] = idempotency[i]
          /\ idempotency[i].receipt.version \in Nat
          /\ idempotency[i].receipt.version < v
      BY <1>18, <2>1
    <3> QED
      BY <1>5, <3>1
  <2>2. j # k0 /\ k # k0
    BY <1>6, <2>1
  <2>3. idempotency'[j] = idempotency[j] /\ idempotency'[k] = idempotency[k]
    BY <1>18, <2>2
  <2> QED
    BY <2>3 DEF IndInv, ReceiptsUnique
<1> QED
  BY <1>2, <1>6, <1>12, <1>13, <1>14, <1>15, <1>17, <1>19, <1>20 DEF IndInv

\* The invariant holds initially.
LEMMA InvInit == Init => IndInv
<1> SUFFICES ASSUME Init PROVE IndInv
  OBVIOUS
<1>1. TypeOK
  BY TypeInit
<1>2. /\ \A c \in CtxIds : contexts[c] = NoEntry
      /\ \A r \in ResvIds : reservations[r] = NoReservation
      /\ \A k \in IdempotencyKey : idempotency[k] = NoOutcome
  BY DEF Init
<1>3. /\ NoEntry.state = "absent" /\ NoEntry.transcript = <<>>
      /\ NoEntry.reservation_id = None
      /\ NoReservation.status = "unissued" /\ NoOutcome.state = "absent"
  BY DEF NoEntry, NoReservation, NoOutcome
<1>4. HeldOK /\ ReservedContextFrozen /\ NoOrphanLock /\ BoundedLifetime /\ LiveUntombed
  BY <1>2, <1>3
  DEF HeldOK, ReservedContextFrozen, Locks, Held, NoOrphanLock, BoundedLifetime,
      LiveUntombed
<1>5. BusyIffHeld
  <2>1. \A o \in Owners, key \in Keys : <<o, "complete", key>> \in IdempotencyKey
    BY DEF IdempotencyKey, Actions
  <2> QED
    BY <1>2, <1>3, <2>1 DEF BusyIffHeld, Held
<1>6. WithinQuota
  <2> SUFFICES ASSUME NEW o \in Owners
               PROVE  Cardinality(Live(contexts, o)) + Cardinality(Pending(o)) <= MaxContexts
    BY DEF WithinQuota
  <2>1. Live(contexts, o) = {} /\ Pending(o) = {}
    BY <1>2, <1>3 DEF Live, Pending, Allocates
  <2>2. Cardinality(Live(contexts, o)) = 0 /\ Cardinality(Pending(o)) = 0
    BY <2>1, FS_EmptySet
  <2> QED
    BY <2>2, OptionsAssumption
<1>7. TurnsCoherent
  BY <1>2, <1>3 DEF TurnsCoherent, Coherent, Held
<1>8. ReceiptsCovered /\ ReceiptsUnique
  BY <1>2, <1>3 DEF ReceiptsCovered, ReceiptsUnique
<1> QED
  BY <1>1, <1>4, <1>5, <1>6, <1>7, <1>8 DEF IndInv

\* Every step preserves the invariant.
LEMMA InvNext == IndInv /\ [Next]_vars => IndInv'
<1> SUFFICES ASSUME IndInv, [Next]_vars PROVE IndInv'
  OBVIOUS
<1>1. CASE \E q \in Requests, r \in ResvIds : Reserve(q, r)
  BY <1>1, InvReserve
<1>2. CASE \E r \in ResvIds, c \in CtxIds : CommitNew(r, c)
  BY <1>2, InvCommitNew
<1>3. CASE \E r \in ResvIds : CommitInPlace(r)
  BY <1>3, InvCommitInPlace
<1>4. CASE \E r \in ResvIds : Abort(r)
  BY <1>4, InvAbort
<1>5. CASE \E o \in Owners, c \in CtxIds, b \in BaseVersions, key \in Keys :
              Release(o, c, b, key)
  BY <1>5, InvRelease
<1>6. CASE SweepExpired
  BY <1>6, InvSweepExpired
<1>7. CASE Tick
  BY <1>7, InvTick
<1>8. CASE UNCHANGED vars
  BY <1>8 DEF vars, IndInv, TypeOK, HeldOK, Held, Locks, ReservedContextFrozen,
      NoOrphanLock, WithinQuota, Live, Pending, Allocates, BusyIffHeld,
      BoundedLifetime, LiveUntombed, TurnsCoherent, Coherent, ReceiptsCovered,
      Covered, ReceiptsUnique
<1> QED
  BY <1>1, <1>2, <1>3, <1>4, <1>5, <1>6, <1>7, <1>8 DEF Next

-----------------------------------------------------------------------------
(* The theorems                                                            *)

\* The inductive invariant holds in every reachable state of the store.
THEOREM Invariant == Spec => []IndInv
<1> QED
  BY InvInit, InvNext, PTL DEF Spec

\* The three maps and the clock always have their types.
THEOREM TypeCorrect == Spec => []TypeOK
<1>1. IndInv => TypeOK
  BY DEF IndInv
<1> QED
  BY <1>1, Invariant, PTL

\* A context reserved for an append or a reset stays exactly as the provider
\* saw it until commit or abort, and every lock belongs to a live reservation.
THEOREM Exclusive == Spec => []ReservationExclusive
<1>1. IndInv => ReservationExclusive
  BY DEF IndInv, ReservationExclusive
<1> QED
  BY <1>1, Invariant, PTL

\* No principal ever has more live and pending contexts than the quota.
THEOREM Quota == Spec => []WithinQuota
<1>1. IndInv => WithinQuota
  BY DEF IndInv
<1> QED
  BY <1>1, Invariant, PTL

\* A key is busy exactly while its one reservation is held.
THEOREM Busy == Spec => []BusyIffHeld
<1>1. IndInv => BusyIffHeld
  BY DEF IndInv
<1> QED
  BY <1>1, Invariant, PTL

\* Every live context has a deadline no further than max_ttl_seconds away.
THEOREM Lifetime == Spec => []BoundedLifetime
<1>1. IndInv => BoundedLifetime
  BY DEF IndInv
<1> QED
  BY <1>1, Invariant, PTL

\* Transcripts never mix owners or bindings.
THEOREM Coherence == Spec => []TranscriptCoherent
<1>1. IndInv => TranscriptCoherent
  BY DEF IndInv, TurnsCoherent, Coherent, TranscriptCoherent
<1> QED
  BY <1>1, Invariant, PTL

\* Every version of a context was won by one request.
THEOREM Unique == Spec => []ReceiptsUnique
<1>1. IndInv => ReceiptsUnique
  BY DEF IndInv
<1> QED
  BY <1>1, Invariant, PTL

\* With tombstones kept as long as outcomes, status by key says "active" only
\* of a live context of the caller: its receipt is covered, so the fallback on
\* the receipt is never taken.
LEMMA InvTruthful == IndInv => StatusTruthful
<1> SUFFICES ASSUME IndInv, IdempotencyTtl <= TombstoneSeconds,
                    NEW o \in Owners, NEW key \in Keys,
                    StatusByKey(o, key) = "active"
             PROVE  LET c == SweepOutcomes(idempotency)[<<o, "complete", key>>]
                               .receipt.context_id
                    IN  /\ SweepContexts(contexts)[c].state = "active"
                        /\ contexts[c].owner = o
  BY DEF StatusTruthful
<1> DEFINE k == <<o, "complete", key>>
           out == SweepOutcomes(idempotency)[k]
           c == out.receipt.context_id
           f == SweepContexts(contexts)[c]
<1>1. TypeOK /\ now \in Nat /\ k \in IdempotencyKey /\ k[1] = o
  BY DEF IndInv, TypeOK, IdempotencyKey, Actions
<1>2. out.state = "completed"
  <2>1. out \in IdempotencyEntry
    BY <1>1, SweepType DEF TypeOK
  <2> QED
    BY <2>1 DEF StatusByKey, IdempotencyEntry
<1>3. out = idempotency[k] /\ out.retain_until > now /\ out.retain_until \in Nat
  BY <1>1, <1>2, SweepOutcome DEF TypeOK, IdempotencyEntry
<1>4. Covered(o, out)
  BY <1>1, <1>2, <1>3 DEF IndInv, ReceiptsCovered
<1>5. c \in CtxIds /\ f.state # "absent" /\ f.owner = contexts[c].owner
  BY <1>1, <1>3, <1>4, CoverSurvivesSweep DEF Covered, TypeOK
<1>6. StatusByContext(o, c) = "active"
  BY <1>2, <1>5 DEF StatusByKey
<1>7. f.state = "active" /\ f.owner = o
  BY <1>5, <1>6 DEF StatusByContext
<1> QED
  BY <1>5, <1>7

\* Status by idempotency key tells the truth in every reachable state.
THEOREM Truthful == Spec => []StatusTruthful
<1> QED
  BY InvTruthful, Invariant, PTL

\* What the sweep does to tombstones and to live contexts.
LEMMA SweepSteps ==
    ASSUME TypeOK, NEW c \in CtxIds
    PROVE  LET e == contexts[c]
               f == SweepContexts(contexts)[c]
           IN  /\ e.state \in {"expired", "released"} =>
                     f = e \/ (f = NoEntry /\ e.tombstone_until <= now)
               /\ e.state = "active" /\ f.state # "absent" =>
                     /\ f.version = e.version /\ f.transcript = e.transcript
                     /\ f.binding = e.binding /\ f.state # "released"
<1> DEFINE e == contexts[c]
           f == SweepContexts(contexts)[c]
<1>1. f = DropTombstone(Expire(e)) /\ e \in ContextEntry
  BY DEF SweepContexts, TypeOK
<1>2. e.state \in {"expired", "released"} =>
        f = e \/ (f = NoEntry /\ e.tombstone_until <= now)
  BY <1>1 DEF Expire, ExpiryDue, DropTombstone, TombstoneDue
<1>3. e.state = "active" /\ f.state # "absent" =>
        f.version = e.version /\ f.transcript = e.transcript /\ f.binding = e.binding
  BY SweepMap DEF TypeOK, NoEntry
<1>4. e.state = "active" => f.state # "released"
  <2>1. e.state = "active" => Expire(e).state # "released"
    BY <1>1 DEF Expire, ContextEntry
  <2> QED
    BY <1>1, <2>1 DEF DropTombstone, NoEntry
<1> QED
  BY <1>2, <1>3, <1>4

\* No step revives or forgets a tombstone, or changes a context without moving
\* its version by one.
LEMMA ContextSteps == IndInv /\ [Next]_vars => TombstoneStep /\ VersionStep
<1> SUFFICES ASSUME IndInv, [Next]_vars, NEW c \in CtxIds
             PROVE  LET e == contexts[c]
                        f == contexts'[c]
                    IN  /\ e.state \in {"expired", "released"} =>
                              f = e \/ (f = NoEntry /\ e.tombstone_until <= now)
                        /\ e.state = "active" /\ f.state # "absent" =>
                              /\ f.version \in {e.version, e.version + 1}
                              /\ f.version = e.version =>
                                    /\ f.transcript = e.transcript
                                    /\ f.binding = e.binding
                                    /\ f.state # "released"
  BY DEF TombstoneStep, VersionStep
<1> DEFINE e == contexts[c]
           f == contexts'[c]
           g == SweepContexts(contexts)[c]
           Goal == /\ e.state \in {"expired", "released"} =>
                         f = e \/ (f = NoEntry /\ e.tombstone_until <= now)
                   /\ e.state = "active" /\ f.state # "absent" =>
                         /\ f.version \in {e.version, e.version + 1}
                         /\ f.version = e.version =>
                               /\ f.transcript = e.transcript
                               /\ f.binding = e.binding
                               /\ f.state # "released"
<1>1. TypeOK /\ now \in Nat /\ e \in ContextEntry /\ e.version \in Nat
  BY DEF IndInv, TypeOK, ContextEntry
<1>2. /\ e.state \in {"expired", "released"} =>
            g = e \/ (g = NoEntry /\ e.tombstone_until <= now)
      /\ e.state = "active" /\ g.state # "absent" =>
            /\ g.version = e.version /\ g.transcript = e.transcript
            /\ g.binding = e.binding /\ g.state # "released"
      /\ g.state = "active" => g = e
      /\ g \in ContextEntry
  BY <1>1, SweepSteps, SweepMap DEF TypeOK
<1>3. f = g => Goal
  BY <1>2
<1>4. f = e => Goal
  <2> HIDE DEF e, f
  <2> QED
    OBVIOUS
<1>5. ASSUME NEW q \in Requests, NEW r \in ResvIds, Reserve(q, r) PROVE Goal
  <2> DEFINE cs == SweepContexts(contexts)
  <2>1. cs \in [CtxIds -> ContextEntry] /\ cs[c] = g
    BY <1>1, SweepType DEF TypeOK
  <2>2. /\ contexts' = LockEntry(cs, q, r)
        /\ q.op # "create" => cs[q.context_id].state = "active"
    BY <1>5 DEF Reserve, ReserveCheck, Mutable
  <2> HIDE DEF cs
  <2>3. CASE q.op \notin {"create", "fork"} /\ c = q.context_id
    <3>1. f = [g EXCEPT !.reservation_id = r] /\ g.state = "active"
      BY <2>1, <2>2, <2>3 DEF LockEntry
    <3>2. /\ f.version = g.version /\ f.transcript = g.transcript
          /\ f.binding = g.binding /\ f.state = "active"
      BY <1>2, <3>1 DEF ContextEntry
    <3>3. g = e
      BY <1>2, <3>1
    <3> QED
      BY <1>1, <3>1, <3>2, <3>3
  <2>4. CASE ~(q.op \notin {"create", "fork"} /\ c = q.context_id)
    <3>1. f = g
      BY <2>1, <2>2, <2>4 DEF LockEntry
    <3> QED
      BY <1>3, <3>1
  <2> QED
    BY <2>3, <2>4
<1>6. ASSUME NEW r \in ResvIds, NEW c0 \in CtxIds, CommitNew(r, c0) PROVE Goal
  <2>1. CASE c = c0
    <3>1. e.state = "absent"
      BY <1>6, <2>1 DEF CommitNew
    <3> QED
      BY <3>1
  <2>2. CASE c # c0
    <3>1. f = e
      BY <1>1, <1>6, <2>2 DEF CommitNew, TypeOK
    <3> QED
      BY <1>4, <3>1
  <2> QED
    BY <2>1, <2>2
<1>7. ASSUME NEW r \in ResvIds, CommitInPlace(r) PROVE Goal
  <2> DEFINE d == reservations[r]
  <2>1. CASE c = d.context_id
    <3>1. e.state = "active"
      BY <1>7, <2>1
      DEF CommitInPlace, IndInv, ReservedContextFrozen, Locks, Held
    <3>2. f = MutatedEntry(e, r, d)
      BY <1>1, <1>7, <2>1 DEF CommitInPlace, TypeOK
    <3> HIDE DEF e, d, f
    <3>3. f.version = e.version + 1
      BY <1>1, <3>2 DEF MutatedEntry, ContextEntry
    <3>4. f.version # e.version
      BY <1>1, <3>3
    <3> QED
      BY <3>1, <3>3, <3>4
  <2>2. CASE c # d.context_id
    <3>1. f = e
      BY <1>1, <1>7, <2>2 DEF CommitInPlace, TypeOK
    <3> QED
      BY <1>4, <3>1
  <2> QED
    BY <2>1, <2>2
<1>8. ASSUME NEW r \in ResvIds, Abort(r) PROVE Goal
  <2> DEFINE cs == ClearReservation(contexts, r)
  <2>1. contexts' = SweepContexts(cs)
    BY <1>8 DEF Abort
  <2>2. CASE e.reservation_id = r
    <3>1. e.state = "active"
      <4>1. e.reservation_id # None
        BY <2>2, NoneAssumption
      <4>2. Locks(r) /\ reservations[r].context_id = c
        BY <2>2, <4>1 DEF IndInv, NoOrphanLock
      <4> QED
        BY <4>2 DEF IndInv, ReservedContextFrozen
    <3>2. cs[c] = [e EXCEPT !.reservation_id = None] \/ cs[c] = e
      BY DEF ClearReservation
    <3>3. cs[c] \in ContextEntry /\ cs[c].state = "active"
          /\ cs[c].version = e.version /\ cs[c].transcript = e.transcript
          /\ cs[c].binding = e.binding
      BY <1>1, <3>1, <3>2 DEF ContextEntry
    <3> HIDE DEF cs
    <3>4. f = DropTombstone(Expire(cs[c]))
      BY <2>1 DEF SweepContexts
    <3> DEFINE x == cs[c]
    <3> HIDE DEF x
    <3>5. x \in ContextEntry /\ f = DropTombstone(Expire(x)) /\ x.state = "active"
          /\ x.version = e.version /\ x.transcript = e.transcript
          /\ x.binding = e.binding
      BY <3>3, <3>4 DEF x
    <3> HIDE DEF f
    <3>6. \/ f = NoEntry
          \/ f.version = x.version /\ f.binding = x.binding /\ f.transcript = x.transcript
      BY <1>1, <3>5, SweepEntry
    <3>7. f.state # "released"
      <4>1. Expire(x).state # "released"
        BY <3>5 DEF Expire, ContextEntry
      <4> QED
        BY <3>5, <4>1 DEF DropTombstone, NoEntry
    <3>8. NoEntry.state = "absent"
      BY DEF NoEntry
    <3> QED
      BY <3>1, <3>5, <3>6, <3>7, <3>8
  <2>3. CASE e.reservation_id # r
    <3>1. cs[c] = e
      BY <2>3 DEF ClearReservation
    <3>2. f = g
      BY <2>1, <3>1 DEF SweepContexts
    <3> QED
      BY <1>3, <3>2
  <2> QED
    BY <2>2, <2>3
<1>9. ASSUME NEW o \in Owners, NEW c0 \in CtxIds, NEW b \in BaseVersions,
             NEW key \in Keys, Release(o, c0, b, key)
      PROVE  Goal
  <2> DEFINE cs == SweepContexts(contexts)
  <2>1. cs \in [CtxIds -> ContextEntry] /\ cs[c] = g
    BY <1>1, SweepType DEF TypeOK
  <2>2. /\ contexts' = [cs EXCEPT ![c0] = ReleasedEntry(cs[c0])]
        /\ cs[c0].state = "active"
    BY <1>9 DEF Release, Mutable
  <2> HIDE DEF cs
  <2>3. CASE c = c0
    <3>1. f = ReleasedEntry(g) /\ g.state = "active"
      BY <2>1, <2>2, <2>3
    <3>2. g = e
      BY <1>2, <3>1
    <3>3. f.version = e.version + 1
      BY <1>1, <3>1, <3>2 DEF ReleasedEntry, ContextEntry
    <3>4. f.version # e.version
      BY <1>1, <3>3
    <3> QED
      BY <3>1, <3>2, <3>3, <3>4
  <2>4. CASE c # c0
    <3>1. f = g
      BY <2>1, <2>2, <2>4
    <3> QED
      BY <1>3, <3>1
  <2> QED
    BY <2>3, <2>4
<1>10. ASSUME SweepExpired PROVE Goal
  <2>1. f = g
    BY <1>10 DEF SweepExpired
  <2> QED
    BY <1>3, <2>1
<1>11. ASSUME Tick PROVE Goal
  BY <1>4, <1>11 DEF Tick
<1>12. ASSUME UNCHANGED vars PROVE Goal
  BY <1>4, <1>12 DEF vars
<1> HIDE DEF Goal
<1>13. Goal
  BY <1>5, <1>6, <1>7, <1>8, <1>9, <1>10, <1>11, <1>12 DEF Next
<1> QED
  BY <1>13 DEF Goal

\* No step changes a settled outcome before its retention ends, and a busy key
\* is only left with an outcome.
LEMMA OutcomeSteps == IndInv /\ [Next]_vars => OutcomeStep
<1> SUFFICES ASSUME IndInv, [Next]_vars, NEW k \in IdempotencyKey
             PROVE  LET o == idempotency[k]
                        p == idempotency'[k]
                    IN  /\ o.state = "busy" => p.state \in {"busy", "completed", "failed"}
                        /\ o.state \in {"completed", "failed"} =>
                               p = o \/ o.retain_until <= now
  BY DEF OutcomeStep
<1> DEFINE o == idempotency[k]
           p == idempotency'[k]
           w == SweepOutcomes(idempotency)[k]
           Goal == /\ o.state = "busy" => p.state \in {"busy", "completed", "failed"}
                   /\ o.state \in {"completed", "failed"} =>
                          p = o \/ o.retain_until <= now
<1>1. TypeOK /\ now \in Nat
  BY DEF IndInv, TypeOK
<1>2. /\ w = o \/ (w = NoOutcome /\ RetentionDue(o))
      /\ w.state = "busy" <=> o.state = "busy"
  BY <1>1, SweepOutcome DEF TypeOK
<1>3. p = w => Goal
  BY <1>2 DEF RetentionDue
<1>4. p = o => Goal
  OBVIOUS
<1>5. w.state = "absent" => Goal
  BY <1>2 DEF RetentionDue
<1>6. ASSUME NEW r \in ResvIds, Held(r),
             k = <<reservations[r].owner, "complete", reservations[r].key>>
      PROVE  o.state = "busy"
  <2>1. reservations[r].owner \in Owners /\ reservations[r].key \in Keys
    BY <1>6 DEF IndInv, HeldOK
  <2>2. LET H == {s \in ResvIds : /\ Held(s)
                                  /\ reservations[s].owner = reservations[r].owner
                                  /\ reservations[s].key = reservations[r].key}
        IN  idempotency[k].state = "busy" <=> H # {}
    BY <1>6, <2>1 DEF IndInv, BusyIffHeld
  <2> QED
    BY <1>6, <2>2
<1>7. ASSUME NEW q \in Requests, NEW r \in ResvIds, Reserve(q, r) PROVE Goal
  <2>1. /\ idempotency' = [SweepOutcomes(idempotency) EXCEPT
                              ![<<q.owner, "complete", q.key>>] = BusyOutcome]
        /\ SweepOutcomes(idempotency)[<<q.owner, "complete", q.key>>].state = "absent"
    BY <1>7 DEF Reserve
  <2>2. SweepOutcomes(idempotency) \in [IdempotencyKey -> IdempotencyEntry]
    BY <1>1, SweepType DEF TypeOK
  <2>3. CASE k = <<q.owner, "complete", q.key>>
    BY <1>5, <2>1, <2>3
  <2>4. CASE k # <<q.owner, "complete", q.key>>
    <3>1. p = w
      BY <2>1, <2>2, <2>4
    <3> QED
      BY <1>3, <3>1
  <2> QED
    BY <2>3, <2>4
<1>8. ASSUME NEW r \in ResvIds, NEW c \in CtxIds, NEW v,
             reservations[r].status = "held",
             idempotency' = [idempotency EXCEPT
                ![<<reservations[r].owner, "complete", reservations[r].key>>] =
                    CompletedOutcome(c, v, reservations[r])]
      PROVE  Goal
  <2>1. CASE k = <<reservations[r].owner, "complete", reservations[r].key>>
    <3>1. o.state = "busy"
      BY <1>6, <1>8, <2>1 DEF Held
    <3>2. p = CompletedOutcome(c, v, reservations[r])
      BY <1>1, <1>8, <2>1 DEF TypeOK
    <3>3. \A d : CompletedOutcome(c, v, d).state = "completed"
      BY DEF CompletedOutcome, NoOutcome
    <3>4. p.state = "completed"
      BY <3>2, <3>3
    <3> QED
      BY <3>1, <3>4
  <2>2. CASE k # <<reservations[r].owner, "complete", reservations[r].key>>
    <3>1. p = o
      BY <1>1, <1>8, <2>2 DEF TypeOK
    <3> QED
      BY <1>4, <3>1
  <2> QED
    BY <2>1, <2>2
<1>9. ASSUME NEW r \in ResvIds, NEW c \in CtxIds, CommitNew(r, c) PROVE Goal
  BY <1>8, <1>9 DEF CommitNew
<1>10. ASSUME NEW r \in ResvIds, CommitInPlace(r) PROVE Goal
  <2>1. reservations[r].context_id \in CtxIds
    BY <1>10 DEF CommitInPlace, IndInv, HeldOK, Held
  <2> QED
    BY <1>8, <1>10, <2>1 DEF CommitInPlace
<1>11. ASSUME NEW r \in ResvIds, Abort(r) PROVE Goal
  <2> DEFINE k0 == <<reservations[r].owner, "complete", reservations[r].key>>
             os == [idempotency EXCEPT ![k0] = FailedOutcome]
  <2>1. idempotency' = SweepOutcomes(os) /\ Held(r)
    BY <1>11 DEF Abort, Held
  <2>2. os \in [IdempotencyKey -> IdempotencyEntry]
    BY <1>1, OutcomeType DEF TypeOK
  <2>3. os[k] = IF k = k0 THEN FailedOutcome ELSE o
    BY <1>1 DEF TypeOK
  <2>4. p = DropOutcome(os[k])
    BY <2>1 DEF SweepOutcomes
  <2> HIDE DEF os
  <2>5. CASE k = k0
    <3>1. o.state = "busy"
      BY <1>6, <2>1, <2>5
    <3>2. FailedOutcome.state = "failed" /\ FailedOutcome.retain_until = now + IdempotencyTtl
      BY DEF FailedOutcome, NoOutcome
    <3>3. ~RetentionDue(FailedOutcome)
      BY <1>1, <3>2, OptionsAssumption DEF RetentionDue
    <3>4. p = FailedOutcome
      BY <2>3, <2>4, <2>5, <3>3 DEF DropOutcome
    <3> QED
      BY <3>1, <3>2, <3>4
  <2>6. CASE k # k0
    <3>1. p = w
      BY <2>3, <2>4, <2>6 DEF SweepOutcomes
    <3> QED
      BY <1>3, <3>1
  <2> QED
    BY <2>5, <2>6
<1>12. ASSUME NEW x \in Owners, NEW c \in CtxIds, NEW b \in BaseVersions,
              NEW key \in Keys, Release(x, c, b, key)
       PROVE  Goal
  <2> DEFINE k0 == <<x, "release", key>>
             os == SweepOutcomes(idempotency)
  <2>1. PICK out : /\ idempotency' = [os EXCEPT ![k0] = out]
                   /\ os[k0].state = "absent"
    BY <1>12 DEF Release
  <2>2. os \in [IdempotencyKey -> IdempotencyEntry] /\ os[k] = w
    BY <1>1, SweepType DEF TypeOK
  <2> HIDE DEF os, k0
  <2>3. CASE k = k0
    BY <1>5, <2>1, <2>2, <2>3
  <2>4. CASE k # k0
    <3>1. p = w
      BY <2>1, <2>2, <2>4
    <3> QED
      BY <1>3, <3>1
  <2> QED
    BY <2>3, <2>4
<1>13. ASSUME SweepExpired PROVE Goal
  BY <1>3, <1>13 DEF SweepExpired
<1>14. ASSUME Tick PROVE Goal
  BY <1>4, <1>14 DEF Tick
<1>15. ASSUME UNCHANGED vars PROVE Goal
  BY <1>4, <1>15 DEF vars
<1> HIDE DEF Goal
<1>16. Goal
  BY <1>7, <1>9, <1>10, <1>11, <1>12, <1>13, <1>14, <1>15 DEF Next
<1> QED
  BY <1>16 DEF Goal

\* Tombstones are final, versions count changes and outcomes are final, for
\* every step of every behaviour.
THEOREM StepProperties == Spec => HistoryFinal
<1>1. IndInv /\ [Next]_vars => [TombstoneStep]_vars
  BY ContextSteps
<1>2. IndInv /\ [Next]_vars => [VersionStep]_vars
  BY ContextSteps
<1>3. IndInv /\ [Next]_vars => [OutcomeStep]_vars
  BY OutcomeSteps
<1> QED
  BY <1>1, <1>2, <1>3, Invariant, PTL
  DEF Spec, HistoryFinal, TombstoneFinal, VersionCountsChanges, OutcomeFinal
=============================================================================
