------------------------- MODULE CertAuthorityProofs -------------------------
(***************************************************************************)
(* Machine-checked proofs about CertAuthority, for any number of           *)
(* concurrent requests, any sets of names, tokens and pending              *)
(* registrations and any limits; and, in the second part, about the        *)
(* verification of what such an authority issues (IdentVerifier), for any  *)
(* frame, options and context.                                             *)
(***************************************************************************)
EXTENDS CertAuthority, IdentVerifier, FiniteSetTheorems, NaturalsInduction,
        WellFoundedInduction, TLAPS

-----------------------------------------------------------------------------
(* The inductive invariant, one conjunct per idea.                          *)

\* Some certificate of the NID has been revoked.
Dead(nid) == \E k \in Of(nid) : records[k].revoked

\* The children a cascade has still to revoke are the only sessions of the
\* group, among those it found issued, that have no revoked certificate.
Cascaded(p) ==
    \A i \in 1..call[p].marked :
        records[i].parent = call[p].nid =>
            records[i].nid \in call[p].children \/ Dead(records[i].nid)

\* What a request in flight knows stays true while others run.
CallInv(p) ==
    /\ call[p].op = "session" <=> call[p].parent # None
    /\ call[p].pc # "idle" /\ (call[p].pc = "serial" => call[p].op # "session") =>
          call[p].nid \in Nids
    /\ call[p].issued <= now
    /\ call[p].pend # None =>
          /\ call[p].op = "register" /\ call[p].token = None
          /\ pending[call[p].pend].status # "absent"
          /\ pending[call[p].pend].nid = call[p].nid
    /\ call[p].pc = "approve" => call[p].pend # None
    /\ call[p].pc \in {"approve", "mark"} => Exists(call[p].nid)
    /\ call[p].pc \in {"children", "cascade"} => call[p].marked <= Len(records)
    /\ call[p].pc = "cascade" => Cascaded(p)

\* A token that is held, by a request or by a certificate, has been consumed,
\* and it is held once.
TokensHeldOnce ==
    /\ \A i \in DOMAIN records :
          records[i].token # None => tokens[records[i].token].status = "consumed"
    /\ \A p \in Callers :
          call[p].token # None => tokens[call[p].token].status = "consumed"
    /\ \A i, j \in DOMAIN records :
          records[i].token # None /\ records[i].token = records[j].token => i = j
    /\ \A p, q \in Callers :
          call[p].token # None /\ call[p].token = call[q].token => p = q
    /\ \A i \in DOMAIN records, p \in Callers :
          records[i].token # None => records[i].token # call[p].token

\* A pending registration names its NID, and was approved for a certificate.
PendingBacked ==
    \A d \in PendingIds :
        /\ pending[d].status # "absent" => pending[d].nid \in Nids
        /\ pending[d].status = "approved" => Exists(pending[d].nid)

\* The requests that have counted the queue and not yet joined it.
Joining == {p \in Callers : call[p].pc = "enqueue"}

QueueBounded ==
    /\ IsFiniteSet(InQueue)
    /\ Cardinality(InQueue) + Cardinality(Joining) <= MaxQueue + Cardinality(Callers) - 1

IssuedInThePast == \A i \in DOMAIN records : records[i].issued <= now

IndInv ==
    /\ TypeOK
    /\ \A p \in Callers : CallInv(p)
    /\ TokensHeldOnce
    /\ PendingBacked
    /\ QueueBounded
    /\ IssuedInThePast

-----------------------------------------------------------------------------
(* Positions.                                                               *)

LEMMA LeastNat ==
    ASSUME NEW S, S \subseteq Nat, S # {}
    PROVE  \E m \in S : \A k \in S : m <= k
<1>1. IsWellFoundedOn(OpToRel(<, Nat), Nat)
  BY NatLessThanWellFounded
<1>2. PICK m \in S : \A y \in S : ~(<<y, m>> \in OpToRel(<, Nat))
  BY <1>1, WFMin
<1>3. \A y \in S : ~(y < m)
  BY <1>2 DEF OpToRel
<1> QED
  BY <1>3

LEMMA Greatest ==
    ASSUME NEW n \in Nat, NEW S, S \subseteq 1..n, S # {}
    PROVE  \E m \in S : \A k \in S : m >= k
<1> DEFINE D == {d \in Nat : n - d \in S}
<1>1. PICK x \in S : TRUE
  OBVIOUS
<1>2. n - x \in D
  BY <1>1
<1>3. PICK d \in D : \A k \in D : d <= k
  BY <1>2, LeastNat
<1>4. \A k \in S : n - k \in D
  OBVIOUS
<1>5. \A k \in S : d <= n - k
  BY <1>3, <1>4
<1> QED
  BY <1>3, <1>5

\* The records of a NID are positions of the table.
LEMMA OfTyped ==
    ASSUME records \in Seq(CertRecord), NEW nid
    PROVE  /\ DOMAIN records = 1..Len(records) /\ Len(records) \in Nat
           /\ Of(nid) \subseteq 1..Len(records) /\ LiveOf(nid) \subseteq Of(nid)
           /\ \A i \in Of(nid) : records[i] \in CertRecord /\ records[i].nid = nid
BY DEF Of, LiveOf

\* revoke finds the record it is to mark.
LEMMA ToRevokeFound ==
    ASSUME records \in Seq(CertRecord), NEW nid, LiveOf(nid) # {}
    PROVE  ToRevoke(nid) \in LiveOf(nid) /\ \A j \in LiveOf(nid) : ToRevoke(nid) >= j
<1>1. LiveOf(nid) \subseteq 1..Len(records) /\ Len(records) \in Nat
  BY OfTyped
<1>2. \E i \in LiveOf(nid) : \A j \in LiveOf(nid) : i >= j
  BY <1>1, Greatest
<1> QED
  BY <1>2 DEF ToRevoke

\* get_by_nid finds a record of the NID, in either store.
LEMMA PreferredFound ==
    ASSUME records \in Seq(CertRecord), now \in Nat, IssuedInThePast, NEW nid, Exists(nid)
    PROVE  \E i \in Of(nid) : \A j \in Of(nid) : Preferred(i, j)
<1>1. /\ Of(nid) \subseteq 1..Len(records) /\ Len(records) \in Nat /\ Of(nid) # {}
      /\ DOMAIN records = 1..Len(records)
      /\ \A i \in Of(nid) : records[i].issued \in Nat /\ records[i].issued <= now
  BY OfTyped DEF Exists, IssuedInThePast, CertRecord, Of
<1>2. CASE Backend = "memory"
  BY <1>1, <1>2, Greatest DEF Preferred
<1>3. CASE Backend = "sql"
  <2> DEFINE Ages == {now - records[i].issued : i \in Of(nid)}
  <2>1. Ages \subseteq Nat /\ Ages # {}
    BY <1>1
  <2>2. PICK a \in Ages : \A k \in Ages : a <= k
    BY <2>1, LeastNat
  <2> DEFINE Newest == {i \in Of(nid) : now - records[i].issued = a}
  <2>3. Newest # {} /\ Newest \subseteq Nat
    BY <1>1, <2>2
  <2>4. PICK m \in Newest : \A k \in Newest : m <= k
    BY <2>3, LeastNat
  <2>5. ASSUME NEW j \in Of(nid) PROVE Preferred(m, j)
    <3>1. a <= now - records[j].issued /\ a = now - records[m].issued
      BY <2>2, <2>4
    <3>2. records[m].issued >= records[j].issued
      BY <1>1, <2>4, <3>1
    <3>3. records[m].issued = records[j].issued => m <= j
      BY <2>4, <3>1
    <3> QED
      BY <1>1, <1>3, <2>4, <3>2, <3>3 DEF Preferred
  <2> QED
    BY <2>4, <2>5
<1> QED
  BY <1>2, <1>3, OptionsAssumption

LEMMA CurrentFound ==
    ASSUME records \in Seq(CertRecord), now \in Nat, IssuedInThePast, NEW nid, Exists(nid)
    PROVE  \E i \in Of(nid) : /\ GetByNid(nid) = records[i]
                              /\ Backend = "memory" => \A j \in Of(nid) : i >= j
<1> DEFINE c == CHOOSE i \in Of(nid) : \A j \in Of(nid) : Preferred(i, j)
<1>1. c \in Of(nid) /\ \A j \in Of(nid) : Preferred(c, j)
  BY PreferredFound
<1> QED
  BY <1>1 DEF GetByNid, Preferred

-----------------------------------------------------------------------------
(* What no step undoes.                                                     *)

RecordsKept ==
    /\ Len(records) <= Len(records')
    /\ \A i \in 1..Len(records) :
          /\ records'[i].nid = records[i].nid /\ records'[i].parent = records[i].parent
          /\ records'[i].role = records[i].role /\ records'[i].issued = records[i].issued
          /\ records'[i].token = records[i].token
          /\ records[i].revoked => records'[i].revoked

Kept ==
    /\ RecordsKept /\ records' \in Seq(CertRecord)
    /\ \A d \in PendingIds : pending[d].status # "absent" =>
          pending'[d].status # "absent" /\ pending'[d].nid = pending[d].nid
    /\ now <= now' /\ now' \in Nat

\* A session names its group.
Parented(recs) == \A i \in DOMAIN recs : (recs[i].role = "session") <=> (recs[i].parent # None)

LEMMA RecordsSame ==
    ASSUME records \in Seq(CertRecord), records' = records
    PROVE  RecordsKept
BY DEF RecordsKept

LEMMA RevokedTyped ==
    ASSUME NEW r \in CertRecord
    PROVE  [r EXCEPT !.revoked = TRUE] \in CertRecord
BY Zenon DEF CertRecord

LEMMA MarkKeeps ==
    ASSUME records \in Seq(CertRecord), Parented(records), NEW nid, MarkRevoked(nid)
    PROVE  /\ RecordsKept /\ records' \in Seq(CertRecord) /\ Len(records') = Len(records)
           /\ Parented(records')
           /\ Exists(nid) => Dead(nid)'
<1>1. CASE LiveOf(nid) = {}
  <2>1. records' = records
    BY <1>1 DEF MarkRevoked
  <2>2. ASSUME Exists(nid) PROVE Dead(nid)'
    <3>1. PICK i \in Of(nid) : TRUE
      BY <2>2 DEF Exists
    <3>2. records[i].revoked /\ records[i].nid = nid /\ i \in DOMAIN records
      BY <1>1 DEF LiveOf, Of
    <3> QED
      BY <2>1, <3>2 DEF Dead, Of
  <2> QED
    BY <2>1, <2>2, RecordsSame
<1>2. CASE LiveOf(nid) # {}
  <2> DEFINE k == ToRevoke(nid)
  <2>1. k \in LiveOf(nid)
    BY <1>2, ToRevokeFound
  <2>2. k \in 1..Len(records) /\ records[k].nid = nid /\ DOMAIN records = 1..Len(records)
    BY <2>1, OfTyped
  <2>3. records' = [records EXCEPT ![k] = [records[k] EXCEPT !.revoked = TRUE]]
    BY <1>2 DEF MarkRevoked
  <2> HIDE DEF k
  <2>4. [records[k] EXCEPT !.revoked = TRUE] \in CertRecord
    BY <2>2, RevokedTyped
  <2>5. records' \in Seq(CertRecord) /\ Len(records') = Len(records)
    BY <2>2, <2>3, <2>4
  <2>6. /\ \A i \in 1..Len(records) : i # k => records'[i] = records[i]
        /\ records'[k] = [records[k] EXCEPT !.revoked = TRUE]
    BY <2>2, <2>3
  <2>7. /\ records'[k].nid = nid /\ records'[k].parent = records[k].parent
        /\ records'[k].role = records[k].role /\ records'[k].issued = records[k].issued
        /\ records'[k].token = records[k].token /\ records'[k].revoked
    BY <2>2, <2>6 DEF CertRecord
  <2>8. RecordsKept
    <3>1. ASSUME NEW i \in 1..Len(records)
          PROVE  /\ records'[i].nid = records[i].nid /\ records'[i].parent = records[i].parent
                 /\ records'[i].role = records[i].role /\ records'[i].issued = records[i].issued
                 /\ records'[i].token = records[i].token
                 /\ records[i].revoked => records'[i].revoked
      <4>1. CASE i = k
        BY <2>2, <2>7, <4>1
      <4>2. CASE i # k
        BY <2>6, <4>2
      <4> QED
        BY <4>1, <4>2
    <3> QED
      BY <2>5, <3>1 DEF RecordsKept
  <2>9. Parented(records')
    <3>1. DOMAIN records' = DOMAIN records
      BY <2>3
    <3> QED
      BY <2>8, <3>1, OfTyped DEF Parented, RecordsKept
  <2>10. Dead(nid)'
    BY <2>2, <2>5, <2>7 DEF Dead, Of
  <2> QED
    BY <2>5, <2>8, <2>9, <2>10
<1> QED
  BY <1>1, <1>2

LEMMA AppendKeeps ==
    ASSUME records \in Seq(CertRecord), Parented(records), NEW r \in CertRecord,
           (r.role = "session") <=> (r.parent # None), records' = Append(records, r)
    PROVE  /\ RecordsKept /\ records' \in Seq(CertRecord) /\ Len(records') = Len(records) + 1
           /\ Parented(records') /\ records'[Len(records')] = r
           /\ \A i \in 1..Len(records) : records'[i] = records[i]
<1>1. /\ records' \in Seq(CertRecord) /\ Len(records') = Len(records) + 1
      /\ records'[Len(records')] = r /\ \A i \in 1..Len(records) : records'[i] = records[i]
  OBVIOUS
<1>2. \A i \in 1..Len(records') : i \in 1..Len(records) \/ i = Len(records')
  BY <1>1
<1> QED
  BY <1>1, <1>2 DEF RecordsKept, Parented

\* A NID that is known, or dead, remains so.
LEMMA NidKept ==
    ASSUME records \in Seq(CertRecord), records' \in Seq(CertRecord), RecordsKept, NEW nid
    PROVE  (Exists(nid) => Exists(nid)') /\ (Dead(nid) => Dead(nid)')
<1>1. /\ DOMAIN records = 1..Len(records) /\ DOMAIN records' = 1..Len(records')
      /\ Len(records) \in Nat /\ Len(records') \in Nat
  OBVIOUS
<1>2. \A i \in DOMAIN records : i \in DOMAIN records' /\ records'[i].nid = records[i].nid
                                /\ (records[i].revoked => records'[i].revoked)
  BY <1>1 DEF RecordsKept
<1> QED
  BY <1>2 DEF Exists, Dead, Of

\* A request that does not move keeps what it knows.
LEMMA CallKept ==
    ASSUME records \in Seq(CertRecord), call \in [Callers -> Call], now \in Nat, Kept,
           NEW p \in Callers, CallInv(p), call'[p] = call[p]
    PROVE  CallInv(p)'
<1>0. /\ records' \in Seq(CertRecord) /\ RecordsKept /\ now' \in Nat /\ now <= now'
      /\ Len(records) \in Nat /\ Len(records') \in Nat
  BY DEF Kept
<1>1. \A nid : (Exists(nid) => Exists(nid)') /\ (Dead(nid) => Dead(nid)')
  BY <1>0, NidKept
<1>2. call[p].issued \in Nat /\ call[p].marked \in Nat /\ call[p].pend \in PendingIds \cup {None}
  BY DEF Call
<1>3. ASSUME call[p].pc = "cascade" PROVE Cascaded(p)'
  <2>1. Cascaded(p) /\ call[p].marked <= Len(records)
    BY <1>3 DEF CallInv
  <2>2. ASSUME NEW i \in 1..call[p].marked, records'[i].parent = call[p].nid
        PROVE  records'[i].nid \in call'[p].children \/ Dead(records[i].nid)'
    <3>1. i \in 1..Len(records)
      BY <1>0, <1>2, <2>1
    <3>2. records'[i].nid = records[i].nid /\ records[i].parent = call[p].nid
      BY <1>0, <2>2, <3>1 DEF RecordsKept
    <3>3. CASE records[i].nid \in call[p].children
      BY <3>2, <3>3
    <3>4. CASE Dead(records[i].nid)
      <4>1. PICK k \in Of(records[i].nid) : records[k].revoked
        BY <3>4 DEF Dead
      <4>2. k \in 1..Len(records) /\ records[k].nid = records[i].nid
        BY DEF Of
      <4>3. k \in DOMAIN records' /\ records'[k].nid = records'[i].nid /\ records'[k].revoked
        BY <1>0, <3>2, <4>1, <4>2 DEF RecordsKept
      <4> QED
        BY <4>3 DEF Dead, Of
    <3> QED
      BY <2>1, <3>2, <3>3, <3>4 DEF Cascaded
  <2> QED
    BY <2>2 DEF Cascaded
<1>4. call[p].pc \in {"approve", "mark"} => Exists(call[p].nid)'
  BY <1>1 DEF CallInv
<1>5. call[p].pc \in {"children", "cascade"} => call[p].marked <= Len(records')
  BY <1>0, <1>2 DEF CallInv, RecordsKept
<1>6. call[p].issued <= now'
  BY <1>0, <1>2 DEF CallInv
<1>7. call[p].pend # None =>
          /\ pending'[call[p].pend].status # "absent"
          /\ pending'[call[p].pend].nid = call[p].nid
  BY <1>2 DEF CallInv, Kept
<1> QED
  BY <1>3, <1>4, <1>5, <1>6, <1>7 DEF CallInv, Exists, Of

LEMMA IdleInv ==
    ASSUME now \in Nat, NEW p \in Callers, call[p] = Idle
    PROVE  CallInv(p)
BY NidsAssumption DEF CallInv, Idle

LEMMA IdleTyped == Idle \in Call
<1>1. [role |-> None, expires |-> 0] \in [role : Roles, expires : Nat]
  BY DEF Roles
<1> QED
  BY <1>1 DEF Idle, Call

\* The tokens stay held once when no one takes one.
LEMMA HeldSame ==
    ASSUME TypeOK, TokensHeldOnce, RecordsKept, records' \in Seq(CertRecord),
           Len(records') = Len(records),
           \A t \in TokenIds : tokens[t].status = "consumed" => tokens'[t].status = "consumed",
           \A q \in Callers : call'[q].token \in {call[q].token, None}
    PROVE  TokensHeldOnce'
<1>1. DOMAIN records' = DOMAIN records /\ DOMAIN records = 1..Len(records)
  BY DEF TypeOK
<1>2. \A i \in DOMAIN records : records'[i].token = records[i].token
  BY <1>1 DEF RecordsKept
<1>3. \A i \in DOMAIN records : records[i].token \in TokenIds \cup {None}
  <2>1. \A i \in DOMAIN records : records[i] \in CertRecord
    BY DEF TypeOK
  <2> QED
    BY <2>1 DEF CertRecord
<1>4. \A q \in Callers : call[q].token \in TokenIds \cup {None}
  BY DEF TypeOK, Call
<1> QED
  BY <1>1, <1>2, <1>3, <1>4 DEF TokensHeldOnce

LEMMA QueueSame ==
    ASSUME QueueBounded, InQueue' \subseteq InQueue, Joining' \subseteq Joining
    PROVE  QueueBounded'
<1>1. IsFiniteSet(Joining)
  BY FS_Subset, CallersAssumption DEF Joining
<1>2. /\ IsFiniteSet(InQueue') /\ Cardinality(InQueue') <= Cardinality(InQueue)
      /\ Cardinality(Joining') <= Cardinality(Joining) /\ IsFiniteSet(Joining')
  BY <1>1, FS_Subset DEF QueueBounded
<1>3. /\ Cardinality(InQueue') \in Nat /\ Cardinality(InQueue) \in Nat
      /\ Cardinality(Joining') \in Nat /\ Cardinality(Joining) \in Nat
      /\ Cardinality(Callers) \in Nat
  BY <1>1, <1>2, FS_CardinalityType, CallersAssumption DEF QueueBounded
<1>4. IsFiniteSet(InQueue)' /\ Cardinality(InQueue)' = Cardinality(InQueue')
      /\ Cardinality(Joining)' = Cardinality(Joining')
  BY <1>2
<1> QED
  BY <1>2, <1>3, <1>4, OptionsAssumption DEF QueueBounded

\* A step of request p that takes no token and leaves the queue alone.
LEMMA PlainKept ==
    ASSUME IndInv, NEW p \in Callers, call' \in [Callers -> Call],
           \A q \in Callers \ {p} : call'[q] = call[q],
           CallInv(p)', call'[p].token \in {call[p].token, None}, call'[p].pc # "enqueue",
           tier' = tier, serial' \in Nat, tokens' = tokens, pending' = pending, now' = now,
           RecordsKept, records' \in Seq(CertRecord), Parented(records'),
           Len(records') = Len(records)
    PROVE  IndInv'
<1>1. TypeOK /\ records \in Seq(CertRecord) /\ call \in [Callers -> Call] /\ now \in Nat
  BY DEF IndInv, TypeOK
<1>2. Kept
  BY <1>1 DEF Kept
<1>3. TypeOK'
  BY <1>1 DEF TypeOK, Parented
<1>4. \A q \in Callers : CallInv(q)'
  BY <1>1, <1>2, CallKept DEF IndInv
<1>5. TokensHeldOnce'
  BY <1>1, HeldSame DEF IndInv
<1>6. PendingBacked'
  <2>1. \A nid : Exists(nid) => Exists(nid)'
    BY <1>1, NidKept
  <2> QED
    BY <2>1 DEF IndInv, PendingBacked, Exists, Of
<1>7. QueueBounded'
  <2>1. InQueue' \subseteq InQueue /\ Joining' \subseteq Joining
    BY DEF InQueue, Joining
  <2> QED
    BY <2>1, QueueSame DEF IndInv
<1>8. IssuedInThePast'
  BY <1>1 DEF IndInv, IssuedInThePast, RecordsKept
<1> QED
  BY <1>3, <1>4, <1>5, <1>6, <1>7, <1>8 DEF IndInv

\* The same of a step that leaves the certificates alone.
LEMMA MoveKept ==
    ASSUME IndInv, NEW p \in Callers, call' \in [Callers -> Call],
           \A q \in Callers \ {p} : call'[q] = call[q],
           CallInv(p)', call'[p].token \in {call[p].token, None}, call'[p].pc # "enqueue",
           serial' \in Nat, UNCHANGED <<tier, records, enrollment, now>>
    PROVE  IndInv'
<1>1. records \in Seq(CertRecord) /\ Parented(records)
  BY DEF IndInv, TypeOK, Parented
<1>2. /\ tokens' = tokens /\ pending' = pending /\ now' = now /\ records' = records
      /\ tier' = tier
  BY DEF enrollment
<1>3. RecordsKept
  BY <1>1, <1>2, RecordsSame
<1> QED
  BY <1>1, <1>2, <1>3, PlainKept

LEMMA ReturnKept ==
    ASSUME IndInv, NEW p \in Callers, Return(p), UNCHANGED <<tier, certs, enrollment, now>>
    PROVE  IndInv'
<1>1. TypeOK /\ call \in [Callers -> Call] /\ serial \in Nat /\ now \in Nat
  BY DEF IndInv, TypeOK
<1>2. call'[p] = Idle /\ \A q \in Callers \ {p} : call'[q] = call[q]
  BY <1>1 DEF Return
<1>3. call' \in [Callers -> Call]
  BY <1>1, IdleTyped DEF Return
<1>4. CallInv(p)'
  BY <1>1, <1>2, NidsAssumption DEF CallInv, Idle
<1> QED
  BY <1>1, <1>2, <1>3, <1>4, MoveKept DEF Idle, certs

LEMMA SeenTyped ==
    ASSUME TypeOK, IssuedInThePast, NEW nid, Exists(nid)
    PROVE  Seen(nid) \in [role : Roles, expires : Nat] /\ nid \in Nids
<1>1. records \in Seq(CertRecord) /\ now \in Nat
  BY DEF TypeOK
<1>2. PICK i \in Of(nid) : GetByNid(nid) = records[i]
  BY <1>1, CurrentFound
<1>3. records[i] \in CertRecord /\ records[i].nid = nid
  BY <1>1, OfTyped
<1> QED
  BY <1>2, <1>3 DEF Seen, CertRecord

\* What is known of a request that has just begun.
LEMMA BeginKept ==
    ASSUME IndInv, NEW p \in Callers, call' \in [Callers -> Call],
           \A q \in Callers \ {p} : call'[q] = call[q],
           call'[p].pc \in {"lookup", "serial", "mark"},
           call'[p].token = None, call'[p].issued = 0,
           call'[p].op = "session" <=> call'[p].parent # None,
           (call'[p].pc = "serial" => call'[p].op # "session") => call'[p].nid \in Nids,
           call'[p].pend # None =>
               /\ call'[p].op = "register" /\ pending[call'[p].pend].status # "absent"
               /\ pending[call'[p].pend].nid = call'[p].nid,
           call'[p].pc = "mark" => \E i \in DOMAIN records : records[i].nid = call'[p].nid,
           UNCHANGED <<tier, certs, enrollment, now>>
    PROVE  IndInv'
<1>1. serial \in Nat /\ now \in Nat
  BY DEF IndInv, TypeOK
<1>2. /\ pending' = pending /\ records' = records /\ now' = now /\ serial' = serial
      /\ tier' = tier /\ tokens' = tokens
  BY DEF certs, enrollment
<1>3. CallInv(p)'
  BY <1>1, <1>2 DEF CallInv, Exists, Of
<1> QED
  BY <1>1, <1>2, <1>3, MoveKept DEF enrollment

\* Register, ReadPending, RegisterGroup, ReadGroup, ReadForRenew, ReadForRevoke.
LEMMA BeginsKept ==
    ASSUME IndInv, NEW p \in Callers, NEW nid \in Nids,
           \/ Register(p, nid) \/ RegisterGroup(p, nid)
           \/ ReadGroup(p, nid) \/ ReadForRenew(p, nid) \/ ReadForRevoke(p, nid)
    PROVE  IndInv'
<1>1. TypeOK /\ IssuedInThePast /\ call \in [Callers -> Call] /\ Idle \in Call
  BY IdleTyped DEF IndInv, TypeOK
<1>2. nid # None
  BY NidsAssumption
<1>3. CASE Register(p, nid)
  <2> DEFINE c == [Registering(nid) EXCEPT !.pc = "serial"]
  <2>2. c \in Call
    BY <1>1 DEF Registering, Call
  <2>3. /\ c.pc = "serial" /\ c.op = "register" /\ c.nid = nid /\ c.parent = None
        /\ c.token = None /\ c.pend = None /\ c.issued = 0
    BY DEF Registering, Idle
  <2> HIDE DEF c
  <2>4. call' = [call EXCEPT ![p] = c] /\ UNCHANGED <<tier, certs, enrollment, now>>
    BY <1>3 DEF Register, Begin, c
  <2>5. /\ call' \in [Callers -> Call] /\ call'[p] = c
        /\ \A q \in Callers \ {p} : call'[q] = call[q]
    BY <1>1, <2>2, <2>4
  <2> QED
    BY <1>2, <2>3, <2>4, <2>5, BeginKept
<1>4. CASE RegisterGroup(p, nid)
  <2> DEFINE c == [Idle EXCEPT !.pc = "serial", !.op = "group", !.nid = nid]
  <2>2. c \in Call
    BY <1>1 DEF Call
  <2>3. /\ c.pc = "serial" /\ c.op = "group" /\ c.nid = nid /\ c.parent = None
        /\ c.token = None /\ c.pend = None /\ c.issued = 0
    BY DEF Idle
  <2> HIDE DEF c
  <2>4. call' = [call EXCEPT ![p] = c] /\ UNCHANGED <<tier, certs, enrollment, now>>
    BY <1>4 DEF RegisterGroup, Begin, c
  <2>5. /\ call' \in [Callers -> Call] /\ call'[p] = c
        /\ \A q \in Callers \ {p} : call'[q] = call[q]
    BY <1>1, <2>2, <2>4
  <2> QED
    BY <1>2, <2>3, <2>4, <2>5, BeginKept
<1>5. CASE ReadGroup(p, nid)
  <2> DEFINE c == [Idle EXCEPT !.pc = "serial", !.op = "session", !.parent = nid, !.seen = Seen(nid)]
  <2>1. Exists(nid) /\ Seen(nid) \in [role : Roles, expires : Nat]
    BY <1>1, <1>5, SeenTyped DEF ReadGroup, RenewAllowed
  <2>2. c \in Call
    BY <1>1, <2>1 DEF Call
  <2>3. /\ c.pc = "serial" /\ c.op = "session" /\ c.nid = None /\ c.parent = nid
        /\ c.token = None /\ c.pend = None /\ c.issued = 0
    BY DEF Idle
  <2> HIDE DEF c
  <2>4. call' = [call EXCEPT ![p] = c] /\ UNCHANGED <<tier, certs, enrollment, now>>
    BY <1>5 DEF ReadGroup, Begin, c
  <2>5. /\ call' \in [Callers -> Call] /\ call'[p] = c
        /\ \A q \in Callers \ {p} : call'[q] = call[q]
    BY <1>1, <2>2, <2>4
  <2> QED
    BY <1>2, <2>3, <2>4, <2>5, BeginKept
<1>6. CASE ReadForRenew(p, nid)
  <2> DEFINE c == [Idle EXCEPT !.pc = "serial", !.op = "renew", !.nid = nid, !.seen = Seen(nid)]
  <2>1. Exists(nid) /\ Seen(nid) \in [role : Roles, expires : Nat]
    BY <1>1, <1>6, SeenTyped DEF ReadForRenew, RenewAllowed
  <2>2. c \in Call
    BY <1>1, <2>1 DEF Call
  <2>3. /\ c.pc = "serial" /\ c.op = "renew" /\ c.nid = nid /\ c.parent = None
        /\ c.token = None /\ c.pend = None /\ c.issued = 0
    BY DEF Idle
  <2> HIDE DEF c
  <2>4. call' = [call EXCEPT ![p] = c] /\ UNCHANGED <<tier, certs, enrollment, now>>
    BY <1>6 DEF ReadForRenew, Begin, c
  <2>5. /\ call' \in [Callers -> Call] /\ call'[p] = c
        /\ \A q \in Callers \ {p} : call'[q] = call[q]
    BY <1>1, <2>2, <2>4
  <2> QED
    BY <1>2, <2>3, <2>4, <2>5, BeginKept
<1>7. CASE ReadForRevoke(p, nid)
  <2> DEFINE c == [Idle EXCEPT !.pc = "mark", !.op = "revoke", !.nid = nid, !.seen = Seen(nid)]
  <2>1. Exists(nid) /\ Seen(nid) \in [role : Roles, expires : Nat]
    BY <1>1, <1>7, SeenTyped DEF ReadForRevoke, RenewAllowed
  <2>2. c \in Call
    BY <1>1, <2>1 DEF Call
  <2>3. /\ c.pc = "mark" /\ c.op = "revoke" /\ c.nid = nid /\ c.parent = None
        /\ c.token = None /\ c.pend = None /\ c.issued = 0
    BY DEF Idle
  <2> HIDE DEF c
  <2>4. call' = [call EXCEPT ![p] = c] /\ UNCHANGED <<tier, certs, enrollment, now>>
    BY <1>7 DEF ReadForRevoke, Begin, c
  <2>5. /\ call' \in [Callers -> Call] /\ call'[p] = c
        /\ \A q \in Callers \ {p} : call'[q] = call[q]
    BY <1>1, <2>2, <2>4
  <2>6. \E i \in DOMAIN records : records[i].nid = nid
    BY <2>1 DEF Exists, Of
  <2> QED
    BY <2>3, <2>4, <2>5, <2>6, BeginKept
<1> QED
  BY <1>3, <1>4, <1>5, <1>6, <1>7

LEMMA ReadPendingKept ==
    ASSUME IndInv, NEW p \in Callers, NEW d \in PendingIds, ReadPending(p, d)
    PROVE  IndInv'
<1>0. call \in [Callers -> Call] /\ Idle \in Call
  BY IdleTyped DEF IndInv, TypeOK
<1> DEFINE c == [Registering(pending[d].nid) EXCEPT !.pc = "lookup", !.pend = d]
<1>1. pending[d].nid \in Nids /\ pending[d].status # "absent"
  BY DEF IndInv, PendingBacked, ReadPending
<1>2. c \in Call
  BY <1>0, <1>1 DEF Registering, Call
<1>3. /\ c.pc = "lookup" /\ c.op = "register" /\ c.nid = pending[d].nid /\ c.parent = None
      /\ c.token = None /\ c.pend = d /\ c.issued = 0
  BY DEF Registering, Idle
<1> HIDE DEF c
<1>4. call' = [call EXCEPT ![p] = c] /\ UNCHANGED <<tier, certs, enrollment, now>>
  BY DEF ReadPending, Begin, c
<1>5. /\ call' \in [Callers -> Call] /\ call'[p] = c
      /\ \A q \in Callers \ {p} : call'[q] = call[q]
  BY <1>0, <1>2, <1>4
<1> QED
  BY <1>1, <1>3, <1>4, <1>5, BeginKept

LEMMA LookupKept ==
    ASSUME IndInv, NEW p \in Callers, Lookup(p)
    PROVE  IndInv'
<1>1. TypeOK /\ call \in [Callers -> Call] /\ CallInv(p) /\ serial \in Nat /\ now \in Nat
  BY DEF IndInv, TypeOK
<1>2. CASE Exists(call[p].nid)
  BY <1>2, ReturnKept DEF Lookup
<1>3. CASE ~Exists(call[p].nid)
  <2> DEFINE c == [call[p] EXCEPT !.pc = "serial"]
  <2>1. c \in Call
    BY <1>1 DEF Call
  <2>2. /\ c.pc = "serial" /\ c.op = call[p].op /\ c.nid = call[p].nid
        /\ c.parent = call[p].parent /\ c.token = call[p].token /\ c.pend = call[p].pend
        /\ c.issued = call[p].issued
    BY <1>1 DEF Call
  <2> HIDE DEF c
  <2>3. call' = [call EXCEPT ![p] = c]
    BY <1>3 DEF Lookup, c
  <2>4. /\ call' \in [Callers -> Call] /\ call'[p] = c
        /\ \A q \in Callers \ {p} : call'[q] = call[q]
    BY <1>1, <2>1, <2>3
  <2>5. UNCHANGED <<tier, certs, enrollment, now>> /\ call[p].pc = "lookup"
    BY DEF Lookup
  <2>6. CallInv(p)'
    BY <1>1, <2>2, <2>4, <2>5 DEF CallInv, certs, enrollment
  <2> QED
    BY <1>1, <2>2, <2>4, <2>5, <2>6, MoveKept DEF certs
<1> QED
  BY <1>2, <1>3

\* The changes to a request in flight are well typed.
LEMMA DrawnTyped ==
    ASSUME NEW c \in Call, NEW nid \in Nids, NEW parent \in Nids \cup {None}, NEW n \in Nat,
           NEW i \in Nat, NEW e \in Nat
    PROVE  [c EXCEPT !.pc = "save", !.nid = nid, !.parent = parent, !.serial = n,
                     !.issued = i, !.expires = e] \in Call
BY DEF Call

LEMMA CascadeTyped ==
    ASSUME NEW c \in Call, NEW n \in Nat, NEW kids \in SUBSET Nids
    PROVE  /\ [c EXCEPT !.pc = "children", !.marked = n] \in Call
           /\ [c EXCEPT !.pc = "cascade", !.children = kids] \in Call
           /\ [c EXCEPT !.children = kids] \in Call
BY DEF Call

LEMMA DrawKept ==
    ASSUME IndInv, NEW p \in Callers, NEW nid \in Nids, NEW parent \in Nids \cup {None},
           NEW validity \in Nat, DrawSerial(p, nid, parent, validity),
           call[p].op = "session" <=> parent # None,
           call[p].pend # None => nid = call[p].nid
    PROVE  IndInv'
<1>1. TypeOK /\ call \in [Callers -> Call] /\ CallInv(p) /\ serial \in Nat /\ now \in Nat
  BY DEF IndInv, TypeOK
<1> DEFINE c == [call[p] EXCEPT !.pc = "save", !.nid = nid, !.parent = parent,
                                !.serial = serial + 1, !.issued = now,
                                !.expires = now + validity]
<1>2. serial + 1 \in Nat /\ now + validity \in Nat
  BY <1>1
<1>3. c \in Call
  <2>1. call[p] \in Call
    BY <1>1
  <2> QED
    BY <1>1, <1>2, <2>1, DrawnTyped
<1>4. /\ c.pc = "save" /\ c.op = call[p].op /\ c.nid = nid /\ c.parent = parent
      /\ c.token = call[p].token /\ c.pend = call[p].pend /\ c.issued = now
  BY <1>1 DEF Call
<1>5. call' = [call EXCEPT ![p] = c]
  BY <1>1 DEF DrawSerial
<1> HIDE DEF c
<1>6. /\ call' \in [Callers -> Call] /\ call'[p] = c
      /\ \A q \in Callers \ {p} : call'[q] = call[q]
  BY <1>1, <1>3, <1>5
<1>7. UNCHANGED <<tier, records, enrollment, now>> /\ serial' \in Nat
  BY <1>1, <1>2 DEF DrawSerial
<1>8. CallInv(p)'
  BY <1>1, <1>4, <1>6, <1>7 DEF CallInv, enrollment
<1> QED
  BY <1>1, <1>4, <1>6, <1>7, <1>8, MoveKept

LEMMA DrawsKept ==
    ASSUME IndInv, NEW p \in Callers,
           \/ DrawRegister(p) \/ DrawGroup(p) \/ DrawRenewal(p)
           \/ \E s \in SessionNids, ttl \in SessionTtls : DrawSession(p, s, ttl)
    PROVE  IndInv'
<1>1. CallInv(p) /\ call[p].parent \in Nids \cup {None} /\ None \notin Nids
  BY NidsAssumption DEF IndInv, TypeOK, Call
<1>2. \A n \in Nids : CertValidity(n) \in Nat
  BY OptionsAssumption DEF CertValidity
<1>3. CASE DrawRenewal(p) /\ TooEarly(p)
  BY <1>3, ReturnKept DEF DrawRenewal
<1>4. CASE DrawRegister(p) \/ DrawGroup(p) \/ (DrawRenewal(p) /\ ~TooEarly(p))
  <2>1. /\ call[p].nid \in Nids /\ call[p].op # "session"
    BY <1>1, <1>4 DEF CallInv, DrawRegister, DrawGroup, DrawRenewal
  <2>2. PICK n \in Nids : n = call[p].nid
    BY <2>1
  <2>3. \E v \in Nat : DrawSerial(p, n, None, v)
    BY <1>2, <1>4, <2>2, OptionsAssumption DEF DrawRegister, DrawGroup, DrawRenewal
  <2> QED
    BY <2>1, <2>2, <2>3, DrawKept
<1>5. ASSUME NEW s \in SessionNids, NEW ttl \in SessionTtls, DrawSession(p, s, ttl)
      PROVE  IndInv'
  <2>1. call[p].op = "session" /\ call[p].pend = None
    BY <1>1, <1>5 DEF DrawSession, CallInv
  <2>2. PICK g \in Nids \cup {None} : g = call[p].parent
    BY <1>1
  <2>3. DrawSerial(p, s, g, ttl) /\ g # None
    BY <1>1, <1>5, <2>1, <2>2 DEF DrawSession, CallInv
  <2>4. s \in Nids /\ ttl \in Nat
    BY OptionsAssumption DEF Nids
  <2> QED
    BY <2>1, <2>3, <2>4, DrawKept
<1> QED
  BY <1>3, <1>4, <1>5

\* A revocation marks its target; for a group it goes on to the children.
LEMMA MarkKept ==
    ASSUME IndInv, NEW p \in Callers, Mark(p)
    PROVE  IndInv'
<1>1. /\ TypeOK /\ call \in [Callers -> Call] /\ CallInv(p) /\ serial \in Nat /\ now \in Nat
      /\ records \in Seq(CertRecord) /\ Parented(records)
  BY DEF IndInv, TypeOK, Parented
<1>2. /\ RecordsKept /\ records' \in Seq(CertRecord) /\ Len(records') = Len(records)
      /\ Parented(records')
  BY <1>1, MarkKeeps DEF Mark
<1>3. /\ tier' = tier /\ serial' = serial /\ tokens' = tokens /\ pending' = pending
      /\ now' = now /\ call[p].pc = "mark"
  BY DEF Mark, enrollment
<1>4. CASE call' = [call EXCEPT ![p].pc = "children", ![p].marked = Len(records)]
  <2> DEFINE c == [call[p] EXCEPT !.pc = "children", !.marked = Len(records)]
  <2>1. Len(records) \in Nat
    BY <1>1
  <2>2. c \in Call
    <3>1. call[p] \in Call
      BY <1>1
    <3> QED
      BY <2>1, <3>1, CascadeTyped
  <2>3. /\ c.pc = "children" /\ c.op = call[p].op /\ c.nid = call[p].nid
        /\ c.parent = call[p].parent /\ c.token = call[p].token /\ c.pend = call[p].pend
        /\ c.issued = call[p].issued /\ c.marked = Len(records)
    BY <1>1 DEF Call
  <2>4. call' = [call EXCEPT ![p] = c]
    BY <1>1, <1>4
  <2> HIDE DEF c
  <2>5. /\ call' \in [Callers -> Call] /\ call'[p] = c
        /\ \A q \in Callers \ {p} : call'[q] = call[q]
    BY <1>1, <2>2, <2>4
  <2>6. CallInv(p)'
    BY <1>1, <1>2, <1>3, <2>1, <2>3, <2>5 DEF CallInv
  <2> QED
    BY <1>1, <1>2, <1>3, <2>3, <2>5, <2>6, PlainKept
<1>5. CASE Return(p)
  <2>1. call'[p] = Idle /\ \A q \in Callers \ {p} : call'[q] = call[q]
    BY <1>1, <1>5 DEF Return
  <2>2. call' \in [Callers -> Call]
    BY <1>1, <1>5, IdleTyped DEF Return
  <2>3. CallInv(p)'
    BY <1>1, <1>3, <2>1, NidsAssumption DEF CallInv, Idle
  <2> QED
    BY <1>1, <1>2, <1>3, <2>1, <2>2, <2>3, PlainKept DEF Idle
<1> QED
  BY <1>4, <1>5 DEF Mark

LEMMA ListKept ==
    ASSUME IndInv, NEW p \in Callers, ListChildren(p)
    PROVE  IndInv'
<1>1. /\ TypeOK /\ call \in [Callers -> Call] /\ CallInv(p) /\ serial \in Nat /\ now \in Nat
      /\ records \in Seq(CertRecord) /\ Len(records) \in Nat /\ DOMAIN records = 1..Len(records)
  BY DEF IndInv, TypeOK
<1> DEFINE kids == LiveChildren(call[p].nid)
           c == [call[p] EXCEPT !.pc = "cascade", !.children = kids]
<1>2. kids \in SUBSET Nids
  <2>1. \A i \in DOMAIN records : records[i] \in CertRecord
    BY <1>1
  <2>2. \A i \in DOMAIN records : records[i].nid \in Nids
    BY <2>1 DEF CertRecord
  <2> QED
    BY <2>2 DEF LiveChildren
<1>3. c \in Call
  <2>1. call[p] \in Call
    BY <1>1
  <2> QED
    BY <1>2, <2>1, CascadeTyped
<1>4. /\ c.pc = "cascade" /\ c.op = call[p].op /\ c.nid = call[p].nid
      /\ c.parent = call[p].parent /\ c.token = call[p].token /\ c.pend = call[p].pend
      /\ c.issued = call[p].issued /\ c.marked = call[p].marked /\ c.children = kids
  BY <1>1 DEF Call
<1>5. call' = [call EXCEPT ![p] = c]
  BY <1>1 DEF ListChildren
<1> HIDE DEF c, kids
<1>6. /\ call' \in [Callers -> Call] /\ call'[p] = c
      /\ \A q \in Callers \ {p} : call'[q] = call[q]
  BY <1>1, <1>3, <1>5
<1>7. /\ UNCHANGED <<tier, records, enrollment, now>> /\ serial' = serial
      /\ call[p].pc = "children" /\ records' = records
  BY DEF ListChildren, certs
<1>8. call[p].marked \in Nat /\ call[p].marked <= Len(records)
  BY <1>1, <1>7 DEF CallInv, Call
<1>9. \A i \in 1..call[p].marked : records[i].parent = call[p].nid =>
          records[i].nid \in kids \/ Dead(records[i].nid)
  <2> SUFFICES ASSUME NEW i \in 1..call[p].marked, records[i].parent = call[p].nid
               PROVE  records[i].nid \in kids \/ Dead(records[i].nid)
    OBVIOUS
  <2>1. i \in DOMAIN records
    BY <1>1, <1>8
  <2>2. CASE records[i].revoked
    BY <2>1, <2>2 DEF Dead, Of
  <2>3. CASE ~records[i].revoked
    BY <2>1, <2>3 DEF kids, LiveChildren
  <2> QED
    BY <2>2, <2>3
<1>10. Cascaded(p)'
  BY <1>4, <1>6, <1>7, <1>9 DEF Cascaded, Dead, Of
<1>11. CallInv(p)'
  BY <1>1, <1>4, <1>6, <1>7, <1>8, <1>10 DEF CallInv, enrollment
<1> QED
  BY <1>1, <1>4, <1>6, <1>7, <1>11, MoveKept

LEMMA ChildKept ==
    ASSUME IndInv, NEW p \in Callers, NEW s \in Nids, RevokeChild(p, s)
    PROVE  IndInv'
<1>1. /\ TypeOK /\ call \in [Callers -> Call] /\ CallInv(p) /\ serial \in Nat /\ now \in Nat
      /\ records \in Seq(CertRecord) /\ Len(records) \in Nat /\ DOMAIN records = 1..Len(records)
      /\ Parented(records)
  BY DEF IndInv, TypeOK, Parented
<1>2. /\ RecordsKept /\ records' \in Seq(CertRecord) /\ Len(records') = Len(records)
      /\ Parented(records')
      /\ Exists(s) => Dead(s)'
  BY <1>1, MarkKeeps DEF RevokeChild
<1> DEFINE kids == call[p].children \ {s}
           c == [call[p] EXCEPT !.children = kids]
<1>3. c \in Call
  <2>1. call[p] \in Call
    BY <1>1
  <2>2. kids \in SUBSET Nids
    BY <2>1 DEF Call
  <2> QED
    BY <2>1, <2>2, CascadeTyped
<1>4. /\ c.pc = call[p].pc /\ c.op = call[p].op /\ c.nid = call[p].nid
      /\ c.parent = call[p].parent /\ c.token = call[p].token /\ c.pend = call[p].pend
      /\ c.issued = call[p].issued /\ c.marked = call[p].marked /\ c.children = kids
  BY <1>1 DEF Call
<1>5. call' = [call EXCEPT ![p] = c]
  BY <1>1 DEF RevokeChild
<1> HIDE DEF c
<1>6. /\ call' \in [Callers -> Call] /\ call'[p] = c
      /\ \A q \in Callers \ {p} : call'[q] = call[q]
  BY <1>1, <1>3, <1>5
<1>7. /\ tier' = tier /\ serial' = serial /\ tokens' = tokens /\ pending' = pending
      /\ now' = now /\ call[p].pc = "cascade"
  BY DEF RevokeChild, enrollment
<1>8. call[p].marked \in Nat /\ call[p].marked <= Len(records) /\ Cascaded(p)
  BY <1>1, <1>7 DEF CallInv, Call
<1>9. ASSUME NEW i \in 1..call[p].marked, records'[i].parent = call[p].nid
      PROVE  records'[i].nid \in kids \/ Dead(records[i].nid)'
  <2>1. i \in DOMAIN records
    BY <1>1, <1>8
  <2>2. records'[i].nid = records[i].nid /\ records[i].parent = call[p].nid
    BY <1>1, <1>2, <1>9, <2>1 DEF RecordsKept
  <2>3. CASE records[i].nid = s
    <3>1. Exists(s)
      BY <2>1, <2>3 DEF Exists, Of
    <3>2. Dead(s)'
      BY <1>2, <3>1
    <3> QED
      BY <2>2, <2>3, <3>2 DEF Dead, Of
  <2>4. CASE records[i].nid # s /\ records[i].nid \in call[p].children
    BY <2>2, <2>4
  <2>5. CASE Dead(records[i].nid)
    <3>1. PICK k \in DOMAIN records : records[k].nid = records[i].nid /\ records[k].revoked
      BY <2>5 DEF Dead, Of
    <3>2. k \in DOMAIN records' /\ records'[k].nid = records'[i].nid /\ records'[k].revoked
      BY <1>1, <1>2, <2>2, <3>1 DEF RecordsKept
    <3> QED
      BY <3>2 DEF Dead, Of
  <2> QED
    BY <1>8, <2>2, <2>3, <2>4, <2>5 DEF Cascaded
<1>10. Cascaded(p)'
  BY <1>4, <1>6, <1>9 DEF Cascaded
<1>11. CallInv(p)'
  BY <1>1, <1>2, <1>4, <1>6, <1>7, <1>8, <1>10 DEF CallInv
<1> QED
  BY <1>1, <1>2, <1>4, <1>6, <1>7, <1>11, PlainKept

-----------------------------------------------------------------------------
(* Steps that touch tokens, the queue or the table.                         *)

\* What is left to show when the certificates and the clock do not change.
LEMMA EnrollKept ==
    ASSUME IndInv, NEW p \in Callers, call' \in [Callers -> Call],
           \A q \in Callers \ {p} : call'[q] = call[q], CallInv(p)',
           tier' = tier, serial' = serial, records' = records, now' = now,
           tokens' \in [TokenIds -> Tokens], pending' \in [PendingIds -> Pendings],
           \A d \in PendingIds : pending[d].status # "absent" =>
              pending'[d].status # "absent" /\ pending'[d].nid = pending[d].nid,
           TokensHeldOnce', PendingBacked', QueueBounded'
    PROVE  IndInv'
<1>1. TypeOK /\ records \in Seq(CertRecord) /\ call \in [Callers -> Call] /\ now \in Nat
  BY DEF IndInv, TypeOK
<1>2. Kept
  BY <1>1, RecordsSame DEF Kept
<1>3. TypeOK'
  BY <1>1 DEF TypeOK
<1>4. \A q \in Callers : CallInv(q)'
  BY <1>1, <1>2, CallKept DEF IndInv
<1>5. IssuedInThePast'
  BY DEF IndInv, IssuedInThePast
<1> QED
  BY <1>3, <1>4, <1>5 DEF IndInv

LEMMA BackedSame ==
    ASSUME PendingBacked, records' = records, pending' = pending
    PROVE  PendingBacked'
BY DEF PendingBacked, Exists, Of

LEMMA ConsumeKept ==
    ASSUME IndInv, NEW p \in Callers, NEW nid \in Nids, NEW t \in TokenIds,
           ConsumeToken(p, nid, t)
    PROVE  IndInv'
<1>1. /\ TypeOK /\ call \in [Callers -> Call] /\ now \in Nat /\ Idle \in Call
      /\ tokens \in [TokenIds -> Tokens] /\ pending \in [PendingIds -> Pendings]
      /\ t # None /\ TokensHeldOnce
  BY IdleTyped, NidsAssumption DEF IndInv, TypeOK
<1> DEFINE c == [Registering(nid) EXCEPT !.pc = "lookup", !.token = t]
<1>2. c \in Call
  BY <1>1 DEF Registering, Call
<1>3. /\ c.pc = "lookup" /\ c.op = "register" /\ c.nid = nid /\ c.parent = None
      /\ c.token = t /\ c.pend = None /\ c.issued = 0
  BY DEF Registering, Idle
<1> HIDE DEF c
<1>4. call' = [call EXCEPT ![p] = c] /\ call[p] = Idle
  BY DEF ConsumeToken, Begin, c
<1>5. /\ call' \in [Callers -> Call] /\ call'[p] = c
      /\ \A q \in Callers \ {p} : call'[q] = call[q]
  BY <1>1, <1>2, <1>4
<1>6. /\ tier' = tier /\ serial' = serial /\ records' = records /\ now' = now
      /\ pending' = pending /\ tokens[t].status = "live"
      /\ tokens' = [tokens EXCEPT ![t] = [tokens[t] EXCEPT !.status = "consumed"]]
  BY <1>1 DEF ConsumeToken, certs
<1>7. [tokens[t] EXCEPT !.status = "consumed"] \in Tokens
  BY <1>1 DEF Tokens
<1>8. /\ tokens' \in [TokenIds -> Tokens] /\ tokens'[t].status = "consumed"
      /\ \A u \in TokenIds \ {t} : tokens'[u] = tokens[u]
  BY <1>1, <1>6, <1>7 DEF Tokens
<1>9. CallInv(p)'
  BY <1>1, <1>3, <1>5, <1>6 DEF CallInv
<1>10. /\ \A i \in DOMAIN records : records[i].token # t /\ records[i].token \in TokenIds \cup {None}
       /\ \A q \in Callers : call[q].token # t /\ call[q].token \in TokenIds \cup {None}
  <2>1. \A i \in DOMAIN records : records[i] \in CertRecord
    BY DEF IndInv, TypeOK
  <2>2. \A i \in DOMAIN records : records[i].token \in TokenIds \cup {None}
    BY <2>1 DEF CertRecord
  <2>3. \A q \in Callers : call[q].token \in TokenIds \cup {None}
    BY <1>1 DEF Call
  <2> QED
    BY <1>1, <1>6, <2>2, <2>3 DEF TokensHeldOnce
<1>11. TokensHeldOnce'
  <2>1. \A q \in Callers : call'[q].token = IF q = p THEN t ELSE call[q].token
    BY <1>3, <1>5
  <2> QED
    BY <1>1, <1>6, <1>8, <1>10, <2>1 DEF TokensHeldOnce
<1>12. QueueBounded'
  <2>1. InQueue' \subseteq InQueue /\ Joining' \subseteq Joining
    BY <1>3, <1>5, <1>6 DEF InQueue, Joining
  <2> QED
    BY <2>1, QueueSame DEF IndInv
<1>13. PendingBacked'
  BY <1>6, BackedSame DEF IndInv
<1> QED
  BY <1>1, <1>5, <1>6, <1>8, <1>9, <1>11, <1>12, <1>13, EnrollKept

LEMMA CountKept ==
    ASSUME IndInv, NEW p \in Callers, NEW nid \in Nids, CountQueue(p, nid)
    PROVE  IndInv'
<1>1. /\ TypeOK /\ call \in [Callers -> Call] /\ now \in Nat /\ Idle \in Call
      /\ tokens \in [TokenIds -> Tokens] /\ pending \in [PendingIds -> Pendings]
      /\ TokensHeldOnce /\ QueueBounded /\ records \in Seq(CertRecord)
  BY IdleTyped DEF IndInv, TypeOK
<1> DEFINE c == [Registering(nid) EXCEPT !.pc = "enqueue"]
<1>2. c \in Call
  BY <1>1 DEF Registering, Call
<1>3. /\ c.pc = "enqueue" /\ c.op = "register" /\ c.nid = nid /\ c.parent = None
      /\ c.token = None /\ c.pend = None /\ c.issued = 0
  BY DEF Registering, Idle
<1> HIDE DEF c
<1>4. call' = [call EXCEPT ![p] = c] /\ call[p] = Idle
  BY DEF CountQueue, Begin, c
<1>5. /\ call' \in [Callers -> Call] /\ call'[p] = c
      /\ \A q \in Callers \ {p} : call'[q] = call[q]
  BY <1>1, <1>2, <1>4
<1>6. /\ tier' = tier /\ serial' = serial /\ records' = records /\ now' = now
      /\ pending' = pending /\ tokens' = tokens /\ ~QueueFull
  BY <1>1 DEF CountQueue, certs, enrollment
<1>7. CallInv(p)'
  BY <1>1, <1>3, <1>5, <1>6 DEF CallInv
<1>8. TokensHeldOnce'
  <2>1. \A q \in Callers : call'[q].token \in {call[q].token, None}
    BY <1>3, <1>5
  <2>2. RecordsKept
    BY <1>1, <1>6, RecordsSame
  <2> QED
    BY <1>1, <1>6, <2>1, <2>2, HeldSame
<1>9. QueueBounded'
  <2>1. InQueue' = InQueue /\ IsFiniteSet(InQueue) /\ Cardinality(InQueue) < MaxQueue
    <3>1. Cardinality(InQueue) \in Nat
      BY <1>1, FS_CardinalityType DEF QueueBounded
    <3> QED
      BY <1>1, <1>6, <3>1, OptionsAssumption DEF InQueue, QueueFull, QueueBounded
  <2>2. Joining' \subseteq Callers
    BY DEF Joining
  <2>3. IsFiniteSet(Joining') /\ Cardinality(Joining') <= Cardinality(Callers)
    BY <2>2, FS_Subset, CallersAssumption
  <2>4. /\ Cardinality(InQueue) \in Nat /\ Cardinality(Joining') \in Nat
        /\ Cardinality(Callers) \in Nat
    BY <2>1, <2>3, FS_CardinalityType, CallersAssumption
  <2> QED
    BY <2>1, <2>3, <2>4, OptionsAssumption DEF QueueBounded
<1>10. PendingBacked'
  BY <1>6, BackedSame DEF IndInv
<1> QED
  BY <1>1, <1>5, <1>6, <1>7, <1>8, <1>9, <1>10, EnrollKept

\* A request that returns, from whatever it did.
LEMMA ReturnFacts ==
    ASSUME TypeOK, now' \in Nat, NEW p \in Callers, Return(p)
    PROVE  /\ call' \in [Callers -> Call] /\ call'[p] = Idle
           /\ \A q \in Callers \ {p} : call'[q] = call[q]
           /\ \A q \in Callers : call'[q].token \in {call[q].token, None}
           /\ CallInv(p)' /\ Joining' \subseteq Joining /\ p \notin Joining'
<1>1. call \in [Callers -> Call]
  BY DEF TypeOK
<1>2. call'[p] = Idle /\ \A q \in Callers \ {p} : call'[q] = call[q]
  BY <1>1 DEF Return
<1>3. call' \in [Callers -> Call]
  BY <1>1, IdleTyped DEF Return
<1>4. CallInv(p)'
  BY <1>2, NidsAssumption DEF CallInv, Idle
<1> QED
  BY <1>2, <1>3, <1>4 DEF Joining, Idle

LEMMA EnqueueKept ==
    ASSUME IndInv, NEW p \in Callers, NEW d \in PendingIds, Enqueue(p, d)
    PROVE  IndInv'
<1>1. /\ TypeOK /\ call \in [Callers -> Call] /\ now \in Nat /\ CallInv(p)
      /\ tokens \in [TokenIds -> Tokens] /\ pending \in [PendingIds -> Pendings]
      /\ TokensHeldOnce /\ QueueBounded /\ records \in Seq(CertRecord) /\ PendingBacked
  BY DEF IndInv, TypeOK
<1>2. /\ tier' = tier /\ serial' = serial /\ records' = records /\ now' = now
      /\ tokens' = tokens /\ Return(p) /\ pending[d].status = "absent"
      /\ call[p].pc = "enqueue"
      /\ pending' = [pending EXCEPT ![d] = [status |-> "pending", nid |-> call[p].nid]]
  BY DEF Enqueue, certs
<1>3. call[p].nid \in Nids
  BY <1>1, <1>2 DEF CallInv
<1>4. [status |-> "pending", nid |-> call[p].nid] \in Pendings
  BY <1>3 DEF Pendings
<1>5. /\ pending' \in [PendingIds -> Pendings]
      /\ pending'[d].status = "pending" /\ pending'[d].nid = call[p].nid
      /\ \A x \in PendingIds \ {d} : pending'[x] = pending[x]
  BY <1>1, <1>2, <1>4
<1>6. /\ call' \in [Callers -> Call] /\ call'[p] = Idle
      /\ \A q \in Callers \ {p} : call'[q] = call[q]
      /\ \A q \in Callers : call'[q].token \in {call[q].token, None}
      /\ CallInv(p)' /\ Joining' \subseteq Joining /\ p \notin Joining'
  BY <1>1, <1>2, ReturnFacts
<1>7. TokensHeldOnce'
  <2>1. RecordsKept
    BY <1>1, <1>2, RecordsSame
  <2> QED
    BY <1>1, <1>2, <1>6, <2>1, HeldSame
<1>8. PendingBacked'
  BY <1>1, <1>2, <1>3, <1>5 DEF PendingBacked, Exists, Of
<1>9. QueueBounded'
  <2>1. /\ InQueue' = InQueue \cup {d} /\ d \notin InQueue /\ p \in Joining
        /\ Joining' = Joining \ {p}
    BY <1>2, <1>5, <1>6 DEF InQueue, Joining
  <2>2. IsFiniteSet(InQueue) /\ IsFiniteSet(Joining)
    BY <1>1, FS_Subset, CallersAssumption DEF QueueBounded, Joining
  <2>3. IsFiniteSet(InQueue') /\ Cardinality(InQueue') = Cardinality(InQueue) + 1
    BY <2>1, <2>2, FS_AddElement
  <2>4. Cardinality(Joining') = Cardinality(Joining) - 1
    BY <2>1, <2>2, FS_RemoveElement
  <2>5. /\ Cardinality(InQueue) \in Nat /\ Cardinality(Joining) \in Nat
        /\ Cardinality(Callers) \in Nat
    BY <2>2, FS_CardinalityType, CallersAssumption
  <2> QED
    BY <1>1, <2>3, <2>4, <2>5, OptionsAssumption DEF QueueBounded
<1> QED
  BY <1>1, <1>2, <1>5, <1>6, <1>7, <1>8, <1>9, EnrollKept

LEMMA ApproveKept ==
    ASSUME IndInv, NEW p \in Callers, Approve(p)
    PROVE  IndInv'
<1>1. /\ TypeOK /\ call \in [Callers -> Call] /\ now \in Nat /\ CallInv(p)
      /\ tokens \in [TokenIds -> Tokens] /\ pending \in [PendingIds -> Pendings]
      /\ TokensHeldOnce /\ QueueBounded /\ records \in Seq(CertRecord) /\ PendingBacked
  BY DEF IndInv, TypeOK
<1>2. /\ tier' = tier /\ serial' = serial /\ records' = records /\ now' = now
      /\ tokens' = tokens /\ Return(p) /\ call[p].pc = "approve"
  BY DEF Approve, certs
<1>3. /\ call[p].pend \in PendingIds /\ Exists(call[p].nid)
      /\ pending[call[p].pend].nid = call[p].nid
  BY <1>1, <1>2 DEF CallInv, Call
<1>4. PICK d \in PendingIds : d = call[p].pend
  BY <1>3
<1>5. \/ pending' = pending
      \/ /\ pending[d].status = "pending"
         /\ pending' = [pending EXCEPT ![d] = [pending[d] EXCEPT !.status = "approved"]]
  BY <1>1, <1>4 DEF Approve
<1>6. [pending[d] EXCEPT !.status = "approved"] \in Pendings
  BY <1>1 DEF Pendings
<1>7. /\ pending' \in [PendingIds -> Pendings]
      /\ \A x \in PendingIds \ {d} : pending'[x] = pending[x]
      /\ pending'[d].nid = pending[d].nid
      /\ \/ pending'[d].status = pending[d].status
         \/ pending[d].status = "pending" /\ pending'[d].status = "approved"
  <2>1. CASE pending' = [pending EXCEPT ![d] = [pending[d] EXCEPT !.status = "approved"]]
    <3>1. pending'[d] = [pending[d] EXCEPT !.status = "approved"] /\ pending[d] \in Pendings
      BY <1>1, <2>1
    <3>2. pending'[d].nid = pending[d].nid /\ pending'[d].status = "approved"
      BY <3>1 DEF Pendings
    <3>3. /\ pending' \in [PendingIds -> Pendings]
          /\ \A x \in PendingIds \ {d} : pending'[x] = pending[x]
      BY <1>1, <1>6, <2>1
    <3>4. pending'[d].status = pending[d].status \/ pending[d].status = "pending"
      BY <1>5
    <3> QED
      BY <3>2, <3>3, <3>4
  <2>2. CASE pending' = pending
    BY <1>1, <2>2
  <2> QED
    BY <1>5, <2>1, <2>2
<1>8. /\ call' \in [Callers -> Call] /\ call'[p] = Idle
      /\ \A q \in Callers \ {p} : call'[q] = call[q]
      /\ \A q \in Callers : call'[q].token \in {call[q].token, None}
      /\ CallInv(p)' /\ Joining' \subseteq Joining
  BY <1>1, <1>2, ReturnFacts
<1>9. TokensHeldOnce'
  <2>1. RecordsKept
    BY <1>1, <1>2, RecordsSame
  <2> QED
    BY <1>1, <1>2, <1>8, <2>1, HeldSame
<1>10. PendingBacked'
  BY <1>1, <1>2, <1>3, <1>4, <1>7 DEF PendingBacked, Exists, Of
<1>11. QueueBounded'
  <2>1. InQueue' \subseteq InQueue
    BY <1>7 DEF InQueue
  <2> QED
    BY <1>1, <1>8, <2>1, QueueSame
<1>12. \A x \in PendingIds : pending[x].status # "absent" =>
          pending'[x].status # "absent" /\ pending'[x].nid = pending[x].nid
  BY <1>7
<1> QED
  BY <1>1, <1>2, <1>7, <1>8, <1>9, <1>10, <1>11, <1>12, EnrollKept

\* The certificate is added; a token moves from the request to the record.
LEMMA SaveKept ==
    ASSUME IndInv, NEW p \in Callers, Save(p)
    PROVE  IndInv'
<1>1. /\ TypeOK /\ call \in [Callers -> Call] /\ now \in Nat /\ CallInv(p) /\ serial \in Nat
      /\ tokens \in [TokenIds -> Tokens] /\ pending \in [PendingIds -> Pendings]
      /\ TokensHeldOnce /\ QueueBounded /\ records \in Seq(CertRecord) /\ PendingBacked
      /\ Parented(records) /\ IssuedInThePast /\ call[p] \in Call
  BY DEF IndInv, TypeOK, Parented
<1>2. /\ tier' = tier /\ serial' = serial /\ now' = now /\ tokens' = tokens
      /\ pending' = pending /\ call[p].pc = "save"
  BY DEF Save, enrollment
<1>3. CASE SerialTaken(call[p].serial)
  <2>1. Return(p) /\ UNCHANGED <<tier, certs, enrollment, now>>
    BY <1>2, <1>3 DEF Save, certs, enrollment
  <2> QED
    BY <2>1, ReturnKept
<1>4. CASE ~SerialTaken(call[p].serial)
  <2> DEFINE r == NewRecord(call[p])
             n == Len(records) + 1
  <2>1. records' = Append(records, r)
    BY <1>4 DEF Save
  <2>2. call[p].nid \in Nids /\ (call[p].op = "session" <=> call[p].parent # None)
        /\ call[p].issued <= now
    BY <1>1, <1>2 DEF CallInv
  <2>3. /\ r.nid = call[p].nid /\ r.role = RoleOf(call[p].op) /\ r.parent = call[p].parent
        /\ r.issued = call[p].issued /\ r.token = call[p].token
    BY DEF NewRecord
  <2>4. RoleOf(call[p].op) \in Roles /\ (RoleOf(call[p].op) = "session" <=> call[p].op = "session")
    <3>1. call[p].op \in {"none", "register", "group", "session", "renew", "revoke"}
      BY <1>1 DEF Call
    <3>2. CASE call[p].op \in {"group", "session"}
      BY <3>2 DEF RoleOf, Roles
    <3>3. CASE call[p].op \notin {"group", "session"}
      <4>1. RoleOf(call[p].op) = None /\ call[p].parent = None
        BY <2>2, <3>3 DEF RoleOf
      <4> QED
        BY <3>3, <4>1, NidsAssumption DEF Roles
    <3> QED
      BY <3>2, <3>3
  <2>5. r \in CertRecord
    <3>1. /\ call[p].serial \in Nat /\ call[p].parent \in Nids \cup {None}
          /\ call[p].issued \in Nat /\ call[p].expires \in Nat
          /\ call[p].token \in TokenIds \cup {None}
      BY <1>1 DEF Call
    <3> QED
      BY <2>2, <2>4, <3>1 DEF NewRecord, CertRecord
  <2>6. /\ RecordsKept /\ records' \in Seq(CertRecord) /\ Len(records') = Len(records) + 1
        /\ Parented(records') /\ records'[Len(records')] = r
        /\ \A i \in 1..Len(records) : records'[i] = records[i]
    <3>1. (r.role = "session") <=> (r.parent # None)
      BY <2>2, <2>3, <2>4
    <3> QED
      BY <1>1, <2>1, <2>5, <3>1, AppendKeeps
  <2> HIDE DEF r
  <2>7. /\ Len(records) \in Nat /\ DOMAIN records = 1..Len(records)
        /\ DOMAIN records' = 1..n /\ n \in Nat /\ n \notin DOMAIN records
        /\ records'[n] = r
        /\ \A i \in 1..n : i \in DOMAIN records \/ i = n
    BY <1>1, <2>6
  <2>8. /\ call' \in [Callers -> Call] /\ \A q \in Callers \ {p} : call'[q] = call[q]
        /\ call'[p].token = None /\ call'[p].pc # "enqueue" /\ CallInv(p)'
    <3>1. CASE call[p].pend # None
      <4> DEFINE c == [call[p] EXCEPT !.pc = "approve"]
      <4>1. c \in Call
        BY <1>1 DEF Call
      <4>2. /\ c.pc = "approve" /\ c.op = call[p].op /\ c.nid = call[p].nid
            /\ c.parent = call[p].parent /\ c.token = call[p].token /\ c.pend = call[p].pend
            /\ c.issued = call[p].issued
        BY <1>1 DEF Call
      <4> HIDE DEF c
      <4>3. call' = [call EXCEPT ![p] = c]
        BY <1>1, <1>4, <3>1 DEF Save, c
      <4>4. /\ call' \in [Callers -> Call] /\ call'[p] = c
            /\ \A q \in Callers \ {p} : call'[q] = call[q]
        BY <1>1, <4>1, <4>3
      <4>5. n \in DOMAIN records' /\ records'[n].nid = c.nid
        BY <2>3, <2>7, <4>2
      <4>6. Exists(call[p].nid)'
        BY <4>2, <4>4, <4>5 DEF Exists, Of
      <4>7. CallInv(p)'
        BY <1>1, <1>2, <3>1, <4>2, <4>4, <4>6 DEF CallInv
      <4>8. call[p].token = None
        BY <1>1, <3>1 DEF CallInv
      <4> QED
        BY <4>2, <4>4, <4>7, <4>8
    <3>2. CASE call[p].pend = None
      <4>1. Return(p)
        BY <1>4, <3>2 DEF Save
      <4>2. now' \in Nat
        BY <1>1, <1>2
      <4>3. /\ call' \in [Callers -> Call] /\ call'[p] = Idle /\ CallInv(p)'
            /\ \A q \in Callers \ {p} : call'[q] = call[q]
        BY <1>1, <4>1, <4>2, ReturnFacts
      <4> QED
        BY <4>3 DEF Idle
    <3> QED
      BY <3>1, <3>2
  <2>9. Kept
    BY <1>1, <1>2, <2>6 DEF Kept
  <2>10. TypeOK'
    BY <1>1, <1>2, <2>6, <2>8 DEF TypeOK, Parented
  <2>11. \A q \in Callers : CallInv(q)'
    BY <1>1, <2>8, <2>9, CallKept DEF IndInv
  <2>12. TokensHeldOnce'
    <3>1. \A i \in DOMAIN records : records'[i].token = records[i].token
      BY <2>6, <2>7
    <3>2. records'[n].token = call[p].token
      BY <2>3, <2>7
    <3> QED
      BY <1>1, <1>2, <2>7, <2>8, <3>1, <3>2, SMTT(20) DEF TokensHeldOnce
  <2>13. PendingBacked'
    <3>1. \A nid : Exists(nid) => Exists(nid)'
      BY <1>1, <2>6, NidKept
    <3> QED
      BY <1>1, <1>2, <3>1 DEF PendingBacked, Exists, Of
  <2>14. QueueBounded'
    <3>1. InQueue' \subseteq InQueue /\ Joining' \subseteq Joining
      BY <1>2, <2>8 DEF InQueue, Joining
    <3> QED
      BY <1>1, <3>1, QueueSame
  <2>15. IssuedInThePast'
    BY <1>1, <1>2, <2>2, <2>3, <2>6, <2>7 DEF IssuedInThePast
  <2> QED
    BY <2>10, <2>11, <2>12, <2>13, <2>14, <2>15 DEF IndInv
<1> QED
  BY <1>3, <1>4

LEMMA OperatorKept ==
    ASSUME IndInv, OperatorStep
    PROVE  IndInv'
<1>1. /\ TypeOK /\ call \in [Callers -> Call] /\ now \in Nat /\ PendingBacked
      /\ tokens \in [TokenIds -> Tokens] /\ pending \in [PendingIds -> Pendings]
      /\ TokensHeldOnce /\ QueueBounded /\ records \in Seq(CertRecord)
  BY DEF IndInv, TypeOK
<1>2. PICK p \in Callers : TRUE
  BY CallersAssumption
<1>3. CASE \E t \in TokenIds : RevokeToken(t) \/ \E ttl \in TokenTtls : CreateToken(t, ttl)
  <2>1. PICK t \in TokenIds : RevokeToken(t) \/ \E ttl \in TokenTtls : CreateToken(t, ttl)
    BY <1>3
  <2>2. /\ tier' = tier /\ serial' = serial /\ records' = records /\ now' = now
        /\ pending' = pending /\ call' = call /\ tokens[t].status \in {"absent", "live"}
    BY <2>1 DEF RevokeToken, CreateToken, certs
  <2>3. \E v \in Tokens : tokens' = [tokens EXCEPT ![t] = v]
    <3>1. CASE RevokeToken(t)
      <4>1. [tokens[t] EXCEPT !.status = "revoked"] \in Tokens
        BY <1>1 DEF Tokens
      <4> QED
        BY <1>1, <3>1, <4>1 DEF RevokeToken
    <3>2. ASSUME NEW ttl \in TokenTtls, CreateToken(t, ttl)
          PROVE  \E v \in Tokens : tokens' = [tokens EXCEPT ![t] = v]
      <4>1. now + ClampTtl(ttl) \in Nat
        BY <1>1, OptionsAssumption DEF ClampTtl, Min2
      <4>2. [status |-> "live", expires |-> now + ClampTtl(ttl)] \in Tokens
        BY <4>1 DEF Tokens
      <4> QED
        BY <3>2, <4>2 DEF CreateToken
    <3> QED
      BY <2>1, <3>1, <3>2
  <2>4. /\ tokens' \in [TokenIds -> Tokens]
        /\ \A u \in TokenIds \ {t} : tokens'[u] = tokens[u]
    BY <1>1, <2>3
  <2>5. \A u \in TokenIds : tokens[u].status = "consumed" => tokens'[u].status = "consumed"
    BY <2>2, <2>4
  <2>6. TokensHeldOnce'
    <3>1. RecordsKept
      BY <1>1, <2>2, RecordsSame
    <3> QED
      BY <1>1, <2>2, <2>5, <3>1, HeldSame
  <2>7. QueueBounded'
    <3>1. InQueue' \subseteq InQueue /\ Joining' \subseteq Joining
      BY <2>2 DEF InQueue, Joining
    <3> QED
      BY <1>1, <3>1, QueueSame
  <2>8. PendingBacked' /\ CallInv(p)'
    <3>1. CallInv(p)'
      BY <2>2 DEF IndInv, CallInv, Cascaded, Dead, Exists, Of
    <3> QED
      BY <1>1, <2>2, <3>1, BackedSame
  <2> QED
    BY <1>1, <2>2, <2>4, <2>6, <2>7, <2>8, EnrollKept
<1>4. CASE \E d \in PendingIds : Reject(d)
  <2>1. PICK d \in PendingIds : Reject(d)
    BY <1>4
  <2>2. /\ tier' = tier /\ serial' = serial /\ records' = records /\ now' = now
        /\ tokens' = tokens /\ call' = call /\ pending[d].status = "pending"
        /\ pending' = [pending EXCEPT ![d] = [pending[d] EXCEPT !.status = "rejected"]]
    BY <1>1, <2>1 DEF Reject, certs
  <2>3. pending[d] \in Pendings /\ [pending[d] EXCEPT !.status = "rejected"] \in Pendings
    BY <1>1 DEF Pendings
  <2>4. pending'[d] = [pending[d] EXCEPT !.status = "rejected"]
    BY <1>1, <2>2
  <2>5. pending'[d].nid = pending[d].nid /\ pending'[d].status = "rejected"
    BY <2>3, <2>4 DEF Pendings
  <2>6. /\ pending' \in [PendingIds -> Pendings]
        /\ \A x \in PendingIds \ {d} : pending'[x] = pending[x]
    BY <1>1, <2>2, <2>3
  <2>7. \A x \in PendingIds : pending[x].status # "absent" =>
           pending'[x].status # "absent" /\ pending'[x].nid = pending[x].nid
    BY <2>5, <2>6
  <2>8. TokensHeldOnce' /\ QueueBounded' /\ PendingBacked'
    <3>1. TokensHeldOnce'
      BY <1>1, <2>2 DEF TokensHeldOnce
    <3>2. InQueue' \subseteq InQueue /\ Joining' \subseteq Joining
      BY <2>2, <2>5, <2>6 DEF InQueue, Joining
    <3>3. PendingBacked'
      BY <1>1, <2>2, <2>5, <2>6 DEF PendingBacked, Exists, Of
    <3> QED
      BY <1>1, <3>1, <3>2, <3>3, QueueSame
  <2>9. CallInv(p)'
    <3>1. Kept
      BY <1>1, <2>2, <2>7, RecordsSame DEF Kept
    <3>2. call'[p] = call[p] /\ CallInv(p)
      BY <2>2 DEF IndInv
    <3> QED
      BY <1>1, <3>1, <3>2, CallKept
  <2> QED
    BY <1>1, <2>2, <2>6, <2>7, <2>8, <2>9, EnrollKept
<1> QED
  BY <1>3, <1>4 DEF OperatorStep

LEMMA TickKept ==
    ASSUME IndInv, Tick
    PROVE  IndInv'
<1>1. /\ TypeOK /\ call \in [Callers -> Call] /\ now \in Nat /\ PendingBacked
      /\ TokensHeldOnce /\ QueueBounded /\ records \in Seq(CertRecord) /\ IssuedInThePast
  BY DEF IndInv, TypeOK
<1>2. /\ tier' = tier /\ serial' = serial /\ records' = records /\ now' = now + 1
      /\ tokens' = tokens /\ call' = call /\ pending' = pending
  BY DEF Tick, certs, enrollment
<1>3. Kept
  BY <1>1, <1>2, RecordsSame DEF Kept
<1>4. \A q \in Callers : CallInv(q)'
  BY <1>1, <1>2, <1>3, CallKept DEF IndInv
<1>5. TypeOK'
  BY <1>1, <1>2 DEF TypeOK
<1>6. TokensHeldOnce' /\ PendingBacked'
  BY <1>1, <1>2, BackedSame DEF TokensHeldOnce
<1>7. QueueBounded'
  <2>1. InQueue' \subseteq InQueue /\ Joining' \subseteq Joining
    BY <1>2 DEF InQueue, Joining
  <2> QED
    BY <1>1, <2>1, QueueSame
<1>8. IssuedInThePast'
  <2>1. \A i \in DOMAIN records : records[i] \in CertRecord
    BY <1>1
  <2>2. \A i \in DOMAIN records : records[i].issued \in Nat
    BY <2>1 DEF CertRecord
  <2> QED
    BY <1>1, <1>2, <2>2 DEF IssuedInThePast
<1> QED
  BY <1>4, <1>5, <1>6, <1>7, <1>8 DEF IndInv

-----------------------------------------------------------------------------
(* Every step keeps the invariant.                                          *)

LEMMA InitHolds == Init => IndInv
<1> SUFFICES ASSUME Init PROVE IndInv
  OBVIOUS
<1>1. call \in [Callers -> Call] /\ \A p \in Callers : call[p] = Idle
  BY IdleTyped DEF Init
<1>2. /\ tokens \in [TokenIds -> Tokens] /\ pending \in [PendingIds -> Pendings]
      /\ \A d \in PendingIds : pending[d].status = "absent"
  BY DEF Init, NoToken, Tokens, NoPending, Pendings
<1>3. records \in Seq(CertRecord) /\ DOMAIN records = {} /\ serial \in Nat /\ now \in Nat
      /\ tier \in Tiers
  BY DEF Init
<1>4. TypeOK
  BY <1>1, <1>2, <1>3 DEF TypeOK
<1>5. \A p \in Callers : CallInv(p)
  BY <1>1, <1>3, IdleInv
<1>6. TokensHeldOnce
  BY <1>1, <1>3 DEF TokensHeldOnce, Idle
<1>7. InQueue = {} /\ Joining = {}
  BY <1>1, <1>2 DEF InQueue, Joining, Idle
<1>8. Cardinality(Callers) \in Nat /\ Cardinality(Callers) # 0
  BY CallersAssumption, FS_CardinalityType, FS_EmptySet
<1>9. QueueBounded
  <2>1. IsFiniteSet(InQueue) /\ Cardinality(InQueue) = 0 /\ Cardinality(Joining) = 0
    BY <1>7, FS_EmptySet
  <2> QED
    BY <1>8, <2>1, OptionsAssumption DEF QueueBounded
<1>10. PendingBacked
  BY <1>2 DEF PendingBacked
<1>11. IssuedInThePast
  BY <1>3 DEF IssuedInThePast
<1> QED
  BY <1>4, <1>5, <1>6, <1>9, <1>10, <1>11 DEF IndInv

LEMMA NextKept ==
    ASSUME IndInv, Next
    PROVE  IndInv'
<1>1. ASSUME NEW p \in Callers, RegisterStep(p) PROVE IndInv'
  <2>1. ASSUME NEW nid \in Nids, Register(p, nid) \/ CountQueue(p, nid) PROVE IndInv'
    BY <2>1, BeginsKept, CountKept
  <2>2. ASSUME NEW nid \in Nids, NEW t \in TokenIds, ConsumeToken(p, nid, t) PROVE IndInv'
    BY <2>2, ConsumeKept
  <2>3. ASSUME NEW d \in PendingIds, Enqueue(p, d) \/ ReadPending(p, d) PROVE IndInv'
    BY <2>3, EnqueueKept, ReadPendingKept
  <2>4. CASE GiveUp(p)
    BY <2>4, ReturnKept DEF GiveUp
  <2> QED
    BY <1>1, <2>1, <2>2, <2>3, <2>4, LookupKept, DrawsKept, SaveKept, ApproveKept
       DEF RegisterStep
<1>2. ASSUME NEW p \in Callers, SessionStep(p) PROVE IndInv'
  <2>1. ASSUME NEW g \in Nids, RegisterGroup(p, g) \/ ReadGroup(p, g) PROVE IndInv'
    BY <2>1, BeginsKept
  <2> QED
    BY <1>2, <2>1, DrawsKept DEF SessionStep
<1>3. ASSUME NEW p \in Callers, RenewStep(p) PROVE IndInv'
  BY <1>3, BeginsKept, DrawsKept DEF RenewStep
<1>4. ASSUME NEW p \in Callers, RevokeStep(p) PROVE IndInv'
  <2>1. ASSUME NEW nid \in Nids, ReadForRevoke(p, nid) \/ RevokeChild(p, nid) PROVE IndInv'
    BY <2>1, BeginsKept, ChildKept
  <2>2. CASE CascadeDone(p)
    BY <2>2, ReturnKept DEF CascadeDone
  <2> QED
    BY <1>4, <2>1, <2>2, MarkKept, ListKept DEF RevokeStep
<1> QED
  BY <1>1, <1>2, <1>3, <1>4, OperatorKept, TickKept DEF Next

LEMMA StutterKept ==
    ASSUME IndInv, UNCHANGED vars
    PROVE  IndInv'
BY DEF IndInv, vars, TypeOK, CallInv, Cascaded, Dead, TokensHeldOnce, PendingBacked,
       QueueBounded, InQueue, Joining, IssuedInThePast, Exists, Of

\* Whatever the requests do and in whatever order their accesses interleave,
\* what each of them has read stays true enough for what it does next, tokens
\* are held once and the queue stays near its maximum.
THEOREM Inductive == Spec => []IndInv
<1>1. IndInv /\ [Next]_vars => IndInv'
  BY NextKept, StutterKept
<1> QED
  BY InitHolds, <1>1, PTL DEF Spec

\* The tables, and what each request holds, keep their types; a certificate
\* names a parent exactly when it is a session's.
THEOREM TypeCorrect == Spec => []TypeOK
<1>1. IndInv => TypeOK
  BY DEF IndInv
<1> QED
  BY <1>1, Inductive, PTL

\* For any number of concurrent requests and any limits: a bootstrap token
\* pays for one certificate at most, a pending registration is approved only
\* for a NID that has a certificate, and the queue outgrows its maximum at
\* most by the requests that run at the same time less one (ra.rs:171-188,
\* 381-408).
THEOREM EnrollmentSoundHolds == Spec => []EnrollmentSound
<1>1. ASSUME IndInv PROVE EnrollmentSound
  <2>1. ASSUME NEW t \in TokenIds
        PROVE  Cardinality({i \in DOMAIN records : records[i].token = t})
                 + Cardinality({p \in Callers : call[p].token = t}) <= 1
    <3> DEFINE A == {i \in DOMAIN records : records[i].token = t}
               B == {p \in Callers : call[p].token = t}
    <3>1. t # None /\ TokensHeldOnce
      BY <1>1, NidsAssumption DEF IndInv
    <3>2. /\ \A i, j \in A : i = j
          /\ \A p, q \in B : p = q
          /\ A = {} \/ B = {}
      BY <3>1 DEF TokensHeldOnce
    <3>3. A = {} \/ \E a : A = {a}
      <4>1. CASE A # {}
        <5>1. PICK a \in A : TRUE
          BY <4>1
        <5>2. A = {a}
          BY <3>2, <5>1
        <5> QED
          BY <5>2
      <4> QED
        BY <4>1
    <3>4. B = {} \/ \E b : B = {b}
      <4>1. CASE B # {}
        <5>1. PICK b \in B : TRUE
          BY <4>1
        <5>2. B = {b}
          BY <3>2, <5>1
        <5> QED
          BY <5>2
      <4> QED
        BY <4>1
    <3> HIDE DEF A, B
    <3>5. Cardinality(A) = 0 \/ (Cardinality(A) = 1 /\ A # {})
      BY <3>3, FS_EmptySet, FS_Singleton
    <3>6. Cardinality(B) = 0 \/ (Cardinality(B) = 1 /\ B # {})
      BY <3>4, FS_EmptySet, FS_Singleton
    <3>7. Cardinality(A) + Cardinality(B) <= 1
      BY <3>2, <3>5, <3>6, FS_EmptySet
    <3> QED
      BY <3>7 DEF A, B
  <2>2. \A d \in PendingIds : pending[d].status = "approved" => Exists(pending[d].nid)
    BY <1>1 DEF IndInv, PendingBacked
  <2>3. Cardinality(InQueue) <= MaxQueue + Cardinality(Callers) - 1
    <3>1. IsFiniteSet(Joining) /\ QueueBounded
      BY <1>1, FS_Subset, CallersAssumption DEF Joining, IndInv
    <3>2. /\ Cardinality(Joining) \in Nat /\ Cardinality(InQueue) \in Nat
          /\ Cardinality(Callers) \in Nat
      BY <3>1, FS_CardinalityType, CallersAssumption DEF QueueBounded
    <3> QED
      BY <3>1, <3>2, OptionsAssumption DEF QueueBounded
  <2> QED
    BY <2>1, <2>2, <2>3 DEF EnrollmentSound
<1> QED
  BY <1>1, Inductive, PTL

-----------------------------------------------------------------------------
(* Who moves a request.                                                     *)

Step(p) == RegisterStep(p) \/ SessionStep(p) \/ RenewStep(p) \/ RevokeStep(p)

\* What the record of a request looks like when it has moved.
LEMMA StepFrom ==
    ASSUME IndInv, NEW p \in Callers, Step(p)
    PROVE  /\ \A q \in Callers \ {p} : call'[q] = call[q]
           /\ call[p].pc = "mark" => Mark(p)
           /\ call[p].pc = "cascade" => \/ CascadeDone(p)
                                        \/ call'[p].pc = "cascade"
<1>1. call \in [Callers -> Call] /\ call[p] \in Call
  BY DEF IndInv, TypeOK
<1> DEFINE Fine == /\ \A q \in Callers \ {p} : call'[q] = call[q]
                   /\ call[p].pc = "mark" => Mark(p)
                   /\ call[p].pc = "cascade" => CascadeDone(p) \/ call'[p].pc = "cascade"
<1>2. ASSUME NEW c, Begin(p, c) PROVE Fine
  BY <1>1, <1>2 DEF Begin, Idle
<1>3. ASSUME Return(p), call[p].pc \notin {"mark", "cascade"} PROVE Fine
  BY <1>1, <1>3 DEF Return
<1>4. ASSUME NEW nid, NEW parent, NEW v, DrawSerial(p, nid, parent, v), call[p].pc = "serial"
      PROVE  Fine
  BY <1>1, <1>4 DEF DrawSerial
<1>5. CASE RegisterStep(p)
  <2>1. CASE \E nid \in Nids : Register(p, nid) \/ CountQueue(p, nid)
    BY <1>2, <2>1 DEF Register, CountQueue
  <2>2. CASE \E nid \in Nids, t \in TokenIds : ConsumeToken(p, nid, t)
    BY <1>2, <2>2 DEF ConsumeToken
  <2>3. CASE \E d \in PendingIds : Enqueue(p, d) \/ ReadPending(p, d)
    BY <1>2, <1>3, <2>3 DEF Enqueue, ReadPending
  <2>4. CASE Lookup(p)
    BY <1>1, <1>3, <2>4 DEF Lookup
  <2>5. CASE DrawRegister(p)
    BY <1>4, <2>5 DEF DrawRegister
  <2>6. CASE GiveUp(p) \/ Approve(p)
    BY <1>3, <2>6 DEF GiveUp, Approve
  <2>7. CASE Save(p)
    BY <1>1, <1>3, <2>7 DEF Save
  <2> QED
    BY <1>5, <2>1, <2>2, <2>3, <2>4, <2>5, <2>6, <2>7 DEF RegisterStep
<1>6. CASE SessionStep(p)
  <2>1. CASE \E g \in Nids : RegisterGroup(p, g) \/ ReadGroup(p, g)
    BY <1>2, <2>1 DEF RegisterGroup, ReadGroup
  <2>2. CASE DrawGroup(p) \/ \E s \in SessionNids, ttl \in SessionTtls : DrawSession(p, s, ttl)
    BY <1>4, <2>2 DEF DrawGroup, DrawSession
  <2> QED
    BY <1>6, <2>1, <2>2 DEF SessionStep
<1>7. CASE RenewStep(p)
  <2>1. CASE \E nid \in Nids : ReadForRenew(p, nid)
    BY <1>2, <2>1 DEF ReadForRenew
  <2>2. CASE DrawRenewal(p)
    BY <1>3, <1>4, <2>2 DEF DrawRenewal
  <2> QED
    BY <1>7, <2>1, <2>2 DEF RenewStep
<1>8. CASE RevokeStep(p)
  <2>1. CASE \E nid \in Nids : ReadForRevoke(p, nid)
    BY <1>2, <2>1 DEF ReadForRevoke
  <2>2. CASE \E nid \in Nids : RevokeChild(p, nid)
    <3>1. PICK kids \in SUBSET Nids : call' = [call EXCEPT ![p] = [call[p] EXCEPT !.children = kids]]
      <4>1. PICK nid \in Nids : RevokeChild(p, nid)
        BY <2>2
      <4>2. call[p].children \ {nid} \in SUBSET Nids
        BY <1>1 DEF Call
      <4>3. call' = [call EXCEPT ![p] = [call[p] EXCEPT !.children = call[p].children \ {nid}]]
        BY <1>1, <4>1 DEF RevokeChild, Call
      <4> QED
        BY <4>2, <4>3
    <3>2. call'[p].pc = call[p].pc /\ \A q \in Callers \ {p} : call'[q] = call[q]
      BY <1>1, <3>1 DEF Call
    <3>3. call[p].pc = "cascade"
      BY <2>2 DEF RevokeChild
    <3> QED
      BY <3>2, <3>3
  <2>3. CASE Mark(p)
    BY <1>1, <2>3 DEF Mark, Return
  <2>4. CASE ListChildren(p)
    BY <1>1, <2>4 DEF ListChildren
  <2>5. CASE CascadeDone(p)
    BY <1>1, <2>5 DEF CascadeDone, Return
  <2> QED
    BY <1>8, <2>1, <2>2, <2>3, <2>4, <2>5 DEF RevokeStep
<1> QED
  BY <1>5, <1>6, <1>7, <1>8 DEF Step

LEMMA Movers ==
    ASSUME IndInv, [Next]_vars, NEW p \in Callers
    PROVE  call'[p] = call[p] \/ Step(p)
<1>1. CASE Next
  <2>1. CASE \E q \in Callers : Step(q)
    BY <2>1, StepFrom
  <2>2. CASE OperatorStep \/ Tick
    BY <2>2 DEF OperatorStep, Tick, CreateToken, RevokeToken, Reject
  <2> QED
    BY <1>1, <2>1, <2>2 DEF Next, Step
<1>2. CASE UNCHANGED vars
  BY <1>2 DEF vars
<1> QED
  BY <1>1, <1>2

\* When the revocation of a group returns, every session issued under the
\* group before it was marked has a revoked certificate, in either store and
\* whatever else ran meanwhile (service.rs:631-639).
THEOREM CascadeCompleteHolds == Spec => CascadeComplete
<1> DEFINE A(p) == call[p].pc = "cascade" /\ call'[p].pc = "idle"
                     => \A i \in 1..call[p].marked :
                           records[i].parent = call[p].nid
                             => \E k \in Of(records[i].nid) : records[k].revoked
<1>1. ASSUME IndInv, [Next]_vars, NEW p \in Callers PROVE A(p)
  <2>1. SUFFICES ASSUME call[p].pc = "cascade", call'[p].pc = "idle",
                        NEW i \in 1..call[p].marked, records[i].parent = call[p].nid
                 PROVE  \E k \in Of(records[i].nid) : records[k].revoked
    OBVIOUS
  <2>2. CascadeDone(p)
    BY <1>1, <2>1, Movers, StepFrom
  <2>3. call[p].children = {} /\ Cascaded(p)
    BY <1>1, <2>1, <2>2 DEF CascadeDone, IndInv, CallInv
  <2> QED
    BY <2>1, <2>3 DEF Cascaded, Dead
<1>2. IndInv /\ [Next]_vars => [\A p \in Callers : A(p)]_vars
  BY <1>1
<1> QED
  BY <1>2, Inductive, PTL DEF Spec, CascadeComplete

-----------------------------------------------------------------------------
(* Revocation is final.                                                     *)

\* In the in-memory store, the record get_by_nid answers with is the last one
\* of the NID: the one revoke marks, or one revoked already.
LEMMA MarkTakesEffect ==
    ASSUME IndInv, Backend = "memory", NEW p \in Callers, NEW nid, nid = call[p].nid, Mark(p)
    PROVE  RevokedNow(nid)'
<1>1. /\ records \in Seq(CertRecord) /\ Parented(records) /\ call[p].pc = "mark"
      /\ MarkRevoked(nid) /\ Exists(nid)
  BY DEF IndInv, TypeOK, Parented, Mark, CallInv
<1>2. /\ RecordsKept /\ records' \in Seq(CertRecord) /\ Len(records') = Len(records)
  BY <1>1, MarkKeeps
<1>3. /\ DOMAIN records = 1..Len(records) /\ DOMAIN records' = 1..Len(records)
      /\ Len(records) \in Nat
  BY <1>1, <1>2
<1>4. Of(nid)' = Of(nid)
  BY <1>2, <1>3 DEF Of, RecordsKept
<1>5. Of(nid) \subseteq 1..Len(records) /\ Of(nid) # {}
  BY <1>1, <1>3 DEF Of, Exists
<1>6. PICK m \in Of(nid) : \A k \in Of(nid) : m >= k
  BY <1>3, <1>5, Greatest
<1>7. \A i \in Of(nid) : (\A k \in Of(nid) : Preferred(i, k)') <=> i = m
  BY <1>5, <1>6 DEF Preferred
<1>8. GetByNid(nid)' = records'[m]
  BY <1>4, <1>6, <1>7 DEF GetByNid
<1>9. records'[m].revoked
  <2>1. CASE records[m].revoked
    BY <1>2, <1>5, <1>6, <2>1 DEF RecordsKept
  <2>2. CASE ~records[m].revoked
    <3>1. m \in LiveOf(nid)
      BY <1>6, <2>2 DEF LiveOf
    <3>2. ToRevoke(nid) \in LiveOf(nid) /\ ToRevoke(nid) >= m
      BY <1>1, <3>1, ToRevokeFound
    <3>3. ToRevoke(nid) = m
      BY <1>5, <1>6, <3>2 DEF LiveOf
    <3>4. records' = [records EXCEPT ![m].revoked = TRUE]
      BY <1>1, <3>1, <3>3 DEF MarkRevoked
    <3>5. m \in DOMAIN records /\ records[m] \in CertRecord
      BY <1>1, <1>3, <1>5
    <3>6. records'[m] = [records[m] EXCEPT !.revoked = TRUE]
      BY <1>1, <3>4, <3>5
    <3> QED
      BY <3>5, <3>6 DEF CertRecord
  <2> QED
    BY <2>1, <2>2
<1> QED
  BY <1>4, <1>5, <1>8, <1>9 DEF RevokedNow, Exists

\* A NID that gets no new record keeps the one get_by_nid answers with.
LEMMA CurrentSame ==
    ASSUME IndInv, NEW nid, RevokedNow(nid), RecordsKept, records' \in Seq(CertRecord),
           Of(nid)' \subseteq Of(nid)
    PROVE  RevokedNow(nid)'
<1>1. /\ records \in Seq(CertRecord) /\ now \in Nat /\ IssuedInThePast /\ Exists(nid)
  BY DEF IndInv, TypeOK, RevokedNow
<1>2. Of(nid) \subseteq 1..Len(records) /\ Len(records) \in Nat /\ Len(records') \in Nat
      /\ DOMAIN records = 1..Len(records) /\ DOMAIN records' = 1..Len(records')
  BY <1>1, OfTyped
<1>3. /\ Of(nid)' = Of(nid)
      /\ \A i \in Of(nid) : records'[i].issued = records[i].issued
                             /\ (records[i].revoked => records'[i].revoked)
  BY <1>2 DEF Of, RecordsKept
<1> DEFINE m == CHOOSE i \in Of(nid) : \A j \in Of(nid) : Preferred(i, j)
<1>4. m \in Of(nid) /\ \A j \in Of(nid) : Preferred(m, j)
  BY <1>1, PreferredFound
<1>5. GetByNid(nid) = records[m]
  BY DEF GetByNid
<1> HIDE DEF m
<1>6. \A i \in Of(nid) : records[i].issued \in Nat
  <2>1. \A i \in Of(nid) : records[i] \in CertRecord
    BY <1>1, OfTyped
  <2> QED
    BY <2>1 DEF CertRecord
<1>7. \A i, j \in Of(nid) : Preferred(i, j)' <=> Preferred(i, j)
  BY <1>3 DEF Preferred
<1>8. \A i, j \in Of(nid) : Preferred(i, j) /\ Preferred(j, i) => i = j
  <2>1. CASE Backend = "memory"
    BY <1>2, <2>1 DEF Preferred
  <2>2. CASE Backend = "sql"
    BY <1>2, <1>6, <2>2 DEF Preferred
  <2> QED
    BY <2>1, <2>2, OptionsAssumption
<1>9. \A i \in Of(nid) : (\A j \in Of(nid) : Preferred(i, j)') <=> i = m
  BY <1>4, <1>7, <1>8
<1>10. GetByNid(nid)' = records'[m]
  BY <1>3, <1>4, <1>9 DEF GetByNid
<1>11. records'[m].revoked
  BY <1>3, <1>4, <1>5 DEF RevokedNow
<1> QED
  BY <1>3, <1>4, <1>10, <1>11 DEF RevokedNow, Exists

\* While no call is about to save a certificate for the NID, the NID gets no
\* new record.
LEMMA QuietTable ==
    ASSUME IndInv, [Next]_vars, NEW nid, Quiet(nid)
    PROVE  RecordsKept /\ records' \in Seq(CertRecord) /\ Of(nid)' \subseteq Of(nid)
<1> DEFINE Fine == RecordsKept /\ records' \in Seq(CertRecord) /\ Of(nid)' \subseteq Of(nid)
<1>1. records \in Seq(CertRecord) /\ Parented(records)
  BY DEF IndInv, TypeOK, Parented
<1>2. ASSUME records' = records PROVE Fine
  BY <1>1, <1>2, RecordsSame DEF Of
<1>3. ASSUME NEW s, MarkRevoked(s) PROVE Fine
  <2>1. RecordsKept /\ records' \in Seq(CertRecord) /\ Len(records') = Len(records)
    BY <1>1, <1>3, MarkKeeps
  <2>2. DOMAIN records = 1..Len(records) /\ DOMAIN records' = 1..Len(records)
    BY <1>1, <2>1
  <2> QED
    BY <2>1, <2>2 DEF Of, RecordsKept
<1>4. ASSUME NEW p \in Callers, Save(p) PROVE Fine
  <2>1. CASE records' = records
    BY <1>2, <2>1
  <2>2. CASE records' = Append(records, NewRecord(call[p]))
    <3>1. IndInv'
      BY <1>4, SaveKept
    <3>2. records' \in Seq(CertRecord)
      BY <3>1 DEF IndInv, TypeOK
    <3>3. /\ DOMAIN records = 1..Len(records) /\ DOMAIN records' = 1..(Len(records) + 1)
          /\ Len(records) \in Nat /\ Len(records') = Len(records) + 1
          /\ \A i \in 1..Len(records) : records'[i] = records[i]
          /\ records'[Len(records) + 1] = NewRecord(call[p])
      BY <1>1, <2>2
    <3>4. NewRecord(call[p]).nid # nid
      BY <1>4 DEF Save, Quiet, NewRecord
    <3> QED
      BY <3>2, <3>3, <3>4 DEF Of, RecordsKept
  <2> QED
    BY <1>4, <2>1, <2>2 DEF Save
<1>5. CASE UNCHANGED vars
  BY <1>2, <1>5 DEF vars
<1>6. CASE OperatorStep \/ Tick
  BY <1>2, <1>6 DEF OperatorStep, Tick, CreateToken, RevokeToken, Reject, certs
<1>7. ASSUME NEW p \in Callers, RegisterStep(p) PROVE Fine
  BY <1>2, <1>4, <1>7 DEF RegisterStep, Register, CountQueue, ConsumeToken, Enqueue, ReadPending,
     Lookup, DrawRegister, DrawSerial, GiveUp, Approve, certs
<1>8. ASSUME NEW p \in Callers, SessionStep(p) \/ RenewStep(p) PROVE Fine
  BY <1>2, <1>8 DEF SessionStep, RenewStep, RegisterGroup, ReadGroup, DrawSession, DrawGroup,
     DrawSerial, DrawRenewal, ReadForRenew, certs
<1>9. ASSUME NEW p \in Callers, RevokeStep(p) PROVE Fine
  BY <1>2, <1>3, <1>9 DEF RevokeStep, ReadForRevoke, RevokeChild, Mark, ListChildren,
     CascadeDone, certs
<1> QED
  BY <1>5, <1>6, <1>7, <1>8, <1>9 DEF Next

\* No call passes the checks that precede an issuance for a revoked NID.
LEMMA QuietCalls ==
    ASSUME IndInv, NEW p \in Callers, Step(p), NEW nid \in Nids, RevokedNow(nid), Quiet(nid)
    PROVE  call'[p].nid = nid => call'[p].pc \notin {"serial", "save"}
<1>1. call \in [Callers -> Call] /\ call[p] \in Call /\ Exists(nid) /\ nid # None
  BY NidsAssumption DEF IndInv, TypeOK, RevokedNow
<1> DEFINE Fine == call'[p].nid = nid => call'[p].pc \notin {"serial", "save"}
<1>2. ASSUME NEW c, Begin(p, c), c.nid # nid \/ c.pc \notin {"serial", "save"} PROVE Fine
  BY <1>1, <1>2 DEF Begin
<1>3. ASSUME Return(p) PROVE Fine
  BY <1>1, <1>3 DEF Return, Idle
<1>4. ASSUME NEW n, NEW parent, NEW v, DrawSerial(p, n, parent, v), n # nid PROVE Fine
  <2>1. call'[p].nid = n
    BY <1>1, <1>4 DEF DrawSerial, Call
  <2> QED
    BY <1>4, <2>1
<1>5. call[p].pc \in {"serial", "save"} => call[p].nid # nid
  BY DEF Quiet
<1>6. CASE RegisterStep(p)
  <2>1. CASE \E n \in Nids : Register(p, n) \/ CountQueue(p, n)
    <3>1. PICK n \in Nids : Register(p, n) \/ CountQueue(p, n)
      BY <2>1
    <3>2. CASE Register(p, n)
      <4>1. n # nid /\ Begin(p, [Registering(n) EXCEPT !.pc = "serial"])
        BY <1>1, <3>2 DEF Register
      <4>2. [Registering(n) EXCEPT !.pc = "serial"].nid = n
        BY DEF Registering, Idle
      <4> QED
        BY <1>2, <4>1, <4>2
    <3>3. CASE CountQueue(p, n)
      <4>1. [Registering(n) EXCEPT !.pc = "enqueue"].pc = "enqueue"
        BY DEF Registering, Idle
      <4> QED
        BY <1>2, <3>3, <4>1 DEF CountQueue
    <3> QED
      BY <3>1, <3>2, <3>3
  <2>2. CASE \E n \in Nids, t \in TokenIds : ConsumeToken(p, n, t)
    <3>1. \A n, t : [Registering(n) EXCEPT !.pc = "lookup", !.token = t].pc = "lookup"
      BY DEF Registering, Idle
    <3> QED
      BY <1>2, <2>2, <3>1 DEF ConsumeToken
  <2>3. CASE \E d \in PendingIds : Enqueue(p, d) \/ ReadPending(p, d)
    <3>1. \A n, d : [Registering(n) EXCEPT !.pc = "lookup", !.pend = d].pc = "lookup"
      BY DEF Registering, Idle
    <3> QED
      BY <1>2, <1>3, <2>3, <3>1 DEF Enqueue, ReadPending
  <2>4. CASE Lookup(p)
    <3>1. CASE Exists(call[p].nid)
      BY <1>3, <2>4, <3>1 DEF Lookup
    <3>2. CASE ~Exists(call[p].nid)
      <4>1. call[p].nid # nid
        BY <1>1, <3>2
      <4>2. call'[p].nid = call[p].nid
        BY <1>1, <2>4, <3>2 DEF Lookup, Call
      <4> QED
        BY <4>1, <4>2
    <3> QED
      BY <3>1, <3>2
  <2>5. CASE DrawRegister(p)
    BY <1>4, <1>5, <2>5 DEF DrawRegister
  <2>6. CASE GiveUp(p) \/ Approve(p)
    BY <1>3, <2>6 DEF GiveUp, Approve
  <2>7. CASE Save(p)
    <3>1. CASE call' = [call EXCEPT ![p].pc = "approve"]
      <4>1. call'[p].pc = "approve"
        BY <1>1, <3>1 DEF Call
      <4> QED
        BY <4>1
    <3> QED
      BY <1>3, <2>7, <3>1 DEF Save
  <2> QED
    BY <1>6, <2>1, <2>2, <2>3, <2>4, <2>5, <2>6, <2>7 DEF RegisterStep
<1>7. CASE SessionStep(p)
  <2>1. ASSUME NEW g \in Nids, RegisterGroup(p, g) PROVE Fine
    <3>1. g # nid /\ Begin(p, [Idle EXCEPT !.pc = "serial", !.op = "group", !.nid = g])
      BY <1>1, <2>1 DEF RegisterGroup
    <3>2. [Idle EXCEPT !.pc = "serial", !.op = "group", !.nid = g].nid = g
      BY DEF Idle
    <3> QED
      BY <1>2, <3>1, <3>2
  <2>2. ASSUME NEW g \in Nids, ReadGroup(p, g) PROVE Fine
    <3>1. \A x : [Idle EXCEPT !.pc = "serial", !.op = "session", !.parent = g, !.seen = x].nid = None
      BY DEF Idle
    <3> QED
      BY <1>1, <1>2, <2>2, <3>1 DEF ReadGroup
  <2>3. CASE \E s \in SessionNids, ttl \in SessionTtls : DrawSession(p, s, ttl)
    BY <1>1, <1>4, <2>3 DEF DrawSession, FreshNid
  <2>4. CASE DrawGroup(p)
    BY <1>4, <1>5, <2>4 DEF DrawGroup
  <2> QED
    BY <1>7, <2>1, <2>2, <2>3, <2>4 DEF SessionStep
<1>8. CASE RenewStep(p)
  <2>1. ASSUME NEW n \in Nids, ReadForRenew(p, n) PROVE Fine
    <3>1. n # nid
      BY <2>1 DEF ReadForRenew, RenewAllowed, RevokedNow
    <3>2. \A x : [Idle EXCEPT !.pc = "serial", !.op = "renew", !.nid = n, !.seen = x].nid = n
      BY DEF Idle
    <3> QED
      BY <1>2, <2>1, <3>1, <3>2 DEF ReadForRenew
  <2>2. CASE DrawRenewal(p)
    BY <1>3, <1>4, <1>5, <2>2 DEF DrawRenewal
  <2> QED
    BY <1>8, <2>1, <2>2 DEF RenewStep
<1>9. CASE RevokeStep(p)
  <2>1. ASSUME NEW n \in Nids, ReadForRevoke(p, n) PROVE Fine
    <3>1. \A x : [Idle EXCEPT !.pc = "mark", !.op = "revoke", !.nid = n, !.seen = x].pc = "mark"
      BY DEF Idle
    <3> QED
      BY <1>2, <2>1, <3>1 DEF ReadForRevoke
  <2>2. ASSUME NEW n \in Nids, RevokeChild(p, n) PROVE Fine
    <3>1. call[p].pc = "cascade"
      BY <2>2 DEF RevokeChild
    <3>2. CascadeDone(p) \/ call'[p].pc = "cascade"
      BY <3>1, StepFrom
    <3> QED
      BY <1>3, <3>2 DEF CascadeDone
  <2>3. CASE Mark(p)
    <3>1. CASE call' = [call EXCEPT ![p].pc = "children", ![p].marked = Len(records)]
      <4>1. call'[p].pc = "children"
        BY <1>1, <3>1 DEF Call
      <4> QED
        BY <4>1
    <3> QED
      BY <1>3, <2>3, <3>1 DEF Mark
  <2>4. CASE ListChildren(p)
    <3>1. call'[p].pc = "cascade"
      BY <1>1, <2>4 DEF ListChildren, Call
    <3> QED
      BY <3>1
  <2>5. CASE CascadeDone(p)
    BY <1>3, <2>5 DEF CascadeDone
  <2> QED
    BY <1>9, <2>1, <2>2, <2>3, <2>4, <2>5 DEF RevokeStep
<1> QED
  BY <1>6, <1>7, <1>8, <1>9 DEF Step

\* In either store, register, approve, issue_session and renew all refuse a
\* revoked NID, and none of them got past its checks before (service.rs:104,
\* 341, 550).
THEOREM NeverReissuedHolds == Spec => NeverReissued
<1>1. ASSUME IndInv, [Next]_vars, NEW nid \in Nids, RevokedNow(nid), Quiet(nid)
      PROVE  RevokedNow(nid)' /\ Quiet(nid)'
  <2>1. RevokedNow(nid)'
    BY <1>1, QuietTable, CurrentSame
  <2>2. \A p \in Callers : call'[p].nid = nid => call'[p].pc \notin {"serial", "save"}
    <3>1. ASSUME NEW p \in Callers PROVE call'[p].nid = nid => call'[p].pc \notin {"serial", "save"}
      <4>1. CASE call'[p] = call[p]
        BY <1>1, <4>1 DEF Quiet
      <4>2. CASE Step(p)
        BY <1>1, <4>2, QuietCalls
      <4> QED
        BY <1>1, <4>1, <4>2, Movers
    <3> QED
      BY <3>1
  <2> QED
    BY <2>1, <2>2 DEF Quiet
<1>2. IndInv /\ [Next]_vars =>
        [\A nid \in Nids : RevokedNow(nid) /\ Quiet(nid) => RevokedNow(nid)' /\ Quiet(nid)']_vars
  BY <1>1
<1> QED
  BY <1>2, Inductive, PTL DEF Spec, NeverReissued

\* With the in-memory store, a revocation takes effect when the store has
\* marked the record, and is final. The SQL store sorts by issue time alone
\* and may go on answering with an older live record (sql_store.rs:111),
\* so the hypothesis is needed for the first part.
THEOREM RevocationFinalHolds ==
    ASSUME Backend = "memory"
    PROVE  Spec => RevocationFinal
<1> DEFINE E(p, nid) == call[p].pc = "mark" /\ call[p].nid = nid /\ call'[p].pc # "mark"
                          => RevokedNow(nid)'
<1>1. ASSUME IndInv, [Next]_vars, NEW p \in Callers, NEW nid \in Nids PROVE E(p, nid)
  BY <1>1, Movers, StepFrom, MarkTakesEffect
<1>2. IndInv /\ [Next]_vars => [\A p \in Callers, nid \in Nids : E(p, nid)]_vars
  BY <1>1
<1>3. Spec => RevokeTakesEffect
  BY <1>2, Inductive, PTL DEF Spec, RevokeTakesEffect
<1> QED
  BY <1>3, NeverReissuedHolds, PTL DEF RevocationFinal

-----------------------------------------------------------------------------
(* Part 2.  Verification.  A verification is a function of the frame, the   *)
(* options and the context: its six steps are each shown to fail exactly    *)
(* when Failing says so, and their order to make the first one the answer.  *)

\* An Option: <<>> or <<value>>.
Opt(S) == {<<>>} \cup {<<x>> : x \in S}

\* A result of the revocation callback: it speaks for step 4.
CallbackResults == {r \in [valid : BOOLEAN, step_failed : Nat, code : STRING] :
                       ~r.valid => r.step_failed = 4}

\* What verify is called with.
VerifierInput(f, o, c) ==
    /\ f.expires_at \in Opt(Nat) /\ f.staple \in Opt(Nat) /\ c.now \in Nat
    /\ f.issued_by \in Opt(STRING) /\ f.assurance \in Nat /\ o.min_assurance \in Nat
    /\ f.leaf_roles \in Opt(SUBSET STRING) /\ f.leaf_caps \in Opt(SUBSET STRING)
    /\ f.serial \in Opt(Nat)
    /\ o.revocation_check \in Opt(CallbackResults) /\ o.revocation_store \in Opt(SUBSET Nat)
    /\ o.ocsp_url \in Opt(OcspAnswers)
    /\ f.scope_nodes \in Opt(SUBSET Seq(STRING)) /\ c.target \in Opt(Seq(STRING))

\* A result of one of the steps.
Judges(r, step, bad) == (r.valid <=> ~bad) /\ (bad => r.step_failed = step)

\* What an Option holds.
LEMMA OptFacts ==
    ASSUME NEW S, NEW v \in Opt(S)
    PROVE  /\ v = <<>> \/ (v = <<v[1]>> /\ v[1] \in S)
           /\ v = <<>> => DOMAIN v = {} /\ ToSet(v) = {}
           /\ v # <<>> => DOMAIN v = {1} /\ ToSet(v) = {v[1]}
<1>1. CASE v = <<>>
  BY <1>1 DEF ToSet
<1>2. CASE v # <<>>
  <2>1. PICK x \in S : v = <<x>>
    BY <1>2 DEF Opt
  <2>2. DOMAIN v = {1} /\ v[1] = x
    BY <2>1
  <2> QED
    BY <1>2, <2>1, <2>2 DEF ToSet
<1> QED
  BY <1>1, <1>2

\* A set of numbers that is not empty has a least one.
LEMMA LeastOf ==
    ASSUME NEW S, S \subseteq Nat, S # {}
    PROVE  LET m == CHOOSE i \in S : \A j \in S : i <= j
           IN  m \in S /\ \A j \in S : m <= j
<1>1. IsWellFoundedOn(OpToRel(<, Nat), Nat)
  BY NatLessThanWellFounded
<1>2. PICK m \in S : \A y \in S : ~(<<y, m>> \in OpToRel(<, Nat))
  BY <1>1, WFMin
<1>3. \A y \in S : ~(y < m)
  BY <1>2 DEF OpToRel
<1>4. \A y \in S : m <= y
  BY <1>3
<1> QED
  BY <1>4

\* The first failure of several results.
LEMMA First ==
    ASSUME NEW n \in Nat, NEW rs, DOMAIN rs = 1..n
    PROVE  \/ (\A i \in 1..n : rs[i].valid) /\ FirstFailure(rs) = Valid
           \/ \E m \in 1..n : /\ ~rs[m].valid /\ FirstFailure(rs) = rs[m]
                              /\ \A i \in 1..(m - 1) : rs[i].valid
<1> DEFINE F == {i \in DOMAIN rs : ~rs[i].valid}
           m == CHOOSE i \in F : \A j \in F : i <= j
<1>1. CASE F = {}
  BY <1>1 DEF FirstFailure
<1>2. CASE F # {}
  <2>1. F \subseteq Nat
    OBVIOUS
  <2>2. m \in F /\ \A j \in F : m <= j
    <3> HIDE DEF F
    <3> QED
      BY <1>2, <2>1, LeastOf
  <2>3. FirstFailure(rs) = rs[m]
    BY <1>2 DEF FirstFailure
  <2> HIDE DEF m
  <2>4. ASSUME NEW i \in 1..(m - 1) PROVE rs[i].valid
    <3>1. i \in 1..n /\ ~(m <= i)
      BY <2>2
    <3> QED
      BY <2>2, <3>1
  <2> QED
    BY <2>2, <2>3, <2>4
<1> QED
  BY <1>1, <1>2

\* A single check judges what it tests.
LEMMA Checked ==
    ASSUME NEW ok, NEW step, NEW code
    PROVE  Judges(Check(ok, step, code), step, ~ok)
  BY DEF Judges, Check, Valid, Fail

\* Three results of one step, in order.
LEMMA First3 ==
    ASSUME NEW a, NEW b, NEW c, NEW step, NEW p, NEW q, NEW r,
           Judges(a, step, p), Judges(b, step, q), Judges(c, step, r)
    PROVE  Judges(FirstFailure(<<a, b, c>>), step, p \/ q \/ r)
<1> DEFINE rs == <<a, b, c>>
<1>1. DOMAIN rs = 1..3 /\ rs[1] = a /\ rs[2] = b /\ rs[3] = c /\ 3 \in Nat
  OBVIOUS
<1>2. Valid.valid
  BY DEF Valid
<1> HIDE DEF rs
<1>3. CASE (\A i \in 1..3 : rs[i].valid) /\ FirstFailure(rs) = Valid
  <2>1. a.valid /\ b.valid /\ c.valid
    BY <1>1, <1>3
  <2> QED
    BY <1>2, <1>3, <2>1 DEF Judges, rs
<1>4. CASE \E m \in 1..3 : ~rs[m].valid /\ FirstFailure(rs) = rs[m]
  <2>1. PICK m \in 1..3 : ~rs[m].valid /\ FirstFailure(rs) = rs[m]
    BY <1>4
  <2>2. m = 1 \/ m = 2 \/ m = 3
    OBVIOUS
  <2>3. Judges(FirstFailure(rs), step, p \/ q \/ r)
    BY <1>1, <2>1, <2>2 DEF Judges
  <2> QED
    BY <2>3 DEF rs
<1> QED
  BY <1>1, <1>3, <1>4, First

LEMMA Step1 ==
    ASSUME NEW f, NEW o, NEW c, VerifierInput(f, o, c)
    PROVE  Judges(CheckExpiry(f, c.now), 1, 1 \in Failing(f, o, c))
<1>1. 1 \in Failing(f, o, c) <=> \E x \in ToSet(f.expires_at) : x <= c.now
  BY DEF Failing
<1>2. PICK v \in Opt(Nat), when \in Nat : v = f.expires_at /\ when = c.now
  BY DEF VerifierInput
<1>3. (\E x \in ToSet(v) : x <= when) <=> ~\A i \in DOMAIN v : v[i] > when
  <2>1. CASE v = <<>>
    BY <2>1, OptFacts
  <2>2. CASE v # <<>>
    BY <2>2, OptFacts
  <2> QED
    BY <2>1, <2>2
<1> QED
  BY <1>1, <1>2, <1>3 DEF CheckExpiry, Judges, Check, Valid, Fail

LEMMA Step2 ==
    ASSUME NEW f, NEW o, NEW c, VerifierInput(f, o, c)
    PROVE  Judges(CheckIssuer(f, o, c.issuer), 2, 2 \in Failing(f, o, c))
<1>1. 2 \in Failing(f, o, c) <=>
        c.issuer \notin o.trusted \/ \E i \in ToSet(f.issued_by) : i # c.issuer
  BY DEF Failing
<1>2. (\E i \in ToSet(f.issued_by) : i # c.issuer) <=>
        ~\A i \in DOMAIN f.issued_by : f.issued_by[i] = c.issuer
  BY DEF ToSet
<1> QED
  BY <1>1, <1>2 DEF CheckIssuer, Judges, Check, Valid, Fail

LEMMA Step5 ==
    ASSUME NEW f, NEW o, NEW c
    PROVE  Judges(CheckCapabilities(f, c), 5, 5 \in Failing(f, o, c))
<1>1. 5 \in Failing(f, o, c) <=> c.required_capabilities \ f.capabilities # {}
  BY DEF Failing
<1> QED
  BY <1>1 DEF CheckCapabilities, Judges, Check, Valid, Fail

\* Phase 3 taken alone.
Phase3Fails(f, when) ==
    \/ \E r \in ToSet(f.leaf_roles) : f.node_roles \ r # {}
    \/ \E s \in ToSet(f.leaf_caps) : f.capabilities \ s # {}
    \/ \A s \in ToSet(f.staple) : s <= when

LEMMA Enforced ==
    ASSUME NEW f, NEW when \in Nat, f.staple \in Opt(Nat)
    PROVE  Judges(Enforce(f, when), 3, Phase3Fails(f, when))
<1> DEFINE A == \A i \in DOMAIN f.leaf_roles : f.node_roles \subseteq f.leaf_roles[i]
           B == \A i \in DOMAIN f.leaf_caps : f.capabilities \subseteq f.leaf_caps[i]
           C == f.staple # <<>> /\ \A i \in DOMAIN f.staple : f.staple[i] > when
<1>1. ~A <=> \E r \in ToSet(f.leaf_roles) : f.node_roles \ r # {}
  BY DEF ToSet
<1>2. ~B <=> \E s \in ToSet(f.leaf_caps) : f.capabilities \ s # {}
  BY DEF ToSet
<1>3. ~C <=> \A s \in ToSet(f.staple) : s <= when
  <2>1. PICK v \in Opt(Nat) : v = f.staple
    OBVIOUS
  <2>2. ~(v # <<>> /\ \A i \in DOMAIN v : v[i] > when) <=> \A s \in ToSet(v) : s <= when
    <3>1. CASE v = <<>>
      BY <3>1, OptFacts
    <3>2. CASE v # <<>>
      <4>1. DOMAIN v = {1} /\ ToSet(v) = {v[1]} /\ v[1] \in Nat
        BY <3>2, OptFacts
      <4> QED
        BY <3>2, <4>1
    <3> QED
      BY <3>1, <3>2
  <2> QED
    BY <2>1, <2>2
<1> DEFINE a == Check(A, 3, "cert_node_roles_mismatch")
           b == Check(B, 3, "cert_capabilities_exceeded")
           d == Check(C, 3, "ocsp_staple_expired")
<1>4. Enforce(f, when) = FirstFailure(<<a, b, d>>)
  BY DEF Enforce
<1> HIDE DEF A, B, C
<1>5. Judges(a, 3, ~A) /\ Judges(b, 3, ~B) /\ Judges(d, 3, ~C)
  BY Checked
<1> HIDE DEF a, b, d
<1>6. Judges(FirstFailure(<<a, b, d>>), 3, ~A \/ ~B \/ ~C)
  BY <1>5, First3
<1>7. (~A \/ ~B \/ ~C) <=> Phase3Fails(f, when)
  BY <1>1, <1>2, <1>3 DEF Phase3Fails
<1> QED
  BY <1>4, <1>6, <1>7 DEF Judges

LEMMA Step3 ==
    ASSUME NEW f, NEW o, NEW c, VerifierInput(f, o, c)
    PROVE  Judges(CheckSignature(f, o, c.now), 3, 3 \in Failing(f, o, c))
<1> DEFINE Chain == /\ f.v2 /\ o.x509_roots
                    /\ ~f.chain_valid \/ (o.phase3_enforcement /\ Phase3Fails(f, c.now))
           a == VerifySignature(f)
           b == Check(f.assurance >= o.min_assurance, 3, "assurance_mismatch")
           d == IF o.x509_roots /\ f.v2
                THEN IF ~f.chain_valid THEN Fail(3, "cert_format_invalid")
                     ELSE IF o.phase3_enforcement THEN Enforce(f, c.now) ELSE Valid
                ELSE Valid
<1>1. 3 \in Failing(f, o, c) <=> ~f.signature_valid \/ f.assurance < o.min_assurance \/ Chain
  BY DEF Failing, Phase3Fails
<1>2. c.now \in Nat /\ f.staple \in Opt(Nat) /\ f.assurance \in Nat /\ o.min_assurance \in Nat
  BY DEF VerifierInput
<1>3. Judges(a, 3, ~f.signature_valid)
  BY Checked DEF VerifySignature
<1>4. Judges(b, 3, f.assurance < o.min_assurance)
  BY <1>2 DEF Judges, Check, Valid, Fail
<1>5. Judges(d, 3, Chain)
  <2>1. Judges(Enforce(f, c.now), 3, Phase3Fails(f, c.now))
    BY <1>2, Enforced
  <2> QED
    BY <2>1 DEF Judges, Valid, Fail
<1>6. CheckSignature(f, o, c.now) = FirstFailure(<<a, b, d>>)
  BY DEF CheckSignature
<1> HIDE DEF a, b, d, Chain
<1> DEFINE Unsigned == ~f.signature_valid
           Weak == f.assurance < o.min_assurance
<1>7. Judges(a, 3, Unsigned) /\ Judges(b, 3, Weak) /\ Judges(d, 3, Chain)
  BY <1>3, <1>4, <1>5
<1>8. 3 \in Failing(f, o, c) <=> Unsigned \/ Weak \/ Chain
  BY <1>1
<1> HIDE DEF Unsigned, Weak
<1>9. Judges(FirstFailure(<<a, b, d>>), 3, Unsigned \/ Weak \/ Chain)
  BY <1>7, First3
<1> QED
  BY <1>6, <1>8, <1>9 DEF Judges

-----------------------------------------------------------------------------
(* Step 4.                                                                  *)

\* Results appended in order.
LEMMA FirstMany ==
    ASSUME NEW n \in Nat, NEW rs, DOMAIN rs = 1..n, NEW step, NEW bad,
           \A i \in 1..n : ~rs[i].valid => rs[i].step_failed = step,
           bad <=> \E i \in 1..n : ~rs[i].valid
    PROVE  Judges(FirstFailure(rs), step, bad)
<1>1. Valid.valid
  BY DEF Valid
<1>2. CASE (\A i \in 1..n : rs[i].valid) /\ FirstFailure(rs) = Valid
  BY <1>1, <1>2 DEF Judges
<1>3. CASE \E m \in 1..n : ~rs[m].valid /\ FirstFailure(rs) = rs[m]
  BY <1>3 DEF Judges
<1> QED
  BY <1>2, <1>3, First

\* Results of step 4 in the order they came, and whether one of them is bad.
Report(s, bad) ==
    /\ \E S : s \in Seq(S)
    /\ \A i \in DOMAIN s : ~s[i].valid => s[i].step_failed = 4
    /\ bad <=> \E i \in DOMAIN s : ~s[i].valid

LEMMA Reported ==
    ASSUME NEW s, NEW bad, Report(s, bad)
    PROVE  Judges(FirstFailure(s), 4, bad)
<1>1. Len(s) \in Nat /\ DOMAIN s = 1..Len(s)
  BY DEF Report
<1>2. /\ \A i \in 1..Len(s) : ~s[i].valid => s[i].step_failed = 4
      /\ bad <=> \E i \in 1..Len(s) : ~s[i].valid
  BY <1>1 DEF Report
<1> QED
  BY <1>1, <1>2, FirstMany

LEMMA ReportBoth ==
    ASSUME NEW s, NEW t, NEW p, NEW q, Report(s, p), Report(t, q)
    PROVE  Report(s \o t, p \/ q) /\ (s \o t = <<>> <=> s = <<>> /\ t = <<>>)
<1> DEFINE u == s \o t
<1>0. PICK S, T : s \in Seq(S) /\ t \in Seq(T)
  BY DEF Report
<1> DEFINE R == S \cup T
<1>1. s \in Seq(R) /\ t \in Seq(R)
  BY <1>0
<1> HIDE DEF R
<1>2. /\ u \in Seq(R) /\ Len(u) = Len(s) + Len(t)
      /\ \A i \in 1..Len(s) : u[i] = s[i]
      /\ \A i \in 1..Len(t) : u[Len(s) + i] = t[i]
      /\ Len(s) \in Nat /\ Len(t) \in Nat
      /\ DOMAIN s = 1..Len(s) /\ DOMAIN t = 1..Len(t) /\ DOMAIN u = 1..Len(u)
  BY <1>1
<1>3. u = <<>> <=> s = <<>> /\ t = <<>>
  BY <1>1
<1> HIDE DEF u
<1>4. ASSUME NEW i \in DOMAIN u
      PROVE  (i \in DOMAIN s /\ u[i] = s[i]) \/ \E j \in DOMAIN t : u[i] = t[j]
  <2>1. CASE i <= Len(s)
    BY <1>2, <2>1
  <2>2. CASE i > Len(s)
    <3>1. i - Len(s) \in 1..Len(t) /\ Len(s) + (i - Len(s)) = i
      BY <1>2, <2>2
    <3> QED
      BY <1>2, <3>1
  <2> QED
    BY <1>2, <2>1, <2>2
<1>5. /\ \A i \in DOMAIN s : i \in DOMAIN u /\ u[i] = s[i]
      /\ \A j \in DOMAIN t : Len(s) + j \in DOMAIN u /\ u[Len(s) + j] = t[j]
  BY <1>2
<1>6. \A i \in DOMAIN u : ~u[i].valid => u[i].step_failed = 4
  BY <1>4 DEF Report
<1>7. (p \/ q) <=> \E i \in DOMAIN u : ~u[i].valid
  <2>1. CASE p
    BY <1>5, <2>1 DEF Report
  <2>2. CASE q
    BY <1>5, <2>2 DEF Report
  <2>3. CASE ~p /\ ~q
    BY <1>4, <2>3 DEF Report
  <2> QED
    BY <2>1, <2>2, <2>3
<1>8. Report(u, p \/ q)
  BY <1>2, <1>6, <1>7 DEF Report
<1> QED
  BY <1>3, <1>8 DEF u

LEMMA ReportOne ==
    ASSUME NEW r, NEW bad, Judges(r, 4, bad)
    PROVE  Report(<<r>>, bad)
<1>1. <<r>> \in Seq({r}) /\ DOMAIN <<r>> = {1} /\ <<r>>[1] = r
  OBVIOUS
<1> QED
  BY <1>1 DEF Report, Judges

LEMMA ReportNone == Report(<<>>, FALSE)
  BY DEF Report

\* A list of revoked serials, asked when it is there.
LEMMA ListAsked ==
    ASSUME NEW f, NEW o, NEW source, source # "ocsp", NEW S, f.serial \in Opt(Nat)
    PROVE  Report(<<Observe(o, source, IF f.serial # <<>> /\ f.serial[1] \in S
                                       THEN "revoked" ELSE "good")>>,
                  \E n \in ToSet(f.serial) : n \in S)
<1> DEFINE Listed == f.serial # <<>> /\ f.serial[1] \in S
           r == Observe(o, source, IF Listed THEN "revoked" ELSE "good")
<1>1. r = IF Listed THEN Fail(4, "cert_revoked") ELSE Valid
  BY DEF Observe
<1>2. Listed <=> \E n \in ToSet(f.serial) : n \in S
  <2>1. PICK v \in Opt(Nat) : v = f.serial
    OBVIOUS
  <2>2. (v # <<>> /\ v[1] \in S) <=> \E n \in ToSet(v) : n \in S
    <3>1. CASE v = <<>>
      BY <3>1, OptFacts
    <3>2. CASE v # <<>>
      BY <3>2, OptFacts
    <3> QED
      BY <3>1, <3>2
  <2> QED
    BY <2>1, <2>2
<1> HIDE DEF Listed
<1>3. Judges(r, 4, Listed)
  <2>1. Valid.valid /\ ~Fail(4, "cert_revoked").valid /\ Fail(4, "cert_revoked").step_failed = 4
    BY DEF Valid, Fail
  <2> QED
    BY <1>1, <2>1 DEF Judges
<1> HIDE DEF r
<1>4. Report(<<r>>, Listed)
  BY <1>3, ReportOne
<1> QED
  BY <1>2, <1>4 DEF Report, r, Listed

LEMMA CallbackAsked ==
    ASSUME NEW v \in Opt(CallbackResults)
    PROVE  Report(v, \E r \in ToSet(v) : ~r.valid)
<1>1. CASE v = <<>>
  <2>1. ~\E r \in ToSet(v) : ~r.valid
    BY <1>1, OptFacts
  <2> QED
    BY <1>1, <2>1, ReportNone DEF Report
<1>2. CASE v # <<>>
  <2>1. PICK r \in CallbackResults : v = <<r>>
    BY <1>2 DEF Opt
  <2>2. ToSet(v) = {r}
    BY <1>2, <2>1, OptFacts
  <2>3. Judges(r, 4, ~r.valid)
    BY DEF CallbackResults, Judges
  <2>4. Report(v, ~r.valid)
    BY <2>1, <2>3, ReportOne
  <2> QED
    BY <2>2, <2>4 DEF Report
<1> QED
  BY <1>1, <1>2

\* The OCSP endpoint, asked when there is one.
LEMMA OcspAsked ==
    ASSUME NEW o, NEW v \in Opt(OcspAnswers), v = o.ocsp_url
    PROVE  Report(IF v = <<>> THEN <<>> ELSE <<Observe(o, "ocsp", OcspOutcome(v[1]))>>,
                  \/ \E a \in ToSet(v) : a \in {"cert_revoked", "no_code", "other"}
                  \/ OcspSilent(o) /\ ~o.ocsp_fail_open)
<1> DEFINE Gone == \E a \in ToSet(v) : a \in {"cert_revoked", "no_code", "other"}
           Silent == \E a \in ToSet(v) :
                        a \in {"cert_expired", "ocsp_unavailable", "http_error", "transport_error"}
           Open == o.ocsp_fail_open
<1>1. OcspSilent(o) <=> Silent
  BY DEF OcspSilent
<1>2. CASE v = <<>>
  <2>1. ~Gone /\ ~Silent
    BY <1>2, OptFacts
  <2> QED
    BY <1>1, <1>2, <2>1, ReportNone DEF Report
<1>3. CASE v # <<>>
  <2>1. PICK a \in OcspAnswers : v = <<a>>
    BY <1>3 DEF Opt
  <2>2. ToSet(v) = {a} /\ v[1] = a
    BY <1>3, <2>1, OptFacts
  <2>3. /\ Gone <=> a \in {"cert_revoked", "no_code", "other"}
        /\ Silent <=> a \in {"cert_expired", "ocsp_unavailable", "http_error", "transport_error"}
    BY <2>2
  <2>4. Gone \/ Silent \/ a = "good"
    BY <2>3 DEF OcspAnswers
  <2>5. OcspOutcome(a) = IF Gone THEN "revoked" ELSE IF Silent THEN "unavailable" ELSE "good"
    BY <2>3, <2>4 DEF OcspOutcome
  <2> DEFINE r == Observe(o, "ocsp", OcspOutcome(a))
  <2> HIDE DEF Gone, Silent
  <2>7. r = IF Gone THEN Fail(4, "cert_revoked")
            ELSE IF Silent /\ ~Open THEN Fail(4, "ocsp_unavailable") ELSE Valid
    <3>1. CASE Gone
      BY <2>5, <3>1 DEF Observe
    <3>2. CASE ~Gone /\ Silent
      <4>1. OcspOutcome(a) = "unavailable"
        BY <2>5, <3>2
      <4>2. r = Check("ocsp" = "ocsp" /\ Open, 4, "ocsp_unavailable")
        BY <4>1 DEF Observe
      <4>3. CASE Open
        BY <3>2, <4>2, <4>3 DEF Check
      <4>4. CASE ~Open
        BY <3>2, <4>2, <4>4 DEF Check
      <4> QED
        BY <4>3, <4>4
    <3>3. CASE ~Gone /\ ~Silent
      BY <2>5, <3>3 DEF Observe
    <3> QED
      BY <3>1, <3>2, <3>3
  <2> HIDE DEF r, Open
  <2>8. Judges(r, 4, Gone \/ (Silent /\ ~Open))
    <3>1. /\ Valid.valid /\ ~Fail(4, "cert_revoked").valid /\ ~Fail(4, "ocsp_unavailable").valid
          /\ Fail(4, "cert_revoked").step_failed = 4 /\ Fail(4, "ocsp_unavailable").step_failed = 4
      BY DEF Valid, Fail
    <3> QED
      BY <2>7, <3>1 DEF Judges
  <2> DEFINE Bad == Gone \/ (Silent /\ ~Open)
  <2> HIDE DEF Bad
  <2>9. Report(<<r>>, Bad)
    BY <2>8, ReportOne DEF Bad
  <2> QED
    BY <1>1, <1>3, <2>2, <2>9 DEF Report, r, Bad, Gone, Open
<1> QED
  BY <1>2, <1>3

LEMMA Step4 ==
    ASSUME NEW f, NEW o, NEW c, VerifierInput(f, o, c)
    PROVE  Judges(CheckRevocation(f, o), 4, 4 \in Failing(f, o, c))
<1> DEFINE On1 == o.local_crl_configured \/ o.local_revoked # {}
           Looked(source, S) ==
               <<Observe(o, source, IF f.serial # <<>> /\ f.serial[1] \in S
                                    THEN "revoked" ELSE "good")>>
           s1 == IF On1 THEN Looked("local_crl", o.local_revoked) ELSE <<>>
           s2 == o.revocation_check
           s3 == IF o.revocation_store = <<>> THEN <<>> ELSE Looked("ca_store", o.revocation_store[1])
           s4 == IF o.ocsp_url = <<>> THEN <<>> ELSE <<Observe(o, "ocsp", OcspOutcome(o.ocsp_url[1]))>>
           Bad1 == \E n \in ToSet(f.serial) : n \in o.local_revoked
           Bad2 == \E r \in ToSet(o.revocation_check) : ~r.valid
           Bad3 == \E n \in ToSet(f.serial) : n \in UNION ToSet(o.revocation_store)
           Bad4 == \/ \E a \in ToSet(o.ocsp_url) : a \in {"cert_revoked", "no_code", "other"}
                   \/ OcspSilent(o) /\ ~o.ocsp_fail_open
           Bad5 == o.revocation_required /\ NoSource(o)
<1>1. Consulted(f, o) = s1 \o s2 \o s3 \o s4
  BY DEF Consulted
<1>2. 4 \in Failing(f, o, c) <=> Bad1 \/ Bad2 \/ Bad3 \/ Bad4 \/ Bad5
  BY DEF Failing, KnownRevoked
<1>3. /\ f.serial \in Opt(Nat) /\ o.revocation_check \in Opt(CallbackResults)
      /\ o.revocation_store \in Opt(SUBSET Nat) /\ o.ocsp_url \in Opt(OcspAnswers)
  BY DEF VerifierInput
<1>4. Report(s1, Bad1)
  <2>1. CASE On1
    BY <1>3, <2>1, ListAsked
  <2>2. CASE ~On1
    <3>1. ~Bad1
      BY <2>2
    <3> QED
      BY <2>2, <3>1, ReportNone DEF Report
  <2> QED
    BY <2>1, <2>2
<1>5. Report(s2, Bad2)
  BY <1>3, CallbackAsked
<1>6. Report(s3, Bad3)
  <2>1. CASE o.revocation_store = <<>>
    <3>1. ToSet(o.revocation_store) = {}
      BY <1>3, <2>1, OptFacts
    <3>2. ~Bad3
      BY <3>1
    <3> QED
      BY <2>1, <3>2, ReportNone DEF Report
  <2>2. CASE o.revocation_store # <<>>
    <3>1. PICK S : S = o.revocation_store[1]
      OBVIOUS
    <3>2. ToSet(o.revocation_store) = {S}
      BY <1>3, <2>2, <3>1, OptFacts
    <3>3. Report(Looked("ca_store", S), \E n \in ToSet(f.serial) : n \in S)
      BY <1>3, ListAsked
    <3>4. Bad3 <=> \E n \in ToSet(f.serial) : n \in S
      BY <3>2
    <3>5. s3 = Looked("ca_store", S)
      BY <2>2, <3>1
    <3> QED
      BY <3>3, <3>4, <3>5 DEF Report
  <2> QED
    BY <2>1, <2>2
<1>7. Report(s4, Bad4)
  BY <1>3, OcspAsked
<1>8. (s1 = <<>> <=> ~On1) /\ (s3 = <<>> <=> o.revocation_store = <<>>) /\ (s4 = <<>> <=> o.ocsp_url = <<>>)
  OBVIOUS
<1>9. NoSource(o) <=> s1 = <<>> /\ s2 = <<>> /\ s3 = <<>> /\ s4 = <<>>
  BY <1>8 DEF NoSource
<1> HIDE DEF s1, s2, s3, s4, Bad1, Bad2, Bad3, Bad4
<1>10. Report(s1 \o s2, Bad1 \/ Bad2) /\ (s1 \o s2 = <<>> <=> s1 = <<>> /\ s2 = <<>>)
  BY <1>4, <1>5, ReportBoth
<1>11. /\ Report(s1 \o s2 \o s3, Bad1 \/ Bad2 \/ Bad3)
       /\ s1 \o s2 \o s3 = <<>> <=> s1 = <<>> /\ s2 = <<>> /\ s3 = <<>>
  <2> DEFINE u == s1 \o s2
             B == Bad1 \/ Bad2
  <2>1. Report(u, B)
    BY <1>10
  <2> HIDE DEF u, B
  <2>2. Report(u \o s3, B \/ Bad3) /\ (u \o s3 = <<>> <=> u = <<>> /\ s3 = <<>>)
    BY <1>6, <2>1, ReportBoth
  <2> QED
    BY <1>10, <2>2 DEF u, B
<1>12. /\ Report(s1 \o s2 \o s3 \o s4, Bad1 \/ Bad2 \/ Bad3 \/ Bad4)
       /\ s1 \o s2 \o s3 \o s4 = <<>> <=> NoSource(o)
  <2> DEFINE u == s1 \o s2 \o s3
             B == Bad1 \/ Bad2 \/ Bad3
  <2>1. Report(u, B)
    BY <1>11
  <2> HIDE DEF u, B
  <2>2. Report(u \o s4, B \/ Bad4) /\ (u \o s4 = <<>> <=> u = <<>> /\ s4 = <<>>)
    BY <1>7, <2>1, ReportBoth
  <2> QED
    BY <1>9, <1>11, <2>2 DEF u, B
<1> DEFINE all == s1 \o s2 \o s3 \o s4
           z == Complete(o, all)
           Bads == Bad1 \/ Bad2 \/ Bad3 \/ Bad4
<1>13. Judges(z, 4, Bad5)
  <2>1. Bad5 <=> o.revocation_required /\ all = <<>>
    BY <1>12
  <2> HIDE DEF all
  <2>2. z = Check(~(o.revocation_required /\ all = <<>>), 4, "ocsp_unavailable")
    BY DEF Complete
  <2>3. Judges(z, 4, o.revocation_required /\ all = <<>>)
    BY <2>2 DEF Judges, Check, Valid, Fail
  <2> QED
    BY <2>1, <2>3 DEF Judges
<1>14. CheckRevocation(f, o) = FirstFailure(Append(all, z))
  BY <1>1 DEF CheckRevocation
<1>15. Report(all, Bads)
  BY <1>12
<1> HIDE DEF all, z, Bads, Bad5
<1>16. Report(<<z>>, Bad5)
  BY <1>13, ReportOne
<1>17. Append(all, z) = all \o <<z>>
  BY <1>13, <1>15 DEF Report
<1>18. Report(all \o <<z>>, Bads \/ Bad5)
  BY <1>15, <1>16, ReportBoth
<1>19. Judges(FirstFailure(Append(all, z)), 4, Bads \/ Bad5)
  BY <1>17, <1>18, Reported
<1> QED
  BY <1>2, <1>14, <1>19 DEF Judges, Bads

-----------------------------------------------------------------------------
(* Step 6: the text form of nwp_path_matches and what a pattern covers.     *)

\* The first two characters of a text.
LEMMA FirstTwo ==
    ASSUME NEW C, NEW s \in Seq(C), Len(s) >= 2
    PROVE  SubSeq(s, 1, 2) = <<s[1], s[2]>>
<1> DEFINE u == SubSeq(s, 1, 2)
           v == <<s[1], s[2]>>
<1>1. u \in Seq(C) /\ Len(u) = 2 /\ u[1] = s[1] /\ u[2] = s[2]
  OBVIOUS
<1>2. v \in Seq(C) /\ Len(v) = 2 /\ v[1] = s[1] /\ v[2] = s[2]
  <2>1. s[1] \in C /\ s[2] \in C
    OBVIOUS
  <2> QED
    BY <2>1
<1> HIDE DEF u, v
<1>3. \A i \in 1..2 : u[i] = v[i]
  BY <1>1, <1>2
<1>4. u = v
  BY <1>1, <1>2, <1>3
<1> QED
  BY <1>4 DEF u, v

\* A pattern ends with "/*": its last two characters say so.
LEMMA SuffixOfTwo ==
    ASSUME NEW x, NEW y, NEW C, NEW p \in Seq(C)
    PROVE  IsSuffix(<<x, y>>, p) <=> Len(p) >= 2 /\ p[Len(p)] = y /\ p[Len(p) - 1] = x
<1> DEFINE n == Len(p)
           r == Reverse(p)
           q == Reverse(<<x, y>>)
<1>1. n \in Nat
  OBVIOUS
<1>2. Len(q) = 2 /\ q[1] = y /\ q[2] = x
  BY DEF Reverse
<1>3. q \in Seq({x, y})
  BY DEF Reverse
<1>4. r \in Seq(C) /\ Len(r) = n /\ \A i \in 1..n : r[i] = p[(n - i) + 1]
  BY DEF Reverse
<1> HIDE DEF r, q
<1>5. IsSuffix(<<x, y>>, p) <=> 2 <= n /\ SubSeq(q, 1, 2) = SubSeq(r, 1, 2)
  BY <1>2, <1>4 DEF IsSuffix, IsPrefix, r, q
<1>6. SubSeq(q, 1, 2) = <<y, x>>
  <2>1. \E D : q \in Seq(D) /\ Len(q) >= 2
    BY <1>2, <1>3
  <2>2. SubSeq(q, 1, 2) = <<q[1], q[2]>>
    BY <2>1, FirstTwo
  <2> QED
    BY <1>2, <2>2
<1>7. ASSUME 2 <= n
      PROVE  SubSeq(r, 1, 2) = <<y, x>> <=> p[n] = y /\ p[n - 1] = x
  <2>1. SubSeq(r, 1, 2) = <<r[1], r[2]>>
    BY <1>1, <1>4, <1>7, FirstTwo
  <2>2. r[1] = p[n] /\ r[2] = p[n - 1]
    <3>1. 1 \in 1..n /\ 2 \in 1..n /\ (n - 1) + 1 = n /\ (n - 2) + 1 = n - 1
      BY <1>1, <1>7
    <3> QED
      BY <1>4, <3>1
  <2> QED
    BY <2>1, <2>2
<1> QED
  BY <1>1, <1>5, <1>6, <1>7

\* Lower-cased texts are equal when they are the same but for case.
LEMMA LowerAlike ==
    ASSUME NEW C, NEW s \in Seq(C), NEW t \in Seq(C)
    PROVE  Lower(s) = Lower(t) <=> Len(s) = Len(t) /\ \A i \in 1..Len(s) : Same(s[i], t[i])
<1> DEFINE L(u) == IF u = "A" THEN "a" ELSE u
<1>1. \A u, v : L(u) = L(v) <=> Same(u, v)
  BY DEF Same
<1>2. /\ DOMAIN Lower(s) = 1..Len(s) /\ \A i \in 1..Len(s) : Lower(s)[i] = L(s[i])
      /\ DOMAIN Lower(t) = 1..Len(t) /\ \A i \in 1..Len(t) : Lower(t)[i] = L(t[i])
  BY DEF Lower
<1>3. ASSUME Lower(s) = Lower(t)
      PROVE  Len(s) = Len(t) /\ \A i \in 1..Len(s) : Same(s[i], t[i])
  <2>1. 1..Len(s) = 1..Len(t)
    BY <1>2, <1>3
  <2>2. Len(s) = Len(t)
    BY <2>1
  <2> QED
    BY <1>1, <1>2, <1>3, <2>2
<1>4. ASSUME Len(s) = Len(t), \A i \in 1..Len(s) : Same(s[i], t[i])
      PROVE  Lower(s) = Lower(t)
  <2> HIDE DEF L
  <2>1. Lower(s) = [i \in 1..Len(s) |-> L(s[i])] /\ Lower(t) = [i \in 1..Len(t) |-> L(t[i])]
    BY DEF Lower, L
  <2>2. \A i \in 1..Len(s) : L(s[i]) = L(t[i])
    BY <1>1, <1>4
  <2> QED
    BY <1>4, <2>1, <2>2
<1> QED
  BY <1>3, <1>4

\* The characters of a pattern that stand for themselves in either case.
LEMMA SameSelf ==
    ASSUME NEW x, NEW y, y # "a", y # "A"
    PROVE  Same(x, y) <=> x = y
BY DEF Same

\* The first part of a text.
LEMMA Beginning ==
    ASSUME NEW C, NEW s \in Seq(C), NEW k \in Nat, k <= Len(s)
    PROVE  /\ SubSeq(s, 1, k) \in Seq(C) /\ Len(SubSeq(s, 1, k)) = k
           /\ \A i \in 1..k : SubSeq(s, 1, k)[i] = s[i]
OBVIOUS

\* A text in lower case, character by character.
LEMMA LowerText ==
    ASSUME NEW C, NEW s \in Seq(C)
    PROVE  /\ Lower(s) \in Seq(C \cup {"a"}) /\ Len(Lower(s)) = Len(s)
           /\ \A i \in 1..Len(s) : Lower(s)[i] = IF s[i] = "A" THEN "a" ELSE s[i]
<1> DEFINE L(u) == IF u = "A" THEN "a" ELSE u
           D == C \cup {"a"}
<1>1. \A u \in C : L(u) \in D
  OBVIOUS
<1>2. Lower(s) = [i \in 1..Len(s) |-> L(s[i])]
  BY DEF Lower
<1> HIDE DEF L, D
<1>3. Lower(s) \in Seq(D) /\ Len(Lower(s)) = Len(s) /\ \A i \in 1..Len(s) : Lower(s)[i] = L(s[i])
  BY <1>1, <1>2
<1> QED
  BY <1>3 DEF L, D

\* A text and the first part of another one, but for case.
LEMMA LowerPrefix ==
    ASSUME NEW C, NEW s \in Seq(C), NEW t \in Seq(C)
    PROVE  IsPrefix(Lower(s), Lower(t)) <=>
               Len(s) <= Len(t) /\ \A i \in 1..Len(s) : Same(s[i], t[i])
<1> DEFINE L(u) == IF u = "A" THEN "a" ELSE u
           ls == Lower(s)
           lt == Lower(t)
           D == C \cup {"a"}
<1>1. \A u, v : L(u) = L(v) <=> Same(u, v)
  BY DEF Same
<1>2. /\ ls \in Seq(D) /\ Len(ls) = Len(s) /\ \A i \in 1..Len(s) : ls[i] = L(s[i])
      /\ lt \in Seq(D) /\ Len(lt) = Len(t) /\ \A i \in 1..Len(t) : lt[i] = L(t[i])
  BY LowerText
<1> HIDE DEF ls, lt, L, D
<1>3. IsPrefix(ls, lt) <=> Len(s) <= Len(t) /\ SubSeq(ls, 1, Len(s)) = SubSeq(lt, 1, Len(s))
  BY <1>2 DEF IsPrefix
<1>4. ASSUME Len(s) <= Len(t)
      PROVE  SubSeq(ls, 1, Len(s)) = SubSeq(lt, 1, Len(s)) <=>
                 \A i \in 1..Len(s) : Same(s[i], t[i])
  <2> DEFINE k == Len(s)
             u == SubSeq(ls, 1, k)
             v == SubSeq(lt, 1, k)
  <2>1. k \in Nat /\ k <= Len(ls) /\ k <= Len(lt)
    BY <1>2, <1>4
  <2> HIDE DEF k
  <2>2. /\ u \in Seq(D) /\ Len(u) = k /\ \A i \in 1..k : u[i] = ls[i]
        /\ v \in Seq(D) /\ Len(v) = k /\ \A i \in 1..k : v[i] = lt[i]
    BY <1>2, <2>1
  <2> HIDE DEF u, v
  <2>3. u = v <=> \A i \in 1..k : u[i] = v[i]
    BY <2>2
  <2>4. \A i \in 1..k : u[i] = v[i] <=> Same(s[i], t[i])
    <3> SUFFICES ASSUME NEW i \in 1..k PROVE u[i] = v[i] <=> Same(s[i], t[i])
      OBVIOUS
    <3>1. u[i] = L(s[i]) /\ v[i] = L(t[i])
      BY <1>2, <1>4, <2>1, <2>2 DEF k
    <3> QED
      BY <1>1, <3>1
  <2> QED
    BY <2>3, <2>4 DEF k, u, v
<1> QED
  BY <1>3, <1>4 DEF ls, lt

\* A path and its parents, with x for the separator; texts that are the same
\* but for case.
ParentsOf(t, x) == {SubSeq(t, 1, k - 1) : k \in {i \in DOMAIN t : t[i] = x}} \cup {t}
Alike(s, t) == Len(s) = Len(t) /\ \A i \in DOMAIN s : Same(s[i], t[i])

\* A pattern ends with x, y; its prefix is a path or one of its parents, as the
\* code finds it out and as it is meant.
EndsIn(p, x, y) == Len(p) >= 2 /\ p[Len(p)] = y /\ p[Len(p) - 1] = x
Below(p, t, x) == LET h == SubSeq(p, 1, Len(p) - 2)
                  IN  /\ IsPrefix(Lower(h), Lower(t))
                      /\ Len(t) = Len(h) \/ t[Len(h) + 1] = x
Under(p, t, x, y) == \E q \in ParentsOf(t, x) : Alike(p, q \o <<x, y>>)

\* A path and its parents, which end where there is a separator.
LEMMA Parents ==
    ASSUME NEW C, NEW t \in Seq(C), NEW x,
           NEW q \in ParentsOf(t, x)
    PROVE  /\ q \in Seq(C) /\ Len(q) <= Len(t) /\ \A i \in 1..Len(q) : q[i] = t[i]
           /\ q = t \/ (Len(q) < Len(t) /\ t[Len(q) + 1] = x)
<1>1. CASE q = t
  BY <1>1
<1>2. CASE q # t
  <2>1. PICK k \in 1..Len(t) : t[k] = x /\ q = SubSeq(t, 1, k - 1)
    BY <1>2 DEF ParentsOf
  <2>2. k - 1 \in Nat /\ k - 1 < Len(t) /\ (k - 1) + 1 = k
    OBVIOUS
  <2>3. q \in Seq(C) /\ Len(q) = k - 1 /\ \A i \in 1..(k - 1) : q[i] = t[i]
    BY <2>1, <2>2
  <2> QED
    BY <2>1, <2>2, <2>3
<1> QED
  BY <1>1, <1>2

\* A pattern that ends with "/*" matches a path when its prefix is the path or
\* one of the path's parents, but for case.
LEMMA BelowMatches ==
    ASSUME NEW C, NEW p \in Seq(C), NEW t \in Seq(C), NEW x \in C, NEW y \in C,
           x # "a", x # "A", y # "a", y # "A",
           EndsIn(p, x, y)
    PROVE  Below(p, t, x) <=> Under(p, t, x, y)
<1> DEFINE h == SubSeq(p, 1, Len(p) - 2)
<1>0. Len(p) >= 2 /\ p[Len(p)] = y /\ p[Len(p) - 1] = x
  BY DEF EndsIn
<1> DEFINE n == Len(p)
           parents == ParentsOf(t, x)
           Fits(q) == Alike(p, q \o <<x, y>>)
<1>1. n \in Nat /\ n >= 2 /\ n - 2 \in Nat /\ n - 2 <= Len(p)
  BY <1>0
<1>2. h \in Seq(C) /\ Len(h) = n - 2 /\ \A i \in 1..(n - 2) : h[i] = p[i]
  <2>1. PICK k \in Nat : k = n - 2 /\ k <= Len(p)
    BY <1>1
  <2>2. /\ SubSeq(p, 1, k) \in Seq(C) /\ Len(SubSeq(p, 1, k)) = k
        /\ \A i \in 1..k : SubSeq(p, 1, k)[i] = p[i]
    BY <2>1, Beginning
  <2>3. h = SubSeq(p, 1, k)
    BY <2>1
  <2> QED
    BY <2>1, <2>2, <2>3
<1>3. IsPrefix(Lower(h), Lower(t)) <=>
          n - 2 <= Len(t) /\ \A i \in 1..(n - 2) : Same(p[i], t[i])
  BY <1>2, LowerPrefix
<1>4. ASSUME NEW q \in Seq(C)
      PROVE  Fits(q) <=> Len(q) = n - 2 /\ \A i \in 1..(n - 2) : Same(p[i], q[i])
  <2> DEFINE w == q \o <<x, y>>
             m == Len(q)
  <2>0. m \in Nat
    OBVIOUS
  <2>1. /\ Len(w) = m + 2 /\ \A i \in 1..m : w[i] = q[i]
        /\ w[m + 1] = x /\ w[m + 2] = y
    OBVIOUS
  <2>2. DOMAIN p = 1..n
    OBVIOUS
  <2> HIDE DEF w, n
  <2>3. Fits(q) <=> n = Len(w) /\ \A i \in 1..n : Same(p[i], w[i])
    BY <2>2 DEF w, n, Alike
  <2>4. Len(w) = n <=> m = n - 2
    BY <1>1, <2>0, <2>1
  <2>5. ASSUME m = n - 2
        PROVE  (\A i \in 1..n : Same(p[i], w[i])) <=> \A i \in 1..m : Same(p[i], q[i])
    <3>1. m + 1 = n - 1 /\ m + 2 = n
      BY <1>1, <2>0, <2>5
    <3>2. w[n - 1] = x /\ w[n] = y /\ p[n - 1] = x /\ p[n] = y
      BY <1>0, <2>1, <3>1 DEF n
    <3>3. Same(p[n - 1], w[n - 1]) /\ Same(p[n], w[n])
      BY <3>2 DEF Same
    <3>4. 1..n = 1..m \cup {n - 1, n}
      BY <1>1, <2>0, <2>5
    <3> QED
      BY <2>1, <3>3, <3>4
  <2> QED
    BY <2>3, <2>4, <2>5
<1> HIDE DEF Fits, h
<1>5. ASSUME NEW q \in parents
      PROVE  /\ q \in Seq(C) /\ Len(q) <= Len(t) /\ \A i \in 1..Len(q) : q[i] = t[i]
             /\ q = t \/ (Len(q) < Len(t) /\ t[Len(q) + 1] = x)
  BY Parents
<1>6. ASSUME NEW q \in parents, Fits(q)
      PROVE  IsPrefix(Lower(h), Lower(t)) /\ (Len(t) = Len(h) \/ t[Len(h) + 1] = x)
  <2>1. Len(q) = n - 2 /\ \A i \in 1..(n - 2) : Same(p[i], q[i])
    BY <1>4, <1>5, <1>6
  <2>2. n - 2 <= Len(t) /\ \A i \in 1..(n - 2) : Same(p[i], t[i])
    BY <1>5, <2>1
  <2>3. Len(t) = n - 2 \/ t[(n - 2) + 1] = x
    BY <1>5, <2>1
  <2> QED
    BY <1>2, <1>3, <2>2, <2>3
<1>7. ASSUME IsPrefix(Lower(h), Lower(t)), Len(t) = Len(h) \/ t[Len(h) + 1] = x
      PROVE  \E q \in parents : Fits(q)
  <2>1. n - 2 <= Len(t) /\ \A i \in 1..(n - 2) : Same(p[i], t[i])
    BY <1>3, <1>7
  <2>2. CASE Len(t) = n - 2
    <3>1. Fits(t)
      BY <1>4, <2>1, <2>2
    <3> QED
      BY <3>1 DEF ParentsOf
  <2>3. CASE Len(t) # n - 2
    <3> DEFINE k == n - 1
               q == SubSeq(t, 1, k - 1)
    <3>1. k \in 1..Len(t) /\ k - 1 = n - 2 /\ (n - 2) + 1 = k
      BY <1>1, <2>1, <2>3
    <3>2. t[k] = x
      BY <1>2, <1>7, <2>3, <3>1
    <3> HIDE DEF k
    <3>3. q \in parents
      BY <3>1, <3>2 DEF ParentsOf
    <3>4. q \in Seq(C) /\ Len(q) = n - 2 /\ \A i \in 1..(n - 2) : q[i] = t[i]
      BY <1>1, <3>1
    <3> HIDE DEF q
    <3>5. Fits(q)
      BY <1>4, <2>1, <3>4
    <3> QED
      BY <3>3, <3>5
  <2> QED
    BY <2>2, <2>3
<1> QED
  BY <1>6, <1>7 DEF Fits, h, Below, Under

\* nwp_path_matches finds what a pattern covers.
LEMMA PathMatches ==
    ASSUME NEW p \in Seq(STRING), NEW t \in Seq(STRING)
    PROVE  NwpPathMatches(p, t) <=> Covers(p, t)
<1> DEFINE x == "/"
           y == "*"
           Star == p = <<"*">>
           C == STRING \cup {x, y}
<1>1. x # "a" /\ x # "A" /\ y # "a" /\ y # "A" /\ x \in C /\ y \in C
  OBVIOUS
<1>0. p \in Seq(C) /\ t \in Seq(C)
  <2> HIDE DEF x, y
  <2> QED
    OBVIOUS
<1>2. IsSuffix(<<x, y>>, p) <=> EndsIn(p, x, y)
  <2> HIDE DEF x, y
  <2> QED
    BY SuffixOfTwo DEF EndsIn
<1>3. NwpPathMatches(p, t) <=>
          \/ Star \/ (IsSuffix(<<x, y>>, p) /\ Below(p, t, x))
          \/ (~IsSuffix(<<x, y>>, p) /\ Lower(p) = Lower(t))
  BY Zenon DEF NwpPathMatches, Below
<1>4. Covers(p, t) <=> Star \/ (Alike(p, t) /\ ~EndsIn(p, x, y)) \/ Under(p, t, x, y)
  BY Zenon DEF Covers, Alike, ParentsOf, EndsIn, Under
<1> HIDE DEF x, y, Star, C
<1>5. Lower(p) = Lower(t) <=> Alike(p, t)
  BY LowerAlike DEF Alike
<1>6. EndsIn(p, x, y) => (Below(p, t, x) <=> Under(p, t, x, y))
  BY <1>0, <1>1, BelowMatches
<1>7. Under(p, t, x, y) => EndsIn(p, x, y)
  <2> SUFFICES ASSUME NEW q \in ParentsOf(t, x), Alike(p, q \o <<x, y>>)
               PROVE  EndsIn(p, x, y)
    BY DEF Under
  <2>1. q \in Seq(C)
    BY <1>0, Parents
  <2> DEFINE m == Len(q)
             w == q \o <<x, y>>
  <2>2. m \in Nat /\ Len(w) = m + 2 /\ w[m + 1] = x /\ w[m + 2] = y
    BY <1>1, <2>1
  <2>3. Len(p) = Len(w) /\ \A i \in 1..Len(p) : Same(p[i], w[i])
    BY DEF Alike
  <2> HIDE DEF w, m
  <2>4. Len(p) = m + 2 /\ m + 1 \in 1..Len(p) /\ m + 2 \in 1..Len(p)
    BY <2>2, <2>3
  <2>5. Same(p[m + 1], x) /\ Same(p[m + 2], y)
    BY <2>2, <2>3, <2>4
  <2>6. p[m + 1] = x /\ p[m + 2] = y
    BY <1>1, <2>5, SameSelf
  <2>7. Len(p) >= 2 /\ Len(p) - 1 = m + 1
    BY <2>2, <2>4
  <2> QED
    BY <2>4, <2>6, <2>7 DEF EndsIn
<1> QED
  BY <1>2, <1>3, <1>4, <1>5, <1>6, <1>7

\* Step 6: check_scope.
LEMMA Step6 ==
    ASSUME NEW f, NEW o, NEW c, VerifierInput(f, o, c)
    PROVE  Judges(CheckScope(f, c), 6, 6 \in Failing(f, o, c))
<1> DEFINE ps == UNION ToSet(f.scope_nodes)
           In(t) == \E p \in ps : NwpPathMatches(p, t)
           Ok == \A i \in DOMAIN c.target : In(c.target[i])
<1>1. 6 \in Failing(f, o, c) <=> \E t \in ToSet(c.target) : \A p \in ps : ~Covers(p, t)
  BY DEF Failing
<1>2. Judges(CheckScope(f, c), 6, ~Ok)
  <2> HIDE DEF Ok
  <2>1. CheckScope(f, c) = Check(Ok, 6, "cert_scope_violation")
    BY DEF CheckScope, Ok
  <2> QED
    BY <2>1, Checked
<1>3. ps \subseteq Seq(STRING)
  <2>1. PICK v \in Opt(SUBSET Seq(STRING)) : v = f.scope_nodes
    BY DEF VerifierInput
  <2>2. \A w \in ToSet(v) : w \in SUBSET Seq(STRING)
    <3>1. CASE v = <<>>
      BY <3>1, OptFacts
    <3>2. CASE v # <<>>
      BY <3>2, OptFacts
    <3> QED
      BY <3>1, <3>2
  <2> QED
    BY <2>1, <2>2
<1>4. PICK g \in Opt(Seq(STRING)) : g = c.target
  BY DEF VerifierInput
<1>5. \A t \in ToSet(g) : t \in Seq(STRING)
  <2>1. CASE g = <<>>
    BY <2>1, OptFacts
  <2>2. CASE g # <<>>
    BY <2>2, OptFacts
  <2> QED
    BY <2>1, <2>2
<1>6. ASSUME NEW t \in ToSet(g)
      PROVE  In(t) <=> \E p \in ps : Covers(p, t)
  <2>1. \A p \in ps : NwpPathMatches(p, t) <=> Covers(p, t)
    BY <1>3, <1>5, PathMatches
  <2> HIDE DEF ps
  <2> QED
    BY <2>1
<1> HIDE DEF ps, In
<1>7. Ok <=> \A t \in ToSet(g) : In(t)
  BY <1>4 DEF ToSet
<1>8. ~Ok <=> \E t \in ToSet(g) : \A p \in ps : ~Covers(p, t)
  BY <1>6, <1>7
<1> HIDE DEF Ok
<1>9. ~Ok <=> 6 \in Failing(f, o, c)
  BY <1>1, <1>4, <1>8
<1> QED
  BY <1>2, <1>9 DEF Judges

-----------------------------------------------------------------------------
\* NipIdentVerifier::verify gives the right verdict: a frame is valid exactly
\* when it would pass each of the six steps taken alone, and a frame that is
\* refused is refused for the first step it does not pass, so that the code the
\* caller sees never depends on what a later step found.
THEOREM VerifyExact ==
    ASSUME NEW f, NEW o, NEW c, VerifierInput(f, o, c)
    PROVE  VerdictExact(f, o, c, Verify(f, o, c))
<1> DEFINE rs == <<CheckExpiry(f, c.now), CheckIssuer(f, o, c.issuer),
                   CheckSignature(f, o, c.now), CheckRevocation(f, o),
                   CheckCapabilities(f, c), CheckScope(f, c)>>
           failing == Failing(f, o, c)
<1>1. /\ Judges(rs[1], 1, 1 \in failing) /\ Judges(rs[2], 2, 2 \in failing)
      /\ Judges(rs[3], 3, 3 \in failing) /\ Judges(rs[4], 4, 4 \in failing)
      /\ Judges(rs[5], 5, 5 \in failing) /\ Judges(rs[6], 6, 6 \in failing)
  BY Step1, Step2, Step3, Step4, Step5, Step6
<1>2. failing \subseteq 1..6
  BY DEF Failing
<1>3. DOMAIN rs = 1..6 /\ 6 \in Nat
  OBVIOUS
<1>4. Verify(f, o, c) = FirstFailure(rs)
  BY DEF Verify
<1>5. Valid.valid
  BY DEF Valid
<1> HIDE DEF rs, failing
<1>6. \A n \in 1..6 : Judges(rs[n], n, n \in failing)
  <2> SUFFICES ASSUME NEW n \in 1..6 PROVE Judges(rs[n], n, n \in failing)
    OBVIOUS
  <2>1. n = 1 \/ n = 2 \/ n = 3 \/ n = 4 \/ n = 5 \/ n = 6
    OBVIOUS
  <2> QED
    BY <1>1, <2>1
<1>7. \A n \in 1..6 : /\ rs[n].valid <=> n \notin failing
                      /\ ~rs[n].valid => rs[n].step_failed = n
  BY <1>6 DEF Judges
<1>8. CASE (\A i \in 1..6 : rs[i].valid) /\ FirstFailure(rs) = Valid
  <2>1. failing = {}
    BY <1>2, <1>7, <1>8
  <2> QED
    BY <1>4, <1>5, <1>8, <2>1 DEF VerdictExact, failing
<1>9. CASE \E m \in 1..6 : /\ ~rs[m].valid /\ FirstFailure(rs) = rs[m]
                           /\ \A i \in 1..(m - 1) : rs[i].valid
  <2>1. PICK m \in 1..6 : /\ ~rs[m].valid /\ FirstFailure(rs) = rs[m]
                          /\ \A i \in 1..(m - 1) : rs[i].valid
    BY <1>9
  <2> DEFINE r == rs[m]
  <2>2. m \in failing /\ r.step_failed = m /\ ~r.valid
    BY <1>7, <2>1
  <2>3. \A n \in failing : m <= n
    BY <1>2, <1>7, <2>1
  <2>4. Verify(f, o, c) = r
    BY <1>4, <2>1
  <2> HIDE DEF r
  <2> QED
    BY <2>2, <2>3, <2>4 DEF VerdictExact, failing
<1> QED
  BY <1>3, <1>8, <1>9, First

\* A certificate that any configured source of check_revocation knows to be
\* revoked is never accepted, whatever the other sources say or fail to say and
\* whatever ocsp_fail_open allows: failing open is for silence only
\* (NipRevocationPolicy::observe).
THEOREM RevokedRefused ==
    ASSUME NEW f, NEW o, NEW c, VerifierInput(f, o, c), KnownRevoked(f, o)
    PROVE  ~Verify(f, o, c).valid
<1>1. 4 \in Failing(f, o, c)
  BY DEF Failing
<1>2. Failing(f, o, c) # {}
  BY <1>1
<1> QED
  BY <1>2, VerifyExact DEF VerdictExact
=============================================================================
