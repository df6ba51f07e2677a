---------------------------- MODULE CertAuthority ----------------------------
(***************************************************************************)
(* The NIP certificate authority (nps-nip/src/ca): the service             *)
(* (service.rs) behind its router (router.rs), the certificate stores      *)
(* (store.rs, sql_store.rs) and the enrollment tiers (ra.rs).              *)
(*                                                                         *)
(* Each store protects itself with a mutex; a service call takes several   *)
(* of them one after the other and holds none in between. A call is a      *)
(* process that makes one store access per step, with the clock reading    *)
(* that precedes it, and calls interleave. A call that is refused at its   *)
(* first access changes nothing, so it is not a step. A call in flight     *)
(* that is refused becomes idle.                                           *)
(*                                                                         *)
(* Keys, scopes, capabilities and signatures are left out: a request whose *)
(* arguments the service refuses is the environment's choice (GiveUp).     *)
(***************************************************************************)
EXTENDS Integers, Sequences, FiniteSets

CONSTANTS
    Callers,           \* concurrent requests
    AgentNids, NodeNids, GroupNids,
    SessionNids,       \* session NIDs the random generator may draw
    TokenIds,          \* bootstrap tokens
    PendingIds,        \* ids of pending registrations
    Backend,           \* "memory" (store.rs) or "sql" (sql_store.rs)
    Tiers,             \* the enrollment tiers a CA may be configured with
    Endpoints,         \* bound: per tier, which kinds of request clients send
    AgentValidity, NodeValidity, GroupValidity,
    SessionTtls,       \* validities within the session limits
    RenewalWindow,
    TokenTtls,         \* ttls an operator may ask for
    TokenMaxTtl,
    MaxQueue,          \* pending_queue_max_size
    MaxSerial,         \* bound: certificates issued
    MaxTime,           \* bound: the clock stops here
    None

Nids == AgentNids \cup NodeNids \cup GroupNids \cup SessionNids

ASSUME NidsAssumption ==
    /\ None \notin Nids \cup TokenIds \cup PendingIds
    /\ None \notin {"group", "session"}
    /\ SessionNids \cap (AgentNids \cup NodeNids \cup GroupNids) = {}
    /\ GroupNids \cap (AgentNids \cup NodeNids) = {}
    /\ AgentNids \cap NodeNids = {}

ASSUME OptionsAssumption ==
    /\ Backend \in {"memory", "sql"}
    /\ Tiers \subseteq {"allowlist", "token", "queue"}
    /\ Endpoints \in [Tiers -> SUBSET {"register", "group", "session", "renew", "revoke"}]
    /\ AgentValidity \in Nat /\ NodeValidity \in Nat /\ GroupValidity \in Nat
    /\ SessionTtls \subseteq Nat /\ TokenTtls \subseteq Nat
    /\ RenewalWindow \in Nat /\ TokenMaxTtl \in Nat
    /\ MaxQueue \in Nat /\ MaxSerial \in Nat /\ MaxTime \in Nat

ASSUME CallersAssumption == IsFiniteSet(Callers) /\ Callers # {}

VARIABLES
    tier,      \* options.enrollment_tier
    records,   \* the certificate table, in insertion order
    serial,    \* the serial sequence
    tokens,    \* InMemoryBootstrapTokenStore
    pending,   \* InMemoryPendingStore
    call,      \* the locals of each request being handled
    now

vars == <<tier, records, serial, tokens, pending, call, now>>

-----------------------------------------------------------------------------
(* Types.                                                                   *)

Roles == {"group", "session", None}

\* NipCertRecord. `token' is history: the token that admitted the request.
CertRecord ==
    [nid : Nids, serial : Nat, role : Roles, parent : Nids \cup {None},
     issued : Nat, expires : Nat, revoked : BOOLEAN, token : TokenIds \cup {None}]

Tokens == [status : {"absent", "live", "consumed", "revoked"}, expires : Nat]

NoToken == [status |-> "absent", expires |-> 0]

Pendings == [status : {"absent", "pending", "approved", "rejected"},
             nid : Nids \cup {None}]

NoPending == [status |-> "absent", nid |-> None]

\* `seen' is what the call keeps of the record it read; `cert' the record it is
\* about to save; `marked', history, is the length of the table when a revoke
\* marked its target.
Call ==
    [pc : {"idle", "enqueue", "lookup", "serial", "save", "approve", "mark",
           "children", "cascade"},
     op : {"none", "register", "group", "session", "renew", "revoke"},
     nid : Nids \cup {None}, seen : [role : Roles, expires : Nat],
     serial : Nat, parent : Nids \cup {None}, issued : Nat, expires : Nat,
     token : TokenIds \cup {None}, pend : PendingIds \cup {None},
     children : SUBSET Nids, marked : Nat]

Idle ==
    [pc |-> "idle", op |-> "none", nid |-> None,
     seen |-> [role |-> None, expires |-> 0], serial |-> 0, parent |-> None,
     issued |-> 0, expires |-> 0, token |-> None, pend |-> None,
     children |-> {}, marked |-> 0]

\* Every table holds well-typed entries, and a certificate names a parent
\* exactly when it is a session's (store.rs:17-40, service.rs:509-606).
TypeOK ==
    /\ tier \in Tiers
    /\ records \in Seq(CertRecord)
    /\ \A i \in DOMAIN records : (records[i].role = "session") <=> (records[i].parent # None)
    /\ serial \in Nat
    /\ tokens \in [TokenIds -> Tokens]
    /\ pending \in [PendingIds -> Pendings]
    /\ call \in [Callers -> Call]
    /\ now \in Nat

Init ==
    /\ tier \in Tiers
    /\ records = <<>>
    /\ serial = 0
    /\ tokens = [t \in TokenIds |-> NoToken]
    /\ pending = [d \in PendingIds |-> NoPending]
    /\ call = [p \in Callers |-> Idle]
    /\ now = 0

-----------------------------------------------------------------------------
(* The certificate stores.                                                  *)

Of(nid) == {i \in DOMAIN records : records[i].nid = nid}

Exists(nid) == Of(nid) # {}

\* Which of two records of one NID get_by_nid prefers. The SQL store sorts by
\* issued_at alone, and the sort is stable: the older row wins a tie.
Preferred(i, j) ==
    CASE Backend = "memory" -> i >= j
      [] Backend = "sql" -> \/ records[i].issued > records[j].issued
                            \/ records[i].issued = records[j].issued /\ i <= j

GetByNid(nid) == records[CHOOSE i \in Of(nid) : \A j \in Of(nid) : Preferred(i, j)]

LiveOf(nid) == {i \in Of(nid) : ~records[i].revoked}

\* The record revoke marks: the last live one inserted, in both stores.
ToRevoke(nid) == CHOOSE i \in LiveOf(nid) : \A j \in LiveOf(nid) : i >= j

MarkRevoked(nid) ==
    records' = IF LiveOf(nid) = {} THEN records
               ELSE [records EXCEPT ![ToRevoke(nid)].revoked = TRUE]

\* get_by_parent_nid, without the children already revoked.
LiveChildren(g) ==
    {records[i].nid : i \in {j \in DOMAIN records :
                                records[j].parent = g /\ ~records[j].revoked}}

SerialTaken(s) == \E i \in DOMAIN records : records[i].serial = s

\* NipCaService::verify, on one state of the store.
Verifies(nid) ==
    /\ Exists(nid)
    /\ ~GetByNid(nid).revoked
    /\ now <= GetByNid(nid).expires
    /\ LET g == GetByNid(nid).parent
       IN  g # None => /\ Exists(g)
                       /\ ~GetByNid(g).revoked
                       /\ now <= GetByNid(g).expires

-----------------------------------------------------------------------------
(* Steps common to the calls.                                               *)

Begin(p, c) ==
    /\ c.op \in Endpoints[tier]
    /\ call[p] = Idle
    /\ call' = [call EXCEPT ![p] = c]

Return(p) == call' = [call EXCEPT ![p] = Idle]

certs == <<records, serial>>
enrollment == <<tokens, pending>>

-----------------------------------------------------------------------------
(* Registration, with and without the enrollment gate.                      *)

Registering(nid) == [Idle EXCEPT !.op = "register", !.nid = nid]

\* POST register under the allowlist tier, and register-x509 under any: the
\* first access is the lookup of the NID. The prefix that marks groups is not
\* reserved here.
Register(p, nid) ==
    /\ nid \in AgentNids \cup NodeNids \cup GroupNids
    /\ ~Exists(nid)
    /\ Begin(p, [Registering(nid) EXCEPT !.pc = "serial"])
    /\ UNCHANGED <<tier, certs, enrollment, now>>

\* Mutant: the token is looked up and not marked as consumed.
ConsumeToken_Faulty(p, nid, t) ==
    /\ tier = "token"
    /\ nid \in AgentNids \cup NodeNids \cup GroupNids
    /\ tokens[t].status = "live"
    /\ now <= tokens[t].expires
    /\ Begin(p, [Registering(nid) EXCEPT !.pc = "lookup", !.token = t])
    /\ UNCHANGED <<tier, certs, enrollment, now>>

\* Tier 2: the policy consumes the token before anything else is checked.
ConsumeToken(p, nid, t) ==
    /\ tier = "token"
    /\ nid \in AgentNids \cup NodeNids \cup GroupNids
    /\ tokens[t].status = "live"
    /\ now <= tokens[t].expires
    /\ tokens' = [tokens EXCEPT ![t].status = "consumed"]
    /\ Begin(p, [Registering(nid) EXCEPT !.pc = "lookup", !.token = t])
    /\ UNCHANGED <<tier, certs, pending, now>>

InQueue == {d \in PendingIds : pending[d].status = "pending"}

QueueFull == Cardinality(InQueue) >= MaxQueue

\* Tier 3: the policy counts the queue, and enqueues in a second access.
CountQueue(p, nid) ==
    /\ tier = "queue"
    /\ nid \in AgentNids \cup NodeNids \cup GroupNids
    /\ ~QueueFull
    /\ Begin(p, [Registering(nid) EXCEPT !.pc = "enqueue"])
    /\ UNCHANGED <<tier, certs, enrollment, now>>

Enqueue(p, d) ==
    /\ call[p].pc = "enqueue"
    /\ pending[d].status = "absent"
    /\ pending' = [pending EXCEPT ![d] = [status |-> "pending", nid |-> call[p].nid]]
    /\ Return(p)
    /\ UNCHANGED <<tier, certs, tokens, now>>

\* approve_pending reads the record, registers, and approves it last.
ReadPending(p, d) ==
    /\ pending[d].status = "pending"
    /\ Begin(p, [Registering(pending[d].nid) EXCEPT !.pc = "lookup", !.pend = d])
    /\ UNCHANGED <<tier, certs, enrollment, now>>

Lookup(p) ==
    /\ call[p].pc = "lookup"
    /\ IF Exists(call[p].nid) THEN Return(p)
                              ELSE call' = [call EXCEPT ![p].pc = "serial"]
    /\ UNCHANGED <<tier, certs, enrollment, now>>

RegisterGroup(p, g) ==
    /\ g \in GroupNids
    /\ ~Exists(g)
    /\ Begin(p, [Idle EXCEPT !.pc = "serial", !.op = "group", !.nid = g])
    /\ UNCHANGED <<tier, certs, enrollment, now>>

\* Capabilities or a session validity the CA does not allow are refused before
\* a serial is drawn, a scope that does not parse after it.
GiveUp(p) ==
    /\ call[p].pc \in {"serial", "save"}
    /\ call[p].op # "renew"
    /\ Return(p)
    /\ UNCHANGED <<tier, certs, enrollment, now>>

\* The serial is drawn right after the clock is read for issued_at.
DrawSerial(p, nid, parent, validity) ==
    /\ serial < MaxSerial
    /\ serial' = serial + 1
    /\ call' = [call EXCEPT ![p].pc = "save", ![p].nid = nid, ![p].parent = parent,
                            ![p].serial = serial + 1, ![p].issued = now,
                            ![p].expires = now + validity]
    /\ UNCHANGED <<tier, records, enrollment, now>>

CertValidity(nid) == IF nid \in NodeNids THEN NodeValidity ELSE AgentValidity

DrawRegister(p) ==
    /\ call[p].pc = "serial"
    /\ call[p].op = "register"
    /\ DrawSerial(p, call[p].nid, None, CertValidity(call[p].nid))

DrawGroup(p) ==
    /\ call[p].pc = "serial"
    /\ call[p].op = "group"
    /\ DrawSerial(p, call[p].nid, None, GroupValidity)

RoleOf(op) == CASE op = "group" -> "group" [] op = "session" -> "session" [] OTHER -> None

NewRecord(c) ==
    [nid |-> c.nid, serial |-> c.serial, role |-> RoleOf(c.op), parent |-> c.parent,
     issued |-> c.issued, expires |-> c.expires, revoked |-> FALSE, token |-> c.token]

\* The store refuses a serial it holds, never a NID. An approval goes on.
Save(p) ==
    /\ call[p].pc = "save"
    /\ IF SerialTaken(call[p].serial)
       THEN Return(p) /\ UNCHANGED records
       ELSE /\ records' = Append(records, NewRecord(call[p]))
            /\ IF call[p].pend # None THEN call' = [call EXCEPT ![p].pc = "approve"]
                                      ELSE Return(p)
    /\ UNCHANGED <<tier, serial, enrollment, now>>

\* PendingStore::approve does nothing to a record rejected in the meantime.
Approve(p) ==
    /\ call[p].pc = "approve"
    /\ LET d == call[p].pend
       IN  pending' = IF pending[d].status = "pending"
                      THEN [pending EXCEPT ![d].status = "approved"] ELSE pending
    /\ Return(p)
    /\ UNCHANGED <<tier, certs, tokens, now>>

Reject(d) ==
    /\ pending[d].status = "pending"
    /\ pending' = [pending EXCEPT ![d].status = "rejected"]
    /\ UNCHANGED <<tier, certs, tokens, call, now>>

-----------------------------------------------------------------------------
(* Sessions and renewal.                                                    *)

Seen(nid) == [role |-> GetByNid(nid).role, expires |-> GetByNid(nid).expires]

ReadGroup(p, g) ==
    /\ Exists(g)
    /\ GetByNid(g).role = "group"
    /\ ~GetByNid(g).revoked
    /\ Begin(p, [Idle EXCEPT !.pc = "serial", !.op = "session", !.parent = g,
                             !.seen = Seen(g)])
    /\ UNCHANGED <<tier, certs, enrollment, now>>

\* A session NID holds the time and 64 random bits: it is new.
FreshNid(s) == ~Exists(s) /\ \A p \in Callers : call[p].nid # s

DrawSession(p, s, ttl) ==
    /\ call[p].pc = "serial"
    /\ call[p].op = "session"
    /\ now <= call[p].seen.expires
    /\ FreshNid(s)
    /\ DrawSerial(p, s, call[p].parent, ttl)

\* Mutant: renew does not look at revoked_at.
RenewAllowed_Faulty(nid) == Exists(nid)

RenewAllowed(nid) == Exists(nid) /\ ~GetByNid(nid).revoked

ReadForRenew(p, nid) ==
    /\ RenewAllowed(nid)
    /\ Begin(p, [Idle EXCEPT !.pc = "serial", !.op = "renew", !.nid = nid,
                             !.seen = Seen(nid)])
    /\ UNCHANGED <<tier, certs, enrollment, now>>

TooEarly(p) == now < call[p].seen.expires - RenewalWindow

\* The new record carries neither role nor parent (NewRecord).
DrawRenewal(p) ==
    /\ call[p].pc = "serial"
    /\ call[p].op = "renew"
    /\ IF TooEarly(p)
       THEN Return(p) /\ UNCHANGED <<tier, certs, enrollment, now>>
       ELSE DrawSerial(p, call[p].nid, None, CertValidity(call[p].nid))

-----------------------------------------------------------------------------
(* Revocation.                                                              *)

ReadForRevoke(p, nid) ==
    /\ Exists(nid)
    /\ Begin(p, [Idle EXCEPT !.pc = "mark", !.op = "revoke", !.nid = nid,
                             !.seen = Seen(nid)])
    /\ UNCHANGED <<tier, certs, enrollment, now>>

Mark(p) ==
    /\ call[p].pc = "mark"
    /\ MarkRevoked(call[p].nid)
    /\ IF LiveOf(call[p].nid) # {} /\ call[p].seen.role = "group"
       THEN call' = [call EXCEPT ![p].pc = "children", ![p].marked = Len(records)]
       ELSE Return(p)
    /\ UNCHANGED <<tier, serial, enrollment, now>>

ListChildren(p) ==
    /\ call[p].pc = "children"
    /\ call' = [call EXCEPT ![p].pc = "cascade", ![p].children = LiveChildren(call[p].nid)]
    /\ UNCHANGED <<tier, certs, enrollment, now>>

RevokeChild(p, s) ==
    /\ call[p].pc = "cascade"
    /\ s \in call[p].children
    /\ MarkRevoked(s)
    /\ call' = [call EXCEPT ![p].children = @ \ {s}]
    /\ UNCHANGED <<tier, serial, enrollment, now>>

\* Mutant: the loop over the children ends early.
CascadeDone_Faulty(p) ==
    /\ call[p].pc = "cascade"
    /\ Return(p)
    /\ UNCHANGED <<tier, certs, enrollment, now>>

CascadeDone(p) ==
    /\ call[p].pc = "cascade"
    /\ call[p].children = {}
    /\ Return(p)
    /\ UNCHANGED <<tier, certs, enrollment, now>>

-----------------------------------------------------------------------------
(* Operators.                                                               *)

Min2(a, b) == IF a <= b THEN a ELSE b

\* clamp_bootstrap_ttl: a ttl that is not positive means the maximum.
ClampTtl(ttl) == IF ttl > 0 THEN Min2(ttl, TokenMaxTtl) ELSE TokenMaxTtl

CreateToken(t, ttl) ==
    /\ tier = "token"
    /\ tokens[t].status = "absent"
    /\ tokens' = [tokens EXCEPT ![t] = [status |-> "live", expires |-> now + ClampTtl(ttl)]]
    /\ UNCHANGED <<tier, certs, pending, call, now>>

RevokeToken(t) ==
    /\ tokens[t].status = "live"
    /\ tokens' = [tokens EXCEPT ![t].status = "revoked"]
    /\ UNCHANGED <<tier, certs, pending, call, now>>

Tick ==
    /\ now < MaxTime
    /\ now' = now + 1
    /\ UNCHANGED <<tier, certs, enrollment, call>>

RegisterStep(p) ==
    \/ \E nid \in Nids : Register(p, nid) \/ CountQueue(p, nid)
    \/ \E nid \in Nids, t \in TokenIds : ConsumeToken(p, nid, t)
    \/ \E d \in PendingIds : Enqueue(p, d) \/ ReadPending(p, d)
    \/ Lookup(p) \/ DrawRegister(p) \/ GiveUp(p) \/ Save(p) \/ Approve(p)

SessionStep(p) ==
    \/ \E g \in Nids : RegisterGroup(p, g) \/ ReadGroup(p, g)
    \/ \E s \in SessionNids, ttl \in SessionTtls : DrawSession(p, s, ttl)
    \/ DrawGroup(p)

RenewStep(p) == DrawRenewal(p) \/ \E nid \in Nids : ReadForRenew(p, nid)

RevokeStep(p) ==
    \/ \E nid \in Nids : ReadForRevoke(p, nid) \/ RevokeChild(p, nid)
    \/ Mark(p) \/ ListChildren(p) \/ CascadeDone(p)

OperatorStep ==
    \/ \E t \in TokenIds : RevokeToken(t) \/ \E ttl \in TokenTtls : CreateToken(t, ttl)
    \/ \E d \in PendingIds : Reject(d)

Next ==
    \/ \E p \in Callers : RegisterStep(p) \/ SessionStep(p) \/ RenewStep(p) \/ RevokeStep(p)
    \/ OperatorStep
    \/ Tick

Spec == Init /\ [][Next]_vars

-----------------------------------------------------------------------------
(* Properties.                                                              *)

RevokedNow(nid) == Exists(nid) /\ GetByNid(nid).revoked

\* No call is about to save a certificate for the NID.
Quiet(nid) == \A p \in Callers : call[p].nid = nid => call[p].pc \notin {"serial", "save"}

\* Once store.revoke has marked a record of the NID, the record verify looks
\* at is a revoked one: the store's two notions of the latest record agree
\* (store.rs:128-153).
RevokeTakesEffect ==
    [][\A p \in Callers, nid \in Nids :
          call[p].pc = "mark" /\ call[p].nid = nid /\ call'[p].pc # "mark"
            => RevokedNow(nid)']_vars

\* A NID whose current certificate is revoked, and for which no issuance had
\* already passed its checks, is never issued a certificate again: register,
\* approve, issue_session and renew all refuse it (service.rs:104, 341, 550).
NeverReissued ==
    [][\A nid \in Nids : RevokedNow(nid) /\ Quiet(nid)
                            => RevokedNow(nid)' /\ Quiet(nid)']_vars

\* A revocation takes effect when the store has marked the record, and is
\* final (store.rs:128-153, service.rs:611-645).
RevocationFinal == RevokeTakesEffect /\ NeverReissued

\* When the revocation of a group returns, every session issued under the
\* group before it was marked has a revoked certificate, also the sessions
\* renewed or revoked while the cascade ran (service.rs:631-639).
CascadeComplete ==
    [][\A p \in Callers :
          call[p].pc = "cascade" /\ call'[p].pc = "idle"
            => \A i \in 1..call[p].marked :
                  records[i].parent = call[p].nid
                    => \E k \in Of(records[i].nid) : records[k].revoked]_vars

\* What an enrollment is admitted on is used once, under any interleaving: a
\* bootstrap token pays for one certificate at most, counting the registrations
\* in flight (ra.rs:171-188, service.rs:183-187); a pending registration is
\* approved only if a certificate was issued for its NID, also when it is
\* approved and rejected at the same time (router.rs:755-777); and the queue
\* outgrows its maximum at most by the requests that run at the same time, as
\* counting and enqueueing are two accesses (ra.rs:381-408).
EnrollmentSound ==
    /\ \A t \in TokenIds :
          Cardinality({i \in DOMAIN records : records[i].token = t})
            + Cardinality({p \in Callers : call[p].token = t}) <= 1
    /\ \A d \in PendingIds : pending[d].status = "approved" => Exists(pending[d].nid)
    /\ Cardinality(InQueue) <= MaxQueue + Cardinality(Callers) - 1

-----------------------------------------------------------------------------
(* What the documentation says.                                             *)

\* "Verify a NID: existence, expiry, revocation, and - for sessions - the
\* parent-group chain": with no call in flight, a session does not verify
\* when its group does not (service.rs:664-665).
SessionDiesWithGroup ==
    (\A p \in Callers : call[p] = Idle)
      => \A i \in DOMAIN records :
            records[i].role = "session" /\ ~Verifies(records[i].parent)
              => ~Verifies(records[i].nid)
=============================================================================
