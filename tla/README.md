# A TLA+ verification project for the NPS Rust SDK

This directory models the parts of the NPS Rust SDK whose correctness depends
on what happens *between* calls (reservations, races, cancellations, failures,
timers, lost messages), and the pure algorithms that other implementations of
the protocols must agree with. `PROJECT.json` maps every definition to the lines
it models, and lists the runs, their mutants, the findings, the hazards and the
theorems.

    tlc -workers 2 -config ContextStore.cfg MCContextStore    # a run
    tlapm ContextStoreProofs.tla                              # its proofs

## 1. The system

The SDK is a workspace of crates, one per protocol layer.

| Part | State it keeps | Operations | What is hard |
|---|---|---|---|
| **LLM context store** (`nps-nwp/context_store.rs`) | contexts, reservations, idempotency outcomes, one mutex | reserve, commit, abort, release, status, sweep | two-phase mutation with the provider running in between; expiry, tombstones, quota and retention at their limits |
| **Action Node host** (`action_server.rs`) | task records, idempotency cache, cancellation handles | invoke sync, async or streamed, status, cancel, deadline | four threads per call, unsynchronised reads and writes of the task status |
| **Stateful LLM provider** (`llm_action_server.rs`) | a `ReservationGuard` per call | complete, stream, status, release | cancel, deadline, panic, stream end and commit race for one reservation |
| **NOP orchestrator** (`orchestrator.rs`, `store.rs`, `callback.rs`) | node states and futures of a run, the task record | execute, cancel | K-of-N joins, retries, skips, early abort, drain, saga, task timer, cancel from outside |
| **NOP algorithms** (`validation.rs`, `condition.rs`, `portable_profile.rs`) | none | validate_dag, evaluate, evaluate_orchestration, evaluate_lease | cycles, precedence and short circuits, two implementations that must agree |
| **NOP cluster delegation** (`cluster_delegation.rs`) | cache of each cluster's owner | resolve, observe failover, invalidate | a lookup with the cache unlocked |
| **NIP certificate authority** (`nps-nip/ca`) | certificate table, serial sequence, bootstrap tokens, pending queue | register, approve, reject, register_group, issue_session, renew, revoke, verify | several store accesses per call and no transaction around them |
| **ACME server and client** (`nps-nip/acme`) | nonces, accounts, orders, challenges, certificates | newNonce, newAccount, newOrder, authz, challenge, finalize, certificate | lost answers, repeated requests, an order that goes backwards |
| **NIP verification** (`verifier.rs`, `revocation_policy.rs`, `phase3.rs`) | none | verify | order of steps, fail-open or fail-closed |
| **Anchor node** (`anchor_server.rs`, `anchor_client.rs`, `reputation_policy.rs`) | reputation caches, limiter slots, topology events | invoke, snapshot, subscribe | answers of the log that overtake each other; chunked streams |
| **Anchor cluster** (`anchor_fence.rs`, `nps-ndp`, `nps-ncp/failover.rs`) | ownership epoch, registries, connector | take ownership, observe epoch, announce, resolve, connect | takeovers between resolve, connect and write; late and repeated announcements |
| **Memory and Complex nodes** (`memory_server.rs`, `query.rs`, `complex_server.rs`) | paging cursors | query, stream, expand | two engines for one filter language; depth and cycles |
| **NCP transport, native server** (`nps-ncp`, `nps-nwp/native_server.rs`) | streams, encoding policy of a session | connect, accept, reject, send, recv, serve | framing, policies computed at both ends, peers that stall |
| **Inbound bridges** (`bridge_inbound/`) | the cached role of each remote node | MCP, A2A and gRPC requests | nodes that fail, hang or run an action nobody waits for, while a request scans them |
| Frames, codec, clients, telemetry, CA binary, conformance runner | little or none | translation, encoding, tooling | not modelled, section 6 |

How they interact: an Action Node host calls a provider in a worker thread; the
stateful LLM provider reserves a context in the context store before it calls
the inner provider and commits or aborts afterwards; a cancellation handle,
shared by the host and the provider, carries the signal. The orchestrator
validates a DAG, evaluates the conditions of its nodes, calls workers through
NWP, and resolves a cluster's owner through the delegation resolver. The CA
issues the identities all nodes present, by request or by ACME; the verifier
checks them. Anchors announce themselves to the NDP registries; the failover
connector asks a registry for the active Anchor and opens an NCP session to it,
in which frames carry the epoch that the Anchor's fence checks. A Bridge stands in
front of Memory, Action and Complex nodes, in its process or remote, and hands the
requests of foreign protocols on to them.

What makes each modelled part correct:

* *context store*: a mutation in flight owns its context until it is settled;
  no update is lost, no tombstone revived, no lock orphaned; quotas hold with
  allocations in flight; idempotency answers stay true;
* *action task*: reservation, guard, task status and answer agree; a cancelled
  call never commits later; everything settles although providers hang;
* *orchestrator*: a node runs only when its join allows it and runs once, a task
  fails only if no end node can succeed any more, compensation undoes exactly
  what completed and in reverse order, the loop ends;
* *certificate authority*: a revocation takes effect, is final and reaches a
  group's sessions; a token pays for one certificate, an approval means one;
* *ACME*: a certificate costs a challenge answer; no request takes effect twice;
  an undisturbed client gets its certificate;
* *Anchor cluster*: no Anchor writes in an epoch that is not its own or is known
  to have passed; registries neither split nor roll back;
* *Anchor node*: a report is heard within the cache's lifetime; no slot leaks but by
  a panic;
* *NCP*: both ends agree on policy and frame boundaries; no client waits for ever;
* *bridges*: what runs is what was asked for, once; the answer tells what happened;
* *algorithms*: each returns what a definition of another shape says.

## 2. The modules

| Module | Models | Uses |
|---|---|---|
| `ContextStore` | the context store | |
| `LlmActionTask` | Action Node host + stateful provider, with the context store as its promise | |
| `Orchestrator` | `execute`, `cancel`, task store, saga, callback | `DagValidation` |
| `CertAuthority` | CA service, router, stores, enrollment tiers | |
| `Acme` | ACME server, its client, another client, the wire | |
| `NcpHandshake` | frame headers, encoding policy, negotiation, as operators | |
| `NcpSession` | client, accept loop, sessions, NWP serving loop on byte streams | `NcpHandshake` |
| `NdpRegistry` | both NDP registries as values | |
| `EpochFence` | **abstract**: what the epoch fence promises | |
| `AnchorCluster` | ownership handles, registries, failover connector, composed | `NdpRegistry`, `EpochFence` |
| `AnchorNode` | `/invoke` behind reputation gate, budget and limiter | |
| `ClusterDelegation` | the delegation resolver | |
| `Bridge` | MCP, A2A and gRPC servers over local and remote nodes | |
| `DagValidation`, `Condition`, `PortableProfile`, `MemoryNode`, `ComplexNode`, `AnchorTopology`, `IdentVerifier` | pure algorithms as operators | |
| `MCAlgorithms` | calls each algorithm on a family of inputs; the reference definitions | the seven above |
| other `MC...` | the instances TLC checks | the module of that name |
| `ContextStoreProofs`, `LlmActionTaskProofs`, `OrchestratorProofs`, `AnchorClusterProofs`, `AcmeProofs`, `NcpSessionProofs` | the theorems of section 4 | the module of that name, `TLAPS` |
| `CertAuthorityProofs` | the same for certificates: issued, revoked, and verified | `CertAuthority`, `IdentVerifier`, `TLAPS` |
| `NodeHostProofs` | the same for the Anchor node and the Bridge | `AnchorNode`, `Bridge`, `TLAPS` |

A definition whose name ends in `_Faulty` is a mutant: a plausible bug in the
definition that follows it, used only to show that a property can fail.

### ContextStore

`contexts`, `reservations`, `idempotency` are the three hash maps; an absent key
is a `NoEntry` / `NoReservation` / `NoOutcome`. One mutex covers the store, so
every public call is one action: `Reserve` (with the idempotency answer, the
sweep, validation, version, binding, lock and quota checks in the code's order),
`CommitNew` (create, fork) and `CommitInPlace` (append, reset), `Abort`,
`Release`, `SweepExpired`; `Tick` is the clock. Every action that the code begins
with a sweep includes the sweep. Status queries are operators
(`StatusByContext`, `StatusByKey`). Abstractions: a turn of a transcript is named
by the reservation that produced it; a binding stands for its SHA-256
fingerprint, taken as injective; reservation ids (128 random bits) are never
redrawn; the clock is in seconds and does not run backwards.

### LlmActionTask

Each `llm.complete` call has up to four threads, each with a program counter:
the HTTP handler, the runner of an async task, the worker that calls the
provider, and the handler of a cancel request. One step is one access to shared
state: the idempotency cache, the task record, the handle map,
`ActionCancellation` (flag and listener list, in the code's order of swapping
and taking), the `ReservationGuard`, the channel, the context store. The inner
provider may answer, fail, panic or never return. A streamed call is offered a
source by its worker; after that the handler's own thread pulls the source and
writes the stream (`WriteStream`): the source may end, drop the error of a
refused frame, panic or block, and no deadline runs any more. The context store
appears as the promise that `ContextStore` proves (one reservation on the
context, one per key); the two modules are kept apart because the races here are
between the accesses, not inside the store.

### Orchestrator

A run of `execute()` is a process with a `pc` (save, preflight, schedule, wait,
drain, saga, callback); the futures of its nodes are `stage` and advance only
while the run awaits them, because `FuturesUnordered` is polled by the run
itself. `Schedule` is one pass of the loop: dooming nodes whose join cannot be
met, launching ready nodes in the order `ValidateDag` returned, up to
`max_concurrent_nodes`, and the break. `Timeout` drops the run at an await.
`cancel()` is an action on the task record. What workers answer, what conditions
evaluate to and whether a callback is accepted is the environment's choice; the
JSON of results, input mapping and aggregation is left out, since it does not
steer the control.

### CertAuthority

A request is a process; each store protects itself with a mutex and the
service holds none between accesses, so one step is one store access together
with the clock reading that precedes it. `ConsumeToken` and
`CountQueue`/`Enqueue` are the policies of tiers 2 and 3, `ReadPending` ...
`Approve` the approval, `ReadGroup`/`DrawSession` session issuance,
`ReadForRenew`/`DrawRenewal` renewal, `ReadForRevoke`, `Mark`, `ListChildren`,
`RevokeChild`, `CascadeDone` revocation; all issuances share `DrawSerial` and
`Save`. `Preferred` and `ToRevoke` are the two places where a store decides which
record of a NID is the latest; `Backend` selects `store.rs` or `sql_store.rs`.
Abstractions: a call refused at its first access is no step; what the service
refuses for its content (capabilities, scope, validity) is `GiveUp`; the group's
key lookup for the JWS is folded into the read of the group, as it can only
refuse; `register-x509` bypasses the enrollment gate as it does in the router;
session NIDs (time and 64 random bits) are fresh. Two fields are history and
steer nothing: `token` in a record, `marked` in a call.

### Acme

The server handles one request at a time on one thread: `HandleRequest` is one
whole handler, dispatched by path, the nonce consumed before anything else, as in
`verify_and_extract`. The wire is the set of requests sent and not forgotten: a
request may be answered after its client stopped waiting, twice, or never. An
`AcmeClient` is the call sequence of `issue_agent_cert`, with the nonce each
answer carries; the other client sends any request it can form. Keys and
signatures are external: a client is its account key. A CSR names a key of its own,
`csr_key`, any client's or none; `CsrAccepted` is what `handle_finalize` asks of it,
and the certificate is for that key.

### NcpHandshake and NcpSession

A stream is a sequence of frames and the number of bytes of the first one already
read, so that a reader that takes a wrong number of bytes is left in the middle of
a frame. `AcceptConnection`'s preamble and Hello steps have their timeouts; the
accept loop reads from one connection at a time, sessions run beside it. Peers are
clients, silent, foreign, stalled or odd. `Negotiate` is the server's profile,
both policies of a session are computed where the code computes them, and the
serving loop of `native_server.rs` reads headers as it does: it looks for the
extended header in the low bit of the encoding tier.

### AnchorCluster, NdpRegistry, EpochFence

`own` is `AnchorOwnership` of every Anchor (role, epochs, quorum), `profile` and
`plain` the two registries, `client` the connector between resolve, connect and
write. Elections are external: every epoch goes to one Anchor, which learns of it
late or never. Announcements arrive late, twice, out of order or not at all.
`EpochFence` says in three actions what this should amount to (`Grant`, `Learn`,
`AcceptWrite`); `FenceHolds` is the refinement, with `seen` mapped to the highest
epoch of each ownership handle.

### AnchorNode

A request walks through reputation (query cache, ban cache, a fetch from the log,
rule evaluation), budget, limiter, handler. The evaluation reads the clock once and
goes on with that reading when the log answers, which is why an older answer can
arrive in the cache after a newer one. A handler returns (`Finish`), with a result or
an error, or panics (`Panic`) and leaves its slot taken; `leaked` is history and counts
those.

### ClusterDelegation

`Resolve` is split where the code unlocks the cache: look into the cache, look up,
record the answer. Failovers and invalidations run beside it.

### Bridge

A request is a process: `Arrive` is everything up to the first question to a node
(path, method, authentication, body, direction gate, parameters). Then it scans the
nodes in their order: `Describe` asks for a role, which a remote node's backend
caches; `ReceiveManifest`, `ReceiveActions` are the two answers it may wait for, with
their failures; `EndOfScan` decides; `CallLocal`, or `CallRemote` and `ReceiveAnswer`,
is the call. A remote node runs the action in a step of its own (`NodeRuns`), also
when `DispatchTimeout` has dropped the request. The status mappings and the encoding
of tool names are operators. Abstractions: names are sequences of words and
separators without case; arguments and payloads are handed on unchanged and left
out; that a node which answers with a status below 500, or a dispatcher with an error
frame, did not run the action is assumed of the node. `pending`, `ran` and `disturbed`
belong to the nodes or are history.

### The algorithms

`MCAlgorithms` has one action that picks an algorithm and an argument and one that
returns its result; each invariant compares the result with a definition of a
different shape. `DagValidation`: Kahn's algorithm and the checks around it, against
cycles as sets each of whose members has a predecessor in the set; its loops are
recursive functions over positions (`KahnPasses`: the state of queue and counters after
so many passes; `ReleaseUpTo`: after so many edges of one pass), so that it can be
proved about. `MemoryNode`:
the filter evaluated row by row and translated to SQL syntax trees, paging by offset,
streams, and `handle_query`'s answer (`AnswerPage`), whose rows a token budget may cut. `ComplexNode`: expansion, trace, depth, child URL rules.
`Condition`: the recursive-descent evaluator over tokens, against the value of a
syntax tree printed with as few parentheses as its grammar needs.
`PortableProfile`: scripted orchestrations and leases. `AnchorTopology`: requests
written and read back, and NDJSON cut into chunks. `IdentVerifier`: the six steps,
against a table (`Failing`) of what makes a frame unacceptable.

## 3. The runs

| Run | Instance | Shows |
|---|---|---|
| `context_store` | 1 owner, 2 context ids, 3 reservations, 2 keys, 2 bindings, clock to 3 | all properties of the store |
| `llm_action_task` | a unary-or-streamed, async-or-sync call and a contending sync call with the same key or none; one cancel per task | guard, status and reservation agree and settle |
| `orchestrator` | every 3-node DAG along the declared order, a join and a diamond of 4, K-of-N, policies, retries, callbacks, free inputs, refused tasks; at most 2 nodes at once | scheduling, saga and termination |
| `cert_authority` | 2 requests at a time, one node, one group, two sessions, 3 serials, one token, queue of 1 | revocation, cascade, tokens, approvals, queue |
| `acme` | one `AcmeClient` with two calls, one other client, one fault | certificates are paid for, an undisturbed call succeeds |
| `ncp_session` | one client and one peer of any other kind, three Hellos | agreement of both ends, no client left waiting |
| `anchor_cluster` | 2 Anchors, 3 epochs, 2 announcements, 1 write, 1 frame in flight | the fence is implemented, no split, no rollback |
| `anchor_node` | 2 concurrent invocations of one agent, 2 log entries, 3 requests | reports are heard in time, slots balance |
| `algorithms` | every input of the seven families | the algorithms are exact |
| `bridge` | 2 requests of 29 kinds, 5 Bridges over 4 nodes, two of them remote | tools run as asked, posts are answered truly |
| `native_server`, `cluster_delegation` | as above, smaller | violations, section 5 |

### Properties

*ContextStore.* `ReservationExclusive`: lock and reservation point at each other,
and the context stays as the provider saw it, which is why `commit` may skip every
check. `WithinQuota` counts allocations in flight. `BusyIffHeld` relates
idempotency outcomes to reservations. `BoundedLifetime` covers the inherited ttl of
forks. `TranscriptCoherent`: no mixing of owners or bindings. `StatusTruthful` and
`ReceiptsUnique`: what clients are told stays true (given tombstones kept as long as
outcomes, as the defaults do). `HistoryFinal`: tombstones, versions and outcomes
only move as they may. The run has one owner; for several, what crosses owners is
covered by the theorems of section 4.

*LlmActionTask.* `GuardDecides`: the guard and the store agree at every moment, and
task status and cached answers with them. `NoCommitAfterCancel`. Liveness: `TaskSettles`,
`ReservationSettles`. The latter excludes the states `Abandoned` names, where the
code leaves a reservation to nobody: an async provider that panicked, a stream's
source that blocks, panics or drops the error of its refused terminal frame.

*Orchestrator.* `LaunchJustified`, `SagaReverses`, `FailureJustified` (a failed task
whose inputs follow its edges really has an end node that cannot succeed),
`NoNodeForgotten` (of nodes that run, and of records that must say so), `Terminates`.
Three more are stated for the proofs of section 4 and are no property of a run:
`SagaInOrder`, `NodesStayDecided`, `AttemptsCountUp`.

*CertAuthority.* `EnrollmentSound`: one certificate per token, an approval has its
certificate, the queue is beyond its bound by at most the calls under way.
`RevocationFinal`: a revocation takes effect, and once revoked with no issuance
past its checks a NID stays revoked (`RevokeTakesEffect` and `NeverReissued`). The
exclusion is needed: `renew` and `register` check first and save later, and an
issuance that began before the revocation undoes it. `CascadeComplete`: the cascade covers every session issued
before the group was marked, whatever runs beside it.

*Acme.* `CertPerAnswer`: no more certificates than met challenges, although a
challenge can be answered again and take its order back from "valid" to "ready";
the subject is the identifier of the order; each effect used up a nonce of its own.
The key is the one the CSR names, whoever's it is (section 5); what an `AcmeClient`
ordered is issued for its own key, because only its own requests reach its orders.
`CallSucceeds`.

*NcpSession.* `SessionsAgree`, `ClientsHeard`. *AnchorCluster.* `FenceHolds` (the
refinement), `NoSplit`, `NeverRollsBack`. *AnchorNode.* `ReportsHeard`,
`SlotsMatchRunning`: the slots taken are those of running handlers and of handlers that
panicked, so that no other way through `handle_invoke` leaks one or frees one twice.

*Bridge.* `ToolsRunAsAsked`: an ambiguous name is never guessed at, across nodes
asked one after another, as far as they answered; nothing runs twice.
`PostsAnswered`: every post ends although nodes hang, a success ran the action, a
refusal or a failure reported as content did not and never will, and lists are
complete.

*MCAlgorithms.* `AcceptsExactlyTheSound`. `EnginesAgree`, where value types fit the
schema: SQL selects the rows that row evaluation selects for the filter without its
parts that hold no condition (`Stripped`); that is the same filter unless an `$or` has
such a part or no part, and there the engines differ, in the way the property says.
A null in a row or in the filter may only make SQL drop rows; what only one engine
takes (a bare value, a condition without operators) SQL refuses. Left out: wildcards,
arguments of another type than the field, `$contains` with null. `PagesPartition`: a
client that follows the cursor through `handle_query` passes every row once and in
order, and is given each row but those a token budget cut off its page, which are in no
later answer; a page is cut only where one more row would not fit. The provider is the
SQL one; the crate leaves it to the host to put it behind the node. `ExpansionExact`.
`ConditionsEvaluate`: on well-formed conditions only. `TranscriptExact`: also which
conditions and mappings hold, judged on the script, and that only used-up attempts are
compensated: a task that ends by a condition, a mapping or a cancellation undoes
nothing, whatever its policy. `LeaseExclusive`, `TopologyRoundTrip`, `VerifierExact`.

### Why the bounds are enough

* *ContextStore*: three reservations allow a fork, a mutation of its parent and a
  third party at once; ttl 2 with a default of 3 exercises the clamp; tombstone
  and retention of 1 with a clock to 3 let a context expire, be forgotten and
  its id be reused.
* *LlmActionTask*: the races are within a call; the second call is there to contend
  for context and key. Only the first call chooses its mode.
* *Orchestrator*: three nodes are the least with a node behind a doomed node, four
  the least with a join in the middle; two retries reach the retry of a retry.
* *CertAuthority*: two requests make every pair of calls race; three serials hold
  a group, a session and a renewal, or a NID registered twice and renewed. Behind
  the token and queue tiers only registrations and approvals are sent
  (`Endpoints`), as the tiers gate nothing else; the open tier has every request.
* *Acme*: two calls make the second start with the nonce of the first; one lost
  answer is enough to part client and server; seven nonces are an
  order issued, its challenge answered again and a second finalization.
* *NcpSession*: a short header carries 2 bytes, so that payloads of 1 and 3 need
  both forms; two frames show a reader that lost its place; the second peer stands
  before the client in the backlog.
* *AnchorCluster*: three epochs allow a takeover and a return; skew, ttl and
  clock are such that an announcement expires and a newer one is out of order.
* *AnchorNode*: two evaluations in flight are what it takes for two answers to
  overtake; the clock passes both ttls.
* *Bridge*: two requests make first fetches race for a cache entry; two nodes with
  one action under two spellings that encode alike are the ambiguous case, a node
  with two actions and one that is not invokable the others; the Bridges differ in
  number of nodes, protocols declared and verifier.
* *Algorithms*: three edges hold a self-loop, a two-cycle and a repeated edge, and
  `MaxDagNodes` is 3, so that the limit is crossed; seven rows are more than two
  pages of the greatest size, and budgets lie below, at and above what a page costs;
  filters have empty parts in every place of an operator, alone and one level down; nets have cycles and depths beyond both limits; four
  lease events hold a claim, its expiry, a second claim and a late renewal.

### Fairness

`ContextStore`, `CertAuthority`, `AnchorCluster`, `AnchorNode` and `MCAlgorithms`
assume none: their properties are safety. `Orchestrator`: weak fairness of each run,
since the executor polls a woken task and every wait inside a run has a timer of its
own; the exception is the preflight probe, which ends by the task timer.
Cancellation is never owed. `LlmActionTask`: each thread steps when it can, timers
included; the inner provider and its source owe nothing, and no client owes a cancel
request. `NcpSession`: each end steps when it can, its timeouts included, and the
listener accepts each waiting connection in the end (strong fairness of `Accept`: the
backlog is a queue, and other connections disable the step only for a while); peers
that are no clients owe nothing. `Acme`: the client steps, and the server handles
the request a client waits for; nothing is assumed of requests given up.
`Bridge`: a request goes on when it can, the dispatch timer included, and a local
dispatcher, which is called synchronously, returns; remote nodes owe nothing, so
gRPC calls and the agent card, which have no timer, may wait for ever.
`ClusterDelegation` has none, its violated property is an action property; the
temporal property of `native_server` is refuted under `NcpSession`'s fairness.

## 4. What is proved

Eight `...Proofs` modules hold theorems that TLAPS checks. They hold for every value
of the constants the assumptions allow: any number of owners, contexts, calls,
Anchors, agents, nodes, requests and clients, and any value of the bounds that the
runs need, which only restrict when a step may be taken. Every safety invariant and
every action property of the runs of `ContextStore`, `LlmActionTask`, `Orchestrator`,
`CertAuthority`, `Acme`, `NcpSession`, `AnchorCluster`, `AnchorNode` and `Bridge` is a
theorem, some under the hypotheses named below. In each module of a state machine
`Inductive` (`Invariant` in `ContextStoreProofs`) is `Spec => []IndInv` and
`TypeCorrect` is `Spec => []TypeOK` (for `Bridge`, whose types are part of its
invariant, `BridgeInductive` alone); the others follow from `IndInv`, or from a step
that starts in it. Every `IndInv` was checked by TLC on the component's run before it
was proved.

### ContextStoreProofs

`Exclusive`, `Quota`, `Busy`, `Lifetime`, `Coherence`, `Unique`, `Truthful`: each
safety invariant of the run; `StepProperties`: `HistoryFinal`. Assumed: ids are finite
sets and `None` is none of them; requests are well formed; no option is zero, which is
what `LlmContextStoreOptions::normalized` guarantees.

The properties are not inductive on their own, so `IndInv` adds:
`HeldOK` (a held reservation names an owner, a key, a context where its operation
needs one, and a ttl in `1..MaxTtl`: `commit` builds the entry from these);
`LiveUntombed` (a live context has no tombstone deadline, so a sweep can not
remove it); `TurnsCoherent` (the copied transcript of a fork in flight is coherent
too, and its turns are closed reservations, so their owner and binding do not
change any more); `ReceiptsCovered` (the context of a retained receipt is still in
the store, at that version or a later one, and its tombstone outlives the
receipt: this is what makes a new version differ from every retained receipt).
One lemma per action shows `IndInv` preserved; what several actions share is
factored out: `SweepEntry`, `SweepMap`, `SweepOutcome` (what a sweep may change),
`QuotaMoves` and `QuotaShrinks` (cardinality arguments), `Closing`
(a reservation is settled), `Decaying` (time and sweeps only remove).

### LlmActionTaskProofs

`GuardDecidesHolds`, `NoCommitAfterCancelHolds`; and two that no run checks:
`RunnerLeavesNothingHolds` (a runner that ended left a terminal status and no
cancellation handle) and `TerminalFinalHolds` (a terminal status never changes).
Assumed: the modes of a call are modes, `NoCall` is no call.

The properties speak of the guard, the reservation and what was answered; whether they
survive a step depends on where each thread is. `GuardInv` says who is on its way to
the store when guard and reservation differ, `SignalInv` that while a guard is active
either a listener is installed or somebody is about to look at the flag, `OutcomeInv`
what the worker may still say, `TaskInv` which threads exist and what status each
leaves. Threads of one call do not touch another's part (`Same`), so the proof is one
call's.

### OrchestratorProofs

`LaunchJustifiedHolds`, `FailureJustifiedHolds`, `NodesStayDecidedHolds` and
`SagaInOrderHolds` hold with any number of concurrent runs of one task id.
`SagaReversesHolds`, `NoNodeForgottenHolds` and `AttemptsCountUpHolds` have the
hypothesis `AtMostOneRun`: two executions of one task id share its record and
overwrite each other's entries (section 5). `NoNodeForgottenHolds` also has
`MaxConcurrentNodes > 0`: with 0, which the options do not exclude, the loop launches
nothing, finds nothing in flight and reports the task as completed
(`orchestrator.rs:331`). Assumed of the tasks: the fields of a `TaskFrame` have their
types; nothing is assumed of the graph, which `ValidateDag` checks.

A first part is about `DagValidation`. `KahnExact`: on a well-formed dag of any size the
loop lists every node exactly when there is no cycle, and then in topological order; `ValidateDagExact`: `validate_dag`
accepts exactly the sound dags, which is what `AcceptsExactlyTheSound` checks on dags
of three nodes. Kahn's invariant (`KahnInv`): a counter is the number of edges from
nodes not yet processed, plus those of the current pass not yet walked; the order holds
exactly the nodes whose counter is zero. A set of nodes left over at the end has a
predecessor in the set for each member, which is a cycle; a cycle keeps every counter
on it above zero. The induction over positions is done with a set of the positions
where the claim holds, since the library's induction theorems take an operator.

`IndInv` of a run: only a validated task with a topological order passes the checks
(`Validated`); futures belong to a run that is in its loop or draining and to nodes
without a state (`Futures`); the inputs of a launched node met its K (`Launches`);
what `run_dag` has decided and when (`Decided`, `Fails`); what was compensated followed
by what still is to be compensated is what completed, in reverse order (`OnCourse`).
For the record, with one run: `HasRecord`, `ShowsNode`. `FailureJustified` needs that
a node doomed by its join dooms an end node behind it; that is an argument over the
longest path in the finite graph, with the topological order as the measure.

### CertAuthorityProofs

`EnrollmentSoundHolds`, `CascadeCompleteHolds`, `NeverReissuedHolds` for both stores;
`RevocationFinalHolds` with the hypothesis `Backend = "memory"`, since the SQL store
breaks its first part (`RevokeTakesEffect`, section 5). Assumed: the kinds of NIDs are
disjoint, `None` is no name and no role, options have their types, there is a request
and there are finitely many at a time.

A request acts on what it read some store accesses ago. `CallInv` says what stays true
of it: a NID that existed still exists, an approval's pending entry still names its
NID, the records found before a group was marked are still there, and of the sessions
among them those not yet revoked are the ones still to be revoked (`Cascaded`). `TokensHeldOnce` counts
tokens held by requests and by certificates together, because one moves to the other at
`Save`; `QueueBounded` counts those in the queue and those that have counted it and not
yet joined: this sum, not the queue, is what stays bounded.

A second part is about `IdentVerifier`. `VerifyExact`: for every frame, options and
context the verdict is `VerdictExact`, that is, valid exactly when none of the six steps
taken alone fails, and else the first that does; run `algorithms` checks the same formula
as `VerifierExact` on a family of inputs. `RevokedRefused`: a certificate known to be
revoked to any configured source is not accepted, with or without `ocsp_fail_open`.
Assumed (`VerifierInput`): the fields have their types, and the revocation callback, which
the code calls with no check of its result, reports failures of step 4. Each step is
shown to fail exactly when `Failing` says so (`Step1` to `Step6`); for step 4 the results
of the sources are a sequence whose failures all say step 4, put together with `Report`;
for step 6 `PathMatches` shows that comparing prefixes and separators finds exactly the
patterns that are a path or one of its parents with `/*` behind it, but for case.

### AcmeProofs

`CertPerAnswerHolds`. Assumed: no client is of both kinds, and there is an identifier
to order. Nothing is assumed of the key in a CSR: the server certifies any, and that a
certificate for an order of an `AcmeClient` has its key is proved from what that client
sends and from `OwnsOrder`, which turns everyone else's requests for the order away.

`OrderInv`: while an order is "ready" its certificates are strictly fewer than the
answers to its challenge; a certificate uses up the difference, another answer makes
one more. `PaidFor` compares what the requests of a client brought about with the nonces
it has used up; for an answered challenge to count as one effect, the answers of an
order must not exceed the nonces handed to its owner, also in `OrderInv`. `ClientInv`:
an `AcmeClient` has one request out at a time, and only in a call, which is why a reply
is of the stage the client is in. `RequestOK`: a request carries a nonce of its sender.

### NcpSessionProofs

`SessionsAgreeHolds`, and `SessionsNegotiatedHolds`, which no run checks: only a client
whose Hello was admitted gets a session, and both its ends have the policy negotiated for
that Hello. Assumed (`NcpSessionAssumption`): clients are peers, frame lengths and limits are
numbers, a Hello lists encodings by name.

`IndInv` says of each connection, for the phase it is in, what its two streams still
hold. `Opened`: the peer's kind and the Hello it sent. `Quiet`: nothing comes down before
the Hello is answered. `Admitting`: while the accept loop is at the preamble or the Hello,
the stream up holds the opening from there on. `Handed`: a connection handed to the caller
is a client's, with only requests behind its Hello. `CapsFirst`: the CapsFrame comes before
every other frame down and stands for the policy the server has taken on. `CapsStable`: it
comes in a stable encoding. `UpAllowed`, `Agreed`: frames begin where they are read, in
encodings of the policy, and both ends have one policy. That readers stay on frame
boundaries is arithmetic on byte counts: `BytesOf` is a recursive function of the stream;
`SumsExist` shows that it is defined, `Bytes` that it grows, `Finished` that a read of so
many bytes consumes exactly the first frames.

### AnchorClusterProofs

`OwnerIsCurrentHolds`, `NoSplitHolds`, `NeverRollsBackHolds` and the refinement
`FenceRefined`: `Spec => FenceHolds`, with `seen` mapped to the highest epoch each
handle has observed; every action is an action of `EpochFence` or a stutter.
Assumed: `Ttl` and `MaxAttempts` are positive. `IndInv`: epochs carried by frames, the
client and announcements were handed out (`Traffic`, `Announcements`); an Anchor numbers
its announcements in the order of its epochs, which is what makes the sequence number
of a registry a bound on the epoch it lists; registries list what was announced
(`Registries`).

### NodeHostProofs

A first part is about `AnchorNode`: `ReportsHeardHolds`, `SlotsMatchRunningHolds`.
Assumed: finitely many tasks, rules with their types. `IndInv`: an answer is the
log as it was at some time (`Prefix`) and holds every report older than the evaluation
(`Answers`); therefore what is cached holds every
report that is `CacheTtl` older than its expiry (`Caches`), whichever answer was written
last.

The second part is about `Bridge`: `ToolsRunAsAskedHolds`, with any number of
requests, nodes and tools. Assumed: a Bridge fronts at least one node and only nodes
that are there; roles are roles and action names are names; a gRPC input has one of
the four methods of the service, and a request for the agent card has none.
`ToolsRunAsAsked` speaks of what ran and of all the tools there are, and a scan sees one
node at a time, with steps of other requests between, so it says nothing of the steps
before the call. `BridgeInv` does: `Learnt` says of a scan at node `i` that what it
has collected are candidates, and, as long as the nodes passed showed themselves, that
no tool of theirs was to be taken at once, that each of their candidates was collected,
and that two of them make the collection longer than one. At the end of the scan one
candidate is therefore the only one (`OnlyCandidate`). `RunInv` ties the call, and the
action a remote node may still run when nobody waits for it any more, to the tool that
was chosen. What a node adds is `LearntMore`, which rests on what `Collect`, a recursive
function, returns (`CollectFacts`, by induction over its stages). A step concerns one
request (`StepKept`); the configuration never changes (`HostKept`).

### What stays with TLC

* Liveness under fairness, which this prover can not do: `Terminates`, `TaskSettles`,
  `ReservationSettles`, `ClientsHeard`, `CallSucceeds`, `PostsAnswered`.
* What a recursion over data computes (the condition evaluator, expansion, transcripts,
  filters, topology streams), for which the prover has no induction: `MCAlgorithms`
  except `AcceptsExactlyTheSound` and `VerifierExact`, whose algorithms are proved exact
  above.
* The two violations of section 5 need a counterexample, not a proof.

## 5. Findings

Shown by a run:

* `native_server`: the NWP serving loop tests the lowest bit of the flags for the
  extended header, where every writer sets the highest. That bit is the encoding tier's,
  so an ordinary MsgPack frame, with its header of 4 bytes, is taken for an extended one
  and never answered: the loop waits for four bytes more. The run sends only such frames.
  (An extended MsgPack frame is read correctly, by accident.)
* `cluster_delegation`: an answer looked up before a failover overwrites the newer
  owner in the cache that should "only ever move forward".

Stated in a module, and refuted by TLC when checked there with the constants of
the component's run: `Orchestrator.AllNodesDone` (a node that is doomed while nothing
is in flight ends the loop; the nodes behind it get no state and the task is reported
as completed), `CertAuthority.SessionDiesWithGroup` (`renew` drops role and parent),
`CertAuthority.RevokeTakesEffect` with the SQL store (two notions of "latest"),
`Orchestrator.CancelSticks` (`execute()` overwrites a cancellation),
`LlmActionTask.CancelledMeansAborted` (the status is written before the worker is
signalled), `Acme.RetrySucceeds` (a call after a lost answer starts with a spent
nonce), `Bridge.ErrorMeansNotRun` (an answer lost after the node ran the tool is
reported as an error that says it did not), `Bridge.CachedOnce` (of two first fetches
the later one decides, also when it failed).

Seen while modelling (each with its line in `PROJECT.json`): two `execute()` calls
with one task id, `max_concurrent_nodes = 0` (nothing is launched and the task is
reported as completed), the states of `Abandoned`, OCSP answers classed as transport
failures, orders without a tie-break under paging, `resumed: true` of a subscription
that replays everything, chunk boundaries inside a character, an agent card built
without the dispatch timeout; a certificate's key, which is the CSR's and is compared
with no other, under a CSR whose signature nobody verifies; a limiter slot kept by a
handler that panics; an `$or` with an empty part or none, which the two query engines
read differently; and rows that a token budget cuts off a page whose cursor goes on
behind them. The last four are steps of the models, and the properties `CertPerAnswer`,
`SlotsMatchRunning`, `EnginesAgree` and `PagesPartition` say how far they reach.

## 6. Not modelled

* Cryptography (Ed25519, X.509, JWS, what is inside a CSR
  but its name and key, Merkle proofs), codecs (MessagePack, JSON,
  the patch format), base64, SQL text and quoting, HTTP plumbing, DNS: library calls
  and formatting. Their results appear as what the code distinguishes (verifies or
  not, parses or not).
* `AnchorFrameCache`, frame registries, wire types, constants, telemetry: tables and
  single-owner maps behind `&mut self`, nothing that a sequence of calls could break
  in a way a unit test would not see.
* The CA server binary and the conformance runner: HTTP routes over SQLite, and test
  tooling.
* Within modelled parts: request parsing, manifests and callback URL checks of the
  Action Node host; input mapping and aggregation of results; callback HMAC,
  delegation scopes and spawn specs of the portable profile; read-only endpoints of
  the CA and errors of a real database; task store implementations other than the
  in-memory one; the stdio loop and the extraction of arguments of the bridges, and
  `bridge.rs`, which declares types only.
