---------------------------- MODULE LlmActionTask ----------------------------
(***************************************************************************)
(* nps-nwp: the Action Node host (action_server.rs) running a stateful     *)
(* llm.complete (llm_action_server.rs) on one context.                     *)
(*                                                                         *)
(* A call is handled by up to four threads: the handler that answers the   *)
(* HTTP request, the runner that watches an async task, the worker that    *)
(* calls the provider, and the handler of a system.task.cancel for it.     *)
(* They share the task store, the idempotency cache, the map of            *)
(* cancellation handles, the call's ActionCancellation, and the            *)
(* ReservationGuard that decides whether the context reservation is        *)
(* committed or aborted. One step is one access to shared state.           *)
(*                                                                         *)
(* The context store appears as its promise (module ContextStore): one     *)
(* reservation at a time on the context, one per idempotency key, settled  *)
(* by commit or abort. All calls name the same action, context and params. *)
(***************************************************************************)
EXTENDS Naturals, FiniteSets

CONSTANTS Calls,   \* llm.complete requests
          Modes,   \* for each call, how it may be made: a set of Mode
          Keys,    \* idempotency keys
          NoCall   \* no entry in the idempotency cache

ASSUME NoCallAssumption == NoCall \notin Calls

\* async_ and the stream flag of the params; both at once are refused.
Mode == {"sync", "async", "stream"}

ASSUME ModesAssumption == Modes \in [Calls -> SUBSET Mode]

VARIABLES
    mode,       \* how the call is made
    key,        \* ParsedActionFrame.idempotency_key
    idem,       \* the idempotency cache: the call whose outcome is replayed
    status,     \* ActionTaskRecord.status of the call's task
    handle,     \* the call has an entry in task_cancellations
    handler,    \* program counters of the four threads
    runner,
    worker,
    canceller,
    outcome,    \* what the worker is going to send
    channel,    \* the mpsc channel between worker and runner or handler; for a
                \* stream, then how write_stream ended
    cancelled,  \* CancellationState.cancelled
    listener,   \* the abort listener is in CancellationState.listeners
    firing,     \* how far the one cancel() that won the swap has got
    guard,      \* ReservationGuard.state
    resv        \* the reservation in the context store

vars == <<mode, key, idem, status, handle, handler, runner, worker, canceller,
          outcome, channel, cancelled, listener, firing, guard, resv>>

request == <<mode, key>>
host    == <<idem, status, handle, handler>>
signal  == <<cancelled, listener, firing>>
context == <<guard, resv>>
work    == <<worker, outcome, channel>>

Terminal == {"completed", "failed", "cancelled"}

\* Every thread is at a point of its code, and the status, the guard and the
\* channel carry values the code can give them (action_server.rs:187-245,
\* 340-352; llm_action_server.rs:690-757).
TypeOK ==
    /\ mode \in [Calls -> Mode]
    /\ key \in [Calls -> Keys]
    /\ idem \in [Keys -> Calls \cup {NoCall}]
    /\ status \in [Calls -> {"absent", "pending", "running"} \cup Terminal]
    /\ handle \in [Calls -> BOOLEAN]
    /\ handler \in [Calls -> {"lookup", "create", "key", "insert", "spawn", "recv",
                              "write", "firing", "cache", "done"}]
    /\ runner \in [Calls -> {"idle", "start", "loop", "firing", "complete", "fail",
                             "cleanup", "done"}]
    /\ worker \in [Calls -> {"idle", "reserve", "register", "registerAbort", "inner",
                             "check", "settle", "source", "recheck", "commit", "committing",
                             "abort", "aborting", "send", "done", "panicked"}]
    /\ canceller \in [Calls -> {"idle", "store", "signal", "firing", "done"}]
    /\ outcome \in [Calls -> {"none", "ok", "stopped", "err", "dropped"}]
    /\ channel \in [Calls -> {"empty", "ok", "stopped", "err", "disconnected",
                              "stream", "dropped"}]
    /\ cancelled \in [Calls -> BOOLEAN]
    /\ listener \in [Calls -> BOOLEAN]
    /\ firing \in [Calls -> {"no", "swapped", "taken", "aborting", "fired"}]
    /\ guard \in [Calls -> {"none", "active", "committing", "committed", "aborted"}]
    /\ resv \in [Calls -> {"none", "held", "committed", "aborted"}]

Init ==
    /\ mode \in {m \in [Calls -> Mode] : \A c \in Calls : m[c] \in Modes[c]}
    /\ key \in [Calls -> Keys]
    /\ idem = [k \in Keys |-> NoCall]
    /\ status = [c \in Calls |-> "absent"]
    /\ handle = [c \in Calls |-> FALSE]
    /\ handler = [c \in Calls |-> "lookup"]
    /\ runner = [c \in Calls |-> "idle"]
    /\ worker = [c \in Calls |-> "idle"]
    /\ canceller = [c \in Calls |-> "idle"]
    /\ outcome = [c \in Calls |-> "none"]
    /\ channel = [c \in Calls |-> "empty"]
    /\ cancelled = [c \in Calls |-> FALSE]
    /\ listener = [c \in Calls |-> FALSE]
    /\ firing = [c \in Calls |-> "no"]
    /\ guard = [c \in Calls |-> "none"]
    /\ resv = [c \in Calls |-> "none"]

-----------------------------------------------------------------------------
(* ActionCancellation (action_server.rs:187-245).                           *)

\* Definitions whose name ends in _Faulty are mutations used to confirm that
\* the properties can fail.

\* cancel() up to the swap: the winner goes on to the listeners and comes back
\* to its pc when they have run; a second caller returns at once.
Swap(c) ==
    /\ cancelled' = [cancelled EXCEPT ![c] = TRUE]
    /\ firing' = [firing EXCEPT ![c] = IF cancelled[c] THEN @ ELSE "swapped"]
    /\ UNCHANGED listener

\* Where a thread that has called cancel() continues.
AfterSwap(c, next) == IF cancelled[c] THEN next ELSE "firing"

\* The winner takes the registered listeners under the lock.
TakeListeners(c) ==
    /\ firing[c] = "swapped"
    /\ firing' = [firing EXCEPT ![c] = IF listener[c] THEN "taken" ELSE "fired"]
    /\ listener' = [listener EXCEPT ![c] = FALSE]
    /\ UNCHANGED <<request, host, runner, canceller, work, cancelled, context>>

\* The listener is guard.abort(): the compare-exchange, then the store's abort.
RunListener(c) ==
    /\ firing[c] = "taken"
    /\ guard' = [guard EXCEPT ![c] = IF @ = "active" THEN "aborted" ELSE @]
    /\ firing' = [firing EXCEPT ![c] = IF guard[c] = "active" THEN "aborting" ELSE "fired"]
    /\ UNCHANGED <<request, host, runner, canceller, work, cancelled, listener, resv>>

ListenerAborts(c) ==
    /\ firing[c] = "aborting"
    /\ resv' = [resv EXCEPT ![c] = "aborted"]
    /\ firing' = [firing EXCEPT ![c] = "fired"]
    /\ UNCHANGED <<request, host, runner, canceller, work, cancelled, listener, guard>>

-----------------------------------------------------------------------------
(* handle_invoke (action_server.rs:783-1089), after validation and           *)
(* authorization, which change nothing.                                     *)

\* The idempotency lookup; a hit is replayed. Otherwise an async call creates a
\* task and a sync call starts its worker.
Lookup(c) ==
    /\ handler[c] = "lookup"
    /\ IF idem[key[c]] # NoCall
       THEN handler' = [handler EXCEPT ![c] = "done"] /\ UNCHANGED worker
       ELSE IF mode[c] = "async"
       THEN handler' = [handler EXCEPT ![c] = "create"] /\ UNCHANGED worker
       ELSE /\ handler' = [handler EXCEPT ![c] = "recv"]
            /\ worker' = [worker EXCEPT ![c] = "reserve"]
    /\ UNCHANGED <<request, idem, status, handle, runner, canceller, outcome,
                   channel, signal, context>>

CreateTask(c) ==
    /\ handler[c] = "create"
    /\ status' = [status EXCEPT ![c] = "pending"]
    /\ handler' = [handler EXCEPT ![c] = "key"]
    /\ UNCHANGED <<request, idem, handle, runner, canceller, work, signal, context>>

\* try_store keeps a live entry; its answer is ignored.
TryStore(k, c) == idem' = [idem EXCEPT ![k] = IF @ = NoCall THEN c ELSE @]

StoreKey(c) ==
    /\ handler[c] = "key"
    /\ TryStore(key[c], c)
    /\ handler' = [handler EXCEPT ![c] = "insert"]
    /\ UNCHANGED <<request, status, handle, runner, canceller, work, signal, context>>

InsertHandle(c) ==
    /\ handler[c] = "insert"
    /\ handle' = [handle EXCEPT ![c] = TRUE]
    /\ handler' = [handler EXCEPT ![c] = "spawn"]
    /\ UNCHANGED <<request, idem, status, runner, canceller, work, signal, context>>

SpawnRunner(c) ==
    /\ handler[c] = "spawn"
    /\ runner' = [runner EXCEPT ![c] = "start"]
    /\ handler' = [handler EXCEPT ![c] = "done"]
    /\ UNCHANGED <<request, idem, status, handle, canceller, work, signal, context>>

\* The sync handler receives the worker's result; only a success is cached.
SyncReceive(c) ==
    /\ handler[c] = "recv"
    /\ channel[c] \in {"ok", "stopped", "err"}
    /\ handler' = [handler EXCEPT ![c] = IF channel[c] = "err" THEN "done" ELSE "cache"]
    /\ UNCHANGED <<request, idem, status, handle, runner, canceller, work, signal, context>>

\* A stream is written by the handler's own thread: the source runs there, and
\* the deadline no longer applies.
WriteStream(c) ==
    /\ handler[c] = "recv" /\ channel[c] = "stream"
    /\ handler' = [handler EXCEPT ![c] = "write"]
    /\ worker' = [worker EXCEPT ![c] = "source"]
    /\ UNCHANGED <<request, idem, status, handle, runner, canceller, outcome,
                   channel, signal, context>>

\* Only a stream that ended with a terminal frame without an error is cached.
StreamWritten(c) ==
    /\ handler[c] = "write" /\ channel[c] # "stream"
    /\ handler' = [handler EXCEPT ![c] = IF channel[c] = "ok" THEN "cache" ELSE "done"]
    /\ UNCHANGED <<request, idem, status, handle, runner, canceller, work, signal, context>>

SyncCache(c) ==
    /\ handler[c] = "cache"
    /\ TryStore(key[c], c)
    /\ handler' = [handler EXCEPT ![c] = "done"]
    /\ UNCHANGED <<request, status, handle, runner, canceller, work, signal, context>>

\* The deadline passes first, or the worker is gone: cancel, then 504 or 500.
SyncGivesUp(c) ==
    /\ handler[c] = "recv"
    /\ channel[c] \in {"empty", "disconnected"}
    /\ Swap(c)
    /\ handler' = [handler EXCEPT ![c] = AfterSwap(c, "done")]
    /\ UNCHANGED <<request, idem, status, handle, runner, canceller, work, context>>

SyncReplies(c) ==
    /\ handler[c] = "firing" /\ firing[c] = "fired"
    /\ handler' = [handler EXCEPT ![c] = "done"]
    /\ UNCHANGED <<request, idem, status, handle, runner, canceller, work, signal, context>>

\* A cache entry outlives its ttl.
ExpireKey(k) ==
    /\ idem[k] # NoCall
    /\ idem' = [idem EXCEPT ![k] = NoCall]
    /\ UNCHANGED <<request, status, handle, handler, runner, canceller, work, signal, context>>

-----------------------------------------------------------------------------
(* The task store's terminal states are final (action_server.rs:424-466).   *)

Settle(c, st) == status' = [status EXCEPT ![c] = IF @ \in Terminal THEN @ ELSE st]

-----------------------------------------------------------------------------
(* spawn_async_task (action_server.rs:1091-1163): the runner thread.        *)

\* try_transition(pending, running), then the worker starts; a task cancelled
\* before that never runs.
RunnerStarts(c) ==
    /\ runner[c] = "start"
    /\ IF status[c] = "pending"
       THEN /\ status' = [status EXCEPT ![c] = "running"]
            /\ runner' = [runner EXCEPT ![c] = "loop"]
            /\ worker' = [worker EXCEPT ![c] = "reserve"]
       ELSE runner' = [runner EXCEPT ![c] = "cleanup"] /\ UNCHANGED <<status, worker>>
    /\ UNCHANGED <<request, idem, handle, handler, canceller, outcome, channel, signal, context>>

RunnerSeesCancel(c) ==
    /\ runner[c] = "loop" /\ cancelled[c]
    /\ runner' = [runner EXCEPT ![c] = "cleanup"]
    /\ UNCHANGED <<request, host, canceller, work, signal, context>>

RunnerDeadline_Faulty(c) ==      \* a blocking recv(): noticed with the result
    /\ runner[c] = "loop" /\ channel[c] # "empty"
    /\ Swap(c)
    /\ runner' = [runner EXCEPT ![c] = AfterSwap(c, "fail")]
    /\ UNCHANGED <<request, host, canceller, work, context>>

\* The deadline passes: cancel(), then fail().
RunnerDeadline(c) ==
    /\ runner[c] = "loop"
    /\ Swap(c)
    /\ runner' = [runner EXCEPT ![c] = AfterSwap(c, "fail")]
    /\ UNCHANGED <<request, host, canceller, work, context>>

RunnerDeadlineFired(c) ==
    /\ runner[c] = "firing" /\ firing[c] = "fired"
    /\ runner' = [runner EXCEPT ![c] = "fail"]
    /\ UNCHANGED <<request, host, canceller, work, signal, context>>

\* A result arrives and is stored unless the task has been cancelled.
RunnerReceives(c) ==
    /\ runner[c] = "loop"
    /\ channel[c] \in {"ok", "stopped", "err"}
    /\ runner' = [runner EXCEPT ![c] = IF cancelled[c] THEN "cleanup"
                                       ELSE IF channel[c] = "err" THEN "fail"
                                       ELSE "complete"]
    /\ UNCHANGED <<request, host, canceller, work, signal, context>>

\* The worker died: the task fails, and cancel() is not called.
RunnerDisconnected(c) ==
    /\ runner[c] = "loop"
    /\ channel[c] = "disconnected"
    /\ runner' = [runner EXCEPT ![c] = "fail"]
    /\ UNCHANGED <<request, host, canceller, work, signal, context>>

RunnerSettles(c) ==
    /\ runner[c] \in {"complete", "fail"}
    /\ Settle(c, IF runner[c] = "complete" THEN "completed" ELSE "failed")
    /\ runner' = [runner EXCEPT ![c] = "cleanup"]
    /\ UNCHANGED <<request, idem, handle, handler, canceller, work, signal, context>>

RunnerCleanup(c) ==
    /\ runner[c] = "cleanup"
    /\ handle' = [handle EXCEPT ![c] = FALSE]
    /\ runner' = [runner EXCEPT ![c] = "done"]
    /\ UNCHANGED <<request, idem, status, handler, canceller, work, signal, context>>

-----------------------------------------------------------------------------
(* handle_task_cancel (action_server.rs:1232-1298). A client knows the task  *)
(* id from the response or from a replay of the idempotency key.            *)

CancelLookup(c) ==
    /\ canceller[c] = "idle"
    /\ handler[c] \in {"insert", "spawn", "done"}
    /\ status[c] \in {"pending", "running"}
    /\ canceller' = [canceller EXCEPT ![c] = "store"]
    /\ UNCHANGED <<request, host, runner, work, signal, context>>

CancelStore(c) ==
    /\ canceller[c] = "store"
    /\ Settle(c, "cancelled")
    /\ canceller' = [canceller EXCEPT ![c] = "signal"]
    /\ UNCHANGED <<request, idem, handle, handler, runner, work, signal, context>>

CancelSignal(c) ==
    /\ canceller[c] = "signal"
    /\ IF handle[c]
       THEN /\ Swap(c)
            /\ canceller' = [canceller EXCEPT ![c] = AfterSwap(c, "done")]
       ELSE /\ canceller' = [canceller EXCEPT ![c] = "done"]
            /\ UNCHANGED signal
    /\ UNCHANGED <<request, host, runner, work, context>>

CancelReplies(c) ==
    /\ canceller[c] = "firing" /\ firing[c] = "fired"
    /\ canceller' = [canceller EXCEPT ![c] = "done"]
    /\ UNCHANGED <<request, host, runner, work, signal, context>>

-----------------------------------------------------------------------------
(* The worker: complete() and execute_reserved() for a unary call            *)
(* (llm_action_server.rs:204-386) with ReservationGuard (694-757).           *)

Available(c) ==
    \A d \in Calls \ {c} :
        resv[d] # "held" /\ (key[d] = key[c] => resv[d] = "none")

Goto(c, next) == worker' = [worker EXCEPT ![c] = next]

Reserve(c) ==
    /\ worker[c] = "reserve" /\ Available(c)
    /\ resv' = [resv EXCEPT ![c] = "held"]
    /\ guard' = [guard EXCEPT ![c] = "active"]
    /\ Goto(c, "register")
    /\ UNCHANGED <<request, host, runner, canceller, outcome, channel, signal>>

\* The store refuses: busy, a version conflict, the quota, a used key, ...
ReserveRefused(c) ==
    /\ worker[c] = "reserve"
    /\ outcome' = [outcome EXCEPT ![c] = "err"]
    /\ Goto(c, "send")
    /\ UNCHANGED <<request, host, runner, canceller, channel, signal, context>>

Register_Faulty(c) ==            \* does not look again under the lock
    /\ worker[c] = "register"
    /\ listener' = [listener EXCEPT ![c] = TRUE]
    /\ Goto(c, "inner")
    /\ UNCHANGED <<request, host, runner, canceller, outcome, channel, cancelled,
                   firing, context>>

\* on_cancel(): registers the abort, or runs it when cancelled already.
Register(c) ==
    /\ worker[c] = "register"
    /\ IF cancelled[c]
       THEN /\ guard' = [guard EXCEPT ![c] = "aborted"]
            /\ Goto(c, "registerAbort")
            /\ UNCHANGED listener
       ELSE /\ listener' = [listener EXCEPT ![c] = TRUE]
            /\ Goto(c, "inner")
            /\ UNCHANGED guard
    /\ UNCHANGED <<request, host, runner, canceller, outcome, channel, cancelled,
                   firing, resv>>

\* The inner provider answers with a result or an error, or panics and takes
\* the channel's sender with it. It may also never return.
InnerReturns(c, answer) ==
    /\ worker[c] = "inner"
    /\ Goto(c, IF answer = "err" THEN "abort" ELSE "check")
    /\ outcome' = [outcome EXCEPT ![c] = answer]
    /\ UNCHANGED <<request, host, runner, canceller, channel, signal, context>>

InnerPanics(c) ==
    /\ worker[c] = "inner"
    /\ Goto(c, "panicked")
    /\ channel' = [channel EXCEPT ![c] = "disconnected"]
    /\ UNCHANGED <<request, host, runner, canceller, outcome, signal, context>>

\* The two looks at is_cancelled(), after the provider and before the commit.
CheckCancelled(c) ==
    /\ worker[c] \in {"check", "recheck"}
    /\ outcome' = [outcome EXCEPT ![c] = IF cancelled[c] THEN "err" ELSE @]
    /\ Goto(c, IF cancelled[c] THEN "abort"
               ELSE IF worker[c] = "check" THEN "settle" ELSE "commit")
    /\ UNCHANGED <<request, host, runner, canceller, channel, signal, context>>

\* The payload is judged: an official response goes on to the commit
\* authorization; stop_reason = error is answered with "stopped"; anything
\* malformed or unauthorized is an error.
JudgePayload(c, verdict) ==
    /\ worker[c] = "settle" /\ mode[c] # "stream"
    /\ outcome' = [outcome EXCEPT ![c] = verdict]
    /\ Goto(c, IF verdict = "ok" THEN "recheck" ELSE "abort")
    /\ UNCHANGED <<request, host, runner, canceller, channel, signal, context>>

\* A streaming call hands the frames over with the guard still active.
OfferStream(c) ==
    /\ worker[c] = "settle" /\ mode[c] = "stream"
    /\ channel' = [channel EXCEPT ![c] = "stream"]
    /\ Goto(c, "done")
    /\ UNCHANGED <<request, host, runner, canceller, outcome, signal, context>>

\* It must: a provider that answers a streaming call without one has failed.
NoStream(c) ==
    /\ worker[c] = "settle" /\ mode[c] = "stream"
    /\ outcome' = [outcome EXCEPT ![c] = "err"]
    /\ Goto(c, "abort")
    /\ UNCHANGED <<request, host, runner, canceller, channel, signal, context>>

GuardCommit_Faulty(c) ==         \* a plain store instead of compare_exchange
    /\ worker[c] = "commit"
    /\ guard' = [guard EXCEPT ![c] = "committing"]
    /\ Goto(c, "committing")
    /\ UNCHANGED <<request, host, runner, canceller, outcome, channel, signal, resv>>

\* commit(): ACTIVE -> COMMITTING or an error.
GuardCommit(c) ==
    /\ worker[c] = "commit"
    /\ IF guard[c] = "active"
       THEN /\ guard' = [guard EXCEPT ![c] = "committing"]
            /\ Goto(c, "committing")
            /\ UNCHANGED outcome
       ELSE /\ outcome' = [outcome EXCEPT ![c] = "err"]
            /\ Goto(c, "send")
            /\ UNCHANGED guard
    /\ UNCHANGED <<request, host, runner, canceller, channel, signal, resv>>

\* The store answers; the guard's last write is part of the step, as every
\* other thread only tests it for ACTIVE.
StoreCommits(c) ==
    /\ worker[c] = "committing"
    /\ resv' = [resv EXCEPT ![c] = "committed"]
    /\ guard' = [guard EXCEPT ![c] = "committed"]
    /\ Goto(c, "send")
    /\ UNCHANGED <<request, host, runner, canceller, outcome, channel, signal>>

\* The store refuses the commit: the reservation is aborted instead.
StoreCommitFails(c) ==
    /\ worker[c] = "committing"
    /\ resv' = [resv EXCEPT ![c] = "aborted"]
    /\ guard' = [guard EXCEPT ![c] = "aborted"]
    /\ outcome' = [outcome EXCEPT ![c] = "err"]
    /\ Goto(c, "send")
    /\ UNCHANGED <<request, host, runner, canceller, channel, signal>>

\* abort(): ACTIVE -> ABORTED, then the store; a no-op in any other state.
GuardAbort(c) ==
    /\ worker[c] = "abort"
    /\ guard' = [guard EXCEPT ![c] = IF @ = "active" THEN "aborted" ELSE @]
    /\ Goto(c, IF guard[c] = "active" THEN "aborting" ELSE "send")
    /\ UNCHANGED <<request, host, runner, canceller, outcome, channel, signal, resv>>

StoreAborts(c) ==
    /\ worker[c] \in {"aborting", "registerAbort"}
    /\ resv' = [resv EXCEPT ![c] = "aborted"]
    /\ Goto(c, IF worker[c] = "aborting" THEN "send" ELSE "inner")
    /\ UNCHANGED <<request, host, runner, canceller, outcome, channel, signal, guard>>

Send(c) ==
    /\ worker[c] = "send" /\ channel[c] = "empty"
    /\ channel' = [channel EXCEPT ![c] = outcome[c]]
    /\ Goto(c, "done")
    /\ UNCHANGED <<request, host, runner, canceller, outcome, signal, context>>

-----------------------------------------------------------------------------
(* coordinate_stream and write_stream (llm_action_server.rs:388-541,         *)
(* action_server.rs:1381-1479). Frames before the terminal one change        *)
(* nothing here.                                                            *)

\* The terminal frame is a success that the authorizer lets commit, or reports
\* a failure ("stopped"); or the source fails, ends without one, or passes on
\* the error a refused frame gave it.
SourceEnds(c, verdict) ==
    /\ worker[c] = "source"
    /\ outcome' = [outcome EXCEPT ![c] = verdict]
    /\ Goto(c, IF verdict = "ok" THEN "recheck" ELSE "abort")
    /\ UNCHANGED <<request, host, runner, canceller, channel, signal, context>>

\* The terminal frame is refused (no stop_reason, no authorization) and the
\* source returns Ok all the same: terminal_seen is set, nothing is resolved,
\* and the guard is left active.
SourceDropsError(c) ==
    /\ worker[c] = "source"
    /\ outcome' = [outcome EXCEPT ![c] = "dropped"]
    /\ Goto(c, "send")
    /\ UNCHANGED <<request, host, runner, canceller, channel, signal, context>>

\* The source panics and takes the handler's thread with it.
SourcePanics(c) ==
    /\ worker[c] = "source"
    /\ Goto(c, "panicked")
    /\ handler' = [handler EXCEPT ![c] = "done"]
    /\ UNCHANGED <<request, idem, status, handle, runner, canceller, outcome,
                   channel, signal, context>>

\* The terminal frame reaches write_stream's emit after the guard is settled;
\* emit may refuse it (a gap in seq), and the source may fail after it.
StreamCloses(c, failure) ==
    /\ worker[c] = "send" /\ channel[c] = "stream"
    /\ channel' = [channel EXCEPT ![c] =
                      IF failure /\ outcome[c] # "dropped" THEN "err" ELSE outcome[c]]
    /\ Goto(c, "done")
    /\ UNCHANGED <<request, host, runner, canceller, outcome, signal, context>>

-----------------------------------------------------------------------------
HandlerStep(c) ==
    \/ Lookup(c) \/ CreateTask(c) \/ StoreKey(c) \/ InsertHandle(c) \/ SpawnRunner(c)
    \/ SyncReceive(c) \/ WriteStream(c) \/ StreamWritten(c) \/ SyncCache(c) \/ SyncGivesUp(c) \/ SyncReplies(c)

RunnerStep(c) ==
    \/ RunnerStarts(c) \/ RunnerSeesCancel(c) \/ RunnerDeadline(c)
    \/ RunnerDeadlineFired(c) \/ RunnerReceives(c) \/ RunnerDisconnected(c)
    \/ RunnerSettles(c) \/ RunnerCleanup(c)

CancelStep(c) ==
    CancelLookup(c) \/ CancelStore(c) \/ CancelSignal(c) \/ CancelReplies(c)

FiringStep(c) == TakeListeners(c) \/ RunListener(c) \/ ListenerAborts(c)

InnerStep(c) == \/ \E answer \in {"ok", "err"} : InnerReturns(c, answer)
                \/ InnerPanics(c)

SourceStep(c) ==
    \/ \E verdict \in {"ok", "stopped", "err"} : SourceEnds(c, verdict)
    \/ SourceDropsError(c) \/ SourcePanics(c)

WorkerStep(c) ==
    \/ Reserve(c) \/ ReserveRefused(c) \/ Register(c) \/ CheckCancelled(c)
    \/ \E verdict \in {"ok", "stopped", "err"} : JudgePayload(c, verdict)
    \/ GuardCommit(c) \/ StoreCommits(c) \/ StoreCommitFails(c)
    \/ OfferStream(c) \/ NoStream(c)
    \/ GuardAbort(c) \/ StoreAborts(c)
    \/ Send(c) \/ \E failure \in BOOLEAN : StreamCloses(c, failure)

Next ==
    \/ \E c \in Calls : \/ HandlerStep(c) \/ RunnerStep(c) \/ CancelStep(c)
                        \/ FiringStep(c) \/ InnerStep(c) \/ SourceStep(c)
                        \/ WorkerStep(c)
    \/ \E k \in Keys : ExpireKey(k)

\* Every thread that can step does, the runner's and the handler's timers
\* included. The provider and its source owe no answer and nobody need cancel.
Fairness ==
    \A c \in Calls :
        /\ WF_vars(HandlerStep(c)) /\ WF_vars(RunnerStep(c))
        /\ WF_vars(FiringStep(c)) /\ WF_vars(WorkerStep(c))

Spec == Init /\ [][Next]_vars /\ Fairness

-----------------------------------------------------------------------------
(* What the runs check.                                                     *)

\* The guard and the reservation agree: a reservation is settled once, by the
\* winner of the guard, and is still held exactly while the winner has not
\* reached the store (llm_action_server.rs:694-757). So do its users: a task is
\* completed, and an answer or a stream cached for replay, with a receipt if
\* and only if the reservation was committed; a completion that lost the guard,
\* or that stopped with an error, carries none
\* (llm_action_server.rs:336-386, 460-518; action_server.rs:1034-1075, 1129-1146).
GuardDecides ==
    \A c \in Calls :
        /\ resv[c] = "committed" <=> guard[c] = "committed"
        /\ resv[c] = "aborted" => guard[c] = "aborted"
        /\ (guard[c] = "aborted" /\ resv[c] = "held") =>
               (firing[c] = "aborting") # (worker[c] \in {"aborting", "registerAbort"})
        /\ guard[c] = "none" <=> resv[c] = "none"
        /\ (status[c] = "completed" \/ handler[c] = "cache") =>
               (channel[c] = "ok" <=> resv[c] = "committed")

\* Once cancel() has returned, a reservation that was not already being
\* committed never is: not by a provider that answers late, and not by one that
\* had passed its last look at is_cancelled() (llm_action_server.rs:286-289,
\* 362-365, 736-752).
NoCommitAfterCancel ==
    [][\A c \in Calls :
        (firing[c] = "fired" /\ guard[c] \notin {"committing", "committed"}) =>
            guard'[c] \notin {"committing", "committed"}]_vars

\* What the runner of an async task leaves behind on each of its ways out
\* (action_server.rs:1091-1163): a terminal status and no cancellation handle.
RunnerLeavesNothing ==
    \A c \in Calls : runner[c] = "done" => status[c] \in Terminal /\ ~handle[c]

\* A terminal status stays, whoever wrote it first (action_server.rs:424-466).
TerminalFinal == [][\A c \in Calls : status[c] \in Terminal => status'[c] = status[c]]_vars

\* An async task ends although its provider never returns or panics; when its
\* runner is gone it is terminal and its cancellation handle is removed; and
\* the terminal status stays, whichever of the runner, the deadline and a
\* cancel request wrote it first (action_server.rs:424-466, 1091-1163, 1284).
TaskSettles ==
    /\ \A c \in Calls : status[c] = "pending" ~> status[c] \in Terminal
    /\ []RunnerLeavesNothing
    /\ TerminalFinal

\* Where the code leaves a reservation to nobody: an async provider panicked;
\* a source hangs or panicked in the handler's thread, which has no deadline
\* any more; a source dropped the error of its refused terminal frame.
Abandoned(c) ==
    \/ mode[c] = "async" /\ worker[c] = "panicked"
    \/ channel[c] = "stream" /\ worker[c] \in {"source", "panicked"}
    \/ channel[c] = "dropped"

\* Otherwise a reservation never outlives its call: the context becomes
\* available again although the provider hangs, is cancelled or times out, a
\* sync call's also when it panics, a stream's when its source ends in any other
\* way or its caller gave up before the stream was offered
\* (action_server.rs:1009-1031, 1118-1122; llm_action_server.rs:265-268, 527-529).
ReservationSettles ==
    \A c \in Calls : resv[c] = "held" ~> (resv[c] # "held" \/ Abandoned(c))

-----------------------------------------------------------------------------
(* What the repository says and the code does not do.                       *)

\* "Cancellation, timeout, stop_reason=error, or abnormal stream termination
\* aborts the reservation and preserves the prior version."
\* (spec/conformance/nwp/llm_context_vectors.json:208): a task reported as
\* cancelled has not committed. handle_task_cancel writes the status before it
\* signals, and the runner records a completion only after the worker has
\* committed: in both windows the status says cancelled and the context has a
\* new version.
CancelledMeansAborted ==
    \A c \in Calls : status[c] = "cancelled" => resv[c] # "committed"
=============================================================================
