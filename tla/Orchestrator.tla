----------------------------- MODULE Orchestrator -----------------------------
(***************************************************************************)
(* nps-nop/src/orchestrator.rs: NopOrchestrator::execute on one task id,   *)
(* with the task store (store.rs), the saga compensation and the callback. *)
(*                                                                         *)
(* Runs are the concurrent execute() calls for the task id. A run is an    *)
(* async function whose locals are pc, nodeState, stage, ...; the record   *)
(* in the task store (taskState, subtask) is shared by the runs and by     *)
(* cancel(). The node futures of a run live in its FuturesUnordered, so    *)
(* they advance only while the run awaits it (pc "wait" or "drain"), and a *)
(* future that finishes is consumed in the same poll. The run itself is    *)
(* dropped at an await when the task timer fires.                          *)
(*                                                                         *)
(* What a worker answers, what a condition evaluates to, and whether a     *)
(* callback is accepted are the environment's choice. Results are left     *)
(* out: which nodes have one does not change the control.                  *)
(***************************************************************************)
EXTENDS DagValidation, Integers

CONSTANTS
    Runs,                \* concurrent execute() calls for one task id
    Tasks,               \* the TaskFrames that may be submitted
    ErrorCodes,          \* codes a failed attempt may carry
    MaxConcurrentNodes,  \* NopOrchestratorOptions::max_concurrent_nodes
    MaxDelegateDepth,    \* constants::MAX_DELEGATE_CHAIN_DEPTH
    CallbackMaxRetries   \* constants::CALLBACK_MAX_RETRIES

ASSUME OrchestratorOptionsAssumption ==
    /\ MaxConcurrentNodes \in Nat
    /\ MaxDelegateDepth \in Nat
    /\ CallbackMaxRetries \in Nat \ {0}

\* The fields of a TaskFrame the orchestrator's arithmetic relies on.
ASSUME TasksAssumption ==
    \A t \in Tasks : /\ IsDag(t)
                     /\ t.minRequired \in [NodeIds -> Nat]
                     /\ t.compensable \subseteq NodeIds

VARIABLES
    task,          \* the submitted TaskFrame, the same for every run
    taskState,     \* NopTaskRecord.state, "absent" when there is no record
    subtask,       \* NopTaskRecord.subtasks, per node id
    pc,            \* where each run is
    topoOrder,     \* the order validate_dag returned to the run
    nodeState,     \* run_dag's node_states
    stage,         \* the node's future in in_flight, "idle" when it has none
    attempt,       \* the future's attempt counter
    verdict,       \* how run_dag is going to end, once it knows
    toCompensate,  \* the compensations still to execute, the first one running
    compensated,   \* the compensations executed, in order, with their outcome
    callbackTry,   \* the callback attempt being made
    result         \* the NopTaskResult execute() returns

vars == <<task, taskState, subtask, pc, topoOrder, nodeState, stage, attempt,
          verdict, toCompensate, compensated, callbackTry, result>>

store == <<taskState, subtask>>
locals == <<nodeState, stage, attempt, verdict, toCompensate, compensated,
            callbackTry>>

-----------------------------------------------------------------------------
(* Types.                                                                   *)

TerminalNodeStates == {"completed", "failed", "skipped"}

TaskStates == {"absent", "pending", "preflight", "running", "compensating",
               "completed", "failed", "cancelled"}

Pcs == {"start", "save", "begin", "preflight", "schedule", "wait", "drain",
        "conclude", "compensate", "finalise", "callback", "done"}

Subtasks == [state : TerminalNodeStates \cup {"absent", "running"},
             attempt : Nat]

NoSubtask == [state |-> "absent", attempt |-> 0]

Saga == [attempted : Nat, failed : SUBSET NodeIds]

NoSaga == [attempted |-> 0, failed |-> {}]

Result == [final : {"none", "completed", "failed"},
           code  : {"none", "DELEGATE_CHAIN_TOO_DEEP", "TASK_DAG_INVALID",
                    "TASK_DAG_TOO_LARGE", "CONDITION_EVAL_ERROR",
                    "TASK_DAG_CYCLE", "TASK_ALREADY_COMPLETED",
                    "TASK_TIMEOUT", "RESOURCE_INSUFFICIENT",
                    "SYNC_DEPENDENCY_FAILED", "COMPENSATION_NOT_SUPPORTED",
                    "COMPENSATION_FAILED"},
           saga  : Saga]

NoResult == [final |-> "none", code |-> "none", saga |-> NoSaga]

Failure(code, saga) == [final |-> "failed", code |-> code, saga |-> saga]

Success(saga) == [final |-> "completed", code |-> "none", saga |-> saga]

\* The task record and the locals of every run have their declared shape; the
\* callback is tried at most CallbackMaxRetries times (callback.rs:48-77).
TypeOK ==
    /\ task \in Tasks
    /\ taskState \in TaskStates
    /\ subtask \in [NodeIds -> Subtasks]
    /\ pc \in [Runs -> Pcs]
    /\ topoOrder \in [Runs -> Seq(NodeIds)]
    /\ nodeState \in [Runs -> [NodeIds -> TerminalNodeStates \cup {"none"}]]
    /\ stage \in [Runs -> [NodeIds -> {"idle", "launched", "running", "backoff"}]]
    /\ attempt \in [Runs -> [NodeIds -> Nat]]
    /\ verdict \in [Runs -> {"none", "completed", "failed"}]
    /\ toCompensate \in [Runs -> Seq(NodeIds)]
    /\ compensated \in [Runs -> Seq([node : NodeIds, ok : BOOLEAN])]
    /\ callbackTry \in [Runs -> 0..CallbackMaxRetries]
    /\ result \in [Runs -> Result]

Init ==
    /\ task \in Tasks
    /\ taskState = "absent"
    /\ subtask = [n \in NodeIds |-> NoSubtask]
    /\ pc = [r \in Runs |-> "start"]
    /\ topoOrder = [r \in Runs |-> << >>]
    /\ nodeState = [r \in Runs |-> [n \in NodeIds |-> "none"]]
    /\ stage = [r \in Runs |-> [n \in NodeIds |-> "idle"]]
    /\ attempt = [r \in Runs |-> [n \in NodeIds |-> 0]]
    /\ verdict = [r \in Runs |-> "none"]
    /\ toCompensate = [r \in Runs |-> << >>]
    /\ compensated = [r \in Runs |-> << >>]
    /\ callbackTry = [r \in Runs |-> 0]
    /\ result = [r \in Runs |-> NoResult]

-----------------------------------------------------------------------------
(* The task store (store.rs). update_state writes whatever it is given into  *)
(* an existing record; update_subtask creates the subtask on first use and   *)
(* keeps the old attempt count when it is given none.                        *)

UpdateState(st) == taskState' = IF taskState = "absent" THEN taskState ELSE st

UpdateSubtask(n, st, a) ==
    subtask' = IF taskState = "absent" THEN subtask
               ELSE [subtask EXCEPT ![n] = [state |-> st,
                                            attempt |-> IF a > 0 THEN a ELSE @.attempt]]

-----------------------------------------------------------------------------
(* execute(): validation, duplicate check, initial record.                  *)

\* The checks 1a, 1b and 1c, in their order; "none" when the task may run.
RefusalCode(t, validation) ==
    IF t.depth >= MaxDelegateDepth THEN "DELEGATE_CHAIN_TOO_DEEP"
    ELSE IF t.callback = "invalid" THEN "TASK_DAG_INVALID"
    ELSE validation.code

\* execute() up to the lookup: a refused task leaves no record.
Execute(r) ==
    /\ pc[r] = "start"
    /\ LET validation == ValidateDag(task)
           refusal    == RefusalCode(task, validation)
           code       == IF refusal = "none" /\ taskState # "absent"
                         THEN "TASK_ALREADY_COMPLETED" ELSE refusal
       IN  IF code = "none"
           THEN /\ pc' = [pc EXCEPT ![r] = "save"]
                /\ topoOrder' = [topoOrder EXCEPT ![r] = validation.order]
                /\ UNCHANGED result
           ELSE /\ pc' = [pc EXCEPT ![r] = "done"]
                /\ result' = [result EXCEPT ![r] = Failure(code, NoSaga)]
                /\ UNCHANGED topoOrder
    /\ UNCHANGED <<task, store, locals>>

\* save() keeps an existing record and reports an error, which is dropped.
Save(r) ==
    /\ pc[r] = "save"
    /\ taskState' = IF taskState = "absent" THEN "pending" ELSE taskState
    /\ pc' = [pc EXCEPT ![r] = "begin"]
    /\ UNCHANGED <<task, topoOrder, subtask, locals, result>>

\* run_lifecycle() up to its first await that can block.
Begin(r) ==
    /\ pc[r] = "begin"
    /\ UpdateState(IF task.preflight THEN "preflight" ELSE "running")
    /\ pc' = [pc EXCEPT ![r] = IF task.preflight THEN "preflight" ELSE "schedule"]
    /\ UNCHANGED <<task, topoOrder, subtask, locals, result>>

\* Every probed agent answered that it is available.
PreflightPasses(r) ==
    /\ pc[r] = "preflight"
    /\ UpdateState("running")
    /\ pc' = [pc EXCEPT ![r] = "schedule"]
    /\ UNCHANGED <<task, topoOrder, subtask, locals, result>>

\* Some agent is unavailable: the task fails at once, without a callback.
PreflightFails(r) ==
    /\ pc[r] = "preflight"
    /\ UpdateState("failed")
    /\ pc' = [pc EXCEPT ![r] = "done"]
    /\ result' = [result EXCEPT ![r] = Failure("RESOURCE_INSUFFICIENT", NoSaga)]
    /\ UNCHANGED <<task, topoOrder, subtask, locals>>

-----------------------------------------------------------------------------
(* run_dag(): scheduling.                                                   *)

K(t, n) == IF t.minRequired[n] > 0 THEN t.minRequired[n]
           ELSE Cardinality(t.inputFrom[n])

\* Definitions whose name ends in _Faulty are mutations used to confirm that
\* the properties can fail.
SucceededDeps_Faulty(t, st, n) ==   \* a skipped dependency does not count
    {d \in t.inputFrom[n] : st[d] = "completed"}

SucceededDeps(t, st, n) == {d \in t.inputFrom[n] : st[d] \in {"completed", "skipped"}}

FailedDeps(t, st, n) == {d \in t.inputFrom[n] : st[d] = "failed"}

\* K has been met, or can no longer be.
AreDepsDone(t, st, n) ==
    \/ t.inputFrom[n] = {}
    \/ Cardinality(SucceededDeps(t, st, n)) >= K(t, n)
    \/ Cardinality(t.inputFrom[n]) - Cardinality(FailedDeps(t, st, n)) < K(t, n)

Ready(r) ==
    {n \in Declared(task) :
        /\ nodeState[r][n] = "none"
        /\ stage[r][n] = "idle"
        /\ AreDepsDone(task, nodeState[r], n)}

Doomed_Faulty(t, st, n) ==         \* fails only when no dependency succeeded
    t.inputFrom[n] # {} /\ SucceededDeps(t, st, n) = {}

Doomed(t, st, n) ==
    /\ t.inputFrom[n] # {}
    /\ Cardinality(SucceededDeps(t, st, n)) < K(t, n)

InFlight(r) == {n \in NodeIds : stage[r][n] # "idle"}

LaunchSlots(r) == MaxConcurrentNodes - Cardinality(InFlight(r))

\* The ready nodes that get a future: the first ones, as declared, while
\* in_flight has room.
Launched(r) ==
    LET fit == Among(task.nodes, {n \in Ready(r) : ~Doomed(task, nodeState[r], n)})
    IN  {fit[i] : i \in {j \in DOMAIN fit : j <= LaunchSlots(r)}}

AllDecided(r) == \A n \in Declared(task) : nodeState[r][n] # "none"

NothingInFlight_Faulty(r) == r \notin Runs   \* awaits an empty in_flight

\* in_flight is empty after the launches: run_dag leaves its loop.
NothingInFlight(r) == InFlight(r) \cup Launched(r) = {}

\* One turn of the loop up to its await: the ready nodes whose K is out of
\* reach are marked failed, the others launched. Readiness is computed once,
\* before the marking.
Schedule(r) ==
    /\ pc[r] = "schedule"
    /\ ~AllDecided(r)
    /\ LET doomed   == {n \in Ready(r) : Doomed(task, nodeState[r], n)}
           launched == Launched(r)
       IN  /\ nodeState' = [nodeState EXCEPT ![r] =
                               [n \in NodeIds |-> IF n \in doomed THEN "failed" ELSE @[n]]]
           /\ subtask' = IF taskState = "absent" THEN subtask
                         ELSE [n \in NodeIds |->
                                 IF n \in doomed
                                 THEN [state |-> "failed", attempt |-> 1]
                                 ELSE subtask[n]]
           /\ stage' = [stage EXCEPT ![r] =
                           [n \in NodeIds |-> IF n \in launched THEN "launched" ELSE @[n]]]
    /\ pc' = [pc EXCEPT ![r] = IF NothingInFlight(r) THEN "conclude" ELSE "wait"]
    /\ UNCHANGED <<task, topoOrder, taskState, attempt, verdict, toCompensate, compensated,
                   callbackTry, result>>

\* The loop condition is false: every node has a state.
LeaveLoop(r) ==
    /\ pc[r] = "schedule"
    /\ AllDecided(r)
    /\ pc' = [pc EXCEPT ![r] = "conclude"]
    /\ UNCHANGED <<task, topoOrder, store, locals, result>>

-----------------------------------------------------------------------------
(* run_dag(): a node future ends.                                           *)

\* can_reach_end_node: the nodes reached from n along the edges, n included.
Successors(t, S) == {m \in NodeIds : \E e \in Edges(t) : e[1] \in S /\ e[2] = m}

ReachedWithin(t, n) ==
    LET grow[i \in 0..Len(t.nodes)] ==
            IF i = 0 THEN {n} ELSE grow[i - 1] \cup Successors(t, grow[i - 1])
    IN  grow

ReachableFrom(t, n) == ReachedWithin(t, n)[Len(t.nodes)]

CanEndNodeStillSucceed_Faulty(t, st, e) ==  \* any failed dependency is fatal
    t.inputFrom[e] # {} /\ FailedDeps(t, st, e) = {}

CanEndNodeStillSucceed(t, st, e) ==
    /\ t.inputFrom[e] # {}
    /\ Cardinality(t.inputFrom[e]) - Cardinality(FailedDeps(t, st, e)) >= K(t, e)

MustAbort(t, st, n) ==
    \E e \in EndNodes(t) : e \in ReachableFrom(t, n) /\ ~CanEndNodeStillSucceed(t, st, e)

\* The future of n ends in state st and is consumed: by the loop, which records
\* it and on a failure decides whether to give up, or by the drain, which
\* throws the outcome away.
FinishNode(r, n, st) ==
    LET after == [nodeState[r] EXCEPT ![n] = st]
    IN  /\ stage' = [stage EXCEPT ![r][n] = "idle"]
        /\ IF pc[r] = "drain"
           THEN UNCHANGED <<nodeState, pc, verdict>>
           ELSE /\ nodeState' = [nodeState EXCEPT ![r] = after]
                /\ IF st = "failed" /\ MustAbort(task, after, n)
                   THEN /\ pc' = [pc EXCEPT ![r] = "drain"]
                        /\ verdict' = [verdict EXCEPT ![r] = "failed"]
                   ELSE pc' = [pc EXCEPT ![r] = "schedule"] /\ UNCHANGED verdict
        /\ UNCHANGED <<task, topoOrder, taskState, toCompensate, compensated, callbackTry, result>>

\* The run is polling its futures.
Polling(r) == pc[r] \in {"wait", "drain"}

-----------------------------------------------------------------------------
(* execute_node_with_retry(): the life of one node future.                  *)

BeginAttempt(r, n, a) ==
    /\ stage' = [stage EXCEPT ![r][n] = "running"]
    /\ attempt' = [attempt EXCEPT ![r][n] = a]
    /\ UpdateSubtask(n, "running", a)
    /\ UNCHANGED <<task, topoOrder, taskState, pc, nodeState, verdict, toCompensate,
                   compensated, callbackTry, result>>

\* First poll: no condition, or one that evaluates to true.
StartNode(r, n) ==
    /\ Polling(r) /\ stage[r][n] = "launched"
    /\ BeginAttempt(r, n, 1)

\* First poll: the condition is false (Ok(false)) or does not evaluate (Err).
SkipNode(r, n) ==
    /\ Polling(r) /\ stage[r][n] = "launched" /\ n \in task.conditional
    /\ UpdateSubtask(n, "skipped", 0)
    /\ FinishNode(r, n, "skipped")
    /\ UNCHANGED attempt

ConditionError(r, n) ==
    /\ Polling(r) /\ stage[r][n] = "launched" /\ n \in task.conditional
    /\ UpdateSubtask(n, "failed", 1)
    /\ FinishNode(r, n, "failed")
    /\ UNCHANGED attempt

ShouldRetry(t, n, code, a) ==
    /\ a <= t.maxRetries[n]
    /\ t.retryOn[n] = {} \/ code \in t.retryOn[n]

\* execute_node_once() returned Completed: a final frame without an error.
AttemptSucceeds(r, n) ==
    /\ Polling(r) /\ stage[r][n] = "running"
    /\ UpdateSubtask(n, "completed", attempt[r][n])
    /\ FinishNode(r, n, "completed")
    /\ UNCHANGED attempt

\* It returned Failed: an error frame, a sequence gap, a foreign sender, a
\* stream without a final frame, the node's own timer, unresolvable inputs.
AttemptFails(r, n, code) ==
    /\ Polling(r) /\ stage[r][n] = "running"
    /\ IF ShouldRetry(task, n, code, attempt[r][n])
       THEN /\ stage' = [stage EXCEPT ![r][n] = "backoff"]
            /\ UNCHANGED <<task, topoOrder, store, pc, nodeState, verdict, toCompensate,
                           compensated, callbackTry, result>>
       ELSE /\ UpdateSubtask(n, "failed", attempt[r][n])
            /\ FinishNode(r, n, "failed")
    /\ UNCHANGED attempt

\* The backoff sleep is over.
RetryNode(r, n) ==
    /\ Polling(r) /\ stage[r][n] = "backoff"
    /\ BeginAttempt(r, n, attempt[r][n] + 1)

-----------------------------------------------------------------------------
(* run_dag(): conclusion and saga compensation.                             *)

RunsOnFailure(policy) == policy \in {"best_effort", "strict", "on_failure", "always"}

RunsOnSuccess(policy) == policy = "always"

Completed(r) == {n \in NodeIds : nodeState[r][n] = "completed"}

CompletedInReverse_Faulty(r) ==      \* forgets to reverse
    Among(topoOrder[r], Completed(r))

CompletedInReverse(r) == Reverse(Among(topoOrder[r], Completed(r)))

CompensationFailureErrorCode(t, saga) ==
    IF t.policy # "strict" \/ saga.failed = {} THEN "SYNC_DEPENDENCY_FAILED"
    ELSE IF saga.attempted = 0 THEN "COMPENSATION_NOT_SUPPORTED"
    ELSE "COMPENSATION_FAILED"

DagResult(outcome, saga) ==
    IF outcome = "failed"
    THEN Failure(CompensationFailureErrorCode(task, saga), saga)
    ELSE Success(saga)

\* run_saga_compensation() up to its first delegation, or run_dag's return when
\* the policy asks for none, strict finds a node it cannot undo, or nothing is
\* to be undone.
BeginSaga(r, outcome) ==
    LET runs    == IF outcome = "failed" THEN RunsOnFailure(task.policy)
                                         ELSE RunsOnSuccess(task.policy)
        done    == CompletedInReverse(r)
        missing == IF task.policy = "strict" THEN ToSet(done) \ task.compensable ELSE {}
        todo    == Among(done, task.compensable)
        saga    == IF runs THEN [attempted |-> 0, failed |-> missing] ELSE NoSaga
    IN  /\ IF runs /\ missing = {} /\ todo # << >>
           THEN /\ UpdateState("compensating")
                /\ toCompensate' = [toCompensate EXCEPT ![r] = todo]
                /\ pc' = [pc EXCEPT ![r] = "compensate"]
                /\ UNCHANGED result
           ELSE /\ result' = [result EXCEPT ![r] = DagResult(outcome, saga)]
                /\ pc' = [pc EXCEPT ![r] = "finalise"]
                /\ UNCHANGED <<taskState, toCompensate>>
        /\ verdict' = [verdict EXCEPT ![r] = outcome]
        /\ UNCHANGED <<task, topoOrder, subtask, nodeState, stage, attempt, compensated, callbackTry>>

DrainEmpty(r) == InFlight(r) = {}

\* in_flight.next() yields None: the abort goes on.
Drained(r) ==
    /\ pc[r] = "drain"
    /\ DrainEmpty(r)
    /\ BeginSaga(r, "failed")

EndFailed(r) == \E e \in EndNodes(task) : nodeState[r][e] = "failed"

Conclude(r) ==
    /\ pc[r] = "conclude"
    /\ BeginSaga(r, IF EndFailed(r) THEN "failed" ELSE "completed")

\* One compensation ends; the next is delegated whatever the outcome.
Compensate(r, ok) ==
    /\ pc[r] = "compensate"
    /\ LET done == Append(compensated[r], [node |-> Head(toCompensate[r]), ok |-> ok])
           saga == [attempted |-> Len(done),
                    failed |-> {d.node : d \in {x \in ToSet(done) : ~x.ok}}]
       IN  /\ compensated' = [compensated EXCEPT ![r] = done]
           /\ toCompensate' = [toCompensate EXCEPT ![r] = Tail(@)]
           /\ IF Len(toCompensate[r]) > 1 THEN UNCHANGED <<pc, result>>
              ELSE /\ pc' = [pc EXCEPT ![r] = "finalise"]
                   /\ result' = [result EXCEPT ![r] = DagResult(verdict[r], saga)]
    /\ UNCHANGED <<task, topoOrder, store, nodeState, stage, attempt, verdict, callbackTry>>

-----------------------------------------------------------------------------
(* run_lifecycle(): final state and callback; execute(): the task timer.    *)

Finalise(r) ==
    /\ pc[r] = "finalise"
    /\ UpdateState(result[r].final)
    /\ LET call == task.callback = "valid"
       IN  /\ pc' = [pc EXCEPT ![r] = IF call THEN "callback" ELSE "done"]
           /\ callbackTry' = [callbackTry EXCEPT ![r] = IF call THEN 1 ELSE 0]
    /\ UNCHANGED <<task, topoOrder, subtask, nodeState, stage, attempt, verdict, toCompensate,
                   compensated, result>>

\* A POST was answered with success, or failed: three tries, then it gives up.
CallbackAccepted(r) ==
    /\ pc[r] = "callback"
    /\ pc' = [pc EXCEPT ![r] = "done"]
    /\ UNCHANGED <<task, topoOrder, store, locals, result>>

CallbackFails(r) ==
    /\ pc[r] = "callback"
    /\ IF callbackTry[r] < CallbackMaxRetries
       THEN callbackTry' = [callbackTry EXCEPT ![r] = @ + 1] /\ UNCHANGED pc
       ELSE pc' = [pc EXCEPT ![r] = "done"] /\ UNCHANGED callbackTry
    /\ UNCHANGED <<task, topoOrder, store, nodeState, stage, attempt, verdict, toCompensate,
                   compensated, result>>

\* The run is suspended at an await: every future it owns has been polled.
Suspended(r) ==
    /\ pc[r] \in {"preflight", "wait", "drain", "compensate", "callback"}
    /\ \A n \in NodeIds : stage[r][n] # "launched"
    /\ pc[r] = "drain" => InFlight(r) # {}

\* tokio::time::timeout fires: the lifecycle future and its node futures are
\* dropped where they are.
Timeout(r) ==
    /\ Suspended(r)
    /\ UpdateState("failed")
    /\ stage' = [stage EXCEPT ![r] = [n \in NodeIds |-> "idle"]]
    /\ result' = [result EXCEPT ![r] = Failure("TASK_TIMEOUT", NoSaga)]
    /\ pc' = [pc EXCEPT ![r] = "done"]
    /\ UNCHANGED <<task, topoOrder, subtask, nodeState, attempt, verdict, toCompensate,
                   compensated, callbackTry>>

\* cancel(): writes the store, nothing else. No run reads the state back.
Cancel ==
    /\ UpdateState("cancelled")
    /\ UNCHANGED <<task, topoOrder, subtask, pc, locals, result>>

-----------------------------------------------------------------------------
NodeStep(r, n) ==
    \/ StartNode(r, n) \/ SkipNode(r, n) \/ ConditionError(r, n)
    \/ AttemptSucceeds(r, n) \/ RetryNode(r, n)
    \/ \E code \in ErrorCodes : AttemptFails(r, n, code)

LifecycleStep(r) ==
    \/ Execute(r) \/ Save(r) \/ Begin(r)
    \/ PreflightPasses(r) \/ PreflightFails(r)
    \/ Schedule(r) \/ LeaveLoop(r) \/ Drained(r) \/ Conclude(r)
    \/ \E ok \in BOOLEAN : Compensate(r, ok)
    \/ Finalise(r) \/ CallbackAccepted(r) \/ CallbackFails(r)

Next ==
    \/ \E r \in Runs : LifecycleStep(r)
    \/ \E r \in Runs, n \in NodeIds : NodeStep(r, n)
    \/ \E r \in Runs : Timeout(r)
    \/ Cancel

\* The executor polls a woken run; a worker's stream, a sleep and a POST all
\* end, each has a timer of its own. A preflight probe has none: there the task
\* timer is what ends the wait. Nowhere else need it fire.
RunStep(r) ==
    \/ LifecycleStep(r)
    \/ \E n \in NodeIds : NodeStep(r, n)
    \/ pc[r] = "preflight" /\ Timeout(r)

Fairness == \A r \in Runs : WF_vars(RunStep(r))

Spec == Init /\ [][Next]_vars /\ Fairness

-----------------------------------------------------------------------------
(* What the runs check.                                                     *)

\* A node runs only once K of its dependencies have succeeded, whatever
\* finished, failed or was skipped in between and however the launches were
\* delayed by max_concurrent_nodes, which the futures in flight never exceed
\* (orchestrator.rs:266-343, 867-899).
LaunchJustified ==
    \A r \in Runs :
        /\ Cardinality(InFlight(r)) <= MaxConcurrentNodes
        /\ \A n \in Declared(task) :
              (stage[r][n] # "idle" \/ nodeState[r][n] \in {"completed", "skipped"}) =>
                  \/ task.inputFrom[n] = {}
                  \/ Cardinality({d \in task.inputFrom[n] :
                         nodeState[r][d] \in {"completed", "skipped"}}) >= K(task, n)

\* The sequence of compensations delegated by r, the running one included.
Undone(r) ==
    [i \in DOMAIN compensated[r] |-> compensated[r][i].node] \o
        (IF toCompensate[r] = << >> THEN << >> ELSE <<Head(toCompensate[r])>>)

\* Compensation starts only when no node of the task runs forward any more. It
\* undoes completed nodes only, each at most once, and a node never before a
\* completed node it leads to (orchestrator.rs:368-369, 784-845).
SagaInOrder ==
    \A r \in Runs :
        LET u == Undone(r)
        IN  /\ pc[r] \in {"compensate", "finalise", "callback"} => InFlight(r) = {}
            /\ \A i \in DOMAIN u : nodeState[r][u[i]] = "completed"
            /\ IsInjective(u)
            /\ \A i, j \in DOMAIN u : i < j => u[j] \notin ReachableFrom(task, u[i])

\* Compensation goes backwards; and a saga that has ended left out only the
\* nodes that completed while the abort was draining, whose outcomes are thrown
\* away (orchestrator.rs:368-369, 784-845).
SagaReverses ==
    /\ SagaInOrder
    /\ \A r \in Runs :
          pc[r] \in {"finalise", "callback"} /\ Undone(r) # << >> =>
              \A n \in task.compensable :
                  subtask[n].state = "completed" =>
                      n \in ToSet(Undone(r)) \/ nodeState[r][n] = "none"

\* input_from names the predecessors along the edges, as documented tasks do.
InputsFollowEdges(t) ==
    \A n \in Declared(t) : t.inputFrom[n] = {m \in Declared(t) : <<m, n>> \in Edges(t)}

\* A task whose inputs follow its edges is failed by run_dag only when some end
\* node did not succeed: a late failure never takes down a task whose end
\* nodes have all met their K and completed (orchestrator.rs:349-437, 903-951).
FailureJustified ==
    \A r \in Runs :
        (verdict[r] = "failed" /\ InputsFollowEdges(task)) =>
            \E e \in EndNodes(task) : nodeState[r][e] \notin {"completed", "skipped"}

\* A successful task in which no node failed has run every node: the loop does
\* not leave early with work left (orchestrator.rs:264, 345-347). And what a
\* status query sees agrees with what the run decided, through retries, drains,
\* the task timer firing at any await and cancellation: the subtask of every
\* decided node has its state, and when execute() has returned the task has
\* the state of the result, unless it was cancelled or refused before it had
\* a record (orchestrator.rs:155-170, 305-322, 483-622; store.rs:100-147).
NoNodeForgotten ==
    \A r \in Runs :
        /\ (result[r].final = "completed" /\ InputsFollowEdges(task)) =>
              \/ \E n \in Declared(task) : nodeState[r][n] = "failed"
              \/ \A n \in Declared(task) : nodeState[r][n] \in {"completed", "skipped"}
        /\ \A n \in NodeIds :
              nodeState[r][n] # "none" => subtask[n].state = nodeState[r][n]
        /\ pc[r] = "done" => taskState \in {result[r].final, "cancelled", "absent"}

\* The state of a node, once decided, never changes: no node is run again
\* after it has ended (orchestrator.rs:264-399).
NodesStayDecided ==
    [][\A r \in Runs, n \in NodeIds :
          nodeState[r][n] # "none" => nodeState'[r][n] = nodeState[r][n]]_vars

\* The attempts a status query sees only count up (orchestrator.rs:487-597).
AttemptsCountUp ==
    [][\A n \in NodeIds : subtask'[n].attempt >= subtask[n].attempt]_vars

\* execute() returns although the task timer never fires: retries are bounded,
\* the loop makes progress, drains and compensations end. On the way no node is
\* run twice and no attempt is counted back (orchestrator.rs:92-172, 264-399,
\* 487-597).
Terminates ==
    /\ NodesStayDecided
    /\ AttemptsCountUp
    /\ \A r \in Runs : <>(pc[r] = "done")

-----------------------------------------------------------------------------
(* What the repository says and the code does not do.                       *)

\* "All nodes done - check for end-node failures." (orchestrator.rs:401): a task
\* reported as completed has a state for every node. The loop also leaves when
\* nothing is in flight, one turn before the nodes behind a node it has just
\* marked failed would be looked at.
AllNodesDone == \A r \in Runs : result[r].final = "completed" => AllDecided(r)

\* "Requests cancellation of a running task (records `Cancelled` state)."
\* (orchestrator.rs:174): a recorded cancellation stays recorded.
CancelSticks == [][taskState = "cancelled" => taskState' = "cancelled"]_vars
=============================================================================
