--------------------------- MODULE PortableProfile ---------------------------
(***************************************************************************)
(* The transport-independent NOP profile (nps-nop/src/portable_profile.rs):*)
(* evaluate_orchestration plays a whole task from scripted attempts and    *)
(* returns its transcript, evaluate_lease plays the claims and renewals of *)
(* runners.  SDKs in other languages must return the same transcripts.     *)
(*                                                                         *)
(* A task is a record of functions over its node ids:                      *)
(*   deps       depends_on, as a set (a repeated dependency is counted and *)
(*              released twice, so that a set loses nothing)               *)
(*   script     the scripted attempts, [kind, error, retryable, result]    *)
(*   retries    max_retries of the nodes that have one, else task_retries  *)
(*   retry_on   the error codes retried, AnyError when the list is absent  *)
(*   condition  Always, or [node, op, literal]; mapping the nodes whose    *)
(*              results the input mapping names                            *)
(*   available  preflight_available; undo the compensation: "none" without *)
(*              a compensate_action, else its outcome                      *)
(* and task_retries, preflight, cancel_before (0: none), policy, aggregate.*)
(* A result is a function from keys to [array, items] values.              *)
(***************************************************************************)
EXTENDS Integers, Sequences, FiniteSets, SequencesExt, FiniteSetsExt

AnyError == {"any"}
Always == [node |-> 0, op |-> "none", literal |-> 0]

Ids(t) == DOMAIN t.deps

-----------------------------------------------------------------------------
\* stable_topology: Kahn's algorithm, the smallest ready id first.
Known(t) == \A n \in Ids(t) : t.deps[n] \subseteq Ids(t)

TopologyStep(t, s) ==
    IF s.ready = {} THEN s
    ELSE LET n == Min(s.ready)
             left == [m \in Ids(t) |-> s.indegree[m] - IF n \in t.deps[m] THEN 1 ELSE 0]
         IN  [indegree |-> left,
              ready |-> (s.ready \ {n}) \cup {m \in Ids(t) : n \in t.deps[m] /\ left[m] = 0},
              order |-> Append(s.order, n)]

StableTopology(t) ==
    LET indegree == [n \in Ids(t) |-> Cardinality(t.deps[n])]
        pass[i \in 0..Cardinality(Ids(t))] ==
            IF i = 0
            THEN [indegree |-> indegree, order |-> <<>>,
                  ready |-> {n \in Ids(t) : indegree[n] = 0}]
            ELSE TopologyStep(t, pass[i - 1])
    IN  pass[Cardinality(Ids(t))].order

Sortable(t) == Known(t) /\ Len(StableTopology(t)) = Cardinality(Ids(t))

-----------------------------------------------------------------------------
\* The state of a transcript; a node without an entry has no state yet.
Started(events) ==
    [events |-> events, terminal |-> "running", error |-> "none",
     states |-> <<>>, attempts |-> <<>>, results |-> <<>>,
     compensation |-> <<>>, aggregate |-> <<>>]

Put(f, key, val) == [k \in DOMAIN f \cup {key} |-> IF k = key THEN val ELSE f[k]]

Finished(run, terminal, error) ==
    [run EXCEPT !.terminal = terminal, !.error = error,
                !.events = Append(@, <<0, terminal>>)]

EmptyFailure(error) == Finished(Started(<<>>), "failed", error)

Settle(run, n, state, count) ==
    [run EXCEPT !.states = Put(@, n, state), !.attempts = Put(@, n, count),
                !.events = Append(@, <<n, state>>)]

\* The value $.node.x names, none when the path does not resolve.
Resolve(c, run) ==
    IF c.node \in DOMAIN run.results /\ "x" \in DOMAIN run.results[c.node]
    THEN <<run.results[c.node].x>> ELSE <<>>

\* evaluate_condition against a number: "error" when the path does not
\* resolve or an array is put in order.
EvaluateCondition(c, run) ==
    LET found == Resolve(c, run)
        left == found[1].items[1]
        Says(b) == IF b THEN "true" ELSE "false"
    IN  CASE c = Always -> "true"
          [] c # Always /\ found = <<>> -> "error"
          [] c # Always /\ found # <<>> /\ found[1].array ->
               IF c.op \in {"==", "!="} THEN Says(c.op = "!=") ELSE "error"
          [] OTHER -> CASE c.op = "==" -> Says(left = c.literal)
                        [] c.op = "!=" -> Says(left # c.literal)
                        [] c.op = ">"  -> Says(left > c.literal)
                        [] c.op = ">=" -> Says(left >= c.literal)
                        [] c.op = "<"  -> Says(left < c.literal)
                        [] c.op = "<=" -> Says(left <= c.literal)

RetriesOf(t, n) == IF n \in DOMAIN t.retries THEN t.retries[n] ELSE t.task_retries

ErrorOf(outcome) == IF outcome.kind = "timeout" THEN "delegate_timeout" ELSE outcome.error

\* Whether attempt k is followed by another one.
RetriesAfter(t, n, k) ==
    LET outcome == t.script[n][k]
    IN  /\ outcome.kind # "success"
        /\ outcome.kind = "timeout" \/ outcome.retryable
        /\ t.retry_on[n] = AnyError \/ ErrorOf(outcome) \in t.retry_on[n]
        /\ k <= RetriesOf(t, n)
        /\ k < Len(t.script[n])

\* The scripted attempts, from the k-th on.  A script without attempts leaves
\* the node without a state.
RECURSIVE Attempt(_, _, _, _)
Attempt(t, n, run, k) ==
    IF t.script[n] = <<>> THEN [run EXCEPT !.attempts = Put(@, n, 0)]
    ELSE LET outcome == t.script[n][k]
             tried == [run EXCEPT !.events = Append(@, <<n, "attempt">>)]
         IN  CASE outcome.kind = "success" ->
                    [Settle(tried, n, "completed", k) EXCEPT
                        !.results = Put(@, n, outcome.result)]
               [] RetriesAfter(t, n, k) ->
                    Attempt(t, n, [tried EXCEPT !.events = Append(@, <<n, "retrying">>)], k + 1)
               [] OTHER -> [Settle(tried, n, "failed", k) EXCEPT !.error = ErrorOf(outcome)]

-----------------------------------------------------------------------------
StateIs(run, n, state) == n \in DOMAIN run.states /\ run.states[n] = state

\* compensate's walk that stops at the direct dependencies.
Ancestors_Faulty(t, n) == t.deps[n]

\* The breadth-first walk of compensate from the failed node.
Ancestors(t, n) ==
    LET reach[i \in 0..Cardinality(Ids(t))] ==
            IF i = 0 THEN t.deps[n]
            ELSE reach[i - 1] \cup UNION {t.deps[m] : m \in reach[i - 1]}
    IN  reach[Cardinality(Ids(t))]

\* One compensation; under "strict" a failed one ends the walk.
CompensateStep(t, run, n) ==
    IF run.error = "compensation_failed" \/ t.undo[n] = "none" THEN run
    ELSE LET state == IF t.undo[n] = "failure" THEN "compensation_failed" ELSE "compensated"
         IN  [run EXCEPT !.compensation = Append(@, n),
                         !.states = Put(@, n, state),
                         !.events = @ \o <<<<n, "compensating">>, <<n, state>>>>,
                         !.error = IF state = "compensation_failed" /\ t.policy = "strict"
                                   THEN "compensation_failed" ELSE @]

Compensate(t, run, n) ==
    LET candidates == SelectSeq(Reverse(StableTopology(t)),
                          LAMBDA m : m \in Ancestors(t, n) /\ StateIs(run, m, "completed"))
    IN  IF t.policy \notin {"best_effort", "strict"} THEN run
        ELSE IF t.policy = "strict" /\ \E i \in DOMAIN candidates : t.undo[candidates[i]] = "none"
        THEN [run EXCEPT !.error = "compensation_not_supported"]
        ELSE FoldLeft(LAMBDA r, m : CompensateStep(t, r, m), run, candidates)

-----------------------------------------------------------------------------
\* aggregate_results: the completed nodes nobody depends on, in order; a later
\* result replaces a key, "merge_all" extends an array with an array.
Sinks(t, run) ==
    SelectSeq(StableTopology(t),
        LAMBDA n : StateIs(run, n, "completed") /\ \A m \in Ids(t) : n \notin t.deps[m])

MergeResult(t, output, result) ==
    [k \in DOMAIN output \cup DOMAIN result |->
        IF k \notin DOMAIN result THEN output[k]
        ELSE IF /\ t.aggregate = "merge_all" /\ k \in DOMAIN output
                /\ output[k].array /\ result[k].array
        THEN [array |-> TRUE, items |-> output[k].items \o result[k].items]
        ELSE result[k]]

AggregateResults(t, run) ==
    LET results == [i \in DOMAIN Sinks(t, run) |-> run.results[Sinks(t, run)[i]]]
    IN  IF t.aggregate = "all" \/ results = <<>> THEN results
        ELSE FoldLeft(LAMBDA out, r : MergeResult(t, out, r), <<>>, results)

-----------------------------------------------------------------------------
\* One turn of the loop over the topology.
RunNode(t, run, n) ==
    IF run.terminal # "running" THEN run
    ELSE IF t.cancel_before = n THEN Finished(run, "cancelled", "task_cancelled")
    ELSE LET verdict == EvaluateCondition(t.condition[n], run)
         IN  CASE verdict = "error" ->
                    Finished(Settle(run, n, "failed", 0), "failed", "condition_eval_error")
               [] verdict = "false" -> Settle(run, n, "skipped", 0)
               [] verdict = "true" /\ ~(t.mapping[n] \subseteq DOMAIN run.results) ->
                    Finished(Settle(run, n, "failed", 0), "failed", "input_mapping_error")
               [] OTHER ->
                    LET tried == Attempt(t, n, run, 1)
                        undone == Compensate(t, tried, n)
                    IN  IF StateIs(tried, n, "completed") THEN tried
                        ELSE Finished(undone, "failed",
                                 IF undone.error = "none" THEN "delegate_rejected"
                                 ELSE undone.error)

\* evaluate_orchestration
EvaluateOrchestration(t) ==
    LET order == StableTopology(t)
        checked == IF t.preflight THEN <<<<0, "preflight">>>> ELSE <<>>
        played == FoldLeft(LAMBDA run, n : RunNode(t, run, n),
                           Started(Append(checked, <<0, "running">>)), order)
    IN  IF ~Sortable(t) THEN EmptyFailure("task_dag_cycle")
        ELSE IF t.preflight /\ \E n \in Ids(t) : ~t.available[n]
        THEN Finished(Started(checked), "failed", "resource_insufficient")
        ELSE IF played.terminal # "running" THEN played
        ELSE [Finished(played, "completed", "none") EXCEPT
                 !.aggregate = AggregateResults(t, played)]

-----------------------------------------------------------------------------
\* evaluate_lease: an event is [op, task, runner, at, seconds] or, for the
\* terminal record, [op, key].
LeaseSeconds(e) == IF e.seconds < 10 THEN 10 ELSE IF e.seconds > 600 THEN 600 ELSE e.seconds

Live(leases, e) == e.task \in DOMAIN leases /\ leases[e.task].expires > e.at

Mine(leases, e) == Live(leases, e) /\ leases[e.task].runner = e.runner

Take(s, e, outcome) ==
    [s EXCEPT !.leases = Put(@, e.task, [runner |-> e.runner, expires |-> e.at + LeaseSeconds(e)]),
              !.outcomes = Append(@, outcome)]

Respond(s, outcome) == [s EXCEPT !.outcomes = Append(@, outcome)]

\* renew that forgets whose lease it is.
Renew_Faulty(s, e) ==
    IF Live(s.leases, e) THEN Take(s, e, "granted") ELSE Respond(s, "conflict")

Renew(s, e) ==
    IF Mine(s.leases, e) THEN Take(s, e, "granted") ELSE Respond(s, "conflict")

Claim(s, e) ==
    CASE Mine(s.leases, e) -> Take(s, e, "granted")
      [] Live(s.leases, e) /\ ~Mine(s.leases, e) -> Respond(s, "conflict")
      [] OTHER -> Take(s, e, IF e.task \in DOMAIN s.leases THEN "reclaimed" ELSE "granted")

LeaseStep(s, e) ==
    CASE e.op = "claim" -> Claim(s, e)
      [] e.op = "renew" -> Renew(s, e)
      [] e.op = "mark_terminal" ->
           Respond([s EXCEPT !.terminal = @ \cup {e.key}], "recorded")
      [] e.op = "is_terminal" ->
           Respond(s, IF e.key \in s.terminal THEN "terminal" ELSE "pending")

EvaluateLease(events) ==
    FoldLeft(LeaseStep, [leases |-> <<>>, terminal |-> {}, outcomes |-> <<>>], events).outcomes
=============================================================================
