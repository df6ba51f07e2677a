---------------------------- MODULE MCOrchestrator ----------------------------
(***************************************************************************)
(* The tasks the orchestrator is checked on: every DAG of three nodes      *)
(* whose edges follow the declared order, two of four nodes, and           *)
(* variations of the task fields, one at a time where they do not interact.*)
(***************************************************************************)
EXTENDS Orchestrator

Ids == 1..4

Codes == {"transient", "permanent"}

EdgeSets == SUBSET {<<1, 2>>, <<1, 3>>, <<2, 3>>}

Predecessors(E) == [n \in Ids |-> {m \in Ids : <<m, n>> \in E}]

\* A task on the edges E: inputs along the edges, every node compensable.
TaskOn(E) ==
    [nodes |-> <<1, 2, 3>>, edges |-> SetToSeq(E), inputFrom |-> Predecessors(E),
     longCondition |-> {}, minRequired |-> [n \in Ids |-> 0],
     maxRetries |-> [n \in Ids |-> 0], retryOn |-> [n \in Ids |-> {}],
     conditional |-> {}, compensable |-> Ids, policy |-> "best_effort",
     preflight |-> FALSE, callback |-> "none", depth |-> 0]

\* min_required: all inputs, one of them (only node 3 can have two), or more
\* than there are.
Ks == {[n \in Ids |-> 0], [n \in Ids |-> IF n = 3 THEN 1 ELSE 0], [n \in Ids |-> 3]}

\* Every shape, with every such K-of-N.
ShapeTasks ==
    {[TaskOn(E) EXCEPT !.minRequired = k] : E \in EdgeSets, k \in Ks}

\* A join in the middle of the graph and a diamond, with every K at the joins.
JoinTasks ==
    {[TaskOn(E) EXCEPT !.nodes = <<1, 2, 3, 4>>,
                       !.minRequired = [n \in Ids |-> IF n \in {3, 4} THEN k ELSE 0]] :
        E \in {{<<1, 3>>, <<2, 3>>, <<3, 4>>},
               {<<1, 2>>, <<1, 3>>, <<2, 4>>, <<3, 4>>}},
        k \in {0, 1}}

\* Conditions, policies and nodes without a compensation, on every shape.
PolicyTasks ==
    {[TaskOn(E) EXCEPT !.policy = p, !.compensable = c, !.conditional = {2}] :
        E \in EdgeSets, p \in {"none", "strict", "always"}, c \in {Ids, {1, 3}}}

\* Retries, with and without retry_on, a preflight and a callback.
RetryTasks ==
    {[TaskOn(E) EXCEPT !.maxRetries = [n \in Ids |-> IF n = 3 THEN 0 ELSE 2],
                       !.retryOn = [n \in Ids |-> q],
                       !.preflight = TRUE, !.callback = "valid"] :
        E \in {{}, {<<1, 2>>, <<2, 3>>}}, q \in {{}, {"transient"}}}

\* Inputs that do not follow the edges; validate_dag accepts them all.
FreeInputTasks ==
    {[TaskOn({<<1, 2>>, <<2, 3>>}) EXCEPT !.inputFrom = f @@ (4 :> {})] :
        f \in [1..3 -> {{}, {1}, {2, 3}}]}

\* Tasks execute() refuses.
RefusedTasks ==
    {[TaskOn({}) EXCEPT !.depth = MaxDelegateDepth],
     [TaskOn({}) EXCEPT !.callback = "invalid"],
     [TaskOn({}) EXCEPT !.edges = <<<<2, 3>>, <<3, 2>>>>]}

AllTasks == ShapeTasks \cup JoinTasks \cup PolicyTasks \cup RetryTasks
            \cup FreeInputTasks \cup RefusedTasks
=============================================================================
