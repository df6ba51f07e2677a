---------------------------- MODULE DagValidation ----------------------------
(***************************************************************************)
(* nps-nop/src/validation.rs: validate_dag, the gate every NOP task passes *)
(* before the orchestrator runs it, and the topological order (Kahn's      *)
(* algorithm) that the saga compensation later walks backwards.            *)
(*                                                                         *)
(* A dag is a record                                                       *)
(*   nodes       the declared node ids, in order (a sequence)              *)
(*   edges       the declared edges, in order (a sequence of <<from, to>>) *)
(*   inputFrom   for every id, the set of upstream ids it names            *)
(*   longCondition  the ids whose condition exceeds MAX_CONDITION_LENGTH   *)
(* Ids may be repeated in nodes and may be named without being declared:   *)
(* those are the inputs the validation exists to refuse.                   *)
(***************************************************************************)
EXTENDS Naturals, Sequences, FiniteSets, SequencesExt

CONSTANTS NodeIds,      \* every id a dag may mention, declared or not
          MaxDagNodes   \* constants::MAX_DAG_NODES

ASSUME MaxDagNodesAssumption == MaxDagNodes \in Nat

\* The part of a TaskDag that validate_dag looks at.
IsDag(dag) ==
    /\ dag.nodes \in Seq(NodeIds)
    /\ dag.edges \in Seq(NodeIds \X NodeIds)
    /\ dag.inputFrom \in [NodeIds -> SUBSET NodeIds]

Declared(dag) == ToSet(dag.nodes)

Edges(dag) == ToSet(dag.edges)

\* in_degree: one per declared edge, a repeated edge counted each time.
InDegree(dag) ==
    [n \in Declared(dag) |->
        Cardinality({i \in DOMAIN dag.edges : dag.edges[i][2] = n})]

StartNodes(dag) == {n \in Declared(dag) : InDegree(dag)[n] = 0}

EndNodes(dag) == {n \in Declared(dag) : \A e \in Edges(dag) : e[1] # n}

\* The members of a sequence that are in S, in their order. Recursion is over
\* positions, here and below, so that it can be reasoned about.
KeptUpTo(s, S) ==
    LET kept[i \in 0..Len(s)] ==
            IF i = 0 THEN << >>
            ELSE IF s[i] \in S THEN Append(kept[i - 1], s[i]) ELSE kept[i - 1]
    IN  kept

Among(s, S) == KeptUpTo(s, S)[Len(s)]

-----------------------------------------------------------------------------
(* Kahn's algorithm: pop the queue, append to the order, release the        *)
(* neighbours whose last incoming edge this was. `order' is what the code   *)
(* has sorted followed by its queue: a pop moves the boundary between them. *)

Release(s, n) ==
    LET left == s.remaining[n] - 1
    IN  [remaining |-> [s.remaining EXCEPT ![n] = left],
         order     |-> IF left = 0 THEN Append(s.order, n) ELSE s.order]

\* The edges of n, in the order they were declared (adjacency[n]).
ReleaseUpTo(dag, s, n) ==
    LET after[i \in 0..Len(dag.edges)] ==
            IF i = 0 THEN s
            ELSE IF dag.edges[i][1] = n THEN Release(after[i - 1], dag.edges[i][2])
            ELSE after[i - 1]
    IN  after

\* The i-th pop; the queue may have run empty.
KahnStep(dag, s, i) ==
    IF i > Len(s.order) THEN s
    ELSE ReleaseUpTo(dag, s, s.order[i])[Len(dag.edges)]

KahnStart(dag) ==
    [remaining |-> InDegree(dag), order |-> Among(dag.nodes, StartNodes(dag))]

\* One pass per node: every pop takes a node nobody popped before.
KahnPasses(dag) ==
    LET pass[i \in 0..Cardinality(Declared(dag))] ==
            IF i = 0 THEN KahnStart(dag) ELSE KahnStep(dag, pass[i - 1], i)
    IN  pass

TopologicalOrder(dag) == KahnPasses(dag)[Cardinality(Declared(dag))].order

-----------------------------------------------------------------------------
Invalid(code) == [isValid |-> FALSE, code |-> code, order |-> << >>]

\* Every edge and every input_from names declared nodes only.
ReferencesKnown(dag) ==
    /\ \A e \in Edges(dag) : e[1] \in Declared(dag) /\ e[2] \in Declared(dag)
    /\ \A n \in Declared(dag) : dag.inputFrom[n] \subseteq Declared(dag)

\* The structural checks after the size limit, up to the condition lengths.
IllFormed(dag) ==
    \/ Cardinality(Declared(dag)) # Len(dag.nodes)
    \/ ~ReferencesKnown(dag)
    \/ StartNodes(dag) = {}
    \/ EndNodes(dag) = {}

\* Definitions named _Faulty are mutations of the definition after them; here
\* the count after Kahn's loop is forgotten.
ValidateDag_Faulty(dag) ==
    IF dag.nodes = << >> \/ IllFormed(dag) THEN Invalid("TASK_DAG_INVALID")
    ELSE [isValid |-> TRUE, code |-> "none", order |-> TopologicalOrder(dag)]

ValidateDag(dag) ==
    IF dag.nodes = << >> THEN Invalid("TASK_DAG_INVALID")
    ELSE IF Len(dag.nodes) > MaxDagNodes THEN Invalid("TASK_DAG_TOO_LARGE")
    ELSE IF IllFormed(dag) THEN Invalid("TASK_DAG_INVALID")
    ELSE IF dag.longCondition \cap Declared(dag) # {}
         THEN Invalid("CONDITION_EVAL_ERROR")
    ELSE IF Len(TopologicalOrder(dag)) # Cardinality(Declared(dag))
         THEN Invalid("TASK_DAG_CYCLE")
    ELSE [isValid |-> TRUE, code |-> "none", order |-> TopologicalOrder(dag)]

-----------------------------------------------------------------------------
(* What validate_dag promises.                                              *)

\* A set of nodes each of which has an edge from the set: a cycle.
Cyclic(dag) ==
    \E S \in (SUBSET Declared(dag)) \ {{}} :
        \A n \in S : \E e \in Edges(dag) : e[2] = n /\ e[1] \in S

Sound(dag) ==
    /\ Len(dag.nodes) \in 1..MaxDagNodes
    /\ IsInjective(dag.nodes)
    /\ ReferencesKnown(dag)
    /\ dag.longCondition \cap Declared(dag) = {}
    /\ ~Cyclic(dag)

\* The order lists every node once and no edge goes backwards in it.
Topological(dag, order) ==
    /\ ToSet(order) = Declared(dag) /\ IsInjective(order)
    /\ \A i, j \in DOMAIN order : <<order[i], order[j]>> \in Edges(dag) => i < j

\* The dag is accepted exactly when it is sound, with a topological order.
JudgedExactly(dag, validation) ==
    /\ validation.isValid <=> Sound(dag)
    /\ validation.isValid => Topological(dag, validation.order)
=============================================================================
