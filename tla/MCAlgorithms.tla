---------------------------- MODULE MCAlgorithms ----------------------------
(***************************************************************************)
(* The pure algorithms, each called on every small input of a family and   *)
(* compared with a definition that says what the result must be without    *)
(* computing it the way the code does.                                     *)
(***************************************************************************)
EXTENDS DagValidation, MemoryNode, ComplexNode, Condition, PortableProfile, AnchorTopology,
        IdentVerifier

CONSTANTS MaxEdges,      \* bound: declared edges of a dag
          MaxRows,       \* bound: rows of a table
          MaxDepth,      \* bound: requested depth of an expansion
          MaxLeaseOps,   \* bound: events of a lease script
          MaxEvents,     \* bound: events of a topology stream
          MaxCuts        \* bound: chunk boundaries inside a response body

VARIABLES pc,       \* "called" or "returned"
          call,     \* the algorithm and its argument
          result    \* what it returned

vars == <<pc, call, result>>

Pending == "pending"

Of(alg) == pc = "returned" /\ call.alg = alg

-----------------------------------------------------------------------------
(* validate_dag: declarations of up to four nodes, none, in order, out of   *)
(* order, repeated and one more than MaxDagNodes; every node names the same *)
(* upstreams, none, a declared one or also an undeclared one.               *)

Declarations == {<<>>, <<1>>, <<2, 1>>, <<1, 1>>, <<1, 2, 3>>, <<3, 1, 2>>, <<1, 2, 3, 4>>}

DagShapes ==
    [nodes : Declarations, edges : BoundedSeq(NodeIds \X NodeIds, MaxEdges),
     inputFrom : {[n \in NodeIds |-> u] : u \in {{1}, {1, 4}}}, longCondition : {{}}]

DagConditions ==
    [nodes : {<<1, 2, 3>>}, edges : {<<<<1, 2>>>>}, inputFrom : {[n \in NodeIds |-> {}]},
     longCondition : SUBSET NodeIds]

\* validate_dag accepts a dag exactly when it has between one and MAX_DAG_NODES
\* distinct nodes, names only declared ones, has short conditions and no
\* cycle: the start-node and end-node checks (validation.rs:118-134) refuse
\* nothing else, and Kahn's count (validation.rs:176) misses no cycle, with
\* repeated edges and self-loops.  The order it returns, which the saga walks
\* backwards, lists every node once and no edge goes backwards in it.
AcceptsExactlyTheSound == Of("dag") => JudgedExactly(call.arg, result)

-----------------------------------------------------------------------------
(* Filters that both engines understand (fields of the schema, operators    *)
(* with arguments of the right type, no wildcard) and, in a family of their *)
(* own, parts that are empty, arguments that are null, and conditions one   *)
(* engine refuses.                                                          *)

SchemaDef == [n |-> "number", t |-> "text"]

Rows == [n : {Null, Number(1), Number(2)}, t : {Null, Text({}), Text({"a"})}]

HasNull(row) == \E f \in DOMAIN row : row[f] = Null

Field(cond) == [k |-> "field", field |-> "n", cond |-> cond]
Compared(o, x) == [ops |-> <<[op |-> o, arg |-> x]>>]

Conds ==
    {Compared(o, Number(1)) : o \in {"$eq", "$ne", "$lte", "$gt"}}
    \cup {[ops |-> <<[op |-> "$gte", arg |-> Number(1)], [op |-> "$lt", arg |-> Number(2)]>>]}
    \cup {Compared(o, List(s)) : o \in {"$in", "$nin"}, s \in {{}, {Number(2)}}}

Leaves ==
    {Field(c) : c \in Conds}
    \cup {[k |-> "field", field |-> "t", cond |-> Compared("$contains", Text({"a"}))]}

\* Conditions on null, and what only the in-memory engine takes.
NullLeaves == {Field(Compared(o, Null)) : o \in {"$eq", "$ne", "$lt"}}
              \cup {Field(Compared(o, List({Null, Number(2)}))) : o \in {"$in", "$nin"}}
MemoryOnly == {Field([bare |-> Number(1)]), Field([ops |-> <<>>])}

Single == {<<l>> : l \in Leaves}

Flat == Single \cup {<<l, m>> : l \in Leaves, m \in Leaves}

Logical(S) == {[k |-> o, subs |-> <<f, g>>] : o \in {"and", "or"}, f \in S, g \in S}

\* Two parts side by side or under an operator, with a third beside them, and
\* operators under operators.
FiltersWith(l) ==
    {<<e, l>> : e \in Logical(Single)}
    \cup {<<[k |-> o, subs |-> <<<<e>>, <<l>>>>]>> : o \in {"and", "or"}, e \in Logical(Single)}

\* {}, {"$and": []}, {"$or": []}, {"$and": [{}]}, {"$or": [{}]}.
Empties == {<<>>} \cup {<<[k |-> o, subs |-> s]>> : o \in {"and", "or"}, s \in {<<>>, <<<<>>>>}}

EdgeParts == Empties \cup Single \cup {<<l>> : l \in NullLeaves \cup MemoryOnly}

\* Empty parts and edge conditions alone, in every place of an operator, beside
\* a condition and one level down.
EdgeFilters ==
    EdgeParts
    \cup {<<e>> : e \in Logical(EdgeParts)}
    \cup {e \o l : e \in Empties, l \in Single}
    \cup {<<[k |-> o, subs |-> <<<<e>>, l>>]>> :
             o \in {"and", "or"}, e \in Logical(Empties \cup {<<Field(Compared("$eq", Number(1)))>>}),
             l \in Empties \cup Single}

RECURSIVE Hollow(_), Stripped(_), OrOverHollow(_), Uses(_, _)

\* A part without a condition.
Hollow(f) == \A i \in DOMAIN f : f[i].k # "field" /\ \A j \in DOMAIN f[i].subs : Hollow(f[i].subs[j])

\* The filter without its hollow parts.
Stripped(f) ==
    LET kept == SelectSeq(f, LAMBDA e : ~Hollow(<<e>>))
        Full(e) == LET full == SelectSeq(e.subs, LAMBDA g : ~Hollow(g))
                    IN  [j \in DOMAIN full |-> Stripped(full[j])]
    IN  [i \in DOMAIN kept |-> IF kept[i].k = "field" THEN kept[i]
                               ELSE [kept[i] EXCEPT !.subs = Full(kept[i])]]

\* An alternative without a condition, or no alternative at all.
OrOverHollow(f) ==
    \E i \in DOMAIN f :
        /\ f[i].k # "field"
        /\ \/ f[i].k = "or" /\ (f[i].subs = <<>> \/ \E j \in DOMAIN f[i].subs : Hollow(f[i].subs[j]))
           \/ \E j \in DOMAIN f[i].subs : OrOverHollow(f[i].subs[j])

Uses(f, leaves) ==
    \E i \in DOMAIN f : IF f[i].k = "field" THEN f[i] \in leaves
                        ELSE \E j \in DOMAIN f[i].subs : Uses(f[i].subs[j], leaves)

\* How the two engines relate: match_filter (memory_server.rs), which judges
\* every part on a row, and the WHERE clause of build_object (query.rs), which
\* drops the parts that hold no condition.  The clause selects what the memory
\* engine selects for the filter without those parts; rows are missing from it
\* only through SQL's third truth value (a null in the row or in the filter),
\* and none is added.  Dropping the parts changes nothing as long as no "$or"
\* has one of them or no part at all.  Where one does, the engines differ:
\* {"$or": [{}, x]} is every row in memory and x in SQL, {"$or": []} is no row
\* and every row.  SQL alone refuses a bare value and a condition without
\* operators; a conjunction of no operators is no valid clause.
EnginesAgree ==
    Of("filter") =>
        LET f == call.arg
            nulls == Uses(f, NullLeaves)
        IN  /\ result.accepted <=> ~Uses(f, MemoryOnly)
            /\ result.sql \subseteq result.stripped
            /\ (result.accepted /\ ~nulls) => \A row \in result.stripped \ result.sql : HasNull(row)
            /\ ~OrOverHollow(f) => result.memory = result.stripped
            /\ (Len(f) = 1 /\ f[1].k = "or") =>
                  /\ <<>> \in Range(f[1].subs) => result.memory = Rows
                  /\ f[1].subs = <<>> => result.memory = {} /\ result.sql = Rows

InMemory(filter) ==
    {row \in Rows : InMemoryRows(<<row>>, filter, 1, <<>>) = [ok |-> TRUE, rows |-> <<row>>]}

RunFilter(filter) ==
    [accepted |-> SqlAccepts(filter),
     sql |-> IF SqlAccepts(filter) THEN {row \in Rows : SqlSelects(filter, row)} ELSE {},
     memory |-> InMemory(filter), stripped |-> InMemory(Stripped(filter))]

-----------------------------------------------------------------------------
(* Paging: a table is the sequence of its rows, each with its size.         *)

Table(sizes) == [i \in DOMAIN sizes |-> [row |-> i, size |-> sizes[i]]]

\* What a client gets that follows next_cursor until there is none.
RECURSIVE Follow(_, _, _, _)
Follow(table, cursor, limit, budget) ==
    LET page == AnswerPage(table, cursor, limit, budget)
    IN  <<page>> \o IF page.next_cursor = NoCursor THEN <<>>
                    ELSE Follow(table, page.next_cursor, limit, budget)

Pagings == [sizes : BoundedSeq({3, 5}, MaxRows), limit : 0..(MaxLimit + 2), agent : 0..4, cgn : {0, 3}]

RunPaging(p) ==
    [followed |-> Follow(Table(p.sizes), 0, p.limit, EffectiveBudget(p.agent, p.cgn)),
     streamed |-> StreamFrom(Table(p.sizes), 0, p.limit)]

\* Following next_cursor through the answers of the node (handle_query over
\* sql_provider.rs query) walks the table once and in order, in stretches of at
\* most max_limit rows, whatever limit is asked.  An answer holds the rows of
\* its stretch from the first on, under an estimate within every token budget
\* that is set, and stops short only where one more row would not fit.  Only
\* without a budget does the client therefore get every row: the cursor is that
\* of the uncut page, so the rows cut off one answer are in no other.  The
\* stream of the same query holds every row.
PagesPartition ==
    Of("paging") =>
        LET p == call.arg
            pages == result.followed
            budgets == {p.agent, p.cgn} \ {0}
            First(i) == IF i = 1 THEN 0 ELSE pages[i - 1].next_cursor
            End(i) == IF i = Len(pages) THEN Len(p.sizes) ELSE First(i + 1)
            Reached(i) == First(i) + Len(pages[i].rows)
            Tokens(rows) == FoldLeft(LAMBDA n, r : n + MeasureRow(r.size), 0, rows)
        IN  /\ \A i \in DOMAIN pages :
                  /\ First(i) <= End(i) /\ End(i) - First(i) <= MaxLimit
                  /\ Reached(i) <= End(i)
                  /\ pages[i].rows = SubSeq(Table(p.sizes), First(i) + 1, Reached(i))
                  /\ \A b \in budgets : pages[i].token_est <= b
                  /\ Reached(i) < End(i) =>
                        \E b \in budgets :
                            Tokens(SubSeq(Table(p.sizes), First(i) + 1, Reached(i) + 1)) > b
            /\ budgets = {} => FlattenSeq([i \in DOMAIN pages |-> pages[i].rows]) = Table(p.sizes)
            /\ FlattenSeq(result.streamed) = Table(p.sizes)
            /\ \A i \in DOMAIN result.streamed : result.streamed[i] # <<>>

-----------------------------------------------------------------------------
(* Expansion over every graph of three Complex Nodes, self-references       *)
(* included.                                                                *)

Nodes == 1..3

\* Node 2 is reached over http, at a private host and under another prefix.
Urls == [n \in Nodes |->
            IF n = 2 THEN [scheme |-> "http", prefix |-> "other", private |-> TRUE]
            ELSE [scheme |-> "https", prefix |-> "own", private |-> FALSE]]

UrlOptions ==
    {[allow_http |-> TRUE, allowed_prefixes |-> {}, reject_private |-> FALSE],
     [allow_http |-> FALSE, allowed_prefixes |-> {"own", "other"}, reject_private |-> FALSE],
     [allow_http |-> TRUE, allowed_prefixes |-> {"own"}, reject_private |-> FALSE],
     [allow_http |-> TRUE, allowed_prefixes |-> {}, reject_private |-> TRUE]}

Nets == [refs : [Nodes -> SUBSET Nodes],
         max_depth : {[n \in Nodes |-> AbsoluteMaxDepth], <<2, 1, 0>>},
         url : {Urls}, options : UrlOptions, fetchers : {Nodes, {1, 3}}]

\* Node 2 must not be contacted.
OutOfBounds(o) ==
    ~o.allow_http \/ o.reject_private \/ o.allowed_prefixes = {"own"}

\* The paths without repetition of up to d hops from 1 along references to
\* nodes whose URL is allowed and that admit the depth that is left, fetched by
\* nodes that have a fetcher.
SimplePaths(net, d) ==
    {p \in UNION {[1..k -> Nodes] : k \in 1..(d + 1)} :
        /\ p[1] = 1 /\ IsInjective(p)
        /\ \A i \in DOMAIN p : DepthAdmitted(net, p[i], d + 1 - i)
        /\ \A i \in 2..Len(p) : /\ p[i - 1] \in net.fetchers
                                /\ p[i] \in net.refs[p[i - 1]]
                                /\ ~(p[i] = 2 /\ OutOfBounds(net.options))}

\* The answer to a query of depth d (complex_server.rs handle_query and
\* fetch_child, over all the nodes it reaches) holds the rows of exactly the
\* simple reference paths of up to d hops: cycles end the expansion and cut
\* nothing else, no node answers twice on a path, and a node below refuses a
\* depth it does not allow.
ExpansionExact ==
    Of("expand") => AnswerPaths(result) = SimplePaths(call.arg, call.depth)

-----------------------------------------------------------------------------
(* Conditions: syntax trees over five leaves, written with as few           *)
(* parentheses as the precedence allows.                                    *)

Context == (<<"a", "x">> :> Num(2)) @@ (<<"a", "s">> :> Str(1))
DeepPath == [i \in 1..(MaxInputMappingDepth + 1) |-> "a"]

LeafTokens(name) ==
    CASE name = "true"    -> <<Literal(Bool(TRUE))>>
      [] name = "null"    -> <<PathToken(<<"b", "x">>)>>
      [] name = "greater" -> <<PathToken(<<"a", "x">>), Op(">"), Literal(Num(1))>>
      [] name = "mixed"   -> <<PathToken(<<"a", "s">>), Op("<="), Literal(Num(1))>>
      [] name = "deep"    -> <<PathToken(DeepPath), Op("=="), Literal(NullVal)>>

LeafTrees == {[op |-> "leaf", name |-> n] : n \in {"true", "null", "greater", "mixed", "deep"}}

Compound(S) == {[op |-> "not", l |-> s] : s \in S}
               \cup {[op |-> o, l |-> s, r |-> q] : o \in {"and", "or"}, s \in S, q \in S}

Trees == LET small == LeafTrees \cup Compound(LeafTrees) IN LeafTrees \cup Compound(small)

Level(tree) == CASE tree.op = "or" -> 1 [] tree.op = "and" -> 2 [] OTHER -> 3

\* The tree as the operand of an operator of the given level.
RECURSIVE Written(_, _)
Written(tree, level) ==
    LET plain == CASE tree.op = "leaf" -> LeafTokens(tree.name)
                   [] tree.op = "not"  -> <<Op("!")>> \o Written(tree.l, 3)
                   [] tree.op = "and"  -> Written(tree.l, 2) \o <<Op("&&")>> \o Written(tree.r, 2)
                   [] tree.op = "or"   -> Written(tree.l, 1) \o <<Op("||")>> \o Written(tree.r, 1)
    IN  IF Level(tree) < level THEN <<Op("(")>> \o plain \o <<Op(")")>> ELSE plain

RECURSIVE Holds(_)
Holds(tree) ==
    CASE tree.op = "leaf" -> tree.name \in {"true", "greater"}
      [] tree.op = "not"  -> ~Holds(tree.l)
      [] tree.op = "and"  -> Holds(tree.l) /\ Holds(tree.r)
      [] tree.op = "or"   -> Holds(tree.l) \/ Holds(tree.r)

RECURSIVE Errs(_)
Errs(tree) ==
    CASE tree.op = "leaf" -> tree.name = "deep"
      [] tree.op = "not"  -> Errs(tree.l)
      [] OTHER            -> Errs(tree.l) \/ Errs(tree.r)

\* The one-pass evaluator (condition.rs) gives a condition the value of its
\* syntax tree, with ! before && before ||, and consumes all of it.  It fails
\* exactly when some operand fails: the value of the other side hides no error.
ConditionsEvaluate ==
    Of("condition") =>
        /\ result.ok <=> ~Errs(call.arg)
        /\ result.ok => /\ result.value = Holds(call.arg)
                        /\ result.pos = Len(Written(call.arg, 1)) + 1

-----------------------------------------------------------------------------
(* Portable tasks: every dependency graph of three nodes with succeeding or *)
(* rejected attempts and compensations; retry scripts of one node; and      *)
(* conditions, mappings, preflight and cancellation along a chain.          *)

Obj(v) == [x |-> [array |-> FALSE, items |-> <<v>>]]
Ok == [kind |-> "success", error |-> "none", retryable |-> FALSE, result |-> Obj(1)]
Bad(kind, error, retryable) ==
    [kind |-> kind, error |-> error, retryable |-> retryable, result |-> Obj(0)]
TimeoutOutcome == Bad("timeout", "none", FALSE)
Flaky == Bad("error", "busy", TRUE)
Rejected == Bad("error", "delegate_rejected", FALSE)

Plain(deps) ==
    [deps |-> deps, script |-> [n \in DOMAIN deps |-> <<Ok>>], retries |-> <<>>,
     retry_on |-> [n \in DOMAIN deps |-> AnyError], condition |-> [n \in DOMAIN deps |-> Always],
     mapping |-> [n \in DOMAIN deps |-> {}], available |-> [n \in DOMAIN deps |-> TRUE],
     undo |-> [n \in DOMAIN deps |-> "success"], task_retries |-> 1, preflight |-> FALSE,
     cancel_before |-> 0, policy |-> "none", aggregate |-> "merge"]

Graphs3 == {d \in [1..3 -> SUBSET (1..3)] : \A n \in 1..3 : n \notin d[n] \/ n = 3}
           \cup {<<{}, {1, 4}, {}>>}

SagaTasks ==
    {[Plain(d) EXCEPT !.script = s, !.policy = p, !.undo = u] :
        d \in Graphs3, p \in {"none", "best_effort", "strict"},
        s \in {[n \in 1..3 |-> IF n = f THEN <<Rejected>> ELSE <<Ok>>] : f \in 1..4},
        u \in {[n \in 1..3 |-> "success"], <<"failure", "success", "success">>,
               <<"success", "none", "failure">>}}

RetryTasks ==
    {[Plain(<<{}, {1}>>) EXCEPT !.script = <<s, <<Ok>>>>, !.retries = <<r>>, !.retry_on[1] = e] :
        s \in BoundedSeq({Ok, TimeoutOutcome, Flaky, Rejected}, 3), r \in 0..2,
        e \in {AnyError, {"delegate_timeout"}, {}}}

Values == {[array |-> FALSE, items |-> <<1>>], [array |-> TRUE, items |-> <<2, 3>>]}

\* The condition of node 2 looks at node 1, which returns v, or at node 3.
ChainConditions ==
    {Always, [node |-> 3, op |-> "==", literal |-> 1]}
    \cup [node : {1}, op : {"==", "!=", ">", ">=", "<", "<="}, literal : 0..2]

ChainTasks ==
    {[Plain(<<{}, {1}, {2}>>) EXCEPT !.script[1] = <<[Ok EXCEPT !.result = [x |-> v]]>>,
                                     !.condition[2] = c, !.mapping[3] = m, !.preflight = p,
                                     !.available[2] = a, !.cancel_before = b, !.policy = y] :
        v \in Values, c \in ChainConditions, m \in {{}, {1}, {1, 2}}, p \in BOOLEAN, a \in BOOLEAN,
        b \in {0, 2, 3}, y \in {"none", "best_effort", "strict"}}

MergeTasks ==
    {[Plain(<<{}, {}>>) EXCEPT !.aggregate = g,
          !.script = <<<<[Ok EXCEPT !.result = [x |-> v]]>>, <<[Ok EXCEPT !.result = [x |-> w]]>>>>] :
        g \in {"all", "merge", "merge_all"}, v \in Values, w \in Values}

PortableTasks == SagaTasks \cup RetryTasks \cup ChainTasks \cup MergeTasks

\* The nodes below n: the smallest set that holds its dependencies and theirs.
Below(t, n) ==
    LET Closed(S) == t.deps[n] \subseteq S /\ \A m \in S : t.deps[m] \subseteq S
        closed == {S \in SUBSET Ids(t) : Closed(S)}
    IN  {m \in Ids(t) : \A S \in closed : m \in S}

TaskCyclic(t) == \E n \in Ids(t) : n \in Below(t, n)

\* The number of attempts a node's script and its retry settings allow.
Tries(t, n) ==
    LET Ends(k) == \/ t.script[n][k].kind = "success"
                   \/ t.script[n][k] = Rejected
                   \/ t.retry_on[n] # AnyError /\ ErrorOf(t.script[n][k]) \notin t.retry_on[n]
                   \/ k = RetriesOf(t, n) + 1 \/ k = Len(t.script[n])
    IN  IF t.script[n] = <<>> THEN 0 ELSE Least({k \in DOMAIN t.script[n] : Ends(k)})

Succeeds(t, n) == Tries(t, n) > 0 /\ t.script[n][Tries(t, n)].kind = "success"

Done(r) == {n \in DOMAIN r.states :
               r.states[n] \in {"completed", "compensated", "compensation_failed"}}

\* The nodes whose attempts were used up without success.
GaveUp(t, r) == {n \in DOMAIN r.attempts \ Done(r) : ~Succeeds(t, n) /\ ~StateIs(r, n, "skipped")}

Position(r, e) == Least({i \in DOMAIN r.events : r.events[i] = e})

\* What compensation does when f gave up: everything done below f and nothing
\* beside it, a node always before the nodes it depends on.
UndoneRight(t, r, f) ==
    LET due == {n \in Below(t, f) \cap Done(r) : t.undo[n] # "none"}
        able == due = Below(t, f) \cap Done(r)
        undone == ToSet(r.compensation)
        failed == {n \in undone : t.undo[n] = "failure"}
    IN  /\ IsInjective(r.compensation)
        /\ \A i, j \in DOMAIN r.compensation :
              r.compensation[j] \in Below(t, r.compensation[i]) => i < j
        /\ \A n \in Done(r) : r.states[n] = IF n \notin undone THEN "completed"
                                ELSE IF n \in failed THEN "compensation_failed" ELSE "compensated"
        /\ CASE t.policy = "none" -> undone = {}
             [] t.policy = "best_effort" -> undone = due
             [] t.policy = "strict" /\ ~able ->
                  undone = {} /\ r.error = "compensation_not_supported"
             [] t.policy = "strict" /\ able /\ failed = {} -> undone = due
             [] OTHER -> /\ failed = {Last(r.compensation)} /\ undone \subseteq due
                         /\ r.error = "compensation_failed"

\* Where a result lies to a literal, and where it must lie.
Lies(v, literal) ==
    IF v.array THEN "apart"
    ELSE IF v.items[1] < literal THEN "below" ELSE IF v.items[1] = literal THEN "at" ELSE "above"

Admitted(op) ==
    CASE op = "==" -> {"at"}    [] op = "!=" -> {"apart", "below", "above"}
      [] op = "<"  -> {"below"} [] op = "<=" -> {"below", "at"}
      [] op = ">"  -> {"above"} [] op = ">=" -> {"above", "at"}

\* A condition is judged on what the script has the node it names return, and
\* fails the task when that node is not done or an array is put in order.
ConditionsJudged(t, r) ==
    \A n \in DOMAIN r.states :
        LET c == t.condition[n]
            v == t.script[c.node][Tries(t, c.node)].result.x
            wrong == c.node \notin Done(r) \/ (v.array /\ c.op \notin {"==", "!="})
        IN  c # Always =>
              /\ (r.states[n] = "failed" /\ r.error = "condition_eval_error") <=> wrong
              /\ ~wrong => (r.states[n] = "skipped" <=> Lies(v, c.literal) \notin Admitted(c.op))

\* A mapping fails its task exactly when a node it names has no result.
MappingsJudged(t, r) ==
    LET missing == {n \in DOMAIN r.states : ~(t.mapping[n] \subseteq Done(r))}
    IN  /\ \A n \in missing : r.states[n] = "skipped"
                              \/ (r.states[n] = "failed" /\ r.error = "input_mapping_error")
        /\ r.error = "input_mapping_error" => \E n \in missing : r.states[n] = "failed"

\* The transcript of a task (portable_profile.rs evaluate_orchestration) is the
\* one its script calls for: it completes exactly when every node completes or
\* is skipped; a node is attempted as often as its script and retry settings
\* allow and only after the nodes it depends on have settled; one node at most
\* fails, and then exactly the completed nodes below it are compensated,
\* dependents first, as the policy says; a task that ends by a condition, a
\* mapping or a cancellation compensates nothing, whatever its policy; the
\* aggregate is that of the sinks.
TranscriptExact ==
    Of("portable") =>
        LET t == call.arg
            r == result
            settled == Done(r) \cup {n \in DOMAIN r.states : r.states[n] = "skipped"}
        IN  IF ~Known(t) \/ TaskCyclic(t)
            THEN r.error = "task_dag_cycle" /\ DOMAIN r.attempts = {}
            ELSE /\ r.error # "task_dag_cycle"
                 /\ r.terminal = "completed" <=> settled = Ids(t)
                 /\ Last(r.events) = <<0, r.terminal>>
                 /\ \A n \in DOMAIN r.attempts :
                       /\ t.deps[n] \subseteq settled
                       /\ r.attempts[n] \in {0, Tries(t, n)}
                       /\ r.attempts[n] = Len(SelectSeq(r.events, LAMBDA e : e = <<n, "attempt">>))
                       /\ n \in Done(r) => Succeeds(t, n) /\ r.attempts[n] = Tries(t, n)
                       /\ n \in DOMAIN r.states => \A m \in t.deps[n] :
                             \A i \in DOMAIN r.events : r.events[i][1] = n =>
                                \E j \in 1..(i - 1) : r.events[j] \in {<<m, "completed">>, <<m, "skipped">>}
                 /\ Cardinality(GaveUp(t, r)) <= 1
                 /\ \A f \in GaveUp(t, r) : UndoneRight(t, r, f)
                 /\ GaveUp(t, r) = {} => r.compensation = <<>>
                 /\ ConditionsJudged(t, r) /\ MappingsJudged(t, r)
                 /\ (t \in MergeTasks /\ t.aggregate # "all") =>
                       LET v == t.script[1][1].result.x
                           w == t.script[2][1].result.x
                       IN  r.aggregate.x = IF t.aggregate = "merge_all" /\ v.array /\ w.array
                                           THEN [array |-> TRUE, items |-> v.items \o w.items] ELSE w

-----------------------------------------------------------------------------
(* Lease scripts: two runners claim and renew one task's lease, the clock   *)
(* standing still or reaching the minimal lease's end between two events.   *)

LeaseOps == [op : {"claim", "renew"}, runner : 1..2, delta : {0, 10}, seconds : {5, 20}]

TimeAt(ops, i) == FoldLeft(LAMBDA at, o : at + o.delta, 0, SubSeq(ops, 1, i))

Timed(ops) ==
    [i \in DOMAIN ops |-> [op |-> ops[i].op, task |-> 1, runner |-> ops[i].runner,
                           at |-> TimeAt(ops, i), seconds |-> ops[i].seconds]]

Granted(i) == result[i] \in {"granted", "reclaimed"}

\* When the lease runner w holds before event i ends, 0 if it holds none.
HeldUntil(script, i, w) ==
    LET mine == {j \in 1..(i - 1) : script[j].runner = w /\ Granted(j)}
        j == CHOOSE k \in mine : \A m \in mine : m <= k
    IN  IF mine = {} THEN 0 ELSE script[j].at + LeaseSeconds(script[j])

\* However claims and renewals interleave (portable_profile.rs evaluate_lease),
\* a lease is granted exactly when no other runner's unexpired lease is in the
\* way, a renewal only to the one that holds it; so no two runners ever hold
\* it, and an expired lease can always be claimed.
LeaseExclusive ==
    Of("lease") =>
        \A i \in DOMAIN call.arg :
            LET e == call.arg[i]
                other == HeldUntil(call.arg, i, 3 - e.runner) > e.at
            IN  IF e.op = "claim" THEN Granted(i) <=> ~other
                ELSE Granted(i) <=> (HeldUntil(call.arg, i, e.runner) > e.at /\ ~other)

-----------------------------------------------------------------------------
(* Topology requests, and subscriptions over a connection that cuts the     *)
(* body into chunks, may lose its tail and may break.                       *)

WideDef == {"wide"}

TopologyEvents == {[type |-> ty, of |-> o] :
                      ty \in {"member_joined", "anchor_state", "resync_required"},
                      o \in {"plain", "wide"}}

Versioned(evs) ==
    [i \in DOMAIN evs |-> [type |-> evs[i].type, of |-> evs[i].of,
                           version |-> IF IsResync(evs[i]) THEN 0 ELSE i]]

\* A line of another origin after the ack: an unknown event or an error.
Foreign == {<<>>, <<[type |-> "member_renamed", seq |-> 1, payload |-> "plain"]>>,
            <<[type |-> "error", seq |-> 0, payload |-> "plain"]>>}

StreamLines(events, foreign) ==
    LET lines == SubscriptionLines(events) IN <<Head(lines)>> \o foreign \o Tail(lines)

Cuts == {c \in SUBSET (1..13) : Cardinality(c) <= MaxCuts}

DeliveriesOf(events, foreign) ==
    LET size == Len(Body(StreamLines(events, foreign)))
    IN  UNION {[events : {events}, foreign : {foreign}, arrived : {n}, how : {"closed", "broken"},
                cuts : {c \in Cuts : c \subseteq 1..(n - 1)}] : n \in 0..size}

Chunks(body, cuts) ==
    LET ends == SetToSortSeq(cuts \cup {Len(body)}, <)
    IN  [i \in DOMAIN ends |-> SubSeq(body, IF i = 1 THEN 1 ELSE ends[i - 1] + 1, ends[i])]

Arrived(d) == SubSeq(Body(StreamLines(d.events, d.foreign)), 1, d.arrived)

SnapshotRequests == [scope : {"cluster", "member", "galaxy"}, depth : 0..2,
                     include : SUBSET {"members", "tags", "colours"}, target : {<<>>, <<"">>, <<"m">>}]
StreamRequests == [scope : {"cluster", "member", "galaxy"}, since : {<<>>, <<0>>, <<7>>},
                   filter : SUBSET {"tags_any", "node_roles"}]

\* The events a subscriber is owed: those up to the first resync.
Owed(events) ==
    CHOOSE p \in {SubSeq(events, 1, k) : k \in 0..Len(events)} :
        /\ \A i \in 1..(Len(p) - 1) : ~IsResync(events[i])
        /\ Len(p) = Len(events) \/ (Len(p) > 0 /\ IsResync(Last(p)))

\* A cut that falls between the two bytes of a character.
SplitsCharacter(d) ==
    LET body == Arrived(d)
    IN  \E c \in d.cuts \cup {d.arrived} :
            c \in DOMAIN body /\ body[c].line.payload \in Wide /\ body[c].part = 2

\* What a subscriber receives of what the server sent.
EventsReceived ==
    Of("stream") =>
        LET d == call.arg
            lines == StreamLines(d.events, d.foreign)
            whole == d.arrived = Len(Body(lines))
            refused == d.foreign # <<>> /\ d.foreign[1].type = "error"
        IN  /\ IsPrefix(result.yielded, Owed(d.events))
            /\ (whole /\ ~SplitsCharacter(d) /\ ~refused) =>
                  result.yielded = Owed(d.events)
            /\ (whole /\ refused /\ ~SplitsCharacter(d)) => result.over = "protocol_error"
            /\ SplitsCharacter(d) => result.over \notin {"closed", "transport_error"}
            /\ result.over = "resync" <=>
                  result.yielded # <<>> /\ IsResync(Last(result.yielded))

\* A server with or without the capability check and a topology service.
TopologyServers ==
    [require_topology_capability : BOOLEAN,
     topology : {Absent, <<[version |-> 3, members |-> {"m", "n"},
                            events |-> Versioned(<<[type |-> "member_joined", of |-> "plain"],
                                                   [type |-> "resync_required", of |-> "wide"],
                                                   [type |-> "member_left", of |-> "plain"]>>)]>>}]

Clients == [server : TopologyServers, capabilities : {{}, {"topology:read"}}]

\* What the client is told when the request itself is sound.
Owes(c, answer) ==
    CASE c.server.require_topology_capability /\ c.capabilities = {} ->
           [protocol |-> "topology_unauthorized"]
      [] ~(c.server.require_topology_capability /\ c.capabilities = {}) /\ c.server.topology = Absent ->
           [protocol |-> "node_unavailable"]
      [] OTHER -> answer

\* What the server reads in a request the client wrote, and the answer.
RequestsUnderstood ==
    /\ Of("snapshot") =>
         LET req == call.arg
             bad == req.scope = "galaxy" \/ (req.scope = "member" /\ req.target # <<"m">>)
             service == call.client.server.topology[1]
         IN  IF bad THEN /\ result.read = Refused("topology_unsupported_scope")
                         /\ result.answer =
                               Owes(call.client, [protocol |-> "topology_unsupported_scope"])
             ELSE /\ result.read = [req EXCEPT !.depth = IF @ = 0 THEN 1 ELSE @,
                                        !.include = IF @ \subseteq {"colours"} THEN {"members"}
                                                    ELSE @ \ {"colours"}]
                  /\ result.answer = Owes(call.client,
                        [version |-> service.version, cluster_size |-> 2,
                         members |-> IF req.include \subseteq {"colours"} \/ "members" \in req.include
                                     THEN service.members ELSE {}])
    /\ Of("subscribe") =>
         IF call.arg.scope = "galaxy"
         THEN /\ result.read = Refused("topology_unsupported_scope")
              /\ result.answer = Owes(call.client, [protocol |-> "topology_unsupported_scope"])
         ELSE /\ result.read = call.arg
              /\ result.answer = Owes(call.client,
                    [events |-> Owed(call.client.server.topology[1].events)])

\* A subscriber (anchor_client.rs parse_event_stream) receives a prefix of the
\* events the server sent up to the first resync, in order and with their
\* versions, wherever HTTP cuts the body, and all of them when the body arrives
\* and no cut splits a character; it takes an error or a cut line for what it
\* is.  What the server reads from a request (anchor_server.rs
\* parse_snapshot_request, parse_stream_request) is what the client asked
\* (get_snapshot_with, subscribe_with) with the defaults filled in, and the
\* answer is the first refusal that applies, under the server's own code, or
\* the snapshot or events asked for.
TopologyRoundTrip == EventsReceived /\ RequestsUnderstood

-----------------------------------------------------------------------------
(* Verifications: a sound frame, a lax verifier and a plain context, with   *)
(* every combination of what the steps look at.                             *)

SoundFrame ==
    [expires_at |-> <<9>>, issued_by |-> <<"ca">>, signature_valid |-> TRUE, assurance |-> 1,
     v2 |-> TRUE, chain_valid |-> TRUE, node_roles |-> {"r"}, capabilities |-> {"c"},
     leaf_roles |-> <<{"r"}>>, leaf_caps |-> <<{"c", "d"}>>, staple |-> <<9>>,
     serial |-> <<7>>, scope_nodes |-> <<{<<"*">>}>>]

LaxOptions ==
    [trusted |-> {"ca"}, min_assurance |-> 0, x509_roots |-> TRUE, phase3_enforcement |-> TRUE,
     local_crl_configured |-> FALSE, local_revoked |-> {}, revocation_check |-> <<>>,
     revocation_store |-> <<>>, ocsp_url |-> <<>>, ocsp_fail_open |-> FALSE,
     revocation_required |-> FALSE]

PlainContext == [now |-> 5, issuer |-> "ca", required_capabilities |-> {}, target |-> <<>>]

\* Each of the six steps failing or not, in every combination.
StepFrames ==
    {[frame |-> [SoundFrame EXCEPT !.expires_at = x, !.issued_by = i, !.signature_valid = v],
      options |-> [LaxOptions EXCEPT !.trusted = t, !.local_revoked = l, !.min_assurance = m],
      context |-> [PlainContext EXCEPT !.required_capabilities = r, !.target = g]] :
        x \in {<<>>, <<5>>, <<9>>}, i \in {<<>>, <<"ca">>, <<"cb">>}, v \in BOOLEAN,
        t \in {{}, {"ca"}}, l \in {{}, {7}}, m \in {0, 2}, r \in {{}, {"c"}, {"e"}}, g \in {<<>>, <<<<"a">>>>}}

\* The chain and Phase 3.
ChainFrames ==
    {[frame |-> [SoundFrame EXCEPT !.v2 = v, !.chain_valid = h, !.leaf_roles = r,
                                   !.leaf_caps = c, !.staple = s],
      options |-> [LaxOptions EXCEPT !.x509_roots = x, !.phase3_enforcement = p],
      context |-> PlainContext] :
        v \in BOOLEAN, h \in BOOLEAN, x \in BOOLEAN, p \in BOOLEAN,
        r \in {<<>>, <<{}>>, <<{"r", "s"}>>}, c \in {<<>>, <<{"d"}>>, <<{"c"}>>},
        s \in {<<>>, <<5>>, <<6>>}}

\* Every combination of revocation sources and what they say.
RevocationFrames ==
    {[frame |-> [SoundFrame EXCEPT !.serial = n],
      options |-> [LaxOptions EXCEPT !.local_crl_configured = k, !.local_revoked = l,
                       !.revocation_check = b, !.revocation_store = s, !.ocsp_url = u,
                       !.ocsp_fail_open = o, !.revocation_required = q],
      context |-> PlainContext] :
        n \in {<<>>, <<7>>}, k \in BOOLEAN, l \in {{}, {7}, {8}},
        b \in {<<>>, <<Valid>>, <<Fail(4, "callback")>>}, s \in {<<>>, <<{}>>, <<{7}>>},
        u \in {<<>>} \cup {<<a>> : a \in OcspAnswers}, o \in BOOLEAN, q \in BOOLEAN}

\* Scope patterns and paths of up to three characters.
ScopeFrames ==
    {[frame |-> [SoundFrame EXCEPT !.scope_nodes = s], options |-> LaxOptions,
      context |-> [PlainContext EXCEPT !.target = <<p>>]] :
        s \in {<<>>, <<{}>>} \cup {<<{t}>> : t \in BoundedSeq({"a", "A", "/", "*"}, 3)},
        p \in BoundedSeq({"a", "b", "/"}, 3)}

Verifications == StepFrames \cup ChainFrames \cup RevocationFrames \cup ScopeFrames

\* A frame is accepted (verifier.rs verify) exactly when it passes each of the
\* six steps taken alone, and the step reported is the first it does not
\* pass.  Failing open forgives only an OCSP endpoint that says nothing:
\* whatever the other sources, their order and the mode, a certificate some
\* source knows to be revoked is refused (revocation_policy.rs observe).
VerifierExact ==
    Of("verify") => VerdictExact(call.arg.frame, call.arg.options, call.arg.context, result)

-----------------------------------------------------------------------------
Call(alg, S) == \E a \in S : call = [alg |-> alg, arg |-> a]

Init ==
    /\ pc = "called" /\ result = Pending
    /\ \/ Call("dag", DagShapes)
       \/ Call("dag", DagConditions)
       \/ Call("filter", Flat)
       \/ \E o \in {"and", "or"}, f \in Flat, g \in Flat :
             Call("filter", {<<[k |-> o, subs |-> <<f, g>>]>>})
       \/ \E l \in Leaves : Call("filter", FiltersWith(l))
       \/ Call("filter", EdgeFilters)
       \/ Call("paging", Pagings)
       \/ call \in {[alg |-> "expand", arg |-> net, depth |-> d] : net \in Nets, d \in 0..MaxDepth}
       \/ Call("condition", Trees)
       \/ Call("portable", PortableTasks)
       \/ \E ops \in [1..MaxLeaseOps -> LeaseOps] : Call("lease", {Timed(ops)})
       \/ \E evs \in BoundedSeq(TopologyEvents, MaxEvents), foreign \in Foreign :
             Call("stream", DeliveriesOf(Versioned(evs), foreign))
       \/ call \in {[alg |-> "snapshot", arg |-> r, client |-> c] : r \in SnapshotRequests, c \in Clients}
       \/ call \in {[alg |-> "subscribe", arg |-> r, client |-> c] : r \in StreamRequests, c \in Clients}
       \/ Call("verify", Verifications)

Returns(alg, val) ==
    pc = "called" /\ call.alg = alg /\ pc' = "returned" /\ result' = val /\ UNCHANGED call

DagCall == Returns("dag", ValidateDag(call.arg))
FilterCall == Returns("filter", RunFilter(call.arg))
PagingCall == Returns("paging", RunPaging(call.arg))
ExpandCall == Returns("expand", HandleQuery(call.arg, 1, call.depth, <<>>))
ConditionCall == Returns("condition", Evaluate(Written(call.arg, 1), Context))
PortableCall == Returns("portable", EvaluateOrchestration(call.arg))
LeaseCall == Returns("lease", EvaluateLease(call.arg))
StreamCall == Returns("stream", ParseEventStream(Chunks(Arrived(call.arg), call.arg.cuts), call.arg.how))
SnapshotCall ==
    Returns("snapshot", [read |-> ParseSnapshotRequest(SnapshotBody(call.arg)),
                         answer |-> GetSnapshot(call.client.server, call.client.capabilities, call.arg)])
SubscribeCall ==
    Returns("subscribe", [read |-> ParseStreamRequest(StreamBody(call.arg)),
                          answer |-> Subscribe(call.client.server, call.client.capabilities, call.arg)])
VerifyCall == Returns("verify", Verify(call.arg.frame, call.arg.options, call.arg.context))

Next == \/ DagCall \/ FilterCall \/ PagingCall \/ ExpandCall \/ ConditionCall
        \/ PortableCall \/ LeaseCall \/ StreamCall \/ SnapshotCall \/ SubscribeCall
        \/ VerifyCall

Spec == Init /\ [][Next]_vars
=============================================================================
