----------------------------- MODULE MemoryNode -----------------------------
(***************************************************************************)
(* The two query engines of a Memory Node: the in-memory provider          *)
(* (nps-nwp/src/memory_server.rs), which evaluates the NWP filter on each  *)
(* row, and the SQL provider (query.rs, sql_provider.rs), which translates *)
(* it to a WHERE clause, pages with an offset cursor and streams.          *)
(*                                                                         *)
(* A JSON object is the sequence of its entries in key order, the order    *)
(* serde_json iterates in.  A filter entry is [k |-> "and" | "or", subs]   *)
(* or [k |-> "field", field, cond]; a condition is [bare |-> value] or     *)
(* [ops |-> <<[op, arg], ...>>].  A text is the set of the pieces it holds *)
(* ("%" stands for a wildcard), a number is itself; SQL is its syntax      *)
(* tree.                                                                   *)
(***************************************************************************)
EXTENDS Integers, Sequences, FiniteSets

CONSTANTS Schema,         \* field -> "number" | "text", the fields of the schema
          DefaultLimit,   \* MemoryNodeOptions.default_limit
          MaxLimit        \* MemoryNodeOptions.max_limit

ASSUME MemoryNodeAssumption == DefaultLimit \in Nat /\ MaxLimit \in Nat

Null == [type |-> "null"]
Number(n) == [type |-> "number", n |-> n]
Text(pieces) == [type |-> "text", pieces |-> pieces]
List(items) == [type |-> "list", items |-> items]

Least(S) == CHOOSE n \in S : \A m \in S : n <= m

\* The first verdict that is not v ends the loop with it.
FirstNot(v, verdicts) ==
    LET others == {i \in DOMAIN verdicts : verdicts[i] # v}
    IN  IF others = {} THEN v ELSE verdicts[Least(others)]

Verdict(b) == IF b THEN "true" ELSE "false"

-----------------------------------------------------------------------------
(***************************************************************************)
(* The in-memory engine: "true", "false", or "error" (filter_invalid).     *)
(***************************************************************************)

BothNumbers(v, w) == v.type = "number" /\ w.type = "number"

\* match_field_cond, one operator.
MatchOp(actual, op, x) ==
    CASE op = "$eq"  -> Verdict(actual = x)
      [] op = "$ne"  -> Verdict(actual # x)
      [] op = "$lt"  -> Verdict(BothNumbers(actual, x) /\ actual.n < x.n)
      [] op = "$lte" -> Verdict(BothNumbers(actual, x) /\ actual.n <= x.n)
      [] op = "$gt"  -> Verdict(BothNumbers(actual, x) /\ actual.n > x.n)
      [] op = "$gte" -> Verdict(BothNumbers(actual, x) /\ actual.n >= x.n)
      [] op = "$in"  -> Verdict(x.type = "list" /\ actual \in x.items)
      [] op = "$nin" -> Verdict(x.type = "list" /\ actual \notin x.items)
      [] op = "$contains" -> Verdict(/\ actual.type = "text" /\ x.type = "text"
                                     /\ x.pieces \subseteq actual.pieces)
      [] OTHER -> "error"

\* match_field_cond: a bare value is an equality.
MatchFieldCond(actual, cond) ==
    IF "bare" \in DOMAIN cond THEN Verdict(actual = cond.bare)
    ELSE FirstNot("true", [i \in DOMAIN cond.ops |->
                             MatchOp(actual, cond.ops[i].op, cond.ops[i].arg)])

RECURSIVE MatchFilter(_, _)

\* match_filter: a conjunction of the entries; a column the row lacks is null.
MatchFilter(row, filter) ==
    LET Subs(e) == [j \in DOMAIN e.subs |-> MatchFilter(row, e.subs[j])]
        Actual(field) == IF field \in DOMAIN row THEN row[field] ELSE Null
    IN  FirstNot("true", [i \in DOMAIN filter |->
          LET e == filter[i]
          IN  CASE e.k = "and" -> FirstNot("true", Subs(e))
                [] e.k = "or"  -> FirstNot("false", Subs(e))
                [] OTHER       -> MatchFieldCond(Actual(e.field), e.cond)])

-----------------------------------------------------------------------------
(***************************************************************************)
(* The translation to SQL.  NoClause is the empty string of the code.      *)
(***************************************************************************)

NoClause == [sql |-> "none"]
Error(code) == [sql |-> "error", code |-> code]
Joined(op, parts) == [sql |-> op, parts |-> parts]

\* The first error of the parts; otherwise the parts joined, the empty ones
\* dropped, with none and one as special cases.
Join(op, parts) ==
    LET errors == {i \in DOMAIN parts : parts[i].sql = "error"}
        kept == SelectSeq(parts, LAMBDA c : c # NoClause)
    IN  CASE errors # {}    -> parts[Least(errors)]
          [] Len(kept) = 0  -> NoClause
          [] Len(kept) = 1  -> kept[1]
          [] OTHER          -> Joined(op, kept)

SimpleOps == {"$eq", "$ne", "$lt", "$lte", "$gt", "$gte", "$contains"}

\* build_in: an empty $in is false, an empty $nin is true.
BuildIn(field, op, x) ==
    CASE x.type # "list" -> Error("filter_invalid")
      [] x.type = "list" /\ x.items = {} -> [sql |-> "const", value |-> op = "$nin"]
      [] OTHER -> [sql |-> "cmp", field |-> field, op |-> op, arg |-> x]

BuildBetween(field, x) ==
    IF x.type = "pair"
    THEN [sql |-> "cmp", field |-> field, op |-> "$between", arg |-> x]
    ELSE Error("filter_invalid")

BuildSimple(field, op, x) ==
    IF op \in SimpleOps THEN [sql |-> "cmp", field |-> field, op |-> op, arg |-> x]
    ELSE Error("filter_invalid")

\* build_field_condition: "()" when there is no operator.
BuildFieldCondition(field, cond) ==
    IF "bare" \in DOMAIN cond THEN Error("filter_invalid")
    ELSE LET parts == [i \in DOMAIN cond.ops |->
                LET op == cond.ops[i].op
                    x == cond.ops[i].arg
                IN  CASE op \in {"$in", "$nin"} -> BuildIn(field, op, x)
                      [] op = "$between"        -> BuildBetween(field, x)
                      [] OTHER                  -> BuildSimple(field, op, x)]
         IN  IF parts = <<>> THEN [sql |-> "unparsable"] ELSE Join("and", parts)

RECURSIVE BuildObject(_)

\* build_logical with its separator replaced by AND.
BuildLogical_Faulty(e) == Join("and", [j \in DOMAIN e.subs |-> BuildObject(e.subs[j])])

\* build_logical.
BuildLogical(e) == Join(e.k, [j \in DOMAIN e.subs |-> BuildObject(e.subs[j])])

\* build_object, with validate_field.
BuildObject(filter) ==
    Join("and", [i \in DOMAIN filter |->
        LET e == filter[i]
        IN  CASE e.k \in {"and", "or"} -> BuildLogical(e)
              [] e.k = "field" /\ e.field \in DOMAIN Schema ->
                   BuildFieldCondition(e.field, e.cond)
              [] OTHER -> Error("field_unknown")])

(***************************************************************************)
(* What a database makes of the clause: SQL's three-valued logic.          *)
(***************************************************************************)

SqlCompare(v, op, x) ==
    CASE v = Null \/ x = Null -> "unknown"
      [] op = "$contains" -> Verdict((x.pieces \ {"%"}) \subseteq v.pieces)
      [] op = "$nin" -> IF Null \in x.items
                        THEN (IF v \in x.items THEN "false" ELSE "unknown")
                        ELSE Verdict(v \notin x.items)
      [] op = "$in" -> IF v \in x.items THEN "true"
                       ELSE IF Null \in x.items THEN "unknown" ELSE "false"
      [] op = "$between" -> Verdict(x.low <= v.n /\ v.n <= x.high)
      [] OTHER -> MatchOp(v, op, x)

RECURSIVE SqlEval(_, _)

SqlEval(c, row) ==
    CASE c.sql = "none"  -> "true"
      [] c.sql = "const" -> Verdict(c.value)
      [] c.sql = "cmp"   -> SqlCompare(row[c.field], c.op, c.arg)
      [] OTHER ->
           LET vs == {SqlEval(c.parts[i], row) : i \in DOMAIN c.parts}
               unit == IF c.sql = "and" THEN "true" ELSE "false"
               zero == IF c.sql = "and" THEN "false" ELSE "true"
           IN  CASE zero \in vs -> zero
                 [] "unknown" \in vs -> "unknown"
                 [] OTHER -> unit

\* The executor refuses what does not parse; the clause tree never holds an
\* error (Join returns it).
RECURSIVE Parses(_)
Parses(c) ==
    CASE c.sql \in {"none", "const", "cmp"} -> TRUE
      [] c.sql \in {"and", "or"} -> \A i \in DOMAIN c.parts : Parses(c.parts[i])
      [] OTHER -> FALSE

\* translate, and the rows the database returns for the clause.
SqlSelects(filter, row) == SqlEval(BuildObject(filter), row) = "true"

SqlAccepts(filter) == Parses(BuildObject(filter))

-----------------------------------------------------------------------------
(***************************************************************************)
(* Paging: a limit of 0 asks for the default; the cursor is the offset of  *)
(* the next row, and encode_cursor has none for an offset of 0.  "table"   *)
(* is the selected rows in the order of the query.                         *)
(***************************************************************************)

NoCursor == 0

PageLimit(limit) ==
    LET asked == IF limit = 0 THEN DefaultLimit ELSE limit
    IN  IF asked < MaxLimit THEN asked ELSE MaxLimit

EncodeCursor(offset) == IF offset <= 0 THEN NoCursor ELSE offset

PageRows(table, cursor, limit) ==
    SubSeq(table, cursor + 1,
           IF cursor + limit < Len(table) THEN cursor + limit ELSE Len(table))

\* SqlMemoryNodeProvider::query with a cursor one row too far.
Query_Faulty(table, cursor, limit) ==
    LET rows == PageRows(table, cursor, PageLimit(limit))
    IN  [rows |-> rows,
         next_cursor |-> IF Len(rows) = PageLimit(limit)
                         THEN EncodeCursor(cursor + PageLimit(limit) + 1) ELSE NoCursor]

\* SqlMemoryNodeProvider::query: a full page has a successor.
Query(table, cursor, limit) ==
    LET rows == PageRows(table, cursor, PageLimit(limit))
    IN  [rows |-> rows,
         next_cursor |-> IF Len(rows) = PageLimit(limit)
                         THEN EncodeCursor(cursor + PageLimit(limit)) ELSE NoCursor]

RECURSIVE StreamFrom(_, _, _)

\* The loop of SqlMemoryNodeProvider::stream: its pages.
StreamFrom(table, cursor, limit) ==
    LET rows == PageRows(table, cursor, PageLimit(limit))
    IN  CASE rows = <<>> -> <<>>
          [] Len(rows) < PageLimit(limit) -> <<rows>>
          [] OTHER -> <<rows>> \o StreamFrom(table, EncodeCursor(cursor + Len(rows)), limit)

(***************************************************************************)
(* handle_query of the node, over a provider that answers as the SQL one   *)
(* does (the crate leaves that provider to the host).  A page that         *)
(* measures more than the budget is cut.  "sizes" are the bytes of the     *)
(* rows as JSON; a token is four bytes, and an array has brackets and      *)
(* commas.                                                                 *)
(***************************************************************************)

EffectiveBudget(agent, cgn) ==
    CASE cgn = 0   -> agent
      [] agent = 0 -> cgn
      [] OTHER     -> IF agent < cgn THEN agent ELSE cgn

MeasureRow(size) == (size + 3) \div 4

\* The sum of the first k entries, for every k.
Sums(f) == LET sum[k \in 0..Len(f)] == IF k = 0 THEN 0 ELSE sum[k - 1] + f[k] IN sum

MeasureRows(sizes) ==
    MeasureRow(Sums(sizes)[Len(sizes)] + IF sizes = <<>> THEN 2 ELSE Len(sizes) + 1)

\* trim_to_budget: how many rows are sent, and the estimate that goes with them.
TrimToBudget(sizes, budget) ==
    LET acc == Sums([i \in DOMAIN sizes |-> MeasureRow(sizes[i])])
        fits == {k \in 0..Len(sizes) : acc[k] <= budget}
        kept == CHOOSE k \in fits : \A m \in fits : m <= k
    IN  [kept |-> kept, token_est |-> acc[kept]]

CutToBudget(sizes, budget) ==
    IF budget > 0 /\ MeasureRows(sizes) > budget THEN TrimToBudget(sizes, budget)
    ELSE [kept |-> Len(sizes), token_est |-> MeasureRows(sizes)]

\* handle_query: a row is [row, size].  The cursor is that of the page the
\* provider returned, also when fewer rows of it are sent.
AnswerPage(table, cursor, limit, budget) ==
    LET page == Query(table, cursor, IF limit > MaxLimit THEN MaxLimit ELSE limit)
        cut == CutToBudget([i \in DOMAIN page.rows |-> page.rows[i].size], budget)
    IN  [rows |-> SubSeq(page.rows, 1, cut.kept), token_est |-> cut.token_est,
         next_cursor |-> page.next_cursor]

\* InMemoryMemoryNodeProvider::query: the loop tests the limit after a row,
\* so a limit of 0 behaves as 1; it has no cursor.  An error ends the query.
RECURSIVE InMemoryRows(_, _, _, _)
InMemoryRows(rows, filter, limit, taken) ==
    IF rows = <<>> THEN [ok |-> TRUE, rows |-> taken]
    ELSE LET v == MatchFilter(Head(rows), filter)
             now == IF v = "true" THEN Append(taken, Head(rows)) ELSE taken
         IN  CASE v = "error" -> [ok |-> FALSE, rows |-> <<>>]
               [] v # "error" /\ Len(now) >= limit -> [ok |-> TRUE, rows |-> now]
               [] OTHER -> InMemoryRows(Tail(rows), filter, limit, now)
=============================================================================
