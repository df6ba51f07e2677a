------------------------------ MODULE Condition ------------------------------
(***************************************************************************)
(* The condition language of DAG nodes (nps-nop/src/condition.rs): a       *)
(* recursive-descent evaluator over the tokens, without a syntax tree, and *)
(* the path lookup it uses (input_mapper.rs).                              *)
(*                                                                         *)
(* A token is [kind, val]: kind names the TokenKind, val is the path of a  *)
(* "path" token or the literal of a "lit" token.  A value is [type, v]     *)
(* with a number for v; a text is its place in the order of texts, the     *)
(* empty text is 0.  Every parse function returns [ok, value, pos].        *)
(***************************************************************************)
EXTENDS Naturals, Sequences

CONSTANT MaxInputMappingDepth    \* MAX_INPUT_MAPPING_DEPTH

NullVal == [type |-> "null", v |-> 0]
Num(n) == [type |-> "num", v |-> n]
Str(n) == [type |-> "str", v |-> n]
Bool(b) == [type |-> "bool", v |-> IF b THEN 1 ELSE 0]

Token(kind, val) == [kind |-> kind, val |-> val]
Op(kind) == Token(kind, NullVal)
Literal(val) == Token("lit", val)
PathToken(path) == Token("path", path)
Eof == Op("eof")

ComparisonOps == {">", ">=", "<", "<=", "==", "!="}

Failure(pos) == [ok |-> FALSE, value |-> FALSE, pos |-> pos]
Success(value, pos) == [ok |-> TRUE, value |-> value, pos |-> pos]

-----------------------------------------------------------------------------
\* input_mapper::resolve as the evaluator uses it: a path deeper than the
\* limit is an error, a missing node or field is null.
PathAdmitted(path) == Len(path) <= MaxInputMappingDepth

ResolvePath(path, context) ==
    IF path \in DOMAIN context THEN context[path] ELSE NullVal

AsTruthy(val) == val.type # "null" /\ val.v # 0

\* compare: null is equal to null only, and texts and numbers have an order.
Compare(l, op, r) ==
    CASE op = "==" -> l = r
      [] op = "!=" -> l # r
      [] OTHER ->
           /\ l.type = r.type /\ l.type \in {"num", "str"}
           /\ CASE op = ">"  -> l.v > r.v
                [] op = ">=" -> l.v >= r.v
                [] op = "<"  -> l.v < r.v
                [] op = "<=" -> l.v <= r.v

-----------------------------------------------------------------------------
\* parse_value: its value is a Val.
ParseValue(tokens, pos, context) ==
    LET t == tokens[pos]
    IN  CASE t.kind = "path" /\ PathAdmitted(t.val) ->
               Success(ResolvePath(t.val, context), pos + 1)
          [] t.kind = "lit" -> Success(t.val, pos + 1)
          [] OTHER -> Failure(pos + 1)

RECURSIVE ParseOrExpr(_, _, _)

IsBool(t) == t.kind = "lit" /\ t.val.type = "bool"

\* parse_comparison.  A literal true or false is a whole comparison: what
\* follows it is not looked at.
ParseComparison(tokens, pos, context) ==
    LET t == tokens[pos]
    IN  CASE t.kind = "(" ->
               LET inner == ParseOrExpr(tokens, pos + 1, context)
               IN  IF inner.ok /\ tokens[inner.pos].kind = ")"
                   THEN Success(inner.value, inner.pos + 1)
                   ELSE Failure(inner.pos)
          [] IsBool(t) -> Success(t.val.v = 1, pos + 1)
          [] OTHER ->
               LET lhs == ParseValue(tokens, pos, context)
               IN  IF ~lhs.ok THEN lhs
                   ELSE IF tokens[lhs.pos].kind \notin ComparisonOps
                   THEN Success(AsTruthy(lhs.value), lhs.pos)
                   ELSE LET rhs == ParseValue(tokens, lhs.pos + 1, context)
                        IN  IF ~rhs.ok THEN rhs
                            ELSE Success(Compare(lhs.value, tokens[lhs.pos].kind,
                                                 rhs.value), rhs.pos)

RECURSIVE ParseNotExpr(_, _, _)

ParseNotExpr(tokens, pos, context) ==
    IF tokens[pos].kind = "!"
    THEN LET e == ParseNotExpr(tokens, pos + 1, context)
         IN  IF e.ok THEN Success(~e.value, e.pos) ELSE e
    ELSE ParseComparison(tokens, pos, context)

RECURSIVE AndTail(_, _, _)

\* The loop of parse_and_expr: the right side is evaluated in any case, so
\* that its errors surface.
AndTail(tokens, left, context) ==
    IF ~left.ok \/ tokens[left.pos].kind # "&&" THEN left
    ELSE LET right == ParseNotExpr(tokens, left.pos + 1, context)
         IN  IF ~right.ok THEN right
             ELSE AndTail(tokens, Success(left.value /\ right.value, right.pos), context)

ParseAndExpr(tokens, pos, context) ==
    AndTail(tokens, ParseNotExpr(tokens, pos, context), context)

RECURSIVE OrTail(_, _, _)

\* The loop of parse_or_expr taking its right side from one level too low.
OrTail_Faulty(tokens, left, context) ==
    IF ~left.ok \/ tokens[left.pos].kind # "||" THEN left
    ELSE LET right == ParseNotExpr(tokens, left.pos + 1, context)
         IN  IF ~right.ok THEN right
             ELSE AndTail(tokens, Success(left.value \/ right.value, right.pos), context)

\* The loop of parse_or_expr.
OrTail(tokens, left, context) ==
    IF ~left.ok \/ tokens[left.pos].kind # "||" THEN left
    ELSE LET right == ParseAndExpr(tokens, left.pos + 1, context)
         IN  IF ~right.ok THEN right
             ELSE OrTail(tokens, Success(left.value \/ right.value, right.pos), context)

ParseOrExpr(tokens, pos, context) ==
    OrTail(tokens, ParseAndExpr(tokens, pos, context), context)

\* evaluate: an empty condition holds; tokens left over are ignored.
Evaluate(tokens, context) ==
    IF tokens = <<>> THEN Success(TRUE, 1)
    ELSE ParseOrExpr(Append(tokens, Eof), 1, context)
=============================================================================
