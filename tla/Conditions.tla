------------------------------ MODULE Conditions ------------------------------
(***************************************************************************)
(* Conditions as they are combined (crates/core/src/expr.rs, ExprMethods,  *)
(* any_of, all_of, sql!; select/mod.rs, correlated, exists, contains,      *)
(* Predicate) and written (render.rs, render_expr and render_and_list).  A *)
(* condition is a tree that carries the tables it names; what is sent is   *)
(* text, which a server reads by precedence and where a name is the        *)
(* innermost query's that has it.  The module builds queries with          *)
(* subqueries in their conditions, renders a WHERE and reads it back.      *)
(***************************************************************************)
EXTENDS Trees

CONSTANTS Table,        \* the tables, of one boolean column each
          Lists,        \* the literal lists is_in is given
          MaxNodes,     \* bound: nodes of all the conditions together, a list one of them
          MaxHeld,      \* bound: conditions held at once
          MaxFilters,   \* bound: filters of one query
          MaxDepth      \* bound: queries correlated in one another

ASSUME ConditionsAssumption ==
  /\ \A list \in Lists : list \in Seq(BOOLEAN)
  /\ MaxNodes \in Nat /\ MaxHeld \in Nat /\ MaxFilters \in Nat /\ MaxDepth \in Nat

VARIABLES held,         \* the conditions the program holds, with their type's tag
          queries,      \* the queries it builds, each correlated in the one before
          asked         \* history: the is_in, any_of or all_of just called, and what it was given

vars == <<held, queries, asked>>

NotAsked == [given |-> <<>>]
-----------------------------------------------------------------------------
\* ExprKind, of the nodes a condition is made of.
BinaryOp == {"AND", "OR", "=", "IN", "NOT IN"}
IsNull == {"IS NULL", "IS NOT NULL"}
UnaryOp == {"NOT", "EXISTS", "NOT EXISTS"} \cup IsNull
Op(op) == [op |-> op, arity |-> IF op \in BinaryOp THEN 2 ELSE 1]

\* A sql! fragment whose text is an operator between slots: "? OR ?", "NOT ?".
Fragments == {"OR", "NOT"}
Template(text) == [op |-> "template", arity |-> IF text = "NOT" THEN 1 ELSE 2, text |-> text]

Column(t) == [op |-> "column", arity |-> 0, table |-> t]
AlwaysNode(yes) == [op |-> "always", arity |-> 0, yes |-> yes]
List(values) == [op |-> "IN LIST", arity |-> 1, values |-> values]
Query(from, n) == [op |-> "query", arity |-> n, from |-> from]

Node ==
  {Op(op) : op \in BinaryOp \cup UnaryOp} \cup {Template(text) : text \in Fragments}
    \cup {Column(t) : t \in Table} \cup {AlwaysNode(yes) : yes \in BOOLEAN}
    \cup [op : {"IN LIST"}, arity : {1}, values : Seq(BOOLEAN)]
    \cup [op : {"query"}, arity : Nat, from : Table]

Always(yes) == Tree(AlwaysNode(yes), <<>>)
Subquery(q) == Tree(Query(q.from, Len(q.wheres)), q.wheres)

\* Conditions folded into one, from the left.
Joined(op, kinds) ==
  FoldLeft(LAMBDA acc, kind : Tree(Op(op), <<acc, kind>>), Head(kinds), Tail(kinds))

\* fold_conditions started from FALSE whichever fold it is.
FoldFromFalse(kinds, all) ==
  IF kinds = <<>> THEN Always(FALSE) ELSE Joined(IF all THEN "AND" ELSE "OR", kinds)

\* fold_conditions
FoldConditions(kinds, all) ==
  IF kinds = <<>> THEN Always(all) ELSE Joined(IF all THEN "AND" ELSE "OR", kinds)
-----------------------------------------------------------------------------
\* A condition by the type it has: an Expr, with its Req; an Exists or
\* InSubquery, with its own; a Predicate, with the scope it was discharged in.
Held(cond, as, on) == [cond |-> cond, as |-> as, on |-> on]

\* A Select under construction, with its type's Outer.
NewQuery(t, outer) == [from |-> t, outer |-> outer, wheres |-> <<>>]

\* Its Scope, newest table first.
Scope(q) == <<q.from>> \o q.outer

\* Find, and Superset: an index is inferred only where one alone will do.
Found(scope, t) == Cardinality({i \in DOMAIN scope : scope[i] = t}) = 1
Superset(scope, req) == \A i \in DOMAIN req : Found(scope, req[i])

\* Condition::into_predicate
IsCondition(h, q) == IF h.as = "predicate" THEN h.on = Scope(q) ELSE Superset(Scope(q), h.on)

\* ExprKind::InList, and what is_in gives where there would be no list.
InList(lhs, values) ==
  IF values = <<>> THEN Always(FALSE) ELSE Tree(List(values), <<lhs>>)

\* Mutant of SubqueryReq: the tables of the left side alone.
LhsAlone(q, lhsReq) == lhsReq

\* Outer::Tables, and what the left side of contains requires.
SubqueryReq(q, lhsReq) == q.outer \o lhsReq
-----------------------------------------------------------------------------
Conds(list) == [i \in DOMAIN list |-> list[i].cond]
Sizes(conds) == FoldLeft(LAMBDA n, e : n + Len(e), 0, conds)
Total == FoldLeft(LAMBDA n, q : n + Sizes(q.wheres), Sizes(Conds(held)), queries)

\* The newest n things held, where they are Exprs, and what takes their place.
AreExprs(n) == Len(held) >= n /\ \A i \in DOMAIN Newest(held, n) : Newest(held, n)[i].as = "expr"
Operands(n) == Conds(Newest(held, n))
ReqOf(n) == FlattenSeq([i \in 1 .. n |-> Newest(held, n)[i].on])
Replacing(n, h) == held' = Append(Below(held, n), h)

\* A column used as a condition.
HoldColumn(t) ==
  /\ Len(held) < MaxHeld
  /\ Total < MaxNodes
  /\ held' = Append(held, Held(Tree(Column(t), <<>>), "expr", <<t>>))
  /\ asked' = NotAsked
  /\ UNCHANGED queries

\* ExprMethods::and, or, eq, !, is_null and is_not_null; sql!(Bool, text, ..).
\* The node requires what its parts do (Concat).
Build(node) ==
  /\ AreExprs(node.arity)
  /\ Total < MaxNodes
  /\ Replacing(node.arity, Held(Tree(node, Operands(node.arity)), "expr", ReqOf(node.arity)))
  /\ asked' = NotAsked
  /\ UNCHANGED queries

Combine(op) == Build(Op(op))
Wrap(op) == Build(Op(op))
Fragment(text) == Build(Template(text))

\* ExprMethods::is_in, over literals.
IsIn(values) ==
  LET lhs == Last(held).cond
      given == [i \in DOMAIN values |-> Tree(Op("="), <<lhs, Always(values[i])>>)]
      kind == InList(lhs, values)
  IN /\ AreExprs(1)
     /\ Total + 1 < MaxNodes
     /\ Replacing(1, Held(kind, "expr", ReqOf(1)))
     /\ asked' = [given |-> given, all |-> FALSE, folded |-> kind]
     /\ UNCHANGED queries

\* Everything held is collected: it may be nothing.
Collected(all, as, on) ==
  LET conds == Conds(held)
  IN /\ Total + Len(held) < MaxNodes
     /\ held' = <<Held(FoldConditions(conds, all), as, on)>>
     /\ asked' = [given |-> conds, all |-> all, folded |-> FoldConditions(conds, all)]
     /\ UNCHANGED queries

\* expr::any_of and all_of take conditions of one type, tables and all.
Collect(all) ==
  /\ AreExprs(Len(held))
  /\ \A i \in DOMAIN held : held[i].on = Head(held).on
  /\ Collected(all, "expr", IF held = <<>> THEN <<>> ELSE Head(held).on)

\* predicate of each, and Predicate::any_of or all_of of them.
CollectPredicates(all) ==
  /\ queries # <<>>
  /\ \A i \in DOMAIN held : IsCondition(held[i], Last(queries))
  /\ Collected(all, "predicate", Scope(Last(queries)))

\* Select::filter
Filter ==
  LET q == Last(queries)
  IN /\ queries # <<>> /\ held # <<>>
     /\ IsCondition(Last(held), q)
     /\ Len(q.wheres) < MaxFilters
     /\ queries' = Append(Front(queries), [q EXCEPT !.wheres = Append(@, Last(held).cond)])
     /\ held' = Front(held)
     /\ asked' = NotAsked

\* select(..).from(t), the queries before it let go.
From(t) ==
  /\ queries' = <<NewQuery(t, <<>>)>>
  /\ asked' = NotAsked
  /\ UNCHANGED held

\* Select::correlated
Correlated(t) ==
  /\ queries # <<>>
  /\ Len(queries) < MaxDepth
  /\ queries' = Append(queries, NewQuery(t, Scope(Last(queries))))
  /\ asked' = NotAsked
  /\ UNCHANGED held

\* The newest query becomes part of a condition, after the n operands held.
Embed(op, n) ==
  LET q == Last(queries)
  IN /\ queries # <<>>
     /\ AreExprs(n)
     /\ Len(held) - n < MaxHeld
     /\ Total + 1 < MaxNodes
     /\ Replacing(n, Held(Tree(Op(op), Append(Operands(n), Subquery(q))),
                          "subquery", SubqueryReq(q, ReqOf(n))))
     /\ queries' = Front(queries)
     /\ asked' = NotAsked

\* exists, not_exists
Exists(op) == Embed(op, 0)

\* contains, not_contains
InSubquery(op) == Embed(op, 1)

Init ==
  /\ held = <<>>
  /\ queries = <<>>
  /\ asked = NotAsked

Next ==
  \/ \E t \in Table : HoldColumn(t) \/ From(t) \/ Correlated(t)
  \/ \E op \in {"AND", "OR", "="} : Combine(op)
  \/ \E op \in {"NOT"} \cup IsNull : Wrap(op)
  \/ \E text \in Fragments : Fragment(text)
  \/ \E values \in Lists : IsIn(values)
  \/ \E all \in BOOLEAN : Collect(all) \/ CollectPredicates(all)
  \/ \E op \in {"EXISTS", "NOT EXISTS"} : Exists(op)
  \/ \E op \in {"IN", "NOT IN"} : InSubquery(op)
  \/ Filter

Spec == Init /\ [][Next]_vars
-----------------------------------------------------------------------------
\* What the text has besides the nodes' own tokens.
Tok(op) == [op |-> op]
OpenQuery(from) == [op |-> "SELECT", from |-> from]
Token == Node \cup {Tok(op) : op \in {"(", ")", "WHERE"}} \cup {OpenQuery(t) : t \in Table}
Text == Seq(Token)

\* Mutant of Enclosed: nothing is.
Bare(text) == text

\* What render_expr writes around every node that is not one token.
Enclosed(text) == <<Tok("(")>> \o text \o <<Tok(")")>>

\* A node's tokens among its operands, each already text.  A fragment's text is
\* written as authored.
Among(node, of) ==
  CASE node.op \in BinaryOp -> of[1] \o <<node>> \o of[2]
    [] node.op \in {"NOT", "EXISTS"} -> <<node>> \o of[1]
    [] node.op = "NOT EXISTS" -> <<Op("NOT"), Op("EXISTS")>> \o of[1]
    [] node.op \in IsNull \cup {"IN LIST"} -> of[1] \o <<node>>
    [] node.op = "template" -> IF node.text = "NOT" THEN <<Op("NOT")>> \o of[1]
                               ELSE of[1] \o <<Op(node.text)>> \o of[2]

\* render_and_list, after its keyword.
RenderAndList(list) ==
  FlattenSeq([i \in DOMAIN list |-> (IF i > 1 THEN <<Op("AND")>> ELSE <<Tok("WHERE")>>) \o list[i]])

RenderNode(node, of) ==
  CASE node.op \in {"column", "always"} -> <<node>>
    [] node.op = "query" -> <<OpenQuery(node.from)>> \o RenderAndList(of) \o <<Tok(")")>>
    [] OTHER -> Enclosed(Among(node, of))

\* render_expr
Render(e) == Evaluate([x \in Node \X Seq(Text) |-> RenderNode(x[1], x[2])], e)
-----------------------------------------------------------------------------
\* The server: the tree it has read, in postfix order, and operators and
\* brackets waiting for what is on their right.
Precedence(op) ==
  CASE op \in {"(", "SELECT", "WHERE"} -> 0 [] op = "OR" -> 1 [] op = "AND" -> 2 [] op = "NOT" -> 3
    [] op \in IsNull -> 4 [] op \in {"=", "IN", "NOT IN", "IN LIST"} -> 5 [] op = "EXISTS" -> 6

\* The operators waiting that bind at least as tight have their operands.
Reduce(s, atLeast) ==
  LET waiting == {i \in DOMAIN s.ops : \A j \in i .. Len(s.ops) : Precedence(s.ops[j].op) >= atLeast}
      n == Cardinality(waiting)
  IN [out |-> s.out \o Reverse(Newest(s.ops, n)), ops |-> Below(s.ops, n)]

\* The bracket left open: a parenthesis, or a query's, with a WHERE or without.
Close(s) ==
  LET where == Last(s.ops).op = "WHERE"
      ops == IF where THEN Front(s.ops) ELSE s.ops
  IN [out |-> IF Last(ops).op = "(" THEN s.out
              ELSE Append(s.out, Query(Last(ops).from, IF where THEN 1 ELSE 0)),
      ops |-> Front(ops)]

Wait(s, token) == [s EXCEPT !.ops = Append(@, token)]
Emit(s, token) == [s EXCEPT !.out = Append(@, token)]

ReadToken(s, token) ==
  CASE token.op \in {"(", "SELECT", "WHERE", "NOT", "EXISTS"} -> Wait(s, token)
    [] token.op = ")" -> Close(Reduce(s, 1))
    [] token.op \in BinaryOp -> Wait(Reduce(s, Precedence(token.op)), token)
    [] token.op \in IsNull \cup {"IN LIST"} -> Emit(Reduce(s, Precedence(token.op)), token)
    [] OTHER -> Emit(s, token)

ReadOn(s, text) == FoldLeft(ReadToken, s, text)
Read(text) == Reduce(ReadOn([out |-> <<>>, ops |-> <<>>], text), 1).out

\* The names the server is left to find outside: a query finds its own table's.
NamesLeft(node, of) ==
  CASE node.op = "column" -> {node.table}
    [] node.op = "query" -> (UNION ToSet(of)) \ {node.from}
    [] OTHER -> UNION ToSet(of)

Unbound(e) == Evaluate([x \in Node \X Seq(SUBSET Table) |-> NamesLeft(x[1], x[2])], e)
-----------------------------------------------------------------------------
\* The tree a condition is to be read as: a fragment's text says its own, and
\* every filter of a query is to hold.
MeantNode(node, of) ==
  CASE node.op = "template" -> Tree(Op(node.text), of)
    [] node.op = "NOT EXISTS" -> Tree(Op("NOT"), <<Tree(Op("EXISTS"), of)>>)
    [] node.op = "query" /\ of # <<>> -> Tree(Query(node.from, 1), <<Joined("AND", of)>>)
    [] OTHER -> Tree(node, of)

Meaning(e) == Evaluate([x \in Node \X Seq(Seq(Node)) |-> MeantNode(x[1], x[2])], e)

\* Every filter holds of every row, each condition as it was put together:
\* no operand is captured by a neighbour's operator, authored text and a
\* subquery's WHERE included (render_expr's parentheses, render_and_list).
ReadsAsBuilt ==
  \A i \in DOMAIN queries :
    LET query == Subquery(queries[i])
    IN Read(Render(query)) = Meaning(query)

\* Wherever a condition ends up, the server finds each table it names in the
\* query it is in or in one around that: an EXISTS or IN taken out of one
\* query and put into another brings no name that is nobody's (Superset over
\* Outer::Tables, and over what the left side of contains requires).
EveryNameIsInScope ==
  \A i \in DOMAIN queries :
    Unbound(Read(Render(Subquery(queries[i])))) \subseteq ToSet(queries[i].outer)

\* SQL's truth values: NULL is what AND and OR give when nothing decides them.
Truth == {"true", "false", "null"}

Decided(of, by, otherwise) == IF by \in of THEN by ELSE IF "null" \in of THEN "null" ELSE otherwise

Negated(truth) == CASE truth = "null" -> "null" [] truth = "true" -> "false"
                    [] truth = "false" -> "true"

\* A row says what its columns are, and what any subquery says of it.
TruthHere(node, of, row) ==
  CASE node.op = "column" -> row.columns[node.table]
    [] node.op = "always" -> IF node.yes THEN "true" ELSE "false"
    [] node.op = "AND" -> Decided(ToSet(of), "false", "true")
    [] node.op = "OR" -> Decided(ToSet(of), "true", "false")
    [] node.op = "=" -> IF "null" \in ToSet(of) THEN "null" ELSE IF of[1] = of[2] THEN "true" ELSE "false"
    [] node.op = "NOT" -> Negated(of[1])
    [] node.op = "IS NULL" -> IF of[1] = "null" THEN "true" ELSE "false"
    [] node.op = "IS NOT NULL" -> IF of[1] = "null" THEN "false" ELSE "true"
    [] node.op = "IN LIST" ->
         IF of[1] = "null" THEN "null"
         ELSE IF (of[1] = "true") \in ToSet(node.values) THEN "true" ELSE "false"
    [] OTHER -> row.subquery

TruthOf(e, row) == Evaluate([x \in Node \X Seq(Truth) |-> TruthHere(x[1], x[2], row)], e)

\* all_of is true of a row when no condition is false or unknown there, and
\* any_of false when none is true or unknown, however many there are: of no
\* conditions, everything matches the one and nothing the other, and x in a
\* list is any of x = v for the list's v (the comments on any_of, all_of and
\* is_in).
CollectionsAnswerForTheirMembers ==
  asked # NotAsked => \A row \in [columns : [Table -> Truth], subquery : Truth] :
    LET given == {TruthOf(Meaning(asked.given[i]), row) : i \in DOMAIN asked.given}
        answer == TruthOf(Read(Render(asked.folded)), row)
    IN IF asked.all THEN (answer = "true") <=> (given \subseteq {"true"})
                    ELSE (answer = "false") <=> (given \subseteq {"false"})
=============================================================================
