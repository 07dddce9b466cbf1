---------------------------- MODULE SetOperation ----------------------------
(***************************************************************************)
(* Chains of SELECTs combined by UNION, UNION ALL, INTERSECT and EXCEPT    *)
(* (crates/core/src/select/set_op.rs).  The builder's calls mean a left    *)
(* fold; what is sent is text, which Postgres and MySQL read with          *)
(* INTERSECT binding tighter and SQLite reads left to right, and in which  *)
(* a clause after the last branch is the whole chain's.  The module        *)
(* renders the chain and reads it back as each server would.               *)
(***************************************************************************)
EXTENDS Paging, SequencesExt

CONSTANTS Branch,        \* the SELECTs: [name, columns, limit, offset]
          Name,          \* the columns' names
          Counts,        \* the row counts limit and offset are called with
          MaxBranches,   \* bound: branches of one chain
          MaxKeys        \* bound: ORDER BY keys of one chain

SetOpKind == {"UNION", "UNION ALL", "INTERSECT", "EXCEPT"}

ASSUME SetOperationAssumption ==
  /\ None \notin Branch
  /\ Counts \subseteq 0..I64Max
  /\ \A b \in Branch : {b.limit, b.offset} \subseteq 0..I64Max \cup {None}
  /\ MaxBranches \in Nat /\ MaxKeys \in Nat

VARIABLES first,      \* SetOp::first, None before a Select starts a chain
          rest,       \* SetOp::rest
          orderBy,    \* SetOp::order_by, each position with the key it is for
          limit,
          offset

chainVars == <<first, rest, orderBy, limit, offset>>
-----------------------------------------------------------------------------
\* Mutant of SameShape: the columns' number alone.
SameWidth(a, b) == Len(a.columns) = Len(b.columns)

\* row::SameShape: the same names in the same order.
SameShape(a, b) == a.columns = b.columns

\* row::Field: the one index a column of the output has.  A name selected
\* twice has two and resolves to neither.
PositionsOf(columns, key) == {i \in DOMAIN columns : columns[i] = key}

\* Select::union and its three siblings: SetOp::new, then a push.
Start(kind, a, b) ==
  /\ first = None
  /\ SameShape(b, a)
  /\ first' = a
  /\ rest' = <<[kind |-> kind, branch |-> b]>>
  /\ UNCHANGED <<orderBy, limit, offset>>

\* SetOp::union and its three siblings.
PushBranch(kind, b) ==
  /\ first # None
  /\ Len(rest) + 1 < MaxBranches
  /\ SameShape(b, first)
  /\ rest' = Append(rest, [kind |-> kind, branch |-> b])
  /\ UNCHANGED <<first, orderBy, limit, offset>>

\* order_by_column, which order_by of a single column comes to as well.
OrderByColumn(key) ==
  /\ first # None
  /\ Len(orderBy) < MaxKeys
  /\ \E i \in PositionsOf(first.columns, key) :
       /\ PositionsOf(first.columns, key) = {i}
       /\ orderBy' = Append(orderBy, [position |-> i, key |-> key])
  /\ UNCHANGED <<first, rest, limit, offset>>

\* limit and offset, the later call replacing the earlier.
SetLimit(n) ==
  /\ first # None
  /\ limit' = n
  /\ UNCHANGED <<first, rest, orderBy, offset>>

SetOffset(n) ==
  /\ first # None
  /\ offset' = n
  /\ UNCHANGED <<first, rest, orderBy, limit>>

ChainInit ==
  /\ first = None
  /\ rest = <<>>
  /\ orderBy = <<>>
  /\ limit = None
  /\ offset = None

ChainNext ==
  \/ \E kind \in SetOpKind, a, b \in Branch : Start(kind, a, b)
  \/ \E kind \in SetOpKind, b \in Branch : PushBranch(kind, b)
  \/ \E key \in Name : OrderByColumn(key)
  \/ \E n \in Counts : SetLimit(n) \/ SetOffset(n)

ChainSpec == ChainInit /\ [][ChainNext]_chainVars
-----------------------------------------------------------------------------
\* open_group: a parenthesis, or SELECT * FROM and one.
OpenGroup(d) == [tok |-> IF ParenthesizedSetOpBranches(d) THEN "(" ELSE "derived("]
Close == [tok |-> ")"]

\* A branch as Select::fragment renders it, its own page at its end.
BranchText(d, b) ==
  <<[tok |-> "select", arg |-> b.name, columns |-> b.columns]>>
    \o RenderLimitOffset(d, b.limit, b.offset)

\* render_branches' closure: every branch is wrapped.
RenderBranch(d, b) == <<OpenGroup(d)>> \o BranchText(d, b) \o <<Close>>

\* Mutant of Changes: flat text.
NeverChanges(i) == FALSE

\* Whether the operator before rest[i] is another one.
Changes(i) == i > 1 /\ rest[i - 1].kind # rest[i].kind

\* What a branch appended adds to the text.
AppendedText(d, i) ==
  (IF Changes(i) THEN <<Close>> ELSE <<>>)
    \o <<[tok |-> "op", arg |-> rest[i].kind]>> \o RenderBranch(d, rest[i].branch)

\* render_branches
RenderBranches(d) ==
  [i \in 1..Cardinality({i \in DOMAIN rest : Changes(i)}) |-> OpenGroup(d)]
    \o RenderBranch(d, first)
    \o FoldLeft(LAMBDA text, i : text \o AppendedText(d, i), <<>>, [i \in DOMAIN rest |-> i])

\* render_ordering
RenderOrdering(d) ==
  (IF orderBy = <<>> THEN <<>>
   ELSE <<[tok |-> "order", arg |-> [i \in DOMAIN orderBy |-> orderBy[i].position]]>>)
    \o RenderLimitOffset(d, limit, offset)

\* Mutant of ChainCountSql: the whole statement wrapped, its page too.
CountOfThePage(d) == <<[tok |-> "count("]>> \o RenderBranches(d) \o RenderOrdering(d) \o <<Close>>

\* to_sql, and count_sql through render_count_wrapped.
ChainSql(d) == RenderBranches(d) \o RenderOrdering(d)
ChainCountSql(d) == <<[tok |-> "count("]>> \o RenderBranches(d) \o <<Close>>
-----------------------------------------------------------------------------
(***************************************************************************)
(* The server.  A query is a tree of operators over queries, with the      *)
(* ordering and the page that apply to its whole result.  The reader keeps *)
(* a frame for the query it is in and one for each it is nested in, with   *)
(* the operand read and the operator waiting for another, at the level of  *)
(* UNION and EXCEPT (low) and at that of INTERSECT where it binds tighter  *)
(* (high); <<>> and "none" are no operand and no operator.  A tree carries *)
(* the names of its columns: a combination's are its first operand's.      *)
(***************************************************************************)
Node(op, a, b) == [op |-> op, of |-> <<a, b>>, columns |-> a.columns]
Query(of, order, page) ==
  [op |-> "query", of |-> <<of>>, order |-> order, page |-> page, columns |-> of.columns]
Leaf(name, columns) == [op |-> "select", of |-> <<>>, name |-> name, columns |-> columns]

\* A query with nothing said of its whole result is what it is made of.
Whole(of, order, page) ==
  IF order = <<>> /\ page = WholeResult THEN of ELSE Query(of, order, page)

Frame(opener) == [opener |-> opener, low |-> <<>>, lowOp |-> "none", high |-> <<>>,
                  highOp |-> "none", order |-> <<>>, clauses |-> <<>>]

AwaitsOperand(f) == f.high = <<>> \/ f.highOp # "none"
NoClauseYet(f) == f.order = <<>> /\ f.clauses = <<>>

\* An operand was read.
Operand(f, x) ==
  [f EXCEPT !.high = IF @ = <<>> THEN <<x>> ELSE <<Node(f.highOp, @[1], x)>>, !.highOp = "none"]

\* The operands so far as one: UNION and EXCEPT fold from the left.
Reduced(f) == IF f.low = <<>> THEN f.high[1] ELSE Node(f.lowOp, f.low[1], f.high[1])

\* An operator was.
Operator(d, f, op) ==
  IF op = "INTERSECT" /\ IntersectBindsTighter(d)
  THEN [f EXCEPT !.highOp = op]
  ELSE [f EXCEPT !.low = <<Reduced(f)>>, !.lowOp = op, !.high = <<>>]

\* MySQL has no derived table with two columns of a name.
DerivedTable(d, columns) == d = MySql => IsInjective(columns)

\* The frame's query may be over, and what it then is.
Closes(d, f) ==
  /\ ~AwaitsOperand(f)
  /\ ReadPage(d, f.clauses) # Rejected
  /\ f.opener = "count(" => DerivedTable(d, Reduced(f).columns)
Closed(d, f) ==
  LET whole == Whole(Reduced(f), f.order, ReadPage(d, f.clauses))
  IN IF f.opener = "count(" THEN [op |-> "count", of |-> <<whole>>] ELSE whole

Reader(frame, outer) == [frame |-> frame, outer |-> outer, refuses |-> FALSE]
Refuses == [frame |-> Frame("statement"), outer |-> <<>>, refuses |-> TRUE]

\* What may open a query: SQLite has no parenthesized operand, and the others
\* want a name for a derived table.
Opener == {"(", "derived(", "count("}
Opens(d) == {"count(", IF d = Sqlite THEN "derived(" ELSE "("}

\* Where a token may stand.
Takes(d, reader, token) ==
  LET f == reader.frame
  IN /\ ~reader.refuses
     /\ CASE token.tok \in Opener -> token.tok \in Opens(d)
          [] token.tok = "select" -> AwaitsOperand(f)
          [] token.tok \in {"op", "order"} -> ~AwaitsOperand(f) /\ NoClauseYet(f)
          [] token.tok \in {"limit", "offset"} -> ~AwaitsOperand(f)
          [] token.tok = ")" -> /\ reader.outer # <<>> /\ AwaitsOperand(Last(reader.outer))
                                /\ Closes(d, f)

\* One token more of a text.
ReadToken(d, reader, token) ==
  LET f == reader.frame
      outer == reader.outer
  IN IF ~Takes(d, reader, token) THEN Refuses ELSE
     CASE token.tok \in Opener -> Reader(Frame(token.tok), Append(outer, f))
       [] token.tok = "select" -> Reader(Operand(f, Leaf(token.arg, token.columns)), outer)
       [] token.tok = "op" -> Reader(Operator(d, f, token.arg), outer)
       [] token.tok = "order" -> Reader([f EXCEPT !.order = token.arg], outer)
       [] token.tok \in {"limit", "offset"} ->
            Reader([f EXCEPT !.clauses = Append(@, token)], outer)
       [] token.tok = ")" -> Reader(Operand(Last(outer), Closed(d, f)), Front(outer))

ReadOn(d, reader, text) ==
  FoldLeft(LAMBDA soFar, token : ReadToken(d, soFar, token), reader, text)

\* The query a server makes of a text.
Read(d, text) ==
  LET reader == ReadOn(d, Reader(Frame("statement"), <<>>), text)
  IN IF reader.refuses \/ reader.outer # <<>> \/ ~Closes(d, reader.frame) THEN Rejected
     ELSE Closed(d, reader.frame)
-----------------------------------------------------------------------------
\* What the calls mean: each branch with its own page, folded from the left.
PageOf(l, o) == Page(l, IF o = None THEN 0 ELSE o)
Meaning(b) == Whole(Leaf(b.name, b.columns), <<>>, PageOf(b.limit, b.offset))

Combined(acc, part) == Node(part.kind, acc, Meaning(part.branch))
LeftFold == FoldLeft(Combined, Meaning(first), rest)

Ordering == [i \in DOMAIN orderBy |-> orderBy[i].position]

\* Every server reads the chain as the left fold its calls spell, each page
\* where it was put: a branch's on the branch, the chain's on the chain
\* (render_branches, open_group, render_ordering).
ReadsAsLeftFold ==
  first # None => \A d \in Dialect :
    Read(d, ChainSql(d)) = Whole(LeftFold, Ordering, PageOf(limit, offset))

\* The count is of the whole combination, whatever page of it was asked for,
\* and of the branches' own pages (count_sql).  Left out is the one chain whose
\* count a server refuses, as CountIsTheNumberOfRows finds for a single SELECT:
\* count_sql makes a derived table of the chain, and MySQL has none with two
\* columns of a name, which SameShape does not keep a branch from selecting.
CountsTheWholeCombination ==
  first # None => \A d \in Dialect : DerivedTable(d, first.columns) =>
    Read(d, ChainCountSql(d)) = [op |-> "count", of |-> <<LeftFold>>]

\* A position the chain is ordered by is its key's column in every branch,
\* those appended after the ORDER BY included: no branch's values are sorted,
\* or read, as another column's (order_by_column, SameShape).
OrderNamesItsColumn ==
  \A k \in DOMAIN orderBy :
    \A b \in {first} \cup {rest[i].branch : i \in DOMAIN rest} :
      PositionsOf(b.columns, orderBy[k].key) = {orderBy[k].position}
=============================================================================
