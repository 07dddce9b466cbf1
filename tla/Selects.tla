------------------------------ MODULE Selects ------------------------------
(***************************************************************************)
(* A Select's clauses and the two statements rendered of them: the query   *)
(* itself and its total (crates/core/src/select/mod.rs, SelectBody, and    *)
(* dyn_select.rs).  A small evaluator plays the server, so that the total  *)
(* can be compared with the rows it is the total of.                       *)
(***************************************************************************)
EXTENDS Paging, Lists

CONSTANTS Served,      \* the dialects considered
          Binding,     \* the CTEs a FROM may bring: None, "read", "write"
          Selections,  \* what is selected: sequences of [kind, of, key, name]
          Column,      \* the columns a query is filtered and grouped by
          Datum,       \* the values a column is compared with
          Groups,      \* the sizes HAVING asks of a group
          Request,     \* the arguments of limit and offset: [type, n]
          Joined,      \* what FROM and the joins may yield: sequences of rows
          MaxClauses   \* bound: entries of WHERE, GROUP BY, HAVING, ORDER BY

Item == UNION {ToSet(s) : s \in Selections}

\* SelectBody
Body == [ctes : Seq(Binding), distinct : BOOLEAN, wheres : Seq([of : Column, is : Datum]),
         order_by : Seq(Item), group_by : Seq(Column), having : Seq(Groups),
         limit : Int \cup {None}, offset : Int \cup {None}]

ASSUME SelectsAssumption ==
  /\ Served \subseteq Dialect
  /\ Binding \subseteq {None, "read", "write"}
  /\ \A s \in Selections : \A i \in DOMAIN s :
       s[i].kind \in {"column", "aggregate", "rank", "series"}
  /\ Request \subseteq [type : {"signed", "unsigned", "bound"}, n : Int]
  /\ \A r \in Request : r.n \in IF r.type = "unsigned" THEN U64 ELSE I64
  /\ None \notin Body /\ None \notin Request
  /\ \A s \in Selections : s \in Seq(ToSet(s))
  /\ \A rows \in Joined : rows \in Seq(ToSet(rows))
  \* A series counts up to a number.
  /\ \A rows \in Joined : \A r \in ToSet(rows), i \in Item : i.kind = "series" => r[i.of] \in Nat
  /\ MaxClauses \in Nat

VARIABLES body,        \* SelectBody, None before from
          selection,   \* the selected items, in order
          erased,      \* whether it is a DynSelect
          asked,       \* history: the requests behind body's limit and offset
          checked      \* history: the sorts checked against this selection

vars == <<body, selection, erased, asked, checked>>
-----------------------------------------------------------------------------
\* SelectSeed::from: SelectBody::new and attach_binding_of.
From(items, binding) ==
  /\ body = None
  /\ body' = [ctes |-> IF binding = None THEN <<>> ELSE <<binding>>,
              distinct |-> FALSE, wheres |-> <<>>, order_by |-> <<>>,
              group_by |-> <<>>, having |-> <<>>, limit |-> None, offset |-> None]
  /\ selection' = items
  /\ UNCHANGED <<erased, asked, checked>>

\* What a Select takes and a DynSelect no longer does.
Composable == body # None /\ ~erased

\* filter, group_by and having: one more entry of their clause.
Push(clause, entry) ==
  /\ Composable
  /\ Len(body[clause]) < MaxClauses
  /\ body' = [body EXCEPT ![clause] = Append(@, entry)]
  /\ UNCHANGED <<selection, erased, asked, checked>>

Filter(column, value) == Push("wheres", [of |-> column, is |-> value])
GroupBy(column) == Push("group_by", column)
Having(size) == Push("having", size)
OrderBy(item) == Push("order_by", item)

Distinct ==
  /\ Composable
  /\ body' = [body EXCEPT !.distinct = TRUE]
  /\ UNCHANGED <<selection, erased, asked, checked>>

\* RowFieldLookup: the one position that has the key.
IndicesOf(key) == {i \in DOMAIN selection : selection[i].key = key}

\* Mutant of SortItem: the key's own expression.
KeysOwn(key, i) == key

\* The item order_by_selected sorts by, for a key found at i.
SortItem(key, i) == selection[i]

\* order_by_selected, and order_by_selection of a single item.
OrderBySelected(key) ==
  /\ Composable
  /\ Len(body.order_by) < MaxClauses
  /\ \E i \in IndicesOf(key.key) :
       /\ IndicesOf(key.key) = {i}
       /\ body' = [body EXCEPT !.order_by = Append(@, SortItem(key, i))]
  /\ checked' = checked \cup {Len(body'.order_by)}
  /\ UNCHANGED <<selection, erased, asked>>

\* reselect: the clauses stay, and the sorts' guarantee goes.
Reselect(items) ==
  /\ Composable
  /\ selection' = items
  /\ checked' = {}
  /\ UNCHANGED <<body, erased, asked>>

\* IntoRowCount for the signed and unsigned integers and, bound rather than
\* written, for an expression, which nothing clamps.
IntoRowCount(request) ==
  CASE request.type = "signed" -> SignedRowCount(request.n)
    [] request.type = "unsigned" -> UnsignedRowCount(request.n)
    [] request.type = "bound" -> request.n

\* limit and offset, of a Select and of a DynSelect.
SetCount(clause, request) ==
  /\ body # None
  /\ body' = [body EXCEPT ![clause] = IntoRowCount(request)]
  /\ asked' = [asked EXCEPT ![clause] = request]
  /\ UNCHANGED <<selection, erased, checked>>

\* Select::erase
Erase ==
  /\ Composable
  /\ erased' = TRUE
  /\ UNCHANGED <<body, selection, asked, checked>>

Init ==
  /\ body = None
  /\ selection = <<>>
  /\ erased = FALSE
  /\ asked = [limit |-> None, offset |-> None]
  /\ checked = {}

Next ==
  \/ \E items \in Selections : (\E b \in Binding : From(items, b)) \/ Reselect(items)
  \/ \E c \in Column : GroupBy(c) \/ \E v \in Datum : Filter(c, v)
  \/ \E size \in Groups : Having(size)
  \/ \E item \in Item : OrderBy(item) \/ OrderBySelected(item)
  \/ Distinct
  \/ \E r \in Request : SetCount("limit", r) \/ SetCount("offset", r)
  \/ Erase

Spec == Init /\ [][Next]_vars
-----------------------------------------------------------------------------
CountItem == [kind |-> "aggregate", of |-> None, key |-> "count", name |-> "count"]

Statement(wrapped, b, items) == [wrapped |-> wrapped, body |-> b, selection |-> items]

\* to_sql, of a Select and of a DynSelect.
ToSql == Statement(FALSE, body, selection)

\* Mutant of OneRowEach: DISTINCT forgotten.
OneRowEachUnlessGrouped(b, items) ==
  /\ b.group_by = <<>> /\ b.having = <<>>
  /\ \A i \in DOMAIN items : items[i].kind = "column"

\* SelectBody::count_sql's one_row_each.
OneRowEach(b, items) ==
  /\ b.group_by = <<>> /\ b.having = <<>> /\ ~b.distinct
  /\ \A i \in DOMAIN items : items[i].kind = "column"

WithoutPage(b) == [b EXCEPT !.limit = None, !.offset = None]

\* SelectBody::count_sql
CountSql ==
  LET unpaged == [WithoutPage(body) EXCEPT !.order_by = <<>>]
  IN IF OneRowEach(unpaged, selection)
     THEN Statement(FALSE, unpaged, <<CountItem>>)
     ELSE Statement(TRUE, unpaged, selection)
-----------------------------------------------------------------------------
(***************************************************************************)
(* The server.  What it refuses follows the servers' own rules; what it    *)
(* answers is the rows of the statement over one result of FROM and joins. *)
(***************************************************************************)
\* What a statement makes of the rows, but for the order and the page.
ClausesOf(stmt) ==
  [wheres |-> stmt.body.wheres, group_by |-> stmt.body.group_by, having |-> stmt.body.having,
   distinct |-> stmt.body.distinct, items |-> stmt.selection]

Collapses(q) ==
  \/ q.group_by # <<>> \/ q.having # <<>>
  \/ \E i \in DOMAIN q.items : q.items[i].kind = "aggregate"

Accepts(d, stmt) ==
  LET items == ToSet(stmt.selection)
  IN \* An item of a grouped query is an aggregate or made of its keys.
     /\ Collapses(ClausesOf(stmt)) =>
          \A i \in items : i.kind = "aggregate" \/ i.of \in ToSet(stmt.body.group_by)
     \* A DISTINCT is sorted by what it selects.
     /\ d = Postgres /\ stmt.body.distinct => ToSet(stmt.body.order_by) \subseteq items
     \* Only Postgres has functions that yield several rows in a select list.
     /\ d # Postgres => \A i \in items : i.kind # "series"
     \* Only Postgres writes from a CTE, and at the top level only.
     /\ "write" \in ToSet(stmt.body.ctes) => d = Postgres /\ ~stmt.wrapped
     \* MySQL has no derived table with two columns of a name.
     /\ d = MySql /\ stmt.wrapped => \A i, j \in DOMAIN stmt.selection :
          stmt.selection[i].name = stmt.selection[j].name => i = j

\* What WHERE leaves.
Kept(q, rows) ==
  Only(rows, {r \in ToSet(rows) : \A i \in DOMAIN q.wheres : r[q.wheres[i].of] = q.wheres[i].is})

KeyOf(q, r) == [i \in DOMAIN q.group_by |-> r[q.group_by[i]]]

\* What GROUP BY makes of the rows: with no key one group, of none too.
Grouped(q, kept) ==
  LET first == FirstOfEach([i \in DOMAIN kept |-> KeyOf(q, kept[i])])
  IN IF q.group_by = <<>> THEN <<kept>>
     ELSE [i \in DOMAIN first |-> Only(kept, {r \in ToSet(kept) : KeyOf(q, r) = first[i]})]

\* What an answer's rows are of: the groups HAVING leaves, or each row by itself.
Units(q, rows) ==
  LET kept == Kept(q, rows)
      groups == Grouped(q, kept)
  IN IF Collapses(q)
     THEN Only(groups, {g \in ToSet(groups) : \A i \in DOMAIN q.having : Len(g) >= q.having[i]})
     ELSE [i \in DOMAIN kept |-> <<kept[i]>>]

\* An item of the k-th row that unit i yields.
ItemValue(item, units, i, k) ==
  CASE item.kind = "column" -> units[i][1][item.of]
    [] item.kind = "aggregate" -> Len(units[i])
    [] item.kind = "rank" -> Cardinality({j \in 1..i : units[j][1][item.of] = units[i][1][item.of]})
    [] item.kind = "series" -> IF k <= units[i][1][item.of] THEN k ELSE None

\* How many rows a unit yields: as many as its longest series.
Height(q, unit) ==
  LET series == {i \in ToSet(q.items) : i.kind = "series"}
  IN IF series = {} THEN 1 ELSE Max({unit[1][i.of] : i \in series})

\* The rows that unit i yields.
Yielded(q, units, i) ==
  [k \in 1..Height(q, units[i]) |-> [s \in DOMAIN q.items |-> ItemValue(q.items[s], units, i, k)]]

Rows(q, rows) ==
  LET units == Units(q, rows)
      all == FlattenSeq([i \in DOMAIN units |-> Yielded(q, units, i)])
  IN IF q.distinct THEN FirstOfEach(all) ELSE all

\* The rows the server answers a statement with.
Answer(d, stmt, rows) ==
  LET page == ReadPage(d, RenderLimitOffset(d, stmt.body.limit, stmt.body.offset))
      all == Rows(ClausesOf(stmt), rows)
      answer == [i \in 1..Cardinality(Shown(page, Len(all))) |-> all[page.offset + i]]
  IN IF ~Accepts(d, stmt) \/ page = Rejected THEN Rejected
     ELSE IF stmt.wrapped THEN <<<<Len(answer)>>>> ELSE answer

Unpaged(stmt) == [stmt EXCEPT !.body = WithoutPage(@)]
-----------------------------------------------------------------------------
\* Whatever the clauses, what is selected and the page asked for, the total
\* of a query a server answers is the number of its rows without the page:
\* its groups where it is grouped, its distinct rows where it is distinct,
\* and what an aggregate or a sql! fragment makes of the rows (count_sql).
CountIsTheNumberOfRows ==
  body # None => \A d \in Served, rows \in Joined :
    LET whole == Answer(d, Unpaged(ToSql), rows)
    IN whole # Rejected => Answer(d, CountSql, rows) = <<<<Len(whole)>>>>

\* A request for a number of rows: none below zero.
Wanted(request) == IF request = None THEN None ELSE Max({0, request.n})

\* The servers show the page asked for, however large, or below zero, the
\* count, and where only an offset is given, of any result an i64 counts; a
\* bound count, which is not clamped, is left to whoever binds it
\* (IntoRowCount, render_limit_offset, OFFSET_WITHOUT_LIMIT).
PageIsTheOneAskedFor ==
  LET limit == Wanted(asked.limit)
      offset == IF asked.offset = None THEN 0 ELSE Wanted(asked.offset)
      Through(n) == IF limit = None THEN n ELSE Min({n, offset + limit})
      PageOf(rows) == [i \in 1..(Through(Len(rows)) - offset) |-> rows[offset + i]]
      clamped == \A r \in {asked.limit, asked.offset} \ {None} : r.type = "bound" => r.n >= 0
  IN body # None /\ clamped => \A d \in Served, rows \in Joined :
       LET whole == Answer(d, Unpaged(ToSql), rows)
       IN whole # Rejected /\ Len(whole) <= I64Max => Answer(d, ToSql, rows) = PageOf(whole)

\* A sort checked against the selection is one a server takes with DISTINCT,
\* as long as the selection stays: it is of a selected item, even where the
\* key named another expression of the same key (order_by_selected).
CheckedSortsAreSelected ==
  \A k \in checked : body.order_by[k] \in ToSet(selection)
=============================================================================
