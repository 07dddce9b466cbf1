------------------------------ MODULE Inserts ------------------------------
(***************************************************************************)
(* INSERT: rows built column by column, one or many to a statement, the    *)
(* rows of a query, and what to do with those that conflict                *)
(* (crates/core/src/insert.rs).  A server reads the statement rendered,    *)
(* next to what the calls asked for.                                       *)
(***************************************************************************)
EXTENDS Columns, FiniteSetsExt

CONSTANTS Served,      \* the dialects considered
          Sources,     \* the column names of the queries inserted from
          Targets,     \* ON CONFLICT's targets: [columns, predicate]
          Expressions, \* what DO UPDATE assigns: values, and columns of excluded
          Conditions,  \* what DO UPDATE's WHERE asks of the two rows
          MaxRows,     \* bound: rows built
          MaxClauses   \* bound: entries of SET and of DO UPDATE's WHERE

Postgres == "postgres"
MySql == "mysql"
Sqlite == "sqlite"

Unsaid == "unsaid"         \* of a column no setter was called for

\* An Insert, an InsertSelect and NothingToInsert; a ConflictUpdate, and what
\* was said of conflicts, by type.
Cell(t) == {Null, Default} \cup UNION {c.values : c \in ToSet(t)}
SetList(t) == Seq([column : AssignableTo(t), value : Expressions])
ConflictAction(t) == [sets : SetList(t), wheres : Seq(Conditions)]
ConflictClause(t) == [target : Targets, action : ConflictAction(t) \cup {None}]
ValuesInsert(t) ==
  [kind : {"values"}, rows : Seq(Seq(Cell(t))), on_conflict : ConflictClause(t) \cup {None}]
SelectInsert(t) == [kind : {"select"}, header : {Names(Insertable(t))}, source : Sources]
Nothing == [kind |-> "NothingToInsert"]

Assigned(t) == UNION {[names -> Expressions] : names \in SUBSET AssignableTo(t)}
ConflictUpdate(t) == [sets : SetList(t), wheres : Seq(Conditions), meant : Assigned(t)]
MeantConflict(t) == [target : Targets, sets : Assigned(t) \cup {None}, wheres : SUBSET Conditions]

\* Option::None is none of what it stands beside.
ASSUME InsertsAssumption ==
  /\ Served \subseteq {Postgres, MySql, Sqlite}
  /\ None \notin {Unsaid, Nothing}
  /\ \A t \in Tables :
       /\ \A c \in ToSet(t) : Unsaid \notin c.values
       /\ None \notin ValuesInsert(t) /\ None \notin SelectInsert(t)
       /\ None \notin ConflictAction(t) /\ None \notin ConflictClause(t)
       /\ None \notin ConflictUpdate(t)
       /\ None \notin Assigned(t) /\ None \notin MeantConflict(t)
  /\ MaxRows \in Nat /\ MaxClauses \in Nat

VARIABLES dialect, columns, \* insert::<D, T>, the table given by its columns
          building,   \* the *InsertBuilder in hand: its fields, or None
          held,       \* the rows built and not yet given to a statement
          statement,  \* Insert, InsertSelect, NothingToInsert, or None
          change,     \* the ConflictUpdate in hand, or None
          returning,  \* Returning::returning, or None
          said,       \* history: what the setters last said of a row's columns
          meant       \* history: what the statement's calls asked for

vars == <<dialect, columns, building, held, statement, change, returning, said, meant>>

\* The parts of a statement in the making, left alone by a step.
rowVars == <<building, held, said>>
clauseVars == <<change, returning>>

Header == Names(Insertable(columns))
-----------------------------------------------------------------------------
\* insert(table)
Insert(d, t) ==
  /\ columns = None
  /\ dialect' = d /\ columns' = t
  /\ UNCHANGED <<building, held, statement, change, returning, said, meant>>

Begun == columns # None /\ returning = None
IsInsert == statement # None /\ statement.kind = "values"

\* <Table>Insert::builder
Builder ==
  /\ Begun /\ building = None
  /\ Len(held) + Len(meant.rows) < MaxRows
  /\ building' = [n \in ToSet(Header) |-> EmptyField(Named(columns, n))]
  /\ said' = [n \in ToSet(Header) |-> Unsaid]
  /\ UNCHANGED <<dialect, columns, held, statement, change, returning, meant>>

\* A column's setter. A required one's is there once.
SetColumn(c, arg) ==
  /\ building # None
  /\ EmptyField(c) = Missing => building[c.name] = Missing
  /\ building' = [building EXCEPT ![c.name] = IntoColumnValue(c, arg)]
  /\ said' = [said EXCEPT ![c.name] = arg]
  /\ UNCHANGED <<dialect, columns, held, statement, change, returning, meant>>

\* <column>_null, of a column both nullable and defaulted.
SetNull(c) ==
  /\ building # None
  /\ c.nullable /\ c.default
  /\ building' = [building EXCEPT ![c.name] = Null]
  /\ said' = [said EXCEPT ![c.name] = Null]
  /\ UNCHANGED <<dialect, columns, held, statement, change, returning, meant>>

\* build, and collect_values: the cells in the chain's order.
Build ==
  /\ building # None
  /\ \A n \in DOMAIN building : building[n] # Missing
  /\ held' = Append(held, [cells |-> [i \in DOMAIN Header |-> building[Header[i]]], said |-> said])
  /\ building' = None
  /\ UNCHANGED <<dialect, columns, statement, change, returning, said, meant>>

Cells(rows) == [i \in DOMAIN rows |-> rows[i].cells]
Said(rows) == [i \in DOMAIN rows |-> rows[i].said]

\* Mutant of Repeatable: a bulk insert into any table.
AnyTable(t) == TRUE

\* InsertRow + Insertable, of the bulk methods.
Repeatable(t) == Insertable(t) # <<>>

ValuesOf(rows) == [kind |-> "values", rows |-> Cells(rows), on_conflict |-> None]

\* InsertSeed::values and Insert::values, of one row.
Values ==
  /\ Begun /\ building = None /\ held # <<>>
  /\ \/ statement = None /\ statement' = ValuesOf(<<held[1]>>)
     \/ /\ IsInsert /\ Repeatable(columns)
        /\ statement' = [statement EXCEPT !.rows = Append(@, held[1].cells)]
  /\ held' = Tail(held)
  /\ meant' = [meant EXCEPT !.rows = Append(@, held[1].said)]
  /\ UNCHANGED <<dialect, columns, building, change, returning, said>>

\* InsertSeed::values_all and Insert::values_all, of all rows in hand.
ValuesAll ==
  /\ Begun /\ building = None /\ Repeatable(columns)
  /\ \/ statement = None
        /\ statement' = IF held = <<>> THEN Nothing ELSE ValuesOf(held)
     \/ IsInsert
        /\ statement' = [statement EXCEPT !.rows = @ \o Cells(held)]
  /\ held' = <<>>
  /\ meant' = [meant EXCEPT !.rows = @ \o Said(held)]
  /\ UNCHANGED <<dialect, columns, building, change, returning, said>>

\* Mutant of SameShape: as many columns.
SameWidth(source) == Len(source) = Len(Header)

\* SameShape<TargetRow>: the names, position by position.
SameShape(source) == source = Header

\* InsertSeed::select
Select(source) ==
  /\ Begun /\ statement = None
  /\ SameShape(source)
  /\ statement' = [kind |-> "select", header |-> Header, source |-> source]
  /\ meant' = [meant EXCEPT !.rows = <<[n \in ToSet(source) |-> n]>>]
  /\ UNCHANGED <<dialect, columns, clauseVars, rowVars>>

\* D: SupportsOnConflict
SupportsOnConflict == dialect # MySql

Resaid(words, name, value) ==
  [n \in DOMAIN words \cup {name} |-> IF n = name THEN value ELSE words[n]]

\* ConflictUpdate::set_to and Assignments::set_to, of the first assignment,
\* and_set_to of the others.
SetTo(name, value) ==
  /\ Begun /\ SupportsOnConflict /\ Fits(columns, name, value)
  /\ change' = IF change = None
               THEN [sets |-> <<Set(name, value)>>, wheres |-> <<>>,
                     meant |-> [n \in {name} |-> value]]
               ELSE [change EXCEPT !.sets = PushSet(@, name, value),
                                   !.meant = Resaid(@, name, value)]
  /\ Len(change'.sets) <= MaxClauses
  /\ UNCHANGED <<dialect, columns, rowVars, statement, returning, meant>>

\* ConflictUpdate::filter, and filter_all by so many.
Filter(condition) ==
  /\ change # None /\ Begun
  /\ Len(change.wheres) < MaxClauses
  /\ change' = [change EXCEPT !.wheres = Append(@, condition)]
  /\ UNCHANGED <<dialect, columns, rowVars, statement, returning, meant>>

\* The target's columns are the table's.
Reaches(target) == ToSet(target.columns) \subseteq ToSet(Names(columns))

\* Insert::on_conflict_do_nothing; the last on_conflict is the statement's.
OnConflictDoNothing(target) ==
  /\ Begun /\ IsInsert /\ SupportsOnConflict /\ Reaches(target)
  /\ statement' = [statement EXCEPT !.on_conflict = [target |-> target, action |-> None]]
  /\ meant' = [meant EXCEPT !.on_conflict = [target |-> target, sets |-> None, wheres |-> {}]]
  /\ UNCHANGED <<dialect, columns, rowVars, clauseVars>>

\* Insert::on_conflict_do_update
OnConflictDoUpdate(target) ==
  /\ Begun /\ IsInsert /\ SupportsOnConflict /\ Reaches(target) /\ change # None
  /\ statement' = [statement EXCEPT !.on_conflict =
                    [target |-> target, action |-> [sets |-> change.sets, wheres |-> change.wheres]]]
  /\ meant' = [meant EXCEPT !.on_conflict =
                [target |-> target, sets |-> change.meant, wheres |-> ToSet(change.wheres)]]
  /\ change' = None
  /\ UNCHANGED <<dialect, columns, rowVars, returning>>

\* Statement::returning, of every column.
Returning ==
  /\ Begun /\ statement # None /\ statement.kind # "NothingToInsert"
  /\ dialect # MySql
  /\ returning' = Names(columns)
  /\ UNCHANGED <<dialect, columns, rowVars, statement, change, meant>>

Init ==
  /\ dialect = None /\ columns = None
  /\ building = None /\ held = <<>> /\ statement = None
  /\ change = None /\ returning = None
  /\ said = None
  /\ meant = [rows |-> <<>>, on_conflict |-> None]

Next ==
  \/ \E d \in Served, t \in Tables : Insert(d, t)
  \/ Builder \/ Build \/ Values \/ ValuesAll \/ Returning
  \/ building # None /\ \E c \in ToSet(Insertable(columns)) :
       SetNull(c) \/ \E arg \in Arguments(c) : SetColumn(c, arg)
  \/ \E source \in Sources : Select(source)
  \/ columns # None /\ \E c \in Assignable(columns), e \in Expressions : SetTo(c.name, e)
  \/ \E condition \in Conditions : Filter(condition)
  \/ \E target \in Targets : OnConflictDoNothing(target) \/ OnConflictDoUpdate(target)

Spec == Init /\ [][Next]_vars
-----------------------------------------------------------------------------
(***************************************************************************)
(* The statement rendered, as a sequence of clauses <<keyword, content>>.  *)
(***************************************************************************)
\* Dialect::INSERT_NO_COLUMNS
EmptyRow == "() VALUES ()"
DefaultValues == "DEFAULT VALUES"
InsertNoColumns == IF dialect = MySql THEN EmptyRow ELSE DefaultValues

\* render_and_list
Where(conditions) == IF conditions = <<>> THEN <<>> ELSE <<<<"WHERE", conditions>>>>

\* render_conflict_clause, and ConflictUpdate::render_into.
RenderConflictClause(clause) ==
  IF clause = None THEN <<>>
  ELSE <<<<"ON CONFLICT", clause.target.columns>>>>
         \o Where(IF clause.target.predicate = None THEN <<>> ELSE <<clause.target.predicate>>)
         \o (IF clause.action = None THEN <<<<"DO NOTHING", <<>>>>>>
             ELSE <<<<"DO UPDATE SET", clause.action.sets>>>> \o Where(clause.action.wheres))

\* render_values_clause
RenderValuesClause ==
  (IF Header = <<>> THEN <<<<InsertNoColumns, <<>>>>>>
   ELSE <<<<"COLUMNS", Header>>>>
          \o [i \in DOMAIN statement.rows |-> <<"ROW", statement.rows[i]>>])
    \o RenderConflictClause(statement.on_conflict)

\* to_sql, of an Insert, an InsertSelect and of either's Returning.
ToSql ==
  (IF statement.kind = "values" THEN RenderValuesClause
   ELSE <<<<"COLUMNS", statement.header>>, <<"ROW", statement.source>>>>)
    \o (IF returning = None THEN <<>> ELSE <<<<"RETURNING", returning>>>>)
-----------------------------------------------------------------------------
(***************************************************************************)
(* The server.  A value it makes up itself stands for itself.              *)
(***************************************************************************)
Positions(text, keyword) == {i \in DOMAIN text : text[i][1] = keyword}
Has(text, keyword) == Positions(text, keyword) # {}

\* What a column no value is given for takes.
Fallback(c) == IF c.generated THEN "generated" ELSE IF c.default THEN "default" ELSE Null

ReadRow(header, cells) ==
  [n \in ToSet(Names(columns)) |->
    LET at == {i \in DOMAIN header : header[i] = n}
        cell == IF at = {} THEN Default ELSE cells[Max(at)]
    IN IF cell = Default THEN Fallback(Named(columns, n)) ELSE cell]

ReadRows(text) ==
  IF Has(text, "COLUMNS")
  THEN [i \in 1..Cardinality(Positions(text, "ROW")) |-> ReadRow(text[1][2], text[i + 1][2])]
  ELSE <<ReadRow(<<>>, <<>>)>>

\* The WHERE between one clause and another: none holds of every row.
WhereBetween(text, from, to) ==
  UNION {ToSet(text[i][2]) : i \in {j \in Positions(text, "WHERE") : from < j /\ j < to}}

ReadConflict(text) ==
  IF ~Has(text, "ON CONFLICT") THEN None
  ELSE LET on == Max(Positions(text, "ON CONFLICT"))
           do == Max(Positions(text, "DO NOTHING") \cup Positions(text, "DO UPDATE SET"))
           sets == text[do][2]
       IN [columns |-> text[on][2],
           predicate |-> WhereBetween(text, on, do),
           sets |-> [n \in {sets[i].column : i \in DOMAIN sets} |->
                      (CHOOSE s \in ToSet(sets) : s.column = n).value],
           wheres |-> WhereBetween(text, do, Len(text) + 1)]

\* What a server makes of SQL it does not accept.
Rejected == [error |-> "rejected"]

\* What the three servers' grammars refuse.
Accepts(text) ==
  /\ Has(text, EmptyRow) => dialect = MySql
  /\ Has(text, DefaultValues) => dialect # MySql
  \* SQLite has DEFAULT VALUES, and no ON CONFLICT after it.
  /\ dialect = Sqlite => ~(Has(text, DefaultValues) /\ Has(text, "ON CONFLICT"))
  \* SQLite has no DEFAULT among the values.
  /\ dialect = Sqlite => \A i \in Positions(text, "ROW") : ~Contains(text[i][2], Default)
  \* The rows follow the columns.
  /\ \A i \in Positions(text, "ROW") : i - 1 \in Positions(text, "COLUMNS") \cup Positions(text, "ROW")
  \* A row has a value for every column named.
  /\ \A i \in Positions(text, "ROW") : Len(text[i][2]) = Len(text[1][2])
  \* A SET names a column once.
  /\ \A i \in Positions(text, "DO UPDATE SET") : \A j, k \in DOMAIN text[i][2] :
       text[i][2][j].column = text[i][2][k].column => j = k

Read(text) ==
  IF Accepts(text) THEN [rows |-> ReadRows(text), conflict |-> ReadConflict(text)]
  ELSE Rejected

\* What the setters said of a row: what they did not say is the column's
\* default where it has one, and NULL, as a None is.
MeantRow(s) ==
  [n \in ToSet(Names(columns)) |->
    LET c == Named(columns, n)
    IN IF c.generated \/ s[n] \in {Unsaid, None} THEN Fallback(c) ELSE s[n]]

\* SQLite takes no DEFAULT in a row, which the README names.
DefaultOnSqlite ==
  dialect = Sqlite /\ IsInsert /\ \E i \in DOMAIN statement.rows : Contains(statement.rows[i], Default)

Rendered == statement # None /\ statement.kind # "NothingToInsert" /\ ~DefaultOnSqlite
-----------------------------------------------------------------------------
\* Every row given to a statement is inserted, and no other: a table with
\* nothing to name, whose INSERT spells one row, never gets a second
\* (Insertable, INSERT_NO_COLUMNS), and an empty collection no statement.
EveryRowIsInserted ==
  /\ Rendered => LET read == Read(ToSql)
                 IN read # Rejected /\ Len(read.rows) = Len(meant.rows)
  /\ statement # None => (statement.kind = "NothingToInsert" <=> meant.rows = <<>>)

\* Each column of each row takes what was last said of it: a None is the
\* default of a column with one and NULL otherwise, and _null is NULL
\* (IntoColumnValue, the *Insert builder, InsertValues).
RowsAreStoredAsSaid ==
  Rendered /\ IsInsert =>
    Read(ToSql).rows = [i \in DOMAIN meant.rows |-> MeantRow(meant.rows[i])]

\* The rows of a query fill, position by position, the columns of the same
\* names, and no generated one (InsertSeed::select).
QueryFillsColumnsByName ==
  Rendered /\ ~IsInsert =>
    LET row == Read(ToSql).rows[1]
    IN \A n \in DOMAIN row : row[n] = IF Named(columns, n).generated THEN "generated" ELSE n

\* The server settles conflicts as the last on_conflict call says: on its
\* target and the predicate of its index, doing nothing, or assigning each
\* column what was last asked where every filter holds of the row, whatever
\* rows came before and after (render_conflict_clause, push_set).
ConflictsEndAsAsked ==
  Rendered /\ IsInsert =>
    LET read == Read(ToSql)
        asked == meant.on_conflict
    IN /\ read # Rejected
       /\ read.conflict = IF asked = None THEN None ELSE
            [columns |-> asked.target.columns,
             predicate |-> {asked.target.predicate} \ {None},
             sets |-> IF asked.sets = None THEN <<>> ELSE asked.sets,
             wheres |-> asked.wheres]
=============================================================================
