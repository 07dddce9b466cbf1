------------------------------ MODULE Updates ------------------------------
(***************************************************************************)
(* UPDATE and DELETE: the patch a request becomes, the SET list it and     *)
(* computed assignments make, and the filters (crates/core/src/update.rs,  *)
(* delete.rs, statement.rs; the *Update struct of crates/macros).  A       *)
(* server runs the statement on any one row of the table.                  *)
(***************************************************************************)
EXTENDS Columns

CONSTANTS Served,      \* the dialects considered
          Expressions, \* computed assignments: <<"value", d>>, <<"own", column>>
          Conditions,  \* filters: <<column, d>>, an equality
          MaxClauses   \* bound: entries of WHERE

Postgres == "postgres"
MySql == "mysql"
Sqlite == "sqlite"

Untouched == "Untouched"        \* None of an *Update's Option field
NothingToSet == <<>>            \* Err(NothingToSet): Assignments are never empty

\* What a SET list of a table may hold: a value, or a column to read.
Data(t) == {Null} \cup UNION {c.values : c \in ToSet(t)}
Assigned(t) == ({"value"} \X Data(t)) \cup ({"own"} \X ToSet(Names(t)))

\* The <Table>Update, what was said of its columns, the Assignments and the
\* statement, by type.
Patch(t) == [AssignableTo(t) -> Data(t) \cup {Untouched}]
Said(t) == [AssignableTo(t) -> Assigned(t) \cup {None}]
Assignment(t) == [column : AssignableTo(t), value : Assigned(t)]
Assignments(t) == Seq(Assignment(t))
Statement(t) == [kind : {"update", "delete"}, sets : Assignments(t), wheres : Seq(Conditions)]

\* Option::None is none of what it stands beside.
ASSUME UpdatesAssumption ==
  /\ Served \subseteq {Postgres, MySql, Sqlite}
  /\ \A e \in Expressions : e = <<e[1], e[2]>> /\ e[1] \in {"value", "own"}
  /\ \A t \in Tables :
       /\ Untouched \notin Data(t)
       /\ None \notin Patch(t) /\ None \notin Said(t) /\ None \notin Assigned(t)
       /\ None \notin Assignments(t) /\ None \notin Statement(t)
  /\ MaxClauses \in Nat

VARIABLES dialect, columns, \* update::<D, T> or delete::<D, T>
          patch,      \* the *Update in hand: its fields, or None
          sets,       \* the Assignments in hand, NothingToSet, or None
          statement,  \* Update: [kind, sets, wheres], Delete, or None
          returning,  \* Returning::returning, or None
          said,       \* history: what was last said of a column
          asked       \* history: the filters asked for

vars == <<dialect, columns, patch, sets, statement, returning, said, asked>>

AssignableNames == AssignableTo(columns)
-----------------------------------------------------------------------------
\* update(table) and delete(table).
Open(d, t) ==
  /\ columns = None
  /\ dialect' = d /\ columns' = t
  /\ UNCHANGED <<patch, sets, statement, returning, said, asked>>

Delete ==
  /\ columns # None /\ statement = None /\ patch = None /\ sets = None
  /\ statement' = [kind |-> "delete", sets |-> <<>>, wheres |-> <<>>]
  /\ UNCHANGED <<dialect, columns, patch, sets, returning, said, asked>>

\* <Table>Update::builder
Builder ==
  /\ columns # None /\ patch = None /\ sets = None /\ statement = None
  /\ patch' = [n \in AssignableNames |-> Untouched]
  /\ said' = [n \in AssignableNames |-> None]
  /\ UNCHANGED <<dialect, columns, sets, statement, returning, asked>>

\* A field's setter: None leaves the column untouched, whatever was said.
SetField(name, arg) ==
  /\ patch # None
  /\ patch' = [patch EXCEPT ![name] = IF arg = None THEN Untouched ELSE arg]
  /\ said' = [said EXCEPT ![name] = IF arg = None THEN None ELSE <<"value", arg>>]
  /\ UNCHANGED <<dialect, columns, sets, statement, returning, asked>>

\* <column>_null, of a nullable column.
SetNull(name) ==
  /\ patch # None
  /\ Named(columns, name).nullable
  /\ patch' = [patch EXCEPT ![name] = Null]
  /\ said' = [said EXCEPT ![name] = <<"value", Null>>]
  /\ UNCHANGED <<dialect, columns, sets, statement, returning, asked>>

\* Mutant of Touched: an untouched nullable field read as NULL.
TouchedOrNullable(p, c) == p[c.name] # Untouched \/ c.nullable

\* UpdateRow::sets, of one column.
Touched(p, c) == p[c.name] # Untouched

\* One field of the patch onto the SET list, if it was touched.
PushField(t, p, list, c) ==
  IF c \in Assignable(t) /\ Touched(p, c)
  THEN PushSet(list, c.name, <<"value", IF p[c.name] = Untouched THEN Null ELSE p[c.name]>>)
  ELSE list

\* Assignments::from_row, over UpdateRow::sets in field order.
FromPatch(t, p) == FoldLeft(LAMBDA list, c : PushField(t, p, list, c), <<>>, t)

FromRow ==
  /\ patch # None
  /\ sets' = FromPatch(columns, patch)
  /\ patch' = None
  /\ UNCHANGED <<dialect, columns, statement, returning, said, asked>>

\* Assignments::set_to and UpdateSeed::set_to, Assignments::and_set_to, and
\* Update::set_to.
SetTo(name, value) ==
  /\ columns # None /\ patch = None /\ sets # NothingToSet /\ returning = None
  /\ Fits(columns, name, value)
  /\ \/ /\ statement = None
        /\ sets' = PushSet(IF sets = None THEN <<>> ELSE sets, name, value)
        /\ UNCHANGED statement
     \/ /\ statement # None /\ statement.kind = "update"
        /\ statement' = [statement EXCEPT !.sets = PushSet(@, name, value)]
        /\ UNCHANGED sets
  /\ said' = [n \in AssignableNames |->
               IF n = name THEN value ELSE IF said = None THEN None ELSE said[n]]
  /\ UNCHANGED <<dialect, columns, patch, returning, asked>>

\* UpdateSeed::set
SetAll ==
  /\ statement = None /\ sets \notin {None, NothingToSet}
  /\ statement' = [kind |-> "update", sets |-> sets, wheres |-> <<>>]
  /\ sets' = None
  /\ UNCHANGED <<dialect, columns, patch, returning, said, asked>>

\* Mutant of Narrowed: the last filter alone.
OnlyTheLast(wheres, condition) == <<condition>>

Narrowed(wheres, condition) == Append(wheres, condition)

\* filter of an Update and a Delete, and filter_all by so many; by none of
\* them it leaves the statement as it is.
Filter(condition) ==
  /\ statement # None /\ returning = None
  /\ Len(statement.wheres) < MaxClauses
  /\ statement' = [statement EXCEPT !.wheres = Narrowed(@, condition)]
  /\ asked' = asked \cup {condition}
  /\ UNCHANGED <<dialect, columns, patch, sets, returning, said>>

\* Statement::returning, of every column.
Returning ==
  /\ statement # None /\ returning = None
  /\ dialect # MySql
  /\ returning' = Names(columns)
  /\ UNCHANGED <<dialect, columns, patch, sets, statement, said, asked>>

Init ==
  /\ dialect = None /\ columns = None
  /\ patch = None /\ sets = None /\ statement = None /\ returning = None
  /\ said = None /\ asked = {}

Next ==
  \/ \E d \in Served, t \in Tables : Open(d, t)
  \/ Delete \/ Builder \/ FromRow \/ SetAll \/ Returning
  \/ columns # None /\ \E name \in AssignableNames :
       \/ SetNull(name)
       \/ \E arg \in Named(columns, name).values \cup {None} : SetField(name, arg)
       \/ \E value \in Expressions : SetTo(name, value)
  \/ \E condition \in Conditions : Filter(condition)

Spec == Init /\ [][Next]_vars
-----------------------------------------------------------------------------
\* render_set_clause and render_delete: <<keyword, content>>, WHERE last.
ToSql ==
  (IF statement.kind = "update" THEN <<<<"SET", statement.sets>>>> ELSE <<<<"DELETE", <<>>>>>>)
    \o (IF statement.wheres = <<>> THEN <<>> ELSE <<<<"WHERE", statement.wheres>>>>)
    \o (IF returning = None THEN <<>> ELSE <<<<"RETURNING", returning>>>>)
-----------------------------------------------------------------------------
(***************************************************************************)
(* The server, on any row the table may hold.                              *)
(***************************************************************************)
\* What becomes of the row: kept, possibly with other values, gone, or the
\* statement refused.
Kept(row) == [end |-> "kept", row |-> row]
Gone == [end |-> "gone", row |-> <<>>]
Refused == [end |-> "refused", row |-> <<>>]

Row(t) == {r \in [ToSet(Names(t)) -> {Null} \cup UNION {c.values : c \in ToSet(t)}] :
             \A c \in ToSet(t) : r[c.name] \in c.values \cup (IF c.nullable THEN {Null} ELSE {})}

Holds(row, condition) == row[condition[1]] = condition[2]

\* What an assignment makes of a row: its expression read from the row as it
\* was, or, as MySQL does, from the row as assigned so far.
AssignOne(d, row, sofar, s) ==
  [sofar EXCEPT ![s.column] = IF s.value[1] = "value" THEN s.value[2]
                              ELSE (IF d = MySql THEN sofar ELSE row)[s.value[2]]]

\* What a SET list makes of it.
Assign(d, row, list) == FoldLeft(LAMBDA sofar, s : AssignOne(d, row, sofar, s), row, list)

Run(d, row, text) ==
  LET head == text[1]
      conditions == IF Len(text) > 1 /\ text[2][1] = "WHERE" THEN ToSet(text[2][2]) ELSE {}
  IN IF \E i, j \in DOMAIN head[2] : i # j /\ head[2][i].column = head[2][j].column THEN Refused
     ELSE IF \E c \in conditions : ~Holds(row, c) THEN Kept(row)
     ELSE IF head[1] = "DELETE" THEN Gone
     ELSE Kept(Assign(d, row, head[2]))

\* What was asked: each column takes what was last said of it.
Wanted(row) ==
  IF \E c \in asked : ~Holds(row, c) THEN Kept(row)
  ELSE IF statement.kind = "delete" THEN Gone
  ELSE Kept([n \in DOMAIN row |->
         IF n \notin AssignableNames \/ said[n] = None THEN row[n]
         ELSE IF said[n][1] = "value" THEN said[n][2] ELSE row[said[n][2]]])

\* MySQL alone assigns from left to right.
ReadsWhatIsAssigned ==
  \E i, j \in DOMAIN statement.sets :
    i < j /\ statement.sets[j].value = <<"own", statement.sets[i].column>>
-----------------------------------------------------------------------------
\* The row each statement leaves is the one asked for: gone, or with what
\* was last said of each column, from the patch or layered over it, where
\* every filter holds, and as it was where one does not; except that MySQL
\* reads a column its statement has assigned before (push_set, from_row).
EveryRowEndsAsAsked ==
  statement # None /\ ~(dialect = MySql /\ ReadsWhatIsAssigned) =>
    \A row \in Row(columns) : Run(dialect, row, ToSql) = Wanted(row)

\* A patch that touches nothing never becomes a statement, and one that
\* touches a column, by a value or by NULL, is not refused (NothingToSet).
OnlyAnEmptyPatchIsRefused ==
  said # None /\ patch = None =>
    (sets = NothingToSet <=> \A n \in DOMAIN said : said[n] = None)

Written == {row \in Row(columns) : Run(dialect, row, ToSql) # Kept(row)}

\* One more filter never makes a statement write a row it would not have.
FiltersOnlyNarrow ==
  [][statement # None /\ statement'.wheres # statement.wheres => Written' \subseteq Written]_vars
=============================================================================
