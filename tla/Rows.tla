-------------------------------- MODULE Rows --------------------------------
(***************************************************************************)
(* What a selection list decodes to (select/selection.rs), the row it      *)
(* makes and how its fields are read (row.rs), the structs FromRow fills   *)
(* and the columns with! declares (cte.rs, macros/src/lib.rs), and the     *)
(* driver row's decoding (qbrs-sqlx).  A list says the same thing twice,   *)
(* to the server as items and to the program as a type; the row is decoded *)
(* by a running index between the two.  Joins supplies the scope, so that  *)
(* a field's Option and the NULL a join makes meet here.                   *)
(***************************************************************************)
EXTENDS Joins, SequencesExt

CONSTANTS Columns,   \* of each table: its columns in order, [name, type, null];
                     \* of a CTE, as with!{} declares them
          Parts,     \* what a selection list may be made of
          MaxParts,  \* bound: parts of one list
          Bodies,    \* the rows a WITH body may select, sequences of fields
          Structs,   \* FromRow structs, sequences of [by, key, type, null]
          Null       \* SQL NULL

Numeric == {"Integer", "BigInt", "Real", "Numeric"}   \* Summable
Types == Numeric \cup {"Text"}
Operator == {"sum", "avg", "min", "max", "count_of"}

\* What a selection list may be made of, but for a tuple: an aggregate's column
\* has the bound its function asks for (Summable for sum and avg).
IsSelectable(e) ==
  \/ e.part = "column" /\ e.table \in Table
       /\ \E i \in DOMAIN Columns[e.table] : Columns[e.table][i].name = e.name
  \/ e.part = "aggregate" /\ e.table \in Table /\ e.op \in Operator
       /\ \E i \in DOMAIN Columns[e.table] :
            /\ Columns[e.table][i].name = e.name
            /\ e.op \in {"sum", "avg"} => Columns[e.table][i].type \in Numeric
  \/ e.part = "count"
  \/ e.part = "sql" /\ e.type \in Types /\ e.null \in BOOLEAN
IsLeaf(l) == IF l.part = "label" THEN IsSelectable(l.inner) ELSE IsSelectable(l)

IsSequence(s) == s \in Seq(ToSet(s))

ASSUME RowsAssumption ==
  /\ MaxParts \in Nat
  /\ \A part \in Parts :
       CASE part.part = "all"   -> part.table \in Table
         [] part.part = "tuple" -> /\ IsSequence(part.parts) /\ part.parts # <<>>
                                   /\ \A i \in DOMAIN part.parts : IsLeaf(part.parts[i])
         [] OTHER               -> IsLeaf(part)
  /\ \A s \in Bodies \cup Structs \cup {Columns[t] : t \in Table} : IsSequence(s)
  /\ \A t \in Table : \A i \in DOMAIN Columns[t] :
       Columns[t][i].type \in Types /\ Columns[t][i].null \in BOOLEAN
  /\ \A t \in Table : \A i, j \in DOMAIN Columns[t] :
       Columns[t][i].name = Columns[t][j].name => i = j

VARIABLES bodies,   \* of each CTE bound: the fields its body selected
          row,      \* the RowCons chain: [key, type, null, value]
          meant,    \* history: the value of each thing the list asks for, by key
          taken,    \* what take has moved out, [key, value]
          filled,   \* a struct's fields, [field, key, value]
          end       \* "building", "row", "struct", "tuple" or "error"

rowVars == <<row, meant, taken, filled, end>>
allVars == <<vars, bodies, rowVars>>
-----------------------------------------------------------------------------
(* Keys: <<"column", table, name>>, <<op, table, name>> for an aggregate of  *)
(* it, <<"expr", name>>, <<"label", name>> and Anon.                         *)

Anon == <<"anon", "?">>

\* Named::NAME.  An aggregate is named after its column.
NameOf(key) == Last(key)

\* Spelled: every key but Anon is a name somebody wrote.
Spelled(key) == key # Anon

Field(key, type, null) == [key |-> key, type |-> type, null |-> null]

\* SameNameAs
SameNameAs(k1, k2) == Spelled(k1) /\ Spelled(k2) /\ NameOf(k1) = NameOf(k2)

\* Mutant of SameShape: positions agree by type alone.
SameTypes(a, b) ==
  /\ Len(a) = Len(b)
  /\ \A i \in DOMAIN a : a[i].type = b[i].type /\ a[i].null = b[i].null

\* SameShape: the same names in the same order, decoding to the same types.
SameShape(a, b) ==
  /\ Len(a) = Len(b)
  /\ \A i \in DOMAIN a : /\ SameNameAs(a[i].key, b[i].key)
                         /\ a[i].type = b[i].type /\ a[i].null = b[i].null

\* with!{}: the row it declares, and its WITH header, ColumnNames of that row.
DeclaredRow(t) ==
  [i \in DOMAIN Columns[t] |->
     Field(<<"column", t, Columns[t][i].name>>, Columns[t][i].type, Columns[t][i].null)]
Header(t) == [i \in DOMAIN DeclaredRow(t) |-> NameOf(DeclaredRow(t)[i].key)]

\* ColumnKey: what the schema says of a column.
Declared(t, name) == CHOOSE f \in ToSet(DeclaredRow(t)) : NameOf(f.key) = name
-----------------------------------------------------------------------------
(* Selection lists: [part |-> "column"], "aggregate", "sql", "label", "all"  *)
(* and, one level deep, "tuple".                                             *)

ColumnPart(t, name) == [part |-> "column", table |-> t, name |-> name]

\* A part's leaves are its items: All is the table's columns, a tuple the
\* leaves of its own parts.
AllColumns(t) == [i \in DOMAIN Columns[t] |-> ColumnPart(t, Columns[t][i].name)]

\* RowKey
KeyOf(leaf) ==
  CASE leaf.part = "column"    -> <<"column", leaf.table, leaf.name>>
    [] leaf.part = "aggregate" -> <<leaf.op, leaf.table, leaf.name>>
    [] leaf.part = "count"     -> <<"expr", "count">>
    [] leaf.part = "sql"       -> Anon
    [] leaf.part = "label"     -> <<"label", leaf.label>>

\* What the server is sent for it: a label's inner expression.
Expression(leaf) == IF leaf.part = "label" THEN leaf.inner ELSE leaf

\* Find for a column, Superset for the tables an expression reads.
InScope(leaf) ==
  LET e == Expression(leaf) IN e.part \in {"column", "aggregate"} => Found(scope, e.table)

\* Summable::Sum, and what the other aggregates say they decode to.
AggregateType(op, type) ==
  CASE op = "count_of"     -> "BigInt"
    [] op = "avg"          -> "Real"
    [] op \in {"min", "max"} -> type
    [] op = "sum"          -> IF type = "Integer" THEN "BigInt" ELSE type

\* Mutant of CastOf: sum alone is cast.
CastOfSum(op, type) == IF op = "sum" /\ type = "BigInt" THEN "BigInt" ELSE "none"

\* SUM_CAST and AVG_CAST, None where the server's own type has a native.
CastOf(op, type) ==
  CASE op = "sum" /\ type = "BigInt"                       -> "BigInt"
    [] op = "avg" /\ type \in {"Integer", "BigInt", "Numeric"} -> "Real"
    [] OTHER                                               -> "none"

\* RowField::Value: the native type, and whether it is an Option.
ValueType(leaf) ==
  LET e == Expression(leaf)
      c == Declared(e.table, e.name)
      i == CHOOSE p \in DOMAIN scope : scope[p].table = e.table
  IN CASE e.part = "column"    -> [type |-> c.type, null |-> DecodesAsOption(i, c.null)]
       [] e.part = "aggregate" -> [type |-> AggregateType(e.op, c.type),
                                   null |-> e.op # "count_of"]
       [] e.part = "count"     -> [type |-> "BigInt", null |-> FALSE]
       [] e.part = "sql"       -> [type |-> e.type, null |-> e.null]

\* field_part's Fields<Tail>
RowCons(leaf, tail) ==
  <<Field(KeyOf(leaf), ValueType(leaf).type, ValueType(leaf).null)>> \o tail

\* ColumnList's Fields<Tail> for All, row_chain's for a tuple.
PartFields(part, tail) ==
  CASE part.part = "all"   -> FoldRight(RowCons, AllColumns(part.table), tail)
    [] part.part = "tuple" -> FoldRight(RowCons, part.parts, tail)
    [] OTHER               -> RowCons(part, tail)

Fields(list) == FoldRight(PartFields, list, <<>>)

\* push_items
PushItem(out, leaf) == Append(out, Expression(leaf))
PushItems(out, part) ==
  CASE part.part = "all"   -> FoldLeft(PushItem, out, AllColumns(part.table))
    [] part.part = "tuple" -> FoldLeft(PushItem, out, part.parts)
    [] OTHER               -> PushItem(out, part)

Items(list) == FoldLeft(PushItems, <<>>, list)

LeavesOf(part) ==
  CASE part.part = "all"   -> ToSet(AllColumns(part.table))
    [] part.part = "tuple" -> ToSet(part.parts)
    [] OTHER               -> {part}

Leaves(list) == UNION {LeavesOf(p) : p \in ToSet(list)}

\* The fields a row may have, what a server may send for them, and a row's
\* cells, by type.  A NULL is none of the values.
Leaf == UNION {LeavesOf(part) : part \in Parts}
Key == {KeyOf(leaf) : leaf \in Leaf}
RowField == [key : Key, type : Types, null : BOOLEAN]
Sent == [of : {KeyOf(Expression(leaf)) : leaf \in Leaf}, type : Types]
RowCell == [key : Key, type : Types, null : BOOLEAN, value : Sent \cup {Null}]

ASSUME NullAssumption == Null \notin Sent

\* A list of one part is a row only when the part is All; others decode to a
\* bare value, which has no field to read.
DecodesToRow(list) == Len(list) > 1 \/ list[1].part \in {"all", "tuple"}
-----------------------------------------------------------------------------
(* The server.                                                             *)

\* WITH names the body's columns by position, whatever the body calls them.
BodyField(t, name) == bodies[t][CHOOSE i \in DOMAIN Header(t) : Header(t)[i] = name]

\* A column's value, and whether it can be NULL, as the server has it.
Stored(t, name) ==
  IF t \in Cte
  THEN [of |-> <<"column", t, NameOf(BodyField(t, name).key)>>, type |-> BodyField(t, name).type]
  ELSE [of |-> <<"column", t, name>>, type |-> Declared(t, name).type]

StoredMayBeNull(t, name) ==
  IF t \in Cte THEN BodyField(t, name).null ELSE Declared(t, name).null

\* The type an aggregate's value has before any cast.
ServerType(op, type) ==
  CASE op = "count_of"       -> "BigInt"
    [] op \in {"min", "max"} -> type
    [] op = "sum"            -> CASE type = "Integer" -> "BigInt"
                                  [] type = "BigInt"  -> "Numeric"
                                  [] OTHER            -> type
    [] op = "avg"            -> IF type = "Real" THEN "Real" ELSE "Numeric"

ColumnValue(t, name, r, nulls) ==
  LET i == CHOOSE p \in DOMAIN scope : scope[p].table = t
  IN IF r[i] = Absent \/ <<t, name>> \in nulls THEN Null ELSE Stored(t, name)

\* A group is one row here: NULL in is NULL out, but for a count.
Evaluate(e, r, nulls) ==
  CASE e.part = "column" -> ColumnValue(e.table, e.name, r, nulls)
    [] e.part = "aggregate" ->
         IF e.op # "count_of" /\ ColumnValue(e.table, e.name, r, nulls) = Null THEN Null
         ELSE LET type == Declared(e.table, e.name).type
                  cast == CastOf(e.op, type)
              IN [of |-> KeyOf(e), type |-> IF cast = "none" THEN ServerType(e.op, type) ELSE cast]
    [] e.part = "count" -> [of |-> KeyOf(e), type |-> "BigInt"]
    [] e.part = "sql"   -> [of |-> Anon, type |-> e.type]
-----------------------------------------------------------------------------
(* Decoding.                                                               *)

\* RowCons<K, V, Tail>, of a value decoded.
Decoded(f, v) == [key |-> f.key, type |-> f.type, null |-> f.null, value |-> v]

\* try_get: the type has to be the column's, and NULL wants an Option.
Fits(f, v) == IF v = Null THEN f.null ELSE v.type = f.type

\* Mutant of DecodeLeaf: a NULL is decoded without moving on.
DecodeOnlyValues(sent, acc, f) ==
  IF acc.ok /\ acc.at \in DOMAIN sent /\ Fits(f, sent[acc.at])
  THEN [at |-> IF sent[acc.at] = Null THEN acc.at ELSE acc.at + 1,
        row |-> Append(acc.row, Decoded(f, sent[acc.at])), ok |-> TRUE]
  ELSE [acc EXCEPT !.ok = FALSE]

\* decode_row_leaf: the value at the index, which then moves on; the first
\* error ends the row.
DecodeLeaf(sent, acc, f) ==
  IF acc.ok /\ acc.at \in DOMAIN sent /\ Fits(f, sent[acc.at])
  THEN [at |-> acc.at + 1, row |-> Append(acc.row, Decoded(f, sent[acc.at])), ok |-> TRUE]
  ELSE [acc EXCEPT !.ok = FALSE]

DecodeRow(fields, sent) ==
  FoldLeft(LAMBDA acc, f : DecodeLeaf(sent, acc, f), [at |-> 1, row |-> <<>>, ok |-> TRUE], fields)
-----------------------------------------------------------------------------
(* Reading a row.                                                          *)

Cells(r) == {[key |-> r[i].key, value |-> r[i].value] : i \in DOMAIN r}

\* Field<K, Idx>: where a key is, to be found only at one index.
Holding(r, key) == {i \in DOMAIN r : r[i].key = key}
One(places) == \E i \in places : places = {i}

\* Field::pluck, TakeNamed::take_named: what the row is left holding.
Pluck(r, i) == RemoveAt(r, i)

\* FieldValue: the struct's declared type is part of the search.
Decodes(f, cell) == f.type = cell.type /\ f.null = cell.null

\* Mutant of Candidates: the first of them is taken.
FirstOf(r, f) ==
  LET c == {i \in DOMAIN r : SameNameAs(f.key, r[i].key) /\ Decodes(f, r[i])}
  IN {i \in c : \A j \in c : i <= j}

\* Where a FromRow field looks: by the pair of name and type, or by the key
\* of its from = .., whose type has then to agree.
Candidates(r, f) ==
  {i \in DOMAIN r : SameNameAs(f.key, r[i].key) /\ Decodes(f, r[i])}
Matching(r, f) ==
  IF f.by = "name" THEN Candidates(r, f)
  ELSE {i \in Holding(r, f.key) : One(Holding(r, f.key)) /\ Decodes(f, r[i])}

\* One step of from_row, on the row the steps before have left.
FillField(acc, f) ==
  LET places == Matching(acc.row, f)
      i == CHOOSE p \in places : TRUE
  IN IF acc.ok /\ One(places)
     THEN [row |-> Pluck(acc.row, i), ok |-> TRUE,
           filled |-> Append(acc.filled, [key |-> acc.row[i].key, value |-> acc.row[i].value])]
     ELSE [row |-> acc.row, ok |-> FALSE, filled |-> acc.filled]

FromRow(r, struct) == FoldLeft(FillField, [row |-> r, filled |-> <<>>, ok |-> TRUE], struct)

\* RowValues::into_values
Prepend(head, tuple) == <<[key |-> head.key, value |-> head.value]>> \o tuple
IntoValues(r) == FoldRight(Prepend, r, <<>>)
-----------------------------------------------------------------------------
RowsInit ==
  /\ Init
  /\ bodies = [t \in Cte |-> <<>>]
  /\ row = <<>> /\ meant = {} /\ taken = {} /\ filled = <<>>
  /\ end = "building"

\* cte::with: the body has the declared row's shape.
With(t, body) ==
  /\ SameShape(body, DeclaredRow(t))
  /\ bodies' = [bodies EXCEPT ![t] = body]

\* from and the joins; a CTE goes there as with(..) made it, a table as it is.
Source(t, body) ==
  /\ end = "building"
  /\ IF t \in Cte THEN With(t, body) ELSE body = <<>> /\ UNCHANGED bodies
  /\ \/ From(t)
     \/ \E kind \in Kind, on \in SUBSET Table, match \in SUBSET (result \X stored[t]) :
          Join(kind, t, on, match)
  /\ UNCHANGED rowVars

\* The query is select(list)ed, run, and done with.
CloseQuery ==
  /\ scope' = <<>> /\ ctes' = <<>> /\ joins' = <<>> /\ result' = {} /\ patterns' = {}
  /\ bodies' = [t \in Cte |-> <<>>]
  /\ UNCHANGED stored

\* One row of its result, r, read back: with which columns NULL in it.
Load(list, r, nulls) ==
  LET value(leaf) == Evaluate(Expression(leaf), r, nulls)
      sent == [i \in DOMAIN Items(list) |-> Evaluate(Items(list)[i], r, nulls)]
      read == DecodeRow(Fields(list), sent)
  IN /\ end = "building" /\ scope # <<>>
     /\ DecodesToRow(list)
     /\ \A leaf \in Leaves(list) : InScope(leaf)
     /\ \A c \in nulls : Found(scope, c[1]) /\ StoredMayBeNull(c[1], c[2])
     /\ meant' = {[key |-> KeyOf(leaf), value |-> value(leaf)] : leaf \in Leaves(list)}
     /\ end' = IF read.ok THEN "row" ELSE "error"
     /\ row' = IF read.ok THEN read.row ELSE <<>>
     /\ CloseQuery
     /\ UNCHANGED <<taken, filled>>

\* Row::take
Take(key) ==
  /\ end = "row"
  /\ Spelled(key) /\ One(Holding(row, key))
  /\ LET i == CHOOSE p \in Holding(row, key) : TRUE
     IN /\ taken' = taken \cup {[key |-> key, value |-> row[i].value]}
        /\ row' = Pluck(row, i)
  /\ UNCHANGED <<vars, bodies, meant, filled, end>>

\* Row::into_struct; what no field asks for is let go with the row.
IntoStruct(struct) ==
  /\ end = "row"
  /\ FromRow(row, struct).ok
  /\ filled' = FromRow(row, struct).filled
  /\ end' = "struct"
  /\ UNCHANGED <<vars, bodies, row, meant, taken>>

\* Row::into_tuple
IntoTuple ==
  /\ end = "row"
  /\ filled' = IntoValues(row)
  /\ end' = "tuple"
  /\ UNCHANGED <<vars, bodies, row, meant, taken>>

\* Bound: lists of at most MaxParts parts.
Lists == UNION {[1 .. n -> Parts] : n \in 1 .. MaxParts}

NullableColumns ==
  {c \in UNION {{<<t, Columns[t][i].name>> : i \in DOMAIN Columns[t]} : t \in Table} :
     \E i \in DOMAIN scope : scope[i].table = c[1] /\ StoredMayBeNull(c[1], c[2])}

RowsNext ==
  \/ \E t \in Table, body \in Bodies \cup {<<>>} : Source(t, body)
  \/ \E list \in Lists, r \in result, nulls \in SUBSET NullableColumns : Load(list, r, nulls)
  \/ \E key \in {row[i].key : i \in DOMAIN row} : Take(key)
  \/ \E struct \in Structs : IntoStruct(struct)
  \/ IntoTuple

RowsSpec == RowsInit /\ [][RowsNext]_allVars
-----------------------------------------------------------------------------
\* A row that the server sends is a row that decodes: no NULL of a join or of
\* a nullable column, and no type of an aggregate, is one the list's own type
\* has no room for (WrapNullable, SUM_CAST and AVG_CAST).
EveryRowDecodes == end # "error"

\* Whatever way it is read, by key, into a struct or into a tuple, a field
\* holds what the list asked for under its key: the items the server is sent
\* and the chain the row is decoded into are walked in step (decode_at).
FieldsHoldWhatTheirKeysName ==
  Cells(row) \cup taken \cup ToSet(filled) \subseteq meant

\* A column's key finds that column: through a WITH, the one the body calls
\* by the name it was declared under (SameShape, on the transposed body).
ColumnsAreFoundByTheirNames ==
  \A c \in Cells(row) \cup taken \cup ToSet(filled) :
    c.key[1] = "column" => c.value = Null \/ c.value.of = c.key

\* The order the columns were selected in does not matter to a struct, and of
\* two columns that would do, neither is taken (into_struct).
StructsIgnoreTheOrder ==
  end = "row" =>
    \A struct \in Structs : \A p \in Bijection(DOMAIN row, DOMAIN row) :
      FromRow([i \in DOMAIN row |-> row[p[i]]], struct).ok =>
        FromRow([i \in DOMAIN row |-> row[p[i]]], struct).filled = FromRow(row, struct).filled
=============================================================================
