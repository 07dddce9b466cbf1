------------------------------- MODULE Columns -------------------------------
(***************************************************************************)
(* A table's columns as #[derive(Table)] sorts them, what a row's setters  *)
(* make of their arguments, and the SET list of an UPDATE and of a         *)
(* DO UPDATE (crates/macros/src/lib.rs, crates/core/src/expr.rs,           *)
(* update.rs).                                                             *)
(***************************************************************************)
EXTENDS Lists

CONSTANTS None,     \* Option::None, and the clause not written
          Tables    \* the tables written to: sequences of their columns,
                    \* [name, nullable, default, generated, key, values]

Null == "NULL"             \* a type's NULL_VALUE
Default == "DEFAULT"       \* InsertValue::Default
Missing == "Missing"       \* Missing<C>

ASSUME ColumnsAssumption ==
  /\ None \notin Tables \cup {Null, Default, Missing}
  /\ \A t \in Tables :
       /\ t \in Seq(ToSet(t))
       /\ \A i, j \in DOMAIN t : t[i].name = t[j].name => i = j
       /\ \A i \in DOMAIN t : /\ t[i].name # Default
                              /\ t[i].key => ~t[i].nullable
                              /\ t[i].values \cap {Null, Default, Missing, None} = {}

Names(columns) == [i \in DOMAIN columns |-> columns[i].name]
Named(columns, name) == CHOOSE c \in ToSet(columns) : c.name = name

\* ColumnInfo::insertable: the columns an INSERT names, in field order.
Insertable(columns) == Only(columns, {c \in ToSet(columns) : ~c.generated})

\* ColumnInfo::assignable: those a SET may name.
Assignable(columns) == {c \in ToSet(columns) : ~c.generated /\ ~c.key}
AssignableTo(t) == {c.name : c \in Assignable(t)}

\* The *InsertBuilder's fields: a required column's slot is missing, the
\* others start as Option's and Defaultable's own defaults.
EmptyField(c) ==
  IF c.default THEN Default ELSE IF c.nullable THEN Null ELSE Missing

\* Mutant of IntoColumnValue: None is NULL wherever NULL is allowed.
NoneIsNull(c, arg) == IF arg # None THEN arg ELSE IF c.nullable THEN Null ELSE Default

\* IntoColumnValue at an insert's setter: None is the default of a column
\* that has one.
IntoColumnValue(c, arg) == IF arg # None THEN arg ELSE IF c.default THEN Default ELSE Null

\* What a setter takes: Option<T> where the column can be left out.
Arguments(c) == c.values \cup (IF c.nullable \/ c.default THEN {None} ELSE {})

\* AssignsTo: a value of the column's type, or a column whose values all fit.
Fits(columns, name, value) ==
  LET c == Named(columns, name)
      from == Named(columns, value[2])
  IN IF value[1] = "value" THEN value[2] \in c.values
     ELSE /\ value[2] \in ToSet(Names(columns))
          /\ from.values \subseteq c.values /\ (from.nullable => c.nullable)

Set(name, value) == [column |-> name, value |-> value]

\* Mutant of PushSet: appended whatever is there.
PushAnother(sets, name, value) == Append(sets, Set(name, value))

\* push_set: an earlier assignment to the column is replaced.
PushSet(sets, name, value) ==
  Append(Only(sets, {s \in ToSet(sets) : s.column # name}), Set(name, value))
=============================================================================
