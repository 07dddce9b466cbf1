-------------------------------- MODULE Joins --------------------------------
(***************************************************************************)
(* The FROM/JOIN scope a Select carries in its type (scope.rs), and the    *)
(* builder methods that grow it (select/mod.rs: from, inner_join,          *)
(* left_join, right_join, full_join).  Beside the scope, the rows the      *)
(* query would return over some tables' contents: the scope's claim that a *)
(* table is always present is what decides whether a column decodes into   *)
(* an Option, so the two have to agree.                                    *)
(***************************************************************************)
EXTENDS Integers, Sequences, FiniteSets

CONSTANTS Table,                 \* the marker types of the schema's tables
          Cte,                   \* ... those with!{} declares, bound where they are used
          RowId,                 \* the rows a table may hold
          Absent,                \* a table's side of an unmatched row: all NULL
          SUPPORTS_FULL_JOIN,    \* D: SupportsFullOuterJoin (not MySQL)
          MaxJoins               \* bound: joins of one query

NotNull == "NotNull"
MaybeNull == "MaybeNull"
Nullability == {NotNull, MaybeNull}

ASSUME JoinsAssumption ==
  /\ Cte \subseteq Table
  /\ Absent \notin RowId
  /\ SUPPORTS_FULL_JOIN \in BOOLEAN
  /\ MaxJoins \in Nat

VARIABLES scope,     \* Cons<TableSlot<T, N>, ..>, most recently joined first
          ctes,      \* SelectBody::ctes, by name
          joins,     \* SelectBody::joins: kind, table, the tables ON reads
          stored,    \* the rows of each table
          result,    \* the rows FROM and the joins so far make, sides as in scope
          patterns   \* which sides a row of this shape of query may have, on
                     \* any contents and any conditions

vars == <<scope, ctes, joins, stored, result, patterns>>

Kind == {"inner", "left", "right", "full"}
-----------------------------------------------------------------------------
Slot(t, n) == [table |-> t, null |-> n]

\* Mutant of MapNullable: only the newest table is flipped.
MapNewest(s) == [i \in DOMAIN s |-> IF i = 1 THEN [s[i] EXCEPT !.null = MaybeNull] ELSE s[i]]

\* MapNullable: every slot flipped to MaybeNull.
MapNullable(s) == [i \in DOMAIN s |-> [s[i] EXCEPT !.null = MaybeNull]]

\* Mutants of Joined: the old scope forgotten, flipped whole by every outer join,
\* or taken for present again after an inner one.
JoinedAlone(kind, t) == <<Slot(t, NotNull)>>
JoinedFlippingAll(kind, t) == <<Slot(t, IF kind = "inner" THEN NotNull ELSE MaybeNull)>> \o
                              (IF kind = "inner" THEN scope ELSE MapNullable(scope))
JoinedResetting(kind, t) ==
  <<Slot(t, IF kind \in {"left", "full"} THEN MaybeNull ELSE NotNull)>> \o
    (IF kind = "inner" THEN [i \in DOMAIN scope |-> Slot(scope[i].table, NotNull)] ELSE scope)

\* The scope a join produces: the joined table's own slot in front, and the
\* others flipped by the two kinds that can leave them unmatched.
Joined(kind, t) ==
  <<Slot(t, IF kind \in {"left", "full"} THEN MaybeNull ELSE NotNull)>> \o
    (IF kind \in {"right", "full"} THEN MapNullable(scope) ELSE scope)

\* Find<T, Index>: where a scope has the table.
Positions(s, t) == {i \in DOMAIN s : s[i].table = t}

\* What type inference can resolve: exactly one index.  A table joined twice
\* is an ambiguity the first time a column of it is referenced.
Found(s, t) == \E i \in Positions(s, t) : Positions(s, t) = {i}

\* Superset<Req, Idxs>: a condition reading the tables of req may be used.
Superset(s, req) == \A t \in req : Found(s, t)

\* WrapNullable over Find::Nullability: whether a column declared nullable or
\* not decodes into an Option when its slot is at i.
DecodesAsOption(i, declared) == declared \/ scope[i].null = MaybeNull
-----------------------------------------------------------------------------
\* What the database makes of a join whose condition holds of exactly the
\* pairs in match (a query's rows are sequences of sides, newest in front).
Pairs(kind, t, match) ==
  LET matched == {<<m[2]>> \o m[1] : m \in match}
      alone == {<<Absent>> \o r : r \in result \ {m[1] : m \in match}}
      new == {<<x>> \o [i \in DOMAIN scope |-> Absent] :
                x \in stored[t] \ {m[2] : m \in match}}
  IN matched \cup (IF kind \in {"left", "full"} THEN alone ELSE {})
             \cup (IF kind \in {"right", "full"} THEN new ELSE {})

\* The same of sides filled or empty, where any row may match or fail to.
PairPatterns(kind) ==
  {<<"filled">> \o p : p \in patterns}
    \cup (IF kind \in {"left", "full"} THEN {<<"empty">> \o p : p \in patterns} ELSE {})
    \cup (IF kind \in {"right", "full"}
          THEN {<<"filled">> \o [i \in DOMAIN scope |-> "empty"]} ELSE {})
-----------------------------------------------------------------------------
\* Mutant of AttachBindingOf: a FROM's alone.
AttachFrom(t) == ctes' = IF t \in Cte /\ scope = <<>> THEN Append(ctes, t) ELSE ctes

\* attach_binding_of: a CTE brings its WITH clause along, a table none.
AttachBindingOf(t) == ctes' = IF t \in Cte THEN Append(ctes, t) ELSE ctes

\* SelectSeed::from
From(t) ==
  /\ scope = <<>>
  /\ AttachBindingOf(t)
  /\ scope' = <<Slot(t, NotNull)>>
  /\ result' = {<<x>> : x \in stored[t]}
  /\ patterns' = {<<"filled">>}
  /\ UNCHANGED <<joins, stored>>

\* inner_join, left_join, right_join, full_join.  The condition is discharged
\* against the scope the join produces; it may hold of any pairs.
Join(kind, t, on, match) ==
  /\ scope # <<>>
  /\ Len(joins) < MaxJoins
  /\ kind = "full" => SUPPORTS_FULL_JOIN
  /\ Superset(Joined(kind, t), on)
  /\ AttachBindingOf(t)
  /\ scope' = Joined(kind, t)
  /\ joins' = Append(joins, [kind |-> kind, table |-> t, on |-> on])
  /\ result' = Pairs(kind, t, match)
  /\ patterns' = PairPatterns(kind)
  /\ UNCHANGED stored

Init ==
  /\ scope = <<>>
  /\ ctes = <<>>
  /\ joins = <<>>
  /\ stored \in [Table -> SUBSET RowId]
  /\ result = {}
  /\ patterns = {}

Next ==
  \/ \E t \in Table : From(t)
  \/ \E t \in Table, kind \in Kind, on \in SUBSET Table :
       \E match \in SUBSET (result \X stored[t]) : Join(kind, t, on, match)

Spec == Init /\ [][Next]_vars
-----------------------------------------------------------------------------
\* The scope and the joins keep their types and stay as long as one another,
\* and every row has a side per slot.
TypeOK ==
  /\ scope \in Seq([table : Table, null : Nullability])
  /\ ctes \in Seq(Cte)
  /\ joins \in Seq([kind : Kind, table : Table, on : SUBSET Table])
  /\ stored \in [Table -> SUBSET RowId]
  /\ result \subseteq Seq(RowId \cup {Absent})
  /\ patterns \subseteq Seq({"filled", "empty"})
  /\ \A r \in result \cup patterns : Len(r) = Len(scope)
  /\ scope # <<>> => Len(scope) = Len(joins) + 1

\* A CTE in scope is bound by the statement's own WITH, wherever among the
\* sources it came, and none is bound that the query does not read (the
\* comment on Cte: bound and used are one act).
CtesInScopeAreBound ==
  {scope[i].table : i \in DOMAIN scope} \cap Cte = {ctes[k] : k \in DOMAIN ctes}

\* No row decodes a NULL into a type without room for it: a side a row lacks
\* belongs to a slot whose columns decode into Option, however they were
\* declared (RowField for Column, WrapNullable).
NoNullWithoutOption ==
  \A r \in result : \A i \in DOMAIN scope :
    r[i] = Absent => \A declared \in BOOLEAN : DecodesAsOption(i, declared)

\* ... and no column declared NOT NULL asks for an Option it cannot need:
\* a slot is MaybeNull exactly when the joins can leave its table out of a
\* row (the Nullability markers' own definition).
OptionOnlyWhereNeeded ==
  \A i \in DOMAIN scope :
    DecodesAsOption(i, FALSE) <=> \E p \in patterns : p[i] = "empty"

\* Nothing joined later takes presence back: a column that may be NULL stays
\* so, at the position the tables joined since have pushed it to, and no table
\* leaves the scope.
NullabilityIsSticky ==
  [][scope # <<>> /\ scope' # <<>> =>
       /\ Len(scope') = Len(scope) + 1
       /\ \A i \in DOMAIN scope : /\ scope'[i + 1].table = scope[i].table
                                  /\ scope[i].null = MaybeNull => scope'[i + 1].null = MaybeNull]_scope
=============================================================================
