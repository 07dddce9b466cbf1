----------------------------- MODULE MCInserts -----------------------------
(* Small instances of Inserts. *)
EXTENDS Inserts

AColumn(name, nullable, default) ==
  [name |-> name, nullable |-> nullable, default |-> default, generated |-> FALSE, key |-> FALSE,
   values |-> {"x", "y"}]
Id == [AColumn("id", FALSE, FALSE) EXCEPT !.generated = TRUE, !.key = TRUE]

\* A column whose rows do not matter, the conflict over them does.
Alike(name, key) == [AColumn(name, FALSE, FALSE) EXCEPT !.key = key, !.values = {"a"}]

\* Every kind of column, with a generated one beside it; nothing but one.
FewTables == {<<Id, AColumn("email", FALSE, FALSE), AColumn("role", TRUE, TRUE)>>,
              <<AColumn("score", FALSE, TRUE), Id, AColumn("note", TRUE, FALSE)>>,
              <<Id>>}
OnlyGenerated == {<<Id>>}
EveryTable == FewTables \cup {<<Alike("handle", TRUE), Alike("n", FALSE), Alike("m", FALSE)>>}

\* The columns of the tables in either order, and a generated one in front.
FewSources == {<<"email", "role">>, <<"role", "email">>, <<"score", "note">>,
               <<"note", "score">>, <<"id", "score", "note">>}

APredicate == <<"own", "n", "a">>
FewTargets == {[columns |-> <<"handle">>, predicate |-> None],
               [columns |-> <<"handle", "n">>, predicate |-> APredicate]}
IdTarget == {[columns |-> <<"id">>, predicate |-> None]}
FewExpressions == {<<"value", "a">>, <<"excluded", "n">>}
FewConditions == {APredicate, <<"excluded", "n", "a">>}

EveryDialect == {Postgres, MySql, Sqlite}
OnSqlite == {Sqlite}
=============================================================================
