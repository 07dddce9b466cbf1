----------------------------- MODULE MCUpdates -----------------------------
(* A small instance of Updates. *)
EXTENDS Updates

AColumn(name, nullable) ==
  [name |-> name, nullable |-> nullable, default |-> FALSE, generated |-> FALSE, key |-> FALSE,
   values |-> {"a", "b"}]
Id == [AColumn("id", FALSE) EXCEPT !.generated = TRUE, !.key = TRUE]

ATable == {<<Id, AColumn("n", FALSE), AColumn("note", TRUE)>>}
FewExpressions == {<<"value", "a">>, <<"own", "n">>, <<"own", "id">>}
FewConditions == {<<"id", "a">>, <<"n", "a">>, <<"note", "b">>}
EveryDialect == {Postgres, MySql, Sqlite}
=============================================================================
