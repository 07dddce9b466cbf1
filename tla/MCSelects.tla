----------------------------- MODULE MCSelects -----------------------------
(* Small instances of Selects. *)
EXTENDS Selects

AColumn(table, name) == [kind |-> "column", of |-> table \o name, key |-> table \o name, name |-> name]
Total == [kind |-> "aggregate", of |-> None, key |-> "count", name |-> "count"]
\* Two window functions of one key over different frames.
RankBy(c) == [kind |-> "rank", of |-> c, key |-> "row_number", name |-> "row_number" \o c]
Series == [kind |-> "series", of |-> "users.n", key |-> "series", name |-> "series"]

\* Every kind of item, alone, beside a column, and two of one key.
AnyItem == {AColumn("users.", "id"), AColumn("users.", "n"), Total,
            RankBy("users.id"), RankBy("users.n"), Series}
AnySelection == {<<i>> : i \in AnyItem}
                  \cup {<<AColumn("users.", "id"), i>> : i \in AnyItem \ {AColumn("users.", "id")}}
                  \cup {<<RankBy("users.n"), RankBy("users.id")>>, <<Series, Total>>}
\* The same name of two tables.
TwoIds == {<<AColumn("users.", "id"), AColumn("posts.", "id")>>}

UserColumns == {"users.id", "users.n"}
IdColumns == {"users.id", "posts.id"}

ARow(id, n) == [c \in {"users.id", "posts.id", "users.n"} |-> IF c = "users.n" THEN n ELSE id]
\* No row, and a one-to-many join's: a repeated left side, a row apart.
FewRows == {<<>>, <<ARow(1, 2), ARow(1, 2), ARow(2, 0)>>, <<ARow(1, 1), ARow(2, 1)>>}

\* Below zero, within a page's reach, and past the greatest i64.
EdgeCounts == {[type |-> "signed", n |-> -1], [type |-> "bound", n |-> 1],
               [type |-> "unsigned", n |-> I64Max + 1]}
OneCount == {[type |-> "signed", n |-> 1]}

NoBinding == {None}
EveryBinding == {None, "read"}
EveryDialect == Dialect
OnMySql == {MySql}
=============================================================================
