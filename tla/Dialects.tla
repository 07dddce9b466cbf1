------------------------------ MODULE Dialects ------------------------------
(***************************************************************************)
(* The dialects' constants (crates/core/src/dialect.rs) that decide how a  *)
(* set operation and a page are written, and, beside them, the grammar the *)
(* servers read them with, which the constants have to suit.               *)
(***************************************************************************)
EXTENDS Integers

CONSTANTS None,
          Rejected,  \* what a server makes of SQL it does not accept
          I64Max     \* the greatest i64

ASSUME DialectsAssumption ==
  /\ I64Max \in Nat \ {0}
  /\ None \notin Int /\ Rejected \notin Int \cup {None}

U64Max == 2 * I64Max + 1

Postgres == "postgres"
MySql == "mysql"
Sqlite == "sqlite"
Dialect == {Postgres, MySql, Sqlite}

\* Dialect::PARENTHESIZED_SET_OP_BRANCHES
ParenthesizedSetOpBranches(d) == d # Sqlite

\* Dialect::OFFSET_WITHOUT_LIMIT
OffsetWithoutLimit(d) == CASE d = Postgres -> None
                           [] d = MySql -> U64Max
                           [] d = Sqlite -> -1
-----------------------------------------------------------------------------
\* Whether the server binds INTERSECT tighter than UNION and EXCEPT, as the
\* standard does; SQLite reads every set operator left to right.
IntersectBindsTighter(d) == d # Sqlite

\* Whether the server takes an OFFSET with no LIMIT before it.
TakesBareOffset(d) == d = Postgres

\* What the server makes of the number in a LIMIT: how many rows, None where
\* that is all of them, as it is past any number of rows a result can have.
ReadLimit(d, n) ==
  CASE n < 0 -> IF d = Sqlite THEN None ELSE Rejected
    [] n > I64Max -> IF d = MySql /\ n <= U64Max THEN None ELSE Rejected
    [] OTHER -> n

\* ... and in an OFFSET.
ReadOffset(d, n) ==
  CASE n < 0 -> IF d = Sqlite THEN 0 ELSE Rejected
    [] n > I64Max -> IF d = MySql /\ n <= U64Max THEN n ELSE Rejected
    [] OTHER -> n
=============================================================================
