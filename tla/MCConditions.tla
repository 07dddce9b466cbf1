---------------------------- MODULE MCConditions ----------------------------
(* Conditions over two tables, each of one column that may be NULL; the      *)
(* tables are alike.  Queries are correlated one in the other, and in        *)
(* themselves.                                                               *)
EXTENDS Conditions

MCLists == {<<>>, <<TRUE>>, <<TRUE, FALSE>>}

TableSymmetry == Permutations(Table)
=============================================================================
