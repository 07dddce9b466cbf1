--------------------------- MODULE MCSetOperation ---------------------------
(* A branch read whole, one with a page of its own, one whose columns are    *)
(* the same two in the other order, and one that selects a name twice.       *)
EXTENDS SetOperation

Select(name, columns, l, o) == [name |-> name, columns |-> columns, limit |-> l, offset |-> o]

MCBranch == {Select("live", <<"id", "email">>, None, None),
             Select("archived", <<"id", "email">>, None, 1),
             Select("swapped", <<"email", "id">>, None, None),
             Select("twins", <<"id", "id">>, None, None)}
=============================================================================
