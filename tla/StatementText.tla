---------------------------- MODULE StatementText ----------------------------
(***************************************************************************)
(* What a sink promises, as if the dialect could write any value into the  *)
(* SQL: the statement is the pieces asked for, one after the other, a      *)
(* bound value standing in the text as the server would store it.          *)
(***************************************************************************)
EXTENDS Values, Sequences

CONSTANT Text

VARIABLES text,     \* the statement, values inlined
          written   \* what was asked for

Write(piece) ==
  /\ text' = Append(text, piece)
  /\ written' = Append(written, piece)

Inline(v) ==
  /\ text' = Append(text, DatabaseValue(v))
  /\ written' = Append(written, v)

Init == text = <<>> /\ written = <<>>

Next == \/ \E piece \in Text : Write(piece)
        \/ \E v \in Value : Inline(v)

Spec == Init /\ [][Next]_<<text, written>>
=============================================================================
