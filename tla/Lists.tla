-------------------------------- MODULE Lists --------------------------------
(***************************************************************************)
(* Sequences with some of their elements left out.                         *)
(***************************************************************************)
EXTENDS Integers, SequencesExt

\* The elements that are chosen, in their order.
Only(s, chosen) == FoldLeft(LAMBDA acc, x : IF x \in chosen THEN Append(acc, x) ELSE acc, <<>>, s)

\* The first of each value.
FirstOfEach(s) == FoldLeft(LAMBDA acc, x : IF x \in ToSet(acc) THEN acc ELSE Append(acc, x), <<>>, s)
=============================================================================
