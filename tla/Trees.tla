-------------------------------- MODULE Trees --------------------------------
(***************************************************************************)
(* Trees as sequences of their nodes in postfix order: a node stands after *)
(* its operands, and its arity says how many they are.                     *)
(***************************************************************************)
EXTENDS Integers, SequencesExt

Tree(node, of) == Append(FlattenSeq(of), node)

\* The newest n of a stack, and those below them.
Newest(stack, n) == SubSeq(stack, Len(stack) - n + 1, Len(stack))
Below(stack, n) == SubSeq(stack, 1, Len(stack) - n)

\* A node's operands give way to what it makes of them.
Settle(make, stack, node) ==
  Append(Below(stack, node.arity), make[<<node, Newest(stack, node.arity)>>])

Settled(make, stack, tree) == FoldLeft(LAMBDA acc, node : Settle(make, acc, node), stack, tree)

\* What a tree amounts to, where make says it of each node and its operands.
Evaluate(make, tree) == Last(Settled(make, <<>>, tree))
=============================================================================
