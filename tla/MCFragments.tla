----------------------------- MODULE MCFragments -----------------------------
(* Two fragments, so that one can embed the other, over two doubles that are *)
(* one number and an integer.                                                *)
EXTENDS Fragments

FragmentSymmetry == Permutations(Fragment)

MCNaN == "NaN"

MCValue == {[variant |-> "F64", eq |-> "0", repr |-> "0.0"],
            [variant |-> "F64", eq |-> "0", repr |-> "-0.0"]}
=============================================================================
