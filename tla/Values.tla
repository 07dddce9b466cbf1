------------------------------- MODULE Values -------------------------------
(***************************************************************************)
(* The values a query binds (crates/core/src/expr.rs, enum Value) and the  *)
(* three relations the code draws on them: the derived ==, binds_same_as,  *)
(* and the bytes hash_into feeds a hasher.                                 *)
(*                                                                         *)
(* A value is its variant, what == compares (eq) and what a column stores  *)
(* (repr).  The two differ in three variants only: 0.0 and -0.0 are one    *)
(* number and two doubles, 1.0 and 1.00 one Decimal and two numerics, and  *)
(* two documents may be one structure and two texts.                       *)
(***************************************************************************)

CONSTANTS Value,   \* the values the program may bind
          NaN,     \* the number that is not equal to itself
          None     \* Option::None, and what is not there yet

\* The variants whose == is coarser than what a column stores.
StoredFinerThanEq == {"F64", "Numeric", "Json"}

ASSUME ValueAssumption ==
  \A v \in Value :
    /\ v = [variant |-> v.variant, eq |-> v.eq, repr |-> v.repr]
    /\ v.variant \notin StoredFinerThanEq => v.eq = v.repr /\ v.eq # NaN

\* PartialEq, as the compiler derives it; NaN is what makes it irreflexive.
Equal(a, b) ==
  /\ a.variant = b.variant
  /\ a.eq = b.eq
  /\ a.eq # NaN

\* Mutant of BindsSameAs: the derived ==.
EqualAlone(a, b) == Equal(a, b)

\* Value::binds_same_as: f64 by bits, Decimal by its serialized form, a
\* document by its text, everything else by ==.
BindsSameAs(a, b) ==
  IF a.variant = b.variant /\ a.variant \in StoredFinerThanEq
  THEN a.repr = b.repr
  ELSE Equal(a, b)

\* What Value::hash_into feeds the hasher: the discriminant, then the form
\* binds_same_as compares (nothing for a typed NULL, whose repr is fixed).
HashInput(v) ==
  <<v.variant, IF v.variant \in StoredFinerThanEq THEN v.repr ELSE v.eq>>

HashInputs == {HashInput(v) : v \in Value}

\* What bind_value hands the driver: a typed value as the server will store it.
DatabaseValue(v) == <<v.variant, v.repr>>
=============================================================================
