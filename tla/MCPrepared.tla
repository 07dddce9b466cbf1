----------------------------- MODULE MCPrepared -----------------------------
(* Two structs of one module that share a field name, literals that an       *)
(* argument may equal and that are one number stored as two, and, for the    *)
(* run on names, a struct declared again in another function of the module.  *)
EXTENDS Prepared

MCNaN == "NaN"

Struct(block, name, fields) == [module |-> "app", block |-> block, name |-> name,
                                fields |-> fields]

ByEmail == Struct("module", "ByEmail", {"email", "limit"})
ByTeam == Struct("module", "ByTeam", {"email"})
DistinctStructs == {ByEmail, ByTeam}

\* struct ByTeam, declared in the bodies of two functions
SameNameStructs == {Struct("fn a", "ByTeam", {"email"}), Struct("fn b", "ByTeam", {"email"})}

MCLiteral == {[variant |-> "F64", eq |-> "0", repr |-> x] : x \in {"0.0", "-0.0"}}

MCValue == MCLiteral \cup
           UNION {{PlaceholderOf(d, field) : field \in d.fields} : d \in Declaration}
=============================================================================
