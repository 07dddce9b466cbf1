------------------------------ MODULE Prepared ------------------------------
(***************************************************************************)
(* Queries prepared once and run with named parameters (prepare.rs,        *)
(* select/prepared.rs).  A prepare! struct declares fields, each a         *)
(* Value::Placeholder bound like any value; .prepare renders the template; *)
(* resolve, which any number of callers run against the one template,      *)
(* replaces the placeholders by the fields of the caller's Params.         *)
(***************************************************************************)
EXTENDS QuerySink

CONSTANTS Declaration,  \* the prepare! structs: [module, block, name, fields]
          Caller

VARIABLES slots,        \* history: the declared field bound at each position
          prepared,     \* the Params type of the Prepared, None while rendering
          calls         \* each caller's resolve

preparedVars == <<slots, prepared, calls>>
vars == <<sinkVars, preparedVars>>

\* Mutant of QualifiedName: the field alone.
FieldAlone(d, field) == <<field>>

\* The name prepare! gives a field: concat!(module_path!(), "::", struct, ".",
\* field).  The block a struct is declared in has no part in it.
QualifiedName(d, field) == <<d.module, d.name, field>>

PlaceholderOf(d, field) == [variant |-> "Placeholder", eq |-> QualifiedName(d, field),
                            repr |-> QualifiedName(d, field)]

IsNamed(v) == v.variant = "Placeholder"

Literal == {v \in Value : ~IsNamed(v)}

\* A declared field.
Slot == [of : Declaration, field : UNION {d.fields : d \in Declaration}]

ASSUME DeclarationAssumption ==
  /\ None \notin Declaration \cup Slot
  /\ \A d \in Declaration : \A field \in d.fields : PlaceholderOf(d, field) \in Value
-----------------------------------------------------------------------------
WriteText(t) ==
  /\ prepared = None
  /\ Len(sql) < MaxTokens
  /\ PushText(<<t>>)
  /\ slots' = Append(slots, None)
  /\ UNCHANGED <<prepared, calls>>

BindLiteral(v) ==
  /\ prepared = None
  /\ Len(sql) < MaxTokens
  /\ Bind(v)
  /\ slots' = Append(slots, None)
  /\ UNCHANGED <<prepared, calls>>

\* A field's generated function, used in the query as an expression.
BindField(d, field) ==
  /\ prepared = None
  /\ Len(sql) < MaxTokens
  /\ Bind(PlaceholderOf(d, field))
  /\ slots' = Append(slots, [of |-> d, field |-> field])
  /\ UNCHANGED <<prepared, calls>>

\* Select::prepare::<Params, _>: nothing ties Params to the fields bound.
Prepare(d) ==
  /\ prepared = None
  /\ prepared' = d
  /\ UNCHANGED <<sinkVars, slots, calls>>

\* Prepared::resolve begins: Params::into_named_values
Call(c, args) ==
  /\ calls[c] = None
  /\ calls' = [calls EXCEPT ![c] = [args |-> args, resolved |-> <<>>,
                                    status |-> "running", missing |-> None]]
  /\ UNCHANGED <<sinkVars, slots, prepared>>

\* The template entry the loop is at.
Entry(c) == params[Len(calls[c].resolved) + 1]

\* Mutant of Matching: any field will do.
AnyField(c) == prepared.fields

\* The fields of Params whose name the entry asks for.
Matching(c) == {field \in prepared.fields : QualifiedName(prepared, field) = Entry(c).eq}

Running(c) == calls[c] # None /\ calls[c].status = "running"

Push(c, v) == calls' = [calls EXCEPT ![c].resolved = Append(@, v)]

\* One turn of resolve's loop: a literal is copied, a placeholder replaced...
ResolveNext(c) ==
  /\ Running(c)
  /\ Len(calls[c].resolved) < Len(params)
  /\ IF ~IsNamed(Entry(c)) THEN Push(c, Entry(c))
     ELSE \E field \in Matching(c) : Push(c, calls[c].args[field])
  /\ UNCHANGED <<sinkVars, slots, prepared>>

\* ... or, having no match, ends the call with UnresolvedPlaceholder.
ResolveFails(c) ==
  /\ Running(c)
  /\ Len(calls[c].resolved) < Len(params)
  /\ IsNamed(Entry(c))
  /\ Matching(c) = {}
  /\ calls' = [calls EXCEPT ![c].status = "unresolved", ![c].missing = Entry(c).eq]
  /\ UNCHANGED <<sinkVars, slots, prepared>>

\* Ok((sql, resolved))
ResolveEnds(c) ==
  /\ Running(c)
  /\ Len(calls[c].resolved) = Len(params)
  /\ calls' = [calls EXCEPT ![c].status = "ok"]
  /\ UNCHANGED <<sinkVars, slots, prepared>>
-----------------------------------------------------------------------------
PreparedInit ==
  /\ Init
  /\ slots = <<>>
  /\ prepared = None
  /\ calls = [c \in Caller |-> None]

PreparedNext ==
  \/ \E t \in Text : WriteText(t)
  \/ \E v \in Literal : BindLiteral(v)
  \/ \E d \in Declaration : \E field \in d.fields : BindField(d, field)
  \/ \E d \in Declaration : Prepare(d)
  \/ \E c \in Caller : prepared # None /\ \E args \in [prepared.fields -> Literal] : Call(c, args)
  \/ \E c \in Caller : ResolveNext(c) \/ ResolveFails(c) \/ ResolveEnds(c)

PreparedSpec == PreparedInit /\ [][PreparedNext]_vars
-----------------------------------------------------------------------------
Ended(status) == {c \in Caller : calls[c] # None /\ calls[c].status = status}

Bound == {i \in DOMAIN slots : slots[i] # None}

\* A resolved call sends what the query says with the caller's own arguments
\* in it: at each placeholder of the text the server reads the literal bound
\* there or the argument of the field used there, however placeholders and
\* literals share parameters, and whatever other callers pass meanwhile.
ResolvedReadsTheCallersArguments ==
  \A c \in Ended("ok") : \A i \in Occurrences :
    DatabaseValue(calls[c].resolved[ParameterAt(i)]) =
      IF slots[i] = None THEN AskedAt(i)
      ELSE DatabaseValue(calls[c].args[slots[i].field])

\* The template entries Params has no field for.
Lacking == {p \in DOMAIN params : /\ IsNamed(params[p])
                                  /\ \A field \in prepared.fields :
                                       QualifiedName(prepared, field) # params[p].eq}

\* Running a query with another struct's values is an UnresolvedPlaceholder
\* and never a value bound to the wrong slot (the comment on Prepared); it
\* names the first field the template asks for that Params lacks, and a call
\* whose Params lack none is never refused.
MismatchIsUnresolved ==
  /\ \A c \in Ended("ok") : \A i \in Bound : slots[i].of = prepared
  /\ \A c \in Ended("unresolved") : \E p \in Lacking :
       /\ calls[c].missing = params[p].eq
       /\ \A q \in Lacking : p <= q
=============================================================================
