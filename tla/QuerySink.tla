------------------------------ MODULE QuerySink ------------------------------
(***************************************************************************)
(* The sink every statement is rendered into (crates/core/src/render.rs,   *)
(* QuerySink and BoundValues): the SQL text with its placeholders, the     *)
(* parameter list, and, where the dialect numbers its placeholders, the    *)
(* index that lets a value bound again name the parameter it already has.  *)
(*                                                                         *)
(* The text is a sequence of the pieces written and of placeholders; the   *)
(* history variable written holds what the caller asked for instead, with  *)
(* the value itself at every bind.                                         *)
(***************************************************************************)
EXTENDS Values, Integers, Sequences, FiniteSets

CONSTANTS Text,                  \* the pieces of SQL text a renderer writes
          Dialect,               \* the dialects a statement may be rendered for
          NUMBERED,              \* those with PLACEHOLDERS_ARE_NUMBERED
          Keys,                  \* the values a 64-bit hash may take
          MaxTokens              \* bound: the longest statement rendered

Placeholder == [number : Nat]
Positional  == [number |-> 0]    \* ?: it carries no number

ASSUME SinkAssumption ==
  /\ NUMBERED \subseteq Dialect
  /\ MaxTokens \in Nat
  /\ Text \cap Value = {}
  /\ \A t \in Text : t \notin Placeholder

VARIABLES dialect,  \* the type D the sink is made for
          sql,      \* QuerySink::sql
          params,   \* QuerySink::params
          bound,    \* BoundValues::by_key, every bucket empty where it is None
          hasher,   \* the sink's RandomState: which key an input hashes to
          written   \* history: what was asked of the sink, values inlined

sinkVars == <<dialect, sql, params, bound, hasher, written>>
-----------------------------------------------------------------------------
\* D::PLACEHOLDERS_ARE_NUMBERED
Numbered == dialect \in NUMBERED

\* BoundValues::key
Key(v) == hasher[HashInput(v)]

\* Mutant of Hits: the index is never looked up.
NoHits(v) == {}

\* The entries of v's bucket that hold a value bound as v is.  Entries are
\* the 0-based indices of params, as in the code.
Hits(v) == {j \in DOMAIN bound[Key(v)] :
              BindsSameAs(params[bound[Key(v)][j] + 1], v)}

\* BoundValues::existing_placeholder_number: the first hit of the bucket.
ExistingPlaceholderNumber(v) ==
  bound[Key(v)][CHOOSE j \in Hits(v) : \A k \in Hits(v) : j <= k] + 1

\* Mutant of Record: the index before the value's.
RecordBefore(index, v) == bound' = [bound EXCEPT ![Key(v)] = Append(@, index - 1)]

\* BoundValues::record
Record(index, v) == bound' = [bound EXCEPT ![Key(v)] = Append(@, index)]

\* Mutant of WritePlaceholder: counts from 0.
WriteFromZero(n) == IF Numbered THEN [number |-> n - 1] ELSE Positional

\* Dialect::write_placeholder: $n, or a ? that drops the number.
WritePlaceholder(n) == IF Numbered THEN [number |-> n] ELSE Positional

\* Sink::text and Sink::ch
PushText(ts) ==
  /\ sql' = sql \o ts
  /\ written' = written \o ts
  /\ UNCHANGED <<dialect, params, bound, hasher>>

\* Sink::bind where the dialect numbers and the value is bound already.
BindAgain(v) ==
  /\ Numbered
  /\ Hits(v) # {}
  /\ sql' = Append(sql, WritePlaceholder(ExistingPlaceholderNumber(v)))
  /\ written' = Append(written, v)
  /\ UNCHANGED <<dialect, params, bound, hasher>>

\* Sink::bind otherwise: QuerySink::new_placeholder_number makes the parameters
\* list and, where there is an index, records where v went.
BindInto(list, v) ==
  /\ Numbered => Hits(v) = {}
  /\ params' = list
  /\ IF Numbered THEN Record(Len(params), v) ELSE UNCHANGED bound
  /\ sql' = Append(sql, WritePlaceholder(Len(params) + 1))
  /\ written' = Append(written, v)
  /\ UNCHANGED <<dialect, hasher>>

\* Mutants of BindNew: the value pushed twice, and pushed in front.
BindNewTwice(v) == BindInto(params \o <<v, v>>, v)
BindNewInFront(v) == BindInto(<<v>> \o params, v)

\* ... with v at its end.
BindNew(v) == BindInto(Append(params, v), v)

Bind(v) == BindAgain(v) \/ BindNew(v)
-----------------------------------------------------------------------------
Init ==
  /\ dialect \in Dialect
  /\ sql = <<>>
  /\ params = <<>>
  /\ hasher \in [HashInputs -> Keys]
  /\ bound = [k \in Keys |-> <<>>]
  /\ written = <<>>

Next ==
  /\ Len(sql) < MaxTokens
  /\ \/ \E t \in Text : PushText(<<t>>)
     \/ \E v \in Value : Bind(v)

Spec == Init /\ [][Next]_sinkVars
-----------------------------------------------------------------------------
(***************************************************************************)
(* How a server reads the statement: $n is the nth parameter, the kth ? of *)
(* the text is the kth.                                                    *)
(***************************************************************************)
IsPlaceholder(token) == token \in Placeholder

Occurrences == {i \in DOMAIN sql : IsPlaceholder(sql[i])}

ParameterAt(i) ==
  IF Numbered THEN sql[i].number ELSE Cardinality({j \in Occurrences : j <= i})

ReadAt(i) == IF IsPlaceholder(sql[i])
             THEN DatabaseValue(params[ParameterAt(i)])
             ELSE sql[i]

ReadByServer == [i \in DOMAIN sql |-> ReadAt(i)]

\* What the caller asked for, in the same terms.
AskedAt(i) == IF written[i] \in Value THEN DatabaseValue(written[i]) ELSE written[i]

Asked == [i \in DOMAIN written |-> AskedAt(i)]
-----------------------------------------------------------------------------
\* Type correctness of the sink's fields, the index entries included.
TypeOK ==
  /\ dialect \in Dialect
  /\ sql \in Seq(Text \cup Placeholder)
  /\ params \in Seq(Value)
  /\ bound \in [Keys -> Seq(Nat)]
  /\ hasher \in [HashInputs -> Keys]
  /\ written \in Seq(Text \cup Value)

\* The statement the server executes is the statement that was built: every
\* placeholder finds its parameter, and the text with the parameters put
\* back is what was asked for, each value stored exactly as the one bound
\* there (QuerySink::bind).
ServerReadsWhatWasAsked ==
  /\ \A i \in Occurrences : ParameterAt(i) \in DOMAIN params
  /\ ReadByServer = Asked

\* On a dialect that numbers, a value reads as the same text wherever it
\* recurs and two values never share one: what Postgres's syntactic matching
\* of GROUP BY against the select list relies on (the comment on QuerySink).
SameTextExactlyForSameValue ==
  Numbered => \A i, j \in Occurrences :
                sql[i] = sql[j] <=> AskedAt(i) = AskedAt(j)

\* Every parameter sent is named by a placeholder, first mentions in order:
\* a server refuses a statement whose parameters and placeholders disagree
\* in number (QuerySink::new_placeholder_number).
EveryParameterIsNamed ==
  \A p \in DOMAIN params : \E i \in Occurrences :
    /\ ParameterAt(i) = p
    /\ \A j \in Occurrences : j < i => ParameterAt(j) < p
-----------------------------------------------------------------------------
\* Binding implements inlining: what a server reads grows by exactly the
\* piece asked for at each call, and nothing read before ever changes.
Inlining == INSTANCE StatementText WITH text <- ReadByServer

ImplementsInlining == Inlining!Spec
=============================================================================
