------------------------------ MODULE Fragments ------------------------------
(***************************************************************************)
(* Queries rendered before the statement that holds them (render.rs,       *)
(* FragmentSink, Fragment, splice_into): a CTE body, a branch of a set     *)
(* operation, the body of INSERT .. SELECT.  A fragment keeps its binds    *)
(* as values between pieces of text, because a placeholder has no number   *)
(* until the fragment is spliced; it is spliced call by call into the sink *)
(* of the statement or of a fragment that embeds it.                       *)
(***************************************************************************)
EXTENDS QuerySink, SequencesExt

CONSTANTS Fragment,      \* the fragments the program builds
          MaxPieces      \* bound: the longest fragment

\* Fragment: the text before the first bind, then each bind with the text
\* after it.
Segment == [value : Value, text : Seq(Text)]
FragmentRecord == [head : Seq(Text), rest : Seq(Segment)]

\* Where the loop of splice_into is: of one fragment, before the bind of a
\* segment or after it, since a place in the host.
SpliceRecord == [of : Fragment, from : Nat, segment : Nat, bound : BOOLEAN]

ASSUME FragmentsAssumption ==
  /\ None \notin Fragment
  /\ None \notin FragmentRecord
  /\ None \notin SpliceRecord
  /\ MaxPieces \in Nat

VARIABLES fragments,     \* what FragmentSink::finish returned, None before
          open,          \* the fragment whose FragmentSink is being written
          splice,        \* the loop of splice_into, None outside it
          told,          \* history: what each FragmentSink was asked for
          spans          \* history: where each fragment was spliced whole

fragmentVars == <<fragments, open, splice, told, spans>>
fragmentsVars == <<sinkVars, fragmentVars>>

Empty == [head |-> <<>>, rest |-> <<>>]

Finished == {f \in Fragment : fragments[f] # None /\ f # open}
-----------------------------------------------------------------------------
\* Mutant of SegmentText: the text before the first bind is left out.
WithoutHead(f, n) == IF n = 0 THEN <<>> ELSE fragments[f].rest[n].text

\* The pieces of a fragment's segment number n: its head, then the text after
\* each bind.
SegmentText(f, n) == IF n = 0 THEN fragments[f].head ELSE fragments[f].rest[n].text

\* Fragment::tail: text goes after the last bind, or to the head before any.
TailWith(fragment, ts) ==
  IF fragment.rest = <<>>
  THEN [fragment EXCEPT !.head = @ \o ts]
  ELSE [fragment EXCEPT !.rest[Len(fragment.rest)].text = @ \o ts]

\* <FragmentSink as Sink>::text
FragmentText(ts) ==
  /\ fragments' = [fragments EXCEPT ![open] = TailWith(@, ts)]
  /\ told' = [told EXCEPT ![open] = @ \o ts]
  /\ UNCHANGED sinkVars

\* <FragmentSink as Sink>::bind: a new segment, no placeholder.
FragmentBind(v) ==
  /\ fragments' = [fragments EXCEPT ![open].rest = Append(@, [value |-> v, text |-> <<>>])]
  /\ told' = [told EXCEPT ![open] = Append(@, v)]
  /\ UNCHANGED sinkVars

\* The sink in use: the open fragment's, or else the statement's.
SinkText(ts) == IF open # None THEN FragmentText(ts)
                               ELSE PushText(ts) /\ UNCHANGED <<fragments, told>>
SinkBind(v) == IF open # None THEN FragmentBind(v)
                              ELSE Bind(v) /\ UNCHANGED <<fragments, told>>

\* How much the sink in use holds.
Written == IF open # None THEN told[open] ELSE written
Room == IF open # None THEN Len(Written) < MaxPieces ELSE Len(Written) < MaxTokens
-----------------------------------------------------------------------------
\* FragmentSink::new.  Fragments are rendered by the builders, before
\* to_sql creates the statement's sink.
NewFragment(f) ==
  /\ open = None
  /\ splice = None
  /\ fragments[f] = None
  /\ written = <<>>
  /\ fragments' = [fragments EXCEPT ![f] = Empty]
  /\ open' = f
  /\ UNCHANGED <<sinkVars, splice, told, spans>>

\* FragmentSink::finish
FinishFragment ==
  /\ open # None
  /\ splice = None
  /\ open' = None
  /\ UNCHANGED <<sinkVars, fragments, splice, told, spans>>

AddText(t) ==
  /\ splice = None
  /\ Room
  /\ SinkText(<<t>>)
  /\ UNCHANGED <<open, splice, spans>>

AddBind(v) ==
  /\ splice = None
  /\ Room
  /\ SinkBind(v)
  /\ UNCHANGED <<open, splice, spans>>

\* The loop moves to the bind of segment n + 1, or ends and leaves the span.
AfterText(f, n, from) ==
  IF n < Len(fragments[f].rest)
  THEN splice' = [of |-> f, from |-> from, segment |-> n + 1, bound |-> FALSE]
       /\ UNCHANGED spans
  ELSE splice' = None
       /\ spans' = spans \cup {[of |-> f, in |-> open, from |-> from,
                                to |-> Len(Written) + Len(SegmentText(f, n))]}

\* Fragment::splice_into: the head first
SpliceHead(f) ==
  /\ splice = None
  /\ f \in Finished
  /\ Len(Written) + Len(told[f]) <= (IF open # None THEN MaxPieces ELSE MaxTokens)
  /\ SinkText(SegmentText(f, 0))
  /\ AfterText(f, 0, Len(Written) + 1)
  /\ UNCHANGED open

\* ... then, of each segment, the bind
SpliceBind ==
  /\ splice # None
  /\ ~splice.bound
  /\ SinkBind(fragments[splice.of].rest[splice.segment].value)
  /\ splice' = [splice EXCEPT !.bound = TRUE]
  /\ UNCHANGED <<open, spans>>

\* ... and the text.
SpliceText ==
  /\ splice # None
  /\ splice.bound
  /\ SinkText(SegmentText(splice.of, splice.segment))
  /\ AfterText(splice.of, splice.segment, splice.from)
  /\ UNCHANGED open
-----------------------------------------------------------------------------
FragmentsInit ==
  /\ Init
  /\ fragments = [f \in Fragment |-> None]
  /\ open = None
  /\ splice = None
  /\ told = [f \in Fragment |-> <<>>]
  /\ spans = {}

FragmentsNext ==
  \/ \E f \in Fragment : NewFragment(f)
  \/ FinishFragment
  \/ \E t \in Text : AddText(t)
  \/ \E v \in Value : AddBind(v)
  \/ \E f \in Fragment : SpliceHead(f)
  \/ SpliceBind
  \/ SpliceText

FragmentsSpec == FragmentsInit /\ [][FragmentsNext]_fragmentsVars
-----------------------------------------------------------------------------
\* What a span covers of the sink it lies in.
SpannedIn(s) == SubSeq(IF s.in = None THEN written ELSE told[s.in], s.from, s.to)

\* Splicing a fragment asks of the host exactly what rendering its query
\* there would have, however often and however deep it is embedded
\* (Fragment::splice_into).
SplicedAsRenderedThere == \A s \in spans : SpannedIn(s) = told[s.of]

\* On a dialect that numbers, one fragment spliced twice into a statement is
\* the same text twice, whatever was bound before or between.
SameFragmentSameText ==
  Numbered => \A r, s \in spans :
    r.of = s.of /\ r.in = None /\ s.in = None =>
      SubSeq(sql, r.from, r.to) = SubSeq(sql, s.from, s.to)
=============================================================================
