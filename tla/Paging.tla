------------------------------- MODULE Paging -------------------------------
(***************************************************************************)
(* LIMIT and OFFSET (crates/core/src/select/mod.rs, IntoRowCount and       *)
(* render_limit_offset), shared by a Select and a set operation.           *)
(***************************************************************************)
EXTENDS Dialects, Sequences

\* The integers the IntoRowCount impls take.
I64 == (-I64Max - 1) .. I64Max
U64 == 0 .. U64Max

\* Mutant of UnsignedRowCount: a cast instead of a try_from.
Wrapped(n) == IF n > I64Max THEN n - 2 * (I64Max + 1) ELSE n

\* IntoRowCount for the unsigned types: try_from, or the greatest i64.
UnsignedRowCount(n) == IF n > I64Max THEN I64Max ELSE n

\* IntoRowCount for the signed types: none below zero.
SignedRowCount(n) == IF n < 0 THEN 0 ELSE n

Limit(n) == [tok |-> "limit", arg |-> n]
Offset(n) == [tok |-> "offset", arg |-> n]

\* render_limit_offset
RenderLimitOffset(d, limit, offset) ==
  (CASE limit # None -> <<Limit(limit)>>
     [] limit = None /\ offset # None /\ OffsetWithoutLimit(d) # None ->
          <<Limit(OffsetWithoutLimit(d))>>
     [] OTHER -> <<>>)
    \o (IF offset # None THEN <<Offset(offset)>> ELSE <<>>)
-----------------------------------------------------------------------------
Page(limit, offset) == [limit |-> limit, offset |-> offset]
ASSUME PagingAssumption == Rejected \notin [limit : Int \cup {None}, offset : Int]
WholeResult == Page(None, 0)

\* The orders a server takes the two clauses in.
Grammar(d) == {<<>>, <<"limit">>, <<"limit", "offset">>}
                \cup (IF TakesBareOffset(d) THEN {<<"offset">>} ELSE {})

\* The page the server makes of the clauses a query ends with.
ReadPage(d, clauses) ==
  LET given(tok) == {i \in DOMAIN clauses : clauses[i].tok = tok}
      limit == {ReadLimit(d, clauses[i].arg) : i \in given("limit")}
      offset == {ReadOffset(d, clauses[i].arg) : i \in given("offset")}
  IN IF \/ [i \in DOMAIN clauses |-> clauses[i].tok] \notin Grammar(d)
        \/ Rejected \in limit \cup offset
     THEN Rejected
     ELSE Page(CHOOSE n \in limit \cup {None} : limit # {} => n \in limit,
               CHOOSE n \in offset \cup {0} : offset # {} => n \in offset)

\* The rows of a result of n that a page shows.
Shown(page, n) == {i \in 0..(n - 1) : /\ page.offset <= i
                                      /\ page.limit # None => i < page.offset + page.limit}
=============================================================================
