--------------------------- MODULE Selects_proofs ---------------------------
(***************************************************************************)
(* A page, from the number a caller gives to the rows a server shows, for  *)
(* every dialect, every width of integer and every result; a checked sort, *)
(* which stays a sort by a selected item, whatever the columns, the        *)
(* selections and the number of clauses; the page and the total of any     *)
(* query over any rows; and a chain of SELECTs combined, which every       *)
(* server reads as its calls spell it, whatever the branches and however   *)
(* many.                                                                   *)
(***************************************************************************)
EXTENDS Selects, SetOperation, FoldTheorems, SequenceTheorems, FiniteSetTheorems, TLAPS

RowCount == 0 .. I64Max

LEMMA Width == I64Max \in Int /\ I64Max > 0 /\ None \notin Int /\ Rejected \notin Int
               /\ Rejected # None
BY DialectsAssumption

\* An integer of either kind becomes a count that i64 holds, and stays itself
\* wherever it can (IntoRowCount).
THEOREM CountsInRange ==
  /\ \A n \in U64 : /\ UnsignedRowCount(n) \in RowCount
                    /\ n <= I64Max => UnsignedRowCount(n) = n
  /\ \A n \in I64 : /\ SignedRowCount(n) \in RowCount
                    /\ n >= 0 => SignedRowCount(n) = n
BY Width DEF U64, I64, U64Max, RowCount, UnsignedRowCount, SignedRowCount
-----------------------------------------------------------------------------
Given(clauses, tok) == {i \in DOMAIN clauses : clauses[i].tok = tok}
Limits(d, clauses) == {ReadLimit(d, clauses[i].arg) : i \in Given(clauses, "limit")}
Offsets(d, clauses) == {ReadOffset(d, clauses[i].arg) : i \in Given(clauses, "offset")}
Order(clauses) == [i \in DOMAIN clauses |-> clauses[i].tok]

\* A statement with the clauses a server takes, none or one of each, is read
\* by them.
LEMMA ReadBy ==
  ASSUME NEW d, NEW clauses, NEW l, NEW o,
         Order(clauses) \in Grammar(d),
         Limits(d, clauses) \subseteq {l}, Offsets(d, clauses) \subseteq {o},
         l # Rejected, o # Rejected,
         Limits(d, clauses) = {} => l = None, Offsets(d, clauses) = {} => o = 0
  PROVE  ReadPage(d, clauses) = Page(l, o)
<1>1. Rejected \notin Limits(d, clauses) \cup Offsets(d, clauses)
  OBVIOUS
<1>2. (CHOOSE n \in Limits(d, clauses) \cup {None} :
         Limits(d, clauses) # {} => n \in Limits(d, clauses)) = l
  OBVIOUS
<1>3. (CHOOSE n \in Offsets(d, clauses) \cup {0} :
         Offsets(d, clauses) # {} => n \in Offsets(d, clauses)) = o
  OBVIOUS
<1> QED BY <1>1, <1>2, <1>3 DEF ReadPage, Order, Limits, Offsets, Given, Page

\* What a count of rows is read as.
LEMMA CountRead ==
  ASSUME NEW d \in Dialect, NEW n \in RowCount
  PROVE  ReadLimit(d, n) = n /\ ReadOffset(d, n) = n
BY Width DEF RowCount, ReadLimit, ReadOffset

\* The filler where the grammar wants a LIMIT is read as no limit.
LEMMA FillerRead ==
  ASSUME NEW d \in Dialect, OffsetWithoutLimit(d) # None
  PROVE  ReadLimit(d, OffsetWithoutLimit(d)) = None /\ ~TakesBareOffset(d)
BY Width DEF Dialect, OffsetWithoutLimit, ReadLimit, U64Max, TakesBareOffset,
             Postgres, MySql, Sqlite

\* Clauses by their tokens: none, a LIMIT, an OFFSET, or the two in order.
LEMMA NoClause ==
  ASSUME NEW d
  PROVE  Order(<<>>) = <<>> /\ Limits(d, <<>>) = {} /\ Offsets(d, <<>>) = {}
BY DEF Order, Limits, Offsets, Given

LEMMA OneLimit ==
  ASSUME NEW d, NEW n
  PROVE  /\ Order(<<Limit(n)>>) = <<"limit">>
         /\ Limits(d, <<Limit(n)>>) = {ReadLimit(d, n)}
         /\ Offsets(d, <<Limit(n)>>) = {}
BY DEF Order, Limits, Offsets, Given, Limit

LEMMA OneOffset ==
  ASSUME NEW d, NEW n
  PROVE  /\ Order(<<Offset(n)>>) = <<"offset">>
         /\ Limits(d, <<Offset(n)>>) = {}
         /\ Offsets(d, <<Offset(n)>>) = {ReadOffset(d, n)}
BY DEF Order, Limits, Offsets, Given, Offset

LEMMA Both ==
  ASSUME NEW d, NEW m, NEW n
  PROVE  /\ Order(<<Limit(m), Offset(n)>>) = <<"limit", "offset">>
         /\ Limits(d, <<Limit(m), Offset(n)>>) = {ReadLimit(d, m)}
         /\ Offsets(d, <<Limit(m), Offset(n)>>) = {ReadOffset(d, n)}
<1> DEFINE c == <<Limit(m), Offset(n)>>
<1>1. /\ DOMAIN c = {1, 2} /\ c[1].tok = "limit" /\ c[1].arg = m
      /\ c[2].tok = "offset" /\ c[2].arg = n
  BY DEF Limit, Offset
<1>2. Given(c, "limit") = {1} /\ Given(c, "offset") = {2}
  BY <1>1 DEF Given
<1>3. Order(c) = <<"limit", "offset">>
  BY <1>1 DEF Order
<1> HIDE DEF c
<1>4. Limits(d, c) = {ReadLimit(d, m)} /\ Offsets(d, c) = {ReadOffset(d, n)}
  BY <1>1, <1>2 DEF Limits, Offsets
<1> QED BY <1>3, <1>4 DEF c

LEMMA TwoClauses == ASSUME NEW a, NEW b PROVE <<a>> \o <<b>> = <<a, b>>
<1> DEFINE s == <<a>> \o <<b>>
           t == <<a, b>>
<1>1. s \in Seq({a, b}) /\ t \in Seq({a, b})
  OBVIOUS
<1>2. Len(s) = 2 /\ Len(t) = 2 /\ s[1] = t[1] /\ s[2] = t[2]
  OBVIOUS
<1> HIDE DEF s, t
<1>3. \A i \in 1 .. Len(s) : s[i] = t[i]
  BY <1>2
<1>4. s = t
  BY <1>1, <1>2, <1>3, SeqEqual
<1> QED BY <1>4 DEF s, t

\* Every server takes the clauses a page is written with, and reads that page
\* from them, with an offset alone as with both (render_limit_offset,
\* OFFSET_WITHOUT_LIMIT).
THEOREM PageReadIsPageWritten ==
  ASSUME NEW d \in Dialect, NEW l \in RowCount \cup {None}, NEW o \in RowCount \cup {None}
  PROVE  ReadPage(d, RenderLimitOffset(d, l, o)) = Page(l, IF o = None THEN 0 ELSE o)
<1> DEFINE text == RenderLimitOffset(d, l, o)
<1>0. Rejected \notin RowCount /\ None \notin RowCount /\ Rejected # None /\ Rejected # 0
      /\ (o # None => o \in RowCount) /\ (l # None => l \in RowCount)
  BY Width DEF RowCount
<1>1. CASE l = None /\ o = None
  <2>1. text = <<>>
    BY <1>1 DEF RenderLimitOffset
  <2>2. Order(<<>>) \in Grammar(d)
    BY NoClause DEF Grammar
  <2> QED BY <1>0, <1>1, <2>1, <2>2, NoClause, ReadBy
<1>2. CASE l # None /\ o = None
  <2>1. text = <<Limit(l)>>
    BY <1>2 DEF RenderLimitOffset
  <2>2. Order(<<Limit(l)>>) \in Grammar(d)
    BY OneLimit DEF Grammar
  <2>3. Limits(d, <<Limit(l)>>) = {l} /\ Offsets(d, <<Limit(l)>>) = {}
    BY <1>0, <1>2, OneLimit, CountRead
  <2> QED BY <1>0, <1>2, <2>1, <2>2, <2>3, ReadBy
<1>3. CASE l # None /\ o # None
  <2>1. text = <<Limit(l), Offset(o)>>
    BY <1>3, TwoClauses DEF RenderLimitOffset
  <2>2. Order(<<Limit(l), Offset(o)>>) \in Grammar(d)
    BY Both DEF Grammar
  <2>3. /\ Limits(d, <<Limit(l), Offset(o)>>) = {l}
        /\ Offsets(d, <<Limit(l), Offset(o)>>) = {o}
    BY <1>0, <1>3, Both, CountRead
  <2> QED BY <1>0, <1>3, <2>1, <2>2, <2>3, ReadBy
<1>4. CASE l = None /\ o # None /\ OffsetWithoutLimit(d) # None
  <2> DEFINE f == OffsetWithoutLimit(d)
  <2>1. text = <<Limit(f), Offset(o)>>
    BY <1>4, TwoClauses DEF RenderLimitOffset
  <2>2. Order(<<Limit(f), Offset(o)>>) \in Grammar(d)
    BY Both DEF Grammar
  <2>3. /\ Limits(d, <<Limit(f), Offset(o)>>) = {None}
        /\ Offsets(d, <<Limit(f), Offset(o)>>) = {o}
    <3>1. ReadLimit(d, f) = None /\ ReadOffset(d, o) = o
      BY <1>0, <1>4, CountRead, FillerRead
    <3> QED BY <3>1, Both
  <2> QED BY <1>0, <1>4, <2>1, <2>2, <2>3, ReadBy
<1>5. CASE l = None /\ o # None /\ OffsetWithoutLimit(d) = None
  <2>1. text = <<Offset(o)>>
    BY <1>5 DEF RenderLimitOffset
  <2>2. TakesBareOffset(d)
    BY <1>5, Width DEF Dialect, OffsetWithoutLimit, TakesBareOffset, U64Max, Postgres, MySql, Sqlite
  <2>3. Order(<<Offset(o)>>) \in Grammar(d)
    BY <2>2, OneOffset DEF Grammar
  <2>4. Limits(d, <<Offset(o)>>) = {} /\ Offsets(d, <<Offset(o)>>) = {o}
    BY <1>0, <1>5, OneOffset, CountRead
  <2> QED BY <1>0, <1>5, <2>1, <2>3, <2>4, ReadBy
<1> QED BY <1>1, <1>2, <1>3, <1>4, <1>5
-----------------------------------------------------------------------------
\* The rows an unsigned page is of, before any count is made to fit.
AskedOf(l, o, n) == {i \in 0 .. (n - 1) : o <= i /\ i < o + l}

\* What a count is made to fit i64 by shows: of a result an i64 can count, a
\* limit or an offset past it, up to the greatest u64, picks the rows it would
\* have (IntoRowCount for u64, try_from and unwrap_or).
THEOREM FittingLosesNoRow ==
  ASSUME NEW l \in U64, NEW o \in U64, NEW n \in RowCount
  PROVE  Shown(Page(UnsignedRowCount(l), UnsignedRowCount(o)), n) = AskedOf(l, o, n)
BY Width DEF U64, U64Max, RowCount, Shown, Page, UnsignedRowCount, AskedOf
-----------------------------------------------------------------------------
(***************************************************************************)
(* The statement.                                                          *)
(***************************************************************************)
CountOf(request) == IF request = None THEN None ELSE IntoRowCount(request)

\* What is selected comes of a call, and either count of the body is the last
\* one asked for, made to fit.
AskedAgree ==
  /\ selection \in Selections \cup {<<>>}
  /\ asked \in [limit : Request \cup {None}, offset : Request \cup {None}]
  /\ body = None => asked.limit = None /\ asked.offset = None
  /\ body # None => body.limit = CountOf(asked.limit) /\ body.offset = CountOf(asked.offset)

\* The clauses have the types of their fields, and the sorts that were checked
\* are among the sorts.
IInv ==
  /\ body \in Body \cup {None}
  /\ checked \subseteq (IF body = None THEN {} ELSE 1 .. Len(body.order_by))
  /\ ToSet(selection) \subseteq Item
  /\ CheckedSortsAreSelected
  /\ AskedAgree
-----------------------------------------------------------------------------
LEMMA InitHolds == Init => IInv
BY DEF Init, IInv, CheckedSortsAreSelected, ToSet, AskedAgree

\* A query begins with no sort.
LEMMA FromHolds ==
  ASSUME IInv, NEW items \in Selections, NEW b \in Binding, From(items, b)
  PROVE  IInv'
<1>1. checked' = {} /\ selection' = items
  BY DEF From, IInv
<1>2. ToSet(items) \subseteq Item
  BY DEF Item
<1>3. body' \in Body
  BY DEF From, Body
<1>4. AskedAgree'
  <2>1. body' # None /\ body'.limit = None /\ body'.offset = None
    BY <1>3, SelectsAssumption DEF From
  <2>2. asked' = asked /\ asked.limit = None /\ asked.offset = None
    BY DEF From, IInv, AskedAgree
  <2> QED BY <1>1, <2>1, <2>2 DEF IInv, AskedAgree, CountOf
<1> QED BY <1>1, <1>2, <1>3, <1>4 DEF IInv, CheckedSortsAreSelected

\* A change elsewhere leaves the counts as they were asked for.
LEMMA CountsStay ==
  ASSUME AskedAgree, body # None, body' # None, selection' \in Selections \cup {<<>>},
         body'.limit = body.limit, body'.offset = body.offset, asked' = asked
  PROVE  AskedAgree'
BY DEF AskedAgree

\* A change of a clause other than ORDER BY leaves the sorts as they are.
LEMMA OtherClauses ==
  ASSUME IInv, body # None, body' \in Body, body'.order_by = body.order_by,
         UNCHANGED <<selection, checked>>, AskedAgree'
  PROVE  IInv'
BY SelectsAssumption DEF IInv, CheckedSortsAreSelected, ToSet

\* ... and of one other than these, the counts.
LEMMA OneClause ==
  ASSUME IInv, body # None, body' \in Body, body'.order_by = body.order_by,
         body'.limit = body.limit, body'.offset = body.offset,
         UNCHANGED <<selection, asked, checked>>
  PROVE  IInv'
<1>1. AskedAgree /\ body' # None /\ selection \in Selections \cup {<<>>}
  BY SelectsAssumption DEF IInv, AskedAgree
<1>2. AskedAgree'
  BY <1>1, CountsStay
<1> QED BY <1>2, OtherClauses

SameCounts(b, q) == q.limit = b.limit /\ q.offset = b.offset

\* A query with one clause put in place of another is a query.
LEMMA ClausePut ==
  ASSUME NEW b \in Body
  PROVE  /\ \A s \in Seq([of : Column, is : Datum]) :
              LET q == [b EXCEPT !.wheres = s] IN q \in Body /\ q.order_by = b.order_by /\ SameCounts(b, q)
         /\ \A s \in Seq(Column) :
              LET q == [b EXCEPT !.group_by = s] IN q \in Body /\ q.order_by = b.order_by /\ SameCounts(b, q)
         /\ \A s \in Seq(Groups) :
              LET q == [b EXCEPT !.having = s] IN q \in Body /\ q.order_by = b.order_by /\ SameCounts(b, q)
         /\ \A s \in Seq(Item) :
              LET q == [b EXCEPT !.order_by = s] IN q \in Body /\ q.order_by = s /\ SameCounts(b, q)
BY DEF Body, SameCounts

\* An entry more in a clause that holds such entries.
LEMMA PushHolds ==
  /\ IInv /\ (\E c \in Column, v \in Datum : Filter(c, v)) => IInv'
  /\ IInv /\ (\E c \in Column : GroupBy(c)) => IInv'
  /\ IInv /\ (\E size \in Groups : Having(size)) => IInv'
<1>1. ASSUME IInv, NEW c \in Column, NEW v \in Datum, Filter(c, v) PROVE IInv'
  <2>1. body \in Body /\ body' = [body EXCEPT !.wheres = Append(body.wheres, [of |-> c, is |-> v])]
    BY <1>1 DEF Filter, Push, Composable, IInv
  <2>2. Append(body.wheres, [of |-> c, is |-> v]) \in Seq([of : Column, is : Datum])
    BY <2>1, AppendProperties DEF Body
  <2>3. body' \in Body /\ body'.order_by = body.order_by /\ SameCounts(body, body')
    BY <2>1, <2>2, ClausePut
  <2> QED BY <1>1, <2>3, OneClause DEF Filter, Push, Composable, SameCounts
<1>2. ASSUME IInv, NEW c \in Column, GroupBy(c) PROVE IInv'
  <2>1. body \in Body /\ body' = [body EXCEPT !.group_by = Append(body.group_by, c)]
    BY <1>2 DEF GroupBy, Push, Composable, IInv
  <2>2. Append(body.group_by, c) \in Seq(Column)
    BY <2>1, AppendProperties DEF Body
  <2>3. body' \in Body /\ body'.order_by = body.order_by /\ SameCounts(body, body')
    BY <2>1, <2>2, ClausePut
  <2> QED BY <1>2, <2>3, OneClause DEF GroupBy, Push, Composable, SameCounts
<1>3. ASSUME IInv, NEW size \in Groups, Having(size) PROVE IInv'
  <2>1. body \in Body /\ body' = [body EXCEPT !.having = Append(body.having, size)]
    BY <1>3 DEF Having, Push, Composable, IInv
  <2>2. Append(body.having, size) \in Seq(Groups)
    BY <2>1, AppendProperties DEF Body
  <2>3. body' \in Body /\ body'.order_by = body.order_by /\ SameCounts(body, body')
    BY <2>1, <2>2, ClausePut
  <2> QED BY <1>3, <2>3, OneClause DEF Having, Push, Composable, SameCounts
<1> QED BY <1>1, <1>2, <1>3

\* A count of rows is an integer.
LEMMA CountHolds ==
  ASSUME IInv, NEW r \in Request, SetCount("limit", r) \/ SetCount("offset", r)
  PROVE  IInv'
<1>1. IntoRowCount(r) \in Int
  BY SelectsAssumption, DialectsAssumption
     DEF IntoRowCount, SignedRowCount, UnsignedRowCount
<1>2. body # None /\ body \in Body
  BY DEF SetCount, IInv
<1>3. body' \in Body /\ body'.order_by = body.order_by
  BY <1>1, <1>2 DEF SetCount, Body
<1>4. r # None /\ CountOf(r) = IntoRowCount(r) /\ body' # None
  BY <1>3, SelectsAssumption DEF CountOf
<1>5. AskedAgree'
  <2>1. CASE SetCount("limit", r)
    <3>1. /\ body'.limit = IntoRowCount(r) /\ body'.offset = body.offset
          /\ asked'.limit = r /\ asked'.offset = asked.offset
          /\ asked' \in [limit : Request \cup {None}, offset : Request \cup {None}]
      BY <1>2, <2>1 DEF SetCount, Body, IInv, AskedAgree
    <3> QED BY <1>2, <1>4, <2>1, <3>1 DEF SetCount, IInv, AskedAgree
  <2>2. CASE SetCount("offset", r)
    <3>1. /\ body'.offset = IntoRowCount(r) /\ body'.limit = body.limit
          /\ asked'.offset = r /\ asked'.limit = asked.limit
          /\ asked' \in [limit : Request \cup {None}, offset : Request \cup {None}]
      BY <1>2, <2>2 DEF SetCount, Body, IInv, AskedAgree
    <3> QED BY <1>2, <1>4, <2>2, <3>1 DEF SetCount, IInv, AskedAgree
  <2> QED BY <2>1, <2>2
<1> QED BY <1>2, <1>3, <1>5, OtherClauses DEF SetCount

\* A sort more, checked or not, goes after the others.
LEMMA SortAdded ==
  ASSUME IInv, NEW item \in Item, body # None,
         body' = [body EXCEPT !.order_by = Append(body.order_by, item)], UNCHANGED <<selection, asked>>,
         \/ checked' = checked
         \/ checked' = checked \cup {Len(body'.order_by)} /\ item \in ToSet(selection)
  PROVE  IInv'
<1>1. /\ body \in Body /\ body.order_by \in Seq(Item)
      /\ checked \subseteq 1 .. Len(body.order_by)
      /\ \A k \in checked : body.order_by[k] \in ToSet(selection)
  BY DEF IInv, Body, CheckedSortsAreSelected
<1>2. body' \in Body /\ body'.order_by = Append(body.order_by, item) /\ SameCounts(body, body')
  BY <1>1, AppendProperties, ClausePut
<1>3. /\ Len(body'.order_by) = Len(body.order_by) + 1
      /\ \A k \in 1 .. Len(body.order_by) : body'.order_by[k] = body.order_by[k]
      /\ body'.order_by[Len(body'.order_by)] = item
  BY <1>1, <1>2, AppendProperties
<1>4. Len(body.order_by) \in Nat
  BY <1>1, LenProperties
<1>5. checked' \subseteq 1 .. Len(body'.order_by)
  BY <1>1, <1>3, <1>4
<1>6. \A k \in checked' : body'.order_by[k] \in ToSet(selection)
  BY <1>1, <1>3
<1>7. ToSet(selection') = ToSet(selection) /\ ToSet(selection) \subseteq Item
  BY DEF IInv
<1>8. body' # None
  BY <1>2, SelectsAssumption
<1>9. AskedAgree'
  BY <1>2, <1>8, CountsStay DEF SameCounts, IInv, AskedAgree
<1> QED BY <1>2, <1>5, <1>6, <1>7, <1>8, <1>9 DEF IInv, CheckedSortsAreSelected

LEMMA StepHolds == IInv /\ [Next]_vars => IInv'
<1> SUFFICES ASSUME IInv, [Next]_vars PROVE IInv'
  OBVIOUS
<1>1. CASE UNCHANGED vars
  BY <1>1 DEF vars, IInv, CheckedSortsAreSelected, ToSet, AskedAgree, CountOf
<1>2. ASSUME NEW items \in Selections, NEW b \in Binding, From(items, b) PROVE IInv'
  BY <1>2, FromHolds
<1>3. ASSUME NEW items \in Selections, Reselect(items) PROVE IInv'
  <2>1. ToSet(items) \subseteq Item
    BY DEF Item
  <2>2. AskedAgree'
    BY <1>3, CountsStay DEF Reselect, Composable, IInv
  <2> QED BY <1>3, <2>1, <2>2 DEF Reselect, IInv, CheckedSortsAreSelected
<1>4. CASE \E c \in Column : GroupBy(c) \/ \E v \in Datum : Filter(c, v)
  BY <1>4, PushHolds
<1>5. CASE \E size \in Groups : Having(size)
  BY <1>5, PushHolds
<1>6. ASSUME NEW item \in Item, OrderBy(item) PROVE IInv'
  BY <1>6, SortAdded DEF OrderBy, Push, Composable
<1>7. ASSUME NEW item \in Item, OrderBySelected(item) PROVE IInv'
  <2>1. PICK i \in DOMAIN selection :
          body' = [body EXCEPT !.order_by = Append(@, selection[i])]
    BY <1>7 DEF OrderBySelected, IndicesOf, SortItem
  <2>2. selection[i] \in ToSet(selection) /\ selection[i] \in Item
    BY DEF ToSet, IInv
  <2> QED BY <1>7, <2>1, <2>2, SortAdded DEF OrderBySelected, Composable
<1>8. CASE Distinct
  <2>1. body # None /\ body \in Body
    BY <1>8 DEF Distinct, Composable, IInv
  <2>2. /\ body' \in Body /\ body'.order_by = body.order_by
        /\ body'.limit = body.limit /\ body'.offset = body.offset
    BY <1>8, <2>1 DEF Distinct, Body
  <2> QED BY <1>8, <2>1, <2>2, OneClause DEF Distinct
<1>9. ASSUME NEW r \in Request, SetCount("limit", r) \/ SetCount("offset", r) PROVE IInv'
  BY <1>9, CountHolds
<1>10. CASE Erase
  BY <1>10 DEF Erase, IInv, CheckedSortsAreSelected, ToSet, AskedAgree, CountOf
<1> QED BY <1>1, <1>2, <1>3, <1>4, <1>5, <1>6, <1>7, <1>8, <1>9, <1>10 DEF Next

\* A query's clauses have the types of SelectBody's fields, and the sorts
\* order_by_selected checked are among its sorts, in every reachable state.
THEOREM Invariance == Spec => []IInv
BY InitHolds, StepHolds, PTL DEF Spec

\* A sort checked against the selection sorts by one of its items, however
\* clauses are added and selections replaced (order_by_selected, reselect).
THEOREM CheckedSorts == Spec => []CheckedSortsAreSelected
<1>1. IInv => CheckedSortsAreSelected
  BY DEF IInv
<1> QED BY <1>1, Invariance, PTL
-----------------------------------------------------------------------------
(***************************************************************************)
(* The server's evaluation: sequences taken apart and put together.        *)
(***************************************************************************)
OrRepeat(acc, x) == IF x \in ToSet(acc) THEN acc ELSE Append(acc, x)

CollectingTable(w, it, N) ==
  it = [s \in SUBSET (1 .. N) |->
          IF s = {} THEN <<>> ELSE OrRepeat(it[s \ {Max(s)}], w[Max(s)])]

LEMMA CollectingTables ==
  ASSUME NEW w, NEW N \in Nat
  PROVE  \E it : CollectingTable(w, it, N)
<1> DEFINE S == {n \in Nat : \E it : CollectingTable(w, it, n)}
<1>1. 0 \in S
  <2>1. \A s \in SUBSET (1 .. 0) : s = {}
    OBVIOUS
  <2>2. CollectingTable(w, [s \in SUBSET (1 .. 0) |-> <<>>], 0)
    BY <2>1 DEF CollectingTable
  <2> QED BY <2>2
<1>2. ASSUME NEW n \in Nat, n \in S PROVE n + 1 \in S
  <2>1. PICK it : CollectingTable(w, it, n)
    BY <1>2
  <2> DEFINE more == [s \in SUBSET (1 .. (n + 1)) |->
                        IF n + 1 \in s THEN OrRepeat(it[s \ {n + 1}], w[n + 1]) ELSE it[s]]
  <2>2. ASSUME NEW s \in SUBSET (1 .. (n + 1))
        PROVE  more[s] = IF s = {} THEN <<>> ELSE OrRepeat(more[s \ {Max(s)}], w[Max(s)])
    <3>1. CASE n + 1 \in s
      <4>1. Max(s) = n + 1
        <5>1. n + 1 \in Nat /\ s # {}
          BY <3>1
        <5>2. Max(s) \in s /\ n + 1 <= Max(s)
          BY <3>1, <5>1, Greatest
        <5>3. Max(s) \in 1 .. (n + 1)
          BY <5>2
        <5> HIDE DEF more
        <5> QED BY <5>2, <5>3
      <4>2. s \ {n + 1} \in SUBSET (1 .. (n + 1)) /\ n + 1 \notin s \ {n + 1}
        OBVIOUS
      <4>3. more[s \ {n + 1}] = it[s \ {n + 1}]
        BY <4>2
      <4> QED BY <3>1, <4>1, <4>3
    <3>2. CASE n + 1 \notin s
      <4>1. s \in SUBSET (1 .. n) /\ more[s] = it[s]
        BY <3>2
      <4>2. it[s] = IF s = {} THEN <<>> ELSE OrRepeat(it[s \ {Max(s)}], w[Max(s)])
        BY <2>1, <4>1 DEF CollectingTable
      <4>3. s \ {Max(s)} \in SUBSET (1 .. (n + 1)) /\ n + 1 \notin s \ {Max(s)}
        BY <3>2
      <4>4. more[s \ {Max(s)}] = it[s \ {Max(s)}]
        BY <4>3
      <4> QED BY <4>1, <4>2, <4>4
    <3> QED BY <3>1, <3>2
  <2>3. more = [s \in SUBSET (1 .. (n + 1)) |-> more[s]]
    OBVIOUS
  <2> HIDE DEF more
  <2>4. CollectingTable(w, more, n + 1)
    BY <2>2, <2>3 DEF CollectingTable
  <2> QED BY <2>4
<1> HIDE DEF S
<1>3. N \in S
  BY <1>1, <1>2, EveryNumber
<1> QED BY <1>3 DEF S

\* The values, one element at a time.
Collecting(w, acc) ==
  /\ acc[0] = <<>> /\ acc[Len(w)] = FirstOfEach(w)
  /\ \A n \in 1 .. Len(w) : acc[n] = OrRepeat(acc[n - 1], w[n])

LEMMA CollectingSteps ==
  ASSUME NEW w, w = [i \in 1 .. Len(w) |-> w[i]], Len(w) \in Nat
  PROVE  \E acc : Collecting(w, acc)
<1> DEFINE N == Len(w)
<1>1. N \in Nat /\ DOMAIN w = 1 .. N
  OBVIOUS
<1> HIDE DEF N
<1>2. PICK it : CollectingTable(w, it, N)
  BY <1>1, CollectingTables
<1> DEFINE iter == CHOOSE iter : iter = [s \in SUBSET DOMAIN w |->
           IF s = {} THEN <<>> ELSE OrRepeat(iter[s \ {Max(s)}], w[Max(s)])]
<1>3. it = [s \in SUBSET DOMAIN w |->
           IF s = {} THEN <<>> ELSE OrRepeat(it[s \ {Max(s)}], w[Max(s)])]
  BY <1>1, <1>2 DEF CollectingTable
<1>4. iter = [s \in SUBSET DOMAIN w |->
           IF s = {} THEN <<>> ELSE OrRepeat(iter[s \ {Max(s)}], w[Max(s)])]
  BY <1>3
<1>5. FirstOfEach(w) = iter[DOMAIN w]
  BY Zenon DEF FoldLeft, MapThenFoldSet, FirstOfEach, OrRepeat
<1> HIDE DEF iter
<1> DEFINE acc == [n \in 0 .. N |-> iter[1 .. n]]
<1>6. acc[0] = <<>> /\ acc[N] = FirstOfEach(w)
  <2>1. {} \in SUBSET DOMAIN w /\ 1 .. 0 = {} /\ 0 \in 0 .. N /\ N \in 0 .. N
    BY <1>1
  <2>2. iter[{}] = <<>>
    BY <1>4, <2>1
  <2> QED BY <1>1, <1>5, <2>1, <2>2
<1>7. ASSUME NEW n \in 1 .. N
      PROVE  acc[n] = OrRepeat(acc[n - 1], w[n])
  <2>1. n \in Nat /\ n # 0 /\ n \in 0 .. N /\ n - 1 \in 0 .. N
    BY <1>1
  <2>2. 1 .. n # {} /\ Max(1 .. n) = n /\ (1 .. n) \ {n} = 1 .. (n - 1)
    BY <2>1, Intervals
  <2>3. 1 .. n \in SUBSET DOMAIN w
    BY <1>1
  <2>4. iter[1 .. n] = OrRepeat(iter[1 .. (n - 1)], w[n])
    BY <1>4, <2>2, <2>3
  <2> QED BY <2>1, <2>4
<1> HIDE DEF acc
<1> QED BY <1>6, <1>7 DEF Collecting, N
-----------------------------------------------------------------------------
LEMMA CollectedOf ==
  ASSUME NEW T, NEW w \in Seq(T)
  PROVE  FirstOfEach(w) \in Seq(ToSet(w))
<1> DEFINE N == Len(w)
           B == ToSet(w)
<1>1. N \in Nat /\ \A n \in 1 .. N : w[n] \in B
  BY DEF ToSet
<1>2. PICK acc : Collecting(w, acc)
  BY WordIs, CollectingSteps
<1> DEFINE S == {n \in 0 .. N : acc[n] \in Seq(B)}
<1>3. 0 \in S
  <2>1. <<>> \in Seq(B) /\ 0 \in 0 .. N
    BY <1>1
  <2> QED BY <1>2, <2>1 DEF Collecting
<1>4. ASSUME NEW n \in 1 .. N, n - 1 \in S PROVE n \in S
  <2>1. acc[n] = OrRepeat(acc[n - 1], w[n]) /\ acc[n - 1] \in Seq(B)
    BY <1>2, <1>4 DEF Collecting
  <2>2. n \in 0 .. N /\ w[n] \in B
    BY <1>1
  <2> HIDE DEF B
  <2>4. acc[n] \in Seq(B)
    BY <2>1, <2>2, OneMore DEF OrRepeat
  <2> QED BY <2>2, <2>4
<1>5. N \in S
  <2>1. N \in 0 .. N
    BY <1>1
  <2> HIDE DEF S, N
  <2> QED BY <1>1, <1>3, <1>4, <2>1, Upwards
<1> QED BY <1>2, <1>5 DEF Collecting
-----------------------------------------------------------------------------
LEMMA MaxOfSome ==
  ASSUME NEW s, s \subseteq Nat, s # {}, IsFiniteSet(s)
  PROVE  Max(s) \in Nat
<1>0. PICK n \in Nat : \E f : f \in Surjection(1 .. n, s)
  BY FS_NatSurjection DEF ExistsSurjection
<1>1. PICK f : f \in Surjection(1 .. n, s)
  BY <1>0
<1>2. (\A i \in 1 .. n : f[i] \in s) /\ (\A x \in s : \E i \in 1 .. n : f[i] = x)
  BY <1>1 DEF Surjection
<1> DEFINE S == {k \in 0 .. n : \E b \in Nat : \A i \in 1 .. k : f[i] <= b}
<1>3. 0 \in S
  OBVIOUS
<1>4. ASSUME NEW k \in 1 .. n, k - 1 \in S PROVE k \in S
  <2>1. PICK b \in Nat : \A i \in 1 .. (k - 1) : f[i] <= b
    BY <1>4
  <2>2. f[k] \in Nat
    BY <1>2
  <2> DEFINE c == IF f[k] <= b THEN b ELSE f[k]
  <2>3. c \in Nat /\ b <= c /\ f[k] <= c
    BY <2>2
  <2> HIDE DEF c
  <2>4. ASSUME NEW i \in 1 .. k PROVE f[i] <= c
    <3>1. CASE i = k
      BY <2>3, <3>1
    <3>2. CASE i # k
      <4>1. i \in 1 .. (k - 1) /\ i \in 1 .. n
        BY <3>2
      <4>3. f[i] \in Nat
        BY <1>2, <4>1
      <4>2. f[i] <= b
        BY <2>1, <4>1
      <4> QED BY <2>3, <4>2, <4>3
    <3> QED BY <3>1, <3>2
  <2> QED BY <2>3, <2>4
<1>5. n \in S
  <2> HIDE DEF S
  <2> QED BY <1>3, <1>4, Upwards
<1>6. PICK b \in Nat : \A i \in 1 .. n : f[i] <= b
  BY <1>5
<1>7. \A x \in s : x <= b
  BY <1>2, <1>6
<1>8. Max(s) \in s
  BY <1>7, GreatestBelow
<1> QED BY <1>8

\* With a key to group by, no group is empty, nor is a row by itself.
Peopled(q) == q.group_by # <<>> \/ ~Collapses(q)
UnitOf(q, R) == IF Peopled(q) THEN Seq(R) \ {<<>>} ELSE Seq(R)

LEMMA KeptOf ==
  ASSUME NEW q, NEW R, NEW rows \in Seq(R)
  PROVE  Kept(q, rows) \in Seq(R)
BY ChosenOf DEF Kept

LEMMA GroupsOf ==
  ASSUME NEW q, NEW R, NEW kept \in Seq(R)
  PROVE  /\ Grouped(q, kept) \in Seq(Seq(R))
         /\ q.group_by # <<>> => Grouped(q, kept) \in Seq(Seq(R) \ {<<>>})
<1> DEFINE keys == [i \in DOMAIN kept |-> KeyOf(q, kept[i])]
           leaders == FirstOfEach(keys)
           GroupAt(i) == Only(kept, {r \in ToSet(kept) : KeyOf(q, r) = leaders[i]})
<1>1. CASE q.group_by = <<>>
  BY <1>1 DEF Grouped
<1>2. CASE q.group_by # <<>>
  <2>1. Grouped(q, kept) = [i \in DOMAIN leaders |-> GroupAt(i)]
    BY <1>2 DEF Grouped
  <2>2. keys \in Seq(ToSet(keys))
    BY DEF ToSet
  <2>3. leaders \in Seq(ToSet(keys))
    <3> HIDE DEF keys
    <3>1. FirstOfEach(keys) \in Seq(ToSet(keys))
      BY <2>2, CollectedOf
    <3> QED BY <3>1
  <2>4. ASSUME NEW i \in DOMAIN leaders PROVE GroupAt(i) \in Seq(R) \ {<<>>}
    <3>1. leaders[i] \in ToSet(keys)
      <4> HIDE DEF leaders, keys
      <4> QED BY <2>3
    <3>2. PICK j \in DOMAIN kept : leaders[i] = KeyOf(q, kept[j])
      <4> HIDE DEF leaders
      <4> QED BY <3>1 DEF ToSet
    <3> DEFINE chosen == {r \in ToSet(kept) : KeyOf(q, r) = leaders[i]}
    <3>3. kept[j] \in chosen
      <4> HIDE DEF leaders
      <4> QED BY <3>2 DEF ToSet
    <3> HIDE DEF chosen
    <3>4. Only(kept, chosen) \in Seq(R) /\ Only(kept, chosen) # <<>>
      BY <3>3, ChosenOf, SomeChosen
    <3> QED BY <3>4 DEF chosen
  <2> HIDE DEF leaders, GroupAt
  <2>5. DOMAIN leaders = 1 .. Len(leaders) /\ Len(leaders) \in Nat
    BY <2>3
  <2>6. [i \in DOMAIN leaders |-> GroupAt(i)] \in Seq(Seq(R) \ {<<>>})
    BY <2>4, <2>5
  <2>7. [i \in DOMAIN leaders |-> GroupAt(i)] \in Seq(Seq(R))
    BY <2>4, <2>5
  <2> QED BY <2>1, <2>6, <2>7
<1> QED BY <1>1, <1>2

LEMMA UnitsOf ==
  ASSUME NEW q, NEW R, NEW rows \in Seq(R)
  PROVE  Units(q, rows) \in Seq(UnitOf(q, R))
<1> DEFINE kept == Kept(q, rows)
           groups == Grouped(q, kept)
<1>1. kept \in Seq(R)
  BY KeptOf
<1>2. CASE Collapses(q)
  <2> DEFINE chosen == {g \in ToSet(groups) : \A i \in DOMAIN q.having : Len(g) >= q.having[i]}
  <2>1. Units(q, rows) = Only(groups, chosen)
    BY <1>2 DEF Units
  <2> HIDE DEF kept, chosen
  <2>2. groups \in Seq(UnitOf(q, R))
    BY <1>1, <1>2, GroupsOf DEF UnitOf, Peopled
  <2> HIDE DEF groups
  <2> QED BY <2>1, <2>2, ChosenOf
<1>3. CASE ~Collapses(q)
  <2>1. Units(q, rows) = [i \in DOMAIN kept |-> <<kept[i]>>]
    BY <1>3 DEF Units
  <2> HIDE DEF kept
  <2>2. DOMAIN kept = 1 .. Len(kept) /\ Len(kept) \in Nat
    BY <1>1
  <2>3. ASSUME NEW i \in DOMAIN kept PROVE <<kept[i]>> \in Seq(R) \ {<<>>}
    BY <1>1
  <2>4. [i \in DOMAIN kept |-> <<kept[i]>>] \in Seq(Seq(R) \ {<<>>})
    BY <2>2, <2>3
  <2> QED BY <1>3, <2>1, <2>4 DEF UnitOf, Peopled
<1> QED BY <1>2, <1>3
-----------------------------------------------------------------------------
\* A server's grouping grounds every series: it has a row to be read from.
SeriesOf(q) == {i \in ToSet(q.items) : i.kind = "series"}
Grounded(q) == SeriesOf(q) # {} => Peopled(q)

LEMMA AcceptedIsGrounded ==
  ASSUME NEW d, NEW stmt, Accepts(d, stmt)
  PROVE  Grounded(ClausesOf(stmt))
<1> DEFINE q == ClausesOf(stmt)
<1>1. q.group_by = stmt.body.group_by /\ q.items = stmt.selection
  BY DEF ClausesOf
<1> HIDE DEF q
<1> SUFFICES ASSUME NEW i \in SeriesOf(q), ~Peopled(q) PROVE FALSE
  BY DEF Grounded, q
<1>2. Collapses(q) /\ q.group_by = <<>>
  BY DEF Peopled
<1>3. i \in ToSet(stmt.selection) /\ i.kind = "series"
  BY <1>1 DEF SeriesOf
<1>4. i.of \in ToSet(stmt.body.group_by)
  BY <1>2, <1>3 DEF Accepts, q
<1>5. ToSet(stmt.body.group_by) = {}
  BY <1>1, <1>2 DEF ToSet
<1> QED BY <1>4, <1>5

LEMMA HeightIs ==
  ASSUME NEW q, q.items \in Seq(ToSet(q.items)), NEW R, NEW unit \in UnitOf(q, R), Grounded(q),
         \A r \in R, i \in SeriesOf(q) : r[i.of] \in Nat
  PROVE  Height(q, unit) \in Nat /\ (SeriesOf(q) = {} => Height(q, unit) = 1)
<1> DEFINE lengths == {unit[1][i.of] : i \in SeriesOf(q)}
<1>1. Height(q, unit) = IF SeriesOf(q) = {} THEN 1 ELSE Max(lengths)
  BY DEF Height, SeriesOf
<1>2. CASE SeriesOf(q) = {}
  BY <1>1, <1>2
<1>3. CASE SeriesOf(q) # {}
  <2>1. unit[1] \in R
    BY <1>3 DEF Grounded, UnitOf
  <2>2. lengths \subseteq Nat /\ lengths # {}
    BY <1>3, <2>1
  <2>3. IsFiniteSet(ToSet(q.items))
    <3>1. DOMAIN q.items = 1 .. Len(q.items) /\ Len(q.items) \in Nat
      OBVIOUS
    <3> DEFINE n == Len(q.items)
    <3> HIDE DEF n
    <3>2. IsFiniteSet(1 .. n)
      BY <3>1, FS_Interval DEF n
    <3>3. q.items \in Surjection(1 .. n, ToSet(q.items))
      BY <3>1 DEF ToSet, Surjection, n
    <3> QED BY <3>2, <3>3, FS_Surjection
  <2>4. IsFiniteSet(SeriesOf(q))
    BY <2>3, FS_Subset DEF SeriesOf
  <2>5. IsFiniteSet(lengths)
    <3> DEFINE length == [i \in SeriesOf(q) |-> unit[1][i.of]]
    <3>1. length \in Surjection(SeriesOf(q), lengths)
      BY DEF Surjection
    <3> HIDE DEF length, lengths
    <3> QED BY <2>4, <3>1, FS_Surjection
  <2> HIDE DEF lengths
  <2>6. Max(lengths) \in Nat
    BY <2>2, <2>5, MaxOfSome
  <2> QED BY <1>1, <1>3, <2>6
<1> QED BY <1>2, <1>3

YieldedRow(q, units, i, k) == [s \in DOMAIN q.items |-> ItemValue(q.items[s], units, i, k)]
RowsYielded(q, units) == UNION {{YieldedRow(q, units, i, k) : k \in Nat} : i \in DOMAIN units}

LEMMA YieldedIs ==
  ASSUME NEW q, NEW units, NEW i \in DOMAIN units, Height(q, units[i]) \in Nat
  PROVE  /\ Yielded(q, units, i) \in Seq(RowsYielded(q, units))
         /\ Len(Yielded(q, units, i)) = Height(q, units[i])
<1> DEFINE h == Height(q, units[i])
           row(k) == YieldedRow(q, units, i, k)
<1>1. Yielded(q, units, i) = [k \in 1 .. h |-> row(k)]
  BY DEF Yielded, YieldedRow
<1>2. \A k \in 1 .. h : row(k) \in RowsYielded(q, units)
  <2>1. \A k \in Nat : row(k) \in RowsYielded(q, units)
    BY DEF RowsYielded
  <2> QED BY <2>1
<1> HIDE DEF h, row
<1>3. h \in Nat
  BY DEF h
<1> QED BY <1>1, <1>2, <1>3 DEF h

\* The rows of an answer are in sequence, and where every row of the FROM
\* stands for itself they are as many as WHERE leaves.
LEMMA RowsAre ==
  ASSUME NEW q, q.items \in Seq(ToSet(q.items)), NEW R, NEW rows \in Seq(R), Grounded(q),
         \A r \in R, i \in SeriesOf(q) : r[i.of] \in Nat
  PROVE  /\ \E T : Rows(q, rows) \in Seq(T)
         /\ SeriesOf(q) = {} /\ ~q.distinct => Len(Rows(q, rows)) = Len(Units(q, rows))
<1> DEFINE units == Units(q, rows)
           T == RowsYielded(q, units)
           parts == [i \in DOMAIN units |-> Yielded(q, units, i)]
<1>1. units \in Seq(UnitOf(q, R))
  BY UnitsOf
<1>2. Rows(q, rows) = IF q.distinct THEN FirstOfEach(FlattenSeq(parts)) ELSE FlattenSeq(parts)
  BY Zenon DEF Rows
<1> HIDE DEF units
<1>3. DOMAIN units = 1 .. Len(units) /\ Len(units) \in Nat
  BY <1>1
<1>4. ASSUME NEW i \in DOMAIN units
      PROVE  /\ Height(q, units[i]) \in Nat /\ (SeriesOf(q) = {} => Height(q, units[i]) = 1)
  <2>1. units[i] \in UnitOf(q, R)
    BY <1>1
  <2> QED BY <2>1, HeightIs
<1>5. ASSUME NEW i \in DOMAIN units
      PROVE  /\ Yielded(q, units, i) \in Seq(T)
             /\ SeriesOf(q) = {} => Len(Yielded(q, units, i)) = 1
  BY <1>4, YieldedIs
<1> HIDE DEF T
<1>6. parts \in Seq(Seq(T)) /\ Len(parts) = Len(units)
  BY <1>3, <1>5
<1>7. SeriesOf(q) = {} => \A i \in DOMAIN parts : Len(parts[i]) = 1
  BY <1>5
<1> HIDE DEF parts
<1>8. FlattenSeq(parts) \in Seq(T) /\ (SeriesOf(q) = {} => Len(FlattenSeq(parts)) = Len(units))
  BY <1>6, <1>7, Flattened
<1>9. FirstOfEach(FlattenSeq(parts)) \in Seq(ToSet(FlattenSeq(parts)))
  BY <1>8, CollectedOf
<1>10. \E X : Rows(q, rows) \in Seq(X)
  BY <1>2, <1>8, <1>9
<1> QED BY <1>2, <1>8, <1>10 DEF units
-----------------------------------------------------------------------------
\* A statement of a query of these clauses, but for its order and its page.
StatementOf(stmt, wrapped, items) ==
  /\ stmt.wrapped = wrapped /\ stmt.selection = items
  /\ stmt.body.wheres = body.wheres /\ stmt.body.group_by = body.group_by
  /\ stmt.body.having = body.having /\ stmt.body.distinct = body.distinct
  /\ stmt.body.ctes = body.ctes

LEMMA BodyWithoutPage ==
  ASSUME NEW b \in Body
  PROVE  /\ WithoutPage(b) \in Body
         /\ WithoutPage(b).wheres = b.wheres /\ WithoutPage(b).group_by = b.group_by
         /\ WithoutPage(b).having = b.having /\ WithoutPage(b).distinct = b.distinct
         /\ WithoutPage(b).ctes = b.ctes /\ WithoutPage(b).order_by = b.order_by
         /\ WithoutPage(b).limit = None /\ WithoutPage(b).offset = None
BY DEF WithoutPage, Body

LEMMA BodyWithoutOrder ==
  ASSUME NEW b \in Body
  PROVE  LET q == [b EXCEPT !.order_by = <<>>]
         IN /\ q.wheres = b.wheres /\ q.group_by = b.group_by
            /\ q.having = b.having /\ q.distinct = b.distinct
            /\ q.ctes = b.ctes /\ q.order_by = <<>>
            /\ q.limit = b.limit /\ q.offset = b.offset
BY DEF Body

LEMMA BodyReplaced ==
  ASSUME NEW w, NEW b, NEW items, NEW c
  PROVE  [[wrapped |-> w, body |-> b, selection |-> items] EXCEPT !.body = c] =
           [wrapped |-> w, body |-> c, selection |-> items]
OBVIOUS

LEMMA ToSqlIs ==
  ASSUME body \in Body
  PROVE  /\ StatementOf(ToSql, FALSE, selection) /\ ToSql.body = body
         /\ StatementOf(Unpaged(ToSql), FALSE, selection)
         /\ Unpaged(ToSql).body = WithoutPage(body)
<1> DEFINE no == FALSE
<1>1. ToSql = [wrapped |-> no, body |-> body, selection |-> selection]
  BY DEF ToSql, Statement
<1> HIDE DEF no
<1>2. Unpaged(ToSql) = [wrapped |-> no, body |-> WithoutPage(body), selection |-> selection]
  <2>1. Unpaged(ToSql) = [ToSql EXCEPT !.body = WithoutPage(ToSql.body)]
    BY Zenon DEF Unpaged
  <2> DEFINE w == WithoutPage(ToSql.body)
  <2>2. w = WithoutPage(body)
    BY <1>1
  <2> HIDE DEF w
  <2>3. [ToSql EXCEPT !.body = w] = [wrapped |-> no, body |-> w, selection |-> selection]
    BY <1>1, BodyReplaced
  <2> QED BY <2>1, <2>2, <2>3 DEF w
<1>3. /\ ToSql.wrapped = no /\ ToSql.body = body /\ ToSql.selection = selection
      /\ Unpaged(ToSql).wrapped = no /\ Unpaged(ToSql).body = WithoutPage(body)
      /\ Unpaged(ToSql).selection = selection
  BY <1>1, <1>2
<1> QED BY <1>3, BodyWithoutPage DEF StatementOf, no

LEMMA CountSqlIs ==
  ASSUME body \in Body
  PROVE  /\ IF OneRowEach(body, selection) THEN StatementOf(CountSql, FALSE, <<CountItem>>)
            ELSE StatementOf(CountSql, TRUE, selection)
         /\ CountSql.body.limit = None /\ CountSql.body.offset = None
         /\ CountSql.body.order_by = <<>>
<1> DEFINE u == [WithoutPage(body) EXCEPT !.order_by = <<>>]
<1>1. /\ u.wheres = body.wheres /\ u.group_by = body.group_by
      /\ u.having = body.having /\ u.distinct = body.distinct
      /\ u.ctes = body.ctes /\ u.order_by = <<>>
      /\ u.limit = None /\ u.offset = None
  <2> DEFINE p == WithoutPage(body)
  <2>1. p \in Body
    BY BodyWithoutPage
  <2> HIDE DEF p
  <2> DEFINE v == [p EXCEPT !.order_by = <<>>]
  <2>2. /\ v.wheres = p.wheres /\ v.group_by = p.group_by
        /\ v.having = p.having /\ v.distinct = p.distinct
        /\ v.ctes = p.ctes /\ v.order_by = <<>>
        /\ v.limit = p.limit /\ v.offset = p.offset
    BY <2>1, BodyWithoutOrder
  <2>3. u = v
    BY DEF p
  <2> HIDE DEF u, v
  <2> QED BY <2>2, <2>3, BodyWithoutPage DEF p
<1>2. CountSql = IF OneRowEach(u, selection) THEN Statement(FALSE, u, <<CountItem>>)
                 ELSE Statement(TRUE, u, selection)
  BY DEF CountSql
<1> HIDE DEF u
<1>3. OneRowEach(u, selection) <=> OneRowEach(body, selection)
  BY <1>1 DEF OneRowEach
<1> QED BY <1>1, <1>2, <1>3 DEF StatementOf, Statement

LEMMA ClausesAre ==
  ASSUME NEW s, NEW t, NEW w, NEW x, NEW items, StatementOf(s, w, items), StatementOf(t, x, items)
  PROVE  ClausesOf(s) = ClausesOf(t)
BY DEF ClausesOf, StatementOf

LEMMA AcceptedAlike ==
  ASSUME NEW d, NEW s, NEW t, NEW items, StatementOf(s, FALSE, items), StatementOf(t, FALSE, items),
         s.body.order_by = t.body.order_by
  PROVE  Accepts(d, s) <=> Accepts(d, t)
<1>1. ClausesOf(s) = ClausesOf(t)
  BY ClausesAre
<1> QED BY <1>1 DEF Accepts, StatementOf
-----------------------------------------------------------------------------
\* The page of an answer.
RowsThrough(l, o, n) == IF l = None \/ n <= o + l THEN n ELSE o + l

LEMMA ShownCount ==
  ASSUME NEW l \in RowCount \cup {None}, NEW o \in RowCount, NEW n \in Nat
  PROVE  Cardinality(Shown(Page(l, o), n)) =
           IF RowsThrough(l, o, n) <= o THEN 0 ELSE RowsThrough(l, o, n) - o
<1> DEFINE t == RowsThrough(l, o, n)
<1>1. l # None => l \in Nat
  BY Width DEF RowCount
<1>2. o \in Nat
  BY Width DEF RowCount
<1>3. t \in Nat
  BY <1>1, <1>2 DEF RowsThrough
<1>4. Page(l, o).limit = l /\ Page(l, o).offset = o
  BY DEF Page
<1>5. Shown(Page(l, o), n) = o .. (t - 1)
  <2>1. CASE l = None
    BY <1>2, <1>4, <2>1 DEF Shown, RowsThrough
  <2>2. CASE l # None
    BY <1>1, <1>2, <1>4, <2>2 DEF Shown, RowsThrough
  <2> QED BY <2>1, <2>2
<1> HIDE DEF t
<1>6. Cardinality(o .. (t - 1)) = IF o > t - 1 THEN 0 ELSE (t - 1) - o + 1
  BY <1>2, <1>3, FS_Interval
<1> QED BY <1>2, <1>3, <1>5, <1>6 DEF t

RowsShown(all, l, o) == [i \in 1 .. Cardinality(Shown(Page(l, o), Len(all))) |-> all[o + i]]

LEMMA AnswerIs ==
  ASSUME NEW d \in Dialect, NEW stmt, NEW rows, NEW o \in RowCount,
         stmt.body.limit \in RowCount \cup {None}, stmt.body.offset \in RowCount \cup {None},
         o = IF stmt.body.offset = None THEN 0 ELSE stmt.body.offset
  PROVE  LET answer == RowsShown(Rows(ClausesOf(stmt), rows), stmt.body.limit, o)
         IN Answer(d, stmt, rows) = IF ~Accepts(d, stmt) THEN Rejected
                                    ELSE IF stmt.wrapped THEN <<<<Len(answer)>>>> ELSE answer
<1> DEFINE page == Page(stmt.body.limit, o)
<1>1. ReadPage(d, RenderLimitOffset(d, stmt.body.limit, stmt.body.offset)) = page
  BY PageReadIsPageWritten
<1>2. page # Rejected
  BY PagingAssumption, Width DEF Page, RowCount
<1>3. page.offset = o
  BY DEF Page
<1> HIDE DEF page
<1>4. Answer(d, stmt, rows) =
        LET all == Rows(ClausesOf(stmt), rows)
            answer == [i \in 1 .. Cardinality(Shown(page, Len(all))) |-> all[page.offset + i]]
        IN IF ~Accepts(d, stmt) \/ page = Rejected THEN Rejected
           ELSE IF stmt.wrapped THEN <<<<Len(answer)>>>> ELSE answer
  BY <1>1 DEF Answer
<1> QED BY <1>2, <1>3, <1>4 DEF page, RowsShown

\* Without a page, the whole of the rows.
LEMMA WholeAnswer ==
  ASSUME NEW d \in Dialect, NEW stmt, NEW rows, NEW T, Rows(ClausesOf(stmt), rows) \in Seq(T),
         stmt.body.limit = None, stmt.body.offset = None, Accepts(d, stmt)
  PROVE  Answer(d, stmt, rows) =
           IF stmt.wrapped THEN <<<<Len(Rows(ClausesOf(stmt), rows))>>>> ELSE Rows(ClausesOf(stmt), rows)
<1> DEFINE all == Rows(ClausesOf(stmt), rows)
           n == Len(all)
<1>1. 0 \in RowCount /\ None \in RowCount \cup {None}
  BY Width DEF RowCount
<1>2. Answer(d, stmt, rows) = IF stmt.wrapped THEN <<<<Len(RowsShown(all, None, 0))>>>>
                              ELSE RowsShown(all, None, 0)
  BY <1>1, AnswerIs
<1> HIDE DEF all
<1>3. n \in Nat /\ all = [i \in 1 .. n |-> all[i]]
  BY DEF all
<1>4. Cardinality(Shown(Page(None, 0), n)) = n
  <2> HIDE DEF n
  <2>1. RowsThrough(None, 0, n) = n
    BY DEF RowsThrough
  <2>2. Cardinality(Shown(Page(None, 0), n)) = IF n <= 0 THEN 0 ELSE n - 0
    BY <1>1, <1>3, <2>1, ShownCount
  <2> QED BY <1>3, <2>2
<1>5. RowsShown(all, None, 0) = all
  <2>1. RowsShown(all, None, 0) = [i \in 1 .. n |-> all[0 + i]]
    BY <1>4 DEF RowsShown
  <2> HIDE DEF n
  <2>2. \A i \in 1 .. n : all[0 + i] = all[i]
    BY <1>3
  <2>3. [i \in 1 .. n |-> all[0 + i]] = [i \in 1 .. n |-> all[i]]
    BY <2>2
  <2> QED BY <1>3, <2>1, <2>3
<1> QED BY <1>2, <1>5 DEF n, all
-----------------------------------------------------------------------------
\* A number of rows, however it is given, is the number a page is written with
\* or past any an i64 counts.
Fit(n) == IF n > I64Max THEN I64Max ELSE n

LEMMA RequestFits ==
  ASSUME NEW r \in Request, r.type = "bound" => r.n >= 0
  PROVE  Wanted(r) \in Nat /\ IntoRowCount(r) = Fit(Wanted(r)) /\ r # None
<1>1. r.n \in Int /\ r.type \in {"signed", "unsigned", "bound"} /\ r # None
      /\ (r.type = "unsigned" => r.n \in U64) /\ (r.type # "unsigned" => r.n \in I64)
  BY SelectsAssumption DEF U64, I64
<1> DEFINE n == r.n
<1> HIDE DEF n
<1>2. Max({0, n}) = IF n < 0 THEN 0 ELSE n
  <2>1. n \in Int
    BY <1>1 DEF n
  <2> QED BY <2>1 DEF Max
<1>3. Wanted(r) = IF n < 0 THEN 0 ELSE n
  BY <1>1, <1>2 DEF Wanted, n
<1> QED BY <1>1, <1>3, Width DEF n, U64, I64, U64Max, IntoRowCount, SignedRowCount, UnsignedRowCount, Fit

LEMMA FitIs ==
  ASSUME NEW n \in Nat
  PROVE  Fit(n) \in RowCount
BY Width DEF Fit, RowCount

Through(l, o, n) == IF l = None THEN n ELSE Min({n, o + l})

\* The rows a page shows are those it was asked for.
LEMMA PageShown ==
  ASSUME NEW L \in Nat \cup {None}, NEW O \in Nat, NEW T, NEW all \in Seq(T), Len(all) <= I64Max
  PROVE  RowsShown(all, IF L = None THEN None ELSE Fit(L), Fit(O)) =
           [i \in 1 .. (Through(L, O, Len(all)) - O) |-> all[O + i]]
<1> DEFINE l == IF L = None THEN None ELSE Fit(L)
           o == Fit(O)
           n == Len(all)
           t == Through(L, O, n)
           shown == Cardinality(Shown(Page(l, o), n))
<1>1. n \in Nat /\ n <= I64Max /\ I64Max \in Nat /\ None \notin Nat
  BY Width
<1>2. l \in RowCount \cup {None} /\ o \in RowCount
  BY FitIs
<1>3. shown = IF RowsThrough(l, o, n) <= o THEN 0 ELSE RowsThrough(l, o, n) - o
  <2> HIDE DEF l, o, n
  <2> QED BY <1>1, <1>2, ShownCount
<1>4. L # None => t = IF n <= O + L THEN n ELSE O + L
  <2> HIDE DEF n
  <2> QED BY <1>1 DEF Min, Through
<1>5. L = None => t = n
  BY DEF Through
<1>6. 1 .. shown = 1 .. (t - O) /\ (t - O >= 1 => o = O)
  <2> HIDE DEF n, t, shown
  <2>1. CASE L = None
    BY <1>1, <1>3, <1>5, <2>1 DEF RowsThrough, Fit
  <2>2. CASE L # None
    BY <1>1, <1>3, <1>4, <2>2 DEF RowsThrough, Fit
  <2> QED BY <2>1, <2>2
<1>7. RowsShown(all, l, o) = [i \in 1 .. shown |-> all[o + i]]
  BY DEF RowsShown
<1>8. [i \in 1 .. shown |-> all[o + i]] = [i \in 1 .. (t - O) |-> all[O + i]]
  <2>1. t \in Int
    BY <1>1, <1>4, <1>5
  <2> HIDE DEF t, shown, o
  <2>2. \A i \in 1 .. (t - O) : o = O
    BY <1>6, <2>1
  <2> QED BY <1>6, <2>2
<1> QED BY <1>7, <1>8
-----------------------------------------------------------------------------
\* The rows a query makes of a result of FROM are in sequence.
LEMMA RowsInSequence ==
  ASSUME IInv, body # None, NEW d, NEW stmt, Accepts(d, stmt), NEW rows \in Joined,
         stmt.selection = selection
  PROVE  \E T : Rows(ClausesOf(stmt), rows) \in Seq(T)
<1> DEFINE q == ClausesOf(stmt)
           R == ToSet(rows)
<1>1. q.items = selection
  BY DEF ClausesOf
<1>2. selection \in Seq(ToSet(selection)) /\ ToSet(selection) \subseteq Item
  <2>1. selection \in Selections \cup {<<>>}
    BY DEF IInv, AskedAgree
  <2>2. <<>> \in Seq(ToSet(<<>>))
    OBVIOUS
  <2> QED BY <2>1, <2>2, SelectsAssumption DEF IInv
<1>3. Grounded(q)
  BY AcceptedIsGrounded
<1> HIDE DEF q
<1>4. rows \in Seq(R) /\ \A r \in R, i \in SeriesOf(q) : r[i.of] \in Nat
  BY <1>1, <1>2, SelectsAssumption DEF SeriesOf
<1>5. q.items \in Seq(ToSet(q.items))
  BY <1>1, <1>2
<1> HIDE DEF R
<1>6. \E T : Rows(q, rows) \in Seq(T)
  BY <1>3, <1>4, <1>5, RowsAre
<1> QED BY <1>6 DEF q

\* What was asked for, of a count that is not a bound one below zero.
LEMMA AskedFits ==
  ASSUME NEW r \in Request \cup {None}, r # None => (r.type = "bound" => r.n >= 0)
  PROVE  /\ Wanted(r) \in Nat \cup {None} /\ (Wanted(r) = None <=> r = None)
         /\ CountOf(r) = IF Wanted(r) = None THEN None ELSE Fit(Wanted(r))
<1>1. None \notin Nat
  BY Width
<1>2. CASE r = None
  BY <1>2 DEF Wanted, CountOf
<1>3. CASE r # None
  BY <1>1, <1>3, RequestFits DEF CountOf
<1> QED BY <1>2, <1>3

LEMMA PagesAgree == IInv => PageIsTheOneAskedFor
<1> DEFINE clamped == \A r \in {asked.limit, asked.offset} \ {None} : r.type = "bound" => r.n >= 0
           L == Wanted(asked.limit)
           O == IF asked.offset = None THEN 0 ELSE Wanted(asked.offset)
           Expected(whole) == [i \in 1 .. (Through(L, O, Len(whole)) - O) |-> whole[O + i]]
<1> SUFFICES ASSUME IInv, body # None, clamped, NEW d \in Served, NEW rows \in Joined,
                    Answer(d, Unpaged(ToSql), rows) # Rejected,
                    Len(Answer(d, Unpaged(ToSql), rows)) <= I64Max
             PROVE  Answer(d, ToSql, rows) = Expected(Answer(d, Unpaged(ToSql), rows))
  BY DEF PageIsTheOneAskedFor, Through
<1> DEFINE u == Unpaged(ToSql)
           all == Rows(ClausesOf(u), rows)
<1>1. body \in Body /\ d \in Dialect
  BY SelectsAssumption DEF IInv
<1>2. /\ StatementOf(ToSql, FALSE, selection) /\ ToSql.body = body
      /\ StatementOf(u, FALSE, selection) /\ u.body = WithoutPage(body)
  BY <1>1, ToSqlIs
<1>3. u.body.order_by = body.order_by /\ u.body.limit = None /\ u.body.offset = None
  BY <1>1, <1>2, BodyWithoutPage
<1>4. ClausesOf(ToSql) = ClausesOf(u)
  BY <1>2, ClausesAre
<1>5. /\ asked.limit \in Request \cup {None} /\ asked.offset \in Request \cup {None}
      /\ body.limit = CountOf(asked.limit) /\ body.offset = CountOf(asked.offset)
  BY DEF IInv, AskedAgree
<1>6. /\ L \in Nat \cup {None} /\ body.limit = IF L = None THEN None ELSE Fit(L)
  BY <1>5, AskedFits
<1>7. /\ O \in Nat /\ body.offset \in RowCount \cup {None}
      /\ Fit(O) = IF body.offset = None THEN 0 ELSE body.offset
  <2>1. /\ Wanted(asked.offset) \in Nat \cup {None}
        /\ Wanted(asked.offset) = None <=> asked.offset = None
        /\ body.offset = IF Wanted(asked.offset) = None THEN None ELSE Fit(Wanted(asked.offset))
    BY <1>5, AskedFits
  <2>2. Fit(0) = 0 /\ None \notin RowCount
    BY Width DEF Fit, RowCount
  <2>3. CASE asked.offset = None
    BY <2>1, <2>2, <2>3
  <2>4. CASE asked.offset # None
    BY <2>1, <2>2, <2>4, FitIs
  <2> QED BY <2>3, <2>4
<1>8. /\ body.limit \in RowCount \cup {None} /\ Fit(O) \in RowCount
  <2> HIDE DEF L, O
  <2> QED BY <1>6, <1>7, FitIs
<1> HIDE DEF L, O, clamped
<1>9. Accepts(d, u)
  <2> SUFFICES ASSUME ~Accepts(d, u) PROVE FALSE
    OBVIOUS
  <2>1. 0 \in RowCount /\ None \in RowCount \cup {None}
    BY Width DEF RowCount
  <2> HIDE DEF u
  <2>2. Answer(d, u, rows) = Rejected
    BY <1>1, <1>3, <2>1, AnswerIs
  <2> QED BY <2>2 DEF u
<1>10. u.selection = selection /\ ~u.wrapped /\ ToSql.wrapped = FALSE
  BY <1>2 DEF StatementOf
<1>11. Accepts(d, ToSql)
  BY <1>2, <1>3, <1>9, AcceptedAlike
<1> HIDE DEF u
<1>12. PICK T : all \in Seq(T)
  BY <1>9, <1>10, RowsInSequence
<1>13. Answer(d, u, rows) = all
  BY <1>1, <1>3, <1>9, <1>10, <1>12, WholeAnswer
<1>14. Answer(d, ToSql, rows) = RowsShown(all, body.limit, Fit(O))
  <2>1. Answer(d, ToSql, rows) = RowsShown(Rows(ClausesOf(ToSql), rows), ToSql.body.limit, Fit(O))
    BY <1>1, <1>2, <1>7, <1>8, <1>10, <1>11, AnswerIs
  <2> QED BY <1>2, <1>4, <2>1
<1> HIDE DEF all
<1>15. Len(all) <= I64Max
  BY <1>13 DEF u
<1>16. RowsShown(all, body.limit, Fit(O)) = Expected(all)
  BY <1>6, <1>7, <1>12, <1>15, PageShown
<1> QED BY <1>13, <1>14, <1>16 DEF u

\* Every server that answers a query shows the page asked for, whatever its
\* clauses and its selection, of any result an i64 counts (IntoRowCount,
\* render_limit_offset).
THEOREM PagesAsAsked == Spec => []PageIsTheOneAskedFor
BY PagesAgree, Invariance, PTL
-----------------------------------------------------------------------------
\* Queries a server counts wherever it answers them: of no CTE that writes,
\* and on MySQL of no two columns of a name.
Countable ==
  /\ "write" \notin Binding
  /\ MySql \in Served => \A s \in Selections : \A i, j \in DOMAIN s : s[i].name = s[j].name => i = j

\* A wrapped count is of the rows the query itself yields.
LEMMA CountOfWrapped ==
  ASSUME Countable, IInv, body # None, NEW d \in Served, NEW u, NEW c,
         StatementOf(u, FALSE, selection), StatementOf(c, TRUE, selection), c.body.order_by = <<>>,
         Accepts(d, u)
  PROVE  Accepts(d, c)
<1>1. ClausesOf(c) = ClausesOf(u)
  BY ClausesAre
<1>2. "write" \notin ToSet(body.ctes)
  <2>1. body.ctes \in Seq(Binding)
    BY SelectsAssumption DEF IInv, Body
  <2> QED BY <2>1 DEF Countable, ToSet
<1>3. ToSet(<<>>) = {}
  BY DEF ToSet
<1>4. d = MySql => \A i, j \in DOMAIN selection : selection[i].name = selection[j].name => i = j
  BY DEF Countable, IInv, AskedAgree
<1> QED BY <1>1, <1>2, <1>3, <1>4 DEF Accepts, StatementOf

LEMMA KeptAlike ==
  ASSUME NEW p, NEW q, p.wheres = q.wheres, NEW rows
  PROVE  Kept(p, rows) = Kept(q, rows)
<1>1. {r \in ToSet(rows) : \A i \in DOMAIN p.wheres : r[p.wheres[i].of] = p.wheres[i].is} =
      {r \in ToSet(rows) : \A i \in DOMAIN q.wheres : r[q.wheres[i].of] = q.wheres[i].is}
  OBVIOUS
<1> QED BY <1>1 DEF Kept

\* An unwrapped count is one group, of the rows that WHERE leaves.
LEMMA CountOfKept ==
  ASSUME NEW q, q.items = <<CountItem>>, q.group_by = <<>>, q.having = <<>>, ~q.distinct, NEW rows
  PROVE  Rows(q, rows) = <<<<Len(Kept(q, rows))>>>>
<1> DEFINE kept == Kept(q, rows)
<1>1. Collapses(q)
  BY DEF Collapses, CountItem
<1>2. Units(q, rows) = <<kept>>
  <2> DEFINE chosen == {g \in ToSet(<<kept>>) : \A i \in DOMAIN q.having : Len(g) >= q.having[i]}
  <2>1. Units(q, rows) = Only(<<kept>>, chosen)
    BY <1>1 DEF Units, Grouped
  <2>2. kept \in chosen
    <3>1. kept \in ToSet(<<kept>>)
      BY DEF ToSet
    <3>2. DOMAIN q.having = {}
      OBVIOUS
    <3> QED BY <3>1, <3>2
  <2> HIDE DEF kept, chosen
  <2> QED BY <2>1, <2>2, ChosenAlone
<1> HIDE DEF kept
<1> DEFINE units == <<kept>>
           part == <<<<Len(kept)>>>>
<1>3. Height(q, units[1]) = 1
  <2>1. \A i \in ToSet(q.items) : i.kind # "series"
    BY DEF ToSet, CountItem
  <2> QED BY <2>1 DEF Height
<1>4. ItemValue(CountItem, units, 1, 1) = Len(kept)
  BY DEF ItemValue, CountItem
<1>5. Yielded(q, units, 1) = part
  <2>1. YieldedRow(q, units, 1, 1) = <<Len(kept)>>
    <3>1. DOMAIN q.items = {1} /\ q.items[1] = CountItem
      OBVIOUS
    <3> DEFINE v == Len(kept)
    <3> HIDE DEF v, units
    <3>2. YieldedRow(q, units, 1, 1) = [s \in {1} |-> v]
      BY <1>4, <3>1 DEF YieldedRow, v
    <3>3. [s \in {1} |-> v] = <<v>>
      OBVIOUS
    <3> QED BY <3>2, <3>3 DEF v
  <2> DEFINE row(k) == YieldedRow(q, units, 1, k)
  <2>2. Yielded(q, units, 1) = [k \in 1 .. 1 |-> row(k)]
    BY <1>3 DEF Yielded, YieldedRow
  <2>3. row(1) = <<Len(kept)>>
    BY <2>1
  <2> DEFINE v == <<Len(kept)>>
  <2> HIDE DEF row, v
  <2>4. [k \in 1 .. 1 |-> row(k)] = <<v>>
    BY <2>3 DEF v
  <2> QED BY <2>2, <2>4 DEF v
<1>6. FlattenSeq(<<part>>) = part
  <2> DEFINE w == <<part>>
  <2> HIDE DEF part
  <2>1. Len(w) = 1 /\ w[1] = part
    OBVIOUS
  <2> HIDE DEF w
  <2>3. Len(w) \in Nat /\ Len(w) # 0
    BY <2>1
  <2>2. PICK f : /\ FlattenSeq(w) = f[Len(w)] /\ f[1] = w[1]
                 /\ \A n \in 1 .. Len(w) : n # 1 => f[n] = f[n - 1] \o w[n]
    BY <2>3, FlatSteps
  <2> QED BY <2>1, <2>2 DEF w
<1>7. Rows(q, rows) = FlattenSeq([i \in DOMAIN units |-> Yielded(q, units, i)])
  BY <1>2 DEF Rows
<1>8. [i \in DOMAIN units |-> Yielded(q, units, i)] = <<part>>
  <2>1. DOMAIN units = {1}
    OBVIOUS
  <2> HIDE DEF units, part
  <2>2. [i \in DOMAIN units |-> Yielded(q, units, i)] = [i \in {1} |-> part]
    BY <1>5, <2>1
  <2>3. [i \in {1} |-> part] = <<part>>
    OBVIOUS
  <2> QED BY <2>2, <2>3
<1> HIDE DEF units, part
<1>9. Rows(q, rows) = part
  BY <1>6, <1>7, <1>8
<1> QED BY <1>9 DEF part, kept

LEMMA CountsAgree == Countable /\ IInv => CountIsTheNumberOfRows
<1> SUFFICES ASSUME Countable, IInv, body # None, NEW d \in Served, NEW rows \in Joined,
                    Answer(d, Unpaged(ToSql), rows) # Rejected
             PROVE  Answer(d, CountSql, rows) = <<<<Len(Answer(d, Unpaged(ToSql), rows))>>>>
  BY DEF CountIsTheNumberOfRows
<1> DEFINE u == Unpaged(ToSql)
           all == Rows(ClausesOf(u), rows)
           c == CountSql
<1>1. body \in Body /\ d \in Dialect
  BY SelectsAssumption DEF IInv
<1>2. StatementOf(u, FALSE, selection) /\ u.body = WithoutPage(body)
  BY <1>1, ToSqlIs
<1>3. u.body.limit = None /\ u.body.offset = None
  BY <1>1, <1>2, BodyWithoutPage
<1>4. /\ IF OneRowEach(body, selection) THEN StatementOf(c, FALSE, <<CountItem>>)
         ELSE StatementOf(c, TRUE, selection)
      /\ c.body.limit = None /\ c.body.offset = None /\ c.body.order_by = <<>>
  BY <1>1, CountSqlIs
<1> HIDE DEF c
<1>5. Accepts(d, u)
  <2> SUFFICES ASSUME ~Accepts(d, u) PROVE FALSE
    OBVIOUS
  <2>1. 0 \in RowCount /\ None \in RowCount \cup {None}
    BY Width DEF RowCount
  <2> HIDE DEF u
  <2>2. Answer(d, u, rows) = Rejected
    BY <1>1, <1>3, <2>1, AnswerIs
  <2> QED BY <2>2 DEF u
<1>6. u.selection = selection /\ ~u.wrapped
  BY <1>2 DEF StatementOf
<1> HIDE DEF u
<1>7. PICK T : all \in Seq(T)
  BY <1>5, <1>6, RowsInSequence
<1>8. Answer(d, u, rows) = all
  BY <1>1, <1>3, <1>5, <1>6, <1>7, WholeAnswer
<1>9. CASE ~OneRowEach(body, selection)
  <2>1. StatementOf(c, TRUE, selection)
    BY <1>4, <1>9
  <2>2. Accepts(d, c) /\ ClausesOf(c) = ClausesOf(u) /\ c.wrapped
    BY <1>2, <1>4, <1>5, <2>1, CountOfWrapped, ClausesAre DEF StatementOf
  <2>3. Answer(d, c, rows) = <<<<Len(all)>>>>
    BY <1>1, <1>4, <1>7, <2>2, WholeAnswer
  <2> QED BY <1>8, <2>3 DEF u, c
<1>10. CASE OneRowEach(body, selection)
  <2> DEFINE q == ClausesOf(c)
             p == ClausesOf(u)
  <2>1. StatementOf(c, FALSE, <<CountItem>>)
    BY <1>4, <1>10
  <2>2. /\ body.group_by = <<>> /\ body.having = <<>> /\ ~body.distinct
        /\ \A i \in DOMAIN selection : selection[i].kind = "column"
    BY <1>10 DEF OneRowEach
  <2>3. /\ q.items = <<CountItem>> /\ q.group_by = <<>> /\ q.having = <<>> /\ ~q.distinct
        /\ q.wheres = body.wheres
    BY <2>1, <2>2 DEF ClausesOf, StatementOf
  <2>4. /\ p.items = selection /\ p.group_by = <<>> /\ p.having = <<>> /\ ~p.distinct
        /\ p.wheres = body.wheres
    BY <1>2, <2>2 DEF ClausesOf, StatementOf
  <2>5. Accepts(d, c)
    <3>1. ToSet(<<CountItem>>) = {CountItem} /\ CountItem.kind = "aggregate"
      BY DEF ToSet, CountItem
    <3>2. c.selection = <<CountItem>> /\ ~c.wrapped /\ ~c.body.distinct /\ c.body.ctes = body.ctes
      BY <2>1, <2>2 DEF StatementOf
    <3>3. "write" \in ToSet(body.ctes) => d = Postgres
      BY <1>2, <1>5 DEF Accepts, StatementOf
    <3> QED BY <3>1, <3>2, <3>3 DEF Accepts
  <2> HIDE DEF q, p
  <2> DEFINE kept == Kept(p, rows)
  <2>6. Rows(q, rows) = <<<<Len(kept)>>>>
    BY <2>3, <2>4, CountOfKept, KeptAlike
  <2>7. Answer(d, c, rows) = <<<<Len(kept)>>>>
    <3> DEFINE part == <<<<Len(kept)>>>>
    <3>1. part \in Seq({<<Len(kept)>>})
      OBVIOUS
    <3>2. c.wrapped = FALSE
      BY <2>1 DEF StatementOf
    <3> HIDE DEF part, kept
    <3>3. Rows(ClausesOf(c), rows) \in Seq({<<Len(kept)>>})
      BY <2>6, <3>1 DEF part, q
    <3>4. Answer(d, c, rows) = Rows(ClausesOf(c), rows)
      BY <1>1, <1>4, <2>5, <3>2, <3>3, WholeAnswer
    <3> QED BY <2>6, <3>4 DEF q
  <2>8. Len(all) = Len(kept)
    <3> DEFINE R == ToSet(rows)
    <3>1. rows \in Seq(R)
      BY SelectsAssumption
    <3> HIDE DEF R
    <3>2. ~Collapses(p) /\ SeriesOf(p) = {}
      BY <2>2, <2>4 DEF Collapses, SeriesOf, ToSet
    <3>3. Units(p, rows) = [i \in DOMAIN kept |-> <<kept[i]>>]
      BY <3>2 DEF Units
    <3>4. kept \in Seq(R)
      BY <3>1, KeptOf
    <3>5. p.items \in Seq(ToSet(p.items))
      <4>1. selection \in Selections \cup {<<>>}
        BY DEF IInv, AskedAgree
      <4>2. <<>> \in Seq(ToSet(<<>>))
        OBVIOUS
      <4> QED BY <2>4, <4>1, <4>2, SelectsAssumption
    <3>6. Grounded(p)
      BY <3>2 DEF Grounded
    <3>7. Len(Rows(p, rows)) = Len(Units(p, rows))
      BY <2>4, <3>1, <3>2, <3>5, <3>6, RowsAre
    <3> HIDE DEF kept
    <3>8. Len(Units(p, rows)) = Len(kept)
      BY <3>3, <3>4
    <3> QED BY <3>7, <3>8 DEF p
  <2> HIDE DEF kept, all
  <2> QED BY <1>8, <2>7, <2>8 DEF u, c
<1> QED BY <1>9, <1>10

\* The total of a query is the number of its rows without the page, whatever
\* its clauses, its selection and the rows, grouped, distinct or neither
\* (count_sql).  Of a CTE that writes no total can be taken; of two columns of
\* a name MySQL takes none, which a run shows.
THEOREM CountsOfTheRows ==
  ASSUME Countable
  PROVE  Spec => []CountIsTheNumberOfRows
<1>1. IInv => CountIsTheNumberOfRows
  BY CountsAgree
<1> QED BY <1>1, Invariance, PTL
-----------------------------------------------------------------------------
(***************************************************************************)
(* A chain, as a server reads it.  The readers between one token and the   *)
(* next, and between one branch and the next, come of the folds; a frame   *)
(* is followed by its fields.                                              *)
(***************************************************************************)
ReadThroughTable(d, reader, text, it, N) ==
  it = [s \in SUBSET (1 .. N) |->
          IF s = {} THEN reader ELSE ReadToken(d, it[s \ {Max(s)}], text[Max(s)])]

LEMMA ReadThroughTables ==
  ASSUME NEW d, NEW reader, NEW text, NEW N \in Nat
  PROVE  \E it : ReadThroughTable(d, reader, text, it, N)
<1> DEFINE S == {n \in Nat : \E it : ReadThroughTable(d, reader, text, it, n)}
<1>1. 0 \in S
  <2>1. \A s \in SUBSET (1 .. 0) : s = {}
    OBVIOUS
  <2>2. ReadThroughTable(d, reader, text, [s \in SUBSET (1 .. 0) |-> reader], 0)
    BY <2>1 DEF ReadThroughTable
  <2> QED BY <2>2
<1>2. ASSUME NEW n \in Nat, n \in S PROVE n + 1 \in S
  <2>1. PICK it : ReadThroughTable(d, reader, text, it, n)
    BY <1>2
  <2> DEFINE more == [s \in SUBSET (1 .. (n + 1)) |->
                        IF n + 1 \in s THEN ReadToken(d, it[s \ {n + 1}], text[n + 1]) ELSE it[s]]
  <2>2. ASSUME NEW s \in SUBSET (1 .. (n + 1))
        PROVE  more[s] = IF s = {} THEN reader ELSE ReadToken(d, more[s \ {Max(s)}], text[Max(s)])
    <3>1. CASE n + 1 \in s
      <4>1. Max(s) = n + 1
        <5>1. n + 1 \in Nat /\ s # {}
          BY <3>1
        <5>2. Max(s) \in s /\ n + 1 <= Max(s)
          BY <3>1, <5>1, Greatest
        <5>3. Max(s) \in 1 .. (n + 1)
          BY <5>2
        <5> HIDE DEF more
        <5> QED BY <5>2, <5>3
      <4>2. s \ {n + 1} \in SUBSET (1 .. (n + 1)) /\ n + 1 \notin s \ {n + 1}
        OBVIOUS
      <4>3. more[s \ {n + 1}] = it[s \ {n + 1}]
        BY <4>2
      <4> QED BY <3>1, <4>1, <4>3
    <3>2. CASE n + 1 \notin s
      <4>1. s \in SUBSET (1 .. n) /\ more[s] = it[s]
        BY <3>2
      <4>2. it[s] = IF s = {} THEN reader ELSE ReadToken(d, it[s \ {Max(s)}], text[Max(s)])
        BY <2>1, <4>1 DEF ReadThroughTable
      <4>3. s \ {Max(s)} \in SUBSET (1 .. (n + 1)) /\ n + 1 \notin s \ {Max(s)}
        BY <3>2
      <4>4. more[s \ {Max(s)}] = it[s \ {Max(s)}]
        BY <4>3
      <4> QED BY <4>1, <4>2, <4>4
    <3> QED BY <3>1, <3>2
  <2>3. more = [s \in SUBSET (1 .. (n + 1)) |-> more[s]]
    OBVIOUS
  <2> HIDE DEF more
  <2>4. ReadThroughTable(d, reader, text, more, n + 1)
    BY <2>2, <2>3 DEF ReadThroughTable
  <2> QED BY <2>4
<1> HIDE DEF S
<1>3. N \in S
  BY <1>1, <1>2, EveryNumber
<1> QED BY <1>3 DEF S

\* The readers a text is read through, one more of its tokens each.
ReadThrough(d, reader, text, acc) ==
  /\ acc[0] = reader /\ acc[Len(text)] = ReadOn(d, reader, text)
  /\ \A n \in 1 .. Len(text) : acc[n] = ReadToken(d, acc[n - 1], text[n])

LEMMA ReadThroughSteps ==
  ASSUME NEW d, NEW reader, NEW text, NEW S, text \in Seq(S)
  PROVE  \E acc : ReadThrough(d, reader, text, acc)
<1> DEFINE N == Len(text)
<1>1. N \in Nat /\ DOMAIN text = 1 .. N
  OBVIOUS
<1> HIDE DEF N
<1>2. PICK it : ReadThroughTable(d, reader, text, it, N)
  BY <1>1, ReadThroughTables
<1> DEFINE iter == CHOOSE iter : iter = [s \in SUBSET DOMAIN text |->
           IF s = {} THEN reader ELSE ReadToken(d, iter[s \ {Max(s)}], text[Max(s)])]
<1>3. it = [s \in SUBSET DOMAIN text |->
           IF s = {} THEN reader ELSE ReadToken(d, it[s \ {Max(s)}], text[Max(s)])]
  BY <1>1, <1>2 DEF ReadThroughTable
<1>4. iter = [s \in SUBSET DOMAIN text |->
           IF s = {} THEN reader ELSE ReadToken(d, iter[s \ {Max(s)}], text[Max(s)])]
  BY <1>3
<1>5. ReadOn(d, reader, text) = iter[DOMAIN text]
  BY Zenon DEF FoldLeft, MapThenFoldSet, ReadOn
<1> HIDE DEF iter
<1> DEFINE acc == [n \in 0 .. N |-> iter[1 .. n]]
<1>6. acc[0] = reader /\ acc[N] = ReadOn(d, reader, text)
  <2>1. {} \in SUBSET DOMAIN text /\ 1 .. 0 = {} /\ 0 \in 0 .. N /\ N \in 0 .. N
    BY <1>1
  <2>2. iter[{}] = reader
    BY <1>4, <2>1
  <2> QED BY <1>1, <1>5, <2>1, <2>2
<1>7. ASSUME NEW n \in 1 .. N
      PROVE  acc[n] = ReadToken(d, acc[n - 1], text[n])
  <2>1. n \in Nat /\ n # 0 /\ n \in 0 .. N /\ n - 1 \in 0 .. N
    BY <1>1
  <2>2. 1 .. n # {} /\ Max(1 .. n) = n /\ (1 .. n) \ {n} = 1 .. (n - 1)
    BY <2>1, Intervals
  <2>3. 1 .. n \in SUBSET DOMAIN text
    BY <1>1
  <2>4. iter[1 .. n] = ReadToken(d, iter[1 .. (n - 1)], text[n])
    BY <1>4, <2>2, <2>3
  <2> QED BY <2>1, <2>4
<1> HIDE DEF acc
<1> QED BY <1>6, <1>7 DEF ReadThrough, N

LeftFoldByTable(start, parts, it, N) ==
  it = [s \in SUBSET (1 .. N) |->
          IF s = {} THEN start ELSE Combined(it[s \ {Max(s)}], parts[Max(s)])]

LEMMA LeftFoldByTables ==
  ASSUME NEW start, NEW parts, NEW N \in Nat
  PROVE  \E it : LeftFoldByTable(start, parts, it, N)
<1> DEFINE S == {n \in Nat : \E it : LeftFoldByTable(start, parts, it, n)}
<1>1. 0 \in S
  <2>1. \A s \in SUBSET (1 .. 0) : s = {}
    OBVIOUS
  <2>2. LeftFoldByTable(start, parts, [s \in SUBSET (1 .. 0) |-> start], 0)
    BY <2>1 DEF LeftFoldByTable
  <2> QED BY <2>2
<1>2. ASSUME NEW n \in Nat, n \in S PROVE n + 1 \in S
  <2>1. PICK it : LeftFoldByTable(start, parts, it, n)
    BY <1>2
  <2> DEFINE more == [s \in SUBSET (1 .. (n + 1)) |->
                        IF n + 1 \in s THEN Combined(it[s \ {n + 1}], parts[n + 1]) ELSE it[s]]
  <2>2. ASSUME NEW s \in SUBSET (1 .. (n + 1))
        PROVE  more[s] = IF s = {} THEN start ELSE Combined(more[s \ {Max(s)}], parts[Max(s)])
    <3>1. CASE n + 1 \in s
      <4>1. Max(s) = n + 1
        <5>1. n + 1 \in Nat /\ s # {}
          BY <3>1
        <5>2. Max(s) \in s /\ n + 1 <= Max(s)
          BY <3>1, <5>1, Greatest
        <5>3. Max(s) \in 1 .. (n + 1)
          BY <5>2
        <5> HIDE DEF more
        <5> QED BY <5>2, <5>3
      <4>2. s \ {n + 1} \in SUBSET (1 .. (n + 1)) /\ n + 1 \notin s \ {n + 1}
        OBVIOUS
      <4>3. more[s \ {n + 1}] = it[s \ {n + 1}]
        BY <4>2
      <4> QED BY <3>1, <4>1, <4>3
    <3>2. CASE n + 1 \notin s
      <4>1. s \in SUBSET (1 .. n) /\ more[s] = it[s]
        BY <3>2
      <4>2. it[s] = IF s = {} THEN start ELSE Combined(it[s \ {Max(s)}], parts[Max(s)])
        BY <2>1, <4>1 DEF LeftFoldByTable
      <4>3. s \ {Max(s)} \in SUBSET (1 .. (n + 1)) /\ n + 1 \notin s \ {Max(s)}
        BY <3>2
      <4>4. more[s \ {Max(s)}] = it[s \ {Max(s)}]
        BY <4>3
      <4> QED BY <4>1, <4>2, <4>4
    <3> QED BY <3>1, <3>2
  <2>3. more = [s \in SUBSET (1 .. (n + 1)) |-> more[s]]
    OBVIOUS
  <2> HIDE DEF more
  <2>4. LeftFoldByTable(start, parts, more, n + 1)
    BY <2>2, <2>3 DEF LeftFoldByTable
  <2> QED BY <2>4
<1> HIDE DEF S
<1>3. N \in S
  BY <1>1, <1>2, EveryNumber
<1> QED BY <1>3 DEF S

\* The combinations the calls spell, one branch more each.
LeftFoldBy(start, parts, acc) ==
  /\ acc[0] = start /\ acc[Len(parts)] = FoldLeft(Combined, start, parts)
  /\ \A n \in 1 .. Len(parts) : acc[n] = Combined(acc[n - 1], parts[n])

LEMMA LeftFoldBySteps ==
  ASSUME NEW start, NEW parts, NEW S, parts \in Seq(S)
  PROVE  \E acc : LeftFoldBy(start, parts, acc)
<1> DEFINE N == Len(parts)
<1>1. N \in Nat /\ DOMAIN parts = 1 .. N
  OBVIOUS
<1> HIDE DEF N
<1>2. PICK it : LeftFoldByTable(start, parts, it, N)
  BY <1>1, LeftFoldByTables
<1> DEFINE iter == CHOOSE iter : iter = [s \in SUBSET DOMAIN parts |->
           IF s = {} THEN start ELSE Combined(iter[s \ {Max(s)}], parts[Max(s)])]
<1>3. it = [s \in SUBSET DOMAIN parts |->
           IF s = {} THEN start ELSE Combined(it[s \ {Max(s)}], parts[Max(s)])]
  BY <1>1, <1>2 DEF LeftFoldByTable
<1>4. iter = [s \in SUBSET DOMAIN parts |->
           IF s = {} THEN start ELSE Combined(iter[s \ {Max(s)}], parts[Max(s)])]
  BY <1>3
<1>5. FoldLeft(Combined, start, parts) = iter[DOMAIN parts]
  BY Zenon DEF FoldLeft, MapThenFoldSet
<1> HIDE DEF iter
<1> DEFINE acc == [n \in 0 .. N |-> iter[1 .. n]]
<1>6. acc[0] = start /\ acc[N] = FoldLeft(Combined, start, parts)
  <2>1. {} \in SUBSET DOMAIN parts /\ 1 .. 0 = {} /\ 0 \in 0 .. N /\ N \in 0 .. N
    BY <1>1
  <2>2. iter[{}] = start
    BY <1>4, <2>1
  <2> QED BY <1>1, <1>5, <2>1, <2>2
<1>7. ASSUME NEW n \in 1 .. N
      PROVE  acc[n] = Combined(acc[n - 1], parts[n])
  <2>1. n \in Nat /\ n # 0 /\ n \in 0 .. N /\ n - 1 \in 0 .. N
    BY <1>1
  <2>2. 1 .. n # {} /\ Max(1 .. n) = n /\ (1 .. n) \ {n} = 1 .. (n - 1)
    BY <2>1, Intervals
  <2>3. 1 .. n \in SUBSET DOMAIN parts
    BY <1>1
  <2>4. iter[1 .. n] = Combined(iter[1 .. (n - 1)], parts[n])
    BY <1>4, <2>2, <2>3
  <2> QED BY <2>1, <2>4
<1> HIDE DEF acc
<1> QED BY <1>6, <1>7 DEF LeftFoldBy, N

\* A text is read token by token: none, one, and one text after another.
LEMMA ReadNone == ASSUME NEW d, NEW reader PROVE ReadOn(d, reader, <<>>) = reader
<1>1. PICK acc : ReadThrough(d, reader, <<>>, acc)
  <2>1. <<>> \in Seq({})
    OBVIOUS
  <2> QED BY <2>1, ReadThroughSteps
<1> QED BY <1>1 DEF ReadThrough

LEMMA ReadOne == ASSUME NEW d, NEW reader, NEW t PROVE ReadOn(d, reader, <<t>>) = ReadToken(d, reader, t)
<1>1. PICK acc : ReadThrough(d, reader, <<t>>, acc)
  <2>1. <<t>> \in Seq({t})
    OBVIOUS
  <2> QED BY <2>1, ReadThroughSteps
<1>2. Len(<<t>>) = 1 /\ <<t>>[1] = t
  OBVIOUS
<1>3. acc[1] = ReadToken(d, acc[1 - 1], t)
  BY <1>1, <1>2 DEF ReadThrough
<1> QED BY <1>1, <1>2, <1>3 DEF ReadThrough

LEMMA ReadJoined ==
  ASSUME NEW d, NEW reader, NEW S, NEW a \in Seq(S), NEW b \in Seq(S)
  PROVE  ReadOn(d, reader, a \o b) = ReadOn(d, ReadOn(d, reader, a), b)
<1> DEFINE M == Len(a)
           N == Len(b)
           mid == ReadOn(d, reader, a)
<1>1. /\ a \o b \in Seq(S) /\ M \in Nat /\ N \in Nat /\ Len(a \o b) = M + N
      /\ \A n \in 1 .. M : (a \o b)[n] = a[n]
      /\ \A n \in 1 .. N : (a \o b)[M + n] = b[n]
  BY ConcatProperties, LenProperties
<1>2. PICK ra : ReadThrough(d, reader, a, ra)
  BY ReadThroughSteps
<1>3. PICK rb : ReadThrough(d, mid, b, rb)
  BY ReadThroughSteps
<1>4. PICK rc : ReadThrough(d, reader, a \o b, rc)
  BY <1>1, ReadThroughSteps
<1>5. \A n \in 1 .. M : n - 1 \in 0 .. M /\ n \in 1 .. (M + N)
  BY <1>1
<1>6. \A n \in 1 .. N : n - 1 \in 0 .. N /\ M + n \in 1 .. (M + N) /\ (M + n) - 1 = M + (n - 1)
  BY <1>1
<1> DEFINE A == {n \in 0 .. M : rc[n] = ra[n]}
           B == {n \in 0 .. N : rc[M + n] = rb[n]}
<1>7. M \in A
  <2>1. 0 \in A
    BY <1>1, <1>2, <1>4 DEF ReadThrough
  <2>2. ASSUME NEW n \in 1 .. M, n - 1 \in A PROVE n \in A
    <3>1. ra[n] = ReadToken(d, ra[n - 1], a[n])
      BY <1>2 DEF ReadThrough
    <3>2. rc[n] = ReadToken(d, rc[n - 1], (a \o b)[n])
      BY <1>1, <1>4, <1>5 DEF ReadThrough
    <3> QED BY <1>1, <2>2, <3>1, <3>2
  <2> HIDE DEF A
  <2>3. 0 .. M \subseteq A
    BY <1>1, <2>1, <2>2, Upwards
  <2>4. M \in 0 .. M
    BY <1>1
  <2> QED BY <2>3, <2>4
<1>8. N \in B
  <2>1. 0 \in B
    <3>1. rc[M] = mid /\ rb[0] = mid
      BY <1>2, <1>3, <1>7 DEF ReadThrough
    <3> QED BY <1>1, <3>1
  <2>2. ASSUME NEW n \in 1 .. N, n - 1 \in B PROVE n \in B
    <3>1. rb[n] = ReadToken(d, rb[n - 1], b[n])
      BY <1>3 DEF ReadThrough
    <3>2. rc[M + n] = ReadToken(d, rc[M + (n - 1)], (a \o b)[M + n])
      BY <1>1, <1>4, <1>6 DEF ReadThrough
    <3> QED BY <1>1, <2>2, <3>1, <3>2
  <2> HIDE DEF B
  <2>3. 0 .. N \subseteq B
    BY <1>1, <2>1, <2>2, Upwards
  <2>4. N \in 0 .. N
    BY <1>1
  <2> QED BY <2>3, <2>4
<1>9. ReadOn(d, reader, a \o b) = rc[M + N] /\ ReadOn(d, mid, b) = rb[N]
  BY <1>1, <1>3, <1>4 DEF ReadThrough
<1> QED BY <1>8, <1>9

LEMMA ReadNext ==
  ASSUME NEW d, NEW reader, NEW S, NEW t \in S, NEW b \in Seq(S)
  PROVE  ReadOn(d, reader, <<t>> \o b) = ReadOn(d, ReadToken(d, reader, t), b)
<1> DEFINE a == <<t>>
<1>1. a \in Seq(S)
  OBVIOUS
<1>2. ReadOn(d, reader, a) = ReadToken(d, reader, t)
  BY ReadOne
<1> HIDE DEF a
<1>3. ReadOn(d, reader, a \o b) = ReadOn(d, ReadOn(d, reader, a), b)
  BY <1>1, ReadJoined
<1> QED BY <1>2, <1>3 DEF a
-----------------------------------------------------------------------------
(***************************************************************************)
(* Frames, written out.                                                    *)
(***************************************************************************)
Full(opener, low, lowOp, high, highOp, order, clauses) ==
  [opener |-> opener, low |-> low, lowOp |-> lowOp, high |-> high,
   highOp |-> highOp, order |-> order, clauses |-> clauses]

\* A frame with an operand read and nothing said of its whole result.
Plain(opener, low, lowOp, x) == Full(opener, low, lowOp, <<x>>, "none", <<>>, <<>>)

Extended(high, highOp, x) == IF high = <<>> THEN <<x>> ELSE <<Node(highOp, high[1], x)>>

LEMMA OperandIs ==
  ASSUME NEW o, NEW low, NEW lowOp, NEW high, NEW highOp, NEW order, NEW clauses, NEW f, NEW x, NEW none, none = "none",
         f = Full(o, low, lowOp, high, highOp, order, clauses)
  PROVE  Operand(f, x) =
           Full(o, low, lowOp, Extended(high, highOp, x), none, order, clauses)
<1> DEFINE v == Extended(high, highOp, x)
           g == [f EXCEPT !.high = v]
<1>1. f.high = high /\ f.highOp = highOp
  BY DEF Full
<1>2. Operand(f, x) = [f EXCEPT !.high = v, !.highOp = none]
  BY <1>1 DEF Operand, Extended
<1> HIDE DEF v
<1>3. Operand(f, x) = [g EXCEPT !.highOp = none]
  BY <1>2
<1>4. g = Full(o, low, lowOp, v, highOp, order, clauses)
  BY DEF Full
<1> HIDE DEF g
<1>5. [g EXCEPT !.highOp = none] = Full(o, low, lowOp, v, none, order, clauses)
  BY <1>4 DEF Full
<1> QED BY <1>3, <1>5 DEF v

LEMMA FrameIs ==
  ASSUME NEW o
  PROVE  /\ Frame(o) = Full(o, <<>>, "none", <<>>, "none", <<>>, <<>>)
         /\ AwaitsOperand(Frame(o)) /\ Frame(o).opener = o
         /\ \A x : Operand(Frame(o), x) = Plain(o, <<>>, "none", x)
<1>1. Frame(o) = Full(o, <<>>, "none", <<>>, "none", <<>>, <<>>)
  BY DEF Frame, Full
<1>2. AwaitsOperand(Frame(o)) /\ Frame(o).opener = o
  BY DEF Frame, AwaitsOperand
<1> DEFINE f == Frame(o)
<1> HIDE DEF f
<1>3. ASSUME NEW x PROVE Operand(f, x) = Plain(o, <<>>, "none", x)
  <2> DEFINE empty == <<>>
             none == "none"
  <2>1. f = Full(o, empty, none, empty, none, empty, empty)
    BY <1>1 DEF f
  <2> HIDE DEF none, empty
  <2>2. Operand(f, x) = Full(o, empty, none, Extended(empty, none, x), none, empty, empty)
    <3>1. none = "none"
      BY DEF none
    <3> QED BY <2>1, <3>1, OperandIs
  <2>3. Extended(empty, none, x) = <<x>>
    BY DEF empty, Extended
  <2> QED BY <2>2, <2>3 DEF Plain, empty, none
<1> QED BY <1>1, <1>2, <1>3 DEF f

\* The page clauses of a query are kept as they are read.
PageToken(t) == t.tok \in {"limit", "offset"}
Added(clauses, t) == Append(clauses, t)
Paged(o, low, lowOp, x, order, outer, clauses) ==
  Reader(Full(o, low, lowOp, <<x>>, "none", order, clauses), outer)

LEMMA ClauseRead ==
  ASSUME NEW d, NEW o, NEW low, NEW lowOp, NEW x, NEW order, NEW clauses, NEW outer,
         NEW t, PageToken(t)
  PROVE  ReadToken(d, Paged(o, low, lowOp, x, order, outer, clauses), t)
           = Paged(o, low, lowOp, x, order, outer, Added(clauses, t))
<1> DEFINE f == Full(o, low, lowOp, <<x>>, "none", order, clauses)
<1>1. ~AwaitsOperand(f)
  BY DEF Full, AwaitsOperand
<1>0. f = Full(o, low, lowOp, <<x>>, "none", order, clauses)
  OBVIOUS
<1> HIDE DEF f
<1>2. [f EXCEPT !.clauses = Append(@, t)] = Full(o, low, lowOp, <<x>>, "none", order, Append(clauses, t))
  <2> DEFINE v == Append(f.clauses, t)
  <2>1. f.clauses = clauses
    BY <1>0 DEF Full
  <2> HIDE DEF v
  <2> DEFINE high == <<x>>
             none == "none"
  <2>2. f = Full(o, low, lowOp, high, none, order, clauses)
    BY <1>0
  <2> HIDE DEF high, none
  <2>3. [f EXCEPT !.clauses = v] = Full(o, low, lowOp, high, none, order, v)
    BY <2>2 DEF Full
  <2> QED BY <2>1, <2>3 DEF v, high, none
<1>3. Reader(f, outer).frame = f /\ Reader(f, outer).outer = outer /\ ~Reader(f, outer).refuses
  BY DEF Reader
<1>4. Takes(d, Reader(f, outer), t)
  BY <1>1, <1>3 DEF Takes, PageToken, Opener
<1>5. ReadToken(d, Reader(f, outer), t) = Reader([f EXCEPT !.clauses = Append(@, t)], outer)
  BY <1>3, <1>4 DEF ReadToken, PageToken, Opener
<1> QED BY <1>2, <1>5 DEF f, Paged, Added

LEMMA ClausesRead ==
  ASSUME NEW d, NEW o, NEW low, NEW lowOp, NEW x, NEW order, NEW outer,
         NEW l, NEW n
  PROVE  ReadOn(d, Paged(o, low, lowOp, x, order, outer, <<>>), RenderLimitOffset(d, l, n))
           = Paged(o, low, lowOp, x, order, outer, RenderLimitOffset(d, l, n))
<1> DEFINE text == RenderLimitOffset(d, l, n)
           At(c) == Paged(o, low, lowOp, x, order, outer, c)
<1>1. ASSUME NEW c, NEW t, PageToken(t) PROVE ReadToken(d, At(c), t) = At(Added(c, t))
  BY <1>1, ClauseRead
<1>2. \/ text = <<>>
      \/ \E t : PageToken(t) /\ text = <<t>>
      \/ \E t, u : PageToken(t) /\ PageToken(u) /\ text = <<t, u>>
  <2>1. \A m : PageToken(Limit(m)) /\ PageToken(Offset(m))
    BY DEF PageToken, Limit, Offset
  <2>2. CASE n = None
    <3>1. text = <<>> \/ \E m : text = <<Limit(m)>>
      BY <2>2 DEF RenderLimitOffset
    <3> QED BY <2>1, <3>1
  <2>3. CASE n # None
    <3> DEFINE m == IF l # None THEN l ELSE OffsetWithoutLimit(d)
    <3>1. text = <<>> \o <<Offset(n)>> \/ text = <<Limit(m)>> \o <<Offset(n)>>
      BY <2>3 DEF RenderLimitOffset
    <3>2. <<>> \o <<Offset(n)>> = <<Offset(n)>>
      OBVIOUS
    <3>3. <<Limit(m)>> \o <<Offset(n)>> = <<Limit(m), Offset(n)>>
      BY TwoClauses
    <3> HIDE DEF m
    <3> QED BY <2>1, <3>1, <3>2, <3>3
  <2> QED BY <2>2, <2>3
<1> HIDE DEF text, At
<1>3. CASE text = <<>>
  BY <1>3, ReadNone DEF text, At
<1>0. \A t : Added(<<>>, t) = <<t>>
  BY DEF Added
<1>4. ASSUME NEW t, PageToken(t), text = <<t>> PROVE ReadOn(d, At(<<>>), text) = At(text)
  <2>1. ReadOn(d, At(<<>>), <<t>>) = ReadToken(d, At(<<>>), t)
    BY ReadOne
  <2>2. ReadToken(d, At(<<>>), t) = At(<<t>>)
    BY <1>0, <1>1, <1>4
  <2> QED BY <1>4, <2>1, <2>2
<1>5. ASSUME NEW t, NEW u, PageToken(t), PageToken(u), text = <<t, u>>
      PROVE  ReadOn(d, At(<<>>), text) = At(text)
  <2> DEFINE a == <<t>>
             b == <<u>>
  <2>0. Append(a, u) = <<t, u>>
    <3> DEFINE c == Append(a, u)
               e == <<t, u>>
    <3>1. c \in Seq({t, u}) /\ e \in Seq({t, u}) /\ Len(c) = 2 /\ Len(e) = 2
      OBVIOUS
    <3>2. c[1] = e[1] /\ c[2] = e[2]
      OBVIOUS
    <3> HIDE DEF c, e
    <3>3. \A i \in 1 .. Len(c) : c[i] = e[i]
      BY <3>1, <3>2
    <3>4. c = e
      BY <3>1, <3>3, SeqEqual
    <3> QED BY <3>4 DEF c, e
  <2>1. a \in Seq({t, u}) /\ b \in Seq({t, u}) /\ Added(a, u) = <<t, u>>
    BY <2>0 DEF Added
  <2>2. ReadOn(d, At(<<>>), a) = At(a)
    <3>1. ReadOn(d, At(<<>>), a) = ReadToken(d, At(<<>>), t)
      BY ReadOne
    <3>2. ReadToken(d, At(<<>>), t) = At(Added(<<>>, t))
      BY <1>1, <1>5
    <3> QED BY <1>0, <3>1, <3>2
  <2>3. a \o b = text
    BY <1>5, TwoClauses
  <2>4. ReadOn(d, At(a), b) = ReadToken(d, At(a), u)
    BY ReadOne
  <2> HIDE DEF a, b
  <2>5. ReadToken(d, At(a), u) = At(text)
    BY <1>1, <1>5, <2>1
  <2>6. ReadOn(d, At(<<>>), a \o b) = ReadOn(d, ReadOn(d, At(<<>>), a), b)
    BY <2>1, ReadJoined
  <2> QED BY <2>2, <2>3, <2>4, <2>5, <2>6
<1> QED BY <1>2, <1>3, <1>4, <1>5 DEF text, At

Opening(d) == OpenGroup(d).tok
Group(d) == Frame(Opening(d))

LEMMA Openings ==
  ASSUME NEW d
  PROVE  /\ OpenGroup(d) = [tok |-> Opening(d)] /\ Opening(d) \in Opener /\ Opening(d) \in Opens(d)
         /\ Opening(d) # "count("
BY DEF OpenGroup, Opening, Opener, Opens, ParenthesizedSetOpBranches

\* A group opened: the frame read so far waits outside.
LEMMA Opened ==
  ASSUME NEW d, NEW f, NEW outer, NEW t, t.tok \in Opener, t.tok \in Opens(d)
  PROVE  ReadToken(d, Reader(f, outer), t) = Reader(Frame(t.tok), Append(outer, f))
<1>1. Reader(f, outer).frame = f /\ Reader(f, outer).outer = outer /\ ~Reader(f, outer).refuses
  BY DEF Reader
<1>2. Takes(d, Reader(f, outer), t)
  BY <1>1 DEF Takes, Opener
<1> QED BY <1>1, <1>2 DEF ReadToken, Opener

\* A select read where an operand is awaited.
LEMMA SelectRead ==
  ASSUME NEW d, NEW o, NEW outer, NEW name, NEW columns
  PROVE  ReadToken(d, Reader(Frame(o), outer), [tok |-> "select", arg |-> name, columns |-> columns])
           = Reader(Plain(o, <<>>, "none", Leaf(name, columns)), outer)
<1> DEFINE r == Reader(Frame(o), outer)
           t == [tok |-> "select", arg |-> name, columns |-> columns]
           x == Leaf(name, columns)
<1>1. r.frame = Frame(o) /\ r.outer = outer /\ ~r.refuses
  BY DEF Reader
<1>2. t.tok = "select" /\ t.arg = name /\ t.columns = columns
  OBVIOUS
<1> HIDE DEF r, t
<1>3. Takes(d, r, t)
  BY <1>1, <1>2, FrameIs DEF Takes, Opener
<1>4. ReadToken(d, r, t) = Reader(Operand(Frame(o), x), outer)
  BY <1>1, <1>2, <1>3 DEF ReadToken, Opener
<1>5. Operand(Frame(o), x) = Plain(o, <<>>, "none", x)
  BY FrameIs
<1> QED BY <1>4, <1>5 DEF r, t

\* What is read of a query that is over: its tree, with the ordering and the
\* page said after it.
LEMMA QueryClosed ==
  ASSUME NEW d, NEW o, NEW low, NEW lowOp, NEW x, NEW order, NEW clauses, NEW f,
         f = Full(o, low, lowOp, <<x>>, "none", order, clauses),
         ReadPage(d, clauses) # Rejected,
         o = "count(" => DerivedTable(d, Reduced(f).columns)
  PROVE  /\ Closes(d, f)
         /\ o # "count(" => Closed(d, f) = Whole(Reduced(f), order, ReadPage(d, clauses))
         /\ o = "count(" => Closed(d, f) =
              [op |-> "count", of |-> <<Whole(Reduced(f), order, ReadPage(d, clauses))>>]
<1>1. ~AwaitsOperand(f) /\ f.clauses = clauses /\ f.order = order /\ f.opener = o
  BY DEF Full, AwaitsOperand
<1>2. Closes(d, f)
  BY <1>1 DEF Closes
<1> QED BY <1>1, <1>2 DEF Closed

\* A group closed is an operand of the frame around it.
LEMMA GroupClosed ==
  ASSUME NEW d, NEW S, NEW outer \in Seq(S), NEW around, NEW f, AwaitsOperand(around), Closes(d, f)
  PROVE  ReadToken(d, Reader(f, Append(outer, around)), Close) = Reader(Operand(around, Closed(d, f)), outer)
<1> DEFINE out == Append(outer, around)
           r == Reader(f, out)
<1>1. out # <<>> /\ Front(out) = outer /\ Last(out) = around
  BY FrontAndLast
<1>2. r.frame = f /\ r.outer = out /\ ~r.refuses
  BY DEF Reader
<1>3. Close.tok = ")"
  BY DEF Close
<1> HIDE DEF r, out
<1>4. Takes(d, r, Close)
  BY <1>1, <1>2, <1>3 DEF Takes, Opener
<1>5. ReadToken(d, r, Close) = Reader(Operand(Last(out), Closed(d, f)), Front(out))
  BY <1>2, <1>3, <1>4 DEF ReadToken, Opener
<1> QED BY <1>1, <1>5 DEF r, out

LEMMA NothingSaid ==
  ASSUME NEW d \in Dialect
  PROVE  ReadPage(d, <<>>) = WholeResult /\ WholeResult # Rejected
         /\ \A x : Whole(x, <<>>, ReadPage(d, <<>>)) = x
<1>1. RenderLimitOffset(d, None, None) = <<>>
  BY DEF RenderLimitOffset
<1>2. ReadPage(d, <<>>) = Page(None, 0)
  BY <1>1, PageReadIsPageWritten
<1>3. Page(None, 0) # Rejected
  BY PagingAssumption DEF Page
<1> QED BY <1>2, <1>3 DEF WholeResult, Whole

LEMMA PageIsRead ==
  ASSUME NEW d \in Dialect, NEW l \in RowCount \cup {None}, NEW n \in RowCount \cup {None}
  PROVE  /\ ReadPage(d, RenderLimitOffset(d, l, n)) = PageOf(l, n)
         /\ PageOf(l, n) # Rejected
<1>1. ReadPage(d, RenderLimitOffset(d, l, n)) = PageOf(l, n)
  BY PageReadIsPageWritten DEF PageOf
<1>2. PageOf(l, n) \in [limit : Int \cup {None}, offset : Int]
  BY Width DEF PageOf, Page, RowCount
<1> QED BY <1>1, <1>2, PagingAssumption
-----------------------------------------------------------------------------
\* The tokens of a chain's text.
Word == {OpenGroup(d) : d \in Dialect} \cup {Close, [tok |-> "count("]}
          \cup {[tok |-> "select", arg |-> b.name, columns |-> b.columns] : b \in Branch}
          \cup [tok : {"op", "order", "limit", "offset"}, arg : SetOpKind \cup {Ordering} \cup Int]

LEMMA ClausesAreWords ==
  ASSUME NEW d \in Dialect, NEW l \in RowCount \cup {None}, NEW n \in RowCount \cup {None}
  PROVE  RenderLimitOffset(d, l, n) \in Seq(Word)
<1>1. ASSUME NEW m \in Int PROVE Limit(m) \in Word /\ Offset(m) \in Word
  BY DEF Word, Limit, Offset
<1>2. /\ l # None => l \in Int
      /\ n # None => n \in Int
      /\ OffsetWithoutLimit(d) # None => OffsetWithoutLimit(d) \in Int
  BY Width DEF RowCount, OffsetWithoutLimit, U64Max, Dialect
<1> DEFINE a == CASE l # None -> <<Limit(l)>>
                  [] l = None /\ n # None /\ OffsetWithoutLimit(d) # None ->
                       <<Limit(OffsetWithoutLimit(d))>>
                  [] OTHER -> <<>>
           b == IF n # None THEN <<Offset(n)>> ELSE <<>>
<1>3. a \in Seq(Word)
  <2> HIDE DEF a
  <2>1. CASE l # None
    <3>1. a = <<Limit(l)>>
      BY <2>1 DEF a
    <3> QED BY <1>1, <1>2, <2>1, <3>1
  <2>2. CASE l = None /\ n # None /\ OffsetWithoutLimit(d) # None
    <3>1. a = <<Limit(OffsetWithoutLimit(d))>>
      BY <2>2 DEF a
    <3> QED BY <1>1, <1>2, <2>2, <3>1
  <2>3. CASE l = None /\ ~(n # None /\ OffsetWithoutLimit(d) # None)
    <3>1. a = <<>>
      BY <2>3 DEF a
    <3> QED BY <3>1
  <2> QED BY <2>1, <2>2, <2>3
<1>4. b \in Seq(Word)
  BY <1>1, <1>2
<1> HIDE DEF a, b
<1>5. a \o b \in Seq(Word)
  BY <1>3, <1>4, ConcatProperties
<1> QED BY <1>5 DEF RenderLimitOffset, a, b

BranchWords(d, b) ==
  /\ RenderLimitOffset(d, b.limit, b.offset) \in Seq(Word)
  /\ BranchText(d, b) \in Seq(Word)
  /\ <<OpenGroup(d)>> \o BranchText(d, b) \in Seq(Word)
  /\ RenderBranch(d, b) \in Seq(Word)

LEMMA BranchesAreWords ==
  ASSUME NEW d \in Dialect, NEW b \in Branch
  PROVE  BranchWords(d, b) /\ {b.limit, b.offset} \subseteq RowCount \cup {None}
<1>1. {b.limit, b.offset} \subseteq RowCount \cup {None}
  BY SetOperationAssumption DEF RowCount
<1> DEFINE page == RenderLimitOffset(d, b.limit, b.offset)
           name == <<[tok |-> "select", arg |-> b.name, columns |-> b.columns]>>
           open == <<OpenGroup(d)>>
           close == <<Close>>
<1>2. page \in Seq(Word)
  BY <1>1, ClausesAreWords
<1>3. name \in Seq(Word) /\ open \in Seq(Word) /\ close \in Seq(Word)
  BY DEF Word
<1> HIDE DEF page, name, open, close
<1>4. name \o page \in Seq(Word)
  BY <1>2, <1>3, ConcatProperties
<1>5. open \o (name \o page) \in Seq(Word)
  BY <1>3, <1>4, ConcatProperties
<1>6. (open \o (name \o page)) \o close \in Seq(Word)
  BY <1>3, <1>5, ConcatProperties
<1> QED BY <1>1, <1>2, <1>4, <1>5, <1>6 DEF BranchWords, RenderBranch, BranchText, page, name, open, close

\* A branch, in its group, is read as what its call means.
LEMMA BranchRead ==
  ASSUME NEW d \in Dialect, NEW b \in Branch, NEW S, NEW outer \in Seq(S), NEW f, AwaitsOperand(f)
  PROVE  ReadOn(d, Reader(f, outer), RenderBranch(d, b)) = Reader(Operand(f, Meaning(b)), outer)
<1> DEFINE page == RenderLimitOffset(d, b.limit, b.offset)
           select == [tok |-> "select", arg |-> b.name, columns |-> b.columns]
           leaf == Leaf(b.name, b.columns)
           g == Opening(d)
           out == Append(outer, f)
           end == Full(g, <<>>, "none", <<leaf>>, "none", <<>>, page)
<1>1. BranchWords(d, b) /\ b.limit \in RowCount \cup {None} /\ b.offset \in RowCount \cup {None}
  BY BranchesAreWords
<1>2. ReadOn(d, Reader(Frame(g), out), BranchText(d, b)) = Reader(end, out)
  <2>1. select \in Word /\ page \in Seq(Word) /\ BranchText(d, b) = <<select>> \o page
    BY <1>1 DEF BranchWords, BranchText, Word
  <2>2. ReadToken(d, Reader(Frame(g), out), select) = Paged(g, <<>>, "none", leaf, <<>>, out, <<>>)
    BY SelectRead DEF Plain, Paged
  <2>3. ReadOn(d, Paged(g, <<>>, "none", leaf, <<>>, out, <<>>), page)
          = Paged(g, <<>>, "none", leaf, <<>>, out, page)
    BY ClausesRead
  <2> HIDE DEF page, select, out, g
  <2>4. ReadOn(d, Reader(Frame(g), out), <<select>> \o page)
          = ReadOn(d, ReadToken(d, Reader(Frame(g), out), select), page)
    BY <2>1, ReadNext
  <2> QED BY <2>1, <2>2, <2>3, <2>4 DEF Paged
<1>3. ReadToken(d, Reader(f, outer), OpenGroup(d)) = Reader(Frame(g), out)
  <2>1. OpenGroup(d).tok = g /\ g \in Opener /\ g \in Opens(d)
    BY Openings DEF Opening
  <2> HIDE DEF g
  <2> QED BY <2>1, Opened
<1>4. Closes(d, end) /\ Closed(d, end) = Meaning(b)
  <2>1. ReadPage(d, page) = PageOf(b.limit, b.offset) /\ ReadPage(d, page) # Rejected
    BY <1>1, PageIsRead
  <2>2. g # "count("
    BY Openings
  <2>3. Reduced(end) = leaf
    BY DEF Reduced, Full
  <2>4. end = Full(g, <<>>, "none", <<leaf>>, "none", <<>>, page)
    OBVIOUS
  <2> HIDE DEF page, g, end
  <2>5. Closes(d, end) /\ Closed(d, end) = Whole(Reduced(end), <<>>, ReadPage(d, page))
    BY <2>1, <2>2, <2>4, QueryClosed
  <2> QED BY <2>1, <2>3, <2>5 DEF Meaning
<1>5. ReadToken(d, Reader(end, out), Close) = Reader(Operand(f, Meaning(b)), outer)
  <2> HIDE DEF end
  <2> QED BY <1>4, GroupClosed
<1> HIDE DEF end, out, g
<1> DEFINE open == <<OpenGroup(d)>>
           text == BranchText(d, b)
           close == <<Close>>
           start == open \o text
<1>6. start \in Seq(Word) /\ text \in Seq(Word) /\ close \in Seq(Word) /\ OpenGroup(d) \in Word
  BY <1>1 DEF BranchWords, Word
<1>7. ReadOn(d, Reader(f, outer), start) = Reader(end, out)
  <2> HIDE DEF text
  <2>1. ReadOn(d, Reader(f, outer), <<OpenGroup(d)>> \o text) = ReadOn(d, ReadToken(d, Reader(f, outer), OpenGroup(d)), text)
    BY <1>6, ReadNext
  <2> QED BY <1>2, <1>3, <2>1 DEF text
<1>8. ReadOn(d, Reader(end, out), close) = ReadToken(d, Reader(end, out), Close)
  BY ReadOne
<1> HIDE DEF open, text, close, start
<1>9. ReadOn(d, Reader(f, outer), start \o close) = ReadOn(d, ReadOn(d, Reader(f, outer), start), close)
  BY <1>6, ReadJoined
<1>10. RenderBranch(d, b) = start \o close
  BY DEF RenderBranch, open, text, close, start
<1> QED BY <1>5, <1>7, <1>8, <1>9, <1>10 DEF start

\* An operator that binds tighter than UNION and EXCEPT.
Tight(d, op) == op = "INTERSECT" /\ IntersectBindsTighter(d)

\* What it does to a frame with an operand, and what another does.
LEMMA TightOperator ==
  ASSUME NEW d, NEW p, NEW low, NEW lowOp, NEW h, NEW op, NEW f, f = Plain(p, low, lowOp, h), Tight(d, op)
  PROVE  Operator(d, f, op) = Full(p, low, lowOp, <<h>>, op, <<>>, <<>>)
<1> DEFINE high == <<h>>
           none == "none"
           nil == <<>>
<1>1. f = Full(p, low, lowOp, high, none, nil, nil)
  BY DEF Plain
<1>2. Operator(d, f, op) = [f EXCEPT !.highOp = op]
  BY DEF Operator, Tight
<1> HIDE DEF high, none, nil
<1>3. [f EXCEPT !.highOp = op] = Full(p, low, lowOp, high, op, nil, nil)
  BY <1>1 DEF Full
<1> QED BY <1>2, <1>3 DEF high, none, nil

LEMMA LooseOperator ==
  ASSUME NEW d, NEW p, NEW low, NEW lowOp, NEW h, NEW op, NEW f, NEW x,
         f = Plain(p, low, lowOp, h), ~Tight(d, op), x = Reduced(f)
  PROVE  Operator(d, f, op) = Full(p, <<x>>, op, <<>>, "none", <<>>, <<>>)
<1> DEFINE high == <<h>>
           none == "none"
           nil == <<>>
           y == <<x>>
           g == [f EXCEPT !.low = y]
           k == [g EXCEPT !.lowOp = op]
<1>1. f = Full(p, low, lowOp, high, none, nil, nil)
  BY DEF Plain
<1>2. Operator(d, f, op) = [f EXCEPT !.low = y, !.lowOp = op, !.high = nil]
  BY DEF Operator, Tight
<1> HIDE DEF high, none, nil, y
<1>3. [f EXCEPT !.low = y, !.lowOp = op, !.high = nil] = [k EXCEPT !.high = nil]
  OBVIOUS
<1>4. g = Full(p, y, lowOp, high, none, nil, nil)
  BY <1>1 DEF Full
<1> HIDE DEF g
<1>5. k = Full(p, y, op, high, none, nil, nil)
  BY <1>4 DEF Full
<1> HIDE DEF k
<1>6. [k EXCEPT !.high = nil] = Full(p, y, op, nil, none, nil, nil)
  BY <1>5 DEF Full
<1> QED BY <1>2, <1>3, <1>6 DEF high, none, nil, y

\* A frame whose operands are x so far, the last operator of them being op.
Stands(d, p, op, x, f) ==
  \E low, lowOp, h : /\ f = Plain(p, low, lowOp, h) /\ Reduced(f) = x
                     /\ low = <<>> \/ ~Tight(d, op)

LEMMA ReducedAlone ==
  ASSUME NEW p, NEW lowOp, NEW h
  PROVE  Reduced(Plain(p, <<>>, lowOp, h)) = h
BY DEF Reduced, Plain, Full

LEMMA ReducedIs ==
  ASSUME NEW p, NEW low, NEW lowOp, NEW h
  PROVE  Reduced(Plain(p, <<low>>, lowOp, h)) = Node(lowOp, low, h)
BY DEF Reduced, Plain, Full

LEMMA FreshStands ==
  ASSUME NEW d, NEW o, NEW op, NEW x
  PROVE  Stands(d, o, op, x, Operand(Frame(o), x))
<1>1. Operand(Frame(o), x) = Plain(o, <<>>, "none", x)
  BY FrameIs
<1>2. Reduced(Plain(o, <<>>, "none", x)) = x
  BY ReducedAlone
<1> QED BY <1>1, <1>2 DEF Stands

\* An operator and the operand after it: one combination more.
LEMMA OperationStands ==
  ASSUME NEW d, NEW p, NEW op \in SetOpKind, NEW x, NEW y, NEW f, Stands(d, p, op, x, f)
  PROVE  /\ AwaitsOperand(Operator(d, f, op))
         /\ Stands(d, p, op, Node(op, x, y), Operand(Operator(d, f, op), y))
<1>1. PICK low, lowOp, h : /\ f = Plain(p, low, lowOp, h) /\ Reduced(f) = x
                           /\ low = <<>> \/ ~Tight(d, op)
  BY DEF Stands
<1> DEFINE none == "none"
           g == Operator(d, f, op)
<1>2. op # none
  BY DEF SetOpKind
<1>3. CASE Tight(d, op)
  <2> DEFINE high == <<h>>
             nil == <<>>
  <2>1. g = Full(p, nil, lowOp, high, op, nil, nil)
    <3>1. Operator(d, f, op) = Full(p, low, lowOp, <<h>>, op, <<>>, <<>>)
      BY <1>1, <1>3, TightOperator
    <3>2. low = <<>>
      BY <1>1, <1>3
    <3> QED BY <3>1, <3>2
  <2>2. AwaitsOperand(g)
    BY <1>2, <2>1 DEF AwaitsOperand, Full
  <2>3. Extended(high, op, y) = <<Node(op, h, y)>>
    BY DEF Extended
  <2>4. h = x
    BY <1>1, <1>3, ReducedAlone
  <2> HIDE DEF g, high, nil
  <2>5. Operand(g, y) = Full(p, nil, lowOp, Extended(high, op, y), none, nil, nil)
    BY <2>1, OperandIs
  <2>6. Operand(g, y) = Plain(p, <<>>, lowOp, Node(op, x, y))
    BY <2>3, <2>4, <2>5 DEF Plain, nil
  <2>7. Reduced(Operand(g, y)) = Node(op, x, y)
    BY <2>6, ReducedAlone
  <2> QED BY <2>2, <2>6, <2>7 DEF Stands, g
<1>4. CASE ~Tight(d, op)
  <2> DEFINE lower == <<x>>
             nil == <<>>
  <2>1. g = Full(p, lower, op, nil, none, nil, nil)
    <3>1. Operator(d, f, op) = Full(p, <<x>>, op, <<>>, "none", <<>>, <<>>)
      BY <1>1, <1>4, LooseOperator
    <3> QED BY <3>1
  <2>2. AwaitsOperand(g)
    BY <2>1 DEF AwaitsOperand, Full
  <2>3. Extended(nil, none, y) = <<y>>
    BY DEF Extended
  <2> HIDE DEF g, lower, nil
  <2>4. Operand(g, y) = Full(p, lower, op, Extended(nil, none, y), none, nil, nil)
    BY <2>1, OperandIs
  <2>5. Operand(g, y) = Plain(p, <<x>>, op, y)
    BY <2>3, <2>4 DEF Plain, nil, lower
  <2>6. Reduced(Operand(g, y)) = Node(op, x, y)
    BY <2>5, ReducedIs
  <2> QED BY <1>4, <2>2, <2>5, <2>6 DEF Stands, g
<1> QED BY <1>3, <1>4

LEMMA StandsOpen ==
  ASSUME NEW d, NEW p, NEW op, NEW x, NEW f, Stands(d, p, op, x, f)
  PROVE  ~AwaitsOperand(f) /\ NoClauseYet(f) /\ Reduced(f) = x
<1>1. PICK low, lowOp, h : f = Plain(p, low, lowOp, h) /\ Reduced(f) = x
  BY DEF Stands
<1> QED BY <1>1 DEF Plain, Full, AwaitsOperand, NoClauseYet

\* A query over, with nothing said of its result, is its operands combined.
LEMMA StandsClosed ==
  ASSUME NEW d \in Dialect, NEW p, NEW op, NEW x, NEW f, Stands(d, p, op, x, f),
         p = "count(" => DerivedTable(d, x.columns)
  PROVE  /\ Closes(d, f)
         /\ p # "count(" => Closed(d, f) = x
         /\ p = "count(" => Closed(d, f) = [op |-> "count", of |-> <<x>>]
<1>1. PICK low, lowOp, h : f = Plain(p, low, lowOp, h) /\ Reduced(f) = x
  BY DEF Stands
<1> DEFINE nil == <<>>
<1>2. f = Full(p, low, lowOp, <<h>>, "none", nil, nil)
  BY <1>1 DEF Plain
<1>3. ReadPage(d, nil) # Rejected /\ Whole(x, nil, ReadPage(d, nil)) = x
  BY NothingSaid
<1> HIDE DEF nil
<1> QED BY <1>1, <1>2, <1>3, QueryClosed

\* An operator and the branch after it, read.
LEMMA OperationRead ==
  ASSUME NEW d \in Dialect, NEW b \in Branch, NEW S, NEW outer \in Seq(S),
         NEW p, NEW op \in SetOpKind, NEW x, NEW f, Stands(d, p, op, x, f)
  PROVE  \E g : /\ ReadOn(d, Reader(f, outer), <<[tok |-> "op", arg |-> op]>> \o RenderBranch(d, b))
                     = Reader(g, outer)
                /\ Stands(d, p, op, Node(op, x, Meaning(b)), g)
<1> DEFINE t == [tok |-> "op", arg |-> op]
           r == Reader(f, outer)
           h == Operator(d, f, op)
           text == RenderBranch(d, b)
<1>1. r.frame = f /\ r.outer = outer /\ ~r.refuses /\ t.tok = "op" /\ t.arg = op
  BY DEF Reader
<1>2. t \in Word /\ text \in Seq(Word)
  <2>1. t \in Word
    BY DEF Word
  <2>2. text \in Seq(Word)
    BY BranchesAreWords DEF BranchWords
  <2> QED BY <2>1, <2>2
<1>3. ReadToken(d, r, t) = Reader(h, outer)
  <2> HIDE DEF r, t, h
  <2>1. Takes(d, r, t)
    BY <1>1, StandsOpen DEF Takes, Opener
  <2> QED BY <1>1, <2>1 DEF ReadToken, Opener, h
<1> DEFINE y == Meaning(b)
           g == Operand(h, y)
<1> HIDE DEF y
<1>4. AwaitsOperand(h) /\ Stands(d, p, op, Node(op, x, y), g)
  BY OperationStands
<1> HIDE DEF r, t, h, text
<1>5. ReadOn(d, r, <<t>> \o text) = ReadOn(d, ReadToken(d, r, t), text)
  BY <1>2, ReadNext
<1>6. ReadOn(d, Reader(h, outer), text) = Reader(g, outer)
  BY <1>4, BranchRead DEF text, y
<1> QED BY <1>3, <1>4, <1>5, <1>6 DEF r, t, text, y
-----------------------------------------------------------------------------
(***************************************************************************)
(* The groups opened before the first branch.                              *)
(***************************************************************************)
Bases == {Frame("statement")}
Innermost(d, o, m) == IF m = 0 THEN o ELSE Opening(d)
Outside(d, o, out, m) ==
  [j \in 1 .. (Len(out) + m) |->
     IF j <= Len(out) THEN out[j] ELSE Frame(Innermost(d, o, j - Len(out) - 1))]
Blank(d, o) == {Frame(o), Frame(Opening(d)), Frame("statement")}

LEMMA OutsideGrows ==
  ASSUME NEW d, NEW o, NEW out \in Seq(Bases), NEW m \in Nat
  PROVE  /\ Outside(d, o, out, m) \in Seq(Blank(d, o))
         /\ Added(Outside(d, o, out, m), Frame(Innermost(d, o, m))) = Outside(d, o, out, m + 1)
         /\ Outside(d, o, out, 0) = out
<1> DEFINE L == Len(out)
           a == Outside(d, o, out, m)
           e == Frame(Innermost(d, o, m))
           b == Outside(d, o, out, m + 1)
           S == Blank(d, o)
<1>1. L \in Nat /\ out \in [1 .. L -> Bases]
  BY LenProperties
<1>2. \A k \in Nat : Frame(Innermost(d, o, k)) \in S
  BY DEF Innermost, Blank
<1>3. Bases \subseteq S
  BY DEF Blank, Bases
<1> HIDE DEF L, S
<1>4. ASSUME NEW k \in Nat
      PROVE  /\ Outside(d, o, out, k) \in Seq(S) /\ Len(Outside(d, o, out, k)) = L + k
             /\ \A j \in 1 .. (L + k) : Outside(d, o, out, k)[j] =
                  IF j <= L THEN out[j] ELSE Frame(Innermost(d, o, j - L - 1))
  <2> DEFINE s == Outside(d, o, out, k)
  <2>1. s = [j \in 1 .. (L + k) |-> IF j <= L THEN out[j] ELSE Frame(Innermost(d, o, j - L - 1))]
    BY DEF Outside, L
  <2> HIDE DEF s
  <2>2. ASSUME NEW j \in 1 .. (L + k)
        PROVE  (IF j <= L THEN out[j] ELSE Frame(Innermost(d, o, j - L - 1))) \in S
    <3>1. CASE j <= L
      <4>1. j \in 1 .. L
        BY <1>1, <3>1
      <4> QED BY <1>1, <1>3, <3>1, <4>1
    <3>2. CASE ~(j <= L)
      <4>1. j - L - 1 \in Nat
        BY <1>1, <3>2
      <4> QED BY <1>2, <3>2, <4>1
    <3> QED BY <3>1, <3>2
  <2>3. s \in [1 .. (L + k) -> S]
    BY <2>1, <2>2
  <2>4. L + k \in Nat
    BY <1>1
  <2>5. s \in Seq(S) /\ Len(s) = L + k
    BY <2>3, <2>4
  <2> QED BY <2>1, <2>5 DEF s
<1>5. a \in Seq(S) /\ Len(a) = L + m
  BY <1>4
<1>6. b \in Seq(S) /\ Len(b) = L + m + 1
  <2>1. m + 1 \in Nat
    OBVIOUS
  <2> HIDE DEF b
  <2>2. Outside(d, o, out, m + 1) \in Seq(S) /\ Len(Outside(d, o, out, m + 1)) = L + (m + 1)
    BY <1>4, <2>1
  <2> QED BY <1>1, <2>2 DEF b
<1>7. ASSUME NEW j \in 1 .. (L + m) PROVE b[j] = a[j]
  <2>1. m + 1 \in Nat /\ j \in 1 .. (L + (m + 1))
    BY <1>1
  <2> QED BY <1>4, <2>1
<1>8. b[L + m + 1] = e
  <2>1. m + 1 \in Nat /\ L + m + 1 \in 1 .. (L + (m + 1)) /\ ~(L + m + 1 <= L) /\ (L + m + 1) - L - 1 = m
    BY <1>1
  <2>2. b[L + m + 1] = Frame(Innermost(d, o, (L + m + 1) - L - 1))
    BY <1>4, <2>1
  <2> QED BY <2>1, <2>2
<1>9. e \in S
  BY <1>2
<1> HIDE DEF a, b, e
<1>10. /\ Append(a, e) \in Seq(S) /\ Len(Append(a, e)) = L + m + 1
       /\ Append(a, e)[L + m + 1] = e
       /\ \A j \in 1 .. (L + m) : Append(a, e)[j] = a[j]
  BY <1>1, <1>5, <1>9, AppendProperties
<1>11. Append(a, e) = b
  <2>1. \A j \in 1 .. (L + m + 1) : j \in 1 .. (L + m) \/ j = L + m + 1
    BY <1>1
  <2>2. \A j \in 1 .. (L + m + 1) : Append(a, e)[j] = b[j]
    BY <1>7, <1>8, <1>10, <2>1
  <2> QED BY <1>6, <1>10, <2>2, SeqEqual
<1>12. Outside(d, o, out, 0) = out
  <2> DEFINE z == Outside(d, o, out, 0)
  <2>1. 0 \in Nat /\ L + 0 = L
    BY <1>1
  <2>2. z \in Seq(S) /\ Len(z) = L /\ \A j \in 1 .. L : z[j] = out[j]
    <3>1. z \in Seq(S) /\ Len(z) = L + 0
      BY <1>4, <2>1
    <3>2. \A j \in 1 .. (L + 0) : z[j] = IF j <= L THEN out[j] ELSE Frame(Innermost(d, o, j - L - 1))
      BY <1>4, <2>1
    <3> HIDE DEF z
    <3> QED BY <1>1, <2>1, <3>1, <3>2
  <2>3. out \in Seq(S)
    BY <1>3
  <2> HIDE DEF z
  <2>4. z = out
    BY <2>2, <2>3, SeqEqual DEF L
  <2> QED BY <2>4 DEF z
<1> QED BY <1>5, <1>11, <1>12 DEF a, b, e, S, Added

LEMMA OutsideMore ==
  ASSUME NEW d, NEW o, NEW out \in Seq(Bases), NEW m \in Nat
  PROVE  Added(Outside(d, o, out, m), Frame(Innermost(d, o, m))) = Outside(d, o, out, m + 1)
<1>1. /\ Outside(d, o, out, m) \in Seq(Blank(d, o))
      /\ Added(Outside(d, o, out, m), Frame(Innermost(d, o, m))) = Outside(d, o, out, m + 1)
      /\ Outside(d, o, out, 0) = out
  BY OutsideGrows, Zenon
<1> QED BY <1>1, Zenon

LEMMA GroupsOpened ==
  ASSUME NEW d \in Dialect, NEW o, NEW out \in Seq(Bases), NEW k \in Nat
  PROVE  /\ [i \in 1 .. k |-> OpenGroup(d)] \in Seq(Word)
         /\ ReadOn(d, Reader(Frame(o), out), [i \in 1 .. k |-> OpenGroup(d)])
              = Reader(Frame(Innermost(d, o, k)), Outside(d, o, out, k))
<1> DEFINE groups == [i \in 1 .. k |-> OpenGroup(d)]
           r == Reader(Frame(o), out)
           At(m) == Reader(Frame(Innermost(d, o, m)), Outside(d, o, out, m))
<1>1. OpenGroup(d) \in Word
  BY DEF Word
<1>2. groups \in Seq(Word) /\ Len(groups) = k /\ \A i \in 1 .. k : groups[i] = OpenGroup(d)
  BY <1>1
<1> HIDE DEF groups
<1>3. PICK acc : ReadThrough(d, r, groups, acc)
  BY <1>2, ReadThroughSteps
<1> DEFINE R == {m \in 0 .. k : acc[m] = At(m)}
<1>4. 0 \in R
  <2>1. Innermost(d, o, 0) = o /\ Outside(d, o, out, 0) = out
    BY OutsideGrows DEF Innermost
  <2> QED BY <1>3, <2>1 DEF ReadThrough
<1>5. ASSUME NEW m \in 1 .. k, m - 1 \in R PROVE m \in R
  <2>1. m - 1 \in Nat /\ (m - 1) + 1 = m /\ m \in 0 .. k /\ m # 0
    OBVIOUS
  <2>2. acc[m] = ReadToken(d, acc[m - 1], OpenGroup(d))
    BY <1>2, <1>3 DEF ReadThrough
  <2> DEFINE f == Frame(Innermost(d, o, m - 1))
             outer == Outside(d, o, out, m - 1)
  <2>3. acc[m - 1] = Reader(f, outer)
    BY <1>5
  <2>4. Append(outer, f) = Outside(d, o, out, m)
    <3> DEFINE l == m - 1
    <3> HIDE DEF l
    <3>1. l \in Nat /\ l + 1 = m
      BY <2>1 DEF l
    <3>2. Added(Outside(d, o, out, l), Frame(Innermost(d, o, l))) = Outside(d, o, out, l + 1)
      BY <3>1, OutsideMore
    <3> QED BY <3>1, <3>2 DEF l, Added
  <2>5. Innermost(d, o, m) = Opening(d)
    BY <2>1 DEF Innermost
  <2>6. OpenGroup(d).tok = Opening(d) /\ Opening(d) \in Opener /\ Opening(d) \in Opens(d)
    BY Openings DEF Opening
  <2> HIDE DEF f, outer
  <2>7. ReadToken(d, Reader(f, outer), OpenGroup(d)) = Reader(Frame(Opening(d)), Append(outer, f))
    BY <2>6, Opened
  <2> QED BY <2>1, <2>2, <2>3, <2>4, <2>5, <2>7
<1> HIDE DEF R
<1>6. 0 .. k \subseteq R
  BY <1>4, <1>5, Upwards
<1>7. k \in R
  BY <1>6
<1>8. acc[k] = At(k) /\ ReadOn(d, r, groups) = acc[k]
  BY <1>2, <1>3, <1>7 DEF R, ReadThrough
<1> QED BY <1>2, <1>8 DEF groups

ChainPart == [kind : SetOpKind, branch : Branch]

Written(d, text, i) == text \o AppendedText(d, i)

TextByTable(d, places, it, N) ==
  it = [s \in SUBSET (1 .. N) |->
          IF s = {} THEN <<>> ELSE Written(d, it[s \ {Max(s)}], places[Max(s)])]

LEMMA TextByTables ==
  ASSUME NEW d, NEW places, NEW N \in Nat
  PROVE  \E it : TextByTable(d, places, it, N)
<1> DEFINE S == {n \in Nat : \E it : TextByTable(d, places, it, n)}
<1>1. 0 \in S
  <2>1. \A s \in SUBSET (1 .. 0) : s = {}
    OBVIOUS
  <2>2. TextByTable(d, places, [s \in SUBSET (1 .. 0) |-> <<>>], 0)
    BY <2>1 DEF TextByTable
  <2> QED BY <2>2
<1>2. ASSUME NEW n \in Nat, n \in S PROVE n + 1 \in S
  <2>1. PICK it : TextByTable(d, places, it, n)
    BY <1>2
  <2> DEFINE more == [s \in SUBSET (1 .. (n + 1)) |->
                        IF n + 1 \in s THEN Written(d, it[s \ {n + 1}], places[n + 1]) ELSE it[s]]
  <2>2. ASSUME NEW s \in SUBSET (1 .. (n + 1))
        PROVE  more[s] = IF s = {} THEN <<>> ELSE Written(d, more[s \ {Max(s)}], places[Max(s)])
    <3>1. CASE n + 1 \in s
      <4>1. Max(s) = n + 1
        <5>1. n + 1 \in Nat /\ s # {}
          BY <3>1
        <5>2. Max(s) \in s /\ n + 1 <= Max(s)
          BY <3>1, <5>1, Greatest
        <5>3. Max(s) \in 1 .. (n + 1)
          BY <5>2
        <5> HIDE DEF more
        <5> QED BY <5>2, <5>3
      <4>2. s \ {n + 1} \in SUBSET (1 .. (n + 1)) /\ n + 1 \notin s \ {n + 1}
        OBVIOUS
      <4>3. more[s \ {n + 1}] = it[s \ {n + 1}]
        BY <4>2
      <4> QED BY <3>1, <4>1, <4>3
    <3>2. CASE n + 1 \notin s
      <4>1. s \in SUBSET (1 .. n) /\ more[s] = it[s]
        BY <3>2
      <4>2. it[s] = IF s = {} THEN <<>> ELSE Written(d, it[s \ {Max(s)}], places[Max(s)])
        BY <2>1, <4>1 DEF TextByTable
      <4>3. s \ {Max(s)} \in SUBSET (1 .. (n + 1)) /\ n + 1 \notin s \ {Max(s)}
        BY <3>2
      <4>4. more[s \ {Max(s)}] = it[s \ {Max(s)}]
        BY <4>3
      <4> QED BY <4>1, <4>2, <4>4
    <3> QED BY <3>1, <3>2
  <2>3. more = [s \in SUBSET (1 .. (n + 1)) |-> more[s]]
    OBVIOUS
  <2> HIDE DEF more
  <2>4. TextByTable(d, places, more, n + 1)
    BY <2>2, <2>3 DEF TextByTable
  <2> QED BY <2>4
<1> HIDE DEF S
<1>3. N \in S
  BY <1>1, <1>2, EveryNumber
<1> QED BY <1>3 DEF S

\* The text of the branches after the first, one more of them each.
TextBy(d, places, acc) ==
  /\ acc[0] = <<>> /\ acc[Len(places)] = FoldLeft(LAMBDA text, i : text \o AppendedText(d, i), <<>>, places)
  /\ \A n \in 1 .. Len(places) : acc[n] = Written(d, acc[n - 1], places[n])

LEMMA TextBySteps ==
  ASSUME NEW d, NEW places, NEW S, places \in Seq(S)
  PROVE  \E acc : TextBy(d, places, acc)
<1> DEFINE N == Len(places)
<1>1. N \in Nat /\ DOMAIN places = 1 .. N
  OBVIOUS
<1> HIDE DEF N
<1>2. PICK it : TextByTable(d, places, it, N)
  BY <1>1, TextByTables
<1> DEFINE iter == CHOOSE iter : iter = [s \in SUBSET DOMAIN places |->
           IF s = {} THEN <<>> ELSE Written(d, iter[s \ {Max(s)}], places[Max(s)])]
<1>3. it = [s \in SUBSET DOMAIN places |->
           IF s = {} THEN <<>> ELSE Written(d, it[s \ {Max(s)}], places[Max(s)])]
  BY <1>1, <1>2 DEF TextByTable
<1>4. iter = [s \in SUBSET DOMAIN places |->
           IF s = {} THEN <<>> ELSE Written(d, iter[s \ {Max(s)}], places[Max(s)])]
  BY <1>3
<1>5. FoldLeft(LAMBDA text, i : text \o AppendedText(d, i), <<>>, places) = iter[DOMAIN places]
  BY Zenon DEF FoldLeft, MapThenFoldSet, Written
<1> HIDE DEF iter
<1> DEFINE acc == [n \in 0 .. N |-> iter[1 .. n]]
<1>6. acc[0] = <<>> /\ acc[N] = FoldLeft(LAMBDA text, i : text \o AppendedText(d, i), <<>>, places)
  <2>1. {} \in SUBSET DOMAIN places /\ 1 .. 0 = {} /\ 0 \in 0 .. N /\ N \in 0 .. N
    BY <1>1
  <2>2. iter[{}] = <<>>
    BY <1>4, <2>1
  <2> QED BY <1>1, <1>5, <2>1, <2>2
<1>7. ASSUME NEW n \in 1 .. N
      PROVE  acc[n] = Written(d, acc[n - 1], places[n])
  <2>1. n \in Nat /\ n # 0 /\ n \in 0 .. N /\ n - 1 \in 0 .. N
    BY <1>1
  <2>2. 1 .. n # {} /\ Max(1 .. n) = n /\ (1 .. n) \ {n} = 1 .. (n - 1)
    BY <2>1, Intervals
  <2>3. 1 .. n \in SUBSET DOMAIN places
    BY <1>1
  <2>4. iter[1 .. n] = Written(d, iter[1 .. (n - 1)], places[n])
    BY <1>4, <2>2, <2>3
  <2> QED BY <2>1, <2>4
<1> HIDE DEF acc
<1> QED BY <1>6, <1>7 DEF TextBy, N

-----------------------------------------------------------------------------
(***************************************************************************)
(* How many groups are open around a branch: one for each operator after   *)
(* it that is another than the one before.                                 *)
(***************************************************************************)
Later(i) == {j \in DOMAIN rest : Changes(j) /\ j > i}
Pending(i) == Cardinality(Later(i))

LEMMA PendingFalls ==
  ASSUME NEW S, rest \in Seq(S)
  PROVE  /\ \A i \in 0 .. Len(rest) : Pending(i) \in Nat
         /\ Pending(Len(rest)) = 0
         /\ Pending(0) = Cardinality({i \in DOMAIN rest : Changes(i)})
         /\ \A i \in 1 .. Len(rest) :
              Pending(i - 1) = IF Changes(i) THEN Pending(i) + 1 ELSE Pending(i)
<1> DEFINE N == Len(rest)
<1>1. N \in Nat /\ DOMAIN rest = 1 .. N
  BY LenProperties
<1> HIDE DEF N
<1>2. IsFiniteSet(1 .. N)
  BY <1>1, FS_Interval
<1>3. \A i : IsFiniteSet(Later(i))
  <2>1. \A i : Later(i) \in SUBSET (1 .. N)
    BY <1>1 DEF Later
  <2> QED BY <1>2, <2>1, FS_Subset
<1>4. \A i : Pending(i) \in Nat
  BY <1>3, FS_CardinalityType DEF Pending
<1>5. Pending(N) = 0
  <2>1. Later(N) = {}
    BY <1>1 DEF Later
  <2> QED BY <2>1, FS_EmptySet DEF Pending
<1>6. Later(0) = {i \in DOMAIN rest : Changes(i)}
  BY <1>1 DEF Later
<1>7. ASSUME NEW i \in 1 .. N
      PROVE  Pending(i - 1) = IF Changes(i) THEN Pending(i) + 1 ELSE Pending(i)
  <2>1. i \notin Later(i)
    BY <1>1 DEF Later
  <2>2. CASE Changes(i)
    <3>1. Later(i - 1) = Later(i) \cup {i}
      BY <1>1, <2>2 DEF Later
    <3> QED BY <1>3, <2>1, <2>2, <3>1, FS_AddElement DEF Pending
  <2>3. CASE ~Changes(i)
    <3>1. Later(i - 1) = Later(i)
      BY <1>1, <2>3 DEF Later
    <3> QED BY <2>3, <3>1 DEF Pending
  <2> QED BY <2>2, <2>3
<1> QED BY <1>4, <1>5, <1>6, <1>7 DEF N, Pending

LEMMA AppendedIsWords ==
  ASSUME NEW d \in Dialect, rest \in Seq(ChainPart), NEW i \in 1 .. Len(rest)
  PROVE  /\ AppendedText(d, i) \in Seq(Word)
         /\ rest[i].branch \in Branch /\ rest[i].kind \in SetOpKind
         /\ <<[tok |-> "op", arg |-> rest[i].kind]>> \o RenderBranch(d, rest[i].branch) \in Seq(Word)
         /\ (IF Changes(i) THEN <<Close>> ELSE <<>>) \in Seq(Word)
<1>1. rest[i] \in ChainPart
  BY ElementOfSeq
<1>2. rest[i].branch \in Branch /\ rest[i].kind \in SetOpKind
  BY <1>1 DEF ChainPart
<1> DEFINE a == IF Changes(i) THEN <<Close>> ELSE <<>>
           b == <<[tok |-> "op", arg |-> rest[i].kind]>>
           c == RenderBranch(d, rest[i].branch)
<1>3. a \in Seq(Word)
  <2>1. Close \in Word
    BY DEF Word
  <2> QED BY <2>1
<1>4. b \in Seq(Word)
  BY <1>2 DEF Word
<1>5. c \in Seq(Word)
  BY <1>2, BranchesAreWords DEF BranchWords
<1>6. AppendedText(d, i) = (a \o b) \o c
  BY DEF AppendedText
<1> HIDE DEF a, b, c
<1>7. a \o b \in Seq(Word) /\ b \o c \in Seq(Word)
  BY <1>3, <1>4, <1>5, ConcatProperties
<1>8. (a \o b) \o c \in Seq(Word)
  BY <1>5, <1>7, ConcatProperties
<1> QED BY <1>2, <1>3, <1>6, <1>7, <1>8 DEF a, b, c

KindAt(i) == IF i = 0 THEN "INTERSECT" ELSE rest[i].kind

\* The reader after i branches more than the first.
ReadUpTo(d, o, out, i, x, reader) ==
  \E f : /\ reader = Reader(f, Outside(d, o, out, Pending(i)))
         /\ Stands(d, Innermost(d, o, Pending(i)), KindAt(i), x, f)

LEMMA ReadFurther ==
  ASSUME NEW d \in Dialect, NEW o, NEW out \in Seq(Bases), rest \in Seq(ChainPart),
         NEW i \in 1 .. Len(rest), NEW x, NEW reader, ReadUpTo(d, o, out, i - 1, x, reader)
  PROVE  ReadUpTo(d, o, out, i, Node(rest[i].kind, x, Meaning(rest[i].branch)),
                  ReadOn(d, reader, AppendedText(d, i)))
<1> DEFINE m == Pending(i)
           n == Pending(i - 1)
           op == rest[i].kind
           b == rest[i].branch
           p == Innermost(d, o, m)
           outer == Outside(d, o, out, m)
<1>1. /\ m \in Nat /\ n = IF Changes(i) THEN m + 1 ELSE m
      /\ i # 0 /\ i - 1 \in Nat /\ KindAt(i) = op
  <2>1. i \in 0 .. Len(rest) /\ i # 0 /\ i - 1 \in Nat
    OBVIOUS
  <2>2. m \in Nat /\ n = IF Changes(i) THEN m + 1 ELSE m
    BY <2>1, PendingFalls
  <2>3. KindAt(i) = op
    BY <2>1 DEF KindAt
  <2> HIDE DEF m, n, op
  <2> QED BY <2>1, <2>2, <2>3
<1>2. op \in SetOpKind /\ b \in Branch
  BY AppendedIsWords
<1>3. outer \in Seq(Blank(d, o))
  BY <1>1, OutsideGrows
<1>4. PICK f : /\ reader = Reader(f, Outside(d, o, out, n))
               /\ Stands(d, Innermost(d, o, n), KindAt(i - 1), x, f)
  BY DEF ReadUpTo
<1> DEFINE shut == IF Changes(i) THEN <<Close>> ELSE <<>>
<1>5. \E g : /\ ReadOn(d, reader, shut) = Reader(g, outer)
             /\ Stands(d, p, op, x, g)
  <2>1. CASE Changes(i)
    <3> DEFINE around == Frame(Innermost(d, o, m))
    <3>1. n = m + 1 /\ n # 0
      BY <1>1, <2>1
    <3>2. Innermost(d, o, n) = Opening(d) /\ Opening(d) # "count("
      BY <3>1, Openings DEF Innermost
    <3>3. Outside(d, o, out, n) = Append(outer, around)
      <4>1. Added(Outside(d, o, out, m), Frame(Innermost(d, o, m))) = Outside(d, o, out, m + 1)
        BY <1>1, OutsideMore
      <4> QED BY <3>1, <4>1 DEF Added
    <3>4. Closes(d, f) /\ Closed(d, f) = x
      BY <1>4, <3>2, StandsClosed
    <3>5. AwaitsOperand(around)
      BY FrameIs
    <3> HIDE DEF around, outer
    <3>6. ReadToken(d, Reader(f, Append(outer, around)), Close) = Reader(Operand(around, Closed(d, f)), outer)
      BY <1>3, <3>4, <3>5, GroupClosed DEF outer
    <3>7. ReadOn(d, reader, <<Close>>) = Reader(Operand(around, x), outer)
      BY <1>4, <3>3, <3>4, <3>6, ReadOne
    <3>8. Stands(d, p, op, x, Operand(around, x))
      BY FreshStands DEF around
    <3> QED BY <2>1, <3>7, <3>8
  <2>2. CASE ~Changes(i)
    <3>1. n = m
      BY <1>1, <2>2
    <3>2. ReadOn(d, reader, shut) = Reader(f, outer)
      BY <1>4, <2>2, <3>1, ReadNone
    <3>3. Tight(d, op) => Tight(d, KindAt(i - 1))
      <4>1. CASE i = 1
        BY <4>1 DEF KindAt, Tight
      <4>2. CASE i # 1
        <5>1. i > 1 /\ i - 1 # 0
          BY <4>2
        <5>2. rest[i - 1].kind = op
          BY <2>2, <5>1 DEF Changes
        <5> QED BY <5>1, <5>2 DEF KindAt
      <4> QED BY <4>1, <4>2
    <3>4. Stands(d, p, op, x, f)
      <4>1. Stands(d, p, KindAt(i - 1), x, f)
        BY <1>4, <3>1
      <4> QED BY <3>3, <4>1 DEF Stands
    <3> QED BY <3>2, <3>4
  <2> QED BY <2>1, <2>2
<1>6. PICK g : /\ ReadOn(d, reader, shut) = Reader(g, outer)
               /\ Stands(d, p, op, x, g)
  BY <1>5
<1> DEFINE more == <<[tok |-> "op", arg |-> op]>> \o RenderBranch(d, b)
<1> HIDE DEF p, outer
<1>7. PICK h : /\ ReadOn(d, Reader(g, outer), more) = Reader(h, outer)
               /\ Stands(d, p, op, Node(op, x, Meaning(b)), h)
  BY <1>2, <1>3, <1>6, OperationRead
<1>8. shut \in Seq(Word) /\ more \in Seq(Word)
  BY AppendedIsWords
<1>9. AppendedText(d, i) = shut \o more
  <2> DEFINE mid == <<[tok |-> "op", arg |-> op]>>
             branch == RenderBranch(d, b)
  <2>1. mid \in Seq(Word) /\ branch \in Seq(Word)
    <3>1. mid \in Seq(Word)
      BY <1>2 DEF Word
    <3>2. branch \in Seq(Word)
      BY <1>2, BranchesAreWords DEF BranchWords
    <3> QED BY <3>1, <3>2
  <2>2. AppendedText(d, i) = (shut \o mid) \o branch /\ more = mid \o branch
    BY DEF AppendedText
  <2> HIDE DEF shut, mid, branch, more
  <2>3. (shut \o mid) \o branch = shut \o (mid \o branch)
    BY <1>8, <2>1, ConcatAssociative
  <2> QED BY <2>2, <2>3
<1> HIDE DEF shut, more
<1>10. ReadOn(d, reader, shut \o more) = ReadOn(d, ReadOn(d, reader, shut), more)
  BY <1>8, ReadJoined
<1>11. ReadOn(d, reader, AppendedText(d, i)) = Reader(h, outer)
  BY <1>6, <1>7, <1>9, <1>10
<1> QED BY <1>1, <1>7, <1>11 DEF ReadUpTo, p, outer

\* The branches read, from a frame with nothing in it: what the calls mean.
LEMMA BranchesRead ==
  ASSUME NEW d \in Dialect, NEW o, NEW out \in Seq(Bases), rest \in Seq(ChainPart), first \in Branch
  PROVE  /\ RenderBranches(d) \in Seq(Word)
         /\ \E op, f : /\ ReadOn(d, Reader(Frame(o), out), RenderBranches(d)) = Reader(f, out)
                       /\ Stands(d, o, op, LeftFold, f)
<1> DEFINE N == Len(rest)
           P == Pending(0)
           places == [i \in DOMAIN rest |-> i]
           tail == FoldLeft(LAMBDA text, i : text \o AppendedText(d, i), <<>>, places)
           opens == [i \in 1 .. P |-> OpenGroup(d)]
           branch == RenderBranch(d, first)
           head == opens \o branch
           start == Reader(Frame(o), out)
<1>1. N \in Nat /\ DOMAIN rest = 1 .. N
  BY LenProperties
<1>2. places \in Seq(Nat) /\ Len(places) = N /\ \A i \in 1 .. N : places[i] = i
  BY <1>1
<1> HIDE DEF places
<1>3. PICK text : TextBy(d, places, text)
  BY <1>2, TextBySteps
<1>4. PICK tree : LeftFoldBy(Meaning(first), rest, tree)
  BY LeftFoldBySteps
<1>5. P \in Nat
  <2>1. 0 \in 0 .. N
    BY <1>1
  <2> QED BY <2>1, PendingFalls
<1>6. opens \in Seq(Word) /\ ReadOn(d, start, opens) = Reader(Frame(Innermost(d, o, P)), Outside(d, o, out, P))
  BY <1>5, GroupsOpened
<1>7. branch \in Seq(Word)
  BY BranchesAreWords DEF BranchWords
<1> HIDE DEF opens, branch, start, P
<1>8. head \in Seq(Word)
  BY <1>6, <1>7, ConcatProperties
<1>9. ReadUpTo(d, o, out, 0, Meaning(first), ReadOn(d, start, head))
  <2> DEFINE around == Frame(Innermost(d, o, P))
             outer == Outside(d, o, out, P)
             y == Meaning(first)
  <2>1. ReadOn(d, start, head) = ReadOn(d, Reader(around, outer), branch)
    BY <1>6, <1>7, ReadJoined
  <2>2. outer \in Seq(Blank(d, o)) /\ AwaitsOperand(around)
    BY <1>5, OutsideGrows, FrameIs
  <2>3. Stands(d, Innermost(d, o, P), KindAt(0), y, Operand(around, y))
    BY FreshStands
  <2> HIDE DEF around, outer
  <2>4. ReadOn(d, Reader(around, outer), branch) = Reader(Operand(around, y), outer)
    BY <2>2, BranchRead DEF branch
  <2> QED BY <2>1, <2>3, <2>4 DEF ReadUpTo, P, outer
<1> HIDE DEF head
<1> DEFINE R == {i \in 0 .. N : /\ text[i] \in Seq(Word)
                                /\ ReadUpTo(d, o, out, i, tree[i], ReadOn(d, ReadOn(d, start, head), text[i]))}
<1>10. 0 \in R
  <2>1. text[0] = <<>> /\ tree[0] = Meaning(first)
    BY <1>3, <1>4 DEF TextBy, LeftFoldBy
  <2>2. ReadOn(d, ReadOn(d, start, head), <<>>) = ReadOn(d, start, head)
    BY ReadNone
  <2>3. 0 \in 0 .. N /\ <<>> \in Seq(Word)
    BY <1>1
  <2> QED BY <1>9, <2>1, <2>2, <2>3
<1>11. ASSUME NEW i \in 1 .. N, i - 1 \in R PROVE i \in R
  <2> DEFINE more == AppendedText(d, i)
             mid == ReadOn(d, ReadOn(d, start, head), text[i - 1])
  <2>0. i \in 0 .. N
    BY <1>1
  <2>1. text[i] = text[i - 1] \o more /\ tree[i] = Node(rest[i].kind, tree[i - 1], Meaning(rest[i].branch))
    BY <1>2, <1>3, <1>4 DEF TextBy, LeftFoldBy, Written, Combined
  <2>2. more \in Seq(Word) /\ text[i - 1] \in Seq(Word)
    BY <1>11, AppendedIsWords
  <2>3. ReadUpTo(d, o, out, i, tree[i], ReadOn(d, mid, more))
    <3>1. ReadUpTo(d, o, out, i - 1, tree[i - 1], mid)
      BY <1>11
    <3> HIDE DEF mid
    <3> QED BY <2>1, <3>1, ReadFurther
  <2> HIDE DEF more
  <2>4. text[i] \in Seq(Word)
    BY <2>1, <2>2, ConcatProperties
  <2>5. ReadOn(d, ReadOn(d, start, head), text[i - 1] \o more) = ReadOn(d, mid, more)
    BY <2>2, ReadJoined
  <2> QED BY <2>0, <2>1, <2>3, <2>4, <2>5
<1>12. N \in R
  <2> HIDE DEF R
  <2>1. 0 .. N \subseteq R
    BY <1>1, <1>10, <1>11, Upwards
  <2>2. N \in 0 .. N
    BY <1>1
  <2> QED BY <2>1, <2>2
<1>13. text[N] = tail /\ tree[N] = LeftFold
  BY <1>2, <1>3, <1>4 DEF TextBy, LeftFoldBy, LeftFold
<1> HIDE DEF tail
<1>14. RenderBranches(d) = head \o tail
  <2>1. P = Cardinality({i \in DOMAIN rest : Changes(i)})
    BY PendingFalls DEF P
  <2> QED BY <2>1 DEF RenderBranches, head, opens, branch, tail, places
<1>15. RenderBranches(d) \in Seq(Word)
  BY <1>8, <1>12, <1>13, <1>14, ConcatProperties
<1>16. ReadOn(d, start, head \o tail) = ReadOn(d, ReadOn(d, start, head), tail)
  BY <1>8, <1>12, <1>13, ReadJoined
<1>17. PICK f : /\ ReadOn(d, start, RenderBranches(d)) = Reader(f, Outside(d, o, out, Pending(N)))
                /\ Stands(d, Innermost(d, o, Pending(N)), KindAt(N), LeftFold, f)
  BY <1>12, <1>13, <1>14, <1>16 DEF ReadUpTo
<1>18. Pending(N) = 0 /\ Innermost(d, o, 0) = o /\ Outside(d, o, out, 0) = out
  <2>1. Pending(N) = 0
    BY PendingFalls
  <2>2. 0 \in Nat
    OBVIOUS
  <2> QED BY <2>1, <2>2, OutsideGrows DEF Innermost
<1> QED BY <1>15, <1>17, <1>18 DEF start
-----------------------------------------------------------------------------
\* The clauses after the branches apply to the whole chain.
LEMMA OrderingRead ==
  ASSUME NEW d \in Dialect, NEW p, p # "count(", NEW op, NEW x, NEW f, NEW outer, Stands(d, p, op, x, f),
         limit \in RowCount \cup {None}, offset \in RowCount \cup {None}
  PROVE  \E g : /\ ReadOn(d, Reader(f, outer), RenderOrdering(d)) = Reader(g, outer)
                /\ Closes(d, g) /\ Closed(d, g) = Whole(x, Ordering, PageOf(limit, offset))
<1> DEFINE page == RenderLimitOffset(d, limit, offset)
           t == [tok |-> "order", arg |-> Ordering]
<1>1. PICK low, lowOp, h : f = Plain(p, low, lowOp, h) /\ Reduced(f) = x
  BY DEF Stands
<1> DEFINE g(order) == Full(p, low, lowOp, <<h>>, "none", order, page)
           At(order, clauses) == Paged(p, low, lowOp, h, order, outer, clauses)
<1>2. ASSUME NEW order
      PROVE  /\ Closes(d, g(order))
             /\ Closed(d, g(order)) = Whole(x, order, PageOf(limit, offset))
             /\ ReadOn(d, At(order, <<>>), page) = Reader(g(order), outer)
  <2> DEFINE end == g(order)
  <2>1. ReadPage(d, page) = PageOf(limit, offset) /\ ReadPage(d, page) # Rejected
    BY PageIsRead
  <2>2. Reduced(end) = x
    <3>1. Reduced(end) = Reduced(f)
      BY <1>1 DEF Reduced, Plain, Full
    <3> QED BY <1>1, <3>1
  <2>3. end = Full(p, low, lowOp, <<h>>, "none", order, page)
    OBVIOUS
  <2>4. ReadOn(d, At(order, <<>>), page) = Reader(end, outer)
    BY ClausesRead DEF Paged
  <2> HIDE DEF page, end
  <2>5. Closes(d, end) /\ Closed(d, end) = Whole(Reduced(end), order, ReadPage(d, page))
    BY <2>1, <2>3, QueryClosed
  <2>6. Closed(d, end) = Whole(x, order, PageOf(limit, offset))
    BY <2>1, <2>2, <2>5
  <2> QED BY <2>4, <2>5, <2>6 DEF end
<1>3. Reader(f, outer) = At(<<>>, <<>>)
  BY <1>1 DEF Plain, Paged
<1>4. page \in Seq(Word)
  BY ClausesAreWords
<1>5. CASE orderBy = <<>>
  <2>1. Ordering = <<>>
    BY <1>5 DEF Ordering
  <2> DEFINE nil == <<>>
  <2>2. RenderOrdering(d) = nil \o page
    BY <1>5 DEF RenderOrdering
  <2>3. nil \in Seq(Word) /\ ReadOn(d, Reader(f, outer), nil) = Reader(f, outer)
    BY ReadNone
  <2> HIDE DEF nil, page
  <2>4. ReadOn(d, Reader(f, outer), nil \o page) = ReadOn(d, ReadOn(d, Reader(f, outer), nil), page)
    BY <1>4, <2>3, ReadJoined
  <2>5. ReadOn(d, Reader(f, outer), RenderOrdering(d)) = ReadOn(d, At(<<>>, <<>>), page)
    BY <1>3, <2>2, <2>3, <2>4
  <2> HIDE DEF g, At
  <2> QED BY <1>2, <2>1, <2>5
<1>6. CASE orderBy # <<>>
  <2>1. RenderOrdering(d) = <<t>> \o page
    BY <1>6 DEF RenderOrdering, Ordering
  <2>2. t \in Word
    BY DEF Word
  <2>3. ReadToken(d, Reader(f, outer), t) = At(Ordering, <<>>)
    <3> DEFINE r == Reader(f, outer)
               high == <<h>>
               none == "none"
               nil == <<>>
               order == Ordering
    <3>1. r.frame = f /\ r.outer = outer /\ ~r.refuses /\ t.tok = "order" /\ t.arg = order
      BY DEF Reader
    <3>2. ~AwaitsOperand(f) /\ NoClauseYet(f)
      BY StandsOpen
    <3>3. f = Full(p, low, lowOp, high, none, nil, nil)
      BY <1>1 DEF Plain
    <3>4. At(order, nil) = Reader(Full(p, low, lowOp, high, none, order, nil), outer)
      BY DEF Paged
    <3> HIDE DEF r, t
    <3>5. Takes(d, r, t)
      BY <3>1, <3>2 DEF Takes, Opener
    <3>6. ReadToken(d, r, t) = Reader([f EXCEPT !.order = order], outer)
      BY <3>1, <3>5 DEF ReadToken, Opener
    <3> HIDE DEF high, none, nil, order, At
    <3>7. [f EXCEPT !.order = order] = Full(p, low, lowOp, high, none, order, nil)
      BY <3>3 DEF Full
    <3> QED BY <3>4, <3>6, <3>7 DEF r, order, nil
  <2> HIDE DEF page, t, g, At
  <2>4. ReadOn(d, Reader(f, outer), <<t>> \o page) = ReadOn(d, ReadToken(d, Reader(f, outer), t), page)
    BY <1>4, <2>2, ReadNext
  <2> QED BY <1>2, <2>1, <2>3, <2>4
<1> QED BY <1>5, <1>6

LEMMA OrderingIsWords ==
  ASSUME NEW d \in Dialect, limit \in RowCount \cup {None}, offset \in RowCount \cup {None}
  PROVE  RenderOrdering(d) \in Seq(Word)
<1> DEFINE page == RenderLimitOffset(d, limit, offset)
           a == IF orderBy = <<>> THEN <<>> ELSE <<[tok |-> "order", arg |-> Ordering]>>
<1>1. page \in Seq(Word)
  BY ClausesAreWords
<1>2. a \in Seq(Word)
  <2>1. [tok |-> "order", arg |-> Ordering] \in Word
    BY DEF Word
  <2> QED BY <2>1
<1>3. RenderOrdering(d) = a \o page
  BY DEF RenderOrdering, Ordering
<1> HIDE DEF page, a
<1> QED BY <1>1, <1>2, <1>3, ConcatProperties

\* A statement is read to its end.
LEMMA StatementRead ==
  ASSUME NEW d, NEW text, NEW f, Closes(d, f),
         ReadOn(d, Reader(Frame("statement"), <<>>), text) = Reader(f, <<>>)
  PROVE  Read(d, text) = Closed(d, f)
BY DEF Read, Reader

\* Whatever is asked of a chain is read by the server as its left fold.
LEMMA ChainReads ==
  ASSUME NEW d \in Dialect, rest \in Seq(ChainPart), first \in Branch,
         limit \in RowCount \cup {None}, offset \in RowCount \cup {None}
  PROVE  Read(d, ChainSql(d)) = Whole(LeftFold, Ordering, PageOf(limit, offset))
<1> DEFINE start == Reader(Frame("statement"), <<>>)
           nil == <<>>
           a == RenderBranches(d)
           b == RenderOrdering(d)
<1>1. nil \in Seq(Bases)
  OBVIOUS
<1> HIDE DEF nil
<1>2. a \in Seq(Word)
  BY <1>1, BranchesRead
<1>3. PICK op, f : /\ ReadOn(d, Reader(Frame("statement"), nil), a) = Reader(f, nil)
                   /\ Stands(d, "statement", op, LeftFold, f)
  BY <1>1, BranchesRead
<1>4. PICK g : /\ ReadOn(d, Reader(f, nil), b) = Reader(g, nil)
               /\ Closes(d, g) /\ Closed(d, g) = Whole(LeftFold, Ordering, PageOf(limit, offset))
  <2>1. "statement" # "count("
    OBVIOUS
  <2> QED BY <1>3, <2>1, OrderingRead
<1>5. b \in Seq(Word)
  BY OrderingIsWords
<1> HIDE DEF a, b
<1>6. ReadOn(d, Reader(Frame("statement"), nil), a \o b) = ReadOn(d, ReadOn(d, Reader(Frame("statement"), nil), a), b)
  BY <1>2, <1>5, ReadJoined
<1>7. ChainSql(d) = a \o b
  BY DEF ChainSql, a, b
<1>8. ReadOn(d, Reader(Frame("statement"), nil), ChainSql(d)) = Reader(g, nil)
  BY <1>3, <1>4, <1>6, <1>7
<1> QED BY <1>4, <1>8, StatementRead DEF nil

\* A combination's columns are its first branch's, whatever was combined.
LEMMA LeftFoldColumns ==
  ASSUME rest \in Seq(ChainPart)
  PROVE  LeftFold.columns = first.columns
<1> DEFINE N == Len(rest)
<1>1. N \in Nat
  BY LenProperties
<1>2. PICK tree : LeftFoldBy(Meaning(first), rest, tree)
  BY LeftFoldBySteps
<1> DEFINE R == {i \in 0 .. N : tree[i].columns = first.columns}
<1>3. 0 \in R
  <2>1. tree[0].columns = first.columns
    BY <1>2 DEF LeftFoldBy, Meaning, Whole, Query, Leaf
  <2> QED BY <1>1, <2>1
<1>4. ASSUME NEW i \in 1 .. N, i - 1 \in R PROVE i \in R
  <2>1. tree[i] = Node(rest[i].kind, tree[i - 1], Meaning(rest[i].branch))
    BY <1>2 DEF LeftFoldBy, Combined
  <2>2. tree[i].columns = tree[i - 1].columns
    BY <2>1 DEF Node
  <2>3. i \in 0 .. N
    BY <1>1
  <2> QED BY <1>4, <2>2, <2>3
<1> HIDE DEF N, R
<1>5. N \in R
  <2>1. 0 .. N \subseteq R
    BY <1>1, <1>3, <1>4, Upwards
  <2>2. N \in 0 .. N
    BY <1>1
  <2> QED BY <2>1, <2>2
<1>6. tree[N] = LeftFold
  BY <1>2 DEF LeftFoldBy, LeftFold, N
<1> QED BY <1>5, <1>6 DEF R

LEMMA CountReads ==
  ASSUME NEW d \in Dialect, rest \in Seq(ChainPart), first \in Branch, DerivedTable(d, first.columns)
  PROVE  Read(d, ChainCountSql(d)) = [op |-> "count", of |-> <<LeftFold>>]
<1> DEFINE nil == <<>>
           base == Frame("statement")
           around == Append(nil, base)
           t == [tok |-> "count("]
           a == RenderBranches(d)
           close == <<Close>>
           count == [op |-> "count", of |-> <<LeftFold>>]
<1>1. nil \in Seq(Bases) /\ around \in Seq(Bases)
  BY DEF Bases
<1>2. a \in Seq(Word)
  BY <1>1, BranchesRead
<1>3. PICK op, f : /\ ReadOn(d, Reader(Frame("count("), around), a) = Reader(f, around)
                   /\ Stands(d, "count(", op, LeftFold, f)
  BY <1>1, BranchesRead
<1>4. ReadToken(d, Reader(base, nil), t) = Reader(Frame("count("), around)
  <2>1. t.tok = "count(" /\ t.tok \in Opener /\ t.tok \in Opens(d)
    BY DEF Opener, Opens
  <2> HIDE DEF t, base, nil
  <2>2. ReadToken(d, Reader(base, nil), t) = Reader(Frame(t.tok), Append(nil, base))
    BY <2>1, Opened
  <2> QED BY <2>1, <2>2
<1>5. AwaitsOperand(base) /\ Closes(d, f) /\ Closed(d, f) = count
  <2>1. DerivedTable(d, LeftFold.columns)
    BY LeftFoldColumns, Zenon
  <2> QED BY <1>3, <2>1, FrameIs, StandsClosed
<1>6. t \in Word /\ close \in Seq(Word)
  BY DEF Word
<1>7. Stands(d, "statement", "UNION", count, Operand(base, count))
  BY FreshStands
<1> HIDE DEF nil, base
<1>8. ReadToken(d, Reader(f, around), Close) = Reader(Operand(base, Closed(d, f)), nil)
  BY <1>1, <1>5, GroupClosed
<1> DEFINE g == Operand(base, count)
<1> HIDE DEF around, t, a, count
<1>9. ReadOn(d, Reader(base, nil), <<t>> \o a) = ReadOn(d, ReadToken(d, Reader(base, nil), t), a)
  BY <1>2, <1>6, ReadNext
<1>10. ReadOn(d, Reader(f, around), close) = Reader(g, nil)
  BY <1>5, <1>8, ReadOne
<1> DEFINE open == <<t>>
           head == open \o a
<1>11. head \in Seq(Word)
  <2>1. open \in Seq(Word)
    BY <1>6
  <2> HIDE DEF open
  <2> QED BY <1>2, <2>1, ConcatProperties
<1> HIDE DEF close, g
<1>12. ReadOn(d, Reader(base, nil), head) = Reader(f, around)
  BY <1>3, <1>4, <1>9
<1> HIDE DEF open, head
<1>13. ReadOn(d, Reader(base, nil), head \o close) = ReadOn(d, ReadOn(d, Reader(base, nil), head), close)
  BY <1>6, <1>11, ReadJoined
<1>14. ChainCountSql(d) = head \o close
  BY DEF ChainCountSql, head, open, a, close, t
<1>15. ReadOn(d, Reader(base, nil), ChainCountSql(d)) = Reader(g, nil)
  BY <1>10, <1>12, <1>13, <1>14
<1>16. Closes(d, g) /\ Closed(d, g) = count
  <2>1. "statement" # "count("
    OBVIOUS
  <2> QED BY <1>7, <2>1, StandsClosed DEF g
<1> QED BY <1>15, <1>16, StatementRead DEF base, nil, count
-----------------------------------------------------------------------------
(***************************************************************************)
(* The chains the calls reach.                                             *)
(***************************************************************************)
OrderKey == [position : UNION {DOMAIN b.columns : b \in Branch}, key : Name]

\* Every branch has the first one's columns, and a key of the ORDER BY is one
\* of them alone: what the bounds SameShape and Field keep of a chain.
ChainIInv ==
  /\ first \in Branch \cup {None}
  /\ rest \in Seq(ChainPart)
  /\ orderBy \in Seq(OrderKey)
  /\ {limit, offset} \subseteq Counts \cup {None}
  /\ first = None => rest = <<>> /\ orderBy = <<>>
  /\ \A i \in DOMAIN rest : SameShape(rest[i].branch, first)
  /\ \A k \in DOMAIN orderBy :
       PositionsOf(first.columns, orderBy[k].key) = {orderBy[k].position}
-----------------------------------------------------------------------------
LEMMA ChainInitHolds == ChainInit => ChainIInv
BY DEF ChainInit, ChainIInv

\* A chain starts with two branches of one shape, and no ORDER BY.
LEMMA StartKeeps ==
  ASSUME ChainIInv, NEW kind \in SetOpKind, NEW a \in Branch, NEW b \in Branch, Start(kind, a, b)
  PROVE  ChainIInv'
<1>1. first' = a /\ SameShape(b, a) /\ orderBy' = <<>> /\ UNCHANGED <<limit, offset>>
  BY DEF Start, ChainIInv
<1>2. rest' = <<[kind |-> kind, branch |-> b]>> /\ [kind |-> kind, branch |-> b] \in ChainPart
  BY DEF Start, ChainPart
<1>3. a # None
  BY SetOperationAssumption
<1> QED BY <1>1, <1>2, <1>3 DEF ChainIInv, SameShape

\* A branch appended has the first one's shape, as the others have.
LEMMA PushKeeps ==
  ASSUME ChainIInv, NEW kind \in SetOpKind, NEW b \in Branch, PushBranch(kind, b)
  PROVE  ChainIInv'
<1> DEFINE part == [kind |-> kind, branch |-> b]
<1>1. /\ first # None /\ UNCHANGED <<first, orderBy, limit, offset>>
      /\ SameShape(b, first) /\ rest' = Append(rest, part)
  BY DEF PushBranch
<1>2. part \in ChainPart /\ part.branch = b
  BY DEF ChainPart
<1> HIDE DEF part
<1>3. rest \in Seq(ChainPart)
  BY DEF ChainIInv
<1>4. rest' \in Seq(ChainPart)
  BY <1>1, <1>2, <1>3, AppendProperties
<1>5. ASSUME NEW i \in DOMAIN rest' PROVE SameShape(rest'[i].branch, first)
  <2>1. (i \in DOMAIN rest /\ rest'[i] = rest[i]) \/ rest'[i] = part
    BY <1>1, <1>2, <1>3, <1>5, AppendProperties
  <2> QED BY <1>1, <1>2, <2>1 DEF ChainIInv
<1> QED BY <1>1, <1>4, <1>5 DEF ChainIInv, SameShape, PositionsOf

\* A key appended is of a column the first branch has once.
LEMMA OrderKeeps ==
  ASSUME ChainIInv, NEW key \in Name, OrderByColumn(key)
  PROVE  ChainIInv'
<1>1. PICK i \in PositionsOf(first.columns, key) :
        /\ PositionsOf(first.columns, key) = {i}
        /\ orderBy' = Append(orderBy, [position |-> i, key |-> key])
  BY DEF OrderByColumn
<1> DEFINE entry == [position |-> i, key |-> key]
<1>2. first \in Branch /\ UNCHANGED <<first, rest, limit, offset>>
  BY DEF OrderByColumn, ChainIInv
<1>3. entry \in OrderKey /\ entry.position = i /\ entry.key = key
  BY <1>2 DEF OrderKey, PositionsOf
<1>4. orderBy' = Append(orderBy, entry)
  BY <1>1
<1> HIDE DEF entry
<1>5. orderBy \in Seq(OrderKey)
  BY DEF ChainIInv
<1>6. orderBy' \in Seq(OrderKey)
  BY <1>3, <1>4, <1>5, AppendProperties
<1>7. ASSUME NEW k \in DOMAIN orderBy'
      PROVE  PositionsOf(first.columns, orderBy'[k].key) = {orderBy'[k].position}
  <2>1. (k \in DOMAIN orderBy /\ orderBy'[k] = orderBy[k]) \/ orderBy'[k] = entry
    BY <1>3, <1>4, <1>5, <1>7, AppendProperties
  <2> QED BY <1>1, <1>3, <2>1 DEF ChainIInv
<1>8. first # None
  BY DEF OrderByColumn
<1> QED BY <1>2, <1>6, <1>7, <1>8 DEF ChainIInv, SameShape

LEMMA ChainStepKeeps == ChainIInv /\ [ChainNext]_chainVars => ChainIInv'
<1> SUFFICES ASSUME ChainIInv, [ChainNext]_chainVars PROVE ChainIInv'
  OBVIOUS
<1>1. CASE \E kind \in SetOpKind, a, b \in Branch : Start(kind, a, b)
  BY <1>1, StartKeeps
<1>2. CASE \E kind \in SetOpKind, b \in Branch : PushBranch(kind, b)
  BY <1>2, PushKeeps
<1>3. CASE \E key \in Name : OrderByColumn(key)
  BY <1>3, OrderKeeps
<1>4. CASE (\E n \in Counts : SetLimit(n) \/ SetOffset(n)) \/ UNCHANGED chainVars
  BY <1>4 DEF SetLimit, SetOffset, chainVars, ChainIInv, SameShape, PositionsOf
<1> QED BY <1>1, <1>2, <1>3, <1>4 DEF ChainNext

\* The branches of a chain keep one shape, and its keys one place each in it
\* (SameShape, Field).
THEOREM ChainInvariance == ChainSpec => []ChainIInv
BY ChainInitHolds, ChainStepKeeps, PTL DEF ChainSpec

\* No chain, of any branches, sorts one branch's values as another column's:
\* a branch appended after the ORDER BY has the column at the position too
\* (order_by_column, union and its siblings).
THEOREM OrderedByItsColumn == ChainSpec => []OrderNamesItsColumn
<1>1. ChainIInv => OrderNamesItsColumn
  <2> SUFFICES ASSUME ChainIInv, NEW k \in DOMAIN orderBy,
                      NEW b \in {first} \cup {rest[i].branch : i \in DOMAIN rest}
               PROVE  PositionsOf(b.columns, orderBy[k].key) = {orderBy[k].position}
    BY DEF OrderNamesItsColumn
  <2>1. b.columns = first.columns
    BY DEF ChainIInv, SameShape
  <2> QED BY <2>1 DEF ChainIInv
<1> QED BY <1>1, ChainInvariance, PTL

LEMMA ChainTyped ==
  ASSUME ChainIInv, first # None
  PROVE  /\ first \in Branch /\ rest \in Seq(ChainPart)
         /\ limit \in RowCount \cup {None} /\ offset \in RowCount \cup {None}
BY SetOperationAssumption DEF ChainIInv, RowCount

\* No chain, of any branches and any number of them, means to a server another
\* combination than its calls spell, or has a page or an ordering anywhere but
\* where it was asked for (render_branches, open_group, render_ordering).
THEOREM ChainsReadAsLeftFold == ChainSpec => []ReadsAsLeftFold
<1>1. ChainIInv => ReadsAsLeftFold
  BY ChainTyped, ChainReads DEF ReadsAsLeftFold
<1> QED BY <1>1, ChainInvariance, PTL

\* The count of a chain, on MySQL of one whose columns have different names, is
\* of its whole combination, whatever page of it was asked for, and of its
\* branches' own pages (count_sql).
THEOREM ChainsAreCountedWhole == ChainSpec => []CountsTheWholeCombination
<1>1. ChainIInv => CountsTheWholeCombination
  BY ChainTyped, CountReads DEF CountsTheWholeCombination
<1> QED BY <1>1, ChainInvariance, PTL
=============================================================================
